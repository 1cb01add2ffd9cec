------------------------------ MODULE Counters ------------------------------
(***************************************************************************)
(* The lifetime counters.  Every write that has landed on disk is added to *)
(* .counters by _bump: a message may ride in its worker's _PENDING bucket, *)
(* a structural change (a room created or reaped, a topic written) is on   *)
(* disk before the write is answered.  Workers are processes that share    *)
(* the file and its lock alone; the handlers of one share its bucket.      *)
(* A structural change is known by its number, so that a counter is the    *)
(* size of the set of the changes it counts.                               *)
(***************************************************************************)
EXTENDS Integers, FiniteSets, Functions

CONSTANTS
    Workers,        \* worker processes
    Bumpers,        \* their handlers that write, and flush
    WorkerOf,       \* the process a handler runs in
    Unlocked,       \* .counters.lock is free
    Batch,          \* BATCH_MESSAGES
    CounterFaults,  \* what may fail: "crash", "replace"
    MaxChanges,     \* bound of the structural changes
    MaxMessages     \* bound of the messages

ASSUME CountersAssumption ==
    /\ IsFiniteSet(Workers) /\ IsFiniteSet(Bumpers)
    /\ WorkerOf \in [Bumpers -> Workers]
    /\ Unlocked \notin Bumpers
    /\ Batch \in Nat \ {0}
    /\ {MaxChanges, MaxMessages} \subseteq Nat

VARIABLES
    landed,     \* the disk: the structural changes and the messages it holds
    counted,    \* what .counters has counted of them
    pending,    \* _PENDING, by worker
    flock,      \* who holds .counters.lock
    hand,       \* the batch a writer took out of _PENDING
    wt,         \* the writers
    lost,       \* history: what crashes took before it was counted
    failed      \* history: the workers one of whose replaces failed

countVars == <<landed, counted, pending, flock, hand, wt, lost, failed>>

Change == 1..MaxChanges
Delta == [changes : SUBSET Change, messages : 0..MaxMessages]
Nothing == [changes |-> {}, messages |-> 0]
Plus(d, e) == [changes |-> d.changes \cup e.changes,
               messages |-> d.messages + e.messages]

WriterIdle == [pc |-> "idle", delta |-> Nothing]

\* A batch is in hand only under the lock or on its way back, and a writer
\* holds the lock only between taking and releasing it.
CountersTypeOK ==
    /\ landed \in Delta /\ counted \in Delta /\ lost \in Delta
    /\ pending \in [Workers -> Delta]
    /\ hand \in [Bumpers -> Delta]
    /\ flock \in Bumpers \cup {Unlocked}
    /\ wt \in [Bumpers -> [pc : {"idle", "bump", "lock", "pop", "replace", "return"},
                           delta : Delta]]
    /\ failed \subseteq Workers
    /\ \A t \in Bumpers : (wt[t].pc \in {"pop", "replace"}) <=> flock = t
    /\ \A t \in Bumpers : hand[t] # Nothing => wt[t].pc \in {"replace", "return"}

CountersInit ==
    /\ landed = Nothing /\ counted = Nothing /\ lost = Nothing
    /\ pending = [w \in Workers |-> Nothing]
    /\ hand = [t \in Bumpers |-> Nothing]
    /\ flock = Unlocked
    /\ wt = [t \in Bumpers |-> WriterIdle]
    /\ failed = {}

---------------------------------------------------------------------------
\* _bump.

WriterGoto(t, pc) == wt' = [wt EXCEPT ![t].pc = pc]
WriterDone(t) == wt' = [wt EXCEPT ![t] = WriterIdle]

Bump(t, delta) == wt' = [wt EXCEPT ![t] = [pc |-> "bump", delta |-> delta]]

\* The write itself: the record, the note or the deletion is on disk.
LandWrite(t) ==
    /\ wt[t].pc = "idle"
    /\ \E delta \in {[Nothing EXCEPT !.changes = {Cardinality(landed.changes) + 1}],
                     [Nothing EXCEPT !.messages = 1]} :
          /\ delta.changes \subseteq Change
          /\ landed.messages + delta.messages <= MaxMessages
          /\ landed' = Plus(landed, delta)
          /\ Bump(t, delta)
    /\ UNCHANGED <<counted, pending, flock, hand, lost, failed>>

\* A bump without deltas: _snapshot's, and the lifespan hook's on shutdown.
BeginFlush(t) ==
    /\ wt[t].pc = "idle" /\ \E w \in Workers : pending[w] # Nothing
    /\ Bump(t, Nothing)
    /\ UNCHANGED <<landed, counted, pending, flock, hand, lost, failed>>

OnlyMessages(delta) == delta.changes = {} /\ delta.messages > 0

\* Bug: a structural change waits for a batch like a message.
RidesAlong_Any(delta, bag) == delta # Nothing /\ bag.messages < Batch

\* A bump that is only messages rides along while the bucket is short of a batch.
RidesAlong(delta, bag) == OnlyMessages(delta) /\ bag.messages < Batch

\* Under _PENDING_LOCK.
Deposit(t) ==
    LET w == WorkerOf[t]
        bag == Plus(pending[w], wt[t].delta)
    IN  /\ wt[t].pc = "bump"
        /\ pending' = [pending EXCEPT ![w] = bag]
        /\ IF RidesAlong(wt[t].delta, bag)
           THEN WriterDone(t) ELSE WriterGoto(t, "lock")
        /\ UNCHANGED <<landed, counted, flock, hand, lost, failed>>

\* A message flush takes the lock without waiting and leaves its delta to the
\* next bump; every other bump waits for it.
LockCounters(t) ==
    /\ wt[t].pc = "lock"
    /\ \/ flock = Unlocked /\ flock' = t /\ WriterGoto(t, "pop")
       \/ flock # Unlocked /\ OnlyMessages(wt[t].delta)
             /\ flock' = flock /\ WriterDone(t)
    /\ UNCHANGED <<landed, counted, pending, hand, lost, failed>>

\* The batch leaves the bucket only with the lock held.
PopBatch(t) ==
    /\ wt[t].pc = "pop"
    /\ hand' = [hand EXCEPT ![t] = pending[WorkerOf[t]]]
    /\ pending' = [pending EXCEPT ![WorkerOf[t]] = Nothing]
    /\ WriterGoto(t, "replace")
    /\ UNCHANGED <<landed, counted, flock, lost, failed>>

\* The new file: what it held, key by key, and the batch.
Added(old, batch) == Plus(old, batch)

\* Read the file, add, replace it; the write is answered.
ReplaceCounters(t) ==
    /\ wt[t].pc = "replace"
    /\ counted' = Added(counted, hand[t])
    /\ hand' = [hand EXCEPT ![t] = Nothing]
    /\ flock' = Unlocked
    /\ WriterDone(t)
    /\ UNCHANGED <<landed, pending, lost, failed>>

\* Bug: the release is not on the way out of a failure.
Released_OnSuccess(t) == t

\* The lock after a failure.
Released(t) == Unlocked

\* The file cannot be read (a strict read raises) or cannot be replaced: the
\* lock is released on the way out of the with block.
FailReplace(t) ==
    /\ wt[t].pc = "replace" /\ "replace" \in CounterFaults
    /\ flock' = Released(t)
    /\ failed' = failed \cup {WorkerOf[t]}
    /\ WriterGoto(t, "return")
    /\ UNCHANGED <<landed, counted, pending, hand, lost>>

\* Bug: a batch whose replace failed is forgotten.
Restored_Dropped(bag, batch) == bag

Restored(bag, batch) == Plus(bag, batch)

\* The batch goes back into the bucket, and the write is answered all the same.
ReturnBatch(t) ==
    /\ wt[t].pc = "return"
    /\ pending' = [pending EXCEPT ![WorkerOf[t]] = Restored(@, hand[t])]
    /\ hand' = [hand EXCEPT ![t] = Nothing]
    /\ WriterDone(t)
    /\ UNCHANGED <<landed, counted, flock, lost, failed>>

\* Where what landed waits to be counted: in the bucket of a worker, in a batch
\* in hand, or with the writer that has not deposited it.
Places == ({"bucket"} \X Workers) \cup ({"hand", "write"} \X Bumpers)
PlacesOf(w) == {p \in Places : w = IF p[1] = "bucket" THEN p[2] ELSE WorkerOf[p[2]]}
Waiting(p) ==
    CASE p[1] = "bucket" -> pending[p[2]]
      [] p[1] = "hand"   -> hand[p[2]]
      [] p[1] = "write"  -> IF wt[p[2]].pc = "bump" THEN wt[p[2]].delta ELSE Nothing
MessagesWaiting == [p \in Places |-> Waiting(p).messages]

\* A worker is killed: its bucket and its handlers are gone, and the
\* kernel drops its lock.
KillWorker(w) ==
    LET mine == {t \in Bumpers : WorkerOf[t] = w}
        gone == [changes |-> UNION {Waiting(p).changes : p \in PlacesOf(w)},
                 messages |-> SumFunctionOnSet(MessagesWaiting, PlacesOf(w))]
    IN  /\ "crash" \in CounterFaults
        /\ gone # Nothing \/ flock \in mine
        /\ lost' = Plus(lost, gone)
        /\ pending' = [pending EXCEPT ![w] = Nothing]
        /\ hand' = [t \in Bumpers |-> IF t \in mine THEN Nothing ELSE hand[t]]
        /\ flock' = IF flock \in mine THEN Unlocked ELSE flock
        /\ wt' = [t \in Bumpers |-> IF t \in mine THEN WriterIdle ELSE wt[t]]
        /\ UNCHANGED <<landed, counted, failed>>

WriterStep(t) ==
    \/ Deposit(t) \/ LockCounters(t) \/ PopBatch(t) \/ ReplaceCounters(t)
    \/ FailReplace(t) \/ ReturnBatch(t)

CountersNext ==
    \/ \E t \in Bumpers : WriterStep(t) \/ LandWrite(t) \/ BeginFlush(t)
    \/ \E w \in Workers : KillWorker(w)

\* A thread that can run runs; flock hands the lock to each of its waiters.
CountersFairness ==
    \A t \in Bumpers : WF_countVars(WriterStep(t)) /\ SF_countVars(LockCounters(t))

CountersSpec == CountersInit /\ [][CountersNext]_countVars
CountersFairSpec == CountersSpec /\ CountersFairness

---------------------------------------------------------------------------
\* Properties.

\* Every structural change and every message that landed is counted, lost with
\* its worker or waiting, and in one place only, whatever the lock, a failing
\* replace or a death did: a batch is never applied twice and never dropped by a
\* failure (_bump's docstring).
CountedOnce ==
    LET settled == counted.changes \cup lost.changes
    IN  /\ settled \subseteq landed.changes /\ counted.changes \cap lost.changes = {}
        /\ \A c \in Change :
              Cardinality({p \in Places : c \in Waiting(p).changes})
                 = IF c \in landed.changes \ settled THEN 1 ELSE 0
        /\ landed.messages =
              counted.messages + lost.messages + SumFunction(MessagesWaiting)

\* A handler whose structural change landed is answered with the change in
\* .counters, unless a replace of its own worker failed meanwhile: what makes a
\* listing read after the answer, by any worker, show the change.
AnsweredIsCounted ==
    [][\A t \in Bumpers :
          (wt[t].pc # "idle" /\ wt'[t].pc = "idle" /\ lost' = lost
             /\ WorkerOf[t] \notin failed')
          => wt[t].delta.changes \subseteq counted'.changes]_countVars

\* A counter never goes backwards.
NeverBackwards ==
    [][/\ counted.changes \subseteq counted'.changes
       /\ counted.messages <= counted'.messages]_countVars

\* A change that was answered is counted, and stays so (`_bump`).
AnsweredStaysCounted == AnsweredIsCounted /\ NeverBackwards

\* Whoever bumps the counters comes back: the lock is a leaf.
EveryBumpEnds == \A t \in Bumpers : wt[t].pc # "idle" ~> wt[t].pc = "idle"
=============================================================================
