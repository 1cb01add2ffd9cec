------------------------------ MODULE Periodic ------------------------------
(***************************************************************************)
(* The two jobs that whoever writes next does when they are due: the reap  *)
(* pass and the sample of the snapshot ring.  Each is throttled by the     *)
(* mtime of a marker and guarded by a lock nobody waits for.  The marker   *)
(* of the pass is touched before it starts; the marker of the samples is   *)
(* the ring itself, replaced at the end.  Handlers of all processes run    *)
(* through both, with the clock moving between any two of their steps.     *)
(***************************************************************************)
EXTENDS Integers, FiniteSets

CONSTANTS
    Handlers,       \* handlers of writes, of every worker
    NoHandler,      \* a lock nobody holds
    ReapEvery,      \* REAP_EVERY, in ticks
    SampleEvery,    \* SNAPSHOT_EVERY
    SampleKeep,     \* SNAPSHOT_KEEP_SECONDS
    ReadMayFail,    \* the ring may be unreadable for a moment
    LastTick        \* bound of the clock

ASSUME PeriodicAssumption ==
    /\ NoHandler \notin Handlers
    /\ {ReapEvery, SampleEvery} \subseteq Nat \ {0}
    /\ {SampleKeep, LastTick} \subseteq Nat
    /\ ReadMayFail \in BOOLEAN

VARIABLES
    time,       \* the clock
    reapMark,   \* the mtime of .reaped, Never before there is one
    passLock,   \* who holds its lock
    ring,       \* the samples, by the instant they carry
    ringMark,   \* the mtime of the ring
    ringLock,   \* who holds its lock
    hd          \* the handlers

periodicVars == <<time, reapMark, passLock, ring, ringMark, ringLock, hd>>

Never == -1
Ticks == 0..LastTick
HandlerIdle == [pc |-> "idle", now |-> 0, kept |-> {}]

PeriodicTypeOK ==
    /\ time \in Ticks
    /\ reapMark \in Ticks \cup {Never} /\ ringMark \in Ticks \cup {Never}
    /\ passLock \in Handlers \cup {NoHandler} /\ ringLock \in Handlers \cup {NoHandler}
    /\ ring \subseteq Ticks
    /\ hd \in [Handlers -> [pc : {"idle", "touch", "try", "pass", "sample", "retry",
                                  "recheck", "read", "put"},
                            now : Ticks, kept : SUBSET Ticks]]
    /\ \A h \in Handlers : hd[h].pc \in {"recheck", "read", "put"} <=> ringLock = h

PeriodicInit ==
    /\ time = 0
    /\ reapMark = Never /\ passLock = NoHandler
    /\ ring = {} /\ ringMark = Never /\ ringLock = NoHandler
    /\ hd = [h \in Handlers |-> HandlerIdle]

Due(mark, every, now) == mark = Never \/ now - mark >= every
HandlerGoto(h, pc) == hd' = [hd EXCEPT ![h].pc = pc]
HandlerDone(h) == hd' = [hd EXCEPT ![h] = HandlerIdle]
reapState == <<reapMark, passLock>>
ringState == <<ring, ringMark, ringLock>>

---------------------------------------------------------------------------
\* _reap, before the write.

ReapStat(h) ==
    /\ hd[h].pc = "idle"
    /\ hd' = [hd EXCEPT ![h] = [HandlerIdle EXCEPT !.now = time,
                 !.pc = IF Due(reapMark, ReapEvery, time) THEN "touch" ELSE "sample"]]
    /\ UNCHANGED <<time, reapState, ringState>>

TouchMarker(h) ==
    /\ hd[h].pc = "touch"
    /\ reapMark' = time
    /\ HandlerGoto(h, "try")
    /\ UNCHANGED <<time, passLock, ringState>>

\* Bug: a pass that is due runs, whoever else runs one.
PassIsMine_Anyway == TRUE

PassIsMine == passLock = NoHandler

\* _locked(marker, nb=True): whoever cannot have it goes on to its write.
TryPass(h) ==
    /\ hd[h].pc = "try"
    /\ IF PassIsMine THEN passLock' = h /\ HandlerGoto(h, "pass")
                     ELSE passLock' = passLock /\ HandlerGoto(h, "sample")
    /\ UNCHANGED <<time, reapMark, ringState>>

EndReapPass(h) ==
    /\ hd[h].pc = "pass"
    /\ passLock' = NoHandler
    /\ HandlerGoto(h, "sample")
    /\ UNCHANGED <<time, reapMark, ringState>>

---------------------------------------------------------------------------
\* _snapshot, after the write.

SampleStat(h) ==
    /\ hd[h].pc = "sample"
    /\ IF Due(ringMark, SampleEvery, time)
       THEN hd' = [hd EXCEPT ![h].pc = "retry", ![h].now = time]
       ELSE HandlerDone(h)
    /\ UNCHANGED <<time, reapState, ringState>>

TrySample(h) ==
    /\ hd[h].pc = "retry"
    /\ IF ringLock = NoHandler THEN ringLock' = h /\ HandlerGoto(h, "recheck")
                               ELSE ringLock' = ringLock /\ HandlerDone(h)
    /\ UNCHANGED <<time, reapState, ring, ringMark>>

\* Bug: the marker is not looked at again.
StillDue_Presumed == TRUE

\* Against the clock as it is now, not as it was before the lock.
StillDue == Due(ringMark, SampleEvery, time)

RecheckRing(h) ==
    /\ hd[h].pc = "recheck"
    /\ IF StillDue THEN ringLock' = ringLock /\ HandlerGoto(h, "read")
                   ELSE ringLock' = NoHandler /\ HandlerDone(h)
    /\ UNCHANGED <<time, reapState, ring, ringMark>>

Young(t, now) == now - t <= SampleKeep

\* snapshots: what the ring holds, or nothing when it cannot be read; then the
\* walk of service_stats.
ReadRing(h) ==
    /\ hd[h].pc = "read"
    /\ \E seen \in {ring} \cup (IF ReadMayFail THEN {{}} ELSE {}) :
          hd' = [hd EXCEPT ![h].pc = "put",
                           ![h].kept = {t \in seen : Young(t, hd[h].now)}]
    /\ UNCHANGED <<time, reapState, ringState>>

\* The sample carries the instant of the first stat; a replace that fails
\* leaves the ring and its mtime as they were.
PutRing(h) ==
    /\ hd[h].pc = "put"
    /\ \/ ring' = hd[h].kept \cup {hd[h].now} /\ ringMark' = time
       \/ UNCHANGED <<ring, ringMark>>
    /\ ringLock' = NoHandler
    /\ HandlerDone(h)
    /\ UNCHANGED <<time, reapState>>

\* The kernel drops the locks of a process that dies.
Freed(lock, h) == IF lock = h THEN NoHandler ELSE lock

KillHandler(h) ==
    /\ hd[h].pc # "idle"
    /\ passLock' = Freed(passLock, h) /\ ringLock' = Freed(ringLock, h)
    /\ HandlerDone(h)
    /\ UNCHANGED <<time, reapMark, ring, ringMark>>

PeriodicTick ==
    /\ time < LastTick
    /\ time' = time + 1
    /\ UNCHANGED <<reapState, ringState, hd>>

PeriodicNext ==
    \/ \E h \in Handlers :
          \/ ReapStat(h) \/ TouchMarker(h) \/ TryPass(h) \/ EndReapPass(h)
          \/ SampleStat(h) \/ TrySample(h) \/ RecheckRing(h) \/ ReadRing(h)
          \/ PutRing(h) \/ KillHandler(h)
    \/ PeriodicTick

PeriodicSpec == PeriodicInit /\ [][PeriodicNext]_periodicVars

---------------------------------------------------------------------------
\* Properties.

\* Two passes never overlap, however many handlers found one due: what
\* _settle_count's window rests on.
OneReapPass == Cardinality({h \in Handlers : hd[h].pc = "pass"}) <= 1

\* Two samples are never installed within one interval, although a handler may
\* have found the sample due long before it got the lock.
SamplesSpaced ==
    [][ringMark' # ringMark => ringMark = Never \/ ringMark' - ringMark >= SampleEvery]_periodicVars

\* A sample stays in the ring for as long as it is to be kept, whoever rewrites
\* the ring and whenever that handler began.
RingKeepsHistory ==
    [][\A t \in ring : time - t <= SampleKeep => t \in ring']_periodicVars

\* One pass at a time, and locks held by those that are past them (`_reap`,
\* `_snapshot`).
PeriodicInv == PeriodicTypeOK /\ OneReapPass

\* The ring grows at its pace and forgets nothing before its time (`_snapshot`).
RingForward == SamplesSpaced /\ RingKeepsHistory

---------------------------------------------------------------------------
\* What the code does not keep; TLC refutes it.

\* At most one pass begins within REAP_EVERY: not when two workers are past the
\* look at the marker before one touches it.
PassesSpaced ==
    [][reapMark' # reapMark => Due(reapMark, ReapEvery, time)]_periodicVars
=============================================================================
