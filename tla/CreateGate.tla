----------------------------- MODULE CreateGate -----------------------------
(***************************************************************************)
(* How the store enforces a cap on files it never counts: `_create_gate`    *)
(* with `_check_room_capacity` and `_count_new_room`, against the reap pass *)
(* that deletes files and re-establishes the count from its walk           *)
(* (`_reap_pass`, `_counted_at`, `_settle_count`).  The note side runs the  *)
(* same code over NOTES_FILE.                                              *)
(*                                                                         *)
(* The three locks of a create are flocks, so who holds one is read off the *)
(* program counters, and a crash gives them all back.  Env names what may   *)
(* go wrong:                                                               *)
(*   crash       a handler or the pass dies between two steps              *)
(*   powerloss   everything dies, and the count file, which is replaced     *)
(*               without an fsync, may be lost                             *)
(*   unreadable  one read of the count file meets an OSError               *)
(***************************************************************************)
EXTENDS Integers, FiniteSets

CONSTANTS Names,     \* rooms (or notes) a caller may write
          Workers,   \* handlers running `_write_record`
          Cap,       \* MAX_ROOMS
          Env,
          MaxCalls   \* bound: writes attempted in one behaviour

Missing == -1  \* what _read_counts answers for a file it cannot trust

ASSUME GateAssumption ==
  /\ IsFiniteSet(Names)
  /\ Cap \in Nat
  /\ Env \subseteq {"crash", "powerloss", "unreadable"}
  /\ MaxCalls \in Nat

VARIABLES
  files,    \* the names on disk
  idle,     \* those the reaper may delete
  count,    \* the count file
  pc,       \* where each handler is
  name,     \* the name it writes
  reserved, \* it has counted a file it has not written yet
  rpc,      \* where the pass is
  before,   \* the pass's first reading of the count
  kept,     \* what its walk saw and did not delete
  todo,     \* what its walk has not reached
  target,   \* the file it is about to delete
  calls,
  uncounted, \* history: files recreated by a write that took no reservation
  since      \* history: names reserved since the pass's first reading

diskVars == <<files, idle, uncounted>>
passVars == <<rpc, before, kept, todo, target>>
vars == <<diskVars, count, pc, name, reserved, passVars, calls, since>>

----------------------------------------------------------------------------
(* The locks.                                                              *)

InSpan(w) == pc[w] \in {"path", "again", "gate", "reserve", "body", "after", "regate", "return"}
HasPath(w) == pc[w] \in {"again", "gate", "reserve", "body", "after", "regate", "return", "rewrite"}
InGate(w) == pc[w] \in {"reserve", "return"}

PathFree(n) ==
  /\ \A w \in Workers : HasPath(w) => name[w] # n
  /\ ~(rpc = "recheck" /\ target = n)

GateFree == \A w \in Workers : ~InGate(w)

\* The reaper takes the span exclusively for one read, or one read and a replace.
SpanFree == \A w \in Workers : ~InSpan(w)

----------------------------------------------------------------------------
(* The count file.                                                         *)

\* What a read of it may answer.
Readings == {count} \cup (IF "unreadable" \in Env THEN {Missing} ELSE {})

\* _note_totals: the figure, or a walk when there is none to trust.
Totals(reading) == IF reading = Missing THEN Cardinality(files) ELSE reading

AtLeast0(n) == IF n < 0 THEN 0 ELSE n

----------------------------------------------------------------------------
(* Writers: _create_gate around the body of _write_record.                 *)

Go(w, from, to) == pc[w] = from /\ pc' = [pc EXCEPT ![w] = to]

Begin(w) ==
  /\ Go(w, "idle", "look")
  /\ calls < MaxCalls
  /\ calls' = calls + 1
  /\ \E n \in Names : name' = [name EXCEPT ![w] = n]
  /\ UNCHANGED <<diskVars, count, reserved, passVars, since>>

Stay == UNCHANGED <<diskVars, count, name, reserved, passVars, calls, since>>

\* path.exists(): an overwrite takes neither the span nor the counter.
Look(w) ==
  /\ Go(w, "look", IF name[w] \in files THEN "relock" ELSE "check")
  /\ Stay

\* The early check, under no lock.
Full(w) == \E r \in Readings : name[w] \notin files /\ Totals(r) >= Cap
Room(w) == \E r \in Readings : name[w] \in files \/ Totals(r) < Cap

Check(w) ==
  /\ \/ Full(w) /\ Go(w, "check", "idle")
     \/ Room(w) /\ Go(w, "check", "span")
  /\ Stay

TakeSpan(w) == Go(w, "span", "path") /\ Stay

TakePath(w) == Go(w, "path", "again") /\ PathFree(name[w]) /\ Stay

\* With the name locked, whether this is a create is settled.
LookAgain_Trusts(w) == Go(w, "again", "gate") /\ Stay
LookAgain(w) ==
  /\ Go(w, "again", IF name[w] \in files THEN "body" ELSE "gate")
  /\ Stay

TakeGate_Unchecked(w) ==
  /\ GateFree
  /\ Go(w, "gate", "reserve")
  /\ Stay

\* The counter's own lock, and the authoritative check.
TakeGate(w) ==
  /\ GateFree
  /\ \/ Full(w) /\ Go(w, "gate", "idle")
     \/ Room(w) /\ Go(w, "gate", "reserve")
  /\ Stay

Reserve_Relocks(w) ==
  /\ GateFree
  /\ Go(w, "reserve", "body")
  /\ reserved' = [reserved EXCEPT ![w] = TRUE]
  /\ \E r \in Readings : count' = Totals(r) + 1
  /\ since' = since \cup {name[w]}
  /\ UNCHANGED <<diskVars, name, passVars, calls>>

\* counted(1), before the write, and the gate is released.
Reserve(w) ==
  /\ Go(w, "reserve", "body")
  /\ reserved' = [reserved EXCEPT ![w] = TRUE]
  /\ \E r \in Readings : count' = Totals(r) + 1
  /\ since' = since \cup {name[w]}
  /\ UNCHANGED <<diskVars, name, passVars, calls>>

\* The body writes the file and it is live again; a write that makes the file
\* without holding a reservation is uncounted.
PutFile(w) ==
  /\ files' = files \cup {name[w]}
  /\ idle' = idle \ {name[w]}
  /\ uncounted' = uncounted \cup (IF reserved[w] THEN {} ELSE {name[w]} \ files)

Write(w) ==
  /\ Go(w, "body", "after")
  /\ PutFile(w)
  /\ UNCHANGED <<count, name, reserved, passVars, calls, since>>

\* A CAS that does not match, or an OSError before the file was made.
RefuseInBody(w) == Go(w, "body", "after") /\ Stay

\* A reservation nothing was written against goes back.
After(w) ==
  LET unused == reserved[w] /\ name[w] \notin files
  IN  /\ Go(w, "after", IF unused THEN "regate" ELSE "idle")
      /\ reserved' = [reserved EXCEPT ![w] = unused]
      /\ UNCHANGED <<diskVars, count, name, passVars, calls, since>>

RetakeGate(w) == GateFree /\ Go(w, "regate", "return") /\ Stay

Return(w) ==
  /\ Go(w, "return", "idle")
  /\ reserved' = [reserved EXCEPT ![w] = FALSE]
  /\ \E r \in Readings : count' = AtLeast0(Totals(r) - 1)
  /\ UNCHANGED <<diskVars, name, passVars, calls, since>>

\* The overwrite: the path's lock, and the body.
RelockPath(w) == Go(w, "relock", "rewrite") /\ PathFree(name[w]) /\ Stay

Rewrite(w) ==
  /\ Go(w, "rewrite", "idle")
  /\ PutFile(w)
  /\ UNCHANGED <<count, name, reserved, passVars, calls, since>>

RefuseRewrite(w) == Go(w, "rewrite", "idle") /\ Stay

CrashWorker(w) ==
  /\ "crash" \in Env
  /\ pc[w] # "idle"
  /\ pc' = [pc EXCEPT ![w] = "idle"]
  /\ reserved' = [reserved EXCEPT ![w] = FALSE]
  /\ UNCHANGED <<diskVars, count, name, passVars, calls, since>>

Step(w) ==
  \/ Look(w) \/ Check(w) \/ TakeSpan(w) \/ LookAgain(w) \/ Reserve(w)
  \/ Write(w) \/ RefuseInBody(w) \/ After(w) \/ Return(w)
  \/ Rewrite(w) \/ RefuseRewrite(w)

Acquire(w) == TakePath(w) \/ TakeGate(w) \/ RetakeGate(w) \/ RelockPath(w)

Worker(w) == Begin(w) \/ Step(w) \/ Acquire(w) \/ CrashWorker(w)

----------------------------------------------------------------------------
(* The pass.                                                               *)

RGo(from, to) == rpc = from /\ rpc' = to

\* _counted_at: with every create waited out.
CountedAt ==
  /\ RGo("off", "walk")
  /\ SpanFree
  /\ before' \in Readings
  /\ kept' = {} /\ todo' = Names
  /\ since' = {}
  /\ UNCHANGED <<diskVars, count, pc, name, reserved, target, calls>>

\* The walk: one name at a time, no lock, a stat each.
Visit(n) ==
  /\ n \in todo
  /\ todo' = todo \ {n}
  /\ kept' = kept \cup ({n} \cap files)
  /\ IF n \in idle
     THEN RGo("walk", "lock") /\ target' = n
     ELSE RGo("walk", "walk") /\ UNCHANGED target
  /\ UNCHANGED <<diskVars, count, pc, name, reserved, before, calls, since>>

LockTarget ==
  /\ RGo("lock", "recheck")
  /\ PathFree(target)
  /\ UNCHANGED <<diskVars, count, pc, name, reserved, before, kept, todo, target, calls, since>>

\* Still idle under its lock: it goes, and the pass's own total follows.
Delete ==
  /\ RGo("recheck", "walk")
  /\ LET gone == {target} \cap idle
     IN  /\ files' = files \ gone
         /\ idle' = idle \ gone
         /\ uncounted' = uncounted \ gone
         /\ kept' = kept \ gone
  /\ UNCHANGED <<count, pc, name, reserved, before, todo, target, calls, since>>

\* _settle_count: the walk, plus what the counter grew by since the first reading.
Larger(m, n) == IF m < n THEN n ELSE m

Settled_WalkOnly(after) == Cardinality(kept)
Settled_NeverLower(after) == Larger(Cardinality(kept), after)
Settled(after) ==
  IF before = Missing THEN Larger(Cardinality(kept), after)
                      ELSE Cardinality(kept) + Larger(0, after - before)

After0(reading) ==
  IF reading # Missing THEN reading
  ELSE IF before # Missing THEN before
  ELSE Cardinality(kept)

Settle ==
  /\ RGo("walk", "off")
  /\ todo = {}
  /\ SpanFree
  /\ \E r \in Readings : count' = Settled(After0(r))
  /\ uncounted' = IF before = Missing THEN uncounted ELSE uncounted \ kept
  /\ UNCHANGED <<files, idle, pc, name, reserved, before, kept, todo, target, calls, since>>

CrashPass ==
  /\ "crash" \in Env
  /\ rpc # "off"
  /\ rpc' = "off"
  /\ UNCHANGED <<diskVars, count, pc, name, reserved, before, kept, todo, target, calls, since>>

Pass == CountedAt \/ (\E n \in Names : Visit(n)) \/ LockTarget \/ Delete \/ Settle \/ CrashPass

----------------------------------------------------------------------------
(* Time and power.  A pass judges every file by the instant it started at.  *)

Age ==
  /\ rpc = "off"
  /\ \E n \in files \ idle : idle' = idle \cup {n}
  /\ UNCHANGED <<files, uncounted, count, pc, name, reserved, passVars, calls, since>>

PowerLoss ==
  /\ "powerloss" \in Env
  /\ pc' = [w \in Workers |-> "idle"]
  /\ reserved' = [w \in Workers |-> FALSE]
  /\ rpc' = "off"
  /\ count' \in {count, Missing}
  /\ UNCHANGED <<diskVars, name, before, kept, todo, target, calls, since>>

----------------------------------------------------------------------------
\* A fresh store, a running one, and one whose count file an older build wrote.
Init ==
  /\ files \in SUBSET Names /\ idle = {} /\ uncounted = {}
  /\ count \in {Missing, Cardinality(files)}
  /\ pc = [w \in Workers |-> "idle"]
  /\ name \in [Workers -> Names]
  /\ reserved = [w \in Workers |-> FALSE]
  /\ rpc = "off" /\ before = Missing /\ kept = {} /\ todo = {} /\ target \in Names
  /\ calls = 0
  /\ since = {}

Next == (\E w \in Workers : Worker(w)) \/ Pass \/ Age \/ PowerLoss

Spec == Init /\ [][Next]_vars

\* A handler that runs keeps running, a waiter for a flock gets it in the end,
\* and a pass that has started ends.
FairSpec ==
  /\ Spec
  /\ \A w \in Workers : WF_vars(Step(w)) /\ SF_vars(Acquire(w))
  /\ WF_vars((\E n \in Names : Visit(n)) \/ Delete) /\ SF_vars(LockTarget) /\ SF_vars(Settle)

----------------------------------------------------------------------------
(* Properties.                                                             *)

TypeOK ==
  /\ files \subseteq Names /\ idle \subseteq files /\ uncounted \subseteq files
  /\ count \in Nat \cup {Missing}
  /\ pc \in [Workers -> {"idle", "look", "check", "span", "path", "again", "gate", "reserve",
                         "body", "after", "regate", "return", "relock", "rewrite"}]
  /\ name \in [Workers -> Names]
  /\ reserved \in [Workers -> BOOLEAN]
  /\ rpc \in {"off", "walk", "lock", "recheck"}
  /\ before \in Nat \cup {Missing}
  /\ kept \subseteq Names /\ todo \subseteq Names /\ target \in Names
  /\ calls \in Nat
  /\ since \subseteq Names
  /\ \A w \in Workers : reserved[w] => pc[w] \in {"body", "after", "regate", "return"}

InFlight == {name[w] : w \in {v \in Workers : reserved[v]}}
Covered == (files \ uncounted) \cup InFlight

\* The count is never below the files it counted plus the reservations still
\* being written: a low count would admit writes past the cap.  Only files that
\* an overwrite recreated behind a reap escape it, until a later pass sees them
\* (`_create_gate`, `_settle_count`).
CountCovers == count # Missing => Cardinality(Covered) <= count

\* While a create is being made the counted files and the reservations together
\* fit the cap, however many creates run at once (`_check_room_capacity` inside
\* the gate).
CapHolds == InFlight # {} => Cardinality(Covered) <= Cap

\* Whatever the handlers do, in any interleaving, leaves the count as far from
\* the files and reservations as it was: a file two of them race to create is
\* counted once, and a refused body costs nothing (`_create_gate`).  Only a crash,
\* a deletion and the end of a pass move it.
Drift == count - Cardinality(files \cup InFlight)
NoDrift ==
  [][rpc' = rpc /\ uncounted' = uncounted /\ count # Missing => Drift' = Drift]_vars

\* A pass that nobody created a file under leaves the exact count, whatever a
\* crash had left in it: "exact on a quiet store" (`_settle_count`).
PassHeals ==
  [][(Settle /\ before # Missing /\ since = {} /\ uncounted \subseteq kept)
       => count' = Cardinality(files)]_vars

\* Every write ends, and so does every pass: no two locks are taken in two orders.
EveryWriteEnds == \A w \in Workers : pc[w] = "look" ~> pc[w] = "idle"
EveryPassEnds == rpc = "walk" ~> rpc = "off"

\* Neither waits for the other for ever: span, names, counter and the pass's own
\* locks are asked for in one order (`_create_gate`, `_reap_pass`).
EverythingEnds == EveryWriteEnds /\ EveryPassEnds

\* "never below the disk" (`_settle_count`), uncounted files included.
NeverBelowDisk == count # Missing => Cardinality(files) <= count

\* Why CountCovers is kept.  A name and the counter have one holder each, and a
\* handler about to reserve or to give back still finds what it decided on;
HolderInv ==
  /\ \A v, w \in Workers : HasPath(v) /\ HasPath(w) /\ name[v] = name[w] => v = w
  /\ \A v, w \in Workers : InGate(v) /\ InGate(w) => v = w

Decided(w) ==
  /\ pc[w] \in {"gate", "reserve", "regate", "return"} => name[w] \notin files
  /\ pc[w] \in {"regate", "return"} => reserved[w]
  /\ pc[w] = "reserve" =>
       IF count = Missing THEN Cardinality(files \ uncounted) < Cap ELSE count < Cap

DecidedInv == \A w \in Workers : Decided(w)

\* a lost count has nobody relying on it;
LostInv == count = Missing => InFlight = {} /\ (rpc # "off" => before = Missing /\ since = {})

\* and what the pass's walk can no longer see was reserved since its first
\* reading, and is paid for by what the count grew by.
WindowInv ==
  rpc # "off" =>
    /\ InFlight \subseteq since
    /\ Covered \ since \subseteq kept \cup todo
    /\ before # Missing => Cardinality(since \cap Covered) <= count - before

Inductive == TypeOK /\ HolderInv /\ DecidedInv /\ LostInv /\ WindowInv /\ CountCovers /\ CapHolds
=============================================================================
