----------------------------- MODULE SeqPromise -----------------------------
(***************************************************************************)
(* What the sequence state promises: one (floor, generation) per room,      *)
(* changed by that room's own creates and reaps alone.  A map that a worker  *)
(* of the pre-shard build wrote after the split may be adopted, for the      *)
(* rooms it speaks of.                                                      *)
(***************************************************************************)
EXTENDS Integers

CONSTANTS Rooms, None, Floors

VARIABLES entry,    \* entry[r]: the room's floor and generation
          returned  \* what such a map holds, None for a room it does not mention

vars == <<entry, returned>>

Init ==
  /\ \A r \in Rooms : entry[r].floor \in Nat /\ entry[r].gen \in Nat
  /\ DOMAIN entry = Rooms /\ DOMAIN returned = Rooms

\* A (re)create: a new generation, and the floor clears.
Create(r) ==
  /\ entry' = [entry EXCEPT ![r] = [floor |-> 0, gen |-> @.gen + 1]]
  /\ UNCHANGED returned

\* A reap: the generation stays, and the floor is where the room ended.
Reap(r) ==
  /\ \E f \in Floors : entry' = [entry EXCEPT ![r] = [floor |-> f, gen |-> @.gen]]
  /\ UNCHANGED returned

Adopt ==
  /\ \E S \in SUBSET {r \in Rooms : returned[r] # None} :
       entry' = [r \in Rooms |-> IF r \in S THEN returned[r] ELSE entry[r]]
  /\ UNCHANGED returned

\* Everything the map held is in its place.
Forget == returned' = [r \in Rooms |-> None] /\ UNCHANGED entry

Next == (\E r \in Rooms : Create(r) \/ Reap(r)) \/ Adopt \/ Forget

Spec == Init /\ [][Next]_vars
=============================================================================
