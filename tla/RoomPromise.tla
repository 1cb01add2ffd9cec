---------------------------- MODULE RoomPromise ----------------------------
(***************************************************************************)
(* What a room promises its readers: one sequence of messages that never   *)
(* restarts.  A message takes the number after the highest one ever used;  *)
(* messages are forgotten, by rotation, expiry of the ring or a reap, but   *)
(* a number is never given out twice and the newest survives a rotation.   *)
(***************************************************************************)
EXTENDS Integers

VARIABLES head,  \* the highest number ever used
          kept   \* the numbers whose messages can still be read

vars == <<head, kept>>

Init == head = 0 /\ kept = {}

Say == head' = head + 1 /\ kept' = kept \cup {head'}

\* A rotation drops a prefix and leaves the newest message.
Rotate ==
  /\ head \in kept
  /\ \E first \in 1..head : kept' = {n \in kept : n >= first}
  /\ UNCHANGED head

\* A reap drops the whole conversation and remembers where it ended.
Retire == kept' = {} /\ UNCHANGED head

Next == Say \/ Rotate \/ Retire

Spec == Init /\ [][Next]_vars
=============================================================================
