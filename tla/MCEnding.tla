----------------------------- MODULE MCEnding -----------------------------
(***************************************************************************)
(* What must end, side by side: the writes to one room beside its reaper,  *)
(* and the batches of the lifetime counters on their way to the file.      *)
(* part says which of the two a behaviour is about; the other stands       *)
(* still, and fairness is asked of the part that moves.  The counters run  *)
(* out of what their bounds allow, and then stutter.                       *)
(***************************************************************************)
EXTENDS RoomLog, Counters, TLC

CONSTANTS Key, Nonces
WithSigned ==
    {[did |-> Unsigned, nonce |-> 0]} \cup [did : {Key}, nonce : Nonces]

\* Two threads in one worker, one in another; a thread writes in one part and
\* counts in the other.
CONSTANTS u1, u2, t1, t2, t3
Home == t1 :> u1 @@ t2 :> u1 @@ t3 :> u2

VARIABLE part
endingVars == <<part, vars, countVars>>

EndingInit == part \in {"room", "counters"} /\ Init /\ CountersInit

EndingNext ==
    /\ UNCHANGED part
    /\ \/ part = "room" /\ Next /\ UNCHANGED countVars
       \/ part = "counters" /\ CountersNext /\ UNCHANGED vars
       \/ part = "counters" /\ UNCHANGED endingVars

InRoom(A) == part = "room" /\ A /\ UNCHANGED <<part, countVars>>
InCounters(A) == part = "counters" /\ A /\ UNCHANGED <<part, vars>>

ThreadRuns(t) ==
    \/ t \in Writers /\ InRoom(Step(t) \/ TakeLock(t))
    \/ InCounters(WriterStep(t))

\* A thread that can run runs, a waiter for a flock included, and so does the
\* pass.  Apart from the wait for a lock, a step once enabled stays enabled, so
\* that this is what FairSpec and CountersFairSpec ask.
EndingFairness ==
    /\ \A t \in Bumpers : SF_endingVars(ThreadRuns(t))
    /\ WF_endingVars(InRoom(Reap))

EndingSpec == EndingInit /\ [][EndingNext]_endingVars /\ EndingFairness

\* On the way, the generation counts the conversations whose creators are through,
\* and every change is counted once, in hand or lost with its worker.
EndingInv == GenCountsBirths /\ CountersTypeOK /\ CountedOnce

\* Every write to the room and every bump of the counters comes to an end, the
\* waiters for a lock included (`_write_record`, `_bump`).
EveryCallEnds == EveryWriteEnds /\ EveryBumpEnds
=============================================================================
