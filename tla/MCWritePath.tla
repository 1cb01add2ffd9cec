---------------------------- MODULE MCWritePath ----------------------------
(***************************************************************************)
(* What a write must get past, side by side: the budgets and the duplicate *)
(* ring of one worker, the guard notes that say who may write to a room,   *)
(* and the MCP server's tools that carry writes there.                     *)
(* part says which of them a behaviour is about; the others stand still.   *)
(* Each runs out of what its bounds allow, and then stutters.              *)
(***************************************************************************)
EXTENDS WriteLane, Ownership, ToolCalls, TLC

VARIABLE part

CONSTANTS ip1, ip2, room1, room2, long, short
SomeCalls == {<<ip1, room1, long>>, <<ip1, room2, long>>, <<ip2, room1, short>>}

CONSTANTS A, B
SomeLists == {{B}}

writeVars == <<part, laneVars, ownVars, toolVars>>

\* A part that stands still starts in one state.
WriteInit ==
    /\ part \in {"lane", "guards", "tools", "waits"}
    /\ LaneInit /\ OwnershipInit /\ ToolInit
    /\ part # "lane" => \A q \in Posters : req[q].ip = ip1 /\ req[q].room = room1

WriteNext ==
    /\ UNCHANGED part
    /\ \/ part = "lane" /\ LaneNext /\ UNCHANGED <<ownVars, toolVars>>
       \/ part = "guards" /\ OwnershipNext /\ UNCHANGED <<laneVars, toolVars>>
       \/ part = "tools" /\ CallNext /\ UNCHANGED <<laneVars, ownVars>>
       \/ part = "waits" /\ (HoldNext \/ ListNotes) /\ UNCHANGED <<laneVars, ownVars>>
       \/ UNCHANGED writeVars

WriteSpec == WriteInit /\ [][WriteNext]_writeVars

SomeWaits == {-1, 0, 1, 3, 6}

\* Posters are the calls of the tools as well.
Symmetry == Permutations(Posters) \cup Permutations(NoteWriters)
=============================================================================
