--------------------------- MODULE MCStoreFiles ---------------------------
(***************************************************************************)
(* The files under the store's root that several processes rewrite, side   *)
(* by side: the sequence state by shard, its lock-free reader, the two     *)
(* layouts of a room's file, the counts of note namespaces, and the marker *)
(* and the ring of the jobs that are due now and then.  They share nothing *)
(* that a property is about, so that a behaviour is one of them: part says *)
(* which, and the others stand still.  Setters and the split may always go *)
(* on; the other parts run out of what their bounds allow, and then        *)
(* stutter.                                                                *)
(***************************************************************************)
EXTENDS SeqLookup, Layout, Namespaces, Periodic, TLC

CONSTANTS a, b, c, s1, s2
TwoShards == a :> s1 @@ b :> s1 @@ c :> s2
OneSeed == {[floor |-> 2, gen |-> 1]}

VARIABLE part
fileVars == <<part, lookupVars, layoutVars, nsVars, periodicVars>>

\* A part that stands still starts in one state.
FilesInit ==
    /\ part \in {"sequence", "lookup", "layout", "namespaces", "periodic"}
    /\ LookupInit /\ LayoutInit /\ NamespacesInit /\ PeriodicInit
    /\ part \notin {"sequence", "lookup"} => shard = NoMap /\ legacy = NoMap /\ ~backup
    /\ part = "lookup" => shard[c] = None /\ legacy[c] = None
    /\ part # "layout" => writable /\ acked = {} /\ bucketDir
    /\ part # "namespaces" => notes = {} /\ nsCount = NoCount

\* The reader asks for one room, of a shard it shares with another, while one
\* setter, the split and an editor each rewrite that shard at most once.
LookupBound ==
    /\ sets' <= 1
    /\ ask'.room = ask.room
    /\ version'[s1] <= 4 /\ version'[s2] <= 1

FilesNext ==
    /\ UNCHANGED part
    /\ \/ part = "sequence" /\ Next /\ UNCHANGED <<lookVars, layoutVars, nsVars, periodicVars>>
       \/ part = "lookup" /\ LookupNext /\ LookupBound
             /\ UNCHANGED <<layoutVars, nsVars, periodicVars>>
       \/ part = "layout" /\ LayoutNext /\ UNCHANGED <<lookupVars, nsVars, periodicVars>>
       \/ part = "namespaces" /\ NamespacesNext
             /\ UNCHANGED <<lookupVars, layoutVars, periodicVars>>
       \/ part = "periodic" /\ PeriodicNext /\ UNCHANGED <<lookupVars, layoutVars, nsVars>>
       \/ part # "sequence" /\ UNCHANGED fileVars

FilesSpec == FilesInit /\ [][FilesNext]_fileVars

\* The sets of different parts share their model values, so that one group
\* of permutations serves them all.
Symmetry == Permutations(Setters) \cup Permutations(NoteKeys)
=============================================================================
