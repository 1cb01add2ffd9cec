----------------------------- MODULE RoomFile -----------------------------
(***************************************************************************)
(* A room's file as its readers meet it: they take no lock, so appends,    *)
(* compactions, reaps and creates happen between any two of their steps.   *)
(* RoomLog has the writers in detail; here each of their effects on the    *)
(* path is a step.  A compaction and a create put a new inode at the path, *)
(* and whoever holds the old one open keeps reading it.                    *)
(***************************************************************************)
EXTENDS Integers, Sequences

CONSTANTS
    MaxTop,         \* bound of the sequence numbers
    MaxFiles        \* bound of the inodes

ASSUME RoomFileAssumption == {MaxTop, MaxFiles} \subseteq Nat

VARIABLES
    file,       \* the inode at the room's path, 0 when there is no room
    rings,      \* every inode ever at the path: [first, last, torn, birth]
    top,        \* the newest sequence number
    births,     \* how many times the room was created
    generation  \* how many of those the sequence entry records

fileVars == <<file, rings, top, births, generation>>

Ring == [first : 1..MaxTop, last : 1..MaxTop, torn : BOOLEAN, birth : 1..MaxFiles]

FileTypeOK ==
    /\ file \in 0..Len(rings)
    /\ rings \in Seq(Ring)
    /\ top \in 0..MaxTop
    /\ generation \in 0..births /\ births <= generation + 1
    /\ file # 0 => rings[file].last = top /\ rings[file].birth = births

FileInit ==
    /\ file = 0 /\ rings = <<>>
    /\ top = 0
    /\ births = 0 /\ generation = 0

Recorded == generation = births     \* no creator is between its record and its entry

\* The first record of a room is on disk before its sequence entry is.
CreateRoom ==
    /\ file = 0 /\ Recorded
    /\ top < MaxTop /\ Len(rings) < MaxFiles
    /\ rings' = Append(rings, [first |-> top + 1, last |-> top + 1,
                               torn |-> FALSE, birth |-> births + 1])
    /\ file' = Len(rings')
    /\ top' = top + 1
    /\ births' = births + 1
    /\ UNCHANGED generation

RecordBirth ==
    /\ ~Recorded
    /\ generation' = births
    /\ UNCHANGED <<file, rings, top, births>>

\* An append is seen with its bytes and without its newline first.
BeginAppend ==
    /\ file # 0 /\ Recorded /\ ~rings[file].torn /\ top < MaxTop
    /\ rings' = [rings EXCEPT ![file].torn = TRUE]
    /\ UNCHANGED <<file, top, births, generation>>

EndAppend ==
    /\ file # 0 /\ rings[file].torn
    /\ rings' = [rings EXCEPT ![file].torn = FALSE, ![file].last = top + 1]
    /\ top' = top + 1
    /\ UNCHANGED <<file, births, generation>>

\* The newest record survives a compaction.
KeptRing(ring) == [ring EXCEPT !.first = top]

\* The temporary file is renamed over the path: a new inode.
Compact ==
    /\ file # 0 /\ Recorded /\ ~rings[file].torn /\ Len(rings) < MaxFiles
    /\ rings' = Append(rings, KeptRing(rings[file]))
    /\ file' = Len(rings')
    /\ UNCHANGED <<top, births, generation>>

ReapFile ==
    /\ file # 0 /\ Recorded /\ ~rings[file].torn
    /\ file' = 0
    /\ UNCHANGED <<rings, top, births, generation>>

FileNext ==
    CreateRoom \/ RecordBirth \/ BeginAppend \/ EndAppend \/ Compact \/ ReapFile
=============================================================================
