------------------------------- MODULE Layout -------------------------------
(***************************************************************************)
(* Where a room's file is.  A store written before rooms were sharded has  *)
(* it flat in rooms/; whoever resolves the name moves it into its bucket,  *)
(* by renaming the data and never the lock beside it.  The resolver runs   *)
(* without a lock and again inside the writer's and the reaper's, and      *)
(* every one of its probes and moves is a step of its own.                 *)
(***************************************************************************)
EXTENDS Integers, FiniteSets

CONSTANTS
    Appenders,      \* handlers that append to the room
    Lookers,        \* handlers that read it
    Sweeper,        \* the reap pass
    Absent,         \* no file
    MaxRecords,     \* bound of the records of one conversation
    MaxReaps,       \* bound of the deletions
    SweepsTheGap    \* the pass may remove a bucket a migration just made

ASSUME LayoutAssumption ==
    /\ Sweeper \notin Appenders \cup Lookers /\ Appenders \cap Lookers = {}
    /\ MaxRecords \in Nat \ {0} /\ MaxReaps \in Nat
    /\ SweepsTheGap \in BOOLEAN
    /\ \A records \in SUBSET (1..MaxRecords) : Absent # records

VARIABLES
    data,       \* place -> the records of the file there, or Absent
    bucketDir,  \* the bucket is there
    writable,   \* FALSE: a read-only volume
    idle,       \* the file was last written a week ago
    sidecar,    \* place -> the inode of the lock file there, 0 for none
    inodes,     \* how many lock files were ever made
    proc,       \* the processes
    acked,      \* history: the records of the room, as acknowledged
    reaped,     \* what the pass counts as deleted
    unlinked    \* history: what it did delete

layoutVars == <<data, bucketDir, writable, idle, sidecar, inodes, proc,
                acked, reaped, unlinked>>

Places == {"flat", "bucket"}
Processes == Appenders \cup Lookers \cup {Sweeper}
Record == 1..MaxRecords

Idler == [pc |-> "idle", then |-> "idle", found |-> "bucket", path |-> "bucket",
          inode |-> 0, basis |-> {}, reply |-> {}]

LayoutTypeOK ==
    /\ data \in [Places -> (SUBSET Record) \cup {Absent}]
    /\ bucketDir \in BOOLEAN /\ writable \in BOOLEAN /\ idle \in BOOLEAN
    /\ inodes \in Nat
    /\ sidecar \in [Places -> 0..inodes]
    /\ proc \in [Processes ->
          [pc : {"idle", "probe", "legacy", "mkdir", "move", "again", "gate", "lock",
                 "write", "read", "recheck", "unlink", "unlock"},
           then : {"idle", "gate", "write", "read", "unlink"},
           found : Places, path : Places, inode : 0..inodes,
           basis : SUBSET Record, reply : SUBSET Record]]
    /\ acked \in SUBSET Record
    /\ reaped \in Nat /\ unlinked \in 0..reaped + 1
    /\ data["bucket"] # Absent => bucketDir

\* A room of a pre-sharding store with its lock beside it, or no room yet;
\* other rooms may have made the bucket.
LayoutInit ==
    /\ writable \in BOOLEAN
    /\ \/ data = [flat |-> {1}, bucket |-> Absent] /\ acked = {1}
       \/ data = [p \in Places |-> Absent] /\ acked = {}
    /\ idle = TRUE
    /\ bucketDir \in BOOLEAN
    /\ sidecar = [flat |-> IF data["flat"] = Absent THEN 0 ELSE 1, bucket |-> 0]
    /\ inodes = 1
    /\ proc = [p \in Processes |-> Idler]
    /\ reaped = 0 /\ unlinked = 0

Exists(place) == data[place] # Absent
LayoutGoto(p, pc) == proc' = [proc EXCEPT ![p].pc = pc]
LockedBy(inode) == {p \in Processes : inode # 0 /\ proc[p].inode = inode}

tree == <<data, bucketDir, writable, idle>>
locks == <<sidecar, inodes>>
history == <<acked, reaped, unlinked>>

---------------------------------------------------------------------------
\* _resolve and _migrate.

Resolve(p, then) == [proc[p] EXCEPT !.pc = "probe", !.then = then]
Resolved(p, place) == proc' = [proc EXCEPT ![p].found = place, ![p].pc = proc[p].then]

ProbeBucket(p) ==
    /\ proc[p].pc = "probe"
    /\ IF Exists("bucket") THEN Resolved(p, "bucket") ELSE LayoutGoto(p, "legacy")
    /\ UNCHANGED <<tree, locks, history>>

ProbeLegacy(p) ==
    /\ proc[p].pc = "legacy"
    /\ IF Exists("flat") THEN LayoutGoto(p, "mkdir") ELSE Resolved(p, "bucket")
    /\ UNCHANGED <<tree, locks, history>>

MakeBucket(p) ==
    /\ proc[p].pc = "mkdir"
    /\ bucketDir' = (bucketDir \/ writable)
    /\ LayoutGoto(p, IF bucketDir' THEN "move" ELSE "again")
    /\ UNCHANGED <<data, writable, idle, locks, history>>

\* os.replace, which the source or the bucket being gone makes fail.
\* Bug: the file is copied to the bucket, as if that were another volume.
Renamed == [flat |-> Absent, bucket |-> data["flat"]]

Move(p) ==
    /\ proc[p].pc = "move"
    /\ \/ /\ Exists("flat") /\ bucketDir /\ writable
          /\ data' = Renamed
       \/ /\ ~(Exists("flat") /\ bucketDir /\ writable)
          /\ UNCHANGED data
    /\ LayoutGoto(p, "again")
    /\ UNCHANGED <<bucketDir, writable, idle, locks, history>>

\* A move that could not run leaves the data where it is still readable.
Found == IF Exists("flat") THEN "flat" ELSE "bucket"

\* Bug: the sidecar follows the data, to keep the pair tidy.
SidecarAfter_Moved ==
    IF Exists("flat") \/ sidecar["flat"] = 0 THEN sidecar
    ELSE [flat |-> 0, bucket |-> sidecar["flat"]]

\* "The data only - deliberately NOT the lock."
SidecarAfter == sidecar

ProbeAgain(p) ==
    /\ proc[p].pc = "again"
    /\ Resolved(p, Found)
    /\ sidecar' = SidecarAfter
    /\ UNCHANGED <<tree, inodes, history>>

---------------------------------------------------------------------------
\* append and read_messages, at the path their one resolution gave them.

StartAppend(p) ==
    /\ p \in Appenders /\ proc[p].pc = "idle"
    /\ proc' = [proc EXCEPT ![p] = Resolve(p, "gate")]
    /\ UNCHANGED <<tree, locks, history>>

DirFor(place) == bucketDir \/ place = "bucket"

\* _locked makes the directory and the lock file, and waits for the lock.
LockAt(p, place, pc) ==
    /\ LockedBy(sidecar[place]) = {}
    /\ IF sidecar[place] = 0
       THEN /\ inodes' = inodes + 1
            /\ sidecar' = [sidecar EXCEPT ![place] = inodes']
       ELSE UNCHANGED locks
    /\ bucketDir' = DirFor(place)
    /\ proc' = [proc EXCEPT ![p].pc = pc, ![p].path = place, ![p].inode = sidecar'[place]]
    /\ UNCHANGED <<data, writable, idle, history>>

\* Nothing can be locked on a volume that cannot be written, and the
\* request ends in the error.
LockPath(p) ==
    /\ proc[p].pc = "gate"
    /\ writable
    /\ LockAt(p, proc[p].found, "lock")

LockFails(p) ==
    /\ proc[p].pc = "gate" /\ ~writable
    /\ proc' = [proc EXCEPT ![p] = Idler]
    /\ UNCHANGED <<tree, locks, history>>

\* last_seq resolves the name again, under the lock of the path.
SeqUnderLock(p) ==
    /\ proc[p].pc = "lock"
    /\ proc' = [proc EXCEPT ![p] = Resolve(p, "write")]
    /\ UNCHANGED <<tree, locks, history>>

Contents(place) == IF Exists(place) THEN data[place] ELSE {}
NextRecord == Cardinality(acked) + 1

\* Open "ab" makes the file when it is not there, whatever was resolved since.
AppendRecord(p) ==
    /\ proc[p].pc = "write"
    /\ NextRecord \in Record
    /\ data' = [data EXCEPT ![proc[p].path] = Contents(proc[p].path) \cup {NextRecord}]
    /\ acked' = acked \cup {NextRecord}
    /\ idle' = FALSE
    /\ LayoutGoto(p, "unlock")
    /\ UNCHANGED <<bucketDir, writable, locks, reaped, unlinked>>

Unlock(p) ==
    /\ proc[p].pc = "unlock"
    /\ proc' = [proc EXCEPT ![p] = Idler]
    /\ UNCHANGED <<tree, locks, history>>

StartRead(p) ==
    /\ p \in Lookers /\ proc[p].pc = "idle"
    /\ proc' = [proc EXCEPT ![p] = [Resolve(p, "read") EXCEPT !.basis = acked, !.reply = {}]]
    /\ UNCHANGED <<tree, locks, history>>

ReadFile(p) ==
    /\ proc[p].pc = "read"
    /\ proc' = [proc EXCEPT ![p].reply = Contents(proc[p].found), ![p].pc = "idle"]
    /\ UNCHANGED <<tree, locks, history>>

---------------------------------------------------------------------------
\* The reap pass, which locks what its walk found and not what a resolver says.

FindIdle(place) ==
    /\ proc[Sweeper].pc = "idle" /\ writable
    /\ Exists(place) /\ idle /\ reaped < MaxReaps
    /\ LockAt(Sweeper, place, "recheck")

\* last_seq, for the floor to record, resolves the name; so it moves the file.
Recheck ==
    /\ proc[Sweeper].pc = "recheck"
    /\ proc' = [proc EXCEPT ![Sweeper] =
                  IF Exists(proc[Sweeper].path) /\ idle
                  THEN Resolve(Sweeper, "unlink")
                  ELSE [proc[Sweeper] EXCEPT !.pc = "unlock"]]
    /\ UNCHANGED <<tree, locks, history>>

\* Bug: the file is deleted where the resolver says it is, not where it is locked.
Doomed_Resolved == proc[Sweeper].found

Doomed == proc[Sweeper].path

\* unlink(missing_ok=True), and the counts of the pass either way.
UnlinkPath ==
    LET place == Doomed IN
    /\ proc[Sweeper].pc = "unlink"
    /\ data' = [data EXCEPT ![place] = Absent]
    /\ reaped' = reaped + 1
    /\ IF Exists(place)
       THEN unlinked' = unlinked + 1 /\ acked' = {}
       ELSE UNCHANGED <<unlinked, acked>>
    /\ LayoutGoto(Sweeper, "unlock")
    /\ UNCHANGED <<bucketDir, writable, idle, locks>>

\* The pass emptied the bucket of another room's file and lock, and removes
\* it while no create is under way; a migration holds nothing it waits for.
RemoveBucket ==
    /\ SweepsTheGap \/ \A p \in Processes : proc[p].pc # "move"
    /\ bucketDir /\ ~Exists("bucket") /\ sidecar["bucket"] = 0
    /\ bucketDir' = FALSE
    /\ UNCHANGED <<data, writable, idle, locks, proc, history>>

AWeekLater ==
    /\ ~idle /\ \A p \in Processes : proc[p].pc = "idle"
    /\ idle' = TRUE
    /\ UNCHANGED <<data, bucketDir, writable, locks, proc, history>>

LayoutNext ==
    \/ \E p \in Processes :
          \/ ProbeBucket(p) \/ ProbeLegacy(p) \/ MakeBucket(p) \/ Move(p) \/ ProbeAgain(p)
          \/ StartAppend(p) \/ LockPath(p) \/ LockFails(p)
          \/ SeqUnderLock(p) \/ AppendRecord(p) \/ Unlock(p)
          \/ StartRead(p) \/ ReadFile(p)
    \/ \E place \in Places : FindIdle(place)
    \/ Recheck \/ UnlinkPath \/ RemoveBucket \/ AWeekLater

LayoutSpec == LayoutInit /\ [][LayoutNext]_layoutVars

---------------------------------------------------------------------------
\* Properties.

\* The room is one file: whoever resolves the name, whenever, finds the one
\* that has its records (_resolve: "one path per name per instant").
NoFork ==
    /\ ~(Exists("flat") /\ Exists("bucket"))
    /\ \A place \in Places : Exists(place) => data[place] = acked

\* Two appenders are never past a lock at once, although the file moved
\* between the resolution of the one and of the other.
OneAppender ==
    \A p, q \in Appenders : proc[p].inode # 0 /\ proc[q].inode # 0 => p = q

\* A read of a room nobody deleted meanwhile has all that was acknowledged
\* when it began, whoever moved the file under it.
ReadsAreWhole ==
    \A p \in Lookers :
        proc[p].pc = "idle" /\ unlinked = 0 => proc[p].basis \subseteq proc[p].reply

\* One room, one file, one lock, and nothing missing from a read, while resolvers
\* of several processes move it to its bucket (`_resolve`, `_migrate`).
LayoutInv == LayoutTypeOK /\ NoFork /\ OneAppender /\ ReadsAreWhole

\* Records of a room that was written to since the pass looked do not vanish,
\* not even when it was moved from under the lock the pass holds (_migrate:
\* such a file is "skipped rather than deleted").
OnlyIdleVanishes ==
    [][\A place \in Places :
          Exists(place) =>
              \/ idle
              \/ \E p \in Places : data'[p] # Absent /\ data[place] \subseteq data'[p]]_layoutVars

---------------------------------------------------------------------------
\* What the code does not keep; TLC refutes it.

\* What the pass counts as deleted, it deleted: not when the file was moved
\* between the re-check and the unlink.
ReapedIsGone == proc[Sweeper].pc # "unlink" => reaped = unlinked
=============================================================================
