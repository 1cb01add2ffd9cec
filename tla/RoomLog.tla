------------------------------ MODULE RoomLog ------------------------------
(***************************************************************************)
(* One room of the store, as src/src/store.py keeps it: a JSONL file, its  *)
(* sidecar lock, and the room's entry (floor, generation) in the sequence  *)
(* state.  Writers run `append` / `_write_record`, the reaper runs its     *)
(* per-room part of `_reap_pass` and `_sweep_orphan_locks`, readers run    *)
(* `read_messages` without any lock.  Every process may run in a worker of *)
(* its own: they share nothing but the disk.                               *)
(*                                                                         *)
(* Sizes are counted in records, time in three ages of the file.  What the *)
(* environment may do is the constant Env, so that each run and each       *)
(* theorem names the failures it covers:                                   *)
(*   crash     a worker dies between two steps (its flocks are released)   *)
(*   cutwrite  the write of a record is cut short by a crash or a full disk*)
(*   seqfail   `_set_seq_entry` meets an OSError, which it swallows        *)
(*   stall     a handler is suspended for longer than STILLBORN_SECONDS    *)
(*   oldlock   a sidecar lock file becomes older than IDLE_SECONDS         *)
(***************************************************************************)
EXTENDS Integers, Sequences, FiniteSets

CONSTANTS Writers,      \* handlers that append to the room
          Reaper,       \* the one reap pass running in the service
          Readers,      \* clients that poll the room
          Env,          \* the failures this instance may meet
          Requests,     \* what a caller may send: [did, nonce], did = Unsigned on the unsigned lane
          Unsigned,
          RingLimits,   \* what _ring_limit may answer, in records
          ReadBudget,   \* records covered by READ_BUDGET
          Ephemeral,    \* the room is of the e- class
          MaxCalls,     \* bound: writes attempted in one behaviour
          MaxSince      \* bound: the largest cursor a caller sends

Failures == {"crash", "cutwrite", "seqfail", "stall", "oldlock"}

Procs == Writers \cup {Reaper}

ASSUME RoomAssumption ==
  /\ Reaper \notin Writers
  /\ Env \subseteq Failures
  /\ Requests # {} /\ Requests \subseteq [did : {r.did : r \in Requests}, nonce : Nat]
  /\ RingLimits \subseteq Nat \ {0}
  /\ ReadBudget \in Nat \ {0}
  /\ Ephemeral \in BOOLEAN
  /\ MaxCalls \in Nat
  /\ MaxSince \in Nat

VARIABLES
  exists,   \* rooms/<shard>/<room>.jsonl is there
  recs,     \* its parsable records, oldest first
  torn,     \* it ends in an unparsable fragment without a newline
  age,      \* how long ago it was written
  expired,  \* records up to this seq are past EPHEMERAL_TTL_SECONDS
  floor,    \* the room's entry in .seqstate.<shard>
  gen,
  sidecar,  \* inode at <room>.jsonl.lock, 0 when there is none
  inodes,   \* lock inodes made so far
  lockOld,  \* the sidecar's mtime is more than IDLE_SECONDS ago
  handle,   \* handle[p]: the lock inode p has open
  holds,    \* holds[p]: p has flocked it
  pc,       \* where each writer is in _write_record
  job,      \* its request, the seq it assigned, and whether it created the room
  rpc,      \* where the reaper is
  polling,  \* a reader's request in progress
  cursor,   \* the last_seq of a reader's last reply
  calls,    \* writes attempted
  high,     \* history: the highest seq any record was ever written under
  births    \* history: how often the room's file came into existence

fileVars == <<exists, recs, torn, age, expired>>
seqVars  == <<floor, gen>>
lockVars == <<sidecar, inodes, lockOld, handle, holds>>
readVars == <<polling, cursor>>
histVars == <<high, births>>
vars == <<fileVars, seqVars, lockVars, pc, job, rpc, readVars, calls, histVars>>

----------------------------------------------------------------------------
(* The file.                                                               *)

Record == [seq : Nat \ {0}, did : {r.did : r \in Requests}, nonce : Nat]

\* The newest parsable record's seq; a file without one answers 0.
NewestSeq(rs) == IF rs = <<>> THEN 0 ELSE rs[Len(rs)].seq

LastSeq_NoFloor == NewestSeq(recs)
LastSeq == IF exists THEN NewestSeq(recs) ELSE floor

\* The newest nonce a key used among the records READ_BUDGET covers, -1 for none.
LastNonce(d) ==
  LET mine == {i \in 1..Len(recs) : i > Len(recs) - ReadBudget /\ recs[i].did = d}
  IN  IF mine = {} THEN -1
      ELSE recs[CHOOSE i \in mine : \A k \in mine : k <= i].nonce

\* Which rule retires the room: idle, or stillborn (at most one record).
Reapable == age = "idle" \/ (age = "quiet" /\ Len(recs) <= 1)

\* What a compaction keeps: as many of the newest records as fit limit \div 2,
\* none past an expired one, and always the newest.
Survives(limit, j) ==
  \/ j = Len(recs)
  \/ /\ Len(recs) - j + 1 <= limit \div 2
     /\ \A k \in j..(Len(recs) - 1) : recs[k].seq > expired

Compact(limit) ==
  \E first \in 1..(Len(recs) + 1) :
    /\ \A j \in 1..Len(recs) : Survives(limit, j) <=> j >= first
    /\ recs' = SubSeq(recs, first, Len(recs))
    /\ torn' = FALSE
    /\ age' = "fresh"

----------------------------------------------------------------------------
(* The sidecar lock: _locked opens the path, making it if need be, then     *)
(* flocks what it opened.  Two processes exclude each other only when they  *)
(* opened the same inode.                                                   *)

Open(p) ==
  LET fresh == sidecar = 0
      ino   == IF fresh THEN inodes + 1 ELSE sidecar
  IN  /\ sidecar' = ino
      /\ inodes' = IF fresh THEN ino ELSE inodes
      /\ lockOld' = (lockOld /\ ~fresh)
      /\ handle' = [handle EXCEPT ![p] = ino]
      /\ UNCHANGED holds

Flock(p) ==
  /\ \A q \in Procs : ~(holds[q] /\ handle[q] = handle[p])
  /\ holds' = [holds EXCEPT ![p] = TRUE]
  /\ UNCHANGED <<sidecar, inodes, lockOld, handle>>

Release(p) ==
  /\ holds' = [holds EXCEPT ![p] = FALSE]
  /\ handle' = [handle EXCEPT ![p] = 0]
  /\ UNCHANGED <<sidecar, inodes, lockOld>>

----------------------------------------------------------------------------
(* Writers: _write_record.                                                 *)

Go(w, from, to) == pc[w] = from /\ pc' = [pc EXCEPT ![w] = to]

Begin(w) ==
  /\ Go(w, "idle", "open")
  /\ calls < MaxCalls
  /\ calls' = calls + 1
  /\ \E r \in Requests : job' = [job EXCEPT ![w] = [req |-> r, seq |-> 0, created |-> FALSE]]
  /\ UNCHANGED <<fileVars, seqVars, lockVars, rpc, readVars, histVars>>

OpenLock(w) ==
  /\ Go(w, "open", "flock")
  /\ Open(w)
  /\ UNCHANGED <<fileVars, seqVars, job, rpc, readVars, calls, histVars>>

TakeLock(w) ==
  /\ Go(w, "flock", "decide")
  /\ Flock(w)
  /\ UNCHANGED <<fileVars, seqVars, job, rpc, readVars, calls, histVars>>

\* Under the lock: is this a create, is the nonce fresh, which seq is next.
Replayed(w) ==
  /\ job[w].req.did # Unsigned
  /\ job[w].req.nonce <= LastNonce(job[w].req.did)

Decide_NoNonce(w) ==
  /\ Go(w, "decide", "write")
  /\ job' = [job EXCEPT ![w] = [req |-> @.req, seq |-> LastSeq + 1, created |-> ~exists]]
  /\ UNCHANGED <<fileVars, seqVars, lockVars, rpc, readVars, calls, histVars>>

Decide(w) ==
  /\ Go(w, "decide", "write")
  /\ ~Replayed(w)
  /\ job' = [job EXCEPT ![w] = [req |-> @.req, seq |-> LastSeq + 1, created |-> ~exists]]
  /\ UNCHANGED <<fileVars, seqVars, lockVars, rpc, readVars, calls, histVars>>

Refuse(w) ==
  /\ Go(w, "decide", "idle")
  /\ Replayed(w)
  /\ Release(w)
  /\ UNCHANGED <<fileVars, seqVars, job, rpc, readVars, calls, histVars>>

NewRecord(w) == [seq |-> job[w].seq, did |-> job[w].req.did, nonce |-> job[w].req.nonce]

\* Without the heal, the new line fuses with the fragment and neither parses.
PutRecord_NoHeal(w) ==
  /\ exists' = TRUE
  /\ recs' = IF torn THEN recs ELSE Append(recs, NewRecord(w))
  /\ torn' = FALSE
  /\ age' = "fresh"
  /\ high' = IF job[w].seq > high THEN job[w].seq ELSE high
  /\ births' = births + (IF exists THEN 0 ELSE 1)
  /\ UNCHANGED expired

\* One O_APPEND write of the whole line, which also heals a torn tail: the line
\* then starts with a newline, and the fragment before it costs only itself.
PutRecord(w) ==
  /\ exists' = TRUE
  /\ recs' = Append(recs, NewRecord(w))
  /\ torn' = FALSE
  /\ age' = "fresh"
  /\ high' = IF job[w].seq > high THEN job[w].seq ELSE high
  /\ births' = births + (IF exists THEN 0 ELSE 1)
  /\ UNCHANGED expired

Write(w) ==
  /\ Go(w, "write", "ring")
  /\ PutRecord(w)
  /\ UNCHANGED <<seqVars, lockVars, job, rpc, readVars, calls>>

\* The write stops short: the file may have been made and be empty, or end in a
\* fragment, or hold the whole line that nobody is told was written.
CutWrite(w) ==
  /\ "cutwrite" \in Env
  /\ Go(w, "write", "idle")
  /\ \/ PutRecord(w)
     \/ /\ exists' = TRUE
        /\ torn' \in {torn, TRUE}
        /\ age' = IF exists /\ torn' = torn THEN age ELSE "fresh"
        /\ births' = births + (IF exists THEN 0 ELSE 1)
        /\ UNCHANGED <<recs, expired, high>>
  /\ Release(w)
  /\ UNCHANGED <<seqVars, job, rpc, readVars, calls>>

\* Past its ring the room is compacted, and the lock is given up.
Finish(w) ==
  /\ Go(w, "ring", IF job[w].created THEN "entry" ELSE "idle")
  /\ \E limit \in RingLimits :
       IF Len(recs) > limit THEN Compact(limit) ELSE UNCHANGED <<recs, torn, age>>
  /\ Release(w)
  /\ UNCHANGED <<exists, expired, seqVars, job, rpc, readVars, calls, histVars>>

\* _set_seq_entry(root, room, None), after the room lock is released: the
\* generation advances and the floor clears.
CreateEntry_ReapedOnly(w) ==
  /\ Go(w, "entry", "idle")
  /\ gen' = gen + (IF floor > 0 THEN 1 ELSE 0)
  /\ floor' = 0
  /\ UNCHANGED <<fileVars, lockVars, job, rpc, readVars, calls, histVars>>

CreateEntry(w) ==
  /\ Go(w, "entry", "idle")
  /\ gen' = gen + 1
  /\ floor' = 0
  /\ UNCHANGED <<fileVars, lockVars, job, rpc, readVars, calls, histVars>>

LoseCreateEntry(w) ==
  /\ "seqfail" \in Env
  /\ Go(w, "entry", "idle")
  /\ UNCHANGED <<fileVars, seqVars, lockVars, job, rpc, readVars, calls, histVars>>

CrashWriter(w) ==
  /\ "crash" \in Env
  /\ pc[w] # "idle"
  /\ pc' = [pc EXCEPT ![w] = "idle"]
  /\ Release(w)
  /\ UNCHANGED <<fileVars, seqVars, job, rpc, readVars, calls, histVars>>

Writer(w) ==
  \/ Begin(w) \/ OpenLock(w) \/ TakeLock(w) \/ Decide(w) \/ Refuse(w)
  \/ Write(w) \/ CutWrite(w) \/ Finish(w)
  \/ CreateEntry(w) \/ LoseCreateEntry(w) \/ CrashWriter(w)

----------------------------------------------------------------------------
(* The reaper: what _reap_pass does to this room, then the lock sweep.      *)

RGo(from, to) == rpc = from /\ rpc' = to

\* The unlocked stat of the walk.
WalkRoom ==
  /\ RGo("off", IF exists /\ Reapable THEN "open" ELSE "sweep")
  /\ UNCHANGED <<fileVars, seqVars, lockVars, pc, job, readVars, calls, histVars>>

ReapOpen ==
  /\ RGo("open", "flock")
  /\ Open(Reaper)
  /\ UNCHANGED <<fileVars, seqVars, pc, job, readVars, calls, histVars>>

ReapLock ==
  /\ RGo("flock", "recheck")
  /\ Flock(Reaper)
  /\ UNCHANGED <<fileVars, seqVars, pc, job, readVars, calls, histVars>>

\* The decision is taken again under the lock.
Recheck_Trusting == RGo("recheck", "floor") /\ UNCHANGED lockVars
Recheck ==
  \/ RGo("recheck", "floor") /\ exists /\ Reapable /\ UNCHANGED lockVars
  \/ RGo("recheck", "sweep") /\ ~(exists /\ Reapable) /\ Release(Reaper)

ReapRecheck ==
  /\ Recheck
  /\ UNCHANGED <<fileVars, seqVars, pc, job, readVars, calls, histVars>>

\* _set_seq_entry(root, room, last_seq): the high-water mark becomes the floor
\* and the generation is preserved, before the file goes.
SetFloor ==
  /\ RGo("floor", "unlink")
  /\ floor' = LastSeq
  /\ UNCHANGED <<gen, fileVars, lockVars, pc, job, readVars, calls, histVars>>

LoseFloor ==
  /\ "seqfail" \in Env
  /\ RGo("floor", "unlink")
  /\ UNCHANGED <<seqVars, fileVars, lockVars, pc, job, readVars, calls, histVars>>

Unlink ==
  /\ RGo("unlink", "sweep")
  /\ exists' = FALSE
  /\ recs' = <<>>
  /\ torn' = FALSE
  /\ age' = "fresh"
  /\ expired' = 0
  /\ Release(Reaper)
  /\ UNCHANGED <<seqVars, pc, job, readVars, calls, histVars>>

\* _sweep_orphan_locks, for this room's sidecar.
Sweep ==
  /\ RGo("sweep", "off")
  /\ sidecar' = IF sidecar # 0 /\ ~exists /\ lockOld THEN 0 ELSE sidecar
  /\ lockOld' = (lockOld /\ sidecar' # 0)
  /\ UNCHANGED <<fileVars, seqVars, inodes, handle, holds, pc, job, readVars, calls, histVars>>

CrashReaper ==
  /\ "crash" \in Env
  /\ rpc # "off"
  /\ rpc' = "off"
  /\ Release(Reaper)
  /\ UNCHANGED <<fileVars, seqVars, pc, job, readVars, calls, histVars>>

Reap ==
  \/ WalkRoom \/ ReapOpen \/ ReapLock \/ ReapRecheck
  \/ SetFloor \/ LoseFloor \/ Unlink \/ Sweep \/ CrashReaper

----------------------------------------------------------------------------
(* Readers: read_messages, which opens the file, and only when it found no  *)
(* record reads the floor.                                                  *)

NotPolling == [on |-> FALSE, since |-> 0]

Lesser(m, n) == IF m < n THEN m ELSE n

\* The reply's last_seq when the file answered it: the newest record, if the
\* caller has not seen it and it has not expired, else the clamped cursor.
TailReply(since) ==
  LET newest == NewestSeq(recs)
  IN  IF since < newest /\ expired < newest THEN newest ELSE Lesser(since, newest)

\* With nothing on disk, the cursor is clamped to the floor.
FloorReply_Echo(since) == since
FloorReply(since) == Lesser(since, floor)

Reply(r, n) ==
  /\ cursor' = [cursor EXCEPT ![r] = n]
  /\ polling' = [polling EXCEPT ![r] = NotPolling]

ReadTail(r) ==
  /\ ~polling[r].on
  /\ \E since \in {cursor[r]} \cup 0..MaxSince :
       IF NewestSeq(recs) # 0 \/ since = 0
       THEN Reply(r, TailReply(since))
       ELSE /\ polling' = [polling EXCEPT ![r] = [on |-> TRUE, since |-> since]]
            /\ UNCHANGED cursor
  /\ UNCHANGED <<fileVars, seqVars, lockVars, pc, job, rpc, calls, histVars>>

ReadFloor(r) ==
  /\ polling[r].on
  /\ Reply(r, FloorReply(polling[r].since))
  /\ UNCHANGED <<fileVars, seqVars, lockVars, pc, job, rpc, calls, histVars>>

----------------------------------------------------------------------------
(* Time.  A pass judges every file by the instant it started at, so a file  *)
(* that ages during a pass changes nothing before the next one; and unless  *)
(* "stall" is in Env a handler ends long before its room is a day old.      *)

Settled == \A w \in Writers : pc[w] \notin {"ring", "entry"}

AgeRoom ==
  /\ exists
  /\ rpc = "off"
  /\ "stall" \in Env \/ Settled
  /\ \/ age = "fresh" /\ age' = "quiet"
     \/ age = "quiet" /\ age' = "idle"
  /\ UNCHANGED <<exists, recs, torn, expired, seqVars, lockVars, pc, job, rpc, readVars, calls, histVars>>

\* A sidecar's mtime is its creation: opening it "a+b" to flock it writes nothing.
AgeLock ==
  /\ "oldlock" \in Env
  /\ rpc = "off"
  /\ "stall" \in Env \/ \A w \in Writers : pc[w] = "idle"
  /\ sidecar # 0
  /\ ~lockOld
  /\ lockOld' = TRUE
  /\ UNCHANGED <<fileVars, seqVars, sidecar, inodes, handle, holds, pc, job, rpc, readVars, calls, histVars>>

Expire ==
  /\ Ephemeral
  /\ expired < NewestSeq(recs)
  /\ expired' = expired + 1
  /\ UNCHANGED <<exists, recs, torn, age, seqVars, lockVars, pc, job, rpc, readVars, calls, histVars>>

----------------------------------------------------------------------------
NoJob == [req |-> CHOOSE r \in Requests : TRUE, seq |-> 0, created |-> FALSE]

Init ==
  /\ exists = FALSE /\ recs = <<>> /\ torn = FALSE /\ age = "fresh" /\ expired = 0
  /\ floor = 0 /\ gen = 0
  /\ sidecar = 0 /\ inodes = 0 /\ lockOld = FALSE
  /\ handle = [p \in Procs |-> 0]
  /\ holds = [p \in Procs |-> FALSE]
  /\ pc = [w \in Writers |-> "idle"]
  /\ job = [w \in Writers |-> NoJob]
  /\ rpc = "off"
  /\ polling = [r \in Readers |-> NotPolling]
  /\ cursor = [r \in Readers |-> 0]
  /\ calls = 0
  /\ high = 0 /\ births = 0

Next ==
  \/ \E w \in Writers : Writer(w)
  \/ Reap
  \/ \E r \in Readers : ReadTail(r) \/ ReadFloor(r)
  \/ AgeRoom \/ AgeLock \/ Expire

Spec == Init /\ [][Next]_vars

\* A handler that runs keeps running, and so does the pass it started; a waiter
\* for a flock gets it in the end.  Nobody is obliged to write, poll or wait.
Step(w) == OpenLock(w) \/ Decide(w) \/ Refuse(w) \/ Write(w) \/ Finish(w) \/ CreateEntry(w)

FairSpec ==
  /\ Spec
  /\ \A w \in Writers : WF_vars(Step(w)) /\ SF_vars(TakeLock(w))
  /\ WF_vars(Reap)

----------------------------------------------------------------------------
(* Properties.                                                             *)

TypeOK ==
  /\ exists \in BOOLEAN /\ torn \in BOOLEAN
  /\ recs \in Seq(Record)
  /\ age \in {"fresh", "quiet", "idle"}
  /\ expired \in Nat /\ floor \in Nat /\ gen \in Nat
  /\ sidecar \in Nat /\ inodes \in Nat /\ lockOld \in BOOLEAN
  /\ handle \in [Procs -> Nat]
  /\ holds \in [Procs -> BOOLEAN]
  /\ pc \in [Writers -> {"idle", "open", "flock", "decide", "write", "ring", "entry"}]
  /\ job \in [Writers -> [req : Requests, seq : Nat, created : BOOLEAN]]
  /\ \A w \in Writers : pc[w] = "write" => job[w].seq # 0
  /\ rpc \in {"off", "open", "flock", "recheck", "floor", "unlink", "sweep"}
  /\ polling \in [Readers -> [on : BOOLEAN, since : Nat]]
  /\ cursor \in [Readers -> Nat]
  /\ calls \in Nat /\ high \in Nat /\ births \in Nat

\* The next message takes the number after the highest ever used: no number is
\* used twice, not by two writers at once, and not when the room was reaped or
\* compacted in between (#139; `last_seq`, `_compact`, `_reap_pass`).
SeqContiguous == LastSeq = high

\* The records of the file are in strictly increasing order of seq, whoever
\* wrote them and whatever failed (`_write_record` under the room lock).
Increasing == \A i, j \in 1..Len(recs) : i < j => recs[i].seq < recs[j].seq

\* Nobody's poll ends on a cursor that a later message would not get past,
\* whatever number the caller sent and whenever the room was reaped (#139, #565;
\* `read_messages`).
CursorNotStranded == \A r \in Readers : cursor[r] <= LastSeq

\* A write that is about to be acknowledged can be read back, also when it
\* landed on a torn tail: "the torn record must cost only itself".
AckedIsReadable == \A w \in Writers : pc[w] = "ring" => NewestSeq(recs) = job[w].seq

\* Two records of one key that the replay check could compare carry increasing
\* nonces, so one signed URL is accepted once while its record is in reach
\* (`_last_nonce` under the room lock).
NonceOrder ==
  \A i, j \in 1..Len(recs) :
    (i < j /\ j - i <= ReadBudget /\ recs[i].did = recs[j].did /\ recs[i].did # Unsigned)
      => recs[i].nonce < recs[j].nonce

\* With writers dying and entries lost a generation may be skipped, but never
\* invented: a reader told of a new conversation did get one.
GenNotInvented == gen <= births

\* What no fault takes from a room: cut writes, lost entries, stalled handlers
\* and deaths leave its records in order, the last acknowledged one readable,
\* and no generation that was not born (`_write_record`, `_set_seq_entry`).
RecordsStand == TypeOK /\ Increasing /\ AckedIsReadable /\ GenNotInvented

\* Once its creators are through, the generation counts the conversations the
\* name has carried (#139 dir #3; `_set_seq_entry` after `_write_record`).
Creating == {w \in Writers : pc[w] \in {"ring", "entry"} /\ job[w].created}
GenCountsBirths == gen + Cardinality(Creating) = births

\* The file is only ever removed when it is idle, or quiet with nobody having
\* answered its first message: a write that lands between the walk and the
\* deletion keeps the room (`_reap_pass`, the recheck under the lock).
LiveRoomKept ==
  [][exists /\ ~exists' => age = "idle" \/ (age = "quiet" /\ Len(recs) <= 1)]_vars

\* Every write is acknowledged or refused in the end, waiters for the room's
\* lock included.
EveryWriteEnds == \A w \in Writers : pc[w] = "open" ~> pc[w] = "idle"

\* "waiting the full week is what keeps a writer recreating that room from having
\* its lock unlinked underneath it" (`_sweep_orphan_locks`): the sweep unlinks no
\* sidecar that somebody holds.
SweepSparesHolders ==
  [][sidecar # 0 /\ sidecar' = 0 => \A w \in Writers : ~(holds[w] /\ handle[w] = sidecar)]_vars

\* A reader holding the old generation is told of a new conversation in the end.
GenerationCatchesUp == (gen < births) ~> (gen = births)

\* Why SeqContiguous is kept, when at most crashes happen.  Whoever is past its
\* flock holds the one inode there is;
OneHolder ==
  /\ ~lockOld
  /\ \A p \in Procs : handle[p] # 0 => handle[p] = sidecar
  /\ \A p \in Procs : holds[p] => handle[p] # 0
  /\ \A p, q \in Procs : holds[p] /\ holds[q] => p = q

WriterHolds ==
  \A w \in Writers : /\ pc[w] = "flock" => handle[w] # 0
                     /\ pc[w] \in {"decide", "write", "ring"} => holds[w]

ReaperHolds ==
  /\ rpc = "flock" => handle[Reaper] # 0
  /\ rpc \in {"recheck", "floor", "unlink"} => holds[Reaper]

LockInv == OneHolder /\ WriterHolds /\ ReaperHolds

\* what a writer decided still stands when it writes, and the room it created
\* stays fresh until its entry is made;
WriterInv ==
  \A w \in Writers :
    /\ pc[w] = "write" => job[w].seq = high + 1
    /\ pc[w] \in {"ring", "entry"} => exists /\ age = "fresh"

\* the room the reaper retires is not fresh, and its end is on record first;
ReaperInv ==
  /\ rpc \in {"floor", "unlink"} => exists /\ age # "fresh"
  /\ rpc = "unlink" => floor = high

\* the file is never without its newest record, nor the floor past the head.
HeadInv ==
  /\ exists <=> recs # <<>>
  /\ floor <= high
  /\ LastSeq = high

Inductive == TypeOK /\ LockInv /\ WriterInv /\ ReaperInv /\ HeadInv /\ Increasing /\ CursorNotStranded

\* What the weekly sweep is written to rely on, as an action: nobody has the
\* sidecar open that it unlinks (SweepSparesHolders shows that somebody may).
SweptUnused == sidecar # 0 /\ sidecar' = 0 => \A w \in Writers : handle[w] # sidecar

\* Why RecordsStand and NonceOrder are kept whatever fails, while no sweep takes
\* a sidecar in use.  One inode, however old, and one holder of it;
OneInode ==
  /\ \A p \in Procs : handle[p] # 0 => handle[p] = sidecar
  /\ \A p \in Procs : holds[p] => handle[p] # 0
  /\ \A p, q \in Procs : holds[p] /\ holds[q] => p = q
  /\ rpc \in {"off", "open", "sweep"} => handle[Reaper] = 0
  /\ WriterHolds
  /\ ReaperHolds

\* what a writer decided about the file is still true when it writes;
DecisionStands ==
  \A w \in Writers : pc[w] = "write" =>
    /\ NewestSeq(recs) < job[w].seq
    /\ job[w].created <=> ~exists
    /\ job[w].req.did # Unsigned => LastNonce(job[w].req.did) < job[w].req.nonce

\* and only a creator makes an entry, for the birth that its write was.
EntryOwed == \A w \in Writers : pc[w] = "entry" => job[w].created
BirthsCovered == IsFiniteSet(Creating) /\ gen + Cardinality(Creating) <= births

WhateverFails ==
  /\ TypeOK /\ OneInode /\ DecisionStands /\ EntryOwed /\ BirthsCovered
  /\ ~exists => recs = <<>>
  /\ Increasing /\ NonceOrder /\ AckedIsReadable

\* What a room promises, on the seqs of the file.
Promise == INSTANCE RoomPromise WITH head <- LastSeq, kept <- {recs[i].seq : i \in 1..Len(recs)}
KeepsPromise == Promise!Spec
=============================================================================
