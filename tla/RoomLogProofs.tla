--------------------------- MODULE RoomLogProofs ----------------------------
(***************************************************************************)
(* Proofs about RoomLog, for any number of writers and readers, any ring   *)
(* and any requests. The types hold whatever fails; the numbering of a     *)
(* room's messages is proved for an environment that at most crashes; and  *)
(* the order of its records whatever the environment does to it (writes    *)
(* cut short, entries lost, handlers stalled or dead, sidecars of any      *)
(* age), assuming only that no sweep unlinks a sidecar that a handler has  *)
(* open (SweptUnused).                                                     *)
(***************************************************************************)
EXTENDS RoomLog, SequenceTheorems, FiniteSetTheorems, WellFoundedInduction, NaturalsInduction, TLAPS

OnlyCrashes == Env \subseteq {"crash"}

----------------------------------------------------------------------------
(* Sequences of records.                                                   *)

\* What a rotation leaves: a suffix that still ends in the newest record.
LEMMA CompactKeepsSuffix ==
  ASSUME recs \in Seq(Record), recs # <<>>, NEW limit, Compact(limit)
  PROVE  \E first \in 1..Len(recs) :
           /\ recs' \in Seq(Record)
           /\ Len(recs') = Len(recs) - first + 1
           /\ \A i \in 1..Len(recs') : recs'[i] = recs[first + i - 1]
<1>1. PICK first \in 1..(Len(recs) + 1) :
        /\ \A j \in 1..Len(recs) : Survives(limit, j) <=> j >= first
        /\ recs' = SubSeq(recs, first, Len(recs))
  BY DEF Compact
<1>2. Len(recs) \in Nat /\ Len(recs) >= 1
  BY EmptySeq, LenProperties
<1>3. Survives(limit, Len(recs))
  BY DEF Survives
<1>4. first \in 1..Len(recs)
  BY <1>1, <1>2, <1>3
<1>5. \A i \in first..Len(recs) : recs[i] \in Record
  BY <1>2, <1>4, ElementOfSeq
<1>6. /\ recs' \in Seq(Record)
      /\ Len(recs') = Len(recs) - first + 1
      /\ \A i \in 1..(Len(recs) - first + 1) : recs'[i] = recs[first + i - 1]
  BY <1>1, <1>2, <1>4, <1>5, SubSeqProperties
<1> QED
  BY <1>4, <1>6

\* A new record goes to the end and leaves the others where they are.
LEMMA AppendRecord ==
  ASSUME recs \in Seq(Record), NEW rec \in Record, recs' = Append(recs, rec)
  PROVE  /\ recs' \in Seq(Record) /\ recs' # <<>>
         /\ Len(recs') = Len(recs) + 1
         /\ \A i \in 1..Len(recs) : recs'[i] = recs[i]
         /\ recs'[Len(recs) + 1] = rec
         /\ NewestSeq(recs') = rec.seq
<1>1. /\ recs' \in Seq(Record) /\ Len(recs') = Len(recs) + 1
      /\ \A i \in 1..Len(recs) : recs'[i] = recs[i]
      /\ recs'[Len(recs) + 1] = rec
  BY AppendProperties
<1>2. recs' # <<>>
  BY <1>1, EmptySeq, LenProperties
<1> QED
  BY <1>1, <1>2 DEF NewestSeq

LEMMA NewestSeqType ==
  ASSUME recs \in Seq(Record)
  PROVE  NewestSeq(recs) \in Nat /\ (recs # <<>> => NewestSeq(recs) >= 1)
<1>1. CASE recs = <<>>
  BY <1>1 DEF NewestSeq
<1>2. CASE recs # <<>>
  <2>1. Len(recs) \in 1..Len(recs)
    BY <1>2, EmptySeq, LenProperties
  <2>2. recs[Len(recs)] \in Record
    BY <2>1, ElementOfSeq
  <2> QED
    BY <1>2, <2>2 DEF NewestSeq, Record
<1> QED
  BY <1>1, <1>2

----------------------------------------------------------------------------
(* Types.                                                                  *)

LEMMA OpenType ==
  ASSUME TypeOK, NEW p \in Procs, Open(p)
  PROVE  /\ sidecar' \in Nat /\ inodes' \in Nat /\ lockOld' \in BOOLEAN
         /\ handle' \in [Procs -> Nat] /\ holds' \in [Procs -> BOOLEAN]
BY DEF TypeOK, Open

LEMMA FlockType ==
  ASSUME TypeOK, NEW p \in Procs, Flock(p)
  PROVE  /\ sidecar' \in Nat /\ inodes' \in Nat /\ lockOld' \in BOOLEAN
         /\ handle' \in [Procs -> Nat] /\ holds' \in [Procs -> BOOLEAN]
BY DEF TypeOK, Flock

LEMMA ReleaseType ==
  ASSUME TypeOK, NEW p \in Procs, Release(p)
  PROVE  /\ sidecar' \in Nat /\ inodes' \in Nat /\ lockOld' \in BOOLEAN
         /\ handle' \in [Procs -> Nat] /\ holds' \in [Procs -> BOOLEAN]
BY DEF TypeOK, Release

LEMMA LastSeqType == ASSUME TypeOK PROVE LastSeq \in Nat
BY NewestSeqType DEF TypeOK, LastSeq

LEMMA PutRecordType ==
  ASSUME TypeOK, NEW w \in Writers, job[w].seq \in Nat \ {0}, PutRecord(w)
  PROVE  /\ exists' \in BOOLEAN /\ torn' \in BOOLEAN /\ recs' \in Seq(Record)
         /\ age' \in {"fresh", "quiet", "idle"} /\ expired' \in Nat
         /\ high' \in Nat /\ births' \in Nat
<1>1. job[w].req \in Requests
  BY DEF TypeOK
<1>2. [seq |-> job[w].seq, did |-> job[w].req.did, nonce |-> job[w].req.nonce] \in Record
  BY <1>1, RoomAssumption DEF Record
<1>3. recs' \in Seq(Record)
  BY <1>2, AppendProperties DEF TypeOK, PutRecord, NewRecord
<1>4. high' \in Nat
  BY DEF TypeOK, PutRecord, NewRecord
<1>5. births' \in Nat
  BY DEF TypeOK, PutRecord, NewRecord
<1> QED
  BY <1>3, <1>4, <1>5 DEF TypeOK, PutRecord, NewRecord

LEMMA WriterTypeStep ==
  ASSUME TypeOK, NEW w \in Writers, Writer(w)
  PROVE  TypeOK'
<1>0. w \in Procs
  BY DEF Procs
<1>1. CASE Begin(w)
  <2>1. PICK r \in Requests : job' = [job EXCEPT ![w] = [req |-> r, seq |-> 0, created |-> FALSE]]
    BY <1>1 DEF Begin
  <2>2. job' \in [Writers -> [req : Requests, seq : Nat, created : BOOLEAN]]
    BY <2>1 DEF TypeOK
  <2>3. \A v \in Writers : pc'[v] = "write" => job'[v].seq # 0
    BY <1>1, <2>1 DEF TypeOK, Begin, Go
  <2> QED
    BY <1>1, <2>2, <2>3 DEF TypeOK, Begin, Go, fileVars, seqVars, lockVars, readVars, histVars
<1>2. CASE OpenLock(w)
  BY <1>0, <1>2, OpenType DEF TypeOK, OpenLock, Go, fileVars, seqVars, readVars, histVars
<1>3. CASE TakeLock(w)
  BY <1>0, <1>3, FlockType DEF TypeOK, TakeLock, Go, fileVars, seqVars, readVars, histVars
<1>4. CASE Decide(w)
  <2>1. LastSeq + 1 \in Nat /\ LastSeq + 1 # 0
    BY LastSeqType
  <2>2. job' = [job EXCEPT ![w] = [req |-> job[w].req, seq |-> LastSeq + 1, created |-> ~exists]]
    BY <1>4 DEF Decide
  <2>3. job[w].req \in Requests
    BY DEF TypeOK
  <2>4. job' \in [Writers -> [req : Requests, seq : Nat, created : BOOLEAN]]
    BY <2>1, <2>2, <2>3 DEF TypeOK
  <2>5. \A v \in Writers : pc'[v] = "write" => job'[v].seq # 0
    BY <1>4, <2>1, <2>2 DEF TypeOK, Decide, Go
  <2> QED
    BY <1>4, <2>4, <2>5 DEF TypeOK, Decide, Go, fileVars, seqVars, lockVars, readVars, histVars
<1>5. CASE Refuse(w)
  BY <1>0, <1>5, ReleaseType DEF TypeOK, Refuse, Go, fileVars, seqVars, readVars, histVars
<1>6. CASE Write(w)
  <2>1. job[w].seq \in Nat \ {0}
    BY <1>6 DEF TypeOK, Write, Go
  <2>2. PutRecord(w)
    BY <1>6 DEF Write
  <2> QED
    BY <1>6, <2>1, <2>2, PutRecordType DEF TypeOK, Write, Go, seqVars, lockVars, readVars
<1>7. CASE CutWrite(w)
  <2>1. job[w].seq \in Nat \ {0}
    BY <1>7 DEF TypeOK, CutWrite, Go
  <2>2. /\ exists' \in BOOLEAN /\ torn' \in BOOLEAN /\ recs' \in Seq(Record)
        /\ age' \in {"fresh", "quiet", "idle"} /\ expired' \in Nat
        /\ high' \in Nat /\ births' \in Nat
    <3>1. CASE PutRecord(w)
      BY <2>1, <3>1, PutRecordType
    <3>2. CASE /\ exists' = TRUE
               /\ torn' \in {torn, TRUE}
               /\ age' = IF exists /\ torn' = torn THEN age ELSE "fresh"
               /\ births' = births + (IF exists THEN 0 ELSE 1)
               /\ UNCHANGED <<recs, expired, high>>
      <4>1. births' \in Nat
        BY <3>2 DEF TypeOK
      <4>2. torn' \in BOOLEAN /\ age' \in {"fresh", "quiet", "idle"}
        BY <3>2 DEF TypeOK
      <4> QED
        BY <3>2, <4>1, <4>2 DEF TypeOK
    <3> QED
      BY <1>7, <3>1, <3>2 DEF CutWrite
  <2> QED
    BY <1>0, <1>7, <2>2, ReleaseType DEF TypeOK, CutWrite, Go, seqVars, readVars
<1>8. CASE Finish(w)
  <2>1. /\ recs' \in Seq(Record) /\ torn' \in BOOLEAN /\ age' \in {"fresh", "quiet", "idle"}
    <3>1. PICK limit \in RingLimits :
            IF Len(recs) > limit THEN Compact(limit) ELSE UNCHANGED <<recs, torn, age>>
      BY <1>8 DEF Finish
    <3>2. CASE Len(recs) > limit
      <4>1. Len(recs) # 0
        BY <3>2, RoomAssumption, LenProperties DEF TypeOK
      <4>2. recs # <<>>
        BY <4>1, EmptySeq
      <4> QED
        BY <3>1, <3>2, <4>2, CompactKeepsSuffix DEF TypeOK, Compact
    <3>3. CASE ~(Len(recs) > limit)
      BY <3>1, <3>3 DEF TypeOK
    <3> QED
      BY <3>2, <3>3
  <2>2. pc' \in [Writers -> {"idle", "open", "flock", "decide", "write", "ring", "entry"}]
    BY <1>8 DEF TypeOK, Finish, Go
  <2>3. \A v \in Writers : pc'[v] = "write" => pc[v] = "write"
    BY <1>8 DEF TypeOK, Finish, Go
  <2> QED
    BY <1>0, <1>8, <2>1, <2>2, <2>3, ReleaseType DEF TypeOK, Finish, seqVars, readVars, histVars
<1>9. CASE CreateEntry(w)
  BY <1>9 DEF TypeOK, CreateEntry, Go, fileVars, lockVars, readVars, histVars
<1>10. CASE LoseCreateEntry(w)
  BY <1>10 DEF TypeOK, LoseCreateEntry, Go, fileVars, seqVars, lockVars, readVars, histVars
<1>11. CASE CrashWriter(w)
  BY <1>0, <1>11, ReleaseType DEF TypeOK, CrashWriter, fileVars, seqVars, readVars, histVars
<1> QED
  BY <1>1, <1>2, <1>3, <1>4, <1>5, <1>6, <1>7, <1>8, <1>9, <1>10, <1>11 DEF Writer

LEMMA ReaperTypeStep ==
  ASSUME TypeOK, Reap
  PROVE  TypeOK'
<1>0. Reaper \in Procs
  BY DEF Procs
<1>1. CASE WalkRoom
  BY <1>1 DEF TypeOK, WalkRoom, RGo, fileVars, seqVars, lockVars, readVars, histVars
<1>2. CASE ReapOpen
  BY <1>0, <1>2, OpenType DEF TypeOK, ReapOpen, RGo, fileVars, seqVars, readVars, histVars
<1>3. CASE ReapLock
  BY <1>0, <1>3, FlockType DEF TypeOK, ReapLock, RGo, fileVars, seqVars, readVars, histVars
<1>4. CASE ReapRecheck
  <2>1. CASE RGo("recheck", "floor") /\ UNCHANGED lockVars
    BY <1>4, <2>1 DEF TypeOK, ReapRecheck, RGo, fileVars, seqVars, lockVars, readVars, histVars
  <2>2. CASE RGo("recheck", "sweep") /\ Release(Reaper)
    BY <1>0, <1>4, <2>2, ReleaseType DEF TypeOK, ReapRecheck, RGo, fileVars, seqVars, readVars, histVars
  <2> QED
    BY <1>4, <2>1, <2>2 DEF ReapRecheck, Recheck
<1>5. CASE SetFloor
  BY <1>5, LastSeqType DEF TypeOK, SetFloor, RGo, fileVars, lockVars, readVars, histVars
<1>6. CASE LoseFloor
  BY <1>6 DEF TypeOK, LoseFloor, RGo, fileVars, seqVars, lockVars, readVars, histVars
<1>7. CASE Unlink
  <2>1. recs' \in Seq(Record)
    BY <1>7, EmptySeq DEF Unlink
  <2> QED
    BY <1>0, <1>7, <2>1, ReleaseType DEF TypeOK, Unlink, RGo, seqVars, readVars, histVars
<1>8. CASE Sweep
  BY <1>8 DEF TypeOK, Sweep, RGo, fileVars, seqVars, readVars, histVars
<1>9. CASE CrashReaper
  BY <1>0, <1>9, ReleaseType DEF TypeOK, CrashReaper, fileVars, seqVars, readVars, histVars
<1> QED
  BY <1>1, <1>2, <1>3, <1>4, <1>5, <1>6, <1>7, <1>8, <1>9 DEF Reap

LEMMA ReaderTypeStep ==
  ASSUME TypeOK, NEW r \in Readers, ReadTail(r) \/ ReadFloor(r)
  PROVE  TypeOK'
<1>1. ASSUME NEW n \in Nat, Reply(r, n)
      PROVE  polling' \in [Readers -> [on : BOOLEAN, since : Nat]] /\ cursor' \in [Readers -> Nat]
  BY <1>1 DEF TypeOK, Reply, NotPolling
<1>2. CASE ReadTail(r)
  <2>1. PICK since \in {cursor[r]} \cup 0..MaxSince :
          IF NewestSeq(recs) # 0 \/ since = 0
          THEN Reply(r, TailReply(since))
          ELSE /\ polling' = [polling EXCEPT ![r] = [on |-> TRUE, since |-> since]]
               /\ UNCHANGED cursor
    BY <1>2 DEF ReadTail
  <2>a. /\ cursor[r] \in Nat /\ cursor \in [Readers -> Nat]
        /\ polling \in [Readers -> [on : BOOLEAN, since : Nat]]
    BY DEF TypeOK
  <2>2. since \in Nat
    BY <2>a, RoomAssumption
  <2>3. NewestSeq(recs) \in Nat
    BY NewestSeqType DEF TypeOK
  <2>4. TailReply(since) \in Nat
    BY <2>2, <2>3 DEF TailReply, Lesser
  <2>5. polling' \in [Readers -> [on : BOOLEAN, since : Nat]] /\ cursor' \in [Readers -> Nat]
    <3>1. CASE NewestSeq(recs) # 0 \/ since = 0
      BY <1>1, <2>1, <2>4, <3>1
    <3>2. CASE ~(NewestSeq(recs) # 0 \/ since = 0)
      <4>1. polling' = [polling EXCEPT ![r] = [on |-> TRUE, since |-> since]] /\ cursor' = cursor
        BY <2>1, <3>2
      <4>2. [on |-> TRUE, since |-> since] \in [on : BOOLEAN, since : Nat]
        BY <2>2
      <4> QED
        BY <2>a, <4>1, <4>2
    <3> QED
      BY <3>1, <3>2
  <2> QED
    BY <1>2, <2>5 DEF TypeOK, ReadTail, fileVars, seqVars, lockVars, histVars
<1>3. CASE ReadFloor(r)
  <2>1. FloorReply(polling[r].since) \in Nat
    BY DEF TypeOK, FloorReply, Lesser
  <2>2. polling' \in [Readers -> [on : BOOLEAN, since : Nat]] /\ cursor' \in [Readers -> Nat]
    BY <1>1, <1>3, <2>1 DEF ReadFloor
  <2> QED
    BY <1>3, <2>2 DEF TypeOK, ReadFloor, fileVars, seqVars, lockVars, histVars
<1> QED
  BY <1>2, <1>3

LEMMA TimeTypeStep ==
  ASSUME TypeOK, AgeRoom \/ AgeLock \/ Expire
  PROVE  TypeOK'
<1>1. CASE AgeRoom
  BY <1>1 DEF TypeOK, AgeRoom, seqVars, lockVars, readVars, histVars
<1>2. CASE AgeLock
  BY <1>2 DEF TypeOK, AgeLock, fileVars, seqVars, readVars, histVars
<1>3. CASE Expire
  <2>1. expired' \in Nat
    BY <1>3 DEF TypeOK, Expire
  <2> QED
    BY <1>3, <2>1 DEF TypeOK, Expire, seqVars, lockVars, readVars, histVars
<1> QED
  BY <1>1, <1>2, <1>3

LEMMA TypeInit == Init => TypeOK
<1> SUFFICES ASSUME Init PROVE TypeOK
  OBVIOUS
<1>1. (CHOOSE r \in Requests : TRUE) \in Requests
  BY RoomAssumption
<1>2. NoJob \in [req : Requests, seq : Nat, created : BOOLEAN]
  BY <1>1 DEF NoJob
<1>3. recs \in Seq(Record)
  BY EmptySeq DEF Init
<1>4. /\ job \in [Writers -> [req : Requests, seq : Nat, created : BOOLEAN]]
      /\ pc \in [Writers -> {"idle", "open", "flock", "decide", "write", "ring", "entry"}]
      /\ \A w \in Writers : pc[w] = "write" => job[w].seq # 0
  BY <1>2 DEF Init
<1>5. /\ polling \in [Readers -> [on : BOOLEAN, since : Nat]]
      /\ cursor \in [Readers -> Nat]
  BY DEF Init, NotPolling
<1>6. handle \in [Procs -> Nat] /\ holds \in [Procs -> BOOLEAN]
  BY DEF Init
<1> QED
  BY <1>3, <1>4, <1>5, <1>6 DEF Init, TypeOK

LEMMA TypeStep == TypeOK /\ [Next]_vars => TypeOK'
<1> SUFFICES ASSUME TypeOK, [Next]_vars PROVE TypeOK'
  OBVIOUS
<1>1. CASE Next
  BY <1>1, WriterTypeStep, ReaperTypeStep, ReaderTypeStep, TimeTypeStep DEF Next
<1>2. CASE UNCHANGED vars
  BY <1>2 DEF TypeOK, vars, fileVars, seqVars, lockVars, readVars, histVars
<1> QED
  BY <1>1, <1>2

\* Every variable keeps its type, whatever the environment does.
THEOREM TypeCorrect == Spec => []TypeOK
BY TypeInit, TypeStep, PTL DEF Spec

----------------------------------------------------------------------------
(* The numbering, when at most crashes happen.                             *)

\* Steps that leave the file, its entry and the cursors alone.
LEMMA SameRoom ==
  ASSUME Inductive, UNCHANGED <<fileVars, seqVars, cursor, high>>
  PROVE  HeadInv' /\ Increasing' /\ CursorNotStranded'
BY DEF Inductive, HeadInv, Increasing, CursorNotStranded, LastSeq, NewestSeq, fileVars, seqVars

\* The five parts of the lock's discipline after each use of the lock.
LEMMA OpenKeepsLock ==
  ASSUME TypeOK, LockInv, NEW p \in Procs, Open(p)
  PROVE  /\ OneHolder' /\ handle'[p] # 0
         /\ \A q \in Procs : handle[q] # 0 => handle'[q] # 0
         /\ holds' = holds
BY DEF TypeOK, LockInv, OneHolder, Open

LEMMA FlockKeepsLock ==
  ASSUME TypeOK, LockInv, NEW p \in Procs, handle[p] # 0, Flock(p)
  PROVE  /\ OneHolder' /\ handle' = handle /\ holds'[p]
         /\ \A q \in Procs : holds[q] => holds'[q]
BY DEF TypeOK, LockInv, OneHolder, Flock

LEMMA ReleaseKeepsLock ==
  ASSUME TypeOK, LockInv, NEW p \in Procs, Release(p)
  PROVE  /\ OneHolder'
         /\ \A q \in Procs \ {p} : handle'[q] = handle[q] /\ (holds[q] => holds'[q])
BY DEF TypeOK, LockInv, OneHolder, Release

LEMMA WriterReleases ==
  ASSUME TypeOK, LockInv, NEW w \in Writers, Release(w), rpc' = rpc,
         pc'[w] \in {"idle", "entry"}, \A v \in Writers \ {w} : pc'[v] = pc[v]
  PROVE  LockInv'
<1>0. w \in Procs /\ Reaper \in Procs /\ Reaper # w /\ Writers \subseteq Procs
  BY RoomAssumption DEF Procs
<1>1. /\ OneHolder'
      /\ \A q \in Procs \ {w} : handle'[q] = handle[q] /\ (holds[q] => holds'[q])
  BY <1>0, ReleaseKeepsLock
<1>2. WriterHolds'
  <2> SUFFICES ASSUME NEW v \in Writers
               PROVE  /\ pc'[v] = "flock" => handle'[v] # 0
                      /\ pc'[v] \in {"decide", "write", "ring"} => holds'[v]
    BY DEF WriterHolds
  <2>1. CASE v = w
    BY <2>1
  <2>2. CASE v # w
    <3>1. v \in Procs \ {w} /\ pc'[v] = pc[v]
      BY <1>0, <2>2
    <3>2. handle'[v] = handle[v] /\ (holds[v] => holds'[v])
      BY <1>1, <3>1
    <3> QED
      BY <3>1, <3>2 DEF LockInv, WriterHolds
  <2> QED
    BY <2>1, <2>2
<1>3. ReaperHolds'
  BY <1>0, <1>1 DEF LockInv, ReaperHolds
<1> QED
  BY <1>1, <1>2, <1>3 DEF LockInv

\* A record written with the next number becomes the newest.
LEMMA WriteKeepsHead ==
  ASSUME Inductive, NEW w \in Writers, pc[w] = "write", PutRecord(w)
  PROVE  /\ exists' /\ recs' # <<>> /\ NewestSeq(recs') = high + 1 /\ high' = high + 1
         /\ Increasing'
<1> DEFINE rec == [seq |-> job[w].seq, did |-> job[w].req.did, nonce |-> job[w].req.nonce]
<1>1. job[w].seq = high + 1 /\ high \in Nat
  BY DEF Inductive, WriterInv, TypeOK
<1>2. job[w].req \in Requests
  BY DEF Inductive, TypeOK
<1>3. rec \in Record
  BY <1>1, <1>2, RoomAssumption DEF Record
<1>4. recs \in Seq(Record) /\ recs' = Append(recs, rec)
  BY DEF Inductive, TypeOK, PutRecord, NewRecord
<1> HIDE DEF rec
<1>5. /\ recs' \in Seq(Record) /\ recs' # <<>>
      /\ Len(recs') = Len(recs) + 1
      /\ \A i \in 1..Len(recs) : recs'[i] = recs[i]
      /\ recs'[Len(recs) + 1] = rec
      /\ NewestSeq(recs') = rec.seq
  BY <1>3, <1>4, AppendRecord
<1>6. rec.seq = high + 1
  BY <1>1 DEF rec
<1>7. exists' /\ high' = high + 1
  BY <1>1 DEF PutRecord, NewRecord
<1>8. Increasing'
  <2>1. Len(recs) \in Nat
    BY <1>4, LenProperties
  <2>2. \A i \in 1..Len(recs) : recs[i].seq \in Nat /\ recs[i].seq <= high
    <3> SUFFICES ASSUME NEW i \in 1..Len(recs)
                 PROVE  recs[i].seq \in Nat /\ recs[i].seq <= high
      OBVIOUS
    <3>1. recs # <<>> /\ Len(recs) \in 1..Len(recs)
      BY <2>1, EmptySeq
    <3>2. recs[i] \in Record /\ recs[Len(recs)] \in Record
      BY <1>4, <3>1, ElementOfSeq
    <3>3. recs[Len(recs)].seq = high
      BY <3>1 DEF Inductive, HeadInv, LastSeq, NewestSeq
    <3>4. i = Len(recs) \/ recs[i].seq < recs[Len(recs)].seq
      BY <2>1, <3>1 DEF Inductive, Increasing
    <3> QED
      BY <1>1, <3>2, <3>3, <3>4 DEF Record
  <2>3. SUFFICES ASSUME NEW i \in 1..Len(recs'), NEW j \in 1..Len(recs'), i < j
                 PROVE  recs'[i].seq < recs'[j].seq
    BY DEF Increasing
  <2>4. CASE j = Len(recs) + 1
    <3>1. i \in 1..Len(recs)
      BY <1>5, <2>1, <2>3, <2>4
    <3> QED
      BY <1>1, <1>5, <1>6, <2>2, <2>4, <3>1
  <2>5. CASE j # Len(recs) + 1
    <3>1. i \in 1..Len(recs) /\ j \in 1..Len(recs)
      BY <1>5, <2>1, <2>3, <2>5
    <3> QED
      BY <1>5, <2>3, <3>1 DEF Inductive, Increasing
  <2> QED
    BY <2>4, <2>5
<1> QED
  BY <1>5, <1>6, <1>7, <1>8

\* A rotation forgets a prefix, never the newest record.
LEMMA CompactKeepsHead ==
  ASSUME Inductive, recs # <<>>, NEW limit, Compact(limit)
  PROVE  recs' # <<>> /\ NewestSeq(recs') = NewestSeq(recs) /\ Increasing'
<1>1. recs \in Seq(Record)
  BY DEF Inductive, TypeOK
<1>2. PICK first \in 1..Len(recs) :
           /\ recs' \in Seq(Record)
           /\ Len(recs') = Len(recs) - first + 1
           /\ \A i \in 1..Len(recs') : recs'[i] = recs[first + i - 1]
  BY <1>1, CompactKeepsSuffix
<1>3. Len(recs) \in Nat /\ Len(recs') >= 1
  BY <1>1, <1>2, LenProperties
<1>4. recs' # <<>>
  BY <1>2, <1>3, EmptySeq
<1>5. recs'[Len(recs')] = recs[Len(recs)]
  <2>1. Len(recs') \in 1..Len(recs')
    BY <1>2, <1>3
  <2>2. first + Len(recs') - 1 = Len(recs)
    BY <1>2, <1>3
  <2> QED
    BY <1>2, <2>1, <2>2
<1>6. NewestSeq(recs') = NewestSeq(recs)
  BY <1>4, <1>5 DEF NewestSeq
<1>7. ASSUME NEW i \in 1..Len(recs'), NEW j \in 1..Len(recs'), i < j
      PROVE  recs'[i].seq < recs'[j].seq
  <2>1. first + i - 1 \in 1..Len(recs) /\ first + j - 1 \in 1..Len(recs) /\ first + i - 1 < first + j - 1
    BY <1>2, <1>3, <1>7
  <2> QED
    BY <1>2, <2>1 DEF Inductive, Increasing
<1> QED
  BY <1>4, <1>6, <1>7 DEF Increasing

LEMMA WriterKeeps ==
  ASSUME OnlyCrashes, Inductive, TypeOK', NEW w \in Writers, Writer(w)
  PROVE  Inductive'
<1>0. w \in Procs /\ Reaper \in Procs /\ Reaper # w /\ Writers \subseteq Procs
  BY RoomAssumption DEF Procs
<1>a. TypeOK /\ LockInv /\ WriterInv /\ ReaperInv /\ HeadInv /\ Increasing /\ CursorNotStranded
  BY DEF Inductive
<1>1. CASE Begin(w)
  <2>1. HeadInv' /\ Increasing' /\ CursorNotStranded'
    BY <1>1, SameRoom DEF Begin, fileVars, seqVars, readVars, histVars
  <2>2. LockInv'
    BY <1>1, <1>a DEF Begin, Go, LockInv, OneHolder, WriterHolds, ReaperHolds, TypeOK, lockVars
  <2>3. WriterInv' /\ ReaperInv'
    BY <1>1, <1>a DEF Begin, Go, WriterInv, ReaperInv, TypeOK, fileVars, seqVars, histVars
  <2> QED
    BY <2>1, <2>2, <2>3 DEF Inductive
<1>2. CASE OpenLock(w)
  <2>1. HeadInv' /\ Increasing' /\ CursorNotStranded'
    BY <1>2, SameRoom DEF OpenLock, fileVars, seqVars, readVars, histVars
  <2>2. LockInv'
    <3>1. Open(w) /\ rpc' = rpc
      BY <1>2 DEF OpenLock
    <3>2. /\ OneHolder' /\ handle'[w] # 0 /\ holds' = holds
          /\ \A q \in Procs : handle[q] # 0 => handle'[q] # 0
      BY <1>0, <1>a, <3>1, OpenKeepsLock
    <3>3. WriterHolds'
      <4> SUFFICES ASSUME NEW v \in Writers
                   PROVE  /\ pc'[v] = "flock" => handle'[v] # 0
                          /\ pc'[v] \in {"decide", "write", "ring"} => holds'[v]
        BY DEF WriterHolds
      <4>1. CASE v = w
        <5>1. pc'[v] = "flock"
          BY <1>2, <1>a, <4>1 DEF OpenLock, Go, TypeOK
        <5> QED
          BY <3>2, <4>1, <5>1
      <4>2. CASE v # w
        <5>1. pc'[v] = pc[v] /\ v \in Procs
          BY <1>0, <1>2, <1>a, <4>2 DEF OpenLock, Go, TypeOK
        <5> QED
          BY <1>a, <3>2, <5>1 DEF LockInv, WriterHolds
      <4> QED
        BY <4>1, <4>2
    <3>4. ReaperHolds'
      BY <1>0, <1>a, <3>1, <3>2 DEF LockInv, ReaperHolds
    <3> QED
      BY <3>2, <3>3, <3>4 DEF LockInv
  <2>3. WriterInv' /\ ReaperInv'
    BY <1>2, <1>a DEF OpenLock, Go, WriterInv, ReaperInv, TypeOK, fileVars, seqVars, histVars
  <2> QED
    BY <2>1, <2>2, <2>3 DEF Inductive
<1>3. CASE TakeLock(w)
  <2>1. HeadInv' /\ Increasing' /\ CursorNotStranded'
    BY <1>3, SameRoom DEF TakeLock, fileVars, seqVars, readVars, histVars
  <2>2. handle[w] # 0
    BY <1>3, <1>a DEF TakeLock, Go, LockInv, WriterHolds
  <2>3. LockInv'
    <3>1. Flock(w) /\ rpc' = rpc
      BY <1>3 DEF TakeLock
    <3>2. /\ OneHolder' /\ handle' = handle /\ holds'[w]
          /\ \A q \in Procs : holds[q] => holds'[q]
      BY <1>0, <1>a, <2>2, <3>1, FlockKeepsLock
    <3>3. WriterHolds'
      <4> SUFFICES ASSUME NEW v \in Writers
                   PROVE  /\ pc'[v] = "flock" => handle'[v] # 0
                          /\ pc'[v] \in {"decide", "write", "ring"} => holds'[v]
        BY DEF WriterHolds
      <4>1. CASE v = w
        <5>1. pc'[v] = "decide"
          BY <1>3, <1>a, <4>1 DEF TakeLock, Go, TypeOK
        <5> QED
          BY <3>2, <4>1, <5>1
      <4>2. CASE v # w
        <5>1. pc'[v] = pc[v] /\ v \in Procs
          BY <1>0, <1>3, <1>a, <4>2 DEF TakeLock, Go, TypeOK
        <5> QED
          BY <1>a, <3>2, <5>1 DEF LockInv, WriterHolds
      <4> QED
        BY <4>1, <4>2
    <3>4. ReaperHolds'
      BY <1>0, <1>a, <3>1, <3>2 DEF LockInv, ReaperHolds
    <3> QED
      BY <3>2, <3>3, <3>4 DEF LockInv
  <2>4. WriterInv' /\ ReaperInv'
    BY <1>3, <1>a DEF TakeLock, Go, WriterInv, ReaperInv, TypeOK, fileVars, seqVars, histVars
  <2> QED
    BY <2>1, <2>3, <2>4 DEF Inductive
<1>4. CASE Decide(w)
  <2>1. HeadInv' /\ Increasing' /\ CursorNotStranded'
    BY <1>4, SameRoom DEF Decide, fileVars, seqVars, readVars, histVars
  <2>2. LockInv'
    BY <1>4, <1>a DEF Decide, Go, LockInv, OneHolder, WriterHolds, ReaperHolds, TypeOK, lockVars
  <2>3. job'[w].seq = high + 1 /\ \A v \in Writers \ {w} : job'[v] = job[v] /\ pc'[v] = pc[v]
    BY <1>4, <1>a DEF Decide, Go, HeadInv, TypeOK
  <2>4. WriterInv' /\ ReaperInv'
    BY <1>4, <1>a, <2>3 DEF Decide, Go, WriterInv, ReaperInv, TypeOK, fileVars, seqVars, histVars
  <2> QED
    BY <2>1, <2>2, <2>4 DEF Inductive
<1>5. CASE Refuse(w)
  <2>1. HeadInv' /\ Increasing' /\ CursorNotStranded'
    BY <1>5, SameRoom DEF Refuse, fileVars, seqVars, readVars, histVars
  <2>2. LockInv'
    <3>1. Release(w) /\ rpc' = rpc /\ pc'[w] \in {"idle", "entry"}
      BY <1>5, <1>a DEF Refuse, Go, TypeOK
    <3>2. \A v \in Writers \ {w} : pc'[v] = pc[v]
      BY <1>5, <1>a DEF Refuse, Go, TypeOK
    <3> QED
      BY <1>0, <1>a, <3>1, <3>2, WriterReleases
  <2>3. WriterInv' /\ ReaperInv'
    BY <1>5, <1>a DEF Refuse, Go, WriterInv, ReaperInv, TypeOK, fileVars, seqVars, histVars
  <2> QED
    BY <2>1, <2>2, <2>3 DEF Inductive
<1>6. CASE Write(w)
  <2>1. pc[w] = "write" /\ PutRecord(w) /\ holds[w]
    BY <1>0, <1>6, <1>a DEF Write, Go, LockInv, WriterHolds
  <2>2. /\ exists' /\ recs' # <<>> /\ NewestSeq(recs') = high + 1 /\ high' = high + 1
        /\ Increasing'
    BY <2>1, WriteKeepsHead
  <2>3. \A v \in Writers \ {w} : pc[v] \notin {"decide", "write", "ring"}
    BY <1>0, <1>a, <2>1 DEF LockInv, OneHolder, WriterHolds, ReaperHolds
  <2>4. rpc \notin {"recheck", "floor", "unlink"}
    BY <1>0, <1>a, <2>1 DEF LockInv, OneHolder, WriterHolds, ReaperHolds
  <2>5. floor' = floor /\ rpc' = rpc /\ cursor' = cursor /\ job' = job /\ age' = "fresh"
    BY <1>6 DEF Write, PutRecord, NewRecord, seqVars, readVars
  <2>6. high \in Nat /\ floor \in Nat /\ floor <= high
    BY <1>a DEF TypeOK, HeadInv
  <2>7. HeadInv'
    <3>1. LastSeq' = high'
      BY <2>2 DEF LastSeq
    <3>2. floor' <= high'
      BY <2>2, <2>5, <2>6
    <3> QED
      BY <2>2, <3>1, <3>2 DEF HeadInv
  <2>8. CursorNotStranded'
    <3> SUFFICES ASSUME NEW r \in Readers PROVE cursor'[r] <= LastSeq'
      BY DEF CursorNotStranded
    <3>1. cursor[r] <= high /\ cursor[r] \in Nat
      BY <1>a DEF CursorNotStranded, HeadInv, TypeOK
    <3>2. LastSeq' = high + 1
      BY <2>2 DEF LastSeq
    <3> QED
      BY <2>5, <2>6, <3>1, <3>2
  <2>9. LockInv'
    BY <1>6, <1>a DEF Write, Go, LockInv, OneHolder, WriterHolds, ReaperHolds, TypeOK, lockVars
  <2>10. WriterInv' /\ ReaperInv'
    BY <1>6, <1>a, <2>2, <2>3, <2>4, <2>5 DEF Write, Go, WriterInv, ReaperInv, TypeOK
  <2> QED
    BY <2>2, <2>7, <2>8, <2>9, <2>10 DEF Inductive
<1>7. CASE CutWrite(w)
  BY <1>7 DEF CutWrite, OnlyCrashes
<1>8. CASE Finish(w)
  <2>1. PICK limit \in RingLimits :
          IF Len(recs) > limit THEN Compact(limit) ELSE UNCHANGED <<recs, torn, age>>
    BY <1>8 DEF Finish
  <2>2. exists /\ age = "fresh" /\ recs # <<>> /\ holds[w] /\ pc[w] = "ring"
    BY <1>8, <1>a DEF Finish, Go, WriterInv, HeadInv, LockInv, WriterHolds
  <2>3. recs' # <<>> /\ NewestSeq(recs') = NewestSeq(recs) /\ Increasing' /\ age' = "fresh"
    <3>1. CASE Len(recs) > limit
      BY <2>1, <2>2, <3>1, CompactKeepsHead DEF Compact
    <3>2. CASE ~(Len(recs) > limit)
      BY <1>a, <2>1, <2>2, <3>2 DEF Increasing
    <3> QED
      BY <3>1, <3>2
  <2>4. /\ exists' = exists /\ floor' = floor /\ high' = high /\ cursor' = cursor
        /\ job' = job /\ rpc' = rpc
    BY <1>8 DEF Finish, seqVars, readVars, histVars
  <2>5. LastSeq' = LastSeq
    BY <2>2, <2>3, <2>4 DEF LastSeq
  <2>6. HeadInv' /\ CursorNotStranded'
    BY <1>a, <2>2, <2>3, <2>4, <2>5 DEF HeadInv, CursorNotStranded
  <2>7. LockInv'
    <3>1. Release(w) /\ rpc' = rpc /\ pc'[w] \in {"idle", "entry"}
      BY <1>8, <1>a DEF Finish, Go, TypeOK
    <3>2. \A v \in Writers \ {w} : pc'[v] = pc[v]
      BY <1>8, <1>a DEF Finish, Go, TypeOK
    <3> QED
      BY <1>0, <1>a, <3>1, <3>2, WriterReleases
  <2>8. rpc \notin {"recheck", "floor", "unlink"}
    BY <1>0, <1>a, <2>2 DEF LockInv, OneHolder, ReaperHolds
  <2>9. WriterInv' /\ ReaperInv'
    BY <1>8, <1>a, <2>2, <2>3, <2>4, <2>8 DEF Finish, Go, WriterInv, ReaperInv, TypeOK
  <2> QED
    BY <2>3, <2>6, <2>7, <2>9 DEF Inductive
<1>9. CASE CreateEntry(w)
  <2>1. exists /\ age = "fresh" /\ pc[w] = "entry"
    BY <1>9, <1>a DEF CreateEntry, Go, WriterInv
  <2>2. floor' = 0 /\ LastSeq' = LastSeq /\ UNCHANGED <<fileVars, high, cursor, rpc>>
    BY <1>9, <2>1 DEF CreateEntry, LastSeq, NewestSeq, fileVars, readVars, histVars
  <2>3. HeadInv' /\ Increasing' /\ CursorNotStranded'
    BY <1>a, <2>2 DEF HeadInv, Increasing, CursorNotStranded, TypeOK, fileVars
  <2>4. LockInv'
    BY <1>9, <1>a DEF CreateEntry, Go, LockInv, OneHolder, WriterHolds, ReaperHolds, TypeOK, lockVars
  <2>5. rpc \notin {"floor", "unlink"}
    BY <1>a, <2>1 DEF ReaperInv
  <2>6. WriterInv' /\ ReaperInv'
    BY <1>9, <1>a, <2>1, <2>2, <2>5 DEF CreateEntry, Go, WriterInv, ReaperInv, TypeOK, fileVars
  <2> QED
    BY <2>3, <2>4, <2>6 DEF Inductive
<1>10. CASE LoseCreateEntry(w)
  BY <1>10 DEF LoseCreateEntry, OnlyCrashes
<1>11. CASE CrashWriter(w)
  <2>1. HeadInv' /\ Increasing' /\ CursorNotStranded'
    BY <1>11, SameRoom DEF CrashWriter, fileVars, seqVars, readVars, histVars
  <2>2. LockInv'
    <3>1. Release(w) /\ rpc' = rpc /\ pc'[w] \in {"idle", "entry"}
      BY <1>11, <1>a DEF CrashWriter, TypeOK
    <3>2. \A v \in Writers \ {w} : pc'[v] = pc[v]
      BY <1>11, <1>a DEF CrashWriter, TypeOK
    <3> QED
      BY <1>0, <1>a, <3>1, <3>2, WriterReleases
  <2>3. WriterInv' /\ ReaperInv'
    BY <1>11, <1>a DEF CrashWriter, WriterInv, ReaperInv, TypeOK, fileVars, seqVars, histVars
  <2> QED
    BY <2>1, <2>2, <2>3 DEF Inductive
<1> QED
  BY <1>1, <1>2, <1>3, <1>4, <1>5, <1>6, <1>7, <1>8, <1>9, <1>10, <1>11 DEF Writer

\* What the reaper's lock operations leave of the lock's discipline.
LEMMA ReaperReleases ==
  ASSUME TypeOK, LockInv, Release(Reaper), pc' = pc, rpc' \in {"off", "sweep"}
  PROVE  LockInv'
<1>0. Reaper \in Procs /\ Reaper \notin Writers /\ Writers \subseteq Procs
  BY RoomAssumption DEF Procs
<1>1. /\ OneHolder'
      /\ \A q \in Procs \ {Reaper} : handle'[q] = handle[q] /\ (holds[q] => holds'[q])
  BY <1>0, ReleaseKeepsLock
<1>2. WriterHolds'
  <2> SUFFICES ASSUME NEW v \in Writers
               PROVE  /\ pc'[v] = "flock" => handle'[v] # 0
                      /\ pc'[v] \in {"decide", "write", "ring"} => holds'[v]
    BY DEF WriterHolds
  <2>1. handle'[v] = handle[v] /\ (holds[v] => holds'[v])
    BY <1>0, <1>1
  <2> QED
    BY <2>1 DEF LockInv, WriterHolds
<1>3. ReaperHolds'
  BY DEF ReaperHolds
<1> QED
  BY <1>1, <1>2, <1>3 DEF LockInv

LEMMA ReaperKeeps ==
  ASSUME OnlyCrashes, Inductive, TypeOK', Reap
  PROVE  Inductive'
<1>0. Reaper \in Procs /\ Reaper \notin Writers /\ Writers \subseteq Procs
  BY RoomAssumption DEF Procs
<1>a. TypeOK /\ LockInv /\ WriterInv /\ ReaperInv /\ HeadInv /\ Increasing /\ CursorNotStranded
  BY DEF Inductive
<1>1. CASE WalkRoom
  <2>1. HeadInv' /\ Increasing' /\ CursorNotStranded'
    BY <1>1, SameRoom DEF WalkRoom, fileVars, seqVars, readVars, histVars
  <2>2. rpc' \in {"open", "sweep"}
    BY <1>1 DEF WalkRoom, RGo
  <2>3. LockInv'
    BY <1>1, <1>a, <2>2 DEF WalkRoom, LockInv, OneHolder, WriterHolds, ReaperHolds, lockVars
  <2>4. WriterInv' /\ ReaperInv'
    BY <1>1, <1>a, <2>2 DEF WalkRoom, WriterInv, ReaperInv, fileVars, seqVars, histVars
  <2> QED
    BY <2>1, <2>3, <2>4 DEF Inductive
<1>2. CASE ReapOpen
  <2>1. HeadInv' /\ Increasing' /\ CursorNotStranded'
    BY <1>2, SameRoom DEF ReapOpen, fileVars, seqVars, readVars, histVars
  <2>2. rpc' = "flock" /\ pc' = pc /\ Open(Reaper)
    BY <1>2 DEF ReapOpen, RGo
  <2>3. /\ OneHolder' /\ handle'[Reaper] # 0 /\ holds' = holds
        /\ \A q \in Procs : handle[q] # 0 => handle'[q] # 0
    BY <1>0, <1>a, <2>2, OpenKeepsLock
  <2>4. WriterHolds'
    BY <1>0, <1>a, <2>2, <2>3 DEF LockInv, WriterHolds
  <2>5. ReaperHolds'
    BY <2>2, <2>3 DEF ReaperHolds
  <2>6. WriterInv' /\ ReaperInv'
    BY <1>2, <1>a, <2>2 DEF ReapOpen, WriterInv, ReaperInv, fileVars, seqVars, histVars
  <2> QED
    BY <2>1, <2>3, <2>4, <2>5, <2>6 DEF Inductive, LockInv
<1>3. CASE ReapLock
  <2>1. HeadInv' /\ Increasing' /\ CursorNotStranded'
    BY <1>3, SameRoom DEF ReapLock, fileVars, seqVars, readVars, histVars
  <2>2. rpc = "flock" /\ rpc' = "recheck" /\ pc' = pc /\ Flock(Reaper)
    BY <1>3 DEF ReapLock, RGo
  <2>3. handle[Reaper] # 0
    BY <1>a, <2>2 DEF LockInv, ReaperHolds
  <2>4. /\ OneHolder' /\ handle' = handle /\ holds'[Reaper]
        /\ \A q \in Procs : holds[q] => holds'[q]
    BY <1>0, <1>a, <2>2, <2>3, FlockKeepsLock
  <2>5. WriterHolds'
    BY <1>0, <1>a, <2>2, <2>4 DEF LockInv, WriterHolds
  <2>6. ReaperHolds'
    BY <2>2, <2>4 DEF ReaperHolds
  <2>7. WriterInv' /\ ReaperInv'
    BY <1>3, <1>a, <2>2 DEF ReapLock, WriterInv, ReaperInv, fileVars, seqVars, histVars
  <2> QED
    BY <2>1, <2>4, <2>5, <2>6, <2>7 DEF Inductive, LockInv
<1>4. CASE ReapRecheck
  <2>1. HeadInv' /\ Increasing' /\ CursorNotStranded'
    BY <1>4, SameRoom DEF ReapRecheck, fileVars, seqVars, readVars, histVars
  <2>2. UNCHANGED <<fileVars, seqVars, pc, job, histVars>>
    BY <1>4 DEF ReapRecheck
  <2>3. CASE RGo("recheck", "floor") /\ exists /\ Reapable /\ UNCHANGED lockVars
    <3>1. LockInv'
      BY <1>a, <2>2, <2>3 DEF RGo, LockInv, OneHolder, WriterHolds, ReaperHolds, lockVars
    <3>2. age # "fresh"
      BY <2>3 DEF Reapable
    <3>3. WriterInv' /\ ReaperInv'
      BY <1>a, <2>2, <2>3, <3>2 DEF RGo, WriterInv, ReaperInv, fileVars, seqVars, histVars
    <3> QED
      BY <2>1, <3>1, <3>3 DEF Inductive
  <2>4. CASE RGo("recheck", "sweep") /\ Release(Reaper)
    <3>1. LockInv'
      BY <1>a, <2>2, <2>4, ReaperReleases DEF RGo
    <3>2. WriterInv' /\ ReaperInv'
      BY <1>a, <2>2, <2>4 DEF RGo, WriterInv, ReaperInv, fileVars, seqVars, histVars
    <3> QED
      BY <2>1, <3>1, <3>2 DEF Inductive
  <2> QED
    BY <1>4, <2>3, <2>4 DEF ReapRecheck, Recheck
<1>5. CASE SetFloor
  <2>1. /\ rpc = "floor" /\ rpc' = "unlink" /\ floor' = high
        /\ UNCHANGED <<fileVars, lockVars, pc, job, cursor, high>>
    BY <1>5, <1>a DEF SetFloor, RGo, HeadInv, readVars, histVars
  <2>2. exists /\ high \in Nat /\ age # "fresh"
    BY <1>a, <2>1 DEF ReaperInv, TypeOK
  <2>3. LastSeq' = LastSeq
    BY <2>1, <2>2 DEF LastSeq, NewestSeq, fileVars
  <2>4. HeadInv' /\ Increasing' /\ CursorNotStranded'
    BY <1>a, <2>1, <2>2, <2>3 DEF HeadInv, Increasing, CursorNotStranded, fileVars
  <2>5. LockInv'
    BY <1>a, <2>1 DEF LockInv, OneHolder, WriterHolds, ReaperHolds, lockVars
  <2>6. WriterInv' /\ ReaperInv'
    BY <1>a, <2>1, <2>2 DEF WriterInv, ReaperInv, fileVars
  <2> QED
    BY <2>4, <2>5, <2>6 DEF Inductive
<1>6. CASE LoseFloor
  BY <1>6 DEF LoseFloor, OnlyCrashes
<1>7. CASE Unlink
  <2>1. /\ rpc = "unlink" /\ rpc' = "sweep" /\ exists' = FALSE /\ recs' = <<>>
        /\ Release(Reaper) /\ UNCHANGED <<floor, pc, job, cursor, high>>
    BY <1>7 DEF Unlink, RGo, seqVars, readVars, histVars
  <2>2. exists /\ age # "fresh" /\ floor = high /\ holds[Reaper]
    BY <1>a, <2>1 DEF ReaperInv, LockInv, ReaperHolds
  <2>3. LastSeq' = high' /\ LastSeq = high
    BY <1>a, <2>1, <2>2 DEF LastSeq, HeadInv
  <2>4. HeadInv'
    BY <1>a, <2>1, <2>3 DEF HeadInv
  <2>5. Increasing'
    <3>1. Len(recs') = 0
      BY <2>1
    <3> QED
      BY <3>1 DEF Increasing
  <2>6. CursorNotStranded'
    BY <1>a, <2>1, <2>3 DEF CursorNotStranded
  <2>7. LockInv'
    BY <1>a, <2>1, ReaperReleases
  <2>8. \A w \in Writers : pc[w] \notin {"decide", "write", "ring", "entry"}
    <3> SUFFICES ASSUME NEW w \in Writers PROVE pc[w] \notin {"decide", "write", "ring", "entry"}
      OBVIOUS
    <3>1. ~holds[w]
      BY <1>0, <1>a, <2>2 DEF LockInv, OneHolder
    <3> QED
      BY <1>a, <2>2, <3>1 DEF LockInv, WriterHolds, WriterInv
  <2>9. WriterInv' /\ ReaperInv'
    BY <2>1, <2>8 DEF WriterInv, ReaperInv
  <2> QED
    BY <2>4, <2>5, <2>6, <2>7, <2>9 DEF Inductive
<1>8. CASE Sweep
  <2>1. HeadInv' /\ Increasing' /\ CursorNotStranded'
    BY <1>8, SameRoom DEF Sweep, fileVars, seqVars, readVars, histVars
  <2>2. /\ rpc' = "off" /\ ~lockOld' /\ sidecar' = sidecar
        /\ UNCHANGED <<handle, holds, pc, fileVars, seqVars, job, high>>
    BY <1>8, <1>a DEF Sweep, RGo, LockInv, OneHolder, histVars
  <2>3. LockInv'
    BY <1>a, <2>2 DEF LockInv, OneHolder, WriterHolds, ReaperHolds
  <2>4. WriterInv' /\ ReaperInv'
    BY <1>a, <2>2 DEF WriterInv, ReaperInv, fileVars, seqVars
  <2> QED
    BY <2>1, <2>3, <2>4 DEF Inductive
<1>9. CASE CrashReaper
  <2>1. HeadInv' /\ Increasing' /\ CursorNotStranded'
    BY <1>9, SameRoom DEF CrashReaper, fileVars, seqVars, readVars, histVars
  <2>2. /\ rpc' = "off" /\ Release(Reaper)
        /\ UNCHANGED <<fileVars, seqVars, pc, job, high>>
    BY <1>9 DEF CrashReaper, histVars
  <2>3. LockInv'
    BY <1>a, <2>2, ReaperReleases
  <2>4. WriterInv' /\ ReaperInv'
    BY <1>a, <2>2 DEF WriterInv, ReaperInv, fileVars, seqVars
  <2> QED
    BY <2>1, <2>3, <2>4 DEF Inductive
<1> QED
  BY <1>1, <1>2, <1>3, <1>4, <1>5, <1>6, <1>7, <1>8, <1>9 DEF Reap

LEMMA ReaderKeeps ==
  ASSUME Inductive, TypeOK', NEW r \in Readers, ReadTail(r) \/ ReadFloor(r)
  PROVE  Inductive'
<1>a. TypeOK /\ LockInv /\ WriterInv /\ ReaperInv /\ HeadInv /\ Increasing /\ CursorNotStranded
  BY DEF Inductive
<1>1. UNCHANGED <<fileVars, seqVars, lockVars, pc, job, rpc, histVars>>
  BY DEF ReadTail, ReadFloor
<1>2. LockInv' /\ WriterInv' /\ ReaperInv' /\ HeadInv' /\ Increasing' /\ LastSeq' = LastSeq
  BY <1>a, <1>1 DEF LockInv, OneHolder, WriterHolds, ReaperHolds, WriterInv, ReaperInv, HeadInv,
       Increasing, LastSeq, NewestSeq, fileVars, seqVars, lockVars, histVars
<1>3. high \in Nat /\ floor \in Nat /\ floor <= high /\ LastSeq = high
  BY <1>a DEF TypeOK, HeadInv
<1>4. NewestSeq(recs) \in Nat /\ NewestSeq(recs) <= high
  <2>1. NewestSeq(recs) \in Nat
    BY <1>a, NewestSeqType DEF TypeOK
  <2>2. CASE exists
    BY <1>3, <2>1, <2>2 DEF LastSeq
  <2>3. CASE ~exists
    BY <1>a, <1>3, <2>3 DEF HeadInv, NewestSeq
  <2> QED
    BY <2>1, <2>2, <2>3
<1>5. /\ cursor \in [Readers -> Nat] /\ polling \in [Readers -> [on : BOOLEAN, since : Nat]]
      /\ \A q \in Readers : cursor[q] <= high
  BY <1>a, <1>3 DEF TypeOK, CursorNotStranded
<1>6. ASSUME NEW n \in Nat, n <= high, Reply(r, n)
      PROVE  \A q \in Readers : cursor'[q] <= high
  BY <1>5, <1>6 DEF Reply
<1>7. \A q \in Readers : cursor'[q] <= high
  <2>1. CASE ReadTail(r)
    <3>1. PICK since \in {cursor[r]} \cup 0..MaxSince :
            IF NewestSeq(recs) # 0 \/ since = 0
            THEN Reply(r, TailReply(since))
            ELSE /\ polling' = [polling EXCEPT ![r] = [on |-> TRUE, since |-> since]]
                 /\ UNCHANGED cursor
      BY <2>1 DEF ReadTail
    <3>2. since \in Nat
      BY <1>5, RoomAssumption
    <3>3. TailReply(since) \in Nat /\ TailReply(since) <= high
      BY <1>3, <1>4, <3>2 DEF TailReply, Lesser
    <3>4. CASE NewestSeq(recs) # 0 \/ since = 0
      BY <1>6, <3>1, <3>3, <3>4
    <3>5. CASE ~(NewestSeq(recs) # 0 \/ since = 0)
      BY <1>5, <3>1, <3>5
    <3> QED
      BY <3>4, <3>5
  <2>2. CASE ReadFloor(r)
    <3>1. polling[r].since \in Nat
      BY <1>5
    <3>2. FloorReply(polling[r].since) \in Nat /\ FloorReply(polling[r].since) <= high
      BY <1>3, <3>1 DEF FloorReply, Lesser
    <3> QED
      BY <1>6, <2>2, <3>2 DEF ReadFloor
  <2> QED
    BY <2>1, <2>2
<1>8. CursorNotStranded'
  BY <1>2, <1>3, <1>7 DEF CursorNotStranded
<1> QED
  BY <1>2, <1>8 DEF Inductive

LEMMA TimeKeeps ==
  ASSUME OnlyCrashes, Inductive, TypeOK', AgeRoom \/ AgeLock \/ Expire
  PROVE  Inductive'
<1>a. TypeOK /\ LockInv /\ WriterInv /\ ReaperInv /\ HeadInv /\ Increasing /\ CursorNotStranded
  BY DEF Inductive
<1>1. CASE AgeRoom
  <2>1. /\ UNCHANGED <<exists, recs, seqVars, lockVars, pc, job, rpc, cursor, high>>
        /\ rpc = "off" /\ Settled
    BY <1>1 DEF AgeRoom, OnlyCrashes, readVars, histVars
  <2>2. LockInv' /\ HeadInv' /\ Increasing' /\ CursorNotStranded'
    BY <1>a, <2>1 DEF LockInv, OneHolder, WriterHolds, ReaperHolds, HeadInv, Increasing,
         CursorNotStranded, LastSeq, NewestSeq, seqVars, lockVars
  <2>3. WriterInv' /\ ReaperInv'
    BY <1>a, <2>1 DEF WriterInv, ReaperInv, Settled, seqVars
  <2> QED
    BY <2>2, <2>3 DEF Inductive
<1>2. CASE AgeLock
  BY <1>2 DEF AgeLock, OnlyCrashes
<1>3. CASE Expire
  <2>1. UNCHANGED <<exists, recs, age, seqVars, lockVars, pc, job, rpc, cursor, high>>
    BY <1>3 DEF Expire, readVars, histVars
  <2>2. LockInv' /\ HeadInv' /\ Increasing' /\ CursorNotStranded'
    BY <1>a, <2>1 DEF LockInv, OneHolder, WriterHolds, ReaperHolds, HeadInv, Increasing,
         CursorNotStranded, LastSeq, NewestSeq, seqVars, lockVars
  <2>3. WriterInv' /\ ReaperInv'
    BY <1>a, <2>1 DEF WriterInv, ReaperInv, seqVars
  <2> QED
    BY <2>2, <2>3 DEF Inductive
<1> QED
  BY <1>1, <1>2, <1>3

LEMMA InductiveInit == Init => Inductive
<1> SUFFICES ASSUME Init PROVE Inductive
  OBVIOUS
<1>1. TypeOK
  BY TypeInit
<1>2. LockInv
  BY DEF Init, LockInv, OneHolder, WriterHolds, ReaperHolds
<1>3. WriterInv /\ ReaperInv
  BY DEF Init, WriterInv, ReaperInv
<1>4. HeadInv /\ CursorNotStranded
  BY DEF Init, HeadInv, CursorNotStranded, LastSeq
<1>5. Len(recs) = 0
  BY DEF Init
<1>6. Increasing
  BY <1>5 DEF Increasing
<1> QED
  BY <1>1, <1>2, <1>3, <1>4, <1>6 DEF Inductive

LEMMA InductiveStep ==
  ASSUME OnlyCrashes
  PROVE  Inductive /\ [Next]_vars => Inductive'
<1> SUFFICES ASSUME Inductive, [Next]_vars PROVE Inductive'
  OBVIOUS
<1>1. TypeOK'
  BY TypeStep DEF Inductive
<1>2. CASE Next
  BY <1>1, <1>2, WriterKeeps, ReaperKeeps, ReaderKeeps, TimeKeeps DEF Next
<1>3. CASE UNCHANGED vars
  BY <1>1, <1>3 DEF Inductive, LockInv, OneHolder, WriterHolds, ReaperHolds, WriterInv, ReaperInv,
       HeadInv, Increasing, CursorNotStranded, LastSeq, NewestSeq, vars, fileVars, seqVars, lockVars,
       readVars, histVars
<1> QED
  BY <1>2, <1>3

\* The inductive invariant behind the numbering.
THEOREM Numbering == ASSUME OnlyCrashes PROVE Spec => []Inductive
BY InductiveInit, InductiveStep, PTL DEF Spec

\* However many writers, reaps, rotations and crashes there are, the next
\* message is numbered one past the highest number ever used.
THEOREM NeverReused == ASSUME OnlyCrashes PROVE Spec => []SeqContiguous
<1>1. Inductive => SeqContiguous
  BY DEF Inductive, HeadInv, SeqContiguous
<1> QED
  BY <1>1, Numbering, PTL

\* No cursor a poll ends on is past the number a later message gets.
THEOREM CursorsSurvive == ASSUME OnlyCrashes PROVE Spec => []CursorNotStranded
<1>1. Inductive => CursorNotStranded
  BY DEF Inductive
<1> QED
  BY <1>1, Numbering, PTL

----------------------------------------------------------------------------
(* The deletion.                                                           *)

\* What the reaper saw under the lock still stands when it unlinks.
Doomed == rpc \in {"floor", "unlink"} => exists /\ Reapable

LEMMA SameDoom ==
  ASSUME Doomed, UNCHANGED <<exists, recs, age, rpc>>
  PROVE  Doomed'
BY DEF Doomed, Reapable

\* A writer that changes the file holds the lock, so no reaper is past its own.
LEMMA WriterExcludesReaper ==
  ASSUME Inductive, NEW w \in Writers, pc[w] \in {"decide", "write", "ring"}
  PROVE  rpc \notin {"recheck", "floor", "unlink"}
<1>1. w \in Procs /\ Reaper \in Procs /\ Reaper # w
  BY RoomAssumption DEF Procs
<1>2. holds[w]
  BY DEF Inductive, LockInv, WriterHolds
<1>3. ~holds[Reaper]
  BY <1>1, <1>2 DEF Inductive, LockInv, OneHolder
<1> QED
  BY <1>3 DEF Inductive, LockInv, ReaperHolds

LEMMA WriterDoom ==
  ASSUME OnlyCrashes, Inductive, Doomed, NEW w \in Writers, Writer(w)
  PROVE  Doomed'
<1>1. CASE Write(w) \/ Finish(w)
  <2>1. pc[w] \in {"decide", "write", "ring"} /\ rpc' = rpc
    BY <1>1 DEF Write, Finish, Go
  <2> QED
    BY <2>1, WriterExcludesReaper DEF Doomed
<1>2. CASE CutWrite(w) \/ LoseCreateEntry(w)
  BY <1>2 DEF CutWrite, LoseCreateEntry, OnlyCrashes
<1>3. CASE \/ Begin(w) \/ OpenLock(w) \/ TakeLock(w) \/ Decide(w)
           \/ Refuse(w) \/ CreateEntry(w) \/ CrashWriter(w)
  <2>1. UNCHANGED <<exists, recs, age, rpc>>
    BY <1>3 DEF Begin, OpenLock, TakeLock, Decide, Refuse, CreateEntry, CrashWriter, fileVars
  <2> QED
    BY <2>1, SameDoom
<1> QED
  BY <1>1, <1>2, <1>3 DEF Writer

LEMMA ReaperDoom ==
  ASSUME OnlyCrashes, Doomed, Reap
  PROVE  Doomed'
<1>1. CASE ReapRecheck
  <2>1. UNCHANGED <<exists, recs, age>>
    BY <1>1 DEF ReapRecheck, fileVars
  <2>2. rpc' = "sweep" \/ (exists /\ Reapable)
    BY <1>1 DEF ReapRecheck, Recheck, RGo
  <2> QED
    BY <2>1, <2>2 DEF Doomed, Reapable
<1>2. CASE SetFloor \/ LoseFloor
  <2>1. rpc = "floor" /\ UNCHANGED <<exists, recs, age>>
    BY <1>2 DEF SetFloor, LoseFloor, RGo, fileVars
  <2> QED
    BY <2>1 DEF Doomed, Reapable
<1>3. CASE WalkRoom \/ ReapOpen \/ ReapLock \/ Unlink \/ Sweep \/ CrashReaper
  <2>1. rpc' \notin {"floor", "unlink"}
    BY <1>3 DEF WalkRoom, ReapOpen, ReapLock, Unlink, Sweep, CrashReaper, RGo
  <2> QED
    BY <2>1 DEF Doomed
<1> QED
  BY <1>1, <1>2, <1>3 DEF Reap

LEMMA DoomStep ==
  ASSUME OnlyCrashes
  PROVE  Inductive /\ Doomed /\ [Next]_vars => Doomed'
<1> SUFFICES ASSUME Inductive, Doomed, [Next]_vars PROVE Doomed'
  OBVIOUS
<1>1. CASE \E w \in Writers : Writer(w)
  BY <1>1, WriterDoom
<1>2. CASE Reap
  BY <1>2, ReaperDoom
<1>3. CASE AgeRoom
  BY <1>3 DEF AgeRoom, Doomed
<1>4. CASE (\E r \in Readers : ReadTail(r) \/ ReadFloor(r)) \/ AgeLock \/ Expire \/ UNCHANGED vars
  <2>1. UNCHANGED <<exists, recs, age, rpc>>
    BY <1>4 DEF ReadTail, ReadFloor, AgeLock, Expire, vars, fileVars
  <2> QED
    BY <2>1, SameDoom
<1> QED
  BY <1>1, <1>2, <1>3, <1>4 DEF Next

LEMMA DoomInit == Init => Doomed
BY DEF Init, Doomed

\* Only the unlink takes the file away, and only of a room it may take.
LEMMA OnlyUnlinkDeletes ==
  ASSUME OnlyCrashes
  PROVE  Inductive /\ Doomed /\ [Next]_vars => [exists /\ ~exists' => Reapable]_vars
<1> SUFFICES ASSUME Inductive, Doomed, Next, exists, ~exists' PROVE Reapable
  BY DEF vars, fileVars
<1>1. CASE \E w \in Writers : Writer(w)
  <2>1. PICK w \in Writers : Writer(w)
    BY <1>1
  <2>2. exists' = exists \/ exists' = TRUE
    BY <2>1 DEF Writer, Begin, OpenLock, TakeLock, Decide, Refuse, Write, CutWrite, PutRecord,
                Finish, CreateEntry, LoseCreateEntry, CrashWriter, fileVars
  <2> QED
    BY <2>2
<1>2. CASE Unlink
  BY <1>2 DEF Unlink, RGo, Doomed
<1>3. CASE Reap /\ ~Unlink
  BY <1>3 DEF Reap, WalkRoom, ReapOpen, ReapLock, ReapRecheck, SetFloor, LoseFloor, Sweep,
              CrashReaper, fileVars
<1>4. CASE (\E r \in Readers : ReadTail(r) \/ ReadFloor(r)) \/ AgeRoom \/ AgeLock \/ Expire
  BY <1>4 DEF ReadTail, ReadFloor, AgeRoom, AgeLock, Expire, fileVars
<1> QED
  BY <1>1, <1>2, <1>3, <1>4 DEF Next

\* A room somebody wrote to or answered after the reaper looked at it is never
\* deleted, however many writers race the pass (`_reap_pass`, the recheck under
\* the room lock).
THEOREM LiveRoomsStay == ASSUME OnlyCrashes PROVE Spec => LiveRoomKept
<1>1. Init => Doomed
  BY DoomInit
<1>2. Inductive /\ Doomed /\ [Next]_vars => Doomed'
  BY DoomStep
<1>3. Spec => []Inductive
  BY Numbering
<1>4. Inductive /\ Doomed /\ [Next]_vars => [exists /\ ~exists' => Reapable]_vars
  BY OnlyUnlinkDeletes
<1> QED
  BY <1>1, <1>2, <1>3, <1>4, PTL DEF Spec, LiveRoomKept, Reapable

----------------------------------------------------------------------------
(* RoomLog implements RoomPromise when at most crashes happen: each step of  *)
(* the room is a step of the promise, or none of its business.              *)

Kept == {recs[i].seq : i \in 1..Len(recs)}

LEMMA SameHead ==
  ASSUME LastSeq' = LastSeq, recs' = recs
  PROVE  UNCHANGED Promise!vars
BY DEF Promise!vars

LEMMA SameFile ==
  ASSUME UNCHANGED <<exists, recs, floor>>
  PROVE  UNCHANGED Promise!vars
BY SameHead DEF LastSeq

LEMMA WriteSays ==
  ASSUME Inductive, NEW w \in Writers, Write(w)
  PROVE  Promise!Say
<1>1. PutRecord(w) /\ pc[w] = "write"
  BY DEF Write, Go
<1>2. job[w].seq = high + 1 /\ LastSeq = high
  BY <1>1 DEF Inductive, WriterInv, HeadInv
<1>3. exists' /\ NewestSeq(recs') = high + 1
  BY <1>1, WriteKeepsHead
<1>4. LastSeq' = LastSeq + 1
  BY <1>2, <1>3 DEF LastSeq
<1>5. NewRecord(w) \in Record /\ recs \in Seq(Record)
  <2>1. job[w].req \in Requests /\ job[w].seq \in Nat \ {0}
    BY <1>1 DEF Inductive, TypeOK
  <2>2. job[w].req.did \in {r.did : r \in Requests} /\ job[w].req.nonce \in Nat
    BY <2>1, RoomAssumption
  <2> QED
    BY <2>1, <2>2 DEF NewRecord, Record, Inductive, TypeOK
<1>6. /\ Len(recs') = Len(recs) + 1
      /\ \A i \in 1..Len(recs) : recs'[i] = recs[i]
      /\ recs'[Len(recs) + 1] = NewRecord(w)
  BY <1>1, <1>5, AppendRecord DEF PutRecord
<1>7. NewRecord(w).seq = LastSeq'
  BY <1>2, <1>3 DEF NewRecord, LastSeq
<1>8. Len(recs) \in Nat
  BY <1>5
<1>9. Kept' = Kept \cup {LastSeq'}
  <2>1. ASSUME NEW n \in Kept' PROVE n \in Kept \cup {LastSeq'}
    <3>1. PICK i \in 1..(Len(recs) + 1) : n = recs'[i].seq
      BY <1>6 DEF Kept
    <3> QED
      BY <1>6, <1>7, <1>8, <3>1 DEF Kept
  <2>2. ASSUME NEW n \in Kept PROVE n \in Kept'
    <3>1. PICK i \in 1..Len(recs) : n = recs[i].seq
      BY DEF Kept
    <3>2. i \in 1..Len(recs') /\ recs'[i].seq = n
      BY <1>6, <1>8, <3>1
    <3> QED
      BY <3>2 DEF Kept
  <2>3. LastSeq' \in Kept'
    <3>1. Len(recs) + 1 \in 1..Len(recs')
      BY <1>6, <1>8
    <3> QED
      BY <1>6, <1>7, <3>1 DEF Kept
  <2> QED
    BY <2>1, <2>2, <2>3
<1> QED
  BY <1>4, <1>9 DEF Promise!Say, Kept

LEMMA CompactRotates ==
  ASSUME Inductive, exists, exists' = exists, NEW limit, Compact(limit)
  PROVE  Promise!Rotate
<1>1. recs \in Seq(Record) /\ recs # <<>> /\ Len(recs) \in Nat
  BY DEF Inductive, TypeOK, HeadInv
<1>2. PICK first \in 1..Len(recs) :
        /\ recs' \in Seq(Record)
        /\ Len(recs') = Len(recs) - first + 1
        /\ \A i \in 1..Len(recs') : recs'[i] = recs[first + i - 1]
  BY <1>1, CompactKeepsSuffix
<1>3. LastSeq' = LastSeq
  <2>1. NewestSeq(recs') = NewestSeq(recs)
    BY <1>1, CompactKeepsHead
  <2> QED
    BY <2>1 DEF LastSeq
<1>4. Len(recs) \in 1..Len(recs) /\ LastSeq = recs[Len(recs)].seq
  BY <1>1 DEF LastSeq, NewestSeq
<1>5. \A i \in 1..Len(recs) : recs[i].seq \in Nat \ {0}
  <2> SUFFICES ASSUME NEW i \in 1..Len(recs) PROVE recs[i].seq \in Nat \ {0}
    OBVIOUS
  <2>1. recs[i] \in Record
    BY <1>1
  <2> QED
    BY <2>1 DEF Record
<1>6. \A i, j \in 1..Len(recs) : i < j => recs[i].seq < recs[j].seq
  BY DEF Inductive, Increasing
<1>7. recs[first].seq \in 1..LastSeq
  <2>1. first = Len(recs) \/ first < Len(recs)
    BY <1>1
  <2>2. recs[first].seq \in Nat \ {0} /\ recs[Len(recs)].seq \in Nat \ {0}
    BY <1>4, <1>5
  <2>3. recs[first].seq <= recs[Len(recs)].seq
    <3>1. CASE first = Len(recs)
      BY <2>2, <3>1
    <3>2. CASE first < Len(recs)
      <4>1. recs[first].seq < recs[Len(recs)].seq
        BY <1>4, <1>6, <3>2
      <4> QED
        BY <2>2, <4>1
    <3> QED
      BY <2>1, <3>1, <3>2
  <2> QED
    BY <1>4, <2>2, <2>3
<1>8. Kept' = {n \in Kept : n >= recs[first].seq}
  <2>1. ASSUME NEW n \in Kept' PROVE n \in Kept /\ n >= recs[first].seq
    <3>1. PICK i \in 1..Len(recs') : n = recs'[i].seq
      BY DEF Kept
    <3>2. PICK j \in 1..Len(recs) : j = first + i - 1
      BY <1>1, <1>2
    <3>3. n = recs[j].seq /\ (first = j \/ first < j)
      BY <1>1, <1>2, <3>1, <3>2
    <3>4. n \in Kept
      BY <3>3 DEF Kept
    <3>5. n \in Nat \ {0} /\ recs[first].seq \in Nat \ {0}
      BY <1>5, <3>3
    <3>6. first = j => n >= recs[first].seq
      BY <3>3, <3>5
    <3>7. first < j => n >= recs[first].seq
      <4>1. first < j => recs[first].seq < recs[j].seq
        BY <1>6
      <4> QED
        BY <3>3, <3>5, <4>1
    <3> QED
      BY <3>3, <3>4, <3>6, <3>7
  <2>2. ASSUME NEW n \in Kept, n >= recs[first].seq PROVE n \in Kept'
    <3>1. PICK j \in 1..Len(recs) : n = recs[j].seq
      BY DEF Kept
    <3>2. j >= first
      BY <1>1, <1>5, <1>6, <2>2, <3>1
    <3>3. PICK i \in 1..Len(recs') : j = first + i - 1
      <4>1. j - first + 1 \in 1..Len(recs')
        BY <1>1, <1>2, <3>2
      <4>2. j = first + (j - first + 1) - 1
        BY <1>1
      <4> QED
        BY <4>1, <4>2
    <3>4. recs'[i].seq = n
      BY <1>2, <3>1, <3>3
    <3> QED
      BY <3>4 DEF Kept
  <2> QED
    BY <2>1, <2>2
<1>9. LastSeq \in Kept
  BY <1>4 DEF Kept
<1> QED
  BY <1>3, <1>7, <1>8, <1>9 DEF Promise!Rotate, Kept

LEMMA WriterPromised ==
  ASSUME OnlyCrashes, Inductive, NEW w \in Writers, Writer(w)
  PROVE  [Promise!Next]_Promise!vars
<1>1. CASE Write(w)
  BY <1>1, WriteSays DEF Promise!Next
<1>2. CASE Finish(w)
  <2>1. exists /\ exists' = exists /\ floor' = floor
    BY <1>2 DEF Finish, Go, Inductive, WriterInv, seqVars
  <2>2. PICK limit \in RingLimits :
          IF Len(recs) > limit THEN Compact(limit) ELSE UNCHANGED <<recs, torn, age>>
    BY <1>2 DEF Finish
  <2>3. CASE Compact(limit)
    BY <2>1, <2>3, CompactRotates DEF Promise!Next
  <2>4. CASE UNCHANGED recs
    BY <2>1, <2>4, SameFile
  <2> QED
    BY <2>2, <2>3, <2>4
<1>3. CASE CreateEntry(w)
  <2>1. exists /\ UNCHANGED <<exists, recs>>
    BY <1>3 DEF CreateEntry, Go, Inductive, WriterInv, fileVars
  <2>2. LastSeq' = LastSeq
    BY <2>1 DEF LastSeq, NewestSeq
  <2> QED
    BY <2>1, <2>2, SameHead
<1>4. CASE CutWrite(w) \/ LoseCreateEntry(w)
  BY <1>4 DEF CutWrite, LoseCreateEntry, OnlyCrashes
<1>5. CASE Begin(w) \/ OpenLock(w) \/ TakeLock(w) \/ Decide(w) \/ Refuse(w) \/ CrashWriter(w)
  <2>1. UNCHANGED <<exists, recs, floor>>
    BY <1>5 DEF Begin, OpenLock, TakeLock, Decide, Refuse, CrashWriter, fileVars, seqVars
  <2> QED
    BY <2>1, SameFile
<1> QED
  BY <1>1, <1>2, <1>3, <1>4, <1>5 DEF Writer

LEMMA ReaperPromised ==
  ASSUME OnlyCrashes, Inductive, Reap
  PROVE  [Promise!Next]_Promise!vars
<1>1. CASE Unlink
  <2>1. exists /\ floor = high /\ LastSeq = high
    BY <1>1 DEF Unlink, RGo, Inductive, ReaperInv, HeadInv
  <2>2. exists' = FALSE /\ recs' = <<>> /\ floor' = floor
    BY <1>1 DEF Unlink, seqVars
  <2>3. LastSeq' = LastSeq
    BY <2>1, <2>2 DEF LastSeq
  <2>4. Kept' = {}
    BY <2>2 DEF Kept
  <2> QED
    BY <2>3, <2>4 DEF Promise!Next, Promise!Retire, Kept
<1>2. CASE SetFloor
  <2>1. exists /\ UNCHANGED <<exists, recs>>
    BY <1>2 DEF SetFloor, RGo, Inductive, ReaperInv, fileVars
  <2>2. LastSeq' = LastSeq
    BY <2>1 DEF LastSeq, NewestSeq
  <2> QED
    BY <2>1, <2>2, SameHead
<1>3. CASE LoseFloor
  BY <1>3 DEF LoseFloor, OnlyCrashes
<1>4. CASE WalkRoom \/ ReapOpen \/ ReapLock \/ ReapRecheck \/ Sweep \/ CrashReaper
  <2>1. UNCHANGED <<exists, recs, floor>>
    BY <1>4 DEF WalkRoom, ReapOpen, ReapLock, ReapRecheck, Sweep, CrashReaper, fileVars, seqVars
  <2> QED
    BY <2>1, SameFile
<1> QED
  BY <1>1, <1>2, <1>3, <1>4 DEF Reap

LEMMA PromiseStep ==
  ASSUME OnlyCrashes
  PROVE  Inductive /\ [Next]_vars => [Promise!Next]_Promise!vars
<1> SUFFICES ASSUME Inductive, [Next]_vars PROVE [Promise!Next]_Promise!vars
  OBVIOUS
<1>1. CASE \E w \in Writers : Writer(w)
  BY <1>1, WriterPromised
<1>2. CASE Reap
  BY <1>2, ReaperPromised
<1>3. CASE (\E r \in Readers : ReadTail(r) \/ ReadFloor(r)) \/ AgeRoom \/ AgeLock \/ Expire \/ UNCHANGED vars
  <2>1. UNCHANGED <<exists, recs, floor>>
    BY <1>3 DEF ReadTail, ReadFloor, AgeRoom, AgeLock, Expire, vars, fileVars, seqVars
  <2> QED
    BY <2>1, SameFile
<1> QED
  BY <1>1, <1>2, <1>3 DEF Next

LEMMA PromiseInit == Init => Promise!Init
BY DEF Init, Promise!Init, LastSeq

\* A room promises its readers one sequence that never restarts, of which the
\* newest message survives every rotation; with any number of writers, polls,
\* reaps and crashes the code keeps that promise (`append`, `_compact`,
\* `_reap_pass`).
THEOREM PromiseKept ==
  ASSUME OnlyCrashes
  PROVE  Spec => KeepsPromise
BY PromiseInit, PromiseStep, Numbering, PTL DEF Spec, KeepsPromise, Promise!Spec

----------------------------------------------------------------------------
(* Whatever fails.                                                         *)

----------------------------------------------------------------------------
(* The lock.                                                               *)

LEMMA Who == /\ Reaper \in Procs /\ Reaper \notin Writers
             /\ \A w \in Writers : w \in Procs /\ w # Reaper
BY RoomAssumption DEF Procs

\* The inode is shared: each use of the lock keeps it so.
Shared ==
  /\ \A p \in Procs : handle[p] # 0 => handle[p] = sidecar
  /\ \A p \in Procs : holds[p] => handle[p] # 0
  /\ \A p, q \in Procs : holds[p] /\ holds[q] => p = q

LEMMA OpenShares ==
  ASSUME TypeOK, Shared, NEW p \in Procs, Open(p)
  PROVE  /\ Shared' /\ handle'[p] # 0 /\ holds' = holds
         /\ \A q \in Procs \ {p} : handle'[q] = handle[q]
BY DEF TypeOK, Shared, Open

LEMMA FlockShares ==
  ASSUME TypeOK, Shared, NEW p \in Procs, handle[p] # 0, Flock(p)
  PROVE  /\ Shared' /\ handle' = handle /\ holds'[p]
         /\ \A q \in Procs \ {p} : holds'[q] = holds[q]
BY DEF TypeOK, Shared, Flock

LEMMA ReleaseShares ==
  ASSUME TypeOK, Shared, NEW p \in Procs, Release(p)
  PROVE  /\ Shared' /\ handle'[p] = 0
         /\ \A q \in Procs \ {p} : handle'[q] = handle[q] /\ holds'[q] = holds[q]
BY DEF TypeOK, Shared, Release

\* The sweep takes the sidecar only when nobody has it open at all.
LEMMA SweepShares ==
  ASSUME TypeOK, OneInode, Sweep, SweptUnused
  PROVE  Shared' /\ UNCHANGED <<handle, holds>>
<1>1. /\ UNCHANGED <<handle, holds>> /\ rpc = "sweep"
      /\ sidecar' = IF sidecar # 0 /\ ~exists /\ lockOld THEN 0 ELSE sidecar
  BY DEF Sweep, RGo
<1>2. CASE sidecar' = sidecar
  BY <1>1, <1>2 DEF OneInode, Shared
<1>3. CASE sidecar' # sidecar
  <2>1. sidecar # 0 /\ sidecar' = 0
    BY <1>1, <1>3
  <2>2. \A p \in Procs : handle[p] = 0
    BY <1>1, <2>1 DEF SweptUnused, OneInode, Procs
  <2> QED
    BY <1>1, <2>2 DEF OneInode, Shared
<1> QED
  BY <1>2, <1>3

\* Each process keeps to its place in the protocol of the lock.
WriterKept(w) ==
  /\ pc[w] = "flock" => handle[w] # 0
  /\ pc[w] \in {"decide", "write", "ring"} => holds[w]

ReaperKept ==
  /\ rpc \in {"off", "open", "sweep"} => handle[Reaper] = 0
  /\ ReaperHolds

LEMMA OneInode_Parts == OneInode <=> /\ Shared /\ ReaperKept
                                     /\ \A w \in Writers : WriterKept(w)
BY DEF OneInode, Shared, ReaperKept, WriterHolds, WriterKept

LEMMA OneInode_PartsNext == OneInode' <=> /\ Shared' /\ ReaperKept'
                                          /\ \A w \in Writers : WriterKept(w)'
BY DEF OneInode, Shared, ReaperKept, WriterHolds, WriterKept

\* A step of one process disturbs nobody else.
LEMMA WriterAlone ==
  ASSUME OneInode, NEW w \in Writers, Shared', WriterKept(w)', rpc' = rpc,
         \A q \in Procs \ {w} : handle'[q] = handle[q] /\ holds'[q] = holds[q],
         \A v \in Writers \ {w} : pc'[v] = pc[v]
  PROVE  OneInode'
<1>1. ReaperKept'
  BY Who, OneInode_Parts DEF ReaperKept, ReaperHolds
<1>2. ASSUME NEW v \in Writers PROVE WriterKept(v)'
  <2>1. CASE v = w
    BY <2>1
  <2>2. CASE v # w
    <3>1. v \in Procs \ {w} /\ v \in Writers \ {w}
      BY Who, <2>2
    <3> QED
      BY <3>1, OneInode_Parts DEF WriterKept
  <2> QED
    BY <2>1, <2>2
<1> QED
  BY <1>1, <1>2, OneInode_PartsNext

LEMMA ReaperAlone ==
  ASSUME OneInode, Shared', ReaperKept', pc' = pc,
         \A q \in Procs \ {Reaper} : handle'[q] = handle[q] /\ holds'[q] = holds[q]
  PROVE  OneInode'
<1>1. ASSUME NEW v \in Writers PROVE WriterKept(v)'
  BY Who, OneInode_Parts DEF WriterKept
<1> QED
  BY <1>1, OneInode_PartsNext

\* Steps that use the lock neither of them.
LEMMA SameLock ==
  ASSUME OneInode, UNCHANGED <<sidecar, handle, holds, pc, rpc>>
  PROVE  OneInode'
BY DEF OneInode, WriterHolds, ReaperHolds

\* Whoever holds the lock is alone past it.
LEMMA Excludes ==
  ASSUME OneInode, NEW p \in Procs, holds[p]
  PROVE  /\ \A v \in Writers \ {p} : pc[v] \notin {"decide", "write", "ring"}
         /\ p # Reaper => rpc \notin {"recheck", "floor", "unlink"}
BY Who DEF OneInode, WriterHolds, ReaperHolds

LEMMA WriterLock ==
  ASSUME TypeOK, OneInode, NEW w \in Writers, Writer(w)
  PROVE  OneInode'
<1> USE Who
<1>0. Shared /\ WriterKept(w) /\ pc \in [Writers -> {"idle", "open", "flock", "decide", "write", "ring", "entry"}]
  BY OneInode_Parts DEF TypeOK
<1>a. ASSUME NEW to, pc' = [pc EXCEPT ![w] = to]
      PROVE  pc'[w] = to /\ \A v \in Writers \ {w} : pc'[v] = pc[v]
  BY <1>0, <1>a
<1>b. ASSUME NEW to, pc' = [pc EXCEPT ![w] = to], UNCHANGED <<lockVars, rpc>>,
             to \in {"idle", "open", "entry"} \/ (to \in {"decide", "write", "ring"} /\ holds[w])
      PROVE  OneInode'
  <2>1. Shared' /\ handle' = handle /\ holds' = holds
    BY <1>0, <1>b DEF lockVars, Shared
  <2>2. WriterKept(w)'
    BY <1>a, <1>b, <2>1 DEF WriterKept
  <2> QED
    BY <1>a, <1>b, <2>1, <2>2, WriterAlone
<1>c. ASSUME NEW to \in {"idle", "entry"}, pc' = [pc EXCEPT ![w] = to], Release(w), rpc' = rpc
      PROVE  OneInode'
  <2>1. /\ Shared'
        /\ \A q \in Procs \ {w} : handle'[q] = handle[q] /\ holds'[q] = holds[q]
    BY <1>0, <1>c, ReleaseShares
  <2>2. WriterKept(w)'
    BY <1>a, <1>c DEF WriterKept
  <2> QED
    BY <1>a, <1>c, <2>1, <2>2, WriterAlone
<1>1. CASE Begin(w)
  BY <1>1, <1>b DEF Begin, Go
<1>2. CASE OpenLock(w)
  <2>1. Open(w) /\ pc' = [pc EXCEPT ![w] = "flock"] /\ rpc' = rpc
    BY <1>2 DEF OpenLock, Go
  <2>2. /\ Shared' /\ handle'[w] # 0 /\ holds' = holds
        /\ \A q \in Procs \ {w} : handle'[q] = handle[q]
    BY <1>0, <2>1, OpenShares
  <2>3. WriterKept(w)'
    BY <1>a, <2>1, <2>2 DEF WriterKept
  <2> QED
    BY <1>a, <2>1, <2>2, <2>3, WriterAlone
<1>3. CASE TakeLock(w)
  <2>1. Flock(w) /\ pc[w] = "flock" /\ pc' = [pc EXCEPT ![w] = "decide"] /\ rpc' = rpc
    BY <1>3 DEF TakeLock, Go
  <2>2. /\ Shared' /\ handle' = handle /\ holds'[w]
        /\ \A q \in Procs \ {w} : holds'[q] = holds[q]
    BY <1>0, <2>1, FlockShares DEF WriterKept
  <2>3. WriterKept(w)'
    BY <1>a, <2>1, <2>2 DEF WriterKept
  <2> QED
    BY <1>a, <2>1, <2>2, <2>3, WriterAlone
<1>4. CASE Decide(w)
  BY <1>0, <1>4, <1>b DEF Decide, Go, WriterKept
<1>5. CASE Refuse(w)
  BY <1>5, <1>c DEF Refuse, Go
<1>6. CASE Write(w)
  BY <1>0, <1>6, <1>b DEF Write, Go, WriterKept
<1>7. CASE CutWrite(w)
  BY <1>7, <1>c DEF CutWrite, Go
<1>8. CASE Finish(w)
  BY <1>8, <1>c DEF Finish, Go
<1>9. CASE CreateEntry(w) \/ LoseCreateEntry(w)
  BY <1>9, <1>b DEF CreateEntry, LoseCreateEntry, Go
<1>10. CASE CrashWriter(w)
  BY <1>10, <1>c DEF CrashWriter
<1> QED
  BY <1>1, <1>2, <1>3, <1>4, <1>5, <1>6, <1>7, <1>8, <1>9, <1>10 DEF Writer

LEMMA ReaperLock ==
  ASSUME TypeOK, OneInode, Reap, SweptUnused
  PROVE  OneInode'
<1> USE Who
<1>0. Shared /\ ReaperKept
  BY OneInode_Parts
<1>a. ASSUME UNCHANGED <<lockVars, pc>>,
             \/ rpc' \in {"off", "open", "sweep"} /\ rpc \in {"off", "open", "sweep"}
             \/ rpc' \in {"floor", "unlink"} /\ rpc \in {"recheck", "floor"}
      PROVE  OneInode'
  <2>1. Shared' /\ handle' = handle /\ holds' = holds
    BY <1>0, <1>a DEF lockVars, Shared
  <2>2. ReaperKept'
    BY <1>0, <1>a, <2>1 DEF ReaperKept, ReaperHolds
  <2> QED
    BY <1>a, <2>1, <2>2, ReaperAlone
<1>b. ASSUME Release(Reaper), pc' = pc, rpc' \in {"off", "sweep"}
      PROVE  OneInode'
  <2>1. /\ Shared' /\ handle'[Reaper] = 0
        /\ \A q \in Procs \ {Reaper} : handle'[q] = handle[q] /\ holds'[q] = holds[q]
    BY <1>0, <1>b, ReleaseShares
  <2>2. ReaperKept'
    BY <1>b, <2>1 DEF ReaperKept, ReaperHolds
  <2> QED
    BY <1>b, <2>1, <2>2, ReaperAlone
<1>1. CASE WalkRoom
  BY <1>1, <1>a DEF WalkRoom, RGo
<1>2. CASE ReapOpen
  <2>1. Open(Reaper) /\ pc' = pc /\ rpc' = "flock"
    BY <1>2 DEF ReapOpen, RGo
  <2>2. /\ Shared' /\ handle'[Reaper] # 0 /\ holds' = holds
        /\ \A q \in Procs \ {Reaper} : handle'[q] = handle[q]
    BY <1>0, <2>1, OpenShares
  <2>3. ReaperKept'
    BY <2>1, <2>2 DEF ReaperKept, ReaperHolds
  <2> QED
    BY <2>1, <2>2, <2>3, ReaperAlone
<1>3. CASE ReapLock
  <2>1. Flock(Reaper) /\ pc' = pc /\ rpc = "flock" /\ rpc' = "recheck"
    BY <1>3 DEF ReapLock, RGo
  <2>2. /\ Shared' /\ handle' = handle /\ holds'[Reaper]
        /\ \A q \in Procs \ {Reaper} : holds'[q] = holds[q]
    BY <1>0, <2>1, FlockShares DEF ReaperKept, ReaperHolds
  <2>3. ReaperKept'
    BY <2>1, <2>2 DEF ReaperKept, ReaperHolds
  <2> QED
    BY <2>1, <2>2, <2>3, ReaperAlone
<1>4. CASE ReapRecheck
  BY <1>4, <1>a, <1>b DEF ReapRecheck, Recheck, RGo
<1>5. CASE SetFloor \/ LoseFloor
  BY <1>5, <1>a DEF SetFloor, LoseFloor, RGo
<1>6. CASE Unlink
  BY <1>6, <1>b DEF Unlink, RGo
<1>7. CASE Sweep
  <2>1. Shared' /\ UNCHANGED <<handle, holds>>
    BY <1>7, SweepShares
  <2>2. rpc = "sweep" /\ rpc' = "off" /\ pc' = pc
    BY <1>7 DEF Sweep, RGo
  <2>3. ReaperKept'
    BY <1>0, <2>1, <2>2 DEF ReaperKept, ReaperHolds
  <2> QED
    BY <2>1, <2>2, <2>3, ReaperAlone
<1>8. CASE CrashReaper
  BY <1>8, <1>b DEF CrashReaper
<1> QED
  BY <1>1, <1>2, <1>3, <1>4, <1>5, <1>6, <1>7, <1>8 DEF Reap

LEMMA LockStep ==
  ASSUME TypeOK, OneInode, [Next]_vars, [SweptUnused]_vars
  PROVE  OneInode'
<1>0. SweptUnused
  BY DEF SweptUnused, vars, lockVars
<1>1. CASE \E w \in Writers : Writer(w)
  BY <1>1, WriterLock
<1>2. CASE Reap
  BY <1>0, <1>2, ReaperLock
<1>3. CASE \E r \in Readers : ReadTail(r) \/ ReadFloor(r)
  BY <1>3, SameLock DEF ReadTail, ReadFloor, lockVars
<1>4. CASE AgeRoom \/ AgeLock \/ Expire
  BY <1>4, SameLock DEF AgeRoom, AgeLock, Expire, lockVars
<1>5. CASE UNCHANGED vars
  BY <1>5, SameLock DEF vars, lockVars
<1> QED
  BY <1>1, <1>2, <1>3, <1>4, <1>5 DEF Next

----------------------------------------------------------------------------
(* The records.                                                            *)

\* A set of positions in a file has a newest one.
LEMMA Newest_Exists ==
  ASSUME NEW n \in Nat, NEW S \in SUBSET (1..n), S # {}
  PROVE  \E c \in S : \A d \in S : d <= c
<1> DEFINE T == {n - c : c \in S}
           R == OpToRel(<, Nat)
<1>1. T \subseteq Nat /\ T # {}
  <2>1. \A c \in 1..n : n - c \in Nat
    OBVIOUS
  <2>2. \A c \in S : n - c \in Nat
    BY <2>1
  <2>3. T \subseteq Nat
    BY <2>2
  <2> QED
    BY <2>3
<1>2. IsWellFoundedOn(R, Nat)
  BY NatLessThanWellFounded
<1> HIDE DEF R, T
<1>3. PICK m \in T : \A y \in T : ~ (<<y, m>> \in R)
  BY <1>1, <1>2, WFMin
<1>4. \A y \in T : ~ (y < m)
  BY <1>1, <1>3 DEF R, OpToRel
<1>5. PICK c \in S : m = n - c
  BY <1>3 DEF T
<1>6. ASSUME NEW d \in S PROVE d <= c
  <2>1. n - d \in T
    BY DEF T
  <2>2. ~ (n - d < n - c)
    BY <1>4, <1>5, <2>1
  <2> QED
    BY <2>2
<1> QED
  BY <1>5, <1>6

LEMMA LastNonceType ==
  ASSUME recs \in Seq(Record), NEW d
  PROVE  LastNonce(d) \in Int
<1> DEFINE mine == {j \in 1..Len(recs) : j > Len(recs) - ReadBudget /\ recs[j].did = d}
           top == CHOOSE j \in mine : \A k \in mine : k <= j
<1>1. CASE mine = {}
  BY <1>1 DEF LastNonce
<1>2. CASE mine # {}
  <2>1. \E j \in mine : \A k \in mine : k <= j
    BY <1>2, Newest_Exists, LenProperties
  <2>2. top \in 1..Len(recs)
    BY <2>1
  <2>3. recs[top] \in Record
    BY <2>2, ElementOfSeq
  <2>4. LastNonce(d) = recs[top].nonce
    BY <1>2 DEF LastNonce
  <2> QED
    BY <2>3, <2>4 DEF Record
<1> QED
  BY <1>1, <1>2

\* The last nonce of a key bounds that of each of its records in reach.
LEMMA LastNonceCovers ==
  ASSUME recs \in Seq(Record), NonceOrder, NEW d, d # Unsigned,
         NEW i \in 1..Len(recs), i > Len(recs) - ReadBudget, recs[i].did = d
  PROVE  recs[i].nonce <= LastNonce(d)
<1> DEFINE mine == {j \in 1..Len(recs) : j > Len(recs) - ReadBudget /\ recs[j].did = d}
           top == CHOOSE j \in mine : \A k \in mine : k <= j
<1>1. Len(recs) \in Nat /\ ReadBudget \in Nat
  BY LenProperties, RoomAssumption
<1>2. i \in mine /\ mine \in SUBSET (1..Len(recs))
  OBVIOUS
<1>3. \E j \in mine : \A k \in mine : k <= j
  BY <1>1, <1>2, Newest_Exists
<1>4. top \in mine /\ \A k \in mine : k <= top
  BY <1>3
<1>5. LastNonce(d) = recs[top].nonce
  BY <1>2 DEF LastNonce
<1> HIDE DEF top
<1>6. /\ top \in 1..Len(recs) /\ recs[top].did = d /\ top > Len(recs) - ReadBudget
      /\ i <= top
  BY <1>2, <1>4
<1> HIDE DEF mine
<1>7. recs[i] \in Record /\ recs[top] \in Record
  BY <1>6, ElementOfSeq
<1>8. CASE i = top
  BY <1>5, <1>7, <1>8 DEF Record
<1>9. CASE i # top
  <2>1. i < top /\ top - i <= ReadBudget
    BY <1>1, <1>6, <1>9
  <2>2. recs[i].nonce < recs[top].nonce
    BY <1>6, <2>1 DEF NonceOrder
  <2> QED
    BY <1>5, <1>7, <2>2 DEF Record
<1> QED
  BY <1>8, <1>9

\* A record with the next number and a fresh nonce goes to the end of a file in
\* order, and the file stays in order.
LEMMA AppendOrders ==
  ASSUME recs \in Seq(Record), Increasing, NonceOrder, NEW rec \in Record,
         recs' = Append(recs, rec), NewestSeq(recs) < rec.seq,
         rec.did # Unsigned => LastNonce(rec.did) < rec.nonce
  PROVE  Increasing' /\ NonceOrder'
<1> DEFINE n == Len(recs)
<1>1. /\ n \in Nat /\ recs' \in Seq(Record) /\ Len(recs') = n + 1
      /\ \A i \in 1..n : recs'[i] = recs[i]
      /\ recs'[n + 1] = rec
  BY AppendRecord, LenProperties
<1>2. \A i \in 1..n : recs[i] \in Record
  BY ElementOfSeq
<1>3. ASSUME NEW i \in 1..n PROVE recs[i].seq < rec.seq
  <2>1. n # 0 /\ recs # <<>>
    BY <1>1, <1>3, EmptySeq
  <2>2. NewestSeq(recs) = recs[n].seq /\ n \in 1..n
    BY <1>1, <2>1 DEF NewestSeq
  <2>3. i = n \/ recs[i].seq < recs[n].seq
    BY <1>1, <2>2 DEF Increasing
  <2>4. recs[i].seq \in Nat /\ recs[n].seq \in Nat /\ rec.seq \in Nat
    BY <1>2, <2>2 DEF Record
  <2> QED
    BY <2>2, <2>3, <2>4
<1>4. ASSUME NEW i \in 1..n, (n + 1) - i <= ReadBudget, recs[i].did = rec.did, rec.did # Unsigned
      PROVE  recs[i].nonce < rec.nonce
  <2>1. i > n - ReadBudget
    BY <1>1, <1>4, RoomAssumption
  <2>2. recs[i].nonce <= LastNonce(rec.did) /\ LastNonce(rec.did) < rec.nonce
    BY <1>4, <2>1, LastNonceCovers
  <2>3. recs[i].nonce \in Nat /\ rec.nonce \in Nat
    BY <1>2 DEF Record
  <2>4. LastNonce(rec.did) \in Int
    BY LastNonceType
  <2> QED
    BY <2>2, <2>3, <2>4
<1> HIDE DEF n
<1>5. Increasing'
  <2> SUFFICES ASSUME NEW i \in 1..(n + 1), NEW j \in 1..(n + 1), i < j
               PROVE  recs'[i].seq < recs'[j].seq
    BY <1>1 DEF Increasing
  <2>1. i \in 1..n /\ (j \in 1..n \/ j = n + 1)
    BY <1>1
  <2>2. CASE j \in 1..n
    BY <1>1, <2>1, <2>2 DEF Increasing, n
  <2>3. CASE j = n + 1
    BY <1>1, <1>3, <2>1, <2>3
  <2> QED
    BY <2>1, <2>2, <2>3
<1>6. NonceOrder'
  <2> SUFFICES ASSUME NEW i \in 1..(n + 1), NEW j \in 1..(n + 1), i < j, j - i <= ReadBudget,
                      recs'[i].did = recs'[j].did, recs'[i].did # Unsigned
               PROVE  recs'[i].nonce < recs'[j].nonce
    BY <1>1 DEF NonceOrder
  <2>1. i \in 1..n /\ (j \in 1..n \/ j = n + 1)
    BY <1>1
  <2>2. CASE j \in 1..n
    BY <1>1, <2>1, <2>2 DEF NonceOrder, n
  <2>3. CASE j = n + 1
    BY <1>1, <1>4, <2>1, <2>3
  <2> QED
    BY <2>1, <2>2, <2>3
<1> QED
  BY <1>5, <1>6

\* A rotation keeps the order, and the distances between what it keeps.
LEMMA CompactOrders ==
  ASSUME recs \in Seq(Record), recs # <<>>, Increasing, NonceOrder, NEW limit, Compact(limit)
  PROVE  Increasing' /\ NonceOrder'
<1> DEFINE n == Len(recs)
<1>1. n \in Nat
  BY LenProperties
<1>2. PICK first \in 1..n :
        /\ recs' \in Seq(Record)
        /\ Len(recs') = n - first + 1
        /\ \A i \in 1..Len(recs') : recs'[i] = recs[first + i - 1]
  BY CompactKeepsSuffix
<1> DEFINE at(i) == first + i - 1
<1> HIDE DEF n
<1>3. ASSUME NEW i \in 1..Len(recs'), NEW j \in 1..Len(recs'), i < j
      PROVE  /\ at(i) \in 1..n /\ at(j) \in 1..n /\ at(i) < at(j) /\ at(j) - at(i) = j - i
             /\ recs'[i] = recs[at(i)] /\ recs'[j] = recs[at(j)]
  <2>1. recs'[i] = recs[at(i)] /\ recs'[j] = recs[at(j)]
    BY <1>2
  <2>2. i \in 1..(n - first + 1) /\ j \in 1..(n - first + 1)
    BY <1>2
  <2>3. at(i) \in 1..n /\ at(j) \in 1..n /\ at(i) < at(j) /\ at(j) - at(i) = j - i
    BY <1>1, <1>3, <2>2
  <2> QED
    BY <2>1, <2>3
<1> HIDE DEF at
<1>4. Increasing'
  BY <1>3 DEF Increasing, n
<1>5. NonceOrder'
  <2> SUFFICES ASSUME NEW i \in 1..Len(recs'), NEW j \in 1..Len(recs'), i < j, j - i <= ReadBudget,
                      recs'[i].did = recs'[j].did, recs'[i].did # Unsigned
               PROVE  recs'[i].nonce < recs'[j].nonce
    BY DEF NonceOrder
  <2>1. /\ at(i) \in 1..n /\ at(j) \in 1..n /\ at(i) < at(j) /\ at(j) - at(i) <= ReadBudget
        /\ recs'[i] = recs[at(i)] /\ recs'[j] = recs[at(j)]
    BY <1>3
  <2> QED
    BY <2>1 DEF NonceOrder, n
<1> QED
  BY <1>4, <1>5

\* What is true of a file nobody is writing.
FileFine == (~exists => recs = <<>>) /\ Increasing /\ NonceOrder

\* A finished rotation leaves such a file, and so does no rotation.
LEMMA FinishFine ==
  ASSUME TypeOK, FileFine, NEW w \in Writers, Finish(w)
  PROVE  FileFine'
<1>1. PICK limit \in RingLimits :
        IF Len(recs) > limit THEN Compact(limit) ELSE UNCHANGED <<recs, torn, age>>
  BY DEF Finish
<1>2. exists' = exists
  BY DEF Finish
<1>3. CASE Len(recs) > limit
  <2>1. Compact(limit) /\ recs \in Seq(Record)
    BY <1>1, <1>3 DEF TypeOK
  <2>2. recs # <<>>
    BY <1>3, <2>1, EmptySeq, LenProperties, RoomAssumption
  <2> QED
    BY <1>2, <2>1, <2>2, CompactOrders DEF FileFine
<1>4. CASE ~(Len(recs) > limit)
  BY <1>1, <1>2, <1>4 DEF FileFine, Increasing, NonceOrder
<1> QED
  BY <1>3, <1>4

LEMMA SameFileFine ==
  ASSUME FileFine, UNCHANGED recs, exists' = exists \/ exists'
  PROVE  FileFine'
BY DEF FileFine, Increasing, NonceOrder

----------------------------------------------------------------------------
(* Decisions.  A writer that is past its lock is alone, so what it saw there *)
(* is what it writes on.                                                    *)

Stands(w) ==
  /\ NewestSeq(recs) < job[w].seq
  /\ job[w].created <=> ~exists
  /\ job[w].req.did # Unsigned => LastNonce(job[w].req.did) < job[w].req.nonce

Acked(w) == pc[w] = "ring" => NewestSeq(recs) = job[w].seq

Fine(w) == (pc[w] = "write" => Stands(w)) /\ Acked(w)

LEMMA Fine_Parts == /\ (DecisionStands /\ AckedIsReadable) <=> \A w \in Writers : Fine(w)
                    /\ (DecisionStands /\ AckedIsReadable)' <=> \A w \in Writers : Fine(w)'
BY DEF DecisionStands, AckedIsReadable, Fine, Stands, Acked

LEMMA LastNonceSame ==
  ASSUME recs' = recs
  PROVE  \A d : LastNonce(d)' = LastNonce(d)
BY DEF LastNonce

\* A writer that does not move, over a file that does not change.
LEMMA FineKept ==
  ASSUME NEW w \in Writers, Fine(w), UNCHANGED <<exists, recs>>,
         pc'[w] = pc[w], job'[w] = job[w]
  PROVE  Fine(w)'
<1>1. NewestSeq(recs)' = NewestSeq(recs)
  BY DEF NewestSeq
<1>2. LastNonce(job[w].req.did)' = LastNonce(job[w].req.did)
  BY LastNonceSame DEF LastNonce
<1> QED
  BY <1>1, <1>2 DEF Fine, Stands, Acked

\* A writer that is not, or no longer, between its decision and its acknowledgement.
LEMMA FineAway ==
  ASSUME NEW w \in Writers, pc'[w] \notin {"write", "ring"}
  PROVE  Fine(w)'
BY DEF Fine, Acked

LEMMA DecideStands ==
  ASSUME TypeOK, FileFine, NEW w \in Writers, Decide(w)
  PROVE  Fine(w)'
<1>1. /\ pc'[w] = "write" /\ UNCHANGED <<exists, recs>>
      /\ job'[w] = [req |-> job[w].req, seq |-> LastSeq + 1, created |-> ~exists]
      /\ ~Replayed(w)
  BY DEF Decide, Go, TypeOK, fileVars
<1>2. /\ job'[w].seq = LastSeq + 1 /\ job'[w].created = ~exists
      /\ job'[w].req = job[w].req
  BY <1>1
<1>3. NewestSeq(recs)' = NewestSeq(recs) /\ NewestSeq(recs) \in Nat
  BY <1>1, NewestSeqType DEF NewestSeq, TypeOK
<1>4. NewestSeq(recs) <= LastSeq /\ LastSeq \in Nat
  BY <1>3, LastSeqType DEF FileFine, LastSeq, NewestSeq
<1>5. (NewestSeq(recs) < job[w].seq)'
  BY <1>2, <1>3, <1>4
<1>6. (job[w].req.did # Unsigned => LastNonce(job[w].req.did) < job[w].req.nonce)'
  <2>1. job[w].req \in Requests /\ recs \in Seq(Record)
    BY DEF TypeOK
  <2>2. job[w].req.nonce \in Nat /\ LastNonce(job[w].req.did) \in Int
    BY <2>1, RoomAssumption, LastNonceType
  <2>3. job[w].req.did # Unsigned => LastNonce(job[w].req.did) < job[w].req.nonce
    BY <1>1, <2>2 DEF Replayed
  <2>4. LastNonce(job[w].req.did)' = LastNonce(job[w].req.did)
    BY <1>1, <1>2 DEF LastNonce
  <2> QED
    BY <1>2, <2>3, <2>4
<1> QED
  BY <1>1, <1>2, <1>5, <1>6 DEF Fine, Stands, Acked

\* The record that was decided on is written at the end, in order.
LEMMA PutFine ==
  ASSUME TypeOK, FileFine, NEW w \in Writers, Stands(w), pc[w] = "write", PutRecord(w)
  PROVE  FileFine' /\ NewestSeq(recs)' = job[w].seq /\ exists'
<1>1. job[w].seq \in Nat \ {0} /\ job[w].req \in Requests /\ recs \in Seq(Record)
  BY DEF TypeOK
<1>2. PICK rec \in Record : rec = NewRecord(w)
  BY <1>1, RoomAssumption DEF Record, NewRecord
<1>3. /\ rec.seq = job[w].seq /\ rec.did = job[w].req.did /\ rec.nonce = job[w].req.nonce
      /\ recs' = Append(recs, rec) /\ exists'
  BY <1>2 DEF NewRecord, PutRecord
<1>4. NewestSeq(recs)' = rec.seq
  BY <1>1, <1>3, AppendRecord DEF NewestSeq
<1>5. Increasing' /\ NonceOrder'
  BY <1>1, <1>3, AppendOrders DEF Stands, FileFine
<1> QED
  BY <1>3, <1>4, <1>5 DEF FileFine

LEMMA WriterFine ==
  ASSUME TypeOK, OneInode, FileFine, \A v \in Writers : Fine(v), NEW w \in Writers, Writer(w)
  PROVE  FileFine' /\ \A v \in Writers : Fine(v)'
<1> USE Who
<1>a. /\ pc \in [Writers -> {"idle", "open", "flock", "decide", "write", "ring", "entry"}]
      /\ job \in [Writers -> [req : Requests, seq : Nat, created : BOOLEAN]]
  BY DEF TypeOK
<1>b. ASSUME NEW to, pc' = [pc EXCEPT ![w] = to]
      PROVE  pc'[w] = to /\ \A v \in Writers \ {w} : pc'[v] = pc[v]
  BY <1>a, <1>b
<1>c. ASSUME NEW to, pc' = [pc EXCEPT ![w] = to], Fine(w)', UNCHANGED <<exists, recs>>,
             \A v \in Writers \ {w} : job'[v] = job[v]
      PROVE  FileFine' /\ \A v \in Writers : Fine(v)'
  BY <1>b, <1>c, FineKept, SameFileFine
<1>d. ASSUME NEW to, pc' = [pc EXCEPT ![w] = to], Fine(w)', FileFine', holds[w]
      PROVE  FileFine' /\ \A v \in Writers : Fine(v)'
  <2>1. ASSUME NEW v \in Writers \ {w} PROVE Fine(v)'
    <3>1. pc'[v] = pc[v] /\ pc[v] \notin {"write", "ring"}
      BY <1>b, <1>d, Excludes
    <3> QED
      BY <3>1, FineAway
  <2> QED
    BY <1>d, <2>1
<1>1. CASE Begin(w)
  <2>1. pc' = [pc EXCEPT ![w] = "open"] /\ UNCHANGED <<exists, recs>>
    BY <1>1 DEF Begin, Go, fileVars
  <2>2. \A v \in Writers \ {w} : job'[v] = job[v]
    BY <1>1, <1>a DEF Begin
  <2> QED
    BY <1>b, <1>c, <2>1, <2>2, FineAway
<1>2. CASE OpenLock(w) \/ TakeLock(w) \/ Refuse(w) \/ CreateEntry(w) \/ LoseCreateEntry(w) \/ CrashWriter(w)
  <2>1. PICK to \in {"idle", "flock", "decide"} : pc' = [pc EXCEPT ![w] = to]
    BY <1>2 DEF OpenLock, TakeLock, Refuse, CreateEntry, LoseCreateEntry, CrashWriter, Go
  <2>2. UNCHANGED <<exists, recs, job>>
    BY <1>2 DEF OpenLock, TakeLock, Refuse, CreateEntry, LoseCreateEntry, CrashWriter, fileVars
  <2>3. Fine(w)'
    BY <1>b, <2>1, FineAway
  <2> QED
    BY <1>c, <2>1, <2>2, <2>3
<1>3. CASE Decide(w)
  <2>1. pc' = [pc EXCEPT ![w] = "write"] /\ UNCHANGED <<exists, recs>>
    BY <1>3 DEF Decide, Go, fileVars
  <2>2. \A v \in Writers \ {w} : job'[v] = job[v]
    BY <1>3, <1>a DEF Decide
  <2> QED
    BY <1>3, <1>c, <2>1, <2>2, DecideStands
<1>4. CASE Write(w) \/ CutWrite(w)
  <2>1. pc[w] = "write" /\ holds[w] /\ Stands(w) /\ job' = job
    BY <1>4 DEF Write, CutWrite, Go, OneInode, WriterHolds, Fine
  <2>2. PICK to \in {"ring", "idle"} : pc' = [pc EXCEPT ![w] = to]
    BY <1>4 DEF Write, CutWrite, Go
  <2>3. pc'[w] = to
    BY <1>b, <2>2
  <2>4. CASE PutRecord(w)
    <3>1. FileFine' /\ NewestSeq(recs)' = job[w].seq
      BY <2>1, <2>4, PutFine
    <3>2. Fine(w)'
      BY <2>1, <2>2, <2>3, <3>1 DEF Fine, Acked
    <3> QED
      BY <1>d, <2>1, <2>2, <3>1, <3>2
  <2>5. CASE ~PutRecord(w)
    <3>1. CutWrite(w) /\ pc' = [pc EXCEPT ![w] = "idle"] /\ UNCHANGED recs /\ exists'
      BY <1>4, <2>5 DEF Write, CutWrite, Go
    <3>2. Fine(w)'
      BY <1>b, <3>1, FineAway
    <3> QED
      BY <1>d, <2>1, <3>1, <3>2, SameFileFine
  <2> QED
    BY <2>4, <2>5
<1>5. CASE Finish(w)
  <2>1. pc[w] = "ring" /\ holds[w]
    BY <1>5 DEF Finish, Go, OneInode, WriterHolds
  <2>2. PICK to \in {"entry", "idle"} : pc' = [pc EXCEPT ![w] = to]
    BY <1>5 DEF Finish, Go
  <2>3. Fine(w)'
    BY <1>b, <2>2, FineAway
  <2> QED
    BY <1>5, <1>d, <2>1, <2>2, <2>3, FinishFine
<1> QED
  BY <1>1, <1>2, <1>3, <1>4, <1>5 DEF Writer

LEMMA ReaperFine ==
  ASSUME TypeOK, OneInode, FileFine, \A v \in Writers : Fine(v), Reap
  PROVE  FileFine' /\ \A v \in Writers : Fine(v)'
<1> USE Who
<1>1. CASE Unlink
  <2>1. rpc = "unlink" /\ ~exists' /\ recs' = <<>> /\ pc' = pc
    BY <1>1 DEF Unlink, RGo
  <2>2. holds[Reaper]
    BY <2>1 DEF OneInode, ReaperHolds
  <2>3. \A v \in Writers : pc'[v] \notin {"write", "ring"}
    BY <2>1, <2>2, Excludes
  <2>4. Len(recs') = 0
    BY <2>1, EmptySeq
  <2> QED
    BY <2>1, <2>3, <2>4, FineAway DEF FileFine, Increasing, NonceOrder
<1>2. CASE ~Unlink
  <2>1. UNCHANGED <<exists, recs, pc, job>>
    BY <1>2 DEF Reap, WalkRoom, ReapOpen, ReapLock, ReapRecheck, SetFloor, LoseFloor, Sweep,
                CrashReaper, fileVars
  <2> QED
    BY <2>1, FineKept, SameFileFine
<1> QED
  BY <1>1, <1>2

LEMMA FileStep ==
  ASSUME TypeOK, OneInode, FileFine, \A v \in Writers : Fine(v), [Next]_vars
  PROVE  FileFine' /\ \A v \in Writers : Fine(v)'
<1>1. CASE \E w \in Writers : Writer(w)
  BY <1>1, WriterFine
<1>2. CASE Reap
  BY <1>2, ReaperFine
<1>3. CASE UNCHANGED <<exists, recs, pc, job>>
  BY <1>3, FineKept, SameFileFine
<1>4. ASSUME (\E r \in Readers : ReadTail(r) \/ ReadFloor(r)) \/ AgeRoom \/ AgeLock \/ Expire \/ UNCHANGED vars
      PROVE  UNCHANGED <<exists, recs, pc, job>>
  BY <1>4 DEF ReadTail, ReadFloor, AgeRoom, AgeLock, Expire, vars, fileVars
<1> QED
  BY <1>1, <1>2, <1>3, <1>4 DEF Next

----------------------------------------------------------------------------
(* Births and generations.                                                 *)

\* A writer that stops creating, with or without its entry.
LEMMA CreatorLeaves ==
  ASSUME TypeOK, BirthsCovered, NEW w \in Writers, Creating' = Creating \ {w}, births' = births,
         gen' = gen \/ (w \in Creating /\ gen' = gen + 1)
  PROVE  BirthsCovered'
<1> DEFINE c == Cardinality(Creating)
           d == Cardinality(Creating \ {w})
<1>1. /\ IsFiniteSet(Creating \ {w}) /\ c \in Nat /\ d \in Nat
      /\ d = IF w \in Creating THEN c - 1 ELSE c
  BY FS_RemoveElement, FS_CardinalityType DEF BirthsCovered
<1>2. gen \in Nat /\ births \in Nat /\ gen + c <= births
  BY DEF TypeOK, BirthsCovered
<1> HIDE DEF c, d
<1>3. gen' + d <= births
  BY <1>1, <1>2
<1> QED
  BY <1>1, <1>3 DEF BirthsCovered, d

\* A writer that makes the file, and with it a birth.
LEMMA CreatorArrives ==
  ASSUME TypeOK, BirthsCovered, NEW w \in Writers, w \notin Creating,
         Creating' = Creating \cup {w}, births' = births + 1, gen' = gen
  PROVE  BirthsCovered'
<1> DEFINE c == Cardinality(Creating)
           d == Cardinality(Creating \cup {w})
<1>1. IsFiniteSet(Creating \cup {w}) /\ c \in Nat /\ d = c + 1
  BY FS_AddElement, FS_CardinalityType DEF BirthsCovered
<1>2. gen \in Nat /\ births \in Nat /\ gen + c <= births
  BY DEF TypeOK, BirthsCovered
<1> HIDE DEF c, d
<1>3. gen' + d <= births'
  BY <1>1, <1>2
<1> QED
  BY <1>1, <1>3 DEF BirthsCovered, d

LEMMA SameCreators ==
  ASSUME TypeOK, BirthsCovered, Creating' = Creating, gen' = gen, births' \in {births, births + 1}
  PROVE  BirthsCovered'
<1>1. Cardinality(Creating) \in Nat
  BY FS_CardinalityType DEF BirthsCovered
<1>2. gen \in Nat /\ births \in Nat
  BY DEF TypeOK
<1> QED
  BY <1>1, <1>2 DEF BirthsCovered

\* What one writer's step does to the set of creators.
LEMMA CreatingMoves ==
  ASSUME TypeOK, NEW w \in Writers, NEW to, pc' = [pc EXCEPT ![w] = to],
         \A v \in Writers \ {w} : job'[v] = job[v]
  PROVE  Creating' = IF to \in {"ring", "entry"} /\ job'[w].created
                     THEN Creating \cup {w} ELSE Creating \ {w}
<1>1. pc'[w] = to /\ \A v \in Writers \ {w} : pc'[v] = pc[v]
  BY DEF TypeOK
<1>2. Creating' = {v \in Writers : pc'[v] \in {"ring", "entry"} /\ job'[v].created}
  BY DEF Creating
<1> QED
  BY <1>1, <1>2 DEF Creating

LEMMA WriterBirths ==
  ASSUME TypeOK, EntryOwed, BirthsCovered, \A v \in Writers : Fine(v), NEW w \in Writers, Writer(w)
  PROVE  BirthsCovered'
<1>a. job \in [Writers -> [req : Requests, seq : Nat, created : BOOLEAN]]
  BY DEF TypeOK
<1>1. CASE \/ Begin(w) \/ OpenLock(w) \/ TakeLock(w) \/ Decide(w) \/ Refuse(w)
           \/ LoseCreateEntry(w) \/ CrashWriter(w)
  <2>1. PICK to \in {"idle", "open", "flock", "decide", "write"} : pc' = [pc EXCEPT ![w] = to]
    BY <1>1 DEF Begin, OpenLock, TakeLock, Decide, Refuse, LoseCreateEntry, CrashWriter, Go
  <2>2. \A v \in Writers \ {w} : job'[v] = job[v]
    BY <1>1, <1>a DEF Begin, OpenLock, TakeLock, Decide, Refuse, LoseCreateEntry, CrashWriter
  <2>3. UNCHANGED <<gen, births>>
    BY <1>1 DEF Begin, OpenLock, TakeLock, Decide, Refuse, LoseCreateEntry, CrashWriter, seqVars, histVars
  <2> QED
    BY <2>1, <2>2, <2>3, CreatingMoves, CreatorLeaves
<1>2. CASE Write(w)
  <2>1. /\ pc[w] = "write" /\ pc' = [pc EXCEPT ![w] = "ring"] /\ UNCHANGED <<job, gen>>
        /\ births' = births + (IF exists THEN 0 ELSE 1)
    BY <1>2 DEF Write, Go, PutRecord, seqVars
  <2>2. w \notin Creating /\ (job[w].created => ~exists)
    BY <2>1 DEF Creating, Fine, Stands
  <2>3. CASE job[w].created
    <3>1. Creating' = Creating \cup {w}
      BY <2>1, <2>3, CreatingMoves
    <3>2. births' = births + 1
      BY <2>1, <2>2, <2>3
    <3> QED
      BY <2>1, <2>2, <3>1, <3>2, CreatorArrives
  <2>4. CASE ~job[w].created
    <3>1. Creating' = Creating
      BY <2>1, <2>2, <2>4, CreatingMoves
    <3>2. births' \in {births, births + 1}
      BY <2>1 DEF TypeOK
    <3> QED
      BY <2>1, <3>1, <3>2, SameCreators
  <2> QED
    BY <2>3, <2>4
<1>3. CASE CutWrite(w)
  <2>1. /\ pc[w] = "write" /\ pc' = [pc EXCEPT ![w] = "idle"] /\ UNCHANGED <<job, gen>>
        /\ births' = births + (IF exists THEN 0 ELSE 1)
    BY <1>3 DEF CutWrite, Go, PutRecord, seqVars
  <2>2. Creating' = Creating
    <3>1. w \notin Creating
      BY <2>1 DEF Creating
    <3>2. Creating' = Creating \ {w}
      BY <2>1, CreatingMoves
    <3> QED
      BY <3>1, <3>2
  <2>3. births' \in {births, births + 1}
    BY <2>1 DEF TypeOK
  <2> QED
    BY <2>1, <2>2, <2>3, SameCreators
<1>4. CASE Finish(w)
  <2>1. /\ pc[w] = "ring" /\ UNCHANGED <<job, gen, births>>
        /\ pc' = [pc EXCEPT ![w] = IF job[w].created THEN "entry" ELSE "idle"]
    BY <1>4 DEF Finish, Go, seqVars, histVars
  <2>2. Creating' = Creating
    <3>1. CASE job[w].created
      <4>1. w \in Creating /\ job'[w].created /\ pc' = [pc EXCEPT ![w] = "entry"]
        BY <2>1, <3>1 DEF Creating
      <4>2. Creating' = Creating \cup {w}
        BY <2>1, <4>1, CreatingMoves
      <4> QED
        BY <4>1, <4>2
    <3>2. CASE ~job[w].created
      <4>1. w \notin Creating /\ ~job'[w].created /\ pc' = [pc EXCEPT ![w] = "idle"]
        BY <2>1, <3>2 DEF Creating
      <4>2. Creating' = Creating \ {w}
        BY <2>1, <4>1, CreatingMoves
      <4> QED
        BY <4>1, <4>2
    <3> QED
      BY <3>1, <3>2
  <2> QED
    BY <2>1, <2>2, SameCreators
<1>5. CASE CreateEntry(w)
  <2>1. /\ pc[w] = "entry" /\ pc' = [pc EXCEPT ![w] = "idle"] /\ UNCHANGED <<job, births>>
        /\ gen' = gen + 1
    BY <1>5 DEF CreateEntry, Go, histVars
  <2>2. Creating' = Creating \ {w}
    BY <2>1, CreatingMoves
  <2>3. w \in Creating
    BY <2>1 DEF Creating, EntryOwed
  <2> QED
    BY <2>1, <2>2, <2>3, CreatorLeaves
<1> QED
  BY <1>1, <1>2, <1>3, <1>4, <1>5 DEF Writer

LEMMA BirthsStep ==
  ASSUME TypeOK, EntryOwed, BirthsCovered, \A v \in Writers : Fine(v), [Next]_vars
  PROVE  BirthsCovered'
<1>1. CASE \E w \in Writers : Writer(w)
  BY <1>1, WriterBirths
<1>2. CASE UNCHANGED <<gen, births, pc, job>>
  BY <1>2, SameCreators DEF Creating
<1>3. ASSUME Reap \/ (\E r \in Readers : ReadTail(r) \/ ReadFloor(r)) \/ AgeRoom \/ AgeLock \/ Expire \/ UNCHANGED vars
      PROVE  UNCHANGED <<gen, births, pc, job>>
  BY <1>3 DEF Reap, WalkRoom, ReapOpen, ReapLock, ReapRecheck, SetFloor, LoseFloor, Unlink, Sweep,
              CrashReaper, ReadTail, ReadFloor, AgeRoom, AgeLock, Expire, vars, seqVars, histVars
<1> QED
  BY <1>1, <1>2, <1>3 DEF Next

LEMMA EntryStep ==
  ASSUME TypeOK, EntryOwed, [Next]_vars
  PROVE  EntryOwed'
<1>a. /\ pc \in [Writers -> {"idle", "open", "flock", "decide", "write", "ring", "entry"}]
      /\ job \in [Writers -> [req : Requests, seq : Nat, created : BOOLEAN]]
  BY DEF TypeOK
<1>1. ASSUME NEW w \in Writers, Writer(w) PROVE EntryOwed'
  <2>1. \A v \in Writers \ {w} : pc'[v] = pc[v] /\ job'[v] = job[v]
    BY <1>1, <1>a DEF Writer, Begin, OpenLock, TakeLock, Decide, Refuse, Write, CutWrite, Finish,
                      CreateEntry, LoseCreateEntry, CrashWriter, Go
  <2>2. pc'[w] = "entry" => job'[w].created
    BY <1>1, <1>a DEF Writer, Begin, OpenLock, TakeLock, Decide, Refuse, Write, CutWrite, Finish,
                      CreateEntry, LoseCreateEntry, CrashWriter, Go
  <2> QED
    BY <2>1, <2>2 DEF EntryOwed
<1>2. ASSUME UNCHANGED <<pc, job>> PROVE EntryOwed'
  BY <1>2 DEF EntryOwed
<1>3. ASSUME Reap \/ (\E r \in Readers : ReadTail(r) \/ ReadFloor(r)) \/ AgeRoom \/ AgeLock \/ Expire \/ UNCHANGED vars
      PROVE  UNCHANGED <<pc, job>>
  BY <1>3 DEF Reap, WalkRoom, ReapOpen, ReapLock, ReapRecheck, SetFloor, LoseFloor, Unlink, Sweep,
              CrashReaper, ReadTail, ReadFloor, AgeRoom, AgeLock, Expire, vars
<1> QED
  BY <1>1, <1>2, <1>3 DEF Next

----------------------------------------------------------------------------
LEMMA Faults_Parts ==
  /\ WhateverFails <=> /\ TypeOK /\ OneInode /\ EntryOwed /\ BirthsCovered /\ FileFine
                       /\ \A v \in Writers : Fine(v)
  /\ WhateverFails' <=> /\ TypeOK' /\ OneInode' /\ EntryOwed' /\ BirthsCovered' /\ FileFine'
                        /\ \A v \in Writers : Fine(v)'
BY Fine_Parts DEF WhateverFails, FileFine

LEMMA FaultsInit == Init => WhateverFails
<1> SUFFICES ASSUME Init PROVE WhateverFails
  OBVIOUS
<1>1. TypeOK
  BY TypeInit
<1>2. OneInode
  BY Who DEF Init, OneInode, WriterHolds, ReaperHolds
<1>3. EntryOwed /\ DecisionStands /\ AckedIsReadable
  BY DEF Init, EntryOwed, DecisionStands, AckedIsReadable
<1>4. BirthsCovered
  <2>1. Creating = {}
    BY DEF Init, Creating
  <2> QED
    BY <2>1, FS_EmptySet DEF Init, BirthsCovered
<1>5. recs = <<>> /\ Len(recs) = 0
  BY EmptySeq DEF Init
<1>6. Increasing /\ NonceOrder
  BY <1>5 DEF Increasing, NonceOrder
<1> QED
  BY <1>1, <1>2, <1>3, <1>4, <1>5, <1>6 DEF WhateverFails

LEMMA FaultsStep == WhateverFails /\ [Next]_vars /\ [SweptUnused]_vars => WhateverFails'
BY Faults_Parts, TypeStep, LockStep, EntryStep, BirthsStep, FileStep

\* Whatever fails, the invariant that orders a room's writers stands, as long as
\* no sweep unlinks a sidecar in use.
THEOREM RoomStands == Spec /\ [][SweptUnused]_vars => []WhateverFails
BY FaultsInit, FaultsStep, PTL DEF Spec

\* Records stay in order, the last acknowledged one is readable, and no
\* generation is invented: no cut write, lost entry, stall or death takes that.
THEOREM RecordsAlwaysStand == Spec /\ [][SweptUnused]_vars => []RecordsStand
<1>1. WhateverFails => RecordsStand
  <2> SUFFICES ASSUME WhateverFails PROVE RecordsStand
    OBVIOUS
  <2>1. IsFiniteSet(Creating) /\ gen + Cardinality(Creating) <= births
    BY DEF WhateverFails, BirthsCovered
  <2>2. Cardinality(Creating) \in Nat
    BY <2>1, FS_CardinalityType
  <2>3. gen \in Nat /\ births \in Nat
    BY DEF WhateverFails, TypeOK
  <2>4. GenNotInvented
    BY <2>1, <2>2, <2>3 DEF GenNotInvented
  <2> QED
    BY <2>4 DEF WhateverFails, RecordsStand
<1> QED
  BY <1>1, RoomStands, PTL

\* Two records of one key within reach of the replay check carry increasing
\* nonces, through rotation, deletion and every failure.
THEOREM NoncesAlwaysOrdered == Spec /\ [][SweptUnused]_vars => []NonceOrder
<1>1. WhateverFails => NonceOrder
  BY DEF WhateverFails
<1> QED
  BY <1>1, RoomStands, PTL

----------------------------------------------------------------------------
(* The generation, where nothing is lost.                                  *)

\* A sidecar gets old only where the environment lets it, and only an old one is
\* swept.
LEMMA NeverOld ==
  ASSUME "oldlock" \notin Env
  PROVE  Spec => []~lockOld
<1>1. Init => ~lockOld
  BY DEF Init
<1>2. ~lockOld /\ [Next]_vars => ~lockOld'
  <2> SUFFICES ASSUME ~lockOld, [Next]_vars PROVE ~lockOld'
    OBVIOUS
  <2>1. ASSUME NEW w \in Writers, Writer(w) PROVE ~lockOld'
    BY <2>1 DEF Writer, Begin, OpenLock, TakeLock, Decide, Refuse, Write, CutWrite, Finish,
                CreateEntry, LoseCreateEntry, CrashWriter, Open, Flock, Release, lockVars
  <2>2. ASSUME Reap PROVE ~lockOld'
    BY <2>2 DEF Reap, WalkRoom, ReapOpen, ReapLock, ReapRecheck, Recheck, SetFloor, LoseFloor, Unlink,
                Sweep, CrashReaper, Open, Flock, Release, lockVars
  <2>3. ASSUME (\E r \in Readers : ReadTail(r) \/ ReadFloor(r)) \/ AgeRoom \/ AgeLock \/ Expire
               \/ UNCHANGED vars
        PROVE  ~lockOld'
    BY <2>3 DEF ReadTail, ReadFloor, AgeRoom, AgeLock, Expire, vars, lockVars
  <2> QED
    BY <2>1, <2>2, <2>3 DEF Next
<1> QED
  BY <1>1, <1>2, PTL DEF Spec

LEMMA YoungIsNotSwept == ~lockOld /\ [Next]_vars => [SweptUnused]_vars
<1> SUFFICES ASSUME ~lockOld, [Next]_vars, sidecar # 0 PROVE sidecar' # 0
  BY DEF SweptUnused
<1>1. ASSUME NEW w \in Writers, Writer(w) PROVE sidecar' # 0
  BY <1>1 DEF Writer, Begin, OpenLock, TakeLock, Decide, Refuse, Write, CutWrite, Finish,
              CreateEntry, LoseCreateEntry, CrashWriter, Open, Flock, Release, lockVars
<1>2. ASSUME Reap PROVE sidecar' # 0
  BY <1>2 DEF Reap, WalkRoom, ReapOpen, ReapLock, ReapRecheck, Recheck, SetFloor, LoseFloor, Unlink,
              Sweep, CrashReaper, Open, Flock, Release, lockVars
<1>3. ASSUME (\E r \in Readers : ReadTail(r) \/ ReadFloor(r)) \/ AgeRoom \/ AgeLock \/ Expire
             \/ UNCHANGED vars
      PROVE  sidecar' # 0
  BY <1>3 DEF ReadTail, ReadFloor, AgeRoom, AgeLock, Expire, vars, lockVars
<1> QED
  BY <1>1, <1>2, <1>3 DEF Next

\* A birth and the entry that counts it, one for one.
LEMMA CountLeaves ==
  ASSUME TypeOK, BirthsCovered, GenCountsBirths, NEW w \in Writers, w \in Creating,
         Creating' = Creating \ {w}, births' = births, gen' = gen + 1
  PROVE  GenCountsBirths'
<1> DEFINE c == Cardinality(Creating)
           d == Cardinality(Creating \ {w})
<1>1. c \in Nat /\ d \in Nat /\ d = c - 1
  BY FS_RemoveElement, FS_CardinalityType DEF BirthsCovered
<1>2. gen \in Nat /\ births \in Nat /\ gen + c = births
  BY DEF TypeOK, GenCountsBirths
<1> HIDE DEF c, d
<1>3. gen' + d = births'
  BY <1>1, <1>2
<1> QED
  BY <1>3 DEF GenCountsBirths, d

LEMMA CountArrives ==
  ASSUME TypeOK, BirthsCovered, GenCountsBirths, NEW w \in Writers, w \notin Creating,
         Creating' = Creating \cup {w}, births' = births + 1, gen' = gen
  PROVE  GenCountsBirths'
<1> DEFINE c == Cardinality(Creating)
           d == Cardinality(Creating \cup {w})
<1>1. c \in Nat /\ d = c + 1
  BY FS_AddElement, FS_CardinalityType DEF BirthsCovered
<1>2. gen \in Nat /\ births \in Nat /\ gen + c = births
  BY DEF TypeOK, GenCountsBirths
<1> HIDE DEF c, d
<1>3. gen' + d = births'
  BY <1>1, <1>2
<1> QED
  BY <1>3 DEF GenCountsBirths, d

LEMMA CountSame ==
  ASSUME GenCountsBirths, Creating' = Creating, gen' = gen, births' = births
  PROVE  GenCountsBirths'
BY DEF GenCountsBirths

LEMMA WriterCounts ==
  ASSUME Env \subseteq {"stall"}, TypeOK, EntryOwed, BirthsCovered, GenCountsBirths,
         \A v \in Writers : Fine(v), NEW w \in Writers, Writer(w)
  PROVE  GenCountsBirths'
<1>a. job \in [Writers -> [req : Requests, seq : Nat, created : BOOLEAN]]
  BY DEF TypeOK
<1>1. CASE Begin(w) \/ OpenLock(w) \/ TakeLock(w) \/ Decide(w) \/ Refuse(w)
  <2>1. PICK to \in {"idle", "open", "flock", "decide", "write"} : pc' = [pc EXCEPT ![w] = to]
    BY <1>1 DEF Begin, OpenLock, TakeLock, Decide, Refuse, Go
  <2>2. \A v \in Writers \ {w} : job'[v] = job[v]
    BY <1>1, <1>a DEF Begin, OpenLock, TakeLock, Decide, Refuse
  <2>3. UNCHANGED <<gen, births>>
    BY <1>1 DEF Begin, OpenLock, TakeLock, Decide, Refuse, seqVars, histVars
  <2>4. w \notin Creating
    BY <1>1 DEF Begin, OpenLock, TakeLock, Decide, Refuse, Go, Creating
  <2>5. Creating' = Creating \ {w}
    BY <2>1, <2>2, CreatingMoves
  <2> QED
    BY <2>3, <2>4, <2>5, CountSame
<1>2. CASE Write(w)
  <2>1. /\ pc[w] = "write" /\ pc' = [pc EXCEPT ![w] = "ring"] /\ UNCHANGED <<job, gen>>
        /\ births' = births + (IF exists THEN 0 ELSE 1)
    BY <1>2 DEF Write, Go, PutRecord, seqVars
  <2>2. w \notin Creating /\ (job[w].created <=> ~exists)
    BY <2>1 DEF Creating, Fine, Stands
  <2>3. CASE job[w].created
    <3>1. Creating' = Creating \cup {w}
      BY <2>1, <2>3, CreatingMoves
    <3>2. births' = births + 1
      BY <2>1, <2>2, <2>3
    <3> QED
      BY <2>1, <2>2, <3>1, <3>2, CountArrives
  <2>4. CASE ~job[w].created
    <3>1. Creating' = Creating
      BY <2>1, <2>2, <2>4, CreatingMoves
    <3>2. births' = births
      BY <2>1, <2>2, <2>4 DEF TypeOK
    <3> QED
      BY <2>1, <3>1, <3>2, CountSame
  <2> QED
    BY <2>3, <2>4
<1>3. CASE Finish(w)
  <2>1. /\ pc[w] = "ring" /\ UNCHANGED <<job, gen, births>>
        /\ pc' = [pc EXCEPT ![w] = IF job[w].created THEN "entry" ELSE "idle"]
    BY <1>3 DEF Finish, Go, seqVars, histVars
  <2>2. CASE job[w].created
    <3>1. w \in Creating /\ job'[w].created /\ pc' = [pc EXCEPT ![w] = "entry"]
      BY <2>1, <2>2 DEF Creating
    <3>2. Creating' = Creating \cup {w}
      BY <2>1, <3>1, CreatingMoves
    <3>3. Creating' = Creating
      BY <3>1, <3>2
    <3> QED
      BY <2>1, <3>3, CountSame
  <2>3. CASE ~job[w].created
    <3>1. w \notin Creating /\ ~job'[w].created /\ pc' = [pc EXCEPT ![w] = "idle"]
      BY <2>1, <2>3 DEF Creating
    <3>2. Creating' = Creating \ {w}
      BY <2>1, <3>1, CreatingMoves
    <3>3. Creating' = Creating
      BY <3>1, <3>2
    <3> QED
      BY <2>1, <3>3, CountSame
  <2> QED
    BY <2>2, <2>3
<1>4. CASE CreateEntry(w)
  <2>1. /\ pc[w] = "entry" /\ pc' = [pc EXCEPT ![w] = "idle"] /\ UNCHANGED <<job, births>>
        /\ gen' = gen + 1
    BY <1>4 DEF CreateEntry, Go, histVars
  <2>2. Creating' = Creating \ {w}
    BY <2>1, CreatingMoves
  <2>3. w \in Creating
    BY <2>1 DEF Creating, EntryOwed
  <2> QED
    BY <2>1, <2>2, <2>3, CountLeaves
<1>5. ~CutWrite(w) /\ ~LoseCreateEntry(w) /\ ~CrashWriter(w)
  BY DEF CutWrite, LoseCreateEntry, CrashWriter
<1> QED
  BY <1>1, <1>2, <1>3, <1>4, <1>5 DEF Writer

LEMMA CountStep ==
  ASSUME Env \subseteq {"stall"}, WhateverFails, GenCountsBirths, [Next]_vars
  PROVE  GenCountsBirths'
<1>1. CASE \E w \in Writers : Writer(w)
  BY <1>1, WriterCounts, Faults_Parts
<1>2. CASE UNCHANGED <<gen, births, pc, job>>
  BY <1>2, CountSame DEF Creating
<1>3. ASSUME Reap \/ (\E r \in Readers : ReadTail(r) \/ ReadFloor(r)) \/ AgeRoom \/ AgeLock \/ Expire \/ UNCHANGED vars
      PROVE  UNCHANGED <<gen, births, pc, job>>
  BY <1>3 DEF Reap, WalkRoom, ReapOpen, ReapLock, ReapRecheck, SetFloor, LoseFloor, Unlink, Sweep,
              CrashReaper, ReadTail, ReadFloor, AgeRoom, AgeLock, Expire, vars, seqVars, histVars
<1> QED
  BY <1>1, <1>2, <1>3 DEF Next

\* Where handlers may be late but nothing is lost or dies: every conversation the
\* name has carried is in the generation, once those who made them are through
\* (#139 dir #3; `_set_seq_entry` after `_write_record`).
THEOREM GenerationsCount ==
  ASSUME Env \subseteq {"stall"}
  PROVE  Spec => []GenCountsBirths
<1>1. Init => GenCountsBirths
  <2> SUFFICES ASSUME Init PROVE GenCountsBirths
    OBVIOUS
  <2>1. Creating = {} /\ gen = 0 /\ births = 0
    BY DEF Init, Creating
  <2> QED
    BY <2>1, FS_EmptySet DEF GenCountsBirths
<1>2. WhateverFails /\ GenCountsBirths /\ [Next]_vars => GenCountsBirths'
  BY CountStep
<1>3. "oldlock" \notin Env
  OBVIOUS
<1>4. Spec => []~lockOld
  BY <1>3, NeverOld
<1> QED
  BY <1>1, <1>2, <1>4, RoomStands, YoungIsNotSwept, PTL DEF Spec
=============================================================================
