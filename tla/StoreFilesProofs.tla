-------------------------- MODULE StoreFilesProofs --------------------------
(***************************************************************************)
(* Proofs about the files of the store that are not a room's records: the  *)
(* sequence state and its lock-free reader (SeqState, SeqLookup), for any  *)
(* rooms, shards and setters, where a room's file is (Layout), for any     *)
(* number of writers, readers and records, the two periodic jobs           *)
(* (Periodic), for any number of handlers and any intervals, and the       *)
(* directories of the notes (Namespaces), for any finite number of writers *)
(* and keys. A room's floor and generation are its own and a reader is     *)
(* told what they were; an acknowledged record stays in the one file a     *)
(* reader finds, and only an idle room is deleted; passes never overlap,   *)
(* samples keep their distance, and a ring that can be read forgets        *)
(* nothing before its time; no directory is taken from under a writer, and *)
(* a pass that meets nobody leaves the note count right.                   *)
(***************************************************************************)
EXTENDS SeqLookup, Layout, Periodic, Namespaces, FiniteSetTheorems, TLAPS

----------------------------------------------------------------------------
(* The sequence state.                                                     *)

Readable == "unreadable" \notin Env

----------------------------------------------------------------------------
(* Types.                                                                  *)

LEMMA LookupType ==
  ASSUME TypeOK, NEW r \in Rooms
  PROVE  Lookup(r) \in Entry
BY DEF TypeOK, Lookup, Entry

LEMMA RecordedType ==
  ASSUME TypeOK, NEW p \in Setters
  PROVE  Recorded(p) \in Entry /\ Recorded(p) # None
<1>1. mark[p] \in Floors \cup {None} /\ gen[p] \in Nat
  BY DEF TypeOK
<1>2. (IF mark[p] = None THEN 0 ELSE mark[p]) \in Nat
  BY <1>1, SeqAssumption
<1>3. gen[p] + (IF mark[p] = None THEN 1 ELSE 0) \in Nat
  BY <1>1
<1> QED
  BY <1>2, <1>3, SeqAssumption DEF Recorded, Entry

LEMMA LeaveType ==
  ASSUME TypeOK, NEW p \in Setters, Leave(p)
  PROVE  /\ mark' \in [Setters -> Floors \cup {None}]
         /\ gen' \in [Setters -> Nat]
         /\ base' \in [Setters -> [Rooms -> Entry \cup {None}]]
         /\ room' \in [Setters -> Rooms]
BY DEF TypeOK, Leave, NoMap

LEMMA TypeInit == Init => TypeOK
<1> SUFFICES ASSUME Init PROVE TypeOK
  OBVIOUS
<1>1. shard \in [Rooms -> Entry \cup {None}] /\ legacy \in [Rooms -> Entry \cup {None}]
  BY SeqAssumption DEF Init
<1>2. room \in [Setters -> Rooms] /\ at \in Shards
  BY SeqAssumption DEF Init
<1> QED
  BY <1>1, <1>2 DEF Init, TypeOK, NoMap

LEMMA SetterTypeStep ==
  ASSUME TypeOK, NEW p \in Setters, Setter(p)
  PROVE  TypeOK'
<1> USE DEF Go
<1>1. CASE Begin(p)
  BY <1>1 DEF Begin, TypeOK, mapVars, splitVars
<1>2. CASE Lock(p)
  BY <1>2 DEF Lock, TypeOK, mapVars, splitVars
<1>3. CASE ReadEntry(p)
  <2>1. PICK e \in Seen(room[p]) :
          IF e # None
          THEN Go(p, "entry", "state") /\ gen' = [gen EXCEPT ![p] = e.gen]
          ELSE Go(p, "entry", "fallback") /\ UNCHANGED gen
    BY <1>3 DEF ReadEntry
  <2>2. e # None => e.gen \in Nat
    BY <2>1 DEF Seen, TypeOK, Entry
  <2>3. gen' \in [Setters -> Nat]
    BY <2>1, <2>2 DEF TypeOK
  <2>4. pc' \in [Setters -> {"idle", "lock", "entry", "fallback", "state", "replace"}]
    BY <2>1 DEF TypeOK
  <2> QED
    BY <1>3, <2>3, <2>4 DEF ReadEntry, TypeOK, mapVars, splitVars
<1>4. CASE ReadFallback(p)
  <2>1. (IF legacy[room[p]] # None THEN legacy[room[p]].gen ELSE 0) \in Nat
    BY DEF TypeOK, Entry
  <2> QED
    BY <1>4, <2>1 DEF ReadFallback, TypeOK, mapVars, splitVars
<1>5. CASE ReadState(p)
  <2>1. base' \in [Setters -> [Rooms -> Entry \cup {None}]]
    BY <1>5 DEF ReadState, TypeOK, NoMap
  <2> QED
    BY <1>5, <2>1 DEF ReadState, TypeOK, mapVars, splitVars
<1>6. CASE Replace(p)
  <2>1. shard' \in [Rooms -> Entry \cup {None}]
    BY <1>6, RecordedType DEF Replace, TypeOK
  <2> QED
    BY <1>6, <2>1, LeaveType DEF Replace, TypeOK, splitVars
<1>7. CASE CrashSetter(p)
  BY <1>7, LeaveType DEF CrashSetter, TypeOK, mapVars, splitVars
<1> QED
  BY <1>1, <1>2, <1>3, <1>4, <1>5, <1>6, <1>7 DEF Setter

LEMMA SplitTypeStep ==
  ASSUME TypeOK, Split
  PROVE  TypeOK'
<1> USE DEF SGo
<1>1. CASE SplitStart
  <2>1. todo' \subseteq Shards
    BY <1>1, SeqAssumption DEF SplitStart
  <2> QED
    BY <1>1, <2>1 DEF SplitStart, TypeOK, mapVars, setVars
<1>2. CASE \E s \in Shards : SplitLock(s)
  BY <1>2 DEF SplitLock, TypeOK, mapVars, setVars
<1>3. CASE SplitMerge
  <2>1. shard' \in [Rooms -> Entry \cup {None}]
    BY <1>3 DEF SplitMerge, Merged, TypeOK
  <2> QED
    BY <1>3, <2>1 DEF SplitMerge, TypeOK, setVars
<1>4. CASE SplitRetire
  BY <1>4 DEF SplitRetire, TypeOK, setVars, NoMap
<1>5. CASE SplitStops
  BY <1>5 DEF SplitStops, TypeOK, mapVars, setVars, NoMap
<1> QED
  BY <1>1, <1>2, <1>3, <1>4, <1>5 DEF Split

LEMMA TypeStep == TypeOK /\ [Next]_vars => TypeOK'
<1> SUFFICES ASSUME TypeOK, [Next]_vars PROVE TypeOK'
  OBVIOUS
<1>1. CASE \E p \in Setters : Setter(p)
  BY <1>1, SetterTypeStep
<1>2. CASE Split
  BY <1>2, SplitTypeStep
<1>3. CASE UNCHANGED vars
  BY <1>3 DEF vars, mapVars, setVars, splitVars, TypeOK
<1> QED
  BY <1>1, <1>2, <1>3 DEF Next

\* Every variable keeps its type, whatever fails.
THEOREM SeqTypeCorrect == Spec => []TypeOK
BY TypeInit, TypeStep, PTL DEF Spec

----------------------------------------------------------------------------
(* The locks: one holder of a shard at a time.                             *)

LEMMA HolderStep ==
  ASSUME TypeOK, OneHolder, [Next]_vars
  PROVE  OneHolder'
<1> USE DEF OneHolder, Holds, TypeOK
<1>1. ASSUME NEW p \in Setters, Begin(p) PROVE OneHolder'
  BY <1>1 DEF Begin, Go, splitVars
<1>2. ASSUME NEW p \in Setters, Lock(p) PROVE OneHolder'
  BY <1>2 DEF Lock, Go, ShardFree, splitVars
<1>3. ASSUME NEW p \in Setters, ReadEntry(p) \/ ReadFallback(p) \/ ReadState(p) PROVE OneHolder'
  <2>1. /\ \A q \in Setters : Holds(q)' => Holds(q)
        /\ room' = room /\ spc' = spc /\ at' = at
    BY <1>3 DEF ReadEntry, ReadFallback, ReadState, Go, splitVars
  <2> QED
    BY <2>1
<1>4. ASSUME NEW p \in Setters, Replace(p) \/ CrashSetter(p) PROVE OneHolder'
  <2>1. /\ \A q \in Setters : Holds(q)' => Holds(q)
        /\ room' = room /\ spc' = spc /\ at' = at
    BY <1>4 DEF Replace, CrashSetter, Leave, Go, splitVars
  <2> QED
    BY <2>1
<1>5. ASSUME NEW s \in Shards, SplitLock(s) PROVE OneHolder'
  BY <1>5 DEF SplitLock, SGo, ShardFree, setVars
<1>6. CASE SplitStart \/ SplitMerge \/ SplitRetire \/ SplitStops
  BY <1>6 DEF SplitStart, SplitMerge, SplitRetire, SplitStops, SGo, setVars
<1>7. CASE UNCHANGED vars
  BY <1>7 DEF vars, setVars, splitVars
<1> QED
  BY <1>1, <1>2, <1>3, <1>4, <1>5, <1>6, <1>7 DEF Next, Setter, Split

----------------------------------------------------------------------------
(* What the writes of a shard do to it.                                    *)

\* A setter changes its own room's entry and nothing else.
LEMMA ReplaceIsOwn ==
  ASSUME Inductive, NEW p \in Setters, Replace(p)
  PROVE  /\ shard' = [shard EXCEPT ![room[p]] = Recorded(p)]
         /\ gen[p] = Lookup(room[p]).gen
         /\ \A q \in Setters : q # p /\ Holds(q) => room[q] # room[p]
<1>1. \A r \in Rooms : ShardOf[r] = ShardOf[room[p]] => base[p][r] = shard[r]
  BY DEF Inductive, ReadStands, Replace, Go
<1>2. shard \in [Rooms -> Entry \cup {None}] /\ room[p] \in Rooms
  BY DEF Inductive, TypeOK
<1>3. \A q \in Setters : q # p /\ Holds(q) => room[q] # room[p]
  BY DEF Inductive, OneHolder, Holds, Replace, Go
<1>4. gen[p] = Lookup(room[p]).gen
  BY DEF Inductive, ReadStands, Replace, Go
<1>5. shard' = [shard EXCEPT ![room[p]] = Recorded(p)]
  BY <1>1, <1>2 DEF Replace
<1> QED
  BY <1>3, <1>4, <1>5

\* A merge only fills in, or adopts what a map that came back says.
LEMMA MergeFills ==
  ASSUME Inductive, SplitMerge
  PROVE  /\ legacy' = legacy /\ backup' = backup
         /\ \A r \in Rooms : ShardOf[r] # at => shard'[r] = shard[r]
         /\ \A r \in Rooms : ShardOf[r] = at =>
              shard'[r] = IF shard[r] = None \/ (backup /\ legacy[r] # None)
                          THEN legacy[r] ELSE shard[r]
<1>1. moved = legacy /\ first = ~backup
  BY DEF Inductive, SplitInv, SplitMerge, SGo
<1> QED
  BY <1>1 DEF SplitMerge, Merged, Inductive, TypeOK

\* Retiring the map takes no entry away.
LEMMA RetireKeeps ==
  ASSUME Inductive, SplitRetire, NEW r \in Rooms
  PROVE  Lookup(r)' = Lookup(r)
BY DEF Inductive, SplitInv, SplitRetire, SGo, Lookup, NoMap

LEMMA ReadStandsStep ==
  ASSUME Readable, Inductive, [Next]_vars
  PROVE  ReadStands'
<1> USE DEF Go
<1>1. ASSUME NEW p \in Setters, Begin(p) \/ Lock(p) PROVE ReadStands'
  BY <1>1 DEF Begin, Lock, ReadStands, Inductive, TypeOK, mapVars, Lookup
<1>2. ASSUME NEW p \in Setters, ReadEntry(p) PROVE ReadStands'
  <2>1. /\ shard[room[p]] # None => gen'[p] = shard[room[p]].gen /\ pc'[p] = "state"
        /\ shard[room[p]] = None => gen' = gen /\ pc'[p] = "fallback"
    BY <1>2 DEF ReadEntry, Seen, Readable, Inductive, TypeOK
  <2>2. \A q \in Setters \ {p} : pc'[q] = pc[q] /\ gen'[q] = gen[q]
    BY <1>2 DEF ReadEntry, Inductive, TypeOK
  <2> QED
    BY <1>2, <2>1, <2>2 DEF ReadEntry, ReadStands, Inductive, mapVars, Lookup
<1>3. ASSUME NEW p \in Setters, ReadFallback(p) PROVE ReadStands'
  <2>1. shard[room[p]] = None
    BY <1>3 DEF ReadFallback, Inductive, ReadStands
  <2>2. gen'[p] = Lookup(room[p]).gen
    BY <1>3, <2>1 DEF ReadFallback, Lookup, Inductive, TypeOK
  <2> QED
    BY <1>3, <2>1, <2>2 DEF ReadFallback, ReadStands, Inductive, TypeOK, mapVars, Lookup
<1>4. ASSUME NEW p \in Setters, ReadState(p) PROVE ReadStands'
  <2>1. base'[p] = [r \in Rooms |-> IF ShardOf[r] = ShardOf[room[p]] THEN shard[r] ELSE None]
    BY <1>4 DEF ReadState, Readable, Inductive, TypeOK
  <2>2. \A q \in Setters \ {p} : pc'[q] = pc[q] /\ base'[q] = base[q]
    BY <1>4 DEF ReadState, Inductive, TypeOK
  <2> QED
    BY <1>4, <2>1, <2>2 DEF ReadState, ReadStands, Inductive, TypeOK, mapVars, Lookup
<1>5. ASSUME NEW p \in Setters, Replace(p) PROVE ReadStands'
  <2> SUFFICES ASSUME NEW q \in Setters, Holds(q)'
               PROVE  /\ pc'[q] = "fallback" => shard'[room'[q]] = None
                      /\ pc'[q] \in {"state", "replace"} => gen'[q] = Lookup(room[q])'.gen
                      /\ pc'[q] = "replace" =>
                           \A r \in Rooms : ShardOf[r] = ShardOf[room'[q]] => base'[q][r] = shard'[r]
    BY DEF ReadStands, Holds
  <2>1. q # p /\ Holds(q)
    BY <1>5 DEF Replace, Holds, Inductive, TypeOK
  <2>2. pc'[q] = pc[q] /\ gen'[q] = gen[q] /\ base'[q] = base[q] /\ room' = room /\ legacy' = legacy
    BY <1>5, <2>1 DEF Replace, Leave, Inductive, TypeOK
  <2>3. ShardOf[room[q]] # ShardOf[room[p]]
    BY <1>5, <2>1 DEF Replace, Inductive, OneHolder, Holds
  <2>4. \A r \in Rooms : ShardOf[r] = ShardOf[room[q]] => shard'[r] = shard[r]
    BY <1>5, <2>3 DEF Replace
  <2>5. room[q] \in Rooms
    BY DEF Inductive, TypeOK
  <2> QED
    BY <2>1, <2>2, <2>4, <2>5 DEF Inductive, ReadStands, Lookup
<1>6. ASSUME NEW p \in Setters, CrashSetter(p) PROVE ReadStands'
  BY <1>6 DEF CrashSetter, Leave, ReadStands, Inductive, TypeOK, mapVars, Lookup
<1>7. ASSUME NEW s \in Shards, SplitStart \/ SplitLock(s) \/ SplitStops PROVE ReadStands'
  BY <1>7 DEF SplitStart, SplitLock, SplitStops, ReadStands, Inductive, mapVars, setVars, Lookup
<1>8. CASE SplitMerge
  <2> SUFFICES ASSUME NEW q \in Setters, Holds(q)
               PROVE  /\ pc[q] = "fallback" => shard'[room[q]] = None
                      /\ pc[q] \in {"state", "replace"} => gen[q] = Lookup(room[q])'.gen
                      /\ pc[q] = "replace" =>
                           \A r \in Rooms : ShardOf[r] = ShardOf[room[q]] => base[q][r] = shard'[r]
    BY <1>8 DEF SplitMerge, setVars, ReadStands, Holds
  <2>1. ShardOf[room[q]] # at /\ room[q] \in Rooms
    BY <1>8 DEF SplitMerge, SGo, Inductive, OneHolder, TypeOK
  <2>2. room' = room
    BY <1>8 DEF SplitMerge, setVars
  <2> QED
    BY <1>8, <2>1, <2>2, MergeFills DEF Inductive, ReadStands, Lookup
<1>9. CASE SplitRetire
  <2>1. pc' = pc /\ gen' = gen /\ base' = base /\ room' = room /\ shard' = shard
    BY <1>9 DEF SplitRetire, setVars
  <2>2. \A q \in Setters : Lookup(room[q])' = Lookup(room[q])
    BY <1>9, <2>1, RetireKeeps DEF Inductive, TypeOK
  <2> QED
    BY <2>1, <2>2 DEF Inductive, ReadStands
<1>10. CASE UNCHANGED vars
  BY <1>10 DEF vars, mapVars, setVars, Inductive, ReadStands, Lookup
<1> QED
  BY <1>1, <1>2, <1>3, <1>4, <1>5, <1>6, <1>7, <1>8, <1>9, <1>10, SeqAssumption DEF Next, Setter, Split

LEMMA SplitInvStep ==
  ASSUME Inductive, [Next]_vars
  PROVE  SplitInv'
<1>1. ASSUME NEW p \in Setters, Setter(p), ~Replace(p) PROVE SplitInv'
  BY <1>1 DEF Setter, Begin, Lock, ReadEntry, ReadFallback, ReadState, CrashSetter,
              Inductive, SplitInv, mapVars, splitVars
<1>2. ASSUME NEW p \in Setters, Replace(p) PROVE SplitInv'
  <2>1. \A r \in Rooms : shard[r] # None => shard'[r] # None
    BY <1>2, ReplaceIsOwn, RecordedType DEF Inductive, TypeOK
  <2> QED
    BY <1>2, <2>1 DEF Replace, Inductive, SplitInv, splitVars
<1>3. CASE SplitStart
  BY <1>3 DEF SplitStart, SGo, SplitInv, mapVars
<1>4. ASSUME NEW s \in Shards, SplitLock(s) PROVE SplitInv'
  BY <1>4 DEF SplitLock, SGo, Inductive, SplitInv, mapVars
<1>5. CASE SplitMerge
  <2>1. moved' = legacy' /\ first' = ~backup' /\ spc' = "next"
    BY <1>5 DEF SplitMerge, SGo, Inductive, SplitInv
  <2>2. \A r \in Rooms : legacy[r] # None /\ ShardOf[r] \notin todo' => shard'[r] # None
    BY <1>5, MergeFills DEF SplitMerge, SGo, Inductive, SplitInv
  <2> QED
    BY <1>5, <2>1, <2>2 DEF SplitMerge, SplitInv
<1>6. CASE SplitRetire \/ SplitStops
  BY <1>6 DEF SplitRetire, SplitStops, SGo, SplitInv
<1>7. CASE UNCHANGED vars
  BY <1>7 DEF vars, mapVars, splitVars, Inductive, SplitInv
<1> QED
  BY <1>1, <1>2, <1>3, <1>4, <1>5, <1>6, <1>7 DEF Next, Split

LEMMA InductiveInit == Init => Inductive
<1> SUFFICES ASSUME Init PROVE Inductive
  OBVIOUS
<1> QED
  BY TypeInit DEF Init, Inductive, OneHolder, Holds, ReadStands, SplitInv

LEMMA InductiveStep ==
  ASSUME Readable
  PROVE  Inductive /\ [Next]_vars => Inductive'
<1> SUFFICES ASSUME Inductive, [Next]_vars PROVE Inductive'
  OBVIOUS
<1>1. TypeOK'
  BY TypeStep DEF Inductive
<1>2. OneHolder'
  BY HolderStep DEF Inductive
<1>3. ReadStands' /\ SplitInv'
  BY ReadStandsStep, SplitInvStep
<1> QED
  BY <1>1, <1>2, <1>3 DEF Inductive

\* A shard has one holder, what a setter read under its lock still stands when it
\* writes, and the split leaves nothing of the map behind (`_set_seq_entry`,
\* `_split_seq_state`).
THEOREM SeqReading ==
  ASSUME Readable
  PROVE  Spec => []Inductive
BY InductiveInit, InductiveStep, PTL DEF Spec

----------------------------------------------------------------------------
(* The promise.                                                            *)

Entries == [r \in Rooms |-> Lookup(r)]

LEMMA PromiseInit == Init => Promise!Init
<1> SUFFICES ASSUME Init PROVE Promise!Init
  OBVIOUS
<1>1. \A r \in Rooms : Lookup(r) \in Entry
  BY TypeInit, LookupType
<1> QED
  BY <1>1 DEF Promise!Init, Returned, Entry

\* A step that leaves the entries and the map alone is none of the promise's.
LEMMA Stutter ==
  ASSUME \A r \in Rooms : Lookup(r)' = Lookup(r), Returned' = Returned
  PROVE  UNCHANGED Promise!vars
BY DEF Promise!vars

LEMMA SameMapsStutter ==
  ASSUME UNCHANGED mapVars
  PROVE  UNCHANGED Promise!vars
BY DEF mapVars, Promise!vars, Lookup, Returned

\* A setter's write is a create or a reap of its room.
LEMMA ReplaceIsPromised ==
  ASSUME Inductive, NEW p \in Setters, Replace(p)
  PROVE  Promise!Next
<1>0. PICK r \in Rooms : r = room[p]
  BY DEF Inductive, TypeOK
<1>1. Lookup(r) \in Entry
  BY LookupType DEF Inductive
<1>2. shard' = [shard EXCEPT ![r] = Recorded(p)] /\ legacy' = legacy /\ backup' = backup
  BY <1>0, ReplaceIsOwn DEF Replace
<1>3. Recorded(p) # None
  BY RecordedType DEF Inductive
<1>4. Lookup(r)' = Recorded(p)
  <2>1. shard'[r] = Recorded(p)
    BY <1>2 DEF Inductive, TypeOK
  <2> QED
    BY <1>2, <1>3, <2>1 DEF Lookup
<1>5. \A q \in Rooms \ {r} : Lookup(q)' = Lookup(q)
  BY <1>2 DEF Lookup, Inductive, TypeOK
<1>6. Entries' = [Entries EXCEPT ![r] = Recorded(p)]
  BY <1>4, <1>5 DEF Entries
<1>7. Entries[r] = Lookup(r) /\ gen[p] = Lookup(r).gen /\ gen[p] \in Nat
  BY <1>0, ReplaceIsOwn DEF Entries, Inductive, TypeOK
<1>8. Returned' = Returned
  BY <1>2 DEF Returned
<1>9. CASE mark[p] = None
  <2>1. Recorded(p) = [floor |-> 0, gen |-> Entries[r].gen + 1]
    BY <1>7, <1>9 DEF Recorded
  <2> QED
    BY <1>6, <1>8, <2>1 DEF Promise!Next, Promise!Create, Entries
<1>10. CASE mark[p] # None
  <2>1. mark[p] \in Floors
    BY <1>10 DEF Inductive, TypeOK
  <2>2. Recorded(p) = [floor |-> mark[p], gen |-> Entries[r].gen]
    BY <1>7, <1>10 DEF Recorded
  <2> QED
    BY <1>6, <1>8, <2>1, <2>2 DEF Promise!Next, Promise!Reap, Entries
<1> QED
  BY <1>9, <1>10

\* A merge is nothing on the first split, and an adoption of a map that came back.
LEMMA MergeIsPromised ==
  ASSUME Inductive, SplitMerge
  PROVE  [Promise!Next]_Promise!vars
<1>1. legacy' = legacy /\ backup' = backup /\ Returned' = Returned
  BY MergeFills DEF Returned
<1>2. CASE ~backup
  <2>1. \A r \in Rooms : Lookup(r)' = Lookup(r)
    BY <1>1, <1>2, MergeFills DEF Lookup
  <2> QED
    BY <1>1, <2>1, Stutter
<1>3. CASE backup
  <2> DEFINE S == {r \in Rooms : ShardOf[r] = at /\ legacy[r] # None}
  <2>1. S \in SUBSET {r \in Rooms : Returned[r] # None}
    BY <1>3 DEF Returned
  <2>2. \A r \in S : Lookup(r)' = legacy[r] /\ Returned[r] = legacy[r]
    BY <1>1, <1>3, MergeFills DEF Lookup, Returned
  <2>3. \A r \in Rooms \ S : Lookup(r)' = Lookup(r)
    BY <1>1, <1>3, MergeFills DEF Lookup
  <2>4. Entries' = [r \in Rooms |-> IF r \in S THEN Returned[r] ELSE Entries[r]]
    BY <2>2, <2>3 DEF Entries
  <2> QED
    BY <1>1, <2>1, <2>4 DEF Promise!Next, Promise!Adopt, Entries
<1> QED
  BY <1>2, <1>3

\* Retiring the map forgets what came back, and loses nothing.
LEMMA RetireIsPromised ==
  ASSUME Inductive, SplitRetire
  PROVE  Promise!Next
<1>1. Entries' = Entries
  BY RetireKeeps DEF Entries
<1>2. Returned' = [r \in Rooms |-> None]
  BY DEF Returned, SplitRetire, NoMap
<1> QED
  BY <1>1, <1>2 DEF Promise!Next, Promise!Forget, Entries

LEMMA PromiseStep ==
  ASSUME Inductive, [Next]_vars
  PROVE  [Promise!Next]_Promise!vars
<1>1. ASSUME NEW p \in Setters, Replace(p) PROVE [Promise!Next]_Promise!vars
  BY <1>1, ReplaceIsPromised
<1>2. ASSUME NEW p \in Setters, Setter(p), ~Replace(p) PROVE [Promise!Next]_Promise!vars
  <2>1. UNCHANGED mapVars
    BY <1>2 DEF Setter, Begin, Lock, ReadEntry, ReadFallback, ReadState, CrashSetter
  <2> QED
    BY <2>1, SameMapsStutter
<1>3. CASE SplitMerge
  BY <1>3, MergeIsPromised
<1>4. CASE SplitRetire
  BY <1>4, RetireIsPromised
<1>5. CASE SplitStart \/ (\E s \in Shards : SplitLock(s)) \/ SplitStops \/ UNCHANGED vars
  <2>1. UNCHANGED mapVars
    BY <1>5 DEF SplitStart, SplitLock, SplitStops, vars
  <2> QED
    BY <2>1, SameMapsStutter
<1> QED
  BY <1>1, <1>2, <1>3, <1>4, <1>5 DEF Next, Split

\* A room's floor and generation change by its own creates and reaps alone,
\* whoever else writes its shard, wherever the split is and whoever dies
\* (`_set_seq_entry`, `_split_seq_state`).
THEOREM OwnEntriesOnly ==
  ASSUME Readable
  PROVE  Spec => KeepsEntries
<1>1. Inductive /\ [Next]_vars => [Promise!Next]_Promise!vars
  BY PromiseStep
<1> QED
  BY <1>1, PromiseInit, SeqReading, PTL DEF Spec, KeepsEntries, Promise!Spec

----------------------------------------------------------------------------
(* The lock-free reader.                                                   *)

CopyRecord == [version : Nat, plain : BOOLEAN, entry : Entry \cup {None}]
AskRecord ==
  [step : {"off", "read", "after", "map", "told"}, room : Rooms, seen : Nat, copy : CopyRecord,
   raw : CopyRecord, told : Entry, had : SUBSET Entry, retired : BOOLEAN]

LookTypes ==
  /\ version \in [Shards -> Nat \ {0}] /\ plain \in [Shards -> BOOLEAN] /\ checked \in [Shards -> Nat]
  /\ ask \in AskRecord /\ edits \in Nat

\* A verdict is about a version that was, and of the one that is it is true.
VerdictsFine ==
  \A s \in Shards : checked[s] <= version[s] /\ (checked[s] = version[s] => plain[s])

\* What an open copy holds, until it is edited under its reader, is what a file of
\* its version held; and a verdict kept under that version is about it.
CopyFine(x) ==
  LET s == ShardOf[x.room] IN
  x.step \in {"read", "after"} =>
    /\ x.seen <= x.copy.version /\ x.copy.version <= version[s]
    /\ x.copy.version = version[s] => x.copy.plain = plain[s]
    /\ checked[s] = x.copy.version => x.copy.plain

RawFine(x) ==
  x.step = "after" =>
    /\ x.seen <= x.raw.version /\ x.raw.version <= x.copy.version
    /\ x.raw.version = x.copy.version => x.raw.plain = x.copy.plain
    /\ x.raw.entry = x.copy.entry

\* Whatever the rest of the read finds, the room had it.
HadFine(x) ==
  /\ x.step \in {"read", "after", "map"} =>
       IF x.copy.entry # None THEN x.copy.entry \in x.had
       ELSE IF legacy[x.room] # None THEN legacy[x.room] \in x.had
       ELSE Zero \in x.had \/ x.retired
  /\ x.step = "map" => x.copy.entry = None
  /\ x.step = "told" => x.told \in x.had \/ (x.told = Zero /\ x.retired)

AskFine(x) == CopyFine(x) /\ RawFine(x) /\ HadFine(x)

LookInductive == TypeOK /\ LookTypes /\ VerdictsFine /\ AskFine(ask)

LEMMA Look_Zero == Zero \in Entry /\ Zero # None
BY SeqAssumption DEF Zero, Entry

LEMMA Look_Init == LookupInit => LookInductive
<1> SUFFICES ASSUME LookupInit PROVE LookInductive
  OBVIOUS
<1>1. TypeOK
  BY TypeInit DEF LookupInit
<1>2. PICK r \in Rooms : r = CHOOSE q \in Rooms : TRUE
  BY SeqAssumption
<1>3. PICK x : x = NoRead(r)
  OBVIOUS
<1>4. ask = x
  BY <1>2, <1>3 DEF LookupInit
<1>5. x \in AskRecord /\ x.step = "off"
  BY <1>3, Look_Zero DEF NoRead, NoCopy, AskRecord, CopyRecord
<1>6. LookTypes
  BY <1>4, <1>5 DEF LookupInit, LookTypes
<1>7. VerdictsFine
  BY DEF LookupInit, VerdictsFine
<1>8. AskFine(x)
  BY <1>5 DEF AskFine, CopyFine, RawFine, HadFine
<1> QED
  BY <1>1, <1>4, <1>6, <1>7, <1>8 DEF LookInductive

LEMMA Look_Still ==
  ASSUME LookInductive, UNCHANGED vars
  PROVE  TypeOK' /\ legacy' = legacy
BY TypeStep DEF LookInductive, vars, mapVars

LEMMA Look_Open ==
  ASSUME LookInductive, NEW r \in Rooms, AskOpen(r)
  PROVE  LookInductive'
<1>1. TypeOK' /\ legacy' = legacy /\ UNCHANGED <<version, plain, checked, edits>>
  BY Look_Still DEF AskOpen
<1>2. PICK s \in Shards : s = ShardOf[r]
  BY SeqAssumption
<1>3. PICK v \in Nat : v = version[s]
  BY DEF LookInductive, LookTypes
<1>4. PICK b \in BOOLEAN : b = plain[s]
  BY DEF LookInductive, LookTypes
<1>5. PICK e \in Entry \cup {None} : e = shard[r]
  BY DEF LookInductive, TypeOK
<1>6. PICK had \in Entry : had = Lookup(r)
  BY LookupType DEF LookInductive
<1>7. PICK now \in CopyRecord : now = [version |-> v, plain |-> b, entry |-> e]
  BY DEF CopyRecord
<1>8. PICK x \in AskRecord : x = NoRead(r)
  BY Look_Zero DEF NoRead, NoCopy, AskRecord, CopyRecord
<1>9. PICK y \in AskRecord : y = [x EXCEPT !.step = "read", !.seen = v, !.copy = now, !.had = {had}]
  BY DEF AskRecord
<1>10. ask' = y
  BY <1>2, <1>3, <1>4, <1>5, <1>6, <1>7, <1>8, <1>9 DEF AskOpen, FileNow, CopyRecord
<1>11. y.step = "read" /\ y.room = r /\ y.seen = v /\ y.copy = now /\ y.had = {had}
  BY <1>8, <1>9 DEF AskRecord, NoRead
<1>12. now.version = v /\ now.plain = b /\ now.entry = e
  BY <1>7
<1>13. had = IF e # None THEN e ELSE IF legacy[r] # None THEN legacy[r] ELSE Zero
  BY <1>5, <1>6 DEF Lookup, Zero
<1>14. checked[s] <= v /\ (checked[s] = v => b)
  BY <1>3, <1>4 DEF LookInductive, VerdictsFine
<1>15. AskFine(y)'
  <2>1. CopyFine(y)'
    BY <1>1, <1>2, <1>3, <1>4, <1>11, <1>12, <1>14 DEF CopyFine
  <2>2. RawFine(y)'
    BY <1>11 DEF RawFine
  <2>3. HadFine(y)'
    BY <1>1, <1>11, <1>12, <1>13 DEF HadFine
  <2> QED
    BY <2>1, <2>2, <2>3 DEF AskFine
<1>16. LookTypes' /\ VerdictsFine'
  BY <1>1, <1>10 DEF LookInductive, LookTypes, VerdictsFine
<1> QED
  BY <1>1, <1>10, <1>15, <1>16 DEF LookInductive, AskFine, CopyFine, RawFine, HadFine

LEMMA Look_Read ==
  ASSUME LookInductive, AskRead
  PROVE  LookInductive'
<1>1. TypeOK' /\ legacy' = legacy /\ UNCHANGED <<version, plain, checked, edits>>
  BY Look_Still DEF AskRead
<1>2. PICK x \in AskRecord : x = ask
  BY DEF LookInductive, LookTypes
<1>3. PICK y \in AskRecord : y = [x EXCEPT !.step = "after", !.raw = x.copy]
  BY DEF AskRecord
<1>4. ask' = y /\ x.step = "read"
  BY <1>2, <1>3 DEF AskRead
<1>5. y.step = "after" /\ y.room = x.room /\ y.seen = x.seen /\ y.copy = x.copy /\ y.raw = x.copy
      /\ y.had = x.had /\ y.retired = x.retired
  BY <1>3 DEF AskRecord
<1>6. AskFine(x) /\ x.copy.version \in Nat
  BY <1>2 DEF LookInductive, AskRecord, CopyRecord
<1>7. AskFine(y)'
  <2>1. CopyFine(y)'
    BY <1>1, <1>4, <1>5, <1>6 DEF AskFine, CopyFine
  <2>2. RawFine(y)'
    BY <1>4, <1>5, <1>6 DEF AskFine, CopyFine, RawFine
  <2>3. HadFine(y)'
    BY <1>1, <1>4, <1>5, <1>6 DEF AskFine, HadFine
  <2> QED
    BY <2>1, <2>2, <2>3 DEF AskFine
<1>8. LookTypes' /\ VerdictsFine'
  BY <1>1, <1>4 DEF LookInductive, LookTypes, VerdictsFine
<1> QED
  BY <1>1, <1>4, <1>7, <1>8 DEF LookInductive, AskFine, CopyFine, RawFine, HadFine

LEMMA Look_After ==
  ASSUME LookInductive, AskAfter
  PROVE  LookInductive'
<1>1. TypeOK' /\ legacy' = legacy /\ UNCHANGED <<version, plain, edits>>
  BY Look_Still DEF AskAfter
<1>2. PICK x \in AskRecord : x = ask
  BY DEF LookInductive, LookTypes
<1>3. PICK s \in Shards : s = ShardOf[x.room]
  BY SeqAssumption DEF AskRecord
<1>4. x.step = "after" /\ AskFine(x)
  BY <1>2 DEF AskAfter, LookInductive
<1>5. x.copy \in CopyRecord /\ x.raw \in CopyRecord /\ x.seen \in Nat
  BY DEF AskRecord
<1>6. x.copy.version = x.seen =>
         x.raw.plain = x.copy.plain /\ x.copy.version <= version[s]
         /\ (x.copy.version = version[s] => x.copy.plain = plain[s])
         /\ (checked[s] = x.seen => x.copy.plain)
  BY <1>3, <1>4, <1>5 DEF AskFine, RawFine, CopyFine, CopyRecord
<1>7. Answer = x.copy.entry
  BY <1>2, <1>3, <1>4, <1>6 DEF Answer, Searched, Stable, ShardAsked, AskFine, RawFine
<1>8. /\ checked' \in [Shards -> Nat]
      /\ \A t \in Shards : t # s => checked'[t] = checked[t]
      /\ checked'[s] = checked[s] \/ (checked'[s] = x.seen /\ x.copy.version = x.seen /\ x.raw.plain)
  <2>1. CASE ~Searched /\ ask.raw.plain
    <3>1. PICK v \in Nat : v = Verdict
      BY <1>2, <1>3, <1>5 DEF Verdict, LookInductive, LookTypes, ShardAsked
    <3>2. checked' = [checked EXCEPT ![s] = v]
      BY <1>2, <1>3, <2>1, <3>1 DEF AskAfter, ShardAsked
    <3>3. v = checked[s] \/ (v = x.seen /\ x.copy.version = x.seen)
      BY <1>2, <1>3, <3>1 DEF Verdict, Stable, ShardAsked
    <3> QED
      BY <1>2, <2>1, <3>2, <3>3 DEF LookInductive, LookTypes
  <2>2. CASE ~(~Searched /\ ask.raw.plain)
    BY <2>2 DEF AskAfter, LookInductive, LookTypes
  <2> QED
    BY <2>1, <2>2
<1>9. VerdictsFine'
  <2>1. ASSUME NEW t \in Shards
        PROVE  checked'[t] <= version[t] /\ (checked'[t] = version[t] => plain[t])
    <3>1. checked[t] <= version[t] /\ (checked[t] = version[t] => plain[t])
      BY DEF LookInductive, VerdictsFine
    <3> QED
      BY <1>6, <1>8, <3>1
  <2> QED
    BY <1>1, <2>1 DEF VerdictsFine
<1>10. CASE MapWanted
  <2>1. PICK y \in AskRecord : y = [x EXCEPT !.step = "map"]
    BY DEF AskRecord
  <2>2. ask' = y
    BY <1>2, <1>10, <2>1 DEF AskAfter
  <2>3. y.step = "map" /\ y.room = x.room /\ y.copy = x.copy /\ y.had = x.had /\ y.retired = x.retired
    BY <2>1 DEF AskRecord
  <2>4. x.copy.entry = None
    BY <1>7, <1>10 DEF MapWanted
  <2>5. AskFine(y)'
    BY <1>1, <1>4, <2>3, <2>4 DEF AskFine, CopyFine, RawFine, HadFine
  <2> QED
    BY <1>1, <1>8, <1>9, <2>2, <2>5 DEF LookInductive, LookTypes, AskFine, CopyFine, RawFine, HadFine
<1>11. CASE ~MapWanted
  <2>1. x.copy.entry # None /\ x.copy.entry \in Entry
    BY <1>5, <1>7, <1>11 DEF MapWanted, CopyRecord
  <2>2. PICK e \in Entry : e = Answer
    BY <1>7, <2>1
  <2>3. PICK y \in AskRecord : y = [x EXCEPT !.step = "told", !.told = e]
    BY DEF AskRecord
  <2>4. ask' = y
    BY <1>2, <1>11, <2>2, <2>3 DEF AskAfter
  <2>5. y.step = "told" /\ y.told = x.copy.entry /\ y.had = x.had
    BY <1>7, <2>2, <2>3 DEF AskRecord
  <2>6. AskFine(y)'
    BY <1>4, <2>1, <2>5 DEF AskFine, CopyFine, RawFine, HadFine
  <2> QED
    BY <1>1, <1>8, <1>9, <2>4, <2>6 DEF LookInductive, LookTypes, AskFine, CopyFine, RawFine, HadFine
<1> QED
  BY <1>10, <1>11

LEMMA Look_Map ==
  ASSUME LookInductive, AskMap
  PROVE  LookInductive'
<1>1. TypeOK' /\ legacy' = legacy /\ UNCHANGED <<version, plain, checked, edits>>
  BY Look_Still DEF AskMap
<1>2. PICK x \in AskRecord : x = ask
  BY DEF LookInductive, LookTypes
<1>3. PICK e \in Entry : e = IF legacy[x.room] # None THEN legacy[x.room] ELSE Zero
  BY Look_Zero DEF LookInductive, TypeOK, AskRecord
<1>4. PICK y \in AskRecord : y = [x EXCEPT !.step = "told", !.told = e]
  BY DEF AskRecord
<1>5. ask' = y /\ x.step = "map"
  BY <1>2, <1>3, <1>4 DEF AskMap
<1>6. y.step = "told" /\ y.told = e /\ y.had = x.had /\ y.retired = x.retired
  BY <1>4 DEF AskRecord
<1>7. AskFine(x)
  BY <1>2 DEF LookInductive
<1>8. AskFine(y)'
  BY <1>3, <1>5, <1>6, <1>7 DEF AskFine, CopyFine, RawFine, HadFine
<1> QED
  BY <1>1, <1>5, <1>8 DEF LookInductive, LookTypes, VerdictsFine, AskFine, CopyFine, RawFine, HadFine

LEMMA Look_Done ==
  ASSUME LookInductive, AskDone
  PROVE  LookInductive'
<1>1. TypeOK' /\ legacy' = legacy /\ UNCHANGED <<version, plain, checked, edits>>
  BY Look_Still DEF AskDone
<1>2. PICK r \in Rooms : r = ask.room
  BY DEF LookInductive, LookTypes, AskRecord
<1>3. PICK y : y = NoRead(r)
  OBVIOUS
<1>4. y \in AskRecord /\ y.step = "off" /\ ask' = y
  BY <1>2, <1>3, Look_Zero DEF AskDone, NoRead, NoCopy, AskRecord, CopyRecord
<1>5. AskFine(y)'
  BY <1>4 DEF AskFine, CopyFine, RawFine, HadFine
<1> QED
  BY <1>1, <1>4, <1>5 DEF LookInductive, LookTypes, VerdictsFine, AskFine, CopyFine, RawFine, HadFine

\* What a step of the store may do beside a read: a version is new and plain, or
\* stays; and the map stays or goes.
StoreMoves ==
  /\ \A s \in Shards : \/ version'[s] = version[s] /\ plain'[s] = plain[s]
                       \/ version'[s] = version[s] + 1
  /\ version' \in [Shards -> Nat \ {0}] /\ plain' \in [Shards -> BOOLEAN]
  /\ legacy' = legacy \/ legacy' = NoMap
  /\ UNCHANGED <<checked, edits>>

LEMMA Look_StoreMoves ==
  ASSUME LookInductive, StoreStep
  PROVE  TypeOK' /\ StoreMoves
<1>1. ASSUME NEW s \in Shards, Rewritten(s)
      PROVE  /\ \A t \in Shards : \/ version'[t] = version[t] /\ plain'[t] = plain[t]
                                  \/ version'[t] = version[t] + 1
             /\ version' \in [Shards -> Nat \ {0}] /\ plain' \in [Shards -> BOOLEAN]
  <2>1. PICK v \in Nat \ {0} : v = version[s]
    BY DEF LookInductive, LookTypes
  <2>2. PICK n \in Nat \ {0} : n = v + 1
    OBVIOUS
  <2>3. /\ version \in [Shards -> Nat \ {0}] /\ plain \in [Shards -> BOOLEAN]
        /\ version' = [version EXCEPT ![s] = n] /\ plain' = [plain EXCEPT ![s] = TRUE]
    BY <1>1, <2>1, <2>2 DEF Rewritten, LookInductive, LookTypes
  <2>4. /\ version'[s] = n
        /\ \A t \in Shards \ {s} : version'[t] = version[t] /\ plain'[t] = plain[t]
        /\ version' \in [Shards -> Nat \ {0}] /\ plain' \in [Shards -> BOOLEAN]
    BY <2>3
  <2>5. version'[s] = version[s] + 1
    BY <2>1, <2>2, <2>4
  <2> QED
    BY <2>4, <2>5
<1>2. UNCHANGED <<version, plain>> =>
             /\ \A t \in Shards : \/ version'[t] = version[t] /\ plain'[t] = plain[t]
                                  \/ version'[t] = version[t] + 1
             /\ version' \in [Shards -> Nat \ {0}] /\ plain' \in [Shards -> BOOLEAN]
  BY DEF LookInductive, LookTypes
<1>3. UNCHANGED <<checked, edits>>
  BY DEF StoreStep
<1>4. ASSUME NEW p \in Setters, Setter(p) PROVE TypeOK' /\ legacy' = legacy
  <2>1. TypeOK'
    BY <1>4, SetterTypeStep DEF LookInductive
  <2>2. legacy' = legacy
    BY <1>4 DEF Setter, Begin, Lock, ReadEntry, ReadFallback, ReadState, Replace, CrashSetter, mapVars
  <2> QED
    BY <2>1, <2>2
<1>5. ASSUME Split PROVE TypeOK' /\ (legacy' = legacy \/ legacy' = NoMap)
  <2>1. TypeOK'
    BY <1>5, SplitTypeStep DEF LookInductive
  <2>2. legacy' = legacy \/ legacy' = NoMap
    BY <1>5 DEF Split, SplitStart, SplitLock, SplitMerge, SplitRetire, SplitStops, mapVars
  <2> QED
    BY <2>1, <2>2
<1>6. ASSUME NEW p \in Setters,
             \/ (Begin(p) \/ Lock(p) \/ ReadEntry(p) \/ ReadFallback(p) \/ ReadState(p) \/ CrashSetter(p))
                /\ UNCHANGED <<version, plain>>
             \/ Replace(p) /\ Rewritten(ShardOf[room[p]])
      PROVE  TypeOK' /\ StoreMoves
  <2>1. ShardOf[room[p]] \in Shards
    BY SeqAssumption DEF LookInductive, TypeOK
  <2>2. Setter(p)
    BY <1>6 DEF Setter
  <2> QED
    BY <1>1, <1>2, <1>3, <1>4, <1>6, <2>1, <2>2 DEF StoreMoves
<1>7. CASE SplitMerge /\ Rewritten(at)
  <2>1. at \in Shards /\ Split
    BY <1>7 DEF LookInductive, TypeOK, Split
  <2> QED
    BY <1>1, <1>3, <1>5, <1>7, <2>1 DEF StoreMoves
<1>8. CASE (SplitStart \/ (\E s \in Shards : SplitLock(s)) \/ SplitRetire \/ SplitStops) /\ UNCHANGED <<version, plain>>
  <2>1. Split
    BY <1>8 DEF Split
  <2> QED
    BY <1>2, <1>3, <1>5, <1>8, <2>1 DEF StoreMoves
<1> QED
  BY <1>6, <1>7, <1>8 DEF StoreStep

LEMMA Look_Store ==
  ASSUME LookInductive, StoreStep
  PROVE  LookInductive'
<1>1. TypeOK' /\ StoreMoves
  BY Look_StoreMoves
<1>2. PICK x \in AskRecord : x = ask
  BY DEF LookInductive, LookTypes
<1>3. AskFine(x) /\ ShardOf[x.room] \in Shards /\ x.room \in Rooms
  BY <1>2, SeqAssumption DEF LookInductive, AskRecord
<1>4. VerdictsFine'
  <2>1. ASSUME NEW s \in Shards
        PROVE  checked'[s] <= version'[s] /\ (checked'[s] = version'[s] => plain'[s])
    <3>1. checked[s] <= version[s] /\ (checked[s] = version[s] => plain[s])
          /\ checked[s] \in Nat /\ version[s] \in Nat /\ checked'[s] = checked[s]
      BY <1>1 DEF LookInductive, LookTypes, VerdictsFine, StoreMoves
    <3>2. \/ version'[s] = version[s] /\ plain'[s] = plain[s]
          \/ version'[s] = version[s] + 1
      BY <1>1 DEF StoreMoves
    <3> QED
      BY <3>1, <3>2
  <2> QED
    BY <2>1 DEF VerdictsFine
<1>5. PICK more \in SUBSET Entry : more = {Lookup(r)' : r \in {x.room}}
  <2>1. Lookup(x.room)' \in Entry
    BY <1>1, <1>3, LookupType DEF Lookup, TypeOK, Entry
  <2> QED
    BY <2>1
<1>6. PICK gone \in BOOLEAN : gone = (legacy # NoMap /\ legacy' = NoMap)
  OBVIOUS
<1>7. PICK y \in AskRecord :
         y = IF x.step = "off" THEN x ELSE [x EXCEPT !.had = x.had \cup more, !.retired = x.retired \/ gone]
  BY DEF AskRecord
<1>8. ask' = y
  BY <1>2, <1>5, <1>6, <1>7 DEF StoreStep, Watched
<1>9. /\ y.step = x.step /\ y.room = x.room /\ y.seen = x.seen /\ y.copy = x.copy /\ y.raw = x.raw
      /\ y.told = x.told /\ x.had \subseteq y.had
      /\ x.retired => y.retired
      /\ x.step # "off" /\ gone => y.retired
  BY <1>7 DEF AskRecord
<1>10. AskFine(y)'
  <2>1. CopyFine(y)'
    <3>1. PICK s \in Shards : s = ShardOf[x.room]
      BY <1>3
    <3>2. \/ version'[s] = version[s] /\ plain'[s] = plain[s]
          \/ version'[s] = version[s] + 1
      BY <1>1 DEF StoreMoves
    <3>3. checked'[s] = checked[s] /\ version[s] \in Nat /\ x.copy.version \in Nat
      BY <1>1 DEF StoreMoves, LookInductive, LookTypes, AskRecord, CopyRecord
    <3> QED
      BY <1>3, <1>9, <3>1, <3>2, <3>3 DEF AskFine, CopyFine
  <2>2. RawFine(y)'
    BY <1>3, <1>9 DEF AskFine, RawFine
  <2>3. HadFine(y)'
    <3>1. CASE legacy' = legacy
      BY <1>3, <1>9, <3>1 DEF AskFine, HadFine
    <3>2. CASE legacy' # legacy
      <4>1. legacy'[x.room] = None /\ gone /\ (x.step # "off" => y.retired)
        BY <1>1, <1>3, <1>6, <1>9, <3>2 DEF StoreMoves, NoMap
      <4> QED
        BY <1>3, <1>9, <4>1 DEF AskFine, HadFine
    <3> QED
      BY <3>1, <3>2
  <2> QED
    BY <2>1, <2>2, <2>3 DEF AskFine
<1>11. LookTypes'
  BY <1>1, <1>8 DEF StoreMoves, LookInductive, LookTypes
<1> QED
  BY <1>1, <1>4, <1>8, <1>10, <1>11 DEF LookInductive, AskFine, CopyFine, RawFine, HadFine

LEMMA Look_Edit ==
  ASSUME LookInductive, NEW s \in Shards, HandEdit(s)
  PROVE  LookInductive'
<1>1. TypeOK' /\ legacy' = legacy /\ UNCHANGED checked /\ edits' \in Nat
  BY Look_Still DEF HandEdit, LookInductive, LookTypes
<1>2. PICK x \in AskRecord : x = ask
  BY DEF LookInductive, LookTypes
<1>3. PICK t \in Shards : t = ShardOf[x.room]
  BY SeqAssumption DEF AskRecord
<1>4. AskFine(x)
  BY <1>2 DEF LookInductive
<1>5. PICK v \in Nat \ {0} : v = version[s]
  BY DEF LookInductive, LookTypes
<1>6. /\ version' = [version EXCEPT ![s] = v + 1] /\ plain' = [plain EXCEPT ![s] = FALSE]
      /\ version \in [Shards -> Nat \ {0}] /\ plain \in [Shards -> BOOLEAN] /\ checked \in [Shards -> Nat]
  BY <1>5 DEF HandEdit, LookInductive, LookTypes
<1>7. /\ version'[s] = v + 1 /\ plain'[s] = FALSE
      /\ \A u \in Shards \ {s} : version'[u] = version[u] /\ plain'[u] = plain[u]
      /\ version' \in [Shards -> Nat \ {0}] /\ plain' \in [Shards -> BOOLEAN]
  BY <1>5, <1>6
<1>8. VerdictsFine'
  <2>1. ASSUME NEW u \in Shards
        PROVE  checked[u] <= version'[u] /\ (checked[u] = version'[u] => plain'[u])
    <3>1. checked[u] <= version[u] /\ (checked[u] = version[u] => plain[u])
          /\ checked[u] \in Nat /\ version[u] \in Nat
      BY DEF LookInductive, LookTypes, VerdictsFine
    <3> QED
      BY <1>5, <1>7, <3>1
  <2> QED
    BY <1>1, <2>1 DEF VerdictsFine
<1>9. x.copy \in CopyRecord /\ x.raw \in CopyRecord /\ x.copy.version \in Nat /\ x.raw.version \in Nat
      /\ x.seen \in Nat
  BY DEF AskRecord, CopyRecord
<1>10. CASE s = t /\ x.copy.version = v
  <2>1. PICK now \in CopyRecord : now = [x.copy EXCEPT !.version = v + 1, !.plain = FALSE]
    <3>1. PICK k \in Nat : k = v + 1
      BY <1>5
    <3>2. PICK now \in CopyRecord : now = [x.copy EXCEPT !.version = k, !.plain = FALSE]
      BY <1>9 DEF CopyRecord
    <3> QED
      BY <3>1, <3>2
  <2>2. now.version = v + 1 /\ now.plain = FALSE /\ now.entry = x.copy.entry
    BY <1>9, <2>1 DEF CopyRecord
  <2>3. PICK y \in AskRecord : y = [x EXCEPT !.copy = now]
    BY DEF AskRecord
  <2>4. ask' = y
    BY <1>2, <1>3, <1>5, <1>10, <2>1, <2>3 DEF HandEdit, ShardAsked
  <2>5. y.step = x.step /\ y.room = x.room /\ y.seen = x.seen /\ y.copy = now /\ y.raw = x.raw
        /\ y.told = x.told /\ y.had = x.had /\ y.retired = x.retired
    BY <2>3 DEF AskRecord
  <2>6. checked[s] \in Nat /\ checked[s] < v + 1
    BY <1>5, <1>6 DEF LookInductive, VerdictsFine
  <2>7. CopyFine(y)'
    <3>1. CASE x.step \in {"read", "after"}
      <4>1. x.seen <= v
        BY <1>4, <1>10, <3>1 DEF AskFine, CopyFine
      <4>2. x.seen <= v + 1 /\ version'[s] = v + 1
        BY <1>5, <1>7, <1>9, <4>1
      <4>3. checked'[s] # v + 1
        BY <1>1, <1>5, <2>6
      <4>4. ShardOf[y.room] = s
        BY <1>3, <1>10, <2>5
      <4>5. y.seen <= y.copy.version
        BY <2>2, <2>5, <4>2
      <4>6. y.copy.version = version'[s] /\ y.copy.plain = plain'[s]
        BY <1>7, <2>2, <2>5
      <4>7. version'[s] <= version'[s]
        BY <1>5, <1>7
      <4>8. checked'[s] # y.copy.version
        BY <2>2, <2>5, <4>3
      <4> QED
        BY <4>4, <4>5, <4>6, <4>7, <4>8 DEF CopyFine
    <3>2. CASE x.step \notin {"read", "after"}
      BY <2>5, <3>2 DEF CopyFine
    <3> QED
      BY <3>1, <3>2
  <2>8. RawFine(y)'
    BY <1>4, <1>9, <1>10, <2>2, <2>5 DEF AskFine, RawFine
  <2>9. HadFine(y)'
    BY <1>1, <1>4, <2>2, <2>5 DEF AskFine, HadFine
  <2> QED
    BY <1>1, <1>7, <1>8, <2>4, <2>7, <2>8, <2>9
    DEF LookInductive, LookTypes, AskFine, CopyFine, RawFine, HadFine
<1>11. CASE ~(s = t /\ x.copy.version = v)
  <2>1. ask' = x
    BY <1>2, <1>3, <1>5, <1>11 DEF HandEdit, ShardAsked
  <2>2. CopyFine(x)'
    <3>1. CASE s # t
      BY <1>1, <1>3, <1>4, <1>7, <3>1 DEF AskFine, CopyFine
    <3>2. CASE s = t
      <4>1. x.copy.version # v
        BY <1>11, <3>2
      <4>2. CASE x.step \in {"read", "after"}
        <5>1. x.copy.version <= v
          BY <1>3, <1>4, <1>5, <3>2, <4>2 DEF AskFine, CopyFine
        <5>2. x.copy.version < version'[s]
          BY <1>5, <1>7, <1>9, <5>1
        <5> QED
          BY <1>1, <1>3, <1>4, <1>5, <1>7, <1>9, <3>2, <5>1, <5>2 DEF AskFine, CopyFine
      <4> QED
        BY <4>2 DEF CopyFine
    <3> QED
      BY <3>1, <3>2
  <2>3. RawFine(x)' /\ HadFine(x)'
    BY <1>1, <1>4 DEF AskFine, RawFine, HadFine
  <2> QED
    BY <1>1, <1>7, <1>8, <2>1, <2>2, <2>3
    DEF LookInductive, LookTypes, AskFine, CopyFine, RawFine, HadFine
<1> QED
  BY <1>10, <1>11

LEMMA Look_Stutter ==
  ASSUME LookInductive, UNCHANGED lookupVars
  PROVE  LookInductive'
<1>1. UNCHANGED <<version, plain, checked, ask, edits>> /\ UNCHANGED vars
  BY DEF lookupVars, lookVars
<1>2. TypeOK' /\ legacy' = legacy
  BY <1>1, Look_Still
<1> QED
  BY <1>1, <1>2 DEF LookInductive, LookTypes, VerdictsFine, AskFine, CopyFine, RawFine, HadFine

\* A read of the sequence state takes no lock, and tells what the room had while
\* it went on, or that the room is new when the map went away under it; a verdict
\* that skips a parse is about the copy that is there.  Nothing is assumed of the
\* setters: reads of theirs may fail (`_seq_field`, `_SEQ_CHECKED`).
THEOREM ReadersAreToldTrue == LookupSpec => []LookupInv
<1>1. LookupInit => LookInductive
  BY Look_Init
<1>2. LookInductive /\ [LookupNext]_lookupVars => LookInductive'
  BY Look_Open, Look_Read, Look_After, Look_Map, Look_Done, Look_Store, Look_Edit, Look_Stutter
  DEF LookupNext, Asks
<1>3. LookInductive => LookupInv
  BY DEF LookInductive, AskFine, HadFine, VerdictsFine, LookupInv, ToldWasTrue, VerdictStands
<1> QED
  BY <1>1, <1>2, <1>3, PTL DEF LookupSpec

----------------------------------------------------------------------------
(* Layout.                                                                 *)

Resolving == {"probe", "legacy", "mkdir", "move", "again"}

ProcRecord ==
    [pc : {"idle", "probe", "legacy", "mkdir", "move", "again", "gate", "lock",
           "write", "read", "recheck", "unlink", "unlock"},
     then : {"idle", "gate", "write", "read", "unlink"},
     found : Places, path : Places, inode : 0..inodes,
     basis : SUBSET Record, reply : SUBSET Record]

\* Past a lock, up to its release.
Holding(x) ==
    \/ x.pc \in {"lock", "write", "recheck", "unlink", "unlock"}
    \/ x.pc \in Resolving /\ x.then \in {"write", "unlink"}

\* What each kind of process does.
RoleOf(p, x) ==
    /\ p \in Appenders => /\ x.pc \in Resolving \cup {"idle", "gate", "lock", "write", "unlock"}
                          /\ x.pc \in Resolving => x.then \in {"gate", "write"}
    /\ p \in Lookers => /\ x.pc \in Resolving \cup {"idle", "read"}
                        /\ x.pc \in Resolving => x.then = "read"
                        /\ x.inode = 0
    /\ p = Sweeper => /\ x.pc \in Resolving \cup {"idle", "recheck", "unlink", "unlock"}
                      /\ x.pc \in Resolving => x.then = "unlink"

\* A holder holds the lock file that is at its path.
LockOf(x) ==
    /\ Holding(x) => x.inode # 0
    /\ x.inode # 0 => writable /\ sidecar[x.path] = x.inode

\* Where a volume can be written, a resolver answers the bucket: the bucket is
\* there when it moves, and no flat file is made again.
WayOf(p, x) ==
    /\ writable => x.found = "bucket" /\ (p \in Appenders => x.path = "bucket")
    /\ x.pc = "move" => bucketDir
    /\ writable /\ x.pc = "again" => ~Exists("flat")
    /\ x.pc \in {"write", "read"} => x.found = Found

\* What the pass is about to delete is idle, or no longer there; and it is not
\* what a move may yet bring.
DoomOf(p, x) ==
    p = Sweeper /\ (x.pc \in Resolving \/ x.pc = "unlink") =>
        /\ Exists(x.path) => idle
        /\ x.path = "bucket" => ~Exists("flat")

BasisOf(p, x) ==
    p \in Lookers /\ unlinked = 0 =>
        IF x.pc = "idle" THEN x.basis \subseteq x.reply ELSE x.basis \subseteq acked

ProcFine(p, x) ==
    x \in ProcRecord /\ RoleOf(p, x) /\ LockOf(x) /\ WayOf(p, x) /\ DoomOf(p, x) /\ BasisOf(p, x)

ProcsFine == proc \in [Processes -> ProcRecord] /\ \A p \in Processes : ProcFine(p, proc[p])

LockAlone ==
    \A p, q \in Processes : proc[p].inode # 0 /\ proc[p].inode = proc[q].inode => p = q

\* What the room has is what its file has, wherever that is.
TreeFine ==
    /\ data \in [Places -> (SUBSET Record) \cup {Absent}]
    /\ bucketDir \in BOOLEAN /\ writable \in BOOLEAN /\ idle \in BOOLEAN
    /\ acked \in SUBSET Record
    /\ reaped \in Nat /\ unlinked \in 0..reaped
    /\ data["bucket"] # Absent \/ sidecar["bucket"] # 0 => bucketDir
    /\ NoFork
    /\ ~Exists("flat") /\ ~Exists("bucket") => acked = {}

LocksFine == inodes \in Nat /\ sidecar \in [Places -> 0..inodes]

LayoutInductive == TreeFine /\ LocksFine /\ ProcsFine /\ LockAlone


LEMMA Lay_Places ==
  /\ "flat" \in Places /\ "bucket" \in Places /\ "flat" # "bucket"
  /\ Places = {"flat", "bucket"}
BY DEF Places

LEMMA Lay_Init == LayoutInit => LayoutInductive
<1> SUFFICES ASSUME LayoutInit PROVE LayoutInductive
  OBVIOUS
<1> USE LayoutAssumption, Lay_Places
<1>1. PICK x : x = Idler
  OBVIOUS
<1>2. proc \in [Processes -> {x}] /\ \A p \in Processes : proc[p] = x
  BY <1>1 DEF LayoutInit
<1>3. x.pc = "idle" /\ x.found = "bucket" /\ x.path = "bucket" /\ x.inode = 0 /\ x.basis = {} /\ x.reply = {}
  BY <1>1 DEF Idler
<1>4. LocksFine
  BY DEF LayoutInit, LocksFine
<1>5. x \in ProcRecord
  BY <1>1, <1>4 DEF Idler, ProcRecord, LocksFine
<1>6. ProcsFine
  <2>1. ASSUME NEW p \in Processes PROVE ProcFine(p, x)
    BY <1>3, <1>5 DEF ProcFine, RoleOf, LockOf, WayOf, DoomOf, BasisOf, Holding, Resolving, LayoutInit
  <2> QED
    BY <1>2, <1>5, <2>1 DEF ProcsFine
<1>7. LockAlone
  BY <1>2, <1>3 DEF LockAlone
<1>8. TreeFine
  <2>1. data \in [Places -> (SUBSET Record) \cup {Absent}] /\ acked \in SUBSET Record
    BY DEF LayoutInit, Record
  <2>2. NoFork /\ (~Exists("flat") /\ ~Exists("bucket") => acked = {})
    BY DEF LayoutInit, NoFork, Exists, Record
  <2> QED
    BY <2>1, <2>2 DEF LayoutInit, TreeFine, Exists
<1> QED
  BY <1>4, <1>6, <1>7, <1>8 DEF LayoutInductive

\* What a step that is not q's may do to the rest.
Meanwhile(q, x) ==
    /\ writable' = writable
    /\ inodes' >= inodes /\ \A place \in Places : sidecar[place] # 0 => sidecar'[place] = sidecar[place]
    /\ x.pc = "move" => bucketDir'
    /\ Exists("flat")' => Exists("flat")
    /\ ~writable => data' = data
    /\ (q = Sweeper /\ (x.pc \in Resolving \/ x.pc = "unlink") /\ Exists(x.path)') => idle'
    /\ unlinked' = 0 => unlinked = 0 /\ acked \subseteq acked'

LEMMA Lay_Other ==
  ASSUME LocksFine, LocksFine', TreeFine, NEW q \in Processes, NEW x, ProcFine(q, x), Meanwhile(q, x)
  PROVE  ProcFine(q, x)'
<1> USE Lay_Places
<1>0. inodes \in Nat /\ inodes' \in Nat /\ inodes' >= inodes
  BY DEF LocksFine, Meanwhile
<1>1. (x \in ProcRecord)'
  <2>1. x.inode \in 0..inodes'
    BY <1>0 DEF ProcFine, ProcRecord
  <2> QED
    BY <2>1 DEF ProcFine, ProcRecord
<1>2. RoleOf(q, x)'
  BY DEF ProcFine, RoleOf
<1>3. LockOf(x)'
  BY DEF ProcFine, LockOf, Meanwhile, Holding, ProcRecord
<1>4. WayOf(q, x)'
  <2>1. x.pc \in {"write", "read"} => x.found = Found'
    BY DEF ProcFine, WayOf, Meanwhile, Found, Exists, ProcRecord, TreeFine
  <2> QED
    BY <2>1 DEF ProcFine, WayOf, Meanwhile
<1>5. DoomOf(q, x)'
  BY DEF ProcFine, DoomOf, Meanwhile
<1>6. BasisOf(q, x)'
  BY DEF ProcFine, BasisOf, Meanwhile
<1> QED
  BY <1>1, <1>2, <1>3, <1>4, <1>5, <1>6 DEF ProcFine

\* A step of p, after which it is y.
LEMMA Lay_Step ==
  ASSUME LayoutInductive, NEW p \in Processes, NEW y, proc' = [proc EXCEPT ![p] = y],
         TreeFine', LocksFine', ProcFine(p, y)',
         \A q \in Processes \ {p} : \A z : z = proc[q] => Meanwhile(q, z),
         \A q \in Processes \ {p} : y.inode # 0 => y.inode # proc[q].inode
  PROVE  LayoutInductive'
<1>1. \A q \in Processes : proc'[q] = IF q = p THEN y ELSE proc[q]
  BY DEF LayoutInductive, ProcsFine
<1>2. \A q \in Processes : ProcFine(q, proc[q])'
  <2>1. TAKE q \in Processes
  <2>2. CASE q = p
    <3>1. proc'[q] = y
      BY <1>1, <2>2
    <3> QED
      BY <2>2, <3>1 DEF ProcFine, RoleOf, LockOf, WayOf, DoomOf, BasisOf, Holding, ProcRecord
  <2>3. CASE q # p
    <3>1. PICK x : x = proc[q]
      OBVIOUS
    <3>2. proc'[q] = x
      BY <1>1, <2>3, <3>1
    <3>3. ProcFine(q, x) /\ Meanwhile(q, x)
      BY <2>3, <3>1 DEF LayoutInductive, ProcsFine
    <3>4. ProcFine(q, x)'
      BY <3>3, Lay_Other DEF LayoutInductive
    <3> QED
      BY <3>2, <3>4 DEF ProcFine, RoleOf, LockOf, WayOf, DoomOf, BasisOf, Holding, ProcRecord
  <2> QED
    BY <2>2, <2>3
<1>3. ProcsFine'
  <2>1. \A q \in Processes : (proc[q] \in ProcRecord)'
    BY <1>2 DEF ProcFine
  <2>2. DOMAIN proc' = Processes /\ proc' = [q \in Processes |-> proc'[q]]
    BY DEF LayoutInductive, ProcsFine
  <2>3. (proc \in [Processes -> ProcRecord])'
    BY <2>1, <2>2 DEF Processes
  <2> QED
    BY <1>2, <2>3 DEF ProcsFine
<1>4. LockAlone'
  BY <1>1 DEF LockAlone, LayoutInductive
<1> QED
  BY <1>3, <1>4 DEF LayoutInductive

LEMMA Lay_Record ==
  ASSUME LayoutInductive, NEW p \in Processes
  PROVE  ProcFine(p, proc[p]) /\ proc[p] \in ProcRecord
BY DEF LayoutInductive, ProcsFine, ProcFine

\* A step that changes nothing but p's own place.
LEMMA Lay_Quiet ==
  ASSUME LayoutInductive, NEW p \in Processes, NEW y, proc' = [proc EXCEPT ![p] = y],
         UNCHANGED <<tree, locks, history>>,
         ProcFine(p, y), y.inode \in {0, proc[p].inode}
  PROVE  LayoutInductive'
<1> USE DEF tree, locks, history
<1>1. TreeFine' /\ LocksFine'
  BY DEF LayoutInductive, TreeFine, LocksFine, NoFork, Exists
<1>2. ProcFine(p, y)'
  BY DEF ProcFine, RoleOf, LockOf, WayOf, DoomOf, BasisOf, Holding, ProcRecord, Exists, Found
<1>3. ASSUME NEW q \in Processes \ {p}, NEW z, z = proc[q] PROVE Meanwhile(q, z)
  <2>1. ProcFine(q, z)
    BY <1>3, Lay_Record
  <2>2. inodes' >= inodes
    BY DEF LayoutInductive, LocksFine
  <2> QED
    BY <2>1, <2>2 DEF Meanwhile, ProcFine, WayOf, DoomOf, Exists
<1>4. \A q \in Processes \ {p} : y.inode # 0 => y.inode # proc[q].inode
  BY DEF LayoutInductive, LockAlone
<1> QED
  BY <1>1, <1>2, <1>3, <1>4, Lay_Step
LEMMA Lay_Types ==
  ASSUME LayoutInductive
  PROVE  /\ inodes \in Nat /\ 0 \in 0..inodes
         /\ acked \in SUBSET Record /\ {} \in SUBSET Record
         /\ \A place \in Places : data[place] # Absent => data[place] \in SUBSET Record
         /\ Places \cap {"flat", "bucket"} = Places
<1>1. inodes \in Nat
  BY DEF LayoutInductive, LocksFine
<1> QED
  BY <1>1 DEF LayoutInductive, TreeFine, Places

LEMMA Lay_ProbeBucket ==
  ASSUME LayoutInductive, NEW p \in Processes, ProbeBucket(p)
  PROVE  LayoutInductive'
<1> USE Lay_Places
<1>1. PICK x : x = proc[p]
  OBVIOUS
<1>2. ProcFine(p, x) /\ x \in ProcRecord
  BY <1>1, Lay_Record
<1>3. ASSUME Exists("bucket") PROVE LayoutInductive'
  <2>1. PICK y : y = [x EXCEPT !.found = "bucket", !.pc = x.then]
    OBVIOUS
  <2>2. proc' = [proc EXCEPT ![p] = y]
    BY <1>1, <1>3, <2>1 DEF ProbeBucket, Resolved, LayoutGoto, Exists
  <2>3. y \in ProcRecord /\ y.inode \in {0, x.inode}
    BY <1>1, <1>2, <1>3, <2>1 DEF ProbeBucket, ProcRecord, Resolved, LayoutGoto, Exists
  <2>4. RoleOf(p, y) /\ LockOf(y)
    BY <1>1, <1>2, <1>3, <2>1, LayoutAssumption DEF ProbeBucket, ProcFine, ProcRecord, RoleOf, LockOf, Holding, Resolving, Resolved, LayoutGoto, Exists
  <2>5. WayOf(p, y)
    BY <1>1, <1>2, <1>3, <2>1 DEF ProbeBucket, ProcFine, ProcRecord, WayOf, RoleOf, Found, Resolving, LayoutInductive, TreeFine, NoFork, Resolved, LayoutGoto, Exists
  <2>6. DoomOf(p, y)
    BY <1>1, <1>2, <1>3, <2>1, LayoutAssumption DEF ProbeBucket, ProcFine, ProcRecord, DoomOf, RoleOf, Resolving, LayoutInductive, TreeFine, NoFork, Resolved, LayoutGoto, Exists
  <2>7. BasisOf(p, y)
    BY <1>1, <1>2, <1>3, <2>1, LayoutAssumption DEF ProbeBucket, ProcFine, ProcRecord, BasisOf, RoleOf, WayOf, Resolving, Found, LayoutInductive, TreeFine, NoFork, Resolved, LayoutGoto, Exists
  <2> QED
    BY <1>1, <2>2, <2>3, <2>4, <2>5, <2>6, <2>7, Lay_Quiet DEF ProbeBucket, ProcFine
<1>4. ASSUME ~Exists("bucket") PROVE LayoutInductive'
  <2>1. PICK y : y = [x EXCEPT !.pc = "legacy"]
    OBVIOUS
  <2>2. proc' = [proc EXCEPT ![p] = y]
    BY <1>1, <1>4, <2>1 DEF ProbeBucket, Resolved, LayoutGoto, Exists
  <2>3. y \in ProcRecord /\ y.inode \in {0, x.inode}
    BY <1>1, <1>2, <1>4, <2>1 DEF ProbeBucket, ProcRecord, Resolved, LayoutGoto, Exists
  <2>4. RoleOf(p, y) /\ LockOf(y)
    BY <1>1, <1>2, <1>4, <2>1, LayoutAssumption DEF ProbeBucket, ProcFine, ProcRecord, RoleOf, LockOf, Holding, Resolving, Resolved, LayoutGoto, Exists
  <2>5. WayOf(p, y)
    BY <1>1, <1>2, <1>4, <2>1 DEF ProbeBucket, ProcFine, ProcRecord, WayOf, RoleOf, Found, Resolving, LayoutInductive, TreeFine, NoFork, Resolved, LayoutGoto, Exists
  <2>6. DoomOf(p, y)
    BY <1>1, <1>2, <1>4, <2>1, LayoutAssumption DEF ProbeBucket, ProcFine, ProcRecord, DoomOf, RoleOf, Resolving, LayoutInductive, TreeFine, NoFork, Resolved, LayoutGoto, Exists
  <2>7. BasisOf(p, y)
    BY <1>1, <1>2, <1>4, <2>1, LayoutAssumption DEF ProbeBucket, ProcFine, ProcRecord, BasisOf, RoleOf, WayOf, Resolving, Found, LayoutInductive, TreeFine, NoFork, Resolved, LayoutGoto, Exists
  <2> QED
    BY <1>1, <2>2, <2>3, <2>4, <2>5, <2>6, <2>7, Lay_Quiet DEF ProbeBucket, ProcFine
<1> QED
  BY <1>1, <1>3, <1>4 DEF ProbeBucket, Exists

LEMMA Lay_ProbeLegacy ==
  ASSUME LayoutInductive, NEW p \in Processes, ProbeLegacy(p)
  PROVE  LayoutInductive'
<1> USE Lay_Places
<1>1. PICK x : x = proc[p]
  OBVIOUS
<1>2. ProcFine(p, x) /\ x \in ProcRecord
  BY <1>1, Lay_Record
<1>3. ASSUME Exists("flat") PROVE LayoutInductive'
  <2>1. PICK y : y = [x EXCEPT !.pc = "mkdir"]
    OBVIOUS
  <2>2. proc' = [proc EXCEPT ![p] = y]
    BY <1>1, <1>3, <2>1 DEF ProbeLegacy, Resolved, LayoutGoto, Exists
  <2>3. y \in ProcRecord /\ y.inode \in {0, x.inode}
    BY <1>1, <1>2, <1>3, <2>1 DEF ProbeLegacy, ProcRecord, Resolved, LayoutGoto, Exists
  <2>4. RoleOf(p, y) /\ LockOf(y)
    BY <1>1, <1>2, <1>3, <2>1, LayoutAssumption DEF ProbeLegacy, ProcFine, ProcRecord, RoleOf, LockOf, Holding, Resolving, Resolved, LayoutGoto, Exists
  <2>5. WayOf(p, y)
    BY <1>1, <1>2, <1>3, <2>1 DEF ProbeLegacy, ProcFine, ProcRecord, WayOf, RoleOf, Found, Resolving, LayoutInductive, TreeFine, NoFork, Resolved, LayoutGoto, Exists
  <2>6. DoomOf(p, y)
    BY <1>1, <1>2, <1>3, <2>1, LayoutAssumption DEF ProbeLegacy, ProcFine, ProcRecord, DoomOf, RoleOf, Resolving, LayoutInductive, TreeFine, NoFork, Resolved, LayoutGoto, Exists
  <2>7. BasisOf(p, y)
    BY <1>1, <1>2, <1>3, <2>1, LayoutAssumption DEF ProbeLegacy, ProcFine, ProcRecord, BasisOf, RoleOf, WayOf, Resolving, Found, LayoutInductive, TreeFine, NoFork, Resolved, LayoutGoto, Exists
  <2> QED
    BY <1>1, <2>2, <2>3, <2>4, <2>5, <2>6, <2>7, Lay_Quiet DEF ProbeLegacy, ProcFine
<1>4. ASSUME ~Exists("flat") PROVE LayoutInductive'
  <2>1. PICK y : y = [x EXCEPT !.found = "bucket", !.pc = x.then]
    OBVIOUS
  <2>2. proc' = [proc EXCEPT ![p] = y]
    BY <1>1, <1>4, <2>1 DEF ProbeLegacy, Resolved, LayoutGoto, Exists
  <2>3. y \in ProcRecord /\ y.inode \in {0, x.inode}
    BY <1>1, <1>2, <1>4, <2>1 DEF ProbeLegacy, ProcRecord, Resolved, LayoutGoto, Exists
  <2>4. RoleOf(p, y) /\ LockOf(y)
    BY <1>1, <1>2, <1>4, <2>1, LayoutAssumption DEF ProbeLegacy, ProcFine, ProcRecord, RoleOf, LockOf, Holding, Resolving, Resolved, LayoutGoto, Exists
  <2>5. WayOf(p, y)
    BY <1>1, <1>2, <1>4, <2>1 DEF ProbeLegacy, ProcFine, ProcRecord, WayOf, RoleOf, Found, Resolving, LayoutInductive, TreeFine, NoFork, Resolved, LayoutGoto, Exists
  <2>6. DoomOf(p, y)
    BY <1>1, <1>2, <1>4, <2>1, LayoutAssumption DEF ProbeLegacy, ProcFine, ProcRecord, DoomOf, RoleOf, Resolving, LayoutInductive, TreeFine, NoFork, Resolved, LayoutGoto, Exists
  <2>7. BasisOf(p, y)
    BY <1>1, <1>2, <1>4, <2>1, LayoutAssumption DEF ProbeLegacy, ProcFine, ProcRecord, BasisOf, RoleOf, WayOf, Resolving, Found, LayoutInductive, TreeFine, NoFork, Resolved, LayoutGoto, Exists
  <2> QED
    BY <1>1, <2>2, <2>3, <2>4, <2>5, <2>6, <2>7, Lay_Quiet DEF ProbeLegacy, ProcFine
<1> QED
  BY <1>1, <1>3, <1>4 DEF ProbeLegacy, Exists

LEMMA Lay_ProbeAgain ==
  ASSUME LayoutInductive, NEW p \in Processes, ProbeAgain(p)
  PROVE  LayoutInductive'
<1> USE Lay_Places
<1>1. PICK x : x = proc[p]
  OBVIOUS
<1>2. ProcFine(p, x) /\ x \in ProcRecord
  BY <1>1, Lay_Record
<1>3. ASSUME TRUE PROVE LayoutInductive'
  <2>1. PICK y : y = [x EXCEPT !.found = Found, !.pc = x.then]
    OBVIOUS
  <2>2. proc' = [proc EXCEPT ![p] = y]
    BY <1>1, <1>3, <2>1 DEF ProbeAgain, Resolved, SidecarAfter, Exists, locks
  <2>3. y \in ProcRecord /\ y.inode \in {0, x.inode}
    BY <1>1, <1>2, <1>3, <2>1 DEF ProbeAgain, ProcRecord, Resolved, SidecarAfter, Exists, locks, Found
  <2>4. RoleOf(p, y) /\ LockOf(y)
    BY <1>1, <1>2, <1>3, <2>1, LayoutAssumption DEF ProbeAgain, ProcFine, ProcRecord, RoleOf, LockOf, Holding, Resolving, Resolved, SidecarAfter, Exists, locks
  <2>5. WayOf(p, y)
    BY <1>1, <1>2, <1>3, <2>1 DEF ProbeAgain, ProcFine, ProcRecord, WayOf, RoleOf, Found, Resolving, LayoutInductive, TreeFine, NoFork, Resolved, SidecarAfter, Exists, locks
  <2>6. DoomOf(p, y)
    BY <1>1, <1>2, <1>3, <2>1, LayoutAssumption DEF ProbeAgain, ProcFine, ProcRecord, DoomOf, RoleOf, Resolving, LayoutInductive, TreeFine, NoFork, Resolved, SidecarAfter, Exists, locks
  <2>7. BasisOf(p, y)
    BY <1>1, <1>2, <1>3, <2>1, LayoutAssumption DEF ProbeAgain, ProcFine, ProcRecord, BasisOf, RoleOf, WayOf, Resolving, Found, LayoutInductive, TreeFine, NoFork, Resolved, SidecarAfter, Exists, locks
  <2> QED
    BY <1>1, <2>2, <2>3, <2>4, <2>5, <2>6, <2>7, Lay_Quiet DEF ProbeAgain, ProcFine, SidecarAfter, locks
<1> QED
  BY <1>3

LEMMA Lay_StartAppend ==
  ASSUME LayoutInductive, NEW p \in Processes, StartAppend(p)
  PROVE  LayoutInductive'
<1> USE Lay_Places
<1>1. PICK x : x = proc[p]
  OBVIOUS
<1>2. ProcFine(p, x) /\ x \in ProcRecord
  BY <1>1, Lay_Record
<1>3. ASSUME TRUE PROVE LayoutInductive'
  <2>1. PICK y : y = [x EXCEPT !.pc = "probe", !.then = "gate"]
    OBVIOUS
  <2>2. proc' = [proc EXCEPT ![p] = y]
    BY <1>1, <1>3, <2>1 DEF StartAppend, Resolve, Exists
  <2>3. y \in ProcRecord /\ y.inode \in {0, x.inode}
    BY <1>1, <1>2, <1>3, <2>1 DEF StartAppend, ProcRecord, Resolve, Exists
  <2>4. RoleOf(p, y) /\ LockOf(y)
    BY <1>1, <1>2, <1>3, <2>1, LayoutAssumption DEF StartAppend, ProcFine, ProcRecord, RoleOf, LockOf, Holding, Resolving, Resolve, Exists
  <2>5. WayOf(p, y)
    BY <1>1, <1>2, <1>3, <2>1 DEF StartAppend, ProcFine, ProcRecord, WayOf, RoleOf, Found, Resolving, LayoutInductive, TreeFine, NoFork, Resolve, Exists
  <2>6. DoomOf(p, y)
    BY <1>1, <1>2, <1>3, <2>1, LayoutAssumption DEF StartAppend, ProcFine, ProcRecord, DoomOf, RoleOf, Resolving, LayoutInductive, TreeFine, NoFork, Resolve, Exists
  <2>7. BasisOf(p, y)
    BY <1>1, <1>2, <1>3, <2>1, LayoutAssumption DEF StartAppend, ProcFine, ProcRecord, BasisOf, RoleOf, WayOf, Resolving, Found, LayoutInductive, TreeFine, NoFork, Resolve, Exists
  <2> QED
    BY <1>1, <2>2, <2>3, <2>4, <2>5, <2>6, <2>7, Lay_Quiet DEF StartAppend, ProcFine
<1> QED
  BY <1>3

LEMMA Lay_LockFails ==
  ASSUME LayoutInductive, NEW p \in Processes, LockFails(p)
  PROVE  LayoutInductive'
<1> USE Lay_Places
<1>1. PICK x : x = proc[p]
  OBVIOUS
<1>2. ProcFine(p, x) /\ x \in ProcRecord
  BY <1>1, Lay_Record
<1>3. ASSUME TRUE PROVE LayoutInductive'
  <2>1. PICK y : y = Idler
    OBVIOUS
  <2>2. proc' = [proc EXCEPT ![p] = y]
    BY <1>1, <1>3, <2>1 DEF LockFails, Idler, Exists
  <2>3. y \in ProcRecord /\ y.inode \in {0, x.inode}
    BY <1>1, <1>2, <1>3, <2>1, Lay_Types DEF LockFails, ProcRecord, Idler, Exists
  <2>4. RoleOf(p, y) /\ LockOf(y)
    BY <1>1, <1>2, <1>3, <2>1, LayoutAssumption DEF LockFails, ProcFine, ProcRecord, RoleOf, LockOf, Holding, Resolving, Idler, Exists
  <2>5. WayOf(p, y)
    BY <1>1, <1>2, <1>3, <2>1 DEF LockFails, ProcFine, ProcRecord, WayOf, RoleOf, Found, Resolving, LayoutInductive, TreeFine, NoFork, Idler, Exists
  <2>6. DoomOf(p, y)
    BY <1>1, <1>2, <1>3, <2>1, LayoutAssumption DEF LockFails, ProcFine, ProcRecord, DoomOf, RoleOf, Resolving, LayoutInductive, TreeFine, NoFork, Idler, Exists
  <2>7. BasisOf(p, y)
    BY <1>1, <1>2, <1>3, <2>1, LayoutAssumption DEF LockFails, ProcFine, ProcRecord, BasisOf, RoleOf, WayOf, Resolving, Found, LayoutInductive, TreeFine, NoFork, Idler, Exists
  <2> QED
    BY <1>1, <2>2, <2>3, <2>4, <2>5, <2>6, <2>7, Lay_Quiet DEF LockFails, ProcFine
<1> QED
  BY <1>3

LEMMA Lay_SeqUnderLock ==
  ASSUME LayoutInductive, NEW p \in Processes, SeqUnderLock(p)
  PROVE  LayoutInductive'
<1> USE Lay_Places
<1>1. PICK x : x = proc[p]
  OBVIOUS
<1>2. ProcFine(p, x) /\ x \in ProcRecord
  BY <1>1, Lay_Record
<1>3. ASSUME TRUE PROVE LayoutInductive'
  <2>1. PICK y : y = [x EXCEPT !.pc = "probe", !.then = "write"]
    OBVIOUS
  <2>2. proc' = [proc EXCEPT ![p] = y]
    BY <1>1, <1>3, <2>1 DEF SeqUnderLock, Resolve, Exists
  <2>3. y \in ProcRecord /\ y.inode \in {0, x.inode}
    BY <1>1, <1>2, <1>3, <2>1 DEF SeqUnderLock, ProcRecord, Resolve, Exists
  <2>4. RoleOf(p, y) /\ LockOf(y)
    BY <1>1, <1>2, <1>3, <2>1, LayoutAssumption DEF SeqUnderLock, ProcFine, ProcRecord, RoleOf, LockOf, Holding, Resolving, Resolve, Exists
  <2>5. WayOf(p, y)
    BY <1>1, <1>2, <1>3, <2>1 DEF SeqUnderLock, ProcFine, ProcRecord, WayOf, RoleOf, Found, Resolving, LayoutInductive, TreeFine, NoFork, Resolve, Exists
  <2>6. DoomOf(p, y)
    BY <1>1, <1>2, <1>3, <2>1, LayoutAssumption DEF SeqUnderLock, ProcFine, ProcRecord, DoomOf, RoleOf, Resolving, LayoutInductive, TreeFine, NoFork, Resolve, Exists
  <2>7. BasisOf(p, y)
    BY <1>1, <1>2, <1>3, <2>1, LayoutAssumption DEF SeqUnderLock, ProcFine, ProcRecord, BasisOf, RoleOf, WayOf, Resolving, Found, LayoutInductive, TreeFine, NoFork, Resolve, Exists
  <2> QED
    BY <1>1, <2>2, <2>3, <2>4, <2>5, <2>6, <2>7, Lay_Quiet DEF SeqUnderLock, ProcFine
<1> QED
  BY <1>3

LEMMA Lay_Unlock ==
  ASSUME LayoutInductive, NEW p \in Processes, Unlock(p)
  PROVE  LayoutInductive'
<1> USE Lay_Places
<1>1. PICK x : x = proc[p]
  OBVIOUS
<1>2. ProcFine(p, x) /\ x \in ProcRecord
  BY <1>1, Lay_Record
<1>3. ASSUME TRUE PROVE LayoutInductive'
  <2>1. PICK y : y = Idler
    OBVIOUS
  <2>2. proc' = [proc EXCEPT ![p] = y]
    BY <1>1, <1>3, <2>1 DEF Unlock, Idler, Exists
  <2>3. y \in ProcRecord /\ y.inode \in {0, x.inode}
    BY <1>1, <1>2, <1>3, <2>1, Lay_Types DEF Unlock, ProcRecord, Idler, Exists
  <2>4. RoleOf(p, y) /\ LockOf(y)
    BY <1>1, <1>2, <1>3, <2>1, LayoutAssumption DEF Unlock, ProcFine, ProcRecord, RoleOf, LockOf, Holding, Resolving, Idler, Exists
  <2>5. WayOf(p, y)
    BY <1>1, <1>2, <1>3, <2>1 DEF Unlock, ProcFine, ProcRecord, WayOf, RoleOf, Found, Resolving, LayoutInductive, TreeFine, NoFork, Idler, Exists
  <2>6. DoomOf(p, y)
    BY <1>1, <1>2, <1>3, <2>1, LayoutAssumption DEF Unlock, ProcFine, ProcRecord, DoomOf, RoleOf, Resolving, LayoutInductive, TreeFine, NoFork, Idler, Exists
  <2>7. BasisOf(p, y)
    BY <1>1, <1>2, <1>3, <2>1, LayoutAssumption DEF Unlock, ProcFine, ProcRecord, BasisOf, RoleOf, WayOf, Resolving, Found, LayoutInductive, TreeFine, NoFork, Idler, Exists
  <2> QED
    BY <1>1, <2>2, <2>3, <2>4, <2>5, <2>6, <2>7, Lay_Quiet DEF Unlock, ProcFine
<1> QED
  BY <1>3

LEMMA Lay_StartRead ==
  ASSUME LayoutInductive, NEW p \in Processes, StartRead(p)
  PROVE  LayoutInductive'
<1> USE Lay_Places
<1>1. PICK x : x = proc[p]
  OBVIOUS
<1>2. ProcFine(p, x) /\ x \in ProcRecord
  BY <1>1, Lay_Record
<1>3. ASSUME TRUE PROVE LayoutInductive'
  <2>1. PICK y : y = [x EXCEPT !.pc = "probe", !.then = "read", !.basis = acked, !.reply = {}]
    OBVIOUS
  <2>2. proc' = [proc EXCEPT ![p] = y]
    BY <1>1, <1>3, <2>1 DEF StartRead, Resolve, Exists
  <2>3. y \in ProcRecord /\ y.inode \in {0, x.inode}
    BY <1>1, <1>2, <1>3, <2>1, Lay_Types DEF StartRead, ProcRecord, Resolve, Exists
  <2>4. RoleOf(p, y) /\ LockOf(y)
    BY <1>1, <1>2, <1>3, <2>1, LayoutAssumption DEF StartRead, ProcFine, ProcRecord, RoleOf, LockOf, Holding, Resolving, Resolve, Exists
  <2>5. WayOf(p, y)
    BY <1>1, <1>2, <1>3, <2>1 DEF StartRead, ProcFine, ProcRecord, WayOf, RoleOf, Found, Resolving, LayoutInductive, TreeFine, NoFork, Resolve, Exists
  <2>6. DoomOf(p, y)
    BY <1>1, <1>2, <1>3, <2>1, LayoutAssumption DEF StartRead, ProcFine, ProcRecord, DoomOf, RoleOf, Resolving, LayoutInductive, TreeFine, NoFork, Resolve, Exists
  <2>7. BasisOf(p, y)
    BY <1>1, <1>2, <1>3, <2>1, LayoutAssumption DEF StartRead, ProcFine, ProcRecord, BasisOf, RoleOf, WayOf, Resolving, Found, LayoutInductive, TreeFine, NoFork, Resolve, Exists
  <2> QED
    BY <1>1, <2>2, <2>3, <2>4, <2>5, <2>6, <2>7, Lay_Quiet DEF StartRead, ProcFine
<1> QED
  BY <1>3

LEMMA Lay_ReadFile ==
  ASSUME LayoutInductive, NEW p \in Processes, ReadFile(p)
  PROVE  LayoutInductive'
<1> USE Lay_Places
<1>1. PICK x : x = proc[p]
  OBVIOUS
<1>2. ProcFine(p, x) /\ x \in ProcRecord
  BY <1>1, Lay_Record
<1>3. ASSUME TRUE PROVE LayoutInductive'
  <2>1. PICK y : y = [x EXCEPT !.reply = Contents(x.found), !.pc = "idle"]
    OBVIOUS
  <2>2. proc' = [proc EXCEPT ![p] = y]
    BY <1>1, <1>3, <2>1 DEF ReadFile, Contents, Exists
  <2>3. y \in ProcRecord /\ y.inode \in {0, x.inode}
    BY <1>1, <1>2, <1>3, <2>1, Lay_Types DEF ReadFile, ProcRecord, Contents, Exists
  <2>4. RoleOf(p, y) /\ LockOf(y)
    BY <1>1, <1>2, <1>3, <2>1, LayoutAssumption DEF ReadFile, ProcFine, ProcRecord, RoleOf, LockOf, Holding, Resolving, Contents, Exists
  <2>5. WayOf(p, y)
    BY <1>1, <1>2, <1>3, <2>1 DEF ReadFile, ProcFine, ProcRecord, WayOf, RoleOf, Found, Resolving, LayoutInductive, TreeFine, NoFork, Contents, Exists
  <2>6. DoomOf(p, y)
    BY <1>1, <1>2, <1>3, <2>1, LayoutAssumption DEF ReadFile, ProcFine, ProcRecord, DoomOf, RoleOf, Resolving, LayoutInductive, TreeFine, NoFork, Contents, Exists
  <2>7. BasisOf(p, y)
    BY <1>1, <1>2, <1>3, <2>1, LayoutAssumption DEF ReadFile, ProcFine, ProcRecord, BasisOf, RoleOf, WayOf, Resolving, Found, LayoutInductive, TreeFine, NoFork, Contents, Exists
  <2> QED
    BY <1>1, <2>2, <2>3, <2>4, <2>5, <2>6, <2>7, Lay_Quiet DEF ReadFile, ProcFine
<1> QED
  BY <1>3
LEMMA Lay_Recheck ==
  ASSUME LayoutInductive, Recheck
  PROVE  LayoutInductive'
<1> USE Lay_Places
<1>0. Sweeper \in Processes
  BY DEF Processes
<1>1. PICK x : x = proc[Sweeper]
  OBVIOUS
<1>2. ProcFine(Sweeper, x) /\ x \in ProcRecord /\ x.pc = "recheck"
  BY <1>0, <1>1, Lay_Record DEF Recheck
<1>3. PICK y : y = IF Exists(x.path) /\ idle THEN [x EXCEPT !.pc = "probe", !.then = "unlink"]
                                             ELSE [x EXCEPT !.pc = "unlock"]
  OBVIOUS
<1>4. proc' = [proc EXCEPT ![Sweeper] = y]
  BY <1>1, <1>3 DEF Recheck, Resolve
<1>5. y \in ProcRecord /\ y.inode = x.inode /\ y.path = x.path /\ y.found = x.found
  BY <1>2, <1>3 DEF ProcRecord
<1>6. CASE Exists(x.path) /\ idle
  <2>1. y.pc = "probe" /\ y.then = "unlink"
    BY <1>2, <1>3, <1>6 DEF ProcRecord
  <2>2. RoleOf(Sweeper, y) /\ LockOf(y)
    BY <1>2, <1>5, <2>1, LayoutAssumption DEF ProcFine, RoleOf, LockOf, Holding, Resolving
  <2>3. WayOf(Sweeper, y) /\ BasisOf(Sweeper, y)
    BY <1>2, <1>5, <2>1, LayoutAssumption DEF ProcFine, WayOf, BasisOf
  <2>4. DoomOf(Sweeper, y)
    BY <1>5, <1>6, <2>1 DEF DoomOf, LayoutInductive, TreeFine, NoFork
  <2> QED
    BY <1>0, <1>1, <1>4, <1>5, <2>2, <2>3, <2>4, Lay_Quiet DEF Recheck, ProcFine
<1>7. CASE ~(Exists(x.path) /\ idle)
  <2>1. y.pc = "unlock"
    BY <1>2, <1>3, <1>7 DEF ProcRecord
  <2>2. RoleOf(Sweeper, y) /\ LockOf(y)
    BY <1>2, <1>5, <2>1, LayoutAssumption DEF ProcFine, RoleOf, LockOf, Holding, Resolving
  <2>3. WayOf(Sweeper, y) /\ BasisOf(Sweeper, y) /\ DoomOf(Sweeper, y)
    BY <1>2, <1>5, <2>1, LayoutAssumption DEF ProcFine, WayOf, BasisOf, DoomOf, Resolving
  <2> QED
    BY <1>0, <1>1, <1>4, <1>5, <2>2, <2>3, Lay_Quiet DEF Recheck, ProcFine
<1> QED
  BY <1>6, <1>7

LEMMA Lay_MakeBucket ==
  ASSUME LayoutInductive, NEW p \in Processes, MakeBucket(p)
  PROVE  LayoutInductive'
<1> USE Lay_Places
<1>1. PICK x : x = proc[p]
  OBVIOUS
<1>2. ProcFine(p, x) /\ x \in ProcRecord /\ x.pc = "mkdir"
  BY <1>1, Lay_Record DEF MakeBucket
<1>3. bucketDir' \in BOOLEAN /\ (bucketDir => bucketDir') /\ (writable => bucketDir')
      /\ UNCHANGED <<data, writable, idle, sidecar, inodes, acked, reaped, unlinked>>
  BY DEF MakeBucket, locks, history, LayoutInductive, TreeFine
<1>4. PICK y : y = [x EXCEPT !.pc = IF bucketDir' THEN "move" ELSE "again"]
  OBVIOUS
<1>5. proc' = [proc EXCEPT ![p] = y]
  BY <1>1, <1>4 DEF MakeBucket, LayoutGoto
<1>6. y \in ProcRecord /\ y.inode = x.inode /\ y.path = x.path /\ y.found = x.found /\ y.then = x.then
      /\ y.basis = x.basis /\ (bucketDir' => y.pc = "move") /\ (~bucketDir' => y.pc = "again")
  BY <1>2, <1>4 DEF ProcRecord
<1>7. y.pc \in {"move", "again"}
  BY <1>6
<1>8. TreeFine' /\ LocksFine'
  BY <1>3 DEF LayoutInductive, TreeFine, LocksFine, NoFork, Exists
<1>9. ProcFine(p, y)'
  <2>1. (y \in ProcRecord)' /\ RoleOf(p, y)'
    BY <1>2, <1>3, <1>6, <1>7 DEF ProcFine, RoleOf, ProcRecord, Resolving
  <2>2. LockOf(y)'
    BY <1>2, <1>3, <1>6, <1>7 DEF ProcFine, LockOf, Holding, Resolving
  <2>3. WayOf(p, y)'
    BY <1>2, <1>3, <1>6, <1>7 DEF ProcFine, WayOf, Exists
  <2>4. DoomOf(p, y)' /\ BasisOf(p, y)'
    BY <1>2, <1>3, <1>6, <1>7 DEF ProcFine, DoomOf, BasisOf, Exists, Resolving
  <2> QED
    BY <2>1, <2>2, <2>3, <2>4 DEF ProcFine
<1>10. ASSUME NEW q \in Processes \ {p}, NEW z, z = proc[q] PROVE Meanwhile(q, z)
  <2>1. ProcFine(q, z)
    BY <1>10, Lay_Record
  <2>2. inodes' >= inodes
    BY <1>3 DEF LayoutInductive, LocksFine
  <2> QED
    BY <1>3, <2>1, <2>2 DEF Meanwhile, ProcFine, WayOf, DoomOf, Exists
<1>11. \A q \in Processes \ {p} : y.inode # 0 => y.inode # proc[q].inode
  BY <1>1, <1>6 DEF LayoutInductive, LockAlone
<1> QED
  BY <1>5, <1>8, <1>9, <1>10, <1>11, Lay_Step

LEMMA Lay_Move ==
  ASSUME LayoutInductive, NEW p \in Processes, Move(p)
  PROVE  LayoutInductive'
<1> USE Lay_Places
<1>1. PICK x : x = proc[p]
  OBVIOUS
<1>2. ProcFine(p, x) /\ x \in ProcRecord /\ x.pc = "move" /\ bucketDir
  BY <1>1, Lay_Record DEF Move, ProcFine, WayOf
<1>3. UNCHANGED <<bucketDir, writable, idle, sidecar, inodes, acked, reaped, unlinked>>
  BY DEF Move, locks, history
<1>4. PICK y : y = [x EXCEPT !.pc = "again"]
  OBVIOUS
<1>5. proc' = [proc EXCEPT ![p] = y]
  BY <1>1, <1>4 DEF Move, LayoutGoto
<1>6. y \in ProcRecord /\ y.inode = x.inode /\ y.path = x.path /\ y.found = x.found /\ y.then = x.then
      /\ y.basis = x.basis /\ y.pc = "again"
  BY <1>2, <1>4 DEF ProcRecord
<1>7. /\ writable => ~Exists("flat")'
      /\ ~writable => data' = data
      /\ data' = data \/ (Exists("flat") /\ data'["flat"] = Absent /\ data'["bucket"] = data["flat"]
                          /\ data' \in [Places -> (SUBSET Record) \cup {Absent}])
  <2>1. CASE Exists("flat") /\ bucketDir /\ writable
    <3>1. data' = Renamed
      BY <2>1 DEF Move
    <3>2. data' = [place \in Places |-> IF place = "flat" THEN Absent ELSE data["flat"]]
      BY <3>1 DEF Renamed, Places
    <3>3. data["flat"] \in (SUBSET Record) \cup {Absent}
      BY DEF LayoutInductive, TreeFine
    <3> QED
      BY <2>1, <3>2, <3>3 DEF Exists
  <2>2. CASE ~(Exists("flat") /\ bucketDir /\ writable)
    BY <1>2, <2>2 DEF Move, Exists
  <2> QED
    BY <2>1, <2>2
<1>8. TreeFine' /\ LocksFine'
  <2>1. LocksFine'
    BY <1>3 DEF LayoutInductive, LocksFine
  <2>2. CASE data' = data
    BY <1>3, <2>1, <2>2 DEF LayoutInductive, TreeFine, NoFork, Exists
  <2>3. CASE data' # data
    BY <1>2, <1>3, <1>7, <2>1, <2>3 DEF LayoutInductive, TreeFine, NoFork, Exists, Places
  <2> QED
    BY <2>1, <2>2, <2>3
<1>9. ASSUME NEW q \in Processes, NEW z, ProcFine(q, z) PROVE Meanwhile(q, z)
  <2>2. inodes' >= inodes
    BY <1>3 DEF LayoutInductive, LocksFine
  <2>3. Exists("flat")' => Exists("flat")
    BY <1>7 DEF Exists
  <2>4. ASSUME q = Sweeper, z.pc \in Resolving \/ z.pc = "unlink", Exists(z.path)'
        PROVE  idle'
    <3>1. Exists(z.path) => idle
      BY <1>9, <2>4 DEF ProcFine, DoomOf
    <3>2. z.path = "bucket" => ~Exists("flat")
      BY <1>9, <2>4 DEF ProcFine, DoomOf
    <3>3. z.path \in {"flat", "bucket"}
      BY <1>9 DEF ProcFine, ProcRecord, Places
    <3>4. Exists(z.path)
      BY <1>7, <2>4, <3>2, <3>3 DEF Exists
    <3> QED
      BY <1>3, <3>1, <3>4
  <2> QED
    BY <1>3, <1>7, <1>9, <2>2, <2>3, <2>4 DEF Meanwhile, ProcFine, WayOf
<1>10. ProcFine(p, y)'
  <2>0. ProcFine(p, x)'
    BY <1>1, <1>2, <1>8, <1>9, Lay_Other DEF LayoutInductive
  <2>1. (y \in ProcRecord)' /\ RoleOf(p, y)'
    BY <1>2, <1>3, <1>6, <2>0 DEF ProcFine, RoleOf, ProcRecord, Resolving
  <2>2. LockOf(y)'
    BY <1>2, <1>3, <1>6, <2>0 DEF ProcFine, LockOf, Holding, Resolving
  <2>3. WayOf(p, y)'
    BY <1>2, <1>3, <1>6, <1>7, <2>0 DEF ProcFine, WayOf
  <2>4. DoomOf(p, y)' /\ BasisOf(p, y)'
    BY <1>2, <1>3, <1>6, <2>0 DEF ProcFine, DoomOf, BasisOf, Resolving, Exists
  <2> QED
    BY <2>1, <2>2, <2>3, <2>4 DEF ProcFine
<1>11. \A q \in Processes \ {p} : y.inode # 0 => y.inode # proc[q].inode
  BY <1>1, <1>6 DEF LayoutInductive, LockAlone
<1>12. \A q \in Processes \ {p} : \A z : z = proc[q] => Meanwhile(q, z)
  BY <1>9, Lay_Record
<1> QED
  BY <1>5, <1>8, <1>10, <1>11, <1>12, Lay_Step
\* What a lock taken at a place leaves: the file there, held by nobody before.
LEMMA Lay_LockAt ==
  ASSUME LayoutInductive, NEW p \in Processes, NEW place \in Places, NEW to, LockAt(p, place, to)
  PROVE  /\ TreeFine' /\ LocksFine'
         /\ sidecar'[place] \in 1..inodes'
         /\ \A q \in Processes : \A z : z = proc[q] /\ ProcFine(q, z) => Meanwhile(q, z)
         /\ \A q \in Processes : proc[q].inode # sidecar'[place]
<1> USE Lay_Places
<1>0. inodes \in Nat /\ sidecar \in [Places -> 0..inodes]
  BY DEF LayoutInductive, LocksFine
<1>1. UNCHANGED <<data, writable, idle, acked, reaped, unlinked>>
  BY DEF LockAt, history
<1>2. /\ inodes' \in Nat /\ inodes' >= inodes
      /\ sidecar' \in [Places -> 0..inodes'] /\ sidecar'[place] \in 1..inodes'
      /\ \A l \in Places : sidecar[l] # 0 => sidecar'[l] = sidecar[l]
      /\ \A l \in Places : l # place => sidecar'[l] = sidecar[l]
      /\ \A q \in Processes : proc[q].inode # sidecar'[place]
  <2>1. \A q \in Processes : proc[q].inode \in 0..inodes
    BY DEF LayoutInductive, ProcsFine, ProcRecord
  <2>2. CASE sidecar[place] = 0
    <3>1. inodes' = inodes + 1 /\ sidecar' = [sidecar EXCEPT ![place] = inodes']
      BY <2>2 DEF LockAt
    <3> QED
      BY <1>0, <2>1, <2>2, <3>1
  <2>3. CASE sidecar[place] # 0
    <3>1. inodes' = inodes /\ sidecar' = sidecar
      BY <2>3 DEF LockAt, locks
    <3>2. \A q \in Processes : proc[q].inode # sidecar[place]
      BY <2>3 DEF LockAt, LockedBy
    <3> QED
      BY <1>0, <2>3, <3>1, <3>2
  <2> QED
    BY <2>2, <2>3
<1>3. bucketDir' \in BOOLEAN /\ (bucketDir => bucketDir') /\ (place = "bucket" => bucketDir')
  BY DEF LockAt, DirFor, LayoutInductive, TreeFine
<1>4. TreeFine' /\ LocksFine'
  <2>1. (data["bucket"] # Absent \/ sidecar["bucket"] # 0 => bucketDir)'
    BY <1>1, <1>2, <1>3 DEF LayoutInductive, TreeFine
  <2> QED
    BY <1>1, <1>2, <1>3, <2>1 DEF LayoutInductive, TreeFine, LocksFine, NoFork, Exists
<1>5. ASSUME NEW q \in Processes, NEW z, ProcFine(q, z) PROVE Meanwhile(q, z)
  BY <1>1, <1>2, <1>3, <1>5 DEF Meanwhile, ProcFine, WayOf, DoomOf, Exists
<1> QED
  BY <1>2, <1>4, <1>5

LEMMA Lay_LockPath ==
  ASSUME LayoutInductive, NEW p \in Processes, LockPath(p)
  PROVE  LayoutInductive'
<1> USE Lay_Places
<1>1. PICK x : x = proc[p]
  OBVIOUS
<1>2. ProcFine(p, x) /\ x \in ProcRecord /\ x.pc = "gate" /\ writable /\ p \in Appenders
  BY <1>1, Lay_Record, LayoutAssumption DEF LockPath, ProcFine, RoleOf, Resolving, Processes
<1>3. x.found = "bucket" /\ LockAt(p, "bucket", "lock")
  BY <1>1, <1>2 DEF LockPath, ProcFine, WayOf
<1>4. UNCHANGED <<data, writable, idle, acked, reaped, unlinked>>
  BY <1>3 DEF LockAt, history
<1>5. PICK y : y = [x EXCEPT !.pc = "lock", !.path = "bucket", !.inode = sidecar'["bucket"]]
  OBVIOUS
<1>6. proc' = [proc EXCEPT ![p] = y]
  BY <1>1, <1>3, <1>5 DEF LockAt
<1>7. /\ TreeFine' /\ LocksFine'
      /\ sidecar'["bucket"] \in 1..inodes'
      /\ \A q \in Processes : \A z : z = proc[q] /\ ProcFine(q, z) => Meanwhile(q, z)
      /\ \A q \in Processes : proc[q].inode # sidecar'["bucket"]
  BY <1>3, Lay_LockAt
<1>8. y.inode = sidecar'["bucket"] /\ y.path = "bucket" /\ y.pc = "lock" /\ y.found = "bucket"
  BY <1>2, <1>3, <1>5 DEF ProcRecord
<1>9. ProcFine(p, y)'
  <2>0. inodes' \in Nat
    BY <1>7 DEF LocksFine
  <2>a. PICK k \in 0..inodes' : k = sidecar'["bucket"]
    BY <1>7, <2>0
  <2>b. y = [x EXCEPT !.pc = "lock", !.path = "bucket", !.inode = k]
    BY <1>5, <2>a
  <2>1. (y \in ProcRecord)'
    BY <1>2, <2>b DEF ProcRecord
  <2>2. RoleOf(p, y)' /\ LockOf(y)'
    BY <1>2, <1>4, <1>7, <1>8, <2>0, LayoutAssumption DEF RoleOf, LockOf, Holding, Resolving, ProcFine
  <2>3. WayOf(p, y)' /\ DoomOf(p, y)' /\ BasisOf(p, y)'
    BY <1>2, <1>8, LayoutAssumption DEF WayOf, DoomOf, BasisOf, Resolving
  <2> QED
    BY <2>1, <2>2, <2>3 DEF ProcFine
<1>10. \A q \in Processes \ {p} : \A z : z = proc[q] => Meanwhile(q, z)
  BY <1>7, Lay_Record
<1> QED
  BY <1>6, <1>7, <1>8, <1>9, <1>10, Lay_Step

LEMMA Lay_FindIdle ==
  ASSUME LayoutInductive, NEW place \in Places, FindIdle(place)
  PROVE  LayoutInductive'
<1> USE Lay_Places
<1>0. Sweeper \in Processes
  BY DEF Processes
<1>1. PICK x : x = proc[Sweeper]
  OBVIOUS
<1>2. ProcFine(Sweeper, x) /\ x \in ProcRecord /\ writable
  BY <1>0, <1>1, Lay_Record DEF FindIdle
<1>3. LockAt(Sweeper, place, "recheck")
  BY DEF FindIdle
<1>4. UNCHANGED <<data, writable, idle, acked, reaped, unlinked>>
  BY <1>3 DEF LockAt, history
<1>5. PICK y : y = [x EXCEPT !.pc = "recheck", !.path = place, !.inode = sidecar'[place]]
  OBVIOUS
<1>6. proc' = [proc EXCEPT ![Sweeper] = y]
  BY <1>1, <1>3, <1>5 DEF LockAt
<1>7. /\ TreeFine' /\ LocksFine'
      /\ sidecar'[place] \in 1..inodes'
      /\ \A q \in Processes : \A z : z = proc[q] /\ ProcFine(q, z) => Meanwhile(q, z)
      /\ \A q \in Processes : proc[q].inode # sidecar'[place]
  BY <1>0, <1>3, Lay_LockAt
<1>8. y.inode = sidecar'[place] /\ y.path = place /\ y.pc = "recheck" /\ y.found = x.found
  BY <1>2, <1>5 DEF ProcRecord
<1>9. ProcFine(Sweeper, y)'
  <2>0. inodes' \in Nat
    BY <1>7 DEF LocksFine
  <2>a. PICK k \in 0..inodes' : k = sidecar'[place]
    BY <1>7, <2>0
  <2>b. y = [x EXCEPT !.pc = "recheck", !.path = place, !.inode = k]
    BY <1>5, <2>a
  <2>1. (y \in ProcRecord)'
    BY <1>2, <2>b DEF ProcRecord
  <2>2. RoleOf(Sweeper, y)' /\ LockOf(y)'
    BY <1>2, <1>4, <1>7, <1>8, <2>0, LayoutAssumption DEF RoleOf, LockOf, Holding, Resolving, ProcFine
  <2>3. WayOf(Sweeper, y)' /\ DoomOf(Sweeper, y)' /\ BasisOf(Sweeper, y)'
    BY <1>2, <1>4, <1>8, LayoutAssumption DEF ProcFine, WayOf, DoomOf, BasisOf, Resolving
  <2> QED
    BY <2>1, <2>2, <2>3 DEF ProcFine
<1>10. \A q \in Processes \ {Sweeper} : \A z : z = proc[q] => Meanwhile(q, z)
  BY <1>7, Lay_Record
<1> QED
  BY <1>0, <1>6, <1>7, <1>8, <1>9, <1>10, Lay_Step

LEMMA Lay_AppendRecord ==
  ASSUME LayoutInductive, NEW p \in Processes, AppendRecord(p)
  PROVE  LayoutInductive'
<1> USE Lay_Places
<1>1. PICK x : x = proc[p]
  OBVIOUS
<1>2. ProcFine(p, x) /\ x \in ProcRecord /\ x.pc = "write" /\ p \in Appenders
  BY <1>1, Lay_Record, LayoutAssumption DEF AppendRecord, ProcFine, RoleOf, Resolving, Processes
<1>3. /\ writable /\ x.path = "bucket" /\ x.found = "bucket" /\ x.inode # 0
      /\ sidecar["bucket"] = x.inode /\ ~Exists("flat")
  BY <1>2 DEF ProcFine, LockOf, WayOf, Holding, Found
<1>4. bucketDir
  BY <1>3 DEF LayoutInductive, TreeFine
<1>5. UNCHANGED <<bucketDir, writable, sidecar, inodes, reaped, unlinked>> /\ idle' = FALSE
  BY DEF AppendRecord, locks
<1>6. PICK n \in Record : n = NextRecord
  BY DEF AppendRecord
<1>7. Contents("bucket") = acked /\ acked \in SUBSET Record
  BY <1>3 DEF Contents, LayoutInductive, TreeFine, NoFork
<1>8. acked' = acked \cup {n} /\ data' = [data EXCEPT !["bucket"] = acked \cup {n}]
  BY <1>1, <1>3, <1>6, <1>7 DEF AppendRecord
<1>9. acked' \in SUBSET Record /\ acked' # Absent
  BY <1>6, <1>7, <1>8, LayoutAssumption DEF Record
<1>10. /\ data' \in [Places -> (SUBSET Record) \cup {Absent}]
       /\ data'["flat"] = Absent /\ data'["bucket"] = acked' /\ data["flat"] = Absent
  BY <1>3, <1>8, <1>9 DEF LayoutInductive, TreeFine, Exists
<1>11. TreeFine' /\ LocksFine'
  <2>1. LocksFine'
    BY <1>5 DEF LayoutInductive, LocksFine
  <2>2. NoFork' /\ ~(~Exists("flat") /\ ~Exists("bucket"))'
    BY <1>9, <1>10 DEF NoFork, Exists
  <2> QED
    BY <1>4, <1>5, <1>9, <1>10, <2>1, <2>2 DEF LayoutInductive, TreeFine
<1>12. PICK y : y = [x EXCEPT !.pc = "unlock"]
  OBVIOUS
<1>13. proc' = [proc EXCEPT ![p] = y]
  BY <1>1, <1>12 DEF AppendRecord, LayoutGoto
<1>14. y \in ProcRecord /\ y.inode = x.inode /\ y.path = x.path /\ y.found = x.found /\ y.pc = "unlock"
  BY <1>2, <1>12 DEF ProcRecord
<1>15. ProcFine(p, y)'
  <2>1. (y \in ProcRecord)' /\ RoleOf(p, y)' /\ LockOf(y)'
    BY <1>2, <1>3, <1>5, <1>14, LayoutAssumption DEF RoleOf, LockOf, Holding, Resolving, ProcRecord, ProcFine
  <2>2. WayOf(p, y)' /\ DoomOf(p, y)' /\ BasisOf(p, y)'
    BY <1>2, <1>3, <1>5, <1>14, LayoutAssumption DEF WayOf, DoomOf, BasisOf, Resolving
  <2> QED
    BY <2>1, <2>2 DEF ProcFine
<1>16. ASSUME NEW q \in Processes \ {p}, NEW z, z = proc[q] PROVE Meanwhile(q, z)
  <2>1. ProcFine(q, z)
    BY <1>16, Lay_Record
  <2>2. inodes' >= inodes
    BY <1>5 DEF LayoutInductive, LocksFine
  <2>3. ~Exists("flat")'
    BY <1>10 DEF Exists
  <2>4. ASSUME q = Sweeper, z.pc \in Resolving \/ z.pc = "unlink" PROVE ~Exists(z.path)'
    <3>1. z.then = "unlink" \/ z.pc = "unlink"
      BY <2>1, <2>4 DEF ProcFine, RoleOf
    <3>2. z.inode # 0 /\ sidecar[z.path] = z.inode
      BY <2>1, <2>4, <3>1 DEF ProcFine, LockOf, Holding
    <3>3. z.inode # x.inode
      BY <1>1, <1>16, <3>2 DEF LayoutInductive, LockAlone
    <3>4. z.path = "flat"
      BY <1>3, <2>1, <3>2, <3>3 DEF ProcFine, ProcRecord, Places
    <3> QED
      BY <2>3, <3>4
  <2> QED
    BY <1>3, <1>5, <1>8, <2>1, <2>2, <2>3, <2>4 DEF Meanwhile, ProcFine, WayOf
<1>17. \A q \in Processes \ {p} : y.inode # 0 => y.inode # proc[q].inode
  BY <1>1, <1>14 DEF LayoutInductive, LockAlone
<1> QED
  BY <1>11, <1>13, <1>15, <1>16, <1>17, Lay_Step

LEMMA Lay_UnlinkPath ==
  ASSUME LayoutInductive, UnlinkPath
  PROVE  LayoutInductive'
<1> USE Lay_Places
<1>0. Sweeper \in Processes
  BY DEF Processes
<1>1. PICK x : x = proc[Sweeper]
  OBVIOUS
<1>2. ProcFine(Sweeper, x) /\ x \in ProcRecord /\ x.pc = "unlink" /\ writable
  BY <1>0, <1>1, Lay_Record DEF UnlinkPath, ProcFine, LockOf, Holding
<1>3. x.path \in Places
  BY <1>2 DEF ProcRecord
<1>4. UNCHANGED <<bucketDir, writable, idle, sidecar, inodes>> /\ reaped' = reaped + 1
  BY DEF UnlinkPath, locks
<1>5. data' = [data EXCEPT ![x.path] = Absent]
  BY <1>1 DEF UnlinkPath, Doomed
<1>6. IF Exists(x.path) THEN unlinked' = unlinked + 1 /\ acked' = {} ELSE UNCHANGED <<unlinked, acked>>
  BY <1>1 DEF UnlinkPath, Doomed
<1>7. /\ data' \in [Places -> (SUBSET Record) \cup {Absent}]
      /\ data'[x.path] = Absent /\ \A l \in Places : data'[l] = data[l] \/ data'[l] = Absent
      /\ \A l \in Places : l # x.path => data'[l] = data[l]
  BY <1>3, <1>5 DEF LayoutInductive, TreeFine
<1>8. TreeFine' /\ LocksFine'
  <2>1. LocksFine'
    BY <1>4 DEF LayoutInductive, LocksFine
  <2>2. reaped \in Nat /\ unlinked \in 0..reaped
    BY DEF LayoutInductive, TreeFine
  <2>3. reaped' \in Nat /\ unlinked' \in 0..reaped' /\ acked' \in SUBSET Record
    BY <1>4, <1>6, <2>2 DEF LayoutInductive, TreeFine
  <2>4. NoFork' /\ (~Exists("flat") /\ ~Exists("bucket") => acked = {})'
    <3>1. CASE Exists(x.path)
      <4>1. \A l \in Places : data'[l] = Absent
        BY <1>3, <1>7, <3>1 DEF LayoutInductive, TreeFine, NoFork, Exists, Places
      <4> QED
        BY <1>6, <3>1, <4>1 DEF NoFork, Exists
    <3>2. CASE ~Exists(x.path)
      <4>1. \A l \in Places : data'[l] = data[l]
        BY <1>7, <3>2 DEF Exists
      <4> QED
        BY <1>6, <3>2, <4>1 DEF LayoutInductive, TreeFine, NoFork, Exists
    <3> QED
      BY <3>1, <3>2
  <2>5. (data["bucket"] # Absent \/ sidecar["bucket"] # 0 => bucketDir)'
    BY <1>4, <1>7 DEF LayoutInductive, TreeFine
  <2> QED
    BY <1>4, <1>7, <2>1, <2>3, <2>4, <2>5 DEF LayoutInductive, TreeFine
<1>12. PICK y : y = [x EXCEPT !.pc = "unlock"]
  OBVIOUS
<1>13. proc' = [proc EXCEPT ![Sweeper] = y]
  BY <1>1, <1>12 DEF UnlinkPath, LayoutGoto
<1>14. y \in ProcRecord /\ y.inode = x.inode /\ y.path = x.path /\ y.found = x.found /\ y.pc = "unlock"
  BY <1>2, <1>12 DEF ProcRecord
<1>15. ProcFine(Sweeper, y)'
  <2>1. (y \in ProcRecord)' /\ RoleOf(Sweeper, y)' /\ LockOf(y)'
    BY <1>2, <1>4, <1>14, LayoutAssumption DEF RoleOf, LockOf, Holding, Resolving, ProcRecord, ProcFine
  <2>2. WayOf(Sweeper, y)' /\ DoomOf(Sweeper, y)' /\ BasisOf(Sweeper, y)'
    BY <1>2, <1>4, <1>14, LayoutAssumption DEF ProcFine, WayOf, DoomOf, BasisOf, Resolving
  <2> QED
    BY <2>1, <2>2 DEF ProcFine
<1>16. ASSUME NEW q \in Processes \ {Sweeper}, NEW z, z = proc[q] PROVE Meanwhile(q, z)
  <2>1. ProcFine(q, z)
    BY <1>16, Lay_Record
  <2>2. inodes' >= inodes
    BY <1>4 DEF LayoutInductive, LocksFine
  <2>3. Exists("flat")' => Exists("flat")
    BY <1>7 DEF Exists
  <2>4. unlinked' = 0 => unlinked = 0 /\ acked \subseteq acked'
    BY <1>6 DEF LayoutInductive, TreeFine
  <2> QED
    BY <1>2, <1>4, <1>16, <2>1, <2>2, <2>3, <2>4 DEF Meanwhile, ProcFine, WayOf
<1>17. \A q \in Processes \ {Sweeper} : y.inode # 0 => y.inode # proc[q].inode
  BY <1>0, <1>1, <1>14 DEF LayoutInductive, LockAlone
<1> QED
  BY <1>0, <1>8, <1>13, <1>15, <1>16, <1>17, Lay_Step

\* The steps of no process: the pass removes an empty bucket, and a week goes by.
LEMMA Lay_Nobody ==
  ASSUME LayoutInductive, ~SweepsTheGap, RemoveBucket \/ AWeekLater
  PROVE  LayoutInductive'
<1> USE Lay_Places
<1>1. UNCHANGED <<data, writable, sidecar, inodes, proc, acked, reaped, unlinked>>
  BY DEF RemoveBucket, AWeekLater, locks, history
<1>2. /\ idle' \in BOOLEAN /\ (idle => idle') /\ bucketDir' \in BOOLEAN
      /\ bucketDir' # bucketDir =>
           data["bucket"] = Absent /\ sidecar["bucket"] = 0 /\ \A p \in Processes : proc[p].pc # "move"
  BY DEF RemoveBucket, AWeekLater, LayoutInductive, TreeFine, Exists
<1>3. TreeFine' /\ LocksFine'
  BY <1>1, <1>2 DEF LayoutInductive, TreeFine, LocksFine, NoFork, Exists
<1>4. ASSUME NEW q \in Processes PROVE ProcFine(q, proc[q])'
  <2>1. PICK z : z = proc[q]
    OBVIOUS
  <2>2. ProcFine(q, z)
    BY <2>1, Lay_Record
  <2>3. inodes' >= inodes
    BY <1>1 DEF LayoutInductive, LocksFine
  <2>4. z.pc = "move" => bucketDir'
    BY <1>2, <2>1, <2>2 DEF ProcFine, WayOf
  <2>5. Meanwhile(q, z)
    BY <1>1, <1>2, <2>2, <2>3, <2>4 DEF Meanwhile, ProcFine, DoomOf, Exists
  <2>6. ProcFine(q, z)'
    BY <1>3, <2>2, <2>5, Lay_Other DEF LayoutInductive
  <2> QED
    BY <1>1, <2>1, <2>6 DEF ProcFine, RoleOf, LockOf, WayOf, DoomOf, BasisOf, Holding, ProcRecord
<1>5. ProcsFine'
  BY <1>1, <1>4 DEF LayoutInductive, ProcsFine, ProcRecord
<1>6. LockAlone'
  BY <1>1 DEF LayoutInductive, LockAlone
<1> QED
  BY <1>3, <1>5, <1>6 DEF LayoutInductive

LEMMA Lay_Stutter ==
  ASSUME LayoutInductive, UNCHANGED layoutVars
  PROVE  LayoutInductive'
<1>1. UNCHANGED <<data, bucketDir, writable, idle, sidecar, inodes, proc, acked, reaped, unlinked>>
  BY DEF layoutVars
<1>2. TreeFine' /\ LocksFine'
  BY <1>1 DEF LayoutInductive, TreeFine, LocksFine, NoFork, Exists
<1>3. ProcsFine' /\ LockAlone'
  BY <1>1 DEF LayoutInductive, ProcsFine, LockAlone, ProcFine, RoleOf, LockOf, WayOf, DoomOf, BasisOf,
              Holding, ProcRecord, Exists, Found
<1> QED
  BY <1>2, <1>3 DEF LayoutInductive

LEMMA Lay_Next ==
  ASSUME ~SweepsTheGap, LayoutInductive, [LayoutNext]_layoutVars
  PROVE  LayoutInductive'
<1>1. CASE UNCHANGED layoutVars
  BY <1>1, Lay_Stutter
<1>2. ASSUME NEW p \in Processes,
             \/ ProbeBucket(p) \/ ProbeLegacy(p) \/ MakeBucket(p) \/ Move(p) \/ ProbeAgain(p)
             \/ StartAppend(p) \/ LockPath(p) \/ LockFails(p)
             \/ SeqUnderLock(p) \/ AppendRecord(p) \/ Unlock(p)
             \/ StartRead(p) \/ ReadFile(p)
      PROVE  LayoutInductive'
  BY <1>2, Lay_ProbeBucket, Lay_ProbeLegacy, Lay_MakeBucket, Lay_Move, Lay_ProbeAgain, Lay_StartAppend,
     Lay_LockPath, Lay_LockFails, Lay_SeqUnderLock, Lay_AppendRecord, Lay_Unlock, Lay_StartRead, Lay_ReadFile
<1>3. ASSUME NEW place \in Places, FindIdle(place) PROVE LayoutInductive'
  BY <1>3, Lay_FindIdle
<1>4. CASE Recheck \/ UnlinkPath \/ RemoveBucket \/ AWeekLater
  BY <1>4, Lay_Recheck, Lay_UnlinkPath, Lay_Nobody
<1> QED
  BY <1>1, <1>2, <1>3, <1>4 DEF LayoutNext

LEMMA Lay_Always ==
  ASSUME ~SweepsTheGap
  PROVE  LayoutSpec => []LayoutInductive
<1>1. LayoutInit => LayoutInductive
  BY Lay_Init
<1>2. LayoutInductive /\ [LayoutNext]_layoutVars => LayoutInductive'
  BY Lay_Next
<1> QED
  BY <1>1, <1>2, PTL DEF LayoutSpec

\* A room is one file under one lock, whoever moves it to its bucket and however
\* many resolve its name meanwhile, and a read of it misses nothing: as long as
\* the pass does not remove a bucket a migration has just made (`_resolve`,
\* `_migrate`).
THEOREM OneFile == ASSUME ~SweepsTheGap PROVE LayoutSpec => []LayoutInv
<1>1. LayoutInductive => LayoutInv
  <2> SUFFICES ASSUME LayoutInductive PROVE LayoutInv
    OBVIOUS
  <2> USE Lay_Places
  <2>1. LayoutTypeOK
    <3>1. reaped \in Nat /\ unlinked \in 0..reaped + 1
      BY DEF LayoutInductive, TreeFine
    <3>2. proc \in [Processes ->
          [pc : {"idle", "probe", "legacy", "mkdir", "move", "again", "gate", "lock",
                 "write", "read", "recheck", "unlink", "unlock"},
           then : {"idle", "gate", "write", "read", "unlink"},
           found : Places, path : Places, inode : 0..inodes,
           basis : SUBSET Record, reply : SUBSET Record]]
      BY DEF LayoutInductive, ProcsFine, ProcRecord
    <3> QED
      BY <3>1, <3>2 DEF LayoutTypeOK, LayoutInductive, TreeFine, LocksFine
  <2>2. NoFork
    BY DEF LayoutInductive, TreeFine
  <2>3. OneAppender
    <3>1. SUFFICES ASSUME NEW p \in Appenders, NEW q \in Appenders, proc[p].inode # 0, proc[q].inode # 0
                   PROVE  p = q
      BY DEF OneAppender
    <3>2. p \in Processes /\ q \in Processes
      BY DEF Processes
    <3>3. ProcFine(p, proc[p]) /\ ProcFine(q, proc[q])
      BY <3>2, Lay_Record
    <3>4. CASE writable
      <4>1. proc[p].inode = sidecar["bucket"] /\ proc[q].inode = sidecar["bucket"]
        BY <3>1, <3>3, <3>4 DEF ProcFine, LockOf, WayOf
      <4> QED
        BY <3>1, <3>2, <4>1 DEF LayoutInductive, LockAlone
    <3>5. CASE ~writable
      <4> QED
        BY <3>1, <3>3, <3>5 DEF ProcFine, LockOf
    <3> QED
      BY <3>4, <3>5
  <2>4. ReadsAreWhole
    <3>1. \A p \in Lookers : ProcFine(p, proc[p])
      BY Lay_Record DEF Processes
    <3> QED
      BY <3>1 DEF ReadsAreWhole, ProcFine, BasisOf
  <2> QED
    BY <2>1, <2>2, <2>3, <2>4 DEF LayoutInv
<1> QED
  BY <1>1, Lay_Always, PTL
Kept ==
    \A place \in Places :
        Exists(place) =>
            \/ idle
            \/ \E p \in Places : data'[p] # Absent /\ data[place] \subseteq data'[p]

LEMMA Lay_DataStays == data' = data => Kept
BY DEF Kept, Exists

LEMMA Lay_Kept ==
  ASSUME LayoutInductive, [LayoutNext]_layoutVars
  PROVE  Kept
<1> USE Lay_Places
<1>1. CASE UNCHANGED layoutVars
  BY <1>1, Lay_DataStays DEF layoutVars
<1>2. ASSUME NEW p \in Processes,
             \/ ProbeBucket(p) \/ ProbeLegacy(p) \/ MakeBucket(p) \/ ProbeAgain(p)
             \/ StartAppend(p) \/ LockPath(p) \/ LockFails(p)
             \/ SeqUnderLock(p) \/ Unlock(p) \/ StartRead(p) \/ ReadFile(p)
      PROVE  Kept
  BY <1>2, Lay_DataStays DEF tree, ProbeBucket, ProbeLegacy, MakeBucket, ProbeAgain, StartAppend,
     LockPath, LockAt, LockFails, SeqUnderLock, Unlock, StartRead, ReadFile
<1>3. ASSUME NEW p \in Processes, Move(p) PROVE Kept
  <2>1. CASE Exists("flat") /\ bucketDir /\ writable
    <3>1. data' = [place \in Places |-> IF place = "flat" THEN Absent ELSE data["flat"]]
      BY <1>3, <2>1 DEF Move, Renamed, Places
    <3>2. data'["bucket"] = data["flat"] /\ data["flat"] # Absent /\ ~Exists("bucket")
      BY <2>1, <3>1 DEF Exists, LayoutInductive, TreeFine, NoFork
    <3> QED
      BY <3>2 DEF Kept, Exists, Places
  <2>2. CASE ~(Exists("flat") /\ bucketDir /\ writable)
    BY <1>3, <2>2, Lay_DataStays DEF Move
  <2> QED
    BY <2>1, <2>2
<1>4. ASSUME NEW p \in Processes, AppendRecord(p) PROVE Kept
  <2>1. PICK l \in Places : l = proc[p].path
    BY Lay_Record DEF ProcRecord
  <2>2. PICK more : more = Contents(l) \cup {NextRecord}
    OBVIOUS
  <2>3. data' = [data EXCEPT ![l] = more]
    BY <1>4, <2>1, <2>2 DEF AppendRecord
  <2>4. more # Absent
    <3>1. Contents(l) \in SUBSET Record /\ NextRecord \in Record
      BY <1>4 DEF AppendRecord, Contents, Exists, LayoutInductive, TreeFine
    <3> QED
      BY <2>2, <3>1, LayoutAssumption DEF Record
  <2>5. \A k \in Places : data'[k] = IF k = l THEN more ELSE data[k]
    BY <2>1, <2>3 DEF LayoutInductive, TreeFine
  <2> QED
    BY <2>1, <2>2, <2>4, <2>5 DEF Kept, Exists, Contents
<1>5. CASE UnlinkPath
  <2>1. Sweeper \in Processes
    BY DEF Processes
  <2>2. PICK l \in Places : l = proc[Sweeper].path
    BY <2>1, Lay_Record DEF ProcRecord
  <2>3. Exists(l) => idle
    BY <1>5, <2>1, <2>2, Lay_Record DEF UnlinkPath, ProcFine, DoomOf
  <2>4. data' = [data EXCEPT ![l] = Absent]
    BY <1>5, <2>2 DEF UnlinkPath, Doomed
  <2>5. \A k \in Places : k # l => data'[k] = data[k]
    BY <2>4 DEF LayoutInductive, TreeFine
  <2> QED
    BY <2>3, <2>5 DEF Kept, Exists
<1>6. ASSUME NEW place \in Places, FindIdle(place) PROVE Kept
  BY <1>6, Lay_DataStays DEF FindIdle, LockAt
<1>7. CASE Recheck \/ RemoveBucket \/ AWeekLater
  BY <1>7, Lay_DataStays DEF Recheck, RemoveBucket, AWeekLater, tree
<1> QED
  BY <1>1, <1>2, <1>3, <1>4, <1>5, <1>6, <1>7 DEF LayoutNext

\* No step takes the records of a room that was written to since the pass looked,
\* be it moved from under the lock the pass holds (`_migrate`: such a file is
\* "skipped rather than deleted").
THEOREM WrittenRoomsStay == ASSUME ~SweepsTheGap PROVE LayoutSpec => OnlyIdleVanishes
<1>1. LayoutInductive /\ [LayoutNext]_layoutVars =>
        [\A place \in Places :
          Exists(place) =>
              \/ idle
              \/ \E p \in Places : data'[p] # Absent /\ data[place] \subseteq data'[p]]_layoutVars
  BY Lay_Kept DEF Kept
<1> QED
  BY <1>1, Lay_Always, PTL DEF LayoutSpec, OnlyIdleVanishes

----------------------------------------------------------------------------
(* The periodic jobs.                                                      *)

Sampling == {"recheck", "read", "put"}

\* The handler in a pass holds its lock, and two handlers are never in one.
PassHeld == \A h \in Handlers : hd[h].pc = "pass" <=> passLock = h

\* What a sampler found due under the lock is due until it has put its sample:
\* nobody else touches the ring meanwhile.
StaysDue == \A h \in Handlers : hd[h].pc \in {"read", "put"} => Due(ringMark, SampleEvery, time)

\* A handler's instant is not ahead of the clock, and what it is about to put
\* is the ring as it stands.
KeptIsRing ==
    \A h \in Handlers :
       /\ hd[h].now <= time
       /\ hd[h].pc = "put" /\ ~ReadMayFail => hd[h].kept = {t \in ring : Young(t, hd[h].now)}

PeriodicInductive == PeriodicTypeOK /\ PassHeld /\ StaysDue /\ KeptIsRing

----------------------------------------------------------------------------
LEMMA PeriodicInit_Inductive == PeriodicInit => PeriodicInductive
  BY PeriodicAssumption
  DEF PeriodicInit, PeriodicInductive, PeriodicTypeOK, PassHeld, StaysDue, KeptIsRing,
      HandlerIdle, Ticks, Never

LEMMA PeriodicStep_Type ==
  ASSUME PeriodicInductive, [PeriodicNext]_periodicVars
  PROVE  PeriodicTypeOK'
<1> USE PeriodicAssumption DEF PeriodicTypeOK, Ticks, Never, HandlerIdle, HandlerGoto, HandlerDone,
        reapState, ringState, Freed
<1>0. PeriodicTypeOK BY DEF PeriodicInductive
<1>1. ASSUME NEW h \in Handlers, ReapStat(h) PROVE PeriodicTypeOK'
  BY <1>0, <1>1 DEF ReapStat
<1>2. ASSUME NEW h \in Handlers, TouchMarker(h) PROVE PeriodicTypeOK'
  BY <1>0, <1>2 DEF TouchMarker
<1>3. ASSUME NEW h \in Handlers, TryPass(h) PROVE PeriodicTypeOK'
  BY <1>0, <1>3 DEF TryPass
<1>4. ASSUME NEW h \in Handlers, EndReapPass(h) PROVE PeriodicTypeOK'
  BY <1>0, <1>4 DEF EndReapPass
<1>5. ASSUME NEW h \in Handlers, SampleStat(h) PROVE PeriodicTypeOK'
  BY <1>0, <1>5 DEF SampleStat
<1>6. ASSUME NEW h \in Handlers, TrySample(h) PROVE PeriodicTypeOK'
  BY <1>0, <1>6 DEF TrySample
<1>7. ASSUME NEW h \in Handlers, RecheckRing(h) PROVE PeriodicTypeOK'
  BY <1>0, <1>7 DEF RecheckRing
<1>8. ASSUME NEW h \in Handlers, ReadRing(h) PROVE PeriodicTypeOK'
  <2>1. PICK seen \in {ring} \cup (IF ReadMayFail THEN {{}} ELSE {}) :
          hd' = [hd EXCEPT ![h].pc = "put", ![h].kept = {t \in seen : Young(t, hd[h].now)}]
    BY <1>8 DEF ReadRing
  <2>2. seen = ring \/ seen = {}
    BY <2>1
  <2>3. ring \subseteq Ticks
    BY <1>0
  <2>4. seen \subseteq Ticks
    BY ONLY <2>2, <2>3
  <2>5. {t \in seen : Young(t, hd[h].now)} \subseteq Ticks
    BY ONLY <2>4
  <2>6. PICK kept \in SUBSET Ticks : hd' = [hd EXCEPT ![h].pc = "put", ![h].kept = kept]
    BY ONLY <2>1, <2>5
  <2>7. hd \in [Handlers -> [pc : {"idle", "touch", "try", "pass", "sample", "retry",
                                  "recheck", "read", "put"}, now : Ticks, kept : SUBSET Ticks]]
    BY <1>0
  <2>8. hd' \in [Handlers -> [pc : {"idle", "touch", "try", "pass", "sample", "retry",
                                   "recheck", "read", "put"}, now : Ticks, kept : SUBSET Ticks]]
    BY ONLY <2>6, <2>7
  <2>9. \A g \in Handlers : hd'[g].pc = IF g = h THEN "put" ELSE hd[g].pc
    BY ONLY <2>6, <2>7
  <2> QED BY <1>0, <1>8, <2>8, <2>9 DEF ReadRing
<1>9. ASSUME NEW h \in Handlers, PutRing(h) PROVE PeriodicTypeOK'
  <2>1. hd[h].kept \cup {hd[h].now} \subseteq Ticks
    <3>1. hd[h].kept \subseteq Ticks /\ hd[h].now \in Ticks
      BY <1>0
    <3> QED BY ONLY <3>1
  <2>2. ring' \subseteq Ticks
    <3>1. ring \subseteq Ticks
      BY <1>0
    <3>2. ring' = hd[h].kept \cup {hd[h].now} \/ ring' = ring
      BY <1>9 DEF PutRing
    <3> QED BY ONLY <2>1, <3>1, <3>2
  <2>3. ringMark' \in Ticks \cup {Never}
    BY <1>0, <1>9 DEF PutRing
  <2>4. /\ hd' = [hd EXCEPT ![h] = HandlerIdle] /\ ringLock' = NoHandler /\ hd[h].pc = "put"
        /\ UNCHANGED <<time, reapMark, passLock>>
    BY <1>9 DEF PutRing
  <2> QED BY <1>0, <2>2, <2>3, <2>4
<1>10. ASSUME NEW h \in Handlers, KillHandler(h) PROVE PeriodicTypeOK'
  BY <1>0, <1>10 DEF KillHandler
<1>11. CASE PeriodicTick
  BY <1>0, <1>11 DEF PeriodicTick
<1>12. CASE UNCHANGED periodicVars
  BY <1>0, <1>12 DEF periodicVars
<1> QED
  BY <1>1, <1>2, <1>3, <1>4, <1>5, <1>6, <1>7, <1>8, <1>9, <1>10, <1>11, <1>12 DEF PeriodicNext

LEMMA PeriodicStep_Pass ==
  ASSUME PeriodicInductive, [PeriodicNext]_periodicVars
  PROVE  PassHeld'
<1> USE PeriodicAssumption DEF PassHeld, PeriodicTypeOK, HandlerIdle, HandlerGoto, HandlerDone,
        reapState, ringState, Freed
<1>0. PassHeld /\ PeriodicTypeOK BY DEF PeriodicInductive
<1>1. ASSUME NEW h \in Handlers, ReapStat(h) PROVE PassHeld'
  BY <1>0, <1>1 DEF ReapStat
<1>2. ASSUME NEW h \in Handlers, TouchMarker(h) PROVE PassHeld'
  BY <1>0, <1>2 DEF TouchMarker
<1>3. ASSUME NEW h \in Handlers, TryPass(h) PROVE PassHeld'
  BY <1>0, <1>3 DEF TryPass, PassIsMine
<1>4. ASSUME NEW h \in Handlers, EndReapPass(h) PROVE PassHeld'
  BY <1>0, <1>4 DEF EndReapPass
<1>5. ASSUME NEW h \in Handlers, SampleStat(h) PROVE PassHeld'
  BY <1>0, <1>5 DEF SampleStat
<1>6. ASSUME NEW h \in Handlers, TrySample(h) PROVE PassHeld'
  BY <1>0, <1>6 DEF TrySample
<1>7. ASSUME NEW h \in Handlers, RecheckRing(h) PROVE PassHeld'
  BY <1>0, <1>7 DEF RecheckRing
<1>8. ASSUME NEW h \in Handlers, ReadRing(h) PROVE PassHeld'
  BY <1>0, <1>8 DEF ReadRing
<1>9. ASSUME NEW h \in Handlers, PutRing(h) PROVE PassHeld'
  BY <1>0, <1>9 DEF PutRing
<1>10. ASSUME NEW h \in Handlers, KillHandler(h) PROVE PassHeld'
  BY <1>0, <1>10 DEF KillHandler
<1>11. CASE PeriodicTick
  BY <1>0, <1>11 DEF PeriodicTick
<1>12. CASE UNCHANGED periodicVars
  BY <1>0, <1>12 DEF periodicVars
<1> QED
  BY <1>1, <1>2, <1>3, <1>4, <1>5, <1>6, <1>7, <1>8, <1>9, <1>10, <1>11, <1>12 DEF PeriodicNext

\* Both kinds of step that keep a job due: the clock moves on, and the ring is
\* put by the one holder of its lock, who is through with it then.
LEMMA PeriodicStep_Due ==
  ASSUME PeriodicInductive, [PeriodicNext]_periodicVars
  PROVE  StaysDue'
<1> USE PeriodicAssumption DEF StaysDue, PeriodicTypeOK, HandlerIdle, HandlerGoto, HandlerDone,
        reapState, ringState, Freed
<1>0. StaysDue /\ PeriodicTypeOK BY DEF PeriodicInductive
<1>1. ASSUME NEW h \in Handlers, ReapStat(h) PROVE StaysDue'
  BY <1>0, <1>1 DEF ReapStat
<1>2. ASSUME NEW h \in Handlers, TouchMarker(h) PROVE StaysDue'
  BY <1>0, <1>2 DEF TouchMarker
<1>3. ASSUME NEW h \in Handlers, TryPass(h) PROVE StaysDue'
  BY <1>0, <1>3 DEF TryPass
<1>4. ASSUME NEW h \in Handlers, EndReapPass(h) PROVE StaysDue'
  BY <1>0, <1>4 DEF EndReapPass
<1>5. ASSUME NEW h \in Handlers, SampleStat(h) PROVE StaysDue'
  BY <1>0, <1>5 DEF SampleStat
<1>6. ASSUME NEW h \in Handlers, TrySample(h) PROVE StaysDue'
  BY <1>0, <1>6 DEF TrySample
<1>7. ASSUME NEW h \in Handlers, RecheckRing(h) PROVE StaysDue'
  BY <1>0, <1>7 DEF RecheckRing, StillDue
<1>8. ASSUME NEW h \in Handlers, ReadRing(h) PROVE StaysDue'
  BY <1>0, <1>8 DEF ReadRing
<1>9. ASSUME NEW h \in Handlers, PutRing(h) PROVE StaysDue'
  BY <1>0, <1>9 DEF PutRing
<1>10. ASSUME NEW h \in Handlers, KillHandler(h) PROVE StaysDue'
  BY <1>0, <1>10 DEF KillHandler
<1>11. CASE PeriodicTick
  <2>1. ringMark \in Ticks \cup {Never} /\ time \in Ticks /\ time' = time + 1 /\ ringMark' = ringMark
    BY <1>0, <1>11 DEF PeriodicTick
  <2>2. Due(ringMark, SampleEvery, time) => Due(ringMark, SampleEvery, time + 1)
    BY <2>1 DEF Due, Ticks, Never
  <2> QED BY <1>0, <1>11, <2>1, <2>2 DEF PeriodicTick
<1>12. CASE UNCHANGED periodicVars
  BY <1>0, <1>12 DEF periodicVars
<1> QED
  BY <1>1, <1>2, <1>3, <1>4, <1>5, <1>6, <1>7, <1>8, <1>9, <1>10, <1>11, <1>12 DEF PeriodicNext

LEMMA PeriodicStep_Kept ==
  ASSUME PeriodicInductive, [PeriodicNext]_periodicVars
  PROVE  KeptIsRing'
<1> USE PeriodicAssumption DEF KeptIsRing, PeriodicTypeOK, HandlerIdle, HandlerGoto, HandlerDone,
        reapState, ringState, Freed, Ticks
<1>0. KeptIsRing /\ PeriodicTypeOK BY DEF PeriodicInductive
<1>1. ASSUME NEW h \in Handlers, ReapStat(h) PROVE KeptIsRing'
  BY <1>0, <1>1 DEF ReapStat
<1>2. ASSUME NEW h \in Handlers, TouchMarker(h) PROVE KeptIsRing'
  BY <1>0, <1>2 DEF TouchMarker
<1>3. ASSUME NEW h \in Handlers, TryPass(h) PROVE KeptIsRing'
  BY <1>0, <1>3 DEF TryPass
<1>4. ASSUME NEW h \in Handlers, EndReapPass(h) PROVE KeptIsRing'
  BY <1>0, <1>4 DEF EndReapPass
<1>5. ASSUME NEW h \in Handlers, SampleStat(h) PROVE KeptIsRing'
  BY <1>0, <1>5 DEF SampleStat
<1>6. ASSUME NEW h \in Handlers, TrySample(h) PROVE KeptIsRing'
  BY <1>0, <1>6 DEF TrySample
<1>7. ASSUME NEW h \in Handlers, RecheckRing(h) PROVE KeptIsRing'
  BY <1>0, <1>7 DEF RecheckRing
<1>8. ASSUME NEW h \in Handlers, ReadRing(h) PROVE KeptIsRing'
  BY <1>0, <1>8 DEF ReadRing
<1>9. ASSUME NEW h \in Handlers, PutRing(h) PROVE KeptIsRing'
  BY <1>0, <1>9 DEF PutRing
<1>10. ASSUME NEW h \in Handlers, KillHandler(h) PROVE KeptIsRing'
  BY <1>0, <1>10 DEF KillHandler
<1>11. CASE PeriodicTick
  BY <1>0, <1>11 DEF PeriodicTick
<1>12. CASE UNCHANGED periodicVars
  BY <1>0, <1>12 DEF periodicVars
<1> QED
  BY <1>1, <1>2, <1>3, <1>4, <1>5, <1>6, <1>7, <1>8, <1>9, <1>10, <1>11, <1>12 DEF PeriodicNext

----------------------------------------------------------------------------
\* At most one handler is in a pass (`_reap` under its non-blocking lock).
LEMMA PassHeld_One ==
  ASSUME PassHeld
  PROVE  OneReapPass
<1> DEFINE passing == {h \in Handlers : hd[h].pc = "pass"}
<1>1. passing \subseteq {passLock}
  BY DEF PassHeld
<1>2. IsFiniteSet({passLock}) /\ Cardinality({passLock}) = 1
  BY FS_Singleton
<1>3. Cardinality(passing) <= 1
  BY <1>1, <1>2, FS_Subset
<1> QED
  BY <1>3 DEF OneReapPass

LEMMA PeriodicInductive_Holds == PeriodicSpec => []PeriodicInductive
<1>1. PeriodicInductive /\ [PeriodicNext]_periodicVars => PeriodicInductive'
  BY PeriodicStep_Type, PeriodicStep_Pass, PeriodicStep_Due, PeriodicStep_Kept DEF PeriodicInductive
<1> QED
  BY <1>1, PeriodicInit_Inductive, PTL DEF PeriodicSpec

\* Whatever the clock does between the look at a marker and the lock, and
\* whoever dies: passes never overlap, and each lock is held by the one handler
\* that is past it (`_reap`, `_snapshot`).
THEOREM PassesApart == PeriodicSpec => []PeriodicInv
<1>1. PeriodicInductive => PeriodicInv
  BY PassHeld_One DEF PeriodicInductive, PeriodicInv
<1> QED
  BY <1>1, PeriodicInductive_Holds, PTL

LEMMA Put_Only ==
  ASSUME PeriodicTypeOK, [PeriodicNext]_periodicVars, ring' # ring \/ ringMark' # ringMark
  PROVE  \E h \in Handlers : /\ hd[h].pc = "put"
                             /\ ring' = hd[h].kept \cup {hd[h].now}
                             /\ ringMark' = time
BY DEF PeriodicNext, periodicVars, ReapStat, TouchMarker, TryPass, EndReapPass, SampleStat,
       TrySample, RecheckRing, ReadRing, PutRing, KillHandler, PeriodicTick, ringState

\* Two samples are an interval apart, although a handler found its sample due
\* before it got the lock (`_snapshot`'s second look at the marker).
THEOREM SamplesApart == PeriodicSpec => SamplesSpaced
<1>1. PeriodicInductive /\ [PeriodicNext]_periodicVars
        => [ringMark' # ringMark => ringMark = Never \/ ringMark' - ringMark >= SampleEvery]_periodicVars
  <2> SUFFICES ASSUME PeriodicInductive, [PeriodicNext]_periodicVars, ringMark' # ringMark
               PROVE  ringMark = Never \/ ringMark' - ringMark >= SampleEvery
    OBVIOUS
  <2>1. PICK h \in Handlers : hd[h].pc = "put" /\ ringMark' = time
    BY Put_Only DEF PeriodicInductive
  <2>2. Due(ringMark, SampleEvery, time)
    BY <2>1 DEF PeriodicInductive, StaysDue
  <2> QED BY <2>1, <2>2 DEF Due
<1> QED
  BY <1>1, PeriodicInductive_Holds, PTL DEF PeriodicSpec, SamplesSpaced

\* As long as the ring can be read, no sample leaves it before its time, whoever
\* rewrites it and however long ago that handler looked at the clock
\* (`_snapshot`, `snapshots`).
THEOREM RingGrows == ASSUME ~ReadMayFail PROVE PeriodicSpec => RingForward
<1>1. PeriodicInductive /\ [PeriodicNext]_periodicVars
        => [\A t \in ring : time - t <= SampleKeep => t \in ring']_periodicVars
  <2> SUFFICES ASSUME PeriodicInductive, [PeriodicNext]_periodicVars, ring' # ring,
                      NEW t \in ring, time - t <= SampleKeep
               PROVE  t \in ring'
    OBVIOUS
  <2>1. PICK h \in Handlers : hd[h].pc = "put" /\ ring' = hd[h].kept \cup {hd[h].now}
    BY Put_Only DEF PeriodicInductive
  <2>2. hd[h].kept = {s \in ring : Young(s, hd[h].now)} /\ hd[h].now <= time
    BY <2>1 DEF PeriodicInductive, KeptIsRing
  <2>3. time \in Int /\ t \in Int /\ hd[h].now \in Int /\ SampleKeep \in Int
    BY PeriodicAssumption DEF PeriodicInductive, PeriodicTypeOK, Ticks
  <2>4. Young(t, hd[h].now)
    BY <2>2, <2>3 DEF Young
  <2> QED BY <2>1, <2>2, <2>4
<1>2. PeriodicSpec => RingKeepsHistory
  BY <1>1, PeriodicInductive_Holds, PTL DEF PeriodicSpec, RingKeepsHistory
<1> QED
  BY <1>2, SamplesApart DEF RingForward

----------------------------------------------------------------------------
(* The namespaces of the notes.                                            *)

CreatorRecord ==
    [pc : {"idle", "early", "persist", "span", "mkdir", "open", "exists", "gate",
           "reserve", "write", "return"},
     key : NoteKeys \cup {NoCount}, saw : Nat, reserved : BOOLEAN]

PassRecord ==
    [pc : {"idle", "walk", "sweep", "decide", "span", "drop", "rmdir"},
     before : Counts, walked : 0..Cardinality(NoteKeys), todo : SUBSET NoteKeys,
     emptied : BOOLEAN, runs : 0..MaxPasses]

\* A create names its key, and what it reserved is in its hands until it has
\* written or given it back; a writer that reserved nothing found its note.
CreateFine(x) ==
    /\ x.pc # "idle" => x.key \in NoteKeys
    /\ x.reserved => x.pc \in {"write", "return"}
    /\ x.pc = "return" => x.reserved
    /\ x.pc = "write" /\ ~x.reserved => x.key \in notes

\* Past its mkdir a create has its directory, and no pass is about to remove it.
SpanFine(x) ==
    /\ x.pc \in InSpan => ~SpanExclusive
    /\ x.pc \in InSpan \ {"mkdir"} => nsDir
    /\ x.pc # "idle" /\ pass.pc # "idle" => ~quiet

CreatorsFine == \A h \in Creators : CreateFine(creator[h]) /\ SpanFine(creator[h])

\* Two handlers are not past the lock of one note.
KeysApart ==
    \A g, h \in Creators :
       creator[g].pc \in PastLock /\ creator[h].pc \in PastLock /\ creator[g].key = creator[h].key
       => g = h

\* Where there is no count nothing is reserved; where there is one it covers the
\* notes and the reservations, or an increment of it was lost.
CountFine ==
    /\ nsCount = NoCount => InFlight = {}
    /\ DropKeepsCovered

\* What the walk counted are notes it passed, and all of them while nobody
\* creates.
WalkFine(x) ==
    /\ x.walked <= Cardinality(NoteKeys \ x.todo)
    /\ quiet /\ x.pc \in {"walk", "decide"} => x.walked = Cardinality(notes \ x.todo)
    /\ x.pc = "decide" => x.todo = {}
    /\ quiet /\ x.pc = "rmdir" => nsCount = NoCount

NamespacesInductive ==
    /\ NamespacesTypeOK /\ CreatesSurvive
    /\ CreatorsFine /\ KeysApart /\ CountFine /\ WalkFine(pass)
----------------------------------------------------------------------------
LEMMA Ns_Init == NamespacesInit => NamespacesInductive
<1> SUFFICES ASSUME NamespacesInit PROVE NamespacesInductive
  OBVIOUS
<1>1. /\ IsFiniteSet(NoteKeys) /\ IsFiniteSet(notes) /\ Cardinality(notes) \in Nat
      /\ Cardinality(NoteKeys) \in Nat /\ MaxPasses \in Nat
  BY NamespacesAssumption, FS_Subset, FS_CardinalityType DEF NamespacesInit
<1>2. nsCount \in Counts /\ (nsCount # NoCount => notes # {})
  BY <1>1 DEF NamespacesInit, Counts
<1>3. NoPass \in PassRecord
  <2>1. 0 \in 0..Cardinality(NoteKeys) /\ 0 \in 0..MaxPasses
    BY <1>1
  <2> QED
    BY <2>1 DEF NoPass, PassRecord, Counts
<1>4. NoCreate \in CreatorRecord
  BY DEF NoCreate, CreatorRecord
<1>5. NamespacesTypeOK /\ CreatesSurvive
  <2>1. lowered \in BOOLEAN /\ nsDir \in BOOLEAN
    BY DEF NamespacesInit
  <2>2. notes # {} \/ lockFiles # {} \/ nsCount # NoCount => nsDir
    BY <1>2 DEF NamespacesInit
  <2> QED
    BY <1>2, <1>3, <1>4, <2>1, <2>2 DEF NamespacesInit, NamespacesTypeOK, CreatesSurvive, CreatorRecord, PassRecord
<1>6. \A h \in Creators : creator[h] = NoCreate
  BY DEF NamespacesInit
<1>7. CreatorsFine /\ KeysApart
  BY <1>6 DEF CreatorsFine, KeysApart, CreateFine, SpanFine, NoCreate, InSpan, PastLock
<1>8. InFlight = {}
  BY <1>6 DEF InFlight, NoCreate
<1>9. Cardinality(InFlight) = 0
  BY <1>8, FS_EmptySet
<1>10. CountFine
  <2>1. ASSUME nsCount # NoCount, ~lowered PROVE nsCount >= Cardinality(notes) + 0
    BY <1>1, <1>2, <2>1, NamespacesAssumption DEF NamespacesInit, Counts
  <2> QED
    BY <1>8, <1>9, <2>1 DEF CountFine, DropKeepsCovered, Covered
<1>11. WalkFine(pass)
  <2>1. pass = NoPass /\ IsFiniteSet(NoteKeys \ {}) /\ Cardinality(NoteKeys \ {}) \in Nat
    BY <1>1, FS_CardinalityType, FS_Subset DEF NamespacesInit
  <2> QED
    BY <2>1 DEF WalkFine, NoPass
<1> QED
  BY <1>5, <1>7, <1>10, <1>11 DEF NamespacesInductive

----------------------------------------------------------------------------
(* A step of one create.                                                   *)

\* What such a step has to show: how its record moves, and what it does to the
\* files.
CreatorMoves(h, y) ==
    /\ creator' = [creator EXCEPT ![h] = y]
    /\ pass' = pass
    /\ quiet' => quiet /\ creator[h].pc # "idle"
    /\ y.pc \in InSpan => creator[h].pc \in InSpan \/ ~SpanExclusive
    /\ y.pc \in InSpan \ {"mkdir"} => nsDir'
    /\ y.pc \in PastLock =>
          \/ creator[h].pc \in PastLock /\ creator[h].key = y.key
          \/ KeyFree(y.key)
    /\ CreateFine(y)'
    /\ notes \subseteq notes'
    /\ nsDir => nsDir'

FilesTyped ==
    /\ notes \subseteq NoteKeys /\ oldNotes \subseteq notes
    /\ lockFiles \subseteq NoteKeys
    /\ nsCount \in Counts
    /\ nsDir \in BOOLEAN /\ died = FALSE /\ lowered \in BOOLEAN /\ quiet \in BOOLEAN
    /\ notes # {} \/ lockFiles # {} \/ nsCount # NoCount => nsDir

LEMMA Ns_Moves ==
  ASSUME NamespacesInductive, NEW h \in Creators, NEW y \in CreatorRecord, CreatorMoves(h, y),
         FilesTyped', CountFine'
  PROVE  NamespacesInductive'
<1>1. /\ creator \in [Creators -> CreatorRecord] /\ pass \in PassRecord /\ quiet \in BOOLEAN
      /\ creator' = [creator EXCEPT ![h] = y]
  BY DEF NamespacesInductive, NamespacesTypeOK, CreatorRecord, PassRecord, CreatorMoves
<1>2. /\ creator' \in [Creators -> CreatorRecord] /\ creator'[h] = y
      /\ \A g \in Creators \ {h} : creator'[g] = creator[g]
  BY <1>1
<1>3. NamespacesTypeOK' /\ CreatesSurvive'
  BY <1>1, <1>2 DEF FilesTyped, NamespacesTypeOK, CreatesSurvive, CreatorRecord, PassRecord, CreatorMoves
<1>4. pass.pc # "idle" => ~quiet'
  BY DEF CreatorMoves, NamespacesInductive, CreatorsFine, SpanFine
<1>5. CreatorsFine'
  <2>1. ASSUME NEW g \in Creators \ {h}, NEW z, z = creator[g] PROVE CreateFine(z)' /\ SpanFine(z)'
    <3>1. CreateFine(z) /\ SpanFine(z) /\ z \in CreatorRecord
      BY <1>1, <2>1 DEF NamespacesInductive, CreatorsFine
    <3>2. CreateFine(z)'
      <4>1. notes \subseteq notes'
        BY DEF CreatorMoves
      <4> QED
        BY <3>1, <4>1 DEF CreateFine, CreatorRecord
    <3>3. SpanFine(z)'
      <4>1. (nsDir => nsDir') /\ pass' = pass /\ (quiet' => quiet) /\ (pass.pc # "idle" => ~quiet')
        BY <1>4 DEF CreatorMoves
      <4>2. SpanExclusive' = SpanExclusive
        BY <4>1 DEF SpanExclusive
      <4> QED
        BY <3>1, <4>1, <4>2 DEF SpanFine
    <3> QED
      BY <3>2, <3>3
  <2>2. SpanFine(y)'
    <3>1. SpanFine(creator[h])
      BY DEF NamespacesInductive, CreatorsFine
    <3> QED
      BY <1>4, <3>1 DEF SpanFine, CreatorMoves, SpanExclusive
  <2>3. ASSUME NEW g \in Creators PROVE (CreateFine(creator[g]) /\ SpanFine(creator[g]))'
    <3>1. CASE g = h
      <4>1. CreateFine(y)' /\ SpanFine(y)' /\ creator'[g] = y
        BY <1>2, <2>2, <3>1 DEF CreatorMoves
      <4> QED
        BY <4>1 DEF CreateFine, SpanFine, SpanExclusive
    <3>2. CASE g # h
      <4>1. PICK z : z = creator[g]
        OBVIOUS
      <4>2. CreateFine(z)' /\ SpanFine(z)'
        BY <2>1, <3>2, <4>1
      <4> QED
        <5>1. creator'[g] = z
          BY <1>2, <3>2, <4>1
        <5> QED
          BY <4>2, <5>1 DEF CreateFine, SpanFine, SpanExclusive
    <3> QED
      BY <3>1, <3>2
  <2> QED
    BY <2>3 DEF CreatorsFine
<1>6. KeysApart'
  <2>1. ASSUME NEW g \in Creators \ {h}, creator'[g].pc \in PastLock, y.pc \in PastLock,
               creator'[g].key = y.key
        PROVE  FALSE
    BY <1>2, <2>1 DEF CreatorMoves, NamespacesInductive, KeysApart, KeyFree
  <2> QED
    BY <1>2, <2>1 DEF NamespacesInductive, KeysApart
<1>7. WalkFine(pass)'
  <2>1. WalkFine(pass) /\ pass' = pass
    BY DEF NamespacesInductive, CreatorMoves
  <2> QED
    BY <1>4, <2>1 DEF WalkFine
<1> QED
  BY <1>3, <1>5, <1>6, <1>7 DEF NamespacesInductive
LEMMA Ns_Parts ==
  ASSUME NamespacesInductive
  PROVE  /\ creator \in [Creators -> CreatorRecord] /\ pass \in PassRecord /\ FilesTyped /\ CountFine
         /\ IsFiniteSet(notes) /\ Cardinality(notes) \in Nat
         /\ IsFiniteSet(InFlight) /\ Cardinality(InFlight) \in Nat
         /\ \A h \in Creators : CreateFine(creator[h]) /\ SpanFine(creator[h])
<1>1. creator \in [Creators -> CreatorRecord] /\ pass \in PassRecord
  BY DEF NamespacesInductive, NamespacesTypeOK, CreatorRecord, PassRecord
<1>2. FilesTyped /\ CountFine
  BY DEF NamespacesInductive, NamespacesTypeOK, CreatesSurvive, FilesTyped
<1>3. notes \subseteq NoteKeys /\ InFlight \subseteq Creators
  BY <1>2 DEF FilesTyped, InFlight
<1>4. IsFiniteSet(notes) /\ IsFiniteSet(InFlight)
  BY <1>3, NamespacesAssumption, FS_Subset
<1>5. Cardinality(notes) \in Nat /\ Cardinality(InFlight) \in Nat
  BY <1>4, FS_CardinalityType
<1>6. \A h \in Creators : CreateFine(creator[h]) /\ SpanFine(creator[h])
  BY DEF NamespacesInductive, CreatorsFine
<1> QED
  BY <1>1, <1>2, <1>4, <1>5, <1>6

LEMMA Ns_InFlight ==
  ASSUME creator \in [Creators -> CreatorRecord], NEW h \in Creators, NEW y \in CreatorRecord,
         creator' = [creator EXCEPT ![h] = y]
  PROVE  InFlight' = IF y.reserved THEN InFlight \cup {h} ELSE InFlight \ {h}
<1>1. creator'[h] = y /\ \A g \in Creators \ {h} : creator'[g] = creator[g]
  OBVIOUS
<1> QED
  BY <1>1 DEF InFlight

\* What is given up without a note makes a count no worse.
LEMMA Ns_CountKept ==
  ASSUME NamespacesInductive, InFlight' \subseteq InFlight, notes' \subseteq notes,
         UNCHANGED <<nsCount, lowered>>
  PROVE  CountFine'
<1>1. /\ IsFiniteSet(notes) /\ Cardinality(notes) \in Nat
      /\ IsFiniteSet(InFlight) /\ Cardinality(InFlight) \in Nat /\ CountFine
  BY Ns_Parts
<1>2. Cardinality(InFlight') <= Cardinality(InFlight) /\ Cardinality(InFlight') \in Nat
      /\ Cardinality(notes') <= Cardinality(notes) /\ Cardinality(notes') \in Nat
  BY <1>1, FS_Subset, FS_CardinalityType
<1>3. nsCount # NoCount => nsCount \in Nat
  BY Ns_Parts DEF FilesTyped, Counts
<1>4. ASSUME nsCount # NoCount, ~lowered
      PROVE  nsCount >= Cardinality(notes') + Cardinality(InFlight')
  <2>1. nsCount >= Cardinality(notes) + Cardinality(InFlight)
    BY <1>1, <1>4 DEF CountFine, DropKeepsCovered, Covered
  <2> QED
    BY <1>1, <1>2, <1>3, <1>4, <2>1
<1>5. nsCount = NoCount => InFlight' = {}
  BY <1>1 DEF CountFine
<1> QED
  BY <1>4, <1>5 DEF CountFine, DropKeepsCovered, Covered

LEMMA Ns_Goto ==
  ASSUME NamespacesInductive, NEW h \in Creators,
         NEW c \in {"idle", "early", "persist", "span", "mkdir", "open", "exists", "gate",
                    "reserve", "write", "return"},
         CreatorGoto(h, c)
  PROVE  \E y \in CreatorRecord :
            /\ y.pc = c /\ y.key = creator[h].key /\ y.reserved = creator[h].reserved
            /\ creator' = [creator EXCEPT ![h] = y] /\ InFlight' = InFlight
<1>1. creator \in [Creators -> CreatorRecord]
  BY Ns_Parts
<1>2. PICK x \in CreatorRecord : x = creator[h]
  BY <1>1
<1>3. PICK y \in CreatorRecord : y = [x EXCEPT !.pc = c]
  BY DEF CreatorRecord
<1>4. y.pc = c /\ y.key = x.key /\ y.reserved = x.reserved
  BY <1>3 DEF CreatorRecord
<1>5. creator' = [creator EXCEPT ![h] = y]
  BY <1>2, <1>3 DEF CreatorGoto
<1>6. InFlight' = IF y.reserved THEN InFlight \cup {h} ELSE InFlight \ {h}
  BY <1>1, <1>5, Ns_InFlight
<1>7. InFlight' = InFlight
  BY <1>2, <1>4, <1>6 DEF InFlight
<1> QED
  BY <1>2, <1>4, <1>5, <1>7

\* A create that ends, however it ends.
LEMMA Ns_End ==
  ASSUME NamespacesInductive, NEW h \in Creators, CreatorDone(h), creator[h].pc # "idle",
         pass' = pass, quiet' = quiet, notes \subseteq notes', nsDir => nsDir',
         FilesTyped', CountFine'
  PROVE  NamespacesInductive'
<1>1. NoCreate \in CreatorRecord /\ NoCreate.pc = "idle" /\ NoCreate.reserved = FALSE
  BY DEF NoCreate, CreatorRecord
<1>2. CreatorMoves(h, NoCreate)
  BY <1>1 DEF CreatorMoves, CreatorDone, CreateFine, InSpan, PastLock
<1> QED
  BY <1>1, <1>2, Ns_Moves

LEMMA Ns_Freed ==
  ASSUME NamespacesInductive, NEW h \in Creators, CreatorDone(h)
  PROVE  InFlight' = InFlight \ {h}
<1>1. NoCreate \in CreatorRecord /\ NoCreate.reserved = FALSE
  BY DEF NoCreate, CreatorRecord
<1> QED
  BY <1>1, Ns_InFlight, Ns_Parts DEF CreatorDone

\* A create that ends without a change on disk.
LEMMA Ns_EndStill ==
  ASSUME NamespacesInductive, NEW h \in Creators, CreatorDone(h), creator[h].pc # "idle",
         UNCHANGED <<disk, nsCount, pass, nsHistory>>
  PROVE  NamespacesInductive'
<1>1. FilesTyped'
  BY Ns_Parts DEF FilesTyped, disk, nsHistory
<1>2. CountFine'
  BY Ns_Freed, Ns_CountKept DEF disk, nsHistory
<1> QED
  BY <1>1, <1>2, Ns_End DEF disk, nsHistory

\* A create that goes on without a change on disk.
LEMMA Ns_GoStill ==
  ASSUME NamespacesInductive, NEW h \in Creators,
         NEW c \in {"early", "persist", "span", "mkdir", "open", "exists", "gate",
                    "reserve", "write", "return"},
         CreatorGoto(h, c), creator[h].pc # "idle",
         UNCHANGED <<disk, nsCount, pass, nsHistory>>,
         c \in InSpan => creator[h].pc \in InSpan \/ (c = "mkdir" /\ ~SpanExclusive),
         c \in InSpan \ {"mkdir"} => creator[h].pc \in InSpan \ {"mkdir"},
         c \in PastLock => creator[h].pc \in PastLock,
         creator[h].reserved => c \in {"write", "return"},
         c = "return" => creator[h].reserved,
         c = "write" => creator[h].reserved \/ creator[h].key \in notes
  PROVE  NamespacesInductive'
<1>1. PICK y \in CreatorRecord :
            /\ y.pc = c /\ y.key = creator[h].key /\ y.reserved = creator[h].reserved
            /\ creator' = [creator EXCEPT ![h] = y] /\ InFlight' = InFlight
  BY Ns_Goto
<1>2. FilesTyped' /\ CountFine'
  BY <1>1, Ns_Parts, Ns_CountKept DEF FilesTyped, disk, nsHistory
<1>3. CreateFine(creator[h]) /\ SpanFine(creator[h])
  BY Ns_Parts
<1>4. CreateFine(y)'
  <2>1. notes' = notes
    BY DEF disk
  <2> QED
    BY <1>1, <1>3, <2>1 DEF CreateFine
<1>5. y.pc \in InSpan \ {"mkdir"} => nsDir'
  BY <1>1, <1>3 DEF SpanFine, disk
<1>6. CreatorMoves(h, y)
  BY <1>1, <1>4, <1>5 DEF CreatorMoves, disk, nsHistory
<1> QED
  BY <1>2, <1>6, Ns_Moves
----------------------------------------------------------------------------
(* The steps of a create.                                                  *)

LEMMA Ns_Start ==
  ASSUME NamespacesInductive, NEW h \in Creators, NEW k \in NoteKeys, StartCreate(h, k)
  PROVE  NamespacesInductive'
<1>1. PICK y \in CreatorRecord : y = [NoCreate EXCEPT !.pc = "early", !.key = k]
  BY DEF NoCreate, CreatorRecord
<1>2. y.pc = "early" /\ y.key = k /\ y.reserved = FALSE /\ creator' = [creator EXCEPT ![h] = y]
  BY <1>1 DEF NoCreate, CreatorRecord, StartCreate
<1>3. InFlight' = InFlight \ {h}
  BY <1>2, Ns_Parts, Ns_InFlight
<1>4. FilesTyped' /\ CountFine'
  BY <1>3, Ns_Parts, Ns_CountKept DEF FilesTyped, StartCreate, disk
<1>5. CreatorMoves(h, y)
  BY <1>2 DEF CreatorMoves, CreateFine, StartCreate, InSpan, PastLock, disk
<1> QED
  BY <1>4, <1>5, Ns_Moves

LEMMA Ns_EarlyCheck ==
  ASSUME NamespacesInductive, NEW h \in Creators, EarlyCheck(h)
  PROVE  NamespacesInductive'
<1>1. CreateFine(creator[h]) /\ creator[h].pc = "early"
  BY Ns_Parts DEF EarlyCheck
<1>2. ASSUME creator' = [creator EXCEPT ![h].pc = "persist", ![h].saw = Cardinality(notes)]
      PROVE  NamespacesInductive'
  <2>1. PICK x \in CreatorRecord : x = creator[h]
    BY Ns_Parts
  <2>2. PICK n \in Nat : n = Cardinality(notes)
    BY Ns_Parts
  <2>3. PICK y \in CreatorRecord : y = [x EXCEPT !.pc = "persist", !.saw = n]
    BY DEF CreatorRecord
  <2>4. y.pc = "persist" /\ y.key = x.key /\ y.reserved = x.reserved
    BY <2>3 DEF CreatorRecord
  <2>5. creator' = [creator EXCEPT ![h] = y]
    BY <1>2, <2>1, <2>2, <2>3
  <2>6. y.reserved = FALSE
    BY <1>1, <2>1, <2>4 DEF CreateFine, CreatorRecord
  <2>7. InFlight' = InFlight \ {h}
    BY <2>5, <2>6, Ns_Parts, Ns_InFlight
  <2>8. FilesTyped' /\ CountFine'
    BY <2>7, Ns_Parts, Ns_CountKept DEF FilesTyped, EarlyCheck, disk, nsHistory
  <2>9. CreatorMoves(h, y)
    BY <1>1, <2>1, <2>4, <2>5, <2>6 DEF CreatorMoves, CreateFine, EarlyCheck, InSpan, PastLock, disk, nsHistory
  <2> QED
    BY <2>8, <2>9, Ns_Moves
<1>3. UNCHANGED <<disk, nsCount, pass, nsHistory>>
  BY DEF EarlyCheck
<1>4. CASE CreatorDone(h)
  BY <1>1, <1>3, <1>4, Ns_EndStill
<1>5. CASE CreatorGoto(h, "span")
  BY <1>1, <1>3, <1>5, Ns_GoStill DEF CreateFine, InSpan, PastLock
<1> QED
  BY <1>2, <1>4, <1>5 DEF EarlyCheck

LEMMA Ns_EarlyPersist ==
  ASSUME NamespacesInductive, NEW h \in Creators, EarlyPersist(h)
  PROVE  NamespacesInductive'
<1>1. CreateFine(creator[h]) /\ creator[h].pc = "persist"
  BY Ns_Parts DEF EarlyPersist
<1>2. PICK x \in CreatorRecord : x = creator[h]
  BY Ns_Parts
<1>3. PICK n \in Nat : n = x.saw
  BY DEF CreatorRecord
<1>4. /\ nsCount' = n /\ notes' = notes /\ nsDir' = TRUE
      /\ UNCHANGED <<oldNotes, lockFiles, pass, creates, died, quiet>>
      /\ lowered' = (lowered \/ n < Cardinality(notes) + Cardinality(InFlight))
  BY <1>2, <1>3 DEF EarlyPersist
<1>5. FilesTyped'
  BY <1>4, Ns_Parts DEF FilesTyped, Counts
<1>6. n # NoCount
  BY NamespacesAssumption
<1>7. ASSUME InFlight' = InFlight PROVE CountFine'
  <2>1. PICK m \in Nat : m = Cardinality(notes) + Cardinality(InFlight)
    BY Ns_Parts
  <2>2. n >= m \/ n < m
    OBVIOUS
  <2>3. n >= m \/ lowered'
    BY <1>4, <2>1, <2>2
  <2>4. Cardinality(notes') + Cardinality(InFlight') = m
    BY <1>4, <1>7, <2>1
  <2> QED
    BY <1>4, <1>6, <2>3, <2>4 DEF CountFine, DropKeepsCovered, Covered
<1>8. CASE CreatorDone(h)
  <2>1. InFlight' = InFlight \ {h} /\ h \notin InFlight
    BY <1>1, <1>8, Ns_Freed DEF CreateFine, InFlight
  <2>2. InFlight' = InFlight
    BY <2>1
  <2> QED
    BY <1>1, <1>4, <1>5, <1>7, <1>8, <2>2, Ns_End
<1>9. CASE CreatorGoto(h, "span")
  <2>1. PICK y \in CreatorRecord :
            /\ y.pc = "span" /\ y.key = creator[h].key /\ y.reserved = creator[h].reserved
            /\ creator' = [creator EXCEPT ![h] = y] /\ InFlight' = InFlight
    BY <1>9, Ns_Goto
  <2>2. CreatorMoves(h, y)
    BY <1>1, <1>4, <2>1 DEF CreatorMoves, CreateFine, InSpan, PastLock
  <2> QED
    BY <1>5, <1>7, <2>1, <2>2, Ns_Moves
<1> QED
  BY <1>8, <1>9 DEF EarlyPersist

LEMMA Ns_TakeSpan ==
  ASSUME NamespacesInductive, NEW h \in Creators, TakeNsSpan(h)
  PROVE  NamespacesInductive'
<1>1. CreateFine(creator[h])
  BY Ns_Parts
<1> QED
  BY <1>1, Ns_GoStill DEF TakeNsSpan, CreateFine, InSpan, PastLock

LEMMA Ns_MakeNs ==
  ASSUME NamespacesInductive, NEW h \in Creators, MakeNs(h)
  PROVE  NamespacesInductive'
<1>1. CreateFine(creator[h])
  BY Ns_Parts
<1>2. PICK y \in CreatorRecord :
            /\ y.pc = "open" /\ y.key = creator[h].key /\ y.reserved = creator[h].reserved
            /\ creator' = [creator EXCEPT ![h] = y] /\ InFlight' = InFlight
  BY Ns_Goto DEF MakeNs
<1>3. FilesTyped' /\ CountFine'
  BY <1>2, Ns_Parts, Ns_CountKept DEF FilesTyped, MakeNs, nsHistory
<1>4. CreatorMoves(h, y)
  BY <1>1, <1>2 DEF CreatorMoves, CreateFine, InSpan, PastLock, MakeNs, nsHistory
<1> QED
  BY <1>3, <1>4, Ns_Moves

\* The directory is there: no pass removes it between the mkdir and the open.
LEMMA Ns_OpenNote ==
  ASSUME NamespacesInductive, NEW h \in Creators, OpenNote(h)
  PROVE  NamespacesInductive'
<1>1. CreateFine(creator[h]) /\ SpanFine(creator[h]) /\ creator[h].pc = "open"
  BY Ns_Parts DEF OpenNote
<1>2. nsDir
  BY <1>1 DEF SpanFine, InSpan
<1>3. PICK y \in CreatorRecord :
            /\ y.pc = "exists" /\ y.key = creator[h].key /\ y.reserved = creator[h].reserved
            /\ creator' = [creator EXCEPT ![h] = y] /\ InFlight' = InFlight
  BY <1>2, Ns_Goto DEF OpenNote
<1>4. creator[h].key \in NoteKeys
  BY <1>1 DEF CreateFine
<1>5. FilesTyped' /\ CountFine'
  BY <1>2, <1>3, <1>4, Ns_Parts, Ns_CountKept DEF FilesTyped, OpenNote
<1>6. CreatorMoves(h, y)
  BY <1>1, <1>2, <1>3 DEF CreatorMoves, CreateFine, InSpan, PastLock, OpenNote
<1> QED
  BY <1>5, <1>6, Ns_Moves

LEMMA Ns_ExistsNow ==
  ASSUME NamespacesInductive, NEW h \in Creators, ExistsNow(h)
  PROVE  NamespacesInductive'
<1>1. CreateFine(creator[h])
  BY Ns_Parts
<1> QED
  BY <1>1, Ns_GoStill DEF ExistsNow, CreateFine, InSpan, PastLock

\* Where there is no count nothing is reserved, so that the walk covers what
\* there is.
LEMMA Ns_CheckInGate ==
  ASSUME NamespacesInductive, NEW h \in Creators, CheckInGate(h)
  PROVE  NamespacesInductive'
<1>1. CreateFine(creator[h]) /\ SpanFine(creator[h]) /\ creator[h].pc = "gate"
  BY Ns_Parts DEF CheckInGate
<1>2. h \notin InFlight
  BY <1>1 DEF CreateFine, InFlight
<1>3. nsDir /\ UNCHANGED <<disk, pass, nsHistory>>
  BY <1>1 DEF SpanFine, InSpan, CheckInGate
<1>4. nsCount' \in Counts
  BY Ns_Parts DEF FilesTyped, Counts, CheckInGate, Figure
<1>5. FilesTyped'
  BY <1>3, <1>4, Ns_Parts DEF FilesTyped, disk, nsHistory
<1>6. ASSUME InFlight' = InFlight PROVE CountFine'
  <2>1. CASE nsCount' = nsCount
    BY <1>3, <1>6, <2>1, Ns_CountKept DEF disk, nsHistory
  <2>2. CASE nsCount = NoCount /\ nsCount' = Cardinality(notes)
    <3>1. InFlight = {} /\ Cardinality(InFlight) = 0
      BY <2>2, Ns_Parts, FS_EmptySet DEF CountFine
    <3>2. nsCount' >= Cardinality(notes) + 0
      BY <2>2, Ns_Parts
    <3> QED
      BY <1>3, <1>6, <3>1, <3>2 DEF CountFine, DropKeepsCovered, Covered, disk, nsHistory
  <2> QED
    BY <2>1, <2>2 DEF CheckInGate, Figure
<1>7. CASE CreatorDone(h)
  <2>1. InFlight' = InFlight
    BY <1>2, <1>7, Ns_Freed
  <2> QED
    BY <1>1, <1>3, <1>5, <1>6, <1>7, <2>1, Ns_End DEF disk, nsHistory
<1>8. CASE CreatorGoto(h, "reserve")
  <2>1. PICK y \in CreatorRecord :
            /\ y.pc = "reserve" /\ y.key = creator[h].key /\ y.reserved = creator[h].reserved
            /\ creator' = [creator EXCEPT ![h] = y] /\ InFlight' = InFlight
    BY <1>8, Ns_Goto
  <2>2. CreatorMoves(h, y)
    BY <1>1, <1>3, <2>1 DEF CreatorMoves, CreateFine, InSpan, PastLock, disk, nsHistory
  <2> QED
    BY <1>5, <1>6, <2>1, <2>2, Ns_Moves
<1> QED
  BY <1>7, <1>8 DEF CheckInGate

LEMMA Ns_Reserve ==
  ASSUME NamespacesInductive, NEW h \in Creators, ReserveNote(h)
  PROVE  NamespacesInductive'
<1>1. CreateFine(creator[h]) /\ SpanFine(creator[h]) /\ creator[h].pc = "reserve"
  BY Ns_Parts DEF ReserveNote
<1>2. PICK x \in CreatorRecord : x = creator[h]
  BY Ns_Parts
<1>3. PICK y \in CreatorRecord : y = [x EXCEPT !.pc = "write", !.reserved = TRUE]
  BY DEF CreatorRecord
<1>4. y.pc = "write" /\ y.key = x.key /\ y.reserved = TRUE
  BY <1>3 DEF CreatorRecord
<1>5. creator' = [creator EXCEPT ![h] = y]
  BY <1>2, <1>3 DEF ReserveNote
<1>6. InFlight' = InFlight \cup {h} /\ h \notin InFlight
  BY <1>1, <1>4, <1>5, Ns_InFlight, Ns_Parts DEF CreateFine, InFlight
<1>7. PICK m \in Nat : m = Cardinality(InFlight)
  BY Ns_Parts
<1>8. Cardinality(InFlight') = m + 1
  BY <1>6, <1>7, Ns_Parts, FS_AddElement
<1>9. nsDir /\ UNCHANGED <<disk, pass, nsHistory>>
  BY <1>1 DEF SpanFine, InSpan, ReserveNote
<1>10. PICK f \in Nat : f = Figure
  BY Ns_Parts DEF FilesTyped, Counts, Figure
<1>11. nsCount' = f + 1 /\ nsCount' # NoCount /\ nsCount' \in Counts
  BY <1>10, NamespacesAssumption DEF ReserveNote, Counts
<1>12. FilesTyped'
  BY <1>9, <1>11, Ns_Parts DEF FilesTyped, disk, nsHistory
<1>13. ASSUME ~lowered PROVE f >= Cardinality(notes) + m
  <2>1. CASE nsCount = NoCount
    <3>1. m = 0 /\ f = Cardinality(notes)
      BY <1>7, <1>10, <2>1, Ns_Parts, FS_EmptySet DEF CountFine, Figure
    <3> QED
      BY <3>1, Ns_Parts
  <2>2. CASE nsCount # NoCount
    BY <1>7, <1>10, <1>13, <2>2, Ns_Parts DEF CountFine, DropKeepsCovered, Covered, Figure
  <2> QED
    BY <2>1, <2>2
<1>14. ASSUME ~lowered PROVE f + 1 >= Cardinality(notes) + (m + 1)
  BY <1>13, <1>14, Ns_Parts
<1>15. CountFine'
  BY <1>8, <1>9, <1>11, <1>14 DEF CountFine, DropKeepsCovered, Covered, disk, nsHistory
<1>16. CreatorMoves(h, y)
  BY <1>1, <1>2, <1>4, <1>5, <1>9 DEF CreatorMoves, CreateFine, InSpan, PastLock, disk, nsHistory
<1> QED
  BY <1>12, <1>15, <1>16, Ns_Moves
\* A write that reserved nothing finds its note, and a reserved one turns its
\* reservation into one.
LEMMA Ns_WriteNote ==
  ASSUME NamespacesInductive, NEW h \in Creators, WriteNote(h)
  PROVE  NamespacesInductive'
<1>1. CreateFine(creator[h]) /\ creator[h].pc = "write"
  BY Ns_Parts DEF WriteNote
<1>2. PICK k \in NoteKeys : k = creator[h].key
  BY <1>1 DEF CreateFine
<1>3. /\ notes' = notes \cup {k} /\ oldNotes' = oldNotes \ {k} /\ CreatorDone(h)
      /\ UNCHANGED <<nsDir, lockFiles, nsCount, pass, nsHistory>>
  BY <1>2 DEF WriteNote
<1>4. nsDir
  BY <1>1, Ns_Parts DEF SpanFine, InSpan
<1>5. FilesTyped'
  BY <1>3, <1>4, Ns_Parts DEF FilesTyped, nsHistory
<1>6. InFlight' = InFlight \ {h}
  BY <1>3, Ns_Freed
<1>7. CountFine'
  <2>1. CASE k \in notes
    <3>1. notes' = notes
      BY <1>3, <2>1
    <3> QED
      BY <1>3, <1>6, <3>1, Ns_CountKept DEF nsHistory
  <2>2. CASE k \notin notes
    <3>1. h \in InFlight
      BY <1>1, <1>2, <2>2, Ns_Parts DEF CreateFine, InFlight
    <3>2. PICK m \in Nat, c \in Nat : m = Cardinality(InFlight) /\ c = Cardinality(notes)
      BY Ns_Parts
    <3>3. Cardinality(InFlight') = m - 1 /\ Cardinality(notes') = c + 1
      BY <1>3, <1>6, <2>2, <3>1, <3>2, Ns_Parts, FS_AddElement, FS_RemoveElement
    <3>4. nsCount # NoCount
      BY <3>1, Ns_Parts DEF CountFine
    <3>5. ASSUME ~lowered PROVE nsCount >= (c + 1) + (m - 1)
      <4>1. nsCount >= c + m /\ nsCount \in Nat
        BY <3>2, <3>4, <3>5, Ns_Parts DEF CountFine, DropKeepsCovered, Covered, FilesTyped, Counts
      <4> QED
        BY <3>2, <4>1
    <3> QED
      BY <1>3, <3>3, <3>4, <3>5 DEF CountFine, DropKeepsCovered, Covered, nsHistory
  <2> QED
    BY <2>1, <2>2
<1> QED
  BY <1>1, <1>3, <1>5, <1>7, Ns_End DEF nsHistory

LEMMA Ns_RefuseNote ==
  ASSUME NamespacesInductive, NEW h \in Creators, RefuseNote(h)
  PROVE  NamespacesInductive'
<1>1. CASE creator[h].reserved
  BY <1>1, Ns_GoStill DEF RefuseNote, InSpan, PastLock
<1>2. CASE ~creator[h].reserved
  BY <1>2, Ns_EndStill DEF RefuseNote
<1> QED
  BY <1>1, <1>2

LEMMA Ns_GiveBack ==
  ASSUME NamespacesInductive, NEW h \in Creators, GiveBack(h)
  PROVE  NamespacesInductive'
<1>1. h \in InFlight /\ nsDir
  BY Ns_Parts DEF GiveBack, CreateFine, SpanFine, InFlight, InSpan
<1>2. PICK n \in Nat : n = nsCount
  BY <1>1, Ns_Parts DEF CountFine, FilesTyped, Counts
<1>3. n # NoCount /\ Figure = n
  BY <1>1, <1>2, Ns_Parts DEF CountFine, Figure
<1>4. PICK k \in Nat : k = IF n = 0 THEN 0 ELSE n - 1
  OBVIOUS
<1>5. nsCount' = k /\ k # NoCount /\ CreatorDone(h) /\ UNCHANGED <<disk, pass, nsHistory>>
  BY <1>3, <1>4, NamespacesAssumption DEF GiveBack
<1>6. FilesTyped'
  BY <1>1, <1>5, Ns_Parts DEF FilesTyped, disk, nsHistory, Counts
<1>7. InFlight' = InFlight \ {h}
  BY <1>5, Ns_Freed
<1>8. PICK m \in Nat, c \in Nat : m = Cardinality(InFlight) /\ c = Cardinality(notes)
  BY Ns_Parts
<1>9. Cardinality(InFlight') = m - 1 /\ m # 0
  BY <1>1, <1>7, <1>8, Ns_Parts, FS_RemoveElement, FS_EmptySet
<1>10. ASSUME ~lowered PROVE k >= c + (m - 1)
  <2>1. n >= c + m
    BY <1>2, <1>3, <1>8, <1>10, Ns_Parts DEF CountFine, DropKeepsCovered, Covered
  <2> QED
    BY <1>4, <1>8, <1>9, <2>1
<1>11. CountFine'
  BY <1>5, <1>8, <1>9, <1>10 DEF CountFine, DropKeepsCovered, Covered, disk, nsHistory
<1> QED
  BY <1>5, <1>6, <1>11, Ns_End DEF disk, nsHistory, GiveBack

LEMMA Ns_Kill ==
  ASSUME NamespacesInductive, NEW h \in Creators, KillCreator(h)
  PROVE  NamespacesInductive'
BY Ns_EndStill DEF KillCreator

----------------------------------------------------------------------------
(* The steps of the pass.                                                  *)

\* A step of the pass takes none of the notes a writer has its hands on, nor a
\* directory that is in use.
PassMoves(y) ==
    /\ pass' = y /\ creator' = creator
    /\ FilesTyped' /\ CountFine' /\ WalkFine(y)'
    /\ \A h \in Creators : creator[h].pc = "write" /\ creator[h].key \in notes => creator[h].key \in notes'
    /\ \A h \in Creators : creator[h].pc \in InSpan =>
          /\ pass'.pc \notin {"drop", "rmdir"}
          /\ nsDir => nsDir'
    /\ quiet' /\ y.pc # "idle" => (quiet /\ pass.pc # "idle") \/ \A h \in Creators : creator[h].pc = "idle"

LEMMA Ns_PassMoves ==
  ASSUME NamespacesInductive, NEW y \in PassRecord, PassMoves(y)
  PROVE  NamespacesInductive'
<1>1. NamespacesTypeOK' /\ CreatesSurvive'
  BY Ns_Parts DEF PassMoves, FilesTyped, NamespacesTypeOK, CreatesSurvive, CreatorRecord, PassRecord
<1>2. CreatorsFine'
  <2>1. ASSUME NEW h \in Creators, NEW z, z = creator[h] PROVE CreateFine(z)' /\ SpanFine(z)'
    <3>1. CreateFine(z) /\ SpanFine(z) /\ z \in CreatorRecord
      BY <2>1, Ns_Parts
    <3>2. CreateFine(z)'
      <4>1. z.pc = "write" /\ z.key \in notes => z.key \in notes'
        BY <2>1 DEF PassMoves
      <4> QED
        BY <3>1, <4>1 DEF CreateFine, CreatorRecord
    <3>3. SpanFine(z)'
      <4>1. z.pc \in InSpan => ~SpanExclusive' /\ (nsDir => nsDir')
        BY <2>1 DEF PassMoves, SpanExclusive
      <4>2. quiet' /\ pass'.pc # "idle" => (quiet /\ pass.pc # "idle") \/ z.pc = "idle"
        BY <2>1 DEF PassMoves
      <4>3. z.pc # "idle" /\ pass'.pc # "idle" => ~quiet'
        BY <3>1, <4>2 DEF SpanFine
      <4> QED
        BY <3>1, <4>1, <4>3 DEF SpanFine
    <3> QED
      BY <3>2, <3>3
  <2>2. ASSUME NEW h \in Creators PROVE (CreateFine(creator[h]) /\ SpanFine(creator[h]))'
    <3>1. PICK z : z = creator[h]
      OBVIOUS
    <3>2. creator'[h] = z /\ CreateFine(z)' /\ SpanFine(z)'
      BY <2>1, <3>1 DEF PassMoves
    <3> QED
      BY <3>2 DEF CreateFine, SpanFine, SpanExclusive
  <2> QED
    BY <2>2 DEF CreatorsFine
<1>3. KeysApart'
  BY DEF NamespacesInductive, KeysApart, PassMoves
<1>4. WalkFine(pass)'
  BY DEF PassMoves, WalkFine
<1> QED
  BY <1>1, <1>2, <1>3, <1>4 DEF NamespacesInductive, PassMoves
LEMMA Ns_ReadBefore ==
  ASSUME NamespacesInductive, ReadBefore
  PROVE  NamespacesInductive'
<1>1. PICK n \in 0..MaxPasses, b \in Counts : n = pass.runs + 1 /\ b = nsCount
  BY Ns_Parts, NamespacesAssumption DEF ReadBefore, PassRecord, FilesTyped
<1>2. 0 \in 0..Cardinality(NoteKeys)
  BY NamespacesAssumption, FS_CardinalityType
<1>3. PICK y \in PassRecord : y = [pc |-> "walk", before |-> b, walked |-> 0, todo |-> NoteKeys,
                                   emptied |-> FALSE, runs |-> n]
  BY <1>1, <1>2 DEF PassRecord
<1>4. pass' = y /\ y.pc = "walk" /\ y.walked = 0 /\ y.todo = NoteKeys
  BY <1>1, <1>3 DEF ReadBefore
<1>5. FilesTyped'
  BY Ns_Parts DEF FilesTyped, ReadBefore, disk
<1>6. CountFine'
  BY Ns_CountKept DEF ReadBefore, disk, InFlight
<1>7. NoteKeys \ NoteKeys = {} /\ notes' \ NoteKeys = {}
  BY Ns_Parts DEF FilesTyped, ReadBefore, disk
<1>8. WalkFine(y)'
  BY <1>4, <1>7, FS_EmptySet DEF WalkFine
<1>9. PassMoves(y)
  BY <1>4, <1>5, <1>6, <1>8 DEF PassMoves, ReadBefore, disk
<1> QED
  BY <1>9, Ns_PassMoves

\* What the walk has counted of the notes it passed.
LEMMA Ns_Visit ==
  ASSUME NamespacesInductive, NEW k \in NoteKeys, VisitNote(k)
  PROVE  NamespacesInductive'
<1>1. PICK x \in PassRecord : x = pass
  BY Ns_Parts
<1>2. WalkFine(x) /\ x.pc = "walk" /\ k \in x.todo
  BY <1>1 DEF NamespacesInductive, VisitNote
<1>3. PICK w \in Nat, t \in SUBSET NoteKeys : w = x.walked /\ t = x.todo
  BY NamespacesAssumption, FS_CardinalityType DEF PassRecord
<1>4. PICK u \in SUBSET NoteKeys : u = t \ {k}
  BY <1>3
<1>5. NoteKeys \ u = (NoteKeys \ t) \cup {k} /\ k \notin NoteKeys \ t
  BY <1>2, <1>3, <1>4
<1>6. PICK c \in Nat : c = Cardinality(NoteKeys \ t)
  BY NamespacesAssumption, FS_Subset, FS_CardinalityType
<1>7. Cardinality(NoteKeys \ u) = c + 1
  BY <1>5, <1>6, NamespacesAssumption, FS_Subset, FS_AddElement
<1>8. Cardinality(NoteKeys \ u) <= Cardinality(NoteKeys) /\ Cardinality(NoteKeys) \in Nat
  BY NamespacesAssumption, FS_Subset, FS_CardinalityType
<1>9. w <= c
  BY <1>2, <1>3, <1>6 DEF WalkFine
<1>10. CASE k \in oldNotes
  <2>1. /\ KeyFree(k) /\ notes' = notes \ {k} /\ oldNotes' = oldNotes \ {k}
        /\ pass' = [x EXCEPT !.todo = x.todo \ {k}, !.emptied = TRUE]
        /\ UNCHANGED <<nsDir, lockFiles, nsCount, creator, nsHistory>>
    BY <1>1, <1>10 DEF VisitNote
  <2>2. PICK y \in PassRecord : y = [x EXCEPT !.todo = u, !.emptied = TRUE]
    BY DEF PassRecord
  <2>3. pass' = y /\ y.pc = "walk" /\ y.todo = u /\ y.walked = w
    BY <1>2, <1>3, <1>4, <2>1, <2>2 DEF PassRecord
  <2>4. FilesTyped'
    BY <2>1, Ns_Parts DEF FilesTyped, nsHistory
  <2>5. CountFine'
    <3>1. InFlight' = InFlight /\ notes' \subseteq notes
      BY <2>1 DEF InFlight
    <3> QED
      BY <2>1, <3>1, Ns_CountKept DEF nsHistory
  <2>6. notes' \ u = notes \ t
    BY <1>2, <1>3, <1>4, <2>1
  <2>7. w <= Cardinality(NoteKeys \ u)
    BY <1>6, <1>7, <1>9
  <2>8. WalkFine(y)'
    BY <1>2, <1>3, <2>1, <2>3, <2>6, <2>7 DEF WalkFine, nsHistory
  <2>9. PassMoves(y)
    BY <1>1, <1>2, <2>1, <2>3, <2>4, <2>5, <2>8 DEF PassMoves, KeyFree, PastLock, nsHistory
  <2> QED
    BY <2>9, Ns_PassMoves
<1>11. CASE k \notin oldNotes
  <2>1. PICK v \in Nat : v = w + (IF k \in notes THEN 1 ELSE 0)
    OBVIOUS
  <2>2. v <= Cardinality(NoteKeys \ u)
    BY <1>6, <1>7, <1>9, <2>1
  <2>3. v \in 0..Cardinality(NoteKeys)
    BY <1>7, <1>6, <1>8, <2>2
  <2>4. PICK y \in PassRecord : y = [x EXCEPT !.todo = u, !.walked = v]
    BY <2>3 DEF PassRecord
  <2>5. pass' = [x EXCEPT !.todo = x.todo \ {k}, !.walked = x.walked + (IF k \in notes THEN 1 ELSE 0)]
        /\ UNCHANGED <<disk, nsCount, creator, nsHistory>>
    BY <1>1, <1>11 DEF VisitNote, disk
  <2>6. pass' = y /\ y.pc = "walk" /\ y.todo = u /\ y.walked = v
    BY <1>2, <1>3, <1>4, <2>1, <2>4, <2>5 DEF PassRecord
  <2>7. FilesTyped' /\ CountFine'
    <3>1. InFlight' = InFlight /\ notes' \subseteq notes
      BY <2>5 DEF InFlight, disk
    <3> QED
      BY <2>5, <3>1, Ns_Parts, Ns_CountKept DEF FilesTyped, disk, nsHistory
  <2>8. ASSUME quiet PROVE v = Cardinality(notes \ u)
    <3>1. w = Cardinality(notes \ t) /\ IsFiniteSet(notes \ t) /\ IsFiniteSet(notes)
      BY <1>2, <1>3, <2>8, Ns_Parts, FS_Subset DEF WalkFine
    <3>2. CASE k \in notes
      <4>1. notes \ u = (notes \ t) \cup {k} /\ k \notin notes \ t
        BY <1>2, <1>3, <1>4, <3>2
      <4> QED
        BY <2>1, <3>1, <3>2, <4>1, FS_AddElement
    <3>3. CASE k \notin notes
      <4>1. notes \ u = notes \ t
        BY <1>4, <3>3
      <4>2. v = w
        BY <2>1, <3>3
      <4> QED
        BY <3>1, <4>1, <4>2
    <3> QED
      BY <3>2, <3>3
  <2>9. WalkFine(y)'
    <3>1. notes' = notes /\ quiet' = quiet
      BY <2>5 DEF disk, nsHistory
    <3> QED
      BY <2>2, <2>6, <2>8, <3>1 DEF WalkFine
  <2>10. PassMoves(y)
    BY <1>1, <1>2, <2>5, <2>6, <2>7, <2>9 DEF PassMoves, disk, nsHistory
  <2> QED
    BY <2>10, Ns_PassMoves
<1> QED
  BY <1>10, <1>11

LEMMA Ns_SweepLocks ==
  ASSUME NamespacesInductive, SweepNoteLocks
  PROVE  NamespacesInductive'
<1>1. PICK x \in PassRecord : x = pass
  BY Ns_Parts
<1>2. PICK swept \in SUBSET {k \in lockFiles \ notes : KeyFree(k)} :
         /\ lockFiles' = lockFiles \ swept
         /\ pass' = [x EXCEPT !.pc = "decide", !.emptied = x.emptied \/ swept # {}]
  BY <1>1 DEF SweepNoteLocks
<1>3. PICK e \in BOOLEAN : e = (x.emptied \/ swept # {})
  OBVIOUS
<1>4. PICK y \in PassRecord : y = [x EXCEPT !.pc = "decide", !.emptied = e]
  BY DEF PassRecord
<1>5. pass' = y /\ y.pc = "decide" /\ y.todo = x.todo /\ y.walked = x.walked
  BY <1>2, <1>3, <1>4 DEF PassRecord
<1>6. /\ x.todo = {} /\ x.pc = "walk" /\ WalkFine(x)
      /\ UNCHANGED <<notes, oldNotes, nsDir, nsCount, creator, nsHistory>>
  BY <1>1 DEF SweepNoteLocks, NamespacesInductive
<1>7. FilesTyped' /\ CountFine'
  <2>1. InFlight' = InFlight /\ notes' \subseteq notes
    BY <1>6 DEF InFlight
  <2> QED
    BY <1>2, <1>6, <2>1, Ns_Parts, Ns_CountKept DEF FilesTyped, nsHistory
<1>8. WalkFine(y)'
  BY <1>5, <1>6 DEF WalkFine, nsHistory
<1>9. PassMoves(y)
  BY <1>1, <1>5, <1>6, <1>7, <1>8 DEF PassMoves, nsHistory
<1> QED
  BY <1>9, Ns_PassMoves

LEMMA Ns_Idle ==
  ASSUME NamespacesInductive, PassDone, creator' = creator, quiet' = quiet, notes' = notes,
         FilesTyped', CountFine', \A h \in Creators : creator[h].pc \in InSpan => (nsDir => nsDir')
  PROVE  NamespacesInductive'
<1>1. PICK n \in 0..MaxPasses : n = pass.runs
  BY Ns_Parts DEF PassRecord
<1>2. PICK y \in PassRecord : y = [NoPass EXCEPT !.runs = n]
  <2>1. 0 \in 0..Cardinality(NoteKeys)
    BY NamespacesAssumption, FS_CardinalityType
  <2> QED
    BY <2>1 DEF PassRecord, NoPass, Counts
<1>3. pass' = y /\ y.pc = "idle" /\ y.walked = 0 /\ y.todo = {}
  BY <1>1, <1>2 DEF PassDone, NoPass
<1>4. 0 <= Cardinality(NoteKeys \ {})
  BY NamespacesAssumption, FS_CardinalityType, FS_Subset
<1>5. WalkFine(y)'
  BY <1>3, <1>4 DEF WalkFine
<1>6. PassMoves(y)
  BY <1>3, <1>5 DEF PassMoves
<1> QED
  BY <1>6, Ns_PassMoves

LEMMA Ns_PassGoto ==
  ASSUME NamespacesInductive, NEW c \in {"span", "drop", "rmdir"}, PassGoto(c), pass.pc # "idle",
         c \in {"drop", "rmdir"} => \A h \in Creators : creator[h].pc \notin InSpan,
         UNCHANGED <<disk, creator, nsHistory>>, c = "rmdir" => nsCount' = NoCount,
         FilesTyped', CountFine'
  PROVE  NamespacesInductive'
<1>1. PICK x \in PassRecord : x = pass
  BY Ns_Parts
<1>2. PICK y \in PassRecord : y = [x EXCEPT !.pc = c]
  BY DEF PassRecord
<1>3. pass' = y /\ y.pc = c /\ y.todo = x.todo /\ y.walked = x.walked
  BY <1>1, <1>2 DEF PassGoto, PassRecord
<1>4. WalkFine(x)
  BY <1>1 DEF NamespacesInductive
<1>5. WalkFine(y)'
  BY <1>3, <1>4 DEF WalkFine
<1>6. PassMoves(y)
  BY <1>1, <1>3, <1>5 DEF PassMoves, disk, nsHistory
<1> QED
  BY <1>6, Ns_PassMoves

LEMMA Ns_Decide ==
  ASSUME NamespacesInductive, DecideDrop
  PROVE  NamespacesInductive'
<1>1. FilesTyped' /\ CountFine' /\ InFlight' = InFlight /\ UNCHANGED <<disk, nsCount, creator, nsHistory>>
  <2>1. InFlight' = InFlight /\ notes' \subseteq notes
    BY DEF InFlight, DecideDrop, disk
  <2> QED
    BY <2>1, Ns_Parts, Ns_CountKept DEF FilesTyped, DecideDrop, disk, nsHistory
<1>2. CASE PassGoto("span")
  BY <1>1, <1>2, Ns_PassGoto DEF DecideDrop
<1>3. CASE PassDone
  BY <1>1, <1>3, Ns_Idle DEF disk, nsHistory
<1> QED
  BY <1>2, <1>3 DEF DecideDrop

LEMMA Ns_TakeSpanForDrop ==
  ASSUME NamespacesInductive, TakeSpanForDrop
  PROVE  NamespacesInductive'
<1>1. FilesTyped' /\ CountFine'
  <2>1. InFlight' = InFlight /\ notes' \subseteq notes
    BY DEF InFlight, TakeSpanForDrop, disk
  <2> QED
    BY <2>1, Ns_Parts, Ns_CountKept DEF FilesTyped, TakeSpanForDrop, disk, nsHistory
<1>2. \A h \in Creators : creator[h].pc \notin InSpan
  BY DEF TakeSpanForDrop, NobodyCreates, SpanShared
<1> QED
  BY <1>1, <1>2, Ns_PassGoto DEF TakeSpanForDrop

\* The span is exclusive: nothing is reserved that the count would be needed for.
LEMMA Ns_DropCount ==
  ASSUME NamespacesInductive, DropCount
  PROVE  NamespacesInductive'
<1>1. \A h \in Creators : creator[h].pc \notin InSpan
  BY Ns_Parts DEF DropCount, SpanFine, SpanExclusive
<1>2. InFlight' = {}
  BY <1>1, Ns_Parts DEF InFlight, CreateFine, InSpan, DropCount
<1>3. FilesTyped' /\ CountFine'
  BY <1>2, Ns_Parts DEF FilesTyped, Counts, CountFine, DropKeepsCovered, Covered, DropCount, disk, nsHistory
<1>4. CASE PassGoto("rmdir")
  BY <1>1, <1>3, <1>4, Ns_PassGoto DEF DropCount
<1>5. CASE PassDone
  BY <1>3, <1>5, Ns_Idle DEF DropCount, disk, nsHistory
<1> QED
  BY <1>4, <1>5 DEF DropCount

LEMMA Ns_RemoveNs ==
  ASSUME NamespacesInductive, RemoveNs
  PROVE  NamespacesInductive'
<1>1. \A h \in Creators : creator[h].pc \notin InSpan
  BY Ns_Parts DEF RemoveNs, SpanFine, SpanExclusive
<1>2. InFlight' = InFlight /\ notes' = notes
  BY DEF InFlight, RemoveNs
<1>3. FilesTyped' /\ CountFine'
  BY <1>2, Ns_Parts, Ns_CountKept DEF FilesTyped, RemoveNs, NsEmpty, nsHistory
<1> QED
  BY <1>1, <1>2, <1>3, Ns_Idle DEF RemoveNs, nsHistory

LEMMA Ns_Age ==
  ASSUME NamespacesInductive, NotesAge
  PROVE  NamespacesInductive'
<1>1. InFlight' = InFlight /\ notes' = notes
  BY DEF InFlight, NotesAge
<1>2. FilesTyped' /\ CountFine'
  BY <1>1, Ns_Parts, Ns_CountKept DEF FilesTyped, NotesAge, nsHistory
<1>3. PICK y \in PassRecord : y = pass
  BY Ns_Parts
<1>4. WalkFine(y)'
  BY <1>1, <1>3 DEF NamespacesInductive, WalkFine, NotesAge, nsHistory
<1>5. PassMoves(y)
  BY <1>1, <1>2, <1>3, <1>4 DEF PassMoves, NotesAge, nsHistory
<1> QED
  BY <1>5, Ns_PassMoves

LEMMA Ns_Next == NamespacesInductive /\ [NamespacesNext]_nsVars => NamespacesInductive'
<1> SUFFICES ASSUME NamespacesInductive, [NamespacesNext]_nsVars PROVE NamespacesInductive'
  OBVIOUS
<1>1. CASE UNCHANGED nsVars
  BY <1>1 DEF nsVars, NamespacesInductive, NamespacesTypeOK, CreatesSurvive, CreatorsFine, CreateFine,
              SpanFine, SpanExclusive, KeysApart, CountFine, InFlight, DropKeepsCovered, Covered, WalkFine
<1>2. ASSUME NEW h \in Creators,
             \/ \E k \in NoteKeys : StartCreate(h, k)
             \/ EarlyCheck(h) \/ EarlyPersist(h) \/ TakeNsSpan(h) \/ MakeNs(h)
             \/ OpenNote(h) \/ ExistsNow(h) \/ CheckInGate(h) \/ ReserveNote(h)
             \/ WriteNote(h) \/ RefuseNote(h) \/ GiveBack(h) \/ KillCreator(h)
      PROVE  NamespacesInductive'
  BY <1>2, Ns_Start, Ns_EarlyCheck, Ns_EarlyPersist, Ns_TakeSpan, Ns_MakeNs, Ns_OpenNote, Ns_ExistsNow,
     Ns_CheckInGate, Ns_Reserve, Ns_WriteNote, Ns_RefuseNote, Ns_GiveBack, Ns_Kill
<1>3. CASE ReadBefore \/ (\E k \in NoteKeys : VisitNote(k)) \/ SweepNoteLocks \/ DecideDrop
           \/ TakeSpanForDrop \/ DropCount \/ RemoveNs \/ NotesAge
  BY <1>3, Ns_ReadBefore, Ns_Visit, Ns_SweepLocks, Ns_Decide, Ns_TakeSpanForDrop, Ns_DropCount,
     Ns_RemoveNs, Ns_Age
<1> QED
  BY <1>1, <1>2, <1>3 DEF NamespacesNext

\* A namespace goes, with its directory and its count, under nobody's create
\* (`_reap_pass`, `_drop_emptied_namespaces`).
THEOREM NamespaceGoesUnused == NamespacesSpec => []NamespaceInv
<1>1. NamespacesInductive => NamespaceInv
  BY DEF NamespacesInductive, NamespaceInv, CountFine
<1> QED
  BY <1>1, Ns_Init, Ns_Next, PTL DEF NamespacesSpec

\* A pass during which nobody creates leaves an exact count or none: its walk has
\* counted what is there.
THEOREM QuietPassesHeal == NamespacesSpec => QuietPassHeals
<1>1. ASSUME NamespacesInductive, [NamespacesNext]_nsVars, pass.pc # "idle", pass'.pc = "idle", quiet
      PROVE  nsCount' \in {NoCount, Cardinality(notes')}
  <2>1. \A h \in Creators : creator[h].pc = "idle"
    BY <1>1, Ns_Parts DEF SpanFine
  <2>2. WalkFine(pass)
    BY <1>1 DEF NamespacesInductive
  <2>3. CASE DecideDrop
    <3>1. pass.walked = Cardinality(notes) /\ UNCHANGED <<notes, nsCount>>
      <4>1. notes \ {} = notes
        OBVIOUS
      <4> QED
        BY <1>1, <2>2, <2>3, <4>1 DEF WalkFine, DecideDrop, disk
    <3>2. nsCount # NoCount => nsDir
      BY <1>1, Ns_Parts DEF FilesTyped
    <3>3. ~PassGoto("span")
      <4>1. ASSUME PassGoto("span") PROVE FALSE
        <5>1. PICK x \in PassRecord : x = pass
          BY <1>1, Ns_Parts
        <5>2. pass' = [x EXCEPT !.pc = "span"]
          BY <4>1, <5>1 DEF PassGoto
        <5> QED
          BY <1>1, <5>2 DEF PassRecord
      <4> QED
        BY <4>1
    <3> QED
      BY <2>3, <3>1, <3>2, <3>3 DEF DecideDrop, HeldStill
  <2>4. CASE DropCount
    BY <2>4 DEF DropCount
  <2>5. CASE RemoveNs
    BY <1>1, <2>2, <2>5 DEF RemoveNs, WalkFine
  <2>6. CASE ReadBefore
    BY <1>1, <2>6 DEF ReadBefore
  <2>7. CASE TakeSpanForDrop
    <3>1. PICK x \in PassRecord : x = pass
      BY <1>1, Ns_Parts
    <3>2. pass' = [x EXCEPT !.pc = "drop"]
      BY <2>7, <3>1 DEF PassGoto, TakeSpanForDrop
    <3> QED
      BY <1>1, <3>2 DEF PassRecord
  <2>8. CASE SweepNoteLocks
    <3>1. PICK x \in PassRecord, e \in BOOLEAN : pass' = [x EXCEPT !.pc = "decide", !.emptied = e]
      BY <1>1, <2>8, Ns_Parts DEF SweepNoteLocks
    <3> QED
      BY <1>1, <3>1 DEF PassRecord
  <2>9. ASSUME NEW k \in NoteKeys, VisitNote(k) PROVE FALSE
    <3>1. PICK x \in PassRecord : x = pass
      BY <1>1, Ns_Parts
    <3>2. pass'.pc = x.pc
      BY <2>9, <3>1 DEF VisitNote, PassRecord
    <3> QED
      BY <1>1, <3>1, <3>2
  <2>10. pass' = pass => FALSE
    BY <1>1
  <2>11. ASSUME NEW h \in Creators,
             \/ \E k \in NoteKeys : StartCreate(h, k)
             \/ EarlyCheck(h) \/ EarlyPersist(h) \/ TakeNsSpan(h) \/ MakeNs(h)
             \/ OpenNote(h) \/ ExistsNow(h) \/ CheckInGate(h) \/ ReserveNote(h)
             \/ WriteNote(h) \/ RefuseNote(h) \/ GiveBack(h) \/ KillCreator(h)
         PROVE  pass' = pass
    BY <2>11 DEF StartCreate, EarlyCheck, EarlyPersist, TakeNsSpan, MakeNs, OpenNote, ExistsNow,
                 CheckInGate, ReserveNote, WriteNote, RefuseNote, GiveBack, KillCreator
  <2>12. NotesAge \/ UNCHANGED nsVars => pass' = pass
    BY DEF NotesAge, nsVars
  <2> QED
    BY <1>1, <2>3, <2>4, <2>5, <2>6, <2>7, <2>8, <2>9, <2>10, <2>11, <2>12 DEF NamespacesNext
<1>2. NamespacesInductive /\ [NamespacesNext]_nsVars
      => [pass.pc # "idle" /\ pass'.pc = "idle" /\ quiet
            => nsCount' \in {NoCount, Cardinality(notes')}]_nsVars
  BY <1>1
<1> QED
  BY <1>2, Ns_Init, Ns_Next, PTL DEF NamespacesSpec, QuietPassHeals
=============================================================================
