------------------------------ MODULE SeqState ------------------------------
(***************************************************************************)
(* The sequence state of src/src/store.py: every room's floor and           *)
(* generation, in one file per shard, with the pre-shard map as the fallback *)
(* until `_split_seq_state` has partitioned it.  Handlers run               *)
(* `_set_seq_entry` for their rooms, the reap pass runs the split; all of    *)
(* them may die between two steps.  A file is replaced whole and atomically. *)
(*   crash       a process dies between two steps                           *)
(*   unreadable  one read of a shard meets an OSError                       *)
(***************************************************************************)
EXTENDS Integers, FiniteSets

CONSTANTS Rooms,
          Shards,
          ShardOf,   \* _shard
          None,      \* a map without the room
          Setters,   \* processes running _set_seq_entry
          Floors,    \* high-water marks a reap may record
          Seeds,     \* entries a store may start with
          Env,
          MaxSets    \* bound: calls of _set_seq_entry in one behaviour

Entry == [floor : Nat, gen : Nat]

ASSUME SeqAssumption ==
  /\ ShardOf \in [Rooms -> Shards]
  /\ None \notin Entry
  /\ Floors \subseteq Nat
  /\ Seeds \subseteq Entry
  /\ Env \subseteq {"crash", "unreadable"}
  /\ MaxSets \in Nat
  /\ Rooms # {} /\ Shards # {}

VARIABLES
  shard,    \* shard[r]: r's entry in .seqstate.<shard>
  legacy,   \* legacy[r]: r's entry in .seqstate, all None when it is gone
  backup,   \* .seqstate.pre-shard exists
  pc,       \* where each setter is
  room,     \* the room it records
  mark,     \* the floor a reap records, None for a create
  gen,      \* the generation it read
  base,     \* the shard it read, to write it back
  spc,      \* where the split is
  first,    \* it found no backup
  moved,    \* the map it read
  todo,     \* shards it has still to merge
  at,       \* the shard it is merging
  sets

mapVars == <<shard, legacy, backup>>
setVars == <<pc, room, mark, gen, base>>
splitVars == <<spc, first, moved, todo, at>>
vars == <<mapVars, setVars, splitVars, sets>>

NoMap == [r \in Rooms |-> None]

\* _seq_field: the shard's entry, then the pre-shard map's, then "never existed".
Lookup(r) ==
  IF shard[r] # None THEN shard[r]
  ELSE IF legacy[r] # None THEN legacy[r]
  ELSE [floor |-> 0, gen |-> 0]

----------------------------------------------------------------------------
(* The shard locks: who holds one is read off the program counters.         *)

Holds(p) == pc[p] \in {"entry", "fallback", "state", "replace"}

ShardFree(s) ==
  /\ \A p \in Setters : Holds(p) => ShardOf[room[p]] # s
  /\ ~(spc = "merge" /\ at = s)

----------------------------------------------------------------------------
(* _set_seq_entry.                                                         *)

Go(p, from, to) == pc[p] = from /\ pc' = [pc EXCEPT ![p] = to]

Begin(p) ==
  /\ Go(p, "idle", "lock")
  /\ sets < MaxSets
  /\ sets' = sets + 1
  /\ \E r \in Rooms : room' = [room EXCEPT ![p] = r]
  /\ \E f \in Floors \cup {None} : mark' = [mark EXCEPT ![p] = f]
  /\ UNCHANGED <<mapVars, gen, base, splitVars>>

Lock(p) ==
  /\ Go(p, "lock", "entry")
  /\ ShardFree(ShardOf[room[p]])
  /\ UNCHANGED <<mapVars, room, mark, gen, base, splitVars, sets>>

\* _seq_entry: a shard that cannot be read has no entry for anybody.
Seen(r) == {shard[r]} \cup (IF "unreadable" \in Env THEN {None} ELSE {})

ReadEntry(p) ==
  /\ \E e \in Seen(room[p]) :
       IF e # None
       THEN Go(p, "entry", "state") /\ gen' = [gen EXCEPT ![p] = e.gen]
       ELSE Go(p, "entry", "fallback") /\ UNCHANGED gen
  /\ UNCHANGED <<mapVars, room, mark, base, splitVars, sets>>

ReadFallback(p) ==
  /\ Go(p, "fallback", "state")
  /\ gen' = [gen EXCEPT ![p] = IF legacy[room[p]] # None THEN legacy[room[p]].gen ELSE 0]
  /\ UNCHANGED <<mapVars, room, mark, base, splitVars, sets>>

\* _read_seq_state: the whole shard, or nothing when it cannot be read.
ReadState(p) ==
  /\ Go(p, "state", "replace")
  /\ \E map \in {shard} \cup (IF "unreadable" \in Env THEN {NoMap} ELSE {}) :
       base' = [base EXCEPT ![p] = [r \in Rooms |-> IF ShardOf[r] = ShardOf[room[p]] THEN map[r] ELSE None]]
  /\ UNCHANGED <<mapVars, room, mark, gen, splitVars, sets>>

\* Locals end with the call.
Leave(p) ==
  /\ mark' = [mark EXCEPT ![p] = None]
  /\ gen' = [gen EXCEPT ![p] = 0]
  /\ base' = [base EXCEPT ![p] = NoMap]
  /\ UNCHANGED room

Recorded(p) ==
  [floor |-> IF mark[p] = None THEN 0 ELSE mark[p],
   gen   |-> gen[p] + (IF mark[p] = None THEN 1 ELSE 0)]

Replace(p) ==
  /\ Go(p, "replace", "idle")
  /\ shard' = [r \in Rooms |-> IF r = room[p] THEN Recorded(p)
                              ELSE IF ShardOf[r] = ShardOf[room[p]] THEN base[p][r]
                              ELSE shard[r]]
  /\ Leave(p)
  /\ UNCHANGED <<legacy, backup, splitVars, sets>>

CrashSetter(p) ==
  /\ "crash" \in Env
  /\ pc[p] # "idle"
  /\ pc' = [pc EXCEPT ![p] = "idle"]
  /\ Leave(p)
  /\ UNCHANGED <<mapVars, splitVars, sets>>

Setter(p) ==
  \/ Begin(p) \/ Lock(p) \/ ReadEntry(p) \/ ReadFallback(p) \/ ReadState(p) \/ Replace(p) \/ CrashSetter(p)

----------------------------------------------------------------------------
(* _split_seq_state.                                                       *)

SGo(from, to) == spc = from /\ spc' = to

SplitStart ==
  /\ SGo("off", "next")
  /\ first' = ~backup
  /\ moved' = legacy
  /\ todo' = {ShardOf[r] : r \in {q \in Rooms : legacy[q] # None}}
  /\ UNCHANGED <<mapVars, setVars, at, sets>>

SplitLock(s) ==
  /\ SGo("next", "merge")
  /\ s \in todo
  /\ ShardFree(s)
  /\ at' = s
  /\ UNCHANGED <<mapVars, setVars, first, moved, todo, sets>>

\* On the first split what a setter put in the shard meanwhile is newer than the
\* map; a map that came back is newer than the shard.
Merged_MapWins(r) == IF moved[r] # None THEN moved[r] ELSE shard[r]
Merged(r) ==
  IF first THEN (IF shard[r] # None THEN shard[r] ELSE moved[r])
           ELSE (IF moved[r] # None THEN moved[r] ELSE shard[r])

SplitMerge ==
  /\ SGo("merge", "next")
  /\ shard' = [r \in Rooms |-> IF ShardOf[r] = at THEN Merged(r) ELSE shard[r]]
  /\ todo' = todo \ {at}
  /\ UNCHANGED <<legacy, backup, setVars, first, moved, at, sets>>

\* legacy.replace(backup), or unlink when there is one already.
SplitRetire ==
  /\ SGo("next", "off")
  /\ todo = {}
  /\ legacy' = NoMap
  /\ backup' = (backup \/ legacy # NoMap)
  /\ first' = FALSE /\ moved' = NoMap /\ UNCHANGED at
  /\ UNCHANGED <<shard, setVars, todo, sets>>

\* A crash, or an OSError the split swallows.
SplitStops ==
  /\ "crash" \in Env
  /\ spc # "off"
  /\ spc' = "off"
  /\ first' = FALSE /\ moved' = NoMap /\ todo' = {} /\ UNCHANGED at
  /\ UNCHANGED <<mapVars, setVars, sets>>

Split == SplitStart \/ (\E s \in Shards : SplitLock(s)) \/ SplitMerge \/ SplitRetire \/ SplitStops

----------------------------------------------------------------------------
\* A store before its split, after it, in the middle of one that failed, or with
\* a map that a pre-shard worker wrote after it.
Init ==
  /\ shard \in [Rooms -> Seeds \cup {None}]
  /\ legacy \in [Rooms -> Seeds \cup {None}]
  /\ backup \in BOOLEAN
  /\ pc = [p \in Setters |-> "idle"]
  /\ room = [p \in Setters |-> CHOOSE r \in Rooms : TRUE]
  /\ mark = [p \in Setters |-> None]
  /\ gen = [p \in Setters |-> 0]
  /\ base = [p \in Setters |-> NoMap]
  /\ spc = "off" /\ first = FALSE /\ moved = NoMap /\ todo = {}
  /\ at = CHOOSE s \in Shards : TRUE
  /\ sets = 0

Next == (\E p \in Setters : Setter(p)) \/ Split

Spec == Init /\ [][Next]_vars

----------------------------------------------------------------------------
(* Properties.                                                             *)

TypeOK ==
  /\ shard \in [Rooms -> Entry \cup {None}]
  /\ legacy \in [Rooms -> Entry \cup {None}]
  /\ backup \in BOOLEAN
  /\ pc \in [Setters -> {"idle", "lock", "entry", "fallback", "state", "replace"}]
  /\ room \in [Setters -> Rooms]
  /\ mark \in [Setters -> Floors \cup {None}]
  /\ gen \in [Setters -> Nat]
  /\ base \in [Setters -> [Rooms -> Entry \cup {None}]]
  /\ spc \in {"off", "next", "merge"} /\ first \in BOOLEAN
  /\ moved \in [Rooms -> Entry \cup {None}]
  /\ todo \subseteq Shards /\ at \in Shards
  /\ sets \in Nat

\* A shard lock has one holder; what a setter read under it is still the room's
\* generation when it writes, although the split retires the map meanwhile; and
\* the split works on the map that is there, of which nothing is missing from the
\* shards it is through with.
OneHolder ==
  /\ \A p, q \in Setters : Holds(p) /\ Holds(q) /\ ShardOf[room[p]] = ShardOf[room[q]] => p = q
  /\ \A p \in Setters : Holds(p) /\ spc = "merge" => ShardOf[room[p]] # at

ReadStands ==
  \A p \in Setters :
    /\ pc[p] = "fallback" => shard[room[p]] = None
    /\ pc[p] \in {"state", "replace"} => gen[p] = Lookup(room[p]).gen
    /\ pc[p] = "replace" =>
         \A r \in Rooms : ShardOf[r] = ShardOf[room[p]] => base[p][r] = shard[r]

SplitInv ==
  spc # "off" =>
    /\ moved = legacy /\ first = ~backup
    /\ spc = "merge" => at \in todo
    /\ \A r \in Rooms : legacy[r] # None /\ ShardOf[r] \notin todo => shard[r] # None

Inductive == TypeOK /\ OneHolder /\ ReadStands /\ SplitInv

\* The promise, with the map of a pre-shard worker as what may be adopted.
Returned == [r \in Rooms |-> IF backup THEN legacy[r] ELSE None]
Promise == INSTANCE SeqPromise WITH entry <- [r \in Rooms |-> Lookup(r)], returned <- Returned

\* A room's floor and generation change by its own creates and reaps alone: not
\* by those of another room in its shard, not by the split, and not by a crash of
\* either (#489; `_set_seq_entry`, `_split_seq_state`).
KeepsEntries == Promise!Spec

\* "two rooms sharing a shard cannot lose each other's update" (`_set_seq_entry`):
\* recording one room leaves what another has.
OthersKept ==
  [][\A p \in Setters : pc[p] = "replace" /\ pc'[p] = "idle" =>
       \A r \in Rooms \ {room[p]} : Lookup(r)' = Lookup(r)]_vars
=============================================================================
