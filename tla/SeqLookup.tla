------------------------------ MODULE SeqLookup ------------------------------
(***************************************************************************)
(* The lock-free reader of the sequence state: `_seq_field` of               *)
(* src/src/store.py, which every room read runs.  It takes no lock, so the  *)
(* setters and the split of SeqState go on between its steps, and it keeps  *)
(* a verdict about the copy of a shard it parsed, so that it can search the *)
(* bytes of the same copy the next time.  An operator may reformat a shard  *)
(* in place.                                                               *)
(***************************************************************************)
EXTENDS SeqState

CONSTANT MaxEdits   \* bound: reformattings of a shard by hand

VARIABLES
  version,   \* version[s]: (inode, size, mtime, ctime) of .seqstate.<s>, as a number
  plain,     \* plain[s]: the shard is as the writers write it
  checked,   \* _SEQ_CHECKED: the version of each shard found in that form, 0 for none
  ask,       \* the read in progress
  edits

lookVars == <<version, plain, checked, ask, edits>>
lookupVars == <<vars, lookVars>>

Zero == [floor |-> 0, gen |-> 0]
NoCopy == [version |-> 0, plain |-> TRUE, entry |-> None]
NoRead(r) == [step |-> "off", room |-> r, seen |-> 0, copy |-> NoCopy, raw |-> NoCopy,
              told |-> Zero, had |-> {}, retired |-> FALSE]

ShardAsked == ShardOf[ask.room]

\* What the file holds for the room that is read.
FileNow(s, r) == [version |-> version[s], plain |-> plain[s], entry |-> shard[r]]

----------------------------------------------------------------------------
(* _seq_entry and _seq_field.                                              *)

AskOpen(r) ==
  /\ ask.step = "off"
  /\ LET now == FileNow(ShardOf[r], r)
     IN ask' = [NoRead(r) EXCEPT !.step = "read", !.seen = now.version, !.copy = now, !.had = {Lookup(r)}]
  /\ UNCHANGED <<vars, version, plain, checked, edits>>

AskRead ==
  /\ ask.step = "read"
  /\ ask' = [ask EXCEPT !.step = "after", !.raw = ask.copy]
  /\ UNCHANGED <<vars, version, plain, checked, edits>>

\* The copy that was opened has the stamp it had, before the read and after it.
Stable == ask.copy.version = ask.seen

Searched == Stable /\ checked[ShardAsked] = ask.seen

\* A byte search finds a name in the writers' form alone, a parse in any.
Answer == IF Searched /\ ~ask.raw.plain THEN None ELSE ask.raw.entry

\* Bug: the stamp taken after the read.
Verdict_StampedAfter == ask.copy.version

\* The stamp a verdict is kept under is the one taken before the read.
Verdict == IF Stable THEN ask.seen ELSE checked[ShardAsked]

MapWanted == Answer = None

AskAfter ==
  /\ ask.step = "after"
  /\ ask' = IF MapWanted THEN [ask EXCEPT !.step = "map"]
                         ELSE [ask EXCEPT !.step = "told", !.told = Answer]
  /\ checked' = IF ~Searched /\ ask.raw.plain THEN [checked EXCEPT ![ShardAsked] = Verdict] ELSE checked
  /\ UNCHANGED <<vars, version, plain, edits>>

AskMap ==
  /\ ask.step = "map"
  /\ ask' = [ask EXCEPT !.step = "told",
                        !.told = IF legacy[ask.room] # None THEN legacy[ask.room] ELSE Zero]
  /\ UNCHANGED <<vars, version, plain, checked, edits>>

AskDone ==
  /\ ask.step = "told"
  /\ ask' = NoRead(ask.room)
  /\ UNCHANGED <<vars, version, plain, checked, edits>>

Asks == (\E r \in Rooms : AskOpen(r)) \/ AskRead \/ AskAfter \/ AskMap \/ AskDone

----------------------------------------------------------------------------
(* The store meanwhile.                                                    *)

\* The entries the room has had since the read began, and whether the map went.
Watched ==
  ask' = IF ask.step = "off" THEN ask
         ELSE [ask EXCEPT !.had = @ \cup {Lookup(r)' : r \in {ask.room}},
                          !.retired = @ \/ (legacy # NoMap /\ legacy' = NoMap)]

\* `_replace`: a new inode, in the writers' form.
Rewritten(s) ==
  /\ version' = [version EXCEPT ![s] = @ + 1]
  /\ plain' = [plain EXCEPT ![s] = TRUE]

StoreStep ==
  /\ \/ \E p \in Setters : /\ Begin(p) \/ Lock(p) \/ ReadEntry(p) \/ ReadFallback(p) \/ ReadState(p) \/ CrashSetter(p)
                           /\ UNCHANGED <<version, plain>>
     \/ \E p \in Setters : Replace(p) /\ Rewritten(ShardOf[room[p]])
     \/ SplitMerge /\ Rewritten(at)
     \/ (SplitStart \/ (\E s \in Shards : SplitLock(s)) \/ SplitRetire \/ SplitStops) /\ UNCHANGED <<version, plain>>
  /\ Watched
  /\ UNCHANGED <<checked, edits>>

\* An operator's editor writes in place: the inode stays, its ctime moves, and a
\* reader that has the file open sees the new bytes.
HandEdit(s) ==
  /\ edits < MaxEdits
  /\ edits' = edits + 1
  /\ version' = [version EXCEPT ![s] = @ + 1]
  /\ plain' = [plain EXCEPT ![s] = FALSE]
  /\ ask' = IF s = ShardAsked /\ ask.copy.version = version[s]
            THEN [ask EXCEPT !.copy = [@ EXCEPT !.version = version[s] + 1, !.plain = FALSE]]
            ELSE ask
  /\ UNCHANGED <<vars, checked>>

LookupInit ==
  /\ Init
  /\ version = [s \in Shards |-> 1]
  /\ plain = [s \in Shards |-> TRUE]
  /\ checked = [s \in Shards |-> 0]
  /\ ask = NoRead(CHOOSE r \in Rooms : TRUE)
  /\ edits = 0

LookupNext == Asks \/ StoreStep \/ \E s \in Shards : HandEdit(s)

LookupSpec == LookupInit /\ [][LookupNext]_lookupVars

----------------------------------------------------------------------------
(* Properties.                                                             *)

\* A read of the floor or the generation tells what the room had at some moment
\* of the read, whatever setters, the split and an editor do between its steps;
\* the one exception is a room it takes for new, when the map went away between
\* the miss in the shard and the look in the map (`_seq_field`, `_seq_entry`).
ToldWasTrue ==
  ask.step = "told" => ask.told \in ask.had \/ (ask.told = Zero /\ ask.retired)

\* The verdict that lets a reader skip the parse is about the copy that is
\* there: a shard whose current version is the one checked is in the writers'
\* form (`_SEQ_CHECKED`).
VerdictStands == \A s \in Shards : checked[s] = version[s] => plain[s]

\* What a reader of the sequence state is told, and what it may skip, rest on the
\* copy that was there (`_seq_field`).
LookupInv == ToldWasTrue /\ VerdictStands

(* What the code does not keep; TLC refutes it: a room with a floor is never  *)
(* taken for new ("a name whose state has not been split yet still answers   *)
(* correctly", `_seq_field`).  The miss in the shard comes before the split's *)
(* merge, the look in the map after its rename.                             *)
NeverTakenForNew == ask.step = "told" /\ ask.told = Zero => Zero \in ask.had
=============================================================================
