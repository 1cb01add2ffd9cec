----------------------------- MODULE Ownership -----------------------------
(***************************************************************************)
(* Who may write to one d- room.  Three guard notes decide: its owner, its *)
(* allow-list and the counter of burnt nonces.  Signed note writes claim   *)
(* the room, hand it over and publish the list; each is a chain of reads,  *)
(* a compare-and-set of the counter and a last write, with no lock held    *)
(* from one to the next.  Room writes read the owner and the list and then *)
(* append.  The reaper deletes guard notes a week after their last write   *)
(* unless the room is in use.                                              *)
(*                                                                         *)
(* Signatures are external: a request is what its signer signed.           *)
(***************************************************************************)
EXTENDS Integers, FiniteSets

CONSTANTS
    OwnerKeys,      \* did:keys
    Nobody,         \* no key: an unsigned write, an absent note
    Lists,          \* the allow-lists an owner publishes
    NoteWriters,    \* handlers of signed note writes
    RoomWriters,    \* handlers of room writes
    Conditions,     \* TRUE for ?if_absent=1, FALSE for an unconditional write
    MaxNonce,       \* bound of the nonces clients sign with
    MaxPosts,       \* bound of the room's sequence
    MaxWeeks        \* bound of the weeks that pass

Guards == {"owner", "allow", "nonce"}

ASSUME OwnershipAssumption ==
    /\ Nobody \notin OwnerKeys \cup NoteWriters \cup Guards
    /\ Lists \subseteq (SUBSET OwnerKeys) \ {{}}
    /\ Conditions \subseteq BOOLEAN
    /\ MaxNonce \in Nat \ {0}
    /\ {MaxPosts, MaxWeeks} \subseteq Nat

VARIABLES
    note,       \* the guard notes, Nobody for one that does not exist
    recent,     \* the guard notes written within IDLE_SECONDS
    emptying,   \* the note writer that holds the owner note's lock, or Nobody
    roomSeq,    \* last_seq(room): its records, or its floor once it is reaped
    inUse,      \* the room file exists and was written to within IDLE_SECONDS
    nw,         \* the note writers
    rw,         \* the room writers
    reaping,    \* the guard note the pass found unguarded and idle, or Nobody
    weeks,      \* weeks passed
    permitted   \* history: room writers that were permitted at some instant
                \* of their request

ownVars == <<note, recent, emptying, roomSeq, inUse, nw, rw, reaping, weeks,
             permitted>>

NoteValue == [owner : OwnerKeys \cup {Nobody},
              allow : (SUBSET OwnerKeys) \cup {Nobody},
              nonce : (1..MaxNonce) \cup {Nobody}]

Idle == [pc |-> "idle", ns |-> "owner", signer |-> Nobody, value |-> Nobody,
         nonce |-> 1, ifAbsent |-> FALSE, read |-> Nobody]
NoPost == [pc |-> "idle", signer |-> Nobody, keys |-> {}]

NoteRequest == [pc : {"idle", "seq", "list", "empty", "burn", "spend", "write"},
                ns : {"owner", "allow"},
                signer : OwnerKeys \cup {Nobody},
                value : OwnerKeys \cup Lists \cup {Nobody},
                nonce : 1..MaxNonce,
                ifAbsent : BOOLEAN,
                read : (1..MaxNonce) \cup {Nobody}]

Post == [pc : {"idle", "owner", "allow", "append"},
         signer : OwnerKeys \cup {Nobody},
         keys : SUBSET OwnerKeys]

OwnershipTypeOK ==
    /\ note \in NoteValue
    /\ recent \subseteq Guards
    /\ emptying \in NoteWriters \cup {Nobody}
    /\ roomSeq \in 0..MaxPosts
    /\ inUse \in BOOLEAN
    /\ nw \in [NoteWriters -> NoteRequest]
    /\ \A w \in NoteWriters : emptying = w <=> nw[w].pc = "empty"
    /\ rw \in [RoomWriters -> Post]
    /\ reaping \in Guards \cup {Nobody}
    /\ weeks \in 0..MaxWeeks
    /\ permitted \subseteq RoomWriters

OwnershipInit ==
    /\ note = [owner |-> Nobody, allow |-> Nobody, nonce |-> Nobody]
    /\ recent = {}
    /\ emptying = Nobody
    /\ roomSeq = 0
    /\ inUse = FALSE
    /\ nw = [w \in NoteWriters |-> Idle]
    /\ rw = [w \in RoomWriters |-> NoPost]
    /\ reaping = Nobody
    /\ weeks = 0
    /\ permitted = {}

---------------------------------------------------------------------------
Exists(ns) == note[ns] # Nobody

\* What _room_write_gate lets through when nothing moves under it.
MayPost(signer, notes) ==
    \/ notes.owner = Nobody
    \/ signer = notes.owner
    \/ notes.allow # Nobody /\ signer \in notes.allow

\* Every step that writes a note may make a waiting room write legitimate.
WatchPosts ==
    permitted' = permitted \cup
        {w \in RoomWriters : rw[w].pc # "idle" /\ MayPost(rw[w].signer, note')}

\* _replace under the note's own lock, which an emptying claim holds for the
\* owner note.
PutNote(ns, value) ==
    /\ ns = "owner" => emptying = Nobody
    /\ note' = [note EXCEPT ![ns] = value]
    /\ recent' = recent \cup {ns}
    /\ WatchPosts

NoteUnchanged == UNCHANGED <<note, recent, permitted>>
Answer(w) == nw' = [nw EXCEPT ![w] = Idle]
NoteGoto(w, pc) == nw' = [nw EXCEPT ![w].pc = pc]

---------------------------------------------------------------------------
\* Signed note writes.

\* _note_write_gate, after the signature is verified, reads the owner: an owned
\* room answers to its owner alone, an unowned one to a key that claims it for
\* itself, and has no list.  Every other write is a 403 that changes nothing.
HandOver(w) ==
    /\ nw[w].pc = "idle" /\ Exists("owner")
    /\ \E k \in OwnerKeys, n \in 1..MaxNonce, c \in Conditions :
          nw' = [nw EXCEPT ![w] = [Idle EXCEPT !.pc = "burn", !.ns = "owner",
                    !.signer = note.owner, !.value = k, !.nonce = n, !.ifAbsent = c]]
    /\ NoteUnchanged /\ UNCHANGED <<emptying, roomSeq, inUse, rw, reaping, weeks>>

PublishList(w) ==
    /\ nw[w].pc = "idle" /\ Exists("owner")
    /\ \E l \in Lists, n \in 1..MaxNonce, c \in Conditions :
          nw' = [nw EXCEPT ![w] = [Idle EXCEPT !.pc = "burn", !.ns = "allow",
                    !.signer = note.owner, !.value = l, !.nonce = n, !.ifAbsent = c]]
    /\ NoteUnchanged /\ UNCHANGED <<emptying, roomSeq, inUse, rw, reaping, weeks>>

FirstClaim(w) ==
    /\ nw[w].pc = "idle" /\ ~Exists("owner")
    /\ \E k \in OwnerKeys, n \in 1..MaxNonce, c \in Conditions :
          nw' = [nw EXCEPT ![w] = [Idle EXCEPT !.pc = "seq", !.ns = "owner",
                    !.signer = k, !.value = k, !.nonce = n, !.ifAbsent = c]]
    /\ NoteUnchanged /\ UNCHANGED <<emptying, roomSeq, inUse, rw, reaping, weeks>>

\* A room that has messages, or had, can no longer be claimed.
ReadSeq(w) ==
    /\ nw[w].pc = "seq"
    /\ IF roomSeq > 0 THEN Answer(w) ELSE NoteGoto(w, "list")
    /\ NoteUnchanged /\ UNCHANGED <<emptying, roomSeq, inUse, rw, reaping, weeks>>

\* Bug: any list there is goes.
ListIsLeftOver_Any == note.allow \notin {Nobody, {}}

ListIsLeftOver == ~Exists("owner") /\ note.allow # Nobody

\* Under the owner note's lock the claim looks again: only while there is no
\* owner does a list left over from an earlier one have to go.
LockList(w) ==
    /\ nw[w].pc = "list" /\ emptying = Nobody
    /\ IF ListIsLeftOver
       THEN emptying' = w /\ NoteGoto(w, "empty")
       ELSE emptying' = emptying /\ NoteGoto(w, "burn")
    /\ NoteUnchanged /\ UNCHANGED <<roomSeq, inUse, rw, reaping, weeks>>

LockAfter == Nobody

\* The list becomes "none", which names no key; then the lock is released.
EmptyList(w) ==
    /\ nw[w].pc = "empty"
    /\ PutNote("allow", {})
    /\ emptying' = LockAfter
    /\ NoteGoto(w, "burn")
    /\ UNCHANGED <<roomSeq, inUse, rw, reaping, weeks>>

\* _burn_nonce reads the counter and refuses a nonce it has passed.
ReadNonce(w) ==
    /\ nw[w].pc = "burn"
    /\ IF Exists("nonce") /\ nw[w].nonce <= note.nonce THEN Answer(w)
       ELSE nw' = [nw EXCEPT ![w].pc = "spend", ![w].read = note.nonce]
    /\ NoteUnchanged /\ UNCHANGED <<emptying, roomSeq, inUse, rw, reaping, weeks>>

\* Bug: the nonce is written without a condition.
NonceUnmoved_Blindly(w) == TRUE

NonceUnmoved(w) == note.nonce = nw[w].read

\* Compare-and-set against the counter that was read; the loser gets a 409.
SpendNonce(w) ==
    /\ nw[w].pc = "spend"
    /\ IF NonceUnmoved(w)
       THEN /\ PutNote("nonce", nw[w].nonce)
            /\ nw' = [nw EXCEPT ![w].pc = "write", ![w].read = Nobody]
       ELSE NoteUnchanged /\ Answer(w)
    /\ UNCHANGED <<emptying, roomSeq, inUse, rw, reaping, weeks>>

\* note_set: the condition is evaluated under the note's lock.
WriteNote(w) ==
    /\ nw[w].pc = "write"
    /\ IF nw[w].ifAbsent /\ Exists(nw[w].ns)
       THEN NoteUnchanged
       ELSE PutNote(nw[w].ns, nw[w].value)
    /\ Answer(w)
    /\ UNCHANGED <<emptying, roomSeq, inUse, rw, reaping, weeks>>

---------------------------------------------------------------------------
\* Room writes.

PostUnchanged == UNCHANGED <<note, recent, emptying, roomSeq, inUse, nw,
                             reaping, weeks>>
EndPost(w) == /\ rw' = [rw EXCEPT ![w] = NoPost]
              /\ permitted' = permitted \ {w}
Pass(w) == /\ rw' = [rw EXCEPT ![w].pc = "append", ![w].keys = {}]
           /\ UNCHANGED permitted

\* _room_write_gate's first read: an unowned room takes anyone's writes, an
\* owned one signed writes only.
GateRead(w) ==
    /\ rw[w].pc = "idle" /\ roomSeq < MaxPosts
    /\ \E k \in OwnerKeys \cup {Nobody} :
          /\ Exists("owner") => k # Nobody
          /\ rw' = [rw EXCEPT ![w] = [pc |-> IF Exists("owner") THEN "owner" ELSE "append",
                                      signer |-> k, keys |-> {}]]
          /\ permitted' = IF MayPost(k, note) THEN permitted \cup {w} ELSE permitted
    /\ PostUnchanged

\* _allowed_keys reads the owner again: none now, nobody is let in.
AllowedOwner(w) ==
    /\ rw[w].pc = "owner"
    /\ IF Exists("owner")
       THEN /\ rw' = [rw EXCEPT ![w].pc = "allow", ![w].keys = {note.owner}]
            /\ UNCHANGED permitted
       ELSE EndPost(w)
    /\ PostUnchanged

\* Bug: a room without a list takes every key.
Listed_ByAbsence(key) == note.allow = Nobody \/ key \in note.allow

Listed(key) == Exists("allow") /\ key \in note.allow

\* ... and then the list.
AllowedList(w) ==
    /\ rw[w].pc = "allow"
    /\ IF rw[w].signer \in rw[w].keys \/ Listed(rw[w].signer)
       THEN Pass(w) ELSE EndPost(w)
    /\ PostUnchanged

AppendPost(w) ==
    /\ rw[w].pc = "append" /\ roomSeq < MaxPosts
    /\ roomSeq' = roomSeq + 1
    /\ inUse' = TRUE
    /\ EndPost(w)
    /\ UNCHANGED <<note, recent, emptying, nw, reaping, weeks>>

---------------------------------------------------------------------------
\* The reaper.

\* _guards_a_live_room, then _reapable on the entry the walk holds.
FindIdleNote(ns) ==
    /\ reaping = Nobody
    /\ Exists(ns) /\ ns \notin recent /\ ~inUse
    /\ reaping' = ns
    /\ UNCHANGED <<note, recent, emptying, roomSeq, inUse, nw, rw, weeks, permitted>>

\* The recheck under the note's lock asks the note's age again, not the room's.
DeleteIdleNote ==
    /\ reaping # Nobody
    /\ reaping = "owner" => emptying = Nobody
    /\ note' = IF reaping \in recent THEN note
               ELSE [note EXCEPT ![reaping] = Nobody]
    /\ WatchPosts
    /\ reaping' = Nobody
    /\ UNCHANGED <<recent, emptying, roomSeq, inUse, nw, rw, weeks>>

\* A week in which neither the room nor its notes are written to.
WeekPasses ==
    /\ weeks < MaxWeeks
    /\ \A w \in NoteWriters : nw[w].pc = "idle"
    /\ \A w \in RoomWriters : rw[w].pc = "idle"
    /\ reaping = Nobody
    /\ weeks' = weeks + 1
    /\ recent' = {} /\ inUse' = FALSE
    /\ UNCHANGED <<note, emptying, roomSeq, nw, rw, reaping, permitted>>

NoteStep(w) ==
    \/ HandOver(w) \/ PublishList(w) \/ FirstClaim(w) \/ ReadSeq(w) \/ LockList(w)
    \/ EmptyList(w) \/ ReadNonce(w) \/ SpendNonce(w) \/ WriteNote(w)

PostStep(w) ==
    \/ GateRead(w) \/ AllowedOwner(w) \/ AllowedList(w) \/ AppendPost(w)

OwnershipNext ==
    \/ \E w \in NoteWriters : NoteStep(w)
    \/ \E w \in RoomWriters : PostStep(w)
    \/ \E ns \in Guards : FindIdleNote(ns)
    \/ DeleteIdleNote
    \/ WeekPasses

OwnershipSpec == OwnershipInit /\ [][OwnershipNext]_ownVars

---------------------------------------------------------------------------
\* A room write that gets as far as the append was permitted by the notes as
\* they stood at one instant of its request, although it read the owner twice
\* and the list later, with claims, hand-overs and the reaper in between.
NoUnlistedPost ==
    \A w \in RoomWriters : rw[w].pc = "append" => w \in permitted

\* The counter of burnt nonces only moves forward until the reaper takes it:
\* no two ownership writes spend one nonce and none is spent after a later one.
BurnsForward ==
    [][(note'.nonce # note.nonce /\ note.nonce # Nobody /\ note'.nonce # Nobody)
          => note'.nonce > note.nonce]_ownVars

\* A claimant that is about to lose never empties the winner's list: while the
\* list is being emptied the room has no owner and gets none.
NoEmptyUnderOwner == emptying # Nobody => ~Exists("owner")

\* The guard notes between the steps of their writers: a list is emptied for a
\* room that stays unowned meanwhile (`note_set` under _note_write_gate).
OwnershipInv == OwnershipTypeOK /\ NoEmptyUnderOwner

---------------------------------------------------------------------------
\* What the code does not keep, for it checks first and writes later: TLC refutes
\* each of these.

\* Only the current owner hands a room over.
OnlyOwnerHandsOver ==
    [][(note'.owner # note.owner /\ note.owner # Nobody /\ note'.owner # Nobody)
          => \E w \in NoteWriters :
                nw[w].pc = "write" /\ nw'[w].pc = "idle" /\ nw[w].signer = note.owner]_ownVars

\* A room is ownable from birth or not at all.
OwnedFromBirth ==
    [][(note.owner = Nobody /\ note'.owner # Nobody) => roomSeq = 0]_ownVars

\* A guard note does not expire before the room it guards.
GuardsOutliveRoom ==
    [][\A ns \in Guards : (note[ns] # Nobody /\ note'[ns] = Nobody) => ~inUse]_ownVars

\* An owned room keeps its replay counter.
OwnedRoomCounts == Exists("owner") => Exists("nonce")
=============================================================================
