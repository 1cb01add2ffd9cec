-------------------------- MODULE WritePathProofs ---------------------------
(***************************************************************************)
(* Proofs about what a write must get past: the ownership of a room        *)
(* (Ownership), for any number of note writers and room writers, any keys  *)
(* and any lists; the signed tools of the MCP server (ToolCalls), for any  *)
(* agents, calls and clocks; and the write lane of a worker (WriteLane),   *)
(* for any requests, addresses, rooms and texts.  Nobody posts who was not *)
(* permitted at some instant of the request, nonces are burnt in order, no *)
(* list is emptied under an owner; a tool tells its caller nothing the     *)
(* service did not answer; and tokens and copies follow what came of the   *)
(* requests.                                                               *)
(***************************************************************************)
EXTENDS Ownership, ToolCalls, WriteLane, FiniteSums, SequenceTheorems,
        FunctionTheorems

----------------------------------------------------------------------------
(* Ownership.                                                              *)

\* A signed note write carries a value of the note it is for, and one that has
\* read a counter carries a nonce past it.
RequestFine(r) ==
    /\ r.pc # "idle" => r.value \in IF r.ns = "owner" THEN OwnerKeys ELSE Lists
    /\ r.pc = "spend" /\ r.read # Nobody => r.nonce > r.read
RequestsFine == \A w \in NoteWriters : RequestFine(nw[w])

\* A room write that the notes let through now, or let through when it read the
\* owner, is one that was permitted.
PostFine(w) ==
    /\ rw[w].pc # "idle" /\ MayPost(rw[w].signer, note) => w \in permitted
    /\ rw[w].pc = "allow" /\ rw[w].signer \in rw[w].keys => w \in permitted
    /\ rw[w].pc = "append" => w \in permitted
PostsFine == \A w \in RoomWriters : PostFine(w)

OwnershipInductive ==
    OwnershipTypeOK /\ NoEmptyUnderOwner /\ RequestsFine /\ PostsFine

----------------------------------------------------------------------------
(* The invariant in the four parts that steps disturb separately.          *)

PlainOK ==
    /\ note \in NoteValue
    /\ recent \subseteq Guards
    /\ roomSeq \in 0..MaxPosts
    /\ inUse \in BOOLEAN
    /\ reaping \in Guards \cup {Nobody}
    /\ weeks \in 0..MaxWeeks
    /\ permitted \subseteq RoomWriters

WritersOK ==
    /\ emptying \in NoteWriters \cup {Nobody}
    /\ nw \in [NoteWriters -> NoteRequest]
    /\ \A w \in NoteWriters : emptying = w <=> nw[w].pc = "empty"
    /\ RequestsFine

PostsOK == rw \in [RoomWriters -> Post] /\ PostsFine

LEMMA Own_Parts ==
    /\ OwnershipInductive <=> PlainOK /\ WritersOK /\ PostsOK /\ NoEmptyUnderOwner
    /\ OwnershipInductive' <=> PlainOK' /\ WritersOK' /\ PostsOK' /\ NoEmptyUnderOwner'
BY DEF OwnershipInductive, OwnershipTypeOK, PlainOK, WritersOK, PostsOK

\* The notes stand still.
LEMMA SameNotes ==
  ASSUME PlainOK, NoteUnchanged, UNCHANGED <<roomSeq, inUse, reaping, weeks>>
  PROVE  PlainOK'
BY DEF PlainOK, NoteUnchanged

LEMMA SamePosts ==
  ASSUME PostsOK, UNCHANGED <<note, rw, permitted>>
  PROVE  PostsOK'
BY DEF PostsOK, PostsFine, PostFine, MayPost

LEMMA SameWriters ==
  ASSUME WritersOK, UNCHANGED <<nw, emptying>>
  PROVE  WritersOK'
BY DEF WritersOK, RequestsFine

\* A changed note is shown to every room write that waits.
LEMMA WatchedPosts ==
  ASSUME PostsOK, permitted \subseteq RoomWriters, WatchPosts, rw' = rw
  PROVE  PostsOK' /\ permitted' \subseteq RoomWriters
<1>1. permitted \subseteq permitted' /\ permitted' \subseteq RoomWriters
  BY DEF WatchPosts
<1>2. ASSUME NEW w \in RoomWriters, rw[w].pc # "idle", MayPost(rw[w].signer, note')
      PROVE  w \in permitted'
  BY <1>2 DEF WatchPosts
<1>3. ASSUME NEW w \in RoomWriters PROVE PostFine(w)'
  <2>1. (rw[w].pc # "idle" /\ MayPost(rw[w].signer, note) => w \in permitted)'
    BY <1>2
  <2> QED
    BY <1>1, <2>1 DEF PostsOK, PostsFine, PostFine
<1> QED
  BY <1>1, <1>3 DEF PostsOK, PostsFine

LEMMA PutKeeps ==
  ASSUME PlainOK, PostsOK, NEW ns \in Guards, NEW v, PutNote(ns, v), rw' = rw,
         v \in IF ns = "owner" THEN OwnerKeys ELSE IF ns = "allow" THEN SUBSET OwnerKeys ELSE 1..MaxNonce,
         UNCHANGED <<roomSeq, inUse, reaping, weeks>>
  PROVE  PlainOK' /\ PostsOK'
<1>1. note' = [note EXCEPT ![ns] = v] /\ recent' = recent \cup {ns} /\ WatchPosts
  BY DEF PutNote
<1>2. note' \in NoteValue
  BY <1>1 DEF PlainOK, NoteValue, Guards
<1>3. PostsOK' /\ permitted' \subseteq RoomWriters
  BY <1>1, WatchedPosts DEF PlainOK
<1> QED
  BY <1>1, <1>2, <1>3 DEF PlainOK

\* One note writer moves to a request that is as it should be.
LEMMA WriterMoves ==
  ASSUME WritersOK, NEW w \in NoteWriters, NEW r \in NoteRequest, RequestFine(r),
         nw' = [nw EXCEPT ![w] = r],
         \/ emptying' = emptying /\ nw[w].pc # "empty" /\ r.pc # "empty"
         \/ emptying = Nobody /\ emptying' = w /\ r.pc = "empty"
         \/ emptying = w /\ emptying' = Nobody /\ r.pc # "empty"
  PROVE  WritersOK'
<1>1. nw' \in [NoteWriters -> NoteRequest] /\ nw'[w] = r /\ \A v \in NoteWriters \ {w} : nw'[v] = nw[v]
  BY DEF WritersOK
<1>2. RequestsFine'
  BY <1>1 DEF WritersOK, RequestsFine
<1>3. \A v \in NoteWriters : emptying' = v <=> nw'[v].pc = "empty"
  BY <1>1, OwnershipAssumption DEF WritersOK
<1>4. emptying' \in NoteWriters \cup {Nobody}
  BY DEF WritersOK
<1> QED
  BY <1>1, <1>2, <1>3, <1>4 DEF WritersOK

LEMMA IdleFine == Idle \in NoteRequest /\ Idle.pc = "idle" /\ RequestFine(Idle)
<1>1. 1 \in 1..MaxNonce
  BY OwnershipAssumption
<1> QED
  BY <1>1 DEF Idle, NoteRequest, RequestFine

\* An answered writer is idle again.
LEMMA Answered ==
  ASSUME WritersOK, NEW w \in NoteWriters, Answer(w), emptying' = emptying, nw[w].pc # "empty"
  PROVE  WritersOK'
BY IdleFine, WriterMoves DEF Answer

\* A writer that only goes from one step of its request to the next.
LEMMA WriterGoes ==
  ASSUME WritersOK, NEW w \in NoteWriters, nw[w].pc # "idle",
         NEW pc \in {"list", "empty", "burn"}, NoteGoto(w, pc),
         \/ emptying' = emptying /\ nw[w].pc # "empty" /\ pc # "empty"
         \/ emptying = Nobody /\ emptying' = w /\ pc = "empty"
         \/ emptying = w /\ emptying' = Nobody /\ pc # "empty"
  PROVE  WritersOK'
<1>1. nw \in [NoteWriters -> NoteRequest] /\ nw[w] \in NoteRequest /\ RequestFine(nw[w])
  BY DEF WritersOK, RequestsFine
<1> DEFINE r == [nw[w] EXCEPT !.pc = pc]
<1>2. /\ r \in NoteRequest /\ r.pc = pc /\ r.ns = nw[w].ns /\ r.value = nw[w].value
  BY <1>1 DEF NoteRequest
<1>3. nw' = [nw EXCEPT ![w] = r]
  BY <1>1 DEF NoteGoto
<1> HIDE DEF r
<1>4. RequestFine(r)
  BY <1>1, <1>2 DEF RequestFine
<1> QED
  BY <1>2, <1>3, <1>4, WriterMoves

----------------------------------------------------------------------------
(* Signed note writes.                                                     *)

LEMMA HandOverKeeps ==
  ASSUME OwnershipInductive, NEW w \in NoteWriters, HandOver(w)
  PROVE  OwnershipInductive'
<1>1. PlainOK' /\ PostsOK' /\ NoEmptyUnderOwner'
  BY Own_Parts, SameNotes, SamePosts DEF HandOver, NoteUnchanged, NoEmptyUnderOwner, Exists
<1>2. nw[w].pc = "idle" /\ emptying' = emptying /\ WritersOK
  BY Own_Parts DEF HandOver
<1>3. note.owner \in OwnerKeys
  BY Own_Parts DEF HandOver, Exists, PlainOK, NoteValue
<1>4. PICK k \in OwnerKeys, n \in 1..MaxNonce, c \in Conditions :
        nw' = [nw EXCEPT ![w] = [Idle EXCEPT !.pc = "burn", !.ns = "owner",
                  !.signer = note.owner, !.value = k, !.nonce = n, !.ifAbsent = c]]
  BY DEF HandOver
<1> DEFINE r == [Idle EXCEPT !.pc = "burn", !.ns = "owner", !.signer = note.owner,
                             !.value = k, !.nonce = n, !.ifAbsent = c]
<1>5. r \in NoteRequest /\ r.pc = "burn" /\ r.ns = "owner" /\ r.value = k
  BY <1>3, IdleFine, OwnershipAssumption DEF NoteRequest
<1>6. nw' = [nw EXCEPT ![w] = r]
  BY <1>4
<1> HIDE DEF r
<1>7. RequestFine(r)
  BY <1>5 DEF RequestFine
<1>8. WritersOK'
  BY <1>2, <1>5, <1>6, <1>7, WriterMoves
<1> QED
  BY <1>1, <1>8, Own_Parts

LEMMA PublishListKeeps ==
  ASSUME OwnershipInductive, NEW w \in NoteWriters, PublishList(w)
  PROVE  OwnershipInductive'
<1>1. PlainOK' /\ PostsOK' /\ NoEmptyUnderOwner'
  BY Own_Parts, SameNotes, SamePosts DEF PublishList, NoteUnchanged, NoEmptyUnderOwner, Exists
<1>2. nw[w].pc = "idle" /\ emptying' = emptying /\ WritersOK
  BY Own_Parts DEF PublishList
<1>3. note.owner \in OwnerKeys
  BY Own_Parts DEF PublishList, Exists, PlainOK, NoteValue
<1>4. PICK l \in Lists, n \in 1..MaxNonce, c \in Conditions :
        nw' = [nw EXCEPT ![w] = [Idle EXCEPT !.pc = "burn", !.ns = "allow",
                  !.signer = note.owner, !.value = l, !.nonce = n, !.ifAbsent = c]]
  BY DEF PublishList
<1> DEFINE r == [Idle EXCEPT !.pc = "burn", !.ns = "allow", !.signer = note.owner,
                             !.value = l, !.nonce = n, !.ifAbsent = c]
<1>5. r \in NoteRequest /\ r.pc = "burn" /\ r.ns = "allow" /\ r.value = l
  BY <1>3, IdleFine, OwnershipAssumption DEF NoteRequest
<1>6. nw' = [nw EXCEPT ![w] = r]
  BY <1>4
<1> HIDE DEF r
<1>7. RequestFine(r)
  BY <1>5 DEF RequestFine
<1>8. WritersOK'
  BY <1>2, <1>5, <1>6, <1>7, WriterMoves
<1> QED
  BY <1>1, <1>8, Own_Parts

LEMMA FirstClaimKeeps ==
  ASSUME OwnershipInductive, NEW w \in NoteWriters, FirstClaim(w)
  PROVE  OwnershipInductive'
<1>1. PlainOK' /\ PostsOK' /\ NoEmptyUnderOwner'
  BY Own_Parts, SameNotes, SamePosts DEF FirstClaim, NoteUnchanged, NoEmptyUnderOwner, Exists
<1>2. nw[w].pc = "idle" /\ emptying' = emptying /\ WritersOK
  BY Own_Parts DEF FirstClaim
<1>3. PICK k \in OwnerKeys, n \in 1..MaxNonce, c \in Conditions :
        nw' = [nw EXCEPT ![w] = [Idle EXCEPT !.pc = "seq", !.ns = "owner",
                  !.signer = k, !.value = k, !.nonce = n, !.ifAbsent = c]]
  BY DEF FirstClaim
<1> DEFINE r == [Idle EXCEPT !.pc = "seq", !.ns = "owner", !.signer = k,
                             !.value = k, !.nonce = n, !.ifAbsent = c]
<1>4. r \in NoteRequest /\ r.pc = "seq" /\ r.ns = "owner" /\ r.value = k
  BY IdleFine, OwnershipAssumption DEF NoteRequest
<1>5. nw' = [nw EXCEPT ![w] = r]
  BY <1>3
<1> HIDE DEF r
<1>6. RequestFine(r)
  BY <1>4 DEF RequestFine
<1>7. WritersOK'
  BY <1>2, <1>4, <1>5, <1>6, WriterMoves
<1> QED
  BY <1>1, <1>7, Own_Parts

LEMMA ReadSeqKeeps ==
  ASSUME OwnershipInductive, NEW w \in NoteWriters, ReadSeq(w)
  PROVE  OwnershipInductive'
<1>1. PlainOK' /\ PostsOK' /\ NoEmptyUnderOwner'
  BY Own_Parts, SameNotes, SamePosts DEF ReadSeq, NoteUnchanged, NoEmptyUnderOwner, Exists
<1>2. nw[w].pc = "seq" /\ emptying' = emptying /\ WritersOK /\ (Answer(w) \/ NoteGoto(w, "list"))
  BY Own_Parts DEF ReadSeq
<1>3. WritersOK'
  BY <1>2, Answered, WriterGoes
<1> QED
  BY <1>1, <1>3, Own_Parts

LEMMA LockListKeeps ==
  ASSUME OwnershipInductive, NEW w \in NoteWriters, LockList(w)
  PROVE  OwnershipInductive'
<1>1. PlainOK' /\ PostsOK'
  BY Own_Parts, SameNotes, SamePosts DEF LockList, NoteUnchanged
<1>2. nw[w].pc = "list" /\ emptying = Nobody /\ WritersOK /\ note' = note
  BY Own_Parts DEF LockList, NoteUnchanged
<1>3. CASE ListIsLeftOver
  <2>1. emptying' = w /\ NoteGoto(w, "empty") /\ ~Exists("owner")
    BY <1>3 DEF LockList, ListIsLeftOver
  <2>2. WritersOK' /\ NoEmptyUnderOwner'
    BY <1>2, <2>1, WriterGoes DEF NoEmptyUnderOwner, Exists
  <2> QED
    BY <1>1, <2>2, Own_Parts
<1>4. CASE ~ListIsLeftOver
  <2>1. emptying' = emptying /\ NoteGoto(w, "burn")
    BY <1>4 DEF LockList
  <2>2. WritersOK' /\ NoEmptyUnderOwner'
    BY <1>2, <2>1, WriterGoes DEF NoEmptyUnderOwner
  <2> QED
    BY <1>1, <2>2, Own_Parts
<1> QED
  BY <1>3, <1>4

LEMMA EmptyListKeeps ==
  ASSUME OwnershipInductive, NEW w \in NoteWriters, EmptyList(w)
  PROVE  OwnershipInductive'
<1>1. PlainOK' /\ PostsOK'
  <2>1. PutNote("allow", {}) /\ UNCHANGED <<roomSeq, inUse, rw, reaping, weeks>>
    BY DEF EmptyList
  <2> QED
    BY <2>1, Own_Parts, PutKeeps DEF Guards
<1>2. /\ nw[w].pc = "empty" /\ emptying = w /\ emptying' = Nobody /\ NoteGoto(w, "burn") /\ WritersOK
  BY Own_Parts DEF EmptyList, LockAfter, WritersOK
<1>3. WritersOK' /\ NoEmptyUnderOwner'
  BY <1>2, WriterGoes DEF NoEmptyUnderOwner
<1> QED
  BY <1>1, <1>3, Own_Parts

LEMMA ReadNonceKeeps ==
  ASSUME OwnershipInductive, NEW w \in NoteWriters, ReadNonce(w)
  PROVE  OwnershipInductive'
<1>1. PlainOK' /\ PostsOK' /\ NoEmptyUnderOwner'
  BY Own_Parts, SameNotes, SamePosts DEF ReadNonce, NoteUnchanged, NoEmptyUnderOwner, Exists
<1>2. /\ nw[w].pc = "burn" /\ emptying' = emptying /\ WritersOK
      /\ nw[w] \in NoteRequest /\ RequestFine(nw[w])
  BY Own_Parts DEF ReadNonce, WritersOK, RequestsFine
<1>3. note.nonce \in (1..MaxNonce) \cup {Nobody}
  BY Own_Parts DEF PlainOK, NoteValue
<1>4. CASE Exists("nonce") /\ nw[w].nonce <= note.nonce
  <2>1. WritersOK'
    BY <1>2, <1>4, Answered DEF ReadNonce
  <2> QED
    BY <1>1, <2>1, Own_Parts
<1>5. CASE ~(Exists("nonce") /\ nw[w].nonce <= note.nonce)
  <2> DEFINE r == [nw[w] EXCEPT !.pc = "spend", !.read = note.nonce]
  <2>1. nw' = [nw EXCEPT ![w] = r]
    BY <1>2, <1>5 DEF ReadNonce, WritersOK
  <2>2. /\ r \in NoteRequest /\ r.pc = "spend" /\ r.ns = nw[w].ns /\ r.value = nw[w].value
        /\ r.nonce = nw[w].nonce /\ r.read = note.nonce
    BY <1>2, <1>3 DEF NoteRequest
  <2> HIDE DEF r
  <2>3. r.read # Nobody => r.nonce > r.read
    <3>1. nw[w].nonce \in 1..MaxNonce
      BY <1>2 DEF NoteRequest
    <3> QED
      BY <1>3, <1>5, <2>2, <3>1 DEF Exists
  <2>4. RequestFine(r)
    BY <1>2, <2>2, <2>3 DEF RequestFine
  <2>5. WritersOK'
    BY <1>2, <2>1, <2>2, <2>4, WriterMoves
  <2> QED
    BY <1>1, <2>5, Own_Parts
<1> QED
  BY <1>4, <1>5

LEMMA SpendNonceKeeps ==
  ASSUME OwnershipInductive, NEW w \in NoteWriters, SpendNonce(w)
  PROVE  OwnershipInductive'
<1>1. /\ nw[w].pc = "spend" /\ emptying' = emptying /\ WritersOK /\ PlainOK /\ PostsOK
      /\ nw[w] \in NoteRequest /\ RequestFine(nw[w]) /\ NoEmptyUnderOwner
      /\ UNCHANGED <<roomSeq, inUse, rw, reaping, weeks>>
  BY Own_Parts DEF SpendNonce, WritersOK, RequestsFine
<1>2. CASE NonceUnmoved(w)
  <2>1. PutNote("nonce", nw[w].nonce) /\ nw' = [nw EXCEPT ![w].pc = "write", ![w].read = Nobody]
    BY <1>2 DEF SpendNonce
  <2>2. PlainOK' /\ PostsOK'
    BY <1>1, <2>1, PutKeeps DEF Guards, NoteRequest
  <2>3. NoEmptyUnderOwner'
    BY <1>1, <2>1 DEF NoEmptyUnderOwner, Exists, PutNote, PlainOK, NoteValue
  <2> DEFINE r == [nw[w] EXCEPT !.pc = "write", !.read = Nobody]
  <2>4. nw' = [nw EXCEPT ![w] = r]
    BY <1>1, <2>1 DEF WritersOK
  <2>5. /\ r \in NoteRequest /\ r.pc = "write" /\ r.ns = nw[w].ns /\ r.value = nw[w].value
    BY <1>1 DEF NoteRequest
  <2> HIDE DEF r
  <2>6. RequestFine(r)
    BY <1>1, <2>5 DEF RequestFine
  <2>7. WritersOK'
    BY <1>1, <2>4, <2>5, <2>6, WriterMoves
  <2> QED
    BY <2>2, <2>3, <2>7, Own_Parts
<1>3. CASE ~NonceUnmoved(w)
  <2>1. NoteUnchanged /\ Answer(w)
    BY <1>3 DEF SpendNonce
  <2>2. WritersOK'
    BY <1>1, <2>1, Answered
  <2>3. PlainOK' /\ PostsOK' /\ NoEmptyUnderOwner'
    BY <1>1, <2>1, SameNotes, SamePosts DEF NoteUnchanged, NoEmptyUnderOwner, Exists
  <2> QED
    BY <2>2, <2>3, Own_Parts
<1> QED
  BY <1>2, <1>3

LEMMA WriteNoteKeeps ==
  ASSUME OwnershipInductive, NEW w \in NoteWriters, WriteNote(w)
  PROVE  OwnershipInductive'
<1>1. /\ nw[w].pc = "write" /\ emptying' = emptying /\ WritersOK /\ PlainOK /\ PostsOK
      /\ nw[w] \in NoteRequest /\ RequestFine(nw[w]) /\ NoEmptyUnderOwner /\ Answer(w)
      /\ UNCHANGED <<roomSeq, inUse, rw, reaping, weeks>>
  BY Own_Parts DEF WriteNote, WritersOK, RequestsFine
<1>2. WritersOK'
  BY <1>1, Answered
<1>3. PlainOK' /\ PostsOK' /\ NoEmptyUnderOwner'
  <2>1. CASE NoteUnchanged
    BY <1>1, <2>1, SameNotes, SamePosts DEF NoteUnchanged, NoEmptyUnderOwner, Exists
  <2>2. CASE PutNote(nw[w].ns, nw[w].value)
    <3>1. nw[w].ns \in {"owner", "allow"} /\ nw[w].ns \in Guards
      BY <1>1 DEF NoteRequest, Guards
    <3>2. nw[w].value \in IF nw[w].ns = "owner" THEN OwnerKeys ELSE Lists
      BY <1>1 DEF RequestFine
    <3>3. nw[w].value \in IF nw[w].ns = "owner" THEN OwnerKeys
                          ELSE IF nw[w].ns = "allow" THEN SUBSET OwnerKeys ELSE 1..MaxNonce
      BY <3>1, <3>2, OwnershipAssumption
    <3>4. PlainOK' /\ PostsOK'
      BY <1>1, <2>2, <3>1, <3>3, PutKeeps
    <3>5. NoEmptyUnderOwner'
      BY <1>1, <2>2, <3>1 DEF NoEmptyUnderOwner, Exists, PutNote, PlainOK, NoteValue
    <3> QED
      BY <3>4, <3>5
  <2> QED
    BY <2>1, <2>2 DEF WriteNote
<1> QED
  BY <1>2, <1>3, Own_Parts

----------------------------------------------------------------------------
(* Room writes.                                                            *)

\* One room write moves to where it may be; the notes stand still.
LEMMA PostMoves ==
  ASSUME PlainOK, PostsOK, NEW w \in RoomWriters, NEW p \in Post, rw' = [rw EXCEPT ![w] = p],
         note' = note, permitted' \subseteq RoomWriters, permitted' \ {w} = permitted \ {w},
         /\ p.pc # "idle" /\ MayPost(p.signer, note) => w \in permitted'
         /\ p.pc = "allow" /\ p.signer \in p.keys => w \in permitted'
         /\ p.pc = "append" => w \in permitted'
  PROVE  PostsOK'
<1>1. rw' \in [RoomWriters -> Post] /\ rw'[w] = p /\ \A v \in RoomWriters \ {w} : rw'[v] = rw[v]
  BY DEF PostsOK
<1>2. \A v \in RoomWriters : MayPost(rw[v].signer, note)' <=> MayPost(rw'[v].signer, note)
  BY DEF MayPost
<1>3. ASSUME NEW v \in RoomWriters PROVE PostFine(v)'
  <2>1. CASE v = w
    BY <1>1, <1>2, <2>1 DEF PostFine
  <2>2. CASE v # w
    <3>1. rw'[v] = rw[v] /\ (v \in permitted' <=> v \in permitted)
      BY <1>1, <2>2
    <3> QED
      BY <1>2, <3>1 DEF PostsOK, PostsFine, PostFine
  <2> QED
    BY <2>1, <2>2
<1> QED
  BY <1>1, <1>3 DEF PostsOK, PostsFine

\* A room write that ends leaves nothing to be permitted.
LEMMA PostEnds ==
  ASSUME PlainOK, PostsOK, NEW w \in RoomWriters, EndPost(w), note' = note
  PROVE  PostsOK' /\ permitted' \subseteq RoomWriters
<1>1. NoPost \in Post /\ NoPost.pc = "idle"
  BY DEF NoPost, Post
<1>2. permitted' = permitted \ {w} /\ rw' = [rw EXCEPT ![w] = NoPost]
  BY DEF EndPost
<1>3. permitted' \subseteq RoomWriters /\ permitted' \ {w} = permitted \ {w}
  BY <1>2 DEF PlainOK
<1>4. PostsOK'
  BY <1>1, <1>2, <1>3, PostMoves
<1> QED
  BY <1>3, <1>4

LEMMA PostSteps ==
  ASSUME OwnershipInductive, NEW w \in RoomWriters, PostStep(w)
  PROVE  OwnershipInductive'
<1>0. /\ PlainOK /\ PostsOK /\ WritersOK /\ NoEmptyUnderOwner
      /\ rw \in [RoomWriters -> Post] /\ rw[w] \in Post /\ PostFine(w) /\ permitted \subseteq RoomWriters
  BY Own_Parts DEF PostsOK, PostsFine, PlainOK
<1>a. UNCHANGED <<note, recent, emptying, nw, reaping, weeks>>
  BY DEF PostStep, GateRead, AllowedOwner, AllowedList, AppendPost, PostUnchanged
<1>b. WritersOK' /\ NoEmptyUnderOwner'
  BY <1>0, <1>a, SameWriters DEF NoEmptyUnderOwner, Exists
<1>c. note.owner \in OwnerKeys \cup {Nobody}
  BY <1>0 DEF PlainOK, NoteValue
<1>1. CASE GateRead(w)
  <2>1. PICK k \in OwnerKeys \cup {Nobody} :
          /\ Exists("owner") => k # Nobody
          /\ rw' = [rw EXCEPT ![w] = [pc |-> IF Exists("owner") THEN "owner" ELSE "append",
                                      signer |-> k, keys |-> {}]]
          /\ permitted' = IF MayPost(k, note) THEN permitted \cup {w} ELSE permitted
    BY <1>1 DEF GateRead
  <2>2. PICK p \in Post : p = [pc |-> IF Exists("owner") THEN "owner" ELSE "append",
                               signer |-> k, keys |-> {}]
    <3>1. CASE Exists("owner")
      <4>1. [pc |-> "owner", signer |-> k, keys |-> {}] \in Post
        BY DEF Post
      <4> QED
        BY <3>1, <4>1
    <3>2. CASE ~Exists("owner")
      <4>1. [pc |-> "append", signer |-> k, keys |-> {}] \in Post
        BY DEF Post
      <4> QED
        BY <3>2, <4>1
    <3> QED
      BY <3>1, <3>2
  <2>3. /\ p.pc = "owner" \/ (p.pc = "append" /\ ~Exists("owner"))
        /\ p.signer = k
    BY <2>2
  <2>4. ~Exists("owner") => MayPost(k, note)
    BY DEF Exists, MayPost
  <2>5. permitted' \subseteq RoomWriters /\ permitted' \ {w} = permitted \ {w}
    BY <1>0, <2>1
  <2>6. rw' = [rw EXCEPT ![w] = p]
    BY <2>1, <2>2
  <2>7. MayPost(k, note) => w \in permitted'
    BY <2>1
  <2>8. PostsOK'
    BY <1>0, <1>a, <2>3, <2>4, <2>5, <2>6, <2>7, PostMoves
  <2>9. PlainOK'
    BY <1>0, <1>1, <2>5 DEF PlainOK, GateRead, PostUnchanged
  <2> QED
    BY <1>b, <2>8, <2>9, Own_Parts
<1>2. CASE AllowedOwner(w)
  <2>1. CASE Exists("owner")
    <3> DEFINE p == [rw[w] EXCEPT !.pc = "allow", !.keys = {note.owner}]
    <3>1. rw' = [rw EXCEPT ![w] = p] /\ permitted' = permitted
      BY <1>0, <1>2, <2>1 DEF AllowedOwner
    <3>2. note.owner \in OwnerKeys
      BY <1>c, <2>1 DEF Exists
    <3>3. p \in Post /\ p.pc = "allow" /\ p.signer = rw[w].signer /\ p.keys = {note.owner}
      BY <1>0, <3>2 DEF Post
    <3> HIDE DEF p
    <3>4. MayPost(p.signer, note) => w \in permitted'
      BY <1>0, <1>2, <3>1, <3>3 DEF PostFine, AllowedOwner
    <3>5. p.signer \in p.keys => MayPost(p.signer, note)
      BY <3>3 DEF MayPost
    <3>6. PostsOK'
      BY <1>0, <1>a, <3>1, <3>3, <3>4, <3>5, PostMoves
    <3>7. PlainOK'
      BY <1>0, <1>2, <3>1 DEF PlainOK, AllowedOwner, PostUnchanged
    <3> QED
      BY <1>b, <3>6, <3>7, Own_Parts
  <2>2. CASE ~Exists("owner")
    <3>1. EndPost(w)
      BY <1>2, <2>2 DEF AllowedOwner
    <3>2. PostsOK' /\ permitted' \subseteq RoomWriters
      BY <1>0, <1>a, <3>1, PostEnds
    <3>3. PlainOK'
      BY <1>0, <1>2, <3>2 DEF PlainOK, AllowedOwner, PostUnchanged
    <3> QED
      BY <1>b, <3>2, <3>3, Own_Parts
  <2> QED
    BY <2>1, <2>2
<1>3. CASE AllowedList(w)
  <2>1. CASE rw[w].signer \in rw[w].keys \/ Listed(rw[w].signer)
    <3> DEFINE p == [rw[w] EXCEPT !.pc = "append", !.keys = {}]
    <3>1. rw' = [rw EXCEPT ![w] = p] /\ permitted' = permitted
      BY <1>0, <1>3, <2>1 DEF AllowedList, Pass
    <3>2. p \in Post /\ p.pc = "append" /\ p.signer = rw[w].signer /\ p.keys = {}
      BY <1>0 DEF Post
    <3> HIDE DEF p
    <3>3. Listed(rw[w].signer) => MayPost(rw[w].signer, note)
      BY DEF Listed, Exists, MayPost
    <3>4. w \in permitted
      BY <1>0, <1>3, <2>1, <3>3 DEF PostFine, AllowedList
    <3>5. PostsOK'
      BY <1>0, <1>a, <3>1, <3>2, <3>4, PostMoves
    <3>6. PlainOK'
      BY <1>0, <1>3, <3>1 DEF PlainOK, AllowedList, PostUnchanged
    <3> QED
      BY <1>b, <3>5, <3>6, Own_Parts
  <2>2. CASE ~(rw[w].signer \in rw[w].keys \/ Listed(rw[w].signer))
    <3>1. EndPost(w)
      BY <1>3, <2>2 DEF AllowedList
    <3>2. PostsOK' /\ permitted' \subseteq RoomWriters
      BY <1>0, <1>a, <3>1, PostEnds
    <3>3. PlainOK'
      BY <1>0, <1>3, <3>2 DEF PlainOK, AllowedList, PostUnchanged
    <3> QED
      BY <1>b, <3>2, <3>3, Own_Parts
  <2> QED
    BY <2>1, <2>2
<1>4. CASE AppendPost(w)
  <2>1. PostsOK' /\ permitted' \subseteq RoomWriters
    BY <1>0, <1>4, <1>a, PostEnds DEF AppendPost
  <2>2. roomSeq' \in 0..MaxPosts
    BY <1>0, <1>4, OwnershipAssumption DEF PlainOK, AppendPost
  <2>3. PlainOK'
    BY <1>0, <1>4, <1>a, <2>1, <2>2 DEF PlainOK, AppendPost
  <2> QED
    BY <1>b, <2>1, <2>3, Own_Parts
<1> QED
  BY <1>1, <1>2, <1>3, <1>4 DEF PostStep

----------------------------------------------------------------------------
(* The reaper, time, and the whole.                                        *)

LEMMA ReaperKeepsGuards ==
  ASSUME OwnershipInductive, DeleteIdleNote
  PROVE  OwnershipInductive'
<1>0. PlainOK /\ PostsOK /\ WritersOK /\ NoEmptyUnderOwner
  BY Own_Parts
<1>1. WritersOK'
  BY <1>0, SameWriters DEF DeleteIdleNote
<1>2. note' \in NoteValue
  BY <1>0 DEF DeleteIdleNote, PlainOK, NoteValue, Guards
<1>3. PostsOK' /\ permitted' \subseteq RoomWriters
  BY <1>0, WatchedPosts DEF DeleteIdleNote, PlainOK
<1>4. PlainOK'
  BY <1>0, <1>2, <1>3 DEF PlainOK, DeleteIdleNote
<1>5. NoEmptyUnderOwner'
  BY <1>0 DEF DeleteIdleNote, NoEmptyUnderOwner, Exists, PlainOK, NoteValue, Guards
<1> QED
  BY <1>1, <1>3, <1>4, <1>5, Own_Parts

LEMMA NoteSteps ==
  ASSUME OwnershipInductive, NEW w \in NoteWriters, NoteStep(w)
  PROVE  OwnershipInductive'
BY HandOverKeeps, PublishListKeeps, FirstClaimKeeps, ReadSeqKeeps, LockListKeeps, EmptyListKeeps, ReadNonceKeeps,
   SpendNonceKeeps, WriteNoteKeeps DEF NoteStep

LEMMA OwnershipStep == OwnershipInductive /\ [OwnershipNext]_ownVars => OwnershipInductive'
<1> SUFFICES ASSUME OwnershipInductive, [OwnershipNext]_ownVars PROVE OwnershipInductive'
  OBVIOUS
<1>0. PlainOK /\ PostsOK /\ WritersOK /\ NoEmptyUnderOwner
  BY Own_Parts
<1>1. CASE \E w \in NoteWriters : NoteStep(w)
  BY <1>1, NoteSteps
<1>2. CASE \E w \in RoomWriters : PostStep(w)
  BY <1>2, PostSteps
<1>3. CASE DeleteIdleNote
  BY <1>3, ReaperKeepsGuards
<1>4. CASE (\E ns \in Guards : FindIdleNote(ns)) \/ WeekPasses \/ UNCHANGED ownVars
  <2>1. UNCHANGED <<note, emptying, roomSeq, nw, rw, permitted>>
    BY <1>4 DEF FindIdleNote, WeekPasses, ownVars
  <2>2. PostsOK' /\ WritersOK' /\ NoEmptyUnderOwner'
    BY <1>0, <2>1, SamePosts, SameWriters DEF NoEmptyUnderOwner, Exists
  <2>3. recent' \subseteq Guards /\ inUse' \in BOOLEAN /\ reaping' \in Guards \cup {Nobody}
    BY <1>0, <1>4 DEF FindIdleNote, WeekPasses, ownVars, PlainOK
  <2>4. weeks' \in 0..MaxWeeks
    BY <1>0, <1>4, OwnershipAssumption DEF FindIdleNote, WeekPasses, ownVars, PlainOK
  <2>5. PlainOK'
    BY <1>0, <2>1, <2>3, <2>4 DEF PlainOK
  <2> QED
    BY <2>2, <2>5, Own_Parts
<1> QED
  BY <1>1, <1>2, <1>3, <1>4 DEF OwnershipNext

LEMMA OwnershipStart == OwnershipInit => OwnershipInductive
<1> SUFFICES ASSUME OwnershipInit PROVE OwnershipInductive
  OBVIOUS
<1>1. PlainOK
  <2>1. note \in NoteValue
    BY DEF OwnershipInit, NoteValue
  <2>2. 0 \in 0..MaxPosts /\ 0 \in 0..MaxWeeks
    BY OwnershipAssumption
  <2> QED
    BY <2>1, <2>2 DEF OwnershipInit, PlainOK
<1>2. WritersOK
  <2>1. \A w \in NoteWriters : nw[w] = Idle
    BY DEF OwnershipInit
  <2>2. nw \in [NoteWriters -> NoteRequest] /\ emptying = Nobody
    BY IdleFine DEF OwnershipInit
  <2> QED
    BY <2>1, <2>2, IdleFine, OwnershipAssumption DEF WritersOK, RequestsFine
<1>3. PostsOK
  <2>1. NoPost \in Post /\ NoPost.pc = "idle"
    BY DEF NoPost, Post
  <2>2. \A w \in RoomWriters : rw[w].pc = "idle"
    BY <2>1 DEF OwnershipInit
  <2> QED
    BY <2>1, <2>2 DEF OwnershipInit, PostsOK, PostsFine, PostFine
<1>4. NoEmptyUnderOwner
  BY DEF OwnershipInit, NoEmptyUnderOwner
<1> QED
  BY <1>1, <1>2, <1>3, <1>4, Own_Parts

\* The guard notes keep their types, and a list is only emptied for a room that
\* has no owner and gets none meanwhile, whatever claims, hand-overs, posts and
\* deletions come in between.
THEOREM GuardsKept == OwnershipSpec => []OwnershipInv
<1>1. OwnershipInductive => OwnershipInv
  BY DEF OwnershipInductive, OwnershipInv
<1> QED
  BY <1>1, OwnershipStart, OwnershipStep, PTL DEF OwnershipSpec

\* Nobody appends to a room who was not permitted to by the notes of one instant
\* of the request.
THEOREM PostsArePermitted == OwnershipSpec => []NoUnlistedPost
<1>1. OwnershipInductive => NoUnlistedPost
  BY DEF OwnershipInductive, PostsFine, PostFine, NoUnlistedPost
<1> QED
  BY <1>1, OwnershipStart, OwnershipStep, PTL DEF OwnershipSpec

\* Of the writers that read one counter only the first spends its nonce: the
\* counter never goes back, short of the reaper's taking it.
THEOREM NoncesBurnForward == OwnershipSpec => BurnsForward
<1> DEFINE A == (note'.nonce # note.nonce /\ note.nonce # Nobody /\ note'.nonce # Nobody)
                   => note'.nonce > note.nonce
<1>1. OwnershipInductive /\ [OwnershipNext]_ownVars => [A]_ownVars
  <2> SUFFICES ASSUME OwnershipInductive, OwnershipNext PROVE A
    OBVIOUS
  <2>0. /\ note \in NoteValue /\ nw \in [NoteWriters -> NoteRequest]
        /\ \A w \in NoteWriters : RequestFine(nw[w])
    BY DEF OwnershipInductive, OwnershipTypeOK, RequestsFine
  <2>1. ASSUME NEW w \in NoteWriters, SpendNonce(w) PROVE A
    <3>1. CASE NonceUnmoved(w)
      <4>1. note' = [note EXCEPT !["nonce"] = nw[w].nonce] /\ nw[w].pc = "spend"
        BY <2>1, <3>1 DEF SpendNonce, PutNote
      <4>2. note'.nonce = nw[w].nonce /\ note.nonce = nw[w].read
        BY <2>0, <3>1, <4>1 DEF NoteValue, NonceUnmoved
      <4>3. nw[w].read # Nobody => nw[w].nonce > nw[w].read
        BY <2>0, <4>1 DEF RequestFine
      <4> QED
        BY <4>2, <4>3
    <3>2. CASE ~NonceUnmoved(w)
      BY <2>1, <3>2 DEF SpendNonce, NoteUnchanged
    <3> QED
      BY <3>1, <3>2
  <2>2. ASSUME NEW w \in NoteWriters, NoteStep(w), ~SpendNonce(w) PROVE note'.nonce = note.nonce
    <3>1. nw[w].ns \in {"owner", "allow"}
      BY <2>0 DEF NoteRequest
    <3>2. CASE note' = note
      BY <3>2
    <3>3. CASE \E ns \in {"owner", "allow"} : \E v : note' = [note EXCEPT ![ns] = v]
      BY <2>0, <3>3 DEF NoteValue
    <3> QED
      BY <2>2, <3>1, <3>2, <3>3 DEF NoteStep, HandOver, PublishList, FirstClaim, ReadSeq, LockList, EmptyList,
                                  ReadNonce, WriteNote, PutNote, NoteUnchanged
  <2>3. ASSUME DeleteIdleNote PROVE note'.nonce \in {note.nonce, Nobody}
    <3>1. reaping \in Guards
      BY <2>3 DEF DeleteIdleNote, OwnershipInductive, OwnershipTypeOK
    <3> QED
      BY <2>0, <2>3, <3>1 DEF DeleteIdleNote, NoteValue, Guards
  <2>4. ASSUME (\E w \in RoomWriters : PostStep(w)) \/ (\E ns \in Guards : FindIdleNote(ns)) \/ WeekPasses
        PROVE  note' = note
    BY <2>4 DEF PostStep, GateRead, AllowedOwner, AllowedList, AppendPost, PostUnchanged,
                FindIdleNote, WeekPasses
  <2> QED
    BY <2>1, <2>2, <2>3, <2>4 DEF OwnershipNext
<1>2. OwnershipInductive /\ [OwnershipNext]_ownVars => OwnershipInductive'
  BY OwnershipStep
<1> QED
  BY <1>1, <1>2, OwnershipStart, PTL DEF OwnershipSpec, BurnsForward

----------------------------------------------------------------------------
(* The tools.                                                              *)

CallRecord ==
    [agent : Agents \cup {NoAgent}, lane : Lanes, nonce : Nat, life : Nat, order : Nat, again : BOOLEAN,
     wire : {"none", "flying", "ok", "nonce", "denied"},
     told : {"none", "waiting", "unreachable", "ok", "nonce", "denied"}]

\* A call as it was sent: its order is its own, and what its agent minted since
\* its last start is not below it.
SentFine(x) ==
    x.wire # "none" =>
        /\ x.agent \in Agents /\ x.nonce > 0
        /\ x.order \in 1..Cardinality(Started)
        /\ x.life <= life[x.agent]
        /\ ~x.again /\ x.life = life[x.agent] => x.nonce <= lastNonce[x.agent]

ToldFine(x) == x.told \in {"none", "waiting", "unreachable", x.wire}
               /\ (x.wire = "none" => x.told = "none")

CallsFine ==
    /\ call \in [Tools -> CallRecord]
    /\ IsFiniteSet(Started)
    /\ \A c \in Tools : SentFine(call[c]) /\ ToldFine(call[c])

ClocksFine ==
    millis \in [Agents -> Nat \ {0}] /\ lastNonce \in [Agents -> Nat] /\ life \in [Agents -> Nat]

\* Of two calls of an agent the later one was sent in a later life, or with a
\* greater nonce, or is a signature sent again.
InOrder(x, y) ==
    x.wire # "none" /\ y.wire # "none" =>
        /\ x.order # y.order
        /\ x.agent = y.agent /\ x.order < y.order =>
              /\ x.life <= y.life
              /\ x.life = y.life /\ ~x.again /\ ~y.again => x.nonce < y.nonce

OrderFine == \A c, d \in Tools : c # d => InOrder(call[c], call[d])

\* A bar is the nonce of a call that was taken, and no call taken is above it.
BarsFine ==
    /\ sayNonce \in [Agents -> Nat] /\ burnt \in Nat /\ owner \in Agents \cup {NoAgent}
    /\ taken \subseteq Tools
    /\ \A c \in Tools : call[c].wire = "ok" <=> c \in taken
    /\ burnt > 0 <=> owner # NoAgent
    /\ \A a \in Agents : sayNonce[a] > 0 =>
          \E d \in taken : call[d].lane = "say" /\ call[d].agent = a /\ call[d].nonce = sayNonce[a]
    /\ owner # NoAgent =>
          \E d \in taken : call[d].lane # "say" /\ call[d].agent = owner /\ call[d].nonce = burnt
    /\ \A d \in taken : call[d].nonce <= Bar(d)

CallsInductive == CallsFine /\ ClocksFine /\ OrderFine /\ BarsFine /\ OnceOnRecord /\ RefusedIfOvertaken

PollFine ==
    /\ poll \in [pc : {"idle", "held"}, asked : Int, elapsed : Nat]
    /\ poll.pc = "held" => poll.elapsed <= Held(poll.asked)

ListingFine ==
    /\ \E n \in Nat : listing.body \in [1..n -> {"key", "frame"}]
    /\ listing.limit \in Nat

LEMMA Tool_Init == ToolInit => CallsInductive /\ PollFine /\ ListingFine
<1> SUFFICES ASSUME ToolInit PROVE CallsInductive /\ PollFine /\ ListingFine
  OBVIOUS
<1>1. PICK x : x = Unsent
  OBVIOUS
<1>2. call = [c \in Tools |-> x]
  BY <1>1 DEF ToolInit
<1>3. x.wire = "none" /\ x.told = "none" /\ x \in CallRecord
  BY <1>1 DEF Unsent, CallRecord, Lanes
<1>4. Started = {}
  BY <1>2, <1>3 DEF Started
<1>5. CallsFine
  BY <1>2, <1>3, <1>4, FS_EmptySet DEF CallsFine, SentFine, ToldFine
<1>6. ClocksFine
  BY DEF ToolInit, ClocksFine
<1>7. OrderFine
  BY <1>2, <1>3 DEF OrderFine, InOrder
<1>8. BarsFine /\ OnceOnRecord /\ RefusedIfOvertaken
  BY <1>2, <1>3 DEF ToolInit, BarsFine, OnceOnRecord, RefusedIfOvertaken
<1>9. PollFine
  BY DEF ToolInit, PollFine
<1>10. ListingFine
  <2>1. listing.body = <<>> /\ listing.limit = 1
    BY DEF ToolInit
  <2>2. <<>> \in [1..0 -> {"key", "frame"}]
    OBVIOUS
  <2> QED
    BY <2>1, <2>2 DEF ListingFine
<1> QED
  BY <1>5, <1>6, <1>7, <1>8, <1>9, <1>10 DEF CallsInductive

LEMMA Tool_NextNonce ==
  ASSUME ClocksFine, NEW a \in Agents
  PROVE  NextNonce(a) \in Nat /\ NextNonce(a) > 0 /\ NextNonce(a) > lastNonce[a]
BY DEF ClocksFine, NextNonce

\* The fields of a call that stay what they were once it is sent.
SameCall(x, y) ==
    /\ y.agent = x.agent /\ y.lane = x.lane /\ y.nonce = x.nonce
    /\ y.life = x.life /\ y.order = x.order /\ y.again = x.again

\* A step that tells agents nothing but that no answer came.
LEMMA Tool_Retold ==
  ASSUME CallsInductive, ClocksFine', call' \in [Tools -> CallRecord],
         UNCHANGED <<sayNonce, burnt, owner, taken>>,
         \A c \in Tools : /\ SameCall(call[c], call'[c]) /\ call'[c].wire = call[c].wire
                          /\ ToldFine(call'[c]),
         \A a \in Agents :
             \/ life'[a] = life[a] /\ lastNonce'[a] = lastNonce[a]
             \/ life'[a] > life[a]
  PROVE  CallsInductive'
<1>1. Started' = Started
  BY DEF Started
<1>2. ASSUME NEW c \in Tools PROVE SentFine(call[c])'
  <2>1. PICK x : x = call[c]
    OBVIOUS
  <2>2. PICK y : y = call'[c]
    OBVIOUS
  <2>3. SameCall(x, y) /\ y.wire = x.wire /\ SentFine(x) /\ x \in CallRecord
    BY <2>1, <2>2 DEF CallsInductive, CallsFine
  <2>4. SentFine(y)'
    BY <1>1, <2>3 DEF SentFine, SameCall, CallsInductive, ClocksFine, CallRecord
  <2> QED
    BY <2>2, <2>4
<1>3. CallsFine'
  BY <1>1, <1>2 DEF CallsInductive, CallsFine, ToldFine
<1>4. OrderFine'
  BY DEF CallsInductive, OrderFine, InOrder, SameCall
<1>5. BarsFine'
  BY DEF CallsInductive, BarsFine, Bar, SameCall
<1>6. OnceOnRecord' /\ RefusedIfOvertaken'
  BY DEF CallsInductive, OnceOnRecord, RefusedIfOvertaken, BarsFine, SameCall
<1> QED
  BY <1>3, <1>4, <1>5, <1>6 DEF CallsInductive
LEMMA Tool_TellUnreachable ==
  ASSUME CallsInductive, NEW c \in Tools, TellUnreachable(c)
  PROVE  CallsInductive'
<1>1. PICK x : x = call[c]
  OBVIOUS
<1>2. PICK y : y = [x EXCEPT !.told = "unreachable"]
  OBVIOUS
<1>3. x \in CallRecord /\ x.wire = "flying" /\ call' = [call EXCEPT ![c] = y]
  BY <1>1, <1>2 DEF TellUnreachable, CallsInductive, CallsFine
<1>4. y \in CallRecord /\ SameCall(x, y) /\ y.wire = x.wire /\ ToldFine(y)
  BY <1>2, <1>3 DEF CallRecord, SameCall, ToldFine
<1>5. call' \in [Tools -> CallRecord]
  BY <1>3, <1>4 DEF CallsInductive, CallsFine
<1>6. \A d \in Tools : call'[d] = IF d = c THEN y ELSE call[d]
  BY <1>3 DEF CallsInductive, CallsFine
<1>7. \A d \in Tools : /\ SameCall(call[d], call'[d]) /\ call'[d].wire = call[d].wire
                       /\ ToldFine(call'[d])
  BY <1>1, <1>4, <1>6 DEF CallsInductive, CallsFine, SameCall
<1>8. UNCHANGED <<sayNonce, burnt, owner, taken, millis, lastNonce, life>>
  BY DEF TellUnreachable, ServiceUnchanged
<1>9. ClocksFine'
  BY <1>8 DEF CallsInductive, ClocksFine
<1> QED
  BY <1>5, <1>7, <1>8, <1>9, Tool_Retold

LEMMA Tool_AgentTick ==
  ASSUME CallsInductive, NEW a \in Agents, AgentTick(a)
  PROVE  CallsInductive'
<1>1. UNCHANGED <<call, sayNonce, burnt, owner, taken, lastNonce, life>>
  BY DEF AgentTick, ServiceUnchanged
<1>2. ClocksFine'
  BY <1>1 DEF AgentTick, CallsInductive, ClocksFine
<1>3. \A d \in Tools : /\ SameCall(call[d], call'[d]) /\ call'[d].wire = call[d].wire
                       /\ ToldFine(call'[d])
  BY <1>1 DEF CallsInductive, CallsFine, SameCall
<1>4. call' \in [Tools -> CallRecord]
  BY <1>1 DEF CallsInductive, CallsFine
<1> QED
  BY <1>1, <1>2, <1>3, <1>4, Tool_Retold

LEMMA Tool_Restart ==
  ASSUME CallsInductive, NEW a \in Agents, Restart(a)
  PROVE  CallsInductive'
<1>1. UNCHANGED <<sayNonce, burnt, owner, taken>>
  BY DEF Restart, ServiceUnchanged
<1>2. ClocksFine'
  BY DEF Restart, CallsInductive, ClocksFine
<1>3. \A b \in Agents : life'[b] = IF b = a THEN life[b] + 1 ELSE life[b]
  BY DEF Restart, CallsInductive, ClocksFine
<1>4. \A b \in Agents : \/ life'[b] = life[b] /\ lastNonce'[b] = lastNonce[b]
                        \/ life'[b] > life[b]
  BY <1>3 DEF Restart, CallsInductive, ClocksFine
<1>5. ASSUME NEW d \in Tools
      PROVE  /\ SameCall(call[d], call'[d]) /\ call'[d].wire = call[d].wire
             /\ ToldFine(call'[d]) /\ call'[d] \in CallRecord
  <2>1. PICK x : x = call[d]
    OBVIOUS
  <2>2. PICK y : y = call'[d]
    OBVIOUS
  <2>3. x \in CallRecord /\ ToldFine(x)
    BY <2>1 DEF CallsInductive, CallsFine
  <2>4. y = IF x.agent = a /\ x.told = "waiting" THEN [x EXCEPT !.told = "unreachable"] ELSE x
    BY <2>1, <2>2 DEF Restart
  <2>5. SameCall(x, y) /\ y.wire = x.wire /\ y \in CallRecord
    BY <2>3, <2>4 DEF CallRecord, SameCall
  <2>6. ToldFine(y)
    BY <2>3, <2>4 DEF CallRecord, ToldFine
  <2> QED
    BY <2>1, <2>2, <2>5, <2>6
<1>6. call' \in [Tools -> CallRecord]
  BY <1>5 DEF Restart
<1> QED
  BY <1>1, <1>2, <1>4, <1>5, <1>6, Tool_Retold

LEMMA Tool_Send ==
  ASSUME CallsInductive, NEW c \in Tools, NEW a \in Agents, NEW lane \in Lanes, NEW nonce \in Nat,
         NEW again \in BOOLEAN, nonce > 0, ~again => nonce = NextNonce(a),
         Send(c, a, lane, nonce, again)
  PROVE  CallsInductive'
<1>1. PICK n \in Nat : n = Cardinality(Started)
  BY FS_CardinalityType DEF CallsInductive, CallsFine
<1>2. PICK y : y = [agent |-> a, lane |-> lane, nonce |-> nonce, life |-> life[a],
                    order |-> n + 1, again |-> again, wire |-> "flying", told |-> "waiting"]
  OBVIOUS
<1>3. call' = [call EXCEPT ![c] = y] /\ c \notin Started
  BY <1>1, <1>2 DEF Send
<1>4. \A d \in Tools : call'[d] = IF d = c THEN y ELSE call[d]
  BY <1>3 DEF CallsInductive, CallsFine
<1>5. UNCHANGED <<sayNonce, burnt, owner, taken, millis, life>>
      /\ lastNonce' = [lastNonce EXCEPT ![a] = NextNonce(a)]
  BY DEF Send, ServiceUnchanged
<1>6. NextNonce(a) \in Nat /\ NextNonce(a) > 0 /\ NextNonce(a) > lastNonce[a]
  BY Tool_NextNonce DEF CallsInductive
<1>7. ClocksFine'
  BY <1>5, <1>6 DEF CallsInductive, ClocksFine
<1>8. life[a] \in Nat
  BY DEF CallsInductive, ClocksFine
<1>9. /\ y \in CallRecord /\ y.agent = a /\ y.nonce = nonce /\ y.life = life[a] /\ y.order = n + 1
      /\ y.wire = "flying" /\ y.told = "waiting" /\ y.again = again
  BY <1>2, <1>8 DEF CallRecord
<1>10. call' \in [Tools -> CallRecord]
  BY <1>3, <1>9 DEF CallsInductive, CallsFine
<1>11. Started' = Started \cup {c}
  BY <1>4, <1>9 DEF Started
<1>12. IsFiniteSet(Started') /\ Cardinality(Started') = n + 1
  BY <1>1, <1>3, <1>11, FS_AddElement DEF CallsInductive, CallsFine
<1>13. \A b \in Agents : lastNonce'[b] >= lastNonce[b] /\ lastNonce[b] \in Nat /\ lastNonce'[b] \in Nat
  BY <1>5, <1>6 DEF CallsInductive, ClocksFine
<1>14. lastNonce'[a] = NextNonce(a)
  BY <1>5 DEF CallsInductive, ClocksFine
<1>15. ASSUME NEW d \in Tools PROVE SentFine(call[d])' /\ ToldFine(call[d])'
  <2>1. CASE d = c
    <3>a. y.order \in 1..Cardinality(Started')
      BY <1>9, <1>12
    <3>b. ~again => nonce <= lastNonce'[a]
      BY <1>6, <1>14
    <3>c. life'[a] = life[a] /\ y.life <= life[a] /\ y.agent \in Agents /\ y.nonce > 0
      BY <1>5, <1>8, <1>9
    <3>1. SentFine(y)'
      BY <1>9, <3>a, <3>b, <3>c DEF SentFine
    <3>2. ToldFine(y)
      BY <1>9 DEF ToldFine
    <3> QED
      BY <1>4, <2>1, <3>1, <3>2 DEF SentFine, ToldFine
  <2>2. CASE d # c
    <3>1. PICK x : x = call[d]
      OBVIOUS
    <3>2. SentFine(x) /\ ToldFine(x) /\ x \in CallRecord
      BY <3>1 DEF CallsInductive, CallsFine
    <3>3. SentFine(x)'
      BY <1>1, <1>5, <1>12, <1>13, <3>2 DEF SentFine, CallRecord
    <3>4. call'[d] = x
      BY <1>4, <2>2, <3>1
    <3> QED
      BY <3>2, <3>3, <3>4 DEF SentFine, ToldFine
  <2> QED
    BY <2>1, <2>2
<1>16. CallsFine'
  BY <1>10, <1>12, <1>15 DEF CallsFine
<1>17. OrderFine'
  <2>1. ASSUME NEW d \in Tools \ {c} PROVE InOrder(call[d], y) /\ InOrder(y, call[d])
    <3>1. PICK x : x = call[d]
      OBVIOUS
    <3>2. SentFine(x) /\ x \in CallRecord
      BY <3>1 DEF CallsInductive, CallsFine
    <3>3. x.wire # "none" => x.order < y.order /\ x.order \in Nat
      BY <1>1, <1>9, <3>2 DEF SentFine
    <3>4. x.wire # "none" /\ x.agent = a =>
             /\ x.life <= y.life
             /\ x.life = y.life /\ ~x.again /\ ~y.again => x.nonce < y.nonce
      BY <1>6, <1>9, <1>13, <3>2 DEF SentFine, CallRecord
    <3>5. y.order \in Nat
      BY <1>9
    <3> QED
      BY <1>9, <3>1, <3>3, <3>4, <3>5 DEF InOrder
  <2>2. \A d, e \in Tools : d # e => InOrder(call'[d], call'[e])
    BY <1>4, <2>1 DEF CallsInductive, OrderFine
  <2> QED
    BY <2>2 DEF OrderFine, InOrder
<1>18. \A d \in taken : d # c /\ call'[d] = call[d] /\ call[d].wire = "ok"
  BY <1>3, <1>4 DEF CallsInductive, BarsFine, Started
<1>19. BarsFine'
  BY <1>4, <1>5, <1>9, <1>18 DEF CallsInductive, BarsFine, Bar
<1>20. OnceOnRecord'
  BY <1>5, <1>18 DEF CallsInductive, OnceOnRecord
<1>21. RefusedIfOvertaken'
  BY <1>4, <1>5, <1>9, <1>18 DEF CallsInductive, RefusedIfOvertaken
<1> QED
  BY <1>7, <1>16, <1>17, <1>19, <1>20, <1>21 DEF CallsInductive

LEMMA Tool_CallTool ==
  ASSUME CallsInductive, NEW c \in Tools, NEW a \in Agents, CallTool(c, a)
  PROVE  CallsInductive'
<1>1. PICK lane \in Lanes : Send(c, a, lane, NextNonce(a), FALSE)
  BY DEF CallTool
<1>2. NextNonce(a) \in Nat /\ NextNonce(a) > 0
  BY Tool_NextNonce DEF CallsInductive
<1> QED
  BY <1>1, <1>2, Tool_Send

LEMMA Tool_CallAgain ==
  ASSUME CallsInductive, NEW c \in Tools, NEW d \in Tools, CallAgain(c, d)
  PROVE  CallsInductive'
<1>1. PICK x : x = call[d]
  OBVIOUS
<1>2. SentFine(x) /\ ToldFine(x) /\ x \in CallRecord /\ x.told = "unreachable"
  BY <1>1 DEF CallAgain, CallsInductive, CallsFine
<1>3. x.agent \in Agents /\ x.nonce > 0 /\ x.nonce \in Nat /\ x.lane \in Lanes
  BY <1>2 DEF SentFine, ToldFine, CallRecord
<1>4. Send(c, x.agent, x.lane, x.nonce, TRUE)
  BY <1>1 DEF CallAgain
<1> QED
  BY <1>3, <1>4, Tool_Send

LEMMA Tool_Arrive ==
  ASSUME CallsInductive, NEW c \in Tools, Arrive(c)
  PROVE  CallsInductive'
<1>1. PICK x : x = call[c]
  OBVIOUS
<1>2. /\ SentFine(x) /\ ToldFine(x) /\ x \in CallRecord /\ x.wire = "flying"
      /\ x.agent \in Agents /\ x.nonce > 0
  BY <1>1 DEF Arrive, CallsInductive, CallsFine, SentFine
<1>3. PICK out \in {"ok", "nonce", "denied"} : out = Outcome(c)
  BY DEF Outcome
<1>4. PICK told \in {out, "unreachable", x.told} : call' = [call EXCEPT ![c].wire = out, ![c].told = told]
  BY <1>1, <1>3 DEF Arrive
<1>5. PICK y : y = [x EXCEPT !.wire = out, !.told = told]
  OBVIOUS
<1>6. call' = [call EXCEPT ![c] = y]
  BY <1>1, <1>4, <1>5 DEF CallsInductive, CallsFine
<1>7. y \in CallRecord /\ SameCall(x, y) /\ y.wire = out /\ ToldFine(y)
  BY <1>2, <1>3, <1>4, <1>5 DEF CallRecord, SameCall, ToldFine
<1>8. \A d \in Tools : call'[d] = IF d = c THEN y ELSE call[d]
  BY <1>6 DEF CallsInductive, CallsFine
<1>9. \A d \in Tools : SameCall(call[d], call'[d]) /\ (call'[d].wire = "none" <=> call[d].wire = "none")
  BY <1>1, <1>2, <1>3, <1>7, <1>8 DEF SameCall
<1>10. UNCHANGED <<millis, lastNonce, life>>
  BY DEF Arrive
<1>11. Started' = Started
  BY <1>9 DEF Started
<1>12. CallsFine'
  <2>1. call' \in [Tools -> CallRecord]
    BY <1>6, <1>7 DEF CallsInductive, CallsFine
  <2>2. ASSUME NEW d \in Tools PROVE SentFine(call[d])' /\ ToldFine(call[d])'
    <3>1. SentFine(call[d])'
      BY <1>9, <1>10, <1>11 DEF CallsInductive, CallsFine, SentFine, SameCall
    <3>2. ToldFine(call'[d])
      BY <1>7, <1>8 DEF CallsInductive, CallsFine
    <3> QED
      BY <3>1, <3>2 DEF ToldFine
  <2> QED
    BY <1>11, <2>1, <2>2 DEF CallsInductive, CallsFine
<1>13. ClocksFine' /\ OrderFine'
  BY <1>9, <1>10 DEF CallsInductive, ClocksFine, OrderFine, InOrder, SameCall
<1>14. c \notin taken
  BY <1>1, <1>2 DEF CallsInductive, BarsFine
<1>15. CASE out = "ok"
  <2>1. Entitled(c) /\ Exceeds(c) /\ Accept(c)
    BY <1>3, <1>15 DEF Outcome, Arrive
  <2>2. taken' = taken \cup {c}
    BY <2>1 DEF Accept
  <2>3. \A d \in taken : call'[d] = call[d]
    BY <1>8, <1>14 DEF CallsInductive, BarsFine
  <2>4. call'[c] = y /\ y.lane = x.lane /\ y.agent = x.agent /\ y.nonce = x.nonce /\ y.nonce \in Nat
    BY <1>7, <1>8 DEF SameCall, CallRecord
  <2>5. RefusedIfOvertaken'
    BY <1>7, <1>8, <1>15, <2>2, <2>3 DEF CallsInductive, RefusedIfOvertaken, BarsFine
  <2>6. \A d \in Tools : (call[d].wire = "ok" <=> d \in taken)'
    BY <1>7, <1>8, <1>15, <2>2 DEF CallsInductive, BarsFine
  <2>7. CASE x.lane = "say"
    <3>1. /\ sayNonce' = [sayNonce EXCEPT ![x.agent] = x.nonce] /\ UNCHANGED <<burnt, owner>>
          /\ x.nonce > sayNonce[x.agent]
      BY <1>1, <2>1, <2>7 DEF Accept, Exceeds, Bar
    <3>2. \A a \in Agents : sayNonce'[a] = IF a = x.agent THEN x.nonce ELSE sayNonce[a]
      BY <3>1 DEF CallsInductive, BarsFine
    <3>3. sayNonce' \in [Agents -> Nat] /\ taken' \subseteq Tools
      BY <1>2, <2>2, <3>1 DEF CallsInductive, BarsFine, CallRecord
    <3>4. ASSUME NEW a \in Agents, sayNonce'[a] > 0
          PROVE  \E d \in taken' : call'[d].lane = "say" /\ call'[d].agent = a /\ call'[d].nonce = sayNonce'[a]
      BY <2>2, <2>3, <2>4, <2>7, <3>2, <3>4 DEF CallsInductive, BarsFine
    <3>5. owner' # NoAgent =>
             \E d \in taken' : call'[d].lane # "say" /\ call'[d].agent = owner' /\ call'[d].nonce = burnt'
      BY <2>2, <2>3, <3>1 DEF CallsInductive, BarsFine
    <3>6. ASSUME NEW d \in taken' PROVE call'[d].nonce <= Bar(d)'
      <4>1. CASE d = c
        BY <1>2, <2>4, <2>7, <3>2, <4>1 DEF Bar
      <4>2. CASE d # c
        <5>1. d \in taken /\ call'[d] = call[d] /\ call[d].nonce <= Bar(d) /\ call[d] \in CallRecord
              /\ call[d].agent \in Agents
          BY <2>2, <2>3, <4>2 DEF CallsInductive, BarsFine, CallsFine, SentFine
        <5>2. sayNonce[call[d].agent] \in Nat /\ sayNonce'[call[d].agent] \in Nat
              /\ sayNonce'[call[d].agent] >= sayNonce[call[d].agent]
          BY <3>1, <3>2, <3>3, <5>1 DEF CallsInductive, BarsFine
        <5> QED
          BY <3>1, <5>1, <5>2 DEF Bar, CallRecord
      <4> QED
        BY <4>1, <4>2
    <3>7. BarsFine'
      BY <2>6, <3>1, <3>3, <3>4, <3>5, <3>6 DEF CallsInductive, BarsFine
    <3>8. ASSUME NEW d \in taken, call[d].lane = "say", call[d].agent = x.agent PROVE call[d].nonce < x.nonce
      BY <1>2, <3>1, <3>8 DEF CallsInductive, BarsFine, Bar, CallsFine, CallRecord
    <3>9. OnceOnRecord'
      <4>1. ASSUME NEW d \in taken PROVE ~(call[d].lane = x.lane /\ call[d].agent = x.agent /\ call[d].nonce = x.nonce)
        BY <2>4, <2>7, <3>8
      <4> QED
        BY <2>2, <2>3, <2>4, <4>1 DEF CallsInductive, OnceOnRecord
    <3> QED
      BY <1>12, <1>13, <2>5, <3>7, <3>9 DEF CallsInductive
  <2>8. CASE x.lane # "say"
    <3>1. burnt' = x.nonce /\ owner' = x.agent /\ UNCHANGED sayNonce /\ x.nonce > burnt
      BY <1>1, <2>1, <2>8 DEF Accept, Exceeds, Bar, BurntBy
    <3>2. burnt' \in Nat /\ burnt' > 0 /\ owner' \in Agents /\ owner' # NoAgent /\ taken' \subseteq Tools
      BY <1>2, <2>2, <2>4, <3>1, ToolAssumption DEF CallsInductive, BarsFine
    <3>3. ASSUME NEW a \in Agents, sayNonce'[a] > 0
          PROVE  \E d \in taken' : call'[d].lane = "say" /\ call'[d].agent = a /\ call'[d].nonce = sayNonce'[a]
      BY <2>2, <2>3, <3>1, <3>3 DEF CallsInductive, BarsFine
    <3>4. \E d \in taken' : call'[d].lane # "say" /\ call'[d].agent = owner' /\ call'[d].nonce = burnt'
      BY <2>2, <2>4, <2>8, <3>1
    <3>5. ASSUME NEW d \in taken, call[d].lane # "say" PROVE call[d].nonce < x.nonce
      BY <2>4, <3>1, <3>5 DEF CallsInductive, BarsFine, Bar, CallsFine, CallRecord
    <3>6. ASSUME NEW d \in taken' PROVE call'[d].nonce <= Bar(d)'
      <4>1. CASE d = c
        BY <2>4, <2>8, <3>1, <4>1 DEF Bar
      <4>2. CASE d # c
        <5>1. d \in taken /\ call'[d] = call[d] /\ call[d].nonce <= Bar(d) /\ call[d] \in CallRecord
          BY <2>2, <2>3, <4>2 DEF CallsInductive, BarsFine, CallsFine
        <5>2. call[d].lane # "say" => call[d].nonce <= x.nonce
          BY <2>4, <3>5, <5>1 DEF CallRecord
        <5> QED
          BY <3>1, <5>1, <5>2 DEF Bar
      <4> QED
        BY <4>1, <4>2
    <3>7. BarsFine'
      BY <2>6, <3>1, <3>2, <3>3, <3>4, <3>6 DEF CallsInductive, BarsFine
    <3>8. OnceOnRecord'
      <4>1. ASSUME NEW d \in taken PROVE ~(call[d].lane = x.lane /\ call[d].agent = x.agent /\ call[d].nonce = x.nonce)
        BY <2>4, <2>8, <3>5
      <4> QED
        BY <2>2, <2>3, <2>4, <4>1 DEF CallsInductive, OnceOnRecord
    <3> QED
      BY <1>12, <1>13, <2>5, <3>7, <3>8 DEF CallsInductive
  <2> QED
    BY <2>7, <2>8
<1>16. CASE out # "ok"
  <2>1. UNCHANGED <<sayNonce, burnt, owner, taken>>
    BY <1>3, <1>16 DEF Arrive, ServiceUnchanged
  <2>2. \A d \in taken : call'[d] = call[d]
    BY <1>8, <1>14 DEF CallsInductive, BarsFine
  <2>3. BarsFine'
    BY <1>7, <1>8, <1>16, <2>1, <2>2, <1>14 DEF CallsInductive, BarsFine, Bar
  <2>4. OnceOnRecord'
    BY <2>1, <2>2 DEF CallsInductive, OnceOnRecord
  <2>5. ASSUME out = "nonce", ~x.again
        PROVE  \E d \in taken : /\ call[d].agent = x.agent /\ call[d].nonce >= x.nonce
                                /\ call[d].order > x.order \/ call[d].life < x.life \/ call[d].again
    <3>1. Entitled(c) /\ ~Exceeds(c)
      BY <1>3, <2>5 DEF Outcome
    <3>2. PICK d \in taken : call[d].agent = x.agent /\ call[d].nonce >= x.nonce
      <4>1. CASE x.lane = "say"
        <5>1. sayNonce[x.agent] >= x.nonce /\ sayNonce[x.agent] > 0
          BY <1>1, <1>2, <3>1, <4>1 DEF Exceeds, Bar, CallsInductive, BarsFine, CallRecord
        <5> QED
          BY <1>2, <5>1 DEF CallsInductive, BarsFine
      <4>2. CASE x.lane # "say"
        <5>1. burnt >= x.nonce /\ burnt > 0
          BY <1>1, <1>2, <3>1, <4>2 DEF Exceeds, Bar, CallsInductive, BarsFine, CallRecord
        <5>2. owner # NoAgent
          BY <5>1 DEF CallsInductive, BarsFine
        <5>3. owner = x.agent
          BY <1>1, <1>2, <3>1, <4>2, <5>2 DEF Entitled, CallRecord, Lanes
        <5> QED
          BY <5>1, <5>2, <5>3 DEF CallsInductive, BarsFine
      <4> QED
        BY <4>1, <4>2
    <3>3. PICK z : z = call[d]
      OBVIOUS
    <3>4. d \in Tools /\ d # c /\ z.wire = "ok" /\ z \in CallRecord
      BY <1>14, <3>2, <3>3 DEF CallsInductive, BarsFine, CallsFine
    <3>5. InOrder(z, x)
      BY <1>1, <3>3, <3>4 DEF CallsInductive, OrderFine
    <3>6. z.order > x.order \/ z.life < x.life \/ z.again
      BY <1>2, <2>5, <3>2, <3>3, <3>4, <3>5 DEF InOrder, CallRecord
    <3> QED
      BY <3>2, <3>3, <3>6
  <2>6. RefusedIfOvertaken'
    <3>1. y.agent = x.agent /\ y.nonce = x.nonce /\ y.order = x.order /\ y.life = x.life /\ y.again = x.again
      BY <1>7 DEF SameCall
    <3> QED
      BY <1>7, <1>8, <2>1, <2>2, <2>5, <3>1 DEF CallsInductive, RefusedIfOvertaken
  <2> QED
    BY <1>12, <1>13, <2>3, <2>4, <2>6 DEF CallsInductive
<1> QED
  BY <1>15, <1>16
LEMMA Tool_Next ==
  ASSUME CallsInductive, CallNext
  PROVE  CallsInductive'
<1>1. ASSUME NEW c \in Tools, Arrive(c) \/ TellUnreachable(c) PROVE CallsInductive'
  BY <1>1, Tool_Arrive, Tool_TellUnreachable
<1>2. ASSUME NEW c \in Tools, NEW a \in Agents, CallTool(c, a) PROVE CallsInductive'
  BY <1>2, Tool_CallTool
<1>3. ASSUME NEW c \in Tools, NEW d \in Tools, CallAgain(c, d) PROVE CallsInductive'
  BY <1>3, Tool_CallAgain
<1>4. ASSUME NEW a \in Agents, AgentTick(a) \/ Restart(a) PROVE CallsInductive'
  BY <1>4, Tool_AgentTick, Tool_Restart
<1> QED
  BY <1>1, <1>2, <1>3, <1>4 DEF CallNext

LEMMA Tool_Still ==
  ASSUME CallsInductive, UNCHANGED callVars
  PROVE  CallsInductive'
<1>1. UNCHANGED <<call, millis, lastNonce, life, sayNonce, burnt, owner, taken>>
  BY DEF callVars
<1>2. CallsFine' /\ ClocksFine' /\ OrderFine'
  BY <1>1 DEF CallsInductive, CallsFine, ClocksFine, OrderFine, SentFine, Started
<1>3. BarsFine' /\ OnceOnRecord' /\ RefusedIfOvertaken'
  BY <1>1 DEF CallsInductive, BarsFine, OnceOnRecord, RefusedIfOvertaken, Bar
<1> QED
  BY <1>2, <1>3 DEF CallsInductive

---------------------------------------------------------------------------
(* The long poll and the listing.                                          *)

LEMMA Tool_Held ==
  ASSUME NEW asked \in Int
  PROVE  Held(asked) \in Nat /\ Deadline(asked) \in Nat /\ Held(asked) < Deadline(asked)
BY ToolAssumption DEF Held, Deadline, LeastOf, AtLeastZero

LEMMA Tool_Hold ==
  ASSUME PollFine, HoldNext \/ UNCHANGED poll
  PROVE  PollFine'
<1>1. CASE UNCHANGED poll
  BY <1>1 DEF PollFine
<1>2. CASE BeginWait
  <2>1. PICK w \in WaitsAsked : poll' = [pc |-> "held", asked |-> w, elapsed |-> 0]
    BY <1>2 DEF BeginWait
  <2>2. w \in Int /\ Held(w) \in Nat
    BY Tool_Held, ToolAssumption
  <2> QED
    BY <2>1, <2>2 DEF PollFine
<1>3. CASE WaitSecond
  <2>1. PICK x \in [pc : {"idle", "held"}, asked : Int, elapsed : Nat] : x = poll
    BY DEF PollFine
  <2>2. Held(x.asked) \in Nat /\ Deadline(x.asked) \in Nat /\ Held(x.asked) < Deadline(x.asked)
    BY <2>1, Tool_Held
  <2>3. x.elapsed + 1 <= Held(x.asked) /\ x.elapsed \in Nat
    BY <1>3, <2>1, <2>2 DEF WaitSecond
  <2>4. ~(x.elapsed + 1 >= Deadline(x.asked))
    BY <2>2, <2>3
  <2>a. PICK e \in Nat : e = x.elapsed + 1
    BY <2>3
  <2>5. poll' = [x EXCEPT !.elapsed = e, !.pc = "held"]
    BY <1>3, <2>1, <2>4, <2>a DEF WaitSecond
  <2>6. poll'.asked = x.asked /\ poll'.elapsed = e
        /\ poll' \in [pc : {"idle", "held"}, asked : Int, elapsed : Nat]
    BY <2>1, <2>5
  <2> QED
    BY <2>3, <2>6, <2>a DEF PollFine
<1>4. CASE EndWait
  BY <1>4 DEF EndWait, PollFine
<1> QED
  BY <1>1, <1>2, <1>3, <1>4 DEF HoldNext

LEMMA Tool_Listing ==
  ASSUME ListingFine, ListNotes \/ UNCHANGED listing
  PROVE  ListingFine'
<1>1. CASE UNCHANGED listing
  BY <1>1 DEF ListingFine
<1>2. CASE ListNotes
  <2>1. PICK n \in 0..MaxLines : \E body \in [1..n -> {"key", "frame"}] : \E limit \in Limits :
          listing' = [body |-> body, limit |-> limit]
    BY <1>2 DEF ListNotes
  <2>2. PICK body \in [1..n -> {"key", "frame"}] : \E limit \in Limits :
          listing' = [body |-> body, limit |-> limit]
    BY <2>1
  <2>3. PICK limit \in Limits : listing' = [body |-> body, limit |-> limit]
    BY <2>2
  <2>4. listing'.body = body /\ listing'.limit = limit
    BY <2>3
  <2>5. n \in Nat /\ limit \in Nat
    BY ToolAssumption
  <2> QED
    BY <2>4, <2>5 DEF ListingFine
<1> QED
  BY <1>1, <1>2

\* A set of naturals with more than k members has one with k members below it.
LEMMA Ranked ==
  ASSUME NEW S \in SUBSET Nat, IsFiniteSet(S), NEW k \in Nat, Cardinality(S) > k, NEW top \in Nat,
         \A j \in S : j < top
  PROVE  \E m \in S : Cardinality({j \in S : j < m}) = k
<1>0. \A j \in S : j \in Nat
  OBVIOUS
<1> DEFINE Below(m) == {j \in S : j < m}
<1>1. \A m \in Nat : IsFiniteSet(Below(m)) /\ Cardinality(Below(m)) \in Nat
  <2>1. TAKE m \in Nat
  <2>2. Below(m) \in SUBSET S
    OBVIOUS
  <2> QED
    BY <2>2, FS_Subset, FS_CardinalityType
<1> DEFINE R == OpToRel(<, Nat)
           T == {m \in Nat : Cardinality(Below(m)) > k}
<1>2. T \subseteq Nat /\ T # {}
  <2>1. Below(top) = S
    OBVIOUS
  <2>2. top \in T
    BY <2>1
  <2> QED
    BY <2>2
<1>3. IsWellFoundedOn(R, Nat)
  BY NatLessThanWellFounded
<1> HIDE DEF R, T
<1>4. PICK m \in T : \A y \in T : ~ (<<y, m>> \in R)
  BY <1>2, <1>3, WFMin
<1>5. \A y \in T : ~ (y < m)
  BY <1>2, <1>4 DEF R, OpToRel
<1>6. m \in Nat /\ Cardinality(Below(m)) > k
  BY DEF T
<1>7. m # 0
  <2>1. SUFFICES ASSUME m = 0 PROVE FALSE
    OBVIOUS
  <2>2. \A j \in S : ~(j < m)
    BY <1>0, <2>1
  <2>3. Below(m) = {}
    BY <2>2
  <2> QED
    BY <1>6, <2>3, FS_EmptySet
<1>8. PICK i \in Nat : m = i + 1
  BY <1>6, <1>7
<1>9. ~(Cardinality(Below(i)) > k)
  <2>1. i \notin T
    BY <1>5, <1>8
  <2> QED
    BY <2>1 DEF T
<1>10. CASE i \in S
  <2>0. (\A j \in S : j < m <=> j < i \/ j = i) /\ ~(i < i)
    BY <1>0, <1>8
  <2>1. Below(m) = Below(i) \cup {i} /\ i \notin Below(i)
    BY <1>10, <2>0
  <2>2. Cardinality(Below(m)) = Cardinality(Below(i)) + 1
    BY <1>1, <2>1, FS_AddElement
  <2>3. Cardinality(Below(i)) = k
    BY <1>1, <1>6, <1>9, <2>2
  <2> QED
    BY <1>10, <2>3
<1>11. CASE i \notin S
  <2>0. \A j \in S : j < m <=> j < i
    BY <1>0, <1>8, <1>11
  <2>1. Below(m) = Below(i)
    BY <2>0
  <2> QED
    BY <1>6, <1>9, <2>1
<1> QED
  BY <1>10, <1>11

LEMMA Tool_Clamp == ListingFine => ClampKeepsFrame
<1> SUFFICES ASSUME ListingFine PROVE ClampKeepsFrame
  OBVIOUS
<1>1. PICK n \in Nat : listing.body \in [1..n -> {"key", "frame"}]
  BY DEF ListingFine
<1>2. PICK body \in [1..n -> {"key", "frame"}] : body = listing.body
  BY <1>1
<1>3. PICK limit \in Nat : limit = listing.limit
  BY DEF ListingFine
<1>4. PICK S : S = KeyLines(body)
  OBVIOUS
<1>5. S \subseteq 1..n /\ DOMAIN body = 1..n /\ \A i \in 1..n : i \in S <=> body[i] = "key"
  BY <1>4 DEF KeyLines
<1>6. IsFiniteSet(S) /\ Cardinality(S) \in Nat
  <2>1. S \in SUBSET (1..n) /\ 1 \in Int /\ n \in Int
    BY <1>5
  <2>2. IsFiniteSet(1..n)
    BY <2>1, FS_Interval
  <2> QED
    BY <2>1, <2>2, FS_Subset, FS_CardinalityType
<1> DEFINE kept == Clamped(body, limit)
<1>7. CASE Cardinality(S) <= limit
  <2>1. kept = 1..n
    BY <1>4, <1>5, <1>7 DEF Clamped
  <2>2. kept \cap S = S
    BY <1>5, <2>1
  <2>3. Cardinality(kept \cap S) = LeastOf(limit, Cardinality(S))
    <3>1. LeastOf(limit, Cardinality(S)) = Cardinality(S)
      BY <1>6, <1>7 DEF LeastOf
    <3> HIDE DEF kept
    <3> QED
      BY <2>2, <3>1
  <2>4. \A i \in kept \cap S, j \in S : j < i => j \in kept
    BY <1>5, <2>1
  <2> QED
    BY <1>2, <1>3, <1>4, <1>5, <2>1, <2>3, <2>4 DEF ClampKeepsFrame
<1>8. CASE Cardinality(S) > limit
  <2> DEFINE Cuts(m) == Cardinality({j \in S : j < m}) = limit
             cut == CHOOSE i \in S : Cuts(i)
  <2>1. \E m \in S : Cuts(m)
    <3>1. n + 1 \in Nat /\ \A j \in S : j < n + 1
      BY <1>5
    <3>2. S \in SUBSET Nat
      BY <1>5
    <3> QED
      BY <1>6, <1>8, <3>1, <3>2, Ranked
  <2> HIDE DEF Cuts
  <2>2. cut \in S /\ Cuts(cut)
    BY <2>1
  <2>3. kept = {i \in 1..n : Stays(body, i, cut)}
    BY <1>4, <1>5, <1>6, <1>8 DEF Clamped, Cuts
  <2> HIDE DEF cut, kept
  <2>4. \A i \in 1..n : i \in kept <=> i < cut \/ i \notin S
    BY <1>5, <2>3 DEF Stays
  <2>5. kept \cap S = {j \in S : j < cut} /\ kept \subseteq 1..n
    BY <1>5, <2>3, <2>4
  <2>6. Cardinality(kept \cap S) = LeastOf(limit, Cardinality(S))
    <3>1. LeastOf(limit, Cardinality(S)) = limit
      BY <1>6, <1>8 DEF LeastOf
    <3>2. Cardinality({j \in S : j < cut}) = limit
      BY <2>2 DEF Cuts
    <3> QED
      BY <2>5, <3>1, <3>2
  <2>7. (1..n) \ S \subseteq kept
    BY <2>4
  <2>8. \A i \in kept \cap S, j \in S : j < i => j \in kept
    <3>1. SUFFICES ASSUME NEW i \in kept \cap S, NEW j \in S, j < i PROVE j \in kept
      OBVIOUS
    <3>2. i \in 1..n /\ j \in 1..n /\ cut \in 1..n /\ i < cut
      BY <1>5, <2>2, <2>5
    <3>3. j < cut
      BY <3>1, <3>2
    <3> QED
      BY <2>4, <3>2, <3>3
  <2> QED
    BY <1>2, <1>3, <1>4, <1>5, <2>6, <2>7, <2>8 DEF ClampKeepsFrame, kept
<1> QED
  BY <1>6, <1>7, <1>8

ToolInductive == CallsInductive /\ PollFine /\ ListingFine

LEMMA Tool_Inductive == ToolSpec => []ToolInductive
<1>1. ToolInit => ToolInductive
  BY Tool_Init DEF ToolInductive
<1>2. ToolInductive /\ [ToolNext]_toolVars => ToolInductive'
  <2> SUFFICES ASSUME ToolInductive, [ToolNext]_toolVars PROVE ToolInductive'
    OBVIOUS
  <2>1. CallNext \/ UNCHANGED callVars
    BY DEF ToolNext, HoldNext, BeginWait, WaitSecond, EndWait, ListNotes, toolVars
  <2>2. HoldNext \/ UNCHANGED poll
    BY DEF ToolNext, CallNext, Arrive, TellUnreachable, CallTool, CallAgain, Send, AgentTick, Restart,
       ListNotes, OthersUnchanged, toolVars
  <2>3. ListNotes \/ UNCHANGED listing
    BY DEF ToolNext, CallNext, Arrive, TellUnreachable, CallTool, CallAgain, Send, AgentTick, Restart,
       HoldNext, BeginWait, WaitSecond, EndWait, OthersUnchanged, toolVars
  <2>4. CallsInductive'
    BY <2>1, Tool_Next, Tool_Still DEF ToolInductive
  <2>5. PollFine'
    BY <2>2, Tool_Hold DEF ToolInductive
  <2>6. ListingFine'
    BY <2>3, Tool_Listing DEF ToolInductive
  <2> QED
    BY <2>4, <2>5, <2>6 DEF ToolInductive
<1> QED
  BY <1>1, <1>2, PTL DEF ToolSpec

\* What an agent may rely on, for any number of calls, restarts and clocks set
\* back: a signature counts once however often it is sent; a nonce is refused
\* only to a call that another one of its agent overtook; a long poll is answered
\* before the tool stops listening; a listing cut short keeps its frame
\* (`next_nonce`, `wait_for_message`, `_clamp_notes`).
THEOREM ToolsKeepTheirWord == ToolSpec => []ToolInv
<1>1. ToolInductive => ToolInv
  <2> SUFFICES ASSUME ToolInductive PROVE ToolInv
    OBVIOUS
  <2>1. ClampKeepsFrame
    BY Tool_Clamp DEF ToolInductive
  <2>2. HoldEndsFirst /\ poll.pc \in {"idle", "held", "cut"}
    BY DEF ToolInductive, PollFine, HoldEndsFirst
  <2>3. ToolTypeOK
    <3>1. ASSUME NEW c \in Tools
          PROVE  /\ call[c].wire \in {"none", "flying", "ok", "nonce", "denied"}
                 /\ call[c].told \in {"none", "waiting", "unreachable", call[c].wire}
                 /\ call[c].wire = "ok" <=> c \in taken
      BY DEF ToolInductive, CallsInductive, CallsFine, CallRecord, ToldFine, BarsFine
    <3>2. ASSUME NEW c \in Tools, c \in taken, call[c].lane # "say" PROVE burnt >= call[c].nonce
      BY <3>2 DEF ToolInductive, CallsInductive, CallsFine, CallRecord, BarsFine, Bar
    <3>3. lastNonce \in [Agents -> Nat] /\ sayNonce \in [Agents -> Nat] /\ (burnt > 0 <=> owner # NoAgent)
      BY DEF ToolInductive, CallsInductive, ClocksFine, BarsFine
    <3> QED
      BY <2>2, <3>1, <3>2, <3>3 DEF ToolTypeOK
  <2> QED
    BY <2>1, <2>2, <2>3 DEF ToolInv, ToolInductive, CallsInductive
<1> QED
  BY <1>1, Tool_Inductive, PTL
---------------------------------------------------------------------------
(* The write lane. *)

(* Sequences. *)

\* r is some of s, each of its elements once.
Inside(r, s, g) ==
    /\ g \in [1..Len(r) -> 1..Len(s)]
    /\ \A i, j \in 1..Len(r) : g[i] = g[j] => i = j
    /\ \A j \in 1..Len(r) : r[j] = s[g[j]]
SomeOf(r, s) == \E g : Inside(r, s, g)

Hits(s, x) == {j \in DOMAIN s : s[j] = x}

LEMMA Lane_HitsFinite ==
  ASSUME NEW S, NEW s \in Seq(S), NEW x
  PROVE  /\ IsFiniteSet(Hits(s, x)) /\ Cardinality(Hits(s, x)) \in Nat
         /\ Hits(s, x) \subseteq 1..Len(s) /\ IsFiniteSet(1..Len(s)) /\ Cardinality(1..Len(s)) = Len(s)
<1>1. DOMAIN s = 1..Len(s) /\ Len(s) \in Nat
  BY LenProperties
<1>2. Hits(s, x) \subseteq 1..Len(s)
  BY <1>1 DEF Hits
<1>3. IsFiniteSet(1..Len(s)) /\ Cardinality(1..Len(s)) = Len(s)
  BY <1>1, FS_Interval
<1> QED
  BY <1>2, <1>3, FS_Subset, FS_CardinalityType

LEMMA Lane_FewerHits ==
  ASSUME NEW S, NEW r \in Seq(S), NEW s \in Seq(S), SomeOf(r, s), NEW x
  PROVE  Cardinality(Hits(r, x)) <= Cardinality(Hits(s, x))
<1>1. PICK g : Inside(r, s, g)
  BY DEF SomeOf
<1>2. DOMAIN r = 1..Len(r) /\ DOMAIN s = 1..Len(s)
  BY LenProperties
<1> DEFINE f == [j \in Hits(r, x) |-> g[j]]
<1>3. \A j \in Hits(r, x) : f[j] \in Hits(s, x)
  BY <1>1, <1>2 DEF Inside, Hits
<1>4. \A i, j \in Hits(r, x) : f[i] = f[j] => i = j
  BY <1>1, <1>2 DEF Inside, Hits
<1>5. f = [j \in Hits(r, x) |-> f[j]]
  OBVIOUS
<1> HIDE DEF f
<1>6. f \in Injection(Hits(r, x), Hits(s, x))
  BY <1>3, <1>4, <1>5, Fun_IsInj
<1> QED
  BY <1>6, Lane_HitsFinite, FS_Injection

LEMMA Lane_NoLonger ==
  ASSUME NEW S, NEW r \in Seq(S), NEW s \in Seq(S), SomeOf(r, s)
  PROVE  Len(r) <= Len(s)
<1>1. PICK g : Inside(r, s, g)
  BY DEF SomeOf
<1>2. g \in Injection(1..Len(r), 1..Len(s))
  BY <1>1, Fun_IsInj DEF Inside
<1>3. /\ IsFiniteSet(1..Len(s)) /\ Cardinality(1..Len(s)) = Len(s)
      /\ Cardinality(1..Len(r)) = Len(r)
  BY Lane_HitsFinite
<1> QED
  BY <1>2, <1>3, FS_Injection

\* What Only computes, by least counterexamples over the lengths.
OnlyStep(f, s, G, i) ==
    IF i = 0 THEN <<>> ELSE IF s[i] \in G THEN Append(f[i - 1], s[i]) ELSE f[i - 1]

OnlyUpto(f, s, G, n) == f = [i \in 0..n |-> OnlyStep(f, s, G, i)]

LEMMA Lane_OnlyExists ==
  ASSUME NEW s, NEW G, NEW k \in Nat
  PROVE  \E f : OnlyUpto(f, s, G, k)
<1> DEFINE T == {n \in Nat : ~ \E f : OnlyUpto(f, s, G, n)}
<1> SUFFICES ASSUME T # {} PROVE FALSE
  OBVIOUS
<1>1. T \subseteq Nat
  OBVIOUS
<1> HIDE DEF T
<1>2. PICK m \in T : \A y \in T : m <= y
  BY <1>1, Least
<1>3. m \in Nat /\ ~ \E f : OnlyUpto(f, s, G, m)
  BY DEF T
<1>4. CASE m = 0
  <2> DEFINE f == [i \in 0..0 |-> <<>>]
  <2>1. f = [i \in 0..0 |-> OnlyStep(f, s, G, i)]
    BY DEF OnlyStep
  <2> QED
    BY <1>3, <1>4, <2>1 DEF OnlyUpto
<1>5. CASE m # 0
  <2>1. m - 1 \in Nat /\ m - 1 \notin T
    BY <1>2, <1>3, <1>5
  <2>2. PICK f : OnlyUpto(f, s, G, m - 1)
    BY <2>1 DEF T
  <2>3. f = [i \in 0..(m - 1) |-> f[i]] /\ \A i \in 0..(m - 1) : f[i] = OnlyStep(f, s, G, i)
    BY <2>2 DEF OnlyUpto
  <2> DEFINE h == [i \in 0..m |-> IF i < m THEN f[i] ELSE OnlyStep(f, s, G, m)]
  <2>4. \A i \in 0..m : i < m => h[i] = f[i]
    OBVIOUS
  <2>5. h[m] = OnlyStep(f, s, G, m)
    BY <1>3
  <2>6. h = [i \in 0..m |-> h[i]]
    OBVIOUS
  <2> HIDE DEF h
  <2>7. ASSUME NEW i \in 0..m PROVE h[i] = OnlyStep(h, s, G, i)
    <3>1. i = 0 \/ (i - 1 \in 0..m /\ i - 1 < m)
      BY <1>3
    <3>2. OnlyStep(h, s, G, i) = OnlyStep(f, s, G, i)
      BY <2>4, <3>1 DEF OnlyStep
    <3>3. CASE i < m
      <4>1. i \in 0..(m - 1)
        BY <1>3, <3>3
      <4> QED
        BY <2>3, <2>4, <3>2, <3>3, <4>1
    <3>4. CASE i = m
      BY <2>5, <3>2, <3>4
    <3> QED
      BY <1>3, <3>3, <3>4
  <2>8. h = [i \in 0..m |-> OnlyStep(h, s, G, i)]
    BY <2>6, <2>7
  <2> QED
    BY <1>3, <2>8 DEF OnlyUpto
<1> QED
  BY <1>4, <1>5

LEMMA Lane_OnlyIs ==
  ASSUME NEW S, NEW s \in Seq(S), NEW G
  PROVE  \E f : OnlyUpto(f, s, G, Len(s)) /\ Only(s, G) = f[Len(s)]
<1> DEFINE F == CHOOSE f : f = [i \in 0..Len(s) |-> IF i = 0 THEN <<>>
                                  ELSE IF s[i] \in G THEN Append(f[i - 1], s[i]) ELSE f[i - 1]]
<1>1. Only(s, G) = F[Len(s)]
  BY DEF Only
<1>2. F = CHOOSE f : OnlyUpto(f, s, G, Len(s))
  BY DEF OnlyUpto, OnlyStep
<1> HIDE DEF F
<1>3. \E f : OnlyUpto(f, s, G, Len(s))
  BY Lane_OnlyExists, LenProperties
<1>4. OnlyUpto(F, s, G, Len(s))
  BY <1>2, <1>3
<1> QED
  BY <1>1, <1>4

\* r is what of the first n of s is in G.
Sifted(r, s, G, n, g) ==
    /\ g \in [1..Len(r) -> 1..n]
    /\ \A i, j \in 1..Len(r) : g[i] = g[j] => i = j
    /\ \A j \in 1..Len(r) : r[j] = s[g[j]] /\ r[j] \in G
    /\ \A i \in 1..n : s[i] \in G => \E j \in 1..Len(r) : r[j] = s[i]

LEMMA Lane_SiftMore ==
  ASSUME NEW S, NEW s \in Seq(S), NEW G, NEW n \in 1..Len(s),
         NEW r \in Seq(S), NEW g, Sifted(r, s, G, n - 1, g), s[n] \in G
  PROVE  Append(r, s[n]) \in Seq(S) /\ \E h : Sifted(Append(r, s[n]), s, G, n, h)
<1>1. s[n] \in S /\ Len(r) \in Nat /\ n \in Nat
  BY LenProperties, ElementOfSeq
<1> DEFINE q == Append(r, s[n])
           h == [j \in 1..(Len(r) + 1) |-> IF j <= Len(r) THEN g[j] ELSE n]
<1>2. /\ q \in Seq(S) /\ Len(q) = Len(r) + 1 /\ q[Len(r) + 1] = s[n]
      /\ \A j \in 1..Len(r) : q[j] = r[j]
  BY <1>1, AppendProperties
<1>3. /\ \A j \in 1..Len(r) : h[j] = g[j] /\ g[j] \in 1..(n - 1)
      /\ h[Len(r) + 1] = n
  BY <1>1 DEF Sifted
<1>4. h = [j \in 1..(Len(r) + 1) |-> h[j]]
  OBVIOUS
<1> HIDE DEF h, q
<1>5. ASSUME NEW j \in 1..(Len(r) + 1)
      PROVE  h[j] \in 1..n /\ q[j] = s[h[j]] /\ q[j] \in G
  <2>1. CASE j \in 1..Len(r)
    BY <1>1, <1>2, <1>3, <2>1 DEF Sifted
  <2>2. CASE j = Len(r) + 1
    BY <1>1, <1>2, <1>3, <2>2
  <2> QED
    BY <1>1, <2>1, <2>2
<1>6. ASSUME NEW i \in 1..(Len(r) + 1), NEW j \in 1..(Len(r) + 1), h[i] = h[j] PROVE i = j
  <2>1. CASE i \in 1..Len(r) /\ j \in 1..Len(r)
    BY <1>3, <1>6, <2>1 DEF Sifted
  <2>2. CASE ~(i \in 1..Len(r) /\ j \in 1..Len(r))
    <3>1. (i = Len(r) + 1 \/ j = Len(r) + 1) /\ (i = Len(r) + 1 \/ i \in 1..Len(r))
          /\ (j = Len(r) + 1 \/ j \in 1..Len(r))
      BY <1>1, <2>2
    <3> QED
      BY <1>1, <1>3, <1>6, <3>1
  <2> QED
    BY <2>1, <2>2
<1>7. ASSUME NEW i \in 1..n, s[i] \in G PROVE \E j \in 1..(Len(r) + 1) : q[j] = s[i]
  <2>1. CASE i = n
    BY <1>1, <1>2, <2>1
  <2>2. CASE i # n
    <3>1. i \in 1..(n - 1)
      BY <1>1, <2>2
    <3>2. PICK j \in 1..Len(r) : r[j] = s[i]
      BY <1>7, <3>1 DEF Sifted
    <3> QED
      BY <1>1, <1>2, <3>2
  <2> QED
    BY <2>1, <2>2
<1>8. h \in [1..Len(q) -> 1..n]
  BY <1>2, <1>4, <1>5
<1>9. Sifted(q, s, G, n, h)
  BY <1>2, <1>5, <1>6, <1>7, <1>8 DEF Sifted
<1> QED
  BY <1>2, <1>9 DEF q

LEMMA Lane_OnlyFine ==
  ASSUME NEW S, NEW s \in Seq(S), NEW G
  PROVE  /\ Only(s, G) \in Seq(S)
         /\ \E g : Sifted(Only(s, G), s, G, Len(s), g)
<1>1. PICK f : OnlyUpto(f, s, G, Len(s)) /\ Only(s, G) = f[Len(s)]
  BY Lane_OnlyIs
<1>2. \A i \in 0..Len(s) : f[i] = OnlyStep(f, s, G, i)
  BY <1>1 DEF OnlyUpto
<1>3. Len(s) \in Nat
  BY LenProperties
<1> DEFINE Good(n) == f[n] \in Seq(S) /\ \E g : Sifted(f[n], s, G, n, g)
           T == {n \in 0..Len(s) : ~Good(n)}
<1>4. T = {}
  <2> SUFFICES ASSUME T # {} PROVE FALSE
    OBVIOUS
  <2>1. T \subseteq Nat
    BY <1>3
  <2> HIDE DEF T
  <2>2. PICK m \in T : \A y \in T : m <= y
    BY <2>1, Least
  <2>3. m \in 0..Len(s) /\ ~Good(m)
    BY DEF T
  <2>4. CASE m = 0
    <3>1. f[0] = <<>>
      BY <1>2, <2>3, <2>4 DEF OnlyStep
    <3>2. <<>> \in Seq(S) /\ Len(<<>>) = 0 /\ 1..0 = {}
      OBVIOUS
    <3>3. Sifted(<<>>, s, G, 0, <<>>)
      BY <3>2 DEF Sifted
    <3> QED
      BY <2>3, <2>4, <3>1, <3>2, <3>3
  <2>5. CASE m # 0
    <3>1. m \in 1..Len(s) /\ m - 1 \in 0..Len(s) /\ m - 1 < m /\ m \in Nat
      BY <1>3, <2>3, <2>5
    <3>2. Good(m - 1)
      BY <2>2, <3>1 DEF T
    <3> HIDE DEF Good
    <3>0. PICK r \in Seq(S) : r = f[m - 1] /\ \E g : Sifted(r, s, G, m - 1, g)
      BY <3>2 DEF Good
    <3>3. PICK g : r = f[m - 1] /\ Sifted(r, s, G, m - 1, g)
      BY <3>0
    <3>4. CASE s[m] \in G
      <4>0. f[m] = OnlyStep(f, s, G, m)
        BY <1>2, <2>3
      <4>1. f[m] = Append(r, s[m])
        BY ONLY <2>5, <3>3, <3>4, <4>0 DEF OnlyStep
      <4> QED
        BY <2>3, <3>1, <3>3, <3>4, <4>1, Lane_SiftMore DEF Good
    <3>5. CASE s[m] \notin G
      <4>1. f[m] = r
        BY <1>2, <2>5, <3>1, <3>3, <3>5 DEF OnlyStep
      <4>2. Sifted(r, s, G, m, g)
        <5>1. 1..(m - 1) \subseteq 1..m /\ \A i \in 1..m : i # m => i \in 1..(m - 1)
          BY <3>1
        <5> QED
          BY <3>3, <3>5, <5>1 DEF Sifted
      <4> QED
        BY <2>3, <3>3, <4>1, <4>2 DEF Good
    <3> QED
      BY <3>4, <3>5
  <2> QED
    BY <2>4, <2>5
<1>5. Good(Len(s))
  BY <1>3, <1>4
<1> QED
  BY <1>1, <1>5

LEMMA Lane_OnlySome ==
  ASSUME NEW S, NEW s \in Seq(S), NEW G
  PROVE  /\ Only(s, G) \in Seq(S) /\ SomeOf(Only(s, G), s)
         /\ \A j \in 1..Len(Only(s, G)) : Only(s, G)[j] \in G
         /\ \A i \in 1..Len(s) : s[i] \in G => \E j \in 1..Len(Only(s, G)) : Only(s, G)[j] = s[i]
<1>1. Only(s, G) \in Seq(S)
  BY Lane_OnlyFine
<1>2. PICK g : Sifted(Only(s, G), s, G, Len(s), g)
  BY Lane_OnlyFine
<1>3. PICK r : r = Only(s, G)
  OBVIOUS
<1>4. Inside(r, s, g)
  BY <1>2, <1>3 DEF Sifted, Inside
<1> QED
  BY <1>1, <1>2, <1>3, <1>4 DEF Sifted, SomeOf

\* A stretch of a sequence, and a sequence without one of its elements.
LEMMA Lane_Stretch ==
  ASSUME NEW S, NEW s \in Seq(S), NEW a \in Nat, a >= 1
  PROVE  /\ SubSeq(s, a, Len(s)) \in Seq(S) /\ SomeOf(SubSeq(s, a, Len(s)), s)
         /\ Len(SubSeq(s, a, Len(s))) = IF a <= Len(s) THEN Len(s) - a + 1 ELSE 0
<1>1. Len(s) \in Nat /\ \A i \in 1..Len(s) : s[i] \in S
  BY LenProperties, ElementOfSeq
<1> DEFINE r == SubSeq(s, a, Len(s))
           n == IF a <= Len(s) THEN Len(s) - a + 1 ELSE 0
           g == [j \in 1..n |-> a + j - 1]
<1>2. r \in Seq(S) /\ Len(r) = n /\ \A j \in 1..n : r[j] = s[a + j - 1]
  BY <1>1, SubSeqProperties
<1>3. n \in Nat /\ \A j \in 1..n : a + j - 1 \in 1..Len(s)
  BY <1>1
<1>4. g \in [1..n -> 1..Len(s)] /\ \A j \in 1..n : g[j] = a + j - 1
  BY <1>3
<1> HIDE DEF r, n, g
<1>5. \A i, j \in 1..n : g[i] = g[j] => i = j
  BY <1>3, <1>4
<1>6. Inside(r, s, g)
  BY <1>2, <1>4, <1>5 DEF Inside
<1>7. SomeOf(r, s)
  BY <1>6 DEF SomeOf
<1> QED
  BY <1>2, <1>7 DEF r, n

LEMMA Lane_Newest ==
  ASSUME NEW S, NEW s \in Seq(S), NEW n \in Nat, n >= 1
  PROVE  /\ Newest(s, n) \in Seq(S) /\ SomeOf(Newest(s, n), s)
         /\ Len(Newest(s, n)) = LesserOf(Len(s), n)
         /\ s # <<>> => Newest(s, n)[Len(Newest(s, n))] = s[Len(s)]
<1>1. Len(s) \in Nat
  BY LenProperties
<1>2. CASE Len(s) <= n
  <2>1. Newest(s, n) = s
    BY <1>2 DEF Newest
  <2> DEFINE g == [j \in 1..Len(s) |-> j]
  <2>2. Inside(s, s, g)
    BY DEF Inside
  <2>3. SomeOf(s, s)
    BY <2>2 DEF SomeOf
  <2> QED
    BY <1>1, <1>2, <2>1, <2>3 DEF LesserOf
<1>3. CASE ~(Len(s) <= n)
  <2> DEFINE a == Len(s) - n + 1
  <2>1. a \in Nat /\ a >= 1 /\ a <= Len(s) /\ Len(s) - a + 1 = n
    BY <1>1, <1>3
  <2>2. Newest(s, n) = SubSeq(s, a, Len(s))
    BY <1>3 DEF Newest
  <2>3. a + n - 1 = Len(s)
    BY <1>1
  <2> HIDE DEF a
  <2>4. /\ Newest(s, n) \in Seq(S) /\ SomeOf(Newest(s, n), s) /\ Len(Newest(s, n)) = n
    BY <2>1, <2>2, Lane_Stretch
  <2>5. \A i \in 1..Len(s) : s[i] \in S
    BY ElementOfSeq
  <2>6. SubSeq(s, a, Len(s))[n] = s[a + n - 1]
    BY <1>1, <2>1, <2>5, SubSeqProperties
  <2> QED
    BY <1>1, <1>3, <2>2, <2>3, <2>4, <2>6 DEF LesserOf
<1> QED
  BY <1>2, <1>3

---------------------------------------------------------------------------
(* Tables: an OrderedDict as the set of its entries. *)

EntriesOf(od) == {od[i] : i \in 1..Len(od)}
Unique(od) == \A i, j \in 1..Len(od) : od[i].key = od[j].key => i = j
Table(od, S) == od \in Seq(S) /\ Unique(od)

LEMMA Lane_Table ==
  ASSUME NEW S, NEW od, Table(od, S)
  PROVE  /\ Len(od) \in Nat /\ DOMAIN od = 1..Len(od) /\ EntriesOf(od) \subseteq S
         /\ KeysOf(od) = {e.key : e \in EntriesOf(od)}
         /\ \A e, f \in EntriesOf(od) : e.key = f.key => e = f
         /\ \A i \in 1..Len(od) : od[i] \in EntriesOf(od)
<1>1. Len(od) \in Nat /\ DOMAIN od = 1..Len(od) /\ \A i \in 1..Len(od) : od[i] \in S
  BY LenProperties, ElementOfSeq DEF Table
<1>2. EntriesOf(od) \subseteq S /\ KeysOf(od) = {e.key : e \in EntriesOf(od)}
  BY <1>1 DEF EntriesOf, KeysOf
<1>3. ASSUME NEW e \in EntriesOf(od), NEW f \in EntriesOf(od), e.key = f.key PROVE e = f
  <2>1. PICK i \in 1..Len(od) : e = od[i]
    BY DEF EntriesOf
  <2>2. PICK j \in 1..Len(od) : f = od[j]
    BY DEF EntriesOf
  <2> QED
    BY <1>3, <2>1, <2>2 DEF Table, Unique
<1> QED
  BY <1>1, <1>2, <1>3 DEF EntriesOf

LEMMA Lane_Entry ==
  ASSUME NEW S, NEW od, Table(od, S), NEW k \in KeysOf(od)
  PROVE  Entry(od, k) \in EntriesOf(od) /\ Entry(od, k).key = k
<1>1. DOMAIN od = 1..Len(od)
  BY Lane_Table
<1>2. \E i \in DOMAIN od : od[i].key = k
  BY DEF KeysOf
<1> DEFINE i == CHOOSE i \in DOMAIN od : od[i].key = k
<1>3. i \in DOMAIN od /\ od[i].key = k
  BY <1>2
<1>4. Entry(od, k) = od[i]
  BY DEF Entry
<1> HIDE DEF i
<1> QED
  BY <1>1, <1>3, <1>4 DEF EntriesOf

\* Some of a table is a table.
LEMMA Lane_SomeTable ==
  ASSUME NEW S, NEW od, Table(od, S), NEW r \in Seq(S), SomeOf(r, od)
  PROVE  Table(r, S) /\ EntriesOf(r) \subseteq EntriesOf(od)
<1>1. PICK g : Inside(r, od, g)
  BY DEF SomeOf
<1>2. \A j \in 1..Len(r) : g[j] \in 1..Len(od) /\ r[j] = od[g[j]]
  BY <1>1 DEF Inside
<1>3. Unique(r)
  <2> SUFFICES ASSUME NEW i \in 1..Len(r), NEW j \in 1..Len(r), r[i].key = r[j].key PROVE i = j
    BY DEF Unique
  <2>1. g[i] = g[j]
    <3>1. g[i] \in 1..Len(od) /\ g[j] \in 1..Len(od)
      BY ONLY <1>2, i \in 1..Len(r), j \in 1..Len(r), Zenon
    <3>2. od[g[i]].key = od[g[j]].key
      BY ONLY <1>2, i \in 1..Len(r), j \in 1..Len(r), r[i].key = r[j].key, Zenon
    <3>3. \A m, n \in 1..Len(od) : od[m].key = od[n].key => m = n
      BY Zenon DEF Table, Unique
    <3> QED
      BY ONLY <3>1, <3>2, <3>3, Zenon
  <2>2. \A m, n \in 1..Len(r) : g[m] = g[n] => m = n
    BY <1>1, Zenon DEF Inside
  <2> QED
    BY ONLY <2>1, <2>2, i \in 1..Len(r), j \in 1..Len(r)
<1> QED
  BY <1>2, <1>3 DEF Table, EntriesOf

Others(od, k) == {e \in EntriesOf(od) : e.key # k}

LEMMA Lane_Without ==
  ASSUME NEW S, NEW od, Table(od, S), NEW k
  PROVE  /\ Table(Without(od, k), S) /\ EntriesOf(Without(od, k)) = Others(od, k)
         /\ Len(Without(od, k)) <= Len(od)
<1> DEFINE G == {od[i] : i \in {j \in DOMAIN od : od[j].key # k}}
<1>1. PICK r : r = Without(od, k)
  OBVIOUS
<1>2. r = Only(od, G)
  BY <1>1 DEF Without
<1>3. \A i \in 1..Len(od) : od[i] \in G <=> od[i].key # k
  BY Lane_Table
<1>4. G \subseteq Others(od, k)
  BY Lane_Table DEF Others, EntriesOf
<1> HIDE DEF G
<1>5. /\ r \in Seq(S) /\ SomeOf(r, od) /\ \A j \in 1..Len(r) : r[j] \in G
      /\ \A i \in 1..Len(od) : od[i] \in G => \E j \in 1..Len(r) : r[j] = od[i]
  BY <1>2, Lane_OnlySome DEF Table
<1>6. EntriesOf(r) = Others(od, k)
  <2>1. EntriesOf(r) \subseteq Others(od, k)
    BY <1>4, <1>5 DEF EntriesOf
  <2>2. ASSUME NEW e \in Others(od, k) PROVE e \in EntriesOf(r)
    <3>1. PICK i \in 1..Len(od) : e = od[i] /\ od[i].key # k
      BY DEF Others, EntriesOf
    <3> QED
      BY <1>3, <1>5, <3>1 DEF EntriesOf
  <2> QED
    BY <2>1, <2>2
<1>7. Table(r, S)
  BY <1>5, Lane_SomeTable
<1>8. Len(r) <= Len(od)
  BY <1>5, Lane_NoLonger DEF Table
<1> QED
  BY <1>1, <1>6, <1>7, <1>8

LEMMA Lane_Appended ==
  ASSUME NEW S, NEW od, Table(od, S), NEW e \in S, e.key \notin KeysOf(od)
  PROVE  /\ Table(Append(od, e), S) /\ EntriesOf(Append(od, e)) = EntriesOf(od) \cup {e}
         /\ Len(Append(od, e)) = Len(od) + 1 /\ Append(od, e)[Len(od) + 1] = e
         /\ Append(od, e) # <<>>
<1>1. PICK r : r = Append(od, e)
  OBVIOUS
<1>2. Len(od) \in Nat
  BY Lane_Table
<1>3. /\ r \in Seq(S) /\ r # <<>> /\ Len(r) = Len(od) + 1
      /\ \A i \in 1..Len(od) : r[i] = od[i]
      /\ r[Len(od) + 1] = e
  BY <1>1, AppendProperties DEF Table
<1>4. \A i \in 1..Len(r) : i \in 1..Len(od) \/ i = Len(od) + 1
  BY <1>2, <1>3
<1>5. \A i \in 1..Len(od) : od[i].key # e.key
  BY Lane_Table DEF KeysOf
<1>6. Unique(r)
  <2> SUFFICES ASSUME NEW i \in 1..Len(r), NEW j \in 1..Len(r), r[i].key = r[j].key PROVE i = j
    BY DEF Unique
  <2> QED
    BY <1>3, <1>4, <1>5 DEF Table, Unique
<1>7. EntriesOf(r) = EntriesOf(od) \cup {e}
  <2>1. 1..Len(od) \subseteq 1..Len(r) /\ Len(od) + 1 \in 1..Len(r)
    BY <1>2, <1>3
  <2> QED
    BY <1>3, <1>4, <2>1 DEF EntriesOf
<1> QED
  BY <1>1, <1>3, <1>6, <1>7 DEF Table

\* e at the end of the table, whatever its key had before.
Moved(od, e) == Append(Without(od, e.key), e)

LEMMA Lane_Moved ==
  ASSUME NEW S, NEW od, Table(od, S), NEW e \in S, NEW r, r = Moved(od, e)
  PROVE  /\ Table(r, S) /\ EntriesOf(r) = Others(od, e.key) \cup {e}
         /\ r # <<>> /\ r[Len(r)] = e
<1>1. PICK o : o = Without(od, e.key)
  OBVIOUS
<1>2. Table(o, S) /\ EntriesOf(o) = Others(od, e.key)
  BY <1>1, Lane_Without
<1>3. e.key \notin KeysOf(o)
  BY <1>2, Lane_Table DEF Others
<1> QED
  BY <1>1, <1>2, <1>3, Lane_Appended DEF Moved

LEMMA Lane_Assign ==
  ASSUME NEW S, NEW od, Table(od, S), NEW e \in S
  PROVE  /\ Table(Assign(od, e), S) /\ EntriesOf(Assign(od, e)) = Others(od, e.key) \cup {e}
         /\ e.key \in KeysOf(od) => Len(Assign(od, e)) = Len(od)
         /\ Len(Assign(od, e)) \in {Len(od), Len(od) + 1}
<1>1. CASE e.key \notin KeysOf(od)
  <2>1. Assign(od, e) = Append(od, e)
    BY <1>1 DEF Assign
  <2>2. Others(od, e.key) = EntriesOf(od)
    BY <1>1, Lane_Table DEF Others
  <2> QED
    BY <1>1, <2>1, <2>2, Lane_Appended
<1>2. CASE e.key \in KeysOf(od)
  <2> DEFINE r == [i \in DOMAIN od |-> IF od[i].key = e.key THEN e ELSE od[i]]
  <2>0. /\ Len(od) \in Nat /\ DOMAIN od = 1..Len(od)
        /\ \A i \in 1..Len(od) : od[i] \in S
    BY Lane_Table
  <2>1. Assign(od, e) = r
    BY <1>2 DEF Assign
  <2>2. \A i \in 1..Len(od) : r[i] = (IF od[i].key = e.key THEN e ELSE od[i]) /\ r[i] \in S
    BY <2>0
  <2>3. r = [i \in 1..Len(od) |-> r[i]]
    BY <2>0
  <2> HIDE DEF r
  <2>4. r \in [1..Len(od) -> S]
    BY <2>2, <2>3
  <2>5. r \in Seq(S) /\ Len(r) = Len(od)
    <3>1. r \in Seq(S)
      BY <2>0, <2>4, SeqDef
    <3>2. DOMAIN r = 1..Len(od) /\ DOMAIN r = 1..Len(r) /\ Len(r) \in Nat
      BY <2>4, <3>1, LenProperties
    <3>3. Len(r) = Len(od)
      BY <2>0, <3>2
    <3> QED
      BY <3>1, <3>3
  <2>6. \A i \in 1..Len(od) : r[i].key = od[i].key
    BY <2>2
  <2>7. Unique(r)
    BY <2>5, <2>6 DEF Table, Unique
  <2>8. EntriesOf(r) = Others(od, e.key) \cup {e}
    <3>1. PICK n \in 1..Len(od) : od[n].key = e.key
      BY <1>2, <2>0 DEF KeysOf
    <3>2. r[n] = e /\ e \in EntriesOf(r)
      BY <2>2, <2>5, <3>1 DEF EntriesOf
    <3>3. \A f \in EntriesOf(r) : f = e \/ f \in Others(od, e.key)
      BY <2>2, <2>5 DEF EntriesOf, Others
    <3>4. \A f \in Others(od, e.key) : f \in EntriesOf(r)
      BY <2>2, <2>5 DEF EntriesOf, Others
    <3> QED
      BY <3>2, <3>3, <3>4
  <2> QED
    BY <2>1, <2>5, <2>7, <2>8 DEF Table
<1> QED
  BY <1>1, <1>2

LEMMA Lane_Kept ==
  ASSUME NEW S, NEW od, Table(od, S), NEW n \in Nat, n >= 1
  PROVE  /\ Table(Newest(od, n), S) /\ EntriesOf(Newest(od, n)) \subseteq EntriesOf(od)
         /\ Len(Newest(od, n)) <= n
         /\ od # <<>> => od[Len(od)] \in EntriesOf(Newest(od, n))
<1>1. PICK r : r = Newest(od, n)
  OBVIOUS
<1>2. /\ r \in Seq(S) /\ SomeOf(r, od) /\ Len(r) = LesserOf(Len(od), n)
      /\ od # <<>> => r[Len(r)] = od[Len(od)]
  BY <1>1, Lane_Newest DEF Table
<1>3. Table(r, S) /\ EntriesOf(r) \subseteq EntriesOf(od)
  BY <1>2, Lane_SomeTable
<1>4. Len(od) \in Nat /\ Len(r) \in Nat
  BY <1>3, Lane_Table
<1>5. Len(r) <= n
  BY <1>2, <1>4 DEF LesserOf
<1>6. ASSUME od # <<>> PROVE od[Len(od)] \in EntriesOf(r)
  <2>1. Len(od) >= 1
    BY <1>4, <1>6, EmptySeq DEF Table
  <2>2. Len(r) >= 1
    BY <1>2, <1>4, <2>1 DEF LesserOf
  <2>3. Len(r) \in 1..Len(r)
    BY <1>4, <2>2
  <2> QED
    BY <1>2, <1>6, <2>3 DEF EntriesOf
<1> QED
  BY <1>1, <1>3, <1>5, <1>6

\* The sweep finds where the expired entries end.
LEMMA Lane_Swept ==
  ASSUME NEW S, NEW od, Table(od, S), NEW now, MaxDupeKeys \in Nat \ {0}
  PROVE  /\ Table(Swept(od, now), S) /\ EntriesOf(Swept(od, now)) \subseteq EntriesOf(od)
         /\ Len(Swept(od, now)) <= MaxDupeKeys
<1> DEFINE Expired(i) == \A t \in DOMAIN od[i].times : now - od[i].times[t] > Window
           most == LesserOf(8, Len(od))
           Ends(n) == /\ \A i \in 1..n : Expired(i)
                      /\ n < most => ~Expired(n + 1)
           T == {i \in 1..most : ~Expired(i)}
           end == CHOOSE n \in 0..most : Ends(n)
<1>1. Len(od) \in Nat /\ most \in Nat
  BY Lane_Table DEF LesserOf
<1>2. Swept(od, now) = Newest(SubSeq(od, end + 1, Len(od)), MaxDupeKeys)
  BY DEF Swept
<1> HIDE DEF most, Expired, end
<1>3. \E n \in 0..most : Ends(n)
  <2>1. CASE T = {}
    <3>1. Ends(most)
      BY <1>1, <2>1
    <3> QED
      BY <1>1, <3>1
  <2>2. CASE T # {}
    <3>1. T \subseteq Nat
      BY <1>1
    <3> HIDE DEF T
    <3>2. PICK o \in T : \A y \in T : o <= y
      BY <2>2, <3>1, Least
    <3>3. o \in 1..most /\ ~Expired(o)
      BY DEF T
    <3>4. \A i \in 1..(o - 1) : Expired(i)
      <4> SUFFICES ASSUME NEW i \in 1..(o - 1), ~Expired(i) PROVE FALSE
        OBVIOUS
      <4>1. i \in 1..most /\ i < o
        BY <1>1, <3>3
      <4>2. i \in T
        BY <4>1 DEF T
      <4> QED
        BY <1>1, <3>2, <3>3, <4>1, <4>2
    <3>5. o - 1 \in 0..most /\ (o - 1) + 1 = o
      BY <1>1, <3>3
    <3>6. Ends(o - 1)
      BY <3>3, <3>4, <3>5
    <3> QED
      BY <3>5, <3>6
  <2> QED
    BY <2>1, <2>2
<1> HIDE DEF Ends
<1>4. end \in 0..most
  BY <1>3 DEF end
<1>5. end + 1 \in Nat /\ end + 1 >= 1
  BY <1>1, <1>4
<1>6. PICK r : r = SubSeq(od, end + 1, Len(od))
  OBVIOUS
<1>7. r \in Seq(S) /\ SomeOf(r, od)
  BY <1>5, <1>6, Lane_Stretch DEF Table
<1>8. Table(r, S) /\ EntriesOf(r) \subseteq EntriesOf(od)
  BY <1>7, Lane_SomeTable
<1>9. MaxDupeKeys \in Nat /\ MaxDupeKeys >= 1
  OBVIOUS
<1> QED
  BY <1>2, <1>6, <1>8, <1>9, Lane_Kept

\* A sequence without one of its elements.
Cut(s, n) == SubSeq(s, 1, n - 1) \o SubSeq(s, n + 1, Len(s))

LEMMA Lane_CutOne ==
  ASSUME NEW S, NEW s \in Seq(S), NEW n \in 1..Len(s)
  PROVE  /\ Cut(s, n) \in Seq(S) /\ Len(Cut(s, n)) = Len(s) - 1
         /\ \E g : Inside(Cut(s, n), s, g) /\ \A j \in 1..Len(Cut(s, n)) : g[j] # n
<1>1. Len(s) \in Nat /\ n \in Nat /\ \A i \in 1..Len(s) : s[i] \in S
  BY LenProperties, ElementOfSeq
<1> DEFINE a == SubSeq(s, 1, n - 1)
           b == SubSeq(s, n + 1, Len(s))
           r == a \o b
           g == [j \in 1..(Len(s) - 1) |-> IF j < n THEN j ELSE j + 1]
<1>2. a \in Seq(S) /\ Len(a) = n - 1 /\ \A i \in 1..(n - 1) : a[i] = s[i]
  <2>1. 1..(n - 1) \subseteq 1..Len(s) /\ n - 1 \in Int
    BY <1>1
  <2>2. /\ a \in Seq(S) /\ Len(a) = (IF 1 <= n - 1 THEN n - 1 - 1 + 1 ELSE 0)
        /\ \A i \in 1..(n - 1 - 1 + 1) : a[i] = s[1 + i - 1]
    BY <1>1, <2>1, SubSeqProperties
  <2> QED
    BY <1>1, <2>2
<1>3. /\ b \in Seq(S) /\ Len(b) = Len(s) - n
      /\ \A i \in 1..(Len(s) - n) : b[i] = s[n + i]
  <2>1. (n + 1)..Len(s) \subseteq 1..Len(s) /\ n + 1 \in Int
    BY <1>1
  <2>2. /\ b \in Seq(S) /\ Len(b) = (IF n + 1 <= Len(s) THEN Len(s) - (n + 1) + 1 ELSE 0)
        /\ \A i \in 1..(Len(s) - (n + 1) + 1) : b[i] = s[n + 1 + i - 1]
    BY <1>1, <2>1, SubSeqProperties
  <2> QED
    BY <1>1, <2>2
<1> HIDE DEF a, b
<1>4. /\ r \in Seq(S) /\ Len(r) = Len(s) - 1
      /\ \A i \in 1..(Len(s) - 1) : r[i] = IF i <= n - 1 THEN a[i] ELSE b[i - (n - 1)]
  <2>1. /\ r \in Seq(S) /\ Len(r) = Len(a) + Len(b)
        /\ \A i \in 1..(Len(a) + Len(b)) : r[i] = IF i <= Len(a) THEN a[i] ELSE b[i - Len(a)]
    BY <1>2, <1>3, ConcatProperties
  <2>2. Len(a) + Len(b) = Len(s) - 1
    BY <1>1, <1>2, <1>3
  <2> QED
    BY <1>2, <2>1, <2>2
<1>5. \A j \in 1..(Len(s) - 1) : g[j] = (IF j < n THEN j ELSE j + 1)
  OBVIOUS
<1>6. g = [j \in 1..(Len(s) - 1) |-> g[j]]
  OBVIOUS
<1> HIDE DEF r, g
<1>7. \A j \in 1..(Len(s) - 1) : g[j] \in 1..Len(s) /\ g[j] # n /\ r[j] = s[g[j]]
  <2> TAKE j \in 1..(Len(s) - 1)
  <2>1. CASE j < n
    <3>1. j \in 1..(n - 1) /\ j <= n - 1 /\ j \in 1..Len(s)
      BY <1>1, <2>1
    <3> QED
      BY <1>1, <1>2, <1>4, <1>5, <2>1, <3>1
  <2>2. CASE ~(j < n)
    <3>1. /\ ~(j <= n - 1) /\ j - (n - 1) \in 1..(Len(s) - n) /\ n + (j - (n - 1)) = j + 1
          /\ j + 1 \in 1..Len(s) /\ j + 1 # n
      BY <1>1, <2>2
    <3>2. r[j] = b[j - (n - 1)]
      BY <1>4, <3>1
    <3>3. b[j - (n - 1)] = s[n + (j - (n - 1))]
      BY <1>3, <3>1
    <3> QED
      BY <1>5, <2>2, <3>1, <3>2, <3>3
  <2> QED
    BY <2>1, <2>2
<1>8. \A i, j \in 1..(Len(s) - 1) : g[i] = g[j] => i = j
  BY <1>1, <1>5
<1>9. Inside(r, s, g)
  BY <1>4, <1>6, <1>7, <1>8 DEF Inside
<1>10. r = Cut(s, n)
  BY DEF r, a, b, Cut
<1> QED
  BY <1>4, <1>7, <1>9, <1>10

LEMMA Lane_OneHitLess ==
  ASSUME NEW S, NEW r \in Seq(S), NEW s \in Seq(S), NEW g, Inside(r, s, g),
         NEW n \in 1..Len(s), \A j \in 1..Len(r) : g[j] # n
  PROVE  Cardinality(Hits(r, s[n])) <= Cardinality(Hits(s, s[n])) - 1
<1>0. DOMAIN r = 1..Len(r) /\ DOMAIN s = 1..Len(s)
  BY LenProperties
<1> DEFINE x == s[n]
           f == [j \in Hits(r, x) |-> g[j]]
           B == Hits(s, x) \ {n}
<1>1. \A j \in Hits(r, x) : f[j] \in B
  BY <1>0 DEF Inside, Hits
<1>2. \A i, j \in Hits(r, x) : f[i] = f[j] => i = j
  BY <1>0 DEF Inside, Hits
<1>3. f = [j \in Hits(r, x) |-> f[j]]
  OBVIOUS
<1>4. n \in Hits(s, x)
  BY <1>0 DEF Hits
<1>5. IsFiniteSet(Hits(s, x)) /\ Cardinality(Hits(s, x)) \in Nat
  BY Lane_HitsFinite
<1>6. IsFiniteSet(B) /\ Cardinality(B) = Cardinality(Hits(s, x)) - 1
  BY <1>4, <1>5, FS_RemoveElement
<1> HIDE DEF f, B
<1>7. f \in Injection(Hits(r, x), B)
  BY <1>1, <1>2, <1>3, Fun_IsInj
<1> QED
  BY <1>6, <1>7, FS_Injection

---------------------------------------------------------------------------
(* The invariant. *)

PosterRecord == [pc : Steps, ip : Addresses, room : LaneRooms, text : Texts,
            charged : BOOLEAN, at : Nat \cup {NotSampled}, seq : Nat]
BucketRecord == [key : Addresses \X Kinds, units : Nat, last : Nat]
DupeRecord == [key : LaneRooms \X LongTexts, times : Seq(Nat)]

\* A request the ring counts: its copy landed, or is about to.
Holds(x) == (x.seq > 0 \/ x.pc = "append") /\ x.text \in LongTexts
Copies(k, t) == {q \in Posters : /\ Holds(req[q]) /\ req[q].at = t
                                 /\ <<req[q].room, req[q].text>> = k}

Charged(ip) == {q \in Posters : req[q].ip = ip /\ req[q].charged}
Done == {q \in Posters : req[q].pc = "done"}

\* Who does not pay found the room there, and its numbering stays.
PosterFine(x) ==
    /\ x.pc \in {"new", "gate", "absent"} => ~x.charged
    /\ x.pc \in {"new", "gate", "absent", "slot", "ring", "append"} => x.seq = 0
    /\ x.pc \in {"slot", "ring", "append"} => x.charged \/ lastSeq[x.room] >= 1
    /\ x.seq = 1 => x.charged
    /\ x.at <= clock
    /\ x.pc = "ring" => x.text \in LongTexts
    /\ x.pc \in {"ring", "append"} /\ x.text \in LongTexts => x.at >= 0

PostersFine == req \in [Posters -> PosterRecord] /\ \A q \in Posters : PosterFine(req[q])

RoomsFine ==
    /\ live \subseteq LaneRooms /\ lastSeq \in [LaneRooms -> Nat]
    /\ \A r \in live : lastSeq[r] >= 1

\* Only a refund adds an entry without evicting one, and a request has one.
BucketsFine ==
    /\ Table(buckets, BucketRecord)
    /\ Len(buckets) <= MaxBuckets + Cardinality(Done)
    /\ \A e \in EntriesOf(buckets) : e.units <= Full(e.key[2]) /\ e.last <= clock

\* What was paid and is not paid back, and what is left, came with time.
Paid(n) == n * RoomPeriod
BudgetFine(ip) ==
    ip \notin forgotten =>
       IF <<ip, "create">> \in KeysOf(buckets)
       THEN \A e \in EntriesOf(buckets) : e.key = <<ip, "create">> =>
               Paid(Cardinality(Charged(ip))) + e.units <= Full("create") + e.last
       ELSE Charged(ip) = {}

CopiesFine(e) ==
    /\ e.times \in Seq(0..clock) /\ Len(e.times) \in 1..MaxCopies
    /\ \A t \in Nat : Cardinality(Hits(e.times, t)) <= Cardinality(Copies(e.key, t))
DupesFine ==
    /\ Table(dupes, DupeRecord) /\ Len(dupes) <= MaxDupeKeys
    /\ \A e \in EntriesOf(dupes) : CopiesFine(e)

LaneInductive ==
    /\ clock \in 0..MaxClock /\ forgotten \subseteq Addresses
    /\ PostersFine /\ RoomsFine /\ BucketsFine /\ DupesFine
    /\ \A ip \in Addresses : BudgetFine(ip)

LEMMA Lane_Figures ==
  /\ IsFiniteSet(Posters) /\ MaxClock \in Nat
  /\ RoomPeriod \in Nat \ {0} /\ WritePeriod \in Nat \ {0}
  /\ MaxBuckets \in Nat \ {0} /\ MaxCopies \in Nat \ {0} /\ MaxDupeKeys \in Nat \ {0}
  /\ \A kind \in Kinds : Full(kind) \in Nat /\ Period(kind) \in Nat \ {0}
  /\ Period("create") = RoomPeriod
<1>1. /\ WriteBurst \in Nat /\ RoomBurst \in Nat /\ WritePeriod \in Nat /\ RoomPeriod \in Nat
      /\ WritePeriod # 0 /\ RoomPeriod # 0
  BY LaneAssumption
<1>2. WriteBurst * WritePeriod \in Nat /\ RoomBurst * RoomPeriod \in Nat
  BY <1>1
<1>3. \A kind \in Kinds : Full(kind) \in Nat /\ Period(kind) \in Nat \ {0}
  BY <1>1, <1>2 DEF Full, Period, Kinds
<1> QED
  BY <1>1, <1>3, LaneAssumption DEF Period

LEMMA Lane_Paid ==
  /\ \A n \in Nat : Paid(n) \in Nat /\ Paid(n + 1) = Paid(n) + RoomPeriod
  /\ \A n, m \in Nat : n <= m => Paid(n) <= Paid(m)
  /\ Paid(0) = 0
<1>1. RoomPeriod \in Nat
  BY Lane_Figures
<1>2. \A n \in Nat : n * RoomPeriod \in Nat /\ (n + 1) * RoomPeriod = n * RoomPeriod + RoomPeriod
  BY <1>1
<1>3. ASSUME NEW n \in Nat, NEW m \in Nat, n <= m PROVE n * RoomPeriod <= m * RoomPeriod
  <2>1. m = n + (m - n) /\ m - n \in Nat
    BY <1>3
  <2>2. (n + (m - n)) * RoomPeriod = n * RoomPeriod + (m - n) * RoomPeriod
    BY <1>1, <2>1
  <2>3. (m - n) * RoomPeriod \in Nat /\ n * RoomPeriod \in Nat
    BY <1>1, <2>1
  <2> QED
    BY <2>1, <2>2, <2>3
<1>4. 0 * RoomPeriod = 0
  BY <1>1
<1> QED
  BY <1>2, <1>3, <1>4 DEF Paid

LEMMA Lane_Sets ==
  /\ IsFiniteSet(Done) /\ Cardinality(Done) \in Nat /\ Cardinality(Done) <= Cardinality(Posters)
  /\ \A ip : IsFiniteSet(Charged(ip)) /\ Cardinality(Charged(ip)) \in Nat
  /\ \A k, t : IsFiniteSet(Copies(k, t)) /\ Cardinality(Copies(k, t)) \in Nat
<1>1. \A S \in SUBSET Posters : IsFiniteSet(S) /\ Cardinality(S) \in Nat /\ Cardinality(S) <= Cardinality(Posters)
  BY Lane_Figures, FS_Subset, FS_CardinalityType
<1>2. Done \subseteq Posters /\ \A ip : Charged(ip) \subseteq Posters
  BY DEF Done, Charged
<1>3. \A k, t : Copies(k, t) \subseteq Posters
  BY DEF Copies
<1> QED
  BY <1>1, <1>2, <1>3

---------------------------------------------------------------------------
(* One request goes on. *)

Goes(q, x, y) ==
    /\ x = req[q] /\ req' = [req EXCEPT ![q] = y]
    /\ y.ip = x.ip /\ y.room = x.room /\ y.text = x.text /\ x.pc # "done"

LEMMA Lane_Goes ==
  ASSUME PostersFine, NEW q \in Posters, NEW x \in PosterRecord, NEW y \in PosterRecord, Goes(q, x, y)
  PROVE  /\ req' \in [Posters -> PosterRecord] /\ req'[q] = y /\ req[q] = x
         /\ \A p \in Posters : p # q => req'[p] = req[p]
         /\ y.ip = x.ip /\ y.room = x.room /\ y.text = x.text /\ x.pc # "done"
         /\ PosterFine(x)
BY DEF Goes, PostersFine

LEMMA Lane_GoesFine ==
  ASSUME PostersFine, RoomsFine, clock \in Nat, NEW q \in Posters, NEW x \in PosterRecord, NEW y \in PosterRecord,
         Goes(q, x, y), PosterFine(y)', clock' = clock, RoomsFine',
         \A r \in LaneRooms : lastSeq[r] <= lastSeq'[r]
  PROVE  PostersFine'
<1>1. /\ req' \in [Posters -> PosterRecord] /\ req'[q] = y
      /\ \A p \in Posters : p # q => req'[p] = req[p]
  BY Lane_Goes
<1>2. ASSUME NEW p \in Posters PROVE PosterFine(req[p])'
  <2>1. PICK z \in PosterRecord : z = req'[p]
    BY <1>1
  <2>2. CASE p = q
    <3>1. PosterFine(z)'
      BY <1>1, <2>1, <2>2
    <3> QED
      BY <2>1, <3>1 DEF PosterFine
  <2>3. CASE p # q
    <3>1. PosterFine(z)
      BY <1>1, <2>1, <2>3 DEF PostersFine
    <3>2. lastSeq[z.room] \in Nat /\ lastSeq'[z.room] \in Nat /\ lastSeq[z.room] <= lastSeq'[z.room]
      BY DEF PosterRecord, RoomsFine
    <3>3. lastSeq[z.room] >= 1 => lastSeq'[z.room] >= 1
      BY <3>2
    <3>4. PosterFine(z)'
      BY <3>1, <3>3 DEF PosterFine
    <3> QED
      BY <2>1, <3>4 DEF PosterFine
  <2> QED
    BY <2>2, <2>3
<1> QED
  BY <1>1, <1>2 DEF PostersFine

LEMMA Lane_GoesCopies ==
  ASSUME PostersFine, NEW q \in Posters, NEW x \in PosterRecord, NEW y \in PosterRecord, Goes(q, x, y)
  PROVE  /\ (Holds(x) => Holds(y) /\ y.at = x.at) => \A k, t : Copies(k, t) \subseteq Copies(k, t)'
         /\ \A k, t : Copies(k, t) \ {q} \subseteq Copies(k, t)'
         /\ \A k, t : ~(k = <<x.room, x.text>> /\ t = x.at) => Copies(k, t) \subseteq Copies(k, t)'
<1>1. /\ req'[q] = y /\ req[q] = x /\ y.ip = x.ip /\ y.room = x.room /\ y.text = x.text
      /\ \A p \in Posters : p # q => req'[p] = req[p]
  BY Lane_Goes
<1>2. ASSUME NEW k, NEW t, NEW p \in Copies(k, t), p # q PROVE p \in Copies(k, t)'
  BY <1>1, <1>2 DEF Copies, Holds
<1>3. ASSUME NEW k, NEW t, q \in Copies(k, t) PROVE Holds(x) /\ x.at = t /\ <<x.room, x.text>> = k
  BY <1>1, <1>3 DEF Copies
<1>4. ASSUME NEW k, NEW t, Holds(y), y.at = t, <<y.room, y.text>> = k PROVE q \in Copies(k, t)'
  BY <1>1, <1>4 DEF Copies, Holds
<1> QED
  BY <1>1, <1>2, <1>3, <1>4

LEMMA Lane_GoesCharged ==
  ASSUME PostersFine, NEW q \in Posters, NEW x \in PosterRecord, NEW y \in PosterRecord, Goes(q, x, y)
  PROVE  /\ y.charged = x.charged => \A ip : Charged(ip)' = Charged(ip)
         /\ \A ip : ip # x.ip => Charged(ip)' = Charged(ip)
         /\ ~x.charged /\ y.charged => q \notin Charged(x.ip) /\ Charged(x.ip)' = Charged(x.ip) \cup {q}
         /\ x.charged /\ ~y.charged => q \in Charged(x.ip) /\ Charged(x.ip)' = Charged(x.ip) \ {q}
<1>1. /\ req'[q] = y /\ req[q] = x /\ y.ip = x.ip
      /\ \A p \in Posters : p # q => req'[p] = req[p]
  BY Lane_Goes
<1>2. \A ip, p : p # q => (p \in Charged(ip)' <=> p \in Charged(ip))
  BY <1>1 DEF Charged
<1>3. \A ip : (q \in Charged(ip) <=> x.ip = ip /\ x.charged) /\ (q \in Charged(ip)' <=> x.ip = ip /\ y.charged)
  BY <1>1 DEF Charged
<1> QED
  BY <1>2, <1>3

LEMMA Lane_GoesDone ==
  ASSUME PostersFine, NEW q \in Posters, NEW x \in PosterRecord, NEW y \in PosterRecord, Goes(q, x, y)
  PROVE  /\ Cardinality(Done) \in Nat /\ Cardinality(Done') \in Nat
         /\ Cardinality(Done) <= Cardinality(Done')
         /\ y.pc = "done" => Cardinality(Done') = Cardinality(Done) + 1
<1>1. /\ req'[q] = y /\ req[q] = x /\ x.pc # "done"
      /\ \A p \in Posters : p # q => req'[p] = req[p]
  BY Lane_Goes
<1>2. q \notin Done /\ Done \subseteq Done'
      /\ (y.pc = "done" => Done' = Done \cup {q}) /\ (y.pc # "done" => Done' = Done)
  BY <1>1 DEF Done
<1>3. IsFiniteSet(Done) /\ Cardinality(Done) \in Nat
  BY Lane_Sets
<1>4. IsFiniteSet(Done \cup {q}) /\ Cardinality(Done \cup {q}) = Cardinality(Done) + 1
  BY <1>2, <1>3, FS_AddElement
<1> QED
  BY <1>2, <1>3, <1>4

LEMMA Lane_CopiesKept ==
  ASSUME NEW e, CopiesFine(e), clock \in Nat, clock' \in Nat, clock <= clock',
         \A t \in Nat : Copies(e.key, t) \subseteq Copies(e.key, t)'
  PROVE  CopiesFine(e)'
<1>1. e.times \in Seq(0..clock) /\ Len(e.times) \in 1..MaxCopies
  BY DEF CopiesFine
<1>2. e.times \in Seq(0..clock')
  <2>1. 0..clock \subseteq 0..clock'
    OBVIOUS
  <2> QED
    BY <1>1, <2>1, SeqMonotonic
<1>3. ASSUME NEW t \in Nat
      PROVE  Cardinality(Hits(e.times, t)) <= Cardinality(Copies(e.key, t)')
  <2>1. Cardinality(Hits(e.times, t)) <= Cardinality(Copies(e.key, t))
    BY DEF CopiesFine
  <2>2. Cardinality(Hits(e.times, t)) \in Nat
    BY <1>1, Lane_HitsFinite
  <2>3. Copies(e.key, t)' \subseteq Posters
    BY DEF Copies
  <2>4. IsFiniteSet(Copies(e.key, t)') /\ Cardinality(Copies(e.key, t)') \in Nat
    BY <2>3, Lane_Figures, FS_Subset, FS_CardinalityType
  <2>5. Cardinality(Copies(e.key, t)) <= Cardinality(Copies(e.key, t)') /\ Cardinality(Copies(e.key, t)) \in Nat
    BY <2>4, Lane_Sets, FS_Subset
  <2> QED
    BY <2>1, <2>2, <2>4, <2>5
<1>4. \A t \in Nat : (Cardinality(Hits(e.times, t)) <= Cardinality(Copies(e.key, t)))'
  BY <1>3
<1> QED
  BY <1>1, <1>2, <1>4 DEF CopiesFine

LEMMA Lane_DupesKept ==
  ASSUME DupesFine, clock \in Nat, clock' \in Nat, clock <= clock', dupes' = dupes,
         \A e \in EntriesOf(dupes) : \A t \in Nat : Copies(e.key, t) \subseteq Copies(e.key, t)'
  PROVE  DupesFine'
<1>1. ASSUME NEW e \in EntriesOf(dupes) PROVE CopiesFine(e)'
  BY Lane_CopiesKept DEF DupesFine
<1>2. (\A e \in EntriesOf(dupes) : CopiesFine(e))'
  BY <1>1
<1> QED
  BY <1>2 DEF DupesFine

LEMMA Lane_BucketsKept ==
  ASSUME BucketsFine, clock \in Nat, clock' \in Nat, clock <= clock', buckets' = buckets,
         Cardinality(Done) \in Nat, Cardinality(Done') \in Nat, Cardinality(Done) <= Cardinality(Done')
  PROVE  BucketsFine'
<1>1. Len(buckets) \in Nat /\ MaxBuckets \in Nat /\ EntriesOf(buckets) \subseteq BucketRecord
  BY Lane_Table, Lane_Figures DEF BucketsFine
<1>2. Len(buckets) <= MaxBuckets + Cardinality(Done')
  BY <1>1 DEF BucketsFine
<1>3. \A e \in EntriesOf(buckets) : e.units <= Full(e.key[2]) /\ e.last <= clock'
  <2> TAKE e \in EntriesOf(buckets)
  <2>1. e.last \in Nat
    BY <1>1 DEF BucketRecord
  <2> QED
    BY <2>1 DEF BucketsFine
<1> QED
  BY <1>2, <1>3 DEF BucketsFine

LEMMA Lane_BudgetKept ==
  ASSUME buckets' = buckets, forgotten' = forgotten, NEW ip, Charged(ip)' = Charged(ip), BudgetFine(ip)
  PROVE  BudgetFine(ip)'
BY DEF BudgetFine

LEMMA Lane_Clock ==
  ASSUME LaneInductive
  PROVE  clock \in Nat
BY Lane_Figures DEF LaneInductive

\* Of the tables only the ring changes.
LEMMA Lane_InRing ==
  ASSUME LaneInductive, NEW q \in Posters, NEW x \in PosterRecord, NEW y \in PosterRecord, Goes(q, x, y),
         UNCHANGED <<clock, buckets, live, lastSeq, forgotten>>,
         PosterFine(y), y.charged = x.charged, DupesFine'
  PROVE  LaneInductive'
<1>0. clock \in Nat /\ clock' = clock /\ PostersFine /\ RoomsFine
  BY Lane_Clock DEF LaneInductive
<1>1. RoomsFine' /\ \A r \in LaneRooms : lastSeq[r] <= lastSeq'[r]
  BY DEF LaneInductive, RoomsFine
<1>2. PosterFine(y)'
  BY DEF PosterFine
<1>3. PostersFine'
  BY <1>0, <1>1, <1>2, Lane_GoesFine
<1>4. BucketsFine'
  <2>1. Cardinality(Done) \in Nat /\ Cardinality(Done') \in Nat /\ Cardinality(Done) <= Cardinality(Done')
    BY <1>0, Lane_GoesDone
  <2> QED
    BY <1>0, <2>1, Lane_BucketsKept DEF LaneInductive
<1>5. \A ip \in Addresses : BudgetFine(ip)'
  <2>1. \A ip : Charged(ip)' = Charged(ip)
    BY <1>0, Lane_GoesCharged
  <2> QED
    BY <2>1, Lane_BudgetKept DEF LaneInductive
<1> QED
  BY <1>0, <1>1, <1>3, <1>4, <1>5 DEF LaneInductive

\* Nothing but the request changes.
LEMMA Lane_Quiet ==
  ASSUME LaneInductive, NEW q \in Posters, NEW x \in PosterRecord, NEW y \in PosterRecord, Goes(q, x, y),
         UNCHANGED <<clock, buckets, dupes, live, lastSeq, forgotten>>,
         PosterFine(y), y.charged = x.charged, Holds(x) => Holds(y) /\ y.at = x.at
  PROVE  LaneInductive'
<1>1. clock \in Nat /\ clock' = clock /\ PostersFine
  BY Lane_Clock DEF LaneInductive
<1>2. \A k, t : Copies(k, t) \subseteq Copies(k, t)'
  BY <1>1, Lane_GoesCopies
<1>3. DupesFine'
  BY <1>1, <1>2, Lane_DupesKept DEF LaneInductive
<1> QED
  BY <1>3, Lane_InRing

LEMMA Lane_Asks ==
  ASSUME LaneInductive, NEW q \in Posters
  PROVE  req[q] \in PosterRecord /\ PosterFine(req[q])
BY DEF LaneInductive, PostersFine

\* The request goes to pc.
LEMMA Lane_Goto ==
  ASSUME LaneInductive, NEW q \in Posters, NEW pc \in Steps, Goto(q, pc), req[q].pc # "done"
  PROVE  \E x, y \in PosterRecord : /\ Goes(q, x, y) /\ y.pc = pc /\ y.charged = x.charged
                               /\ y.seq = x.seq /\ y.at = x.at
<1>1. PICK x \in PosterRecord : x = req[q]
  BY Lane_Asks
<1>2. PICK y \in PosterRecord : y = [x EXCEPT !.pc = pc]
  BY DEF PosterRecord
<1>3. /\ y.pc = pc /\ y.ip = x.ip /\ y.room = x.room /\ y.text = x.text
      /\ y.charged = x.charged /\ y.at = x.at /\ y.seq = x.seq
  BY <1>2 DEF PosterRecord
<1>4. req' = [req EXCEPT ![q] = y]
  BY <1>1, <1>2 DEF Goto, LaneInductive, PostersFine
<1> QED
  BY <1>1, <1>3, <1>4 DEF Goes

LEMMA Lane_Denied ==
  ASSUME LaneInductive, NEW q \in Posters, Denied(q) \/ BadField(q)
  PROVE  LaneInductive'
<1>1. /\ req[q].pc \in {"gate", "slot"} /\ Goto(q, "done")
      /\ UNCHANGED <<clock, buckets, dupes, live, lastSeq, forgotten>>
  BY DEF Denied, BadField
<1>2. PICK x, y \in PosterRecord : /\ Goes(q, x, y) /\ y.pc = "done" /\ y.charged = x.charged
                              /\ y.seq = x.seq /\ y.at = x.at
  BY <1>1, Lane_Goto DEF Steps
<1>3. x = req[q] /\ PosterFine(x)
  BY <1>2, Lane_Asks DEF Goes
<1>4. PosterFine(y) /\ ~Holds(x)
  BY <1>1, <1>2, <1>3 DEF PosterFine, Holds, Goes
<1> QED
  BY <1>1, <1>2, <1>4, Lane_Quiet

LEMMA Lane_CheckExists ==
  ASSUME LaneInductive, NEW q \in Posters, CheckExists(q)
  PROVE  LaneInductive'
<1>1. /\ req[q].pc = "gate" /\ Goto(q, IF req[q].room \in live THEN "slot" ELSE "absent")
      /\ UNCHANGED <<clock, buckets, dupes, live, lastSeq, forgotten>>
  BY DEF CheckExists
<1>2. PICK pc \in Steps : pc = IF req[q].room \in live THEN "slot" ELSE "absent"
  BY DEF Steps
<1>3. PICK x, y \in PosterRecord : /\ Goes(q, x, y) /\ y.pc = pc /\ y.charged = x.charged
                              /\ y.seq = x.seq /\ y.at = x.at
  BY <1>1, <1>2, Lane_Goto
<1>4. x = req[q] /\ PosterFine(x) /\ y.room = x.room /\ y.text = x.text
  BY <1>3, Lane_Asks DEF Goes
<1>5. pc = "slot" => lastSeq[x.room] >= 1
  BY <1>2, <1>4 DEF LaneInductive, RoomsFine
<1>6. PosterFine(y) /\ ~Holds(x)
  BY <1>1, <1>2, <1>3, <1>4, <1>5 DEF PosterFine, Holds
<1> QED
  BY <1>1, <1>3, <1>6, Lane_Quiet

LEMMA Lane_ExemptCopy ==
  ASSUME LaneInductive, NEW q \in Posters, ExemptCopy(q)
  PROVE  LaneInductive'
<1>1. /\ req[q].pc = "slot" /\ Goto(q, "append") /\ req[q].text \notin LongTexts
      /\ UNCHANGED <<clock, buckets, dupes, live, lastSeq, forgotten>>
  BY DEF ExemptCopy, HasDupeKey
<1>2. PICK x, y \in PosterRecord : /\ Goes(q, x, y) /\ y.pc = "append" /\ y.charged = x.charged
                              /\ y.seq = x.seq /\ y.at = x.at
  BY <1>1, Lane_Goto DEF Steps
<1>3. x = req[q] /\ PosterFine(x) /\ y.room = x.room /\ y.text = x.text
  BY <1>2, Lane_Asks DEF Goes
<1>4. PosterFine(y) /\ ~Holds(x)
  BY <1>1, <1>2, <1>3 DEF PosterFine, Holds
<1> QED
  BY <1>1, <1>2, <1>4, Lane_Quiet

LEMMA Lane_SampleClock ==
  ASSUME LaneInductive, NEW q \in Posters, SampleClock(q)
  PROVE  LaneInductive'
<1>0. clock \in Nat
  BY Lane_Clock
<1>1. /\ req[q].pc = "slot" /\ req[q].text \in LongTexts
      /\ req' = [req EXCEPT ![q].pc = "ring", ![q].at = clock]
      /\ UNCHANGED <<clock, buckets, dupes, live, lastSeq, forgotten>>
  BY DEF SampleClock, HasDupeKey
<1>2. PICK x \in PosterRecord : x = req[q] /\ PosterFine(x)
  BY Lane_Asks
<1>3. PICK y \in PosterRecord : y = [x EXCEPT !.pc = "ring", !.at = clock]
  BY <1>0 DEF PosterRecord, Steps
<1>4. /\ y.pc = "ring" /\ y.at = clock /\ y.ip = x.ip /\ y.room = x.room /\ y.text = x.text
      /\ y.charged = x.charged /\ y.seq = x.seq
  BY <1>3 DEF PosterRecord
<1>5. Goes(q, x, y)
  BY <1>1, <1>2, <1>3, <1>4 DEF Goes, LaneInductive, PostersFine
<1>6. PosterFine(y) /\ ~Holds(x)
  BY <1>0, <1>1, <1>2, <1>4 DEF PosterFine, Holds
<1> QED
  BY <1>1, <1>4, <1>5, <1>6, Lane_Quiet

LEMMA Lane_Land ==
  ASSUME LaneInductive, NEW q \in Posters, Land(q)
  PROVE  LaneInductive'
<1>0. clock \in Nat /\ clock' = clock /\ PostersFine /\ RoomsFine
  BY Lane_Clock DEF LaneInductive, Land
<1>1. PICK x \in PosterRecord : x = req[q] /\ PosterFine(x)
  BY Lane_Asks
<1>2. /\ x.pc = "append" /\ live' = live \cup {x.room}
      /\ lastSeq' = [lastSeq EXCEPT ![x.room] = lastSeq[x.room] + 1]
      /\ req' = [req EXCEPT ![q].pc = "settle", ![q].seq = lastSeq[x.room] + 1]
      /\ UNCHANGED <<clock, buckets, dupes, forgotten>>
  BY <1>1 DEF Land
<1>3. x.room \in LaneRooms /\ lastSeq \in [LaneRooms -> Nat] /\ lastSeq[x.room] \in Nat
  BY <1>0 DEF PosterRecord, RoomsFine
<1>4. PICK y \in PosterRecord : y = [x EXCEPT !.pc = "settle", !.seq = lastSeq[x.room] + 1]
  <2>1. lastSeq[x.room] + 1 \in Nat
    BY <1>3
  <2>2. [x EXCEPT !.pc = "settle", !.seq = lastSeq[x.room] + 1] \in PosterRecord
    BY <2>1 DEF PosterRecord, Steps
  <2> QED
    BY <2>2
<1>5. /\ y.pc = "settle" /\ y.seq = lastSeq[x.room] + 1 /\ y.ip = x.ip /\ y.room = x.room
      /\ y.text = x.text /\ y.charged = x.charged /\ y.at = x.at
  BY <1>4 DEF PosterRecord
<1>6. Goes(q, x, y)
  BY <1>1, <1>2, <1>4, <1>5 DEF Goes, LaneInductive, PostersFine
<1>7. /\ lastSeq' \in [LaneRooms -> Nat] /\ lastSeq'[x.room] = lastSeq[x.room] + 1
      /\ \A r \in LaneRooms : r # x.room => lastSeq'[r] = lastSeq[r]
  BY <1>2, <1>3
<1>8. RoomsFine' /\ \A r \in LaneRooms : lastSeq[r] <= lastSeq'[r]
  <2>1. \A r \in LaneRooms : lastSeq[r] \in Nat
    BY <1>3
  <2>2. \A r \in live' : lastSeq'[r] >= 1
    BY <1>0, <1>2, <1>3, <1>7, <2>1 DEF RoomsFine
  <2>3. live' \subseteq LaneRooms
    BY <1>0, <1>2, <1>3 DEF RoomsFine
  <2>4. \A r \in LaneRooms : lastSeq[r] <= lastSeq'[r]
    BY <1>3, <1>7, <2>1
  <2> QED
    BY <1>7, <2>2, <2>3, <2>4 DEF RoomsFine
<1>9. PosterFine(y)'
  <2>1. y.seq = 1 => y.charged
    BY <1>1, <1>2, <1>3, <1>5 DEF PosterFine
  <2> QED
    BY <1>0, <1>1, <1>5, <2>1 DEF PosterFine
<1>10. PostersFine'
  BY <1>0, <1>6, <1>8, <1>9, Lane_GoesFine
<1>11. Holds(x) => Holds(y) /\ y.at = x.at
  BY <1>3, <1>5 DEF Holds
<1>12. DupesFine'
  <2>1. \A k, t : Copies(k, t) \subseteq Copies(k, t)'
    BY <1>0, <1>6, <1>11, Lane_GoesCopies
  <2> QED
    BY <1>0, <1>2, <2>1, Lane_DupesKept DEF LaneInductive
<1>13. BucketsFine'
  <2>1. Cardinality(Done) \in Nat /\ Cardinality(Done') \in Nat /\ Cardinality(Done) <= Cardinality(Done')
    BY <1>0, <1>6, Lane_GoesDone
  <2> QED
    BY <1>0, <1>2, <2>1, Lane_BucketsKept DEF LaneInductive
<1>14. \A ip \in Addresses : BudgetFine(ip)'
  <2>1. \A ip : Charged(ip)' = Charged(ip)
    BY <1>0, <1>5, <1>6, Lane_GoesCharged
  <2> QED
    BY <1>2, <2>1, Lane_BudgetKept DEF LaneInductive
<1> QED
  BY <1>0, <1>2, <1>8, <1>10, <1>12, <1>13, <1>14 DEF LaneInductive

\* Steps of no request.
LEMMA Lane_Still ==
  ASSUME LaneInductive, UNCHANGED <<buckets, dupes, lastSeq, req, forgotten>>,
         clock' \in 0..MaxClock, clock <= clock', live' \subseteq live
  PROVE  LaneInductive'
<1>0. clock \in Nat /\ clock' \in Nat
  BY Lane_Clock, Lane_Figures
<1>1. Done' = Done /\ (\A ip : Charged(ip)' = Charged(ip)) /\ (\A k, t : Copies(k, t)' = Copies(k, t))
  BY DEF Done, Charged, Copies, Holds
<1>2. DupesFine'
  BY <1>0, <1>1, Lane_DupesKept DEF LaneInductive
<1>3. BucketsFine'
  BY <1>0, <1>1, Lane_BucketsKept, Lane_Sets DEF LaneInductive
<1>4. \A ip \in Addresses : BudgetFine(ip)'
  BY <1>1, Lane_BudgetKept DEF LaneInductive
<1>5. RoomsFine'
  BY DEF LaneInductive, RoomsFine
<1>6. PostersFine'
  <2>1. \A x \in PosterRecord : PosterFine(x) => PosterFine(x)'
    <3> SUFFICES ASSUME NEW x \in PosterRecord, PosterFine(x) PROVE PosterFine(x)'
      OBVIOUS
    <3>1. x.at <= clock'
      BY <1>0 DEF PosterFine, PosterRecord, NotSampled
    <3> QED
      BY <3>1 DEF PosterFine
  <2>2. ASSUME NEW p \in Posters PROVE PosterFine(req[p])'
    <3>1. PICK z \in PosterRecord : z = req[p] /\ PosterFine(z)
      BY Lane_Asks
    <3>2. PosterFine(z)'
      BY <2>1, <3>1
    <3> QED
      BY <3>1, <3>2 DEF PosterFine
  <2> QED
    BY <2>2 DEF PostersFine, LaneInductive
<1> QED
  BY <1>2, <1>3, <1>4, <1>5, <1>6 DEF LaneInductive

---------------------------------------------------------------------------
(* The budgets. *)

\* The balance a token is taken of.
LEMMA Lane_Refilled ==
  ASSUME LaneInductive, NEW ip \in Addresses, NEW kind \in Kinds
  PROVE  /\ Refilled(ip, kind) \in Nat /\ Refilled(ip, kind) <= Full(kind)
         /\ <<ip, kind>> \in KeysOf(buckets) =>
              \E e \in EntriesOf(buckets) :
                 /\ e.key = <<ip, kind>> /\ e.last \in Nat /\ e.units \in Nat
                 /\ Refilled(ip, kind) <= e.units + (clock - e.last)
<1>1. clock \in Nat /\ Full(kind) \in Nat
  BY Lane_Clock, Lane_Figures
<1>2. Table(buckets, BucketRecord)
  BY DEF LaneInductive, BucketsFine
<1>3. CASE <<ip, kind>> \in KeysOf(buckets)
  <2>1. PICK e \in EntriesOf(buckets) : e.key = <<ip, kind>> /\ e = Balance(ip, kind)
    BY <1>2, <1>3, Lane_Entry DEF Balance
  <2>2. e \in BucketRecord /\ e.units <= Full(e.key[2]) /\ e.last <= clock
    BY <1>2, Lane_Table DEF LaneInductive, BucketsFine
  <2>3. e.units \in Nat /\ e.last \in Nat
    BY <2>2 DEF BucketRecord
  <2>4. Refilled(ip, kind) = LesserOf(Full(kind), e.units + (clock - e.last))
    BY <2>1 DEF Refilled
  <2>5. /\ Refilled(ip, kind) \in Nat /\ Refilled(ip, kind) <= Full(kind)
        /\ Refilled(ip, kind) <= e.units + (clock - e.last)
    BY <1>1, <2>2, <2>3, <2>4 DEF LesserOf
  <2> QED
    BY <2>1, <2>3, <2>5
<1>4. CASE <<ip, kind>> \notin KeysOf(buckets)
  <2>1. Balance(ip, kind).units = Full(kind) /\ Balance(ip, kind).last = clock
    BY <1>4 DEF Balance
  <2>2. Refilled(ip, kind) = LesserOf(Full(kind), Full(kind) + (clock - clock))
    BY <2>1 DEF Refilled
  <2> QED
    BY <1>1, <1>4, <2>2 DEF LesserOf
<1> QED
  BY <1>3, <1>4

\* What the table holds after a take.
LEMMA Lane_Take ==
  ASSUME LaneInductive, NEW ip \in Addresses, NEW kind \in Kinds, Take(ip, kind)
  PROVE  /\ Table(buckets', BucketRecord) /\ Len(buckets') <= MaxBuckets
         /\ forgotten' \subseteq Addresses /\ forgotten \subseteq forgotten'
         /\ \A a \in Addresses : <<a, "create">> \in KeysOf(buckets) /\ a \notin forgotten'
                                   => <<a, "create">> \in KeysOf(buckets')
         /\ \E e \in BucketRecord :
              /\ e.key = <<ip, kind>> /\ e.last = clock
              /\ e.units = IF Granted(ip, kind) THEN Refilled(ip, kind) - Period(kind)
                                                ELSE Refilled(ip, kind)
              /\ e \in EntriesOf(buckets')
              /\ EntriesOf(buckets') \subseteq Others(buckets, <<ip, kind>>) \cup {e}
<1> DEFINE left == IF Granted(ip, kind) THEN Refilled(ip, kind) - Period(kind) ELSE Refilled(ip, kind)
           new == [key |-> <<ip, kind>>, units |-> left, last |-> clock]
           all == Append(Without(buckets, <<ip, kind>>), new)
<1>1. /\ buckets' = Newest(all, MaxBuckets)
      /\ forgotten' = forgotten \cup {a \in Addresses : <<a, "create">> \in KeysOf(buckets) \ KeysOf(buckets')}
  BY DEF Take
<1>2. clock \in Nat /\ Refilled(ip, kind) \in Nat /\ Period(kind) \in Nat
  BY Lane_Clock, Lane_Figures, Lane_Refilled
<1>3. left \in Nat
  BY <1>2 DEF Granted
<1>4. new \in BucketRecord /\ new.key = <<ip, kind>> /\ new.last = clock /\ new.units = left
  BY <1>2, <1>3 DEF BucketRecord
<1>5. PICK e \in BucketRecord : e = new
  BY <1>4
<1>6. PICK r : r = Moved(buckets, e)
  OBVIOUS
<1>7. Table(r, BucketRecord) /\ EntriesOf(r) = Others(buckets, e.key) \cup {e} /\ r # <<>> /\ r[Len(r)] = e
  <2>1. Table(buckets, BucketRecord)
    BY DEF LaneInductive, BucketsFine
  <2> HIDE DEF left, new, all
  <2>2. e \in BucketRecord
    OBVIOUS
  <2> QED
    BY ONLY <1>6, <2>1, <2>2, Lane_Moved
<1>8. buckets' = Newest(r, MaxBuckets)
  BY <1>1, <1>4, <1>5, <1>6 DEF Moved
<1>9. MaxBuckets \in Nat /\ MaxBuckets >= 1
  BY Lane_Figures
<1>10. /\ Table(buckets', BucketRecord) /\ EntriesOf(buckets') \subseteq EntriesOf(r)
       /\ Len(buckets') <= MaxBuckets /\ e \in EntriesOf(buckets')
  BY <1>7, <1>8, <1>9, Lane_Kept
<1>11. forgotten \subseteq Addresses
  BY DEF LaneInductive
<1>12. e.key = <<ip, kind>> /\ e.last = clock /\ e.units = left
  BY <1>4, <1>5
<1> HIDE DEF left, new, all
<1>13. EntriesOf(buckets') \subseteq Others(buckets, <<ip, kind>>) \cup {e}
  BY <1>7, <1>10, <1>12
<1>14. forgotten' \subseteq Addresses /\ forgotten \subseteq forgotten'
  BY <1>1, <1>11
<1>15. \A a \in Addresses : <<a, "create">> \in KeysOf(buckets) /\ a \notin forgotten'
                              => <<a, "create">> \in KeysOf(buckets')
  BY <1>1
<1> QED
  BY <1>10, <1>12, <1>13, <1>14, <1>15 DEF left

\* A request takes a token, and is charged for a room if that is what it is.
LEMMA Lane_Takes ==
  ASSUME LaneInductive, NEW q \in Posters, NEW x \in PosterRecord, NEW y \in PosterRecord, Goes(q, x, y),
         NEW kind \in Kinds, Take(x.ip, kind), UNCHANGED <<clock, dupes, live, lastSeq>>,
         PosterFine(y), ~x.charged, y.charged <=> (kind = "create" /\ Granted(x.ip, kind)),
         ~Holds(x)
  PROVE  LaneInductive'
<1>0. clock \in Nat /\ clock' = clock /\ PostersFine /\ RoomsFine /\ Table(buckets, BucketRecord)
  BY Lane_Clock DEF LaneInductive, BucketsFine
<1>1. RoomsFine' /\ \A r \in LaneRooms : lastSeq[r] <= lastSeq'[r]
  BY DEF LaneInductive, RoomsFine
<1>2. PosterFine(y)'
  BY DEF PosterFine
<1>3. PostersFine'
  BY <1>0, <1>1, <1>2, Lane_GoesFine
<1>4. DupesFine'
  <2>1. \A k, t : Copies(k, t) \subseteq Copies(k, t)'
    BY <1>0, Lane_GoesCopies
  <2> QED
    BY <1>0, <2>1, Lane_DupesKept DEF LaneInductive
<1>5. x.ip \in Addresses
  BY DEF PosterRecord
<1>6. /\ Table(buckets', BucketRecord) /\ Len(buckets') <= MaxBuckets
      /\ forgotten' \subseteq Addresses /\ forgotten \subseteq forgotten'
      /\ \A a \in Addresses : <<a, "create">> \in KeysOf(buckets) /\ a \notin forgotten'
                                => <<a, "create">> \in KeysOf(buckets')
  BY <1>5, Lane_Take
<1>7. PICK e \in BucketRecord :
        /\ e.key = <<x.ip, kind>> /\ e.last = clock
        /\ e.units = IF Granted(x.ip, kind) THEN Refilled(x.ip, kind) - Period(kind)
                                            ELSE Refilled(x.ip, kind)
        /\ e \in EntriesOf(buckets')
        /\ EntriesOf(buckets') \subseteq Others(buckets, <<x.ip, kind>>) \cup {e}
  BY <1>5, Lane_Take
<1>8. /\ Refilled(x.ip, kind) \in Nat /\ Refilled(x.ip, kind) <= Full(kind)
      /\ Full(kind) \in Nat /\ Period(kind) \in Nat \ {0}
  BY <1>5, Lane_Refilled, Lane_Figures
<1>9. BucketsFine'
  <2>1. e.units <= Full(e.key[2]) /\ e.last <= clock'
    BY <1>0, <1>7, <1>8
  <2>2. \A f \in EntriesOf(buckets') : f.units <= Full(f.key[2]) /\ f.last <= clock'
    BY <1>0, <1>7, <2>1 DEF LaneInductive, BucketsFine, Others
  <2>3. Cardinality(Done') \in Nat
    BY <1>0, Lane_GoesDone
  <2>4. Len(buckets') \in Nat /\ MaxBuckets \in Nat
    BY <1>6, Lane_Table, Lane_Figures
  <2>5. Len(buckets') <= MaxBuckets + Cardinality(Done')
    BY <1>6, <2>3, <2>4
  <2> QED
    BY <1>6, <2>2, <2>5 DEF BucketsFine
<1>10. \A ip \in Addresses : Cardinality(Charged(ip)) \in Nat /\ Paid(Cardinality(Charged(ip))) \in Nat
  BY Lane_Sets, Lane_Paid
<1>11. KeysOf(buckets') = {f.key : f \in EntriesOf(buckets')}
  BY <1>6, Lane_Table
<1>12. KeysOf(buckets) = {f.key : f \in EntriesOf(buckets)}
  BY <1>0, Lane_Table
<1>13. ASSUME NEW a \in Addresses, <<a, "create">> # <<x.ip, kind>>, a \notin forgotten'
       PROVE  BudgetFine(a)'
  <2>1. Charged(a)' = Charged(a)
    <3>1. CASE a = x.ip
      <4>1. ~y.charged
        BY <1>13, <3>1
      <4>2. y.charged = x.charged
        <5>1. x.charged \in BOOLEAN /\ y.charged \in BOOLEAN
          BY DEF PosterRecord
        <5> QED
          BY <4>1, <5>1, Zenon
      <4> QED
        BY <1>0, <4>2, Lane_GoesCharged
    <3>2. CASE a # x.ip
      BY <1>0, <3>2, Lane_GoesCharged
    <3> QED
      BY <3>1, <3>2
  <2>2. BudgetFine(a) /\ a \notin forgotten
    BY <1>6, <1>13 DEF LaneInductive
  <2>3. CASE <<a, "create">> \in KeysOf(buckets)
    <3>1. <<a, "create">> \in KeysOf(buckets')
      BY <1>6, <1>13, <2>3
    <3>2. \A f \in EntriesOf(buckets') : f.key = <<a, "create">> => f \in EntriesOf(buckets)
      BY <1>7, <1>13 DEF Others
    <3>3. \A f \in EntriesOf(buckets') : f.key = <<a, "create">> =>
             Paid(Cardinality(Charged(a)')) + f.units <= Full("create") + f.last
      BY <2>1, <2>2, <2>3, <3>2 DEF BudgetFine
    <3> QED
      BY <3>1, <3>3 DEF BudgetFine
  <2>4. CASE <<a, "create">> \notin KeysOf(buckets)
    <3>1. <<a, "create">> \notin KeysOf(buckets')
      BY <1>7, <1>11, <1>12, <1>13, <2>4 DEF Others
    <3>2. Charged(a)' = {}
      BY <2>1, <2>2, <2>4 DEF BudgetFine
    <3> QED
      BY <3>1, <3>2 DEF BudgetFine
  <2> QED
    BY <2>3, <2>4
<1>14. ASSUME kind = "create", x.ip \notin forgotten' PROVE BudgetFine(x.ip)'
  <2> DEFINE C == Charged(x.ip)
             n == Cardinality(C)
  <2>0. BudgetFine(x.ip) /\ x.ip \notin forgotten
    BY <1>5, <1>6, <1>14 DEF LaneInductive
  <2>1. e.key = <<x.ip, "create">> /\ e.key \in KeysOf(buckets')
    BY <1>7, <1>11, <1>14
  <2>2. \A f \in EntriesOf(buckets') : f.key = <<x.ip, "create">> => f = e
    BY <1>7, <1>14 DEF Others
  <2>3. Paid(n) + Refilled(x.ip, "create") <= Full("create") + clock
    <3>1. CASE <<x.ip, "create">> \in KeysOf(buckets)
      <4>1. PICK f \in EntriesOf(buckets) :
              /\ f.key = <<x.ip, "create">> /\ f.last \in Nat /\ f.units \in Nat
              /\ Refilled(x.ip, "create") <= f.units + (clock - f.last)
        BY <1>5, <1>14, <3>1, Lane_Refilled
      <4>2. Paid(n) + f.units <= Full("create") + f.last
        BY <2>0, <3>1, <4>1 DEF BudgetFine
      <4> QED
        BY <1>0, <1>5, <1>8, <1>10, <1>14, <4>1, <4>2
    <3>2. CASE <<x.ip, "create">> \notin KeysOf(buckets)
      <4>1. C = {}
        BY <2>0, <3>2 DEF BudgetFine
      <4>2. Paid(n) = 0
        BY <4>1, FS_EmptySet, Lane_Paid
      <4> QED
        BY <1>0, <1>8, <1>14, <4>2
    <3> QED
      BY <3>1, <3>2
  <2>4. Paid(Cardinality(Charged(x.ip)')) + e.units <= Full("create") + clock
    <3>1. CASE Granted(x.ip, "create")
      <4>1. y.charged /\ e.units = Refilled(x.ip, "create") - Period("create")
        BY <1>7, <1>14, <3>1
      <4>2. q \notin C /\ Charged(x.ip)' = C \cup {q}
        BY <1>0, <4>1, Lane_GoesCharged
      <4>3. Cardinality(Charged(x.ip)') = n + 1 /\ n \in Nat
        BY <4>2, Lane_Sets, FS_AddElement
      <4>4. Paid(n + 1) = Paid(n) + RoomPeriod /\ Paid(n) \in Nat
        BY <4>3, Lane_Paid
      <4>5. Period("create") = RoomPeriod /\ RoomPeriod \in Nat
        BY Lane_Figures
      <4> HIDE DEF n, C
      <4>6. e.units = Refilled(x.ip, "create") - RoomPeriod
        BY <4>1, <4>5
      <4>7. Paid(Cardinality(Charged(x.ip)')) = Paid(n) + RoomPeriod
        BY <4>3, <4>4
      <4>8. Refilled(x.ip, "create") \in Nat /\ Full("create") \in Nat
        BY <1>8, <1>14
      <4> QED
        BY <1>0, <2>3, <4>4, <4>5, <4>6, <4>7, <4>8
    <3>2. CASE ~Granted(x.ip, "create")
      <4>1. ~y.charged /\ e.units = Refilled(x.ip, "create")
        BY <1>7, <1>14, <3>2
      <4>2. y.charged = x.charged
        <5>1. x.charged \in BOOLEAN /\ y.charged \in BOOLEAN
          BY DEF PosterRecord
        <5> QED
          BY <4>1, <5>1, Zenon
      <4>3. Charged(x.ip)' = C
        BY <1>0, <4>2, Lane_GoesCharged
      <4> QED
        BY <2>3, <4>1, <4>3
    <3> QED
      BY <3>1, <3>2
  <2> HIDE DEF n, C
  <2>5. \A f \in EntriesOf(buckets') : f.key = <<x.ip, "create">> =>
           Paid(Cardinality(Charged(x.ip)')) + f.units <= Full("create") + f.last
    BY <1>7, <2>2, <2>4
  <2> QED
    BY <2>1, <2>5 DEF BudgetFine
<1>15. \A a \in Addresses : BudgetFine(a)'
  <2> TAKE a \in Addresses
  <2>1. CASE a \in forgotten'
    BY <2>1 DEF BudgetFine
  <2>2. CASE a \notin forgotten' /\ <<a, "create">> # <<x.ip, kind>>
    BY <1>13, <2>2
  <2>3. CASE a \notin forgotten' /\ <<a, "create">> = <<x.ip, kind>>
    BY <1>14, <2>3
  <2> QED
    BY <2>1, <2>2, <2>3
<1> QED
  BY <1>0, <1>1, <1>3, <1>4, <1>6, <1>9, <1>15 DEF LaneInductive

LEMMA Lane_TakeWrite ==
  ASSUME LaneInductive, NEW q \in Posters, TakeWrite(q)
  PROVE  LaneInductive'
<1>1. PICK pc \in Steps : pc = IF Granted(req[q].ip, "write") THEN "gate" ELSE "done"
  BY DEF Steps
<1>2. /\ req[q].pc = "new" /\ Take(req[q].ip, "write") /\ Goto(q, pc)
      /\ UNCHANGED <<clock, dupes, live, lastSeq>>
  BY <1>1 DEF TakeWrite
<1>3. PICK x, y \in PosterRecord : /\ Goes(q, x, y) /\ y.pc = pc /\ y.charged = x.charged
                              /\ y.seq = x.seq /\ y.at = x.at
  BY <1>2, Lane_Goto
<1>4. x = req[q] /\ PosterFine(x) /\ y.room = x.room /\ y.text = x.text
  BY <1>3, Lane_Asks DEF Goes
<1>5. PosterFine(y) /\ ~Holds(x) /\ ~x.charged /\ ~y.charged
  BY <1>1, <1>2, <1>3, <1>4 DEF PosterFine, Holds
<1>6. "write" \in Kinds
  BY DEF Kinds
<1> QED
  BY <1>2, <1>3, <1>4, <1>5, <1>6, Lane_Takes

LEMMA Lane_ChargeCreation ==
  ASSUME LaneInductive, NEW q \in Posters, ChargeCreation(q)
  PROVE  LaneInductive'
<1>1. PICK x \in PosterRecord : x = req[q] /\ PosterFine(x)
  BY Lane_Asks
<1>2. /\ x.pc = "absent" /\ Take(x.ip, "create") /\ UNCHANGED <<clock, dupes, live, lastSeq>>
      /\ req' = IF Granted(x.ip, "create")
                THEN [req EXCEPT ![q].pc = "slot", ![q].charged = TRUE]
                ELSE [req EXCEPT ![q].pc = "done"]
  BY <1>1 DEF ChargeCreation
<1>3. PICK y \in PosterRecord : y = IF Granted(x.ip, "create") THEN [x EXCEPT !.pc = "slot", !.charged = TRUE]
                               ELSE [x EXCEPT !.pc = "done"]
  <2>1. [x EXCEPT !.pc = "slot", !.charged = TRUE] \in PosterRecord /\ [x EXCEPT !.pc = "done"] \in PosterRecord
    BY DEF PosterRecord, Steps
  <2> QED
    BY <2>1
<1>4. /\ y.ip = x.ip /\ y.room = x.room /\ y.text = x.text /\ y.at = x.at /\ y.seq = x.seq
      /\ y.pc = (IF Granted(x.ip, "create") THEN "slot" ELSE "done")
      /\ y.charged = (IF Granted(x.ip, "create") THEN TRUE ELSE x.charged)
  BY <1>3 DEF PosterRecord
<1>5. req' = [req EXCEPT ![q] = y]
  BY <1>1, <1>2, <1>3 DEF LaneInductive, PostersFine
<1>6. Goes(q, x, y)
  BY <1>1, <1>2, <1>4, <1>5 DEF Goes
<1>7. ~x.charged /\ ~Holds(x)
  BY <1>1, <1>2 DEF PosterFine, Holds
<1>8. y.charged <=> Granted(x.ip, "create")
  BY <1>4, <1>7
<1>9. PosterFine(y)
  BY <1>1, <1>2, <1>4, <1>7 DEF PosterFine
<1>10. "create" \in Kinds
  BY DEF Kinds
<1> QED
  BY <1>2, <1>6, <1>7, <1>8, <1>9, <1>10, Lane_Takes

---------------------------------------------------------------------------
(* The ring. *)

LEMMA Lane_AppendHits ==
  ASSUME NEW S, NEW s \in Seq(S), NEW t \in S, NEW z
  PROVE  /\ z # t => Cardinality(Hits(Append(s, t), z)) = Cardinality(Hits(s, z))
         /\ z = t => Cardinality(Hits(Append(s, t), z)) = Cardinality(Hits(s, z)) + 1
<1>1. PICK r : r = Append(s, t)
  OBVIOUS
<1>2. /\ r \in Seq(S) /\ Len(r) = Len(s) + 1 /\ r[Len(s) + 1] = t
      /\ \A i \in 1..Len(s) : r[i] = s[i]
  BY <1>1, AppendProperties
<1>3. DOMAIN r = 1..Len(r) /\ DOMAIN s = 1..Len(s) /\ Len(s) \in Nat
  BY <1>2, LenProperties
<1>4. \A i : i \in DOMAIN r <=> i \in DOMAIN s \/ i = Len(s) + 1
  BY <1>2, <1>3
<1>5. Len(s) + 1 \notin DOMAIN s
  BY <1>3
<1>6. ASSUME z # t PROVE Hits(r, z) = Hits(s, z)
  BY <1>2, <1>3, <1>4, <1>6 DEF Hits
<1>7. ASSUME z = t PROVE Hits(r, z) = Hits(s, z) \cup {Len(s) + 1}
  BY <1>2, <1>3, <1>4, <1>7 DEF Hits
<1>8. IsFiniteSet(Hits(s, z)) /\ Len(s) + 1 \notin Hits(s, z)
  BY <1>5, Lane_HitsFinite DEF Hits
<1>9. Cardinality(Hits(s, z) \cup {Len(s) + 1}) = Cardinality(Hits(s, z)) + 1
  BY <1>8, FS_AddElement
<1> QED
  BY <1>1, <1>6, <1>7, <1>9

\* The times a copy is looked for among are copies.
LEMMA Lane_LiveTimes ==
  ASSUME LaneInductive, NEW k, NEW now \in Nat
  PROVE  /\ LiveTimes(k, now) \in Seq(0..clock)
         /\ Len(LiveTimes(k, now)) \in Nat
         /\ Len(LiveTimes(k, now)) >= 1 => k \in KeysOf(dupes)
         /\ \A t \in Nat : Cardinality(Hits(LiveTimes(k, now), t)) <= Cardinality(Copies(k, t))
         /\ \A j \in 1..Len(LiveTimes(k, now)) : now - LiveTimes(k, now)[j] <= Window
<1>1. PICK r : r = LiveTimes(k, now)
  OBVIOUS
<1>2. CASE k \in KeysOf(dupes)
  <2>1. PICK e \in EntriesOf(dupes) : e = Entry(dupes, k) /\ e.key = k
    BY <1>2, Lane_Entry DEF LaneInductive, DupesFine
  <2>2. PICK s \in Seq(0..clock) : s = e.times
    BY DEF LaneInductive, DupesFine, CopiesFine
  <2> DEFINE G == {t \in 0..clock : Recent(t, now)}
  <2>3. r = Only(s, G)
    BY <1>1, <1>2, <2>1, <2>2 DEF LiveTimes
  <2>4. \A t \in G : now - t <= Window
    BY DEF Recent
  <2> HIDE DEF G
  <2>5. r \in Seq(0..clock) /\ SomeOf(r, s) /\ \A j \in 1..Len(r) : r[j] \in G
    BY <2>3, Lane_OnlySome
  <2>6. ASSUME NEW t \in Nat PROVE Cardinality(Hits(r, t)) <= Cardinality(Copies(k, t))
    <3>1. Cardinality(Hits(r, t)) <= Cardinality(Hits(s, t))
      BY <2>5, Lane_FewerHits
    <3>2. Cardinality(Hits(s, t)) <= Cardinality(Copies(k, t))
      BY <2>1, <2>2 DEF LaneInductive, DupesFine, CopiesFine
    <3>3. Cardinality(Hits(r, t)) \in Nat /\ Cardinality(Hits(s, t)) \in Nat /\ Cardinality(Copies(k, t)) \in Nat
      BY <2>5, Lane_HitsFinite, Lane_Sets
    <3> QED
      BY <3>1, <3>2, <3>3
  <2>7. Len(r) \in Nat
    BY <2>5, LenProperties
  <2> QED
    BY <1>1, <1>2, <2>4, <2>5, <2>6, <2>7
<1>3. CASE k \notin KeysOf(dupes)
  <2>1. r = <<>>
    BY <1>1, <1>3 DEF LiveTimes
  <2>2. <<>> \in Seq(0..clock) /\ Len(<<>>) = 0 /\ 1..0 = {} /\ DOMAIN <<>> = {}
    OBVIOUS
  <2>3. ASSUME NEW t \in Nat PROVE Cardinality(Hits(<<>>, t)) <= Cardinality(Copies(k, t))
    <3>1. Hits(<<>>, t) = {}
      BY <2>2 DEF Hits
    <3>2. Cardinality(Hits(<<>>, t)) = 0
      BY <3>1, FS_EmptySet
    <3>3. Cardinality(Copies(k, t)) \in Nat
      BY Lane_Sets
    <3> QED
      BY <3>2, <3>3
  <2> QED
    BY <1>1, <2>1, <2>2, <2>3
<1> QED
  BY <1>2, <1>3

\* The entry of a text keeps the newest of its copies.
LEMMA Lane_NewestCopies ==
  ASSUME clock \in Nat, NEW k \in LaneRooms \X LongTexts, NEW s \in Seq(0..clock), Len(s) >= 1
  PROVE  \E e \in DupeRecord :
            /\ e = [key |-> k, times |-> Newest(s, MaxCopies)] /\ e.key = k
            /\ e.times \in Seq(0..clock) /\ Len(e.times) \in 1..MaxCopies
            /\ \A t : /\ Cardinality(Hits(e.times, t)) \in Nat /\ Cardinality(Hits(s, t)) \in Nat
                      /\ Cardinality(Hits(e.times, t)) <= Cardinality(Hits(s, t))
<1>1. MaxCopies \in Nat /\ MaxCopies >= 1 /\ Len(s) \in Nat
  BY Lane_Figures, LenProperties
<1>2. PICK r : r = Newest(s, MaxCopies)
  OBVIOUS
<1>3. r \in Seq(0..clock) /\ SomeOf(r, s) /\ Len(r) = LesserOf(Len(s), MaxCopies)
  BY <1>1, <1>2, Lane_Newest
<1>4. Len(r) \in 1..MaxCopies
  BY <1>1, <1>3 DEF LesserOf
<1>5. 0..clock \subseteq Nat
  OBVIOUS
<1>6. r \in Seq(Nat)
  BY <1>3, <1>5, SeqMonotonic
<1>7. PICK e \in DupeRecord : e = [key |-> k, times |-> r]
  BY <1>6 DEF DupeRecord
<1>8. e.key = k /\ e.times = r
  BY <1>7
<1>9. ASSUME NEW t
      PROVE  /\ Cardinality(Hits(r, t)) \in Nat /\ Cardinality(Hits(s, t)) \in Nat
             /\ Cardinality(Hits(r, t)) <= Cardinality(Hits(s, t))
  BY <1>3, Lane_FewerHits, Lane_HitsFinite
<1> QED
  BY <1>2, <1>3, <1>4, <1>7, <1>8, <1>9

\* The ring after an entry was changed or dropped.
LEMMA Lane_RingChanged ==
  ASSUME LaneInductive, clock' = clock, NEW k, NEW E,
         Table(dupes', DupeRecord), Len(dupes') <= MaxDupeKeys,
         EntriesOf(dupes') \subseteq Others(dupes, k) \cup E,
         \A e \in E : CopiesFine(e)',
         \A l, t : l # k => Copies(l, t) \subseteq Copies(l, t)'
  PROVE  DupesFine'
<1>1. clock \in Nat
  BY Lane_Clock
<1>2. ASSUME NEW e \in EntriesOf(dupes), e.key # k PROVE CopiesFine(e)'
  <2>1. CopiesFine(e)
    BY DEF LaneInductive, DupesFine
  <2>2. \A t \in Nat : Copies(e.key, t) \subseteq Copies(e.key, t)'
    BY <1>2
  <2> QED
    BY <1>1, <2>1, <2>2, Lane_CopiesKept
<1>3. ASSUME NEW e \in EntriesOf(dupes') PROVE CopiesFine(e)'
  <2>1. CASE e \in E
    BY <2>1
  <2>2. CASE e \in Others(dupes, k)
    BY <1>2, <2>2 DEF Others
  <2> QED
    BY <2>1, <2>2
<1>4. (\A e \in EntriesOf(dupes) : CopiesFine(e))'
  BY <1>3
<1> QED
  BY <1>4 DEF DupesFine

LEMMA Lane_ReserveCopy ==
  ASSUME LaneInductive, NEW q \in Posters, ReserveCopy(q)
  PROVE  LaneInductive'
<1>0. clock \in Nat /\ clock' = clock /\ PostersFine /\ Table(dupes, DupeRecord) /\ Len(dupes) <= MaxDupeKeys
  BY Lane_Clock DEF LaneInductive, ReserveCopy, DupesFine
<1>1. PICK x \in PosterRecord : x = req[q] /\ PosterFine(x)
  BY Lane_Asks
<1>2. PICK k : k = <<x.room, x.text>>
  OBVIOUS
<1>3. PICK now : now = x.at
  OBVIOUS
<1>4. /\ x.pc = "ring" /\ DupeRefused(k, now)
      /\ req' = IF Refuses(k, now) THEN [req EXCEPT ![q].pc = "settle", ![q].at = NotSampled]
                                   ELSE [req EXCEPT ![q].pc = "append"]
      /\ UNCHANGED <<clock, buckets, live, lastSeq, forgotten>>
  BY <1>1, <1>2, <1>3 DEF ReserveCopy, DupeKey
<1>5. now \in Nat /\ now <= clock /\ x.text \in LongTexts /\ k \in LaneRooms \X LongTexts
  BY <1>1, <1>2, <1>3, <1>4 DEF PosterFine, PosterRecord, NotSampled
<1>6. ~Holds(x) /\ x.seq = 0
  BY <1>1, <1>4 DEF PosterFine, Holds
<1>7. PICK L : L = LiveTimes(k, now)
  OBVIOUS
<1>8. /\ L \in Seq(0..clock) /\ Len(L) \in Nat /\ (Len(L) >= 1 => k \in KeysOf(dupes))
      /\ \A t \in Nat : Cardinality(Hits(L, t)) <= Cardinality(Copies(k, t))
  BY <1>5, <1>7, Lane_LiveTimes
<1>9. MaxCopies \in Nat /\ MaxCopies >= 1 /\ MaxDupeKeys \in Nat \ {0}
  BY Lane_Figures
<1>10. CASE Refuses(k, now)
  <2>1. PICK y \in PosterRecord : y = [x EXCEPT !.pc = "settle", !.at = NotSampled]
    BY DEF PosterRecord, Steps
  <2>2. /\ y.pc = "settle" /\ y.at = NotSampled /\ y.ip = x.ip /\ y.room = x.room
        /\ y.text = x.text /\ y.charged = x.charged /\ y.seq = x.seq
    BY <2>1 DEF PosterRecord
  <2>3. Goes(q, x, y)
    BY <1>1, <1>4, <1>10, <2>1, <2>2 DEF Goes, LaneInductive, PostersFine
  <2>4. PosterFine(y)
    BY <1>0, <1>1, <1>6, <2>2 DEF PosterFine, NotSampled
  <2>5. Len(L) >= 1 /\ k \in KeysOf(dupes)
    BY <1>7, <1>8, <1>9, <1>10 DEF Refuses
  <2>6. PICK e \in DupeRecord :
          /\ e = [key |-> k, times |-> Newest(L, MaxCopies)] /\ e.key = k
          /\ e.times \in Seq(0..clock) /\ Len(e.times) \in 1..MaxCopies
          /\ \A t : /\ Cardinality(Hits(e.times, t)) \in Nat /\ Cardinality(Hits(L, t)) \in Nat
                    /\ Cardinality(Hits(e.times, t)) <= Cardinality(Hits(L, t))
    BY <1>0, <1>5, <1>8, <2>5, Lane_NewestCopies
  <2>7. dupes' = Assign(dupes, e)
    BY <1>4, <1>7, <1>10, <2>6 DEF DupeRefused
  <2>8. /\ Table(dupes', DupeRecord) /\ EntriesOf(dupes') = Others(dupes, k) \cup {e}
        /\ Len(dupes') = Len(dupes)
    BY <1>0, <2>5, <2>6, <2>7, Lane_Assign
  <2>9. \A l, t : Copies(l, t) \subseteq Copies(l, t)'
    BY <1>0, <1>6, <2>3, Lane_GoesCopies
  <2>10. CopiesFine(e)
    <3>1. ASSUME NEW t \in Nat PROVE Cardinality(Hits(e.times, t)) <= Cardinality(Copies(k, t))
      BY <1>8, <2>6, Lane_Sets
    <3> QED
      BY <2>6, <3>1 DEF CopiesFine
  <2>11. CopiesFine(e)'
    BY <1>0, <2>9, <2>10, Lane_CopiesKept
  <2>12. DupesFine'
    BY <1>0, <2>8, <2>9, <2>11, Lane_RingChanged
  <2> QED
    BY <1>4, <2>2, <2>3, <2>4, <2>12, Lane_InRing
<1>11. CASE ~Refuses(k, now)
  <2>1. PICK y \in PosterRecord : y = [x EXCEPT !.pc = "append"]
    BY DEF PosterRecord, Steps
  <2>2. /\ y.pc = "append" /\ y.at = x.at /\ y.ip = x.ip /\ y.room = x.room
        /\ y.text = x.text /\ y.charged = x.charged /\ y.seq = x.seq
    BY <2>1 DEF PosterRecord
  <2>3. Goes(q, x, y)
    BY <1>1, <1>4, <1>11, <2>1, <2>2 DEF Goes, LaneInductive, PostersFine
  <2>4. PosterFine(y) /\ Holds(y)
    BY <1>1, <1>3, <1>4, <1>5, <1>6, <2>2 DEF PosterFine, Holds
  <2>5. PICK s : s = Append(L, now)
    OBVIOUS
  <2>6. s \in Seq(0..clock) /\ Len(s) >= 1 /\ now \in 0..clock
    BY <1>0, <1>5, <1>8, <2>5, AppendProperties
  <2>7. PICK e \in DupeRecord :
          /\ e = [key |-> k, times |-> Newest(s, MaxCopies)] /\ e.key = k
          /\ e.times \in Seq(0..clock) /\ Len(e.times) \in 1..MaxCopies
          /\ \A t : /\ Cardinality(Hits(e.times, t)) \in Nat /\ Cardinality(Hits(s, t)) \in Nat
                    /\ Cardinality(Hits(e.times, t)) <= Cardinality(Hits(s, t))
    BY <1>0, <1>5, <2>6, Lane_NewestCopies
  <2>8. PICK r : r = Moved(dupes, e)
    OBVIOUS
  <2>9. dupes' = Swept(r, now)
    BY <1>4, <1>7, <1>11, <2>5, <2>7, <2>8 DEF DupeRefused, Moved
  <2>10. Table(r, DupeRecord) /\ EntriesOf(r) = Others(dupes, k) \cup {e}
    BY <1>0, <2>7, <2>8, Lane_Moved
  <2>11. /\ Table(dupes', DupeRecord) /\ EntriesOf(dupes') \subseteq Others(dupes, k) \cup {e}
         /\ Len(dupes') <= MaxDupeKeys
    BY <1>9, <2>9, <2>10, Lane_Swept
  <2>12. \A l, t : Copies(l, t) \subseteq Copies(l, t)'
    BY <1>0, <1>6, <2>3, Lane_GoesCopies
  <2>13. ASSUME NEW t \in Nat PROVE Cardinality(Hits(e.times, t)) <= Cardinality(Copies(k, t)')
    <3>1. Copies(k, t)' \subseteq Posters
      BY DEF Copies
    <3>2. IsFiniteSet(Copies(k, t)') /\ Cardinality(Copies(k, t)') \in Nat
      BY <3>1, Lane_Figures, FS_Subset, FS_CardinalityType
    <3>3. Cardinality(Hits(L, t)) <= Cardinality(Copies(k, t)) /\ Cardinality(Copies(k, t)) \in Nat
      BY <1>8, Lane_Sets
    <3>4. Cardinality(Hits(L, t)) \in Nat
      BY <1>8, Lane_HitsFinite
    <3>5. CASE t # now
      <4>1. Cardinality(Hits(s, t)) = Cardinality(Hits(L, t))
        BY <1>8, <2>5, <2>6, <3>5, Lane_AppendHits
      <4>2. Cardinality(Copies(k, t)) <= Cardinality(Copies(k, t)')
        BY <2>12, <3>2, FS_Subset
      <4> QED
        BY <2>7, <3>2, <3>3, <3>4, <4>1, <4>2
    <3>6. CASE t = now
      <4>1. Cardinality(Hits(s, t)) = Cardinality(Hits(L, t)) + 1
        BY <1>8, <2>5, <2>6, <3>6, Lane_AppendHits
      <4>2. q \notin Copies(k, t)
        BY <1>1, <1>6 DEF Copies
      <4>3. q \in Copies(k, t)'
        <5>1. req'[q] = y
          BY <1>0, <2>3, Lane_Goes
        <5> QED
          BY <1>2, <1>3, <2>2, <2>4, <3>6, <5>1 DEF Copies, Holds
      <4>4. Copies(k, t) \cup {q} \subseteq Copies(k, t)'
        BY <2>12, <4>3
      <4>5. Cardinality(Copies(k, t) \cup {q}) = Cardinality(Copies(k, t)) + 1
        BY <4>2, Lane_Sets, FS_AddElement
      <4>6. Cardinality(Copies(k, t) \cup {q}) <= Cardinality(Copies(k, t)')
        BY <3>2, <4>4, FS_Subset
      <4> QED
        BY <2>7, <3>2, <3>3, <3>4, <4>1, <4>5, <4>6
    <3> QED
      BY <3>5, <3>6
  <2>14. CopiesFine(e)'
    <3>1. \A t \in Nat : (Cardinality(Hits(e.times, t)) <= Cardinality(Copies(e.key, t)))'
      BY <2>7, <2>13
    <3> QED
      BY <1>0, <2>7, <3>1 DEF CopiesFine
  <2>15. DupesFine'
    BY <1>0, <2>11, <2>12, <2>14, Lane_RingChanged
  <2> QED
    BY <1>4, <2>2, <2>3, <2>4, <2>15, Lane_InRing
<1> QED
  BY <1>10, <1>11

\* What a release leaves of a text's copies.
FirstOf(s, now) == CHOOSE i \in DOMAIN s : s[i] = now /\ \A j \in 1..(i - 1) : s[j] # now
Rest(s, now) == IF \E i \in DOMAIN s : s[i] = now THEN Cut(s, FirstOf(s, now)) ELSE s

LEMMA Lane_Rest ==
  ASSUME NEW s \in Seq(0..clock), NEW now, NEW rest, rest = Rest(s, now)
  PROVE  /\ rest \in Seq(0..clock) /\ Len(rest) <= Len(s)
         /\ \A t : /\ Cardinality(Hits(rest, t)) \in Nat /\ Cardinality(Hits(s, t)) \in Nat
                   /\ Cardinality(Hits(rest, t)) <= Cardinality(Hits(s, t))
         /\ \/ Cardinality(Hits(rest, now)) <= Cardinality(Hits(s, now)) - 1
            \/ Cardinality(Hits(rest, now)) = 0
<1>1. DOMAIN s = 1..Len(s) /\ Len(s) \in Nat
  BY LenProperties
<1>2. CASE \E i \in DOMAIN s : s[i] = now
  <2> DEFINE T == {i \in DOMAIN s : s[i] = now}
  <2>0. \A i \in DOMAIN s : i \in Nat
    BY <1>1
  <2>1. T \subseteq Nat /\ T # {}
    BY <1>2, <2>0
  <2> HIDE DEF T
  <2>2. PICK o \in T : \A z \in T : o <= z
    BY <2>1, Least
  <2>3. o \in DOMAIN s /\ s[o] = now
    BY DEF T
  <2>4. \A j \in 1..(o - 1) : s[j] # now
    <3> SUFFICES ASSUME NEW j \in 1..(o - 1), s[j] = now PROVE FALSE
      OBVIOUS
    <3>1. j \in DOMAIN s /\ j < o /\ j \in Nat /\ o \in Nat
      BY <1>1, <2>3
    <3>2. j \in T
      BY <3>1 DEF T
    <3> QED
      BY <2>2, <3>1, <3>2
  <2>5. \E i \in DOMAIN s : s[i] = now /\ \A j \in 1..(i - 1) : s[j] # now
    BY <2>3, <2>4
  <2>6. PICK n : n = FirstOf(s, now)
    OBVIOUS
  <2>7. n \in DOMAIN s /\ s[n] = now
    BY <2>5, <2>6 DEF FirstOf
  <2>8. n \in 1..Len(s) /\ s[n] = now /\ rest = Cut(s, n)
    BY <1>1, <1>2, <2>6, <2>7 DEF Rest
  <2>9. /\ rest \in Seq(0..clock) /\ Len(rest) = Len(s) - 1
        /\ \E g : Inside(rest, s, g) /\ \A j \in 1..Len(rest) : g[j] # n
    BY <2>8, Lane_CutOne
  <2>10. PICK g : Inside(rest, s, g) /\ \A j \in 1..Len(rest) : g[j] # n
    BY <2>9
  <2>11. Cardinality(Hits(rest, now)) <= Cardinality(Hits(s, now)) - 1
    BY <2>8, <2>9, <2>10, Lane_OneHitLess
  <2>12. SomeOf(rest, s)
    BY <2>10 DEF SomeOf
  <2>13. \A t : /\ Cardinality(Hits(rest, t)) \in Nat /\ Cardinality(Hits(s, t)) \in Nat
                /\ Cardinality(Hits(rest, t)) <= Cardinality(Hits(s, t))
    BY <2>9, <2>12, Lane_FewerHits, Lane_HitsFinite
  <2>14. Len(rest) <= Len(s)
    BY <1>1, <2>9
  <2> QED
    BY <2>9, <2>11, <2>13, <2>14
<1>3. CASE ~ \E i \in DOMAIN s : s[i] = now
  <2>1. rest = s
    BY <1>3 DEF Rest
  <2>2. Hits(s, now) = {}
    BY <1>3 DEF Hits
  <2>3. Cardinality(Hits(s, now)) = 0
    BY <2>2, FS_EmptySet
  <2>4. \A t : Cardinality(Hits(s, t)) \in Nat /\ Cardinality(Hits(s, t)) <= Cardinality(Hits(s, t))
    BY Lane_HitsFinite
  <2>5. Len(rest) <= Len(s)
    BY <1>1, <2>1
  <2> QED
    BY <2>1, <2>3, <2>4, <2>5
<1> QED
  BY <1>2, <1>3

LEMMA Lane_RefuseAppend ==
  ASSUME LaneInductive, NEW q \in Posters, RefuseAppend(q)
  PROVE  LaneInductive'
<1>0. clock \in Nat /\ clock' = clock /\ PostersFine /\ Table(dupes, DupeRecord) /\ Len(dupes) <= MaxDupeKeys
  BY Lane_Clock DEF LaneInductive, RefuseAppend, DupesFine
<1>1. PICK x \in PosterRecord : x = req[q] /\ PosterFine(x)
  BY Lane_Asks
<1>2. PICK k : k = <<x.room, x.text>>
  OBVIOUS
<1>3. PICK now : now = x.at
  OBVIOUS
<1>4. /\ x.pc = "append" /\ (IF x.text \in LongTexts THEN DupeRelease(k, now) ELSE dupes' = dupes)
      /\ req' = [req EXCEPT ![q].pc = "done", ![q].at = NotSampled]
      /\ UNCHANGED <<clock, buckets, live, lastSeq, forgotten>>
  BY <1>1, <1>2, <1>3 DEF RefuseAppend, ReleaseCopy, HasDupeKey, DupeKey
<1>5. x.seq = 0
  BY <1>1, <1>4 DEF PosterFine
<1>6. PICK y \in PosterRecord : y = [x EXCEPT !.pc = "done", !.at = NotSampled]
  BY DEF PosterRecord, Steps
<1>7. /\ y.pc = "done" /\ y.at = NotSampled /\ y.ip = x.ip /\ y.room = x.room
      /\ y.text = x.text /\ y.charged = x.charged /\ y.seq = x.seq
  BY <1>6 DEF PosterRecord
<1>8. Goes(q, x, y)
  BY <1>1, <1>4, <1>6, <1>7 DEF Goes, LaneInductive, PostersFine
<1>9. PosterFine(y)
  BY <1>0, <1>1, <1>5, <1>7 DEF PosterFine, NotSampled
<1>10. /\ \A l, t : Copies(l, t) \ {q} \subseteq Copies(l, t)'
       /\ \A l, t : ~(l = k /\ t = now) => Copies(l, t) \subseteq Copies(l, t)'
  BY <1>0, <1>2, <1>3, <1>8, Lane_GoesCopies
<1>11. CASE x.text \notin LongTexts
  <2>1. ~Holds(x) /\ dupes' = dupes
    BY <1>4, <1>11 DEF Holds
  <2>2. \A l, t : Copies(l, t) \subseteq Copies(l, t)'
    BY <1>0, <1>8, <2>1, Lane_GoesCopies
  <2>3. DupesFine'
    BY <1>0, <2>1, <2>2, Lane_DupesKept DEF LaneInductive
  <2> QED
    BY <1>4, <1>7, <1>8, <1>9, <2>3, Lane_InRing
<1>12. CASE x.text \in LongTexts /\ k \notin KeysOf(dupes)
  <2>1. dupes' = dupes
    BY <1>4, <1>12 DEF DupeRelease
  <2>2. \A e \in EntriesOf(dupes) : e.key # k
    BY <1>0, <1>12, Lane_Table
  <2>3. \A e \in EntriesOf(dupes) : \A t \in Nat : Copies(e.key, t) \subseteq Copies(e.key, t)'
    BY <1>10, <2>2
  <2>4. DupesFine'
    BY <1>0, <2>1, <2>3, Lane_DupesKept DEF LaneInductive
  <2> QED
    BY <1>4, <1>7, <1>8, <1>9, <2>4, Lane_InRing
<1>13. CASE x.text \in LongTexts /\ k \in KeysOf(dupes)
  <2>1. PICK o \in EntriesOf(dupes) : o = Entry(dupes, k) /\ o.key = k
    BY <1>0, <1>13, Lane_Entry
  <2>2. CopiesFine(o)
    BY DEF LaneInductive, DupesFine
  <2>3. PICK s \in Seq(0..clock) : s = o.times
    BY <2>2 DEF CopiesFine
  <2>4. Len(s) \in 1..MaxCopies /\ MaxCopies \in Nat
    BY <2>2, <2>3, Lane_Figures DEF CopiesFine
  <2>5. PICK rest : rest = Rest(s, now)
    OBVIOUS
  <2>6. dupes' = IF rest = <<>> THEN Without(dupes, k) ELSE Assign(dupes, [key |-> k, times |-> rest])
    BY <1>4, <1>13, <2>1, <2>3, <2>5 DEF DupeRelease, Rest, FirstOf, Cut
  <2>7. /\ rest \in Seq(0..clock) /\ Len(rest) <= Len(s)
        /\ \A t : /\ Cardinality(Hits(rest, t)) \in Nat /\ Cardinality(Hits(s, t)) \in Nat
                  /\ Cardinality(Hits(rest, t)) <= Cardinality(Hits(s, t))
        /\ \/ Cardinality(Hits(rest, now)) <= Cardinality(Hits(s, now)) - 1
           \/ Cardinality(Hits(rest, now)) = 0
    BY <2>5, Lane_Rest
  <2>8. \A l, t : l # k => Copies(l, t) \subseteq Copies(l, t)'
    BY <1>10
  <2>9. ASSUME rest = <<>> PROVE DupesFine'
    <3>1. dupes' = Without(dupes, k)
      BY <2>6, <2>9
    <3>2. /\ Table(dupes', DupeRecord) /\ EntriesOf(dupes') = Others(dupes, k)
          /\ Len(dupes') <= Len(dupes)
      BY <1>0, <3>1, Lane_Without
    <3>3. Len(dupes') \in Nat /\ Len(dupes) \in Nat /\ MaxDupeKeys \in Nat
      BY <1>0, <3>2, Lane_Table, Lane_Figures
    <3>4. Len(dupes') <= MaxDupeKeys
      BY <1>0, <3>2, <3>3
    <3>5. PICK E : E = {}
      OBVIOUS
    <3>6. EntriesOf(dupes') \subseteq Others(dupes, k) \cup E /\ \A e \in E : CopiesFine(e)'
      BY <3>2, <3>5
    <3> QED
      BY <1>0, <2>8, <3>2, <3>4, <3>6, Lane_RingChanged
  <2>10. ASSUME rest # <<>> PROVE DupesFine'
    <3>1. Len(rest) \in 1..MaxCopies
      <4>1. Len(rest) \in Nat /\ Len(rest) # 0
        BY <2>7, <2>10, EmptySeq, LenProperties
      <4> QED
        BY <2>4, <2>7, <4>1
    <3>2. 0..clock \subseteq Nat
      OBVIOUS
    <3>3. rest \in Seq(Nat)
      BY <2>7, <3>2, SeqMonotonic
    <3>4. k \in LaneRooms \X LongTexts
      BY <1>2, <1>13 DEF PosterRecord
    <3>5. PICK e \in DupeRecord : e = [key |-> k, times |-> rest]
      BY <3>3, <3>4 DEF DupeRecord
    <3>6. e.key = k /\ e.times = rest
      BY <3>5
    <3>7. dupes' = Assign(dupes, e)
      BY <2>6, <2>10, <3>5
    <3>8. /\ Table(dupes', DupeRecord) /\ EntriesOf(dupes') = Others(dupes, k) \cup {e}
          /\ Len(dupes') = Len(dupes)
      BY <1>0, <1>13, <3>6, <3>7, Lane_Assign
    <3>9. ASSUME NEW t \in Nat PROVE Cardinality(Hits(rest, t)) <= Cardinality(Copies(k, t)')
      <4>1. Copies(k, t)' \subseteq Posters
        BY DEF Copies
      <4>2. IsFiniteSet(Copies(k, t)') /\ Cardinality(Copies(k, t)') \in Nat
        BY <4>1, Lane_Figures, FS_Subset, FS_CardinalityType
      <4>3. Cardinality(Hits(s, t)) <= Cardinality(Copies(k, t))
        BY <2>1, <2>2, <2>3 DEF CopiesFine
      <4>4. IsFiniteSet(Copies(k, t)) /\ Cardinality(Copies(k, t)) \in Nat
        BY Lane_Sets
      <4>5. Cardinality(Hits(rest, t)) \in Nat /\ Cardinality(Hits(s, t)) \in Nat
            /\ Cardinality(Hits(rest, t)) <= Cardinality(Hits(s, t))
        BY <2>7
      <4>6. CASE t # now
        <5>1. Cardinality(Copies(k, t)) <= Cardinality(Copies(k, t)')
          BY <1>10, <4>2, <4>6, FS_Subset
        <5> QED
          BY <4>2, <4>3, <4>4, <4>5, <5>1
      <4>7. CASE t = now
        <5>1. Copies(k, t) \ {q} \subseteq Copies(k, t)'
          BY <1>10
        <5>2. Cardinality(Copies(k, t) \ {q}) <= Cardinality(Copies(k, t)')
          BY <4>2, <5>1, FS_Subset
        <5>3. Cardinality(Copies(k, t) \ {q}) = IF q \in Copies(k, t) THEN Cardinality(Copies(k, t)) - 1
                                                                    ELSE Cardinality(Copies(k, t))
          BY <4>4, FS_RemoveElement
        <5>4. \/ Cardinality(Hits(rest, t)) <= Cardinality(Hits(s, t)) - 1
              \/ Cardinality(Hits(rest, t)) = 0
          BY <2>7, <4>7
        <5> QED
          BY <4>2, <4>3, <4>4, <4>5, <5>2, <5>3, <5>4
      <4> QED
        BY <4>6, <4>7
    <3>10. CopiesFine(e)'
      <4>1. \A t \in Nat : (Cardinality(Hits(e.times, t)) <= Cardinality(Copies(e.key, t)))'
        BY <3>6, <3>9
      <4> QED
        BY <1>0, <2>7, <3>1, <3>6, <4>1 DEF CopiesFine
    <3>11. PICK E : E = {e}
      OBVIOUS
    <3>12. EntriesOf(dupes') \subseteq Others(dupes, k) \cup E /\ \A f \in E : CopiesFine(f)'
      BY <3>8, <3>10, <3>11
    <3>13. Len(dupes') <= MaxDupeKeys
      BY <1>0, <3>8
    <3> QED
      BY <1>0, <2>8, <3>8, <3>12, <3>13, Lane_RingChanged
  <2>11. DupesFine'
    BY <2>9, <2>10
  <2> QED
    BY <1>4, <1>7, <1>8, <1>9, <2>11, Lane_InRing
<1> QED
  BY <1>11, <1>12, <1>13

---------------------------------------------------------------------------
(* The reply. *)

\* The token goes back.
LEMMA Lane_Refunded ==
  ASSUME LaneInductive, NEW q \in Posters, NEW x \in PosterRecord, NEW y \in PosterRecord, Goes(q, x, y),
         UNCHANGED <<clock, dupes, live, lastSeq, forgotten>>, Refund(x.ip, "create"),
         PosterFine(y), y.pc = "done", x.charged, ~y.charged, Holds(x) => Holds(y) /\ y.at = x.at
  PROVE  LaneInductive'
<1>0. clock \in Nat /\ clock' = clock /\ PostersFine /\ RoomsFine /\ Table(buckets, BucketRecord)
      /\ x.ip \in Addresses
  BY Lane_Clock DEF LaneInductive, BucketsFine, PosterRecord
<1>1. RoomsFine' /\ \A r \in LaneRooms : lastSeq[r] <= lastSeq'[r]
  BY DEF LaneInductive, RoomsFine
<1>2. PosterFine(y)'
  BY DEF PosterFine
<1>3. PostersFine'
  BY <1>0, <1>1, <1>2, Lane_GoesFine
<1>4. DupesFine'
  <2>1. \A k, t : Copies(k, t) \subseteq Copies(k, t)'
    BY <1>0, Lane_GoesCopies
  <2> QED
    BY <1>0, <2>1, Lane_DupesKept DEF LaneInductive
<1>5. PICK k : k = <<x.ip, "create">>
  OBVIOUS
<1>6. Full("create") \in Nat /\ Period("create") = RoomPeriod /\ RoomPeriod \in Nat
  BY Lane_Figures DEF Kinds
<1>7. PICK b \in BucketRecord :
         /\ b = Balance(x.ip, "create") /\ b.key = k /\ b.last <= clock /\ b.units <= Full("create")
         /\ k \in KeysOf(buckets) => b \in EntriesOf(buckets)
  <2>1. CASE k \in KeysOf(buckets)
    <3>1. PICK b \in EntriesOf(buckets) : b = Entry(buckets, k) /\ b.key = k
      BY <1>0, <2>1, Lane_Entry
    <3>2. b = Balance(x.ip, "create")
      BY <1>5, <2>1, <3>1 DEF Balance
    <3>3. b \in BucketRecord /\ b.units <= Full(b.key[2]) /\ b.last <= clock
      BY <1>0, Lane_Table DEF LaneInductive, BucketsFine
    <3>4. Full(b.key[2]) = Full("create")
      BY <1>5, <3>1
    <3> QED
      BY <3>1, <3>2, <3>3, <3>4
  <2>2. CASE k \notin KeysOf(buckets)
    <3>1. PICK b \in BucketRecord : b = [key |-> k, units |-> Full("create"), last |-> clock]
      BY <1>0, <1>5, <1>6 DEF BucketRecord, Kinds
    <3>2. b = Balance(x.ip, "create")
      BY <1>5, <2>2, <3>1 DEF Balance
    <3>3. b.key = k /\ b.last = clock /\ b.units = Full("create")
      BY <3>1
    <3> QED
      BY <1>0, <1>6, <2>2, <3>2, <3>3
  <2> QED
    BY <2>1, <2>2
<1>8. PICK u \in Nat : u = Capped("create", b.units + Period("create"))
  <2>1. b.units \in Nat
    BY DEF BucketRecord
  <2> QED
    BY <1>6, <2>1 DEF Capped, LesserOf
<1>9. u <= Full("create") /\ u <= b.units + RoomPeriod /\ b.units \in Nat /\ b.last \in Nat
  <2>1. b.units \in Nat /\ b.last \in Nat
    BY DEF BucketRecord
  <2> QED
    BY <1>6, <1>8, <2>1 DEF Capped, LesserOf
<1>10. PICK e \in BucketRecord : e = [b EXCEPT !.units = u]
  BY DEF BucketRecord
<1>11. e.key = k /\ e.units = u /\ e.last = b.last
  BY <1>7, <1>10 DEF BucketRecord
<1>12. buckets' = Assign(buckets, e)
  <2>1. buckets' = Assign(buckets, [b EXCEPT !.units = Capped("create", @ + Period("create"))])
    BY <1>7 DEF Refund
  <2>2. [b EXCEPT !.units = Capped("create", @ + Period("create"))] = [b EXCEPT !.units = u]
    BY <1>8
  <2> QED
    BY <1>10, <2>1, <2>2
<1>13. /\ Table(buckets', BucketRecord) /\ EntriesOf(buckets') = Others(buckets, k) \cup {e}
       /\ Len(buckets') \in {Len(buckets), Len(buckets) + 1}
  BY <1>0, <1>11, <1>12, Lane_Assign
<1>14. KeysOf(buckets') = {f.key : f \in EntriesOf(buckets')}
  BY <1>13, Lane_Table
<1>15. KeysOf(buckets) = {f.key : f \in EntriesOf(buckets)}
  BY <1>0, Lane_Table
<1>16. BucketsFine'
  <2>1. \A f \in EntriesOf(buckets') : f.units <= Full(f.key[2]) /\ f.last <= clock'
    <3>1. e.units <= Full(e.key[2]) /\ e.last <= clock'
      BY <1>0, <1>5, <1>7, <1>9, <1>11
    <3> QED
      BY <1>0, <1>13, <3>1 DEF LaneInductive, BucketsFine, Others
  <2>2. Cardinality(Done) \in Nat /\ Cardinality(Done') = Cardinality(Done) + 1
    BY <1>0, Lane_GoesDone
  <2>3. Len(buckets) \in Nat /\ MaxBuckets \in Nat /\ Len(buckets) <= MaxBuckets + Cardinality(Done)
    BY <1>0, Lane_Table, Lane_Figures DEF LaneInductive, BucketsFine
  <2>4. Len(buckets') <= MaxBuckets + Cardinality(Done')
    BY <1>13, <2>2, <2>3
  <2> QED
    BY <1>13, <2>1, <2>4 DEF BucketsFine
<1>17. ASSUME NEW a \in Addresses, a # x.ip PROVE BudgetFine(a)'
  <2>1. Charged(a)' = Charged(a)
    BY <1>0, <1>17, Lane_GoesCharged
  <2>2. BudgetFine(a)
    BY DEF LaneInductive
  <2>3. <<a, "create">> # k
    BY <1>5, <1>17
  <2>4. \A f : f.key = <<a, "create">> => (f \in EntriesOf(buckets') <=> f \in EntriesOf(buckets))
    BY <1>11, <1>13, <2>3 DEF Others
  <2>5. <<a, "create">> \in KeysOf(buckets') <=> <<a, "create">> \in KeysOf(buckets)
    BY <1>14, <1>15, <2>4
  <2>6. CASE <<a, "create">> \in KeysOf(buckets)
    <3>1. a \notin forgotten' => \A f \in EntriesOf(buckets') : f.key = <<a, "create">> =>
             Paid(Cardinality(Charged(a)')) + f.units <= Full("create") + f.last
      BY <2>1, <2>2, <2>4, <2>6 DEF BudgetFine
    <3> QED
      BY <2>5, <2>6, <3>1 DEF BudgetFine
  <2>7. CASE <<a, "create">> \notin KeysOf(buckets)
    BY <2>1, <2>2, <2>5, <2>7 DEF BudgetFine
  <2> QED
    BY <2>6, <2>7
<1>18. ASSUME x.ip \notin forgotten' PROVE BudgetFine(x.ip)'
  <2>1. q \in Charged(x.ip) /\ Charged(x.ip)' = Charged(x.ip) \ {q}
    BY <1>0, Lane_GoesCharged
  <2>2. BudgetFine(x.ip) /\ x.ip \notin forgotten
    BY <1>0, <1>18 DEF LaneInductive
  <2>3. k \in KeysOf(buckets)
    BY <1>5, <2>1, <2>2 DEF BudgetFine
  <2>4. PICK n : n = Cardinality(Charged(x.ip))
    OBVIOUS
  <2>5. PICK m : m = Cardinality(Charged(x.ip)')
    OBVIOUS
  <2>6. Paid(n) + b.units <= Full("create") + b.last
    BY <1>5, <1>7, <2>2, <2>3, <2>4 DEF BudgetFine
  <2>7. n \in Nat /\ m = n - 1 /\ m \in Nat
    <3>1. IsFiniteSet(Charged(x.ip)) /\ n \in Nat
      BY <2>4, Lane_Sets
    <3>2. IsFiniteSet(Charged(x.ip) \ {q}) /\ Cardinality(Charged(x.ip) \ {q}) = n - 1
      BY <2>1, <2>4, <3>1, FS_RemoveElement
    <3>3. n - 1 \in Nat
      BY <3>2, FS_CardinalityType
    <3> QED
      BY <2>1, <2>5, <3>1, <3>2, <3>3
  <2>8. Paid(n) = Paid(m) + RoomPeriod /\ Paid(m) \in Nat
    <3>1. n = m + 1
      BY <2>7
    <3> QED
      BY <2>7, <3>1, Lane_Paid
  <2>9. Paid(m) + e.units <= Full("create") + e.last
    BY <1>6, <1>9, <1>11, <2>6, <2>8
  <2>10. \A f \in EntriesOf(buckets') : f.key = k => f = e
    BY <1>13 DEF Others
  <2>11. k \in KeysOf(buckets')
    BY <1>11, <1>13, <1>14
  <2>12. \A f \in EntriesOf(buckets') : f.key = <<x.ip, "create">> =>
             Paid(Cardinality(Charged(x.ip)')) + f.units <= Full("create") + f.last
    BY <1>5, <2>5, <2>9, <2>10
  <2> QED
    BY <1>5, <2>11, <2>12 DEF BudgetFine
<1>19. \A a \in Addresses : BudgetFine(a)'
  <2> TAKE a \in Addresses
  <2>1. CASE a # x.ip
    BY <1>17, <2>1
  <2>2. CASE a = x.ip /\ a \notin forgotten'
    BY <1>18, <2>2
  <2>3. CASE a \in forgotten'
    BY <2>3 DEF BudgetFine
  <2> QED
    BY <2>1, <2>2, <2>3
<1> QED
  BY <1>0, <1>1, <1>3, <1>4, <1>16, <1>19 DEF LaneInductive

LEMMA Lane_Settle ==
  ASSUME LaneInductive, NEW q \in Posters, Settle(q)
  PROVE  LaneInductive'
<1>1. PICK x \in PosterRecord : x = req[q] /\ PosterFine(x)
  BY Lane_Asks
<1>2. /\ x.pc = "settle"
      /\ IF x.charged /\ x.seq # 1 THEN Refund(x.ip, "create") ELSE buckets' = buckets
      /\ req' = [req EXCEPT ![q].pc = "done", ![q].charged = x.charged /\ x.seq = 1]
      /\ UNCHANGED <<clock, dupes, live, lastSeq, forgotten>>
  BY <1>1 DEF Settle, MadeRoom
<1>3. PICK y \in PosterRecord : y = [x EXCEPT !.pc = "done", !.charged = x.charged /\ x.seq = 1]
  <2>1. (x.charged /\ x.seq = 1) \in BOOLEAN
    OBVIOUS
  <2>2. PICK c \in BOOLEAN : c = (x.charged /\ x.seq = 1)
    BY <2>1
  <2>3. [x EXCEPT !.pc = "done", !.charged = c] \in PosterRecord
    BY DEF PosterRecord, Steps
  <2> QED
    BY <2>2, <2>3
<1>4. /\ y.pc = "done" /\ y.ip = x.ip /\ y.room = x.room /\ y.text = x.text
      /\ y.at = x.at /\ y.seq = x.seq /\ y.charged = (x.charged /\ x.seq = 1)
  BY <1>3 DEF PosterRecord
<1>5. Goes(q, x, y)
  BY <1>1, <1>2, <1>3, <1>4 DEF Goes, LaneInductive, PostersFine
<1>6. PosterFine(y) /\ (Holds(x) => Holds(y) /\ y.at = x.at)
  BY <1>1, <1>2, <1>4 DEF PosterFine, Holds
<1>7. CASE x.charged /\ x.seq # 1
  BY <1>2, <1>4, <1>5, <1>6, <1>7, Lane_Refunded
<1>8. CASE ~(x.charged /\ x.seq # 1)
  <2>1. buckets' = buckets
    BY <1>2, <1>8
  <2>2. y.charged = x.charged
    <3>1. x.charged \in BOOLEAN
      BY DEF PosterRecord
    <3> QED
      BY <1>4, <1>8, <3>1, Zenon
  <2> QED
    BY <1>2, <1>5, <1>6, <2>1, <2>2, Lane_Quiet
<1> QED
  BY <1>7, <1>8

---------------------------------------------------------------------------
LEMMA Lane_Init ==
  ASSUME LaneInit
  PROVE  LaneInductive
<1>1. /\ clock = 0 /\ buckets = <<>> /\ dupes = <<>> /\ live = {}
      /\ lastSeq = [r \in LaneRooms |-> 0] /\ forgotten = {}
  BY DEF LaneInit
<1>2. PICK asked \in [Posters -> Calls] :
          req = [q \in Posters |-> Fresh(asked[q][1], asked[q][2], asked[q][3])]
  BY DEF LaneInit
<1>3. ASSUME NEW q \in Posters PROVE req[q] \in PosterRecord /\ PosterFine(req[q]) /\ ~req[q].charged
  <2>1. asked[q] \in Addresses \X LaneRooms \X Texts
    BY LaneAssumption
  <2>2. PICK x : x = req[q]
    OBVIOUS
  <2>3. x = [pc |-> "new", ip |-> asked[q][1], room |-> asked[q][2], text |-> asked[q][3],
             charged |-> FALSE, at |-> NotSampled, seq |-> 0]
    BY <1>2, <2>2 DEF Fresh
  <2>4. x \in PosterRecord
    BY <2>1, <2>3 DEF PosterRecord, Steps
  <2>5. /\ x.pc = "new" /\ x.charged = FALSE /\ x.at = NotSampled /\ x.seq = 0
    BY <2>3
  <2>6. PosterFine(x) /\ ~x.charged
    BY <1>1, <2>5 DEF PosterFine, NotSampled
  <2> QED
    BY <2>2, <2>4, <2>6
<1>4. PostersFine
  <2>1. req = [q \in Posters |-> req[q]]
    BY <1>2
  <2> QED
    BY <1>3, <2>1 DEF PostersFine
<1>5. RoomsFine
  BY <1>1 DEF RoomsFine
<1>6. /\ <<>> \in Seq(BucketRecord) /\ <<>> \in Seq(DupeRecord) /\ Len(<<>>) = 0 /\ 1..0 = {}
  OBVIOUS
<1>7. EntriesOf(<<>>) = {} /\ Table(<<>>, BucketRecord) /\ Table(<<>>, DupeRecord)
  BY <1>6 DEF EntriesOf, Table, Unique
<1>8. BucketsFine
  <2>1. MaxBuckets \in Nat /\ Cardinality(Done) \in Nat
    BY Lane_Figures, Lane_Sets
  <2>2. 0 <= MaxBuckets + Cardinality(Done)
    BY <2>1
  <2> QED
    BY <1>1, <1>6, <1>7, <2>2 DEF BucketsFine
<1>9. DupesFine
  <2>1. 0 <= MaxDupeKeys
    BY Lane_Figures
  <2> QED
    BY <1>1, <1>6, <1>7, <2>1 DEF DupesFine
<1>10. ASSUME NEW a \in Addresses PROVE BudgetFine(a)
  <2>1. Charged(a) = {}
    BY <1>3 DEF Charged
  <2>2. <<a, "create">> \notin KeysOf(buckets)
    BY <1>1, <1>7, Lane_Table
  <2> QED
    BY <2>1, <2>2 DEF BudgetFine
<1> QED
  BY <1>1, <1>4, <1>5, <1>8, <1>9, <1>10, Lane_Figures DEF LaneInductive

LEMMA Lane_Next ==
  ASSUME LaneInductive, [LaneNext]_laneVars
  PROVE  LaneInductive'
<1>0. clock \in Nat /\ clock \in 0..MaxClock /\ MaxClock \in Nat
  BY Lane_Clock, Lane_Figures DEF LaneInductive
<1>1. ASSUME NEW q \in Posters, RequestStep(q) PROVE LaneInductive'
  <2>1. CASE TakeWrite(q)
    BY <2>1, Lane_TakeWrite
  <2>2. CASE DenyBody(q) \/ DenySignature(q) \/ DenyWriter(q) \/ BadField(q)
    BY <2>2, Lane_Denied DEF DenyBody, DenySignature, DenyWriter
  <2>3. CASE CheckExists(q)
    BY <2>3, Lane_CheckExists
  <2>4. CASE ChargeCreation(q)
    BY <2>4, Lane_ChargeCreation
  <2>5. CASE SampleClock(q)
    BY <2>5, Lane_SampleClock
  <2>6. CASE ExemptCopy(q)
    BY <2>6, Lane_ExemptCopy
  <2>7. CASE ReserveCopy(q)
    BY <2>7, Lane_ReserveCopy
  <2>8. CASE Land(q)
    BY <2>8, Lane_Land
  <2>9. CASE RefuseAppend(q)
    BY <2>9, Lane_RefuseAppend
  <2>10. CASE Settle(q)
    BY <2>10, Lane_Settle
  <2> QED
    BY <1>1, <2>1, <2>2, <2>3, <2>4, <2>5, <2>6, <2>7, <2>8, <2>9, <2>10 DEF RequestStep
<1>2. ASSUME NEW r \in LaneRooms, ReapRoom(r) PROVE LaneInductive'
  <2>1. clock' = clock /\ live' \subseteq live /\ UNCHANGED <<buckets, dupes, lastSeq, req, forgotten>>
    BY <1>2 DEF ReapRoom
  <2>2. clock' \in 0..MaxClock /\ clock <= clock'
    BY <1>0, <2>1
  <2> QED
    BY <2>1, <2>2, Lane_Still
<1>3. ASSUME Tick PROVE LaneInductive'
  <2>1. clock' = clock + 1 /\ clock < MaxClock /\ live' = live
        /\ UNCHANGED <<buckets, dupes, lastSeq, req, forgotten>>
    BY <1>3 DEF Tick
  <2>2. clock' \in 0..MaxClock /\ clock <= clock'
    BY <1>0, <2>1
  <2> QED
    BY <2>1, <2>2, Lane_Still
<1>4. ASSUME UNCHANGED laneVars PROVE LaneInductive'
  <2>1. clock' = clock /\ live' = live /\ UNCHANGED <<buckets, dupes, lastSeq, req, forgotten>>
    BY <1>4 DEF laneVars
  <2>2. clock' \in 0..MaxClock /\ clock <= clock'
    BY <1>0, <2>1
  <2> QED
    BY <2>1, <2>2, Lane_Still
<1> QED
  BY <1>1, <1>2, <1>3, <1>4 DEF LaneNext

LEMMA Lane_Inductive ==
  LaneSpec => []LaneInductive
<1>1. LaneInit => LaneInductive
  BY Lane_Init
<1>2. LaneInductive /\ [LaneNext]_laneVars => LaneInductive'
  BY Lane_Next
<1> QED
  BY <1>1, <1>2, PTL DEF LaneSpec

LEMMA Lane_Promises ==
  ASSUME LaneInductive
  PROVE  LaneInv
<1>0. clock \in Nat /\ PostersFine /\ RoomsFine /\ BucketsFine /\ DupesFine
      /\ Table(buckets, BucketRecord) /\ Table(dupes, DupeRecord)
  BY Lane_Clock DEF LaneInductive, BucketsFine, DupesFine
<1>1. /\ DOMAIN buckets = 1..Len(buckets) /\ EntriesOf(buckets) \subseteq BucketRecord
      /\ \A i \in DOMAIN buckets : buckets[i] \in EntriesOf(buckets)
      /\ Len(buckets) \in Nat
  BY <1>0, Lane_Table
<1>2. /\ DOMAIN dupes = 1..Len(dupes) /\ EntriesOf(dupes) \subseteq DupeRecord
      /\ \A i \in DOMAIN dupes : dupes[i] \in EntriesOf(dupes)
  BY <1>0, Lane_Table
<1>3. LaneTypeOK
  <2>1. ASSUME NEW i \in DOMAIN buckets
        PROVE  /\ buckets[i].key \in Addresses \X Kinds
               /\ buckets[i].units \in 0..Full(buckets[i].key[2]) /\ buckets[i].last \in 0..clock
    <3>1. PICK e \in BucketRecord : e = buckets[i] /\ e \in EntriesOf(buckets)
      BY <1>1
    <3>2. e.key \in Addresses \X Kinds /\ e.units \in Nat /\ e.last \in Nat
      BY DEF BucketRecord
    <3>3. e.units <= Full(e.key[2]) /\ e.last <= clock
      BY <1>0, <3>1 DEF BucketsFine
    <3>4. Full(e.key[2]) \in Nat
      BY <3>2, Lane_Figures
    <3>5. e.units \in 0..Full(e.key[2]) /\ e.last \in 0..clock
      BY <1>0, <3>2, <3>3, <3>4
    <3> QED
      BY <3>1, <3>2, <3>5
  <2>2. Len(buckets) <= MaxBuckets + Cardinality(Posters)
    BY <1>0, <1>1, Lane_Sets, Lane_Figures, FS_CardinalityType DEF BucketsFine
  <2>3. \A i \in DOMAIN dupes : /\ dupes[i].key \in LaneRooms \X LongTexts
                                /\ dupes[i].times \in Seq(0..clock)
                                /\ Len(dupes[i].times) \in 1..MaxCopies
    BY <1>0, <1>2 DEF DupesFine, CopiesFine, DupeRecord
  <2>4. /\ \A i, j \in DOMAIN buckets : buckets[i].key = buckets[j].key => i = j
        /\ \A i, j \in DOMAIN dupes : dupes[i].key = dupes[j].key => i = j
    BY <1>0, <1>1, <1>2 DEF Table, Unique
  <2> QED
    BY <1>0, <2>1, <2>2, <2>3, <2>4 DEF LaneTypeOK, LaneInductive, DupesFine, RoomsFine, PostersFine, PosterRecord
<1>4. CreatorPays
  BY <1>0 DEF CreatorPays, PostersFine, PosterFine
<1>5. RoomBudgetHolds
  <2> SUFFICES ASSUME NEW ip \in Addresses \ forgotten
               PROVE  Paid(Cardinality({q \in Posters : req[q].ip = ip /\ req[q].seq = 1}))
                         <= Full("create") + clock
    BY DEF RoomBudgetHolds, Paid
  <2>1. PICK M : M = {q \in Posters : req[q].ip = ip /\ req[q].seq = 1}
    OBVIOUS
  <2>2. M \subseteq Charged(ip)
    BY <1>4, <2>1 DEF CreatorPays, Charged
  <2>3. PICK n : n = Cardinality(Charged(ip))
    OBVIOUS
  <2>4. PICK m : m = Cardinality(M)
    OBVIOUS
  <2>5. m \in Nat /\ n \in Nat /\ m <= n
    BY <2>2, <2>3, <2>4, Lane_Sets, FS_Subset, FS_CardinalityType
  <2>6. Paid(m) <= Paid(n) /\ Paid(m) \in Nat /\ Paid(n) \in Nat
    BY <2>5, Lane_Paid
  <2>7. BudgetFine(ip) /\ Full("create") \in Nat
    BY Lane_Figures DEF LaneInductive, Kinds
  <2>8. Paid(n) <= Full("create") + clock
    <3>1. CASE <<ip, "create">> \in KeysOf(buckets)
      <4>1. PICK e \in EntriesOf(buckets) : e.key = <<ip, "create">>
        BY <1>0, <3>1, Lane_Entry
      <4>2. Paid(n) + e.units <= Full("create") + e.last
        BY <2>3, <2>7, <3>1, <4>1 DEF BudgetFine
      <4>3. e.units \in Nat /\ e.last \in Nat /\ e.last <= clock
        BY <1>0, <1>1 DEF BucketsFine, BucketRecord
      <4> QED
        BY <1>0, <2>6, <2>7, <4>2, <4>3
    <3>2. CASE <<ip, "create">> \notin KeysOf(buckets)
      <4>1. Charged(ip) = {}
        BY <2>7, <3>2 DEF BudgetFine
      <4>2. n = 0
        BY <2>3, <4>1, FS_EmptySet
      <4>3. Paid(n) = 0
        BY <4>2, Lane_Paid
      <4> QED
        BY <1>0, <2>7, <4>3
    <3> QED
      BY <3>1, <3>2
  <2>9. Paid(m) <= Full("create") + clock
    BY <1>0, <2>6, <2>7, <2>8
  <2> QED
    BY <2>1, <2>4, <2>9
<1>6. NoPhantomCopy
  <2> SUFFICES ASSUME NEW i \in DOMAIN dupes, NEW t \in 0..clock
               PROVE  Cardinality({j \in DOMAIN dupes[i].times : dupes[i].times[j] = t})
                        <= Cardinality({q \in Posters :
                              /\ (Landed(q) \/ InFlight(q)) /\ HasDupeKey(q)
                              /\ DupeKey(q) = dupes[i].key /\ req[q].at = t})
    BY DEF NoPhantomCopy
  <2>1. CopiesFine(dupes[i])
    BY <1>0, <1>2 DEF DupesFine
  <2>2. t \in Nat
    BY <1>0
  <2>3. Cardinality(Hits(dupes[i].times, t)) <= Cardinality(Copies(dupes[i].key, t))
    BY <2>1, <2>2 DEF CopiesFine
  <2>4. Copies(dupes[i].key, t) = {q \in Posters :
                              /\ (Landed(q) \/ InFlight(q)) /\ HasDupeKey(q)
                              /\ DupeKey(q) = dupes[i].key /\ req[q].at = t}
    BY DEF Copies, Holds, Landed, InFlight, HasDupeKey, DupeKey
  <2> QED
    BY <2>3, <2>4 DEF Hits
<1> QED
  BY <1>3, <1>4, <1>5, <1>6 DEF LaneInv

---------------------------------------------------------------------------
(* A refusal. *)

\* Every copy the ring counts was taken by a request of its own.
LEMMA Lane_Counted ==
  ASSUME LaneInductive, NEW k, NEW now \in Nat, NEW P, IsFiniteSet(P),
         \A t \in 0..clock : now - t <= Window => Copies(k, t) \subseteq P
  PROVE  Len(LiveTimes(k, now)) <= Cardinality(P)
<1>1. PICK L : L = LiveTimes(k, now)
  OBVIOUS
<1>2. /\ L \in Seq(0..clock) /\ Len(L) \in Nat
      /\ \A t \in Nat : Cardinality(Hits(L, t)) <= Cardinality(Copies(k, t))
      /\ \A j \in 1..Len(L) : now - L[j] <= Window
  BY <1>1, Lane_LiveTimes
<1>3. clock \in Nat
  BY Lane_Clock
<1>4. PICK D : D = {t \in 0..clock : now - t <= Window}
  OBVIOUS
<1>5. IsFiniteSet(D) /\ \A t \in D : t \in Nat
  <2>1. IsFiniteSet(0..clock) /\ D \subseteq 0..clock
    BY <1>3, <1>4, FS_Interval
  <2>2. IsFiniteSet(D)
    BY <2>1, FS_Subset
  <2>3. \A t \in D : t \in Nat
    BY <1>3, <2>1
  <2> QED
    BY <2>2, <2>3
<1>6. PICK M : M = [t \in D |-> Hits(L, t)]
  OBVIOUS
<1>7. PICK N : N = [t \in D |-> Copies(k, t)]
  OBVIOUS
<1>8. PICK f : f = [t \in D |-> Cardinality(Hits(L, t))]
  OBVIOUS
<1>9. PICK g : g = [t \in D |-> Cardinality(Copies(k, t))]
  OBVIOUS
<1>10. PICK h : h = [t \in D |-> g[t] - f[t]]
  OBVIOUS
<1>11. \A t \in D : /\ IsFiniteSet(M[t]) /\ f[t] = Cardinality(M[t]) /\ f[t] \in Nat
                    /\ IsFiniteSet(N[t]) /\ g[t] = Cardinality(N[t]) /\ g[t] \in Nat
                    /\ f[t] <= g[t]
  BY <1>2, <1>5, <1>6, <1>7, <1>8, <1>9, Lane_HitsFinite, Lane_Sets
<1>12. \A t, u \in D : t # u => M[t] \cap M[u] = {} /\ N[t] \cap N[u] = {}
  BY <1>6, <1>7 DEF Hits, Copies
<1>13. Cardinality(UnionOver(M, D)) = SumFunctionOnSet(f, D)
  BY <1>5, <1>11, <1>12, SizeOfUnion
<1>14. IsFiniteSet(UnionOver(N, D)) /\ Cardinality(UnionOver(N, D)) = SumFunctionOnSet(g, D)
  BY <1>5, <1>11, <1>12, SizeOfUnion
<1>15. SumFunctionOnSet(f, D) <= SumFunctionOnSet(g, D)
  <2>1. Summable(f, D) /\ (\A t \in D : h[t] \in Nat /\ h[t] \in Int /\ g[t] = f[t] + h[t])
    BY <1>5, <1>10, <1>11 DEF Summable
  <2>2. Summable(h, D)
    BY <1>5, <2>1 DEF Summable
  <2>3. SumFunctionOnSet(g, D) = SumFunctionOnSet(f, D) + SumFunctionOnSet(h, D)
    BY <2>1, <2>2, SumOfSums
  <2>4. SumFunctionOnSet(h, D) \in Nat /\ SumFunctionOnSet(f, D) \in Int
    BY <1>5, <2>1, SumNat, SumType
  <2> QED
    BY <2>3, <2>4
<1>16. UnionOver(M, D) = 1..Len(L)
  <2>1. DOMAIN L = 1..Len(L) /\ \A j \in 1..Len(L) : L[j] \in 0..clock
    BY <1>2, LenProperties, ElementOfSeq
  <2>2. \A t \in D : M[t] = {j \in 1..Len(L) : L[j] = t}
    BY <1>6, <2>1 DEF Hits
  <2>3. \A j \in 1..Len(L) : L[j] \in D
    BY <1>2, <1>4, <2>1
  <2>4. ASSUME NEW j \in 1..Len(L) PROVE j \in UnionOver(M, D)
    BY <2>2, <2>3 DEF UnionOver
  <2>5. ASSUME NEW j \in UnionOver(M, D) PROVE j \in 1..Len(L)
    BY <2>2 DEF UnionOver
  <2> QED
    BY <2>4, <2>5
<1>17. Cardinality(1..Len(L)) = Len(L)
  BY <1>2, Lane_HitsFinite
<1>18. UnionOver(N, D) \subseteq P
  BY <1>4, <1>7 DEF UnionOver
<1>19. Cardinality(UnionOver(N, D)) <= Cardinality(P) /\ Cardinality(P) \in Nat
       /\ Cardinality(UnionOver(N, D)) \in Nat
  BY <1>14, <1>18, FS_Subset, FS_CardinalityType
<1>20. Len(L) = SumFunctionOnSet(f, D)
  BY <1>13, <1>16, <1>17
<1> QED
  BY <1>1, <1>2, <1>14, <1>15, <1>19, <1>20

\* Who takes a request from the ring to the reply.
LEMMA Lane_Refusing ==
  ASSUME LaneInductive, [LaneNext]_laneVars, NEW q \in Posters,
         req[q].pc = "ring", req'[q].pc = "settle"
  PROVE  Refuses(DupeKey(q), req[q].at)
<1>0. req \in [Posters -> PosterRecord]
  BY DEF LaneInductive, PostersFine
<1>1. "ring" # "settle" /\ "ring" # "append"
  OBVIOUS
<1>2. req' # req
  BY <1>1
<1>3. PICK p \in Posters : RequestStep(p)
  BY <1>2 DEF LaneNext, laneVars, ReapRoom, Tick
<1>4. p = q
  <2> SUFFICES ASSUME p # q PROVE FALSE
    OBVIOUS
  <2>1. req'[q] = req[q]
    <3>1. CASE TakeWrite(p) \/ DenyBody(p) \/ DenySignature(p) \/ DenyWriter(p) \/ CheckExists(p)
               \/ BadField(p) \/ ExemptCopy(p)
      BY <1>0, <3>1 DEF TakeWrite, DenyBody, DenySignature, DenyWriter, Denied, CheckExists,
           BadField, ExemptCopy, Goto
    <3>2. CASE ChargeCreation(p) \/ SampleClock(p) \/ ReserveCopy(p)
      BY <1>0, <3>2 DEF ChargeCreation, SampleClock, ReserveCopy
    <3>3. CASE Land(p) \/ RefuseAppend(p) \/ Settle(p)
      BY <1>0, <3>3 DEF Land, RefuseAppend, Settle
    <3> QED
      BY <1>3, <3>1, <3>2, <3>3 DEF RequestStep
  <2> QED
    BY <1>1, <2>1
<1>5. ReserveCopy(q)
  BY <1>3, <1>4 DEF RequestStep, TakeWrite, DenyBody, DenySignature, DenyWriter, Denied, CheckExists,
       BadField, ExemptCopy, ChargeCreation, SampleClock, Land, RefuseAppend, Settle
<1> QED
  BY <1>0, <1>1, <1>5 DEF ReserveCopy

LEMMA Lane_Cause ==
  ASSUME LaneInductive, [LaneNext]_laneVars, NEW q \in Posters,
         req[q].pc = "ring", req'[q].pc = "settle"
  PROVE  Cardinality({p \in Posters \ {q} :
                 /\ Landed(p) \/ InFlight(p)
                 /\ DupeKey(p) = DupeKey(q)
                 /\ req[q].at - req[p].at <= Window}) >= MaxCopies
<1>1. PICK x \in PosterRecord : x = req[q] /\ PosterFine(x)
  BY Lane_Asks
<1>2. x.at \in Nat /\ ~Holds(x)
  BY <1>1 DEF PosterFine, PosterRecord, NotSampled, Holds
<1>3. PICK k : k = DupeKey(q)
  OBVIOUS
<1>4. PICK P : P = {p \in Posters \ {q} : /\ Landed(p) \/ InFlight(p)
                                          /\ DupeKey(p) = DupeKey(q)
                                          /\ req[q].at - req[p].at <= Window}
  OBVIOUS
<1>5. IsFiniteSet(P) /\ Cardinality(P) \in Nat
  BY <1>4, Lane_Figures, FS_Subset, FS_CardinalityType
<1>6. ASSUME NEW t \in 0..clock, x.at - t <= Window PROVE Copies(k, t) \subseteq P
  <2> SUFFICES ASSUME NEW p \in Copies(k, t) PROVE p \in P
    OBVIOUS
  <2>1. p \in Posters /\ Holds(req[p]) /\ req[p].at = t /\ DupeKey(p) = k
    BY DEF Copies, DupeKey
  <2>2. p # q
    BY <1>1, <1>2, <2>1
  <2> QED
    BY <1>1, <1>3, <1>4, <1>6, <2>1, <2>2 DEF Holds, Landed, InFlight
<1>7. Len(LiveTimes(k, x.at)) <= Cardinality(P)
  BY <1>2, <1>5, <1>6, Lane_Counted
<1>8. Len(LiveTimes(k, x.at)) >= MaxCopies
  BY <1>1, <1>3, Lane_Refusing DEF Refuses
<1>9. Len(LiveTimes(k, x.at)) \in Nat /\ MaxCopies \in Nat
  BY <1>2, Lane_LiveTimes, Lane_Figures
<1>10. Cardinality(P) >= MaxCopies
  BY <1>5, <1>7, <1>8, <1>9
<1> QED
  BY <1>4, <1>10

\* Tokens, budgets and copies follow what came of the requests, however their
\* steps interleave and whatever the reaper takes meanwhile.
THEOREM BudgetsAndCopiesHold == LaneSpec => []LaneInv
<1>1. LaneInductive => LaneInv
  BY Lane_Promises
<1> QED
  BY <1>1, Lane_Inductive, PTL

\* A request is told its text is a duplicate only when MaxCopies copies of it,
\* of other requests, landed or were about to within the window before it.
THEOREM RefusalsHaveCause == LaneSpec => RefusedForCause
<1>1. LaneInductive /\ [LaneNext]_laneVars =>
        [\A q \in Posters :
          (req[q].pc = "ring" /\ req'[q].pc = "settle") =>
             Cardinality({p \in Posters \ {q} :
                 /\ Landed(p) \/ InFlight(p)
                 /\ DupeKey(p) = DupeKey(q)
                 /\ req[q].at - req[p].at <= Window}) >= MaxCopies]_laneVars
  BY Lane_Cause
<1> QED
  BY <1>1, Lane_Inductive, PTL DEF LaneSpec, RefusedForCause
=============================================================================
