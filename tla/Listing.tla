------------------------------ MODULE Listing ------------------------------
(***************************************************************************)
(* GET /rooms and the view it caches.  The handler reads the structural    *)
(* counters as a stamp, looks its view up under the stamp and a time       *)
(* bucket, and walks the rooms on a miss.  Structural changes land on disk *)
(* and are counted later, if at all: Counters has the detail.  Workers     *)
(* are processes that share the disk alone.                                *)
(***************************************************************************)
EXTENDS Integers, FiniteSets

CONSTANTS
    ListWorkers,    \* worker processes
    Listers,        \* their handlers of GET /rooms
    ListerOf,       \* the process a handler runs in
    MaxViews,       \* MAX_ROOMS_CACHE
    StampMayFail,   \* .counters may be unreadable
    MaxRoomChanges, \* bound of the structural changes
    MaxBucket       \* bound of the time buckets

ASSUME ListingAssumption ==
    /\ ListerOf \in [Listers -> ListWorkers]
    /\ MaxViews \in Nat \ {0} /\ StampMayFail \in BOOLEAN
    /\ {MaxRoomChanges, MaxBucket} \subseteq Nat

VARIABLES
    onDisk,     \* how many structural changes are on disk
    stamped,    \* the changes that .counters counts
    ls,         \* the listers
    cache,      \* _rooms_walk's entries, by worker
    bucket,     \* int(monotonic() // ROOMS_CACHE_SECONDS)
    before      \* history: changes on disk when the bucket began

listVars == <<onDisk, stamped, ls, cache, bucket, before>>

Latest(S) == IF S = {} THEN 0 ELSE CHOOSE c \in S : \A d \in S : d <= c

ListerIdle == [pc |-> "idle", stamp |-> 0, bucket |-> 0, view |-> 0,
               sure |-> TRUE, floor |-> 0, since |-> 0]

\* A worker's cache keeps its bound, and a key has one entry.
ListingTypeOK ==
    /\ onDisk \in 0..MaxRoomChanges /\ stamped \subseteq 1..onDisk
    /\ ls \in [Listers -> [pc : {"idle", "lookup", "walk", "store", "reply"},
                           stamp : 0..MaxRoomChanges, bucket : 0..MaxBucket,
                           view : 0..MaxRoomChanges, sure : BOOLEAN,
                           floor : 0..MaxRoomChanges, since : 0..MaxRoomChanges]]
    /\ \A w \in ListWorkers :
          /\ Cardinality(cache[w]) <= MaxViews
          /\ \A e, f \in cache[w] :
                (e.stamp = f.stamp /\ e.bucket = f.bucket) => e = f
    /\ bucket \in 0..MaxBucket /\ before \in 0..onDisk

ListingInit ==
    /\ onDisk = 0 /\ stamped = {}
    /\ ls = [t \in Listers |-> ListerIdle]
    /\ cache = [w \in ListWorkers |-> {}]
    /\ bucket = 0 /\ before = 0

---------------------------------------------------------------------------
\* A room is created or reaped, or a topic written; its writer counts it
\* afterwards, never before, in any order and possibly not at all.
LandChange ==
    /\ onDisk < MaxRoomChanges
    /\ onDisk' = onDisk + 1
    /\ UNCHANGED <<stamped, ls, cache, bucket, before>>

CountChange ==
    /\ \E c \in (1..onDisk) \ stamped : stamped' = stamped \cup {c}
    /\ UNCHANGED <<onDisk, ls, cache, bucket, before>>

\* GET /rooms.

WritersUnchanged == UNCHANGED <<onDisk, stamped, before>>

\* _rooms_stamp; a file that cannot be read is a stamp of zeros here.
ReadStamp(t) ==
    /\ ls[t].pc = "idle"
    /\ \E sure \in {TRUE} \cup {~StampMayFail} :
          ls' = [ls EXCEPT ![t] = [ListerIdle EXCEPT !.pc = "lookup",
                    !.stamp = IF sure THEN Cardinality(stamped) ELSE 0,
                    !.sure = sure, !.floor = Latest(stamped)]]
    /\ UNCHANGED <<cache, bucket>>
    /\ WritersUnchanged

\* Bug: the time bucket alone is the key.
Hits_ByBucket(t) == {e \in cache[ListerOf[t]] : e.bucket = bucket}

\* _rooms_walk under its LRU: the stamp and the bucket are the key.
Hits(t) == {e \in cache[ListerOf[t]] : e.stamp = ls[t].stamp /\ e.bucket = bucket}

LookUp(t) ==
    /\ ls[t].pc = "lookup"
    /\ ls' = [ls EXCEPT ![t].pc = IF Hits(t) # {} THEN "reply" ELSE "walk",
                        ![t].bucket = bucket, ![t].since = before,
                        ![t].view = IF Hits(t) # {}
                                    THEN (CHOOSE e \in Hits(t) : TRUE).view ELSE 0]
    /\ UNCHANGED <<cache, bucket>>
    /\ WritersUnchanged

\* room_stats sees at least what is on disk when it starts.
WalkRooms(t) ==
    /\ ls[t].pc = "walk"
    /\ ls' = [ls EXCEPT ![t].pc = "store", ![t].view = onDisk]
    /\ UNCHANGED <<cache, bucket>>
    /\ WritersUnchanged

\* What stays beside a new entry: all, or all but one when the cache is full.
Kept(w) ==
    IF Cardinality(cache[w]) < MaxViews THEN {cache[w]}
    ELSE {kept \in SUBSET cache[w] : Cardinality(kept) = MaxViews - 1}

\* The view is stored under the key it was asked for; the first of two walks
\* under one key stays.
StoreView(t) ==
    LET w == ListerOf[t]
        e == [stamp |-> ls[t].stamp, bucket |-> ls[t].bucket, view |-> ls[t].view]
    IN  /\ ls[t].pc = "store"
        /\ IF \E f \in cache[w] : f.stamp = e.stamp /\ f.bucket = e.bucket
           THEN UNCHANGED cache
           ELSE \E kept \in Kept(w) : cache' = [cache EXCEPT ![w] = kept \cup {e}]
        /\ ls' = [ls EXCEPT ![t].pc = "reply"]
        /\ UNCHANGED bucket
        /\ WritersUnchanged

ReplyListing(t) ==
    /\ ls[t].pc = "reply"
    /\ ls' = [ls EXCEPT ![t] = ListerIdle]
    /\ UNCHANGED <<cache, bucket>>
    /\ WritersUnchanged

NextBucket ==
    /\ bucket < MaxBucket
    /\ bucket' = bucket + 1
    /\ before' = onDisk
    /\ UNCHANGED <<onDisk, stamped, ls, cache>>

ListerStep(t) == LookUp(t) \/ WalkRooms(t) \/ StoreView(t) \/ ReplyListing(t)

ListingNext ==
    \/ LandChange \/ CountChange \/ NextBucket
    \/ \E t \in Listers : ReadStamp(t) \/ ListerStep(t)

ListingSpec == ListingInit /\ [][ListingNext]_listVars

---------------------------------------------------------------------------
\* Properties.

\* A reply shows every structural change that .counters held when its stamp
\* was read, in whichever worker: neither a walk that began before the change
\* nor a cached view of one can answer for it (_rooms_stamp's argument).
FreshAfterCount ==
    \A t \in Listers :
       (ls[t].pc = "reply" /\ ls[t].sure) => ls[t].view >= ls[t].floor

\* Under a lying stamp the clock is the backstop: no reply shows less than
\* what was on disk when the time bucket of its look-up began.
WindowBounds ==
    \A t \in Listers : ls[t].pc = "reply" => ls[t].view >= ls[t].since

\* No listing is older than its stamp says, nor, under a lying stamp, than its
\* time bucket, in a cache that keeps its bound (`_rooms_view`).
ListingInv == ListingTypeOK /\ FreshAfterCount /\ WindowBounds
=============================================================================
