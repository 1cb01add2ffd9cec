---------------------------- MODULE ListingProofs ----------------------------
(***************************************************************************)
(* Proofs about GET /rooms, for any number of workers, handlers and cached *)
(* views: no listing is older than its stamp, nor than its time bucket; and *)
(* what it shows of notes is as new as their own stamps and clocks; and of  *)
(* the walk behind it, for any number of rooms and walks: no line is older  *)
(* than the stat that ranked it, and the figures are those of one pool.     *)
(***************************************************************************)
EXTENDS Listing, NoteCaches, Overview, FiniteSums, SequenceTheorems, FunctionTheorems

EntryRecord ==
    [stamp : 0..MaxRoomChanges, bucket : 0..MaxBucket, view : 0..MaxRoomChanges]

CacheShape ==
    /\ cache \in [ListWorkers -> SUBSET EntryRecord]
    /\ \A w \in ListWorkers : IsFiniteSet(cache[w])

\* A stamp is how many changes were counted, and counts only grow: as long as
\* it is the latest stamp, the changes it counts are those counted now.
FloorFine(t) ==
    /\ ls[t].stamp <= Cardinality(stamped)
    /\ ls[t].floor <= onDisk
    /\ ls[t].sure /\ ls[t].stamp = Cardinality(stamped) => ls[t].floor = Latest(stamped)
    /\ ls[t].stamp = 0 /\ ls[t].sure => ls[t].floor = 0
    /\ ~ls[t].sure => ls[t].stamp = 0
OneFloor ==
    \A t, u \in Listers : ls[t].sure /\ ls[u].sure /\ ls[t].stamp = ls[u].stamp
                             => ls[t].floor = ls[u].floor

\* A cached view shows what its stamp counts, to those that come with the same
\* stamp and to those that will.
EntryFine(e) ==
    /\ e.stamp <= Cardinality(stamped) /\ e.bucket <= bucket
    /\ e.stamp = Cardinality(stamped) => e.view >= Latest(stamped)
    /\ e.bucket = bucket => e.view >= before
    /\ \A t \in Listers : ls[t].sure /\ e.stamp = ls[t].stamp => e.view >= ls[t].floor

\* What a lister carries: the view shows the floor of its stamp and what its
\* bucket began with.
ViewFine(t) ==
    /\ ls[t].pc \in {"walk", "store", "reply"} =>
          /\ ls[t].bucket <= bucket /\ ls[t].since <= onDisk
          /\ ls[t].bucket = bucket => ls[t].since = before
    /\ ls[t].pc \in {"store", "reply"} =>
          /\ ls[t].view >= ls[t].since
          /\ ls[t].sure => ls[t].view >= ls[t].floor

FloorsFine == \A t \in Listers : FloorFine(t)
EntriesFine == \A w \in ListWorkers : \A e \in cache[w] : EntryFine(e)
ViewsFine == \A t \in Listers : ViewFine(t)

ListingInductive ==
    ListingTypeOK /\ CacheShape /\ FloorsFine /\ OneFloor /\ EntriesFine /\ ViewsFine

----------------------------------------------------------------------------
\* Sets of changes.

LEMMA Latest_Exists ==
  ASSUME NEW n \in Nat, NEW S \in SUBSET (1..n), S # {}
  PROVE  \E c \in S : \A d \in S : d <= c
<1> DEFINE T == {n - c : c \in S}
           R == OpToRel(<, Nat)
<1>1. T \subseteq Nat /\ T # {}
  <2>1. \A c \in 1..n : n - c \in Nat
    OBVIOUS
  <2>2. \A c \in S : n - c \in Nat
    BY <2>1
  <2>3. T \subseteq Nat
    BY <2>2
  <2> QED BY <2>3
<1>2. IsWellFoundedOn(R, Nat)
  BY NatLessThanWellFounded
<1> HIDE DEF R, T
<1>3. PICK m \in T : \A y \in T : ~ (<<y, m>> \in R)
  BY <1>1, <1>2, WFMin
<1>4. \A y \in T : ~ (y < m)
  BY <1>1, <1>3 DEF R, OpToRel
<1>5. PICK c \in S : m = n - c
  BY <1>3 DEF T
<1>6. ASSUME NEW d \in S PROVE d <= c
  <2>1. n - d \in T
    BY DEF T
  <2>2. ~ (n - d < n - c)
    BY <1>4, <1>5, <2>1
  <2> QED BY <2>2
<1> QED BY <1>5, <1>6

LEMMA Latest_In ==
  ASSUME NEW n \in Nat, NEW S \in SUBSET (1..n)
  PROVE  Latest(S) \in 0..n
<1>1. CASE S = {}
  BY <1>1 DEF Latest
<1>2. CASE S # {}
  <2>1. Latest(S) \in S
    BY <1>2, Latest_Exists DEF Latest
  <2>2. Latest(S) \in 1..n
    BY <2>1
  <2> QED BY <2>2
<1> QED BY <1>1, <1>2

LEMMA Stamp_Finite ==
  ASSUME NEW n \in Nat, NEW S \in SUBSET (1..n)
  PROVE  IsFiniteSet(S) /\ Cardinality(S) \in 0..n
<1>1. IsFiniteSet(1..n) /\ Cardinality(1..n) = n
  BY FS_Interval
<1>2. IsFiniteSet(S) /\ Cardinality(S) <= n
  BY <1>1, FS_Subset
<1> QED BY <1>2, FS_CardinalityType

----------------------------------------------------------------------------
LEMMA ListingInit_Inductive == ListingInit => ListingInductive
<1> SUFFICES ASSUME ListingInit PROVE ListingInductive
  OBVIOUS
<1> USE ListingAssumption DEF ListingInit
<1>1. Cardinality({}) = 0 /\ IsFiniteSet({}) /\ Latest({}) = 0
  BY FS_EmptySet DEF Latest
<1>2. ListingTypeOK
  BY <1>1 DEF ListingTypeOK, ListerIdle
<1>3. CacheShape
  BY <1>1 DEF CacheShape
<1>4. FloorsFine /\ OneFloor
  BY <1>1 DEF FloorsFine, FloorFine, OneFloor, ListerIdle
<1>5. EntriesFine /\ ViewsFine
  BY DEF EntriesFine, ViewsFine, ViewFine, ListerIdle
<1> QED BY <1>2, <1>3, <1>4, <1>5 DEF ListingInductive

\* The figures the steps below compare.
LEMMA Listing_Figures ==
  ASSUME ListingTypeOK, CacheShape
  PROVE  /\ MaxRoomChanges \in Nat /\ MaxBucket \in Nat /\ MaxViews \in Nat \ {0}
         /\ onDisk \in Nat /\ bucket \in Nat /\ before \in Nat /\ before <= onDisk
         /\ onDisk <= MaxRoomChanges /\ bucket <= MaxBucket
         /\ stamped \in SUBSET (1..onDisk) /\ IsFiniteSet(stamped)
         /\ Cardinality(stamped) \in 0..onDisk /\ Latest(stamped) \in 0..onDisk
         /\ \A t \in Listers : /\ ListerOf[t] \in ListWorkers
                               /\ ls[t].stamp \in Nat /\ ls[t].floor \in Nat
                               /\ ls[t].view \in Nat /\ ls[t].since \in Nat
                               /\ ls[t].bucket \in Nat
         /\ \A w \in ListWorkers : \A e \in cache[w] :
               e.stamp \in Nat /\ e.bucket \in Nat /\ e.view \in Nat
<1> USE ListingAssumption
<1>1. /\ MaxRoomChanges \in Nat /\ MaxBucket \in Nat /\ MaxViews \in Nat \ {0}
      /\ onDisk \in Nat /\ bucket \in Nat /\ before \in Nat /\ before <= onDisk
      /\ onDisk <= MaxRoomChanges /\ bucket <= MaxBucket
      /\ stamped \in SUBSET (1..onDisk)
  BY DEF ListingTypeOK
<1>2. /\ IsFiniteSet(stamped)
      /\ Cardinality(stamped) \in 0..onDisk /\ Latest(stamped) \in 0..onDisk
  BY <1>1, Stamp_Finite, Latest_In
<1>3. \A t \in Listers : /\ ListerOf[t] \in ListWorkers
                         /\ ls[t].stamp \in Nat /\ ls[t].floor \in Nat
                         /\ ls[t].view \in Nat /\ ls[t].since \in Nat
                         /\ ls[t].bucket \in Nat
  BY <1>1 DEF ListingTypeOK
<1>4. \A w \in ListWorkers : \A e \in cache[w] :
         e.stamp \in Nat /\ e.bucket \in Nat /\ e.view \in Nat
  <2>1. \A e \in EntryRecord : e.stamp \in Nat /\ e.bucket \in Nat /\ e.view \in Nat
    BY <1>1 DEF EntryRecord
  <2>2. \A w \in ListWorkers : cache[w] \subseteq EntryRecord
    BY DEF CacheShape
  <2> QED BY <2>1, <2>2
<1> QED BY <1>1, <1>2, <1>3, <1>4

LEMMA LandChange_Step ==
  ASSUME ListingInductive, LandChange
  PROVE  ListingInductive'
<1>1. /\ onDisk \in Nat /\ onDisk' = onDisk + 1 /\ onDisk' <= MaxRoomChanges /\ MaxRoomChanges \in Nat
      /\ before \in Nat /\ before <= onDisk
      /\ UNCHANGED <<stamped, ls, cache, bucket, before>>
  BY Listing_Figures DEF LandChange, ListingInductive
<1>2. ListingTypeOK'
  BY <1>1 DEF ListingInductive, ListingTypeOK
<1>3. CacheShape' /\ OneFloor'
  BY <1>1 DEF ListingInductive, CacheShape, OneFloor
<1>4. FloorsFine' /\ ViewsFine'
  <2>1. \A t \in Listers : ls[t].floor \in Nat /\ ls[t].since \in Nat
    BY Listing_Figures DEF ListingInductive
  <2> QED BY <1>1, <2>1 DEF ListingInductive, FloorsFine, FloorFine, ViewsFine, ViewFine
<1>5. EntriesFine'
  BY <1>1 DEF ListingInductive, EntriesFine, EntryFine
<1> QED BY <1>2, <1>3, <1>4, <1>5 DEF ListingInductive

\* One more change is counted: no stamp read so far is the latest one any more.
LEMMA CountChange_Step ==
  ASSUME ListingInductive, CountChange
  PROVE  ListingInductive'
<1>1. PICK c \in (1..onDisk) \ stamped : stamped' = stamped \cup {c}
  BY DEF CountChange
<1>2. UNCHANGED <<onDisk, ls, cache, bucket, before>>
  BY DEF CountChange
<1>3. Cardinality(stamped') = Cardinality(stamped) + 1 /\ Cardinality(stamped) \in Nat
  BY <1>1, Listing_Figures, FS_AddElement DEF ListingInductive
<1>4. ListingTypeOK'
  <2>1. stamped' \subseteq 1..onDisk
    BY <1>1 DEF ListingInductive, ListingTypeOK
  <2> QED BY <1>2, <2>1 DEF ListingInductive, ListingTypeOK
<1>5. CacheShape' /\ OneFloor' /\ ViewsFine'
  BY <1>2 DEF ListingInductive, CacheShape, OneFloor, ViewsFine, ViewFine
<1>6. FloorsFine'
  <2>1. \A t \in Listers : ls[t].stamp \in Nat
    BY Listing_Figures DEF ListingInductive
  <2> QED BY <1>2, <1>3, <2>1 DEF ListingInductive, FloorsFine, FloorFine
<1>7. EntriesFine'
  <2>1. \A w \in ListWorkers : \A e \in cache[w] : e.stamp \in Nat
    BY Listing_Figures DEF ListingInductive
  <2> QED BY <1>2, <1>3, <2>1 DEF ListingInductive, EntriesFine, EntryFine
<1> QED BY <1>4, <1>5, <1>6, <1>7 DEF ListingInductive

LEMMA NextBucket_Step ==
  ASSUME ListingInductive, NextBucket
  PROVE  ListingInductive'
<1>1. /\ onDisk \in Nat /\ bucket \in Nat /\ bucket' = bucket + 1 /\ before' = onDisk
      /\ bucket' <= MaxBucket /\ MaxBucket \in Nat
      /\ UNCHANGED <<onDisk, stamped, ls, cache>>
  BY Listing_Figures DEF NextBucket, ListingInductive
<1>2. ListingTypeOK'
  BY <1>1 DEF ListingInductive, ListingTypeOK
<1>3. CacheShape' /\ OneFloor' /\ FloorsFine'
  BY <1>1 DEF ListingInductive, CacheShape, OneFloor, FloorsFine, FloorFine
<1>4. ViewsFine'
  <2>1. \A t \in Listers : ls[t].bucket \in Nat
    BY Listing_Figures DEF ListingInductive
  <2> QED BY <1>1, <2>1 DEF ListingInductive, ViewsFine, ViewFine
<1>5. EntriesFine'
  <2>1. \A w \in ListWorkers : \A e \in cache[w] : e.bucket \in Nat
    BY Listing_Figures DEF ListingInductive
  <2> QED BY <1>1, <2>1 DEF ListingInductive, EntriesFine, EntryFine
<1> QED BY <1>2, <1>3, <1>4, <1>5 DEF ListingInductive

----------------------------------------------------------------------------
\* GET /rooms.

\* A lister's step that leaves the cache alone: what it carries afterwards is
\* all there is to look at.
LEMMA Lister_Moves ==
  ASSUME ListingInductive, NEW t \in Listers,
         UNCHANGED <<onDisk, stamped, cache, bucket, before>>,
         ListingTypeOK', \A u \in Listers \ {t} : ls'[u] = ls[u],
         FloorFine(t)', ViewFine(t)',
         \A u \in Listers \ {t} : ls'[t].sure /\ ls[u].sure /\ ls'[t].stamp = ls[u].stamp
                                     => ls'[t].floor = ls[u].floor,
         \A w \in ListWorkers : \A e \in cache[w] :
            ls'[t].sure /\ e.stamp = ls'[t].stamp => e.view >= ls'[t].floor
  PROVE  ListingInductive'
<1>1. CacheShape'
  BY DEF ListingInductive, CacheShape
<1>2. FloorsFine' /\ ViewsFine'
  BY DEF ListingInductive, FloorsFine, FloorFine, ViewsFine, ViewFine
<1>3. OneFloor'
  BY DEF ListingInductive, OneFloor
<1>4. EntriesFine'
  BY DEF ListingInductive, EntriesFine, EntryFine
<1> QED BY <1>1, <1>2, <1>3, <1>4 DEF ListingInductive

LEMMA ReadStamp_Step ==
  ASSUME ListingInductive, NEW t \in Listers, ReadStamp(t)
  PROVE  ListingInductive'
<1>0. ListingTypeOK /\ CacheShape /\ FloorsFine /\ EntriesFine
  BY DEF ListingInductive
<1>1. /\ onDisk \in Nat /\ onDisk <= MaxRoomChanges /\ MaxRoomChanges \in Nat /\ MaxBucket \in Nat
      /\ Cardinality(stamped) \in 0..onDisk /\ Latest(stamped) \in 0..onDisk /\ IsFiniteSet(stamped)
  BY <1>0, Listing_Figures
<1>2. UNCHANGED <<onDisk, stamped, cache, bucket, before>>
  BY DEF ReadStamp, WritersUnchanged
<1>3. PICK sure \in BOOLEAN :
         ls' = [ls EXCEPT ![t] = [ListerIdle EXCEPT !.pc = "lookup",
                  !.stamp = IF sure THEN Cardinality(stamped) ELSE 0,
                  !.sure = sure, !.floor = Latest(stamped)]]
  BY ListingAssumption DEF ReadStamp
<1> DEFINE stamp == IF sure THEN Cardinality(stamped) ELSE 0
           latest == Latest(stamped)
           x == [ListerIdle EXCEPT !.pc = "lookup", !.stamp = stamp, !.sure = sure, !.floor = latest]
<1>a. stamp \in 0..MaxRoomChanges /\ latest \in 0..MaxRoomChanges
  BY <1>1
<1>4. ls' = [ls EXCEPT ![t] = x]
  BY <1>3
<1> HIDE DEF stamp, latest
<1>b. /\ x \in [pc : {"idle", "lookup", "walk", "store", "reply"},
                stamp : 0..MaxRoomChanges, bucket : 0..MaxBucket,
                view : 0..MaxRoomChanges, sure : BOOLEAN,
                floor : 0..MaxRoomChanges, since : 0..MaxRoomChanges]
      /\ x.pc = "lookup" /\ x.sure = sure /\ x.floor = latest /\ x.stamp = stamp
  <2>0. ListerIdle \in [pc : {"idle", "lookup", "walk", "store", "reply"},
                stamp : 0..MaxRoomChanges, bucket : 0..MaxBucket,
                view : 0..MaxRoomChanges, sure : BOOLEAN,
                floor : 0..MaxRoomChanges, since : 0..MaxRoomChanges]
    BY <1>1 DEF ListerIdle
  <2>1. PICK y \in [pc : {"idle", "lookup", "walk", "store", "reply"},
                stamp : 0..MaxRoomChanges, bucket : 0..MaxBucket,
                view : 0..MaxRoomChanges, sure : BOOLEAN,
                floor : 0..MaxRoomChanges, since : 0..MaxRoomChanges] : y = ListerIdle
    BY <2>0
  <2>2. x = [y EXCEPT !.pc = "lookup", !.stamp = stamp, !.sure = sure, !.floor = latest]
    BY <2>1
  <2> QED BY ONLY <1>a, <2>2
<1> HIDE DEF x
<1>5. ls'[t] = x /\ \A u \in Listers \ {t} : ls'[u] = ls[u]
  BY <1>0, <1>4 DEF ListingTypeOK
<1>6. /\ ls'[t].pc = "lookup" /\ ls'[t].sure = sure /\ ls'[t].floor = Latest(stamped)
      /\ ls'[t].stamp = IF sure THEN Cardinality(stamped) ELSE 0
  BY <1>b, <1>5 DEF stamp, latest
<1>7. ListingTypeOK'
  BY <1>0, <1>2, <1>4, <1>b DEF ListingTypeOK
<1>8. stamped = {} <=> Cardinality(stamped) = 0
  BY <1>1, FS_EmptySet
<1>9. Latest({}) = 0
  BY DEF Latest
<1>10. FloorFine(t)'
  BY <1>1, <1>2, <1>6, <1>8, <1>9 DEF FloorFine
<1>11. ViewFine(t)'
  BY <1>6 DEF ViewFine
<1>12. \A u \in Listers \ {t} : ls'[t].sure /\ ls[u].sure /\ ls'[t].stamp = ls[u].stamp
                                   => ls'[t].floor = ls[u].floor
  BY <1>0, <1>6 DEF FloorsFine, FloorFine
<1>13. \A w \in ListWorkers : \A e \in cache[w] :
          ls'[t].sure /\ e.stamp = ls'[t].stamp => e.view >= ls'[t].floor
  BY <1>0, <1>6 DEF EntriesFine, EntryFine
<1> QED BY <1>2, <1>5, <1>7, <1>10, <1>11, <1>12, <1>13, Lister_Moves

\* A step after the stamp: it stays, with what it was the stamp of.
LEMMA Lister_Steps ==
  ASSUME ListingInductive, NEW t \in Listers,
         UNCHANGED <<onDisk, stamped, cache, bucket, before>>,
         ListingTypeOK', \A u \in Listers \ {t} : ls'[u] = ls[u],
         ls'[t].stamp = ls[t].stamp, ls'[t].sure = ls[t].sure, ls'[t].floor = ls[t].floor,
         ViewFine(t)'
  PROVE  ListingInductive'
<1>1. FloorFine(t)'
  BY DEF ListingInductive, FloorsFine, FloorFine
<1>2. \A u \in Listers \ {t} : ls'[t].sure /\ ls[u].sure /\ ls'[t].stamp = ls[u].stamp
                                   => ls'[t].floor = ls[u].floor
  BY DEF ListingInductive, OneFloor
<1>3. \A w \in ListWorkers : \A e \in cache[w] :
         ls'[t].sure /\ e.stamp = ls'[t].stamp => e.view >= ls'[t].floor
  BY DEF ListingInductive, EntriesFine, EntryFine
<1> QED BY <1>1, <1>2, <1>3, Lister_Moves

LEMMA LookUp_Step ==
  ASSUME ListingInductive, NEW t \in Listers, LookUp(t)
  PROVE  ListingInductive'
<1>0. ListingTypeOK /\ CacheShape /\ EntriesFine /\ ListerOf[t] \in ListWorkers
  BY Listing_Figures DEF ListingInductive
<1>1. /\ bucket \in 0..MaxBucket /\ before \in 0..MaxRoomChanges /\ before <= onDisk
      /\ onDisk \in Nat /\ bucket \in Nat /\ before \in Nat
  BY <1>0, Listing_Figures
<1>2. UNCHANGED <<onDisk, stamped, cache, bucket, before>>
  BY DEF LookUp, WritersUnchanged
<1>3. PICK pc \in {"reply", "walk"}, found \in 0..MaxRoomChanges :
         /\ ls' = [ls EXCEPT ![t].pc = pc, ![t].bucket = bucket, ![t].since = before, ![t].view = found]
         /\ pc = "reply" => found >= before /\ (ls[t].sure => found >= ls[t].floor)
  <2>1. CASE Hits(t) = {}
    <3>1. ls' = [ls EXCEPT ![t].pc = "walk", ![t].bucket = bucket, ![t].since = before, ![t].view = 0]
      BY <2>1 DEF LookUp
    <3>2. 0 \in 0..MaxRoomChanges
      BY ListingAssumption
    <3> QED BY <3>1, <3>2
  <2>2. CASE Hits(t) # {}
    <3>1. PICK e \in Hits(t) : e = CHOOSE f \in Hits(t) : TRUE
      BY <2>2
    <3>2. e \in cache[ListerOf[t]] /\ e.stamp = ls[t].stamp /\ e.bucket = bucket
      BY <3>1 DEF Hits
    <3>3. e.view \in 0..MaxRoomChanges
      BY <1>0, <3>2 DEF CacheShape, EntryRecord
    <3>4. e.view >= before /\ (ls[t].sure => e.view >= ls[t].floor)
      BY <1>0, <3>2 DEF EntriesFine, EntryFine
    <3>5. ls' = [ls EXCEPT ![t].pc = "reply", ![t].bucket = bucket, ![t].since = before,
                           ![t].view = e.view]
      BY <2>2, <3>1 DEF LookUp
    <3> QED BY <3>3, <3>4, <3>5
  <2> QED BY <2>1, <2>2
<1> DEFINE x == [ls[t] EXCEPT !.pc = pc, !.bucket = bucket, !.since = before, !.view = found]
<1>a. ls' = [ls EXCEPT ![t] = x]
  BY <1>0, <1>3 DEF ListingTypeOK
<1>b. /\ x \in [pc : {"idle", "lookup", "walk", "store", "reply"},
                stamp : 0..MaxRoomChanges, bucket : 0..MaxBucket,
                view : 0..MaxRoomChanges, sure : BOOLEAN,
                floor : 0..MaxRoomChanges, since : 0..MaxRoomChanges]
      /\ x.pc = pc /\ x.bucket = bucket /\ x.since = before /\ x.view = found
      /\ x.stamp = ls[t].stamp /\ x.sure = ls[t].sure /\ x.floor = ls[t].floor
  BY <1>0, <1>1 DEF ListingTypeOK
<1> HIDE DEF x
<1>4. /\ ls'[t].pc = pc /\ ls'[t].bucket = bucket /\ ls'[t].since = before /\ ls'[t].view = found
      /\ ls'[t].stamp = ls[t].stamp /\ ls'[t].sure = ls[t].sure /\ ls'[t].floor = ls[t].floor
      /\ \A u \in Listers \ {t} : ls'[u] = ls[u]
  BY <1>0, <1>a, <1>b DEF ListingTypeOK
<1>5. ListingTypeOK'
  BY <1>0, <1>2, <1>a, <1>b DEF ListingTypeOK
<1>6. ViewFine(t)'
  BY <1>1, <1>2, <1>3, <1>4 DEF ViewFine
<1> QED BY <1>2, <1>4, <1>5, <1>6, Lister_Steps

LEMMA WalkRooms_Step ==
  ASSUME ListingInductive, NEW t \in Listers, WalkRooms(t)
  PROVE  ListingInductive'
<1>0. ListingTypeOK /\ FloorFine(t) /\ ViewFine(t) /\ onDisk \in 0..MaxRoomChanges
  BY DEF ListingInductive, FloorsFine, ViewsFine, ListingTypeOK
<1>1. UNCHANGED <<onDisk, stamped, cache, bucket, before>> /\ ls[t].pc = "walk"
  BY DEF WalkRooms, WritersUnchanged
<1>2. ls' = [ls EXCEPT ![t].pc = "store", ![t].view = onDisk]
  BY DEF WalkRooms
<1>3. /\ ls'[t].pc = "store" /\ ls'[t].bucket = ls[t].bucket /\ ls'[t].since = ls[t].since
      /\ ls'[t].view = onDisk
      /\ ls'[t].stamp = ls[t].stamp /\ ls'[t].sure = ls[t].sure /\ ls'[t].floor = ls[t].floor
      /\ \A u \in Listers \ {t} : ls'[u] = ls[u]
  BY <1>0, <1>2 DEF ListingTypeOK
<1>4. ListingTypeOK'
  <2>1. ls' \in [Listers -> [pc : {"idle", "lookup", "walk", "store", "reply"},
                           stamp : 0..MaxRoomChanges, bucket : 0..MaxBucket,
                           view : 0..MaxRoomChanges, sure : BOOLEAN,
                           floor : 0..MaxRoomChanges, since : 0..MaxRoomChanges]]
    BY <1>0, <1>2 DEF ListingTypeOK
  <2> QED BY <1>0, <1>1, <2>1 DEF ListingTypeOK
<1>5. ViewFine(t)'
  <2>1. onDisk \in Nat /\ ls[t].since \in Nat /\ ls[t].floor \in Nat
    BY Listing_Figures DEF ListingInductive
  <2> QED BY <1>0, <1>1, <1>3, <2>1 DEF ViewFine, FloorFine
<1> QED BY <1>1, <1>3, <1>4, <1>5, Lister_Steps

LEMMA ReplyListing_Step ==
  ASSUME ListingInductive, NEW t \in Listers, ReplyListing(t)
  PROVE  ListingInductive'
<1>0. ListingTypeOK /\ CacheShape /\ FloorsFine /\ EntriesFine
  BY DEF ListingInductive
<1>1. /\ onDisk \in Nat /\ MaxRoomChanges \in Nat /\ MaxBucket \in Nat
      /\ Cardinality(stamped) \in 0..onDisk /\ IsFiniteSet(stamped)
  BY <1>0, Listing_Figures
<1>2. UNCHANGED <<onDisk, stamped, cache, bucket, before>>
  BY DEF ReplyListing, WritersUnchanged
<1>3. ls' = [ls EXCEPT ![t] = ListerIdle]
  BY DEF ReplyListing
<1>4. /\ ls'[t].pc = "idle" /\ ls'[t].sure = TRUE /\ ls'[t].floor = 0 /\ ls'[t].stamp = 0
      /\ \A u \in Listers \ {t} : ls'[u] = ls[u]
  BY <1>0, <1>3 DEF ListingTypeOK, ListerIdle
<1>5. ListingTypeOK'
  <2>1. ListerIdle \in [pc : {"idle", "lookup", "walk", "store", "reply"},
                stamp : 0..MaxRoomChanges, bucket : 0..MaxBucket,
                view : 0..MaxRoomChanges, sure : BOOLEAN,
                floor : 0..MaxRoomChanges, since : 0..MaxRoomChanges]
    BY <1>1 DEF ListerIdle
  <2> QED BY <1>0, <1>2, <1>3, <2>1 DEF ListingTypeOK
<1>6. stamped = {} <=> Cardinality(stamped) = 0
  BY <1>1, FS_EmptySet
<1>7. Latest({}) = 0
  BY DEF Latest
<1>8. FloorFine(t)' /\ ViewFine(t)'
  BY <1>1, <1>2, <1>4, <1>6, <1>7 DEF FloorFine, ViewFine
<1>9. \A u \in Listers \ {t} : ls'[t].sure /\ ls[u].sure /\ ls'[t].stamp = ls[u].stamp
                                   => ls'[t].floor = ls[u].floor
  BY <1>0, <1>4 DEF FloorsFine, FloorFine
<1>10. \A w \in ListWorkers : \A e \in cache[w] :
          ls'[t].sure /\ e.stamp = ls'[t].stamp => e.view >= ls'[t].floor
  <2>1. \A w \in ListWorkers : \A e \in cache[w] : e.view \in Nat
    BY <1>0, Listing_Figures
  <2> QED BY <1>4, <2>1
<1> QED BY <1>2, <1>4, <1>5, <1>8, <1>9, <1>10, Lister_Moves

\* The new entry: what its lister carries.  It meets its stamp's floor whoever
\* comes with that stamp, since all of them have the same.
LEMMA StoreView_Entry ==
  ASSUME ListingInductive, NEW t \in Listers, ls[t].pc = "store",
         NEW e \in EntryRecord,
         e.stamp = ls[t].stamp, e.bucket = ls[t].bucket, e.view = ls[t].view
  PROVE  EntryFine(e)
<1>0. ListingTypeOK /\ CacheShape /\ FloorFine(t) /\ ViewFine(t) /\ FloorsFine /\ OneFloor
  BY DEF ListingInductive, FloorsFine, ViewsFine
<1>1. /\ onDisk \in Nat /\ Cardinality(stamped) \in 0..onDisk /\ Latest(stamped) \in 0..onDisk
      /\ IsFiniteSet(stamped)
      /\ e.stamp \in Nat /\ e.view \in Nat /\ ls[t].floor \in Nat /\ ls[t].sure \in BOOLEAN
  <2>1. /\ onDisk \in Nat /\ Cardinality(stamped) \in 0..onDisk /\ Latest(stamped) \in 0..onDisk
        /\ IsFiniteSet(stamped) /\ ls[t].stamp \in Nat /\ ls[t].view \in Nat /\ ls[t].floor \in Nat
    BY <1>0, Listing_Figures
  <2>2. ls[t].sure \in BOOLEAN
    BY <1>0 DEF ListingTypeOK
  <2> QED BY <2>1, <2>2
<1>2. stamped = {} <=> Cardinality(stamped) = 0
  BY <1>1, FS_EmptySet
<1>3. Latest({}) = 0
  BY DEF Latest
<1>4. e.stamp <= Cardinality(stamped) /\ e.bucket <= bucket
  BY <1>0 DEF FloorFine, ViewFine
<1>5. e.stamp = Cardinality(stamped) => e.view >= Latest(stamped)
  <2>1. CASE ls[t].sure
    BY <1>0, <2>1 DEF FloorFine, ViewFine
  <2>2. CASE ~ls[t].sure
    BY <1>0, <1>1, <1>2, <1>3, <2>2 DEF FloorFine
  <2> QED BY <2>1, <2>2
<1>6. e.bucket = bucket => e.view >= before
  BY <1>0 DEF ViewFine
<1>7. ASSUME NEW u \in Listers, ls[u].sure, e.stamp = ls[u].stamp
      PROVE  e.view >= ls[u].floor
  <2>1. CASE ls[t].sure
    <3>1. ls[t].floor = ls[u].floor
      BY <1>0, <1>7, <2>1 DEF OneFloor
    <3> QED BY <1>0, <2>1, <3>1 DEF ViewFine
  <2>2. CASE ~ls[t].sure
    <3>1. ls[u].floor = 0
      BY <1>0, <1>7, <2>2 DEF FloorsFine, FloorFine
    <3> QED BY <1>1, <3>1
  <2> QED BY <2>1, <2>2
<1> QED BY <1>4, <1>5, <1>6, <1>7 DEF EntryFine

\* The cache keeps its bound: it drops an entry before it takes one more.
LEMMA StoreView_Cache ==
  ASSUME ListingInductive, NEW w \in ListWorkers, NEW e \in EntryRecord,
         \A f \in cache[w] : ~(f.stamp = e.stamp /\ f.bucket = e.bucket),
         NEW rest \in Kept(w), cache' = [cache EXCEPT ![w] = rest \cup {e}]
  PROVE  /\ CacheShape'
         /\ \A v \in ListWorkers :
               /\ Cardinality(cache'[v]) <= MaxViews
               /\ \A f, g \in cache'[v] : (f.stamp = g.stamp /\ f.bucket = g.bucket) => f = g
               /\ \A f \in cache'[v] : f \in cache[v] \/ f = e
<1>0. ListingTypeOK /\ CacheShape /\ MaxViews \in Nat \ {0} /\ MaxViews \in Nat
  BY ListingAssumption DEF ListingInductive
<1>1. IsFiniteSet(cache[w]) /\ cache[w] \subseteq EntryRecord
  BY <1>0 DEF CacheShape
<1>2. rest \subseteq cache[w]
  BY DEF Kept
<1>3. IsFiniteSet(rest) /\ Cardinality(rest) \in Nat
  BY <1>1, <1>2, FS_Subset, FS_CardinalityType
<1>4. Cardinality(rest) < MaxViews
  BY <1>0, <1>3 DEF Kept
<1>5. IsFiniteSet(rest \cup {e}) /\ Cardinality(rest \cup {e}) <= MaxViews
  <2>1. /\ IsFiniteSet(rest \cup {e})
        /\ Cardinality(rest \cup {e}) = IF e \in rest THEN Cardinality(rest) ELSE Cardinality(rest) + 1
    BY <1>3, FS_AddElement
  <2> QED BY <1>0, <1>3, <1>4, <2>1
<1>6. rest \cup {e} \in SUBSET EntryRecord
  BY <1>1, <1>2
<1>7. \A v \in ListWorkers : cache'[v] = IF v = w THEN rest \cup {e} ELSE cache[v]
  BY <1>0 DEF CacheShape
<1>8. CacheShape'
  <2>1. cache' \in [ListWorkers -> SUBSET EntryRecord]
    BY <1>0, <1>6 DEF CacheShape
  <2>2. \A v \in ListWorkers : IsFiniteSet(cache'[v])
    BY <1>0, <1>5, <1>7 DEF CacheShape
  <2> QED BY <2>1, <2>2 DEF CacheShape
<1>9. \A v \in ListWorkers : Cardinality(cache'[v]) <= MaxViews
  BY <1>0, <1>5, <1>7 DEF ListingTypeOK
<1>10. \A v \in ListWorkers : \A f \in cache'[v] : f \in cache[v] \/ f = e
  BY <1>2, <1>7
<1>11. \A v \in ListWorkers : \A f, g \in cache'[v] : (f.stamp = g.stamp /\ f.bucket = g.bucket) => f = g
  <2> SUFFICES ASSUME NEW v \in ListWorkers, NEW f \in cache'[v], NEW g \in cache'[v],
                      f.stamp = g.stamp, f.bucket = g.bucket
               PROVE  f = g
    OBVIOUS
  <2>1. \A h, i \in cache[v] : (h.stamp = i.stamp /\ h.bucket = i.bucket) => h = i
    BY <1>0 DEF ListingTypeOK
  <2>2. CASE v = w
    <3>1. (f \in cache[w] \/ f = e) /\ (g \in cache[w] \/ g = e)
      BY <1>10, <2>2
    <3> QED BY <2>1, <2>2, <3>1
  <2>3. CASE v # w
    BY <1>7, <2>1, <2>3
  <2> QED BY <2>2, <2>3
<1> QED BY <1>8, <1>9, <1>10, <1>11

LEMMA StoreView_Step ==
  ASSUME ListingInductive, NEW t \in Listers, StoreView(t)
  PROVE  ListingInductive'
<1> DEFINE w == ListerOf[t]
           e == [stamp |-> ls[t].stamp, bucket |-> ls[t].bucket, view |-> ls[t].view]
<1>0. ListingTypeOK /\ CacheShape /\ w \in ListWorkers
  BY Listing_Figures DEF ListingInductive
<1>1. /\ ls[t].pc = "store" /\ UNCHANGED <<onDisk, stamped, bucket, before>>
      /\ ls' = [ls EXCEPT ![t].pc = "reply"]
  BY DEF StoreView, WritersUnchanged
<1>2. /\ ls' \in [Listers -> [pc : {"idle", "lookup", "walk", "store", "reply"},
                           stamp : 0..MaxRoomChanges, bucket : 0..MaxBucket,
                           view : 0..MaxRoomChanges, sure : BOOLEAN,
                           floor : 0..MaxRoomChanges, since : 0..MaxRoomChanges]]
      /\ \A u \in Listers : /\ ls'[u].stamp = ls[u].stamp /\ ls'[u].sure = ls[u].sure
                            /\ ls'[u].floor = ls[u].floor /\ ls'[u].view = ls[u].view
                            /\ ls'[u].bucket = ls[u].bucket /\ ls'[u].since = ls[u].since
                            /\ ls'[u].pc = IF u = t THEN "reply" ELSE ls[u].pc
  BY <1>0, <1>1 DEF ListingTypeOK
<1>3. FloorsFine' /\ OneFloor'
  BY <1>1, <1>2 DEF ListingInductive, FloorsFine, FloorFine, OneFloor
<1>4. ViewsFine'
  BY <1>1, <1>2 DEF ListingInductive, ViewsFine, ViewFine
<1>5. PICK x \in EntryRecord : /\ x = e /\ x.stamp = ls[t].stamp /\ x.bucket = ls[t].bucket
                              /\ x.view = ls[t].view
  <2>1. /\ ls[t].stamp \in 0..MaxRoomChanges /\ ls[t].bucket \in 0..MaxBucket
        /\ ls[t].view \in 0..MaxRoomChanges
    BY <1>0 DEF ListingTypeOK
  <2>2. e \in EntryRecord /\ e.stamp = ls[t].stamp /\ e.bucket = ls[t].bucket /\ e.view = ls[t].view
    BY <2>1 DEF EntryRecord
  <2> QED BY <2>2
<1>6. EntryFine(x)
  BY <1>1, <1>5, StoreView_Entry
<1>7. ASSUME NEW f, EntryFine(f) PROVE EntryFine(f)'
  BY <1>1, <1>2, <1>7 DEF EntryFine
<1>8. CASE UNCHANGED cache
  <2>1. ListingTypeOK' /\ CacheShape'
    BY <1>0, <1>1, <1>2, <1>8 DEF ListingTypeOK, CacheShape
  <2>2. EntriesFine'
    BY <1>7, <1>8 DEF ListingInductive, EntriesFine
  <2> QED BY <1>3, <1>4, <2>1, <2>2 DEF ListingInductive
<1>9. ASSUME \A f \in cache[w] : ~(f.stamp = x.stamp /\ f.bucket = x.bucket),
             NEW rest \in Kept(w), cache' = [cache EXCEPT ![w] = rest \cup {x}]
      PROVE  ListingInductive'
  <2>1. /\ CacheShape'
        /\ \A v \in ListWorkers :
              /\ Cardinality(cache'[v]) <= MaxViews
              /\ \A f, g \in cache'[v] : (f.stamp = g.stamp /\ f.bucket = g.bucket) => f = g
              /\ \A f \in cache'[v] : f \in cache[v] \/ f = x
    BY <1>0, <1>9, StoreView_Cache
  <2>2. ListingTypeOK'
    BY <1>0, <1>1, <1>2, <2>1 DEF ListingTypeOK
  <2>3. EntriesFine'
    BY <1>6, <1>7, <2>1 DEF ListingInductive, EntriesFine
  <2> QED BY <1>3, <1>4, <2>1, <2>2, <2>3 DEF ListingInductive
<1> QED BY <1>5, <1>8, <1>9 DEF StoreView

LEMMA ListingInductive_Holds == ListingSpec => []ListingInductive
<1>1. ListingInductive /\ [ListingNext]_listVars => ListingInductive'
  <2>1. ListingInductive /\ UNCHANGED listVars => ListingInductive'
    BY DEF listVars, ListingInductive, ListingTypeOK, CacheShape, FloorsFine, FloorFine, OneFloor,
           EntriesFine, EntryFine, ViewsFine, ViewFine
  <2> QED
    BY <2>1, LandChange_Step, CountChange_Step, NextBucket_Step, ReadStamp_Step, LookUp_Step,
       WalkRooms_Step, StoreView_Step, ReplyListing_Step DEF ListingNext, ListerStep
<1> QED BY <1>1, ListingInit_Inductive, PTL DEF ListingSpec

----------------------------------------------------------------------------
\* Whatever the workers cache and in whatever order their walks end: a listing
\* shows every change its stamp counts, and what was on disk when its bucket
\* began (`_rooms_stamp`, `_rooms_walk`).
THEOREM ListingsAreFresh == ListingSpec => []ListingInv
<1>1. ListingInductive => ListingInv
  BY DEF ListingInductive, ListingInv, ViewsFine, ViewFine, FreshAfterCount, WindowBounds
<1> QED BY <1>1, ListingInductive_Holds, PTL
----------------------------------------------------------------------------
(***************************************************************************)
(* The caches under the listing's: a topic, or the note gauge.             *)
(***************************************************************************)

Setter == [pc : {"idle", "put", "bump"}, change : Nat]
AskerRecord ==
    [pc : {"idle", "stamp", "find", "keep", "list", "reply"},
     list : Nat, stamp : Nat, sure : BOOLEAN, bucket : Nat, at : Nat,
     shown : Nat, owed : Nat, least : Nat]
NoteEntry == [stamp : Nat, at : Nat, shown : Nat]
ListingEntry == [stamp : Nat, bucket : Nat, shown : Nat, sure : BOOLEAN]

NoteTypes ==
    /\ shows \in {"topic", "gauge"} /\ disk \in Nat /\ bumped \in Nat /\ known \in Nat
    /\ setter \in [NoteSetters -> Setter]
    /\ clock \in 0..MaxClock
    /\ began \in [0..MaxClock -> Nat]
    /\ kept \subseteq NoteEntry /\ listings \subseteq ListingEntry
    /\ asker \in [Askers -> AskerRecord]

\* A change is on disk before it is counted, and no tick began with more than
\* the next one.
DiskLeads ==
    /\ known <= disk /\ (bumped = 0 => known = 0)
    /\ \A n \in NoteSetters : setter[n].change <= disk
    /\ \A s, t \in 0..clock : s <= t => began[s] <= began[t]
    /\ began[clock] <= disk

\* The stamp whose changes an answer owes, and the steps at which a cached entry
\* may still become that answer.
Base(x) == IF shows = "topic" THEN x.list ELSE x.stamp
Looks(x) == x.pc \in {"stamp", "find", "keep"}

\* An answer shows what its stamp counts: a count that is still the latest one
\* owes what is known now.
Owes(x) ==
    /\ x.list <= bumped /\ x.stamp <= bumped /\ x.owed <= known
    /\ x.pc = "stamp" => x.sure
    /\ ~x.sure => x.owed = 0
    /\ Looks(x) /\ Base(x) = 0 => x.owed = 0
    /\ x.pc \in {"find", "keep"} /\ x.sure /\ shows = "topic" => x.stamp >= x.list
    /\ (Looks(x) \/ x.pc = "list") /\ shows = "topic" /\ x.sure /\ x.list = bumped => x.owed = known
    /\ x.pc = "keep" /\ x.stamp = bumped => x.shown >= known
    /\ x.pc \in {"keep", "list", "reply"} => x.shown >= x.owed

\* What carries this stamp will do for an answer of that one or an earlier one.
Serves(stamp, shown, y) == Looks(y) /\ stamp >= Base(y) => shown >= y.owed

EntryCounts(e) ==
    /\ e.stamp <= bumped
    /\ e.stamp = bumped => e.shown >= known
    /\ \A h \in Askers : Serves(e.stamp, e.shown, asker[h])

ListingCounts(l) ==
    l.stamp <= bumped /\ (shows = "topic" /\ l.sure /\ l.stamp = bumped => l.shown >= known)

CountsFine ==
    /\ \A h \in Askers : Owes(asker[h])
    /\ \A e \in kept : EntryCounts(e)
    /\ \A l \in listings : ListingCounts(l)
    /\ \A g, h \in Askers :
          asker[g].pc = "keep" => Serves(asker[g].stamp, asker[g].shown, asker[h])

\* What the notes' own window allows at t, and a listing of this bucket.
WindowFrom(t) == began[Later(0, t + 1 - NoteTicks)]
OfBucket(slot) == WindowFrom(slot * ListTicks)

Ages(x) ==
    /\ x.pc = "stamp" => x.bucket * ListTicks <= clock /\ x.least <= WindowFrom(clock)
    /\ x.pc \in {"find", "keep"} =>
          /\ x.at <= clock /\ x.bucket * ListTicks <= x.at /\ x.least <= WindowFrom(x.at)
    /\ x.pc = "keep" => x.shown >= began[x.at]
    /\ x.pc = "list" => x.bucket * ListTicks <= clock /\ x.shown >= OfBucket(x.bucket)
    /\ x.pc \in {"list", "reply"} => x.shown >= x.least

WindowsFine ==
    /\ \A h \in Askers : Ages(asker[h])
    /\ \A e \in kept : e.at <= clock /\ e.shown >= began[e.at]
    /\ \A l \in listings : l.bucket * ListTicks <= clock /\ l.shown >= OfBucket(l.bucket)

NoteInductive == NoteTypes /\ DiskLeads /\ CountsFine /\ WindowsFine

----------------------------------------------------------------------------
LEMMA Ticks_Fine ==
  /\ ListTicks \in Nat \ {0} /\ NoteTicks \in Nat \ {0} /\ MaxClock \in Nat
  /\ FirstClock \in 0..MaxClock
BY NoteCachesAssumption

LEMMA Later_Fine ==
  ASSUME NEW i \in Int, NEW j \in Int
  PROVE  Later(i, j) \in {i, j} /\ Later(i, j) >= i /\ Later(i, j) >= j
BY DEF Later

\* The window moves forward with the clock.
LEMMA Window_Fine ==
  ASSUME NoteTypes, DiskLeads, NEW t \in 0..clock
  PROVE  /\ Later(0, t + 1 - NoteTicks) \in 0..t
         /\ WindowFrom(t) \in Nat /\ WindowFrom(t) <= began[t] /\ began[t] <= disk
         /\ \A s \in 0..t : WindowFrom(s) <= WindowFrom(t)
         /\ \A s \in 0..clock : s >= t + 1 - NoteTicks => WindowFrom(t) <= began[s]
<1>0. clock \in 0..MaxClock /\ clock \in Nat /\ began \in [0..MaxClock -> Nat] /\ t \in Nat
  BY DEF NoteTypes
<1>1. ASSUME NEW s \in 0..clock PROVE Later(0, s + 1 - NoteTicks) \in 0..s
  BY <1>0, Ticks_Fine DEF Later
<1>2. \A r, s \in 0..clock : r <= s => began[r] <= began[s]
  BY DEF DiskLeads
<1>3. WindowFrom(t) \in Nat /\ WindowFrom(t) <= began[t] /\ began[t] <= disk
  <2>1. Later(0, t + 1 - NoteTicks) \in 0..MaxClock
    BY <1>0, Ticks_Fine DEF Later
  <2>2. began[t] <= began[clock]
    BY <1>0, <1>2
  <2>3. began[t] \in Nat /\ began[clock] \in Nat /\ disk \in Nat
    BY <1>0, Ticks_Fine DEF NoteTypes
  <2>4. WindowFrom(t) <= began[t]
    BY <1>0, <1>1, <1>2 DEF WindowFrom
  <2> QED BY <1>0, <2>1, <2>2, <2>3, <2>4 DEF WindowFrom, DiskLeads
<1>4. ASSUME NEW s \in 0..t PROVE WindowFrom(s) <= WindowFrom(t)
  <2>1. Later(0, s + 1 - NoteTicks) <= Later(0, t + 1 - NoteTicks)
    BY <1>0, Ticks_Fine DEF Later
  <2>2. s \in 0..clock
    BY <1>0
  <2>3. Later(0, s + 1 - NoteTicks) \in 0..clock /\ Later(0, t + 1 - NoteTicks) \in 0..clock
    BY <1>0, <1>1, <2>2
  <2> QED BY <1>2, <2>1, <2>3 DEF WindowFrom
<1>5. ASSUME NEW s \in 0..clock, s >= t + 1 - NoteTicks PROVE WindowFrom(t) <= began[s]
  <2>1. Later(0, t + 1 - NoteTicks) <= s
    BY <1>0, <1>5, Ticks_Fine DEF Later
  <2>2. Later(0, t + 1 - NoteTicks) \in 0..clock
    BY <1>0, <1>1
  <2> QED BY <1>2, <2>1, <2>2 DEF WindowFrom
<1> QED BY <1>1, <1>3, <1>4, <1>5

LEMMA NoteStarts == NoteCachesInit => NoteInductive
<1> SUFFICES ASSUME NoteCachesInit PROVE NoteInductive
  OBVIOUS
<1>0. clock \in 0..MaxClock /\ clock \in Nat
  BY Ticks_Fine DEF NoteCachesInit
<1>i. AskerIdle \in AskerRecord /\ AskerIdle.pc = "idle" /\ AskerIdle.list = 0 /\ AskerIdle.stamp = 0
      /\ AskerIdle.owed = 0 /\ AskerIdle.sure
  BY DEF AskerIdle, AskerRecord
<1>1. NoteTypes
  BY <1>0, <1>i DEF NoteCachesInit, NoteTypes, SetterIdle, Setter
<1>2. DiskLeads
  <2>1. /\ known = 0 /\ disk = 0 /\ \A n \in NoteSetters : setter[n].change = 0
        /\ \A t \in 0..clock : began[t] = 0
    BY <1>0, Ticks_Fine DEF NoteCachesInit, SetterIdle
  <2> QED BY <1>0, <2>1 DEF DiskLeads
<1>3. CountsFine
  BY <1>i DEF NoteCachesInit, CountsFine, Owes, Base, Looks, Serves
<1>4. WindowsFine
  BY <1>i DEF NoteCachesInit, WindowsFine, Ages
<1> QED BY <1>1, <1>2, <1>3, <1>4 DEF NoteInductive

\* A writer's step before the bump, or the reaper's.
LEMMA Disk_Moves ==
  ASSUME NoteInductive, disk' \in Nat, disk' >= disk, UNCHANGED <<shows, bumped, known, noteCaches>>,
         setter' \in [NoteSetters -> Setter],
         \A n \in NoteSetters : setter'[n].change <= disk'
  PROVE  NoteInductive'
<1>0. UNCHANGED <<shows, bumped, known, clock, began, kept, listings, asker>>
  BY DEF noteCaches
<1>1. NoteTypes'
  BY <1>0 DEF NoteInductive, NoteTypes
<1>2. DiskLeads'
  <2>1. known \in Nat /\ disk \in Nat /\ began[clock] \in Nat
    BY DEF NoteInductive, NoteTypes
  <2> QED BY <1>0, <2>1 DEF NoteInductive, DiskLeads
<1>3. CountsFine'
  BY <1>0 DEF NoteInductive, CountsFine, Owes, Base, Looks, Serves, EntryCounts, ListingCounts
<1>4. WindowsFine'
  BY <1>0 DEF NoteInductive, WindowsFine, Ages, WindowFrom, OfBucket
<1> QED BY <1>1, <1>2, <1>3, <1>4 DEF NoteInductive

LEMMA Setter_Step ==
  ASSUME NoteInductive, NEW n \in NoteSetters, ReserveNote(n) \/ PutNote(n) \/ DropNote(n)
  PROVE  NoteInductive'
<1>0. /\ disk \in Nat /\ setter \in [NoteSetters -> Setter]
      /\ \A m \in NoteSetters : setter[m].change \in Nat /\ setter[m].change <= disk
  BY DEF NoteInductive, NoteTypes, DiskLeads, Setter
<1>1. UNCHANGED <<shows, bumped, known, noteCaches>> /\ disk' \in {disk, disk + 1}
  BY DEF ReserveNote, PutNote, DropNote
<1>2. \E w \in Setter : setter' = [setter EXCEPT ![n] = w] /\ w.change <= disk'
  <2>1. ASSUME NEW pc \in {"idle", "put", "bump"}, NEW change \in Nat, change <= disk',
               setter' = [setter EXCEPT ![n] = [pc |-> pc, change |-> change]]
        PROVE  \E w \in Setter : setter' = [setter EXCEPT ![n] = w] /\ w.change <= disk'
    <3>1. [pc |-> pc, change |-> change] \in Setter /\ [pc |-> pc, change |-> change].change = change
      BY DEF Setter
    <3> QED BY <2>1, <3>1
  <2>2. CASE ReserveNote(n)
    <3> DEFINE change == IF disk' = disk THEN 0 ELSE disk'
    <3>1. change \in Nat /\ change <= disk'
      BY <1>0, <1>1
    <3>2. setter' = [setter EXCEPT ![n] = [pc |-> "put", change |-> change]]
      BY ONLY <2>2 DEF ReserveNote
    <3> HIDE DEF change
    <3> QED BY <2>1, <3>1, <3>2
  <2>3. CASE PutNote(n)
    <3>1. PICK r \in Setter : r = setter[n]
      BY <1>0
    <3>2. PICK change \in Nat : change = IF disk' = disk THEN r.change ELSE disk'
      BY <1>0, <1>1, <3>1 DEF Setter
    <3> DEFINE w == [r EXCEPT !.pc = "bump", !.change = change]
    <3>3. w \in Setter /\ w.change = change
      BY <3>1 DEF Setter
    <3>4. setter' = [setter EXCEPT ![n] = w]
      BY <2>3, <3>1, <3>2 DEF PutNote
    <3>5. change <= disk'
      BY <1>0, <1>1, <3>1, <3>2
    <3> QED BY <3>3, <3>4, <3>5
  <2>4. CASE DropNote(n)
    <3>1. setter' = [setter EXCEPT ![n] = [pc |-> "idle", change |-> 0]] /\ 0 <= disk'
      BY <1>0, <1>1, <2>4 DEF DropNote, SetterIdle
    <3> QED BY <2>1, <3>1
  <2> QED BY <2>2, <2>3, <2>4
<1>3. setter' \in [NoteSetters -> Setter]
  BY <1>0, <1>2
<1>4. \A m \in NoteSetters : setter'[m].change <= disk'
  BY <1>0, <1>1, <1>2
<1> QED BY <1>0, <1>1, <1>3, <1>4, Disk_Moves

LEMMA ReapNote_Step ==
  ASSUME NoteInductive, ReapNote
  PROVE  NoteInductive'
<1>1. disk \in Nat /\ disk' = disk + 1 /\ UNCHANGED <<shows, bumped, known, setter, noteCaches>>
  BY DEF NoteInductive, NoteTypes, ReapNote
<1>2. \A n \in NoteSetters : setter[n].change \in Nat /\ setter[n].change <= disk
  BY DEF NoteInductive, NoteTypes, DiskLeads, Setter
<1>3. setter' \in [NoteSetters -> Setter]
  BY <1>1 DEF NoteInductive, NoteTypes
<1> QED BY <1>1, <1>2, <1>3, Disk_Moves

\* A bump is a stamp nobody has yet.
LEMMA BumpNotes_Step ==
  ASSUME NoteInductive, NEW n \in NoteSetters, BumpNotes(n)
  PROVE  NoteInductive'
<1>0. /\ bumped \in Nat /\ known \in Nat /\ disk \in Nat /\ setter[n].change \in Nat
      /\ setter[n].change <= disk /\ known <= disk
  BY DEF NoteInductive, NoteTypes, DiskLeads, Setter
<1>1. /\ bumped' = bumped + 1 /\ known' \in Nat /\ known' >= known /\ known' <= disk
      /\ UNCHANGED <<shows, disk, clock, began, kept, listings, asker>>
      /\ setter' = [setter EXCEPT ![n] = SetterIdle]
  BY <1>0, Later_Fine DEF BumpNotes, noteCaches
<1>2. NoteTypes'
  BY <1>0, <1>1 DEF NoteInductive, NoteTypes, SetterIdle, Setter
<1>3. DiskLeads'
  <2>1. \A m \in NoteSetters : setter'[m].change <= disk
    BY <1>0, <1>1 DEF NoteInductive, NoteTypes, DiskLeads, SetterIdle, Setter
  <2> QED BY <1>0, <1>1, <2>1 DEF NoteInductive, DiskLeads
<1>4. CountsFine'
  <2>1. ASSUME NEW h \in Askers PROVE Owes(asker[h])'
    <3>1. /\ Owes(asker[h]) /\ asker[h].list \in Nat /\ asker[h].stamp \in Nat /\ asker[h].owed \in Nat
      BY DEF NoteInductive, NoteTypes, CountsFine, AskerRecord
    <3> QED BY <1>0, <1>1, <3>1 DEF Owes, Base, Looks
  <2>2. ASSUME NEW e \in kept PROVE EntryCounts(e)'
    <3>1. EntryCounts(e) /\ e.stamp \in Nat
      BY DEF NoteInductive, NoteTypes, CountsFine, NoteEntry
    <3> QED BY <1>0, <1>1, <3>1 DEF EntryCounts, Serves, Base, Looks
  <2>3. ASSUME NEW l \in listings PROVE ListingCounts(l)'
    <3>1. ListingCounts(l) /\ l.stamp \in Nat
      BY DEF NoteInductive, NoteTypes, CountsFine, ListingEntry
    <3> QED BY <1>0, <1>1, <3>1 DEF ListingCounts
  <2>4. \A g, h \in Askers : asker[g].pc = "keep" => Serves(asker[g].stamp, asker[g].shown, asker[h])'
    BY <1>1 DEF NoteInductive, CountsFine, Serves, Base, Looks
  <2> QED BY <1>1, <2>1, <2>2, <2>3, <2>4 DEF CountsFine
<1>5. WindowsFine'
  BY <1>1 DEF NoteInductive, WindowsFine, Ages, WindowFrom, OfBucket
<1> QED BY <1>2, <1>3, <1>4, <1>5 DEF NoteInductive

\* A tick begins with what is on disk.
LEMMA TickNotes_Step ==
  ASSUME NoteInductive, TickNotes
  PROVE  NoteInductive'
<1>0. /\ clock \in 0..MaxClock /\ clock \in Nat /\ MaxClock \in Nat /\ clock < MaxClock
      /\ began \in [0..MaxClock -> Nat] /\ disk \in Nat /\ NoteTicks \in Nat \ {0} /\ ListTicks \in Nat \ {0}
      /\ \A s, t \in 0..clock : s <= t => began[s] <= began[t]
      /\ \A s \in 0..clock : began[s] <= disk
  <2>1. NoteTypes /\ DiskLeads /\ clock < MaxClock
    BY DEF NoteInductive, TickNotes
  <2>2. clock \in Nat
    BY <2>1, Ticks_Fine DEF NoteTypes
  <2>3. \A s \in 0..clock : began[s] <= disk
    BY <2>1, Window_Fine
  <2> QED BY <2>1, <2>2, <2>3, Ticks_Fine DEF NoteTypes, DiskLeads
<1>1. /\ clock' = clock + 1 /\ clock + 1 \in 0..MaxClock
      /\ began' = [began EXCEPT ![clock + 1] = disk]
      /\ listings' \subseteq listings
      /\ UNCHANGED <<shows, disk, bumped, known, setter, kept, asker>>
  BY <1>0 DEF TickNotes, noteDisk
<1>2. /\ \A s \in 0..clock : began'[s] = began[s]
      /\ began'[clock + 1] = disk /\ began' \in [0..MaxClock -> Nat]
  BY <1>0, <1>1
<1>3. NoteTypes'
  BY <1>1, <1>2 DEF NoteInductive, NoteTypes
<1>4. DiskLeads'
  <2>1. ASSUME NEW s \in 0..clock', NEW t \in 0..clock', s <= t PROVE began'[s] <= began'[t]
    <3>1. CASE t \in 0..clock
      <4>1. s \in 0..clock
        BY <1>0, <1>1, <2>1, <3>1
      <4> QED BY <1>0, <1>2, <2>1, <3>1, <4>1
    <3>2. CASE t = clock + 1
      <4>1. CASE s \in 0..clock
        BY <1>0, <1>2, <3>2, <4>1
      <4>2. CASE s = clock + 1
        BY <1>0, <1>2, <3>2, <4>2
      <4> QED BY <1>0, <1>1, <4>1, <4>2
    <3> QED BY <1>0, <1>1, <3>1, <3>2
  <2>2. began'[clock'] <= disk'
    BY <1>0, <1>1, <1>2
  <2> QED BY <1>1, <2>1, <2>2 DEF NoteInductive, DiskLeads
<1>5. CountsFine'
  BY <1>1 DEF NoteInductive, CountsFine, Owes, Looks, Base, EntryCounts, ListingCounts, Serves
<1>6. ASSUME NEW t \in 0..clock
      PROVE  /\ WindowFrom(t)' = WindowFrom(t) /\ WindowFrom(t) \in Nat /\ WindowFrom(t) <= WindowFrom(clock)
             /\ WindowFrom(clock) \in Nat
  <2>1. Later(0, t + 1 - NoteTicks) \in 0..t
    BY <1>0 DEF Later
  <2>2. Later(0, t + 1 - NoteTicks) \in 0..clock
    BY <1>0, <2>1
  <2>3. clock \in 0..clock
    BY <1>0
  <2> QED BY <1>2, <2>2, <2>3, Window_Fine DEF WindowFrom, NoteInductive
<1>7. ASSUME NEW b \in Nat, b * ListTicks <= clock
      PROVE  OfBucket(b)' = OfBucket(b)
  <2>1. b * ListTicks \in Nat
    BY <1>0
  <2>2. b * ListTicks \in 0..clock
    BY <1>0, <1>7, <2>1
  <2> QED BY <1>6, <2>2 DEF OfBucket
<1>8. WindowFrom(clock) <= WindowFrom(clock)' /\ WindowFrom(clock)' \in Nat
  <2>1. /\ Later(0, clock' + 1 - NoteTicks) \in 0..(clock + 1)
        /\ Later(0, clock + 1 - NoteTicks) \in 0..clock
        /\ Later(0, clock + 1 - NoteTicks) <= Later(0, clock' + 1 - NoteTicks)
    BY <1>0, <1>1 DEF Later
  <2> DEFINE j == Later(0, clock' + 1 - NoteTicks)
             i == Later(0, clock + 1 - NoteTicks)
  <2>2. /\ WindowFrom(clock)' = began'[j] /\ WindowFrom(clock) = began[i]
    BY DEF WindowFrom
  <2> HIDE DEF i, j
  <2>3. i \in 0..clock /\ j \in 0..clock' /\ i <= j /\ i \in 0..clock'
    BY <1>0, <1>1, <2>1 DEF i, j
  <2>4. began'[i] <= began'[j] /\ began'[i] = began[i]
    BY <1>2, <1>4, <2>3 DEF DiskLeads
  <2>5. began'[j] \in Nat
    BY <1>0, <1>1, <1>2, <2>3
  <2> QED BY <2>2, <2>4, <2>5
<1>9. WindowsFine'
  <2>1. ASSUME NEW h \in Askers PROVE Ages(asker[h])'
    <3>1. PICK x \in AskerRecord : x = asker[h] /\ x = asker'[h]
      BY <1>1 DEF NoteInductive, NoteTypes
    <3>2. x.bucket \in Nat /\ x.at \in Nat /\ x.least \in Nat /\ x.shown \in Nat /\ Ages(x)
      BY <3>1 DEF AskerRecord, NoteInductive, WindowsFine
    <3>3. x.bucket * ListTicks \in Nat
      BY <1>0, <3>2
    <3>4. x.pc = "stamp" => x.bucket * ListTicks <= clock' /\ x.least <= WindowFrom(clock)'
      <4>1. clock \in 0..clock
        BY <1>0
      <4>2. WindowFrom(clock) \in Nat
        BY <1>6, <4>1
      <4>3. x.pc = "stamp" => x.bucket * ListTicks <= clock /\ x.least <= WindowFrom(clock)
        BY <3>2 DEF Ages
      <4>4. x.pc = "stamp" => x.bucket * ListTicks <= clock'
        BY <1>0, <1>1, <3>3, <4>3
      <4>5. x.pc = "stamp" => x.least <= WindowFrom(clock)'
        BY <1>8, <3>2, <4>2, <4>3
      <4> QED BY <4>4, <4>5
    <3>5. x.pc \in {"find", "keep"} =>
            x.at <= clock' /\ x.bucket * ListTicks <= x.at /\ x.least <= WindowFrom(x.at)'
      BY <1>0, <1>1, <1>6, <3>2 DEF Ages
    <3>6. x.pc = "keep" => x.shown >= began'[x.at]
      BY <1>0, <1>2, <3>2 DEF Ages
    <3>7. x.pc = "list" => x.bucket * ListTicks <= clock' /\ x.shown >= OfBucket(x.bucket)'
      BY <1>0, <1>1, <1>7, <3>2, <3>3 DEF Ages
    <3>8. x.pc \in {"list", "reply"} => x.shown >= x.least
      BY <3>2 DEF Ages
    <3>9. Ages(x)'
      BY <3>4, <3>5, <3>6, <3>7, <3>8 DEF Ages
    <3> QED BY <3>1, <3>9 DEF Ages
  <2>2. ASSUME NEW e \in kept PROVE e.at <= clock' /\ e.shown >= began'[e.at]
    <3>1. e.at \in Nat /\ e.at <= clock /\ e.shown >= began[e.at]
      BY DEF NoteInductive, NoteTypes, NoteEntry, WindowsFine
    <3> QED BY <1>0, <1>1, <1>2, <3>1
  <2>3. ASSUME NEW l \in listings PROVE l.bucket * ListTicks <= clock' /\ l.shown >= OfBucket(l.bucket)'
    <3>1. l.bucket \in Nat /\ l.bucket * ListTicks <= clock /\ l.shown >= OfBucket(l.bucket)
      BY DEF NoteInductive, NoteTypes, ListingEntry, WindowsFine
    <3>2. l.bucket * ListTicks \in Nat
      BY <1>0, <3>1
    <3> QED BY <1>0, <1>1, <1>7, <3>1, <3>2
  <2> QED BY <1>1, <2>1, <2>2, <2>3 DEF WindowsFine
<1> QED BY <1>3, <1>4, <1>5, <1>9 DEF NoteInductive

EntryAge(e) == e.at <= clock /\ e.shown >= began[e.at]
ListingAge(l) == l.bucket * ListTicks <= clock /\ l.shown >= OfBucket(l.bucket)

\* A handler's step: what must hold of the handler, and of what the caches hold now.
LEMMA Asker_Moves ==
  ASSUME NoteInductive, NEW h \in Askers, NEW x \in AskerRecord,
         asker' = [asker EXCEPT ![h] = x], UNCHANGED <<noteDisk, clock, began>>,
         kept' \subseteq NoteEntry, listings' \subseteq ListingEntry,
         Owes(x), Ages(x),
         \A e \in kept' : EntryCounts(e) /\ Serves(e.stamp, e.shown, x) /\ EntryAge(e),
         \A l \in listings' : ListingCounts(l) /\ ListingAge(l),
         \A g \in Askers : asker[g].pc = "keep" => Serves(asker[g].stamp, asker[g].shown, x),
         x.pc = "keep" => \A g \in Askers : Serves(x.stamp, x.shown, asker[g]),
         x.pc = "keep" => Serves(x.stamp, x.shown, x)
  PROVE  NoteInductive'
<1>1. /\ UNCHANGED <<shows, disk, bumped, known, setter, clock, began>>
      /\ asker \in [Askers -> AskerRecord]
  BY DEF noteDisk, NoteInductive, NoteTypes
<1>2. asker'[h] = x /\ \A g \in Askers : g # h => asker'[g] = asker[g]
  BY <1>1
<1>3. NoteTypes'
  <2>1. asker' \in [Askers -> AskerRecord]
    BY <1>1
  <2> QED BY <1>1, <2>1 DEF NoteInductive, NoteTypes
<1>4. DiskLeads'
  BY <1>1 DEF NoteInductive, DiskLeads
<1>5. \A r : /\ Owes(r)' <=> Owes(r)
             /\ Ages(r)' <=> Ages(r)
  BY <1>1 DEF Owes, Ages, Base, Looks, WindowFrom, OfBucket
<1>6. \A stamp, shown, r : Serves(stamp, shown, r)' <=> Serves(stamp, shown, r)
  BY <1>1 DEF Serves, Base, Looks
<1>7. CountsFine'
  <2>1. \A g \in Askers : Owes(asker'[g])
    BY <1>2 DEF NoteInductive, CountsFine
  <2>2. \A g \in Askers : Owes(asker[g])'
    BY <1>1, <2>1 DEF Owes, Base, Looks
  <2>3. ASSUME NEW e \in kept' PROVE EntryCounts(e)'
    <3>1. EntryCounts(e) /\ Serves(e.stamp, e.shown, x)
      OBVIOUS
    <3>2. \A g \in Askers : Serves(e.stamp, e.shown, asker'[g])
      BY <1>2, <3>1 DEF EntryCounts
    <3> QED BY <1>1, <3>1, <3>2 DEF EntryCounts, Serves, Base, Looks
  <2>4. \A l \in listings' : ListingCounts(l)'
    BY <1>1 DEF ListingCounts
  <2>5. ASSUME NEW f \in Askers, NEW g \in Askers, asker'[f].pc = "keep"
        PROVE  Serves(asker'[f].stamp, asker'[f].shown, asker'[g])
    <3>1. \A d, c \in Askers : asker[d].pc = "keep" => Serves(asker[d].stamp, asker[d].shown, asker[c])
      BY DEF NoteInductive, CountsFine
    <3>2. CASE f = h /\ g = h
      BY <1>2, <2>5, <3>2
    <3>3. CASE f = h /\ g # h
      BY <1>2, <2>5, <3>3
    <3>4. CASE f # h /\ g = h
      BY <1>2, <2>5, <3>4
    <3>5. CASE f # h /\ g # h
      BY <1>2, <2>5, <3>1, <3>5
    <3> QED BY <3>2, <3>3, <3>4, <3>5
  <2>6. \A f, g \in Askers :
          asker'[f].pc = "keep" => Serves(asker[f].stamp, asker[f].shown, asker[g])'
    BY <1>1, <2>5 DEF Serves, Base, Looks
  <2> QED BY <2>2, <2>3, <2>4, <2>6 DEF CountsFine
<1>8. WindowsFine'
  <2>1. \A g \in Askers : Ages(asker'[g])
    BY <1>2 DEF NoteInductive, WindowsFine
  <2>2. \A g \in Askers : Ages(asker[g])'
    BY <1>1, <2>1 DEF Ages, WindowFrom, OfBucket
  <2>3. \A e \in kept' : e.at <= clock' /\ e.shown >= began'[e.at]
    BY <1>1 DEF EntryAge
  <2>4. \A l \in listings' : l.bucket * ListTicks <= clock' /\ l.shown >= OfBucket(l.bucket)'
    BY <1>1 DEF ListingAge, OfBucket, WindowFrom
  <2> QED BY <2>2, <2>3, <2>4 DEF WindowsFine
<1> QED BY <1>3, <1>4, <1>7, <1>8 DEF NoteInductive

\* The same for a step that leaves the caches alone.
LEMMA Only_Asks ==
  ASSUME NoteInductive, NEW h \in Askers, NEW x \in AskerRecord,
         asker' = [asker EXCEPT ![h] = x], OnlyAsks,
         Owes(x), Ages(x),
         \A e \in kept : Serves(e.stamp, e.shown, x),
         \A g \in Askers : asker[g].pc = "keep" => Serves(asker[g].stamp, asker[g].shown, x),
         x.pc = "keep" => \A g \in Askers : Serves(x.stamp, x.shown, asker[g]),
         x.pc = "keep" => Serves(x.stamp, x.shown, x)
  PROVE  NoteInductive'
<1>1. UNCHANGED <<noteDisk, clock, began>> /\ kept' = kept /\ listings' = listings
  BY DEF OnlyAsks
<1>2. kept \subseteq NoteEntry /\ listings \subseteq ListingEntry
  BY DEF NoteInductive, NoteTypes
<1>3. \A e \in kept : EntryCounts(e) /\ EntryAge(e)
  BY DEF NoteInductive, CountsFine, WindowsFine, EntryAge
<1>4. \A l \in listings : ListingCounts(l) /\ ListingAge(l)
  BY DEF NoteInductive, CountsFine, WindowsFine, ListingAge
<1> QED BY <1>1, <1>2, <1>3, <1>4, Asker_Moves

LEMMA Bucket_Fine ==
  ASSUME NEW t \in Nat, NEW n \in Nat \ {0}
  PROVE  t \div n \in Nat /\ (t \div n) * n <= t /\ t < (t \div n) * n + n /\ (t \div n) * n \in Nat
OBVIOUS

LEMMA Idle_Fine ==
  /\ AskerIdle \in AskerRecord /\ AskerIdle.pc = "idle" /\ AskerIdle.list = 0 /\ AskerIdle.stamp = 0
  /\ AskerIdle.owed = 0 /\ AskerIdle.sure
BY DEF AskerIdle, AskerRecord

\* An answer that is given back at once.
LEMMA Answer_Fine ==
  ASSUME NEW a \in AskerRecord, NEW shown \in Nat, NEW sure
  PROVE  /\ Answer(a, shown, sure) \in AskerRecord
         /\ Answer(a, shown, sure).pc = "reply" /\ Answer(a, shown, sure).shown = shown
         /\ Answer(a, shown, sure).list = 0 /\ Answer(a, shown, sure).stamp = 0
         /\ Answer(a, shown, sure).least = a.least
         /\ sure => Answer(a, shown, sure).owed = a.owed
         /\ ~sure => Answer(a, shown, sure).owed = 0
         /\ Answer(a, shown, sure).sure
<1>0. PICK r \in AskerRecord : r = AskerIdle
  BY Idle_Fine
<1>1. r = AskerIdle /\ r.list = 0 /\ r.stamp = 0 /\ r.sure
  BY <1>0, Idle_Fine
<1>2. PICK owed \in Nat : owed = (IF sure THEN a.owed ELSE 0)
  <2>1. a.owed \in Nat
    BY DEF AskerRecord
  <2> QED BY <2>1
<1>3. PICK least \in Nat : least = a.least
  BY DEF AskerRecord
<1> DEFINE y == [r EXCEPT !.pc = "reply", !.shown = shown, !.owed = owed, !.least = least]
<1>4. Answer(a, shown, sure) = y
  BY <1>1, <1>2, <1>3 DEF Answer
<1>5. /\ y \in AskerRecord /\ y.pc = "reply" /\ y.shown = shown /\ y.owed = owed /\ y.least = least
      /\ y.list = r.list /\ y.stamp = r.stamp /\ y.sure = r.sure
  BY DEF AskerRecord
<1> HIDE DEF y
<1> QED BY <1>1, <1>2, <1>3, <1>4, <1>5

\* What a reply must fulfil.
LEMMA Replies ==
  ASSUME NoteInductive, NEW h \in Askers, NEW x \in AskerRecord,
         asker' = [asker EXCEPT ![h] = x], OnlyAsks,
         x.pc \in {"idle", "reply"}, x.list = 0, x.stamp = 0, x.sure,
         x.owed <= known, x.pc = "reply" => x.shown >= x.owed /\ x.shown >= x.least
  PROVE  NoteInductive'
<1>1. bumped \in Nat
  BY DEF NoteInductive, NoteTypes
<1>2. Owes(x)
  <2>1. x.list <= bumped /\ x.stamp <= bumped
    BY <1>1
  <2>2. ~Looks(x) /\ x.pc \notin {"stamp", "find", "keep", "list"}
    BY DEF Looks
  <2>3. x.pc \in {"keep", "list", "reply"} => x.shown >= x.owed
    OBVIOUS
  <2>4. x.pc = "stamp" => x.sure
    BY <2>2
  <2> QED BY ONLY <2>1, <2>2, <2>3, x.sure, x.owed <= known DEF Owes
<1>3. Ages(x)
  BY DEF Ages
<1>4. \A stamp, shown : Serves(stamp, shown, x)
  BY DEF Serves, Looks
<1> QED BY <1>2, <1>3, <1>4, Only_Asks

LEMMA AskRooms_Step ==
  ASSUME NoteInductive, NEW h \in Askers, AskRooms(h)
  PROVE  NoteInductive'
<1>0. /\ shows \in {"topic", "gauge"} /\ bumped \in Nat /\ known \in Nat /\ clock \in Nat /\ clock \in 0..MaxClock
      /\ ListTicks \in Nat \ {0} /\ NoteTicks \in Nat \ {0} /\ (bumped = 0 => known = 0)
      /\ kept \subseteq NoteEntry /\ listings \subseteq ListingEntry /\ asker \in [Askers -> AskerRecord]
  BY Ticks_Fine DEF NoteInductive, NoteTypes, DiskLeads
<1> DEFINE topics == shows = "topic"
           asked == [AskerIdle EXCEPT !.pc = "stamp", !.list = IF topics THEN bumped ELSE 0,
                  !.bucket = clock \div ListTicks, !.least = Oldest,
                  !.owed = IF topics THEN known ELSE 0]
           found == {l \in listings : l.stamp = asked.list /\ l.bucket = asked.bucket}
<1>1. PICK slot \in Nat : slot = clock \div ListTicks /\ slot * ListTicks \in Nat
                            /\ slot * ListTicks <= clock /\ clock < slot * ListTicks + ListTicks
  BY <1>0, Bucket_Fine
<1>2. /\ Oldest \in Nat /\ Oldest <= WindowFrom(clock) /\ Oldest <= OfBucket(slot)
      /\ WindowFrom(clock) \in Nat /\ OfBucket(slot) \in Nat
  <2>1. /\ Later(0, clock + 2 - ListTicks - NoteTicks) \in 0..clock
        /\ Later(0, clock + 1 - NoteTicks) \in 0..clock
        /\ Later(0, clock + 2 - ListTicks - NoteTicks) <= Later(0, clock + 1 - NoteTicks)
    BY <1>0 DEF Later
  <2>2. \A j \in Nat : j <= clock /\ clock < j + ListTicks =>
          /\ Later(0, j + 1 - NoteTicks) \in 0..clock
          /\ Later(0, clock + 2 - ListTicks - NoteTicks) <= Later(0, j + 1 - NoteTicks)
    BY <1>0 DEF Later
  <2>3. /\ Later(0, slot * ListTicks + 1 - NoteTicks) \in 0..clock
        /\ Later(0, clock + 2 - ListTicks - NoteTicks) <= Later(0, slot * ListTicks + 1 - NoteTicks)
    BY <1>1, <2>2
  <2>4. \A s \in 0..clock : began[s] \in Nat
    BY <1>0, Ticks_Fine DEF NoteInductive, NoteTypes
  <2>5. \A s, t \in 0..clock : s <= t => began[s] <= began[t]
    BY DEF NoteInductive, DiskLeads
  <2> QED BY <2>1, <2>3, <2>4, <2>5 DEF Oldest, WindowFrom, OfBucket
<1>r. PICK r \in AskerRecord : r = AskerIdle
  BY Idle_Fine
<1>3. r = AskerIdle /\ r.list = 0 /\ r.stamp = 0 /\ r.sure /\ r.owed = 0
  BY <1>r, Idle_Fine
<1>4. PICK list \in Nat, owed \in Nat :
         /\ list = (IF topics THEN bumped ELSE 0)
         /\ owed = (IF topics THEN known ELSE 0)
  BY <1>0
<1>5. PICK least \in Nat : least = Oldest
  BY <1>2
<1> DEFINE x == [r EXCEPT !.pc = "stamp", !.list = list, !.bucket = slot, !.least = least, !.owed = owed]
<1>6. asked = x
  BY <1>1, <1>3, <1>4, <1>5
<1>7. /\ x \in AskerRecord /\ x.pc = "stamp" /\ x.list = list /\ x.bucket = slot /\ x.least = least
      /\ x.owed = owed /\ x.stamp = 0 /\ x.sure
  BY <1>3 DEF AskerRecord
<1>8. OnlyAsks /\ (\/ asker' = [asker EXCEPT ![h] = asked]
                   \/ \E l \in found : asker' = [asker EXCEPT ![h] = Answer(asked, l.shown, l.sure)])
  BY DEF AskRooms, Becomes
<1>9. found = {l \in listings : l.stamp = list /\ l.bucket = slot}
  BY <1>6, <1>7
<1>10. \/ asker' = [asker EXCEPT ![h] = x]
       \/ \E l \in found : asker' = [asker EXCEPT ![h] = Answer(x, l.shown, l.sure)]
  BY <1>6, <1>8
<1> HIDE DEF x, asked, found
<1>11. CASE asker' = [asker EXCEPT ![h] = x]
  <2>1. Owes(x)
    <3>1. x.list <= bumped /\ x.stamp <= bumped /\ x.owed <= known /\ Looks(x)
      BY <1>0, <1>4, <1>7 DEF Looks
    <3>2. shows = "topic" => x.list = bumped /\ x.owed = known
      BY <1>4, <1>7
    <3>3. Base(x) = 0 => x.owed = 0
      BY <1>0, <1>4, <1>7 DEF Base
    <3> QED BY <1>7, <3>1, <3>2, <3>3 DEF Owes
  <2>2. Ages(x)
    BY <1>1, <1>2, <1>5, <1>7 DEF Ages
  <2>3. ASSUME NEW stamp \in Nat, NEW shown \in Nat, stamp <= bumped, stamp = bumped => shown >= known
        PROVE  Serves(stamp, shown, x)
    BY <1>0, <1>4, <1>7, <2>3 DEF Serves, Base
  <2>4. \A e \in kept : Serves(e.stamp, e.shown, x)
    <3>1. \A e \in kept : /\ e.stamp \in Nat /\ e.shown \in Nat /\ e.stamp <= bumped
                          /\ e.stamp = bumped => e.shown >= known
      BY <1>0 DEF NoteEntry, NoteInductive, CountsFine, EntryCounts
    <3> QED BY <2>3, <3>1
  <2>5. \A g \in Askers : asker[g].pc = "keep" => Serves(asker[g].stamp, asker[g].shown, x)
    <3>1. \A g \in Askers : /\ asker[g].stamp \in Nat /\ asker[g].shown \in Nat /\ asker[g].stamp <= bumped
                            /\ asker[g].pc = "keep" /\ asker[g].stamp = bumped => asker[g].shown >= known
      BY <1>0 DEF AskerRecord, NoteInductive, CountsFine, Owes
    <3> QED BY <2>3, <3>1
  <2> QED BY <1>7, <1>8, <1>11, <2>1, <2>2, <2>4, <2>5, Only_Asks
<1>12. ASSUME NEW l \in found, asker' = [asker EXCEPT ![h] = Answer(x, l.shown, l.sure)]
       PROVE  NoteInductive'
  <2>1. /\ l \in listings /\ l.stamp = list /\ l.bucket = slot /\ l.shown \in Nat /\ l.sure \in BOOLEAN
    BY <1>0, <1>9 DEF ListingEntry
  <2>2. ListingCounts(l) /\ l.shown >= OfBucket(slot)
    BY <2>1 DEF NoteInductive, CountsFine, WindowsFine
  <2>x. /\ Answer(x, l.shown, l.sure) \in AskerRecord
        /\ Answer(x, l.shown, l.sure).pc = "reply" /\ Answer(x, l.shown, l.sure).shown = l.shown
        /\ Answer(x, l.shown, l.sure).list = 0 /\ Answer(x, l.shown, l.sure).stamp = 0
        /\ Answer(x, l.shown, l.sure).least = x.least
        /\ l.sure => Answer(x, l.shown, l.sure).owed = x.owed
        /\ ~l.sure => Answer(x, l.shown, l.sure).owed = 0
        /\ Answer(x, l.shown, l.sure).sure
    BY <1>7, <2>1, Answer_Fine
  <2>y. PICK y \in AskerRecord : y = Answer(x, l.shown, l.sure)
    BY <2>x
  <2>3. /\ y = Answer(x, l.shown, l.sure)
        /\ y.pc = "reply" /\ y.shown = l.shown /\ y.list = 0 /\ y.stamp = 0 /\ y.least = x.least
        /\ (l.sure => y.owed = x.owed) /\ (~l.sure => y.owed = 0) /\ y.sure
    BY <2>x, <2>y
  <2>4. y.owed \in {0, owed} /\ (l.sure \/ y.owed = 0)
    BY <1>7, <2>3
  <2>5. l.sure => l.shown >= owed
    <3>1. CASE topics
      <4>1. l.sure => l.shown >= known
        BY <1>4, <2>1, <2>2, <3>1 DEF ListingCounts
      <4> QED BY <1>4, <3>1, <4>1
    <3>2. CASE ~topics
      BY <1>4, <2>1, <3>2
    <3> QED BY <3>1, <3>2
  <2>6. y.shown >= y.owed
    BY <2>1, <2>3, <2>4, <2>5
  <2>7. y.shown >= y.least
    BY <1>2, <1>5, <1>7, <2>1, <2>2, <2>3
  <2>8. y.owed <= known
    BY <1>0, <1>4, <2>4
  <2> QED BY <1>8, <1>12, <2>3, <2>6, <2>7, <2>8, Replies
<1> QED BY <1>10, <1>11, <1>12

LEMMA EndListing_Step ==
  ASSUME NoteInductive, NEW h \in Askers, EndListing(h)
  PROVE  NoteInductive'
<1>1. PICK r \in AskerRecord : r = AskerIdle
  BY Idle_Fine
<1>2. r.pc = "idle" /\ r.list = 0 /\ r.stamp = 0 /\ r.sure /\ r.owed = 0
  BY <1>1, Idle_Fine
<1>3. asker' = [asker EXCEPT ![h] = r] /\ OnlyAsks
  BY <1>1 DEF EndListing, Becomes
<1>4. r.owed <= known
  BY <1>2 DEF NoteInductive, NoteTypes
<1>5. r.pc \in {"idle", "reply"} /\ r.pc # "reply"
  BY <1>2
<1> QED BY <1>2, <1>3, <1>4, <1>5, Replies

\* The stamp is read after the listing's, and counts at least as much.
LEMMA StampNotes_Step ==
  ASSUME NoteInductive, NEW h \in Askers, StampNotes(h)
  PROVE  NoteInductive'
<1>0. /\ shows \in {"topic", "gauge"} /\ bumped \in Nat /\ known \in Nat /\ clock \in Nat
      /\ bumped = 0 => known = 0
      /\ kept \subseteq NoteEntry /\ asker \in [Askers -> AskerRecord]
  BY Ticks_Fine DEF NoteInductive, NoteTypes, DiskLeads
<1>1. PICK a \in AskerRecord : a = asker[h]
  BY <1>0
<1>2. a.pc = "stamp" /\ Owes(a) /\ Ages(a)
  BY <1>1 DEF StampNotes, NoteInductive, CountsFine, WindowsFine
<1>3. a.list \in Nat /\ a.owed \in Nat /\ a.shown \in Nat /\ a.bucket \in Nat
  BY DEF AskerRecord
<1>4. PICK s \in Stamps(bumped) :
         asker' = [asker EXCEPT ![h] = [asker[h] EXCEPT !.pc = "find", !.stamp = s.count, !.at = clock,
                         !.sure = s.sure,
                         !.owed = IF ~s.sure THEN 0 ELSE IF shows = "gauge" THEN known ELSE @]]
  BY DEF StampNotes, Becomes
<1>s. (s.sure = TRUE /\ s.count = bumped) \/ (s.sure = FALSE /\ s.count = 0)
  <2>1. s = [count |-> bumped, sure |-> TRUE] \/ s = [count |-> 0, sure |-> FALSE]
    BY DEF Stamps
  <2>2. s = [count |-> bumped, sure |-> TRUE] => s.sure = TRUE /\ s.count = bumped
    OBVIOUS
  <2>3. s = [count |-> 0, sure |-> FALSE] => s.sure = FALSE /\ s.count = 0
    OBVIOUS
  <2> QED BY <2>1, <2>2, <2>3
<1>5. PICK sure \in BOOLEAN : sure = s.sure
  BY <1>s
<1>6. PICK count \in Nat : count = s.count /\ (sure => count = bumped) /\ count <= bumped
  <2>1. CASE s.sure = TRUE /\ s.count = bumped
    BY <1>0, <2>1
  <2>2. CASE s.sure = FALSE /\ s.count = 0
    BY <1>0, <1>5, <2>2
  <2> QED BY <1>s, <2>1, <2>2
<1>7. PICK owed \in Nat : owed = IF ~sure THEN 0 ELSE IF shows = "gauge" THEN known ELSE a.owed
  BY <1>0, <1>3
<1>8. PICK t \in Nat : t = clock
  BY <1>0
<1>9. PICK x \in AskerRecord :
         x = [a EXCEPT !.pc = "find", !.stamp = count, !.at = t, !.sure = sure, !.owed = owed]
  BY DEF AskerRecord
<1>10. /\ x.pc = "find" /\ x.stamp = count /\ x.at = t /\ x.sure = sure /\ x.owed = owed
       /\ x.list = a.list /\ x.bucket = a.bucket /\ x.least = a.least
  BY <1>9 DEF AskerRecord
<1>11. asker' = [asker EXCEPT ![h] = x]
  BY <1>1, <1>4, <1>5, <1>6, <1>7, <1>8, <1>9
<1>12. OnlyAsks
  BY DEF StampNotes
<1>13. a.list <= bumped /\ a.owed <= known /\ (shows = "topic" /\ a.list = bumped => a.owed = known)
       /\ (shows = "topic" /\ a.list = 0 => a.owed = 0)
  <2>1. a.sure /\ Looks(a)
    BY <1>2 DEF Owes, Looks
  <2> QED BY <1>2, <2>1 DEF Owes, Base
<1>14. owed <= known /\ (owed = 0 \/ sure) /\ owed \in {0, known, a.owed}
  BY <1>0, <1>7, <1>13
<1>15. sure /\ shows = "topic" => owed = a.owed
  BY <1>7
<1>16. Owes(x)
  <2>1. x.list <= bumped /\ x.stamp <= bumped /\ x.owed <= known /\ Looks(x)
    BY <1>6, <1>10, <1>13, <1>14 DEF Looks
  <2>2. ~x.sure => x.owed = 0
    BY <1>10, <1>14
  <2>3. Base(x) = 0 => x.owed = 0
    <3>1. CASE shows = "topic"
      BY <1>10, <1>13, <1>14, <1>15, <3>1 DEF Base
    <3>2. CASE shows = "gauge"
      <4>1. CASE sure
        <5>1. Base(x) = bumped
          BY <1>6, <1>10, <3>2, <4>1 DEF Base
        <5>2. owed \in {0, known, a.owed} /\ a.owed <= known /\ owed <= known
          BY <1>13, <1>14
        <5> QED BY <1>0, <1>10, <5>1, <5>2
      <4>2. CASE ~sure
        BY <1>10, <1>14, <4>2
      <4> QED BY <4>1, <4>2
    <3> QED BY <1>0, <3>1, <3>2
  <2>4. x.sure /\ shows = "topic" => x.stamp >= x.list
    <3>1. sure => count >= a.list
      BY <1>3, <1>6, <1>13
    <3> QED BY <1>10, <3>1
  <2>5. shows = "topic" /\ x.sure /\ x.list = bumped => x.owed = known
    BY <1>10, <1>13, <1>15
  <2> QED BY <1>10, <2>1, <2>2, <2>3, <2>4, <2>5 DEF Owes
<1>17. Ages(x)
  BY <1>0, <1>2, <1>8, <1>10 DEF Ages
<1>18. ASSUME NEW stamp \in Nat, NEW shown \in Nat, stamp <= bumped, stamp = bumped => shown >= known,
              Serves(stamp, shown, a)
       PROVE  Serves(stamp, shown, x)
  <2> SUFFICES ASSUME stamp >= Base(x) PROVE shown >= owed
    BY <1>10 DEF Serves
  <2>1. CASE ~sure
    BY <1>14, <2>1
  <2>2. CASE sure /\ shows = "topic"
    <3>1. Base(x) = Base(a) /\ owed = a.owed /\ Looks(a)
      BY <1>2, <1>10, <1>15, <2>2 DEF Base, Looks
    <3> QED BY <1>18, <3>1 DEF Serves
  <2>3. CASE sure /\ shows = "gauge"
    <3>1. Base(x) = bumped
      BY <1>6, <1>10, <2>3 DEF Base
    <3> QED BY <1>0, <1>14, <1>18, <3>1
  <2> QED BY <1>0, <2>1, <2>2, <2>3
<1>19. \A e \in kept : Serves(e.stamp, e.shown, x)
  <2>1. \A e \in kept : /\ e.stamp \in Nat /\ e.shown \in Nat /\ e.stamp <= bumped
                        /\ e.stamp = bumped => e.shown >= known
                        /\ Serves(e.stamp, e.shown, a)
    BY <1>0, <1>1 DEF NoteEntry, NoteInductive, CountsFine, EntryCounts
  <2> QED BY <1>18, <2>1
<1>20. \A g \in Askers : asker[g].pc = "keep" => Serves(asker[g].stamp, asker[g].shown, x)
  <2>1. \A g \in Askers : /\ asker[g].stamp \in Nat /\ asker[g].shown \in Nat /\ asker[g].stamp <= bumped
                          /\ asker[g].pc = "keep" /\ asker[g].stamp = bumped => asker[g].shown >= known
                          /\ asker[g].pc = "keep" => Serves(asker[g].stamp, asker[g].shown, a)
    BY <1>0, <1>1 DEF AskerRecord, NoteInductive, CountsFine, Owes
  <2> QED BY <1>18, <2>1
<1> QED BY <1>10, <1>11, <1>12, <1>16, <1>17, <1>19, <1>20, Only_Asks

\* Two look-ups of one window are less than a window apart.
LEMMA Same_Window ==
  ASSUME NEW s \in Nat, NEW t \in Nat, NEW n \in Nat \ {0}, s \div n = t \div n
  PROVE  t < s + n
<1>1. PICK q \in Nat : q = s \div n /\ q = t \div n /\ q * n \in Nat /\ q * n <= s /\ t < q * n + n
  BY Bucket_Fine
<1> QED BY <1>1

\* What a handler shows when the look-up is over, and how it is allowed to.
LEMMA Shown_Fine ==
  ASSUME NoteInductive, NEW a \in AskerRecord, NEW shown \in Nat,
         a.pc \in {"find", "keep"}, Owes(a), Ages(a), shown >= a.owed,
         \E s \in 0..clock : s >= a.at + 1 - NoteTicks /\ shown >= began[s]
  PROVE  /\ Shown(a, shown) \in AskerRecord /\ Shown(a, shown).pc = "list"
         /\ Owes(Shown(a, shown)) /\ Ages(Shown(a, shown))
<1>0. /\ shows \in {"topic", "gauge"} /\ bumped \in Nat /\ known \in Nat /\ clock \in Nat
      /\ ListTicks \in Nat \ {0} /\ NoteTicks \in Nat \ {0}
      /\ a.list \in Nat /\ a.owed \in Nat /\ a.bucket \in Nat /\ a.at \in Nat /\ a.least \in Nat
  BY Ticks_Fine DEF NoteInductive, NoteTypes, AskerRecord
<1>1. PICK x \in AskerRecord : x = [a EXCEPT !.pc = "list", !.shown = shown, !.stamp = 0, !.at = 0]
  BY DEF AskerRecord
<1>2. /\ x.pc = "list" /\ x.shown = shown /\ x.stamp = 0 /\ x.at = 0 /\ x.list = a.list /\ x.sure = a.sure
      /\ x.bucket = a.bucket /\ x.owed = a.owed /\ x.least = a.least
  BY <1>1 DEF AskerRecord
<1>3. Owes(x)
  <2>1. x.list <= bumped /\ x.stamp <= bumped /\ x.owed <= known /\ ~Looks(x)
    BY <1>0, <1>2 DEF Looks, Owes
  <2>2. /\ ~a.sure => a.owed = 0
        /\ shows = "topic" /\ a.sure /\ a.list = bumped => a.owed = known
    BY DEF Owes, Looks
  <2>3. /\ ~x.sure => x.owed = 0
        /\ shows = "topic" /\ x.sure /\ x.list = bumped => x.owed = known
    BY <1>2, <2>2
  <2>4. x.shown >= x.owed
    BY <1>2
  <2> QED BY <1>2, <2>1, <2>3, <2>4 DEF Owes
<1>4. /\ a.at \in 0..clock /\ a.bucket * ListTicks \in 0..a.at
      /\ a.least <= WindowFrom(a.at)
  <2>1. a.bucket * ListTicks \in Nat
    BY <1>0
  <2>2. a.at <= clock /\ a.bucket * ListTicks <= a.at /\ a.least <= WindowFrom(a.at)
    BY DEF Ages
  <2> QED BY <1>0, <2>1, <2>2
<1>5. /\ WindowFrom(a.at) \in Nat
      /\ \A s \in 0..a.at : WindowFrom(s) <= WindowFrom(a.at)
      /\ \A s \in 0..clock : s >= a.at + 1 - NoteTicks => WindowFrom(a.at) <= began[s]
  BY <1>4, Window_Fine DEF NoteInductive
<1>6. shown >= WindowFrom(a.at)
  <2>1. PICK s \in 0..clock : s >= a.at + 1 - NoteTicks /\ shown >= began[s]
    OBVIOUS
  <2>2. began[s] \in Nat
    BY <1>0, Ticks_Fine DEF NoteInductive, NoteTypes
  <2> QED BY <1>5, <2>1, <2>2
<1>7. OfBucket(a.bucket) \in Nat /\ OfBucket(a.bucket) <= WindowFrom(a.at)
  <2>1. a.bucket * ListTicks \in 0..clock
    BY <1>0, <1>4
  <2> QED BY <1>4, <1>5, <2>1, Window_Fine DEF NoteInductive, OfBucket
<1>8. Ages(x)
  <2>1. shown >= a.least /\ shown >= OfBucket(a.bucket)
    BY <1>0, <1>4, <1>5, <1>6, <1>7
  <2>2. a.bucket * ListTicks <= clock
    BY <1>0, <1>4
  <2> QED BY <1>2, <2>1, <2>2 DEF Ages
<1> QED BY <1>1, <1>2, <1>3, <1>8 DEF Shown

\* What serves the handler serves it on: it looks no more.
LEMMA Looks_No_More ==
  ASSUME NEW x, x.pc \notin {"stamp", "find", "keep"}
  PROVE  \A stamp, shown : Serves(stamp, shown, x)
BY DEF Serves, Looks

LEMMA FindNotes_Step ==
  ASSUME NoteInductive, NEW h \in Askers, FindNotes(h)
  PROVE  NoteInductive'
<1>0. /\ shows \in {"topic", "gauge"} /\ bumped \in Nat /\ known \in Nat /\ clock \in Nat /\ disk \in Nat
      /\ known <= disk /\ NoteTicks \in Nat \ {0}
      /\ kept \subseteq NoteEntry /\ asker \in [Askers -> AskerRecord]
  BY Ticks_Fine DEF NoteInductive, NoteTypes, DiskLeads
<1>1. PICK a \in AskerRecord : a = asker[h]
  BY <1>0
<1>2. a.pc = "find" /\ Owes(a) /\ Ages(a) /\ OnlyAsks
  BY <1>1 DEF FindNotes, NoteInductive, CountsFine, WindowsFine
<1>3. /\ a.list \in Nat /\ a.stamp \in Nat /\ a.owed \in Nat /\ a.at \in Nat
      /\ a.at \in 0..clock /\ a.owed <= known
  BY <1>0, <1>2 DEF AskerRecord, Owes, Ages
<1>4. CASE Found(h) = {}
  <2>1. PICK now \in Nat : now = disk
    BY <1>0
  <2>2. PICK x \in AskerRecord : x = [a EXCEPT !.pc = "keep", !.shown = now]
    BY DEF AskerRecord
  <2>3. /\ x.pc = "keep" /\ x.shown = now /\ x.stamp = a.stamp /\ x.at = a.at /\ x.list = a.list
        /\ x.sure = a.sure /\ x.bucket = a.bucket /\ x.owed = a.owed /\ x.least = a.least
    BY <2>2 DEF AskerRecord
  <2>4. asker' = [asker EXCEPT ![h] = x]
    BY <1>1, <1>4, <2>1, <2>2 DEF FindNotes, Becomes
  <2>5. x.shown >= known /\ x.shown >= x.owed
    BY <1>0, <1>3, <2>1, <2>3
  <2>6. Owes(x)
    <3>1. Looks(x) /\ Looks(a) /\ Base(x) = Base(a)
      BY <1>2, <2>3 DEF Looks, Base
    <3> QED BY <1>2, <2>3, <2>5, <3>1 DEF Owes
  <2>7. Ages(x)
    <3>1. began[a.at] \in Nat /\ disk >= began[a.at]
      <4>1. a.at \in 0..MaxClock /\ began \in [0..MaxClock -> Nat]
        BY <1>0, <1>3, Ticks_Fine DEF NoteInductive, NoteTypes
      <4>2. began[a.at] <= disk
        BY <1>3, Window_Fine DEF NoteInductive
      <4> QED BY <1>0, <4>1, <4>2
    <3> QED BY <1>2, <2>1, <2>3, <3>1 DEF Ages
  <2>8. \A stamp, shown : Serves(stamp, shown, a) => Serves(stamp, shown, x)
    BY <1>2, <2>3 DEF Serves, Looks, Base
  <2>9. \A e \in kept : Serves(e.stamp, e.shown, x)
    BY <1>1, <2>8 DEF NoteInductive, CountsFine, EntryCounts
  <2>10. \A g \in Askers : asker[g].pc = "keep" => Serves(asker[g].stamp, asker[g].shown, x)
    BY <1>1, <2>8 DEF NoteInductive, CountsFine
  <2>11. \A g \in Askers : Serves(x.stamp, x.shown, asker[g])
    <3>1. \A g \in Askers : asker[g].owed \in Nat /\ asker[g].owed <= known
      BY <1>0 DEF AskerRecord, NoteInductive, CountsFine, Owes
    <3> QED BY <1>0, <2>1, <2>3, <3>1 DEF Serves
  <2>12. Serves(x.stamp, x.shown, x)
    BY <2>5 DEF Serves
  <2> QED BY <1>2, <2>4, <2>6, <2>7, <2>9, <2>10, <2>11, <2>12, Only_Asks
<1>5. ASSUME NEW e \in Found(h), asker' = [asker EXCEPT ![h] = Shown(asker[h], e.shown)]
      PROVE  NoteInductive'
  <2>1. e \in kept /\ e.stamp = a.stamp
    BY <1>1, <1>5 DEF Found, TopicsFound, GaugeFound
  <2>2. e.at \in Nat /\ e.shown \in Nat /\ e.stamp \in Nat
    BY <1>0, <2>1 DEF NoteEntry
  <2>3. e.at <= clock /\ e.shown >= began[e.at] /\ Serves(e.stamp, e.shown, a)
    BY <1>1, <2>1 DEF NoteInductive, WindowsFine, CountsFine, EntryCounts
  <2>4. a.at < e.at + NoteTicks
    <3>1. CASE shows = "topic"
      <4>1. e.at \div NoteTicks = a.at \div NoteTicks
        BY <1>1, <1>5, <3>1 DEF Found, TopicsFound
      <4> QED BY <1>0, <1>3, <2>2, <4>1, Same_Window
    <3>2. CASE shows = "gauge"
      BY <1>1, <1>5, <3>2 DEF Found, GaugeFound
    <3> QED BY <1>0, <3>1, <3>2
  <2>5. \E s \in 0..clock : s >= a.at + 1 - NoteTicks /\ e.shown >= began[s]
    <3>1. e.at \in 0..clock /\ e.at >= a.at + 1 - NoteTicks
      BY <1>0, <1>3, <2>2, <2>3, <2>4
    <3> QED BY <2>3, <3>1
  <2>6. e.shown >= a.owed
    <3>1. /\ ~a.sure => a.owed = 0
          /\ a.sure /\ shows = "topic" => a.stamp >= a.list
      BY <1>2 DEF Owes
    <3>2. CASE ~a.sure
      BY <2>2, <3>1, <3>2
    <3>3. CASE a.sure
      <4>1. a.stamp >= Base(a) /\ Looks(a)
        BY <1>2, <1>3, <3>1, <3>3 DEF Base, Looks
      <4> QED BY <2>1, <2>3, <4>1 DEF Serves
    <3> QED BY <3>2, <3>3
  <2>7. PICK x \in AskerRecord : x = Shown(a, e.shown) /\ x.pc = "list" /\ Owes(x) /\ Ages(x)
    BY <1>2, <2>2, <2>5, <2>6, Shown_Fine
  <2>8. asker' = [asker EXCEPT ![h] = x]
    BY <1>1, <1>5, <2>7
  <2>9. \A stamp, shown : Serves(stamp, shown, x)
    BY <2>7, Looks_No_More
  <2> QED BY <1>2, <2>7, <2>8, <2>9, Only_Asks
<1> QED BY <1>4, <1>5 DEF FindNotes, Becomes

LEMMA KeepNotes_Step ==
  ASSUME NoteInductive, NEW h \in Askers, KeepNotes(h)
  PROVE  NoteInductive'
<1>0. /\ bumped \in Nat /\ known \in Nat /\ clock \in Nat /\ NoteTicks \in Nat \ {0}
      /\ kept \subseteq NoteEntry /\ listings \subseteq ListingEntry /\ asker \in [Askers -> AskerRecord]
  BY Ticks_Fine DEF NoteInductive, NoteTypes
<1>1. PICK a \in AskerRecord : a = asker[h]
  BY <1>0
<1>2. a.pc = "keep" /\ Owes(a) /\ Ages(a) /\ UNCHANGED <<noteDisk, clock, began, listings>>
  BY <1>1 DEF KeepNotes, NoteInductive, CountsFine, WindowsFine
<1>3. /\ a.stamp \in Nat /\ a.at \in Nat /\ a.at \in 0..clock /\ a.shown \in Nat
      /\ a.stamp <= bumped /\ (a.stamp = bumped => a.shown >= known)
      /\ a.shown >= a.owed /\ a.shown >= began[a.at]
  BY <1>0, <1>2 DEF AskerRecord, Owes, Ages
<1>4. PICK e \in NoteEntry : e = [stamp |-> a.stamp, at |-> a.at, shown |-> a.shown]
  BY <1>3 DEF NoteEntry
<1>5. e.stamp = a.stamp /\ e.at = a.at /\ e.shown = a.shown
  BY <1>4
<1>6. EntryCounts(e) /\ EntryAge(e)
  <2>1. \A g \in Askers : Serves(a.stamp, a.shown, asker[g])
    BY <1>1, <1>2 DEF NoteInductive, CountsFine
  <2>2. a.at <= clock
    BY <1>0, <1>3
  <2> QED BY <1>3, <1>5, <2>1, <2>2 DEF EntryCounts, EntryAge
<1>7. kept' \subseteq kept \cup {e}
  <2>1. \A rest \in Beside(kept, MaxTopics) : rest \subseteq kept
    BY DEF Beside
  <2> QED BY <1>1, <1>4, <2>1 DEF KeepNotes
<1>8. \A f \in kept' : EntryCounts(f) /\ EntryAge(f) /\ f \in NoteEntry
  BY <1>0, <1>6, <1>7 DEF NoteInductive, CountsFine, WindowsFine, EntryAge
<1>9. \A l \in listings : ListingCounts(l) /\ ListingAge(l)
  BY DEF NoteInductive, CountsFine, WindowsFine, ListingAge
<1>10. \E s \in 0..clock : s >= a.at + 1 - NoteTicks /\ a.shown >= began[s]
  <2>1. a.at >= a.at + 1 - NoteTicks
    BY <1>0, <1>3
  <2> QED BY <1>3, <2>1
<1>11. PICK x \in AskerRecord : x = Shown(a, a.shown) /\ x.pc = "list" /\ Owes(x) /\ Ages(x)
  BY <1>2, <1>3, <1>10, Shown_Fine
<1>12. asker' = [asker EXCEPT ![h] = x]
  BY <1>1, <1>11 DEF KeepNotes, Becomes
<1>13. \A stamp, shown : Serves(stamp, shown, x)
  BY <1>11, Looks_No_More
<1>14. UNCHANGED <<noteDisk, clock, began>> /\ listings' = listings
  BY <1>2
<1> QED BY <1>0, <1>8, <1>9, <1>11, <1>12, <1>13, <1>14, Asker_Moves

LEMMA KeepListing_Step ==
  ASSUME NoteInductive, NEW h \in Askers, KeepListing(h)
  PROVE  NoteInductive'
<1>0. /\ bumped \in Nat /\ known \in Nat /\ clock \in Nat
      /\ kept \subseteq NoteEntry /\ listings \subseteq ListingEntry /\ asker \in [Askers -> AskerRecord]
  BY Ticks_Fine DEF NoteInductive, NoteTypes
<1>1. PICK a \in AskerRecord : a = asker[h]
  BY <1>0
<1>2. a.pc = "list" /\ Owes(a) /\ Ages(a) /\ UNCHANGED <<noteDisk, clock, began, kept>>
  BY <1>1 DEF KeepListing, NoteInductive, CountsFine, WindowsFine
<1>3. /\ a.list \in Nat /\ a.bucket \in Nat /\ a.shown \in Nat /\ a.sure \in BOOLEAN
      /\ a.owed \in Nat /\ a.least \in Nat
  BY DEF AskerRecord
<1>4. PICK l \in ListingEntry :
         l = [stamp |-> a.list, bucket |-> a.bucket, shown |-> a.shown, sure |-> a.sure]
  BY <1>3 DEF ListingEntry
<1>5. l.stamp = a.list /\ l.bucket = a.bucket /\ l.shown = a.shown /\ l.sure = a.sure
  BY <1>4
<1>6. a.list <= bumped /\ a.owed <= known /\ a.shown >= a.owed
      /\ (shows = "topic" /\ a.sure /\ a.list = bumped => a.owed = known)
  BY <1>2 DEF Owes
<1>7. a.bucket * ListTicks <= clock /\ a.shown >= OfBucket(a.bucket) /\ a.shown >= a.least
  BY <1>2 DEF Ages
<1>8. ListingCounts(l) /\ ListingAge(l)
  <2>1. ListingCounts(l)
    BY <1>5, <1>6 DEF ListingCounts
  <2>2. ListingAge(l)
    BY <1>5, <1>7 DEF ListingAge
  <2> QED BY <2>1, <2>2
<1>9. listings' \subseteq listings \cup {l}
  <2>1. \A rest \in Beside(listings, MaxListings) : rest \subseteq listings
    BY DEF Beside
  <2> QED BY <1>1, <1>4, <2>1 DEF KeepListing
<1>10. \A k \in listings' : ListingCounts(k) /\ ListingAge(k) /\ k \in ListingEntry
  BY <1>0, <1>8, <1>9 DEF NoteInductive, CountsFine, WindowsFine, ListingAge
<1>11. \A e \in kept : EntryCounts(e) /\ EntryAge(e)
  BY DEF NoteInductive, CountsFine, WindowsFine, EntryAge
<1>12. /\ Answer(a, a.shown, a.sure) \in AskerRecord
       /\ Answer(a, a.shown, a.sure).pc = "reply" /\ Answer(a, a.shown, a.sure).shown = a.shown
       /\ Answer(a, a.shown, a.sure).list = 0 /\ Answer(a, a.shown, a.sure).stamp = 0
       /\ Answer(a, a.shown, a.sure).least = a.least
       /\ a.sure => Answer(a, a.shown, a.sure).owed = a.owed
       /\ ~a.sure => Answer(a, a.shown, a.sure).owed = 0
       /\ Answer(a, a.shown, a.sure).sure
  BY <1>3, Answer_Fine
<1>13. PICK x \in AskerRecord : x = Answer(a, a.shown, a.sure)
  BY <1>12
<1>14. /\ x.pc = "reply" /\ x.shown = a.shown /\ x.list = 0 /\ x.stamp = 0 /\ x.least = a.least
       /\ x.owed \in {0, a.owed} /\ x.sure
  BY <1>12, <1>13
<1>15. asker' = [asker EXCEPT ![h] = x]
  BY <1>1, <1>13 DEF KeepListing, Becomes
<1>16. Owes(x)
  <2>1. x.list <= bumped /\ x.stamp <= bumped
    BY <1>0, <1>14
  <2>2. ~Looks(x) /\ x.pc \notin {"stamp", "find", "keep", "list"}
    BY <1>14 DEF Looks
  <2>3. x.shown >= x.owed /\ x.owed <= known
    BY <1>0, <1>3, <1>6, <1>14
  <2> QED BY ONLY <1>14, <2>1, <2>2, <2>3 DEF Owes
<1>17. Ages(x)
  BY <1>7, <1>14 DEF Ages
<1>18. \A stamp, shown : Serves(stamp, shown, x)
  BY <1>14, Looks_No_More
<1>19. UNCHANGED <<noteDisk, clock, began>> /\ kept' = kept
  BY <1>2
<1>20. kept' \subseteq NoteEntry /\ listings' \subseteq ListingEntry /\ x.pc # "keep"
  BY <1>0, <1>10, <1>14, <1>19
<1> QED BY <1>10, <1>11, <1>15, <1>16, <1>17, <1>18, <1>19, <1>20, Asker_Moves

LEMMA NoteStep ==
  ASSUME NoteInductive, [NoteCachesNext]_noteVars
  PROVE  NoteInductive'
<1>1. CASE ReapNote
  BY <1>1, ReapNote_Step
<1>2. CASE TickNotes
  BY <1>2, TickNotes_Step
<1>3. ASSUME NEW n \in NoteSetters, Setting(n) PROVE NoteInductive'
  BY <1>3, Setter_Step, BumpNotes_Step DEF Setting
<1>4. ASSUME NEW h \in Askers, Asking(h) PROVE NoteInductive'
  BY <1>4, AskRooms_Step, StampNotes_Step, FindNotes_Step, KeepNotes_Step, KeepListing_Step,
     EndListing_Step DEF Asking
<1>5. CASE UNCHANGED noteVars
  <2>1. UNCHANGED <<shows, disk, bumped, known, setter, clock, began, kept, listings, asker>>
    BY <1>5 DEF noteVars
  <2>2. NoteTypes' /\ DiskLeads'
    BY <2>1 DEF NoteInductive, NoteTypes, DiskLeads
  <2>3. CountsFine'
    BY <2>1 DEF NoteInductive, CountsFine, Owes, Looks, Base, EntryCounts, ListingCounts, Serves
  <2>4. WindowsFine'
    BY <2>1 DEF NoteInductive, WindowsFine, Ages, WindowFrom, OfBucket
  <2> QED BY <2>2, <2>3, <2>4 DEF NoteInductive
<1> QED BY <1>1, <1>2, <1>3, <1>4, <1>5 DEF NoteCachesNext

\* What GET /rooms shows of notes is as new as every write that its stamps count,
\* and no older than the two windows together, for every size of the caches and
\* the windows, and any number of writers and handlers (`_cached_topic`, `_note_stats`).
THEOREM NotesAreCurrent == NoteCachesSpec => []NoteCachesInv
<1>1. NoteInductive => NoteCachesInv
  <2> SUFFICES ASSUME NoteInductive, NEW h \in Askers, asker[h].pc = "reply"
               PROVE  asker[h].shown >= asker[h].owed /\ asker[h].shown >= asker[h].least
    BY DEF NoteCachesInv, CountedIsShown, WindowsAddUp
  <2>1. Owes(asker[h]) /\ Ages(asker[h])
    BY DEF NoteInductive, CountsFine, WindowsFine
  <2> QED BY <2>1 DEF Owes, Ages
<1>2. NoteInductive /\ [NoteCachesNext]_noteVars => NoteInductive'
  BY NoteStep
<1> QED BY NoteStarts, <1>1, <1>2, PTL DEF NoteCachesSpec
---------------------------------------------------------------------------
(* The walk behind it. *)

\* The clock of a stat ticks before a ring has been rotated and filled again:
\* in one tick of st_mtime_ns a room takes fewer records than half its ring.
RingOutlastsGrain == PostsPerGrain <= RingRecords - RingRecords \div 2

StatRecord == [room : Listed, mtime : Nat, size : Nat, top : Nat]
WindowRecord == [top : Nat, nicks : Seq(Nicks)]
KeptRecord == [room : Listed, mtime : Nat, size : Nat, top : Nat, nicks : Seq(Nicks)]
LineRecord == [room : Listed, statTop : Nat, top : Nat, nicks : Seq(Nicks)]
ViewRecord == [pc : {"idle", "show", "store"}, next : SUBSET StatRecord,
               read : SUBSET [entry : StatRecord, window : WindowRecord],
               shown : SUBSET LineRecord, reaped : SUBSET Names]

RingsTyped ==
    /\ tail \in [Names -> Seq(Nicks)] /\ newest \in [Names -> Nat]
    /\ mtime \in [Names -> Nat] /\ grain \in Nat /\ posted \in [Names -> Nat]

\* A room written in this grain is there, its posts are counted, and its ring is
\* no longer than a ring.
RingFine(r) ==
    /\ mtime[r] <= grain /\ posted[r] <= PostsPerGrain
    /\ mtime[r] = grain => /\ tail[r] # <<>> /\ Len(tail[r]) <= RingRecords /\ posted[r] > 0

\* A stat of this grain: how many posts came since shows in the size, past at most
\* one rotation.
Since(r, s, d) ==
    /\ mtime[r] = grain /\ d >= 0 /\ d < posted[r] /\ s <= RingRecords
    /\ \/ Len(tail[r]) = s + d
       \/ Len(tail[r]) = s + d - (RingRecords - RingRecords \div 2)

\* Whoever finds a room under this stat finds it no newer than t.
KeyFine(r, m, s, t) ==
    /\ m <= mtime[r]
    /\ m = grain => \E n \in 0..t : Since(r, s, newest[r] - n)
    /\ tail[r] # <<>> /\ mtime[r] = m /\ Len(tail[r]) = s => newest[r] <= t

\* A stat whose window is still to be shown.
AskFine(x, e) ==
    /\ KeyFine(e.room, e.mtime, e.size, e.top)
    /\ e.top <= newest[e.room]
    /\ tail[e.room] = <<>> => e.room \in x.reaped

\* What may be shown for it.
Fits(x, e, t, s) == t >= e.top \/ (s = <<>> /\ e.room \in x.reaped)

AskedOf(x) == x.next \cup {m.entry : m \in x.read}

\* One line for a room.
Apart(x) ==
    /\ IsFiniteSet(x.shown)
    /\ \A l, h \in x.shown : l.room = h.room => l = h
    /\ \A e, f \in AskedOf(x) : e.room = f.room => e = f
    /\ \A l \in x.shown : \A e \in AskedOf(x) : l.room # e.room
    /\ \A m, o \in x.read : m = o
    /\ \A m \in x.read : m.entry \notin x.next

WalkFine(x) ==
    /\ x.pc = "idle" => x = NoView
    /\ x.pc # "store" => x.read = {}
    /\ \A e \in AskedOf(x) : AskFine(x, e)
    /\ \A m \in x.read : KeyFine(m.entry.room, m.entry.mtime, m.entry.size, m.window.top)
    /\ \A l \in x.shown : l.top >= l.statTop \/ (l.nicks = <<>> /\ l.room \in x.reaped)
    /\ Apart(x)

\* Two that ask under one stat may be answered with the same window.
MemoFits(x) ==
    \A e \in AskedOf(x) : \A k \in memo :
       k.room = e.room /\ k.mtime = e.mtime /\ k.size = e.size => Fits(x, e, k.top, k.nicks)
ReadFits(x, y) ==
    \A e \in AskedOf(x) : \A m \in y.read :
       m.entry.room = e.room /\ m.entry.mtime = e.mtime /\ m.entry.size = e.size
          => Fits(x, e, m.window.top, m.window.nicks)

WalksFine ==
    /\ memo \subseteq KeptRecord /\ view \in [Views -> ViewRecord]
    /\ \A k \in memo : KeyFine(k.room, k.mtime, k.size, k.top)
    /\ \A v \in Views : WalkFine(view[v]) /\ MemoFits(view[v])
    /\ \A v, u \in Views : ReadFits(view[v], view[u])

OverviewInductive == RingsTyped /\ (\A r \in Listed : RingFine(r)) /\ WalksFine

Ovw_Half == RingRecords \in Nat \ {0} /\ RingRecords \div 2 \in Nat
            /\ RingRecords \div 2 < RingRecords
LEMMA Ovw_HalfRing == Ovw_Half
BY OverviewAssumption DEF Ovw_Half

\* The rings move, the memo and the walks stay, but for what they learn of reaped
\* rooms.
LEMMA Ovw_RingStep ==
  ASSUME OverviewInductive, RingsTyped', \A r \in Listed : RingFine(r)', memo' = memo,
         \A r \in Listed : \A m, s, t \in Nat : KeyFine(r, m, s, t) => KeyFine(r, m, s, t)',
         view' \in [Views -> ViewRecord],
         \A v \in Views : \/ view'[v] = NoView
                          \/ /\ (view'[v].pc = view[v].pc /\ view[v].pc # "idle") \/ view'[v] = view[v]
                             /\ view'[v].next = view[v].next /\ view'[v].read = view[v].read
                             /\ view'[v].shown = view[v].shown
                             /\ view[v].reaped \subseteq view'[v].reaped,
         \A r \in Listed : newest[r] <= newest'[r],
         \A r \in Listed : tail'[r] = <<>> =>
            tail[r] = <<>> \/ \A v \in Views : view'[v] = NoView \/ r \in view'[v].reaped
  PROVE  OverviewInductive'
<1> USE DEF OverviewInductive
<1>1. ASSUME NEW v \in Views PROVE WalkFine(view[v])' /\ MemoFits(view[v])'
  <2>0. WalkFine(view[v]) /\ MemoFits(view[v]) /\ view[v] \in ViewRecord /\ view'[v] \in ViewRecord
        /\ memo \subseteq KeptRecord
    BY DEF WalksFine
  <2>1. CASE view'[v] = NoView
    <3>1. NoView.next = {} /\ NoView.read = {} /\ NoView.shown = {}
      BY DEF NoView
    <3>2. AskedOf(NoView) = {}
      BY <3>1 DEF AskedOf
    <3>3. Apart(NoView) /\ IsFiniteSet({})
      BY <3>1, <3>2, FS_EmptySet DEF Apart
    <3>4. Apart(view'[v])
      BY <2>1, <3>3
    <3> QED
      BY <2>1, <3>1, <3>2, <3>4 DEF WalkFine, MemoFits, Apart, AskedOf
  <2>2. CASE view'[v] # NoView
    <3>x. PICK x \in ViewRecord : x = view[v]
      BY <2>0
    <3>y. PICK y \in ViewRecord : y = view'[v]
      BY <2>0
    <3>1. /\ (y.pc = x.pc /\ x.pc # "idle") \/ y = x
          /\ y.next = x.next /\ y.read = x.read /\ y.shown = x.shown /\ x.reaped \subseteq y.reaped
      BY <2>2, <3>x, <3>y
    <3>2. AskedOf(y) = AskedOf(x) /\ AskedOf(x) \subseteq StatRecord
      BY <2>0, <3>1 DEF AskedOf, ViewRecord
    <3>3. Apart(y)
      BY <2>0, <3>x, <3>1, <3>2 DEF WalkFine, Apart
    <3>4. (y.pc = "idle" => y = NoView) /\ (y.pc # "store" => y.read = {})
      BY <2>0, <3>x, <3>1 DEF WalkFine
    <3>5. \A e \in AskedOf(y) : AskFine(y, e)'
      <4> SUFFICES ASSUME NEW e \in AskedOf(x) PROVE AskFine(y, e)'
        BY <3>2
      <4>1. /\ e.room \in Listed /\ e.mtime \in Nat /\ e.size \in Nat /\ e.top \in Nat
        BY <3>2 DEF StatRecord
      <4>2. AskFine(x, e)
        BY <2>0, <3>x DEF WalkFine
      <4>3. KeyFine(e.room, e.mtime, e.size, e.top)'
        BY <4>1, <4>2 DEF AskFine
      <4>4. e.top <= newest'[e.room]
        <5>1. newest[e.room] \in Nat /\ newest'[e.room] \in Nat /\ newest[e.room] <= newest'[e.room]
          BY <4>1 DEF RingsTyped, Names
        <5> QED
          BY <4>1, <4>2, <5>1 DEF AskFine
      <4>5. tail'[e.room] = <<>> => e.room \in y.reaped
        BY <2>2, <3>y, <3>1, <4>1, <4>2 DEF AskFine
      <4> QED
        BY <4>3, <4>4, <4>5 DEF AskFine
    <3>6. \A m \in y.read : KeyFine(m.entry.room, m.entry.mtime, m.entry.size, m.window.top)'
      <4> SUFFICES ASSUME NEW m \in x.read
                   PROVE  KeyFine(m.entry.room, m.entry.mtime, m.entry.size, m.window.top)'
        BY <3>1
      <4>1. /\ m.entry.room \in Listed /\ m.entry.mtime \in Nat /\ m.entry.size \in Nat
            /\ m.window.top \in Nat
        BY <2>0 DEF ViewRecord, StatRecord, WindowRecord
      <4>2. KeyFine(m.entry.room, m.entry.mtime, m.entry.size, m.window.top)
        BY <2>0, <3>x DEF WalkFine
      <4> QED
        BY <4>1, <4>2
    <3>6a. \A l \in y.shown : l.top >= l.statTop \/ (l.nicks = <<>> /\ l.room \in y.reaped)
      BY <2>0, <3>x, <3>1 DEF WalkFine
    <3>7. WalkFine(y)'
      BY <3>3, <3>4, <3>5, <3>6, <3>6a DEF WalkFine, Apart, AskedOf
    <3>8. MemoFits(y)'
      BY <2>0, <3>x, <3>1, <3>2 DEF MemoFits, Fits, AskedOf
    <3> QED
      BY <3>y, <3>7, <3>8 DEF WalkFine, MemoFits, AskFine, KeyFine, Fits, Apart, AskedOf, Since
  <2> QED
    BY <2>1, <2>2
<1>2. \A k \in memo : KeyFine(k.room, k.mtime, k.size, k.top)'
  <2> TAKE k \in memo
  <2>1. k.room \in Listed /\ k.mtime \in Nat /\ k.size \in Nat /\ k.top \in Nat
    BY DEF WalksFine, KeptRecord
  <2>2. KeyFine(k.room, k.mtime, k.size, k.top)
    BY DEF WalksFine
  <2> QED
    BY <2>1, <2>2
<1>3. ASSUME NEW v \in Views, NEW u \in Views PROVE ReadFits(view[v], view[u])'
  <2>1. NoView.next = {} /\ NoView.read = {}
    BY DEF NoView
  <2>2. ReadFits(view[v], view[u])
    BY DEF WalksFine
  <2>3. \/ view'[v] = NoView
        \/ AskedOf(view'[v]) = AskedOf(view[v]) /\ view[v].reaped \subseteq view'[v].reaped
    BY DEF AskedOf
  <2>4. view'[u] = NoView \/ view'[u].read = view[u].read
    OBVIOUS
  <2>5. AskedOf(NoView) = {}
    BY <2>1 DEF AskedOf
  <2> QED
    BY <2>1, <2>2, <2>3, <2>4, <2>5 DEF ReadFits, Fits, AskedOf
<1> QED
  BY <1>1, <1>2, <1>3 DEF WalksFine

LEMMA Ovw_NextGrain ==
  ASSUME OverviewInductive, NextGrain
  PROVE  OverviewInductive'
<1>1. /\ grain \in Nat /\ grain' = grain + 1 /\ posted' = [r \in Names |-> 0]
      /\ UNCHANGED <<tail, newest, mtime, memo, view>>
  BY DEF NextGrain, OverviewInductive, RingsTyped
<1>2. RingsTyped'
  BY <1>1 DEF OverviewInductive, RingsTyped
<1>3. ASSUME NEW r \in Listed PROVE RingFine(r)' /\ mtime[r] \in Nat /\ mtime[r] # grain'
  <2>1. mtime[r] <= grain /\ mtime[r] \in Nat /\ posted'[r] = 0 /\ PostsPerGrain \in Nat
    BY <1>1, OverviewAssumption DEF OverviewInductive, RingsTyped, RingFine, Names
  <2>2. mtime[r] <= grain' /\ mtime[r] # grain' /\ posted'[r] <= PostsPerGrain
    BY <1>1, <2>1
  <2> QED
    BY <1>1, <2>1, <2>2 DEF RingFine
<1>4. ASSUME NEW r \in Listed, NEW m \in Nat, NEW s \in Nat, NEW t \in Nat, KeyFine(r, m, s, t)
      PROVE  KeyFine(r, m, s, t)'
  <2>1. m <= mtime[r] /\ mtime[r] \in Nat /\ mtime[r] <= grain
    BY <1>3, <1>4 DEF KeyFine, OverviewInductive, RingFine
  <2>2. m # grain'
    BY <1>1, <2>1
  <2> QED
    BY <1>1, <1>4, <2>2 DEF KeyFine
<1>5. /\ view' \in [Views -> ViewRecord]
      /\ \A r \in Listed : newest[r] <= newest'[r]
  BY <1>1 DEF OverviewInductive, WalksFine, RingsTyped, Names
<1> QED
  BY <1>1, <1>2, <1>3, <1>4, <1>5, Ovw_RingStep

LEMMA Ovw_ReapIdle ==
  ASSUME OverviewInductive, NEW q \in Listed, ReapIdle(q)
  PROVE  OverviewInductive'
<1> USE DEF OverviewInductive
<1>1. /\ mtime[q] < grain /\ tail' = [tail EXCEPT ![q] = <<>>]
      /\ UNCHANGED <<newest, mtime, grain, posted, memo>>
      /\ q \in Names
  BY DEF ReapIdle, Names
<1>2. /\ tail' \in [Names -> Seq(Nicks)] /\ tail'[q] = <<>>
      /\ \A r \in Names : r # q => tail'[r] = tail[r]
  <2>1. <<>> \in Seq(Nicks)
    OBVIOUS
  <2> QED
    BY <1>1, <2>1 DEF RingsTyped
<1>3. RingsTyped'
  BY <1>1, <1>2 DEF RingsTyped
<1>4. ASSUME NEW r \in Listed PROVE RingFine(r)'
  <2>1. CASE r = q
    BY <1>1, <2>1 DEF RingFine, RingsTyped, Names
  <2>2. CASE r # q
    <3>1. r \in Names
      BY DEF Names
    <3> QED
      BY <1>1, <1>2, <2>2, <3>1 DEF RingFine
  <2> QED
    BY <2>1, <2>2
<1>5. ASSUME NEW r \in Listed, NEW m \in Nat, NEW s \in Nat, NEW t \in Nat, KeyFine(r, m, s, t)
      PROVE  KeyFine(r, m, s, t)'
  <2>0. r \in Names
    BY DEF Names
  <2>1. CASE r = q
    <3>1. m # grain
      BY <1>1, <1>5, <2>0, <2>1 DEF KeyFine, RingsTyped
    <3> QED
      BY <1>1, <1>2, <1>5, <2>1, <3>1 DEF KeyFine
  <2>2. CASE r # q
    BY <1>1, <1>2, <1>5, <2>0, <2>2 DEF KeyFine, Since
  <2> QED
    BY <2>1, <2>2
<1>6. ASSUME NEW v \in Views
      PROVE  \/ view'[v] = NoView
             \/ /\ view'[v] \in ViewRecord /\ view'[v].pc = view[v].pc /\ view[v].pc # "idle"
                /\ view'[v].next = view[v].next /\ view'[v].read = view[v].read
                /\ view'[v].shown = view[v].shown
                /\ view[v].reaped \subseteq view'[v].reaped /\ q \in view'[v].reaped
  <2>1. PICK x \in ViewRecord : x = view[v]
    BY DEF WalksFine
  <2>2. view'[v] = IF x.pc = "idle" THEN NoView ELSE [x EXCEPT !.reaped = x.reaped \cup {q}]
    BY <2>1 DEF ReapIdle
  <2>3. PICK y \in ViewRecord : y = [x EXCEPT !.reaped = x.reaped \cup {q}]
    BY <1>1 DEF ViewRecord
  <2>4. y.pc = x.pc /\ y.next = x.next /\ y.read = x.read /\ y.shown = x.shown /\ y.reaped = x.reaped \cup {q}
    BY <2>3 DEF ViewRecord
  <2> QED
    BY <2>1, <2>2, <2>3, <2>4
<1>7. view' \in [Views -> ViewRecord]
  <2>1. NoView \in ViewRecord
    BY DEF NoView, ViewRecord
  <2>2. view' = [v \in Views |-> view'[v]]
    BY DEF ReapIdle
  <2> QED
    BY <1>6, <2>1, <2>2
<1>8. \A r \in Listed : newest[r] <= newest'[r]
  BY <1>1 DEF RingsTyped, Names
<1>9. \A r \in Listed : tail'[r] = <<>> =>
         tail[r] = <<>> \/ \A v \in Views : view'[v] = NoView \/ r \in view'[v].reaped
  BY <1>2, <1>6 DEF Names
<1> QED
  BY <1>1, <1>3, <1>4, <1>5, <1>6, <1>7, <1>8, <1>9, Ovw_RingStep

LEMMA Ovw_Post ==
  ASSUME RingOutlastsGrain, OverviewInductive, NEW q \in Listed, NEW n \in Nicks, Post(q, n)
  PROVE  OverviewInductive'
<1> USE DEF OverviewInductive
<1> DEFINE half == RingRecords \div 2
           cut == SubSeq(tail[q], 1, half)
           more == IF Len(tail[q]) < RingRecords THEN <<n>> \o tail[q] ELSE <<n>> \o cut
<1>1. /\ tail' = [tail EXCEPT ![q] = more] /\ newest' = [newest EXCEPT ![q] = newest[q] + 1]
      /\ mtime' = [mtime EXCEPT ![q] = grain] /\ posted' = [posted EXCEPT ![q] = posted[q] + 1]
      /\ posted[q] < PostsPerGrain /\ UNCHANGED <<grain, memo, view>>
  BY DEF Post
<1>2. /\ half \in Nat /\ half < RingRecords /\ RingRecords \in Nat /\ PostsPerGrain \in Nat
      /\ PostsPerGrain <= RingRecords - half
  BY Ovw_HalfRing, OverviewAssumption DEF Ovw_Half, RingOutlastsGrain
<1>3. /\ q \in Names /\ tail[q] \in Seq(Nicks) /\ newest[q] \in Nat /\ mtime[q] \in Nat
      /\ grain \in Nat /\ posted[q] \in Nat /\ Len(tail[q]) \in Nat
  <2>1. q \in Names /\ tail[q] \in Seq(Nicks)
    BY DEF RingsTyped, Names
  <2> QED
    BY <2>1, LenProperties DEF RingsTyped
<1>4. /\ more \in Seq(Nicks) /\ more # <<>>
      /\ Len(more) = IF Len(tail[q]) < RingRecords THEN Len(tail[q]) + 1 ELSE half + 1
  <2>1. <<n>> \in Seq(Nicks) /\ Len(<<n>>) = 1
    OBVIOUS
  <2>2. CASE Len(tail[q]) < RingRecords
    <3>1. more = <<n>> \o tail[q]
      BY <2>2
    <3> HIDE DEF more
    <3>2. more \in Seq(Nicks) /\ Len(more) = 1 + Len(tail[q])
      BY <1>3, <2>1, <3>1, ConcatProperties
    <3> QED
      BY <1>3, <2>2, <3>2, EmptySeq
  <2>3. CASE ~(Len(tail[q]) < RingRecords)
    <3>1. cut \in Seq(Nicks) /\ Len(cut) = half
      <4>1. half <= Len(tail[q])
        BY <1>2, <1>3, <2>3
      <4> HIDE DEF half
      <4> QED
        BY <1>2, <1>3, <4>1, SubSeqProperties
    <3>2. more = <<n>> \o cut
      BY <2>3
    <3> HIDE DEF more, cut, half
    <3>3. more \in Seq(Nicks) /\ Len(more) = 1 + half
      BY <2>1, <3>1, <3>2, ConcatProperties
    <3> QED
      BY <1>2, <2>3, <3>3, EmptySeq
  <2> QED
    BY <2>2, <2>3
<1> HIDE DEF more, cut, half
<1>5. /\ tail'[q] = more /\ newest'[q] = newest[q] + 1 /\ mtime'[q] = grain /\ posted'[q] = posted[q] + 1
      /\ \A r \in Names : r # q => /\ tail'[r] = tail[r] /\ newest'[r] = newest[r]
                                   /\ mtime'[r] = mtime[r] /\ posted'[r] = posted[r]
  BY <1>1, <1>3 DEF RingsTyped
<1>6. RingsTyped'
  <2>1. newest[q] + 1 \in Nat /\ posted[q] + 1 \in Nat
    BY <1>3
  <2> QED
    BY <1>1, <1>3, <1>4, <2>1 DEF RingsTyped
<1>7. ASSUME NEW r \in Listed PROVE RingFine(r)'
  <2>1. CASE r = q
    <3>1. Len(more) <= RingRecords
      BY <1>2, <1>3, <1>4
    <3>2. /\ mtime'[q] <= grain' /\ posted'[q] <= PostsPerGrain /\ tail'[q] # <<>>
          /\ Len(tail'[q]) <= RingRecords /\ posted'[q] > 0
      BY <1>1, <1>2, <1>3, <1>4, <1>5, <3>1
    <3> QED
      BY <2>1, <3>2 DEF RingFine
  <2>2. CASE r # q
    BY <1>1, <1>5, <2>2 DEF RingFine, Names
  <2> QED
    BY <2>1, <2>2
<1>8. ASSUME NEW r \in Listed, NEW m \in Nat, NEW s \in Nat, NEW t \in Nat, KeyFine(r, m, s, t)
      PROVE  KeyFine(r, m, s, t)'
  <2>1. CASE r # q
    BY <1>1, <1>5, <1>8, <2>1 DEF KeyFine, Since, Names
  <2>2. CASE r = q
    <3>1. m <= mtime[q] /\ mtime[q] <= grain
      BY <1>8, <2>2 DEF KeyFine, RingFine
    <3>2. m <= grain
      BY <1>3, <3>1
    <3>3. CASE m # grain
      BY <1>1, <1>5, <2>2, <3>2, <3>3 DEF KeyFine
    <3>4. CASE m = grain
      <4>1. PICK o \in 0..t : Since(q, s, newest[q] - o)
        BY <1>8, <2>2, <3>4 DEF KeyFine
      <4> DEFINE d == newest[q] - o
                 w == Len(tail[q])
      <4>2. /\ o \in Nat /\ o <= t /\ d \in Int /\ d >= 0 /\ d < posted[q] /\ s <= RingRecords
            /\ w = s + d \/ w = s + d - (RingRecords - half)
            /\ mtime[q] = grain
        BY <1>3, <4>1 DEF Since, half
      <4>3. d + 1 < posted[q] + 1 /\ d + 1 < RingRecords - half
        BY <1>1, <1>2, <1>3, <4>2
      <4>4. Len(more) = s + (d + 1) \/ Len(more) = s + (d + 1) - (RingRecords - half)
        <5>1. w <= RingRecords
          BY <4>2 DEF RingFine
        <5>2. Len(more) = IF w < RingRecords THEN w + 1 ELSE half + 1
          BY <1>4
        <5>3. w \in Nat
          BY <1>3
        <5>4. d \in Nat /\ s \in Nat /\ s <= RingRecords /\ d < RingRecords - half
          BY <1>2, <4>2, <4>3
        <5> HIDE DEF w, d
        <5>5. CASE w = s + d
          BY <1>2, <5>2, <5>3, <5>4, <5>5, <5>1
        <5>6. CASE w = s + d - (RingRecords - half)
          <6>1. w < RingRecords
            BY <1>2, <5>3, <5>4, <5>6
          <6> QED
            BY <1>2, <5>2, <5>3, <5>4, <5>6, <6>1
        <5> QED
          BY <4>2, <5>5, <5>6
      <4>5. newest'[q] - o = d + 1
        BY <1>3, <1>5, <4>2
      <4>6. Since(q, s, newest[q] - o)'
        BY <1>1, <1>5, <4>2, <4>3, <4>4, <4>5 DEF Since, half
      <4>7. Len(more) = s => newest'[q] <= t
        <5>1. Len(more) # s
          BY <1>2, <4>2, <4>3, <4>4
        <5> QED
          BY <5>1
      <4> QED
        BY <1>1, <1>5, <2>2, <3>4, <4>1, <4>6, <4>7 DEF KeyFine
    <3> QED
      BY <3>3, <3>4
  <2> QED
    BY <2>1, <2>2
<1>9. \A r \in Listed : newest[r] <= newest'[r]
  <2> TAKE r \in Listed
  <2>1. r \in Names /\ newest[r] \in Nat
    BY DEF RingsTyped, Names
  <2> QED
    BY <1>3, <1>5, <2>1
<1>10. /\ view' \in [Views -> ViewRecord]
       /\ \A r \in Listed : tail'[r] = <<>> => tail[r] = <<>>
  BY <1>1, <1>4, <1>5 DEF WalksFine, Names
<1> QED
  BY <1>1, <1>6, <1>7, <1>8, <1>9, <1>10, Ovw_RingStep

\* A step of one walk, which may add to the memo.
LEMMA Ovw_ViewStep ==
  ASSUME OverviewInductive, UNCHANGED ringVars, NEW v \in Views, NEW y \in ViewRecord,
         view' = [view EXCEPT ![v] = y], WalkFine(y),
         \A k \in memo' \ memo :
            /\ k \in KeptRecord /\ KeyFine(k.room, k.mtime, k.size, k.top)
            /\ \A u \in Views : \A e \in AskedOf(view[u]) :
                  k.room = e.room /\ k.mtime = e.mtime /\ k.size = e.size
                     => Fits(view[u], e, k.top, k.nicks),
         \A e \in AskedOf(y) : \A k \in memo' :
            k.room = e.room /\ k.mtime = e.mtime /\ k.size = e.size => Fits(y, e, k.top, k.nicks),
         ReadFits(y, y), \A u \in Views : ReadFits(y, view[u]) /\ ReadFits(view[u], y)
  PROVE  OverviewInductive'
<1> USE DEF OverviewInductive
<1>1. UNCHANGED <<tail, newest, mtime, grain, posted>>
  BY DEF ringVars
<1>2. RingsTyped' /\ \A r \in Listed : RingFine(r)'
  BY <1>1 DEF RingsTyped, RingFine
<1>3. memo \subseteq KeptRecord /\ view \in [Views -> ViewRecord]
  BY DEF WalksFine
<1>4. /\ view' \in [Views -> ViewRecord] /\ view'[v] = y
      /\ \A u \in Views : u # v => view'[u] = view[u]
  BY <1>3
<1>5. memo' \subseteq KeptRecord
  BY <1>3
<1>6. \A r, m, s, t : KeyFine(r, m, s, t)' <=> KeyFine(r, m, s, t)
  BY <1>1 DEF KeyFine, Since
<1>7. \A k \in memo' : KeyFine(k.room, k.mtime, k.size, k.top)'
  BY <1>6 DEF WalksFine
<1>8. ASSUME NEW u \in Views PROVE WalkFine(view[u])'
  <2>1. PICK x \in ViewRecord : x = view'[u]
    BY <1>4
  <2>2. WalkFine(x)
    BY <1>4, <2>1 DEF WalksFine
  <2>3. \A e : AskFine(x, e)' <=> AskFine(x, e)
    BY <1>1, <1>6 DEF AskFine
  <2>4. /\ x.pc = "idle" => x = NoView
        /\ x.pc # "store" => x.read = {}
        /\ \A e \in AskedOf(x) : AskFine(x, e)'
        /\ \A m \in x.read : KeyFine(m.entry.room, m.entry.mtime, m.entry.size, m.window.top)'
        /\ \A l \in x.shown : l.top >= l.statTop \/ (l.nicks = <<>> /\ l.room \in x.reaped)
        /\ Apart(x)
    BY <1>6, <2>2, <2>3 DEF WalkFine
  <2>5. WalkFine(x)'
    BY <2>4 DEF WalkFine, Apart, AskedOf
  <2> QED
    BY <2>1, <2>5 DEF WalkFine, AskFine, KeyFine, Since, Apart, AskedOf
<1>9. ASSUME NEW u \in Views PROVE MemoFits(view[u])'
  <2>1. PICK x \in ViewRecord : x = view'[u]
    BY <1>4
  <2>2. ASSUME NEW e \in AskedOf(x), NEW k \in memo',
               k.room = e.room, k.mtime = e.mtime, k.size = e.size
        PROVE  Fits(x, e, k.top, k.nicks)
    <3>1. CASE u = v
      BY <1>4, <2>1, <2>2, <3>1
    <3>2. CASE u # v /\ k \in memo
      BY <1>4, <2>1, <2>2, <3>2 DEF WalksFine, MemoFits
    <3>3. CASE u # v /\ k \notin memo
      BY <1>4, <2>1, <2>2, <3>3
    <3> QED
      BY <3>1, <3>2, <3>3
  <2>3. MemoFits(x)'
    BY <2>2 DEF MemoFits, AskedOf, Fits
  <2> QED
    BY <2>1, <2>3 DEF MemoFits, AskedOf, Fits
<1>10. ASSUME NEW u \in Views, NEW w \in Views PROVE ReadFits(view[u], view[w])'
  <2>1. PICK x \in ViewRecord : x = view'[u]
    BY <1>4
  <2>2. PICK z \in ViewRecord : z = view'[w]
    BY <1>4
  <2>3. ReadFits(x, z)
    BY <1>4, <2>1, <2>2 DEF WalksFine
  <2>4. ReadFits(x, z)'
    BY <2>3 DEF ReadFits, AskedOf, Fits
  <2> QED
    BY <2>1, <2>2, <2>4 DEF ReadFits, AskedOf, Fits
<1> QED
  BY <1>2, <1>4, <1>5, <1>7, <1>8, <1>9, <1>10 DEF WalksFine

\* What one walk carries.
LEMMA Ovw_Walk ==
  ASSUME OverviewInductive, NEW v \in Views
  PROVE  /\ view[v] \in ViewRecord /\ WalkFine(view[v]) /\ MemoFits(view[v])
         /\ AskedOf(view[v]) \subseteq StatRecord /\ view[v].next \subseteq AskedOf(view[v])
         /\ \A u \in Views : ReadFits(view[v], view[u]) /\ ReadFits(view[u], view[v])
<1>1. /\ view[v] \in ViewRecord /\ WalkFine(view[v]) /\ MemoFits(view[v])
      /\ \A u \in Views : ReadFits(view[v], view[u]) /\ ReadFits(view[u], view[v])
  BY DEF OverviewInductive, WalksFine
<1>2. AskedOf(view[v]) \subseteq StatRecord /\ view[v].next \subseteq AskedOf(view[v])
  BY <1>1 DEF AskedOf, ViewRecord
<1> QED
  BY <1>1, <1>2

LEMMA Ovw_Typed ==
  ASSUME OverviewInductive, NEW r \in Listed
  PROVE  /\ r \in Names /\ tail[r] \in Seq(Nicks) /\ Len(tail[r]) \in Nat /\ newest[r] \in Nat
         /\ mtime[r] \in Nat /\ grain \in Nat /\ posted[r] \in Nat /\ RingFine(r)
<1>1. r \in Names /\ tail[r] \in Seq(Nicks)
  BY DEF Names, OverviewInductive, RingsTyped
<1> QED
  BY <1>1, LenProperties DEF OverviewInductive, RingsTyped

LEMMA Ovw_NoView ==
  /\ NoView \in ViewRecord /\ NoView.pc = "idle" /\ NoView.next = {} /\ NoView.read = {}
  /\ NoView.shown = {} /\ NoView.reaped = {} /\ AskedOf(NoView) = {} /\ WalkFine(NoView)
<1>1. /\ NoView \in ViewRecord /\ NoView.pc = "idle" /\ NoView.next = {} /\ NoView.read = {}
      /\ NoView.shown = {} /\ NoView.reaped = {}
  BY DEF NoView, ViewRecord
<1>2. AskedOf(NoView) = {}
  BY <1>1 DEF AskedOf
<1>3. Apart(NoView)
  BY <1>1, <1>2, FS_EmptySet DEF Apart
<1> QED
  BY <1>1, <1>2, <1>3 DEF WalkFine

LEMMA Ovw_EndView ==
  ASSUME OverviewInductive, NEW v \in Views, EndView(v)
  PROVE  OverviewInductive'
<1>1. UNCHANGED ringVars /\ memo' = memo /\ view' = [view EXCEPT ![v] = NoView]
  BY DEF EndView
<1>2. ReadFits(NoView, NoView)
  BY Ovw_NoView DEF ReadFits
<1>3. \A u \in Views : ReadFits(NoView, view[u]) /\ ReadFits(view[u], NoView)
  BY Ovw_NoView DEF ReadFits
<1> QED
  BY <1>1, <1>2, <1>3, Ovw_NoView, Ovw_ViewStep

LEMMA Ovw_WalkListed ==
  ASSUME OverviewInductive, NEW v \in Views, WalkListed(v)
  PROVE  OverviewInductive'
<1> DEFINE StatOf(r) == [room |-> r, mtime |-> mtime[r], size |-> Len(tail[r]), top |-> newest[r]]
           entries == {StatOf(r) : r \in {q \in Listed : tail[q] # <<>>}}
<1>1. PICK first \in SUBSET entries :
        view' = [view EXCEPT ![v] = [NoView EXCEPT !.pc = "show", !.next = first]]
  BY DEF WalkListed
<1>2. UNCHANGED ringVars /\ memo' = memo
  BY DEF WalkListed
<1>3. ASSUME NEW e \in first
      PROVE  /\ e \in StatRecord /\ tail[e.room] # <<>> /\ e.mtime = mtime[e.room]
             /\ e.size = Len(tail[e.room]) /\ e.top = newest[e.room]
             /\ e = StatOf(e.room)
  <2>1. PICK r \in Listed : tail[r] # <<>> /\ e = StatOf(r)
    BY <1>1
  <2>2. e.room = r /\ e.mtime = mtime[r] /\ e.size = Len(tail[r]) /\ e.top = newest[r]
    BY <2>1
  <2>3. e \in StatRecord
    BY <2>1, Ovw_Typed DEF StatRecord
  <2> QED
    BY <2>1, <2>2, <2>3
<1> HIDE DEF StatOf, entries
<1>4. PICK y \in ViewRecord : y = [NoView EXCEPT !.pc = "show", !.next = first]
  <2>1. first \subseteq StatRecord
    BY <1>3
  <2> QED
    BY <2>1 DEF NoView, ViewRecord
<1>5. y.pc = "show" /\ y.next = first /\ y.read = {} /\ y.shown = {}
  BY <1>4, Ovw_NoView DEF NoView
<1>6. AskedOf(y) = first
  BY <1>5 DEF AskedOf
<1>7. ASSUME NEW e \in first PROVE AskFine(y, e)
  <2>1. /\ e.room \in Listed /\ e.top \in Nat /\ e.size \in Nat /\ e.mtime \in Nat
    BY <1>3 DEF StatRecord
  <2>2. RingFine(e.room) /\ newest[e.room] \in Nat /\ mtime[e.room] \in Nat
    BY <2>1, Ovw_Typed
  <2>3. ASSUME e.mtime = grain PROVE \E n \in 0..e.top : Since(e.room, e.size, newest[e.room] - n)
    <3>1. newest[e.room] - e.top = 0 /\ e.top \in 0..e.top
      BY <1>3, <2>1, <2>2
    <3>2. Since(e.room, e.size, 0)
      BY <1>3, <2>1, <2>2, <2>3 DEF Since, RingFine
    <3> QED
      BY <3>1, <3>2
  <2> QED
    BY <1>3, <2>1, <2>2, <2>3 DEF AskFine, KeyFine
<1>8. Apart(y)
  BY <1>3, <1>5, <1>6, FS_EmptySet DEF Apart
<1>9. WalkFine(y)
  BY <1>5, <1>6, <1>7, <1>8 DEF WalkFine
<1>10. ASSUME NEW e \in first, NEW t \in Nat, NEW s, KeyFine(e.room, e.mtime, e.size, t)
       PROVE  Fits(y, e, t, s)
  BY <1>3, <1>10, Ovw_Typed DEF KeyFine, Fits, StatRecord
<1>11. \A e \in AskedOf(y) : \A k \in memo' :
          k.room = e.room /\ k.mtime = e.mtime /\ k.size = e.size => Fits(y, e, k.top, k.nicks)
  <2> SUFFICES ASSUME NEW e \in first, NEW k \in memo,
                      k.room = e.room, k.mtime = e.mtime, k.size = e.size
               PROVE  Fits(y, e, k.top, k.nicks)
    BY <1>2, <1>6
  <2>1. KeyFine(k.room, k.mtime, k.size, k.top) /\ k.top \in Nat
    BY DEF OverviewInductive, WalksFine, KeptRecord
  <2> QED
    BY <1>10, <2>1
<1>12. ASSUME NEW u \in Views PROVE ReadFits(y, view[u]) /\ ReadFits(view[u], y)
  <2>1. ASSUME NEW e \in first, NEW m \in view[u].read,
               m.entry.room = e.room, m.entry.mtime = e.mtime, m.entry.size = e.size
        PROVE  Fits(y, e, m.window.top, m.window.nicks)
    <3>1. KeyFine(m.entry.room, m.entry.mtime, m.entry.size, m.window.top)
      BY Ovw_Walk DEF WalkFine
    <3>2. m.window.top \in Nat
      BY Ovw_Walk DEF ViewRecord, WindowRecord
    <3> QED
      BY <1>10, <2>1, <3>1, <3>2
  <2> QED
    BY <1>5, <1>6, <2>1 DEF ReadFits
<1>13. ReadFits(y, y)
  BY <1>5 DEF ReadFits
<1>14. view' = [view EXCEPT ![v] = y]
  BY <1>1, <1>4
<1> QED
  BY <1>2, <1>9, <1>11, <1>12, <1>13, <1>14, Ovw_ViewStep

\* A line is shown for a stat that is no longer asked about.
Shows(x, y, e, t, s, line) ==
    /\ e \in AskedOf(x) /\ AskedOf(y) \subseteq AskedOf(x) \ {e}
    /\ t \in Nat /\ s \in Seq(Nicks) /\ Fits(x, e, t, s)
    /\ line.room = e.room /\ line.statTop = e.top /\ line.top = t /\ line.nicks = s
    /\ y.pc = "show" /\ y.read = {} /\ y.reaped = x.reaped /\ y.shown = x.shown \cup {line}

\* What the memo takes fits whoever may find it there.
TakesFitting ==
    \A k \in memo' \ memo :
       /\ k \in KeptRecord /\ KeyFine(k.room, k.mtime, k.size, k.top)
       /\ \A u \in Views : \A f \in AskedOf(view[u]) :
             k.room = f.room /\ k.mtime = f.mtime /\ k.size = f.size
                => Fits(view[u], f, k.top, k.nicks)

LEMMA Ovw_Shows ==
  ASSUME NEW x \in ViewRecord, WalkFine(x), NEW y \in ViewRecord,
         NEW e, NEW t, NEW s, NEW line, Shows(x, y, e, t, s, line)
  PROVE  WalkFine(y)
<1>1. /\ e \in AskedOf(x) /\ AskedOf(y) \subseteq AskedOf(x) \ {e} /\ t \in Nat /\ s \in Seq(Nicks)
      /\ Fits(x, e, t, s)
      /\ line.room = e.room /\ line.statTop = e.top /\ line.top = t /\ line.nicks = s
      /\ y.pc = "show" /\ y.read = {} /\ y.reaped = x.reaped /\ y.shown = x.shown \cup {line}
  BY DEF Shows
<1>2. IsFiniteSet(y.shown)
  <2>1. IsFiniteSet(x.shown)
    BY DEF WalkFine, Apart
  <2> QED
    BY ONLY <1>1, <2>1, FS_AddElement
<1>3. Apart(y)
  <2>1. /\ \A l, h \in x.shown : l.room = h.room => l = h
        /\ \A f, g \in AskedOf(x) : f.room = g.room => f = g
        /\ \A l \in x.shown : \A f \in AskedOf(x) : l.room # f.room
    BY DEF WalkFine, Apart
  <2>2. \A l, h \in y.shown : l.room = h.room => l = h
    BY <1>1, <2>1
  <2>3. \A l \in y.shown : \A f \in AskedOf(y) : l.room # f.room
    BY <1>1, <2>1
  <2> QED
    BY <1>1, <1>2, <2>1, <2>2, <2>3 DEF Apart
<1>4. \A f \in AskedOf(y) : AskFine(y, f)
  BY <1>1 DEF WalkFine, AskFine
<1>5. \A l \in y.shown : l.top >= l.statTop \/ (l.nicks = <<>> /\ l.room \in y.reaped)
  BY <1>1 DEF WalkFine, Fits
<1> QED
  BY <1>1, <1>3, <1>4, <1>5 DEF WalkFine

\* A walk shows a line, and leaves in the memo at most what it has read.
LEMMA Ovw_Shown ==
  ASSUME OverviewInductive, UNCHANGED ringVars, NEW v \in Views,
         NEW x \in ViewRecord, x = view[v], NEW y \in ViewRecord, view' = [view EXCEPT ![v] = y],
         NEW e, NEW t, NEW s, NEW line, Shows(x, y, e, t, s, line), TakesFitting
  PROVE  OverviewInductive'
<1>0. y.read = {} /\ y.reaped = x.reaped /\ AskedOf(y) \subseteq AskedOf(x)
  BY DEF Shows
<1>1. WalkFine(x) /\ MemoFits(x) /\ \A u \in Views : ReadFits(x, view[u]) /\ ReadFits(view[u], x)
  BY Ovw_Walk
<1>2. WalkFine(y)
  BY <1>1, Ovw_Shows
<1>3. \A f \in AskedOf(y) : \A k \in memo' :
         k.room = f.room /\ k.mtime = f.mtime /\ k.size = f.size => Fits(y, f, k.top, k.nicks)
  <2> SUFFICES ASSUME NEW f \in AskedOf(x), NEW k \in memo',
                      k.room = f.room, k.mtime = f.mtime, k.size = f.size
               PROVE  Fits(x, f, k.top, k.nicks)
    BY <1>0 DEF Fits
  <2>1. CASE k \in memo
    BY <1>1, <2>1 DEF MemoFits
  <2>2. CASE k \notin memo
    BY <2>2 DEF TakesFitting
  <2> QED
    BY <2>1, <2>2
<1>4. ReadFits(y, y) /\ \A u \in Views : ReadFits(view[u], y)
  BY <1>0 DEF ReadFits
<1>5. ASSUME NEW u \in Views PROVE ReadFits(y, view[u])
  BY <1>0, <1>1 DEF ReadFits, Fits
<1> QED
  BY <1>2, <1>3, <1>4, <1>5, Ovw_ViewStep DEF TakesFitting

LEMMA Ovw_ShowCached ==
  ASSUME OverviewInductive, NEW v \in Views, NEW e \in view[v].next, ShowCached(v, e)
  PROVE  OverviewInductive'
<1>1. PICK x \in ViewRecord : x = view[v]
  BY Ovw_Walk
<1>2. /\ WalkFine(x) /\ MemoFits(x) /\ AskedOf(x) \subseteq StatRecord
      /\ e \in x.next /\ e \in AskedOf(x) /\ e \in StatRecord /\ x.pc = "show"
  BY <1>1, Ovw_Walk DEF ShowCached
<1>3. UNCHANGED ringVars /\ memo' = memo
  BY DEF ShowCached
<1>4. PICK k \in memo :
        /\ k.room = e.room /\ k.mtime = e.mtime /\ k.size = e.size
        /\ view' = [view EXCEPT ![v].next = @ \ {e}, ![v].shown = @ \cup {Line(e, k)}]
  BY DEF ShowCached, Cached, Keyed
<1>5. k.top \in Nat /\ k.nicks \in Seq(Nicks) /\ Fits(x, e, k.top, k.nicks)
  BY <1>2, <1>4 DEF OverviewInductive, WalksFine, KeptRecord, MemoFits
<1>6. /\ Line(e, k) \in LineRecord
      /\ Line(e, k).room = e.room /\ Line(e, k).statTop = e.top
      /\ Line(e, k).top = k.top /\ Line(e, k).nicks = k.nicks
  BY <1>2, <1>5 DEF Line, LineRecord, StatRecord
<1>7. PICK y \in ViewRecord : y = [x EXCEPT !.next = x.next \ {e}, !.shown = x.shown \cup {Line(e, k)}]
  BY <1>6 DEF ViewRecord
<1>8. /\ y.pc = x.pc /\ y.next = x.next \ {e} /\ y.read = x.read /\ y.reaped = x.reaped
      /\ y.shown = x.shown \cup {Line(e, k)}
  BY <1>7 DEF ViewRecord
<1>9. view' = [view EXCEPT ![v] = y]
  BY <1>1, <1>4, <1>7 DEF OverviewInductive, WalksFine
<1>10. AskedOf(y) \subseteq AskedOf(x) \ {e} /\ y.read = {}
  BY <1>2, <1>8 DEF AskedOf, WalkFine
<1>11. Shows(x, y, e, k.top, k.nicks, Line(e, k))
  BY <1>2, <1>5, <1>6, <1>8, <1>10 DEF Shows
<1>12. TakesFitting
  BY <1>3 DEF TakesFitting
<1> QED
  BY ONLY OverviewInductive, v \in Views, x \in ViewRecord, y \in ViewRecord, <1>1, <1>3, <1>9, <1>11, <1>12, Ovw_Shown

\* A window that is read answers everyone who asked under its stat.
LEMMA Ovw_Window ==
  ASSUME OverviewInductive, NEW r \in Listed
  PROVE  /\ Window(r) \in WindowRecord
         /\ tail[r] # <<>> => Window(r).top = newest[r]
         /\ tail[r] = <<>> => Window(r).nicks = <<>>
<1>1. tail[r] \in Seq(Nicks) /\ newest[r] \in Nat /\ Len(tail[r]) \in Nat
  BY Ovw_Typed
<1>2. WindowMessages \in Nat
  BY OverviewAssumption
<1> DEFINE n == SmallerOf(WindowMessages, Len(tail[r]))
<1>3. n \in Nat /\ n <= Len(tail[r])
  BY <1>1, <1>2 DEF SmallerOf
<1>4. /\ Window(r).top = (IF tail[r] = <<>> THEN 0 ELSE newest[r])
      /\ Window(r).nicks = SubSeq(tail[r], 1, n)
      /\ Window(r) = [top |-> Window(r).top, nicks |-> Window(r).nicks]
  BY DEF Window
<1> HIDE DEF n
<1>5. SubSeq(tail[r], 1, n) \in Seq(Nicks) /\ Len(SubSeq(tail[r], 1, n)) = n
  BY <1>1, <1>3, SubSeqProperties
<1>6. ASSUME tail[r] = <<>> PROVE SubSeq(tail[r], 1, n) = <<>>
  <2>1. n = 0
    BY <1>1, <1>3, <1>6, EmptySeq
  <2> QED
    BY <1>5, <2>1, EmptySeq
<1> QED
  BY <1>1, <1>4, <1>5, <1>6 DEF WindowRecord

LEMMA Ovw_Answers ==
  ASSUME OverviewInductive, NEW u \in Views, NEW e \in AskedOf(view[u])
  PROVE  /\ e.room \in Listed
         /\ Fits(view[u], e, Window(e.room).top, Window(e.room).nicks)
         /\ KeyFine(e.room, e.mtime, e.size, Window(e.room).top)
<1>1. /\ AskFine(view[u], e) /\ e \in StatRecord
  BY Ovw_Walk DEF WalkFine
<1>2. /\ e.room \in Listed /\ e.top \in Nat /\ e.mtime \in Nat
  BY <1>1 DEF StatRecord
<1>3. /\ newest[e.room] \in Nat /\ RingFine(e.room) /\ mtime[e.room] \in Nat /\ grain \in Nat
  BY <1>2, Ovw_Typed
<1>4. /\ Window(e.room) \in WindowRecord
      /\ tail[e.room] # <<>> => Window(e.room).top = newest[e.room]
      /\ tail[e.room] = <<>> => Window(e.room).nicks = <<>>
  BY <1>2, Ovw_Window
<1>5. Fits(view[u], e, Window(e.room).top, Window(e.room).nicks)
  BY <1>1, <1>2, <1>3, <1>4 DEF AskFine, Fits
<1>6. e.mtime <= mtime[e.room] /\ e.top <= newest[e.room]
      /\ (e.mtime = grain => \E n \in 0..e.top : Since(e.room, e.size, newest[e.room] - n))
  BY <1>1 DEF AskFine, KeyFine
<1>7. ASSUME e.mtime = grain
      PROVE  \E n \in 0..Window(e.room).top : Since(e.room, e.size, newest[e.room] - n)
  <2>1. mtime[e.room] = grain
    BY <1>2, <1>3, <1>6, <1>7 DEF RingFine
  <2>2. tail[e.room] # <<>>
    BY <1>3, <2>1 DEF RingFine
  <2>3. PICK n \in 0..e.top : Since(e.room, e.size, newest[e.room] - n)
    BY <1>6, <1>7
  <2>4. n \in 0..Window(e.room).top
    BY <1>2, <1>3, <1>4, <1>6, <2>2
  <2> QED
    BY <2>3, <2>4
<1>8. tail[e.room] # <<>> => newest[e.room] <= Window(e.room).top
  BY <1>3, <1>4
<1> QED
  BY <1>2, <1>5, <1>6, <1>7, <1>8 DEF KeyFine

LEMMA Ovw_ReadWindow ==
  ASSUME OverviewInductive, NEW v \in Views, NEW e \in view[v].next, ReadWindow(v, e)
  PROVE  OverviewInductive'
<1>1. PICK x \in ViewRecord : x = view[v]
  BY Ovw_Walk
<1>2. /\ WalkFine(x) /\ MemoFits(x) /\ AskedOf(x) \subseteq StatRecord
      /\ e \in x.next /\ e \in AskedOf(x) /\ e \in StatRecord /\ x.pc = "show"
      /\ \A u \in Views : ReadFits(x, view[u])
  BY <1>1, Ovw_Walk DEF ReadWindow
<1>3. UNCHANGED ringVars /\ memo' = memo
  BY DEF ReadWindow
<1>4. PICK w \in WindowRecord : w = Window(e.room)
  BY <1>2, Ovw_Window DEF StatRecord
<1> DEFINE m == [entry |-> e, window |-> w]
<1>5. m.entry = e /\ m.window = w /\ m \in [entry : StatRecord, window : WindowRecord]
  BY <1>2
<1>6. view' = [view EXCEPT ![v].pc = "store", ![v].next = @ \ {e}, ![v].read = {m}]
  BY <1>4 DEF ReadWindow
<1> HIDE DEF m
<1>7. PICK y \in ViewRecord : y = [x EXCEPT !.pc = "store", !.next = x.next \ {e}, !.read = {m}]
  BY <1>5 DEF ViewRecord
<1>8. /\ y.pc = "store" /\ y.next = x.next \ {e} /\ y.read = {m} /\ y.reaped = x.reaped
      /\ y.shown = x.shown
  BY <1>7 DEF ViewRecord
<1>9. view' = [view EXCEPT ![v] = y]
  BY <1>1, <1>6, <1>7 DEF OverviewInductive, WalksFine
<1>10. x.read = {}
  BY <1>2 DEF WalkFine
<1>11. AskedOf(y) = AskedOf(x)
  BY <1>2, <1>5, <1>8, <1>10 DEF AskedOf
<1>12. Apart(y)
  BY <1>2, <1>5, <1>8, <1>11 DEF WalkFine, Apart
<1>13. KeyFine(e.room, e.mtime, e.size, w.top)
  BY <1>1, <1>2, <1>4, Ovw_Answers
<1>14. WalkFine(y)
  <2>1. \A f \in AskedOf(y) : AskFine(y, f)
    BY <1>2, <1>8, <1>11 DEF WalkFine, AskFine
  <2>2. \A l \in y.shown : l.top >= l.statTop \/ (l.nicks = <<>> /\ l.room \in y.reaped)
    BY <1>2, <1>8 DEF WalkFine
  <2>3. \A o \in y.read : KeyFine(o.entry.room, o.entry.mtime, o.entry.size, o.window.top)
    BY <1>5, <1>8, <1>13
  <2> QED
    BY <1>8, <1>12, <2>1, <2>2, <2>3 DEF WalkFine
<1>15. \A f \in AskedOf(y) : \A k \in memo' :
          k.room = f.room /\ k.mtime = f.mtime /\ k.size = f.size => Fits(y, f, k.top, k.nicks)
  BY <1>2, <1>3, <1>8, <1>11 DEF MemoFits, Fits
<1>16. ASSUME NEW u \in Views PROVE ReadFits(view[u], y)
  <2> SUFFICES ASSUME NEW f \in AskedOf(view[u]), e.room = f.room
               PROVE  Fits(view[u], f, w.top, w.nicks)
    BY <1>5, <1>8 DEF ReadFits
  <2>1. Fits(view[u], f, Window(f.room).top, Window(f.room).nicks)
    BY Ovw_Answers
  <2> QED
    BY <1>4, <2>1
<1>17. ReadFits(x, y)
  BY <1>1, <1>16
<1>18. ReadFits(y, y)
  BY <1>8, <1>11, <1>17 DEF ReadFits, Fits
<1>19. ASSUME NEW u \in Views PROVE ReadFits(y, view[u])
  BY <1>2, <1>8, <1>11 DEF ReadFits, Fits
<1> QED
  BY <1>3, <1>9, <1>14, <1>15, <1>16, <1>18, <1>19, Ovw_ViewStep

LEMMA Ovw_StoreWindow ==
  ASSUME OverviewInductive, NEW v \in Views, StoreWindow(v)
  PROVE  OverviewInductive'
<1>1. PICK x \in ViewRecord : x = view[v]
  BY Ovw_Walk
<1>2. PICK m \in x.read :
        /\ memo' \in Remembered(m.entry, m.window)
        /\ view' = [view EXCEPT ![v].pc = "show", ![v].read = {}, ![v].shown = @ \cup {Line(m.entry, m.window)}]
  BY <1>1 DEF StoreWindow
<1>3. UNCHANGED ringVars
  BY DEF StoreWindow
<1>4. PICK e \in StatRecord : e = m.entry
  BY <1>1 DEF ViewRecord
<1>5. PICK w \in WindowRecord : w = m.window
  BY <1>1 DEF ViewRecord
<1>6. /\ WalkFine(x) /\ e \in AskedOf(x)
      /\ \A u \in Views : ReadFits(view[u], x)
  BY <1>1, <1>4, Ovw_Walk DEF AskedOf
<1>7. KeyFine(e.room, e.mtime, e.size, w.top)
  BY <1>4, <1>5, <1>6 DEF WalkFine
<1>8. Fits(x, e, w.top, w.nicks)
  BY <1>1, <1>4, <1>5, <1>6 DEF ReadFits
<1>9. /\ Line(e, w) \in LineRecord
      /\ Line(e, w).room = e.room /\ Line(e, w).statTop = e.top
      /\ Line(e, w).top = w.top /\ Line(e, w).nicks = w.nicks
      /\ w.top \in Nat /\ w.nicks \in Seq(Nicks)
  BY DEF Line, LineRecord, StatRecord, WindowRecord
<1>10. PICK y \in ViewRecord :
         y = [x EXCEPT !.pc = "show", !.read = {}, !.shown = x.shown \cup {Line(e, w)}]
  BY <1>9 DEF ViewRecord
<1>11. /\ y.pc = "show" /\ y.next = x.next /\ y.read = {} /\ y.reaped = x.reaped
       /\ y.shown = x.shown \cup {Line(e, w)}
  BY <1>10 DEF ViewRecord
<1>12. view' = [view EXCEPT ![v] = y]
  BY <1>1, <1>2, <1>4, <1>5, <1>10 DEF OverviewInductive, WalksFine
<1>13. AskedOf(y) \subseteq AskedOf(x) \ {e}
  BY <1>2, <1>4, <1>6, <1>11 DEF AskedOf, WalkFine, Apart
<1> DEFINE kk == [room |-> e.room, mtime |-> e.mtime, size |-> e.size, top |-> w.top, nicks |-> w.nicks]
<1>14. /\ kk \in KeptRecord /\ kk.room = e.room /\ kk.mtime = e.mtime /\ kk.size = e.size
       /\ kk.top = w.top /\ kk.nicks = w.nicks
  BY <1>9 DEF KeptRecord, StatRecord
<1>15. memo' \subseteq memo \cup {kk}
  <2>1. memo' \in Remembered(e, w)
    BY <1>2, <1>4, <1>5
  <2>2. CASE Cached(e) # {}
    BY <2>1, <2>2 DEF Remembered
  <2>3. CASE Cached(e) = {}
    <3>1. PICK rest : /\ memo' = rest \cup {kk}
                      /\ rest \in IF Cardinality(memo) < MemoMax THEN {memo}
                                  ELSE {o \in SUBSET memo : Cardinality(o) = MemoMax - 1}
      BY <2>1, <2>3 DEF Remembered
    <3>2. rest \subseteq memo
      BY <3>1
    <3> QED
      BY <3>1, <3>2
  <2> QED
    BY <2>2, <2>3
<1> HIDE DEF kk
<1>16. ASSUME NEW k \in memo' \ memo
       PROVE  /\ k \in KeptRecord /\ KeyFine(k.room, k.mtime, k.size, k.top)
              /\ \A u \in Views : \A f \in AskedOf(view[u]) :
                    k.room = f.room /\ k.mtime = f.mtime /\ k.size = f.size
                       => Fits(view[u], f, k.top, k.nicks)
  <2>1. k = kk
    BY <1>15
  <2>2. ASSUME NEW u \in Views, NEW f \in AskedOf(view[u]),
               k.room = f.room, k.mtime = f.mtime, k.size = f.size
        PROVE  Fits(view[u], f, k.top, k.nicks)
    BY <1>2, <1>4, <1>5, <1>6, <1>14, <2>1, <2>2 DEF ReadFits
  <2> QED
    BY <1>7, <1>14, <2>1, <2>2
<1>17. Shows(x, y, e, w.top, w.nicks, Line(e, w))
  BY <1>6, <1>8, <1>9, <1>11, <1>13 DEF Shows
<1>18. TakesFitting
  BY <1>16 DEF TakesFitting
<1> QED
  BY ONLY OverviewInductive, v \in Views, x \in ViewRecord, y \in ViewRecord, <1>1, <1>3, <1>12, <1>17, <1>18, Ovw_Shown

\* The newest k messages of a line.
Newest(l, k) == {<<l.room, i, l.nicks[i]>> : i \in 1..k}

LEMMA Ovw_NewestSize ==
  ASSUME NEW l, NEW k \in Nat
  PROVE  IsFiniteSet(Newest(l, k)) /\ Cardinality(Newest(l, k)) = k
<1> DEFINE Of(i) == <<l.room, i, l.nicks[i]>>
           f == [i \in 1..k |-> Of(i)]
<1>1. \A i, j \in 1..k : f[i] = f[j] => i = j
  OBVIOUS
<1>2. \A i \in 1..k : f[i] \in Newest(l, k)
  BY DEF Newest
<1>3. \A m \in Newest(l, k) : \E i \in 1..k : f[i] = m
  BY DEF Newest
<1>4. f = [i \in 1..k |-> f[i]]
  OBVIOUS
<1> HIDE DEF f
<1>5. f \in Bijection(1..k, Newest(l, k))
  BY <1>1, <1>2, <1>3, <1>4, Fun_IsBij
<1>6. ExistsBijection(1..k, Newest(l, k))
  BY <1>5 DEF ExistsBijection
<1>7. IsFiniteSet(1..k) /\ Cardinality(1..k) = k
  BY FS_Interval
<1> QED
  BY <1>6, <1>7, FS_Bijection

\* Lines of different rooms: the sizes of what is taken from each add up.
LEMMA Ovw_Pool ==
  ASSUME NEW S, IsFiniteSet(S), \A l, h \in S : l.room = h.room => l = h,
         NEW n \in [S -> Nat]
  PROVE  SumFunction(n) = Cardinality(UNION {Newest(l, n[l]) : l \in S})
<1> DEFINE M == [l \in S |-> Newest(l, n[l])]
<1>1. \A l \in S : M[l] = Newest(l, n[l]) /\ n[l] \in Nat
  OBVIOUS
<1>2. UnionOver(M, S) = UNION {Newest(l, n[l]) : l \in S}
  BY DEF UnionOver
<1> HIDE DEF M
<1>3. \A l \in S : IsFiniteSet(M[l]) /\ n[l] = Cardinality(M[l])
  BY <1>1, Ovw_NewestSize
<1>4. ASSUME NEW l \in S, NEW h \in S, l # h PROVE M[l] \cap M[h] = {}
  <2>1. l.room # h.room
    BY <1>4
  <2>2. ASSUME NEW o \in Newest(l, n[l]), o \in Newest(h, n[h]) PROVE FALSE
    <3>1. PICK i \in 1..n[l] : o = <<l.room, i, l.nicks[i]>>
      BY DEF Newest
    <3>2. PICK j \in 1..n[h] : o = <<h.room, j, h.nicks[j]>>
      BY <2>2 DEF Newest
    <3> QED
      BY <2>1, <3>1, <3>2
  <2> QED
    BY <1>1, <2>2
<1>5. Cardinality(UnionOver(M, S)) = SumFunctionOnSet(n, S)
  BY <1>3, <1>4, SizeOfUnion
<1>6. DOMAIN n = S
  OBVIOUS
<1> QED
  BY <1>2, <1>5, <1>6 DEF SumFunction

LEMMA Ovw_Unanswered ==
  ASSUME NEW w \in Seq(Nicks)
  PROVE  /\ Unanswered(w) \in 0..Len(w)
         /\ \A i \in 1..Unanswered(w) : w[i] = w[1]
         /\ Unanswered(w) < Len(w) => w[Unanswered(w) + 1] # w[1]
<1> DEFINE Run(n) == /\ \A i \in 1..n : w[i] = w[1]
                     /\ n < Len(w) => w[n + 1] # w[1]
           T == {i \in 1..Len(w) : w[i] # w[1]}
<1>0. Len(w) \in Nat
  BY LenProperties
<1>1. \E n \in 0..Len(w) : Run(n)
  <2>1. CASE T = {}
    <3>1. Run(Len(w))
      BY <1>0, <2>1
    <3> QED
      BY <1>0, <3>1
  <2>2. CASE T # {}
    <3>1. T \subseteq Nat
      OBVIOUS
    <3> HIDE DEF T
    <3>2. PICK o \in T : \A y \in T : o <= y
      BY <2>2, <3>1, Least
    <3>3. o \in 1..Len(w) /\ w[o] # w[1]
      BY DEF T
    <3>4. \A i \in 1..(o - 1) : w[i] = w[1]
      <4> SUFFICES ASSUME NEW i \in 1..(o - 1), w[i] # w[1] PROVE FALSE
        OBVIOUS
      <4>1. i \in 1..Len(w) /\ i < o
        BY <1>0, <3>3
      <4>2. i \in T
        BY <4>1 DEF T
      <4> QED
        BY <1>0, <3>2, <3>3, <4>1, <4>2
    <3>5. o - 1 \in 0..Len(w) /\ (o - 1) + 1 = o
      BY <1>0, <3>3
    <3>6. Run(o - 1)
      BY <3>3, <3>4, <3>5
    <3> QED
      BY <3>5, <3>6
  <2> QED
    BY <2>1, <2>2
<1>2. Unanswered(w) = CHOOSE n \in 0..Len(w) : Run(n)
  BY DEF Unanswered
<1> HIDE DEF Run
<1>3. Unanswered(w) \in 0..Len(w) /\ Run(Unanswered(w))
  BY <1>1, <1>2
<1> QED
  BY <1>3 DEF Run

\* The figures of a listing are those of the pool of its messages.
LEMMA Ovw_Rollup ==
  ASSUME NEW shown, shown \subseteq LineRecord, IsFiniteSet(shown),
         \A l, h \in shown : l.room = h.room => l = h,
         NEW pool, pool = UNION {{<<e.room, i, e.nicks[i]>> : i \in DOMAIN e.nicks} : e \in shown}
  PROVE  Rollup(shown) =
           [messages   |-> Cardinality(pool),
            unanswered |-> Cardinality({o \in pool : \A q \in pool : (q[1] = o[1] /\ q[2] < o[2]) => q[3] = o[3]}),
            nicks      |-> Cardinality({o[3] : o \in pool})]
<1> DEFINE whole == [e \in shown |-> Len(e.nicks)]
           last == [e \in shown |-> Unanswered(e.nicks)]
<1>1. ASSUME NEW e \in shown
      PROVE  /\ e.nicks \in Seq(Nicks) /\ Len(e.nicks) \in Nat /\ DOMAIN e.nicks = 1..Len(e.nicks)
             /\ Unanswered(e.nicks) \in 0..Len(e.nicks)
  <2>1. e.nicks \in Seq(Nicks)
    BY DEF LineRecord
  <2> QED
    BY <2>1, LenProperties, Ovw_Unanswered
<1>2. whole \in [shown -> Nat] /\ last \in [shown -> Nat]
  BY <1>1
<1>3. \A e \in shown : whole[e] = Len(e.nicks) /\ last[e] = Unanswered(e.nicks)
  OBVIOUS
<1>4. Rollup(shown) =
        [messages |-> SumFunction(whole), unanswered |-> SumFunction(last),
         nicks |-> Cardinality(UNION {{e.nicks[i] : i \in DOMAIN e.nicks} : e \in shown})]
  BY DEF Rollup
<1> HIDE DEF whole, last
<1>5. \A o : o \in pool <=> \E e \in shown : \E i \in 1..Len(e.nicks) : o = <<e.room, i, e.nicks[i]>>
  BY <1>1
<1>6. UNION {Newest(l, whole[l]) : l \in shown} = pool
  BY <1>3, <1>5 DEF Newest
<1> DEFINE Ends(o) == \A q \in pool : (q[1] = o[1] /\ q[2] < o[2]) => q[3] = o[3]
<1>7. ASSUME NEW e \in shown, NEW i \in 1..Len(e.nicks)
      PROVE  Ends(<<e.room, i, e.nicks[i]>>) <=> i <= Unanswered(e.nicks)
  <2> DEFINE w == e.nicks
             o == <<e.room, i, w[i]>>
             n == Unanswered(w)
  <2>1. /\ n \in 0..Len(w) /\ Len(w) \in Nat
        /\ \A j \in 1..n : w[j] = w[1]
        /\ n < Len(w) => w[n + 1] # w[1]
    BY <1>1, Ovw_Unanswered
  <2> HIDE DEF n
  <2>2. Ends(o) <=> \A j \in 1..Len(w) : j < i => w[j] = w[i]
    <3>1. ASSUME Ends(o), NEW j \in 1..Len(w), j < i PROVE w[j] = w[i]
      <4>1. <<e.room, j, w[j]>> \in pool
        BY <1>5
      <4> QED
        BY <3>1, <4>1
    <3>2. ASSUME \A j \in 1..Len(w) : j < i => w[j] = w[i], NEW q \in pool, q[1] = o[1], q[2] < o[2]
          PROVE  q[3] = o[3]
      <4>1a. PICK h \in shown : \E j \in 1..Len(h.nicks) : q = <<h.room, j, h.nicks[j]>>
        BY <1>5
      <4>1. PICK j \in 1..Len(h.nicks) : q = <<h.room, j, h.nicks[j]>>
        BY <4>1a
      <4>2. h = e
        BY <3>2, <4>1
      <4> QED
        BY <3>2, <4>1, <4>2
    <3> QED
      BY <3>1, <3>2
  <2>3. ASSUME i <= n, NEW j \in 1..Len(w), j < i PROVE w[j] = w[i]
    <3>1. i \in 1..n /\ j \in 1..n
      BY <2>1, <2>3
    <3> QED
      BY <2>1, <3>1
  <2>4. ASSUME ~(i <= n), \A j \in 1..Len(w) : j < i => w[j] = w[i] PROVE FALSE
    <3>1. n < Len(w) /\ w[n + 1] # w[1]
      BY <2>1, <2>4
    <3>2. n + 1 <= i /\ n + 1 \in 1..Len(w) /\ 1 \in 1..Len(w)
      BY <2>1, <2>4
    <3>3. w[n + 1] = w[i]
      BY <2>4, <3>2
    <3>4. w[1] = w[i]
      BY <2>4, <3>2
    <3> QED
      BY <3>1, <3>3, <3>4
  <2> QED
    BY <2>2, <2>3, <2>4 DEF n
<1>8. UNION {Newest(l, last[l]) : l \in shown} = {o \in pool : Ends(o)}
  <2> HIDE DEF Ends
  <2>1. ASSUME NEW l \in shown, NEW o \in Newest(l, last[l]) PROVE o \in pool /\ Ends(o)
    <3>1. PICK i \in 1..last[l] : o = <<l.room, i, l.nicks[i]>>
      BY DEF Newest
    <3>2. last[l] \in 0..Len(l.nicks) /\ Len(l.nicks) \in Nat /\ last[l] = Unanswered(l.nicks)
      BY <1>1, <1>3
    <3>3. i \in 1..Len(l.nicks) /\ i <= Unanswered(l.nicks)
      BY <3>2
    <3> QED
      BY <1>5, <1>7, <3>1, <3>3
  <2>2. ASSUME NEW o \in pool, Ends(o) PROVE \E l \in shown : o \in Newest(l, last[l])
    <3>1a. PICK l \in shown : \E i \in 1..Len(l.nicks) : o = <<l.room, i, l.nicks[i]>>
      BY <1>5
    <3>1. PICK i \in 1..Len(l.nicks) : o = <<l.room, i, l.nicks[i]>>
      BY <3>1a
    <3>2. i <= Unanswered(l.nicks) /\ Unanswered(l.nicks) \in 0..Len(l.nicks) /\ last[l] = Unanswered(l.nicks)
      BY <1>1, <1>3, <1>7, <2>2, <3>1
    <3>3. i \in 1..last[l]
      BY <1>1, <3>2
    <3> QED
      BY <3>1, <3>3 DEF Newest
  <2> QED
    BY <2>1, <2>2
<1>9. UNION {{e.nicks[i] : i \in DOMAIN e.nicks} : e \in shown} = {o[3] : o \in pool}
  <2>1. ASSUME NEW e \in shown, NEW i \in DOMAIN e.nicks PROVE \E o \in pool : e.nicks[i] = o[3]
    <3>1. <<e.room, i, e.nicks[i]>> \in pool
      BY <1>1, <1>5
    <3> QED
      BY <3>1
  <2>2. ASSUME NEW o \in pool PROVE \E e \in shown : \E i \in DOMAIN e.nicks : e.nicks[i] = o[3]
    <3>1a. PICK e \in shown : \E i \in 1..Len(e.nicks) : o = <<e.room, i, e.nicks[i]>>
      BY <1>5
    <3>1. PICK i \in 1..Len(e.nicks) : o = <<e.room, i, e.nicks[i]>>
      BY <3>1a
    <3> QED
      BY <1>1, <3>1
  <2> QED
    BY <2>1, <2>2
<1>10. SumFunction(whole) = Cardinality(pool)
  BY <1>2, <1>6, Ovw_Pool
<1>11. SumFunction(last) = Cardinality({o \in pool : Ends(o)})
  BY <1>2, <1>8, Ovw_Pool
<1> QED
  BY <1>4, <1>9, <1>10, <1>11

LEMMA Ovw_Init ==
  ASSUME OverviewInit
  PROVE  OverviewInductive
<1>1. /\ tail = Start /\ newest = [r \in Names |-> Len(Start[r])] /\ mtime = [r \in Names |-> 0]
      /\ grain = 1 /\ posted = [r \in Names |-> 0] /\ memo = {} /\ view = [v \in Views |-> NoView]
  BY DEF OverviewInit
<1>2. Start \in [Names -> Seq(Nicks)] /\ PostsPerGrain \in Nat
  BY OverviewAssumption DEF Names
<1>3. \A r \in Names : Len(Start[r]) \in Nat
  BY <1>2, LenProperties
<1>4. RingsTyped
  BY <1>1, <1>2, <1>3 DEF RingsTyped
<1>5. \A r \in Listed : RingFine(r)
  BY <1>1, <1>2 DEF RingFine, Names
<1>6. view \in [Views -> ViewRecord] /\ \A v \in Views : view[v] = NoView
  BY <1>1, Ovw_NoView
<1>7. \A v \in Views : WalkFine(view[v]) /\ MemoFits(view[v])
  BY <1>6, Ovw_NoView DEF MemoFits
<1>8. \A v, u \in Views : ReadFits(view[v], view[u])
  BY <1>6, Ovw_NoView DEF ReadFits
<1> QED
  BY <1>1, <1>4, <1>5, <1>6, <1>7, <1>8 DEF OverviewInductive, WalksFine

LEMMA Ovw_Stutter ==
  ASSUME OverviewInductive, UNCHANGED overviewVars
  PROVE  OverviewInductive'
BY DEF overviewVars, OverviewInductive, RingsTyped, RingFine, WalksFine, WalkFine, MemoFits,
       ReadFits, AskFine, KeyFine, Since, Fits, Apart, AskedOf

LEMMA Ovw_Next ==
  ASSUME RingOutlastsGrain, OverviewInductive, OverviewNext
  PROVE  OverviewInductive'
<1>1. CASE NextGrain
  BY <1>1, Ovw_NextGrain
<1>2. ASSUME NEW r \in Listed, ReapIdle(r) PROVE OverviewInductive'
  BY <1>2, Ovw_ReapIdle
<1>3. ASSUME NEW r \in Listed, NEW n \in Nicks, Post(r, n) PROVE OverviewInductive'
  BY <1>3, Ovw_Post
<1>4. ASSUME NEW v \in Views, Walking(v) PROVE OverviewInductive'
  <2>1. CASE WalkListed(v)
    BY <2>1, Ovw_WalkListed
  <2>2. CASE StoreWindow(v)
    BY <2>2, Ovw_StoreWindow
  <2>3. CASE EndView(v)
    BY <2>3, Ovw_EndView
  <2>4. ASSUME NEW e \in view[v].next, ShowCached(v, e) PROVE OverviewInductive'
    BY <2>4, Ovw_ShowCached
  <2>5. ASSUME NEW e \in view[v].next, ReadWindow(v, e) PROVE OverviewInductive'
    BY <2>5, Ovw_ReadWindow
  <2> QED
    BY <1>4, <2>1, <2>2, <2>3, <2>4, <2>5 DEF Walking
<1> QED
  BY <1>1, <1>2, <1>3, <1>4 DEF OverviewNext

LEMMA Ovw_Shape ==
  ASSUME OverviewInductive
  PROVE  OverviewInv
<1>1. WindowNotOlder
  BY DEF OverviewInductive, WalksFine, WalkFine, WindowNotOlder
<1>2. RollupPools
  <2> SUFFICES ASSUME NEW v \in Views,
                      NEW shown, shown = view[v].shown,
                      NEW pool, pool = UNION {{<<e.room, i, e.nicks[i]>> : i \in DOMAIN e.nicks} : e \in shown}
               PROVE  Rollup(shown) =
                        [messages   |-> Cardinality(pool),
                         unanswered |-> Cardinality({o \in pool : \A q \in pool : (q[1] = o[1] /\ q[2] < o[2]) => q[3] = o[3]}),
                         nicks      |-> Cardinality({o[3] : o \in pool})]
    BY DEF RollupPools
  <2>1. view[v] \in ViewRecord /\ Apart(view[v])
    BY Ovw_Walk DEF WalkFine
  <2>2. shown \subseteq LineRecord /\ IsFiniteSet(shown) /\ \A l, h \in shown : l.room = h.room => l = h
    BY <2>1 DEF ViewRecord, Apart
  <2> QED
    BY <2>2, Ovw_Rollup
<1> QED
  BY <1>1, <1>2 DEF OverviewInv

\* However many rooms, walks and posts: as long as a room takes no more records in
\* one tick of the stat's clock than a rotation drops, a line of the listing is no
\* older than the stat it was ranked by, whoever filled the memo it came from
\* (`_cached_window`, whose key is mtime and size); and the rollup's sums are the
\* sizes of one pool of the shown messages (`_rollup`).
THEOREM LinesAreNotOlder == RingOutlastsGrain => (OverviewSpec => []OverviewInv)
<1> SUFFICES ASSUME RingOutlastsGrain PROVE OverviewSpec => []OverviewInv
  OBVIOUS
<1>1. OverviewInit => OverviewInductive
  BY Ovw_Init
<1>2. OverviewInductive /\ [OverviewNext]_overviewVars => OverviewInductive'
  BY Ovw_Next, Ovw_Stutter
<1>3. OverviewInductive => OverviewInv
  BY Ovw_Shape
<1> QED
  BY <1>1, <1>2, <1>3, PTL DEF OverviewSpec
=============================================================================
