---------------------------- MODULE EndingProofs ----------------------------
(***************************************************************************)
(* Proofs about the lifetime counters (Counters), for any finite number of *)
(* workers and handlers and any batch, whatever the lock, a failing        *)
(* replace or a death does: every change that landed is in one place. With *)
(* the generations of RoomLogProofs they give what the runs of MCEnding    *)
(* check on the way to every ending.                                       *)
(***************************************************************************)
EXTENDS RoomLogProofs, MCEnding, FiniteSums

DeltaRecord == [changes : SUBSET Change, messages : Nat]
PcSet == {"idle", "bump", "lock", "pop", "replace", "return"}
BumperRecord ==
    [pc : PcSet, delta : Delta]

CountTyped ==
    /\ landed \in DeltaRecord /\ counted \in DeltaRecord /\ lost \in DeltaRecord
    /\ landed.messages <= MaxMessages
    /\ pending \in [Workers -> DeltaRecord] /\ hand \in [Bumpers -> DeltaRecord]
    /\ flock \in Bumpers \cup {Unlocked}
    /\ wt \in [Bumpers -> BumperRecord]
    /\ failed \subseteq Workers

\* Changes are numbered as they land.
Consecutive(d) == \E k \in Nat : d.changes = 1..k

\* One bumper holds the lock; a batch is in the hands of that one, or of one
\* whose replace failed and is on its way back.
LockFine ==
    /\ \A t \in Bumpers : (wt[t].pc \in {"pop", "replace"}) <=> flock = t
    /\ \A t \in Bumpers : hand[t] # Nothing => wt[t].pc \in {"replace", "return"}
    /\ \A t \in Bumpers : wt[t].pc = "return" => WorkerOf[t] \in failed

\* What a bumper deposited is counted, in the bucket of its worker, or in the
\* hand of a bumper of that worker, which flushes for it.
DepositsFound ==
    \A t \in Bumpers :
       (wt[t].pc \in {"lock", "pop"} /\ WorkerOf[t] \notin failed) =>
       \A k \in wt[t].delta.changes :
          \/ k \in counted.changes
          \/ k \in pending[WorkerOf[t]].changes
          \/ \E u \in Bumpers : WorkerOf[u] = WorkerOf[t] /\ k \in hand[u].changes

\* A batch in hand holds what its bumper brought.
BatchHolds ==
    \A t \in Bumpers :
       (wt[t].pc = "replace" /\ WorkerOf[t] \notin failed) =>
       wt[t].delta.changes \subseteq counted.changes \cup hand[t].changes

\* What waits, place by place.
WaitsOf(buckets, hands, writers) ==
    [p \in Places |->
        CASE p[1] = "bucket" -> buckets[p[2]]
          [] p[1] = "hand"   -> hands[p[2]]
          [] p[1] = "write"  -> IF writers[p[2]].pc = "bump" THEN writers[p[2]].delta
                                ELSE Nothing]
Waits == WaitsOf(pending, hand, wt)
MessagesOf(w) == [p \in Places |-> w[p].messages]

\* CountedOnce, of a function of what waits: no cardinalities, and one sum.
OnePlace(l, c, x, w) ==
    /\ c.changes \cup x.changes \subseteq l.changes
    /\ c.changes \cap x.changes = {}
    /\ \A p \in Places : w[p].changes \subseteq l.changes \ (c.changes \cup x.changes)
    /\ \A k \in l.changes \ (c.changes \cup x.changes) : \E p \in Places : k \in w[p].changes
    /\ \A p \in Places : \A q \in Places : w[p].changes \cap w[q].changes # {} => p = q
    /\ l.messages = c.messages + x.messages + SumFunctionOnSet(MessagesOf(w), Places)

CountInductive ==
    /\ CountTyped
    /\ Consecutive(landed)
    /\ LockFine
    /\ DepositsFound
    /\ BatchHolds
    /\ OnePlace(landed, counted, lost, Waits)

---------------------------------------------------------------------------
LEMMA Cnt_Record ==
  ASSUME NEW r \in BumperRecord
  PROVE  r.pc \in PcSet /\ r.delta \in DeltaRecord
<1>1. r.pc \in PcSet /\ r.delta \in Delta
  BY DEF BumperRecord, PcSet
<1>2. PICK k \in SUBSET Change : k = r.delta.changes
  BY <1>1 DEF Delta
<1>3. PICK n \in Nat : n = r.delta.messages
  BY <1>1 DEF Delta
<1>4. r.delta = [changes |-> k, messages |-> n]
  BY <1>1, <1>2, <1>3 DEF Delta
<1> QED
  BY <1>1, <1>4 DEF DeltaRecord

LEMMA Cnt_PlacesFinite == IsFiniteSet(Places)
<1>1. IsFiniteSet({"bucket"}) /\ IsFiniteSet({"hand", "write"})
  <2>1. IsFiniteSet({"bucket"}) /\ IsFiniteSet({"hand"})
    BY FS_Singleton
  <2>2. IsFiniteSet({"hand"} \cup {"write"})
    BY <2>1, FS_AddElement
  <2>3. {"hand"} \cup {"write"} = {"hand", "write"}
    OBVIOUS
  <2> QED
    BY <2>1, <2>2, <2>3
<1>2. IsFiniteSet({"bucket"} \X Workers)
  BY <1>1, FS_Product, CountersAssumption
<1>3. IsFiniteSet({"hand", "write"} \X Bumpers)
  BY <1>1, FS_Product, CountersAssumption
<1> QED
  BY <1>2, <1>3, FS_Union DEF Places

\* The three kinds of places.
LEMMA Cnt_Places ==
  /\ \A w \in Workers : <<"bucket", w>> \in Places
  /\ \A t \in Bumpers : <<"hand", t>> \in Places /\ <<"write", t>> \in Places
  /\ \A p \in Places : \/ \E w \in Workers : p = <<"bucket", w>>
                       \/ \E t \in Bumpers : p = <<"hand", t>> \/ p = <<"write", t>>
BY DEF Places

LEMMA Cnt_Waits ==
  ASSUME NEW g, NEW h, NEW s
  PROVE  /\ \A w \in Workers : WaitsOf(g, h, s)[<<"bucket", w>>] = g[w]
         /\ \A t \in Bumpers : WaitsOf(g, h, s)[<<"hand", t>>] = h[t]
         /\ \A t \in Bumpers : WaitsOf(g, h, s)[<<"write", t>>]
                                  = IF s[t].pc = "bump" THEN s[t].delta ELSE Nothing
<1>1. \A w \in Workers : WaitsOf(g, h, s)[<<"bucket", w>>] = g[w]
  BY Cnt_Places DEF WaitsOf
<1>2. \A t \in Bumpers : WaitsOf(g, h, s)[<<"hand", t>>] = h[t]
  BY Cnt_Places DEF WaitsOf
<1>3. \A t \in Bumpers : WaitsOf(g, h, s)[<<"write", t>>]
                             = IF s[t].pc = "bump" THEN s[t].delta ELSE Nothing
  BY Cnt_Places DEF WaitsOf
<1> QED
  BY <1>1, <1>2, <1>3

LEMMA Cnt_WaitsNow ==
  /\ \A w \in Workers : Waits[<<"bucket", w>>] = pending[w]
  /\ \A t \in Bumpers : Waits[<<"hand", t>>] = hand[t]
  /\ \A t \in Bumpers : Waits[<<"write", t>>] = IF wt[t].pc = "bump" THEN wt[t].delta ELSE Nothing
<1>1. ASSUME NEW w \in Workers PROVE Waits[<<"bucket", w>>] = pending[w]
  BY Cnt_Waits DEF Waits
<1>2. ASSUME NEW t \in Bumpers PROVE Waits[<<"hand", t>>] = hand[t]
  BY Cnt_Waits DEF Waits
<1>3. ASSUME NEW t \in Bumpers
      PROVE  Waits[<<"write", t>>] = IF wt[t].pc = "bump" THEN wt[t].delta ELSE Nothing
  BY Cnt_Waits DEF Waits
<1> QED
  BY <1>1, <1>2, <1>3

LEMMA Cnt_WaitsIsFunction ==
  ASSUME NEW g, NEW h, NEW s
  PROVE  WaitsOf(g, h, s) = [p \in Places |-> WaitsOf(g, h, s)[p]]
<1> DEFINE W == WaitsOf(g, h, s)
           E(p) == CASE p[1] = "bucket" -> g[p[2]]
                     [] p[1] = "hand"   -> h[p[2]]
                     [] p[1] = "write"  -> IF s[p[2]].pc = "bump" THEN s[p[2]].delta
                                           ELSE Nothing
<1>1. W = [p \in Places |-> E(p)]
  BY DEF WaitsOf
<1> HIDE DEF E, W
<1>2. \A p \in Places : W[p] = E(p)
  BY <1>1
<1>3. W = [p \in Places |-> W[p]]
  BY <1>1, <1>2
<1> QED
  BY <1>3 DEF W

LEMMA Cnt_WaitsTyped ==
  ASSUME NEW g \in [Workers -> DeltaRecord], NEW h \in [Bumpers -> DeltaRecord],
         NEW s \in [Bumpers -> BumperRecord]
  PROVE  WaitsOf(g, h, s) \in [Places -> DeltaRecord]
<1>0. Nothing \in DeltaRecord
  BY DEF Nothing, DeltaRecord
<1> DEFINE W == WaitsOf(g, h, s)
<1>1. \A p \in Places : W[p] \in DeltaRecord
  <2> TAKE p \in Places
  <2>1. CASE \E w \in Workers : p = <<"bucket", w>>
    BY <2>1, Cnt_Waits
  <2>2. CASE \E t \in Bumpers : p = <<"hand", t>>
    BY <2>2, Cnt_Waits
  <2>3. CASE \E t \in Bumpers : p = <<"write", t>>
    <3>1. PICK t \in Bumpers : p = <<"write", t>>
      BY <2>3
    <3>2. s[t].delta \in DeltaRecord
      BY Cnt_Record
    <3> QED
      BY <1>0, <3>1, <3>2, Cnt_Waits
  <2> QED
    BY <2>1, <2>2, <2>3, Cnt_Places
<1>2. W = [p \in Places |-> W[p]]
  BY Cnt_WaitsIsFunction
<1> QED
  BY <1>1, <1>2

\* The places that change are named; the others wait as they did.
LEMMA Cnt_WaitsChange ==
  ASSUME NEW g, NEW h, NEW s, NEW g2, NEW h2, NEW s2, NEW p \in Places,
         \A w \in Workers : p = <<"bucket", w>> => g2[w] = g[w],
         \A t \in Bumpers : p = <<"hand", t>> => h2[t] = h[t],
         \A t \in Bumpers : p = <<"write", t>> =>
            \/ s2[t] = s[t]
            \/ s2[t].pc # "bump" /\ s[t].pc # "bump"
  PROVE  WaitsOf(g2, h2, s2)[p] = WaitsOf(g, h, s)[p]
<1>1. CASE \E w \in Workers : p = <<"bucket", w>>
  BY <1>1, Cnt_Waits
<1>2. CASE \E t \in Bumpers : p = <<"hand", t>>
  BY <1>2, Cnt_Waits
<1>3. CASE \E t \in Bumpers : p = <<"write", t>>
  BY <1>3, Cnt_Waits
<1> QED
  BY <1>1, <1>2, <1>3, Cnt_Places

LEMMA Cnt_Summable ==
  ASSUME NEW w \in [Places -> DeltaRecord]
  PROVE  /\ Summable(MessagesOf(w), Places) /\ MessagesOf(w) \in [Places -> Nat]
         /\ \A p \in Places : MessagesOf(w)[p] = w[p].messages
BY Cnt_PlacesFinite DEF Summable, MessagesOf, DeltaRecord

\* What places had together is moved to one of the others.
Gathered(w, M, q, y) ==
    \A p \in Places :
       /\ y[p].changes = IF p = q THEN w[q].changes \cup UNION {w[m].changes : m \in M}
                         ELSE IF p \in M THEN {} ELSE w[p].changes
       /\ y[p].messages = IF p = q THEN w[p].messages + SumFunctionOnSet(MessagesOf(w), M)
                          ELSE IF p \in M THEN 0 ELSE w[p].messages

LEMMA Cnt_Moved ==
  ASSUME NEW l, NEW c, NEW x, NEW w \in [Places -> DeltaRecord], OnePlace(l, c, x, w),
         NEW M \in SUBSET Places, NEW q \in Places \ M,
         NEW y \in [Places -> DeltaRecord], Gathered(w, M, q, y)
  PROVE  OnePlace(l, c, x, y)
<1> DEFINE G == UNION {w[m].changes : m \in M}
<1>0. \A k : k \in G <=> \E m \in M : k \in w[m].changes
  OBVIOUS
<1>1. \A p \in Places : y[p].changes = IF p = q THEN w[q].changes \cup G
                                       ELSE IF p \in M THEN {} ELSE w[p].changes
  BY DEF Gathered
<1> HIDE DEF G
<1>2. SumFunctionOnSet(MessagesOf(y), Places) = SumFunctionOnSet(MessagesOf(w), Places)
  <2>2. \A p \in Places : MessagesOf(y)[p] =
            IF p = q THEN MessagesOf(w)[p] + SumFunctionOnSet(MessagesOf(w), M)
            ELSE IF p \in M THEN 0 ELSE MessagesOf(w)[p]
    <3>1. \A p \in Places : y[p].messages =
              IF p = q THEN w[p].messages + SumFunctionOnSet(MessagesOf(w), M)
              ELSE IF p \in M THEN 0 ELSE w[p].messages
      BY DEF Gathered
    <3> QED
      BY <3>1, Cnt_Summable
  <2>3. Summable(MessagesOf(w), Places)
    BY Cnt_Summable
  <2> QED
    BY <2>2, <2>3, SumMove
<1>3. \A p \in Places : y[p].changes \subseteq l.changes \ (c.changes \cup x.changes)
  BY <1>0, <1>1 DEF OnePlace
<1>4. \A k \in l.changes \ (c.changes \cup x.changes) : \E p \in Places : k \in y[p].changes
  <2> TAKE k \in l.changes \ (c.changes \cup x.changes)
  <2>1. PICK p \in Places : k \in w[p].changes
    BY DEF OnePlace
  <2>2. CASE p \in M \cup {q}
    BY <1>0, <1>1, <2>1, <2>2
  <2>3. CASE p \notin M \cup {q}
    BY <1>1, <2>1, <2>3
  <2> QED
    BY <2>2, <2>3
<1>5. \A p \in Places : \A r \in Places : y[p].changes \cap y[r].changes # {} => p = r
  <2> TAKE p \in Places
  <2> TAKE r \in Places
  <2> HAVE y[p].changes \cap y[r].changes # {}
  <2>1. PICK k : k \in y[p].changes /\ k \in y[r].changes
    OBVIOUS
  <2>2. \A s \in Places : k \in y[s].changes =>
           \E m \in Places : /\ k \in w[m].changes /\ (m \in M \cup {q} <=> s = q)
                             /\ (s # q => m = s)
    <3> TAKE s \in Places
    <3> HAVE k \in y[s].changes
    <3>1. CASE s = q
      <4>1. k \in w[q].changes \/ \E m \in M : k \in w[m].changes
        BY <1>0, <1>1, <3>1
      <4> QED
        BY <3>1, <4>1
    <3>2. CASE s # q
      <4>1. s \notin M /\ k \in w[s].changes
        BY <1>1, <3>2
      <4> QED
        BY <3>2, <4>1
    <3> QED
      BY <3>1, <3>2
  <2>3. PICK m \in Places : k \in w[m].changes /\ (m \in M \cup {q} <=> p = q) /\ (p # q => m = p)
    BY <2>1, <2>2
  <2>4. PICK n \in Places : k \in w[n].changes /\ (n \in M \cup {q} <=> r = q) /\ (r # q => n = r)
    BY <2>1, <2>2
  <2>5. m = n
    BY <2>3, <2>4 DEF OnePlace
  <2> QED
    BY <2>3, <2>4, <2>5
<1> QED
  BY <1>2, <1>3, <1>4, <1>5 DEF OnePlace

\* What places had together is settled: counted or lost.
Cleared(w, M, y) == \A p \in Places : y[p] = IF p \in M THEN Nothing ELSE w[p]
Gains(w, M, c, e) ==
    /\ e.changes = c.changes \cup UNION {w[m].changes : m \in M}
    /\ e.messages = c.messages + SumFunctionOnSet(MessagesOf(w), M)

LEMMA Cnt_Settled ==
  ASSUME NEW l \in DeltaRecord, NEW c \in DeltaRecord, NEW x \in DeltaRecord,
         NEW w \in [Places -> DeltaRecord], OnePlace(l, c, x, w),
         NEW M \in SUBSET Places,
         NEW y \in [Places -> DeltaRecord], Cleared(w, M, y),
         NEW e \in DeltaRecord, NEW z \in DeltaRecord,
         (z = x /\ Gains(w, M, c, e)) \/ (e = c /\ Gains(w, M, x, z))
  PROVE  OnePlace(l, e, z, y)
<1> DEFINE G == UNION {w[m].changes : m \in M}
<1>0. \A k : k \in G <=> \E m \in M : k \in w[m].changes
  OBVIOUS
<1>1. \A p \in Places : y[p].changes = IF p \in M THEN {} ELSE w[p].changes
  BY DEF Cleared, Nothing
<1>2. /\ SumFunctionOnSet(MessagesOf(w), Places)
            = SumFunctionOnSet(MessagesOf(w), M) + SumFunctionOnSet(MessagesOf(y), Places)
      /\ SumFunctionOnSet(MessagesOf(w), M) \in Int /\ SumFunctionOnSet(MessagesOf(y), Places) \in Int
  <2>1. \A p \in Places : y[p].messages = IF p \in M THEN 0 ELSE w[p].messages
    BY DEF Cleared, Nothing
  <2>2. \A p \in Places : MessagesOf(y)[p] = IF p \in M THEN 0 ELSE MessagesOf(w)[p]
    BY <2>1, Cnt_Summable
  <2>3. Summable(MessagesOf(w), Places)
    BY Cnt_Summable
  <2> QED
    BY <2>2, <2>3, SumClear
<1>3. l.messages = e.messages + z.messages + SumFunctionOnSet(MessagesOf(y), Places)
  <2>1. l.messages = c.messages + x.messages + SumFunctionOnSet(MessagesOf(w), Places)
    BY DEF OnePlace
  <2>2. l.messages \in Nat /\ c.messages \in Nat /\ x.messages \in Nat
    BY DEF DeltaRecord
  <2>3. e.messages + z.messages = c.messages + x.messages + SumFunctionOnSet(MessagesOf(w), M)
    <3>1. \/ z.messages = x.messages /\ e.messages = c.messages + SumFunctionOnSet(MessagesOf(w), M)
          \/ e.messages = c.messages /\ z.messages = x.messages + SumFunctionOnSet(MessagesOf(w), M)
      BY DEF Gains
    <3> QED
      BY <1>2, <2>2, <3>1
  <2>4. e.messages \in Nat /\ z.messages \in Nat
    BY DEF DeltaRecord
  <2> QED
    BY <1>2, <2>1, <2>2, <2>3, <2>4
<1>4. /\ e.changes \cup z.changes = c.changes \cup x.changes \cup G
      /\ \/ e.changes = c.changes \cup G /\ z.changes = x.changes
         \/ z.changes = x.changes \cup G /\ e.changes = c.changes
  BY DEF Gains
<1> HIDE DEF G
<1>5. \A k \in G : k \in l.changes /\ k \notin c.changes /\ k \notin x.changes
  BY <1>0 DEF OnePlace
<1>6. \A k \in G : \A p \in Places \ M : k \notin w[p].changes
  <2> TAKE k \in G
  <2> TAKE p \in Places \ M
  <2>1. PICK m \in M : k \in w[m].changes
    BY <1>0
  <2>2. m # p /\ m \in Places
    OBVIOUS
  <2> QED
    BY <2>1, <2>2 DEF OnePlace
<1>7. \A k \in l.changes \ (c.changes \cup x.changes) :
         k \notin G => \E p \in Places : p \notin M /\ k \in w[p].changes
  BY <1>0 DEF OnePlace
<1>8. e.changes \cup z.changes \subseteq l.changes /\ e.changes \cap z.changes = {}
  BY <1>4, <1>5 DEF OnePlace
<1>9. \A p \in Places : y[p].changes \subseteq l.changes \ (e.changes \cup z.changes)
  BY <1>1, <1>4, <1>6 DEF OnePlace
<1>10. \A k \in l.changes \ (e.changes \cup z.changes) : \E p \in Places : k \in y[p].changes
  BY <1>1, <1>4, <1>7
<1>11. \A p \in Places : \A r \in Places : y[p].changes \cap y[r].changes # {} => p = r
  BY <1>1 DEF OnePlace
<1> QED
  BY <1>3, <1>8, <1>9, <1>10, <1>11 DEF OnePlace

\* A write lands: what it brings is new, and waits with its writer.
LEMMA Cnt_Landed ==
  ASSUME NEW l \in DeltaRecord, NEW c \in DeltaRecord, NEW x \in DeltaRecord,
         NEW w \in [Places -> DeltaRecord], OnePlace(l, c, x, w),
         NEW q \in Places, w[q] = Nothing, NEW d \in DeltaRecord,
         d.changes \cap l.changes = {}, NEW e \in DeltaRecord, e = Plus(l, d),
         NEW y \in [Places -> DeltaRecord],
         \A p \in Places : y[p] = IF p = q THEN d ELSE w[p]
  PROVE  OnePlace(e, c, x, y)
<1>1. /\ e.changes = l.changes \cup d.changes /\ e.messages = l.messages + d.messages
      /\ w[q].changes = {} /\ w[q].messages = 0
  BY DEF Plus, Nothing
<1>2. d.messages \in Nat /\ l.messages \in Nat /\ c.messages \in Nat /\ x.messages \in Nat
  BY DEF DeltaRecord
<1>3. SumFunctionOnSet(MessagesOf(y), Places) = SumFunctionOnSet(MessagesOf(w), Places) + d.messages
      /\ SumFunctionOnSet(MessagesOf(w), Places) \in Int
  <2>1. \A p \in Places : MessagesOf(y)[p] = y[p].messages /\ MessagesOf(w)[p] = w[p].messages
    BY Cnt_Summable
  <2>2. \A p \in Places : w[p].messages \in Nat
    BY DEF DeltaRecord
  <2>3. \A p \in Places : MessagesOf(y)[p] = IF p = q THEN MessagesOf(w)[p] + d.messages ELSE MessagesOf(w)[p]
    BY <1>1, <1>2, <2>1, <2>2
  <2>4. Summable(MessagesOf(w), Places) /\ d.messages \in Int
    BY <1>2, Cnt_Summable
  <2>5. SumFunctionOnSet(MessagesOf(w), Places) \in Int
    BY <2>4, SumType
  <2>6. SumFunctionOnSet(MessagesOf(y), Places) = SumFunctionOnSet(MessagesOf(w), Places) + d.messages
    BY <2>3, <2>4, SumRaise
  <2> QED
    BY <2>5, <2>6
<1>4. e.messages = c.messages + x.messages + SumFunctionOnSet(MessagesOf(y), Places)
  <2>1. l.messages = c.messages + x.messages + SumFunctionOnSet(MessagesOf(w), Places)
    BY DEF OnePlace
  <2> QED
    BY <1>1, <1>2, <1>3, <2>1
<1>5. \A p \in Places : y[p].changes = IF p = q THEN d.changes ELSE w[p].changes
  OBVIOUS
<1>6. \A p \in Places : y[p].changes \subseteq e.changes \ (c.changes \cup x.changes)
  BY <1>1, <1>5 DEF OnePlace
<1>7. \A k \in e.changes \ (c.changes \cup x.changes) : \E p \in Places : k \in y[p].changes
  <2> TAKE k \in e.changes \ (c.changes \cup x.changes)
  <2>1. CASE k \in d.changes
    BY <1>5, <2>1
  <2>2. CASE k \notin d.changes
    <3>1. PICK p \in Places : k \in w[p].changes
      BY <1>1, <2>2 DEF OnePlace
    <3>2. p # q
      BY <1>1, <3>1
    <3> QED
      BY <1>5, <3>1, <3>2
  <2> QED
    BY <2>1, <2>2
<1>8. \A p \in Places : \A r \in Places : y[p].changes \cap y[r].changes # {} => p = r
  BY <1>5 DEF OnePlace
<1>9. c.changes \cup x.changes \subseteq e.changes /\ c.changes \cap x.changes = {}
  BY <1>1 DEF OnePlace
<1> QED
  BY <1>4, <1>6, <1>7, <1>8, <1>9 DEF OnePlace

---------------------------------------------------------------------------
\* The steps.

LEMMA Cnt_NothingFits ==
  Nothing \in DeltaRecord /\ Nothing \in Delta /\ WriterIdle \in BumperRecord
<1>1. 0 \in 0..MaxMessages
  BY CountersAssumption
<1>2. Nothing \in DeltaRecord /\ Nothing \in Delta
  BY <1>1 DEF Nothing, DeltaRecord, Delta
<1> QED
  BY <1>2 DEF WriterIdle, BumperRecord, PcSet

LEMMA Cnt_Goto ==
  ASSUME wt \in [Bumpers -> BumperRecord], NEW t \in Bumpers, NEW to \in PcSet, WriterGoto(t, to)
  PROVE  /\ wt' \in [Bumpers -> BumperRecord]
         /\ wt'[t].pc = to /\ wt'[t].delta = wt[t].delta
         /\ \A u \in Bumpers : u # t => wt'[u] = wt[u]
<1>1. PICK r \in BumperRecord : r = wt[t]
  OBVIOUS
<1>2. PICK y \in BumperRecord : y = [r EXCEPT !.pc = to]
  BY DEF BumperRecord, PcSet
<1>3. y.pc = to /\ y.delta = r.delta
  BY <1>2 DEF BumperRecord
<1>4. wt' = [wt EXCEPT ![t] = y]
  BY <1>1, <1>2 DEF WriterGoto
<1> QED
  BY <1>1, <1>3, <1>4

LEMMA Cnt_Done ==
  ASSUME wt \in [Bumpers -> BumperRecord], NEW t \in Bumpers, WriterDone(t)
  PROVE  /\ wt' \in [Bumpers -> BumperRecord]
         /\ wt'[t].pc = "idle" /\ wt'[t].delta = Nothing
         /\ \A u \in Bumpers : u # t => wt'[u] = wt[u]
BY Cnt_NothingFits DEF WriterDone, WriterIdle

LEMMA Cnt_PlusFits ==
  ASSUME NEW d \in DeltaRecord, NEW e \in DeltaRecord
  PROVE  /\ Plus(d, e) \in DeltaRecord
         /\ Plus(d, e).changes = d.changes \cup e.changes
         /\ Plus(d, e).messages = d.messages + e.messages
         /\ Plus(d, e) = [changes |-> d.changes \cup e.changes, messages |-> d.messages + e.messages]
BY DEF Plus, DeltaRecord

LEMMA Cnt_PlusNothing ==
  ASSUME NEW d \in DeltaRecord
  PROVE  Plus(Nothing, d) = d
<1>1. PICK k \in SUBSET Change : k = d.changes
  BY DEF DeltaRecord
<1>2. PICK n \in Nat : n = d.messages
  BY DEF DeltaRecord
<1>3. d = [changes |-> k, messages |-> n]
  BY <1>1, <1>2 DEF DeltaRecord
<1>4. {} \cup k = k /\ 0 + n = n
  OBVIOUS
<1> QED
  BY <1>3, <1>4 DEF Plus, Nothing

\* A move from one place to another.
LEMMA Cnt_MovedOne ==
  ASSUME NEW l, NEW c, NEW x, NEW w \in [Places -> DeltaRecord], OnePlace(l, c, x, w),
         NEW m \in Places, NEW q \in Places, m # q,
         NEW y \in [Places -> DeltaRecord],
         y[q] = Plus(w[q], w[m]), y[m] = Nothing,
         \A p \in Places : p # q /\ p # m => y[p] = w[p]
  PROVE  OnePlace(l, c, x, y)
<1>1. SumFunctionOnSet(MessagesOf(w), {m}) = w[m].messages
  <2>1. MessagesOf(w)[m] = w[m].messages /\ w[m].messages \in Int
    BY Cnt_Summable DEF DeltaRecord
  <2> QED
    BY <2>1, SumSingle
<1>3. y[q].changes = w[q].changes \cup w[m].changes /\ y[q].messages = w[q].messages + w[m].messages
      /\ y[m].changes = {} /\ y[m].messages = 0
  BY DEF Plus, Nothing
<1>4. UNION {w[n].changes : n \in {m}} = w[m].changes
  OBVIOUS
<1>5. Gathered(w, {m}, q, y)
  <2> SUFFICES ASSUME NEW p \in Places
               PROVE  /\ y[p].changes = IF p = q THEN w[q].changes \cup UNION {w[n].changes : n \in {m}}
                                        ELSE IF p \in {m} THEN {} ELSE w[p].changes
                      /\ y[p].messages = IF p = q THEN w[p].messages + SumFunctionOnSet(MessagesOf(w), {m})
                                         ELSE IF p \in {m} THEN 0 ELSE w[p].messages
    BY DEF Gathered
  <2>1. y[p].changes = IF p = q THEN w[q].changes \cup w[m].changes
                       ELSE IF p \in {m} THEN {} ELSE w[p].changes
    BY <1>3
  <2>2. y[p].messages = IF p = q THEN w[p].messages + w[m].messages
                        ELSE IF p \in {m} THEN 0 ELSE w[p].messages
    BY <1>3
  <2> QED
    BY <1>1, <1>4, <2>1, <2>2
<1>6. {m} \in SUBSET Places /\ q \in Places \ {m}
  OBVIOUS
<1> QED
  BY <1>5, <1>6, Cnt_Moved

LEMMA Cnt_UpTo ==
  ASSUME NEW k \in Nat
  PROVE  Cardinality(1..k) = k
<1>1. 1 \in Int /\ k \in Int
  OBVIOUS
<1>2. Cardinality(1..k) = IF 1 > k THEN 0 ELSE k - 1 + 1
  BY <1>1, FS_Interval
<1> QED
  BY <1>2

LEMMA Cnt_LandWrite ==
  ASSUME CountInductive, NEW t \in Bumpers, LandWrite(t)
  PROVE  CountInductive'
<1> USE DEF CountInductive, CountTyped
<1>1. PICK d \in {[Nothing EXCEPT !.changes = {Cardinality(landed.changes) + 1}],
                  [Nothing EXCEPT !.messages = 1]} :
          /\ d.changes \subseteq Change
          /\ landed.messages + d.messages <= MaxMessages
          /\ landed' = Plus(landed, d)
          /\ Bump(t, d)
  BY DEF LandWrite
<1>2. PICK k \in Nat : landed.changes = 1..k
  BY DEF Consecutive
<1>3. Cardinality(landed.changes) = k
  BY <1>2, Cnt_UpTo
<1>4. d \in DeltaRecord /\ (d.changes = {} \/ d.changes = {k + 1})
  <2>1. CASE d = [Nothing EXCEPT !.changes = {Cardinality(landed.changes) + 1}]
    BY <1>1, <1>3, <2>1 DEF Nothing, DeltaRecord
  <2>2. CASE d = [Nothing EXCEPT !.messages = 1]
    BY <2>2 DEF Nothing, DeltaRecord
  <2> QED
    BY <2>1, <2>2
<1>5. landed' \in DeltaRecord /\ landed'.changes = landed.changes \cup d.changes
      /\ landed'.messages = landed.messages + d.messages
  BY <1>1, <1>4, Cnt_PlusFits
<1>6. Consecutive(landed)'
  <2>1. CASE d.changes = {}
    BY <1>2, <1>5, <2>1 DEF Consecutive
  <2>2. CASE d.changes = {k + 1}
    <3>1. landed'.changes = 1..(k + 1) /\ k + 1 \in Nat
      BY <1>2, <1>5, <2>2
    <3> QED
      BY <3>1 DEF Consecutive
  <2> QED
    BY <1>4, <2>1, <2>2
<1>7. d.changes \cap landed.changes = {}
  BY <1>2, <1>4
<1>8. PICK y \in BumperRecord : y = [pc |-> "bump", delta |-> d]
  <2>1. d \in Delta
    <3>1. PICK n \in Nat : n = d.messages
      BY <1>4 DEF DeltaRecord
    <3>2. n \in 0..MaxMessages
      <4>1. landed.messages \in Nat /\ landed.messages + n <= MaxMessages
        BY <1>1, <3>1 DEF DeltaRecord
      <4> QED
        BY <4>1, CountersAssumption
    <3>3. PICK e \in SUBSET Change : e = d.changes
      BY <1>1
    <3>4. d = [changes |-> e, messages |-> n]
      BY <1>4, <3>1, <3>3 DEF DeltaRecord
    <3> QED
      BY <3>2, <3>4 DEF Delta
  <2> QED
    BY <2>1 DEF BumperRecord, PcSet
<1>9. wt' = [wt EXCEPT ![t] = y] /\ y.pc = "bump" /\ y.delta = d
  BY <1>1, <1>8 DEF Bump
<1>10. wt' \in [Bumpers -> BumperRecord] /\ wt'[t] = y /\ \A u \in Bumpers : u # t => wt'[u] = wt[u]
  BY <1>9
<1>11. wt[t].pc = "idle" /\ UNCHANGED <<counted, pending, flock, hand, lost, failed>>
  BY DEF LandWrite
<1>12. CountTyped'
  BY <1>1, <1>5, <1>10, <1>11
<1>13. LockFine'
  BY <1>9, <1>10, <1>11 DEF LockFine
<1>14. DepositsFound'
  BY <1>9, <1>10, <1>11 DEF DepositsFound
<1>15. OnePlace(landed, counted, lost, Waits)'
  <2> DEFINE V == WaitsOf(pending, hand, wt)
             W == WaitsOf(pending, hand, wt')
             q == <<"write", t>>
  <2>1. V \in [Places -> DeltaRecord] /\ W \in [Places -> DeltaRecord] /\ q \in Places
    BY <1>10, Cnt_WaitsTyped, Cnt_Places
  <2>2. V[q] = Nothing /\ W[q] = d
    <3>1. V[q] = IF wt[t].pc = "bump" THEN wt[t].delta ELSE Nothing
      BY Cnt_Waits
    <3>2. W[q] = IF wt'[t].pc = "bump" THEN wt'[t].delta ELSE Nothing
      BY Cnt_Waits
    <3> QED
      BY <1>9, <1>10, <1>11, <3>1, <3>2
  <2>3. \A p \in Places : p # q => W[p] = V[p]
    BY <1>10, Cnt_WaitsChange
  <2>4. OnePlace(landed, counted, lost, V)
    BY DEF Waits
  <2> HIDE DEF V, W, q
  <2>6. landed' = Plus(landed, d) /\ d \in DeltaRecord /\ landed' \in DeltaRecord
        /\ landed \in DeltaRecord /\ counted \in DeltaRecord /\ lost \in DeltaRecord
    BY <1>1, <1>4, <1>5
  <2>7. \A p \in Places : W[p] = IF p = q THEN d ELSE V[p]
    BY <2>2, <2>3
  <2>5. OnePlace(landed', counted, lost, W)
    BY ONLY <1>7, <2>1, <2>2, <2>4, <2>6, <2>7, Cnt_Landed
  <2> QED
    BY <1>11, <2>5 DEF W, Waits
<1>50. BatchHolds'
  BY <1>9, <1>10, <1>11 DEF BatchHolds
<1> QED
  BY <1>50, <1>6, <1>12, <1>13, <1>14, <1>15

\* What waits stays where it is.
LEMMA Cnt_SamePlaces ==
  ASSUME OnePlace(landed, counted, lost, Waits),
         UNCHANGED <<landed, counted, lost, pending, hand>>,
         \A u \in Bumpers :
            wt'[u] = wt[u] \/ (wt'[u].pc # "bump" /\ wt[u].pc # "bump")
  PROVE  OnePlace(landed, counted, lost, Waits)'
<1> DEFINE V == WaitsOf(pending, hand, wt)
           W == WaitsOf(pending, hand, wt')
<1>1. \A p \in Places : W[p] = V[p]
  <2>1. ASSUME NEW w \in Workers PROVE W[<<"bucket", w>>] = V[<<"bucket", w>>]
    <3>1. V[<<"bucket", w>>] = pending[w]
      BY Cnt_Waits
    <3>2. W[<<"bucket", w>>] = pending[w]
      BY Cnt_Waits
    <3> QED
      BY <3>1, <3>2
  <2>2. ASSUME NEW t \in Bumpers PROVE W[<<"hand", t>>] = V[<<"hand", t>>]
    <3>1. V[<<"hand", t>>] = hand[t]
      BY Cnt_Waits
    <3>2. W[<<"hand", t>>] = hand[t]
      BY Cnt_Waits
    <3> QED
      BY <3>1, <3>2
  <2>3. ASSUME NEW t \in Bumpers PROVE W[<<"write", t>>] = V[<<"write", t>>]
    <3>1. V[<<"write", t>>] = IF wt[t].pc = "bump" THEN wt[t].delta ELSE Nothing
      BY Cnt_Waits
    <3>2. W[<<"write", t>>] = IF wt'[t].pc = "bump" THEN wt'[t].delta ELSE Nothing
      BY Cnt_Waits
    <3> QED
      BY <3>1, <3>2
  <2> HIDE DEF V, W
  <2> QED
    BY <2>1, <2>2, <2>3, Cnt_Places
<1>2. W = [p \in Places |-> W[p]] /\ V = [p \in Places |-> V[p]]
  BY Cnt_WaitsIsFunction
<1> HIDE DEF V, W
<1>3. W = V
  BY <1>1, <1>2
<1> QED
  BY <1>3 DEF Waits, V, W

LEMMA Cnt_BeginFlush ==
  ASSUME CountInductive, NEW t \in Bumpers, BeginFlush(t)
  PROVE  CountInductive'
<1> USE DEF CountInductive, CountTyped
<1>8. PICK y \in BumperRecord : y = [pc |-> "bump", delta |-> Nothing]
  BY Cnt_NothingFits DEF BumperRecord, PcSet
<1>9. wt' = [wt EXCEPT ![t] = y] /\ y.pc = "bump" /\ y.delta = Nothing
  BY <1>8 DEF BeginFlush, Bump
<1>10. wt' \in [Bumpers -> BumperRecord] /\ wt'[t] = y /\ \A u \in Bumpers : u # t => wt'[u] = wt[u]
  BY <1>9
<1>11. wt[t].pc = "idle" /\ UNCHANGED <<landed, counted, pending, flock, hand, lost, failed>>
  BY DEF BeginFlush
<1>12. CountTyped' /\ Consecutive(landed)'
  BY <1>10, <1>11 DEF Consecutive
<1>13. LockFine'
  BY <1>9, <1>10, <1>11 DEF LockFine
<1>14. DepositsFound'
  BY <1>9, <1>10, <1>11 DEF DepositsFound
<1>15. OnePlace(landed, counted, lost, Waits)'
  <2> DEFINE V == WaitsOf(pending, hand, wt)
             W == WaitsOf(pending, hand, wt')
             q == <<"write", t>>
  <2>1. V[q] = Nothing /\ W[q] = Nothing
    <3>1. V[q] = IF wt[t].pc = "bump" THEN wt[t].delta ELSE Nothing
      BY Cnt_Waits
    <3>2. W[q] = IF wt'[t].pc = "bump" THEN wt'[t].delta ELSE Nothing
      BY Cnt_Waits
    <3> QED
      BY <1>9, <1>10, <1>11, <3>1, <3>2
  <2>2. \A p \in Places : p # q => W[p] = V[p]
    BY <1>10, Cnt_WaitsChange
  <2>3. W = [p \in Places |-> W[p]] /\ V = [p \in Places |-> V[p]]
    BY Cnt_WaitsIsFunction
  <2>4. OnePlace(landed, counted, lost, V)
    BY DEF Waits
  <2> HIDE DEF V, W, q
  <2>5. W = V
    BY <2>1, <2>2, <2>3
  <2> QED
    BY <1>11, <2>4, <2>5 DEF W, Waits
<1>50. BatchHolds'
  BY <1>9, <1>10, <1>11 DEF BatchHolds
<1> QED
  BY <1>50, <1>12, <1>13, <1>14, <1>15


\* Under _PENDING_LOCK: what the writer brought joins the bucket of its worker.
LEMMA Cnt_Deposit ==
  ASSUME CountInductive, NEW t \in Bumpers, Deposit(t)
  PROVE  CountInductive'
<1> USE DEF CountInductive, CountTyped
<1>1. PICK v \in Workers : v = WorkerOf[t]
  BY CountersAssumption
<1>2. PICK r \in BumperRecord : r = wt[t]
  OBVIOUS
<1>3. r.pc = "bump" /\ r.delta \in DeltaRecord
  BY <1>2, Cnt_Record DEF Deposit
<1>4. PICK bag \in DeltaRecord : bag = Plus(pending[v], r.delta)
  BY <1>3, Cnt_PlusFits
<1>5. /\ pending' = [pending EXCEPT ![v] = bag]
      /\ \/ RidesAlong(r.delta, bag) /\ WriterDone(t)
         \/ WriterGoto(t, "lock")
      /\ UNCHANGED <<landed, counted, flock, hand, lost, failed>>
  BY <1>1, <1>2, <1>4 DEF Deposit
<1>6. pending' \in [Workers -> DeltaRecord] /\ pending'[v] = bag
      /\ \A w \in Workers : w # v => pending'[w] = pending[w]
  BY <1>5
<1>7. /\ wt' \in [Bumpers -> BumperRecord]
      /\ \A u \in Bumpers : u # t => wt'[u] = wt[u]
      /\ \/ RidesAlong(r.delta, bag) /\ wt'[t].pc = "idle"
         \/ wt'[t].pc = "lock" /\ wt'[t].delta = r.delta
  <2>1. CASE WriterDone(t) /\ RidesAlong(r.delta, bag)
    BY <2>1, Cnt_Done
  <2>2. CASE WriterGoto(t, "lock")
    <3>1. "lock" \in PcSet
      BY DEF PcSet
    <3> QED
      BY <1>2, <2>2, <3>1, Cnt_Goto
  <2> QED
    BY <1>5, <2>1, <2>2
<1>8. CountTyped' /\ Consecutive(landed)'
  BY <1>5, <1>6, <1>7 DEF Consecutive
<1>9. LockFine'
  BY <1>2, <1>3, <1>5, <1>7 DEF LockFine
<1>10. \A k : k \in bag.changes <=> k \in pending[v].changes \/ k \in r.delta.changes
  BY <1>3, <1>4, Cnt_PlusFits
<1>11. DepositsFound'
  <2> SUFFICES ASSUME NEW u \in Bumpers, wt'[u].pc \in {"lock", "pop"},
                      WorkerOf[u] \notin failed, NEW k \in wt'[u].delta.changes
               PROVE  \/ k \in counted.changes
                      \/ k \in pending'[WorkerOf[u]].changes
                      \/ \E o \in Bumpers : WorkerOf[o] = WorkerOf[u] /\ k \in hand[o].changes
    BY <1>5 DEF DepositsFound
  <2>1. CASE u = t
    <3>1. k \in r.delta.changes
      BY <1>7, <2>1
    <3>2. k \in pending'[v].changes
      BY <1>6, <1>10, <3>1
    <3> QED
      BY <1>1, <2>1, <3>2
  <2>2. CASE u # t
    <3>1. \/ k \in counted.changes
          \/ k \in pending[WorkerOf[u]].changes
          \/ \E o \in Bumpers : WorkerOf[o] = WorkerOf[u] /\ k \in hand[o].changes
      BY <1>7, <2>2 DEF DepositsFound
    <3>2. k \in pending[WorkerOf[u]].changes => k \in pending'[WorkerOf[u]].changes
      <4>1. WorkerOf[u] \in Workers
        BY CountersAssumption
      <4> QED
        BY <1>6, <1>10, <4>1
    <3> QED
      BY <3>1, <3>2
  <2> QED
    BY <2>1, <2>2
<1>12. OnePlace(landed, counted, lost, Waits)'
  <2> DEFINE V == WaitsOf(pending, hand, wt)
             W == WaitsOf(pending', hand, wt')
             q == <<"bucket", v>>
             m == <<"write", t>>
  <2>1. V \in [Places -> DeltaRecord] /\ W \in [Places -> DeltaRecord]
    BY <1>6, <1>7, Cnt_WaitsTyped
  <2>2. q \in Places /\ m \in Places /\ q # m
    BY Cnt_Places
  <2>3. V[q] = pending[v] /\ W[q] = bag
    <3>1. V[q] = pending[v]
      BY Cnt_Waits
    <3>2. W[q] = pending'[v]
      BY Cnt_Waits
    <3> QED
      BY <1>6, <3>1, <3>2
  <2>4. V[m] = r.delta /\ W[m] = Nothing
    <3>1. V[m] = IF wt[t].pc = "bump" THEN wt[t].delta ELSE Nothing
      BY Cnt_Waits
    <3>2. W[m] = IF wt'[t].pc = "bump" THEN wt'[t].delta ELSE Nothing
      BY Cnt_Waits
    <3> QED
      BY <1>2, <1>3, <1>7, <3>1, <3>2
  <2>5. W[q] = Plus(V[q], V[m])
    BY <1>4, <2>3, <2>4
  <2>6. \A p \in Places : p # q /\ p # m => W[p] = V[p]
    BY <1>6, <1>7, Cnt_WaitsChange
  <2>7. OnePlace(landed, counted, lost, V)
    BY DEF Waits
  <2> HIDE DEF V, W, q, m
  <2>8. OnePlace(landed, counted, lost, W)
    BY <2>1, <2>2, <2>4, <2>5, <2>6, <2>7, Cnt_MovedOne
  <2> QED
    BY <1>5, <2>8 DEF W, Waits
<1>50. BatchHolds'
  BY <1>5, <1>7 DEF BatchHolds
<1> QED
  BY <1>50, <1>8, <1>9, <1>11, <1>12

LEMMA Cnt_LockCounters ==
  ASSUME CountInductive, NEW t \in Bumpers, LockCounters(t)
  PROVE  CountInductive'
<1> USE DEF CountInductive, CountTyped
<1>1. wt[t].pc = "lock" /\ UNCHANGED <<landed, counted, pending, hand, lost, failed>>
  BY DEF LockCounters
<1>2. /\ wt' \in [Bumpers -> BumperRecord]
      /\ \A u \in Bumpers : u # t => wt'[u] = wt[u]
      /\ \/ flock = Unlocked /\ flock' = t /\ wt'[t].pc = "pop" /\ wt'[t].delta = wt[t].delta
         \/ flock' = flock /\ wt'[t].pc = "idle"
  <2>1. CASE flock = Unlocked /\ flock' = t /\ WriterGoto(t, "pop")
    <3>1. "pop" \in PcSet
      BY DEF PcSet
    <3> QED
      BY <2>1, <3>1, Cnt_Goto
  <2>2. CASE flock' = flock /\ WriterDone(t)
    BY <2>2, Cnt_Done
  <2> QED
    BY <2>1, <2>2 DEF LockCounters
<1>3. CountTyped' /\ Consecutive(landed)'
  BY <1>1, <1>2 DEF Consecutive
<1>4. LockFine'
  BY <1>1, <1>2, CountersAssumption DEF LockFine
<1>5. DepositsFound'
  BY <1>1, <1>2 DEF DepositsFound
<1>6. OnePlace(landed, counted, lost, Waits)'
  <2>1. \A u \in Bumpers : wt'[u] = wt[u] \/ (wt'[u].pc # "bump" /\ wt[u].pc # "bump")
    BY <1>1, <1>2
  <2> QED
    BY <1>1, <2>1, Cnt_SamePlaces
<1>50. BatchHolds'
  BY <1>1, <1>2 DEF BatchHolds
<1> QED
  BY <1>50, <1>3, <1>4, <1>5, <1>6

LEMMA Cnt_PopBatch ==
  ASSUME CountInductive, NEW t \in Bumpers, PopBatch(t)
  PROVE  CountInductive'
<1> USE DEF CountInductive, CountTyped
<1>1. PICK v \in Workers : v = WorkerOf[t]
  BY CountersAssumption
<1>2. /\ wt[t].pc = "pop" /\ hand' = [hand EXCEPT ![t] = pending[v]]
      /\ pending' = [pending EXCEPT ![v] = Nothing]
      /\ UNCHANGED <<landed, counted, flock, lost, failed>>
  BY <1>1 DEF PopBatch
<1>3. /\ wt' \in [Bumpers -> BumperRecord]
      /\ wt'[t].pc = "replace" /\ wt'[t].delta = wt[t].delta
      /\ \A u \in Bumpers : u # t => wt'[u] = wt[u]
  <2>1. "replace" \in PcSet /\ WriterGoto(t, "replace")
    BY DEF PcSet, PopBatch
  <2> QED
    BY <2>1, Cnt_Goto
<1>4. /\ pending' \in [Workers -> DeltaRecord] /\ pending'[v] = Nothing
      /\ \A w \in Workers : w # v => pending'[w] = pending[w]
      /\ hand' \in [Bumpers -> DeltaRecord] /\ hand'[t] = pending[v]
      /\ \A u \in Bumpers : u # t => hand'[u] = hand[u]
  BY <1>2, Cnt_NothingFits
<1>5. hand[t] = Nothing
  BY <1>2 DEF LockFine
<1>6. CountTyped' /\ Consecutive(landed)'
  BY <1>2, <1>3, <1>4 DEF Consecutive
<1>7. LockFine'
  BY <1>2, <1>3, <1>4 DEF LockFine
<1>8. DepositsFound'
  <2> SUFFICES ASSUME NEW u \in Bumpers, wt'[u].pc \in {"lock", "pop"},
                      WorkerOf[u] \notin failed, NEW k \in wt'[u].delta.changes
               PROVE  \/ k \in counted.changes
                      \/ k \in pending'[WorkerOf[u]].changes
                      \/ \E o \in Bumpers : WorkerOf[o] = WorkerOf[u] /\ k \in hand'[o].changes
    BY <1>2 DEF DepositsFound
  <2>1. wt[u].pc \in {"lock", "pop"} /\ k \in wt[u].delta.changes /\ WorkerOf[u] \in Workers
    BY <1>2, <1>3, CountersAssumption
  <2>2. CASE k \in counted.changes
    BY <2>2
  <2>3. CASE k \in pending[WorkerOf[u]].changes
    BY <1>1, <1>4, <2>1, <2>3
  <2>4. CASE \E o \in Bumpers : WorkerOf[o] = WorkerOf[u] /\ k \in hand[o].changes
    <3>1. PICK o \in Bumpers : WorkerOf[o] = WorkerOf[u] /\ k \in hand[o].changes
      BY <2>4
    <3>2. o # t
      BY <1>5, <3>1 DEF Nothing
    <3> QED
      BY <1>4, <3>1, <3>2
  <2> QED
    BY <2>1, <2>2, <2>3, <2>4 DEF DepositsFound
<1>9. OnePlace(landed, counted, lost, Waits)'
  <2> DEFINE V == WaitsOf(pending, hand, wt)
             W == WaitsOf(pending', hand', wt')
             q == <<"hand", t>>
             m == <<"bucket", v>>
  <2>1. V \in [Places -> DeltaRecord] /\ W \in [Places -> DeltaRecord]
    BY <1>3, <1>4, Cnt_WaitsTyped
  <2>2. q \in Places /\ m \in Places /\ q # m
    BY Cnt_Places
  <2>3. V[q] = Nothing /\ W[q] = pending[v]
    <3>1. V[q] = hand[t]
      BY Cnt_Waits
    <3>2. W[q] = hand'[t]
      BY Cnt_Waits
    <3> QED
      BY <1>4, <1>5, <3>1, <3>2
  <2>4. V[m] = pending[v] /\ W[m] = Nothing
    <3>1. V[m] = pending[v]
      BY Cnt_Waits
    <3>2. W[m] = pending'[v]
      BY Cnt_Waits
    <3> QED
      BY <1>4, <3>1, <3>2
  <2>5. W[q] = Plus(V[q], V[m])
    BY <2>3, <2>4, Cnt_PlusNothing
  <2>6. \A p \in Places : p # q /\ p # m => W[p] = V[p]
    <3>1. \A u \in Bumpers : wt'[u] = wt[u] \/ (wt'[u].pc # "bump" /\ wt[u].pc # "bump")
      BY <1>2, <1>3
    <3> TAKE p \in Places
    <3> HAVE p # q /\ p # m
    <3>2. \A w \in Workers : p = <<"bucket", w>> => pending'[w] = pending[w]
      BY <1>4
    <3>3. \A u \in Bumpers : p = <<"hand", u>> => hand'[u] = hand[u]
      BY <1>4
    <3>4. \A u \in Bumpers : p = <<"write", u>> =>
              \/ wt'[u] = wt[u]
              \/ wt'[u].pc # "bump" /\ wt[u].pc # "bump"
      BY <3>1
    <3>5. p \in Places
      OBVIOUS
    <3> QED
      BY ONLY <3>2, <3>3, <3>4, <3>5, Cnt_WaitsChange DEF V, W
  <2>7. OnePlace(landed, counted, lost, V)
    BY DEF Waits
  <2> HIDE DEF V, W, q, m
  <2>8. OnePlace(landed, counted, lost, W)
    BY <2>1, <2>2, <2>4, <2>5, <2>6, <2>7, Cnt_MovedOne
  <2> QED
    BY <1>2, <2>8 DEF W, Waits
<1>50. BatchHolds'
  <2> SUFFICES ASSUME NEW u \in Bumpers, wt'[u].pc = "replace", WorkerOf[u] \notin failed,
                      NEW k \in wt'[u].delta.changes
               PROVE  k \in counted.changes \/ k \in hand'[u].changes
    BY <1>2 DEF BatchHolds
  <2>1. CASE u # t
    BY <1>3, <1>4, <2>1 DEF BatchHolds
  <2>2. CASE u = t
    <3>1. \/ k \in counted.changes
          \/ k \in pending[v].changes
          \/ \E o \in Bumpers : WorkerOf[o] = v /\ k \in hand[o].changes
      BY <1>1, <1>2, <1>3, <2>2 DEF DepositsFound
    <3>2. ASSUME NEW o \in Bumpers, WorkerOf[o] = v, k \in hand[o].changes PROVE FALSE
      <4>1. hand[o] # Nothing
        BY <3>2 DEF Nothing
      <4>2. wt[o].pc = "replace"
        BY <1>1, <2>2, <3>2, <4>1 DEF LockFine
      <4> QED
        BY <1>2, <4>2 DEF LockFine
    <3> QED
      BY <1>4, <2>2, <3>1, <3>2
  <2> QED
    BY <2>1, <2>2
<1> QED
  BY <1>50, <1>6, <1>7, <1>8, <1>9

\* The batch of a hand is counted; nothing of what its worker's bumpers brought
\* is left behind.
LEMMA Cnt_ReplaceCounters ==
  ASSUME CountInductive, NEW t \in Bumpers, ReplaceCounters(t)
  PROVE  /\ CountInductive'
         /\ counted'.changes = counted.changes \cup hand[t].changes
         /\ counted'.messages = counted.messages + hand[t].messages
         /\ wt'[t].pc = "idle" /\ \A u \in Bumpers : u # t => wt'[u] = wt[u]
<1> USE DEF CountInductive, CountTyped
<1>1. PICK d \in DeltaRecord : d = hand[t]
  OBVIOUS
<1>2. PICK e \in DeltaRecord : /\ e = Plus(counted, d)
                               /\ e.changes = counted.changes \cup d.changes
                               /\ e.messages = counted.messages + d.messages
  BY Cnt_PlusFits
<1>3. /\ wt[t].pc = "replace" /\ counted' = e /\ hand' = [hand EXCEPT ![t] = Nothing]
      /\ flock' = Unlocked /\ WriterDone(t)
      /\ UNCHANGED <<landed, pending, lost, failed>>
  BY <1>1, <1>2 DEF ReplaceCounters, Added
<1>4. /\ wt' \in [Bumpers -> BumperRecord] /\ wt'[t].pc = "idle"
      /\ \A u \in Bumpers : u # t => wt'[u] = wt[u]
  BY <1>3, Cnt_Done
<1>5. /\ hand' \in [Bumpers -> DeltaRecord] /\ hand'[t] = Nothing
      /\ \A u \in Bumpers : u # t => hand'[u] = hand[u]
  BY <1>3, Cnt_NothingFits
<1>6. CountTyped' /\ Consecutive(landed)'
  BY <1>2, <1>3, <1>4, <1>5 DEF Consecutive
<1>7. LockFine'
  <2>1. flock = t
    BY <1>3 DEF LockFine
  <2>2. \A u \in Bumpers : u # t => ~(wt[u].pc \in {"pop", "replace"})
    BY <2>1 DEF LockFine
  <2> QED
    BY <1>3, <1>4, <1>5, <2>2, CountersAssumption DEF LockFine
<1>8. DepositsFound'
  <2> SUFFICES ASSUME NEW u \in Bumpers, wt'[u].pc \in {"lock", "pop"},
                      WorkerOf[u] \notin failed, NEW k \in wt'[u].delta.changes
               PROVE  \/ k \in counted'.changes
                      \/ k \in pending[WorkerOf[u]].changes
                      \/ \E o \in Bumpers : WorkerOf[o] = WorkerOf[u] /\ k \in hand'[o].changes
    BY <1>3 DEF DepositsFound
  <2>1. wt[u].pc \in {"lock", "pop"} /\ k \in wt[u].delta.changes
    BY <1>4
  <2>2. CASE k \in counted.changes
    BY <1>2, <1>3, <2>2
  <2>3. CASE k \in pending[WorkerOf[u]].changes
    BY <2>3
  <2>4. CASE \E o \in Bumpers : WorkerOf[o] = WorkerOf[u] /\ k \in hand[o].changes
    <3>1. PICK o \in Bumpers : WorkerOf[o] = WorkerOf[u] /\ k \in hand[o].changes
      BY <2>4
    <3>2. CASE o = t
      BY <1>1, <1>2, <1>3, <3>1, <3>2
    <3>3. CASE o # t
      BY <1>5, <3>1, <3>3
    <3> QED
      BY <3>2, <3>3
  <2> QED
    BY <2>1, <2>2, <2>3, <2>4 DEF DepositsFound
<1>9. OnePlace(landed, counted, lost, Waits)'
  <2> DEFINE V == WaitsOf(pending, hand, wt)
             W == WaitsOf(pending, hand', wt')
             m == <<"hand", t>>
  <2>1. V \in [Places -> DeltaRecord] /\ W \in [Places -> DeltaRecord]
    BY <1>4, <1>5, Cnt_WaitsTyped
  <2>2. m \in Places
    BY Cnt_Places
  <2>3. V[m] = d /\ W[m] = Nothing
    <3>1. V[m] = hand[t]
      BY Cnt_Waits
    <3>2. W[m] = hand'[t]
      BY Cnt_Waits
    <3> QED
      BY <1>1, <1>5, <3>1, <3>2
  <2>4. \A p \in Places : p # m => W[p] = V[p]
    <3>1. \A u \in Bumpers : wt'[u] = wt[u] \/ (wt'[u].pc # "bump" /\ wt[u].pc # "bump")
      BY <1>3, <1>4
    <3>2. ASSUME NEW w \in Workers PROVE W[<<"bucket", w>>] = V[<<"bucket", w>>]
      <4>1. V[<<"bucket", w>>] = pending[w]
        BY Cnt_Waits
      <4>2. W[<<"bucket", w>>] = pending[w]
        BY Cnt_Waits
      <4> QED
        BY <4>1, <4>2
    <3>3. ASSUME NEW u \in Bumpers, u # t PROVE W[<<"hand", u>>] = V[<<"hand", u>>]
      <4>1. V[<<"hand", u>>] = hand[u]
        BY Cnt_Waits
      <4>2. W[<<"hand", u>>] = hand'[u]
        BY Cnt_Waits
      <4> QED
        BY <1>5, <3>3, <4>1, <4>2
    <3>4. ASSUME NEW u \in Bumpers PROVE W[<<"write", u>>] = V[<<"write", u>>]
      <4>1. V[<<"write", u>>] = IF wt[u].pc = "bump" THEN wt[u].delta ELSE Nothing
        BY Cnt_Waits
      <4>2. W[<<"write", u>>] = IF wt'[u].pc = "bump" THEN wt'[u].delta ELSE Nothing
        BY Cnt_Waits
      <4> QED
        BY <3>1, <4>1, <4>2
    <3> HIDE DEF V, W
    <3> QED
      BY <3>2, <3>3, <3>4, Cnt_Places
  <2>5. OnePlace(landed, counted, lost, V)
    BY DEF Waits
  <2> HIDE DEF V, W, m
  <2>6. Cleared(V, {m}, W) /\ {m} \in SUBSET Places
    BY <2>2, <2>3, <2>4 DEF Cleared
  <2>7. Gains(V, {m}, counted, e)
    <3>1. MessagesOf(V)[m] = V[m].messages /\ V[m].messages \in Int
      BY <2>1, <2>2, Cnt_Summable DEF DeltaRecord
    <3>2. SumFunctionOnSet(MessagesOf(V), {m}) = V[m].messages
      BY <3>1, SumSingle
    <3>3. UNION {V[n].changes : n \in {m}} = V[m].changes
      OBVIOUS
    <3> QED
      BY <1>2, <2>3, <3>2, <3>3 DEF Gains
  <2>8. landed \in DeltaRecord /\ counted \in DeltaRecord /\ lost \in DeltaRecord /\ e \in DeltaRecord
    OBVIOUS
  <2>9. OnePlace(landed, e, lost, W)
    BY ONLY <2>1, <2>5, <2>6, <2>7, <2>8, Cnt_Settled
  <2> QED
    BY <1>3, <2>9 DEF W, Waits
<1>50. BatchHolds'
  <2>1. flock = t
    BY <1>3 DEF LockFine
  <2>2. \A u \in Bumpers : wt'[u].pc # "replace"
    BY <1>4, <2>1 DEF LockFine
  <2> QED
    BY <2>2 DEF BatchHolds
<1> QED
  BY <1>50, <1>1, <1>2, <1>3, <1>4, <1>6, <1>7, <1>8, <1>9

LEMMA Cnt_FailReplace ==
  ASSUME CountInductive, NEW t \in Bumpers, FailReplace(t)
  PROVE  CountInductive'
<1> USE DEF CountInductive, CountTyped
<1>1. /\ wt[t].pc = "replace" /\ flock' = Unlocked /\ failed' = failed \cup {WorkerOf[t]}
      /\ UNCHANGED <<landed, counted, pending, hand, lost>>
  BY DEF FailReplace, Released
<1>2. /\ wt' \in [Bumpers -> BumperRecord]
      /\ wt'[t].pc = "return" /\ wt'[t].delta = wt[t].delta
      /\ \A u \in Bumpers : u # t => wt'[u] = wt[u]
  <2>1. "return" \in PcSet /\ WriterGoto(t, "return")
    BY DEF PcSet, FailReplace
  <2> QED
    BY <2>1, Cnt_Goto
<1>3. CountTyped' /\ Consecutive(landed)'
  BY <1>1, <1>2, CountersAssumption DEF Consecutive
<1>4. LockFine'
  <2>1. flock = t
    BY <1>1 DEF LockFine
  <2>2. \A u \in Bumpers : u # t => ~(wt[u].pc \in {"pop", "replace"})
    BY <2>1 DEF LockFine
  <2> QED
    BY <1>1, <1>2, <2>2, CountersAssumption DEF LockFine
<1>5. DepositsFound'
  BY <1>1, <1>2 DEF DepositsFound
<1>6. OnePlace(landed, counted, lost, Waits)'
  <2>1. \A u \in Bumpers : wt'[u] = wt[u] \/ (wt'[u].pc # "bump" /\ wt[u].pc # "bump")
    BY <1>1, <1>2
  <2> QED
    BY <1>1, <2>1, Cnt_SamePlaces
<1>50. BatchHolds'
  BY <1>1, <1>2 DEF BatchHolds
<1> QED
  BY <1>50, <1>3, <1>4, <1>5, <1>6

LEMMA Cnt_ReturnBatch ==
  ASSUME CountInductive, NEW t \in Bumpers, ReturnBatch(t)
  PROVE  /\ CountInductive' /\ counted' = counted
         /\ wt'[t].pc = "idle" /\ \A u \in Bumpers : u # t => wt'[u] = wt[u]
<1> USE DEF CountInductive, CountTyped
<1>1. PICK v \in Workers : v = WorkerOf[t]
  BY CountersAssumption
<1>2. PICK bag \in DeltaRecord : /\ bag = Plus(pending[v], hand[t])
                                 /\ bag.changes = pending[v].changes \cup hand[t].changes
  BY Cnt_PlusFits
<1>3. /\ wt[t].pc = "return" /\ hand' = [hand EXCEPT ![t] = Nothing]
      /\ pending' = [pending EXCEPT ![v] = bag] /\ WriterDone(t)
      /\ UNCHANGED <<landed, counted, flock, lost, failed>>
  BY <1>1, <1>2 DEF ReturnBatch, Restored
<1>4. /\ wt' \in [Bumpers -> BumperRecord] /\ wt'[t].pc = "idle"
      /\ \A u \in Bumpers : u # t => wt'[u] = wt[u]
  BY <1>3, Cnt_Done
<1>5. /\ pending' \in [Workers -> DeltaRecord] /\ pending'[v] = bag
      /\ \A w \in Workers : w # v => pending'[w] = pending[w]
      /\ hand' \in [Bumpers -> DeltaRecord] /\ hand'[t] = Nothing
      /\ \A u \in Bumpers : u # t => hand'[u] = hand[u]
  BY <1>3, Cnt_NothingFits
<1>6. CountTyped' /\ Consecutive(landed)'
  BY <1>3, <1>4, <1>5 DEF Consecutive
<1>7. LockFine'
  BY <1>3, <1>4, <1>5 DEF LockFine
<1>8. DepositsFound'
  <2> SUFFICES ASSUME NEW u \in Bumpers, wt'[u].pc \in {"lock", "pop"},
                      WorkerOf[u] \notin failed, NEW k \in wt'[u].delta.changes
               PROVE  \/ k \in counted.changes
                      \/ k \in pending'[WorkerOf[u]].changes
                      \/ \E o \in Bumpers : WorkerOf[o] = WorkerOf[u] /\ k \in hand'[o].changes
    BY <1>3 DEF DepositsFound
  <2>1. wt[u].pc \in {"lock", "pop"} /\ k \in wt[u].delta.changes /\ WorkerOf[u] \in Workers
    BY <1>4, CountersAssumption
  <2>2. WorkerOf[u] # v
    BY <1>1, <1>3 DEF LockFine
  <2>3. CASE k \in counted.changes
    BY <2>3
  <2>4. CASE k \in pending[WorkerOf[u]].changes
    BY <1>5, <2>1, <2>2, <2>4
  <2>5. CASE \E o \in Bumpers : WorkerOf[o] = WorkerOf[u] /\ k \in hand[o].changes
    <3>1. PICK o \in Bumpers : WorkerOf[o] = WorkerOf[u] /\ k \in hand[o].changes
      BY <2>5
    <3>2. o # t
      BY <1>1, <2>2, <3>1
    <3> QED
      BY <1>5, <3>1, <3>2
  <2> QED
    BY <2>1, <2>3, <2>4, <2>5 DEF DepositsFound
<1>9. OnePlace(landed, counted, lost, Waits)'
  <2> DEFINE V == WaitsOf(pending, hand, wt)
             W == WaitsOf(pending', hand', wt')
             q == <<"bucket", v>>
             m == <<"hand", t>>
  <2>1. V \in [Places -> DeltaRecord] /\ W \in [Places -> DeltaRecord]
    BY <1>4, <1>5, Cnt_WaitsTyped
  <2>2. q \in Places /\ m \in Places /\ q # m
    BY Cnt_Places
  <2>3. V[q] = pending[v] /\ W[q] = bag
    <3>1. V[q] = pending[v]
      BY Cnt_Waits
    <3>2. W[q] = pending'[v]
      BY Cnt_Waits
    <3> QED
      BY <1>5, <3>1, <3>2
  <2>4. V[m] = hand[t] /\ W[m] = Nothing
    <3>1. V[m] = hand[t]
      BY Cnt_Waits
    <3>2. W[m] = hand'[t]
      BY Cnt_Waits
    <3> QED
      BY <1>5, <3>1, <3>2
  <2>5. W[q] = Plus(V[q], V[m])
    BY <1>2, <2>3, <2>4
  <2>6. \A p \in Places : p # q /\ p # m => W[p] = V[p]
    <3>1. \A u \in Bumpers : wt'[u] = wt[u] \/ (wt'[u].pc # "bump" /\ wt[u].pc # "bump")
      BY <1>3, <1>4
    <3> TAKE p \in Places
    <3> HAVE p # q /\ p # m
    <3>2. \A w \in Workers : p = <<"bucket", w>> => pending'[w] = pending[w]
      BY <1>5
    <3>3. \A u \in Bumpers : p = <<"hand", u>> => hand'[u] = hand[u]
      BY <1>5
    <3>4. \A u \in Bumpers : p = <<"write", u>> =>
              \/ wt'[u] = wt[u]
              \/ wt'[u].pc # "bump" /\ wt[u].pc # "bump"
      BY <3>1
    <3>5. p \in Places
      OBVIOUS
    <3> QED
      BY ONLY <3>2, <3>3, <3>4, <3>5, Cnt_WaitsChange DEF V, W
  <2>7. OnePlace(landed, counted, lost, V)
    BY DEF Waits
  <2> HIDE DEF V, W, q, m
  <2>8. OnePlace(landed, counted, lost, W)
    BY <2>1, <2>2, <2>4, <2>5, <2>6, <2>7, Cnt_MovedOne
  <2> QED
    BY <1>3, <2>8 DEF W, Waits
<1>50. BatchHolds'
  BY <1>3, <1>4, <1>5 DEF BatchHolds
<1> QED
  BY <1>50, <1>3, <1>4, <1>6, <1>7, <1>8, <1>9

LEMMA Cnt_PlacesOf ==
  ASSUME NEW w \in Workers
  PROVE  /\ PlacesOf(w) \in SUBSET Places
         /\ \A v \in Workers : <<"bucket", v>> \in PlacesOf(w) <=> v = w
         /\ \A t \in Bumpers : <<"hand", t>> \in PlacesOf(w) <=> WorkerOf[t] = w
         /\ \A t \in Bumpers : <<"write", t>> \in PlacesOf(w) <=> WorkerOf[t] = w
<1>1. PlacesOf(w) \in SUBSET Places
  BY DEF PlacesOf
<1>2. \A v \in Workers : <<"bucket", v>> \in PlacesOf(w) <=> v = w
  BY Cnt_Places DEF PlacesOf
<1>3. \A t \in Bumpers : <<"hand", t>> \in PlacesOf(w) <=> WorkerOf[t] = w
  BY Cnt_Places DEF PlacesOf
<1>4. \A t \in Bumpers : <<"write", t>> \in PlacesOf(w) <=> WorkerOf[t] = w
  BY Cnt_Places DEF PlacesOf
<1> QED
  BY <1>1, <1>2, <1>3, <1>4

\* What waits at the places of a worker, together.
GoneOf(W, M) == [changes |-> UNION {W[p].changes : p \in M},
                 messages |-> SumFunctionOnSet(MessagesOf(W), M)]

LEMMA Cnt_Gone ==
  ASSUME NEW W \in [Places -> DeltaRecord], NEW M \in SUBSET Places
  PROVE  GoneOf(W, M) \in DeltaRecord
<1>1. SumFunctionOnSet(MessagesOf(W), M) \in Nat
  <2>1. IsFiniteSet(M)
    BY Cnt_PlacesFinite, FS_Subset
  <2>2. \A p \in M : MessagesOf(W)[p] \in Nat
    BY Cnt_Summable
  <2> QED
    BY <2>1, <2>2, SumNat
<1>2. UNION {W[p].changes : p \in M} \in SUBSET Change
  <2>1. \A p \in M : W[p].changes \subseteq Change
    BY DEF DeltaRecord
  <2> QED
    BY <2>1
<1> QED
  BY <1>1, <1>2 DEF GoneOf, DeltaRecord

LEMMA Cnt_KillParts ==
  ASSUME CountTyped, NEW w \in Workers, KillWorker(w)
  PROVE  /\ GoneOf(Waits, PlacesOf(w)) \in DeltaRecord
         /\ lost' = Plus(lost, GoneOf(Waits, PlacesOf(w)))
         /\ pending' = [pending EXCEPT ![w] = Nothing]
         /\ hand' = [t \in Bumpers |-> IF WorkerOf[t] = w THEN Nothing ELSE hand[t]]
         /\ flock' = IF flock \in Bumpers /\ WorkerOf[flock] = w THEN Unlocked ELSE flock
         /\ wt' = [t \in Bumpers |-> IF WorkerOf[t] = w THEN WriterIdle ELSE wt[t]]
         /\ UNCHANGED <<landed, counted, failed>>
<1>1. Waits \in [Places -> DeltaRecord]
  BY Cnt_WaitsTyped DEF Waits, CountTyped
<1>2. GoneOf(Waits, PlacesOf(w)) \in DeltaRecord
  BY <1>1, Cnt_Gone, Cnt_PlacesOf
<1>3. MessagesWaiting = MessagesOf(Waits)
  <2>1. \A p \in Places : Waits[p] = Waiting(p)
    BY DEF Waits, WaitsOf, Waiting
  <2> QED
    BY <2>1 DEF MessagesWaiting, MessagesOf
<1>4. UNION {Waiting(p).changes : p \in PlacesOf(w)} = UNION {Waits[p].changes : p \in PlacesOf(w)}
  <2>1. \A p \in PlacesOf(w) : Waits[p] = Waiting(p)
    BY Cnt_PlacesOf DEF Waits, WaitsOf, Waiting
  <2> QED
    BY <2>1
<1>5. lost' = Plus(lost, [changes |-> UNION {Waiting(p).changes : p \in PlacesOf(w)},
                          messages |-> SumFunctionOnSet(MessagesWaiting, PlacesOf(w))])
  BY DEF KillWorker
<1>6. lost' = Plus(lost, GoneOf(Waits, PlacesOf(w)))
  BY <1>3, <1>4, <1>5 DEF GoneOf
<1>7. /\ pending' = [pending EXCEPT ![w] = Nothing]
      /\ UNCHANGED <<landed, counted, failed>>
  BY DEF KillWorker
<1>8. hand' = [t \in Bumpers |-> IF WorkerOf[t] = w THEN Nothing ELSE hand[t]]
  BY DEF KillWorker
<1>9. wt' = [t \in Bumpers |-> IF WorkerOf[t] = w THEN WriterIdle ELSE wt[t]]
  BY DEF KillWorker
<1>10. flock' = IF flock \in Bumpers /\ WorkerOf[flock] = w THEN Unlocked ELSE flock
  BY DEF KillWorker
<1> QED
  BY <1>2, <1>6, <1>7, <1>8, <1>9, <1>10

LEMMA Cnt_KillWorker ==
  ASSUME CountInductive, NEW w \in Workers, KillWorker(w)
  PROVE  CountInductive'
<1> USE DEF CountInductive, CountTyped
<1>1. PICK gone \in DeltaRecord : gone = GoneOf(Waits, PlacesOf(w))
  BY Cnt_KillParts
<1>2. /\ lost' = Plus(lost, gone) /\ lost' \in DeltaRecord
      /\ lost'.changes = lost.changes \cup gone.changes
      /\ lost'.messages = lost.messages + gone.messages
  BY <1>1, Cnt_KillParts, Cnt_PlusFits
<1>3. /\ pending' \in [Workers -> DeltaRecord] /\ pending'[w] = Nothing
      /\ \A v \in Workers : v # w => pending'[v] = pending[v]
  <2>1. pending' = [pending EXCEPT ![w] = Nothing]
    BY Cnt_KillParts
  <2> QED
    BY <2>1, Cnt_NothingFits
<1>4. /\ hand' \in [Bumpers -> DeltaRecord]
      /\ \A t \in Bumpers : hand'[t] = IF WorkerOf[t] = w THEN Nothing ELSE hand[t]
  <2>1. hand' = [t \in Bumpers |-> IF WorkerOf[t] = w THEN Nothing ELSE hand[t]]
    BY Cnt_KillParts
  <2> QED
    BY <2>1, Cnt_NothingFits
<1>5. /\ wt' \in [Bumpers -> BumperRecord]
      /\ \A t \in Bumpers : IF WorkerOf[t] = w THEN wt'[t].pc = "idle" ELSE wt'[t] = wt[t]
  <2>1. wt' = [t \in Bumpers |-> IF WorkerOf[t] = w THEN WriterIdle ELSE wt[t]]
    BY Cnt_KillParts
  <2>2. WriterIdle.pc = "idle"
    BY DEF WriterIdle
  <2> QED
    BY <2>1, <2>2, Cnt_NothingFits
<1>6. /\ flock' = IF flock \in Bumpers /\ WorkerOf[flock] = w THEN Unlocked ELSE flock
      /\ UNCHANGED <<landed, counted, failed>>
  BY Cnt_KillParts
<1>7. CountTyped' /\ Consecutive(landed)'
  BY <1>2, <1>3, <1>4, <1>5, <1>6 DEF Consecutive
<1>8. LockFine'
  BY <1>4, <1>5, <1>6, CountersAssumption DEF LockFine
<1>9. DepositsFound'
  <2> SUFFICES ASSUME NEW u \in Bumpers, wt'[u].pc \in {"lock", "pop"},
                      WorkerOf[u] \notin failed, NEW k \in wt'[u].delta.changes
               PROVE  \/ k \in counted.changes
                      \/ k \in pending'[WorkerOf[u]].changes
                      \/ \E o \in Bumpers : WorkerOf[o] = WorkerOf[u] /\ k \in hand'[o].changes
    BY <1>6 DEF DepositsFound
  <2>1. WorkerOf[u] # w /\ WorkerOf[u] \in Workers
    BY <1>5, CountersAssumption
  <2>2. \/ k \in counted.changes
        \/ k \in pending[WorkerOf[u]].changes
        \/ \E o \in Bumpers : WorkerOf[o] = WorkerOf[u] /\ k \in hand[o].changes
    BY <1>5, <2>1 DEF DepositsFound
  <2> QED
    BY <1>3, <1>4, <2>1, <2>2
<1>10. OnePlace(landed, counted, lost, Waits)'
  <2> DEFINE V == WaitsOf(pending, hand, wt)
             W == WaitsOf(pending', hand', wt')
             M == PlacesOf(w)
  <2>1. V \in [Places -> DeltaRecord] /\ W \in [Places -> DeltaRecord] /\ M \in SUBSET Places
    BY <1>3, <1>4, <1>5, Cnt_WaitsTyped, Cnt_PlacesOf
  <2>2. \A v \in Workers : W[<<"bucket", v>>] = IF <<"bucket", v>> \in M THEN Nothing ELSE V[<<"bucket", v>>]
    <3> TAKE v \in Workers
    <3>1. W[<<"bucket", v>>] = pending'[v]
      BY Cnt_Waits
    <3>2. V[<<"bucket", v>>] = pending[v]
      BY Cnt_Waits
    <3>3. <<"bucket", v>> \in M <=> v = w
      BY Cnt_PlacesOf
    <3> HIDE DEF V, W, M
    <3> QED
      BY <1>3, <3>1, <3>2, <3>3
  <2>3. \A t \in Bumpers : W[<<"hand", t>>] = IF <<"hand", t>> \in M THEN Nothing ELSE V[<<"hand", t>>]
    <3> TAKE t \in Bumpers
    <3>1. W[<<"hand", t>>] = hand'[t]
      BY Cnt_Waits
    <3>2. V[<<"hand", t>>] = hand[t]
      BY Cnt_Waits
    <3>3. <<"hand", t>> \in M <=> WorkerOf[t] = w
      BY Cnt_PlacesOf
    <3> HIDE DEF V, W, M
    <3> QED
      BY <1>4, <3>1, <3>2, <3>3
  <2>4. \A t \in Bumpers : W[<<"write", t>>] = IF <<"write", t>> \in M THEN Nothing ELSE V[<<"write", t>>]
    <3> TAKE t \in Bumpers
    <3>1. W[<<"write", t>>] = IF wt'[t].pc = "bump" THEN wt'[t].delta ELSE Nothing
      BY Cnt_Waits
    <3>2. V[<<"write", t>>] = IF wt[t].pc = "bump" THEN wt[t].delta ELSE Nothing
      BY Cnt_Waits
    <3>3. <<"write", t>> \in M <=> WorkerOf[t] = w
      BY Cnt_PlacesOf
    <3> HIDE DEF V, W, M
    <3> QED
      BY <1>5, <3>1, <3>2, <3>3
  <2>5. OnePlace(landed, counted, lost, V)
    BY DEF Waits
  <2>6. gone = GoneOf(V, M)
    BY <1>1 DEF Waits
  <2> HIDE DEF V, W, M
  <2>7. Cleared(V, M, W)
    BY <2>2, <2>3, <2>4, Cnt_Places DEF Cleared
  <2>8. Gains(V, M, lost, lost')
    BY <1>2, <2>6 DEF GoneOf, Gains
  <2>9. landed \in DeltaRecord /\ counted \in DeltaRecord /\ lost \in DeltaRecord /\ lost' \in DeltaRecord
    BY <1>2
  <2>10. OnePlace(landed, counted, lost', W)
    BY ONLY <2>1, <2>5, <2>7, <2>8, <2>9, Cnt_Settled
  <2> QED
    BY <1>6, <2>10 DEF W, Waits
<1>50. BatchHolds'
  BY <1>4, <1>5, <1>6 DEF BatchHolds
<1> QED
  BY <1>50, <1>7, <1>8, <1>9, <1>10

\* A death that takes nothing takes no change of those it ends.
LEMMA Cnt_KillTakesNothing ==
  ASSUME CountInductive, NEW w \in Workers, KillWorker(w), lost' = lost,
         NEW t \in Bumpers, WorkerOf[t] = w, wt[t].pc # "idle", WorkerOf[t] \notin failed
  PROVE  wt[t].delta.changes \subseteq counted.changes
<1> USE DEF CountInductive, CountTyped
<1>1. PICK gone \in DeltaRecord : gone = GoneOf(Waits, PlacesOf(w))
  BY Cnt_KillParts
<1>2. gone.changes \subseteq lost.changes
  BY <1>1, Cnt_KillParts, Cnt_PlusFits
<1>3. \A p \in PlacesOf(w) : Waits[p].changes = {}
  <2> TAKE p \in PlacesOf(w)
  <2>1. gone.changes = UNION {Waits[q].changes : q \in PlacesOf(w)}
    BY <1>1 DEF GoneOf
  <2>2. Waits[p].changes \subseteq lost.changes
    BY <1>2, <2>1
  <2>3. p \in Places
    BY Cnt_PlacesOf
  <2> QED
    BY <2>2, <2>3 DEF OnePlace
<1>4. pending[w].changes = {}
  <2>1. Waits[<<"bucket", w>>] = pending[w]
    BY Cnt_WaitsNow
  <2> QED
    BY <1>3, <2>1, Cnt_PlacesOf
<1>5. \A o \in Bumpers : WorkerOf[o] = w => hand[o].changes = {}
  <2> TAKE o \in Bumpers
  <2>1. Waits[<<"hand", o>>] = hand[o]
    BY Cnt_WaitsNow
  <2> QED
    BY <1>3, <2>1, Cnt_PlacesOf
<1>6. CASE wt[t].pc = "bump"
  <2>1. Waits[<<"write", t>>] = IF wt[t].pc = "bump" THEN wt[t].delta ELSE Nothing
    BY Cnt_WaitsNow
  <2> QED
    BY <1>3, <1>6, <2>1, Cnt_PlacesOf
<1>7. CASE wt[t].pc \in {"lock", "pop"}
  BY <1>4, <1>5, <1>7 DEF DepositsFound
<1>9. CASE wt[t].pc = "replace"
  BY <1>5, <1>9 DEF BatchHolds
<1>8. wt[t].pc \in {"bump", "lock", "pop", "replace"}
  <2>1. wt[t].pc \in PcSet
    BY Cnt_Record
  <2> QED
    BY <2>1 DEF LockFine, PcSet
<1> QED
  BY <1>6, <1>7, <1>8, <1>9

LEMMA Cnt_Init == CountersInit => CountInductive
<1> SUFFICES ASSUME CountersInit PROVE CountInductive
  OBVIOUS
<1> USE DEF CountersInit
<1>1. CountTyped
  <2>1. landed.messages = 0 /\ 0 <= MaxMessages
    BY CountersAssumption DEF Nothing
  <2> QED
    BY <2>1, Cnt_NothingFits DEF CountTyped
<1>2. Consecutive(landed)
  <2>1. landed.changes = 1..0
    BY DEF Nothing
  <2> QED
    BY <2>1 DEF Consecutive
<1>3. LockFine
  BY CountersAssumption DEF LockFine, WriterIdle
<1>4. DepositsFound /\ BatchHolds
  BY DEF DepositsFound, BatchHolds, WriterIdle
<1>5. \A p \in Places : Waits[p] = Nothing
  <2>1. \A w \in Workers : Waits[<<"bucket", w>>] = Nothing
    BY Cnt_WaitsNow
  <2>2. \A t \in Bumpers : Waits[<<"hand", t>>] = Nothing
    BY Cnt_WaitsNow
  <2>3. \A t \in Bumpers : Waits[<<"write", t>>] = Nothing
    BY Cnt_WaitsNow DEF WriterIdle
  <2> QED
    BY <2>1, <2>2, <2>3, Cnt_Places
<1>6. OnePlace(landed, counted, lost, Waits)
  <2>1. Waits \in [Places -> DeltaRecord]
    BY <1>1, Cnt_WaitsTyped DEF CountTyped, Waits
  <2>2. \A p \in Places : Waits[p].changes = {} /\ Waits[p].messages = 0
    BY <1>5 DEF Nothing
  <2>3. \A p \in Places : MessagesOf(Waits)[p] = 0
    BY <2>1, <2>2, Cnt_Summable
  <2>4. SumFunctionOnSet(MessagesOf(Waits), Places) = 0
    BY <2>3, Cnt_PlacesFinite, SumZero
  <2>5. /\ landed.changes = {} /\ counted.changes = {} /\ lost.changes = {}
        /\ landed.messages = 0 /\ counted.messages = 0 /\ lost.messages = 0
    BY DEF Nothing
  <2> QED
    BY <2>2, <2>4, <2>5 DEF OnePlace
<1> QED
  BY <1>1, <1>2, <1>3, <1>4, <1>6 DEF CountInductive

LEMMA Cnt_Next == CountInductive /\ [CountersNext]_countVars => CountInductive'
<1> SUFFICES ASSUME CountInductive, [CountersNext]_countVars PROVE CountInductive'
  OBVIOUS
<1>1. ASSUME NEW t \in Bumpers, WriterStep(t) PROVE CountInductive'
  BY <1>1, Cnt_Deposit, Cnt_LockCounters, Cnt_PopBatch, Cnt_ReplaceCounters, Cnt_FailReplace,
     Cnt_ReturnBatch DEF WriterStep
<1>2. CASE UNCHANGED countVars
  BY <1>2 DEF countVars, CountInductive, CountTyped, Consecutive, LockFine, DepositsFound, BatchHolds,
              Waits, OnePlace
<1> QED
  BY <1>1, <1>2, Cnt_LandWrite, Cnt_BeginFlush, Cnt_KillWorker DEF CountersNext

\* What nothing was lost of is counted, in a bucket, in a hand or with its writer.
LEMMA Cnt_CountedOnce == CountInductive => CountedOnce
<1> SUFFICES ASSUME CountInductive PROVE CountedOnce
  OBVIOUS
<1> USE DEF CountInductive
<1> DEFINE settled == counted.changes \cup lost.changes
<1>1. \A p \in Places : Waits[p] = Waiting(p)
  BY DEF Waits, WaitsOf, Waiting
<1>2. settled \subseteq landed.changes /\ counted.changes \cap lost.changes = {}
  BY DEF OnePlace
<1>3. ASSUME NEW c \in Change
      PROVE  Cardinality({p \in Places : c \in Waiting(p).changes})
                = IF c \in landed.changes \ settled THEN 1 ELSE 0
  <2> DEFINE at == {p \in Places : c \in Waiting(p).changes}
  <2>1. \A p \in Places : p \in at <=> c \in Waits[p].changes
    BY <1>1
  <2>2. CASE c \in landed.changes \ settled
    <3>1. PICK p \in Places : c \in Waits[p].changes
      BY <2>2 DEF OnePlace
    <3>2. \A q \in Places : c \in Waits[q].changes => q = p
      BY <3>1 DEF OnePlace
    <3>3. at = {p}
      BY <2>1, <3>1, <3>2
    <3> QED
      BY <2>2, <3>3, FS_Singleton
  <2>3. CASE c \notin landed.changes \ settled
    <3>1. \A q \in Places : c \notin Waits[q].changes
      BY <2>3 DEF OnePlace
    <3>2. at = {}
      BY <2>1, <3>1
    <3> QED
      BY <2>3, <3>2, FS_EmptySet
  <2> QED
    BY <2>2, <2>3
<1>4. MessagesWaiting = MessagesOf(Waits) /\ DOMAIN MessagesWaiting = Places
  BY <1>1 DEF MessagesWaiting, MessagesOf
<1>5. landed.messages = counted.messages + lost.messages + SumFunction(MessagesWaiting)
  BY <1>4 DEF OnePlace, SumFunction
<1> QED
  BY <1>2, <1>3, <1>5 DEF CountedOnce

LEMMA Cnt_TypeOK == CountInductive => CountersTypeOK
<1> SUFFICES ASSUME CountInductive PROVE CountersTypeOK
  OBVIOUS
<1> USE DEF CountInductive, CountTyped
<1>1. Waits \in [Places -> DeltaRecord]
  BY Cnt_WaitsTyped DEF Waits
<1>2. PICK n \in Nat : n = SumFunctionOnSet(MessagesOf(Waits), Places)
  BY <1>1, Cnt_Summable, Cnt_PlacesFinite, SumNat
<1>3. \A p \in Places : Waits[p].messages \in Nat /\ Waits[p].messages <= n
  <2>1. \A p \in Places : MessagesOf(Waits)[p] <= n
    BY <1>1, <1>2, Cnt_Summable, Cnt_PlacesFinite, SumBounds
  <2> QED
    BY <1>1, <2>1, Cnt_Summable DEF DeltaRecord
<1>4. /\ counted.messages \in Nat /\ lost.messages \in Nat /\ landed.messages \in Nat
      /\ landed.messages = counted.messages + lost.messages + n
      /\ landed.messages <= MaxMessages /\ MaxMessages \in Nat
  BY <1>2, CountersAssumption DEF DeltaRecord, OnePlace
<1>5. ASSUME NEW d \in DeltaRecord, d.messages <= MaxMessages
      PROVE  d \in Delta
  <2>1. PICK k \in SUBSET Change : k = d.changes
    BY DEF DeltaRecord
  <2>2. PICK j \in 0..MaxMessages : j = d.messages
    BY <1>4, <1>5 DEF DeltaRecord
  <2>3. d = [changes |-> k, messages |-> j]
    BY <2>1, <2>2 DEF DeltaRecord
  <2> QED
    BY <2>3 DEF Delta
<1>6. \A p \in Places : Waits[p] \in Delta
  <2> TAKE p \in Places
  <2>1. Waits[p].messages <= MaxMessages
    BY <1>3, <1>4
  <2> QED
    BY <1>1, <1>5, <2>1
<1>7. landed \in Delta /\ counted \in Delta /\ lost \in Delta
  <2>1. counted.messages <= MaxMessages /\ lost.messages <= MaxMessages
    BY <1>4
  <2> QED
    BY <1>4, <1>5, <2>1
<1>8. pending \in [Workers -> Delta]
  <2>1. \A w \in Workers : pending[w] = Waits[<<"bucket", w>>]
    BY Cnt_WaitsNow
  <2> QED
    BY <1>6, <2>1, Cnt_Places
<1>9. hand \in [Bumpers -> Delta]
  <2>1. \A t \in Bumpers : hand[t] = Waits[<<"hand", t>>]
    BY Cnt_WaitsNow
  <2> QED
    BY <1>6, <2>1, Cnt_Places
<1>10. wt \in [Bumpers -> [pc : {"idle", "bump", "lock", "pop", "replace", "return"}, delta : Delta]]
  BY DEF BumperRecord, PcSet
<1> QED
  BY <1>7, <1>8, <1>9, <1>10 DEF CountersTypeOK, LockFine

\* The end of a bump, as AnsweredIsCounted and NeverBackwards see it.
LEMMA Cnt_Answered ==
  ASSUME CountInductive, [CountersNext]_countVars
  PROVE  /\ \A t \in Bumpers :
              (wt[t].pc # "idle" /\ wt'[t].pc = "idle" /\ lost' = lost /\ WorkerOf[t] \notin failed)
              => wt[t].delta.changes \subseteq counted'.changes
         /\ counted.changes \subseteq counted'.changes
         /\ counted.messages <= counted'.messages
<1> DEFINE Ended(t) == wt[t].pc # "idle" /\ wt'[t].pc = "idle" /\ lost' = lost /\ WorkerOf[t] \notin failed
           Goal == /\ \A t \in Bumpers : Ended(t) => wt[t].delta.changes \subseteq counted'.changes
                   /\ counted.changes \subseteq counted'.changes
                   /\ counted.messages <= counted'.messages
<1> USE DEF CountInductive, CountTyped
<1>1. counted.messages \in Nat
  BY DEF DeltaRecord
<1>2. ASSUME counted' = counted, \A t \in Bumpers : ~Ended(t) PROVE Goal
  BY <1>1, <1>2
<1>3. ASSUME NEW t \in Bumpers, LandWrite(t) PROVE Goal
  <2>1. counted' = counted /\ \A u \in Bumpers : wt'[u].pc = "idle" => wt'[u] = wt[u]
    BY <1>3 DEF LandWrite, Bump
  <2> QED
    BY <1>2, <2>1
<1>4. ASSUME NEW t \in Bumpers, BeginFlush(t) PROVE Goal
  <2>1. counted' = counted /\ \A u \in Bumpers : wt'[u].pc = "idle" => wt'[u] = wt[u]
    BY <1>4 DEF BeginFlush, Bump
  <2> QED
    BY <1>2, <2>1
<1>5. ASSUME NEW t \in Bumpers, Deposit(t) PROVE Goal
  <2>1. counted' = counted
    BY <1>5 DEF Deposit
  <2>2. ASSUME NEW u \in Bumpers, Ended(u) PROVE wt[u].delta.changes \subseteq counted'.changes
    <3> DEFINE bag == Plus(pending[WorkerOf[t]], wt[t].delta)
    <3>1. IF RidesAlong(wt[t].delta, bag) THEN WriterDone(t) ELSE WriterGoto(t, "lock")
      BY <1>5 DEF Deposit
    <3>2. u = t /\ RidesAlong(wt[t].delta, bag)
      <4>1. CASE WriterGoto(t, "lock")
        <5>1. "lock" \in PcSet
          BY DEF PcSet
        <5> QED
          BY <2>2, <4>1, <5>1, Cnt_Goto
      <4>2. CASE WriterDone(t) /\ RidesAlong(wt[t].delta, bag)
        BY <2>2, <4>2, Cnt_Done
      <4> QED
        BY <3>1, <4>1, <4>2
    <3>3. wt[t].delta.changes = {}
      BY <3>2 DEF RidesAlong, OnlyMessages
    <3> QED
      BY <3>2, <3>3
  <2> QED
    BY <1>1, <2>1, <2>2
<1>6. ASSUME NEW t \in Bumpers, LockCounters(t) PROVE Goal
  <2>1. counted' = counted
    BY <1>6 DEF LockCounters
  <2>2. ASSUME NEW u \in Bumpers, Ended(u) PROVE wt[u].delta.changes \subseteq counted'.changes
    <3>1. CASE WriterGoto(t, "pop")
      <4>1. "pop" \in PcSet
        BY DEF PcSet
      <4> QED
        BY <2>2, <3>1, <4>1, Cnt_Goto
    <3>2. CASE OnlyMessages(wt[t].delta) /\ WriterDone(t)
      <4>1. u = t
        BY <2>2, <3>2, Cnt_Done
      <4> QED
        BY <3>2, <4>1 DEF OnlyMessages
    <3> QED
      BY <1>6, <3>1, <3>2 DEF LockCounters
  <2> QED
    BY <1>1, <2>1, <2>2
<1>7. ASSUME NEW t \in Bumpers, PopBatch(t) PROVE Goal
  <2>1. "replace" \in PcSet /\ counted' = counted /\ WriterGoto(t, "replace")
    BY <1>7 DEF PcSet, PopBatch
  <2>2. \A u \in Bumpers : ~Ended(u)
    BY <2>1, Cnt_Goto
  <2> QED
    BY <1>2, <2>1, <2>2
<1>8. ASSUME NEW t \in Bumpers, FailReplace(t) PROVE Goal
  <2>1. "return" \in PcSet /\ counted' = counted /\ WriterGoto(t, "return")
    BY <1>8 DEF PcSet, FailReplace
  <2>2. \A u \in Bumpers : ~Ended(u)
    BY <2>1, Cnt_Goto
  <2> QED
    BY <1>2, <2>1, <2>2
<1>9. ASSUME NEW t \in Bumpers, ReturnBatch(t) PROVE Goal
  <2>1. /\ counted' = counted /\ wt[t].pc = "return" /\ \A u \in Bumpers : u # t => wt'[u] = wt[u]
    BY <1>9, Cnt_ReturnBatch DEF ReturnBatch
  <2>2. WorkerOf[t] \in failed
    BY <2>1 DEF LockFine
  <2>3. \A u \in Bumpers : ~Ended(u)
    BY <2>1, <2>2
  <2> QED
    BY <1>2, <2>1, <2>3
<1>10. ASSUME NEW t \in Bumpers, ReplaceCounters(t) PROVE Goal
  <2>1. /\ counted'.changes = counted.changes \cup hand[t].changes
        /\ counted'.messages = counted.messages + hand[t].messages
        /\ \A u \in Bumpers : u # t => wt'[u] = wt[u]
    BY <1>10, Cnt_ReplaceCounters
  <2>2. hand[t].messages \in Nat
    BY DEF DeltaRecord
  <2>3. wt[t].pc = "replace" /\ flock = t
    BY <1>10 DEF ReplaceCounters, LockFine
  <2>4. Ended(t) => wt[t].delta.changes \subseteq counted'.changes
    BY <2>1, <2>3 DEF BatchHolds
  <2> QED
    BY <1>1, <2>1, <2>2, <2>4
<1>11. ASSUME NEW w \in Workers, KillWorker(w) PROVE Goal
  <2>1. /\ counted' = counted
        /\ wt' = [t \in Bumpers |-> IF WorkerOf[t] = w THEN WriterIdle ELSE wt[t]]
    BY <1>11, Cnt_KillParts
  <2>2. ASSUME NEW t \in Bumpers, Ended(t) PROVE wt[t].delta.changes \subseteq counted'.changes
    <3>1. WorkerOf[t] = w
      BY <2>1, <2>2
    <3> QED
      BY <1>11, <2>1, <2>2, <3>1, Cnt_KillTakesNothing
  <2> QED
    BY <1>1, <2>1, <2>2
<1>12. CASE UNCHANGED countVars
  BY <1>2, <1>12 DEF countVars
<1> QED
  BY <1>3, <1>4, <1>5, <1>6, <1>7, <1>8, <1>9, <1>10, <1>11, <1>12 DEF CountersNext, WriterStep

----------------------------------------------------------------------------
(* Side by side.                                                           *)

LEMMA PartsApart ==
  /\ EndingInit => Init /\ CountersInit
  /\ [EndingNext]_endingVars => [Next]_vars /\ [CountersNext]_countVars
BY DEF EndingInit, EndingNext, endingVars

LEMMA RoomPart == EndingSpec => Spec
BY PartsApart, PTL DEF EndingSpec, Spec

\* The inductive invariant of the counters: one holder of the lock, a batch in the
\* hands of who popped it, and each change that landed in exactly one place.
THEOREM Batches == EndingSpec => []CountInductive
BY PartsApart, Cnt_Init, Cnt_Next, PTL DEF EndingSpec

\* Where handlers may be late but nothing is lost or dies, the generation of the
\* room counts its conversations; and whatever the lock, a failing replace or a
\* death does, every change and every message is counted once, lost with its
\* worker or waiting in one place (`_set_seq_entry`, `_bump`).
THEOREM EverythingCounts ==
  ASSUME Env \subseteq {"stall"}
  PROVE  EndingSpec => []EndingInv
<1>1. Spec => []GenCountsBirths
  BY GenerationsCount
<1>2. GenCountsBirths /\ CountInductive => EndingInv
  BY Cnt_CountedOnce, Cnt_TypeOK DEF EndingInv
<1> QED
  BY <1>1, <1>2, RoomPart, Batches, PTL

\* A change whose handler was answered is in the file, unless a replace of its own
\* worker failed or a worker died at that moment, and a counter never goes back
\* (`_bump`).
THEOREM AnswersStayCounted == EndingSpec => AnsweredStaysCounted
<1> DEFINE Answered ==
             \A t \in Bumpers :
                (wt[t].pc # "idle" /\ wt'[t].pc = "idle" /\ lost' = lost
                   /\ WorkerOf[t] \notin failed')
                => wt[t].delta.changes \subseteq counted'.changes
           Forward == /\ counted.changes \subseteq counted'.changes
                      /\ counted.messages <= counted'.messages
<1>1. CountInductive /\ [CountersNext]_countVars => [Answered]_countVars /\ [Forward]_countVars
  <2> SUFFICES ASSUME CountInductive, [CountersNext]_countVars PROVE Answered /\ Forward
    OBVIOUS
  <2>1. failed \subseteq failed'
    BY DEF CountersNext, WriterStep, LandWrite, BeginFlush, Deposit, LockCounters, PopBatch,
           ReplaceCounters, FailReplace, ReturnBatch, KillWorker, countVars
  <2> QED
    BY <2>1, Cnt_Answered
<1>2. EndingSpec => [][Answered]_countVars /\ [][Forward]_countVars
  BY <1>1, PartsApart, Batches, PTL DEF EndingSpec
<1> QED
  BY <1>2 DEF AnsweredStaysCounted, AnsweredIsCounted, NeverBackwards
=============================================================================
