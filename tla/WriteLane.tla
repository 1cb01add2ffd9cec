----------------------------- MODULE WriteLane -----------------------------
(***************************************************************************)
(* The write lanes of one worker process: GET /say, GET /say-signed and    *)
(* POST /r/<room>, from the rate limiter to the reply.  A request takes a  *)
(* token of its address's write budget, is let through or refused by the   *)
(* gates, pays for a room it would create, reserves a copy of its text in  *)
(* the duplicate ring, appends, and settles.  Posters run in a threadpool  *)
(* and interleave at every step below; each step is one critical section   *)
(* of limit.py, one read of the file system, or one call of the store.     *)
(*                                                                         *)
(* Time is counted in ticks.  A bucket holds units: one tick refills one   *)
(* unit and a token of kind k costs Period(k) of them, which is limit.py's *)
(* arithmetic without its fractions.                                       *)
(***************************************************************************)
EXTENDS Integers, Sequences, FiniteSets

CONSTANTS
    Posters,       \* the requests of a behaviour
    Addresses,      \* client_ip(request)
    LaneRooms,      \* rooms written to
    Texts,          \* texts, after normalize_text
    LongTexts,      \* those that reach CHAT_DUPE_MIN_LENGTH
    Calls,          \* the <<address, room, text>> requests may carry
    WriteBurst,     \* tokens a full write bucket holds
    WritePeriod,    \* ticks that refill one of them
    RoomBurst,      \* CHAT_RATE_ROOMS_PER_DAY
    RoomPeriod,     \* ticks that refill one room
    MaxBuckets,     \* MAX_BUCKETS
    Window,         \* CHAT_DUPE_FILTER_SECONDS, in ticks
    MaxCopies,      \* CHAT_DUPE_MAX_COPIES
    MaxDupeKeys,    \* MAX_DUPE_KEYS
    MaxClock        \* bound of the clock, for TLC

ASSUME LaneAssumption ==
    /\ IsFiniteSet(Posters) /\ LongTexts \subseteq Texts
    /\ Calls \subseteq Addresses \X LaneRooms \X Texts
    /\ {WriteBurst, WritePeriod, RoomBurst, RoomPeriod, MaxBuckets,
        Window, MaxCopies, MaxDupeKeys} \subseteq Nat \ {0}
    /\ MaxClock \in Nat

VARIABLES
    clock,      \* time.monotonic()
    buckets,    \* limit._buckets, oldest first: <<address, kind>> with its balance
    dupes,      \* limit._dupes, oldest first: <<room, text>> with its copies' times
    live,       \* the rooms that have a file
    lastSeq,    \* a room's high-water mark, kept by its floor when it is reaped
    req,        \* the requests
    forgotten   \* history: addresses whose room bucket was evicted

laneVars == <<clock, buckets, dupes, live, lastSeq, req, forgotten>>

Kinds == {"write", "create"}
Period(kind) == IF kind = "write" THEN WritePeriod ELSE RoomPeriod
Full(kind) == IF kind = "write" THEN WriteBurst * WritePeriod
                                ELSE RoomBurst * RoomPeriod

NotSampled == -1

Steps == {"new", "gate", "absent", "slot", "ring", "append", "settle",
          "done"}

Fresh(ip, room, text) ==
    [pc |-> "new", ip |-> ip, room |-> room, text |-> text,
     charged |-> FALSE, at |-> NotSampled, seq |-> 0]

LaneTypeOK ==
    /\ clock \in 0..MaxClock
    /\ \A i \in DOMAIN buckets :
          /\ buckets[i].key \in Addresses \X Kinds
          /\ buckets[i].units \in 0..Full(buckets[i].key[2])
          /\ buckets[i].last \in 0..clock
    /\ \A i, j \in DOMAIN buckets : buckets[i].key = buckets[j].key => i = j
    /\ Len(buckets) <= MaxBuckets + Cardinality(Posters)
    /\ \A i \in DOMAIN dupes :
          /\ dupes[i].key \in LaneRooms \X LongTexts
          /\ dupes[i].times \in Seq(0..clock)
          /\ Len(dupes[i].times) \in 1..MaxCopies
    /\ \A i, j \in DOMAIN dupes : dupes[i].key = dupes[j].key => i = j
    /\ Len(dupes) <= MaxDupeKeys
    /\ live \subseteq LaneRooms
    /\ lastSeq \in [LaneRooms -> Nat]
    /\ req \in [Posters -> [pc : Steps, ip : Addresses, room : LaneRooms,
                             text : Texts, charged : BOOLEAN,
                             at : Nat \cup {NotSampled}, seq : Nat]]
    /\ forgotten \subseteq Addresses

LaneInit ==
    /\ clock = 0
    /\ buckets = <<>>
    /\ dupes = <<>>
    /\ live = {}
    /\ lastSeq = [r \in LaneRooms |-> 0]
    /\ \E call \in [Posters -> Calls] :
          req = [q \in Posters |-> Fresh(call[q][1], call[q][2], call[q][3])]
    /\ forgotten = {}

---------------------------------------------------------------------------
\* An OrderedDict is a sequence of entries, each with its key.

KeysOf(od) == {od[i].key : i \in DOMAIN od}

\* What of s is in G; SelectSeq as a function, for the proofs.
Only(s, G) ==
    LET Of[i \in 0..Len(s)] ==
            IF i = 0 THEN <<>>
            ELSE IF s[i] \in G THEN Append(Of[i - 1], s[i]) ELSE Of[i - 1]
    IN  Of[Len(s)]

Without(od, k) == Only(od, {od[i] : i \in {j \in DOMAIN od : od[j].key # k}})
Entry(od, k) == od[CHOOSE i \in DOMAIN od : od[i].key = k]
Assign(od, e) ==        \* od[e.key] = e: in place, or at the end
    IF e.key \in KeysOf(od)
    THEN [i \in DOMAIN od |-> IF od[i].key = e.key THEN e ELSE od[i]]
    ELSE Append(od, e)
Newest(s, n) == IF Len(s) <= n THEN s ELSE SubSeq(s, Len(s) - n + 1, Len(s))
LesserOf(a, b) == IF a <= b THEN a ELSE b

Balance(ip, kind) ==
    IF <<ip, kind>> \in KeysOf(buckets)
    THEN Entry(buckets, <<ip, kind>>)
    ELSE [key |-> <<ip, kind>>, units |-> Full(kind), last |-> clock]

Refilled(ip, kind) ==
    LET b == Balance(ip, kind)
    IN  LesserOf(Full(kind), b.units + (clock - b.last))

Granted(ip, kind) == Refilled(ip, kind) >= Period(kind)

\* One critical section: refill, charge if there is a token, touch, evict.
Take(ip, kind) ==
    LET left == IF Granted(ip, kind) THEN Refilled(ip, kind) - Period(kind)
                                     ELSE Refilled(ip, kind)
        all  == Append(Without(buckets, <<ip, kind>>),
                       [key |-> <<ip, kind>>, units |-> left, last |-> clock])
    IN  /\ buckets' = Newest(all, MaxBuckets)
        /\ forgotten' = forgotten \cup
              {a \in Addresses :
                  <<a, "create">> \in KeysOf(buckets) \ KeysOf(buckets')}

Capped(kind, units) == LesserOf(Full(kind), units)

\* The refill clock is left alone, and the balance never passes the burst.
Refund(ip, kind) ==
    buckets' = Assign(buckets,
                      [Balance(ip, kind) EXCEPT
                          !.units = Capped(kind, @ + Period(kind))])

---------------------------------------------------------------------------
\* The duplicate ring.

\* Bug: a copy counts one tick too long.
Recent_Late(t, now) == now - t <= Window + 1

Recent(t, now) == now - t <= Window

LiveTimes(k, now) ==
    IF k \in KeysOf(dupes)
    THEN Only(Entry(dupes, k).times, {t \in 0..clock : Recent(t, now)})
    ELSE <<>>

Refuses(k, now) == Len(LiveTimes(k, now)) >= MaxCopies

\* At most 8 expired entries from the oldest, then the hard cap.
Swept(od, now) ==
    LET Expired(i) == \A t \in DOMAIN od[i].times : now - od[i].times[t] > Window
        n == CHOOSE n \in 0..LesserOf(8, Len(od)) :
                /\ \A i \in 1..n : Expired(i)
                /\ n < LesserOf(8, Len(od)) => ~Expired(n + 1)
    IN  Newest(SubSeq(od, n + 1, Len(od)), MaxDupeKeys)

\* Check and record in one critical section; a refusal only prunes.
DupeRefused(k, now) ==
    IF Refuses(k, now)
    THEN dupes' = Assign(dupes, [key |-> k, times |-> Newest(LiveTimes(k, now), MaxCopies)])
    ELSE dupes' = Swept(Append(Without(dupes, k),
                               [key |-> k,
                                times |-> Newest(Append(LiveTimes(k, now), now),
                                                 MaxCopies)]),
                        now)

\* Gives one copy back, by value, and drops an entry left without copies.
DupeRelease(k, now) ==
    IF k \notin KeysOf(dupes) THEN dupes' = dupes
    ELSE LET times == Entry(dupes, k).times
             rest  == IF \E i \in DOMAIN times : times[i] = now
                      THEN LET i == CHOOSE i \in DOMAIN times :
                                        /\ times[i] = now
                                        /\ \A j \in 1..(i - 1) : times[j] # now
                           IN  SubSeq(times, 1, i - 1)
                               \o SubSeq(times, i + 1, Len(times))
                      ELSE times
         IN  dupes' = IF rest = <<>> THEN Without(dupes, k)
                      ELSE Assign(dupes, [key |-> k, times |-> rest])

---------------------------------------------------------------------------
\* One request, step by step.

DupeKey(q) == <<req[q].room, req[q].text>>
HasDupeKey(q) == req[q].text \in LongTexts

Goto(q, pc) == req' = [req EXCEPT ![q].pc = pc]

\* take(request, "write", RATE_WRITE): a 429 ends the request here.
TakeWrite(q) ==
    /\ req[q].pc = "new"
    /\ Take(req[q].ip, "write")
    /\ Goto(q, IF Granted(req[q].ip, "write") THEN "gate" ELSE "done")
    /\ UNCHANGED <<clock, dupes, live, lastSeq>>

\* An early exit: no room token was taken yet, and the write token stays spent.
Denied(q) ==
    /\ req[q].pc = "gate"
    /\ Goto(q, "done")
    /\ UNCHANGED <<clock, buckets, dupes, live, lastSeq, forgotten>>

\* A body that is late, cut off, too large or not an object.
DenyBody(q) == Denied(q)

\* A signature that does not verify, or a name that is a key's without one.
DenySignature(q) == Denied(q)

\* An owned room that takes signed writes only, or not this key's.
DenyWriter(q) == Denied(q)

\* _room_create_gate, first half: a write to an existing room is free.
CheckExists(q) ==
    /\ req[q].pc = "gate"
    /\ Goto(q, IF req[q].room \in live THEN "slot" ELSE "absent")
    /\ UNCHANGED <<clock, buckets, dupes, live, lastSeq, forgotten>>

\* _room_create_gate, second half: the token, or the 429.
ChargeCreation(q) ==
    /\ req[q].pc = "absent"
    /\ Take(req[q].ip, "create")
    /\ req' = IF Granted(req[q].ip, "create")
              THEN [req EXCEPT ![q].pc = "slot", ![q].charged = TRUE]
              ELSE [req EXCEPT ![q].pc = "done"]
    /\ UNCHANGED <<clock, dupes, live, lastSeq>>

\* POST only: `from` is read after the gate, and a bad one is a 400.
BadField(q) ==
    /\ req[q].pc = "slot"
    /\ Goto(q, "done")
    /\ UNCHANGED <<clock, buckets, dupes, live, lastSeq, forgotten>>

\* _dupe_slot samples the clock before dupe_refused takes the ring's lock.
SampleClock(q) ==
    /\ req[q].pc = "slot" /\ HasDupeKey(q)
    /\ req' = [req EXCEPT ![q].pc = "ring", ![q].at = clock]
    /\ UNCHANGED <<clock, buckets, dupes, live, lastSeq, forgotten>>

\* A short text is exempt and takes no lock.
ExemptCopy(q) ==
    /\ req[q].pc = "slot" /\ ~HasDupeKey(q)
    /\ Goto(q, "append")
    /\ UNCHANGED <<clock, buckets, dupes, live, lastSeq, forgotten>>

ReserveCopy(q) ==
    /\ req[q].pc = "ring"
    /\ DupeRefused(DupeKey(q), req[q].at)
    /\ req' = IF Refuses(DupeKey(q), req[q].at)
              THEN [req EXCEPT ![q].pc = "settle", ![q].at = NotSampled]
              ELSE [req EXCEPT ![q].pc = "append"]
    /\ UNCHANGED <<clock, buckets, live, lastSeq, forgotten>>

\* store.append: the record that lands continues the room's numbering, also
\* when the room was reaped since.
Land(q) ==
    /\ req[q].pc = "append"
    /\ live' = live \cup {req[q].room}
    /\ lastSeq' = [lastSeq EXCEPT ![req[q].room] = @ + 1]
    /\ req' = [req EXCEPT ![q].pc = "settle", ![q].seq = lastSeq[req[q].room] + 1]
    /\ UNCHANGED <<clock, buckets, dupes, forgotten>>

ReleaseCopy(q) ==
    IF HasDupeKey(q) THEN DupeRelease(DupeKey(q), req[q].at) ELSE dupes' = dupes

\* store.append raises: a bad nickname, a stale nonce, a text past the cap, a
\* full rooms directory.  _dupe_slot releases the copy; on_bad_input replies.
RefuseAppend(q) ==
    /\ req[q].pc = "append"
    /\ ReleaseCopy(q)
    /\ req' = [req EXCEPT ![q].pc = "done", ![q].at = NotSampled]
    /\ UNCHANGED <<clock, buckets, live, lastSeq, forgotten>>

\* Bug: a room that is there was not made by this request.
MadeRoom_IfGone(q) == req[q].room \notin live

\* record["seq"] == 1; a refusal has no record.
MadeRoom(q) == req[q].seq = 1

\* _settle_room_budget, after a 200 and after a 422: the token of a request
\* whose record is not the room's first goes back.
Settle(q) ==
    /\ req[q].pc = "settle"
    /\ IF req[q].charged /\ ~MadeRoom(q)
       THEN Refund(req[q].ip, "create") ELSE buckets' = buckets
    /\ req' = [req EXCEPT ![q].pc = "done", ![q].charged = @ /\ MadeRoom(q)]
    /\ UNCHANGED <<clock, dupes, live, lastSeq, forgotten>>

\* The reaper deletes an idle room; its floor keeps the numbering.
ReapRoom(r) ==
    /\ r \in live
    /\ live' = live \ {r}
    /\ UNCHANGED <<clock, buckets, dupes, lastSeq, req, forgotten>>

Tick ==
    /\ clock < MaxClock
    /\ clock' = clock + 1
    /\ UNCHANGED <<buckets, dupes, live, lastSeq, req, forgotten>>

RequestStep(q) ==
    \/ TakeWrite(q) \/ DenyBody(q) \/ DenySignature(q) \/ DenyWriter(q)
    \/ CheckExists(q) \/ ChargeCreation(q)
    \/ BadField(q) \/ SampleClock(q) \/ ExemptCopy(q) \/ ReserveCopy(q)
    \/ Land(q) \/ RefuseAppend(q) \/ Settle(q)

LaneNext ==
    \/ \E q \in Posters : RequestStep(q)
    \/ \E r \in LaneRooms : ReapRoom(r)
    \/ Tick

LaneSpec == LaneInit /\ [][LaneNext]_laneVars

---------------------------------------------------------------------------
Landed(q) == req[q].seq > 0
InFlight(q) == req[q].pc = "append"

\* Whoever brought a room into being paid for it and was not paid back: the
\* request whose record is a room's first still holds its charge, however many
\* requests saw the room absent with it.
CreatorPays == \A q \in Posters : req[q].seq = 1 => req[q].charged

\* No address brings more rooms into being than its burst and the time since
\* allow, whatever was refunded meanwhile, as long as its bucket stayed in the
\* table.
RoomBudgetHolds ==
    \A ip \in Addresses \ forgotten :
        Cardinality({q \in Posters : req[q].ip = ip /\ req[q].seq = 1}) * RoomPeriod
            <= Full("create") + clock

\* Every copy the ring counts is a copy that landed or one about to: a write
\* that failed, or was refused, leaves none behind.
NoPhantomCopy ==
    \A i \in DOMAIN dupes : \A t \in 0..clock :
        Cardinality({j \in DOMAIN dupes[i].times : dupes[i].times[j] = t})
            <= Cardinality({q \in Posters :
                    /\ (Landed(q) \/ InFlight(q)) /\ HasDupeKey(q)
                    /\ DupeKey(q) = dupes[i].key /\ req[q].at = t})

\* A request is told its text is a duplicate only when enough copies of it
\* were taken within the window before it.
RefusedForCause ==
    [][\A q \in Posters :
          (req[q].pc = "ring" /\ req'[q].pc = "settle") =>
             Cardinality({p \in Posters \ {q} :
                 /\ Landed(p) \/ InFlight(p)
                 /\ DupeKey(p) = DupeKey(q)
                 /\ req[q].at - req[p].at <= Window}) >= MaxCopies]_laneVars

\* Tokens, budgets and copies follow what came of the requests, in tables that
\* keep their bounds (`_settle_room_budget`, `dupe_release`).
LaneInv == LaneTypeOK /\ CreatorPays /\ RoomBudgetHolds /\ NoPhantomCopy

---------------------------------------------------------------------------
\* What the code does not keep; TLC refutes both.

\* A room token that brought no room into being goes back before the reply: not
\* after an append that failed, which settles nothing.
LostTokenReturned ==
    \A q \in Posters :
        (req[q].pc = "done" /\ req[q].charged) => Landed(q)

\* A room takes no more than MaxCopies copies of one text within a window: not
\* when a request sampled the clock long before it came to the ring.
CopiesPerWindow ==
    \A q \in Posters :
        Landed(q) /\ HasDupeKey(q) =>
            Cardinality({p \in Posters :
                /\ Landed(p) /\ DupeKey(p) = DupeKey(q)
                /\ req[p].at <= req[q].at
                /\ req[q].at - req[p].at <= Window}) <= MaxCopies
=============================================================================
