------------------------------ MODULE Overview ------------------------------
(***************************************************************************)
(* `room_stats` of src/src/store.py, the walk behind GET /rooms: it stats    *)
(* every room, takes the ones written last and reads the tail of each,      *)
(* under a memo whose key is the stat.  Threads of one worker share the     *)
(* memo; rooms are written and reaped meanwhile.  Sizes count records, and  *)
(* the clock of a stat ticks more coarsely than rooms are written.         *)
(***************************************************************************)
EXTENDS Integers, Sequences, FiniteSets, Functions

CONSTANTS
    Listed, Private,    \* rooms with a listable name, and the others
    Nicks,
    Start,              \* what the rooms hold at first, newest first
    Views,              \* handlers that walk
    ShowLimit,          \* limit
    WindowMessages,     \* WINDOW_MESSAGES
    MemoMax,            \* _WINDOW_MEMO_MAX
    RingRecords,        \* a ring that is full
    MaxPosts,           \* bound of the posts in a behaviour
    PostsPerGrain,      \* bound of a room's posts in one tick of the stat's clock
    MaxGrain            \* bound of that clock

ASSUME OverviewAssumption ==
    /\ Listed \cap Private = {} /\ IsFiniteSet(Listed)
    /\ {ShowLimit, WindowMessages, MemoMax, RingRecords} \subseteq Nat \ {0}
    /\ Start \in [Listed \cup Private -> Seq(Nicks)]
    /\ {MaxPosts, PostsPerGrain, MaxGrain} \subseteq Nat

VARIABLES
    tail,       \* the nicks of a room's records, newest first; none when there is no file
    newest,     \* the room's last sequence number, or its floor
    mtime,      \* st_mtime_ns
    grain,      \* the clock st_mtime_ns is taken from
    posted,     \* a room's posts in this grain
    memo,       \* _cached_window
    view        \* the walks

overviewVars == <<tail, newest, mtime, grain, posted, memo, view>>
ringVars == <<tail, newest, mtime, grain, posted>>

Names == Listed \cup Private
NoView == [pc |-> "idle", next |-> {}, read |-> {}, shown |-> {}, reaped |-> {}]

OverviewInit ==
    /\ tail = Start
    /\ newest = [r \in Names |-> Len(Start[r])]
    /\ mtime = [r \in Names |-> 0]
    /\ grain = 1 /\ posted = [r \in Names |-> 0]
    /\ memo = {}
    /\ view = [v \in Views |-> NoView]

---------------------------------------------------------------------------
(* The rooms; the private ones are there for the walk to pass over.        *)

\* A full ring keeps its newest half.
Post(r, n) ==
    /\ posted[r] < PostsPerGrain
    /\ SumFunction([q \in Listed |-> newest[q] - Len(Start[q])]) < MaxPosts
    /\ tail' = [tail EXCEPT ![r] = IF Len(@) < RingRecords THEN <<n>> \o @
                                   ELSE <<n>> \o SubSeq(@, 1, RingRecords \div 2)]
    /\ newest' = [newest EXCEPT ![r] = @ + 1]
    /\ mtime' = [mtime EXCEPT ![r] = grain]
    /\ posted' = [posted EXCEPT ![r] = @ + 1]
    /\ UNCHANGED <<grain, memo, view>>

\* Only an idle room is reaped.
ReapIdle(r) ==
    /\ tail[r] # <<>> /\ mtime[r] < grain
    /\ tail' = [tail EXCEPT ![r] = <<>>]
    /\ view' = [v \in Views |-> IF view[v].pc = "idle" THEN NoView
                                ELSE [view[v] EXCEPT !.reaped = @ \cup {r}]]
    /\ UNCHANGED <<newest, mtime, grain, posted, memo>>

NextGrain ==
    /\ grain < MaxGrain
    /\ grain' = grain + 1
    /\ posted' = [r \in Names |-> 0]
    /\ UNCHANGED <<tail, newest, mtime, memo, view>>

---------------------------------------------------------------------------
(* What is computed from a window (newest first).                          *)

\* The newest run of one nick.
Unanswered(w) ==
    CHOOSE n \in 0..Len(w) :
       /\ \A i \in 1..n : w[i] = w[1]
       /\ n < Len(w) => w[n + 1] # w[1]

\* _rollup: the counts its two ratios are made of, over all the windows shown.
Rollup(shown) ==
    [messages   |-> SumFunction([e \in shown |-> Len(e.nicks)]),
     unanswered |-> SumFunction([e \in shown |-> Unanswered(e.nicks)]),
     nicks      |-> Cardinality(UNION {{e.nicks[i] : i \in DOMAIN e.nicks} : e \in shown})]

---------------------------------------------------------------------------
(* The walk.                                                               *)

SmallerOf(m, n) == IF m <= n THEN m ELSE n
Before(e, f) == e.mtime > f.mtime \/ (e.mtime = f.mtime /\ e.size > f.size)

\* The stats, the sort by (mtime, size) and the cut.  A name that is not
\* listable, or a file that is gone, is passed over.  The stats are one step:
\* what a later step finds is compared with a room's own stat alone.
WalkListed(v) ==
    /\ view[v].pc = "idle"
    /\ LET entries == {[room |-> r, mtime |-> mtime[r], size |-> Len(tail[r]), top |-> newest[r]] :
                           r \in {q \in Listed : tail[q] # <<>>}}
       IN  \E first \in SUBSET entries :
              /\ Cardinality(first) = SmallerOf(ShowLimit, Cardinality(entries))
              /\ \A e \in first, f \in entries \ first : ~Before(f, e)
              /\ view' = [view EXCEPT ![v] = [NoView EXCEPT !.pc = "show", !.next = first]]
    /\ UNCHANGED <<ringVars, memo>>

\* Bug: a stat that shows no later write is taken for the same file.
Keyed_ByTime(k, e) == k.room = e.room /\ k.mtime = e.mtime

Keyed(k, e) == k.room = e.room /\ k.mtime = e.mtime /\ k.size = e.size

Cached(e) == {k \in memo : Keyed(k, e)}

Line(e, w) == [room |-> e.room, statTop |-> e.top, top |-> w.top, nicks |-> w.nicks]

ShowCached(v, e) ==
    /\ view[v].pc = "show" /\ e \in view[v].next
    /\ \E k \in Cached(e) :
          view' = [view EXCEPT ![v].next = @ \ {e}, ![v].shown = @ \cup {Line(e, k)}]
    /\ UNCHANGED <<ringVars, memo>>

\* room_window: one pass over the tail gives the last sequence number and the nicks.
Window(r) == [top |-> IF tail[r] = <<>> THEN 0 ELSE newest[r],
              nicks |-> SubSeq(tail[r], 1, SmallerOf(WindowMessages, Len(tail[r])))]

\* What the LRU keeps beside a new entry; the first of two reads under one key stays.
Remembered(e, w) ==
    LET k == [room |-> e.room, mtime |-> e.mtime, size |-> e.size, top |-> w.top, nicks |-> w.nicks]
    IN  IF Cached(e) # {} THEN {memo}
        ELSE {kept \cup {k} : kept \in IF Cardinality(memo) < MemoMax THEN {memo}
                                       ELSE {m \in SUBSET memo : Cardinality(m) = MemoMax - 1}}

ReadWindow(v, e) ==
    /\ view[v].pc = "show" /\ e \in view[v].next /\ Cached(e) = {}
    /\ view' = [view EXCEPT ![v].pc = "store", ![v].next = @ \ {e}, ![v].read = {[entry |-> e, window |-> Window(e.room)]}]
    /\ UNCHANGED <<ringVars, memo>>

StoreWindow(v) ==
    /\ view[v].pc = "store"
    /\ \E m \in view[v].read :
          /\ memo' \in Remembered(m.entry, m.window)
          /\ view' = [view EXCEPT ![v].pc = "show", ![v].read = {}, ![v].shown = @ \cup {Line(m.entry, m.window)}]
    /\ UNCHANGED ringVars

EndView(v) ==
    /\ view[v].pc = "show" /\ view[v].next = {}
    /\ view' = [view EXCEPT ![v] = NoView]
    /\ UNCHANGED <<ringVars, memo>>

Walking(v) ==
    \/ WalkListed(v) \/ StoreWindow(v) \/ EndView(v)
    \/ \E e \in view[v].next : ShowCached(v, e) \/ ReadWindow(v, e)

OverviewNext ==
    \/ NextGrain
    \/ \E r \in Listed : ReapIdle(r) \/ \E n \in Nicks : Post(r, n)
    \/ \E v \in Views : Walking(v)

OverviewSpec == OverviewInit /\ [][OverviewNext]_overviewVars

---------------------------------------------------------------------------
(* Properties.                                                             *)

\* A room's line in the listing is no older than the stat that ranked it,
\* although its window may come from a memo that another walk filled: a window
\* without the room's newest record is shown only for a room that was reaped
\* while the walk ran (`_cached_window`'s key).
WindowNotOlder ==
    \A v \in Views : \A e \in view[v].shown :
       e.top >= e.statTop \/ (e.nicks = <<>> /\ e.room \in view[v].reaped)

\* The unanswered share counts, over all the messages of the windows shown,
\* those after which nobody else spoke in their room; and the nicks are pooled,
\* so that one nick in many rooms counts once (`_unanswered`, `_rollup`).
RollupPools ==
    \A v \in Views :
       LET shown == view[v].shown
           messages == UNION {{<<e.room, i, e.nicks[i]>> : i \in DOMAIN e.nicks} : e \in shown}
           later(m, n) == n[1] = m[1] /\ n[2] < m[2]
       IN  view[v].pc = "show" =>
              Rollup(shown) = [messages   |-> Cardinality(messages),
                               unanswered |-> Cardinality({m \in messages : \A n \in messages : later(m, n) => n[3] = m[3]}),
                               nicks      |-> Cardinality({m[3] : m \in messages})]

\* The windows of a listing are no older than the stats they are shown with, and
\* its figures are those of one pool of their messages (`room_stats`).
OverviewInv == WindowNotOlder /\ RollupPools
=============================================================================
