----------------------------- MODULE StatsView -----------------------------
(***************************************************************************)
(* GET /stats on one worker: a view that is walked for off the request     *)
(* path, one walk at a time, and served as it stands while the next one    *)
(* runs.  A caller waits only when there is nothing to serve.  The event   *)
(* loop runs one step of one task at a time; the walk itself is a thread.  *)
(* What a view shows is the tick its walk began.                           *)
(***************************************************************************)
EXTENDS Integers, FiniteSets

CONSTANTS
    Pollers,        \* callers with the token
    Walks,          \* refresh tasks
    NoWalk,
    ViewTicks,      \* STATS_CACHE_SECONDS
    MaxTick         \* bound of the clock

ASSUME StatsAssumption ==
    /\ NoWalk \notin Walks
    /\ ViewTicks \in Nat /\ MaxTick \in Nat

VARIABLES
    hour,       \* time.monotonic()
    served,     \* _stats_cache: when it was stamped and what it shows
    refresh,    \* _stats_refresh: the task started last
    walk,       \* the tasks
    poller      \* the callers

statsVars == <<hour, served, refresh, walk, poller>>

Nowhen == -1
Hours == 0..MaxTick
Empty == [at |-> Nowhen, shows |-> Nowhen]
WalkIdle == [pc |-> "none", at |-> 0, shows |-> Nowhen]
PollerIdle == [pc |-> "idle", walk |-> NoWalk, shows |-> Nowhen, waited |-> FALSE]

StatsTypeOK ==
    /\ hour \in Hours
    /\ served \in [at : Hours \cup {Nowhen}, shows : Hours \cup {Nowhen}]
    /\ refresh \in Walks \cup {NoWalk}
    /\ walk \in [Walks -> [pc : {"none", "begin", "walk", "done", "failed"},
                           at : Hours, shows : Hours \cup {Nowhen}]]
    /\ poller \in [Pollers -> [pc : {"idle", "await", "reply", "error"},
                               walk : Walks \cup {NoWalk},
                               shows : Hours \cup {Nowhen}, waited : BOOLEAN]]
    /\ \A p \in Pollers : poller[p].pc = "await" => walk[poller[p].walk].pc # "none"
    /\ \A p \in Pollers : poller[p].pc = "reply" => poller[p].shows # Nowhen

StatsInit ==
    /\ hour = 0
    /\ served = Empty /\ refresh = NoWalk
    /\ walk = [w \in Walks |-> WalkIdle]
    /\ poller = [p \in Pollers |-> PollerIdle]

---------------------------------------------------------------------------
Running == refresh # NoWalk /\ walk[refresh].pc \in {"begin", "walk"}

MustWalk == ~Running

Fresh == served # Empty /\ hour - served.at < ViewTicks

\* An old view is served while its successor is walked for, unless the window
\* is not positive.
Servable == served # Empty /\ ViewTicks > 0

Reply(p, view) ==
    poller' = [poller EXCEPT ![p] = [PollerIdle EXCEPT !.pc = "reply", !.shows = view.shows]]

\* A task nobody awaits and nobody holds is collected.
Collectable(w) ==
    /\ walk[w].pc \in {"none", "done", "failed"} /\ w # refresh
    /\ \A p \in Pollers : poller[p].walk # w

\* stats, up to its await.
GetStats(p) ==
    /\ poller[p].pc = "idle"
    /\ IF Fresh THEN Reply(p, served) /\ UNCHANGED <<refresh, walk>>
       ELSE /\ IF MustWalk
               THEN \E w \in {v \in Walks : Collectable(v)} :
                       /\ refresh' = w
                       /\ walk' = [walk EXCEPT ![w] = [WalkIdle EXCEPT !.pc = "begin"]]
               ELSE UNCHANGED <<refresh, walk>>
            /\ IF Servable THEN Reply(p, served)
               ELSE poller' = [poller EXCEPT ![p] =
                       [PollerIdle EXCEPT !.pc = "await", !.walk = refresh', !.waited = TRUE]]
    /\ UNCHANGED <<hour, served>>

\* _refresh_stats: the stamp is taken before the walk is awaited.
BeginWalk(w) ==
    /\ walk[w].pc = "begin"
    /\ walk' = [walk EXCEPT ![w] = [pc |-> "walk", at |-> hour, shows |-> hour]]
    /\ UNCHANGED <<hour, served, refresh, poller>>

\* Bug: the view is stamped when it arrives.
Stamped_OnArrival(w) == [at |-> hour, shows |-> walk[w].shows]

Stamped(w) == [at |-> walk[w].at, shows |-> walk[w].shows]

EndWalk(w) ==
    /\ walk[w].pc = "walk"
    /\ served' = Stamped(w)
    /\ walk' = [walk EXCEPT ![w].pc = "done"]
    /\ UNCHANGED <<hour, refresh, poller>>

\* The walk raised: into whoever awaits it, and into the log for the rest.
FailWalk(w) ==
    /\ walk[w].pc = "walk"
    /\ walk' = [walk EXCEPT ![w].pc = "failed"]
    /\ UNCHANGED <<hour, served, refresh, poller>>

Resume(p) ==
    LET w == poller[p].walk
    IN  /\ poller[p].pc = "await" /\ walk[w].pc \in {"done", "failed"}
        /\ poller' = [poller EXCEPT ![p] =
              [@ EXCEPT !.pc = IF walk[w].pc = "done" THEN "reply" ELSE "error",
                        !.shows = walk[w].shows, !.walk = NoWalk]]
        /\ UNCHANGED <<hour, served, refresh, walk>>

StatsReply(p) ==
    /\ poller[p].pc \in {"reply", "error"}
    /\ poller' = [poller EXCEPT ![p] = PollerIdle]
    /\ UNCHANGED <<hour, served, refresh, walk>>

StatsTick ==
    /\ hour < MaxTick
    /\ hour' = hour + 1
    /\ UNCHANGED <<served, refresh, walk, poller>>

StatsNext ==
    \/ \E p \in Pollers : GetStats(p) \/ Resume(p) \/ StatsReply(p)
    \/ \E w \in Walks : BeginWalk(w) \/ EndWalk(w) \/ FailWalk(w)
    \/ StatsTick

StatsSpec == StatsInit /\ [][StatsNext]_statsVars

---------------------------------------------------------------------------
\* Properties.

\* The view a worker serves never goes back to an older one: a slow walk does
\* not overwrite the result of one begun later.
ViewForward == [][served'.shows >= served.shows]_statsVars

\* A view served as fresh shows the service no longer ago than the window,
\* however long its walk took: what STATS_CACHE_SECONDS promises.
FreshWithinWindow == Fresh => hour - served.shows < ViewTicks

\* The view is as young as its stamp, and no caller waits on a walk that is not
\* there (`_refresh_stats`).
StatsInv == StatsTypeOK /\ FreshWithinWindow
=============================================================================
