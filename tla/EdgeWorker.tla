---------------------------- MODULE EdgeWorker ----------------------------
(***************************************************************************)
(* edge/src/worker.js: the lanes a document request may take in front of   *)
(* the service.  "revalidate" (/rooms) answers from the PoP's copy however *)
(* old and refreshes it behind the answer, one fill at a time for a key;   *)
(* "cached" (/healthz) holds a healthy answer for some seconds and never   *)
(* falls back; "origin" asks the origin and falls back on the stored       *)
(* snapshot when it fails; "static" and "only" answer from the snapshot.   *)
(* A reader is one caller's request; requests interleave at every await.   *)
(***************************************************************************)
EXTENDS Integers, FiniteSets

CONSTANTS
    Readers,        \* callers, one request each at a time
    Keys,           \* canonical keys of the revalidate lane
    NoKey,          \* a query that has none: straight to the origin
    Jobs,           \* fills that may run at once
    NoJob,
    HoldTicks,      \* how long "cached" holds, and when a copy is due
    MaxAnswers,     \* bound of the origin's answers
    MaxTicks        \* bound of the clock

ASSUME EdgeAssumption ==
    /\ NoKey \notin Keys /\ NoJob \notin Jobs
    /\ {HoldTicks, MaxAnswers, MaxTicks} \subseteq Nat

VARIABLES
    answers,    \* how often the origin has answered
    tick,       \* the clock
    copy,       \* caches.default under the canonical keys
    health,     \* caches.default under the health path
    inFlight,   \* the fill of each key
    job,        \* the fills
    reader      \* the requests

edgeVars == <<answers, tick, copy, health, inFlight, job, reader>>

Methods == {"GET", "HEAD"}

\* ok: 200 and shareable; private: 200 and no-store, one caller's; refused: a
\* 4xx, one caller's too; failed: a 5xx; silent: a timeout or no connection.
Outcomes == {"ok", "private", "refused", "failed", "silent"}

\* An answer: what it is, its number, who asked, whether it carries a body,
\* when it was given, and where the reader has it from.
NoAnswer == [kind |-> "none", number |-> 0, asker |-> NoJob, whole |-> TRUE,
             at |-> 0, from |-> "none"]
OriginAnswer(kind, r, whole) ==
    [kind |-> kind, number |-> answers + 1, asker |-> r, whole |-> whole,
     at |-> tick, from |-> "origin"]

JobIdle == [pc |-> "none", key |-> NoKey, asker |-> NoJob, answer |-> NoAnswer]
ReaderIdle == [pc |-> "idle", lane |-> "none", method |-> "GET", key |-> NoKey,
               job |-> NoJob, got |-> NoAnswer, failed |-> FALSE, since |-> 0]

EdgeTypeOK ==
    /\ answers \in 0..MaxAnswers /\ tick \in 0..MaxTicks
    /\ inFlight \in [Keys -> Jobs \cup {NoJob}]
    /\ \A k \in Keys : copy[k].kind # "none" => copy[k].at <= tick
    /\ health.kind \in {"none", "ok"}
    /\ \A j \in Jobs : job[j].pc \in {"none", "fetch", "put"}
    /\ \A r \in Readers :
          /\ reader[r].pc \in {"idle", "match", "fill", "join", "ask", "asset", "reply"}
          /\ reader[r].pc = "join" => reader[r].job \in Jobs

EdgeInit ==
    /\ answers = 0 /\ tick = 0
    /\ copy = [k \in Keys |-> NoAnswer]
    /\ health = NoAnswer
    /\ inFlight = [k \in Keys |-> NoJob]
    /\ job = [j \in Jobs |-> JobIdle]
    /\ reader = [r \in Readers |-> ReaderIdle]

---------------------------------------------------------------------------
Answered == answers < MaxAnswers /\ answers' = answers + 1
Give(r, answer) ==
    reader' = [reader EXCEPT ![r] = [@ EXCEPT !.pc = "reply", !.got = answer,
                                     !.key = NoKey, !.job = NoJob, !.method = "GET"]]
ReaderGoto(r, pc) == reader' = [reader EXCEPT ![r].pc = pc]
CachesUnchanged == UNCHANGED <<copy, health, inFlight, job>>

\* route: the lane of the path; a HEAD does not enter the cached lane.
Arrive(r, lane, method, key) ==
    /\ reader[r].pc = "idle"
    /\ lane = "revalidate" \/ key = NoKey
    /\ reader' = [reader EXCEPT ![r] =
          [ReaderIdle EXCEPT
             !.pc = CASE lane = "revalidate" /\ key # NoKey -> "match"
                      [] lane = "cached" /\ method = "GET" -> "match"
                      [] lane \in {"static", "only"} -> "asset"
                      [] OTHER -> "ask",
             !.lane = IF lane = "cached" /\ method = "HEAD" THEN "origin" ELSE lane,
             !.method = method, !.key = key, !.since = tick]]
    /\ UNCHANGED <<answers, tick>> /\ CachesUnchanged

\* Bug: a fill is started beside the one that runs.
MustStart_Always(k) == TRUE

MustStart(k) == inFlight[k] = NoJob

\* fill: join the fill of the key, or start it.
JoinOrStart(r, k) ==
    \/ /\ ~MustStart(k)
       /\ UNCHANGED <<inFlight, job>>
    \/ /\ MustStart(k)
       /\ \E j \in Jobs : /\ job[j].pc = "none"
                          /\ inFlight' = [inFlight EXCEPT ![k] = j]
                          /\ job' = [job EXCEPT ![j] = [JobIdle EXCEPT !.pc = "fetch",
                                        !.key = k, !.asker = r]]

\* revalidating, after its match: a copy is the answer, however old, and one
\* that is due is refilled behind it; without a copy the reader needs a fill.
MatchCopy(r) ==
    LET k == reader[r].key
    IN  /\ reader[r].pc = "match" /\ reader[r].lane = "revalidate"
        /\ IF copy[k].kind = "none"
           THEN ReaderGoto(r, "fill") /\ UNCHANGED <<inFlight, job>>
           ELSE /\ Give(r, [copy[k] EXCEPT !.from = "copy"])
                /\ IF tick - copy[k].at > HoldTicks
                   THEN JoinOrStart(r, k) ELSE UNCHANGED <<inFlight, job>>
        /\ UNCHANGED <<answers, tick, copy, health>>

JoinFill(r) ==
    LET k == reader[r].key
    IN  /\ reader[r].pc = "fill"
        /\ JoinOrStart(r, k)
        /\ reader' = [reader EXCEPT ![r].pc = "join", ![r].job = inFlight'[k]]
        /\ UNCHANGED <<answers, tick, copy, health>>

\* fromOrigin: a GET of the canonical URL with the first reader's headers.
FetchFill(j) ==
    /\ job[j].pc = "fetch"
    /\ Answered
    /\ \E kind \in Outcomes :
          job' = [job EXCEPT ![j].pc = "put",
                             ![j].answer = OriginAnswer(kind, job[j].asker, TRUE)]
    /\ UNCHANGED <<tick, copy, health, inFlight, reader>>

\* What the readers that wait on a fill go on with: its answer, or, when the
\* fill threw, a fetch of their own (the fail-open handler).
Resolved(j) ==
    [r \in Readers |->
        IF reader[r].pc # "join" \/ reader[r].job # j THEN reader[r]
        ELSE IF job[j].answer.kind = "silent"
        THEN [reader[r] EXCEPT !.pc = "ask", !.lane = "open"]
        ELSE [reader[r] EXCEPT !.pc = "reply", !.got = [job[j].answer EXCEPT !.from = "fill"]]]

Shareable(kind) == kind = "ok"

\* Bug: the entry goes when the fetch was answered.
Settled_OnAnswer(k, j) ==
    IF job[j].answer.kind = "silent" THEN inFlight ELSE [inFlight EXCEPT ![k] = NoJob]

\* The finally of a fill.
Settled(k, j) == [inFlight EXCEPT ![k] = NoJob]

\* A shareable 200 is stored; the fill settles, its entry goes (finally), and
\* everyone who waits on it resumes.
PutFill(j) ==
    LET k == job[j].key
    IN  /\ job[j].pc = "put"
        /\ copy' = IF Shareable(job[j].answer.kind)
                   THEN [copy EXCEPT ![k] = job[j].answer] ELSE copy
        /\ job' = [job EXCEPT ![j] = JobIdle]
        /\ inFlight' = Settled(k, j)
        /\ reader' = Resolved(j)
        /\ UNCHANGED <<answers, tick, health>>

\* edgeCached: a copy is the answer until s-maxage after it was stored.
MatchHealth(r) ==
    /\ reader[r].pc = "match" /\ reader[r].lane = "cached"
    /\ IF health.kind # "none" /\ tick - health.at <= HoldTicks
       THEN Give(r, [health EXCEPT !.from = "copy"])
       ELSE ReaderGoto(r, "ask")
    /\ UNCHANGED <<answers, tick>> /\ CachesUnchanged

\* Bug: every error of the origin is a failure of it.
OriginFailed_Or4xx(kind) == kind \in {"failed", "silent", "refused"}

\* isOriginFailure.
OriginFailed(kind) == kind \in {"failed", "silent"}

\* edgeCached's put: healthy answers only, whatever their cache-control.
HealthAfter(kind, answer) ==
    IF kind \in {"ok", "private"} THEN [answer EXCEPT !.kind = "ok"] ELSE health

FallsBack(lane) == lane = "origin"

\* The reader's own fetch: a healthy answer of the cached lane is stored, no
\* answer there is a 503 of the edge's own; a failure on the origin lane looks
\* for the snapshot; everything else passes through.
AskOrigin(r) ==
    LET lane == reader[r].lane
    IN  /\ reader[r].pc = "ask"
        /\ Answered
        /\ \E kind \in Outcomes :
              LET answer == OriginAnswer(kind, r, reader[r].method = "GET")
              IN  /\ health' = IF lane = "cached" THEN HealthAfter(kind, answer) ELSE health
                  /\ IF FallsBack(lane) /\ OriginFailed(kind)
                     THEN reader' = [reader EXCEPT ![r].pc = "asset",
                                                   ![r].failed = kind \in {"failed", "silent"},
                                                   ![r].got = answer]
                     ELSE Give(r, IF lane = "cached" /\ kind = "silent"
                                  THEN [answer EXCEPT !.kind = "failed", !.from = "edge"]
                                  ELSE answer)
        /\ UNCHANGED <<tick, copy, inFlight, job>>

\* stored: the snapshot, and what each lane does without one.
LookInAssets(r) ==
    LET lane == reader[r].lane
    IN  /\ reader[r].pc = "asset"
        /\ \/ Give(r, [NoAnswer EXCEPT !.kind = "ok", !.from = "snapshot"])
           \/ lane = "static" /\ reader' = [reader EXCEPT ![r].pc = "ask", ![r].lane = "open"]
           \/ lane = "only" /\ Give(r, [NoAnswer EXCEPT !.kind = "refused", !.from = "edge"])
           \/ lane = "origin" /\ Give(r, reader[r].got)
        /\ UNCHANGED <<answers, tick>> /\ CachesUnchanged

EdgeReply(r) ==
    /\ reader[r].pc = "reply"
    /\ reader' = [reader EXCEPT ![r] = ReaderIdle]
    /\ UNCHANGED <<answers, tick>> /\ CachesUnchanged

EdgeTick ==
    /\ tick < MaxTicks
    /\ tick' = tick + 1
    /\ UNCHANGED <<answers, reader>> /\ CachesUnchanged

Lanes == {"revalidate", "cached", "origin", "static", "only"}

EdgeNext ==
    \/ \E r \in Readers, lane \in Lanes, method \in Methods, key \in Keys \cup {NoKey} :
          Arrive(r, lane, method, key)
    \/ \E r \in Readers : \/ MatchCopy(r) \/ JoinFill(r) \/ MatchHealth(r)
                          \/ AskOrigin(r) \/ LookInAssets(r) \/ EdgeReply(r)
    \/ \E j \in Jobs : FetchFill(j) \/ PutFill(j)
    \/ EdgeTick

EdgeSpec == EdgeInit /\ [][EdgeNext]_edgeVars

---------------------------------------------------------------------------
\* Properties.

\* inFlight knows the running fills and nothing else, one for a key: a burst
\* on a key without a copy walks once, and a fill that failed does not stand in
\* the way of the next.
FillsExact ==
    /\ \A k \in Keys : inFlight[k] # NoJob =>
          job[inFlight[k]].pc # "none" /\ job[inFlight[k]].key = k
    /\ \A j \in Jobs : job[j].pc # "none" => inFlight[job[j].key] = j

\* What the PoP shares under a key is a whole, shareable answer: no caller's
\* budget footer, no refusal, no HEAD's empty body.
StoredIsShareable ==
    \A k \in Keys : copy[k].kind # "none" => copy[k].kind = "ok" /\ copy[k].whole

\* An answer the origin gave earlier never replaces one it gave later.
CopyForward ==
    [][\A k \in Keys : copy'[k].number >= copy[k].number]_edgeVars

\* Liveness is the origin's own: a healthy answer on the cached lane was given
\* by the origin within the hold of its look-up, and never comes from a
\* snapshot.
HealthIsLive ==
    \A r \in Readers :
       (reader[r].pc = "reply" /\ reader[r].lane = "cached" /\ reader[r].got.kind = "ok")
          => /\ reader[r].got.from \in {"origin", "copy"}
             /\ reader[r].got.at + HoldTicks >= reader[r].since

\* A refusal is an answer: the snapshot stands in for the origin only when the
\* origin failed this very request.
FallbackOnFailure ==
    \A r \in Readers :
       (reader[r].pc = "reply" /\ reader[r].lane = "origin"
          /\ reader[r].got.from = "snapshot")
       => reader[r].failed

\* One fill for a key, gone when it is over, and everyone's answers alone stored
\* (`fill` and `fromOrigin`).
EdgeInv == EdgeTypeOK /\ FillsExact /\ StoredIsShareable

\* A copy or a snapshot stands in for the origin only where it may: not on the
\* health lane, and not for a refusal (`edgeCached`, `stored`).
StandsInForCause == HealthIsLive /\ FallbackOnFailure

---------------------------------------------------------------------------
\* What the code does not keep; TLC refutes it.

\* "A no-store reply is one caller's": nobody is given another caller's.  Those
\* who joined the fill of a cold key are.
OwnReplyOnly ==
    \A r \in Readers :
       (reader[r].pc = "reply" /\ reader[r].got.kind \in {"private", "refused"}
          /\ reader[r].got.asker \in Readers)
       => reader[r].got.asker = r
=============================================================================
