---------------------------- MODULE ReadPathProofs ----------------------------
(***************************************************************************)
(* Proofs about the ways to read: the edge's copies, the view of /stats,   *)
(* the caller's budget, and the readers of a room's file, who take no lock. *)
(***************************************************************************)
EXTENDS MCReadPath, FiniteSetTheorems, TLAPS

(***************************************************************************)
(* The edge, for any number of readers, keys and fills: what is stored may *)
(* be shared, a copy only moves forward, and nothing stands in for the     *)
(* origin where it may not.                                                *)
(***************************************************************************)
AnswerRecord ==
    [kind : Outcomes \cup {"none"}, number : Nat, asker : Readers \cup {NoJob},
     whole : BOOLEAN, at : Nat,
     from : {"none", "origin", "copy", "fill", "snapshot", "edge"}]
JobRecord ==
    [pc : {"none", "fetch", "put"}, key : Keys \cup {NoKey},
     asker : Readers \cup {NoJob}, answer : AnswerRecord]
ReaderRecord ==
    [pc : {"idle", "match", "fill", "join", "ask", "asset", "reply"},
     lane : Lanes \cup {"none", "open"}, method : Methods, key : Keys \cup {NoKey},
     job : Jobs \cup {NoJob}, got : AnswerRecord, failed : BOOLEAN, since : Nat]

EdgeShape ==
    /\ answers \in Nat /\ tick \in Nat
    /\ inFlight \in [Keys -> Jobs \cup {NoJob}]
    /\ copy \in [Keys -> AnswerRecord] /\ health \in AnswerRecord
    /\ job \in [Jobs -> JobRecord]
    /\ reader \in [Readers -> ReaderRecord]
    /\ answers <= MaxAnswers /\ tick <= MaxTicks

\* A copy is a whole shareable answer that was given already.
CopyFine(c) ==
    /\ c.number <= answers /\ c.at <= tick
    /\ c.kind # "none" => c.kind = "ok" /\ c.whole
HealthFine == health.kind \in {"none", "ok"}

\* A fill asks with a GET, and what it brought is younger than the copy it will
\* replace: nobody else fills the key meanwhile.
JobFine(x) ==
    /\ x.pc # "none" => x.key \in Keys
    /\ x.pc = "put" => /\ x.answer.whole
                       /\ x.answer.number <= answers /\ x.answer.at <= tick
                       /\ copy[x.key].number < x.answer.number

\* What a request brings to each of its steps.
ReaderFine(x) ==
    /\ x.pc = "match" => x.lane = "cached" \/ (x.lane = "revalidate" /\ x.key \in Keys)
    /\ x.pc = "fill" => x.lane = "revalidate" /\ x.key \in Keys
    /\ x.pc = "join" => x.lane = "revalidate" /\ x.job \in Jobs
    /\ x.pc = "asset" => x.lane \in {"static", "only", "origin"}
                         /\ (x.lane = "origin" => x.failed)
    /\ x.since <= tick
    /\ x.pc = "reply" /\ x.lane = "cached" /\ x.got.kind = "ok" =>
          x.got.from \in {"origin", "copy"} /\ x.got.at + HoldTicks >= x.since
    /\ x.pc = "reply" /\ x.lane = "origin" /\ x.got.from = "snapshot" => x.failed

CopiesFine == \A k \in Keys : CopyFine(copy[k])
JobsFine == \A j \in Jobs : JobFine(job[j])
ReadersFine == \A r \in Readers : ReaderFine(reader[r])

EdgeInductive ==
    EdgeShape /\ CopiesFine /\ HealthFine /\ JobsFine /\ ReadersFine /\ FillsExact

----------------------------------------------------------------------------
LEMMA EdgeInit_Inductive == EdgeInit => EdgeInductive
<1> SUFFICES ASSUME EdgeInit PROVE EdgeInductive
  OBVIOUS
<1> USE EdgeAssumption DEF EdgeInit
<1>1. NoAnswer \in AnswerRecord
  BY DEF NoAnswer, AnswerRecord
<1>2. JobIdle \in JobRecord
  BY <1>1 DEF JobIdle, JobRecord
<1>3. ReaderIdle \in ReaderRecord
  BY <1>1 DEF ReaderIdle, ReaderRecord, Methods
<1>4. EdgeShape
  BY <1>1, <1>2, <1>3 DEF EdgeShape
<1>5. CopiesFine /\ HealthFine
  BY DEF CopiesFine, CopyFine, HealthFine, NoAnswer
<1>6. JobsFine
  BY DEF JobsFine, JobFine, JobIdle
<1>7. ReadersFine
  BY DEF ReadersFine, ReaderFine, ReaderIdle
<1>8. FillsExact
  BY DEF FillsExact, JobIdle
<1> QED
  BY <1>4, <1>5, <1>6, <1>7, <1>8 DEF EdgeInductive

\* An answer of the origin, given now.
LEMMA OriginAnswer_Type ==
  ASSUME answers \in Nat, tick \in Nat, NEW kind \in Outcomes,
         NEW r \in Readers \cup {NoJob}, NEW whole \in BOOLEAN
  PROVE  /\ OriginAnswer(kind, r, whole) \in AnswerRecord
         /\ OriginAnswer(kind, r, whole).kind = kind
         /\ OriginAnswer(kind, r, whole).number = answers + 1
         /\ OriginAnswer(kind, r, whole).whole = whole
         /\ OriginAnswer(kind, r, whole).at = tick
         /\ OriginAnswer(kind, r, whole).from = "origin"
BY DEF OriginAnswer, AnswerRecord

\* Joining a fill, or starting it: the key has exactly one afterwards.
LEMMA JoinOrStart_Fills ==
  ASSUME EdgeShape, JobsFine, FillsExact, NEW r \in Readers, NEW k \in Keys,
         JoinOrStart(r, k), UNCHANGED <<answers, tick, copy>>
  PROVE  /\ inFlight' \in [Keys -> Jobs \cup {NoJob}]
         /\ inFlight'[k] \in Jobs
         /\ job' \in [Jobs -> JobRecord]
         /\ JobsFine' /\ FillsExact'
<1> USE EdgeAssumption DEF EdgeShape
<1>1. CASE ~MustStart(k) /\ UNCHANGED <<inFlight, job>>
  BY <1>1 DEF MustStart, JobsFine, JobFine, FillsExact
<1>2. ASSUME NEW j \in Jobs, MustStart(k), job[j].pc = "none",
             inFlight' = [inFlight EXCEPT ![k] = j],
             job' = [job EXCEPT ![j] = [JobIdle EXCEPT !.pc = "fetch", !.key = k, !.asker = r]]
      PROVE  /\ inFlight' \in [Keys -> Jobs \cup {NoJob}]
             /\ inFlight'[k] \in Jobs
             /\ job' \in [Jobs -> JobRecord]
             /\ JobsFine' /\ FillsExact'
  <2>1. PICK x \in JobRecord : /\ job' = [job EXCEPT ![j] = x]
                               /\ x.pc = "fetch" /\ x.key = k
    <3>1. [JobIdle EXCEPT !.pc = "fetch", !.key = k, !.asker = r] \in JobRecord
      BY DEF JobIdle, JobRecord, AnswerRecord, NoAnswer
    <3> QED BY <1>2, <3>1 DEF JobIdle
  <2>2. job' \in [Jobs -> JobRecord] /\ inFlight' \in [Keys -> Jobs \cup {NoJob}]
    BY <1>2, <2>1
  <2>3. JobsFine'
    BY <2>1 DEF JobsFine, JobFine
  <2>4. FillsExact'
    BY <1>2, <2>1 DEF FillsExact, MustStart
  <2> QED BY <1>2, <2>2, <2>3, <2>4
<1> QED BY <1>1, <1>2 DEF JoinOrStart

----------------------------------------------------------------------------
\* A step of one reader.
LEMMA Reader_Moves ==
  ASSUME EdgeShape, ReadersFine, NEW r \in Readers, tick' = tick,
         NEW x \in ReaderRecord, ReaderFine(x), reader' = [reader EXCEPT ![r] = x]
  PROVE  reader' \in [Readers -> ReaderRecord] /\ ReadersFine'
BY DEF EdgeShape, ReadersFine, ReaderFine

LEMMA Give_Record ==
  ASSUME EdgeShape, NEW r \in Readers, NEW answer \in AnswerRecord, Give(r, answer)
  PROVE  \E x \in ReaderRecord :
            /\ reader' = [reader EXCEPT ![r] = x]
            /\ x.pc = "reply" /\ x.got = answer /\ x.lane = reader[r].lane
            /\ x.failed = reader[r].failed /\ x.since = reader[r].since
<1> DEFINE x == [reader[r] EXCEPT !.pc = "reply", !.got = answer,
                                  !.key = NoKey, !.job = NoJob, !.method = "GET"]
<1>1. reader[r] \in ReaderRecord
  BY DEF EdgeShape
<1>2. /\ x \in ReaderRecord
      /\ x.pc = "reply" /\ x.got = answer /\ x.lane = reader[r].lane
      /\ x.failed = reader[r].failed /\ x.since = reader[r].since
  BY <1>1 DEF ReaderRecord, Methods
<1>3. reader' = [reader EXCEPT ![r] = x]
  BY DEF Give, EdgeShape
<1> QED BY <1>2, <1>3

\* The same reader somewhere else.
LEMMA Goto_Record ==
  ASSUME EdgeShape, NEW r \in Readers,
         NEW pc \in {"idle", "match", "fill", "join", "ask", "asset", "reply"}, ReaderGoto(r, pc)
  PROVE  \E x \in ReaderRecord :
            /\ reader' = [reader EXCEPT ![r] = x]
            /\ x.pc = pc /\ x.lane = reader[r].lane /\ x.key = reader[r].key
            /\ x.since = reader[r].since
<1> DEFINE x == [reader[r] EXCEPT !.pc = pc]
<1>1. reader[r] \in ReaderRecord
  BY DEF EdgeShape
<1>2. /\ x \in ReaderRecord
      /\ x.pc = pc /\ x.lane = reader[r].lane /\ x.key = reader[r].key
      /\ x.since = reader[r].since
  BY <1>1 DEF ReaderRecord
<1>3. reader' = [reader EXCEPT ![r] = x]
  BY DEF ReaderGoto, EdgeShape
<1> QED BY <1>2, <1>3

LEMMA Arrive_Reader ==
  ASSUME EdgeInductive, NEW r \in Readers, NEW lane \in Lanes, NEW method \in Methods,
         NEW key \in Keys \cup {NoKey}, Arrive(r, lane, method, key)
  PROVE  reader' \in [Readers -> ReaderRecord] /\ ReadersFine'
<1> USE EdgeAssumption DEF EdgeInductive
<1> DEFINE pc == CASE lane = "revalidate" /\ key # NoKey -> "match"
                   [] lane = "cached" /\ method = "GET" -> "match"
                   [] lane \in {"static", "only"} -> "asset"
                   [] OTHER -> "ask"
           into == IF lane = "cached" /\ method = "HEAD" THEN "origin" ELSE lane
           x == [ReaderIdle EXCEPT !.pc = pc, !.lane = into, !.method = method,
                                   !.key = key, !.since = tick]
<1>1. /\ pc \in {"match", "asset", "ask"} /\ into \in Lanes
      /\ pc = "match" => into = "cached" \/ (into = "revalidate" /\ key \in Keys)
      /\ pc = "asset" => into \in {"static", "only"}
  BY DEF Lanes, Methods
<1>2. NoAnswer \in AnswerRecord /\ tick \in Nat
  BY DEF NoAnswer, AnswerRecord, EdgeShape
<1> HIDE DEF pc, into
<1>3. /\ x \in ReaderRecord
      /\ x.pc = pc /\ x.lane = into /\ x.key = key /\ x.since = tick
  BY <1>1, <1>2 DEF ReaderIdle, ReaderRecord
<1>4. ReaderFine(x)
  BY <1>1, <1>2, <1>3 DEF ReaderFine
<1>5. reader' = [reader EXCEPT ![r] = x] /\ tick' = tick
  BY DEF Arrive, pc, into
<1> QED BY <1>3, <1>4, <1>5, Reader_Moves

LEMMA AskOrigin_Reader ==
  ASSUME EdgeInductive, NEW r \in Readers, AskOrigin(r)
  PROVE  /\ reader' \in [Readers -> ReaderRecord] /\ ReadersFine'
         /\ health' \in AnswerRecord /\ HealthFine'
<1> USE EdgeAssumption DEF EdgeInductive
<1> DEFINE lane == reader[r].lane
           whole == (reader[r].method = "GET")
<1>1. PICK kind \in Outcomes :
         /\ health' = IF lane = "cached" THEN HealthAfter(kind, OriginAnswer(kind, r, whole)) ELSE health
         /\ IF FallsBack(lane) /\ OriginFailed(kind)
            THEN reader' = [reader EXCEPT ![r].pc = "asset",
                                          ![r].failed = kind \in {"failed", "silent"},
                                          ![r].got = OriginAnswer(kind, r, whole)]
            ELSE Give(r, IF lane = "cached" /\ kind = "silent"
                         THEN [OriginAnswer(kind, r, whole) EXCEPT !.kind = "failed", !.from = "edge"]
                         ELSE OriginAnswer(kind, r, whole))
  BY DEF AskOrigin
<1>2. answers \in Nat /\ tick \in Nat /\ whole \in BOOLEAN /\ tick' = tick /\ reader[r] \in ReaderRecord
  BY DEF EdgeShape, AskOrigin
<1> HIDE DEF whole
<1>3. PICK answer \in AnswerRecord :
         /\ answer = OriginAnswer(kind, r, whole)
         /\ answer.kind = kind /\ answer.at = tick /\ answer.from = "origin"
  <2>1. r \in Readers \cup {NoJob}
    OBVIOUS
  <2> HIDE DEF EdgeInductive
  <2>2. /\ OriginAnswer(kind, r, whole) \in AnswerRecord
        /\ OriginAnswer(kind, r, whole).kind = kind
        /\ OriginAnswer(kind, r, whole).at = tick
        /\ OriginAnswer(kind, r, whole).from = "origin"
    BY <1>2, <2>1, OriginAnswer_Type
  <2> QED BY <2>2
<1>4. health' \in AnswerRecord /\ HealthFine'
  <2>1. health \in AnswerRecord /\ HealthFine
    BY DEF EdgeShape
  <2>2. [answer EXCEPT !.kind = "ok"] \in AnswerRecord /\ [answer EXCEPT !.kind = "ok"].kind = "ok"
    BY DEF AnswerRecord, Outcomes
  <2>3. health' = health \/ health' = [answer EXCEPT !.kind = "ok"]
    BY <1>1, <1>3 DEF HealthAfter
  <2> QED BY <2>1, <2>2, <2>3 DEF HealthFine
<1>5. CASE FallsBack(lane) /\ OriginFailed(kind)
  <2> DEFINE x == [reader[r] EXCEPT !.pc = "asset", !.failed = TRUE, !.got = answer]
  <2>1. kind \in {"failed", "silent"} /\ lane = "origin"
    BY <1>5 DEF OriginFailed, FallsBack
  <2>2. /\ x \in ReaderRecord
        /\ x.pc = "asset" /\ x.lane = lane /\ x.failed = TRUE /\ x.since = reader[r].since
    BY <1>2 DEF ReaderRecord
  <2>3. reader' = [reader EXCEPT ![r] = x]
    BY <1>1, <1>3, <1>5, <2>1 DEF EdgeShape
  <2>4. ReaderFine(x)
    BY <2>1, <2>2 DEF ReaderFine, ReadersFine
  <2> QED BY <1>2, <1>4, <2>2, <2>3, <2>4, Reader_Moves
<1>6. CASE ~(FallsBack(lane) /\ OriginFailed(kind))
  <2>1. PICK given \in AnswerRecord :
           /\ Give(r, given)
           /\ given.from # "snapshot"
           /\ lane = "cached" /\ given.kind = "ok" => given.from = "origin" /\ given.at = tick
    <3>1. CASE lane = "cached" /\ kind = "silent"
      <4>1. /\ [answer EXCEPT !.kind = "failed", !.from = "edge"] \in AnswerRecord
            /\ [answer EXCEPT !.kind = "failed", !.from = "edge"].from = "edge"
            /\ [answer EXCEPT !.kind = "failed", !.from = "edge"].kind = "failed"
        BY DEF AnswerRecord, Outcomes
      <4> QED BY <1>1, <1>3, <1>6, <3>1, <4>1
    <3>2. CASE ~(lane = "cached" /\ kind = "silent")
      BY <1>1, <1>3, <1>6, <3>2
    <3> QED BY <3>1, <3>2
  <2>2. PICK x \in ReaderRecord :
           /\ reader' = [reader EXCEPT ![r] = x]
           /\ x.pc = "reply" /\ x.got = given /\ x.lane = lane
           /\ x.failed = reader[r].failed /\ x.since = reader[r].since
    BY <2>1, Give_Record
  <2>3. reader[r].since <= tick /\ reader[r].since \in Nat /\ HoldTicks \in Nat
    BY <1>2 DEF ReadersFine, ReaderFine, ReaderRecord
  <2>4. ReaderFine(x)
    BY <1>2, <2>1, <2>2, <2>3 DEF ReaderFine
  <2> QED BY <1>2, <1>4, <2>2, <2>4, Reader_Moves
<1> QED BY <1>5, <1>6

LEMMA MatchCopy_Reader ==
  ASSUME EdgeInductive, NEW r \in Readers, MatchCopy(r)
  PROVE  reader' \in [Readers -> ReaderRecord] /\ ReadersFine'
<1> USE DEF EdgeInductive
<1> DEFINE k == reader[r].key
<1>1. /\ reader[r].pc = "match" /\ reader[r].lane = "revalidate" /\ k \in Keys /\ tick' = tick
      /\ ReaderFine(reader[r]) /\ copy[k] \in AnswerRecord
  BY DEF MatchCopy, ReadersFine, ReaderFine, EdgeShape
<1>2. CASE ReaderGoto(r, "fill")
  <2>1. PICK x \in ReaderRecord : /\ reader' = [reader EXCEPT ![r] = x]
                                  /\ x.pc = "fill" /\ x.lane = "revalidate" /\ x.key = k
                                  /\ x.since = reader[r].since
    BY <1>1, <1>2, Goto_Record
  <2>2. ReaderFine(x)
    BY <1>1, <2>1 DEF ReaderFine
  <2> QED BY <1>1, <2>1, <2>2, Reader_Moves
<1>3. CASE Give(r, [copy[k] EXCEPT !.from = "copy"])
  <2>1. [copy[k] EXCEPT !.from = "copy"] \in AnswerRecord
    BY <1>1 DEF AnswerRecord
  <2>2. PICK x \in ReaderRecord : /\ reader' = [reader EXCEPT ![r] = x]
                                  /\ x.pc = "reply" /\ x.lane = "revalidate"
                                  /\ x.since = reader[r].since
    BY <1>1, <1>3, <2>1, Give_Record
  <2>3. ReaderFine(x)
    BY <1>1, <2>2 DEF ReaderFine
  <2> QED BY <1>1, <2>2, <2>3, Reader_Moves
<1> QED BY <1>2, <1>3 DEF MatchCopy

LEMMA JoinFill_Reader ==
  ASSUME EdgeInductive, NEW r \in Readers, JoinFill(r)
  PROVE  /\ reader' \in [Readers -> ReaderRecord] /\ ReadersFine'
         /\ inFlight' \in [Keys -> Jobs \cup {NoJob}] /\ job' \in [Jobs -> JobRecord]
         /\ JobsFine' /\ FillsExact'
<1> USE DEF EdgeInductive
<1> DEFINE k == reader[r].key
<1>1. /\ reader[r].pc = "fill" /\ reader[r].lane = "revalidate" /\ k \in Keys
      /\ ReaderFine(reader[r]) /\ reader[r] \in ReaderRecord
      /\ JoinOrStart(r, k) /\ UNCHANGED <<answers, tick, copy>>
      /\ reader' = [reader EXCEPT ![r].pc = "join", ![r].job = inFlight'[k]]
  BY DEF JoinFill, ReadersFine, ReaderFine, EdgeShape
<1>2. /\ inFlight' \in [Keys -> Jobs \cup {NoJob}] /\ inFlight'[k] \in Jobs
      /\ job' \in [Jobs -> JobRecord] /\ JobsFine' /\ FillsExact'
  BY <1>1, JoinOrStart_Fills
<1>3. PICK j \in Jobs : j = inFlight'[k]
  BY <1>2
<1> DEFINE x == [reader[r] EXCEPT !.pc = "join", !.job = j]
<1>4. /\ x \in ReaderRecord
      /\ x.pc = "join" /\ x.lane = "revalidate" /\ x.job = j /\ x.since = reader[r].since
  BY <1>1, <1>3 DEF ReaderRecord
<1>5. reader' = [reader EXCEPT ![r] = x]
  BY <1>1, <1>3 DEF EdgeShape
<1>6. ReaderFine(x)
  BY <1>1, <1>4 DEF ReaderFine
<1> QED BY <1>1, <1>2, <1>4, <1>5, <1>6, Reader_Moves

LEMMA MatchHealth_Reader ==
  ASSUME EdgeInductive, NEW r \in Readers, MatchHealth(r)
  PROVE  reader' \in [Readers -> ReaderRecord] /\ ReadersFine'
<1> USE EdgeAssumption DEF EdgeInductive
<1>1. /\ reader[r].pc = "match" /\ reader[r].lane = "cached" /\ tick' = tick
      /\ ReaderFine(reader[r]) /\ reader[r] \in ReaderRecord /\ health \in AnswerRecord
  BY DEF MatchHealth, ReadersFine, EdgeShape
<1>2. CASE ReaderGoto(r, "ask")
  <2>1. PICK x \in ReaderRecord : /\ reader' = [reader EXCEPT ![r] = x]
                                  /\ x.pc = "ask" /\ x.since = reader[r].since
    BY <1>2, Goto_Record
  <2>2. ReaderFine(x)
    BY <1>1, <2>1 DEF ReaderFine
  <2> QED BY <1>1, <2>1, <2>2, Reader_Moves
<1>3. CASE tick - health.at <= HoldTicks /\ Give(r, [health EXCEPT !.from = "copy"])
  <2>1. /\ [health EXCEPT !.from = "copy"] \in AnswerRecord
        /\ [health EXCEPT !.from = "copy"].from = "copy"
        /\ [health EXCEPT !.from = "copy"].at = health.at
    BY <1>1 DEF AnswerRecord
  <2>2. PICK x \in ReaderRecord : /\ reader' = [reader EXCEPT ![r] = x]
                                  /\ x.pc = "reply" /\ x.lane = "cached"
                                  /\ x.got.from = "copy" /\ x.got.at = health.at
                                  /\ x.since = reader[r].since
    <3>1. PICK given \in AnswerRecord : /\ given = [health EXCEPT !.from = "copy"]
                                        /\ given.from = "copy" /\ given.at = health.at
      BY <2>1
    <3>2. Give(r, given)
      BY <1>3, <3>1
    <3>3. \E x \in ReaderRecord : /\ reader' = [reader EXCEPT ![r] = x]
                                  /\ x.pc = "reply" /\ x.got = given /\ x.lane = reader[r].lane
                                  /\ x.failed = reader[r].failed /\ x.since = reader[r].since
      BY <3>2, Give_Record
    <3> QED BY ONLY <1>1, <3>1, <3>3
  <2>3. tick \in Nat /\ HoldTicks \in Nat /\ health.at \in Nat /\ reader[r].since \in Nat
    BY <1>1 DEF EdgeShape, AnswerRecord, ReaderRecord
  <2>4. health.at + HoldTicks >= reader[r].since
    BY <1>1, <1>3, <2>3 DEF ReaderFine
  <2>5. ReaderFine(x)
    BY <1>1, <2>2, <2>4 DEF ReaderFine
  <2> QED BY <1>1, <2>2, <2>5, Reader_Moves
<1> QED BY <1>2, <1>3 DEF MatchHealth

LEMMA LookInAssets_Reader ==
  ASSUME EdgeInductive, NEW r \in Readers, LookInAssets(r)
  PROVE  reader' \in [Readers -> ReaderRecord] /\ ReadersFine'
<1> USE DEF EdgeInductive
<1> DEFINE lane == reader[r].lane
<1>1. /\ lane \in {"static", "only", "origin"} /\ (lane = "origin" => reader[r].failed)
      /\ tick' = tick /\ ReaderFine(reader[r]) /\ reader[r] \in ReaderRecord
  BY DEF LookInAssets, ReadersFine, ReaderFine, EdgeShape
<1>2. CASE reader' = [reader EXCEPT ![r].pc = "ask", ![r].lane = "open"]
  <2> DEFINE x == [reader[r] EXCEPT !.pc = "ask", !.lane = "open"]
  <2>1. x \in ReaderRecord /\ x.pc = "ask" /\ x.since = reader[r].since
    BY <1>1 DEF ReaderRecord
  <2>2. reader' = [reader EXCEPT ![r] = x]
    BY <1>2 DEF EdgeShape
  <2>3. ReaderFine(x)
    BY <1>1, <2>1 DEF ReaderFine
  <2> QED BY <1>1, <2>1, <2>2, <2>3, Reader_Moves
<1>3. ASSUME NEW given \in AnswerRecord, Give(r, given)
      PROVE  reader' \in [Readers -> ReaderRecord] /\ ReadersFine'
  <2>1. PICK x \in ReaderRecord : /\ reader' = [reader EXCEPT ![r] = x]
                                  /\ x.pc = "reply" /\ x.lane = lane
                                  /\ x.failed = reader[r].failed /\ x.since = reader[r].since
    BY <1>3, Give_Record
  <2>2. ReaderFine(x)
    BY <1>1, <2>1 DEF ReaderFine
  <2> QED BY <1>1, <2>1, <2>2, Reader_Moves
<1>4. /\ [NoAnswer EXCEPT !.kind = "ok", !.from = "snapshot"] \in AnswerRecord
      /\ [NoAnswer EXCEPT !.kind = "refused", !.from = "edge"] \in AnswerRecord
      /\ reader[r].got \in AnswerRecord
  BY <1>1 DEF NoAnswer, AnswerRecord, ReaderRecord, Outcomes
<1> QED BY <1>2, <1>3, <1>4 DEF LookInAssets

LEMMA EdgeReply_Reader ==
  ASSUME EdgeInductive, NEW r \in Readers, EdgeReply(r)
  PROVE  reader' \in [Readers -> ReaderRecord] /\ ReadersFine'
<1>1. ReaderIdle \in ReaderRecord
  BY DEF ReaderIdle, ReaderRecord, Methods, NoAnswer, AnswerRecord
<1>2. tick \in Nat
  BY DEF EdgeInductive, EdgeShape
<1>3. ReaderFine(ReaderIdle)
  BY <1>2 DEF ReaderFine, ReaderIdle
<1>4. reader' = [reader EXCEPT ![r] = ReaderIdle] /\ tick' = tick
  BY DEF EdgeReply
<1>5. PICK x \in ReaderRecord : x = ReaderIdle
  BY <1>1
<1> QED BY <1>3, <1>4, <1>5, Reader_Moves DEF EdgeInductive

----------------------------------------------------------------------------
\* The fills.

\* Those who wait on a fill and get its answer are of the revalidate lane.
LEMMA Resolved_Readers ==
  ASSUME EdgeInductive, NEW j \in Jobs, tick' = tick, reader' = Resolved(j)
  PROVE  reader' \in [Readers -> ReaderRecord] /\ ReadersFine'
<1> USE DEF EdgeInductive
<1>1. ASSUME NEW r \in Readers
      PROVE  \E x \in ReaderRecord : reader'[r] = x /\ ReaderFine(x)
  <2>1. reader[r] \in ReaderRecord /\ ReaderFine(reader[r]) /\ job[j] \in JobRecord
    BY DEF EdgeShape, ReadersFine
  <2>2. CASE reader[r].pc # "join" \/ reader[r].job # j
    BY <2>1, <2>2 DEF Resolved
  <2>3. CASE reader[r].pc = "join" /\ reader[r].job = j /\ job[j].answer.kind = "silent"
    <3> DEFINE x == [reader[r] EXCEPT !.pc = "ask", !.lane = "open"]
    <3>1. x \in ReaderRecord /\ x.pc = "ask" /\ x.since = reader[r].since
      BY <2>1 DEF ReaderRecord
    <3>2. reader'[r] = x
      BY <2>3 DEF Resolved
    <3>3. ReaderFine(x)
      BY <2>1, <3>1 DEF ReaderFine
    <3> QED BY <3>1, <3>2, <3>3
  <2>4. CASE reader[r].pc = "join" /\ reader[r].job = j /\ job[j].answer.kind # "silent"
    <3>1. [job[j].answer EXCEPT !.from = "fill"] \in AnswerRecord
      BY <2>1 DEF AnswerRecord, JobRecord
    <3>2. PICK given \in AnswerRecord : given = [job[j].answer EXCEPT !.from = "fill"]
      BY <3>1
    <3> DEFINE x == [reader[r] EXCEPT !.pc = "reply", !.got = given]
    <3>3. /\ x \in ReaderRecord
          /\ x.pc = "reply" /\ x.lane = reader[r].lane /\ x.since = reader[r].since
      BY <2>1 DEF ReaderRecord
    <3>4. reader'[r] = x
      BY <2>4, <3>2 DEF Resolved
    <3>5. ReaderFine(x)
      BY <2>1, <2>4, <3>3 DEF ReaderFine
    <3> QED BY <3>3, <3>4, <3>5
  <2> QED BY <2>2, <2>3, <2>4
<1>2. reader' \in [Readers -> ReaderRecord]
  BY <1>1 DEF Resolved
<1>3. ReadersFine'
  BY <1>1 DEF ReadersFine, ReaderFine
<1> QED BY <1>2, <1>3

LEMMA FetchFill_Step ==
  ASSUME EdgeInductive, NEW j \in Jobs, FetchFill(j)
  PROVE  EdgeInductive'
<1> USE EdgeAssumption DEF EdgeInductive
<1>1. /\ answers \in Nat /\ tick \in Nat /\ job[j] \in JobRecord /\ job[j].pc = "fetch"
      /\ JobFine(job[j]) /\ answers' = answers + 1 /\ answers < MaxAnswers
      /\ UNCHANGED <<tick, copy, health, inFlight, reader>>
  BY DEF EdgeShape, FetchFill, Answered, JobsFine
<1>2. PICK kind \in Outcomes :
         job' = [job EXCEPT ![j].pc = "put",
                            ![j].answer = OriginAnswer(kind, job[j].asker, TRUE)]
  BY DEF FetchFill
<1>3. PICK answer \in AnswerRecord :
         /\ answer = OriginAnswer(kind, job[j].asker, TRUE)
         /\ answer.number = answers + 1 /\ answer.whole = TRUE /\ answer.at = tick
  <2>1. job[j].asker \in Readers \cup {NoJob}
    BY <1>1 DEF JobRecord
  <2> HIDE DEF EdgeInductive
  <2>2. /\ OriginAnswer(kind, job[j].asker, TRUE) \in AnswerRecord
        /\ OriginAnswer(kind, job[j].asker, TRUE).number = answers + 1
        /\ OriginAnswer(kind, job[j].asker, TRUE).whole = TRUE
        /\ OriginAnswer(kind, job[j].asker, TRUE).at = tick
    BY <1>1, <2>1, OriginAnswer_Type
  <2> QED BY <2>2
<1>4. PICK x \in JobRecord : /\ x = [job[j] EXCEPT !.pc = "put", !.answer = answer]
                             /\ x.pc = "put" /\ x.key = job[j].key /\ x.answer = answer
  <2> DEFINE y == [job[j] EXCEPT !.pc = "put", !.answer = answer]
  <2>1. y \in JobRecord /\ y.pc = "put" /\ y.key = job[j].key /\ y.answer = answer
    BY <1>1 DEF JobRecord
  <2> QED BY <2>1
<1>5. job' = [job EXCEPT ![j] = x]
  BY <1>2, <1>3, <1>4 DEF EdgeShape
<1>6. EdgeShape'
  BY <1>1, <1>4, <1>5 DEF EdgeShape
<1>7. CopiesFine' /\ HealthFine'
  <2>1. \A k \in Keys : copy[k].number \in Nat
    BY DEF EdgeShape, AnswerRecord
  <2> QED BY <1>1, <2>1 DEF CopiesFine, CopyFine, HealthFine
<1>8. JobsFine'
  <2>1. x.key \in Keys
    BY <1>1, <1>4 DEF JobFine
  <2>2. copy[x.key].number \in Nat /\ copy[x.key].number <= answers
    BY <2>1 DEF EdgeShape, AnswerRecord, CopiesFine, CopyFine
  <2>3. JobFine(x)'
    <3> HIDE DEF EdgeInductive
    <3>1. answer.number = answers + 1 /\ answer.at = tick
      BY <1>3
    <3>2. answer.whole
      BY <1>3
    <3>3. x.answer = answer
      BY <1>4
    <3>4. answer.number = answers' /\ answer.at = tick' /\ answers' \in Nat /\ tick' \in Nat
      BY <1>1, <3>1
    <3>5. copy'[x.key].number < x.answer.number
      BY <1>1, <2>2, <3>1, <3>3
    <3>6. x.answer.number <= answers' /\ x.answer.at <= tick'
      BY <3>3, <3>4
    <3>7. x.answer.whole
      BY <3>2, <3>3
    <3> QED BY <2>1, <3>5, <3>6, <3>7 DEF JobFine
  <2>4. ASSUME NEW i \in Jobs, i # j PROVE JobFine(job[i])'
    <3>1. job'[i] = job[i] /\ JobFine(job[i]) /\ job[i] \in JobRecord
      BY <1>5, <2>4 DEF EdgeShape, JobsFine
    <3>2. job[i].answer.number \in Nat
      BY <3>1 DEF JobRecord, AnswerRecord
    <3> QED BY <1>1, <3>1, <3>2 DEF JobFine
  <2>5. job'[j] = x
    BY <1>5 DEF EdgeShape
  <2> QED BY <2>3, <2>4, <2>5 DEF JobsFine
<1>9. ReadersFine'
  BY <1>1 DEF ReadersFine, ReaderFine
<1>10. FillsExact'
  <2>1. \A i \in Jobs : job'[i].key = job[i].key /\ (job'[i].pc # "none" <=> job[i].pc # "none")
    BY <1>1, <1>4, <1>5 DEF EdgeShape
  <2> QED BY <1>1, <2>1 DEF FillsExact, EdgeShape
<1> QED BY <1>6, <1>7, <1>8, <1>9, <1>10

\* The one job of a key is through with it, and the copy it leaves behind is
\* its own.
LEMMA PutFill_Step ==
  ASSUME EdgeInductive, NEW j \in Jobs, PutFill(j)
  PROVE  /\ EdgeInductive'
         /\ \A k \in Keys : copy'[k].number >= copy[k].number
<1> USE EdgeAssumption DEF EdgeInductive
<1> DEFINE k == job[j].key
<1>1. /\ job[j].pc = "put" /\ job[j] \in JobRecord /\ k \in Keys /\ JobFine(job[j])
      /\ inFlight[k] = j
      /\ UNCHANGED <<answers, tick, health>> /\ reader' = Resolved(j)
      /\ job' = [job EXCEPT ![j] = JobIdle] /\ inFlight' = [inFlight EXCEPT ![k] = NoJob]
      /\ copy' = IF job[j].answer.kind = "ok" THEN [copy EXCEPT ![k] = job[j].answer] ELSE copy
  BY DEF EdgeShape, PutFill, JobsFine, JobFine, FillsExact, Settled, Shareable
<1>2. job[j].answer \in AnswerRecord /\ JobIdle \in JobRecord /\ JobIdle.pc = "none"
  BY <1>1 DEF JobRecord, JobIdle, NoAnswer, AnswerRecord
<1>3. reader' \in [Readers -> ReaderRecord] /\ ReadersFine'
  BY <1>1, Resolved_Readers
<1>4. EdgeShape'
  <2>1. copy' \in [Keys -> AnswerRecord]
    BY <1>1, <1>2 DEF EdgeShape
  <2>2. job' \in [Jobs -> JobRecord] /\ inFlight' \in [Keys -> Jobs \cup {NoJob}]
    BY <1>1, <1>2 DEF EdgeShape
  <2> QED BY <1>1, <1>3, <2>1, <2>2 DEF EdgeShape
<1>5. CopyFine(job[j].answer) \/ job[j].answer.kind # "ok"
  BY <1>1 DEF CopyFine, JobFine
<1>6. CopiesFine' /\ HealthFine'
  BY <1>1, <1>5 DEF CopiesFine, CopyFine, HealthFine, EdgeShape
<1>7. \A i \in Jobs : i # j /\ job[i].pc # "none" => job'[i] = job[i] /\ job[i].key # k
  BY <1>1 DEF FillsExact, EdgeShape
<1>8. JobsFine'
  <2>1. ASSUME NEW i \in Jobs, i # j PROVE JobFine(job[i])'
    <3>1. CASE job[i].pc = "none"
      BY <1>1, <2>1, <3>1 DEF JobFine, EdgeShape
    <3>2. CASE job[i].pc # "none"
      <4>1. job'[i] = job[i] /\ JobFine(job[i]) /\ job[i].key \in Keys /\ job[i].key # k
        BY <1>7, <2>1, <3>2 DEF JobsFine, JobFine
      <4>2. copy'[job[i].key] = copy[job[i].key]
        BY <1>1, <4>1 DEF EdgeShape
      <4> QED BY <1>1, <4>1, <4>2 DEF JobFine
    <3> QED BY <3>1, <3>2
  <2>2. JobFine(job[j])'
    <3>1. job'[j] = JobIdle
      BY <1>1 DEF EdgeShape
    <3> QED BY <1>2, <3>1 DEF JobFine
  <2> QED BY <2>1, <2>2 DEF JobsFine
<1>9. FillsExact'
  <2>1. job'[j].pc = "none" /\ inFlight'[k] = NoJob
    BY <1>1, <1>2 DEF EdgeShape
  <2>2. \A i \in Jobs : job'[i].pc # "none" => inFlight'[job'[i].key] = i
    <3> SUFFICES ASSUME NEW i \in Jobs, job'[i].pc # "none" PROVE inFlight'[job'[i].key] = i
      OBVIOUS
    <3>1. i # j
      BY <2>1
    <3>2. job'[i] = job[i]
      BY <1>1, <3>1 DEF EdgeShape
    <3>3. job[i].key # k /\ inFlight[job[i].key] = i /\ job[i].key \in Keys
      BY <1>7, <3>1, <3>2 DEF FillsExact, JobsFine, JobFine
    <3> QED BY <1>1, <3>2, <3>3 DEF EdgeShape
  <2>3. \A q \in Keys : inFlight'[q] # NoJob =>
           job'[inFlight'[q]].pc # "none" /\ job'[inFlight'[q]].key = q
    <3> SUFFICES ASSUME NEW q \in Keys, inFlight'[q] # NoJob
                 PROVE  job'[inFlight'[q]].pc # "none" /\ job'[inFlight'[q]].key = q
      OBVIOUS
    <3>1. q # k /\ inFlight'[q] = inFlight[q] /\ inFlight[q] \in Jobs
      BY <1>1, <2>1 DEF EdgeShape
    <3>2. job[inFlight[q]].pc # "none" /\ job[inFlight[q]].key = q
      BY <3>1 DEF FillsExact
    <3>3. inFlight[q] # j
      BY <3>1, <3>2
    <3> QED BY <1>1, <3>1, <3>2, <3>3 DEF EdgeShape
  <2> QED BY <2>2, <2>3 DEF FillsExact
<1>10. \A q \in Keys : copy'[q].number >= copy[q].number
  <2>1. \A q \in Keys : copy[q].number \in Nat
    BY DEF EdgeShape, AnswerRecord
  <2>2. copy[k].number < job[j].answer.number /\ job[j].answer.number \in Nat
    BY <1>1, <1>2 DEF JobFine, AnswerRecord
  <2> QED BY <1>1, <2>1, <2>2 DEF EdgeShape
<1> QED BY <1>3, <1>4, <1>6, <1>8, <1>9, <1>10

----------------------------------------------------------------------------
\* A reader's own step touches neither the fills nor the copies.
LEMMA Reader_Only ==
  ASSUME EdgeInductive, UNCHANGED <<tick, copy, inFlight, job>>,
         reader' \in [Readers -> ReaderRecord] /\ ReadersFine',
         health' \in AnswerRecord /\ HealthFine',
         answers' = answers \/ Answered
  PROVE  EdgeInductive'
<1> USE EdgeAssumption DEF EdgeInductive
<1>1. answers' \in Nat /\ answers <= answers' /\ answers' <= MaxAnswers
  BY DEF EdgeShape, Answered
<1>2. EdgeShape'
  BY <1>1 DEF EdgeShape
<1>3. CopiesFine'
  <2>1. \A k \in Keys : copy[k].number \in Nat
    BY DEF EdgeShape, AnswerRecord
  <2>2. answers \in Nat
    BY DEF EdgeShape
  <2> QED BY <1>1, <2>1, <2>2 DEF CopiesFine, CopyFine
<1>4. JobsFine'
  <2>1. \A j \in Jobs : job[j].answer.number \in Nat
    BY DEF EdgeShape, JobRecord, AnswerRecord
  <2>2. answers \in Nat
    BY DEF EdgeShape
  <2> QED BY <1>1, <2>1, <2>2 DEF JobsFine, JobFine
<1>5. FillsExact'
  BY DEF FillsExact
<1> QED BY <1>2, <1>3, <1>4, <1>5

\* A reader that joins a fill, or starts one.
LEMMA Reader_Fills ==
  ASSUME EdgeInductive, UNCHANGED <<answers, tick, copy, health>>,
         reader' \in [Readers -> ReaderRecord] /\ ReadersFine',
         inFlight' \in [Keys -> Jobs \cup {NoJob}] /\ job' \in [Jobs -> JobRecord],
         JobsFine' /\ FillsExact'
  PROVE  EdgeInductive'
<1>1. EdgeShape' /\ CopiesFine' /\ HealthFine'
  BY DEF EdgeInductive, EdgeShape, CopiesFine, CopyFine, HealthFine
<1> QED BY <1>1 DEF EdgeInductive

LEMMA EdgeTick_Step ==
  ASSUME EdgeInductive, EdgeTick
  PROVE  EdgeInductive'
<1> USE EdgeAssumption DEF EdgeInductive
<1>1. tick \in Nat /\ tick < MaxTicks /\ tick' = tick + 1
      /\ UNCHANGED <<answers, copy, health, inFlight, job, reader>>
  BY DEF EdgeTick, CachesUnchanged, EdgeShape
<1>2. EdgeShape'
  BY <1>1 DEF EdgeShape
<1>3. CopiesFine' /\ HealthFine'
  <2>1. \A k \in Keys : copy[k].at \in Nat
    BY DEF EdgeShape, AnswerRecord
  <2> QED BY <1>1, <2>1 DEF CopiesFine, CopyFine, HealthFine
<1>4. JobsFine'
  <2>1. \A j \in Jobs : job[j].answer.at \in Nat
    BY DEF EdgeShape, JobRecord, AnswerRecord
  <2> QED BY <1>1, <2>1 DEF JobsFine, JobFine
<1>5. ReadersFine'
  <2>1. \A r \in Readers : reader[r].since \in Nat
    BY DEF EdgeShape, ReaderRecord
  <2> QED BY <1>1, <2>1 DEF ReadersFine, ReaderFine
<1>6. FillsExact'
  BY <1>1 DEF FillsExact
<1> QED BY <1>2, <1>3, <1>4, <1>5, <1>6

\* Every step keeps the invariant, and no step takes a copy back.
LEMMA EdgeStep ==
  ASSUME EdgeInductive, [EdgeNext]_edgeVars
  PROVE  EdgeInductive' /\ \A k \in Keys : copy'[k].number >= copy[k].number
<1>0. \A k \in Keys : copy[k].number \in Nat
  BY DEF EdgeInductive, EdgeShape, AnswerRecord
<1>1. EdgeShape /\ JobsFine /\ FillsExact /\ health \in AnswerRecord /\ HealthFine
  BY DEF EdgeInductive, EdgeShape
<1>2. ASSUME NEW r \in Readers, NEW lane \in Lanes, NEW method \in Methods,
             NEW key \in Keys \cup {NoKey}, Arrive(r, lane, method, key)
      PROVE  EdgeInductive' /\ copy' = copy
  <2>1. UNCHANGED <<answers, tick, copy, health, inFlight, job>>
    BY <1>2 DEF Arrive, CachesUnchanged
  <2>2. health' \in AnswerRecord /\ HealthFine'
    BY <1>1, <2>1 DEF HealthFine
  <2>3. EdgeInductive'
    BY <1>2, <2>1, <2>2, Arrive_Reader, Reader_Only
  <2> QED BY <2>1, <2>3
<1>3. ASSUME NEW r \in Readers, MatchCopy(r)
      PROVE  EdgeInductive' /\ copy' = copy
  <2>1. UNCHANGED <<answers, tick, copy, health>>
    BY <1>3 DEF MatchCopy
  <2>2. reader[r].key \in Keys
    BY <1>3 DEF MatchCopy, EdgeInductive, ReadersFine, ReaderFine
  <2>3. UNCHANGED <<inFlight, job>> \/ JoinOrStart(r, reader[r].key)
    BY <1>3 DEF MatchCopy
  <2>4. /\ inFlight' \in [Keys -> Jobs \cup {NoJob}] /\ job' \in [Jobs -> JobRecord]
        /\ JobsFine' /\ FillsExact'
    <3>1. CASE UNCHANGED <<inFlight, job>>
      BY <1>1, <2>1, <3>1 DEF EdgeShape, JobsFine, JobFine, FillsExact
    <3>2. CASE JoinOrStart(r, reader[r].key)
      BY <1>1, <2>1, <2>2, <3>2, JoinOrStart_Fills
    <3> QED BY <2>3, <3>1, <3>2
  <2>5. EdgeInductive'
    BY <1>3, <2>1, <2>4, MatchCopy_Reader, Reader_Fills
  <2> QED BY <2>1, <2>5
<1>4. ASSUME NEW r \in Readers, JoinFill(r)
      PROVE  EdgeInductive' /\ copy' = copy
  <2>1. UNCHANGED <<answers, tick, copy, health>>
    BY <1>4 DEF JoinFill
  <2>2. EdgeInductive'
    BY <1>4, <2>1, JoinFill_Reader, Reader_Fills
  <2> QED BY <2>1, <2>2
<1>5. ASSUME NEW r \in Readers, MatchHealth(r) \/ LookInAssets(r) \/ EdgeReply(r)
      PROVE  EdgeInductive' /\ copy' = copy
  <2>1. UNCHANGED <<answers, tick, copy, health, inFlight, job>>
    BY <1>5 DEF MatchHealth, LookInAssets, EdgeReply, CachesUnchanged
  <2>2. health' \in AnswerRecord /\ HealthFine'
    BY <1>1, <2>1 DEF HealthFine
  <2>3. reader' \in [Readers -> ReaderRecord] /\ ReadersFine'
    BY <1>5, MatchHealth_Reader, LookInAssets_Reader, EdgeReply_Reader
  <2>4. EdgeInductive'
    BY <2>1, <2>2, <2>3, Reader_Only
  <2> QED BY <2>1, <2>4
<1>6. ASSUME NEW r \in Readers, AskOrigin(r)
      PROVE  EdgeInductive' /\ copy' = copy
  <2>1. UNCHANGED <<tick, copy, inFlight, job>> /\ Answered
    BY <1>6 DEF AskOrigin
  <2>2. EdgeInductive'
    BY <1>6, <2>1, AskOrigin_Reader, Reader_Only
  <2> QED BY <2>1, <2>2
<1>7. ASSUME NEW j \in Jobs, FetchFill(j)
      PROVE  EdgeInductive' /\ copy' = copy
  BY <1>7, FetchFill_Step DEF FetchFill
<1>8. CASE EdgeTick
  BY <1>0, <1>8, EdgeTick_Step DEF EdgeTick, CachesUnchanged
<1>9. CASE UNCHANGED edgeVars
  BY <1>0, <1>9 DEF edgeVars, EdgeInductive, EdgeShape, CopiesFine, CopyFine, HealthFine,
                   JobsFine, JobFine, ReadersFine, ReaderFine, FillsExact
<1>10. copy' = copy => \A k \in Keys : copy'[k].number >= copy[k].number
  BY <1>0
<1> QED
  BY <1>2, <1>3, <1>4, <1>5, <1>6, <1>7, <1>8, <1>9, <1>10, PutFill_Step DEF EdgeNext

LEMMA EdgeInductive_Holds == EdgeSpec => []EdgeInductive
  BY EdgeInit_Inductive, EdgeStep, PTL DEF EdgeSpec

----------------------------------------------------------------------------
\* However many requests and fills are under way: a key has one fill, which is
\* gone when it is over, and what the PoP keeps is a whole answer that may be
\* shared (`fill`, `fromOrigin`).
THEOREM SharesWholeAnswers == EdgeSpec => []EdgeInv
<1>1. EdgeInductive => EdgeInv
  <2> SUFFICES ASSUME EdgeInductive PROVE EdgeInv
    OBVIOUS
  <2>1. EdgeTypeOK
    BY EdgeAssumption DEF EdgeInductive, EdgeShape, EdgeTypeOK, CopiesFine, CopyFine, HealthFine, JobRecord,
           ReaderRecord, ReadersFine, ReaderFine
  <2>2. StoredIsShareable
    BY DEF EdgeInductive, CopiesFine, CopyFine, StoredIsShareable
  <2> QED BY <2>1, <2>2 DEF EdgeInductive, EdgeInv
<1> QED BY <1>1, EdgeInductive_Holds, PTL

\* A fill that comes home late never puts an older answer over a younger one
\* (`fill`: one for a key).
THEOREM CopiesMoveOn == EdgeSpec => CopyForward
<1>1. EdgeInductive /\ [EdgeNext]_edgeVars
        => [\A k \in Keys : copy'[k].number >= copy[k].number]_edgeVars
  BY EdgeStep
<1> QED BY <1>1, EdgeInductive_Holds, PTL DEF EdgeSpec, CopyForward

\* A copy or a snapshot stands in for the origin only where it may: a healthy
\* answer is the origin's own and young enough, and a refusal is not replaced
\* (`edgeCached`, `stored`, `isOriginFailure`).
THEOREM StandInsAreJustified == EdgeSpec => []StandsInForCause
<1>1. EdgeInductive => StandsInForCause
  BY DEF EdgeInductive, ReadersFine, ReaderFine, StandsInForCause, HealthIsLive, FallbackOnFailure
<1> QED BY <1>1, EdgeInductive_Holds, PTL

----------------------------------------------------------------------------
(***************************************************************************)
(* /stats: a poller gets a view that is young enough, and the view that    *)
(* all share only moves forward.                                           *)
(***************************************************************************)

WalkRecord ==
    [pc : {"none", "begin", "walk", "done", "failed"}, at : Hours, shows : Hours \cup {Nowhen}]
PollerRecord ==
    [pc : {"idle", "await", "reply", "error"}, walk : Walks \cup {NoWalk},
     shows : Hours \cup {Nowhen}, waited : BOOLEAN]

\* A walk shows the tick it was stamped with, and no earlier one than is served.
WalkFine(w) ==
    /\ walk[w].pc \in {"begin", "walk"} => w = refresh
    /\ walk[w].pc \in {"walk", "done", "failed"} => walk[w].shows \in Hours
    /\ walk[w].pc = "walk" =>
          walk[w].at = walk[w].shows /\ served.shows <= walk[w].shows /\ walk[w].shows <= hour

StatsInductive ==
    /\ StatsTypeOK
    /\ served.at = served.shows /\ served.shows <= hour
    /\ \A w \in Walks : WalkFine(w)
    /\ \A u \in Pollers : poller[u].pc = "await" => poller[u].walk \in Walks

LEMMA Hours_Fine ==
  MaxTick \in Nat /\ Nowhen = -1 /\ 0 \in Hours /\ (\A h \in Hours : h \in Nat) /\ Nowhen \notin Hours
BY StatsAssumption DEF Hours, Nowhen

LEMMA Shows_Int == StatsInductive => served.shows \in Int
<1>1. Nowhen \in Int /\ \A h \in Hours : h \in Int
  BY Hours_Fine
<1>2. ASSUME StatsInductive PROVE served.shows \in Hours \cup {Nowhen}
  BY <1>2 DEF StatsInductive, StatsTypeOK
<1> QED BY <1>1, <1>2

LEMMA StatsStarts == StatsInit => StatsInductive
<1> SUFFICES ASSUME StatsInit PROVE StatsInductive
  OBVIOUS
<1>1. StatsTypeOK
  BY Hours_Fine DEF StatsInit, StatsTypeOK, Empty, WalkIdle, PollerIdle
<1> QED
  BY <1>1, Hours_Fine DEF StatsInit, StatsInductive, WalkFine, Empty, WalkIdle, PollerIdle

\* A caller's step that leaves the walks alone.
LEMMA Poller_Moves ==
  ASSUME StatsInductive, NEW u \in Pollers, NEW x \in PollerRecord,
         poller' = [poller EXCEPT ![u] = x], UNCHANGED <<hour, served, refresh, walk>>,
         x.pc = "await" => x.walk \in Walks /\ walk[x.walk].pc # "none",
         x.pc = "reply" => x.shows # Nowhen
  PROVE  StatsInductive'
<1>1. StatsTypeOK
  BY DEF StatsInductive
<1>2. /\ poller' \in [Pollers -> PollerRecord]
      /\ poller'[u] = x /\ \A q \in Pollers \ {u} : poller'[q] = poller[q]
  BY <1>1 DEF StatsTypeOK, PollerRecord
<1>3. StatsTypeOK'
  BY <1>1, <1>2 DEF StatsTypeOK, PollerRecord
<1>4. \A w \in Walks : WalkFine(w)'
  BY DEF StatsInductive, WalkFine
<1>5. \A q \in Pollers : poller'[q].pc = "await" => poller'[q].walk \in Walks
  BY <1>2 DEF StatsInductive
<1> QED BY <1>3, <1>4, <1>5 DEF StatsInductive

LEMMA Served_Shows ==
  ASSUME StatsInductive, Fresh \/ Servable
  PROVE  served.shows \in Hours
<1>1. served \in [at : Hours \cup {Nowhen}, shows : Hours \cup {Nowhen}] /\ served.at = served.shows
  BY DEF StatsInductive, StatsTypeOK
<1>2. served # Empty
  BY DEF Fresh, Servable
<1> QED BY <1>1, <1>2 DEF Empty

LEMMA Poller_Idle == PollerIdle \in PollerRecord /\ PollerIdle.pc = "idle"
BY DEF PollerIdle, PollerRecord

LEMMA GetStats_Step ==
  ASSUME StatsInductive, NEW u \in Pollers, GetStats(u)
  PROVE  StatsInductive'
<1>0. StatsTypeOK /\ (\A w \in Walks : WalkFine(w))
  BY DEF StatsInductive
<1>1. UNCHANGED <<hour, served>> /\ poller[u].pc = "idle"
  BY DEF GetStats
<1>r. PICK r \in PollerRecord : r = PollerIdle
  BY Poller_Idle
\* A reply shows what is served.
<1>2. ASSUME Reply(u, served), Fresh \/ Servable
      PROVE  \E x \in PollerRecord : /\ poller' = [poller EXCEPT ![u] = x]
                                     /\ x.pc = "reply" /\ x.shows # Nowhen
  <2>1. served.shows \in Hours
    BY <1>2, Served_Shows
  <2> DEFINE x == [r EXCEPT !.pc = "reply", !.shows = served.shows]
  <2>2. x \in PollerRecord /\ x.pc = "reply" /\ x.shows # Nowhen
    BY <2>1, Hours_Fine DEF PollerRecord
  <2>3. poller' = [poller EXCEPT ![u] = x]
    BY <1>2, <1>r DEF Reply
  <2> QED BY <2>2, <2>3
<1>3. CASE Fresh
  BY <1>1, <1>2, <1>3, Poller_Moves DEF GetStats
<1>4. CASE ~Fresh /\ ~MustWalk
  <2>1. UNCHANGED <<refresh, walk>>
    BY <1>4 DEF GetStats
  <2>2. refresh \in Walks /\ walk[refresh].pc # "none"
    BY <1>0, <1>4 DEF MustWalk, Running, StatsTypeOK
  <2>3. CASE Servable
    BY <1>1, <1>2, <1>4, <2>1, <2>3, Poller_Moves DEF GetStats
  <2>4. CASE ~Servable
    <3> DEFINE x == [r EXCEPT !.pc = "await", !.walk = refresh, !.waited = TRUE]
    <3>1. x \in PollerRecord /\ x.pc = "await" /\ x.walk = refresh
      BY <2>2 DEF PollerRecord
    <3>2. poller' = [poller EXCEPT ![u] = x]
      BY <1>4, <1>r, <2>1, <2>4 DEF GetStats
    <3> HIDE DEF x
    <3> QED BY <1>1, <2>1, <2>2, <3>1, <3>2, Poller_Moves
  <2> QED BY <2>3, <2>4
<1>5. CASE ~Fresh /\ MustWalk
  <2>1. PICK w \in Walks : /\ Collectable(w) /\ refresh' = w
                           /\ walk' = [walk EXCEPT ![w] = [WalkIdle EXCEPT !.pc = "begin"]]
    BY <1>5 DEF GetStats
  <2>2. /\ walk' \in [Walks -> WalkRecord] /\ walk'[w].pc = "begin"
        /\ \A v \in Walks \ {w} : walk'[v] = walk[v] /\ walk[v].pc \notin {"begin", "walk"}
    <3>1. [WalkIdle EXCEPT !.pc = "begin"] \in WalkRecord /\ [WalkIdle EXCEPT !.pc = "begin"].pc = "begin"
      BY Hours_Fine DEF WalkIdle, WalkRecord
    <3>2. walk \in [Walks -> WalkRecord]
      BY <1>0 DEF StatsTypeOK, WalkRecord
    <3>3. \A v \in Walks : walk[v].pc \notin {"begin", "walk"}
      BY <1>0, <1>5, StatsAssumption DEF WalkFine, MustWalk, Running
    <3> QED BY <2>1, <3>1, <3>2, <3>3
  <2>3. PICK x \in PollerRecord :
           /\ poller' = [poller EXCEPT ![u] = x]
           /\ x.pc = "await" => x.walk = w
           /\ x.pc = "reply" => x.shows # Nowhen
    <3>1. CASE Servable
      <4>1. PICK x \in PollerRecord : /\ poller' = [poller EXCEPT ![u] = x]
                                      /\ x.pc = "reply" /\ x.shows # Nowhen
        BY <1>2, <1>5, <3>1 DEF GetStats
      <4> QED BY <4>1
    <3>2. CASE ~Servable
      <4> DEFINE x == [r EXCEPT !.pc = "await", !.walk = w, !.waited = TRUE]
      <4>1. x \in PollerRecord /\ x.pc = "await" /\ x.walk = w
        BY DEF PollerRecord
      <4>2. poller' = [poller EXCEPT ![u] = x]
        BY <1>5, <1>r, <2>1, <3>2 DEF GetStats
      <4> HIDE DEF x
      <4> QED BY <4>1, <4>2
    <3> QED BY <3>1, <3>2
  <2>4. /\ poller' \in [Pollers -> PollerRecord]
        /\ poller'[u] = x /\ \A q \in Pollers \ {u} : poller'[q] = poller[q]
    BY <1>0, <2>3 DEF StatsTypeOK, PollerRecord
  <2>5. \A q \in Pollers : poller'[q].pc = "await" => walk'[poller'[q].walk].pc # "none"
    <3>1. \A q \in Pollers \ {u} : poller[q].pc = "await" =>
             poller[q].walk \in Walks \cup {NoWalk} /\ walk[poller[q].walk].pc # "none"
      BY <1>0 DEF StatsTypeOK
    <3>2. \A q \in Pollers \ {u} : poller[q].walk # w
      BY <2>1 DEF Collectable
    <3>3. \A q \in Pollers \ {u} : walk'[poller[q].walk] = walk[poller[q].walk]
      <4>1. walk' = [walk EXCEPT ![w] = walk'[w]]
        BY <1>0, <2>1 DEF StatsTypeOK
      <4> QED BY <2>1, <3>2, <1>0 DEF StatsTypeOK
    <3> QED BY <2>2, <2>3, <2>4, <3>1, <3>3
  <2>6. StatsTypeOK'
    <3>1. \A q \in Pollers : poller'[q].pc = "reply" => poller'[q].shows # Nowhen
      BY <1>0, <2>3, <2>4 DEF StatsTypeOK
    <3> QED BY <1>0, <1>1, <2>1, <2>2, <2>4, <2>5, <3>1 DEF StatsTypeOK, WalkRecord, PollerRecord
  <2>7. \A v \in Walks : WalkFine(v)'
    BY <1>0, <1>1, <2>1, <2>2 DEF WalkFine
  <2>8. \A q \in Pollers : poller'[q].pc = "await" => poller'[q].walk \in Walks
    BY <2>3, <2>4 DEF StatsInductive
  <2> QED BY <1>1, <2>6, <2>7, <2>8 DEF StatsInductive
<1> QED BY <1>3, <1>4, <1>5

LEMMA Resume_Step ==
  ASSUME StatsInductive, NEW u \in Pollers, Resume(u)
  PROVE  StatsInductive'
<1>0. StatsTypeOK /\ (\A w \in Walks : WalkFine(w))
  BY DEF StatsInductive
<1>1. PICK r \in PollerRecord : r = poller[u]
  BY <1>0 DEF StatsTypeOK, PollerRecord
<1>2. PICK w : w = r.walk
  OBVIOUS
<1>3. walk[w].pc \in {"done", "failed"}
  BY <1>1, <1>2 DEF Resume
<1>4. w \in Walks
  BY <1>1, <1>2 DEF StatsInductive, Resume
<1>5. PICK pc \in {"reply", "error"} :
         /\ poller' = [poller EXCEPT ![u] = [r EXCEPT !.pc = pc, !.shows = walk[w].shows, !.walk = NoWalk]]
         /\ pc = "reply" => walk[w].pc = "done"
  BY <1>1, <1>2 DEF Resume
<1>6. walk[w].shows \in Hours
  BY <1>0, <1>3, <1>4 DEF WalkFine
<1> DEFINE x == [r EXCEPT !.pc = pc, !.shows = walk[w].shows, !.walk = NoWalk]
<1>7. x \in PollerRecord /\ x.pc # "await" /\ x.shows # Nowhen
  BY <1>6, Hours_Fine DEF PollerRecord
<1>8. poller' = [poller EXCEPT ![u] = x]
  BY <1>5
<1> HIDE DEF x
<1> QED BY <1>7, <1>8, Poller_Moves DEF Resume

LEMMA StatsReply_Step ==
  ASSUME StatsInductive, NEW u \in Pollers, StatsReply(u)
  PROVE  StatsInductive'
BY Poller_Idle, Poller_Moves DEF StatsReply

\* A step of a walk: what becomes of it, and of what is served.
LEMMA Walk_Moves ==
  ASSUME StatsInductive, NEW w \in Walks, NEW x \in WalkRecord,
         walk' = [walk EXCEPT ![w] = x], UNCHANGED <<hour, refresh, poller>>, x.pc # "none",
         x.pc \in {"begin", "walk"} => walk[w].pc \in {"begin", "walk"},
         WalkFine(w)', served'.at = served'.shows, served'.shows <= hour,
         served' \in [at : Hours \cup {Nowhen}, shows : Hours \cup {Nowhen}],
         served' = served \/ walk[w].pc = "walk"
  PROVE  StatsInductive'
<1>0. StatsTypeOK /\ (\A v \in Walks : WalkFine(v))
  BY DEF StatsInductive
<1>1. walk' \in [Walks -> WalkRecord] /\ walk'[w] = x /\ \A v \in Walks \ {w} : walk'[v] = walk[v]
  BY <1>0 DEF StatsTypeOK, WalkRecord
<1>2. \A u \in Pollers : poller[u].pc = "await" => walk'[poller[u].walk].pc # "none"
  BY <1>0, <1>1 DEF StatsInductive, StatsTypeOK
<1>3. StatsTypeOK'
  BY <1>0, <1>1, <1>2 DEF StatsTypeOK, WalkRecord
<1>4. \A v \in Walks \ {w} : WalkFine(v)'
  BY <1>0, <1>1 DEF WalkFine
<1>5. \A u \in Pollers : poller'[u].pc = "await" => poller'[u].walk \in Walks
  BY DEF StatsInductive
<1> QED BY <1>3, <1>4, <1>5 DEF StatsInductive

LEMMA Task_Step ==
  ASSUME StatsInductive, NEW w \in Walks, BeginWalk(w) \/ EndWalk(w) \/ FailWalk(w)
  PROVE  StatsInductive'
<1>0. StatsTypeOK /\ WalkFine(w) /\ served.at = served.shows /\ served.shows <= hour
  BY DEF StatsInductive
<1>1. PICK r \in WalkRecord : r = walk[w]
  BY <1>0 DEF StatsTypeOK, WalkRecord
<1>h. hour \in Hours
  BY <1>0 DEF StatsTypeOK
<1>2. CASE BeginWalk(w)
  <2> DEFINE x == [pc |-> "walk", at |-> hour, shows |-> hour]
  <2>1. x \in WalkRecord /\ x.pc = "walk" /\ x.at = hour /\ x.shows = hour
    BY <1>h DEF WalkRecord
  <2>2. walk' = [walk EXCEPT ![w] = x]
    BY <1>2 DEF BeginWalk
  <2> HIDE DEF x
  <2>3. walk'[w] = x
    BY <1>0, <2>2 DEF StatsTypeOK
  <2>4. UNCHANGED <<hour, served, refresh, poller>> /\ walk[w].pc = "begin"
    BY <1>2 DEF BeginWalk
  <2>5. WalkFine(w)'
    BY <1>0, <1>h, <2>1, <2>3, <2>4, Hours_Fine DEF WalkFine
  <2>6. served' \in [at : Hours \cup {Nowhen}, shows : Hours \cup {Nowhen}]
    BY <1>0, <2>4 DEF StatsTypeOK
  <2> QED BY <1>0, <2>1, <2>2, <2>4, <2>5, <2>6, Walk_Moves
<1>3. ASSUME NEW pc \in {"done", "failed"}, walk' = [walk EXCEPT ![w].pc = pc], walk[w].pc = "walk"
      PROVE  \E x \in WalkRecord : walk' = [walk EXCEPT ![w] = x] /\ x.pc = pc /\ WalkFine(w)'
  <2> DEFINE x == [r EXCEPT !.pc = pc]
  <2>1. x \in WalkRecord /\ x.pc = pc /\ x.shows = r.shows
    BY DEF WalkRecord
  <2>2. walk' = [walk EXCEPT ![w] = x]
    BY <1>1, <1>3
  <2> HIDE DEF x
  <2>3. walk'[w] = x
    BY <1>0, <2>2 DEF StatsTypeOK
  <2>4. r.shows \in Hours
    BY <1>0, <1>1, <1>3 DEF WalkFine
  <2>5. WalkFine(w)'
    BY <2>1, <2>3, <2>4 DEF WalkFine
  <2> QED BY <2>1, <2>2, <2>5
<1>4. CASE EndWalk(w)
  <2>1. /\ walk[w].pc = "walk" /\ served' = Stamped(w) /\ walk' = [walk EXCEPT ![w].pc = "done"]
        /\ UNCHANGED <<hour, refresh, poller>>
    BY <1>4 DEF EndWalk
  <2>2. PICK x \in WalkRecord : walk' = [walk EXCEPT ![w] = x] /\ x.pc = "done" /\ WalkFine(w)'
    BY <1>3, <2>1
  <2>3. /\ served' \in [at : Hours \cup {Nowhen}, shows : Hours \cup {Nowhen}]
        /\ served'.at = served'.shows /\ served'.shows <= hour
    BY <1>0, <2>1 DEF WalkFine, Stamped
  <2> QED BY <1>0, <2>1, <2>2, <2>3, Walk_Moves
<1>5. CASE FailWalk(w)
  <2>1. /\ walk[w].pc = "walk" /\ walk' = [walk EXCEPT ![w].pc = "failed"]
        /\ UNCHANGED <<hour, served, refresh, poller>>
    BY <1>5 DEF FailWalk
  <2>2. PICK x \in WalkRecord : walk' = [walk EXCEPT ![w] = x] /\ x.pc = "failed" /\ WalkFine(w)'
    BY <1>3, <2>1
  <2>3. served' \in [at : Hours \cup {Nowhen}, shows : Hours \cup {Nowhen}]
    BY <1>0, <2>1 DEF StatsTypeOK
  <2> QED BY <1>0, <2>1, <2>2, <2>3, Walk_Moves
<1> QED BY <1>2, <1>4, <1>5

LEMMA StatsStep == StatsInductive /\ [StatsNext]_statsVars => StatsInductive'
<1> SUFFICES ASSUME StatsInductive, [StatsNext]_statsVars PROVE StatsInductive'
  OBVIOUS
<1>1. CASE StatsTick
  <2>1. hour \in Nat /\ hour' = hour + 1 /\ hour' \in Hours /\ UNCHANGED <<served, refresh, walk, poller>>
    BY <1>1, Hours_Fine DEF StatsTick, StatsInductive, StatsTypeOK, Hours
  <2>2. StatsTypeOK'
    BY <2>1 DEF StatsInductive, StatsTypeOK
  <2>3. \A w \in Walks : walk[w].pc = "walk" => walk[w].shows \in Nat
    BY Hours_Fine DEF StatsInductive, WalkFine
  <2>4. \A w \in Walks : WalkFine(w)'
    BY <2>1, <2>3 DEF StatsInductive, WalkFine
  <2>5. served.shows <= hour'
    BY <2>1, Shows_Int DEF StatsInductive
  <2> QED BY <2>1, <2>2, <2>4, <2>5 DEF StatsInductive
<1>2. CASE UNCHANGED statsVars
  BY <1>2 DEF statsVars, StatsInductive, StatsTypeOK, WalkFine
<1> QED
  BY <1>1, <1>2, GetStats_Step, Resume_Step, StatsReply_Step, Task_Step DEF StatsNext

\* A view served as fresh is as young as its stamp says, however long its walk
\* took, and nobody waits for a walk that is not there (`_refresh_stats`).
THEOREM FreshIsYoung == StatsSpec => []StatsInv
<1>1. StatsInductive => StatsInv
  BY DEF StatsInductive, StatsInv, FreshWithinWindow, Fresh
<1> QED
  BY StatsStarts, StatsStep, <1>1, PTL DEF StatsSpec

\* A slow walk never overwrites the result of one begun later, for there is no
\* later one while it runs (`stats`).
THEOREM ViewsMoveOn == StatsSpec => ViewForward
<1>1. StatsInductive /\ [StatsNext]_statsVars => [served'.shows >= served.shows]_statsVars
  <2> SUFFICES ASSUME StatsInductive, StatsNext PROVE served'.shows >= served.shows
    BY DEF statsVars
  <2>1. served.shows \in Int
    BY Shows_Int
  <2>2. ASSUME NEW w \in Walks, EndWalk(w) PROVE served'.shows >= served.shows
    <3>1. served'.shows = walk[w].shows /\ walk[w].pc = "walk"
      BY <2>2 DEF EndWalk, Stamped
    <3>2. served.shows <= walk[w].shows /\ walk[w].shows \in Int
      BY <3>1, Hours_Fine DEF StatsInductive, WalkFine
    <3> QED BY <2>1, <3>1, <3>2
  <2>3. ASSUME served' = served PROVE served'.shows >= served.shows
    BY <2>1, <2>3
  <2>4. ASSUME NEW u \in Pollers, GetStats(u) \/ Resume(u) \/ StatsReply(u) PROVE served' = served
    BY ONLY <2>4 DEF GetStats, Resume, StatsReply
  <2>5. ASSUME NEW w \in Walks, BeginWalk(w) \/ FailWalk(w) PROVE served' = served
    BY ONLY <2>5 DEF BeginWalk, FailWalk
  <2>6. StatsTick => served' = served
    BY DEF StatsTick
  <2> QED
    BY <2>2, <2>3, <2>4, <2>5, <2>6 DEF StatsNext
<1> QED
  BY StatsStarts, StatsStep, <1>1, PTL DEF StatsSpec, ViewForward

----------------------------------------------------------------------------
(***************************************************************************)
(* The budget: a caller that runs dry is warned first, and a footer is     *)
(* about the budget of the one who reads it.                               *)
(***************************************************************************)

\* Whoever has not been warned, and had no warning eaten, is still above the last
\* stride; what the cache holds was offered to it.
BudgetInductive ==
    /\ BudgetTypeOK
    /\ ~warned /\ ~muted => units >= Stride * Cost
    /\ reply.status = "refused" => warned \/ muted
    /\ shared.footer = NoFooter /\ ~shared.held

LEMMA Div_Bounds ==
  ASSUME NEW i \in Nat, NEW c \in Nat \ {0}
  PROVE  /\ i \div c \in Nat
         /\ c * (i \div c) <= i /\ i < c * (i \div c + 1)
OBVIOUS

LEMMA Div_Is ==
  ASSUME NEW i \in Nat, NEW c \in Nat \ {0}, NEW k \in Nat, k * c <= i, i < (k + 1) * c
  PROVE  i \div c = k
OBVIOUS

LEMMA Div_Below ==
  ASSUME NEW i \in Nat, NEW c \in Nat \ {0}, NEW k \in Nat, i < k * c
  PROVE  i \div c \in 0..k-1
OBVIOUS

LEMMA Stride_Fine ==
  /\ Stride \in Nat \ {0} /\ PerMin \in Nat \ {0} /\ Cost \in Nat \ {0} /\ Second \in Nat \ {0}
  /\ EdgeSeconds \in Nat
  /\ (Stride - 1) * 4 <= PerMin /\ Stride <= PerMin
  /\ Stride % Stride = 0
  /\ Burst \in Nat /\ Cost <= Burst /\ Stride * Cost <= Burst /\ Stride * Cost >= Cost
<1>1. PerMin \in Nat \ {0} /\ Cost \in Nat \ {0} /\ Second \in Nat \ {0} /\ EdgeSeconds \in Nat
  BY BudgetAssumption
<1>2. Stride \in Nat \ {0} /\ (Stride - 1) * 4 <= PerMin /\ Stride <= PerMin
  BY <1>1 DEF Stride
<1> HIDE DEF Stride
<1>3. Stride % Stride = 0
  BY <1>2
<1>4. Burst \in Nat /\ Cost <= Burst /\ Stride * Cost <= Burst /\ Stride * Cost >= Cost
  BY <1>1, <1>2 DEF Burst
<1> QED BY <1>1, <1>2, <1>3, <1>4

\* What a read that is granted leaves.
LEMMA Granted_Read ==
  ASSUME BudgetTypeOK, Granted
  PROVE  /\ Charged \in 0..Burst /\ Left \in 0..PerMin - 1
         /\ Footer(Left) \in NoFooter..PerMin - 1
         /\ Footer(Left) # NoFooter => Footer(Left) = Left
         /\ Footer(Left) = NoFooter /\ units >= Stride * Cost => Charged >= Stride * Cost
         /\ ~InBand(Left) => Charged >= Stride * Cost
<1>1. units \in 0..Burst /\ units >= Cost
  BY DEF BudgetTypeOK, Granted
<1>2. Charged \in 0..Burst /\ Charged = units - Cost
  BY <1>1, Stride_Fine DEF Charged
<1>3. Charged < PerMin * Cost
  BY <1>1, <1>2, Stride_Fine DEF Burst
<1>4. Left \in 0..PerMin - 1
  BY <1>2, <1>3, Stride_Fine, Div_Below DEF Left
<1>5. Footer(Left) \in NoFooter..PerMin - 1 /\ (Footer(Left) # NoFooter => Footer(Left) = Left)
  BY <1>4, Stride_Fine DEF Footer, NoFooter
<1>6. ASSUME Charged < Stride * Cost, units >= Stride * Cost
      PROVE  Left = Stride - 1
  <2>1. (Stride - 1) * Cost <= Charged /\ Charged < (Stride - 1 + 1) * Cost
    BY <1>1, <1>2, <1>6, Stride_Fine
  <2>2. Stride - 1 \in Nat
    BY Stride_Fine
  <2> QED BY <1>2, <2>1, <2>2, Stride_Fine, Div_Is DEF Left
<1>7. Footer(Stride - 1) # NoFooter
  BY Stride_Fine DEF Footer, InBand, NoFooter
<1>8. ASSUME Charged < Stride * Cost PROVE InBand(Left)
  <2>1. Left \in 0..Stride - 1
    BY <1>2, <1>8, Stride_Fine, Div_Below DEF Left
  <2> QED BY <2>1, Stride_Fine DEF InBand
<1> QED BY <1>1, <1>2, <1>4, <1>5, <1>6, <1>7, <1>8, Stride_Fine

LEMMA BudgetStarts == BudgetInit => BudgetInductive
<1> SUFFICES ASSUME BudgetInit PROVE BudgetInductive
  OBVIOUS
<1>1. PerMin \div 4 + 2 \in Nat /\ PerMin \div 4 + 2 >= Stride
  BY BudgetAssumption DEF Stride
<1>2. AboveBand \in Nat /\ AboveBand >= Stride * Cost
  BY <1>1, Stride_Fine DEF AboveBand
<1>3. units >= Stride * Cost /\ units \in 0..Burst
  BY <1>2, Stride_Fine DEF BudgetInit
<1>4. warned = FALSE /\ muted = FALSE /\ reply = Served(NoFooter) /\ shared = NoCopy
  BY DEF BudgetInit
<1>5. reply \in [status : {"served", "refused"}, footer : NoFooter..PerMin - 1, delay : Nat]
  BY <1>4, Stride_Fine DEF Served, NoFooter
<1>6. EdgeSeconds * Second \in Nat
  BY Stride_Fine
<1>7. shared \in [age : 0..EdgeSeconds * Second, footer : NoFooter..PerMin - 1, held : BOOLEAN]
  BY <1>4, <1>6, Stride_Fine DEF NoCopy, NoFooter
<1>8. reply.status = "served" /\ shared.footer = NoFooter /\ ~shared.held
  BY <1>4 DEF Served, NoCopy
<1> QED BY <1>3, <1>4, <1>5, <1>7, <1>8 DEF BudgetInductive, BudgetTypeOK

LEMMA Offered ==
  ASSUME BudgetInductive, NEW footer \in NoFooter..PerMin - 1, NEW held \in BOOLEAN,
         Offer(footer, held)
  PROVE  /\ shared' \in [age : 0..EdgeSeconds * Second, footer : NoFooter..PerMin - 1, held : BOOLEAN]
         /\ shared'.footer = NoFooter /\ ~shared'.held
BY Stride_Fine DEF BudgetInductive, BudgetTypeOK, Offer, MayShare, NoFooter

LEMMA BudgetStep == BudgetInductive /\ [BudgetNext]_budgetVars => BudgetInductive'
<1> SUFFICES ASSUME BudgetInductive, [BudgetNext]_budgetVars PROVE BudgetInductive'
  OBVIOUS
<1>0. BudgetTypeOK
  BY DEF BudgetInductive
<1>1. CASE BudgetTick
  <2>1. units' \in 0..Burst /\ units' >= units /\ units \in Nat
    BY <1>0, <1>1, Stride_Fine DEF BudgetTypeOK, BudgetTick, Refilled
  <2>2. /\ shared' \in [age : 0..EdgeSeconds * Second, footer : NoFooter..PerMin - 1, held : BOOLEAN]
        /\ shared'.footer = NoFooter /\ ~shared'.held
    BY <1>0, <1>1, Stride_Fine DEF BudgetTypeOK, BudgetTick, BudgetInductive, NoCopy, NoFooter
  <2>3. Stride * Cost \in Nat
    BY Stride_Fine
  <2> QED BY <1>0, <1>1, <2>1, <2>2, <2>3 DEF BudgetTick, BudgetInductive, BudgetTypeOK
<1>2. ASSUME NEW held \in BOOLEAN, Read(held) PROVE BudgetInductive'
  <2>1. /\ Charged \in 0..Burst /\ Footer(Left) \in NoFooter..PerMin - 1
        /\ Footer(Left) = NoFooter /\ units >= Stride * Cost => Charged >= Stride * Cost
        /\ ~InBand(Left) => Charged >= Stride * Cost
    BY <1>0, <1>2, Granted_Read DEF Read
  <2>2. /\ shared' \in [age : 0..EdgeSeconds * Second, footer : NoFooter..PerMin - 1, held : BOOLEAN]
        /\ shared'.footer = NoFooter /\ ~shared'.held
    BY <1>2, <2>1, Offered DEF Read
  <2>3. /\ reply' \in [status : {"served", "refused"}, footer : NoFooter..PerMin - 1, delay : Nat]
        /\ reply'.status = "served"
    BY <1>2, <2>1 DEF Read, Served
  <2>4. ~warned' /\ ~muted' => units' >= Stride * Cost
    BY <1>2, <2>1 DEF Read, BudgetInductive
  <2>5. units' \in 0..Burst /\ warned' \in BOOLEAN /\ muted' \in BOOLEAN
    BY <1>2, <2>1 DEF Read
  <2> QED BY <2>2, <2>3, <2>4, <2>5 DEF BudgetInductive, BudgetTypeOK
<1>3. CASE ReadSilently
  <2>1. /\ Charged \in 0..Burst
        /\ Footer(Left) = NoFooter /\ units >= Stride * Cost => Charged >= Stride * Cost
        /\ ~InBand(Left) => Charged >= Stride * Cost
    BY <1>0, <1>3, Granted_Read DEF ReadSilently
  <2>2. /\ reply' \in [status : {"served", "refused"}, footer : NoFooter..PerMin - 1, delay : Nat]
        /\ reply'.status = "served"
    BY <1>3, Stride_Fine DEF ReadSilently, Served, NoFooter
  <2>3. ~warned' /\ ~muted' => units' >= Stride * Cost
    BY <1>3, <2>1 DEF ReadSilently, BudgetInductive
  <2>4. units' \in 0..Burst /\ warned' \in BOOLEAN /\ muted' \in BOOLEAN /\ shared' = shared
    BY <1>3, <2>1 DEF ReadSilently
  <2> QED BY <1>0, <2>2, <2>3, <2>4 DEF BudgetInductive, BudgetTypeOK
<1>4. CASE RefuseRead
  <2>1. UNCHANGED <<units, warned, muted, shared>>
    BY <1>4 DEF RefuseRead
  <2>2. warned \/ muted
    BY <1>0, <1>4, Stride_Fine DEF RefuseRead, BudgetInductive, BudgetTypeOK, Granted
  <2>3. Cost - units \in Nat
    BY <1>0, <1>4, Stride_Fine DEF BudgetTypeOK, RefuseRead, Granted
  <2>4. Rounded(Cost - units) \in Nat
    BY <2>3, Stride_Fine, Div_Bounds DEF Rounded
  <2>5. reply' \in [status : {"served", "refused"}, footer : NoFooter..PerMin - 1, delay : Nat]
    BY <1>4, <2>4, Stride_Fine DEF RefuseRead, Refused, NoFooter
  <2> QED BY <1>0, <2>1, <2>2, <2>5 DEF BudgetInductive, BudgetTypeOK
<1>5. CASE ReadCopy
  BY <1>0, <1>5, Stride_Fine DEF ReadCopy, BudgetInductive, BudgetTypeOK, Served, NoFooter
<1>6. ASSUME NEW held \in BOOLEAN, NEW left \in {0, Stride - 1, PerMin - 1}, OthersRead(left, held)
      PROVE  BudgetInductive'
  <2>1. left \in 0..PerMin - 1
    BY Stride_Fine
  <2>2. Footer(left) \in NoFooter..PerMin - 1
    BY <2>1, Stride_Fine DEF Footer, NoFooter
  <2>3. /\ shared' \in [age : 0..EdgeSeconds * Second, footer : NoFooter..PerMin - 1, held : BOOLEAN]
        /\ shared'.footer = NoFooter /\ ~shared'.held
    BY <1>6, <2>2, Offered DEF OthersRead
  <2> QED BY <1>0, <1>6, <2>3 DEF OthersRead, BudgetInductive, BudgetTypeOK
<1>7. CASE UNCHANGED budgetVars
  BY <1>7 DEF budgetVars, BudgetInductive, BudgetTypeOK
<1> QED
  BY <1>1, <1>2, <1>3, <1>4, <1>5, <1>6, <1>7 DEF BudgetNext

\* A caller is warned before it is refused: its balance does not step over the
\* last stride of the band, whatever the rate and the cost of a token
\* (`budget_note`).
THEOREM WarnedFirst == BudgetSpec => []BudgetInv
<1>1. BudgetInductive => BudgetInv
  BY DEF BudgetInductive, BudgetInv, WarnedBeforeWall
<1> QED
  BY BudgetStarts, BudgetStep, <1>1, PTL DEF BudgetSpec

\* No footer is another caller's: what a shared cache holds has none
\* (`_shareable`).
THEOREM FootersAreOwn == BudgetSpec => FooterIsOwn
<1> DEFINE Own == reply' # reply => /\ reply'.footer # NoFooter => reply'.footer = units' \div Cost
                                    /\ ~shared.held
<1>1. BudgetInductive /\ [BudgetNext]_budgetVars => [Own]_budgetVars
  <2> SUFFICES ASSUME BudgetInductive, BudgetNext, reply' # reply PROVE Own
    BY DEF Own, budgetVars
  <2>0. BudgetTypeOK /\ ~shared.held /\ shared.footer = NoFooter
    BY DEF BudgetInductive
  <2>1. ASSUME NEW held \in BOOLEAN, Read(held) PROVE Own
    <3>1. Footer(Left) # NoFooter => Footer(Left) = Left
      BY <2>0, <2>1, Granted_Read DEF Read
    <3>2. reply'.footer = Footer(Left) /\ units' \div Cost = Left
      BY <2>1 DEF Read, Served, Left
    <3> QED BY <2>0, <3>1, <3>2
  <2>2. CASE ReadSilently \/ RefuseRead \/ ReadCopy
    <3>1. reply'.footer = NoFooter
      BY <2>0, <2>2 DEF ReadSilently, RefuseRead, ReadCopy, Served, Refused
    <3> QED BY <2>0, <3>1
  <2>3. CASE BudgetTick
    BY <2>3 DEF BudgetTick
  <2>4. ASSUME NEW held \in BOOLEAN, NEW left \in {0, Stride - 1, PerMin - 1}, OthersRead(left, held)
        PROVE  Own
    BY <2>4 DEF OthersRead
  <2> QED BY <2>1, <2>2, <2>3, <2>4 DEF BudgetNext
<1> QED
  BY BudgetStarts, BudgetStep, <1>1, PTL DEF BudgetSpec, FooterIsOwn

----------------------------------------------------------------------------
(***************************************************************************)
(* The room's file, behind the back of its readers; and the export.        *)
(***************************************************************************)

\* A file holds numbers that were given out; only the one at the path has a line
\* begun, and there is a number left for it.
FileInductive ==
    /\ FileTypeOK
    /\ births \in Nat /\ births <= Len(rings)
    /\ \A i \in 1..Len(rings) :
          /\ rings[i].first <= rings[i].last /\ rings[i].last <= top /\ rings[i].birth <= births
          /\ rings[i].torn => i = file /\ top < MaxTop

\* What the writers may do behind a reader's back.
FileForward ==
    /\ Len(rings) <= Len(rings') /\ top <= top'
    /\ \A i \in 1..Len(rings) :
          /\ rings'[i].first = rings[i].first /\ rings'[i].birth = rings[i].birth
          /\ rings[i].last <= rings'[i].last
    /\ file' \in {file, 0} \/ (file' = Len(rings) + 1 /\ file' = Len(rings'))
    /\ file' # 0 => rings'[file'].last = top'
    /\ births <= births'

LEMMA Bounds_Nat == MaxTop \in Nat /\ MaxFiles \in Nat
BY RoomFileAssumption

LEMMA FileStarts == FileInit => FileInductive
<1> SUFFICES ASSUME FileInit PROVE FileInductive
  OBVIOUS
<1>1. rings = <<>> /\ Len(rings) = 0 /\ rings \in Seq(Ring)
  BY DEF FileInit
<1> QED BY <1>1, Bounds_Nat DEF FileInit, FileInductive, FileTypeOK

LEMMA Ring_Fine ==
  ASSUME FileInductive, NEW i \in 1..Len(rings)
  PROVE  /\ rings[i] \in Ring /\ rings[i].first \in Nat /\ rings[i].last \in Nat /\ rings[i].birth \in Nat
         /\ rings[i].first >= 1
<1>1. rings[i] \in Ring
  BY DEF FileInductive, FileTypeOK
<1> QED BY <1>1, Bounds_Nat DEF Ring

LEMMA Ring_Make ==
  ASSUME NEW first \in 1..MaxTop, NEW last \in 1..MaxTop, NEW torn \in BOOLEAN, NEW birth \in 1..MaxFiles
  PROVE  LET r == [first |-> first, last |-> last, torn |-> torn, birth |-> birth]
         IN  r \in Ring /\ r.first = first /\ r.last = last /\ r.torn = torn /\ r.birth = birth
BY DEF Ring

\* A new inode at the path.
LEMMA File_Made ==
  ASSUME FileInductive, NEW r \in Ring, rings' = Append(rings, r), file' = Len(rings'), top' \in 0..MaxTop,
         births' \in 0..MaxFiles, top <= top', births <= births', births' <= births + 1, r.last = top', r.first <= r.last, r.birth = births',
         ~r.torn, generation' = generation, births' <= generation + 1, 
         \A i \in 1..Len(rings) : ~rings[i].torn
  PROVE  FileInductive' /\ FileForward
<1>0. /\ rings \in Seq(Ring) /\ Len(rings) \in Nat /\ top \in Nat /\ births \in Nat /\ generation \in 0..births
      /\ births <= Len(rings)
  BY Bounds_Nat DEF FileInductive, FileTypeOK
<1>1. /\ rings' \in Seq(Ring) /\ Len(rings') = Len(rings) + 1 /\ rings'[Len(rings) + 1] = r
      /\ \A i \in 1..Len(rings) : rings'[i] = rings[i]
  BY <1>0
<1>2. FileTypeOK'
  BY <1>0, <1>1, Bounds_Nat DEF FileTypeOK
<1>3. ASSUME NEW i \in 1..Len(rings')
      PROVE  /\ rings'[i].first <= rings'[i].last /\ rings'[i].last <= top' /\ rings'[i].birth <= births'
             /\ rings'[i].torn => i = file' /\ top' < MaxTop
  <2>1. CASE i = Len(rings) + 1
    <3>1. r.last \in Nat /\ r.birth \in Nat
      BY Bounds_Nat DEF Ring
    <3> QED BY <1>0, <1>1, <2>1, <3>1
  <2>2. CASE i \in 1..Len(rings)
    <3>1. /\ rings[i].first <= rings[i].last /\ rings[i].last <= top /\ rings[i].birth <= births /\ ~rings[i].torn
      BY <2>2 DEF FileInductive
    <3>2. rings[i].last \in Nat /\ rings[i].birth \in Nat /\ top' \in Nat /\ births' \in Nat
      BY <2>2, Ring_Fine, Bounds_Nat
    <3> QED BY <1>0, <1>1, <2>2, <3>1, <3>2
  <2> QED BY <1>0, <1>1, <2>1, <2>2
<1>4. births' <= Len(rings')
  BY <1>0, <1>1, Bounds_Nat
<1>5. FileForward
  <2>1. \A i \in 1..Len(rings) : rings[i].last <= rings[i].last
    BY Ring_Fine
  <2> QED BY <1>0, <1>1, <2>1 DEF FileForward
<1> QED BY <1>2, <1>3, <1>4, <1>5 DEF FileInductive

\* A step at the file that is at the path.
LEMMA File_Written ==
  ASSUME FileInductive, file # 0, NEW r \in Ring, rings' = [rings EXCEPT ![file] = r],
         r.first = rings[file].first, r.birth = rings[file].birth, rings[file].last <= r.last, r.last = top',
         r.torn => top' < MaxTop, top' \in 0..MaxTop, top <= top', UNCHANGED <<file, births, generation>>
  PROVE  FileInductive' /\ FileForward
<1>0. /\ rings \in Seq(Ring) /\ Len(rings) \in Nat /\ top \in Nat /\ births \in Nat /\ generation \in 0..births
      /\ file \in 1..Len(rings) /\ rings[file].birth = births
  BY Bounds_Nat DEF FileInductive, FileTypeOK
<1>1. /\ rings' \in Seq(Ring) /\ Len(rings') = Len(rings) /\ rings'[file] = r
      /\ \A i \in 1..Len(rings) : i # file => rings'[i] = rings[i]
  BY <1>0
<1>2. FileTypeOK'
  BY <1>0, <1>1 DEF FileInductive, FileTypeOK
<1>3. \A i \in 1..Len(rings) : /\ rings[i].first \in Nat /\ rings[i].last \in Nat /\ rings[i].birth \in Nat
                               /\ rings[i].first <= rings[i].last /\ rings[i].last <= top /\ rings[i].birth <= births
  BY Ring_Fine DEF FileInductive
<1>4. \A i \in 1..Len(rings) : rings[i].torn => i = file
  BY DEF FileInductive
<1>5. ASSUME NEW i \in 1..Len(rings')
      PROVE  /\ rings'[i].first <= rings'[i].last /\ rings'[i].last <= top' /\ rings'[i].birth <= births'
             /\ rings'[i].torn => i = file' /\ top' < MaxTop
  <2>1. CASE i = file
    <3>1. r.last \in Nat /\ top' \in Nat
      BY Bounds_Nat DEF Ring
    <3> QED BY <1>0, <1>1, <1>3, <2>1, <3>1
  <2>2. CASE i # file
    <3>1. top' \in Nat
      BY Bounds_Nat
    <3> QED BY <1>0, <1>1, <1>3, <1>4, <2>2, <3>1
  <2> QED BY <2>1, <2>2
<1>6. FileForward
  <2>1. ASSUME NEW i \in 1..Len(rings)
        PROVE  /\ rings'[i].first = rings[i].first /\ rings'[i].birth = rings[i].birth
               /\ rings[i].last <= rings'[i].last
    BY <1>0, <1>1, <1>3
  <2> QED BY <1>0, <1>1, <2>1 DEF FileForward
<1> QED BY <1>0, <1>1, <1>2, <1>5, <1>6 DEF FileInductive

LEMMA FileStep ==
  ASSUME FileInductive, FileNext
  PROVE  FileInductive' /\ FileForward
<1>0. /\ rings \in Seq(Ring) /\ Len(rings) \in Nat /\ top \in 0..MaxTop /\ births \in Nat /\ generation \in 0..births
      /\ births <= Len(rings) /\ file \in 0..Len(rings) /\ births <= generation + 1
      /\ file # 0 => rings[file].last = top /\ rings[file].birth = births
  BY DEF FileInductive, FileTypeOK
<1>1. \A i \in 1..Len(rings) : rings[i].torn => i = file /\ top < MaxTop
  BY DEF FileInductive
<1>2. CASE CreateRoom
  <2>0. top + 1 \in 1..MaxTop /\ births + 1 \in 1..MaxFiles
    BY <1>0, <1>2, Bounds_Nat DEF CreateRoom
  <2>1. PICK r \in Ring : r = [first |-> top + 1, last |-> top + 1, torn |-> FALSE, birth |-> births + 1]
    BY <2>0 DEF Ring
  <2>2. r.first = top + 1 /\ r.last = top + 1 /\ ~r.torn /\ r.birth = births + 1
    BY <2>1
  <2>3. \A i \in 1..Len(rings) : ~rings[i].torn
    BY <1>1, <1>2 DEF CreateRoom
  <2>4. /\ rings' = Append(rings, r) /\ file' = Len(rings') /\ top' = top + 1 /\ births' = births + 1
        /\ generation' = generation /\ generation = births /\ top < MaxTop /\ Len(rings) < MaxFiles
    BY <1>2, <2>1 DEF CreateRoom, Recorded
  <2>5. top' \in 0..MaxTop /\ births' \in 0..MaxFiles /\ top <= top' /\ births <= births'
        /\ births' <= generation + 1 /\ births' <= births + 1 /\ r.first <= r.last
    BY <1>0, <2>2, <2>4, Bounds_Nat
  <2> QED BY <2>2, <2>3, <2>4, <2>5, File_Made
<1>3. CASE RecordBirth
  <2>1. generation' = births /\ UNCHANGED <<file, rings, top, births>>
    BY <1>3 DEF RecordBirth
  <2>2. FileInductive'
    BY <1>0, <2>1 DEF FileInductive, FileTypeOK
  <2>3. \A i \in 1..Len(rings) : rings[i].last <= rings[i].last
    BY Ring_Fine
  <2> QED BY <1>0, <2>1, <2>2, <2>3, Bounds_Nat DEF FileForward
<1>4. CASE BeginAppend
  <2>1. file \in 1..Len(rings) /\ file # 0 /\ rings[file] \in Ring /\ top < MaxTop
    BY <1>0, <1>4, Ring_Fine DEF BeginAppend
  <2>2. PICK q \in Ring : q = rings[file]
    BY <2>1
  <2>3. PICK r \in Ring : r = [q EXCEPT !.torn = TRUE]
    BY DEF Ring
  <2>4. r.first = q.first /\ r.last = q.last /\ r.birth = q.birth
    BY <2>3 DEF Ring
  <2>5. rings' = [rings EXCEPT ![file] = r]
    BY <1>4, <2>2, <2>3 DEF BeginAppend
  <2>6. UNCHANGED <<file, top, births, generation>>
    BY <1>4 DEF BeginAppend
  <2>7. rings[file].last <= r.last /\ r.last = top'
    BY <1>0, <2>1, <2>2, <2>4, <2>6, Bounds_Nat
  <2>8. top' \in 0..MaxTop /\ top <= top' /\ top' < MaxTop
    BY <1>0, <2>1, <2>6, Bounds_Nat
  <2> QED BY <2>1, <2>2, <2>4, <2>5, <2>6, <2>7, <2>8, File_Written
<1>5. CASE EndAppend
  <2>1. file \in 1..Len(rings) /\ file # 0 /\ rings[file] \in Ring /\ top < MaxTop
    BY <1>0, <1>1, <1>5, Ring_Fine DEF EndAppend
  <2>2. PICK q \in Ring : q = rings[file]
    BY <2>1
  <2>3. PICK last \in 1..MaxTop : last = top + 1
    BY <1>0, <2>1, Bounds_Nat
  <2>4. PICK r \in Ring : r = [q EXCEPT !.torn = FALSE, !.last = last]
    BY DEF Ring
  <2>5. r.first = q.first /\ r.last = last /\ r.birth = q.birth /\ ~r.torn
    BY <2>4 DEF Ring
  <2>6. rings' = [rings EXCEPT ![file] = r]
    BY <1>5, <2>2, <2>3, <2>4 DEF EndAppend
  <2>7. UNCHANGED <<file, births, generation>> /\ top' = top + 1
    BY <1>5 DEF EndAppend
  <2>8. rings[file].last <= r.last /\ r.last = top'
    BY <1>0, <2>1, <2>2, <2>3, <2>5, <2>7, Bounds_Nat
  <2>9. top' \in 0..MaxTop /\ top <= top'
    BY <1>0, <2>1, <2>7, Bounds_Nat
  <2> QED BY <2>1, <2>2, <2>5, <2>6, <2>7, <2>8, <2>9, File_Written
<1>6. CASE Compact
  <2>1. file \in 1..Len(rings) /\ rings[file] \in Ring /\ ~rings[file].torn /\ Len(rings) < MaxFiles
        /\ rings' = Append(rings, KeptRing(rings[file])) /\ file' = Len(rings')
        /\ UNCHANGED <<top, births, generation>>
    BY <1>0, <1>6, Ring_Fine DEF Compact
  <2>2. PICK q \in Ring : q = rings[file]
    BY <2>1
  <2>3. q.last = top /\ q.birth = births /\ ~q.torn
    BY <1>0, <2>1, <2>2
  <2>4. top \in 1..MaxTop
    BY <2>3 DEF Ring
  <2>5. PICK first \in 1..MaxTop : first = top
    BY <2>4
  <2>6. PICK r \in Ring : r = [q EXCEPT !.first = first]
    BY DEF Ring
  <2>7. r.first = first /\ r.last = q.last /\ r.birth = q.birth /\ r.torn = q.torn
    BY <2>6 DEF Ring
  <2>8. rings' = Append(rings, r)
    BY <2>1, <2>2, <2>5, <2>6 DEF KeptRing
  <2>9. \A i \in 1..Len(rings) : ~rings[i].torn
    BY <1>1, <2>1
  <2>10. /\ top' \in 0..MaxTop /\ births' \in 0..MaxFiles /\ top <= top' /\ births <= births' /\ births' <= births + 1
         /\ births' <= generation + 1 /\ r.first <= r.last /\ r.last = top' /\ r.birth = births' /\ ~r.torn
    BY <1>0, <2>1, <2>3, <2>4, <2>5, <2>7, Bounds_Nat
  <2> QED BY <2>1, <2>8, <2>9, <2>10, File_Made
<1>7. CASE ReapFile
  <2>1. file' = 0 /\ UNCHANGED <<rings, top, births, generation>> /\ file # 0 /\ ~rings[file].torn
    BY <1>7 DEF ReapFile
  <2>2. FileInductive'
    BY <1>0, <1>1, <2>1 DEF FileInductive, FileTypeOK
  <2>3. \A i \in 1..Len(rings) : rings[i].last <= rings[i].last
    BY Ring_Fine
  <2> QED BY <1>0, <2>1, <2>2, <2>3, Bounds_Nat DEF FileForward
<1> QED BY <1>2, <1>3, <1>4, <1>5, <1>6, <1>7 DEF FileNext

----------------------------------------------------------------------------
(***************************************************************************)
(* The export.                                                             *)
(***************************************************************************)

ExportRecord ==
    [pc : {"idle", "measure", "generation", "stream", "sent"}, ring : Nat, first : Nat, end : Nat,
     generation : Nat, excused : BOOLEAN, sent : Seq(Nat \X Nat)]

\* The export holds an inode, knows lines of it that are whole, and has sent a
\* prefix of those.
ExportFine(x) ==
    /\ x.pc # "idle" => x.ring \in 1..Len(rings)
    /\ x.pc = "idle" => x.ring = 0
    /\ x.pc \in {"generation", "stream", "sent"} =>
          x.first = rings[x.ring].first /\ x.first <= x.end /\ x.end <= rings[x.ring].last
    /\ x.pc \in {"stream", "sent"} => Len(x.sent) <= x.end - x.first + 1
    /\ x.pc \notin {"stream", "sent"} => x.sent = <<>>
    /\ \A i \in 1..Len(x.sent) : x.sent[i] = <<x.ring, x.first + i - 1>>

\* The generation that goes with a ring counts its birth, or excuses itself.
GenerationFine(x) ==
    x.pc \in {"stream", "sent"} => x.excused = TRUE \/ x.generation >= rings[x.ring].birth

ExportInductive == FileInductive /\ ex \in ExportRecord /\ ExportFine(ex) /\ GenerationFine(ex)

LEMMA Append_Fine ==
  ASSUME NEW S, NEW sent \in Seq(S), NEW line \in S
  PROVE  Append(sent, line) \in Seq(S)
OBVIOUS

LEMMA Export_Idle ==
  /\ ExportIdle \in ExportRecord /\ ExportFine(ExportIdle) /\ GenerationFine(ExportIdle)
<1>1. <<>> \in Seq(Nat \X Nat) /\ Len(<<>>) = 0
  OBVIOUS
<1>2. ExportIdle \in ExportRecord
  BY <1>1 DEF ExportIdle, ExportRecord
<1>3. ExportIdle.pc = "idle" /\ ExportIdle.ring = 0 /\ ExportIdle.sent = <<>>
  BY DEF ExportIdle
<1> HIDE DEF ExportIdle
<1> QED BY <1>1, <1>2, <1>3 DEF ExportFine, GenerationFine

LEMMA ExportStarts == ExportInit => ExportInductive
BY FileStarts, Export_Idle DEF ExportInit, ExportInductive

\* The writers move on behind the export.
LEMMA Export_Behind ==
  ASSUME ExportInductive, FileNext, UNCHANGED ex
  PROVE  ExportInductive'
<1>1. FileInductive' /\ FileForward
  BY FileStep DEF ExportInductive
<1>2. PICK x \in ExportRecord : x = ex /\ x = ex'
  BY DEF ExportInductive
<1>3. ExportFine(x) /\ GenerationFine(x) /\ x.end \in Nat /\ x.ring \in Nat
  BY <1>2 DEF ExportInductive, ExportRecord
<1>4. Len(rings) \in Nat /\ Len(rings') \in Nat
  BY <1>1 DEF ExportInductive, FileInductive, FileTypeOK
<1>5. \A i \in 1..Len(rings) : rings[i].last \in Nat /\ rings'[i].last \in Nat
  <2>1. \A i \in 1..Len(rings') : rings'[i] \in Ring
    BY <1>1 DEF FileInductive, FileTypeOK
  <2>2. \A i \in 1..Len(rings) : i \in 1..Len(rings')
    BY <1>1, <1>4 DEF FileForward
  <2> QED BY <2>1, <2>2, Ring_Fine, Bounds_Nat DEF ExportInductive, Ring
<1>6. ExportFine(x)'
  <2>1. x.pc # "idle" => x.ring \in 1..Len(rings')
    BY <1>1, <1>3, <1>4 DEF ExportFine, FileForward
  <2>2. x.pc \in {"generation", "stream", "sent"} =>
          x.first = rings'[x.ring].first /\ x.first <= x.end /\ x.end <= rings'[x.ring].last
    <3> SUFFICES ASSUME x.pc \in {"generation", "stream", "sent"}
                 PROVE  x.first = rings'[x.ring].first /\ x.first <= x.end /\ x.end <= rings'[x.ring].last
      OBVIOUS
    <3>1. x.ring \in 1..Len(rings) /\ x.first = rings[x.ring].first /\ x.first <= x.end
          /\ x.end <= rings[x.ring].last
      BY <1>3 DEF ExportFine
    <3>2. rings'[x.ring].first = rings[x.ring].first /\ rings[x.ring].last <= rings'[x.ring].last
      BY <1>1, <3>1 DEF FileForward
    <3> QED BY <1>3, <1>5, <3>1, <3>2
  <2> QED BY <1>3, <2>1, <2>2 DEF ExportFine
<1>7. GenerationFine(x)'
  <2>1. x.pc \in {"stream", "sent"} => x.ring \in 1..Len(rings)
    BY <1>3 DEF ExportFine
  <2> QED BY <1>1, <1>3, <2>1 DEF GenerationFine, FileForward
<1> QED BY <1>1, <1>2, <1>6, <1>7 DEF ExportInductive, ExportFine, GenerationFine

\* A step of the export: the file stands still.
LEMMA Export_Moves ==
  ASSUME ExportInductive, UNCHANGED fileVars, NEW x \in ExportRecord, ex' = x,
         ExportFine(x), GenerationFine(x)
  PROVE  ExportInductive'
<1>1. UNCHANGED <<file, rings, top, births, generation>>
  BY DEF fileVars
<1>2. FileInductive'
  BY <1>1 DEF ExportInductive, FileInductive, FileTypeOK
<1> QED BY <1>1, <1>2 DEF ExportInductive, ExportFine, GenerationFine

LEMMA ExportStep ==
  ASSUME ExportInductive, [ExportNext]_exportVars
  PROVE  ExportInductive'
<1>1. PICK x \in ExportRecord : x = ex
  BY DEF ExportInductive
<1>2. ExportFine(x) /\ GenerationFine(x) /\ FileInductive /\ Len(rings) \in Nat
  BY <1>1 DEF ExportInductive, FileInductive, FileTypeOK
<1>3. /\ x.ring \in Nat /\ x.first \in Nat /\ x.end \in Nat /\ x.sent \in Seq(Nat \X Nat) /\ Len(x.sent) \in Nat
      /\ <<>> \in Seq(Nat \X Nat) /\ Len(<<>>) = 0
  BY DEF ExportRecord
<1>4. CASE OpenRing
  <2>1. UNCHANGED fileVars /\ file \in 1..Len(rings)
    BY <1>2, <1>4 DEF OpenRing, FileInductive, FileTypeOK
  <2>2. PICK ring \in Nat : ring = file
    BY <1>2, <2>1
  <2>3. PICK y \in ExportRecord : y = [ExportIdle EXCEPT !.pc = "measure", !.ring = ring]
    BY Export_Idle DEF ExportRecord
  <2>4. y.pc = "measure" /\ y.ring = ring /\ y.sent = <<>>
    BY <2>3 DEF ExportIdle
  <2>5. ex' = y
    BY <1>4, <2>2, <2>3 DEF OpenRing
  <2>6. ExportFine(y) /\ GenerationFine(y)
    BY <1>3, <2>1, <2>2, <2>4 DEF ExportFine, GenerationFine
  <2> QED BY <2>1, <2>5, <2>6, Export_Moves
<1>5. CASE MeasureRing
  <2>1. UNCHANGED fileVars /\ x.pc = "measure" /\ x.ring \in 1..Len(rings) /\ x.sent = <<>>
    BY <1>1, <1>2, <1>5 DEF MeasureRing, ExportFine
  <2>2. PICK first \in Nat, end \in Nat : first = rings[x.ring].first /\ end = rings[x.ring].last
    BY <1>2, <2>1, Ring_Fine
  <2>f. first <= end
    BY <1>2, <2>1, <2>2 DEF FileInductive
  <2>3. PICK y \in ExportRecord : y = [x EXCEPT !.pc = "generation", !.first = first, !.end = end]
    BY DEF ExportRecord
  <2>4. y.pc = "generation" /\ y.ring = x.ring /\ y.sent = <<>> /\ y.first = first /\ y.end = end
    BY <2>1, <2>3 DEF ExportRecord
  <2>5. ex' = y
    BY <1>1, <1>5, <2>2, <2>3 DEF MeasureRing, LastLine
  <2>6. ExportFine(y) /\ GenerationFine(y)
    <3>1. rings[x.ring].last <= rings[x.ring].last
      BY <2>2
    <3> QED BY <1>3, <2>1, <2>2, <2>f, <2>4, <3>1 DEF ExportFine, GenerationFine
  <2> QED BY <2>1, <2>5, <2>6, Export_Moves
<1>6. CASE ReadGeneration
  <2>1. UNCHANGED fileVars /\ x.pc = "generation" /\ x.ring \in 1..Len(rings) /\ x.sent = <<>>
        /\ x.first = rings[x.ring].first /\ x.first <= x.end /\ x.end <= rings[x.ring].last
    BY <1>1, <1>2, <1>6 DEF ReadGeneration, ExportFine
  <2>2. births \in Nat /\ generation \in Nat /\ rings[x.ring].birth \in Nat /\ rings[x.ring].birth <= births
        /\ rings[x.ring].first <= rings[x.ring].last /\ rings[x.ring].last \in Nat
    BY <1>2, <2>1, Ring_Fine DEF FileInductive, FileTypeOK
  <2>3. PICK excused \in BOOLEAN : excused = ~Recorded
    OBVIOUS
  <2>4. PICK g \in Nat : g = generation
    BY <2>2
  <2>5. PICK y \in ExportRecord : y = [x EXCEPT !.pc = "stream", !.generation = g, !.excused = excused]
    BY DEF ExportRecord
  <2>6. y.pc = "stream" /\ y.ring = x.ring /\ y.sent = <<>> /\ y.first = x.first /\ y.end = x.end
        /\ y.generation = g /\ y.excused = excused
    BY <2>1, <2>5 DEF ExportRecord
  <2>7. ex' = y
    BY <1>1, <1>6, <2>3, <2>4, <2>5 DEF ReadGeneration
  <2>8. GenerationFine(y)
    <3>1. excused = TRUE \/ generation = births
      BY <2>3 DEF Recorded
    <3> QED BY <2>2, <2>4, <2>6, <3>1 DEF GenerationFine
  <2>9. 0 <= x.end - x.first + 1
    BY <1>3, <2>1
  <2>10. ExportFine(y)
    BY <1>3, <2>1, <2>6, <2>9 DEF ExportFine
  <2> QED BY <2>1, <2>7, <2>8, <2>10, Export_Moves
<1>7. CASE StreamLine
  <2>1. /\ UNCHANGED fileVars /\ x.pc = "stream" /\ x.ring \in 1..Len(rings)
        /\ x.first = rings[x.ring].first /\ x.first <= x.end /\ x.end <= rings[x.ring].last
        /\ \A i \in 1..Len(x.sent) : x.sent[i] = <<x.ring, x.first + i - 1>>
        /\ Len(x.sent) <= x.end - x.first + 1
    BY <1>1, <1>2, <1>7 DEF StreamLine, ExportFine
  <2>2. CASE Len(x.sent) <= x.end - x.first
    <3> DEFINE line == <<x.ring, x.first + Len(x.sent)>>
    <3>1. line \in Nat \X Nat
      BY <1>3
    <3>2. PICK sent \in Seq(Nat \X Nat) : sent = Append(x.sent, line)
      BY <1>3, <3>1, Append_Fine
    <3>3. /\ Len(sent) = Len(x.sent) + 1 /\ sent[Len(x.sent) + 1] = line
          /\ \A i \in 1..Len(x.sent) : sent[i] = x.sent[i]
      BY <1>3, <3>1, <3>2
    <3>4. ASSUME NEW i \in 1..Len(sent) PROVE sent[i] = <<x.ring, x.first + i - 1>>
      <4>1. CASE i = Len(x.sent) + 1
        <5>1. x.first + i - 1 = x.first + Len(x.sent)
          BY <1>3, <4>1
        <5> QED BY <3>3, <4>1, <5>1
      <4>2. CASE i \in 1..Len(x.sent)
        BY <2>1, <3>3, <4>2
      <4> QED BY <1>3, <3>3, <4>1, <4>2
    <3>5. PICK y \in ExportRecord : y = [x EXCEPT !.sent = sent]
      BY DEF ExportRecord
    <3>6. y.pc = "stream" /\ y.ring = x.ring /\ y.sent = sent /\ y.first = x.first /\ y.end = x.end
          /\ y.generation = x.generation /\ y.excused = x.excused
      BY <2>1, <3>5 DEF ExportRecord
    <3>7. x = [x EXCEPT !.ring = x.ring]
      BY DEF ExportRecord
    <3>8. ex' = [x EXCEPT !.sent = sent, !.ring = x.ring]
      BY <1>1, <1>7, <2>2, <3>2 DEF StreamLine, Source
    <3>9. ex' = y
      BY <3>5, <3>8 DEF ExportRecord
    <3>10. Len(sent) <= x.end - x.first + 1
      BY <1>3, <2>2, <3>3
    <3>11. ExportFine(y)
      BY <2>1, <3>4, <3>6, <3>10 DEF ExportFine
    <3>12. GenerationFine(y)
      BY <1>2, <2>1, <3>6 DEF GenerationFine
    <3> QED BY <2>1, <3>9, <3>11, <3>12, Export_Moves
  <2>3. CASE ~(Len(x.sent) <= x.end - x.first)
    <3>1. PICK y \in ExportRecord : y = [x EXCEPT !.pc = "sent"]
      BY DEF ExportRecord
    <3>2. y.pc = "sent" /\ y.ring = x.ring /\ y.sent = x.sent /\ y.first = x.first /\ y.end = x.end
          /\ y.generation = x.generation /\ y.excused = x.excused
      BY <3>1 DEF ExportRecord
    <3>3. ex' = y
      BY <1>1, <1>7, <2>3, <3>1 DEF StreamLine
    <3>4. ExportFine(y) /\ GenerationFine(y)
      BY <1>2, <2>1, <3>2 DEF ExportFine, GenerationFine
    <3> QED BY <2>1, <3>3, <3>4, Export_Moves
  <2> QED BY <2>2, <2>3
<1>8. CASE CloseRing
  <2>1. ex' = ExportIdle /\ UNCHANGED fileVars
    BY <1>8 DEF CloseRing, Closed
  <2> QED BY <2>1, Export_Idle, Export_Moves
<1>9. CASE FileNext /\ UNCHANGED ex
  BY <1>9, Export_Behind
<1>10. CASE UNCHANGED exportVars
  <2>1. UNCHANGED fileVars /\ ex' = x
    BY <1>1, <1>10 DEF exportVars
  <2> QED BY <1>2, <2>1, Export_Moves
<1> QED BY <1>4, <1>5, <1>6, <1>7, <1>8, <1>9, <1>10 DEF ExportNext

\* What a client is sent is one ring's lines, whole and in order, under a
\* generation that counts the ring's birth unless its creator was still to record
\* it, whatever is appended, compacted, reaped or created meanwhile (`export_room`).
THEOREM OneRingIsSent == ExportSpec => []ExportInv
<1>1. ExportInductive => ExportInv
  <2> SUFFICES ASSUME ExportInductive PROVE ExportInv
    OBVIOUS
  <2>1. PICK x \in ExportRecord : x = ex
    BY DEF ExportInductive
  <2>2. /\ ExportFine(x) /\ GenerationFine(x) /\ FileInductive /\ Len(rings) \in Nat
        /\ Len(x.sent) \in Nat /\ x.ring \in Nat /\ x.first \in Nat /\ x.end \in Nat
    BY <2>1 DEF ExportInductive, FileInductive, FileTypeOK, ExportRecord
  <2>3. CASE x.pc \in {"stream", "sent"}
    <3>1. /\ x.ring \in 1..Len(rings) /\ x.first = rings[x.ring].first /\ x.end <= rings[x.ring].last
          /\ Len(x.sent) <= x.end - x.first + 1
          /\ \A i \in 1..Len(x.sent) : x.sent[i] = <<x.ring, x.first + i - 1>>
      BY <2>2, <2>3 DEF ExportFine
    <3>2. rings[x.ring].first >= 1 /\ rings[x.ring].last \in 1..MaxTop
      BY <2>2, <3>1, Ring_Fine DEF Ring
    <3>3. Len(x.sent) <= MaxTop
      BY <2>2, <3>1, <3>2, Bounds_Nat
    <3>4. ASSUME NEW i \in 1..Len(x.sent)
          PROVE  x.sent[i] = <<x.ring, x.first + i - 1>> /\ x.sent[i][2] <= rings[x.ring].last
      <4>1. x.first + i - 1 <= rings[x.ring].last
        BY <2>2, <3>1, <3>2
      <4> QED BY <3>1, <4>1
    <3>5. ExportTypeOK
      <4>1. x.pc \in {"idle", "measure", "generation", "stream", "sent"} /\ x.pc # "idle"
        BY <2>3
      <4>2. x.ring \in 0..Len(rings) /\ x.ring # 0
        BY <2>2, <3>1
      <4> QED BY <2>1, <2>2, <3>3, <4>1, <4>2 DEF ExportTypeOK, FileInductive
    <3>6. ExportIsOneRing /\ GenerationFitsRing
      BY <2>1, <2>2, <3>4 DEF ExportIsOneRing, GenerationFitsRing, GenerationFine
    <3> QED BY <3>5, <3>6 DEF ExportInv
  <2>4. CASE x.pc \notin {"stream", "sent"}
    <3>1. x.sent = <<>> /\ Len(x.sent) = 0
      BY <2>2, <2>4 DEF ExportFine
    <3>2. x.ring \in 0..Len(rings) /\ (x.pc # "idle" <=> x.ring # 0)
      BY <2>2 DEF ExportFine
    <3>3. ExportTypeOK
      BY <2>1, <2>2, <3>1, <3>2, Bounds_Nat DEF ExportTypeOK, FileInductive, ExportRecord
    <3>4. ExportIsOneRing /\ GenerationFitsRing
      BY <2>1, <2>4, <3>1 DEF ExportIsOneRing, GenerationFitsRing
    <3> QED BY <3>3, <3>4 DEF ExportInv
  <2> QED BY <2>3, <2>4
<1>2. ExportInductive /\ [ExportNext]_exportVars => ExportInductive'
  BY ExportStep
<1> QED BY ExportStarts, <1>1, <1>2, PTL DEF ExportSpec

----------------------------------------------------------------------------
(***************************************************************************)
(* The long poll.                                                          *)
(***************************************************************************)

RoomStamps == {<<f, l, torn>> : f \in Nat, l \in Nat, torn \in BOOLEAN}
LastStamps == {NoStamp, NoRoom} \cup RoomStamps
WaitRecord ==
    [pc : {"idle", "slot", "loop", "wake", "stamp", "read", "reply"}, caller : Callers \cup {""},
     since : 0..MaxTop, left : 0..MaxWait, last : LastStamps, owed : BOOLEAN, found : BOOLEAN]

Holds(x) == x.pc \in {"loop", "wake", "stamp", "read"}

\* The stamp a tick compares with was seen on an inode that never comes back, or
\* with nothing on it that the cursor is not past.
WaitFine(x) ==
    /\ x.pc = "slot" \/ Holds(x) => x.caller \in Callers
    /\ x.found = TRUE => x.pc = "reply"
    /\ x.owed = TRUE => x.pc \in {"stamp", "read"} /\ HasPast(x.since)
    /\ x.last \in RoomStamps => x.last[1] \in 1..Len(rings) /\ x.last[2] <= rings[x.last[1]].last
    /\ x.last \in RoomStamps /\ x.pc # "read" => x.last[2] <= x.since \/ x.last[1] # file

HeldBy(c) == {w \in Held : wait[w].caller = c}

SlotsFine ==
    /\ IsFiniteSet(Held) /\ total = Cardinality(Held) /\ total <= MaxWaiters
    /\ byCaller \in [Callers -> Nat]
    /\ \A c \in Callers : byCaller[c] = Cardinality(HeldBy(c)) /\ byCaller[c] <= MaxPerCaller

WaitsFine == wait \in [Waiters -> WaitRecord] /\ \A w \in Waiters : WaitFine(wait[w])

PollInductive == FileInductive /\ WaitsFine /\ SlotsFine

LEMMA Poll_Bounds ==
  MaxWaiters \in Nat \ {0} /\ MaxPerCaller \in Nat \ {0} /\ MaxWait \in Nat \ {0}
BY LongPollAssumption

LEMMA Stamps_Apart ==
  /\ NoStamp \notin RoomStamps /\ NoRoom \notin RoomStamps
  /\ \A f \in Nat, l \in Nat, torn \in BOOLEAN :
        /\ <<f, l, torn>> \in RoomStamps /\ <<f, l, torn>>[1] = f /\ <<f, l, torn>>[2] = l
<1>1. Len(NoStamp) = 1 /\ Len(NoRoom) = 1
  BY DEF NoStamp, NoRoom
<1>2. ASSUME NEW f \in Nat, NEW l \in Nat, NEW torn \in BOOLEAN
      PROVE  Len(<<f, l, torn>>) = 3 /\ <<f, l, torn>>[1] = f /\ <<f, l, torn>>[2] = l
  OBVIOUS
<1>3. \A f \in Nat, l \in Nat, torn \in BOOLEAN : NoStamp # <<f, l, torn>> /\ NoRoom # <<f, l, torn>>
  BY <1>1, <1>2
<1> HIDE DEF NoStamp, NoRoom
<1> QED BY <1>2, <1>3 DEF RoomStamps

\* The stamp of the path.
LEMMA Stamp_Fine ==
  ASSUME FileInductive
  PROVE  /\ Stamp \in LastStamps
         /\ Stamp \in RoomStamps => /\ file \in 1..Len(rings)
                                    /\ Stamp[1] = file /\ Stamp[2] = rings[file].last
         /\ file # 0 => Stamp \in RoomStamps
<1>1. CASE file = 0
  BY <1>1, Stamps_Apart DEF Stamp, LastStamps
<1>2. CASE file # 0
  <2>1. file \in 1..Len(rings) /\ Len(rings) \in Nat
    BY <1>2 DEF FileInductive, FileTypeOK
  <2>2. PICK f \in Nat, l \in Nat, torn \in BOOLEAN : f = file /\ l = rings[file].last /\ torn = rings[file].torn
    <3>1. rings[file] \in Ring /\ rings[file].last \in Nat
      BY <2>1, Ring_Fine
    <3>2. rings[file].torn \in BOOLEAN
      BY <3>1 DEF Ring
    <3> QED BY <2>1, <3>1, <3>2
  <2>3. Stamp = <<f, l, torn>>
    BY <1>2, <2>2 DEF Stamp
  <2> QED BY <2>1, <2>2, <2>3, Stamps_Apart DEF LastStamps
<1> QED BY <1>1, <1>2

LEMMA Since_Nat == \A x \in WaitRecord : x.since \in Nat /\ x.last \in LastStamps
<1>1. \A x \in WaitRecord : x.since \in 0..MaxTop /\ x.last \in LastStamps
  BY DEF WaitRecord
<1> QED BY <1>1, Bounds_Nat

LEMMA Wait_Idle ==
  ASSUME FileInductive
  PROVE  /\ PollIdle \in WaitRecord /\ WaitFine(PollIdle) /\ ~Holds(PollIdle)
         /\ PollIdle.last = NoStamp
<1>1. PollIdle \in WaitRecord
  BY Bounds_Nat, Poll_Bounds DEF PollIdle, WaitRecord, LastStamps
<1>2. PollIdle.pc = "idle" /\ PollIdle.found = FALSE /\ PollIdle.owed = FALSE /\ PollIdle.last = NoStamp
  BY DEF PollIdle
<1> HIDE DEF PollIdle
<1> QED BY <1>1, <1>2, Stamps_Apart DEF WaitFine, Holds

LEMMA PollStarts == PollInit => PollInductive
<1> SUFFICES ASSUME PollInit PROVE PollInductive
  OBVIOUS
<1>1. FileInductive
  BY FileStarts DEF PollInit
<1>2. WaitsFine
  BY <1>1, Wait_Idle DEF PollInit, WaitsFine
<1>3. Held = {}
  BY <1>1, Wait_Idle DEF PollInit, Held, Holds
<1>4. \A c \in Callers : HeldBy(c) = {}
  BY <1>3 DEF HeldBy
<1>5. SlotsFine
  BY <1>3, <1>4, FS_EmptySet, Poll_Bounds DEF PollInit, SlotsFine
<1> QED BY <1>1, <1>2, <1>5 DEF PollInductive

----------------------------------------------------------------------------
\* What one handler's step leaves of the others.
LEMMA Waits_Move ==
  ASSUME PollInductive, UNCHANGED fileVars, NEW w \in Waiters, NEW x \in WaitRecord,
         wait' = [wait EXCEPT ![w] = x], WaitFine(x)
  PROVE  /\ FileInductive' /\ WaitsFine' /\ wait'[w] = x
         /\ \A v \in Waiters : v # w => wait'[v] = wait[v]
<1>1. UNCHANGED <<file, rings, top, births, generation>>
  BY DEF fileVars
<1>2. FileInductive'
  BY <1>1 DEF PollInductive, FileInductive, FileTypeOK
<1>3. wait' \in [Waiters -> WaitRecord] /\ wait'[w] = x /\ \A v \in Waiters : v # w => wait'[v] = wait[v]
  BY DEF PollInductive, WaitsFine
<1>4. \A v \in Waiters : WaitFine(wait'[v])
  BY <1>3 DEF PollInductive, WaitsFine
<1>5. \A v \in Waiters : WaitFine(wait[v])'
  BY <1>1, <1>4 DEF WaitFine, Holds, HasPast
<1> QED BY <1>2, <1>3, <1>5 DEF WaitsFine

\* A step that neither takes nor gives a slot.
LEMMA Keeps_Slot ==
  ASSUME PollInductive, UNCHANGED fileVars, NEW w \in Waiters, NEW x \in WaitRecord,
         wait' = [wait EXCEPT ![w] = x], WaitFine(x), SlotsUnchanged,
         Holds(x) <=> Holds(wait[w]), Holds(x) => x.caller = wait[w].caller
  PROVE  PollInductive'
<1>1. /\ FileInductive' /\ WaitsFine' /\ wait'[w] = x
      /\ \A v \in Waiters : v # w => wait'[v] = wait[v]
  BY Waits_Move
<1>2. Held' = Held
  BY <1>1 DEF Held, Holds
<1>3. \A c \in Callers : HeldBy(c)' = HeldBy(c)
  BY <1>1, <1>2 DEF HeldBy, Held, Holds
<1> QED BY <1>1, <1>2, <1>3 DEF PollInductive, SlotsFine, SlotsUnchanged

LEMMA Takes_Slot ==
  ASSUME PollInductive, UNCHANGED fileVars, NEW w \in Waiters, NEW x \in WaitRecord,
         wait' = [wait EXCEPT ![w] = x], WaitFine(x), Holds(x), ~Holds(wait[w]), x.caller \in Callers,
         total < MaxWaiters, byCaller[x.caller] < MaxPerCaller,
         total' = total + 1, byCaller' = [byCaller EXCEPT ![x.caller] = @ + 1]
  PROVE  PollInductive'
<1>1. /\ FileInductive' /\ WaitsFine' /\ wait'[w] = x
      /\ \A v \in Waiters : v # w => wait'[v] = wait[v]
  BY Waits_Move
<1>2. /\ IsFiniteSet(Held) /\ total = Cardinality(Held) /\ byCaller \in [Callers -> Nat]
      /\ \A c \in Callers : byCaller[c] = Cardinality(HeldBy(c)) /\ byCaller[c] <= MaxPerCaller
  BY DEF PollInductive, SlotsFine
<1>3. Held' = Held \cup {w} /\ w \notin Held
  BY <1>1 DEF Held, Holds
<1>4. /\ HeldBy(x.caller)' = HeldBy(x.caller) \cup {w} /\ w \notin HeldBy(x.caller)
      /\ \A c \in Callers : c # x.caller => HeldBy(c)' = HeldBy(c)
  BY <1>1, <1>3 DEF HeldBy, Held
<1>5. \A c \in Callers : IsFiniteSet(HeldBy(c))
  BY <1>2, FS_Subset DEF HeldBy
<1>6. IsFiniteSet(Held') /\ Cardinality(Held') = Cardinality(Held) + 1
  BY <1>2, <1>3, FS_AddElement
<1>7. Cardinality(HeldBy(x.caller)') = Cardinality(HeldBy(x.caller)) + 1
  BY <1>4, <1>5, FS_AddElement
<1>8. total' = Cardinality(Held') /\ total' <= MaxWaiters
  BY <1>2, <1>6, FS_CardinalityType, Poll_Bounds
<1>9. byCaller' \in [Callers -> Nat]
  BY <1>2
<1>10. ASSUME NEW c \in Callers PROVE byCaller'[c] = Cardinality(HeldBy(c)') /\ byCaller'[c] <= MaxPerCaller
  <2>1. CASE c = x.caller
    <3>1. byCaller'[c] = byCaller[c] + 1
      BY <1>2, <2>1
    <3> QED BY <1>2, <1>7, <2>1, <3>1, Poll_Bounds
  <2>2. CASE c # x.caller
    <3>1. byCaller'[c] = byCaller[c] /\ HeldBy(c)' = HeldBy(c)
      BY <1>2, <1>4, <2>2
    <3> QED BY <1>2, <3>1
  <2> QED BY <2>1, <2>2
<1>11. SlotsFine'
  BY <1>6, <1>8, <1>9, <1>10 DEF SlotsFine
<1> QED BY <1>1, <1>11 DEF PollInductive

LEMMA Gives_Slot ==
  ASSUME PollInductive, UNCHANGED fileVars, NEW w \in Waiters, NEW x \in WaitRecord,
         wait' = [wait EXCEPT ![w] = x], WaitFine(x), ~Holds(x), Holds(wait[w]), ReleaseSlot(w)
  PROVE  PollInductive'
<1>1. /\ FileInductive' /\ WaitsFine' /\ wait'[w] = x
      /\ \A v \in Waiters : v # w => wait'[v] = wait[v]
  BY Waits_Move
<1>2. /\ IsFiniteSet(Held) /\ total = Cardinality(Held) /\ byCaller \in [Callers -> Nat] /\ total <= MaxWaiters
      /\ \A c \in Callers : byCaller[c] = Cardinality(HeldBy(c)) /\ byCaller[c] <= MaxPerCaller
  BY DEF PollInductive, SlotsFine
<1>3. PICK d \in Callers : d = wait[w].caller
  BY DEF PollInductive, WaitsFine, WaitFine
<1>4. Held' = Held \ {w} /\ w \in Held
  BY <1>1 DEF Held, Holds
<1>5. /\ HeldBy(d)' = HeldBy(d) \ {w} /\ w \in HeldBy(d)
      /\ \A c \in Callers : c # d => HeldBy(c)' = HeldBy(c)
  BY <1>1, <1>3, <1>4 DEF HeldBy, Held
<1>6. \A c \in Callers : IsFiniteSet(HeldBy(c))
  BY <1>2, FS_Subset DEF HeldBy
<1>7. IsFiniteSet(Held') /\ Cardinality(Held') = Cardinality(Held) - 1
  BY <1>2, <1>4, FS_RemoveElement
<1>8. Cardinality(HeldBy(d)') = Cardinality(HeldBy(d)) - 1 /\ IsFiniteSet(HeldBy(d)')
  BY <1>5, <1>6, FS_RemoveElement
<1>9. total' = total - 1 /\ byCaller' = [byCaller EXCEPT ![d] = @ - 1]
  BY <1>3 DEF ReleaseSlot
<1>10. total' = Cardinality(Held') /\ total' <= MaxWaiters
  <2>1. Cardinality(Held) \in Nat
    BY <1>2, FS_CardinalityType
  <2> QED BY <1>2, <1>7, <1>9, <2>1, Poll_Bounds
<1>11. byCaller[d] - 1 \in Nat
  <2>1. Cardinality(HeldBy(d)') \in Nat
    BY <1>8, FS_CardinalityType
  <2> QED BY <1>2, <1>8, <2>1
<1>12. byCaller' \in [Callers -> Nat]
  BY <1>2, <1>9, <1>11
<1>13. ASSUME NEW c \in Callers PROVE byCaller'[c] = Cardinality(HeldBy(c)') /\ byCaller'[c] <= MaxPerCaller
  <2>1. CASE c = d
    <3>1. byCaller'[c] = byCaller[c] - 1
      BY <1>2, <1>9, <2>1
    <3> QED BY <1>2, <1>8, <2>1, <3>1, Poll_Bounds
  <2>2. CASE c # d
    <3>1. byCaller'[c] = byCaller[c] /\ HeldBy(c)' = HeldBy(c)
      BY <1>2, <1>5, <1>9, <2>2
    <3> QED BY <1>2, <3>1
  <2> QED BY <2>1, <2>2
<1>14. SlotsFine'
  BY <1>7, <1>10, <1>12, <1>13 DEF SlotsFine
<1> QED BY <1>1, <1>14 DEF PollInductive

LEMMA Answers_Fine ==
  ASSUME FileInductive, NEW found \in BOOLEAN
  PROVE  LET x == [PollIdle EXCEPT !.pc = "reply", !.found = found, !.owed = FALSE]
         IN  x \in WaitRecord /\ WaitFine(x) /\ ~Holds(x)
<1> DEFINE x == [PollIdle EXCEPT !.pc = "reply", !.found = found, !.owed = FALSE]
<1>1. x \in WaitRecord
  BY Wait_Idle DEF WaitRecord
<1>2. x.pc = "reply" /\ x.owed = FALSE /\ x.last = NoStamp
  BY DEF PollIdle
<1> HIDE DEF x
<1>3. WaitFine(x) /\ ~Holds(x)
  BY <1>2, Stamps_Apart DEF WaitFine, Holds
<1> QED BY <1>1, <1>3 DEF x

\* The writers move on: no inode comes back, and what is past a cursor stays so
\* as long as there is a room.
LEMMA Poll_Behind ==
  ASSUME PollInductive, FileMoves
  PROVE  PollInductive'
<1>1. FileInductive' /\ FileForward /\ FileInductive
  BY FileStep DEF PollInductive, FileMoves
<1>2. wait' = [w \in Waiters |-> [wait[w] EXCEPT !.owed = @ /\ file' # 0]] /\ SlotsUnchanged
  BY DEF FileMoves
<1>3. /\ Len(rings) \in Nat /\ Len(rings') \in Nat /\ file \in 0..Len(rings) /\ top \in Nat /\ top' \in Nat
      /\ file # 0 => rings[file].last = top
  BY <1>1, Bounds_Nat DEF FileInductive, FileTypeOK
<1>4. \A i \in 1..Len(rings) : rings[i].last \in Nat /\ rings'[i].last \in Nat
  <2>1. \A i \in 1..Len(rings') : rings'[i] \in Ring
    BY <1>1 DEF FileInductive, FileTypeOK
  <2>2. \A i \in 1..Len(rings) : i \in 1..Len(rings')
    BY <1>1, <1>3 DEF FileForward
  <2> QED BY <1>1, <2>1, <2>2, Ring_Fine, Bounds_Nat DEF Ring
<1>5. ASSUME NEW w \in Waiters
      PROVE  /\ wait'[w] \in WaitRecord /\ WaitFine(wait[w])'
             /\ wait'[w].pc = wait[w].pc /\ wait'[w].caller = wait[w].caller
  <2>1. PICK x \in WaitRecord : x = wait[w] /\ WaitFine(x)
    BY DEF PollInductive, WaitsFine
  <2>2. PICK owed \in BOOLEAN : owed = (x.owed /\ file' # 0)
    OBVIOUS
  <2>3. PICK y \in WaitRecord : y = [x EXCEPT !.owed = owed]
    BY DEF WaitRecord
  <2>4. wait'[w] = y
    BY <1>2, <2>1, <2>2, <2>3
  <2>5. /\ y.pc = x.pc /\ y.caller = x.caller /\ y.since = x.since /\ y.last = x.last /\ y.found = x.found
        /\ y.owed = owed
    BY <2>3 DEF WaitRecord
  <2>n. y.since \in Nat /\ y.last \in LastStamps
    BY Since_Nat
  <2>6. owed = TRUE => x.owed = TRUE /\ file' # 0
    BY <2>1, <2>2 DEF WaitRecord
  <2>7. y.owed = TRUE => y.pc \in {"stamp", "read"} /\ file' # 0 /\ rings'[file'].last > y.since
    <3>1. owed = TRUE => file # 0 /\ rings[file].last > x.since /\ x.pc \in {"stamp", "read"} /\ file' # 0
      BY <2>1, <2>6 DEF WaitFine, HasPast
    <3>2. file' # 0 => rings'[file'].last = top' /\ top <= top'
      BY <1>1 DEF FileForward
    <3>3. ASSUME owed = TRUE PROVE rings'[file'].last > y.since
      <4>1. file # 0 /\ rings[file].last > x.since /\ file' # 0
        BY <3>1, <3>3
      <4>2. top > x.since /\ rings'[file'].last = top' /\ top <= top'
        BY <1>3, <3>2, <4>1
      <4>3. x.since = y.since
        BY <2>5
      <4> QED BY <1>3, <2>n, <4>2, <4>3
    <3> QED BY <2>5, <3>1, <3>3
  <2>8. y.last \in RoomStamps => y.last[1] \in 1..Len(rings) /\ y.last[1] \in Nat /\ y.last[2] \in Nat
    BY <1>3, <2>1, <2>5, <2>n DEF WaitFine, RoomStamps
  <2>9. y.last \in RoomStamps => y.last[1] \in 1..Len(rings') /\ y.last[2] <= rings'[y.last[1]].last
    <3> SUFFICES ASSUME y.last \in RoomStamps
                 PROVE  y.last[1] \in 1..Len(rings') /\ y.last[2] <= rings'[y.last[1]].last
      OBVIOUS
    <3>1. PICK i \in 1..Len(rings) : i = y.last[1]
      BY <2>8
    <3>2. y.last[2] <= rings[i].last
      BY <2>1, <2>5, <3>1 DEF WaitFine
    <3>3. rings[i].last <= rings'[i].last /\ i \in 1..Len(rings')
      BY <1>1, <1>3 DEF FileForward
    <3> QED BY <1>4, <2>8, <3>1, <3>2, <3>3
  <2>10. y.last \in RoomStamps /\ y.pc # "read" => y.last[2] <= y.since \/ y.last[1] # file'
    <3>1. y.last \in RoomStamps /\ y.pc # "read" => y.last[2] <= y.since \/ y.last[1] # file
      BY <2>1, <2>5 DEF WaitFine
    <3>2. file' \in {file, 0, Len(rings) + 1}
      BY <1>1 DEF FileForward
    <3> QED BY <1>3, <2>8, <3>1, <3>2
  <2>11. WaitFine(y)'
    BY <2>1, <2>5, <2>7, <2>9, <2>10 DEF WaitFine, HasPast, Holds
  <2> QED BY <2>1, <2>4, <2>5, <2>11 DEF WaitFine, HasPast, Holds
<1>6. WaitsFine'
  <2>1. wait' \in [Waiters -> WaitRecord]
    BY <1>2, <1>5
  <2> QED BY <1>5, <2>1 DEF WaitsFine
<1>7. Held' = Held
  BY <1>5 DEF Held
<1>8. \A c \in Callers : HeldBy(c)' = HeldBy(c)
  BY <1>5, <1>7 DEF HeldBy, Held
<1>9. SlotsFine'
  BY <1>2, <1>7, <1>8 DEF PollInductive, SlotsFine, SlotsUnchanged
<1> QED BY <1>1, <1>6, <1>9 DEF PollInductive

----------------------------------------------------------------------------
\* The steps of a handler.
LEMMA FirstRead_Step ==
  ASSUME PollInductive, NEW w \in Waiters, NEW c \in Callers, FirstRead(w, c)
  PROVE  PollInductive'
<1>0. FileInductive /\ ~Holds(wait[w]) /\ SlotsUnchanged /\ UNCHANGED fileVars
  BY DEF PollInductive, FirstRead, Holds
<1>1. PICK since \in 0..(MaxTop - 1) :
         IF HasPast(since) THEN PollAnswer(w, TRUE, FALSE)
         ELSE wait' = [wait EXCEPT ![w] = [PollIdle EXCEPT !.pc = "slot", !.caller = c,
                                              !.since = since, !.left = MaxWait]]
  BY DEF FirstRead
<1>2. CASE HasPast(since)
  <2>1. PICK x \in WaitRecord : x = [PollIdle EXCEPT !.pc = "reply", !.found = TRUE, !.owed = FALSE]
    BY <1>0, Answers_Fine
  <2>2. wait' = [wait EXCEPT ![w] = x]
    BY <1>1, <1>2, <2>1 DEF PollAnswer
  <2>3. WaitFine(x) /\ ~Holds(x)
    BY <1>0, <2>1, Answers_Fine
  <2> QED BY <1>0, <2>2, <2>3, Keeps_Slot
<1>3. CASE ~HasPast(since)
  <2>1. PICK s \in 0..MaxTop, left \in 0..MaxWait : s = since /\ left = MaxWait
    BY Bounds_Nat, Poll_Bounds
  <2>2. PICK r \in WaitRecord : r = PollIdle
    BY <1>0, Wait_Idle
  <2>3. r.last = NoStamp /\ r.found = FALSE /\ r.owed = FALSE
    BY <2>2 DEF PollIdle
  <2>4. PICK x \in WaitRecord : x = [r EXCEPT !.pc = "slot", !.caller = c, !.since = s, !.left = left]
    BY DEF WaitRecord
  <2>5. x.pc = "slot" /\ x.caller = c /\ x.last = NoStamp /\ x.found = FALSE /\ x.owed = FALSE
    BY <2>3, <2>4 DEF WaitRecord
  <2>6. wait' = [wait EXCEPT ![w] = x]
    BY <1>1, <1>3, <2>1, <2>2, <2>4
  <2>7. WaitFine(x) /\ ~Holds(x)
    BY <2>5, Stamps_Apart DEF WaitFine, Holds
  <2> QED BY <1>0, <2>6, <2>7, Keeps_Slot
<1> QED BY <1>2, <1>3

LEMMA TakeSlot_Step ==
  ASSUME PollInductive, NEW w \in Waiters, TakeSlot(w)
  PROVE  PollInductive'
<1>1. PICK x \in WaitRecord : x = wait[w]
  BY DEF PollInductive, WaitsFine
<1>2. /\ FileInductive /\ x.pc = "slot" /\ WaitFine(x) /\ ~Holds(wait[w]) /\ UNCHANGED fileVars
      /\ x.caller \in Callers
  BY <1>1 DEF PollInductive, WaitsFine, WaitFine, TakeSlot, Holds
<1>3. CASE NoSlot(x.caller)
  <2>1. PICK y \in WaitRecord : y = [PollIdle EXCEPT !.pc = "reply", !.found = FALSE, !.owed = FALSE]
    BY <1>2, Answers_Fine
  <2>2. wait' = [wait EXCEPT ![w] = y] /\ SlotsUnchanged
    BY <1>1, <1>3, <2>1 DEF TakeSlot, PollAnswer
  <2>3. WaitFine(y) /\ ~Holds(y)
    BY <1>2, <2>1, Answers_Fine
  <2> QED BY <1>2, <2>2, <2>3, Keeps_Slot
<1>4. CASE ~NoSlot(x.caller)
  <2>1. PICK y \in WaitRecord : y = [x EXCEPT !.pc = "loop"]
    BY DEF WaitRecord
  <2>2. /\ y.pc = "loop" /\ y.caller = x.caller /\ y.since = x.since /\ y.last = x.last /\ y.owed = x.owed
        /\ y.found = x.found
    BY <2>1 DEF WaitRecord
  <2>3. wait' = [wait EXCEPT ![w] = y] /\ total' = total + 1 /\ byCaller' = [byCaller EXCEPT ![y.caller] = @ + 1]
    BY <1>1, <1>4, <2>1, <2>2 DEF TakeSlot, PollGoto
  <2>4. WaitFine(y) /\ Holds(y)
    BY <1>2, <2>2 DEF WaitFine, Holds
  <2>5. total < MaxWaiters /\ byCaller[y.caller] < MaxPerCaller
    <3>1. ~(total >= MaxWaiters) /\ ~(byCaller[y.caller] >= MaxPerCaller)
      BY <1>4, <2>2 DEF NoSlot
    <3>2. total \in Nat /\ byCaller[y.caller] \in Nat
      BY <1>2, <2>2, FS_CardinalityType DEF PollInductive, SlotsFine
    <3> QED BY <3>1, <3>2, Poll_Bounds
  <2> QED BY <1>2, <2>2, <2>3, <2>4, <2>5, Takes_Slot
<1> QED BY <1>3, <1>4

LEMMA Sleep_Step ==
  ASSUME PollInductive, NEW w \in Waiters, Sleep(w)
  PROVE  PollInductive'
<1>1. PICK x \in WaitRecord : x = wait[w]
  BY DEF PollInductive, WaitsFine
<1>2. /\ FileInductive /\ x.pc = "loop" /\ WaitFine(x) /\ Holds(wait[w]) /\ UNCHANGED fileVars
      /\ x.caller \in Callers /\ x.owed = FALSE /\ x.left \in 0..MaxWait
  <2>1. x.pc = "loop" /\ WaitFine(x) /\ x.owed \in BOOLEAN
    BY <1>1 DEF PollInductive, WaitsFine, Sleep, WaitRecord
  <2>2. x.owed # TRUE /\ x.caller \in Callers
    BY <2>1 DEF WaitFine, Holds
  <2> QED BY <1>1, <2>1, <2>2 DEF PollInductive, Sleep, WaitRecord, Holds
<1>3. CASE x.left = 0
  <2>1. PICK y \in WaitRecord : y = [PollIdle EXCEPT !.pc = "reply", !.found = FALSE, !.owed = FALSE]
    BY <1>2, Answers_Fine
  <2>2. wait' = [wait EXCEPT ![w] = y] /\ ReleaseSlot(w)
    BY <1>1, <1>2, <1>3, <2>1 DEF Sleep, PollAnswer
  <2>3. WaitFine(y) /\ ~Holds(y)
    BY <1>2, <2>1, Answers_Fine
  <2> QED BY <1>2, <2>2, <2>3, Gives_Slot
<1>4. CASE x.left # 0
  <2>1. PICK left \in 0..(x.left - 1) :
           wait' = [wait EXCEPT ![w].pc = "wake", ![w].left = left, ![w].owed = FALSE]
    BY <1>1, <1>4 DEF Sleep
  <2>2. PICK l \in 0..MaxWait : l = left
    BY <1>2, Poll_Bounds
  <2>3. PICK y \in WaitRecord : y = [x EXCEPT !.pc = "wake", !.left = l, !.owed = FALSE]
    BY DEF WaitRecord
  <2>4. /\ y.pc = "wake" /\ y.caller = x.caller /\ y.since = x.since /\ y.last = x.last /\ y.owed = FALSE
        /\ y.found = x.found
    BY <2>3 DEF WaitRecord
  <2>5. wait' = [wait EXCEPT ![w] = y] /\ SlotsUnchanged
    BY <1>1, <1>4, <2>1, <2>2, <2>3 DEF Sleep
  <2>6. WaitFine(y) /\ Holds(y)
    BY <1>2, <2>4 DEF WaitFine, Holds
  <2> QED BY <1>1, <1>2, <2>4, <2>5, <2>6, Keeps_Slot
<1> QED BY <1>3, <1>4

LEMMA Wake_Step ==
  ASSUME PollInductive, NEW w \in Waiters, Wake(w)
  PROVE  PollInductive'
<1>1. PICK x \in WaitRecord : x = wait[w]
  BY DEF PollInductive, WaitsFine
<1>2. FileInductive /\ x.pc = "wake" /\ WaitFine(x) /\ Holds(wait[w]) /\ UNCHANGED fileVars /\ SlotsUnchanged
  BY <1>1 DEF PollInductive, WaitsFine, Wake, Holds
<1>3. PICK owed \in BOOLEAN : owed = HasPast(x.since)
  BY DEF HasPast
<1>4. PICK y \in WaitRecord : y = [x EXCEPT !.pc = "stamp", !.owed = owed]
  BY DEF WaitRecord
<1>5. /\ y.pc = "stamp" /\ y.caller = x.caller /\ y.since = x.since /\ y.last = x.last /\ y.owed = owed
      /\ y.found = x.found
  BY <1>4 DEF WaitRecord
<1>6. wait' = [wait EXCEPT ![w] = y]
  BY <1>1, <1>3, <1>4 DEF Wake
<1>7. Holds(y)
  BY <1>5 DEF Holds
<1>8. WaitFine(y)
  <2>1. y.owed = TRUE => HasPast(y.since)
    BY <1>3, <1>5
  <2> QED BY <1>2, <1>5, <1>7, <2>1 DEF WaitFine, Holds
<1> QED BY <1>1, <1>2, <1>5, <1>6, <1>7, <1>8, Keeps_Slot

LEMMA TakeStamp_Step ==
  ASSUME PollInductive, NEW w \in Waiters, TakeStamp(w)
  PROVE  PollInductive'
<1>1. PICK x \in WaitRecord : x = wait[w]
  BY DEF PollInductive, WaitsFine
<1>2. /\ FileInductive /\ x.pc = "stamp" /\ WaitFine(x) /\ Holds(wait[w]) /\ UNCHANGED fileVars /\ SlotsUnchanged
      /\ x.caller \in Callers
  BY <1>1 DEF PollInductive, WaitsFine, WaitFine, TakeStamp, Holds
<1>3. PICK last \in LastStamps : last = Stamp
  BY <1>2, Stamp_Fine
<1>4. last \in RoomStamps => last[1] \in 1..Len(rings) /\ last[2] <= rings[last[1]].last
  <2>1. last \in RoomStamps => file \in 1..Len(rings) /\ last[1] = file /\ last[2] = rings[file].last
    BY <1>2, <1>3, Stamp_Fine
  <2> QED BY <1>2, <2>1, Ring_Fine
<1>5. CASE last = x.last
  <2>1. PICK y \in WaitRecord : y = [x EXCEPT !.pc = "loop", !.last = last]
    BY DEF WaitRecord
  <2>2. /\ y.pc = "loop" /\ y.caller = x.caller /\ y.since = x.since /\ y.last = x.last /\ y.owed = x.owed
        /\ y.found = x.found
    BY <1>5, <2>1 DEF WaitRecord
  <2>3. wait' = [wait EXCEPT ![w] = y]
    BY <1>1, <1>3, <1>5, <2>1 DEF TakeStamp
  <2>4. Holds(y)
    BY <2>2 DEF Holds
  <2>5. x.owed # TRUE
    <3> SUFFICES ASSUME x.owed = TRUE PROVE FALSE
      OBVIOUS
    <3>1. file # 0 /\ rings[file].last > x.since
      BY <1>2 DEF WaitFine, HasPast
    <3>2. last \in RoomStamps /\ last[1] = file /\ last[2] = rings[file].last /\ file \in 1..Len(rings)
      BY <1>2, <1>3, <3>1, Stamp_Fine
    <3>3. last[2] <= x.since
      BY <1>2, <1>5, <3>2 DEF WaitFine
    <3>4. rings[file].last \in Nat /\ x.since \in Nat
      BY <1>2, <3>2, Ring_Fine, Since_Nat
    <3> QED BY <3>1, <3>2, <3>3, <3>4
  <2>6. WaitFine(y)
    BY <1>2, <2>2, <2>5 DEF WaitFine, Holds
  <2> QED BY <1>1, <1>2, <2>2, <2>3, <2>4, <2>6, Keeps_Slot
<1>6. CASE last # x.last
  <2>1. PICK y \in WaitRecord : y = [x EXCEPT !.pc = "read", !.last = last]
    BY DEF WaitRecord
  <2>2. /\ y.pc = "read" /\ y.caller = x.caller /\ y.since = x.since /\ y.last = last /\ y.owed = x.owed
        /\ y.found = x.found
    BY <2>1 DEF WaitRecord
  <2>3. wait' = [wait EXCEPT ![w] = y]
    BY <1>1, <1>3, <1>6, <2>1 DEF TakeStamp
  <2>4. Holds(y)
    BY <2>2 DEF Holds
  <2>5. WaitFine(y)
    BY <1>2, <1>4, <2>2 DEF WaitFine, Holds
  <2> QED BY <1>1, <1>2, <2>2, <2>3, <2>4, <2>5, Keeps_Slot
<1> QED BY <1>5, <1>6

LEMMA TickRead_Step ==
  ASSUME PollInductive, NEW w \in Waiters, TickRead(w)
  PROVE  PollInductive'
<1>1. PICK x \in WaitRecord : x = wait[w]
  BY DEF PollInductive, WaitsFine
<1>2. /\ FileInductive /\ x.pc = "read" /\ WaitFine(x) /\ Holds(wait[w]) /\ UNCHANGED fileVars
      /\ x.caller \in Callers
  BY <1>1 DEF PollInductive, WaitsFine, WaitFine, TickRead, Holds
<1>3. CASE HasPast(x.since)
  <2>1. PICK y \in WaitRecord : y = [PollIdle EXCEPT !.pc = "reply", !.found = TRUE, !.owed = FALSE]
    BY <1>2, Answers_Fine
  <2>2. wait' = [wait EXCEPT ![w] = y] /\ ReleaseSlot(w)
    BY <1>1, <1>3, <2>1 DEF TickRead, PollAnswer
  <2>3. WaitFine(y) /\ ~Holds(y)
    BY <1>2, <2>1, Answers_Fine
  <2> QED BY <1>2, <2>2, <2>3, Gives_Slot
<1>4. CASE ~HasPast(x.since)
  <2>1. PICK y \in WaitRecord : y = [x EXCEPT !.pc = "loop"]
    BY DEF WaitRecord
  <2>2. /\ y.pc = "loop" /\ y.caller = x.caller /\ y.since = x.since /\ y.last = x.last /\ y.owed = x.owed
        /\ y.found = x.found
    BY <2>1 DEF WaitRecord
  <2>3. wait' = [wait EXCEPT ![w] = y] /\ SlotsUnchanged
    BY <1>1, <1>4, <2>1 DEF TickRead, PollGoto
  <2>4. Holds(y)
    BY <2>2 DEF Holds
  <2>5. x.owed # TRUE
    BY <1>2, <1>4 DEF WaitFine
  <2>6. y.last \in RoomStamps => y.last[2] <= y.since \/ y.last[1] # file
    <3> SUFFICES ASSUME x.last \in RoomStamps, x.last[1] = file PROVE x.last[2] <= x.since
      BY <2>2
    <3>1. file \in 1..Len(rings) /\ x.last[2] <= rings[file].last /\ x.last[2] \in Nat
      BY <1>2 DEF WaitFine, RoomStamps
    <3>2. rings[file].last \in Nat /\ x.since \in Nat /\ file # 0
      BY <1>2, <3>1, Ring_Fine, Since_Nat
    <3>3. ~(rings[file].last > x.since)
      BY <1>4, <3>2 DEF HasPast
    <3> QED BY <3>1, <3>2, <3>3
  <2>7. WaitFine(y)
    BY <1>2, <2>2, <2>5, <2>6 DEF WaitFine, Holds
  <2> QED BY <1>1, <1>2, <2>2, <2>3, <2>4, <2>7, Keeps_Slot
<1> QED BY <1>3, <1>4

LEMMA Leaves_Step ==
  ASSUME PollInductive, NEW w \in Waiters, Abandon(w) \/ PollReply(w)
  PROVE  PollInductive'
<1>1. PICK x \in WaitRecord : x = PollIdle
  BY Wait_Idle DEF PollInductive
<1>2. WaitFine(x) /\ ~Holds(x)
  BY <1>1, Wait_Idle DEF PollInductive
<1>3. CASE Abandon(w)
  <2>1. wait' = [wait EXCEPT ![w] = x] /\ ReleaseSlot(w) /\ UNCHANGED fileVars /\ Holds(wait[w])
    BY <1>1, <1>3 DEF Abandon, Held, Holds
  <2> QED BY <1>2, <2>1, Gives_Slot
<1>4. CASE PollReply(w)
  <2>1. wait' = [wait EXCEPT ![w] = x] /\ SlotsUnchanged /\ UNCHANGED fileVars /\ ~Holds(wait[w])
    BY <1>1, <1>4 DEF PollReply, Holds
  <2> QED BY <1>2, <2>1, Keeps_Slot
<1> QED BY <1>3, <1>4

LEMMA PollStep_Fine ==
  ASSUME PollInductive, [PollNext]_pollVars
  PROVE  PollInductive'
<1>1. ASSUME NEW w \in Waiters, PollStep(w) \/ Abandon(w) PROVE PollInductive'
  BY <1>1, TakeSlot_Step, Sleep_Step, Wake_Step, TakeStamp_Step, TickRead_Step, Leaves_Step DEF PollStep
<1>2. ASSUME NEW w \in Waiters, NEW c \in Callers, FirstRead(w, c) PROVE PollInductive'
  BY <1>2, FirstRead_Step
<1>3. CASE FileMoves
  BY <1>3, Poll_Behind
<1>4. CASE UNCHANGED pollVars
  <2>1. UNCHANGED <<file, rings, top, births, generation, total, byCaller, wait>>
    BY <1>4 DEF pollVars, fileVars
  <2>2. FileInductive'
    BY <2>1 DEF PollInductive, FileInductive, FileTypeOK
  <2>3. WaitsFine'
    BY <2>1 DEF PollInductive, WaitsFine, WaitFine, HasPast, Holds
  <2>4. SlotsFine'
    BY <2>1 DEF PollInductive, SlotsFine, Held, HeldBy
  <2> QED BY <2>2, <2>3, <2>4 DEF PollInductive
<1> QED BY <1>1, <1>2, <1>3, <1>4 DEF PollNext

LEMMA PollInductive_Holds == PollSpec => []PollInductive
<1>1. PollInductive /\ [PollNext]_pollVars => PollInductive'
  BY PollStep_Fine
<1> QED BY PollStarts, <1>1, PTL DEF PollSpec

\* The slots are those of the handlers that wait, however these end, and none is
\* given past the two caps: for any handlers, callers and caps (`_waiter_slot`).
THEOREM SlotsComeBack == PollSpec => []PollInv
<1>1. PollInductive => PollInv
  <2> SUFFICES ASSUME PollInductive PROVE PollInv
    OBVIOUS
  <2>a. SlotsFine
    BY DEF PollInductive
  <2>b. \A c \in Callers : HeldBy(c) = {w \in Held : wait[w].caller = c}
    BY DEF HeldBy
  <2>c. total = Cardinality(Held) /\ total <= MaxWaiters
    BY <2>a DEF SlotsFine
  <2>d. \A c \in Callers :
            /\ byCaller[c] = Cardinality({w \in Held : wait[w].caller = c})
            /\ byCaller[c] <= MaxPerCaller
    <3>1. TAKE c \in Callers
    <3>2. byCaller[c] = Cardinality(HeldBy(c)) /\ byCaller[c] <= MaxPerCaller
      BY <2>a DEF SlotsFine
    <3> QED
      BY <2>b, <3>2
  <2>1. SlotsExact
    BY ONLY <2>c, <2>d DEF SlotsExact
  <2>2. total \in Nat
    BY FS_CardinalityType DEF PollInductive, SlotsFine
  <2>3. ASSUME NEW w \in Waiters
        PROVE  /\ wait[w].pc \in {"idle", "slot", "loop", "wake", "stamp", "read", "reply"}
               /\ wait[w].since \in 0..MaxTop /\ wait[w].left \in 0..MaxWait
               /\ wait[w].found => wait[w].pc = "reply"
    <3>1. wait[w] \in WaitRecord /\ WaitFine(wait[w])
      BY DEF PollInductive, WaitsFine
    <3> QED BY <3>1 DEF WaitRecord, WaitFine
  <2>4. PollTypeOK
    BY <2>2, <2>3 DEF PollTypeOK, PollInductive, FileInductive, SlotsFine
  <2> QED BY <2>1, <2>4 DEF PollInv
<1> QED BY <1>1, PollInductive_Holds, PTL

\* A stamp tells every append, compaction and create since the last read, so that
\* a poll that is answered empty had nothing to find when its last tick began
\* (`_await_messages`, `room_stamp`).
THEOREM StampsTellAll == PollSpec => []EmptyMissedNothing
<1>1. PollInductive => EmptyMissedNothing
  <2> SUFFICES ASSUME PollInductive, NEW w \in Waiters, wait[w].pc = "reply" PROVE ~wait[w].owed
    BY DEF EmptyMissedNothing
  <2>1. wait[w].owed \in BOOLEAN /\ WaitFine(wait[w])
    BY DEF PollInductive, WaitsFine, WaitRecord
  <2> QED BY <2>1 DEF WaitFine
<1> QED BY <1>1, PollInductive_Holds, PTL
----------------------------------------------------------------------------
(***************************************************************************)
(* The parts side by side: a step of one of them leaves the others alone.  *)
(***************************************************************************)

LEMMA ReadIsEach == ReadSpec => EdgeSpec /\ StatsSpec /\ BudgetSpec
<1>1. ReadInit => EdgeInit /\ StatsInit /\ BudgetInit
  BY DEF ReadInit
<1>2. [ReadNext]_readVars => [EdgeNext]_edgeVars /\ [StatsNext]_statsVars /\ [BudgetNext]_budgetVars
  BY DEF ReadNext, readVars
<1> QED BY <1>1, <1>2, PTL DEF ReadSpec, EdgeSpec, StatsSpec, BudgetSpec

\* Nothing that callers share goes back, whichever of the ways to read is taken,
\* and no reply from a shared cache carries a balance of somebody else (`fill`,
\* `_refresh_stats`, `rate_footer`).
THEOREM SharedMovesOn == ReadSpec => SharedForward
BY ReadIsEach, CopiesMoveOn, ViewsMoveOn, FootersAreOwn DEF SharedForward
=============================================================================
