----------------------------- MODULE ToolCalls -----------------------------
(***************************************************************************)
(* The MCP server's tools over the network (mcp/src/technocore_mcp): the   *)
(* signed ones, whose nonce each process mints from its clock, and whose    *)
(* requests and answers may be late, lost or out of order; the long poll,  *)
(* whose read timeout must outlast the service's hold; and the listing     *)
(* that is cut short on this side.  A tool sends its request once.         *)
(*                                                                         *)
(* The service is here what a nonce is compared with: RoomLog and Ownership *)
(* have it in detail.  All signed calls are about one room.                 *)
(***************************************************************************)
EXTENDS Integers, Sequences, FiniteSets

CONSTANTS
    Agents,         \* signing keys, one process each
    Tools,          \* the signed calls of a behaviour
    NoAgent,
    MaxMillis,      \* bound of the clocks
    MaxLives,       \* bound of the restarts
    WaitsAsked,     \* `seconds` of wait_for_message
    MaxHold,        \* MAX_HOLD
    Timeout,        \* TIMEOUT
    Ceiling,        \* CHAT_MAX_WAIT of the instance
    MaxLines,       \* bound of a listing's lines
    Limits          \* `limit` of list_notes, after its default and its ceiling

ASSUME ToolAssumption ==
    /\ NoAgent \notin Agents
    /\ {MaxMillis, MaxLives, MaxHold, Timeout, Ceiling, MaxLines} \subseteq Nat
    /\ WaitsAsked \subseteq Int /\ Limits \subseteq Nat \ {0}
    /\ Ceiling <= MaxHold /\ Timeout > 0

VARIABLES
    call,       \* the signed calls
    millis,     \* the agents' clocks
    lastNonce,  \* signing._last_nonce
    life,       \* how often the process was started
    sayNonce,   \* the newest nonce of each key on record in the room
    burnt,      \* the room's ownership counter
    owner,      \* room-owners
    taken,      \* history: the calls the service accepted
    poll,       \* a long poll
    listing     \* a namespace listing and what the tool made of it

callVars == <<call, millis, lastNonce, life, sayNonce, burnt, owner, taken>>
toolVars == <<callVars, poll, listing>>

Lanes == {"say", "claim", "allow"}
Unsent == [agent |-> NoAgent, lane |-> "say", nonce |-> 0, life |-> 0, order |-> 0, again |-> FALSE,
           wire |-> "none", told |-> "none"]

ToolInit ==
    /\ call = [c \in Tools |-> Unsent]
    /\ millis = [a \in Agents |-> 1] /\ lastNonce = [a \in Agents |-> 0]
    /\ life = [a \in Agents |-> 1]
    /\ sayNonce = [a \in Agents |-> 0] /\ burnt = 0 /\ owner = NoAgent
    /\ taken = {}
    /\ poll = [pc |-> "idle", asked |-> 0, elapsed |-> 0]
    /\ listing = [body |-> <<>>, limit |-> 1]

ServiceUnchanged == UNCHANGED <<sayNonce, burnt, owner, taken>>
OthersUnchanged == UNCHANGED <<poll, listing>>

---------------------------------------------------------------------------
(* say_signed, claim_room and set_room_allow, on the agent's side.         *)

\* next_nonce: a millisecond clock with a monotonic bump.
NextNonce(a) == IF millis[a] > lastNonce[a] THEN millis[a] ELSE lastNonce[a] + 1

Started == {c \in Tools : call[c].wire # "none"}

Send(c, a, lane, nonce, again) ==
    /\ c \notin Started
    /\ lastNonce' = [lastNonce EXCEPT ![a] = NextNonce(a)]
    /\ call' = [call EXCEPT ![c] = [agent |-> a, lane |-> lane, nonce |-> nonce, life |-> life[a],
                                    order |-> Cardinality(Started) + 1, again |-> again,
                                    wire |-> "flying", told |-> "waiting"]]
    /\ UNCHANGED <<millis, life>> /\ ServiceUnchanged /\ OthersUnchanged

\* The configured key signs.
CallTool(c, a) == \E lane \in Lanes : Send(c, a, lane, NextNonce(a), FALSE)

\* A signature made elsewhere is passed in, and once more when no answer came.
\* A nonce is minted all the same.
CallAgain(c, d) ==
    /\ call[d].told = "unreachable"
    /\ Send(c, call[d].agent, call[d].lane, call[d].nonce, TRUE)

\* No HTTP answer: refused, reset, or the read timeout.  The request may arrive
\* yet, or never.
TellUnreachable(c) ==
    /\ call[c].wire = "flying" /\ call[c].told = "waiting"
    /\ call' = [call EXCEPT ![c].told = "unreachable"]
    /\ UNCHANGED <<millis, lastNonce, life>> /\ ServiceUnchanged /\ OthersUnchanged

AgentTick(a) ==
    /\ \A b \in Agents : millis[b] < MaxMillis
    /\ millis' = [millis EXCEPT ![a] = @ + 1]
    /\ UNCHANGED <<call, lastNonce, life>> /\ ServiceUnchanged /\ OthersUnchanged

\* Nothing is persisted, and the clock may have been set back.
Restart(a) ==
    /\ \A b \in Agents : life[b] < MaxLives
    /\ life' = [life EXCEPT ![a] = @ + 1]
    /\ lastNonce' = [lastNonce EXCEPT ![a] = 0]
    /\ \E ms \in 1..millis[a] : millis' = [millis EXCEPT ![a] = ms]
    /\ call' = [c \in Tools |-> IF call[c].agent = a /\ call[c].told = "waiting"
                                    THEN [call[c] EXCEPT !.told = "unreachable"] ELSE call[c]]
    /\ ServiceUnchanged /\ OthersUnchanged

---------------------------------------------------------------------------
(* The service.                                                            *)

\* What a nonce must exceed: the key's last in the room, or the room's counter.
Bar(c) == IF call[c].lane = "say" THEN sayNonce[call[c].agent] ELSE burnt

\* Bug: a nonce that was used is taken again.
Exceeds_OrEqual(c) == call[c].nonce >= Bar(c)

Exceeds(c) == call[c].nonce > Bar(c)

\* First claimant wins; the list is the owner's.
Entitled(c) ==
    CASE call[c].lane = "say"   -> TRUE
      [] call[c].lane = "claim" -> owner = NoAgent
      [] call[c].lane = "allow" -> owner = call[c].agent

BurntBy(c) == call[c].nonce

Accept(c) ==
    /\ taken' = taken \cup {c}
    /\ IF call[c].lane = "say"
       THEN sayNonce' = [sayNonce EXCEPT ![call[c].agent] = call[c].nonce] /\ UNCHANGED <<burnt, owner>>
       ELSE burnt' = BurntBy(c) /\ owner' = call[c].agent /\ UNCHANGED sayNonce

Outcome(c) == IF ~Entitled(c) THEN "denied" ELSE IF Exceeds(c) THEN "ok" ELSE "nonce"

\* An answer, below 400 or not, is what the tool tells its agent, unless it is
\* lost or nobody waits for it any more.
Arrive(c) ==
    /\ call[c].wire = "flying"
    /\ \E told \in IF call[c].told = "waiting" THEN {Outcome(c), "unreachable"} ELSE {call[c].told} :
          call' = [call EXCEPT ![c].wire = Outcome(c), ![c].told = told]
    /\ IF Outcome(c) = "ok" THEN Accept(c) ELSE ServiceUnchanged
    /\ UNCHANGED <<millis, lastNonce, life>> /\ OthersUnchanged

CallNext ==
    \/ \E c \in Tools : Arrive(c) \/ TellUnreachable(c)
    \/ \E c \in Tools, a \in Agents : CallTool(c, a)
    \/ \E c, d \in Tools : CallAgain(c, d)
    \/ \E a \in Agents : AgentTick(a) \/ Restart(a)

---------------------------------------------------------------------------
(* wait_for_message: a second is a step of the clock.                      *)

LeastOf(m, n) == IF m <= n THEN m ELSE n
AtLeastZero(n) == IF n > 0 THEN n ELSE 0

\* _seconds: the instance clamps.
Held(asked) == LeastOf(AtLeastZero(asked), Ceiling)

Deadline(asked) == LeastOf(AtLeastZero(asked), MaxHold) + Timeout

BeginWait ==
    /\ poll.pc = "idle"
    /\ \E s \in WaitsAsked : poll' = [pc |-> "held", asked |-> s, elapsed |-> 0]
    /\ UNCHANGED <<callVars, listing>>

\* The service answers no later than its hold ends.
WaitSecond ==
    /\ poll.pc = "held"
    /\ poll.elapsed < Held(poll.asked)
    /\ poll' = [poll EXCEPT !.elapsed = @ + 1,
                            !.pc = IF poll.elapsed + 1 >= Deadline(poll.asked) THEN "cut" ELSE "held"]
    /\ UNCHANGED <<callVars, listing>>

EndWait ==
    /\ poll.pc \in {"held", "cut"}
    /\ poll' = [poll EXCEPT !.pc = "idle"]
    /\ UNCHANGED <<callVars, listing>>

---------------------------------------------------------------------------
(* list_notes.                                                             *)

KeyLines(body) == {i \in DOMAIN body : body[i] = "key"}

Stays(body, i, cut) == i < cut \/ body[i] # "key"

\* _clamp_notes, as the lines of the body that stay.
Clamped(body, limit) ==
    IF Cardinality(KeyLines(body)) <= limit THEN DOMAIN body
    ELSE LET cut == CHOOSE i \in KeyLines(body) : Cardinality({j \in KeyLines(body) : j < i}) = limit
         IN  {i \in DOMAIN body : Stays(body, i, cut)}

ListNotes ==
    /\ \E n \in 0..MaxLines : \E body \in [1..n -> {"key", "frame"}] : \E limit \in Limits :
          listing' = [body |-> body, limit |-> limit]
    /\ UNCHANGED <<callVars, poll>>

HoldNext == BeginWait \/ WaitSecond \/ EndWait
ToolNext == CallNext \/ HoldNext \/ ListNotes
ToolSpec == ToolInit /\ [][ToolNext]_toolVars

---------------------------------------------------------------------------
\* Properties.

ToolTypeOK ==
    /\ \A c \in Tools : /\ call[c].wire \in {"none", "flying", "ok", "nonce", "denied"}
                        /\ call[c].told \in {"none", "waiting", "unreachable", call[c].wire}
                        /\ call[c].wire = "ok" <=> c \in taken
                        /\ c \in taken /\ call[c].lane # "say" => burnt >= call[c].nonce
    /\ lastNonce \in [Agents -> Nat] /\ sayNonce \in [Agents -> Nat]
    /\ burnt > 0 <=> owner # NoAgent
    /\ poll.pc \in {"idle", "held", "cut"}

\* A signature puts one message on record, however often it is sent and in
\* whatever order the copies arrive: a retry of what was already done is refused.
OnceOnRecord ==
    \A c, d \in taken :
       /\ call[c].lane = call[d].lane /\ call[c].agent = call[d].agent /\ call[c].nonce = call[d].nonce
       => c = d

\* An agent that makes one call after another is not refused for its nonce,
\* whatever its clock does while the process lives: the call that overtook a
\* refused one was made after it, or before the process was last started, or
\* the refused one was a signature sent again (`next_nonce`).
RefusedIfOvertaken ==
    \A c \in Tools : call[c].wire = "nonce" /\ ~call[c].again =>
       \E d \in taken : /\ call[d].agent = call[c].agent /\ call[d].nonce >= call[c].nonce
                        /\ call[d].order > call[c].order \/ call[d].life < call[c].life \/ call[d].again

\* A long poll is answered before the tool stops listening, whatever was asked
\* for, on an instance that holds no longer than MAX_HOLD (`wait_for_message`).
HoldEndsFirst == poll.pc # "cut"

\* A listing that is cut short keeps every line that is not a key in its place
\* among the keys that stay, which are the first ones (`_clamp_notes`).
ClampKeepsFrame ==
    LET body == listing.body
        kept == Clamped(body, listing.limit)
    IN  /\ DOMAIN body \ KeyLines(body) \subseteq kept
        /\ Cardinality(kept \cap KeyLines(body)) = LeastOf(listing.limit, Cardinality(KeyLines(body)))
        /\ \A i \in kept \cap KeyLines(body), j \in KeyLines(body) : j < i => j \in kept

\* What a caller of the tools may rely on: a signature counts once, its own calls
\* do not stand in each other's way, a long poll is heard out, and a listing cut
\* short is framed as the whole was.
ToolInv == ToolTypeOK /\ OnceOnRecord /\ RefusedIfOvertaken /\ HoldEndsFirst /\ ClampKeepsFrame
=============================================================================
