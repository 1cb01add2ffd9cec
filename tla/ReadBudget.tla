----------------------------- MODULE ReadBudget -----------------------------
(***************************************************************************)
(* One caller's read budget: `take` and `budget_note` of src/src/limit.py,   *)
(* the 429 of `limited`, and the copies of other callers' replies that a    *)
(* shared cache may hold (`_shareable` of src/src/app.py).  Time is counted *)
(* in ticks: a tick refills one unit, a token costs Cost of them, and a     *)
(* second is Second ticks.                                                 *)
(***************************************************************************)
EXTENDS Integers

CONSTANTS
    PerMin,         \* RATE_READ
    Cost,           \* units a token is worth
    Second,         \* ticks of a second
    EdgeSeconds     \* EDGE_CACHE_SECONDS

ASSUME BudgetAssumption ==
    /\ {PerMin, Cost, Second} \subseteq Nat \ {0} /\ EdgeSeconds \in Nat
    /\ PerMin * Cost = 60 * Second

VARIABLES
    units,      \* the bucket
    reply,      \* what the caller's last request got
    warned,     \* a footer reached the caller since it was last above the band
    muted,      \* a reply that was due one printed none
    shared      \* the reply a shared cache holds

budgetVars == <<units, reply, warned, muted, shared>>

NoFooter == -1
Burst == PerMin * Cost
NoCopy == [age |-> 0, footer |-> NoFooter, held |-> FALSE]
Refused(delay) == [status |-> "refused", footer |-> NoFooter, delay |-> delay]
Served(footer) == [status |-> "served", footer |-> footer, delay |-> 0]

BudgetTypeOK ==
    /\ units \in 0..Burst
    /\ reply \in [status : {"served", "refused"}, footer : NoFooter..PerMin - 1, delay : Nat]
    /\ warned \in BOOLEAN /\ muted \in BOOLEAN
    /\ shared \in [age : 0..EdgeSeconds * Second, footer : NoFooter..PerMin - 1, held : BOOLEAN]

AboveBand == (PerMin \div 4 + 2) * Cost

\* A caller nobody has seen yet, or one that has read down to two tokens above
\* the band.
BudgetInit ==
    /\ units \in {u \in {AboveBand, Burst} : u <= Burst} /\ warned = FALSE /\ muted = FALSE
    /\ reply = Served(NoFooter) /\ shared = NoCopy

Refilled == IF units < Burst THEN units + 1 ELSE Burst

\* age counts down: a copy is fresh while it is positive.
BudgetTick ==
    /\ units' = Refilled
    /\ shared' = IF shared.age > 1 THEN [shared EXCEPT !.age = @ - 1] ELSE NoCopy
    /\ UNCHANGED <<reply, warned, muted>>

---------------------------------------------------------------------------
(* The footer, and which replies may be shared.                            *)

Granted == units >= Cost

\* Bug: a read is charged where it is routed and again where it is answered.
Charged_Twice == units - 2 * Cost

Charged == units - Cost

\* int(tokens) after the charge.
Left == Charged \div Cost

Stride == IF PerMin \div 24 > 1 THEN PerMin \div 24 ELSE 1

InBand(left) == left * 4 <= PerMin

\* budget_note for a read: nothing above the band, and a thinned warning in it.
Footer(left) == IF InBand(left) /\ (left + 1) % Stride = 0 THEN left ELSE NoFooter

\* A footer and a long poll's answer are one caller's.
MayShare(footer, held) == footer = NoFooter /\ ~held

Offer(footer, held) ==
    shared' = IF MayShare(footer, held)
            THEN [age |-> EdgeSeconds * Second, footer |-> footer, held |-> held] ELSE shared

---------------------------------------------------------------------------
(* Requests.                                                               *)

\* A text reply of /rooms, a room read or a note read.
Read(held) ==
    /\ Granted
    /\ units' = Charged
    /\ reply' = Served(Footer(Left))
    /\ warned' = (Footer(Left) # NoFooter \/ (warned /\ InBand(Left)))
    /\ muted' = (muted /\ InBand(Left))
    /\ Offer(Footer(Left), held)

\* A reply that is charged and prints none: JSON, a 404, an export.
ReadSilently ==
    /\ Granted
    /\ units' = Charged
    /\ reply' = Served(NoFooter)
    /\ warned' = (warned /\ InBand(Left))
    /\ muted' = (Footer(Left) # NoFooter \/ (muted /\ InBand(Left)))
    /\ UNCHANGED shared

\* round(): half to even, and one second at least.
Rounded(ticks) ==
    LET whole == ticks \div Second
        twice == 2 * (ticks % Second)
        up    == IF twice > Second \/ (twice = Second /\ whole % 2 = 1) THEN whole + 1 ELSE whole
    IN  IF up > 1 THEN up ELSE 1

\* A refusal is not charged, and tells the wait for the rest of a token.
RefuseRead ==
    /\ ~Granted
    /\ reply' = Refused(Rounded(Cost - units))
    /\ UNCHANGED <<units, warned, muted, shared>>

\* The shared cache answers, and no bucket is charged.
ReadCopy ==
    /\ shared.age > 0
    /\ reply' = Served(shared.footer)
    /\ UNCHANGED <<units, warned, muted, shared>>

\* Another caller's read of the same URL, with a balance of its own.
OthersRead(left, held) ==
    /\ Offer(Footer(left), held)
    /\ UNCHANGED <<units, reply, warned, muted>>

BudgetNext ==
    \/ BudgetTick \/ ReadSilently \/ RefuseRead \/ ReadCopy
    \/ \E held \in BOOLEAN : Read(held) \/ \E left \in {0, Stride - 1, PerMin - 1} : OthersRead(left, held)

BudgetSpec == BudgetInit /\ [][BudgetNext]_budgetVars

---------------------------------------------------------------------------
\* Properties.

\* A caller is warned before it is refused, although most replies inside the
\* band carry no warning: its balance does not step over a stride. The one
\* exception is a caller whose warning fell on a reply that prints none
\* (`budget_note`).
WarnedBeforeWall == reply.status = "refused" => warned \/ muted

\* A balance within its bounds, and a warning on the way down
\* (`take`, `budget_note`).
BudgetInv == BudgetTypeOK /\ WarnedBeforeWall

\* A footer a caller reads tells its own balance, and what a shared cache holds
\* is no waiter's answer (`_shareable`).
FooterIsOwn ==
    [][reply' # reply => /\ reply'.footer # NoFooter => reply'.footer = units' \div Cost
                         /\ ~shared.held]_budgetVars

(* What the code does not keep; TLC refutes both.  The warning "is never     *)
(* skipped, only thinned" (limit.py:430): a JSON reply, a 404 or an export   *)
(* takes the token and prints none.  And who waits as long as a 429 says     *)
(* finds a token (design.md:334, "The agent can read its own remedy"): the   *)
(* wait is rounded to a second, down as often as up.                        *)
NeverSkipped == reply.status = "refused" => warned
RetrySuffices == reply.status = "refused" => units + reply.delay * Second >= Cost
=============================================================================
