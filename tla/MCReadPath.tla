---------------------------- MODULE MCReadPath ----------------------------
(***************************************************************************)
(* The ways to read, side by side: the room listing, a long poll, an       *)
(* export, the edge in front of the documents, the operator's view, the    *)
(* walk behind a listing, the notes it shows, and a caller's budget.  They *)
(* share nothing that a property is about, so that a behaviour is one of   *)
(* them: part says which, and the others stand still.                      *)
(***************************************************************************)
EXTENDS Listing, LongPoll, Export, EdgeWorker, StatsView,
        Overview, NoteCaches, ReadBudget, TLC

VARIABLE part

readVars == <<part, listVars, pollVars, ex, edgeVars, statsVars,
              overviewVars, noteVars, budgetVars>>

\* A part that stands still starts in one state.
ReadInit ==
    /\ part \in {"rooms", "poll", "export", "edge", "stats", "overview", "notes", "budget"}
    /\ ListingInit /\ PollInit /\ ExportInit /\ EdgeInit /\ StatsInit
    /\ OverviewInit /\ NoteCachesInit /\ BudgetInit
    /\ part # "notes" => shows = "topic"
    /\ part # "budget" => units = Burst

ReadNext ==
    /\ UNCHANGED part
    /\ \/ part = "rooms" /\ ListingNext
             /\ UNCHANGED <<pollVars, ex, edgeVars, statsVars, overviewVars, noteVars, budgetVars>>
       \/ part = "poll" /\ PollNext
             /\ UNCHANGED <<listVars, ex, edgeVars, statsVars, overviewVars, noteVars, budgetVars>>
       \/ part = "export" /\ ExportNext
             /\ UNCHANGED <<listVars, total, byCaller, wait, edgeVars, statsVars, overviewVars, noteVars, budgetVars>>
       \/ part = "edge" /\ EdgeNext
             /\ UNCHANGED <<listVars, pollVars, ex, statsVars, overviewVars, noteVars, budgetVars>>
       \/ part = "stats" /\ StatsNext
             /\ UNCHANGED <<listVars, pollVars, ex, edgeVars, overviewVars, noteVars, budgetVars>>
       \/ part = "overview" /\ OverviewNext
             /\ UNCHANGED <<listVars, pollVars, ex, edgeVars, statsVars, noteVars, budgetVars>>
       \/ part = "notes" /\ NoteCachesNext
             /\ UNCHANGED <<listVars, pollVars, ex, edgeVars, statsVars, overviewVars, budgetVars>>
       \/ part = "budget" /\ BudgetNext
             /\ UNCHANGED <<listVars, pollVars, ex, edgeVars, statsVars, overviewVars, noteVars>>

ReadSpec == ReadInit /\ [][ReadNext]_readVars

CONSTANTS w1, l1, l2
OneWorker == [l \in {l1, l2} |-> w1]

CONSTANTS a, b, p, n1, n2
TwoSpoke == a :> <<n2, n1>> @@ b :> <<>> @@ p :> <<n1>>

\* Waiters and pollers share their model values: one group serves
\* them all.
Symmetry == Permutations(Waiters) \cup Permutations(Readers)

\* What callers share never goes back: neither the edge's copies nor the view of
\* /stats; and a reply from a shared cache tells nobody another one's balance.
SharedForward == CopyForward /\ ViewForward /\ FooterIsOwn
=============================================================================
