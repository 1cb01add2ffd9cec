----------------------------- MODULE Namespaces -----------------------------
(***************************************************************************)
(* One namespace of notes: its directory, the lock files in it and the     *)
(* count file its cap is enforced against, between handlers that create    *)
(* notes and the reap pass that empties the namespace, drops a count that  *)
(* did not hold still and removes the directory.  CreateGate has the same  *)
(* reservation against the count of the whole store, which the pass        *)
(* settles and does not drop.                                              *)
(***************************************************************************)
EXTENDS Integers, FiniteSets

CONSTANTS
    Creators,       \* handlers of note_set
    NoteKeys,       \* the keys they create
    NoCount,        \* no count file, or one that does not parse; no key
    NsCap,          \* MAX_NOTES_PER_NS
    UncleanStart,   \* the last shutdown may have lost an increment
    MaxCreates,     \* bound of the creates
    MaxPasses       \* bound of the reap passes

ASSUME NamespacesAssumption ==
    /\ NoCount \notin Nat
    /\ IsFiniteSet(Creators) /\ IsFiniteSet(NoteKeys)
    /\ UncleanStart \in BOOLEAN
    /\ {NsCap, MaxCreates, MaxPasses} \subseteq Nat

VARIABLES
    notes,      \* the notes on disk
    oldNotes,   \* those nobody wrote to for a week
    nsDir,      \* the namespace's directory is there
    lockFiles,  \* keys whose sidecar lock is there
    nsCount,    \* the figure in .notes-count
    creator,    \* the handlers
    pass,       \* the reap pass
    creates,    \* how many creates began
    died,       \* history: a create found its directory removed
    lowered,    \* history: an increment was lost, or a rebuild persisted late
    quiet       \* history: no handler was at work since the pass began

nsVars == <<notes, oldNotes, nsDir, lockFiles, nsCount, creator, pass,
            creates, died, lowered, quiet>>

Counts == Nat \cup {NoCount}

NoCreate == [pc |-> "idle", key |-> NoCount, saw |-> 0,
             reserved |-> FALSE]
NoPass == [pc |-> "idle", before |-> NoCount, walked |-> 0, todo |-> {},
           emptied |-> FALSE, runs |-> 0]

NamespacesTypeOK ==
    /\ notes \subseteq NoteKeys /\ oldNotes \subseteq notes
    /\ lockFiles \subseteq NoteKeys
    /\ nsCount \in Counts
    /\ nsDir \in BOOLEAN /\ died \in BOOLEAN /\ lowered \in BOOLEAN /\ quiet \in BOOLEAN
    /\ creator \in [Creators ->
          [pc : {"idle", "early", "persist", "span", "mkdir", "open", "exists", "gate",
                 "reserve", "write", "return"},
           key : NoteKeys \cup {NoCount}, saw : Nat, reserved : BOOLEAN]]
    /\ pass \in [pc : {"idle", "walk", "sweep", "decide", "span", "drop", "rmdir"},
                 before : Counts, walked : 0..Cardinality(NoteKeys), todo : SUBSET NoteKeys,
                 emptied : BOOLEAN, runs : 0..MaxPasses]
    /\ notes # {} \/ lockFiles # {} \/ nsCount # NoCount => nsDir

\* A namespace as an earlier process left it: without a count file, with an
\* exact one, or after an unclean shutdown with one that is low.
NamespacesInit ==
    /\ notes \in SUBSET NoteKeys /\ Cardinality(notes) <= NsCap
    /\ oldNotes = notes
    /\ lockFiles = notes
    /\ nsDir = (notes # {})
    /\ nsCount \in {NoCount} \cup
          {c \in 0..Cardinality(notes) : notes # {} /\ (c = Cardinality(notes) \/ UncleanStart)}
    /\ creator = [h \in Creators |-> NoCreate]
    /\ pass = NoPass
    /\ creates = 0 /\ died = FALSE /\ quiet = TRUE
    /\ lowered = (nsCount # NoCount /\ nsCount < Cardinality(notes))

---------------------------------------------------------------------------
\* Locks, read off the program counters of those who hold them.

InSpan == {"mkdir", "open", "exists", "gate", "reserve", "write", "return"}
PastLock == {"exists", "gate", "reserve", "write", "return"}
KeyFree(k) == \A h \in Creators : creator[h].pc \in PastLock => creator[h].key # k
GateFree == \A h \in Creators : creator[h].pc # "reserve"
SpanShared == \E h \in Creators : creator[h].pc \in InSpan
SpanExclusive == pass.pc \in {"drop", "rmdir"}

\* _note_totals: the figure of the file, or the walk that rebuilds it.
Figure == IF nsCount = NoCount THEN Cardinality(notes) ELSE nsCount
InFlight == {h \in Creators : creator[h].reserved}

CreatorGoto(h, pc) == creator' = [creator EXCEPT ![h].pc = pc]
CreatorDone(h) == creator' = [creator EXCEPT ![h] = NoCreate]

disk == <<notes, oldNotes, nsDir, lockFiles>>
nsHistory == <<creates, died, lowered, quiet>>

---------------------------------------------------------------------------
\* note_set of a key that is not there, through _create_gate.

StartCreate(h, k) ==
    /\ creator[h].pc = "idle" /\ k \notin notes
    /\ creates < MaxCreates /\ creates' = creates + 1
    /\ creator' = [creator EXCEPT ![h] = [NoCreate EXCEPT !.pc = "early", !.key = k]]
    /\ quiet' = FALSE
    /\ UNCHANGED <<disk, nsCount, pass, died, lowered>>

\* The first check runs under no lock, and persists what it rebuilt.
EarlyCheck(h) ==
    /\ creator[h].pc = "early"
    /\ \/ /\ nsCount = NoCount /\ notes # {}
          /\ creator' = [creator EXCEPT ![h].pc = "persist",
                                        ![h].saw = Cardinality(notes)]
       \/ /\ ~(nsCount = NoCount /\ notes # {})
          /\ IF Figure >= NsCap THEN CreatorDone(h) ELSE CreatorGoto(h, "span")
    /\ UNCHANGED <<disk, nsCount, pass, nsHistory>>

EarlyPersist(h) ==
    LET saw == creator[h].saw IN
    /\ creator[h].pc = "persist"
    /\ nsCount' = saw
    /\ nsDir' = TRUE
    /\ lowered' = (lowered \/ saw < Cardinality(notes) + Cardinality(InFlight))
    /\ IF saw >= NsCap THEN CreatorDone(h) ELSE CreatorGoto(h, "span")
    /\ UNCHANGED <<notes, oldNotes, lockFiles, pass, creates, died, quiet>>

TakeNsSpan(h) ==
    /\ creator[h].pc = "span" /\ ~SpanExclusive
    /\ CreatorGoto(h, "mkdir")
    /\ UNCHANGED <<disk, nsCount, pass, nsHistory>>

\* _locked: the directory first, then the lock file in it.
MakeNs(h) ==
    /\ creator[h].pc = "mkdir"
    /\ nsDir' = TRUE
    /\ CreatorGoto(h, "open")
    /\ UNCHANGED <<notes, oldNotes, lockFiles, nsCount, pass, nsHistory>>

OpenNote(h) ==
    /\ creator[h].pc = "open" /\ KeyFree(creator[h].key)
    /\ IF nsDir
       THEN /\ lockFiles' = lockFiles \cup {creator[h].key}
            /\ CreatorGoto(h, "exists")
            /\ UNCHANGED died
       ELSE /\ died' = TRUE
            /\ CreatorDone(h)
            /\ UNCHANGED lockFiles
    /\ UNCHANGED <<notes, oldNotes, nsDir, nsCount, pass, creates, lowered, quiet>>

ExistsNow(h) ==
    /\ creator[h].pc = "exists"
    /\ CreatorGoto(h, IF creator[h].key \in notes THEN "write" ELSE "gate")
    /\ UNCHANGED <<disk, nsCount, pass, nsHistory>>

\* The check that decides, under the lock of the count.
CheckInGate(h) ==
    /\ creator[h].pc = "gate" /\ GateFree
    /\ nsCount' = IF nsCount = NoCount /\ notes = {} THEN NoCount ELSE Figure
    /\ IF Figure >= NsCap THEN CreatorDone(h) ELSE CreatorGoto(h, "reserve")
    /\ UNCHANGED <<disk, pass, nsHistory>>

ReserveNote(h) ==
    /\ creator[h].pc = "reserve"
    /\ nsCount' = Figure + 1
    /\ creator' = [creator EXCEPT ![h].pc = "write", ![h].reserved = TRUE]
    /\ UNCHANGED <<disk, pass, nsHistory>>

WriteNote(h) ==
    /\ creator[h].pc = "write"
    /\ notes' = notes \cup {creator[h].key}
    /\ oldNotes' = oldNotes \ {creator[h].key}
    /\ CreatorDone(h)
    /\ UNCHANGED <<nsDir, lockFiles, nsCount, pass, nsHistory>>

\* if_absent, or if against another value: nothing is written, and what was
\* reserved is given back.
RefuseNote(h) ==
    /\ creator[h].pc = "write"
    /\ IF creator[h].reserved THEN CreatorGoto(h, "return") ELSE CreatorDone(h)
    /\ UNCHANGED <<disk, nsCount, pass, nsHistory>>

GiveBack(h) ==
    /\ creator[h].pc = "return" /\ GateFree
    /\ nsCount' = IF Figure = 0 THEN 0 ELSE Figure - 1
    /\ CreatorDone(h)
    /\ UNCHANGED <<disk, pass, nsHistory>>

\* A worker dies: its locks are free, and what it reserved stays counted.
KillCreator(h) ==
    /\ creator[h].pc # "idle"
    /\ CreatorDone(h)
    /\ UNCHANGED <<disk, nsCount, pass, nsHistory>>

---------------------------------------------------------------------------
\* The reap pass on the namespace.

PassGoto(pc) == pass' = [pass EXCEPT !.pc = pc]
PassDone == pass' = [NoPass EXCEPT !.runs = pass.runs]

ReadBefore ==
    /\ pass.pc = "idle" /\ pass.runs < MaxPasses /\ nsDir
    /\ pass' = [pc |-> "walk", before |-> nsCount, walked |-> 0, todo |-> NoteKeys,
                emptied |-> FALSE, runs |-> pass.runs + 1]
    /\ quiet' = \A h \in Creators : creator[h].pc = "idle"
    /\ UNCHANGED <<disk, nsCount, creator, creates, died, lowered>>

\* A note is counted as it is seen; an old one is looked at again under its
\* lock and deleted.
VisitNote(k) ==
    /\ pass.pc = "walk" /\ k \in pass.todo
    /\ IF k \in oldNotes
       THEN /\ KeyFree(k)
            /\ notes' = notes \ {k} /\ oldNotes' = oldNotes \ {k}
            /\ pass' = [pass EXCEPT !.todo = @ \ {k}, !.emptied = TRUE]
       ELSE /\ pass' = [pass EXCEPT !.todo = @ \ {k},
                                    !.walked = @ + (IF k \in notes THEN 1 ELSE 0)]
            /\ UNCHANGED <<notes, oldNotes>>
    /\ UNCHANGED <<nsDir, lockFiles, nsCount, creator, nsHistory>>

\* The lock files a week old whose note is gone.
SweepNoteLocks ==
    /\ pass.pc = "walk" /\ pass.todo = {}
    /\ \E swept \in SUBSET {k \in lockFiles \ notes : KeyFree(k)} :
          /\ lockFiles' = lockFiles \ swept
          /\ pass' = [pass EXCEPT !.pc = "decide", !.emptied = @ \/ swept # {}]
    /\ UNCHANGED <<notes, oldNotes, nsDir, nsCount, creator, nsHistory>>

\* Bug: what the pass deleted is all it looks at.
HeldStill_IfQuiet == TRUE

\* The file as it was, the walk and the file as it is: only three equal figures
\* are left alone.
HeldStill ==
    \/ nsCount # NoCount /\ pass.before = nsCount /\ pass.walked = nsCount
    \/ nsCount = NoCount /\ pass.before = NoCount

DecideDrop ==
    /\ pass.pc = "decide"
    /\ IF nsDir /\ (pass.emptied \/ ~HeldStill) THEN PassGoto("span") ELSE PassDone
    /\ UNCHANGED <<disk, nsCount, creator, nsHistory>>

\* Bug: a cleanup that waits for nobody.
NobodyCreates_Presumed == TRUE

\* Every create holds the span from before its directory to after its note.
NobodyCreates == ~SpanShared

TakeSpanForDrop ==
    /\ pass.pc = "span" /\ NobodyCreates
    /\ PassGoto("drop")
    /\ UNCHANGED <<disk, nsCount, creator, nsHistory>>

DropCount ==
    /\ pass.pc = "drop"
    /\ nsCount' = NoCount
    /\ IF pass.emptied THEN PassGoto("rmdir") ELSE PassDone
    /\ UNCHANGED <<disk, creator, nsHistory>>

\* rmdir, after _prune, refuses a directory with entries, the count of an early
\* check included.
NsEmpty == notes = {} /\ lockFiles = {} /\ nsCount = NoCount

RemoveNs ==
    /\ pass.pc = "rmdir"
    /\ nsDir' = ~NsEmpty
    /\ PassDone
    /\ UNCHANGED <<notes, oldNotes, lockFiles, nsCount, creator, nsHistory>>

NotesAge ==
    /\ pass.pc = "idle" /\ oldNotes # notes
    /\ oldNotes' = notes
    /\ UNCHANGED <<notes, nsDir, lockFiles, nsCount, creator, pass, nsHistory>>

NamespacesNext ==
    \/ \E h \in Creators :
          \/ \E k \in NoteKeys : StartCreate(h, k)
          \/ EarlyCheck(h) \/ EarlyPersist(h) \/ TakeNsSpan(h) \/ MakeNs(h)
          \/ OpenNote(h) \/ ExistsNow(h) \/ CheckInGate(h) \/ ReserveNote(h)
          \/ WriteNote(h) \/ RefuseNote(h) \/ GiveBack(h) \/ KillCreator(h)
    \/ ReadBefore \/ (\E k \in NoteKeys : VisitNote(k))
    \/ SweepNoteLocks \/ DecideDrop \/ TakeSpanForDrop \/ DropCount \/ RemoveNs
    \/ NotesAge

NamespacesSpec == NamespacesInit /\ [][NamespacesNext]_nsVars

---------------------------------------------------------------------------
\* Properties.

\* No create dies of a directory removed between its mkdir and its open
\* (_drop_emptied_namespaces: "waiting for exactly the gap to close").
CreatesSurvive == ~died

Covered == nsCount # NoCount => nsCount >= Cardinality(notes) + Cardinality(InFlight)

\* The same as far as the drop is concerned: the count is never below for any
\* other reason than a lost increment or a rebuild persisted outside the gate.
DropKeepsCovered == Covered \/ lowered

\* A namespace goes, with its directory and its count, under nobody's create
\* (`_reap_pass`, `_drop_emptied_namespaces`).
NamespaceInv == NamespacesTypeOK /\ CreatesSurvive /\ DropKeepsCovered

\* A pass during which nobody creates leaves an exact count or none, whatever
\* crashed before it: a figure one high or one low does not outlive it.
QuietPassHeals ==
    [][pass.pc # "idle" /\ pass'.pc = "idle" /\ quiet
          => nsCount' \in {NoCount, Cardinality(notes')}]_nsVars

---------------------------------------------------------------------------
\* What the code does not keep; TLC refutes it.

\* The count is at least the notes on disk and those about to be (_note_totals:
\* "never to a wrong number"; a low one admits notes past the cap): not when the
\* early check persists a rebuild that was counted before another create.
NsCountCovers == Covered
=============================================================================
