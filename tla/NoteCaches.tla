----------------------------- MODULE NoteCaches -----------------------------
(***************************************************************************)
(* What GET /rooms shows of notes: a room's topic, and the note gauge.     *)
(* Each has a cache of its own under the listing's, with another stamp and *)
(* another clock.  Neither reads what the other keeps, so that a behaviour *)
(* follows one of them, and the writes it is changed by: shows says which, *)
(* and disk is the number of its changes.  Caches belong to a worker, and  *)
(* workers share the disk alone: the module has the handlers of one, and   *)
(* writers of any.                                                         *)
(***************************************************************************)
EXTENDS Integers, FiniteSets

CONSTANTS
    NoteSetters,    \* writers of notes
    Askers,         \* handlers of GET /rooms
    ListTicks,      \* ROOMS_CACHE_SECONDS
    NoteTicks,      \* NOTE_STATS_CACHE_SECONDS
    MaxListings,    \* MAX_ROOMS_CACHE
    MaxTopics,      \* _TOPICS_MEMO_MAX, for one room
    FirstClock,     \* time.monotonic() when the worker starts
    MaxNoteChanges, \* bound of the changes on disk
    MaxBumps,       \* bound of the counter
    MaxClock        \* bound of the clock

ASSUME NoteCachesAssumption ==
    /\ {ListTicks, NoteTicks, MaxListings, MaxTopics} \subseteq Nat \ {0}
    /\ {MaxNoteChanges, MaxBumps, MaxClock} \subseteq Nat /\ FirstClock \in 0..MaxClock

VARIABLES
    shows,      \* what is followed: the topic of a room, or the gauge
    disk,       \* how often it has changed: the note, or .notes
    bumped,     \* topics_written, or notes_written
    known,      \* history: the last change that a bump counted
    setter,     \* the writers
    clock,      \* time.monotonic()
    began,      \* history: disk when each tick began
    kept,       \* _topics_memo, or _note_stats_cache
    listings,   \* _rooms_walk
    asker       \* the handlers

noteVars == <<shows, disk, bumped, known, setter, clock, began, kept, listings, asker>>
noteDisk == <<shows, disk, bumped, known, setter>>
noteCaches == <<clock, began, kept, listings, asker>>

SetterIdle == [pc |-> "idle", change |-> 0]

\* list, stamp: the counters read for the listing and for what is followed;
\* sure: they could be read; bucket, at: the clock of each look-up; shown: the
\* answer; owed, least: history, what the answer must not be older than by the
\* counters, nothing if they could not be read, and by the clock.
AskerIdle == [pc |-> "idle", list |-> 0, stamp |-> 0, sure |-> TRUE, bucket |-> 0,
              at |-> 0, shown |-> 0, owed |-> 0, least |-> 0]

NoteCachesInit ==
    /\ shows \in {"topic", "gauge"}
    /\ disk = 0 /\ bumped = 0 /\ known = 0
    /\ setter = [n \in NoteSetters |-> SetterIdle]
    /\ clock = FirstClock /\ began = [t \in 0..MaxClock |-> 0]
    /\ kept = {} /\ listings = {}
    /\ asker = [h \in Askers |-> AskerIdle]

---------------------------------------------------------------------------
(* The writers, and the reaper.                                            *)

\* A note that is new is in .notes before it is on disk.
ReserveNote(n) ==
    /\ setter[n].pc = "idle" /\ disk < MaxNoteChanges /\ bumped < MaxBumps
    /\ \E new \in BOOLEAN :
          /\ disk' = IF shows = "gauge" /\ new THEN disk + 1 ELSE disk
          /\ setter' = [setter EXCEPT ![n] = [pc |-> "put", change |-> IF disk' = disk THEN 0 ELSE disk']]
    /\ UNCHANGED <<shows, bumped, known, noteCaches>>

PutNote(n) ==
    /\ setter[n].pc = "put" /\ (shows = "topic" => disk < MaxNoteChanges)
    /\ disk' = IF shows = "topic" THEN disk + 1 ELSE disk
    /\ setter' = [setter EXCEPT ![n].pc = "bump", ![n].change = IF disk' = disk THEN @ ELSE disk']
    /\ UNCHANGED <<shows, bumped, known, noteCaches>>

Later(i, j) == IF i < j THEN j ELSE i

BumpNotes(n) ==
    /\ setter[n].pc = "bump"
    /\ bumped' = bumped + 1
    /\ known' = Later(known, setter[n].change)
    /\ setter' = [setter EXCEPT ![n] = SetterIdle]
    /\ UNCHANGED <<shows, disk, noteCaches>>

\* The write fails, or its bump is lost.
DropNote(n) ==
    /\ setter[n].pc \in {"put", "bump"}
    /\ setter' = [setter EXCEPT ![n] = SetterIdle]
    /\ UNCHANGED <<shows, disk, bumped, known, noteCaches>>

\* The reaper takes a note and counts none: only the clock tells.
ReapNote ==
    /\ disk < MaxNoteChanges
    /\ disk' = disk + 1
    /\ UNCHANGED <<shows, bumped, known, setter, noteCaches>>

\* A listing of an earlier bucket is a key nobody asks for any more, the one that
\* its LRU evicts first: it is forgotten here.
TickNotes ==
    /\ clock < MaxClock
    /\ clock' = clock + 1
    /\ began' = [began EXCEPT ![clock'] = disk]
    /\ listings' = {l \in listings : l.bucket = clock' \div ListTicks}
    /\ UNCHANGED <<noteDisk, kept, asker>>

---------------------------------------------------------------------------
(* GET /rooms.                                                             *)

Becomes(h, a) == asker' = [asker EXCEPT ![h] = a]
OnlyAsks == UNCHANGED <<noteDisk, clock, began, kept, listings>>

\* What no listing may be older than: one window of its own and one of the notes'.
Oldest == began[Later(0, clock + 2 - ListTicks - NoteTicks)]

Answer(a, shown, sure) ==
    [AskerIdle EXCEPT !.pc = "reply", !.shown = shown, !.owed = IF sure THEN a.owed ELSE 0,
                      !.least = a.least]

\* _rooms_view: the stamp, then the look-up.  The listing's stamp counts topics, and
\* no other note; Listing has the one that cannot be read.
AskRooms(h) ==
    LET topics == shows = "topic"
        asked == [AskerIdle EXCEPT !.pc = "stamp", !.list = IF topics THEN bumped ELSE 0,
                  !.bucket = clock \div ListTicks, !.least = Oldest,
                  !.owed = IF topics THEN known ELSE 0]
        found == {l \in listings : l.stamp = asked.list /\ l.bucket = asked.bucket}
    IN  /\ asker[h].pc = "idle"
        /\ IF found = {} THEN Becomes(h, asked)
           ELSE \E l \in found : Becomes(h, Answer(asked, l.shown, l.sure))
        /\ OnlyAsks

\* counters(strict=False): a file that cannot be read is zeros.
Stamps(count) == {[count |-> count, sure |-> TRUE], [count |-> 0, sure |-> FALSE]}

\* room_stats and _note_stats read a stamp of their own, and the clock after it.
StampNotes(h) ==
    /\ asker[h].pc = "stamp"
    /\ \E s \in Stamps(bumped) :
          Becomes(h, [asker[h] EXCEPT !.pc = "find", !.stamp = s.count, !.at = clock,
                         !.sure = s.sure,
                         !.owed = IF ~s.sure THEN 0 ELSE IF shows = "gauge" THEN known ELSE @])
    /\ OnlyAsks

\* Bug: the clock alone is the key.
TopicsFound_ByClock(h) == {e \in kept : e.at \div NoteTicks = asker[h].at \div NoteTicks}

\* _cached_topic: an entry of the same stamp and time bucket.
TopicsFound(h) ==
    {e \in kept : /\ e.stamp = asker[h].stamp
                  /\ e.at \div NoteTicks = asker[h].at \div NoteTicks}

\* _note_stats: the slot, under the same stamp and before it expires.
GaugeFound(h) == {e \in kept : e.stamp = asker[h].stamp /\ asker[h].at < e.at + NoteTicks}

Found(h) == IF shows = "topic" THEN TopicsFound(h) ELSE GaugeFound(h)

Shown(a, shown) == [a EXCEPT !.pc = "list", !.shown = shown, !.stamp = 0, !.at = 0]

FindNotes(h) ==
    /\ asker[h].pc = "find"
    /\ IF Found(h) = {} THEN Becomes(h, [asker[h] EXCEPT !.pc = "keep", !.shown = disk])
       ELSE \E e \in Found(h) : Becomes(h, Shown(asker[h], e.shown))
    /\ OnlyAsks

\* What an LRU may hold beside a new entry.
Beside(S, size) ==
    IF Cardinality(S) < size THEN {S} ELSE {rest \in SUBSET S : Cardinality(rest) = size - 1}

\* The first of two topics read under one key stays; the gauge's one slot takes
\* whatever comes last, an older gauge too.
KeepNotes(h) ==
    LET e == [stamp |-> asker[h].stamp, at |-> asker[h].at, shown |-> asker[h].shown]
    IN  /\ asker[h].pc = "keep"
        /\ IF shows = "gauge" THEN kept' = {e}
           ELSE IF TopicsFound(h) # {} THEN kept' = kept
           ELSE \E rest \in Beside(kept, MaxTopics) : kept' = rest \cup {e}
        /\ Becomes(h, Shown(asker[h], asker[h].shown))
        /\ UNCHANGED <<noteDisk, clock, began, listings>>

KeepListing(h) ==
    LET done == asker[h]
        l == [stamp |-> done.list, bucket |-> done.bucket, shown |-> done.shown, sure |-> done.sure]
    IN  /\ done.pc = "list"
        /\ IF \E k \in listings : k.stamp = l.stamp /\ k.bucket = l.bucket THEN UNCHANGED listings
           ELSE \E rest \in Beside(listings, MaxListings) : listings' = rest \cup {l}
        /\ Becomes(h, Answer(done, done.shown, done.sure))
        /\ UNCHANGED <<noteDisk, clock, began, kept>>

EndListing(h) ==
    /\ asker[h].pc = "reply"
    /\ Becomes(h, AskerIdle)
    /\ OnlyAsks

Asking(h) ==
    \/ AskRooms(h) \/ StampNotes(h) \/ FindNotes(h) \/ KeepNotes(h) \/ KeepListing(h) \/ EndListing(h)

Setting(n) == ReserveNote(n) \/ PutNote(n) \/ BumpNotes(n) \/ DropNote(n)

NoteCachesNext ==
    \/ ReapNote \/ TickNotes
    \/ \E n \in NoteSetters : Setting(n)
    \/ \E h \in Askers : Asking(h)

NoteCachesSpec == NoteCachesInit /\ [][NoteCachesNext]_noteVars

---------------------------------------------------------------------------
(* Properties.                                                             *)

\* A topic is shown no older than the latest write that the listing's stamp
\* counts, although the preview may come from a cache under a cache; and a walk
\* shows a gauge with every note that was counted when the walk came to it.
CountedIsShown ==
    \A h \in Askers : asker[h].pc = "reply" => asker[h].shown >= asker[h].owed

\* Under lost bumps and lying stamps, and for what the reaper takes, the clocks
\* are the bound, and they add up: a reply is no older than one window of the
\* listing and one of the notes together.
WindowsAddUp ==
    \A h \in Askers : asker[h].pc = "reply" => asker[h].shown >= asker[h].least

\* What a listing shows of notes is current by its stamps, and by its clocks where
\* those lie (`_cached_topic`, `_note_stats`).
NoteCachesInv == CountedIsShown /\ WindowsAddUp
=============================================================================
