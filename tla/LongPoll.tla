----------------------------- MODULE LongPoll -----------------------------
(***************************************************************************)
(* GET /r/<room>?since=N&wait=S.  A read that finds nothing past its       *)
(* cursor may hold one of the process's waiter slots and poll the room's   *)
(* file: each tick takes the file's stamp and reads the room only when the *)
(* stamp moved.  The handlers of a process share one event loop; the file  *)
(* is written by every process.                                            *)
(***************************************************************************)
EXTENDS RoomFile, FiniteSets

CONSTANTS
    Waiters,        \* handlers of one process
    Callers,        \* client addresses
    MaxWaiters,     \* MAX_WAITERS_TOTAL
    MaxPerCaller,   \* MAX_WAITERS_PER_IP
    MaxWait         \* the longest ?wait=, in polls

ASSUME LongPollAssumption ==
    /\ {MaxWaiters, MaxPerCaller, MaxWait} \subseteq Nat \ {0}

VARIABLES
    total,      \* _waiters_total
    byCaller,   \* _waiters_by_ip
    wait        \* the handlers

pollVars == <<fileVars, total, byCaller, wait>>

NoStamp == <<"none">>               \* the object() no stamp equals
NoRoom == <<"no room">>             \* room_stamp's None

\* Bug: an append in place does not move the stamp.
Stamp_ByInode == IF file = 0 THEN NoRoom ELSE <<file, 0, FALSE>>

\* room_stamp: inode, size and times.
Stamp == IF file = 0 THEN NoRoom ELSE <<file, rings[file].last, rings[file].torn>>

HasPast(since) == file # 0 /\ rings[file].last > since

\* owed: a message past the cursor was there when the last tick began, and
\* the room has not been reaped since.
PollIdle == [pc |-> "idle", caller |-> "", since |-> 0, left |-> 0,
             last |-> NoStamp, owed |-> FALSE, found |-> FALSE]

Held == {w \in Waiters : wait[w].pc \in {"loop", "wake", "stamp", "read"}}

\* The table counts the handlers that hold a slot, by caller and in all, and
\* no cap is passed: a slot comes back on every exit, and once.
SlotsExact ==
    /\ total = Cardinality(Held) /\ total <= MaxWaiters
    /\ \A c \in Callers :
          /\ byCaller[c] = Cardinality({w \in Held : wait[w].caller = c})
          /\ byCaller[c] <= MaxPerCaller

PollInit ==
    /\ FileInit
    /\ total = 0
    /\ byCaller = [c \in Callers |-> 0]
    /\ wait = [w \in Waiters |-> PollIdle]

---------------------------------------------------------------------------
PollGoto(w, pc) == wait' = [wait EXCEPT ![w].pc = pc]
PollAnswer(w, found, owed) ==
    wait' = [wait EXCEPT ![w] =
               [PollIdle EXCEPT !.pc = "reply", !.found = found, !.owed = owed]]
SlotsUnchanged == UNCHANGED <<total, byCaller>>

ReleaseSlot(w) ==
    /\ total' = total - 1
    /\ byCaller' = [byCaller EXCEPT ![wait[w].caller] = @ - 1]

\* The first read; only an empty one with a cursor and a ?wait= goes on.
FirstRead(w, c) ==
    /\ wait[w].pc = "idle"
    /\ \E since \in 0..(MaxTop - 1) :
          IF HasPast(since)
          THEN PollAnswer(w, TRUE, FALSE)
          ELSE wait' = [wait EXCEPT ![w] = [PollIdle EXCEPT !.pc = "slot", !.caller = c,
                                              !.since = since, !.left = MaxWait]]
    /\ SlotsUnchanged /\ UNCHANGED fileVars

\* Bug: the cap of a caller is not looked at.
NoSlot_ForAnyone(c) == total >= MaxWaiters

NoSlot(c) == total >= MaxWaiters \/ byCaller[c] >= MaxPerCaller

\* _waiter_slot: check and take without an await between.
TakeSlot(w) ==
    /\ wait[w].pc = "slot"
    /\ IF NoSlot(wait[w].caller)
       THEN PollAnswer(w, FALSE, FALSE) /\ SlotsUnchanged
       ELSE /\ total' = total + 1
            /\ byCaller' = [byCaller EXCEPT ![wait[w].caller] = @ + 1]
            /\ PollGoto(w, "loop")
    /\ UNCHANGED fileVars

\* The head of the loop: out of time, or asleep for a poll or for what is left;
\* a tick may take longer than its sleep.
Sleep(w) ==
    /\ wait[w].pc = "loop"
    /\ IF wait[w].left = 0
       THEN PollAnswer(w, FALSE, wait[w].owed) /\ ReleaseSlot(w)
       ELSE /\ \E left \in 0..(wait[w].left - 1) :
                  wait' = [wait EXCEPT ![w].pc = "wake", ![w].left = left, ![w].owed = FALSE]
            /\ SlotsUnchanged
    /\ UNCHANGED fileVars

\* Awake, and the caller is still there.
Wake(w) ==
    /\ wait[w].pc = "wake"
    /\ wait' = [wait EXCEPT ![w].pc = "stamp", ![w].owed = HasPast(wait[w].since)]
    /\ SlotsUnchanged /\ UNCHANGED fileVars

\* Before the read, so that a write racing it moves the next tick's stamp.
TakeStamp(w) ==
    /\ wait[w].pc = "stamp"
    /\ wait' = [wait EXCEPT ![w].pc = IF Stamp = wait[w].last THEN "loop" ELSE "read",
                            ![w].last = Stamp]
    /\ SlotsUnchanged /\ UNCHANGED fileVars

TickRead(w) ==
    /\ wait[w].pc = "read"
    /\ IF HasPast(wait[w].since)
       THEN PollAnswer(w, TRUE, FALSE) /\ ReleaseSlot(w)
       ELSE PollGoto(w, "loop") /\ SlotsUnchanged
    /\ UNCHANGED fileVars

\* The caller hung up, the task was cancelled at an await, or the stat or the
\* read raised: the finally gives the slot back.
Abandon(w) ==
    /\ w \in Held /\ wait[w].pc # "loop"
    /\ wait' = [wait EXCEPT ![w] = PollIdle]
    /\ ReleaseSlot(w)
    /\ UNCHANGED fileVars

PollReply(w) ==
    /\ wait[w].pc = "reply"
    /\ wait' = [wait EXCEPT ![w] = PollIdle]
    /\ SlotsUnchanged /\ UNCHANGED fileVars

\* The room is written by others; a reap takes its messages with it.
FileMoves ==
    /\ FileNext
    /\ wait' = [w \in Waiters |-> [wait[w] EXCEPT !.owed = @ /\ file' # 0]]
    /\ SlotsUnchanged

PollStep(w) ==
    \/ TakeSlot(w) \/ Sleep(w) \/ Wake(w) \/ TakeStamp(w) \/ TickRead(w)
    \/ PollReply(w)

PollNext ==
    \/ \E w \in Waiters : PollStep(w) \/ Abandon(w)
    \/ \E w \in Waiters, c \in Callers : FirstRead(w, c)
    \/ FileMoves

PollSpec == PollInit /\ [][PollNext]_pollVars

---------------------------------------------------------------------------
\* Properties.

PollTypeOK ==
    /\ FileTypeOK
    /\ total \in Nat /\ byCaller \in [Callers -> Nat]
    /\ \A w \in Waiters :
          /\ wait[w].pc \in {"idle", "slot", "loop", "wake", "stamp", "read", "reply"}
          /\ wait[w].since \in 0..MaxTop /\ wait[w].left \in 0..MaxWait
          /\ wait[w].found => wait[w].pc = "reply"

\* A poll answered empty missed no message that was there when its last tick
\* began: the stamp it compared told every append, compaction and create since
\* the read before (_await_messages: "exact because messages come from that
\* file alone").
EmptyMissedNothing ==
    \A w \in Waiters : wait[w].pc = "reply" /\ ~wait[w].found => ~wait[w].owed

\* The slots are those of the handlers that wait, over a file that is well formed
\* (`_waiter_slot`).
PollInv == PollTypeOK /\ SlotsExact
=============================================================================
