------------------------------ MODULE Export ------------------------------
(***************************************************************************)
(* GET /r/<room>/export: the room's file is opened, its complete lines are *)
(* measured, the generation is read, and the lines are streamed from the   *)
(* open file at the client's pace.  No lock is taken.                      *)
(***************************************************************************)
EXTENDS RoomFile

VARIABLE
    ex          \* the export

exportVars == <<fileVars, ex>>

\* ring: the inode held open; end: its last complete line at the fstat; sent:
\* the lines streamed; excused: the ring's creator had not recorded its birth
\* when the generation was read.
ExportIdle == [pc |-> "idle", ring |-> 0, first |-> 0, end |-> 0,
               generation |-> 0, excused |-> FALSE, sent |-> <<>>]

ExportInit == FileInit /\ ex = ExportIdle

\* An absent room is zero bytes; any other failure to open is an error.
OpenRing ==
    /\ ex.pc = "idle" /\ file # 0
    /\ ex' = [ExportIdle EXCEPT !.pc = "measure", !.ring = file]
    /\ UNCHANGED fileVars

\* Bug: the bytes after the last newline are sent too.
LastLine_WithTail(ring) == IF ring.torn THEN ring.last + 1 ELSE ring.last

LastLine(ring) == ring.last

\* _snapshot_bytes: one fstat, back to the last newline.
MeasureRing ==
    /\ ex.pc = "measure"
    /\ ex' = [ex EXCEPT !.pc = "generation", !.first = rings[ex.ring].first,
                        !.end = LastLine(rings[ex.ring])]
    /\ UNCHANGED fileVars

ReadGeneration ==
    /\ ex.pc = "generation"
    /\ ex' = [ex EXCEPT !.pc = "stream", !.generation = generation, !.excused = ~Recorded]
    /\ UNCHANGED fileVars

\* chunks: from the open file, whatever is at the path by now.
Source == ex.ring

StreamLine ==
    /\ ex.pc = "stream"
    /\ IF Len(ex.sent) <= ex.end - ex.first
       THEN ex' = [ex EXCEPT !.sent = Append(@, <<Source, ex.first + Len(@)>>),
                             !.ring = Source]
       ELSE ex' = [ex EXCEPT !.pc = "sent"]
    /\ UNCHANGED fileVars

Closed == ExportIdle

\* Sent, or the client is gone: the file is closed.
CloseRing ==
    /\ ex.pc \in {"stream", "sent"}
    /\ ex' = Closed
    /\ UNCHANGED fileVars

ExportNext ==
    \/ OpenRing \/ MeasureRing \/ ReadGeneration \/ StreamLine \/ CloseRing
    \/ FileNext /\ UNCHANGED ex

ExportSpec == ExportInit /\ [][ExportNext]_exportVars

---------------------------------------------------------------------------
\* Properties.

ExportTypeOK ==
    /\ FileTypeOK
    /\ ex.pc \in {"idle", "measure", "generation", "stream", "sent"}
    /\ ex.ring \in 0..Len(rings) /\ (ex.pc # "idle" <=> ex.ring # 0)
    /\ Len(ex.sent) <= MaxTop

\* What is streamed is one ring's lines, in order and complete, whatever is
\* appended, compacted, reaped or created while the client reads
\* (export_room's docstring).
ExportIsOneRing ==
    \A i \in 1..Len(ex.sent) :
       /\ ex.sent[i] = <<ex.ring, ex.first + i - 1>>
       /\ ex.sent[i][2] <= rings[ex.ring].last

\* The generation sent with a ring is not older than the ring, unless its
\* creator was still to record it.
GenerationFitsRing ==
    ex.pc \in {"stream", "sent"} =>
       ex.excused \/ ex.generation >= rings[ex.ring].birth

\* An export is one ring, whole, under a generation that is its own
\* (`export_room`).
ExportInv == ExportTypeOK /\ ExportIsOneRing /\ GenerationFitsRing
=============================================================================
