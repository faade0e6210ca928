---------------------------- MODULE InlineScreen ----------------------------
(***************************************************************************)
(* core/tui.py, TerminalRenderer: output goes to the scrollback of the     *)
(* terminal, above a composer that is erased and drawn again, in whole or  *)
(* by its changed lines.  A stream without an end of line is continued by  *)
(* going back to where it stopped.  A panel, or the view of a child agent, *)
(* takes the alternate screen; output meanwhile waits or goes back.        *)
(*                                                                         *)
(* The terminal is a grid of rows with a cursor, which wraps late: after *)
(* the last column the cursor stays until the next character.  Colours and *)
(* the width of characters are left out, frames are narrower than it.      *)
(***************************************************************************)
EXTENDS Integers, Sequences, SequencesExt

CONSTANTS
    Columns,    \* of the terminal
    Texts,      \* what is written: sequences of cells and ends of lines
    Origins,    \* who writes: the model, tools, the status
    DeferLimit, \* HISTORY_DEFER_LIMIT, in operations
    MaxSaid     \* bound: operations

ASSUME ScreenAssumption == Columns \in Nat \ {0, 1}

VARIABLES
    canvas,        \* the terminal with what the renderer knows of it
    snapshot,   \* _last_snapshot
    held,   \* operations that wait for the view to close
    said        \* every operation asked for

screenVars == <<canvas, snapshot, held, said>>

NL == "end of line"
NoColumn == -1
Nowhere == "no stream"
NoFrame == <<>>

\* Frames: the rows of a composer, and the one the cursor is in; a panel over
\* the whole screen; nothing.
Hidden == [mode |-> "hidden", rows |-> NoFrame, cursor |-> 0]
Panel == [mode |-> "panel", rows |-> NoFrame, cursor |-> 0]
Composers == {[mode |-> "line", rows |-> <<<<"f">>>>, cursor |-> 0],
              [mode |-> "line", rows |-> <<<<"f">>, <<"g">>>>, cursor |-> 1],
              [mode |-> "line", rows |-> <<<<"g">>, <<"f">>>>, cursor |-> 0]}
Snapshots == Composers \cup {Hidden, Panel}

ScreenInit ==
    /\ canvas = [rows |-> <<<<>>>>, r |-> 1, c |-> 0, alt |-> "none", drawn |-> FALSE,
              below |-> 0, last |-> NoFrame, partial |-> NoColumn,
              source |-> Nowhere, spinner |-> FALSE]
    /\ snapshot = Hidden /\ held = <<>> /\ said = <<>>

-----------------------------------------------------------------------------
(* The terminal *)

LineFeed(t) == [t EXCEPT !.rows = IF t.r = Len(@) THEN Append(@, <<>>) ELSE @,
                         !.r = @ + 1, !.c = 0]
PrintCell(t, x) ==
    LET s == IF t.c = Columns THEN LineFeed(t) ELSE t IN
    [s EXCEPT !.rows[s.r] = IF s.c < Len(@) THEN [@ EXCEPT ![s.c + 1] = x]
                            ELSE Append(@, x),
              !.c = @ + 1]
Put(t, text) ==
    FoldLeft(LAMBDA s, x : IF x = NL THEN LineFeed(s) ELSE PrintCell(s, x), t, text)
GoTo(t, row, column) == [t EXCEPT !.r = row, !.c = column]
EraseBelow(t) == [t EXCEPT !.rows =
                    Append(SubSeq(t.rows, 1, t.r - 1), SubSeq(t.rows[t.r], 1, t.c))]
EraseLine(t) == [t EXCEPT !.rows[t.r] = <<>>, !.c = 0]

-----------------------------------------------------------------------------
(* The renderer *)

\* clear_input: back from the alternate screen of a panel, or the composer is
\* erased from its first row; the view of an agent stays.
ClearInput(t) ==
    LET s == [t EXCEPT !.last = NoFrame] IN
    CASE t.alt = "panel" -> [s EXCEPT !.alt = "none", !.drawn = FALSE, !.below = 0]
      [] t.alt = "none" /\ t.drawn ->
            [EraseBelow(GoTo(s, s.r - s.below, 0)) EXCEPT !.drawn = FALSE, !.below = 0]
      [] OTHER -> s

ClearSpinner(t) == IF t.spinner THEN [EraseLine(t) EXCEPT !.spinner = FALSE] ELSE t

\* _resume_output_cursor
ResumeCursor(t) == IF t.partial = NoColumn THEN t
             ELSE [GoTo(t, t.r - 1, t.partial) EXCEPT !.partial = NoColumn]

\* _finish_output_line_live
FinishLive(t) ==
    IF t.partial = NoColumn THEN t
    ELSE [LineFeed(ResumeCursor(ClearSpinner(ClearInput(t)))) EXCEPT !.source = Nowhere]

\* Where the text leaves the column, as the renderer reckons it.
ColumnAfter(before, text) ==
    LET ends == {i \in 1..Len(text) : text[i] = NL} IN
    IF ends = {} THEN (before + Len(text)) % Columns
    ELSE (Len(text) - CHOOSE i \in ends : \A j \in ends : j <= i) % Columns

\* A stream goes on only as itself: another one begins a line of its own.
OwnLine(t, source) ==
    IF t.partial # NoColumn /\ t.source # source
    THEN [LineFeed(ResumeCursor(t)) EXCEPT !.source = Nowhere]
    ELSE t

\* Colours alone leave an unfinished line unfinished.
KeepsPartial(t, before) ==
    IF before.partial = NoColumn THEN t
    ELSE [LineFeed(t) EXCEPT !.partial = before.partial, !.source = before.source]

\* _write_output_live
WriteLive(t, text, source) ==
    LET ready == OwnLine(ClearSpinner(ClearInput(t)), source)
        at == IF ready.partial = NoColumn THEN 0 ELSE ready.partial
        put == Put(ResumeCursor(ready), text) IN
    IF text = <<>> THEN KeepsPartial(put, ready)
    ELSE IF text[Len(text)] = NL THEN [put EXCEPT !.source = Nowhere]
    ELSE [LineFeed(put) EXCEPT !.partial = ColumnAfter(at, text), !.source = source]

\* _commit_input_live: an empty row and the line of the user.
CommitLive(t) ==
    Put(ClearSpinner(ClearInput(FinishLive(t))), <<NL, "you", NL>>)

Live(t, op) ==
    CASE op.kind = "write" -> WriteLive(t, op.text, op.source)
      [] op.kind = "finish" -> FinishLive(t)
      [] op.kind = "commit" -> CommitLive(t)

\* _render_incremental: only with the same number of rows, no spinner, and no
\* unfinished line above.
Incremental(t, shot) ==
    /\ t.alt = "none" /\ shot.mode = "line"
    /\ t.drawn /\ t.last # NoFrame /\ Len(t.last) = Len(shot.rows)
    /\ ~t.spinner /\ t.partial = NoColumn

Redrawn(t, shot) ==
    LET top == t.r - t.below IN
    [t EXCEPT !.rows = [i \in 1..Len(@) |->
                          IF i \in top..top + Len(shot.rows) - 1
                          THEN shot.rows[i - top + 1] ELSE @[i]],
              !.r = top + shot.cursor, !.below = shot.cursor, !.last = shot.rows]

\* render, outside of the view of an agent.
Draw(t, shot) ==
    IF Incremental(t, shot) THEN Redrawn(t, shot)
    ELSE IF shot.mode = "panel"
    THEN IF t.alt = "panel" THEN ClearSpinner([t EXCEPT !.drawn = TRUE, !.below = 0])
         ELSE [ClearSpinner(ClearInput(t)) EXCEPT !.alt = "panel", !.drawn = TRUE]
    ELSE LET clear == ClearSpinner(ClearInput(t)) IN
         IF shot.mode = "hidden" THEN clear
         ELSE [clear EXCEPT !.rows = SubSeq(@, 1, clear.r - 1) \o shot.rows,
                 !.r = clear.r + shot.cursor, !.drawn = TRUE,
                 !.below = shot.cursor, !.last = shot.rows]

\* close_history: the main screen as it was, its composer erased, what waited
\* is written in order, and the composer drawn.
Replayed(t, waiting) ==
    FoldLeft(Live, ClearInput([t EXCEPT !.alt = "none"]), waiting)

-----------------------------------------------------------------------------
(* What was said *)

\* What was said, as lines: the last one is open while its stream may go on.
Told == [lines |-> <<>>, open |-> Nowhere]
AddLine(log, text, open) == [lines |-> Append(log.lines, text), open |-> open]
WithText(log, source, x) ==
    IF x = NL
    THEN IF log.open = Nowhere THEN AddLine(log, <<>>, Nowhere)
         ELSE [log EXCEPT !.open = Nowhere]
    ELSE IF log.open = source
         THEN [log EXCEPT !.lines[Len(log.lines)] = Append(@, x)]
         ELSE AddLine(log, <<x>>, source)
Tell(log, op) ==
    CASE op.kind = "write" ->
            FoldLeft(LAMBDA l, x : WithText(l, op.source, x),
                     IF log.open = op.source THEN log ELSE [log EXCEPT !.open = Nowhere],
                     op.text)
      [] op.kind = "finish" -> [log EXCEPT !.open = Nowhere]
      [] op.kind = "commit" -> AddLine(AddLine(log, <<>>, Nowhere), <<"you">>, Nowhere)

-----------------------------------------------------------------------------
(* The operations, of the thread that owns the screen *)

Ops == [kind : {"write"}, text : Texts, source : Origins]
       \cup {[kind |-> "finish"], [kind |-> "commit"]}

\* write_output, finish_output_line, commit_input
Output(op) ==
    /\ Len(said) < MaxSaid /\ said' = Append(said, op)
    /\ LET waiting == Append(held, op) IN
       IF canvas.alt # "view" THEN canvas' = Live(canvas, op) /\ UNCHANGED held
       ELSE IF Len(waiting) < DeferLimit THEN held' = waiting /\ UNCHANGED canvas
       ELSE canvas' = Draw(Replayed(canvas, waiting), snapshot) /\ held' = <<>>
    /\ UNCHANGED snapshot

\* A frame that leaves the view no room closes it.
Render(shot) ==
    /\ snapshot' = shot
    /\ \/ canvas.alt # "view" /\ canvas' = Draw(canvas, shot) /\ UNCHANGED held
       \/ canvas.alt = "view" /\ UNCHANGED <<canvas, held>>
       \/ canvas.alt = "view" /\ canvas' = Draw(Replayed(canvas, held), shot)
          /\ held' = <<>>
    /\ UNCHANGED said

\* pick and modals clear the composer themselves.
ClearComposer ==
    /\ canvas' = ClearInput(canvas) /\ UNCHANGED <<snapshot, held, said>>

Spin ==
    /\ ~canvas.drawn /\ canvas.alt # "view"
    /\ canvas' = [EraseLine(canvas) EXCEPT !.rows[canvas.r] = <<"spinner">>, !.spinner = TRUE]
    /\ UNCHANGED <<snapshot, held, said>>

\* open_agent_view, over the composer; another agent only changes the rows.
OpenView ==
    /\ canvas.alt = "none" /\ held' = <<>>
    /\ canvas' = [ClearSpinner(canvas) EXCEPT !.alt = "view"]
    /\ UNCHANGED <<snapshot, said>>

CloseView ==
    /\ canvas.alt = "view"
    /\ canvas' = Draw(Replayed(canvas, held), snapshot) /\ held' = <<>>
    /\ UNCHANGED <<snapshot, said>>

ScreenNext ==
    \/ \E op \in Ops : Output(op)
    \/ \E shot \in Snapshots : Render(shot)
    \/ ClearComposer \/ Spin \/ OpenView \/ CloseView

ScreenSpec == ScreenInit /\ [][ScreenNext]_screenVars

-----------------------------------------------------------------------------
(* Properties *)

AtMostOf(a, b) == IF a < b THEN a ELSE b
RowsOf(line) ==
    IF line = <<>> THEN <<line>>
    ELSE [i \in 1..(Len(line) + Columns - 1) \div Columns |->
            SubSeq(line, (i - 1) * Columns + 1, AtMostOf(i * Columns, Len(line)))]
\* A stream stops at the last column.
StopsAtEdge(ops) ==
    LET log == FoldLeft(Tell, Told, ops) IN
    log.open # Nowhere /\ Len(Last(log.lines)) % Columns = 0

Layout(ops) == FlattenSeq([i \in 1..Len(FoldLeft(Tell, Told, ops).lines) |->
                             RowsOf(FoldLeft(Tell, Told, ops).lines[i])])

\* The scrollback holds every line that was said, in order and whole, however
\* the composer was drawn, the streams alternated and the alternate screen was
\* entered and left, until something is said after a stream that stopped at
\* the last column: the renderer looks for its end in the first one.  What is
\* not there yet waits, in order; and below it is the composer of the last
\* frame, alone.
OutputIsKept ==
    LET shown == SubSeq(said, 1, Len(said) - Len(held))
        top == IF canvas.drawn /\ canvas.alt # "panel" THEN canvas.r - canvas.below ELSE canvas.r IN
    /\ held = SubSeq(said, Len(shown) + 1, Len(said))
    /\ \/ \E n \in 1..Len(shown) - 1 : StopsAtEdge(SubSeq(shown, 1, n))
       \/ SubSeq(canvas.rows, 1, top - 1) = Layout(shown)
    /\ canvas.drawn /\ canvas.last # NoFrame => SubSeq(canvas.rows, top, Len(canvas.rows)) = canvas.last
    /\ ~canvas.drawn \/ canvas.alt = "panel" =>
         SubSeq(canvas.rows, top, Len(canvas.rows)) =
           IF canvas.spinner THEN <<<<"spinner">>>> ELSE <<<<>>>>
=============================================================================
