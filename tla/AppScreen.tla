----------------------------- MODULE AppScreen -----------------------------
(***************************************************************************)
(* core/apprender.py, core/views.py, core/screen.py: the full screen of    *)
(* --app.  The transcript is kept as lines and wrapped to the width in a   *)
(* cache; a window of it, counted from the bottom, is painted above the    *)
(* composer, with the selection marked, by the difference to the frame     *)
(* before.  Other threads post text; the terminal is resized at any time   *)
(* and its signal arrives between two steps of the main thread.            *)
(***************************************************************************)
EXTENDS Integers, Sequences, SequencesExt

CONSTANTS
    Narrow,         \* characters of one cell
    Wide,           \* characters of two cells
    Appended,       \* what is appended: sequences of characters and ends of lines
    Sizes,          \* of the terminal: [cols, rows]
    MaxLength,      \* bound: of what is said, in operations
    MaxResizes,     \* bound: changes of the size
    MaxTouches      \* bound: mouse events, new frames and other sessions

ASSUME AppAssumption ==
    /\ Narrow \intersect Wide = {}
    /\ \A size \in Sizes : size.cols \in Nat \ {0, 1} /\ size.rows \in Nat \ {0, 1}

VARIABLES
    term,       \* the size of the terminal, whether its signal is due, and
                \* (history) whether it came between a wrapping and its taking
    text,       \* the Transcript: lines, partial, and its cache
    view,       \* scroll, selection, the composer's rows (the spinner's with
                \* them), the first row and the number of rows of the last window
    posted,     \* _posted
    paint,      \* where the main thread is in a repaint
    display,      \* what the terminal shows, and prev, what the painter believes
    clip,       \* a copy, until its repaint: what was copied, what is marked,
                \* of which rows
    log         \* everything said, in the order it was taken

appVars == <<term, text, view, posted, paint, display, clip, log>>

LineEnd == "end of line"
NoSelection == <<>>
NoWindow == [lost |-> TRUE]
NoCopy == [copied |-> <<>>, marked |-> <<>>, rows |-> <<>>]

WidthOf(x) == IF x \in Wide THEN 2 ELSE 1
WidthOfText(s) == FoldLeft(LAMBDA n, x : n + WidthOf(x), 0, s)

EmptyTranscript == [lines |-> <<>>, partial |-> <<>>, width |-> 0, cache |-> <<>>,
                    upto |-> 0]

-----------------------------------------------------------------------------
(* core/views.py *)

AtMost(a, b) == IF a < b THEN a ELSE b
AtLeast(a, b) == IF a > b THEN a ELSE b

\* wrap_segments
WrapText(line, width) ==
    LET step(w, x) ==
          IF w.col + WidthOf(x) > width /\ w.col > 0
          THEN [rows |-> Append(w.rows, w.row), row |-> <<x>>, col |-> WidthOf(x)]
          ELSE [w EXCEPT !.row = Append(@, x), !.col = @ + WidthOf(x)]
        end == FoldLeft(step, [rows |-> <<>>, row |-> <<>>, col |-> 0], line) IN
    Append(end.rows, end.row)
WrapAll(lines, width) ==
    FlattenSeq([i \in 1..Len(lines) |-> WrapText(lines[i], width)])

\* append_text
AppendText(t, s) ==
    LET step(u, x) ==
          IF x = LineEnd THEN [u EXCEPT !.lines = Append(@, u.partial), !.partial = <<>>]
          ELSE [u EXCEPT !.partial = Append(@, x)] IN
    FoldLeft(step, t, s)
FinishLine(t) ==
    IF t.partial = <<>> THEN t
    ELSE [t EXCEPT !.lines = Append(@, t.partial), !.partial = <<>>]
AddRow(t, line) == [FinishLine(t) EXCEPT !.lines = Append(@, line)]

\* _ensure_cache, as the thread does it: the cache of another width is dropped,
\* the lines that are missing are wrapped, and taken.
FreshCache(t, width) ==
    IF width = t.width THEN t
    ELSE [t EXCEPT !.cache = <<>>, !.upto = 0, !.width = width]
Unwrapped(t) == SubSeq(t.lines, t.upto + 1, Len(t.lines))
TakeRows(t, rows) == [t EXCEPT !.cache = @ \o rows, !.upto = Len(t.lines)]
EnsureCache(t, width) ==
    LET fresh == FreshCache(t, width) IN TakeRows(fresh, WrapAll(Unwrapped(fresh), width))
TailRows(t, width) == IF t.partial = <<>> THEN <<>> ELSE WrapText(t.partial, width)

\* window: the rows, the offset it comes to, the first row.
CutAt(rows, height, off) ==
    LET start == AtLeast(0, Len(rows) - off - height) IN
    [rows |-> SubSeq(rows, start + 1, Len(rows) - off), offset |-> off, start |-> start]
Cut(rows, height, offset) ==
    CutAt(rows, height, AtMost(offset, AtLeast(0, Len(rows) - height)))
AllRows(t, width) == t.cache \o TailRows(t, width)
WindowOf(t, width, height, offset) == Cut(AllRows(t, width), height, offset)

\* _slice_by_columns
SliceByColumns(s, lo, hi) ==
    LET step(acc, x) ==
          [col |-> acc.col + WidthOf(x), done |-> acc.done \/ acc.col >= hi,
           out |-> IF ~acc.done /\ acc.col < hi /\ acc.col >= lo
                   THEN Append(acc.out, x) ELSE acc.out] IN
    FoldLeft(step, [col |-> 0, done |-> FALSE, out |-> <<>>], s).out

NotAfter(a, b) == a[1] < b[1] \/ (a[1] = b[1] /\ a[2] <= b[2])
Sorted(sel) == IF NotAfter(sel[1], sel[2]) THEN sel ELSE <<sel[2], sel[1]>>

\* selection_text: a row that goes on ends at its number of characters.
TextOfRow(row, r, s) ==
    SliceByColumns(row, IF r = s[1][1] THEN s[1][2] ELSE 0,
                   IF r = s[2][1] THEN s[2][2] + 1 ELSE Len(row))
TextBetween(rows, s) ==
    [i \in 1..AtLeast(0, AtMost(s[2][1], Len(rows) - 1) - s[1][1] + 1) |->
        TextOfRow(rows[s[1][1] + i], s[1][1] + i - 1, s)]
SelectionText(rows, sel) == TextBetween(rows, Sorted(sel))

\* _paint_selection: the characters of a row with a marked cell, the first cell
\* of a wide one.
MarkedOf(row, lo, hi) ==
    LET at(i) == WidthOfText(SubSeq(row, 1, i - 1)) IN
    {i \in 1..Len(row) : lo <= at(i) /\ at(i) <= hi}
MarkedBetween(rows, r, s, cols) ==
    IF r < s[1][1] \/ r > s[2][1] THEN {}
    ELSE MarkedOf(rows[r + 1], IF r = s[1][1] THEN s[1][2] ELSE 0,
                  IF r = s[2][1] THEN s[2][2] ELSE cols - 1)
MarkedRow(rows, r, sel, cols) == MarkedBetween(rows, r, Sorted(sel), cols)
MarkedText(row, marked) ==
    FoldLeft(LAMBDA s, i : IF i \in marked THEN Append(s, row[i]) ELSE s,
             <<>>, [i \in 1..Len(row) |-> i])

-----------------------------------------------------------------------------
(* core/apprender.py *)

AppInit ==
    /\ term \in [size : Sizes, due : {FALSE}, split : {FALSE}, changes : {0},
                touches : {0}]
    /\ text = EmptyTranscript
    /\ view = [scroll |-> 0, selection |-> NoSelection, frame |-> 1,
               start |-> 0, seen |-> 0]
    /\ posted = <<>> /\ log = <<>>
    /\ paint = [at |-> "idle", again |-> FALSE, rows |-> <<>>]
    /\ display = [screen |-> NoWindow, prev |-> NoWindow]
    /\ clip = NoCopy

HeightFor(v, size) == AtLeast(1, size.rows - v.frame)

\* The frame that _repaint_once puts together at a size.
WindowAt(t, v, size) == WindowOf(t, size.cols, HeightFor(v, size), v.scroll)
FrameOf(w, all, v, size) ==
    [size |-> size, rows |-> w.rows, scroll |-> w.offset, frame |-> v.frame,
     marked |-> [i \in 1..Len(w.rows) |->
                    IF v.selection = NoSelection THEN {}
                    ELSE MarkedRow(all, w.start + i - 1, v.selection, size.cols)]]
Frame(t, v, size) ==
    FrameOf(WindowAt(t, v, size), AllRows(t, size.cols), v, size)

\* Renderer.render: cells that are as in the frame before are not sent.
Sent(before, frame) ==
    [screen |-> IF before.prev = NoWindow THEN frame
                ELSE IF before.prev.size # frame.size THEN frame
                ELSE IF before.screen = before.prev THEN frame ELSE NoWindow,
     prev |-> frame]

AtWindow(v, w) == [v EXCEPT !.scroll = w.offset, !.start = w.start, !.seen = Len(w.rows)]

\* An operation of the owner changes the text or the view, and repaints.
AtRest == paint.at = "idle"
Repaints == paint' = [paint EXCEPT !.at = "paint"]
Touch ==
    /\ term.touches < MaxTouches /\ term' = [term EXCEPT !.touches = @ + 1]

Saying == Len(log) < MaxLength
TakePosted(t) == FoldLeft(AppendText, t, posted)

\* post_output, from any thread
PostOutput(s) ==
    /\ Len(log) + Len(posted) < MaxLength /\ posted' = Append(posted, s)
    /\ UNCHANGED <<term, text, view, paint, display, clip, log>>

\* drain_posted, every turn of the loop
DrainPosted ==
    /\ AtRest /\ posted # <<>> /\ Repaints
    /\ text' = TakePosted(text) /\ log' = log \o posted /\ posted' = <<>>
    /\ UNCHANGED <<term, view, display, clip>>

WriteOut(s) ==
    /\ AtRest /\ Saying /\ Repaints
    /\ text' = AppendText(TakePosted(text), s)
    /\ log' = log \o posted \o <<s>> /\ posted' = <<>>
    /\ UNCHANGED <<term, view, display, clip>>

\* finish_output_line
FinishOutput ==
    /\ AtRest /\ text.partial # <<>> /\ Saying /\ Repaints
    /\ text' = FinishLine(text) /\ log' = Append(log, <<LineEnd>>)
    /\ UNCHANGED <<term, view, posted, display, clip>>

\* commit_input: an empty line and the line of the user, its band padded.
CommitInput(x) ==
    /\ AtRest /\ Saying /\ Repaints
    /\ text' = AddRow(AddRow(text, <<>>), <<x>>)
    /\ log' = Append(log, (IF text.partial = <<>> THEN <<>> ELSE <<LineEnd>>) \o <<LineEnd, x, LineEnd>>)
    /\ UNCHANGED <<term, view, posted, display, clip>>

\* set_transcript: another session; what is posted stays.
SetTranscript ==
    /\ AtRest /\ Repaints /\ Touch /\ text.lines # <<>>
    /\ text' = EmptyTranscript /\ log' = <<>> /\ view' = [view EXCEPT !.scroll = 0]
    /\ UNCHANGED <<posted, display, clip>>

\* render, spinner, clear_spinner
RenderFrame ==
    /\ AtRest /\ Repaints /\ Touch
    /\ view' = [view EXCEPT !.frame = 3 - @]
    /\ UNCHANGED <<text, posted, display, clip, log>>

\* scroll_history: the rows are counted, at the size of now; a signal between
\* their wrapping and their taking has them taken twice.
Scrolled(t, amount) ==
    LET rows == Len(t.cache) + Len(TailRows(t, term.size.cols))
        most == AtLeast(0, rows - HeightFor(view, term.size)) IN
    [view EXCEPT !.scroll = CASE amount = "home" -> most
                              [] amount = "end" -> 0
                              [] amount = "up" -> AtMost(@ + 1, most)
                              [] amount = "down" -> AtLeast(0, AtMost(@ - 1, most))]
BeginScroll ==
    /\ AtRest /\ Touch
    /\ text' = FreshCache(text, term.size.cols)
    /\ paint' = [paint EXCEPT !.at = "wrapping",
                              !.rows = WrapAll(Unwrapped(text'), term.size.cols)]
    /\ UNCHANGED <<view, posted, display, clip, log>>
EndScroll(amount) ==
    /\ paint.at = "wrapping"
    /\ text' = TakeRows(text, paint.rows)
    /\ view' = Scrolled(text', amount)
    /\ paint' = [paint EXCEPT !.at = "paint", !.rows = <<>>]
    /\ UNCHANGED <<term, posted, display, clip, log>>

CloseHistory ==
    /\ AtRest /\ Repaints
    /\ view.scroll > 0 \/ view.selection # NoSelection
    /\ view' = [view EXCEPT !.scroll = 0, !.selection = NoSelection]
    /\ UNCHANGED <<term, text, posted, display, clip, log>>

\* history_mouse: where the mouse is, by the last window; the row counts from 0.
AtMouse(x, y) == <<view.start + y, x>>
OnText(y) == y < view.seen
Press(x, y) ==
    /\ AtRest /\ Repaints /\ OnText(y) /\ Touch
    /\ view' = [view EXCEPT !.selection = <<AtMouse(x, y), AtMouse(x, y)>>]
    /\ UNCHANGED <<text, posted, display, clip, log>>
Drag(x, y) ==
    /\ AtRest /\ Repaints /\ OnText(y) /\ view.selection # NoSelection /\ Touch
    /\ view' = [view EXCEPT !.selection[2] = AtMouse(x, y)]
    /\ UNCHANGED <<text, posted, display, clip, log>>
Selects(all, sel, copied) ==
    IF \A i \in 1..Len(copied) : copied[i] = <<>>
    THEN view' = [view EXCEPT !.selection = NoSelection] /\ clip' = NoCopy
    ELSE /\ view' = [view EXCEPT !.selection = sel]
         /\ clip' = [copied |-> copied,
                     marked |-> [i \in 1..Len(copied) |->
                        LET r == Sorted(sel)[1][1] + i - 1 IN
                        MarkedText(all[r + 1], MarkedRow(all, r, sel, term.size.cols))],
                     rows |-> [i \in 1..Len(copied) |-> all[Sorted(sel)[1][1] + i]]]
Copies(all, sel) == Selects(all, sel, SelectionText(all, sel))
Release(x, y) ==
    /\ AtRest /\ Repaints /\ OnText(y) /\ view.selection # NoSelection /\ Touch
    /\ text' = EnsureCache(text, term.size.cols)
    /\ Copies(AllRows(text', term.size.cols),
              [view.selection EXCEPT ![2] = AtMouse(x, y)])
    /\ UNCHANGED <<posted, display, log>>

\* _repaint: the window is put together, then written; a signal meanwhile asks
\* for it again.
BeginPaint ==
    /\ paint.at = "paint"
    /\ text' = EnsureCache(text, term.size.cols)
    /\ view' = AtWindow(view, WindowAt(text', view, term.size))
    /\ paint' = [paint EXCEPT !.at = "painting",
                              !.rows = Frame(text', view, term.size)]
    /\ UNCHANGED <<term, posted, display, clip, log>>
EndPaintFaulty ==
    /\ paint.at = "painting"
    /\ display' = Sent(display, paint.rows)
    /\ paint' = [paint EXCEPT !.at = "idle", !.again = FALSE, !.rows = <<>>]
    /\ clip' = NoCopy /\ UNCHANGED <<term, text, view, posted, log>>
EndPaint ==
    /\ paint.at = "painting"
    /\ display' = [Sent(display, paint.rows) EXCEPT !.prev = IF paint.again THEN NoWindow ELSE @]
    /\ paint' = [paint EXCEPT !.at = IF paint.again THEN "paint" ELSE "idle",
                              !.again = FALSE, !.rows = <<>>]
    /\ clip' = NoCopy /\ UNCHANGED <<term, text, view, posted, log>>

\* The terminal changes its size, and what it shows with it.
Resize(size) ==
    /\ term.changes < MaxResizes /\ size # term.size
    /\ term' = [term EXCEPT !.size = size, !.due = TRUE, !.changes = @ + 1]
    /\ display' = [display EXCEPT !.screen = NoWindow]
    /\ UNCHANGED <<text, view, posted, paint, clip, log>>

\* _on_winch, between two steps of the main thread
OnWinch ==
    /\ term.due
    /\ term' = [term EXCEPT !.due = FALSE, !.split = @ \/ paint.at = "wrapping"]
    /\ IF paint.at = "painting"
       THEN paint' = [paint EXCEPT !.again = TRUE] /\ UNCHANGED <<text, view, display>>
       ELSE /\ text' = EnsureCache(text, term.size.cols)
            /\ view' = AtWindow(view, WindowAt(text', view, term.size))
            /\ LET frame == Frame(text', view, term.size) IN
               display' = [screen |-> frame, prev |-> frame]
            /\ UNCHANGED paint
    /\ UNCHANGED <<posted, clip, log>>

AppNext ==
    \/ \E s \in Appended : PostOutput(s) \/ WriteOut(s)
    \/ DrainPosted \/ FinishOutput \/ SetTranscript \/ RenderFrame \/ CloseHistory
    \/ \E x \in Narrow : CommitInput(x)
    \/ BeginScroll
    \/ \E amount \in {"up", "down", "home", "end"} : EndScroll(amount)
    \/ \E x \in 0..term.size.cols - 1, y \in 0..term.size.rows - 1 :
            Press(x, y) \/ Drag(x, y) \/ Release(x, y)
    \/ BeginPaint \/ EndPaint \/ OnWinch
    \/ \E size \in Sizes : Resize(size)

AppSpec == AppInit /\ [][AppNext]_appVars

-----------------------------------------------------------------------------
(* Properties *)

\* When the main thread rests and no signal is due, the terminal shows the end
\* of everything that was said, wrapped to the width it has, above the composer
\* of the height it has, with the selected cells marked: whatever was resized
\* in the middle of a paint, scrolled or posted, and however little was sent.
\* Once the signal has come between a wrapping and its taking, rows may be
\* there twice.
ShowsEndOf(rows, height) ==
    /\ display.screen.size = term.size
    /\ display.screen.rows =
         SubSeq(rows, AtLeast(0, Len(rows) - view.scroll - height) + 1,
                Len(rows) - view.scroll)
    /\ Len(display.screen.rows) = AtMost(height, Len(rows))
    /\ display.screen.marked =
         [i \in 1..Len(display.screen.rows) |->
            IF view.selection = NoSelection THEN {}
            ELSE MarkedRow(rows, view.start + i - 1, view.selection, term.size.cols)]
Wrapped(said, width) == WrapAll(said.lines, width) \o TailRows(said, width)
ScreenIsCurrent ==
    AtRest /\ ~term.due /\ ~term.split /\ display.prev # NoWindow =>
        ShowsEndOf(Wrapped(AppendText(EmptyTranscript, FlattenSeq(log)),
                           term.size.cols),
                   HeightFor(view, term.size))

\* What a drag copies is what it marks, of rows of narrow characters; of others
\* no more than that, and in order.
CopiedIsMarked ==
    \A i \in DOMAIN clip.rows :
        IF ToSet(clip.rows[i]) \cap Wide = {} THEN clip.copied[i] = clip.marked[i]
        ELSE IsPrefix(clip.copied[i], clip.marked[i])

AppScreenIsTrue == ScreenIsCurrent /\ CopiedIsMarked
=============================================================================
