------------------------------- MODULE Picker -------------------------------
(***************************************************************************)
(* A panel over a list that changes while it is open: the owner replaces   *)
(* the rows, the reader moves, filters and picks, and the panel is opened  *)
(* again where it was after each action.  Keys and replacements exclude    *)
(* each other; what the user meant is the row the last key left marked.    *)
(***************************************************************************)
EXTENDS Integers, Sequences, FiniteSets, SequencesExt

CONSTANTS
    Items,      \* what the list may hold
    Matching,   \* those the filter of the user keeps
    PageRows,   \* rows a page shows
    Explicit    \* "/" begins a filter; otherwise each letter does

VARIABLES
    list,       \* the rows as they are in the world
    panel,      \* the open panel: [on, rows, filter, editing, index, top, count]
    remembered, \* [filter, editing, index, row]: what the last panel returned
    result,     \* [row, meant]: what the last pick returned and should have
    meant       \* the row the last key left marked; with it gone, the one shown

pickerVars == <<list, panel, remembered, result, meant>>

NoItem == "none"
NoResult == [row |-> NoItem, meant |-> NoItem]
Lists == {s \in BoundedSeq(Items, Cardinality(Items)) : IsInjective(s)}
Closed == [on |-> FALSE, rows |-> <<>>, filter |-> FALSE, editing |-> FALSE,
           index |-> 1, top |-> 0, count |-> 0]

\* _picker_view, and the row that is marked in it.
View(p) == IF p.filter THEN SelectSeq(p.rows, LAMBDA r : r \in Matching) ELSE p.rows
Marked(p) == IF p.index \in 1..Len(View(p)) THEN View(p)[p.index] ELSE NoItem

\* _picker_snapshot: the index stays in the view, the window holds the index.
Smaller(a, b) == IF a < b THEN a ELSE b
Larger(a, b) == IF a > b THEN a ELSE b

Snapshot(p) ==
    LET n == Len(View(p))
        i == Smaller(p.index, Larger(1, n))
        first == Larger(0, Smaller(i - 1, Larger(0, n - PageRows)))
        top == IF i > first + PageRows THEN i - PageRows ELSE first IN
    [p EXCEPT !.index = i, !.top = top, !.count = Smaller(PageRows, n - top)]

\* The place of a row in the view, or the place there was.
PlaceOf(p, row, otherwise) ==
    IF row # NoItem /\ Contains(View(p), row)
    THEN CHOOSE i \in 1..Len(View(p)) : View(p)[i] = row
    ELSE otherwise

PickerInit ==
    /\ list \in Lists /\ panel = Closed /\ meant = NoItem
    /\ remembered = [filter |-> FALSE, editing |-> FALSE, index |-> 1, row |-> NoItem]
    /\ result = NoResult

ListChanges ==
    /\ list' \in Lists
    /\ UNCHANGED <<panel, remembered, result, meant>>

\* open_picker with the state of the panel before it.
OpenPanel ==
    /\ ~panel.on
    /\ LET p == [Closed EXCEPT !.on = TRUE, !.rows = list,
                    !.filter = remembered.filter, !.editing = remembered.editing] IN
       panel' = Snapshot([p EXCEPT !.index =
                    PlaceOf(p, remembered.row, remembered.index)])
    /\ meant' = IF Contains(View(panel'), remembered.row) THEN remembered.row
                ELSE Marked(panel')
    /\ result' = NoResult
    /\ UNCHANGED <<list, remembered>>

\* replace_picker_rows: the mark goes with its row, and stays put without it.
KeepsRow(p, rows) == PlaceOf([p EXCEPT !.rows = rows], Marked(p),
    Smaller(p.index, Larger(1, Len(View([p EXCEPT !.rows = rows])))))

Replace ==
    /\ panel.on /\ panel.rows # list
    /\ panel' = Snapshot([panel EXCEPT !.rows = list, !.index = KeepsRow(panel, list)])
    /\ meant' = IF Contains(View(panel'), meant) THEN meant ELSE Marked(panel')
    /\ UNCHANGED <<list, remembered, result>>

\* A key that leaves the panel open, and what it marks.
Stays(p) ==
    /\ panel' = Snapshot(p) /\ meant' = Marked(panel')
    /\ UNCHANGED <<list, remembered, result>>

Filtering == ~Explicit \/ panel.editing

Move(step) ==
    /\ panel.on
    /\ Stays(IF View(panel) = <<>> THEN panel
             ELSE [panel EXCEPT !.index = ((@ - 1 + step) % Len(View(panel))) + 1])

Wheel(step) ==
    /\ panel.on
    /\ Stays([panel EXCEPT !.index = Larger(1, Smaller(Len(View(panel)), @ + step))])

TypeFilter(on) ==
    /\ panel.on /\ Filtering /\ panel.filter # on
    /\ Stays([panel EXCEPT !.filter = on, !.index = 1])

EditFilter ==
    /\ panel.on /\ Explicit /\ ~panel.editing
    /\ Stays([panel EXCEPT !.editing = TRUE])

\* _close_picker returns the row with the state to open the panel with again.
Close(p, row, wanted) ==
    /\ panel' = Closed
    /\ result' = [row |-> row, meant |-> wanted]
    /\ remembered' = [filter |-> p.filter, editing |-> p.editing, index |-> p.index,
                      row |-> Marked(p)]
    /\ meant' = NoItem
    /\ UNCHANGED list

\* Enter acts at once, other keys only while no filter is typed.
Act(key) ==
    /\ panel.on /\ (key = "enter" \/ ~Explicit \/ ~panel.editing)
    /\ Close(panel, Marked(panel), meant)

\* A click: the row that the last frame has at that place.
Click(place) ==
    /\ panel.on /\ place \in 1..panel.count
    /\ LET p == [panel EXCEPT !.index = panel.top + place] IN
         Close(p, Marked(p), Marked(p))

EscapePanel ==
    /\ panel.on
    /\ IF Explicit /\ panel.editing THEN Stays([panel EXCEPT !.editing = FALSE])
       ELSE Close(panel, NoItem, NoItem)

PickerNext ==
    \/ ListChanges \/ OpenPanel \/ Replace
    \/ \E step \in {-1, 1} : Move(step) \/ Wheel(step)
    \/ \E on \in BOOLEAN : TypeFilter(on)
    \/ EditFilter \/ \E key \in {"enter", "action"} : Act(key)
    \/ \E place \in 1..PageRows : Click(place)
    \/ EscapePanel

PickerSpec == PickerInit /\ [][PickerNext]_pickerVars

\* What is picked is what was marked when the user last pressed a key,
\* whatever was replaced since, unless that row went away meanwhile; and the
\* marked row is always on the page.
PickIsMeant ==
    /\ result.row = result.meant
    /\ panel.on /\ View(panel) # <<>> =>
         panel.index \in panel.top + 1 .. panel.top + panel.count
=============================================================================
