----------------------------- MODULE Composer -----------------------------
(***************************************************************************)
(* The input box.  A thread reads the keys, edits the draft and puts       *)
(* events in a queue (LineEditor and InputPump, src/core/tui.py); the      *)
(* owner loop takes them, switches the box between the main session and a  *)
(* child agent, and opens the modals (src/zylab.py).                       *)
(*                                                                         *)
(* A draft is a sequence of tokens: a word, the start of a slash command,  *)
(* an entry taken from the history or the queue, or a folded paste, which  *)
(* the draft holds as the placeholder with number n only; was is the paste *)
(* it stood for.                                                           *)
(***************************************************************************)
EXTENDS Integers, Sequences, FiniteSets

CONSTANTS
    Agents,         \* children that can be attached
    MaxDraft,       \* bound: tokens of a draft
    MaxPastes,      \* bound: pastes of a run, each another text
    MaxEvents,      \* bound: events of the queue
    MaxSubmits,     \* bound: drafts submitted
    MaxGates        \* bound: decision gates of a run

Main == "main"
Targets == Agents \cup {Main}

VARIABLES
    editor,     \* LineEditor: [text, pastes, target, busy, search]
    modal,      \* the mode of the pump
    events,     \* the queue between the two threads
    deferred,   \* _deferred_pump_events
    owner,      \* [pc, attached, worker: is the asking worker alive]
    drafts,     \* _main_draft and _agent_drafts
    count,      \* [pastes, entered, handled, gates]
    sent        \* the draft the last step gave to the session or a child

composerVars ==
    <<editor, modal, events, deferred, owner, drafts, count, sent>>

NoSearch == [on |-> FALSE, saved |-> <<>>]
Nothing == [to |-> Main, text |-> <<>>]

ComposerInit ==
    /\ editor = [text |-> <<>>, pastes |-> <<>>, target |-> Main,
                 busy |-> FALSE, search |-> NoSearch]
    /\ modal = "line" /\ events = <<>> /\ deferred = <<>>
    /\ owner = [pc |-> "loop", attached |-> Main, worker |-> FALSE]
    /\ drafts = [t \in Targets |-> <<>>]
    /\ count = [pastes |-> 0, entered |-> 0, handled |-> 0, gates |-> 0]
    /\ sent = Nothing

Token(kind, n, was) == [kind |-> kind, n |-> n, was |-> was]

\* expand_pastes: a placeholder whose number is known becomes the text kept
\* under it.
Expanded(text) ==
    [i \in 1 .. Len(text) |->
        IF text[i].kind = "fold" /\ text[i].n <= Len(editor.pastes)
        THEN [text[i] EXCEPT !.kind = "paste", !.n = editor.pastes[@]]
        ELSE text[i]]

Event(kind) == [kind |-> kind, text |-> <<>>, k |-> 0, to |-> Main]
Emit(e) == Len(events) < MaxEvents /\ events' = Append(events, e)
Edited(e) == editor' = e /\ UNCHANGED events

-----------------------------------------------------------------------------
\* The keys.  All but the modals leave the owner's state alone.

OwnerWaits == UNCHANGED <<modal, deferred, owner, drafts>> /\ sent' = Nothing
Line == modal = "line" /\ OwnerWaits
Editing == Line /\ ~editor.search.on

MenuOpen ==
    /\ editor.target = Main /\ editor.text # <<>>
    /\ editor.text[Len(editor.text)].kind = "slash"

\* Any character; in a search it refines the query and shows what it finds.
Type(kind) ==
    /\ Editing /\ Len(editor.text) < MaxDraft
    /\ kind = "slash" => editor.text = <<>>
    /\ Edited([editor EXCEPT !.text = Append(@, Token(kind, 0, 0))])
    /\ UNCHANGED count

\* A long paste is folded; a short one is typing.
Paste ==
    /\ Line /\ Len(editor.text) < MaxDraft /\ count.pastes < MaxPastes
    /\ LET p == count.pastes + 1
       IN /\ Edited([editor EXCEPT
                 !.pastes = Append(@, p), !.search = NoSearch,
                 !.text = Append(@, Token("fold", Len(editor.pastes) + 1, p))])
          /\ count' = [count EXCEPT !.pastes = p]

\* _submit; an empty draft only redraws.
Submit ==
    /\ editor.text # <<>> /\ count.entered < MaxSubmits
    /\ Emit([Event("submit") EXCEPT !.text = Expanded(editor.text),
                                    !.k = count.entered + 1])
    /\ editor' = [editor EXCEPT !.text = <<>>, !.pastes = <<>>]
    /\ count' = [count EXCEPT !.entered = @ + 1]

\* Enter completes the entry under the cursor of an open menu.
Enter ==
    /\ Editing
    /\ IF MenuOpen
       THEN /\ Edited([editor EXCEPT !.text = <<Token("command", 0, 0)>>])
            /\ UNCHANGED count
       ELSE Submit

\* Esc or Ctrl+C; Left at column 0 is the same in a child's box.  Busy: the
\* turn is cancelled and the draft stays.
Escape ==
    /\ Editing
    /\ \/ /\ editor.target # Main
          /\ Emit([Event("detach") EXCEPT !.text = Expanded(editor.text)])
          /\ UNCHANGED editor
       \/ /\ editor.target = Main /\ editor.busy
          /\ Emit(Event("cancel")) /\ UNCHANGED editor
       \/ /\ editor.target = Main /\ ~editor.busy
          /\ Edited([editor EXCEPT !.text = <<>>, !.pastes = <<>>])
    /\ UNCHANGED count

\* Up: the queue gives its last entry back, or the history one of its entries.
Up ==
    /\ Editing /\ ~MenuOpen
    /\ IF editor.target = Main /\ editor.busy
       THEN Emit(Event("retrieve")) /\ UNCHANGED editor
       ELSE Edited([editor EXCEPT !.text = <<Token("old", 0, 0)>>])
    /\ UNCHANGED count

\* Down leaves the history with an empty draft.
Down ==
    /\ Editing /\ ~MenuOpen
    /\ \E i \in 1 .. Len(editor.text) : editor.text[i].kind = "old"
    /\ Edited([editor EXCEPT !.text = <<>>])
    /\ UNCHANGED count

Backspace ==
    /\ Editing /\ editor.text # <<>>
    /\ Edited([editor EXCEPT !.text = SubSeq(@, 1, Len(@) - 1)])
    /\ UNCHANGED count

\* Ctrl+R keeps the draft and shows entries of the history instead.
SearchStart ==
    /\ Editing
    /\ Edited([editor EXCEPT !.search = [on |-> TRUE, saved |-> editor.text]])
    /\ UNCHANGED count
SearchFinds ==
    /\ Line /\ editor.search.on
    /\ Edited([editor EXCEPT !.text = <<Token("old", 0, 0)>>])
    /\ UNCHANGED count
SearchEnd(restore) ==
    /\ Line /\ editor.search.on
    /\ Edited([editor EXCEPT !.search = NoSearch,
                  !.text = IF restore THEN editor.search.saved ELSE @])
    /\ UNCHANGED count

\* The roster under the box, by Enter on its line or by a click; a click does
\* not pass the editor, so a search goes on.
Roster(t) ==
    /\ Line
    /\ Emit(IF t = Main THEN Event("main") ELSE [Event("attach") EXCEPT !.to = t])
    /\ UNCHANGED <<editor, count>>

\* A modal takes every key; its last one closes it in this thread.
ModalKey ==
    /\ modal # "line"
    /\ Emit(Event(IF modal = "gate" THEN "result" ELSE "notes"))
    /\ modal' = "line"
    /\ UNCHANGED <<editor, deferred, owner, drafts, count>> /\ sent' = Nothing

Key ==
    \/ \E kind \in {"word", "slash"} : Type(kind)
    \/ Paste
    \/ Enter
    \/ Escape
    \/ Up
    \/ Down
    \/ Backspace
    \/ SearchStart
    \/ SearchFinds
    \/ \E restore \in BOOLEAN : SearchEnd(restore)
    \/ \E t \in Targets : Roster(t)
    \/ ModalKey

-----------------------------------------------------------------------------
\* The owner loop.

\* What was put off is played before what is in the queue.
TakenFaulty(e) ==
    IF events # <<>>
    THEN e = Head(events) /\ events' = Tail(events) /\ UNCHANGED deferred
    ELSE /\ deferred # <<>> /\ e = Head(deferred) /\ deferred' = Tail(deferred)
         /\ UNCHANGED events
Taken(e) ==
    IF deferred # <<>>
    THEN e = Head(deferred) /\ deferred' = Tail(deferred) /\ UNCHANGED events
    ELSE /\ events # <<>> /\ e = Head(events) /\ events' = Tail(events)
         /\ UNCHANGED deferred

\* configure(target) and replace_buffer: the search of the editor goes on.
Shows(t, text) == editor' = [editor EXCEPT !.target = t, !.text = text]

Attach(e) ==
    /\ e.kind = "attach" /\ e.to # owner.attached
    /\ drafts' = [drafts EXCEPT ![owner.attached] = editor.text]
    /\ Shows(e.to, drafts[e.to])
    /\ owner' = [owner EXCEPT !.attached = e.to]
    /\ UNCHANGED count /\ sent' = Nothing

Detach(e) ==
    /\ e.kind \in {"detach", "main"} /\ owner.attached # Main
    /\ drafts' = [drafts EXCEPT ![owner.attached] =
                     IF e.kind = "detach" THEN e.text ELSE editor.text]
    /\ Shows(Main, drafts[Main])
    /\ owner' = [owner EXCEPT !.attached = Main]
    /\ UNCHANGED count /\ sent' = Nothing

\* A command stays with the main session, anything else goes where the owner
\* is attached now.
IsCommand(text) == text # <<>> /\ text[1].kind \in {"command", "slash"}
Submitted(e) ==
    /\ e.kind = "submit"
    /\ sent' = [to |-> IF IsCommand(e.text) THEN Main ELSE owner.attached,
                text |-> e.text]
    /\ count' = [count EXCEPT !.handled = e.k]
    /\ UNCHANGED <<editor, owner, drafts>>

Retrieve(e) ==
    /\ e.kind = "retrieve"
    /\ \/ editor' = [editor EXCEPT !.text = <<Token("old", 0, 0)>>]
       \/ UNCHANGED editor
    /\ UNCHANGED <<owner, drafts, count>> /\ sent' = Nothing

\* Cancel, a result nobody waits for, a switch to where the box is already.
Passes(e) ==
    /\ \/ e.kind \in {"cancel", "result", "notes"}
       \/ e.kind = "attach" /\ e.to = owner.attached
       \/ e.kind \in {"detach", "main"} /\ owner.attached = Main
    /\ UNCHANGED <<editor, owner, drafts, count>> /\ sent' = Nothing

Waiting == {(deferred \o events)[i] : i \in 1 .. Len(deferred \o events)}
Handle ==
    /\ owner.pc = "loop" /\ UNCHANGED modal
    /\ \E e \in Waiting :
        /\ Taken(e)
        /\ Attach(e) \/ Detach(e) \/ Submitted(e) \/ Retrieve(e) \/ Passes(e)

TurnChanges ==
    /\ owner.pc = "loop"
    /\ editor' = [editor EXCEPT !.busy = ~@]
    /\ UNCHANGED <<modal, events, deferred, owner, drafts, count>> /\ sent' = Nothing

\* A tool asks: the owner drained the queue, opens the gate and waits for its
\* result, putting off what else comes.
AskGate ==
    /\ owner.pc = "loop" /\ events = <<>> /\ deferred = <<>>
    /\ count.gates < MaxGates
    /\ modal' = "gate"
    /\ owner' = [owner EXCEPT !.pc = "gate", !.worker = TRUE]
    /\ count' = [count EXCEPT !.gates = @ + 1]
    /\ UNCHANGED <<editor, events, deferred, drafts>> /\ sent' = Nothing

WorkerDies ==
    /\ owner.pc = "gate" /\ owner.worker
    /\ owner' = [owner EXCEPT !.worker = FALSE]
    /\ UNCHANGED <<editor, modal, events, deferred, drafts, count>> /\ sent' = Nothing

\* dismiss_decision_gate: closes the gate unless the last key has.
GivesUp ==
    /\ owner.pc = "gate" /\ ~owner.worker
    /\ modal' = "line"
    /\ owner' = [owner EXCEPT !.pc = "loop"]
    /\ UNCHANGED <<editor, events, deferred, drafts, count>> /\ sent' = Nothing

WaitsFor(kind, next) ==
    /\ events # <<>> /\ events' = Tail(events)
    /\ IF Head(events).kind # kind
       THEN /\ deferred' = Append(deferred, Head(events))
            /\ UNCHANGED <<owner, modal>>
       ELSE /\ next /\ UNCHANGED deferred
    /\ UNCHANGED <<editor, drafts, count>> /\ sent' = Nothing

\* A choice asks for notes next, a cancelled gate does not.
AtGate ==
    /\ owner.pc = "gate" /\ owner.worker
    /\ WaitsFor("result",
           \/ owner' = [owner EXCEPT !.pc = "notes"] /\ modal' = "notes"
           \/ owner' = [owner EXCEPT !.pc = "loop"] /\ UNCHANGED modal)
AtNotes ==
    /\ owner.pc = "notes"
    /\ WaitsFor("notes", owner' = [owner EXCEPT !.pc = "loop"] /\ UNCHANGED modal)

ComposerNext ==
    \/ Key
    \/ Handle
    \/ TurnChanges
    \/ AskGate
    \/ WorkerDies
    \/ GivesUp
    \/ AtGate
    \/ AtNotes

-----------------------------------------------------------------------------
\* What the user enters reaches the session once, in the order it was entered,
\* also across a modal (tui.py:3555-4600 defers what a modal does not know).
EnteredInOrder ==
    LET line == deferred \o events
        submits == SelectSeq(line, LAMBDA e : e.kind = "submit")
    IN /\ Len(submits) = count.entered - count.handled
       /\ \A i \in 1 .. Len(submits) : submits[i].k = count.handled + i

\* The owner never waits for an answer that cannot come: the modal it opened is
\* still there or its last key is in the queue.  And it never opens a modal
\* over another one (tui.py:4050 raises).
ModalIsAnswered ==
    /\ owner.pc # "loop" =>
           \/ modal = owner.pc
           \/ \E i \in 1 .. Len(events) :
                  events[i].kind = IF owner.pc = "gate" THEN "result" ELSE "notes"
    /\ owner.pc = "loop" => modal = "line"

\* Neither a submitted draft nor an answer the owner waits for gets lost.  What
\* is in the draft is another question: FoldedPasteIsSent.
InputIsHandled == EnteredInOrder /\ ModalIsAnswered

\* A folded paste is submitted as its original ("expanded as it was when
\* submitted", SPEC-CC-parity.md:32), also from a draft that was put aside for
\* a look at another session.
FoldedPasteIsSent ==
    \A i \in 1 .. Len(sent.text) :
        sent.text[i].was # 0 => /\ sent.text[i].kind = "paste"
                                /\ sent.text[i].n = sent.text[i].was
=============================================================================
