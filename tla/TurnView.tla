------------------------------ MODULE TurnView ------------------------------
(***************************************************************************)
(* What a turn shows: Session.turn and Session._turn_managed of zylab.py,  *)
(* which take the events of Agent.run one after the other, and             *)
(* core/thinking.py, which takes what a model thought out of what it said. *)
(* A text event carries characters cut anywhere, tags included.  Rendered  *)
(* text waits in a buffer, Markdown keeps the end of it until it is clear  *)
(* what it is, and blocks (tools, results, notices, prompts) go between.   *)
(*                                                                         *)
(* A cell of the screen is <<what, n>>: a character with n = 0, a block    *)
(* with the number of its tool call, or 1.  `agent' is Agent.run, with the *)
(* messages the model has sent in this turn; `marks' and `since' are       *)
(* history: the length of the text when each boundary was drawn, and what  *)
(* was shown when the first thought came.                                  *)
(*                                                                         *)
(* Left out: which input the owner takes (ManagedTurn), where a terminal   *)
(* puts it (InlineScreen), activity lines, spinners, wording.              *)
(***************************************************************************)
EXTENDS Integers, Sequences, FiniteSets, SequencesExt

CONSTANTS
    OpenTag, CloseTag,    \* the tags: OPEN and CLOSE of thinking.py
    Blanks,         \* characters that are stripped
    Chunks,         \* what a text event may carry: sequences of characters
    MaxKeep,        \* MAX_KEEP: thoughts that are kept for /expand think
    Paths,          \* "managed" with a controller, "plain" for zylab -p
    MaxShown        \* bound: events of a turn

ASSUME ViewAssumption ==
    /\ OpenTag # <<>> /\ CloseTag # <<>> /\ OpenTag[1] \notin Blanks
    /\ MaxKeep \in Nat /\ MaxShown \in Nat
    /\ Paths \subseteq {"managed", "plain"}

VARIABLES
    path,       \* which of the two runs
    agent,      \* [at, messages, calls, sent, events]
    filter,     \* ThinkFilter: [state, held]
    page,       \* [last, tail, pending, streaming, chars, kept, folded, due, screen, marks]
    told,       \* plan_event_task_ids and workflow_event_task_ids
    since,      \* when the first thought came: [text, tools], and late
    outcome        \* [pc, status, seen]: the loop, the outcome, why it ended

viewVars == <<path, agent, filter, page, told, since, outcome>>

Managed == path = "managed"
Cells(s) == [i \in 1..Len(s) |-> <<s[i], 0>>]
Icon == <<"icon", 1>>
BlockKinds == {"tool", "result", "card", "prompt", "ended"}

-----------------------------------------------------------------------------
(* core/thinking.py *)

Stripped(s) ==
    LET solid == {i \in 1..Len(s) : s[i] \notin Blanks}
    IN  IF solid = {} THEN <<>> ELSE SubSeq(s, Min(solid), Len(s))

\* Where the closing tag stands in s.
Closing(s) == {i \in 1..Len(s) : IsPrefix(CloseTag, SubSeq(s, i, Len(s)))}

\* Inside a thought: up to its end, or all but a tail that may be a cut tag.
Inside(s) ==
    LET keep == IF Len(s) < Len(CloseTag) THEN Len(s) ELSE Len(CloseTag) - 1
    IN  IF Closing(s) # {}
        THEN [state |-> "visible", held |-> <<>>,
              hidden |-> SubSeq(s, 1, Min(Closing(s)) - 1),
              shown |-> SubSeq(s, Min(Closing(s)) + Len(CloseTag), Len(s))]
        ELSE [state |-> "think", held |-> SubSeq(s, Len(s) - keep + 1, Len(s)),
              hidden |-> SubSeq(s, 1, Len(s) - keep), shown |-> <<>>]

\* ThinkFilter.feed
Fed(f, chunk) ==
    LET all == f.held \o chunk
        head == Stripped(all)
    IN  IF f.state = "think" THEN Inside(all)
        ELSE IF f.state = "undecided" /\ IsPrefix(OpenTag, head)
        THEN Inside(SubSeq(head, Len(OpenTag) + 1, Len(head)))
        ELSE IF f.state = "undecided" /\ IsPrefix(head, OpenTag)
        THEN [state |-> "undecided", held |-> all, hidden |-> <<>>, shown |-> <<>>]
        ELSE [state |-> "visible", held |-> <<>>, hidden |-> <<>>, shown |-> all]

\* ThinkFilter.finish: what is let go at the end.
LetGo(f) == IF f.state = "think" THEN <<>> ELSE f.held
Unclosed(f) == IF f.state = "think" THEN f.held ELSE <<>>

\* ThinkingTracker.add
Think(v, s) ==
    LET all == v.kept \o s
    IN  [v EXCEPT !.chars = @ + Len(s),
                  !.kept = SubSeq(all, 1, IF Len(all) < MaxKeep THEN Len(all) ELSE MaxKeep)]

-----------------------------------------------------------------------------
(* What _turn_managed does with the screen.  In turn everything is written  *)
(* at once, so that nothing is pending, and thoughts are not mentioned.     *)

Flushed(v) == [v EXCEPT !.screen = @ \o v.pending, !.pending = <<>>]

FinishMarkdown(v) == [v EXCEPT !.pending = @ \o Cells(v.tail), !.tail = <<>>]

EmitBlock(v, what, n) == [Flushed(v) EXCEPT !.screen = Append(@, <<what, n>>)]

\* A block between two messages, or two parts of one.
Boundary(v, what, n) == [EmitBlock(v, what, n) EXCEPT !.marks = Append(@, Len(v.last))]

EmitThinking(v) ==
    IF Managed /\ v.chars > 0 /\ ~v.folded
    THEN EmitBlock([v EXCEPT !.folded = TRUE], "fold", 1) ELSE v

RenderDispatched(v) ==
    IF v.due
    THEN [Boundary(FinishMarkdown(v), "prompt", 1) EXCEPT !.due = FALSE, !.streaming = FALSE]
    ELSE v

\* Markdown shows what it is fed but for a tail of its own.
Fill(v, s, keep) ==
    LET all == v.tail \o s
    IN  [v EXCEPT !.last = @ \o s,
                  !.tail = SubSeq(all, Len(all) - keep + 1, Len(all)),
                  !.pending = @ \o Cells(SubSeq(all, 1, Len(all) - keep))]

Stream(v) ==
    IF v.streaming THEN v ELSE [v EXCEPT !.pending = Append(@, Icon), !.streaming = TRUE]

Broke(v) == [Boundary(FinishMarkdown(v), "ended", 1) EXCEPT !.streaming = FALSE]

-----------------------------------------------------------------------------
(* What Agent.run does for the next event. *)

Passed(at) == [agent EXCEPT !.at = at, !.events = @ + 1]

Takes == outcome.pc = "turn" /\ agent.events < MaxShown

Between == agent.at # "call"

\* The model speaks: in a message that is open, or in the next one.
Spoken(chunk, thought) ==
    [Passed("message") EXCEPT
        !.thought = @ + thought,
        !.messages = IF agent.at = "message" THEN [@ EXCEPT ![Len(@)] = @ \o chunk]
                     ELSE Append(@, chunk)]

Called(name) ==
    [Passed("call") EXCEPT !.sent = FALSE,
                          !.calls = Append(@, [name |-> name, end |-> "none", same |-> FALSE])]

NoText == agent.messages = <<>> \/ Stripped(Last(agent.messages)) = <<>>

ToolsDrawn == Cardinality({i \in DOMAIN page.screen : page.screen[i][1] = "tool"})

\* What is remembered of the first thought.
Noticed(thought) ==
    since' = IF page.chars = 0 /\ thought # <<>>
             THEN [since EXCEPT !.text = Len(page.last), !.tools = ToolsDrawn] ELSE since

-----------------------------------------------------------------------------
(* The events of a managed turn. *)

Reasoning(thought) ==
    /\ Takes /\ Between
    /\ agent' = Spoken(<<>>, Len(thought))
    /\ Noticed(thought)
    /\ page' = Think(RenderDispatched(page), thought)
    /\ UNCHANGED <<path, filter, told, outcome>>

\* A text event passes the filter.
Filtered(chunk, fed) ==
    /\ Takes /\ Between
    /\ agent' = Spoken(chunk, 0)
    /\ Noticed(fed.hidden)
    /\ filter' = [state |-> fed.state, held |-> fed.held]
    /\ UNCHANGED <<path, told, outcome>>

TextEvent(chunk) ==
    LET fed == Fed(filter, chunk)
        heard == Think(RenderDispatched(page), fed.hidden)
    IN  /\ Managed
        /\ Filtered(chunk, fed)
        /\ IF fed.shown = <<>> THEN page' = heard
           ELSE \E keep \in 0..Len(heard.tail \o fed.shown), wait \in BOOLEAN :
                    LET v == Fill(Stream(EmitThinking(heard)), fed.shown, keep)
                    IN  page' = IF wait THEN v ELSE Flushed(v)

\* Time passes: what waits is written.
Poll ==
    /\ Managed /\ outcome.pc = "turn"
    /\ page.pending # <<>> \/ page.due
    /\ page' = Flushed(RenderDispatched(page))
    /\ UNCHANGED <<path, agent, filter, told, since, outcome>>

ToolStart(name) ==
    /\ Managed /\ Takes /\ Between
    /\ agent' = Called(name)
    /\ page' = [Boundary(FinishMarkdown(EmitThinking(RenderDispatched(page))),
                         "tool", Len(agent'.calls)) EXCEPT !.streaming = FALSE]
    /\ UNCHANGED <<path, filter, told, since, outcome>>

Announced(v) ==
    /\ agent' = Passed(agent.at)
    /\ page' = EmitBlock(v, "notice", 1)
    /\ UNCHANGED <<path, filter, told, since, outcome>>

\* Tasks, gates, hooks and routes.
NoticeEvent == Managed /\ Takes /\ Announced(RenderDispatched(page))

\* What a tool reports of goals, of the graph and of children.
RuntimeNotice == Managed /\ Takes /\ ~Between /\ Announced(RenderDispatched(page))

\* Old results or old turns are dropped from the context.
ContextNotice == Managed /\ Takes /\ Between /\ Announced(RenderDispatched(page))

\* handle_input_events: notices of other threads, and what commands print.
OwnerNotice ==
    /\ Managed /\ outcome.pc \in {"turn", "closing"} /\ agent.events < MaxShown
    /\ Announced(page)

\* A block in the place of the result, none for a plan that is what it was; a
\* notice for one that is refused, and the result.
PlanEvent(valid, same) ==
    LET n == Len(agent.calls)
        v == RenderDispatched(page)
    IN  /\ Managed /\ Takes /\ ~Between
        /\ agent.calls[n].name = "plan" /\ ~agent.sent
        /\ same => valid
        /\ agent' = [Passed("call") EXCEPT !.sent = TRUE, !.calls[n].same = same]
        /\ told' = IF valid THEN told \cup {n} ELSE told
        /\ page' = IF ~valid THEN EmitBlock(v, "notice", 1)
                   ELSE IF same THEN v ELSE Boundary(v, "card", n)
        /\ UNCHANGED <<path, filter, since, outcome>>

WorkflowEvent ==
    LET n == Len(agent.calls)
    IN  /\ Managed /\ Takes /\ ~Between
        /\ agent.calls[n].name = "flow" /\ ~agent.sent
        /\ agent' = [Passed("call") EXCEPT !.sent = TRUE]
        /\ told' = told \cup {n}
        /\ page' = Boundary(RenderDispatched(page), "card", n)
        /\ UNCHANGED <<path, filter, since, outcome>>

\* show_result writes below what is on the screen, whatever is pending.
ShowResult(v, n) ==
    [v EXCEPT !.screen = Append(@, <<"result", n>>), !.marks = Append(@, Len(v.last))]

\* finish_tool has dispatched a steer before the event is there.
ToolEnd(end, steer) ==
    LET n == Len(agent.calls)
        v == RenderDispatched([page EXCEPT !.due = @ \/ steer])
    IN  /\ Managed /\ Takes /\ ~Between
        /\ end = "background" => agent.calls[n].name = "bash"
        /\ agent' = [Passed("batch") EXCEPT !.calls[n].end = end]
        /\ page' = IF end = "background" \/ n \in told THEN v ELSE ShowResult(v, n)
        /\ told' = told \ {n}
        /\ UNCHANGED <<path, filter, since, outcome>>

\* A call that is not begun, for another of its batch was cancelled or failed.
SkippedCall ==
    /\ Managed /\ Takes /\ agent.at = "batch"
    /\ agent' = [Passed("batch") EXCEPT
                    !.calls = Append(@, [name |-> "bash", end |-> "done", same |-> FALSE])]
    /\ page' = ShowResult(RenderDispatched(page), Len(agent'.calls))
    /\ UNCHANGED <<path, filter, told, since, outcome>>

\* An answer without calls that a steer is waiting for: the turn goes on.
Steered ==
    /\ Managed /\ Takes /\ agent.at = "message" /\ ~NoText
    /\ agent' = Passed("between")
    /\ page' = [page EXCEPT !.due = TRUE]
    /\ UNCHANGED <<path, filter, told, since, outcome>>

-----------------------------------------------------------------------------
(* The end of a managed turn.  Run returns after its last event. *)

Closes(status, why) ==
    outcome' = [pc |-> IF Managed THEN "closing" ELSE "finally",
             status |-> status, seen |-> outcome.seen \cup {why}]

Ending(v) ==
    /\ Takes /\ Between
    /\ page' = v
    /\ agent' = Passed("between")
    /\ UNCHANGED <<path, filter, told, since>>

\* Below the last event, the prompt of the turn that is dispatched next.
Prompted(v, next) == RenderDispatched([v EXCEPT !.due = @ \/ next])

\* A steer that waits goes on with the turn.
Interrupted(continuing, next) ==
    /\ Managed
    /\ continuing => next
    /\ Ending(Prompted(Broke(page), next))
    /\ IF continuing THEN UNCHANGED outcome ELSE Closes("interrupted", "interrupted")

Error(next) ==
    /\ Managed
    /\ Ending(Prompted(Broke(page), next))
    /\ Closes("error", "error")

\* Nothing was said, or the turn is not let go on.
Partial == agent.at # "message" \/ NoText

Completed(v) == [Flushed(FinishMarkdown(v)) EXCEPT !.streaming = FALSE]

EndsWith == IF Partial THEN Closes("error", "partial") ELSE Closes("ok", "end")

End(next) ==
    /\ Managed
    /\ Ending(Prompted(IF Partial THEN Broke(page) ELSE Completed(page), next))
    /\ EndsWith

Broken(v, status, why) ==
    /\ outcome.pc = "turn" \/ (Managed /\ outcome.pc = "closing")
    /\ page' = v
    /\ outcome' = [pc |-> "finally", status |-> status, seen |-> outcome.seen \cup {why}]
    /\ UNCHANGED <<path, agent, filter, told, since>>

\* Also after the last event, while the last inputs are taken.
KeyboardInterrupt == Managed /\ Broken(Broke(page), "interrupted", "keyboard")

\* Another exception, of the agent or of an input.
Raised == Broken(page, outcome.status, "raised")

Concludes ==
    outcome' = [outcome EXCEPT !.pc = "over", !.status = IF @ = "running" THEN "protocol_error" ELSE @]

\* finally: the filter lets go what it held, then the thoughts are mentioned.
Finally ==
    LET rest == LetGo(filter)
        heard == Think(page, Unclosed(filter))
    IN  /\ Managed /\ outcome.pc \in {"closing", "finally"}
        /\ \E keep \in 0..Len(heard.tail \o rest) :
               page' = Flushed(FinishMarkdown(EmitThinking(
                           IF rest = <<>> THEN heard ELSE Fill(heard, rest, keep))))
        /\ filter' = [state |-> IF filter.state = "think" THEN "think" ELSE "visible", held |-> <<>>]
        /\ since' = [(IF page.chars = 0 /\ Unclosed(filter) # <<>>
                      THEN [since EXCEPT !.text = Len(page.last), !.tools = ToolsDrawn] ELSE since)
                     EXCEPT !.late = Len(rest)]
        /\ Concludes
        /\ UNCHANGED <<path, agent, told>>

-----------------------------------------------------------------------------
(* Session.turn, without a controller: the same events but for those of     *)
(* tasks, plans and steers.                                                 *)

PlainText(chunk) ==
    LET fed == Fed(filter, chunk)
        heard == Think(page, fed.hidden)
    IN  /\ ~Managed
        /\ Filtered(chunk, fed)
        /\ IF fed.shown = <<>> THEN page' = heard
           ELSE \E keep \in 0..Len(heard.tail \o fed.shown) :
                    page' = Flushed(Fill(Stream(heard), fed.shown, keep))

PlainToolStart(name) ==
    /\ ~Managed /\ Takes /\ Between
    /\ agent' = Called(name)
    /\ page' = [Boundary(FinishMarkdown(page), "tool", Len(agent'.calls)) EXCEPT !.streaming = FALSE]
    /\ UNCHANGED <<path, filter, told, since, outcome>>

PlainToolEnd ==
    /\ ~Managed /\ Takes /\ ~Between
    /\ agent' = [Passed("batch") EXCEPT !.calls[Len(agent.calls)].end = "done"]
    /\ page' = ShowResult(page, Len(agent.calls))
    /\ UNCHANGED <<path, filter, told, since, outcome>>

PlainNotice == ~Managed /\ Takes /\ Announced(page)

PlainEnd ==
    /\ ~Managed
    /\ \/ Ending(Broke(page)) /\ Closes("interrupted", "interrupted")
       \/ Ending(Broke(page)) /\ Closes("error", "error")
       \/ Ending(IF Partial THEN Broke(page) ELSE Completed(page)) /\ EndsWith

PlainInterrupt == ~Managed /\ Broken(Broke(page), "interrupted", "keyboard")

PlainFinally ==
    /\ ~Managed /\ outcome.pc = "finally"
    /\ page' = Flushed(FinishMarkdown(page))
    /\ Concludes
    /\ UNCHANGED <<path, agent, filter, told, since>>

-----------------------------------------------------------------------------

ViewInit ==
    /\ path \in Paths
    /\ agent = [at |-> "between", messages |-> <<>>, thought |-> 0, calls |-> <<>>,
                sent |-> FALSE, events |-> 0]
    /\ filter = [state |-> "undecided", held |-> <<>>]
    /\ page = [last |-> <<>>, tail |-> <<>>, pending |-> <<>>, streaming |-> FALSE,
               chars |-> 0, kept |-> <<>>, folded |-> FALSE, due |-> FALSE,
               screen |-> <<>>, marks |-> <<>>]
    /\ told = {}
    /\ since = [text |-> 0, tools |-> 0, late |-> 0]
    /\ outcome = [pc |-> "turn", status |-> "running", seen |-> {}]

ViewNext ==
    \/ \E chunk \in Chunks : TextEvent(chunk) \/ PlainText(chunk) \/ Reasoning(chunk)
    \/ \E name \in {"bash", "plan", "flow"} : ToolStart(name) \/ PlainToolStart(name)
    \/ \E valid, same \in BOOLEAN : PlanEvent(valid, same)
    \/ WorkflowEvent
    \/ \E end \in {"done", "background"}, steer \in BOOLEAN : ToolEnd(end, steer)
    \/ PlainToolEnd \/ SkippedCall \/ Steered \/ Poll
    \/ NoticeEvent \/ RuntimeNotice \/ ContextNotice \/ OwnerNotice \/ PlainNotice
    \/ \E next \in BOOLEAN : \/ Error(next) \/ End(next)
                             \/ \E continuing \in BOOLEAN : Interrupted(continuing, next)
    \/ PlainEnd \/ KeyboardInterrupt \/ PlainInterrupt \/ Raised
    \/ Finally \/ PlainFinally

ViewSpec == ViewInit /\ [][ViewNext]_viewVars

-----------------------------------------------------------------------------
(* Properties *)

\* What a message says and thinks, read as a whole.
Thinks(m) == IsPrefix(OpenTag, Stripped(m))
Inner(m) == SubSeq(Stripped(m), Len(OpenTag) + 1, Len(Stripped(m)))
Visible(m) ==
    IF ~Thinks(m) THEN m
    ELSE IF Closing(Inner(m)) = {} THEN <<>>
    ELSE SubSeq(Inner(m), Min(Closing(Inner(m))) + Len(CloseTag), Len(Inner(m)))
Thought(m) ==
    IF ~Thinks(m) THEN <<>>
    ELSE IF Closing(Inner(m)) = {} THEN Inner(m)
    ELSE SubSeq(Inner(m), 1, Min(Closing(Inner(m))) - 1)

Everything == FlattenSeq(agent.messages)
Chars(cells) == SelectSeq(cells, LAMBDA c : c[2] = 0)

\* Before: the cells of the screen above the i-th, of one kind.
CharsAbove(i) == Cardinality({j \in 1..i - 1 : page.screen[j][2] = 0})
ToolsAbove(i) == Cardinality({j \in 1..i - 1 : page.screen[j][1] = "tool"})
CellsOf(what) == {i \in DOMAIN page.screen : page.screen[i][1] = what}

\* However its text is cut, what the model says is on the screen, in the
\* buffer or with Markdown, once and in order, and what it thinks is counted;
\* the filter holds back the rest, and lets it go at the end of a managed turn
\* (turn never calls finish, and loses it).  All messages of a turn pass one
\* filter; what that does to each of them is in EachMessageIsSplit.
TextIsKept ==
    /\ Chars(page.screen \o page.pending) \o Cells(page.tail) = Cells(page.last)
    /\ page.last \o LetGo(filter) = Visible(Everything)
    /\ page.chars + Len(Unclosed(filter)) = Len(Thought(Everything)) + agent.thought
    /\ Len(page.kept) = IF page.chars < MaxKeep THEN page.chars ELSE MaxKeep
    /\ outcome.pc = "over" =>
         /\ page.pending = <<>> /\ page.tail = <<>>
         /\ Managed => filter.held = <<>>

\* Thoughts are mentioned in one line of a managed turn, which stands above
\* everything that came after the first of them: the tools, and the text but
\* for what the filter let go at the end.
ThoughtsComeFirst ==
    /\ Cardinality(CellsOf("fold")) = IF page.folded THEN 1 ELSE 0
    /\ \A i \in CellsOf("fold") :
         CharsAbove(i) <= since.text + since.late /\ ToolsAbove(i) = since.tools
    /\ Managed /\ page.chars > 0 /\ ~page.folded =>
         Len(page.last) = since.text /\ ToolsDrawn = since.tools /\ outcome.pc # "over"

\* A tool, its result, a prompt and the end of a message stand below all the
\* text that was shown of the messages before, and each run of text begins with
\* its icon (what the filter let go at the end has none); a call that ended
\* has either its result or the plan or workflow it led to, once, unless it
\* went to the background or left the plan as it was.
BlocksInOrder ==
    LET drawn == SelectSeq([i \in DOMAIN page.screen |-> <<page.screen[i][1], CharsAbove(i)>>],
                           LAMBDA c : c[1] \in BlockKinds)
    IN  /\ Len(drawn) = Len(page.marks)
        /\ \A i \in DOMAIN drawn : drawn[i][2] = page.marks[i]
        /\ \A i \in DOMAIN page.screen :
             page.screen[i][2] = 0 /\ CharsAbove(i) < Len(page.last) - since.late =>
               \E j \in CellsOf("icon") : /\ j < i
                                     /\ \A k \in j..i : page.screen[k][1] \notin BlockKinds
        /\ \A n \in DOMAIN agent.calls :
             Cardinality({i \in CellsOf("result") \cup CellsOf("card") : page.screen[i][2] = n})
             <= IF agent.calls[n].end = "background" THEN 0 ELSE 1
        /\ \A n \in DOMAIN agent.calls : agent.calls[n].end = "done" /\ ~agent.calls[n].same =>
             \E i \in CellsOf("result") \cup CellsOf("card") : page.screen[i][2] = n

\* The outcome, which goals and the exit code of zylab -p go by, tells how the
\* turn ended: ok only after an end that was neither partial nor interrupted.
OutcomeIsTrue ==
    outcome.pc = "over" =>
        outcome.status = IF "keyboard" \in outcome.seen \/ "interrupted" \in outcome.seen THEN "interrupted"
                      ELSE IF outcome.seen \cap {"error", "partial"} # {} THEN "error"
                      ELSE IF "end" \in outcome.seen THEN "ok" ELSE "protocol_error"

\* Every message is split as if it were alone, as core/thinking.py has it, but
\* for a turn in which a message after the first that says something begins
\* with a tag, or the first leaves its tag or its thought open: the filter
\* takes what follows for text, or for more of the thought.
EachMessageIsSplit ==
    LET saying == SelectSeq(agent.messages, LAMBDA m : Stripped(m) # <<>>)
        open == \/ IsPrefix(Stripped(Head(saying)), OpenTag)
                \/ Thinks(Head(saying)) /\ Closing(Inner(Head(saying))) = {}
        astray == \/ Len(saying) > 1 /\ open
                  \/ \E i \in 2..Len(saying) : Thinks(saying[i])
        apart == FlattenSeq([i \in DOMAIN agent.messages |-> Visible(agent.messages[i])])
    IN  ~astray => Stripped(page.last \o LetGo(filter)) = Stripped(apart)

\* All that a turn shows.
TurnIsShown ==
    /\ TextIsKept /\ EachMessageIsSplit /\ ThoughtsComeFirst
    /\ BlocksInOrder /\ OutcomeIsTrue
=============================================================================
