------------------------------ MODULE MCParts ------------------------------
(***************************************************************************)
(* Parts of a session that share no state, checked by one run: a behaviour *)
(* takes the steps of one of them and the others rest in their initial     *)
(* states.  Two modules are looked at twice, each time with another of     *)
(* their concerns bounded away.                                            *)
(***************************************************************************)
EXTENDS ModelRoute, Goal, ContextWindow, Composer, ToolPermission,
        TaskOutput, TaskRun, PlainTurn, Picker, InlineScreen, AppScreen,
        TurnView

CONSTANT Parts      \* which of them are looked at

VARIABLE part

Init ==
    /\ part \in Parts
    /\ RouteInit /\ GoalInit /\ WindowInit /\ ComposerInit
    /\ PermissionInit /\ OutputInit /\ RunInit /\ PlainInit
    /\ PickerInit /\ ScreenInit /\ AppInit /\ ViewInit
    /\ part # "output" => output = [s \in Streams |-> <<>>]
    /\ part # "process" => worker = "asking"
    /\ part # "plain" => ~isChild
    /\ part # "picker" => list = <<>>
    /\ list = SelectSeq(<<"a", "b", "c">>, LAMBDA x : x \in ToSet(list))
    /\ part # "app" => term.size = CHOOSE size \in Sizes : TRUE
    /\ part \notin {"text", "blocks"} => path = "managed"

\* What a process writes: characters cut anywhere, with secrets between them.
MCWritten == {<<>>, <<"L", "c", "M", "d">>, <<"k", "e", "y", "k", "L", "d">>,
              <<"k", "k", "e", "y", "M", "c">>, <<"a", "k", "e">>}
MCSecrets == {<<"k", "e", "y">>}

\* What the model asks for: a call, two that are not run, a gate, fan-out.
MCBatches == {<<"read">>, <<"refused", "bad">>, <<"read", "gate">>, <<"flow">>,
              <<"flow", "gate">>, <<"fork">>, <<"gate">>}

\* What is written to the screen: cells, and where lines end.
MCTexts == {<<"x", NL>>, <<"x", "x">>, <<>>, <<NL, "x">>}
MCAppended == {<<"a", "a", LineEnd, "a">>, <<"w", "a", LineEnd>>}
MCSizes == [cols : {2, 3}, rows : {3}]

\* Tags of three characters that begin and end alike, cut where it matters.
MCOpen == <<"<", "t", ">">>
MCClose == <<"<", "/", ">">>
MCChunks == {<<"<", "t">>, <<">", "x", "<">>, <<"/", ">", "x">>, <<" ">>}

\* One of the callers shows its text only at the end, and lives.
RouteBound ==
    \A c \in Callers \ {CHOOSE c \in Callers : TRUE} :
        caller'[c].pc # "dead" /\ (caller'[c].pc = "stream" => caller'[c].shown = {})

\* Which boundary a plan picks: tools and interrupted calls, first steps only.
PlansBound ==
    /\ hour' = 0 /\ learned' = "nothing" /\ pass'.flag = "none"
    /\ breaker'.failures < 2 /\ pass'.asked \subseteq {"first"}

\* The steps, the breaker and the clock, over a transcript of three prompts.
PassesBound ==
    /\ Len(transcript') <= 3 /\ "refused" \notin attempted'
    /\ \A i \in 1..Len(transcript') : transcript'[i].role = "prompt"
    /\ hour' = 0 \/ learned' = "nothing"

\* Editing, submitting and switching, without gates.
DraftsBound ==
    /\ count'.gates = 0 /\ count'.entered <= 1 /\ Len(events') <= 1
    /\ editor'.busy => ~editor'.search.on /\ count'.pastes = 0

\* Gates and notes over a queue that fills, with plain words in the box.
ModalsBound ==
    /\ count'.pastes = 0 /\ ~editor'.search.on /\ owner'.attached = Main
    /\ \A i \in 1..Len(editor'.text) : editor'.text[i].kind = "word"

\* Modes are explored while nothing is granted and no setting edited; two
\* grants in all; a risky command asks for nothing else.
PermissionBound ==
    /\ auto' => ~accept' /\ ~planMode'
    /\ auto' \/ accept' \/ planMode' \/ readOnly' \/ ~tty'
       \/ unsandboxed' => edits' = 0 /\ \A s \in Chats : records'[s] = {}
    /\ Cardinality({g \in Chats \X Tools : g[2] \in records'[g[1]]}) <= 2
    /\ request'.stage # "none" /\ request'.risky =>
         ~request'.network /\ request'.boundary # "ask"

\* Children have neither gates nor fan-out; a turn of the user has them.
Asked == {spoken'[i].calls : i \in {i \in 1..Len(spoken') :
             spoken'[i].role = "assistant" /\ spoken'[i].calls # <<>>}}
PlainBound ==
    /\ turnsLeft' + 3 >= MaxTurns /\ {<<"gate">>, <<"fork">>} \cap Asked = {}
    /\ IF isChild
       THEN \A c \in Asked : \A j \in 1..Len(c) : c[j] \notin {"gate", "flow"}
       ELSE \A c \in Asked : c[1] # "refused" /\ c # <<"read">>

\* A turn of the user with gates and fan-out alone, where all goes well.
GatesBound ==
    /\ ~stop' /\ ~retried' /\ loop' # "failed"
    /\ \A c \in Asked : {"read", "refused"} \cap ToSet(c) = {}
    /\ \A i \in 1..Len(spoken') : spoken'[i].role = "tool" =>
         spoken'[i].calls[2] \in {"done", "answered", "blocked"}

\* One row comes or goes at a time, from a list of three at its end, and the
\* rows keep their order.
PickerBound ==
    /\ list' = SelectSeq(<<"a", "b", "c">>, LAMBDA x : x \in ToSet(list'))
    /\ Cardinality(SymDiff(ToSet(list), ToSet(list'))) <= 1
    /\ Len(list) = 3 /\ Len(list') < 3 => list' = Front(list)

\* The last of what is said is text of the model.
ScreenBound ==
    Len(said') = MaxSaid => said'[MaxSaid].kind = "write" /\ said'[MaxSaid].source = "model"

\* The terminal is resized, or the user does one thing more.
AppBound == term'.touches + term'.changes <= 2

\* Text of all kinds around one call, without notices.
TextBound ==
    /\ agent'.events = 5 => Managed /\ agent'.calls # <<>>
    /\ Len(agent'.calls) <= 1
    /\ \A i \in DOMAIN agent'.calls : agent'.calls[i].name = "bash"
    /\ \A i \in DOMAIN page'.screen : page'.screen[i][1] \notin {"notice", "prompt"}
    /\ agent'.thought <= 1 /\ Len(page'.tail) <= 1

\* A piece of text or two and a notice with everything else, in four events.
BlocksBound ==
    /\ Len(FlattenSeq(agent'.messages)) <= 4 /\ agent'.thought <= 1
    /\ Cardinality({i \in DOMAIN page'.screen : page'.screen[i][1] = "notice"}) <= 1
    /\ agent'.events <= 4

\* One part moves, the others rest.
Rest(moving) ==
    /\ moving # "route" => UNCHANGED routeVars
    /\ moving # "goal" => UNCHANGED goalVars
    /\ moving # "window" => UNCHANGED windowVars
    /\ moving # "composer" => UNCHANGED composerVars
    /\ moving # "permission" => UNCHANGED permissionVars
    /\ moving # "output" => UNCHANGED outputVars
    /\ moving # "process" => UNCHANGED runVars
    /\ moving # "plain" => UNCHANGED plainVars
    /\ moving # "picker" => UNCHANGED pickerVars
    /\ moving # "screen" => UNCHANGED screenVars
    /\ moving # "app" => UNCHANGED appVars
    /\ moving # "view" => UNCHANGED viewVars

Next ==
    /\ UNCHANGED part
    /\ \/ part = "route" /\ RouteNext /\ RouteBound /\ Rest("route")
       \/ part = "goal" /\ GoalNext /\ Rest("goal")
       \/ part = "plans" /\ WindowNext /\ PlansBound /\ Rest("window")
       \/ part = "passes" /\ WindowNext /\ PassesBound /\ Rest("window")
       \/ part = "drafts" /\ ComposerNext /\ DraftsBound /\ Rest("composer")
       \/ part = "modals" /\ ComposerNext /\ ModalsBound /\ Rest("composer")
       \/ part = "permission" /\ PermissionNext /\ PermissionBound
          /\ Rest("permission")
       \/ part = "output" /\ OutputNext /\ Rest("output")
       \/ part = "process" /\ RunNext /\ Rest("process")
       \/ part = "plain" /\ PlainNext /\ PlainBound /\ Rest("plain")
       \/ part = "gates" /\ PlainNext /\ GatesBound /\ Rest("plain")
       \/ part = "picker" /\ PickerNext /\ PickerBound /\ Rest("picker")
       \/ part = "screen" /\ ScreenNext /\ ScreenBound /\ Rest("screen")
       \/ part = "app" /\ AppNext /\ AppBound /\ Rest("app")
       \/ part = "text" /\ ViewNext /\ TextBound /\ Rest("view")
       \/ part = "blocks" /\ ViewNext /\ BlocksBound /\ Rest("view")

-----------------------------------------------------------------------------
\* The model is sent what stands for the whole transcript, and a compaction
\* that fails again and again is not paid for again and again.
ContextIsSound == ContextIsWhole /\ FailuresAreRationed

\* What the user enters or picks is acted on once and in order: drafts, answers
\* to gates, and the row of a list that changes under the mark.
InputIsMeant == InputIsHandled /\ PickIsMeant

\* A task leaves neither a torn or readable secret in what is shown of it nor
\* a process that nobody knows of.
TasksAreWhole == OutputIsWhole /\ TaskEndsClean

\* A turn shows what the model said, in order and without its thoughts, and both
\* renderers show what they are given: nothing is written over or twice.
ScreenIsTrue == OutputIsKept /\ AppScreenIsTrue /\ TurnIsShown

\* No step repeats what was shown or paid for: retries of a request, rounds of
\* a goal that is another one by now.
StepsAreSound == RetriesAreSound /\ RoundIsCurrent
=============================================================================
