-------------------------- MODULE SessionController --------------------------
(***************************************************************************)
(* The serial reducer of core/controller.py and the event journal it       *)
(* writes.  Every public method first appends its events to the journal    *)
(* and only then changes the reducer, so each method is one action here;   *)
(* a method that performs a second journal write (the dispatch of the next *)
(* queued input) may lose that second write when JournalMayFail, which     *)
(* leaves exactly the state the raised exception leaves.                   *)
(*                                                                         *)
(* The journal is kept as its projection: for every input, turn, request,  *)
(* tool call and interaction, how far its events have got.  What a restart *)
(* sees is this projection and nothing else.                               *)
(*                                                                         *)
(* No caller is modelled: any method may be called whenever its own checks *)
(* let it through.  ManagedTurn.tla composes the callers.                  *)
(***************************************************************************)
EXTENDS Naturals, FiniteSets

CONSTANTS
    MaxInputs,      \* bound: inputs submitted over the life of the session
    Turns,          \* turn ids (uuid4 in the code: fresh, unordered)
    Requests,       \* provider request ids
    Calls,          \* tool call ids chosen by the provider
    Asks,           \* interaction request ids chosen by the tool worker
    None,           \* "no such thing": Python's None
    JournalMayFail, \* may the second journal write of a method raise?
    Restarts        \* TRUE: at REPL start-up, FALSE: by /resume in a REPL

Inputs == 1..MaxInputs      \* numbered in enqueue order

ASSUME ConstantsAssumption ==
    /\ MaxInputs \in Nat
    /\ JournalMayFail \in BOOLEAN
    /\ Restarts \subseteq BOOLEAN
    /\ None \notin Turns \cup Requests \cup Calls \cup Asks \cup Inputs

\* steer, next_turn and goal (an internal next_turn) become user messages;
\* command and shell run on the owner thread: both are "local" here.
Kinds == {"steer", "next_turn", "goal", "local"}

\* TOOL_RUNNING_BACKGROUND is left out: no method ever enters it.
States == {"IDLE", "MODEL_STREAMING", "TOOL_WAITING_APPROVAL",
           "TOOL_RUNNING_FOREGROUND", "TOOL_WAITING_DECISION",
           "PICKER", "REWIND", "EXITING"}

VARIABLES
    inputs,         \* the queued_inputs table, and to which turn a row went
    turnLog,        \* per turn: none, open, completed, failed
    requestLog,     \* per request: its last event, and its turn
    callLog,        \* per tool call: its last event, and its turn
    askLog          \* per interaction: none, open, resolved, aborted

journal == <<inputs, turnLog, requestLog, callLog, askLog>>

VARIABLES
    state,          \* ControllerState
    turn,           \* current_turn_id
    request,        \* current_request_id (request_handle goes with it)
    cancelling,     \* cancel of the active request was asked for
    local,          \* _local_action
    pending,        \* _pending_tools
    approved,       \* _approved_tool
    running,        \* _running_tool
    task,           \* a task id is bound to the running tool
    toolCancelling, \* _tool_cancelling
    ask,            \* _interaction_request_id
    queue           \* _queue: ids of the inputs held in memory

toolVars == <<pending, approved, running, task, toolCancelling, ask>>
requestVars == <<request, cancelling>>
vars == <<journal, state, turn, requestVars, local, toolVars, queue>>

-----------------------------------------------------------------------------

Allowed == [s \in States |->
    CASE s = "IDLE" -> {"MODEL_STREAMING", "TOOL_RUNNING_FOREGROUND",
                        "PICKER", "REWIND", "EXITING"}
      [] s = "MODEL_STREAMING" -> {"IDLE", "TOOL_WAITING_APPROVAL",
                                   "TOOL_RUNNING_FOREGROUND", "EXITING"}
      [] s = "TOOL_WAITING_APPROVAL" -> {"IDLE", "MODEL_STREAMING",
                                   "TOOL_RUNNING_FOREGROUND", "EXITING"}
      [] s = "TOOL_RUNNING_FOREGROUND" -> {"IDLE", "MODEL_STREAMING",
              "TOOL_WAITING_APPROVAL", "TOOL_WAITING_DECISION", "EXITING"}
      [] s = "TOOL_WAITING_DECISION" -> {"TOOL_RUNNING_FOREGROUND",
              "TOOL_WAITING_APPROVAL", "MODEL_STREAMING", "IDLE", "EXITING"}
      [] s \in {"PICKER", "REWIND"} -> {"IDLE", "EXITING"}
      [] OTHER -> {}]

\* _transition: an edge the table lacks raises and leaves the state alone.
Transition(s) == IF s \in Allowed[state] THEN s ELSE state

First(i, S) == i \in S /\ \A j \in S : i <= j
Latest(i, S) == i \in S /\ \A j \in S : j <= i

\* Faulty variant: any user message is taken for a steer.
SteersFaulty == {i \in queue : inputs[i].kind # "local"}
Steers == {i \in queue : inputs[i].kind = "steer"}

\* What dispatch_ready may take: never a steer, a goal only through the gate.
Dispatchable(ins, q, gate) ==
    {i \in q : ins[i].kind # "steer" /\ (ins[i].kind = "goal" => gate)}

\* _dispatch_new_turn: the row, the user message and turn_started in one batch.
DispatchNewTurn(i, ins, tl) ==
    /\ ins[i].kind \in {"next_turn", "goal"}
    /\ \E t \in Turns :
        /\ tl[t] = "none"
        /\ inputs' = [ins EXCEPT ![i] =
                [@ EXCEPT !.st = "dispatched", !.turn = t]]
        /\ turnLog' = [tl EXCEPT ![t] = "open"]
        /\ turn' = t
    /\ local' = None
    /\ state' = "MODEL_STREAMING"

\* Faulty variant: a local action is said to run in the background.
DispatchLocalFaulty(i, ins, tl) ==
    /\ ins[i].kind = "local"
    /\ inputs' = [ins EXCEPT ![i].st = "dispatched"]
    /\ turnLog' = tl
    /\ turn' = None
    /\ local' = i
    /\ state' = "TOOL_RUNNING_BACKGROUND"

\* _dispatch_local: a command or shell line, run by the owner thread.
DispatchLocal(i, ins, tl) ==
    /\ ins[i].kind = "local"
    /\ inputs' = [ins EXCEPT ![i].st = "dispatched"]
    /\ turnLog' = tl
    /\ turn' = None
    /\ local' = i
    /\ state' = "TOOL_RUNNING_FOREGROUND"

\* dispatch_ready of an idle reducer that already committed ins, q and tl.
DispatchReady(ins, q, tl, gate) ==
    LET ready == Dispatchable(ins, q, gate) IN
    \/ /\ ready = {} \/ JournalMayFail
       /\ inputs' = ins /\ queue' = q /\ turnLog' = tl
       /\ turn' = None /\ local' = None
       /\ state' = "IDLE"
    \/ \E i \in ready :
        /\ First(i, ready)
        /\ queue' = q \ {i}
        /\ DispatchNewTurn(i, ins, tl) \/ DispatchLocal(i, ins, tl)

\* The common tail "turn is over: _transition(IDLE), return dispatch_ready()".
ThenIdle(tl) ==
    IF "IDLE" \in Allowed[state] \cup {state}
    THEN DispatchReady(inputs, queue, tl, FALSE)
    ELSE /\ turnLog' = tl
         /\ turn' = None /\ local' = None
         /\ UNCHANGED <<inputs, queue, state>>

\* dispatch_at_boundary: the oldest queued steer joins the current turn.
DispatchSteer ==
    \/ \E i \in Steers :
        /\ First(i, Steers)
        /\ inputs' = [inputs EXCEPT ![i] =
                [@ EXCEPT !.st = "dispatched", !.turn = turn]]
        /\ queue' = queue \ {i}
    \/ /\ Steers = {} \/ JournalMayFail
       /\ UNCHANGED <<inputs, queue>>

-----------------------------------------------------------------------------
(* Inputs *)

\* submit: persisted, then queued, then dispatched at once if idle.
Submit(k) ==
    /\ state \notin {"PICKER", "REWIND", "TOOL_WAITING_APPROVAL", "EXITING"}
    /\ k = "steer" => turn # None
    /\ \E i \in Inputs :
        /\ First(i, {j \in Inputs : inputs[j].st = "absent"})
        /\ LET ins == [inputs EXCEPT ![i] =
                  [kind |-> k, st |-> "queued", turn |-> None, aim |-> turn]]
           IN IF turn = None /\ local = None /\ state = "IDLE"
              THEN DispatchReady(ins, queue \cup {i}, turnLog, FALSE)
              ELSE /\ inputs' = ins
                   /\ queue' = queue \cup {i}
                   /\ UNCHANGED <<turnLog, turn, local, state>>
    /\ UNCHANGED <<requestLog, callLog, askLog, requestVars, toolVars>>

\* cancel_queued_item: the row first, then the local view.
CancelQueuedItems(S) ==
    /\ inputs' = [i \in Inputs |-> IF i \in S
                    THEN [inputs[i] EXCEPT !.st = "cancelled"] ELSE inputs[i]]
    /\ queue' = queue \ S
    /\ UNCHANGED <<turnLog, requestLog, callLog, askLog, state, turn,
                   requestVars, local, toolVars>>

\* retrieve_latest: Up takes back the newest undispatched input.
RetrieveLatest == \E i \in queue : Latest(i, queue) /\ CancelQueuedItems({i})

\* cancel_internal_inputs: goal continuations, oldest first, one write each.
CancelInternalInputs ==
    LET goals == {i \in queue : inputs[i].kind = "goal"} IN
    \E S \in SUBSET goals :
        /\ S # {}
        /\ S = goals \/ JournalMayFail
        /\ \A i \in S, j \in goals \ S : i < j
        /\ CancelQueuedItems(S)

\* The owner calling dispatch_ready itself, with the goal gate open or not.
OwnerDispatch(gate) ==
    /\ turn = None /\ local = None /\ state = "IDLE"
    /\ Dispatchable(inputs, queue, gate) # {}
    /\ DispatchReady(inputs, queue, turnLog, gate)
    /\ UNCHANGED <<requestLog, callLog, askLog, requestVars, toolVars>>

\* finish_local_action.
FinishLocalAction ==
    /\ local # None
    /\ ThenIdle(turnLog)
    /\ UNCHANGED <<requestLog, callLog, askLog, requestVars, toolVars>>

-----------------------------------------------------------------------------
(* Provider requests *)

\* Faulty variant: the cancel intent is not written.
LogRequestFaulty(r, st) ==
    IF st = "cancel_requested" THEN requestLog
    ELSE [requestLog EXCEPT ![r] = [st |-> st, turn |-> turn]]
LogRequest(r, st) == [requestLog EXCEPT ![r] = [st |-> st, turn |-> turn]]

\* begin_request.
BeginRequest ==
    /\ state = "MODEL_STREAMING"
    /\ turn # None
    /\ request = None
    /\ \E r \in Requests :
        /\ requestLog[r].st = "none"
        /\ requestLog' = LogRequest(r, "started")
        /\ request' = r
    /\ cancelling' = FALSE
    /\ UNCHANGED <<inputs, turnLog, callLog, askLog, state, turn, local,
                   toolVars, queue>>

\* request_cancel with an active request; asking twice changes nothing.
RequestCancel ==
    /\ request # None
    /\ ~cancelling
    /\ requestLog' = LogRequest(request, "cancel_requested")
    /\ cancelling' = TRUE
    /\ UNCHANGED <<inputs, turnLog, callLog, askLog, state, turn, request,
                   local, toolVars, queue>>

\* The active request is over: handle released, id and cancel flag cleared.
CloseRequest(st) ==
    /\ request # None
    /\ requestLog' = LogRequest(request, st)
    /\ request' = None
    /\ cancelling' = FALSE

\* acknowledge_interrupt: with a steer waiting the turn goes on with it.
AcknowledgeInterrupt ==
    /\ CloseRequest("interrupted")
    /\ IF Steers # {}
       THEN /\ DispatchSteer
            /\ UNCHANGED <<turnLog, turn, local, state>>
       ELSE ThenIdle([turnLog EXCEPT ![turn] = "failed"])
    /\ UNCHANGED <<callLog, askLog, toolVars>>

\* complete_response: the assistant message with its tool calls C.
CompleteResponse(C) ==
    /\ ~cancelling
    /\ CloseRequest("committed")
    /\ \A c \in C : callLog[c].st = "none"
    /\ callLog' = [c \in Calls |-> IF c \in C
                     THEN [st |-> "requested", turn |-> turn] ELSE callLog[c]]
    /\ IF C # {}
       THEN /\ pending' = C
            /\ state' = Transition("TOOL_WAITING_APPROVAL")
            /\ UNCHANGED <<inputs, queue, turnLog, turn, local>>
       ELSE /\ IF Steers # {}
               THEN /\ DispatchSteer
                    /\ UNCHANGED <<turnLog, turn, local, state>>
               ELSE ThenIdle([turnLog EXCEPT ![turn] = "completed"])
            /\ UNCHANGED pending
    /\ UNCHANGED <<askLog, approved, running, task, toolCancelling, ask>>

\* fail_request: the provider error ends the turn.
FailRequest ==
    /\ CloseRequest("failed")
    /\ ask' = None
    /\ ThenIdle([turnLog EXCEPT ![turn] = "failed"])
    /\ UNCHANGED <<callLog, askLog, pending, approved, running, task,
                   toolCancelling>>

\* retry_request, and finish_aux_request (compaction): the turn goes on.
EndRequestOnly(st) ==
    /\ CloseRequest(st)
    /\ UNCHANGED <<inputs, turnLog, callLog, askLog, state, turn, local,
                   toolVars, queue>>

RetryRequest == EndRequestOnly("failed")
FinishAuxRequest == EndRequestOnly("completed") \/ EndRequestOnly("failed")

\* fail_turn: between requests; every tool slot is dropped.
FailTurn ==
    /\ turn # None
    /\ request = None
    /\ ask = None
    /\ pending' = {} /\ approved' = None /\ running' = None
    /\ task' = FALSE /\ toolCancelling' = FALSE
    /\ ThenIdle([turnLog EXCEPT ![turn] = "failed"])
    /\ UNCHANGED <<requestLog, callLog, askLog, requestVars, ask>>

-----------------------------------------------------------------------------
(* Tool calls *)

\* Faulty variant: a cancel request is recorded as the end of the call.
LogCallFaulty(c, st) ==
    [callLog EXCEPT ![c].st = IF st = "cancel_requested" THEN "finished" ELSE st]
LogCall(c, st) == [callLog EXCEPT ![c].st = st]

\* After a call is settled: the next one of the batch, or the boundary.
\* A transition that raises (only out of EXITING) never reaches the boundary.
AfterCall(boundary) ==
    IF pending' # {}
    THEN /\ state' = Transition("TOOL_WAITING_APPROVAL")
         /\ UNCHANGED <<inputs, queue>>
    ELSE /\ state' = Transition("MODEL_STREAMING")
         /\ IF boundary /\ state' = "MODEL_STREAMING"
            THEN DispatchSteer
            ELSE UNCHANGED <<inputs, queue>>

\* decide_tool, allowed: permission recorded, nothing started yet.
ApproveTool(c) ==
    /\ state = "TOOL_WAITING_APPROVAL"
    /\ approved = None
    /\ c \in pending
    /\ callLog' = LogCall(c, "approved")
    /\ pending' = pending \ {c}
    /\ approved' = c
    /\ UNCHANGED <<inputs, turnLog, requestLog, askLog, state, turn,
                   requestVars, local, running, task, toolCancelling, ask,
                   queue>>

\* decide_tool, denied: the tool result is written together with the denial.
DenyTool(c, boundary) ==
    /\ state = "TOOL_WAITING_APPROVAL"
    /\ approved = None
    /\ c \in pending
    /\ callLog' = LogCall(c, "finished")
    /\ pending' = pending \ {c}
    /\ IF pending' # {}
       THEN UNCHANGED <<state, inputs, queue>>
       ELSE AfterCall(boundary)
    /\ UNCHANGED <<turnLog, requestLog, askLog, turn, requestVars, local,
                   approved, running, task, toolCancelling, ask>>

\* start_tool: after every gate before the side effect has passed.
StartTool ==
    /\ state = "TOOL_WAITING_APPROVAL"
    /\ approved # None
    /\ callLog' = LogCall(approved, "started")
    /\ running' = approved
    /\ approved' = None
    /\ task' = FALSE
    /\ toolCancelling' = FALSE
    /\ state' = Transition("TOOL_RUNNING_FOREGROUND")
    /\ UNCHANGED <<inputs, turnLog, requestLog, askLog, turn, requestVars,
                   local, pending, ask, queue>>

\* abort_approved_tool: a gate before the side effect failed.
AbortApprovedTool ==
    /\ state = "TOOL_WAITING_APPROVAL"
    /\ approved # None
    /\ callLog' = LogCall(approved, "finished")
    /\ approved' = None
    /\ UNCHANGED pending
    /\ IF pending # {}
       THEN UNCHANGED <<state, inputs, queue>>
       ELSE AfterCall(TRUE)
    /\ UNCHANGED <<turnLog, requestLog, askLog, turn, requestVars, local,
                   running, task, toolCancelling, ask>>

\* register_tool_task: the task is in the journal before its worker runs.
RegisterToolTask ==
    /\ state = "TOOL_RUNNING_FOREGROUND"
    /\ running # None
    /\ ~task
    /\ task' = TRUE
    /\ UNCHANGED <<journal, state, turn, requestVars, local, pending,
                   approved, running, toolCancelling, ask, queue>>

\* request_tool_cancel (request_cancel without a request ends up here).
RequestToolCancel ==
    /\ request = None
    /\ state \in {"TOOL_RUNNING_FOREGROUND", "TOOL_WAITING_DECISION"}
    /\ running # None
    /\ ~toolCancelling
    /\ callLog' = LogCall(running, "cancel_requested")
    /\ toolCancelling' = TRUE
    /\ UNCHANGED <<inputs, turnLog, requestLog, askLog, state, turn,
                   requestVars, local, pending, approved, running, task, ask,
                   queue>>

\* begin_interaction: a running tool parks one question with the owner.
BeginInteraction ==
    /\ state = "TOOL_RUNNING_FOREGROUND"
    /\ running # None
    /\ ask = None
    /\ \E a \in Asks :
        /\ askLog[a].st = "none"
        /\ askLog' = [askLog EXCEPT ![a] = [st |-> "open", call |-> running]]
        /\ ask' = a
    /\ state' = Transition("TOOL_WAITING_DECISION")
    /\ UNCHANGED <<inputs, turnLog, requestLog, callLog, turn, requestVars,
                   local, pending, approved, running, task, toolCancelling,
                   queue>>

\* resolve_interaction and abort_interaction: only the parked id matches.
EndInteraction(st) ==
    /\ state = "TOOL_WAITING_DECISION"
    /\ running # None
    /\ ask # None
    /\ askLog' = [askLog EXCEPT ![ask].st = st]
    /\ ask' = None
    /\ state' = Transition("TOOL_RUNNING_FOREGROUND")
    /\ UNCHANGED <<inputs, turnLog, requestLog, callLog, turn, requestVars,
                   local, pending, approved, running, task, toolCancelling,
                   queue>>

ResolveInteraction == EndInteraction("resolved")
AbortInteraction == EndInteraction("aborted")

\* finish_tool.
FinishTool(boundary) ==
    /\ running # None
    /\ ask = None
    /\ callLog' = LogCall(running, "finished")
    /\ running' = None
    /\ task' = FALSE
    /\ toolCancelling' = FALSE
    /\ UNCHANGED <<pending, ask, approved>>
    /\ AfterCall(boundary)
    /\ UNCHANGED <<turnLog, requestLog, askLog, turn, requestVars, local>>

-----------------------------------------------------------------------------
(* Modals, exit, restart *)

OnlyState(s) ==
    /\ state' = s
    /\ UNCHANGED <<journal, turn, requestVars, local, toolVars, queue>>

\* open_modal, close_modal (the return state is always IDLE), begin_exit.
OpenModal(m) == state = "IDLE" /\ OnlyState(m)
CloseModal == state \in {"PICKER", "REWIND"} /\ OnlyState("IDLE")
BeginExit == state # "EXITING" /\ OnlyState(Transition("EXITING"))

\* The process dies or the session is closed, and a new reducer is built on
\* the same journal.  At start-up the REPL calls dispatch_ready before it
\* reads its first event; /resume inside a running REPL does not.
Restart(startup) ==
    LET q == {i \in Inputs : inputs[i].st = "queued"} IN
    /\ request' = None /\ cancelling' = FALSE
    /\ pending' = {} /\ approved' = None /\ running' = None
    /\ task' = FALSE /\ toolCancelling' = FALSE /\ ask' = None
    /\ IF startup
       THEN DispatchReady(inputs, q, turnLog, FALSE)
       ELSE /\ queue' = q
            /\ turn' = None /\ local' = None /\ state' = "IDLE"
            /\ UNCHANGED <<inputs, turnLog>>
    /\ UNCHANGED <<requestLog, callLog, askLog>>

-----------------------------------------------------------------------------

Init ==
    /\ inputs = [i \in Inputs |->
          [kind |-> "next_turn", st |-> "absent", turn |-> None, aim |-> None]]
    /\ turnLog = [t \in Turns |-> "none"]
    /\ requestLog = [r \in Requests |-> [st |-> "none", turn |-> None]]
    /\ callLog = [c \in Calls |-> [st |-> "none", turn |-> None]]
    /\ askLog = [a \in Asks |-> [st |-> "none", call |-> None]]
    /\ state = "IDLE"
    /\ turn = None /\ request = None /\ cancelling = FALSE /\ local = None
    /\ pending = {} /\ approved = None /\ running = None
    /\ task = FALSE /\ toolCancelling = FALSE /\ ask = None
    /\ queue = {}

InputNext ==
    \/ \E k \in Kinds : Submit(k)
    \/ RetrieveLatest
    \/ CancelInternalInputs
    \/ \E gate \in BOOLEAN : OwnerDispatch(gate)
    \/ FinishLocalAction

RequestNext ==
    \/ BeginRequest
    \/ RequestCancel
    \/ AcknowledgeInterrupt
    \/ \E C \in SUBSET Calls : CompleteResponse(C)
    \/ FailRequest
    \/ RetryRequest
    \/ FinishAuxRequest
    \/ FailTurn

ToolNext ==
    \/ \E c \in Calls : ApproveTool(c)
    \/ \E c \in Calls, boundary \in BOOLEAN : DenyTool(c, boundary)
    \/ StartTool
    \/ AbortApprovedTool
    \/ RegisterToolTask
    \/ RequestToolCancel
    \/ BeginInteraction
    \/ ResolveInteraction
    \/ AbortInteraction
    \/ \E boundary \in BOOLEAN : FinishTool(boundary)

ModalNext ==
    \/ \E m \in {"PICKER", "REWIND"} : OpenModal(m)
    \/ CloseModal
    \/ BeginExit

Next ==
    \/ InputNext
    \/ RequestNext
    \/ ToolNext
    \/ ModalNext
    \/ \E startup \in Restarts : Restart(startup)

Spec == Init /\ [][Next]_vars

-----------------------------------------------------------------------------

InputRecords == [kind : Kinds,
                 st : {"absent", "queued", "dispatched", "cancelled"},
                 turn : Turns \cup {None}, aim : Turns \cup {None}]
RequestStates == {"none", "started", "cancel_requested", "committed",
                  "completed", "interrupted", "failed"}
CallStates == {"none", "requested", "approved", "started",
               "cancel_requested", "finished"}

TypeOK ==
    /\ inputs \in [Inputs -> InputRecords]
    /\ turnLog \in [Turns -> {"none", "open", "completed", "failed"}]
    /\ requestLog \in
         [Requests -> [st : RequestStates, turn : Turns \cup {None}]]
    /\ callLog \in [Calls -> [st : CallStates, turn : Turns \cup {None}]]
    /\ askLog \in [Asks -> [st : {"none", "open", "resolved", "aborted"},
                            call : Calls \cup {None}]]
    /\ state \in States
    /\ turn \in Turns \cup {None}
    /\ request \in Requests \cup {None}
    /\ cancelling \in BOOLEAN
    /\ local \in Inputs \cup {None}
    /\ pending \subseteq Calls
    /\ approved \in Calls \cup {None}
    /\ running \in Calls \cup {None}
    /\ task \in BOOLEAN
    /\ toolCancelling \in BOOLEAN
    /\ ask \in Asks \cup {None}
    /\ queue \subseteq Inputs

\* The queue the user sees is exactly the durable queue: an input can be
\* neither lost by a restart nor dispatched or taken back a second time,
\* whichever journal write fails on the way.
QueueIsDurable == queue = {i \in Inputs : inputs[i].st = "queued"}

Owed == pending \cup ({approved, running} \ {None})

\* Every tool call of the live turn that has no tool_finished event yet is
\* still held by the reducer, so its result can still be produced: no path
\* through denial, approval, abort and cancellation forgets one.
NoCallForgotten ==
    turn # None =>
        Owed = {c \in Calls : callLog[c].turn = turn
                                /\ callLog[c].st # "finished"}

\* The provider never sees a request while a tool call of the same turn is
\* without its result (the tool protocol of begin_request / finish_tool).
SettledBeforeRequest ==
    request # None =>
        \A c \in Calls : callLog[c].turn = turn => callLog[c].st = "finished"

\* A cancel is in the journal before the response is closed: the handle of
\* the active request is cancelled exactly when the intent is durable.
CancelIntentIsDurable ==
    /\ request # None =>
         requestLog[request] =
           [st |-> IF cancelling THEN "cancel_requested" ELSE "started",
            turn |-> turn]
    /\ running # None =>
         callLog[running] =
           [st |-> IF toolCancelling THEN "cancel_requested" ELSE "started",
            turn |-> turn]

\* A question is parked exactly while its tool waits for the owner, and the
\* journal still shows it open: a late answer finds no other question.
QuestionMatchesTool ==
    ask # None =>
        /\ state \in {"TOOL_WAITING_DECISION", "EXITING"}
        /\ running # None
        /\ askLog[ask] = [st |-> "open", call |-> running]

\* What a restart reads is what the user was shown, whichever journal write
\* failed on the way.
JournalAgrees == QueueIsDurable /\ CancelIntentIsDurable

\* The tool protocol: each call of a turn gets one result, and before the next
\* request, through denial, approval, questions, abort and cancel.
ToolProtocol == NoCallForgotten /\ SettledBeforeRequest /\ QuestionMatchesTool

\* An idle reducer keeps no input that could go: what waits is a goal, which
\* needs its gate, or a steer whose turn failed before a boundary came (it is
\* kept for the user to take back).
NoStrandedInput ==
    state = "IDLE" =>
        \A i \in queue :
            \/ inputs[i].kind = "goal"
            \/ inputs[i].kind = "steer" /\ turnLog[inputs[i].aim] = "failed"

\* The ledger is read off the journal and the live turn, nothing else.
Ledger == INSTANCE SessionLedger WITH
    inputs <- inputs, turnLog <- turnLog, requestLog <- requestLog,
    callLog <- callLog, askLog <- askLog, turn <- turn

\* The journal alone always tells a legal story (SessionLedger.tla): that is
\* what replay, /resume and the audit commands rely on.
ImplementsLedger == Ledger!Spec
=============================================================================
