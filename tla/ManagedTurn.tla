----------------------------- MODULE ManagedTurn -----------------------------
(***************************************************************************)
(* The two callers of the reducer in an interactive session.  The agent    *)
(* (core/agent.py, _run_managed) is a generator: between two `yield's it   *)
(* runs alone; at each `yield' the owner (zylab.py, _turn_managed) drains  *)
(* the keys that arrived meanwhile and calls the reducer itself.  `pc' is  *)
(* where the agent stands, YieldPoints the places where the owner may act. *)
(*                                                                         *)
(* A reducer method that returns an action puts it in `hand'.  The agent   *)
(* must adopt a delivered steer into its transcript, and the owner must    *)
(* run whatever was dispatched: nobody else remembers either.              *)
(*                                                                         *)
(* Left out: goal rounds (Goal.tla), modals (opened only when idle), exit, *)
(* and restarts (SessionController.tla).  The order of the calls in a      *)
(* batch is left open.                                                     *)
(***************************************************************************)
EXTENDS SessionController

VARIABLES
    pc,         \* where the agent generator stands
    why,        \* why a batch is being closed, or a request compacts
    hand,       \* the input of the last action returned, not yet acted on
    messages,   \* user inputs in the agent's transcript (self.messages)
    compacted,  \* compaction_attempted
    tooLong,    \* ctx_retried
    handoff,    \* Ctrl+B gave the running task to the background
    parsed,     \* has this run of the generator parsed arguments before?
    interrupted \* has SIGINT arrived (raw mode: only from outside)?

passVars == <<parsed, interrupted>>
agentVars == <<pc, why, hand, messages, compacted, tooLong, handoff, passVars>>
turnVars == <<vars, agentVars>>

YieldPoints == {"aux", "between", "force", "top", "stream", "held", "settled",
                "tool", "toolEnd", "closing", "end"}

\* The input of the action a reducer call returns: what it just dispatched.
Returned ==
    LET new == {i \in Inputs : /\ inputs[i].st # "dispatched"
                               /\ inputs'[i].st = "dispatched"}
    IN IF new = {} THEN None ELSE CHOOSE i \in new : TRUE

\* The second journal write of a call raised: an input was due to go, and did
\* not.  Nothing between the reducer and the REPL catches the exception, so
\* whoever made the call never comes to the place `to'.
Undispatched == state' = "IDLE" /\ Dispatchable(inputs', queue', FALSE) # {}
Undelivered ==
    /\ state' = "MODEL_STREAMING" /\ pending' = {}
    /\ Steers # {} /\ Returned = None
After(to, boundary) ==
    IF Undispatched \/ (boundary /\ Undelivered) THEN "crashed" ELSE to

IsSteer(i) == i # None /\ inputs[i].kind = "steer"

\* Only pc and hand change on the agent's side.
Go(to, h) ==
    /\ pc' = to /\ hand' = h
    /\ UNCHANGED <<why, messages, compacted, tooLong, handoff, passVars>>

\* ... and the arguments of a call have been parsed.
GoParsed(to, h) ==
    /\ pc' = to /\ hand' = h /\ parsed' = TRUE
    /\ UNCHANGED <<why, messages, compacted, tooLong, handoff, interrupted>>

\* adopt_steer, in the same step as the call that returned the action i.
Adopting(i, to, otherwise) ==
    /\ IF i # None /\ inputs'[i].kind = "steer"
       THEN messages' = messages \cup {i} /\ hand' = None /\ pc' = to
       ELSE /\ messages' = messages /\ hand' = i
            /\ pc' = After(otherwise, TRUE)
    /\ UNCHANGED <<why, compacted, tooLong, handoff, passVars>>

-----------------------------------------------------------------------------
(* The agent: one provider request *)

\* The first message of a turn; an unreadable attachment fails it at once.
StartTurn ==
    /\ pc = "start"
    /\ hand # None
    /\ messages' = messages \cup {hand}
    /\ compacted' = FALSE /\ tooLong' = FALSE /\ why' = "none"
    /\ \/ pc' = "top" /\ hand' = None /\ UNCHANGED vars
       \/ FailTurn /\ pc' = After("end", TRUE) /\ hand' = Returned
    /\ parsed' = FALSE
    /\ UNCHANGED <<handoff, interrupted>>

\* No progress, bad attachment, context that does not fit, or max_turns.
GiveUp == pc = "top" /\ FailTurn /\ Go(After("end", TRUE), Returned)

\* compact_managed: an auxiliary request per attempt; forced once after the
\* provider called the context too long, otherwise once per turn.
BeginCompaction ==
    /\ \/ pc = "top" /\ ~compacted /\ why' = "preview"
       \/ pc = "force" /\ why' = "forced"
       \/ pc = "between" /\ why' = why
    /\ BeginRequest
    /\ pc' = "aux"
    /\ UNCHANGED <<hand, messages, compacted, tooLong, handoff, passVars>>

EndCompactionAttempt ==
    /\ pc = "aux"
    /\ ~cancelling
    /\ FinishAuxRequest
    /\ Go("between", None)

LeaveCompaction ==
    /\ pc \in {"between", "force"}
    /\ pc' = "top" /\ why' = "none"
    /\ compacted' = (compacted \/ why = "preview")
    /\ UNCHANGED <<vars, hand, messages, tooLong, handoff, passVars>>

BeginChat == pc = "top" /\ BeginRequest /\ Go("stream", None)

\* Faulty variant: a cancel during the compaction is not acknowledged.
AckInterruptFaulty ==
    /\ pc = "stream"
    /\ cancelling
    /\ AcknowledgeInterrupt
    /\ Adopting(Returned, "top", "end")

\* client.Interrupted, or the cancel seen after the stream ended: the steer
\* is adopted before `interrupted' is yielded.
AckInterrupt ==
    /\ pc \in {"aux", "stream"}
    /\ cancelling
    /\ AcknowledgeInterrupt
    /\ LET i == Returned IN
       /\ IF i # None /\ inputs'[i].kind = "steer"
          THEN messages' = messages \cup {i} /\ hand' = None /\ pc' = "top"
          ELSE /\ messages' = messages /\ hand' = i
               /\ pc' = After("end", TRUE)
       /\ compacted' = (compacted \/ (pc = "aux" /\ why = "preview"))
    /\ why' = "none"
    /\ UNCHANGED <<tooLong, handoff, passVars>>

\* The provider refused the context as too long, for the first time.
RetryTooLong ==
    /\ pc = "stream"
    /\ ~cancelling /\ ~tooLong
    /\ RetryRequest
    /\ pc' = "force" /\ tooLong' = TRUE
    /\ UNCHANGED <<why, hand, messages, compacted, handoff, passVars>>

\* APIError, or a response with neither text nor calls.
FailChat ==
    pc = "stream" /\ ~cancelling /\ FailRequest /\ Go(After("end", TRUE), Returned)

\* The answer without tool calls: a waiting steer goes on, else the end.
CommitAnswer ==
    /\ pc = "stream"
    /\ CompleteResponse({})
    /\ Adopting(Returned, "top", "end")

\* The answer with calls: run them, or hold the batch for a decision gate.
CommitCalls ==
    /\ pc = "stream"
    /\ \E C \in (SUBSET Calls) \ {{}} : CompleteResponse(C)
    /\ \E to \in {"batch", "held"} : Go(to, None)

-----------------------------------------------------------------------------
(* The agent: one batch of tool calls *)

\* decision_candidate: the whole batch is answered without a boundary; the
\* same batch held twice ends the turn.
DenyHeld ==
    /\ pc = "held"
    /\ \E c \in Calls : DenyTool(c, FALSE)
    /\ Go("held", None)

LeaveHeld ==
    /\ pc = "held" /\ pending = {}
    /\ \/ UNCHANGED vars /\ Go("top", None)
       \/ FailTurn /\ Go(After("end", TRUE), Returned)

\* Arguments that are no JSON.  The denial is recorded, but the event that
\* shows it reads `args', which nothing has bound if this is the first call
\* the generator looks at: the exception leaves it half-way through the turn.
RefuseArguments ==
    /\ pc = "batch"
    /\ \E c \in Calls : DenyTool(c, TRUE)
    /\ Go(After(IF parsed THEN "settled" ELSE "broken", TRUE), Returned)

\* A tool that is not available, bad arguments, refused by policy or user.
DenyCall ==
    /\ pc = "batch"
    /\ \E c \in Calls : DenyTool(c, TRUE)
    /\ GoParsed(After("settled", TRUE), Returned)

ApproveCall ==
    /\ pc = "batch"
    /\ \E c \in Calls : ApproveTool(c)
    /\ GoParsed("approved", None)

\* The checkpoint of a writing tool failed: this call only.
CheckpointFailed ==
    /\ pc = "approved"
    /\ AbortApprovedTool
    /\ Go(After("settled", TRUE), Returned)

\* The durable trace could not be opened: this call and the rest of the batch.
TraceNotOpened ==
    /\ pc = "approved"
    /\ AbortApprovedTool
    /\ pc' = After("closing", TRUE) /\ why' = "metrics" /\ hand' = Returned
    /\ UNCHANGED <<messages, compacted, tooLong, handoff, passVars>>

StartCall == pc = "approved" /\ StartTool /\ Go("tool", None)

\* Faulty variant: a steer delivered with a denial is not adopted.
AfterYieldFaulty == pc = "settled" /\ UNCHANGED vars /\ Go("batch", None)

\* After the yield of a settled call: adopt_steer, next call.
AfterYield ==
    /\ pc = "settled"
    /\ messages' = IF IsSteer(hand) THEN messages \cup {hand} ELSE messages
    /\ pc' = "batch" /\ hand' = None
    /\ UNCHANGED <<vars, why, compacted, tooLong, handoff, passVars>>

\* Faulty variant: the next request is prepared before the batch is done.
BatchDoneFaulty == pc = "batch" /\ UNCHANGED vars /\ Go("top", None)

BatchDone ==
    /\ pc = "batch" /\ pending = {}
    /\ UNCHANGED vars /\ Go("top", None)

\* The runner's events.
TaskStarted == pc = "tool" /\ RegisterToolTask /\ UNCHANGED agentVars

\* The outcomes of a tool run: its decision_gate got no answer, its trace
\* could not be closed, it was cancelled, or none of these.  A call handed to
\* the background is never taken for a cancelled one.
Outcomes == {"metrics"} \cup
    (IF handoff THEN {"none"} ELSE {"gate"}) \cup
    (IF toolCancelling THEN {"cancel"} ELSE {"none"})

EndCall ==
    /\ pc = "tool"
    /\ \E o \in Outcomes :
        /\ FinishTool(o # "gate")
        /\ why' = o
        /\ pc' = After("toolEnd", o # "gate")
    /\ hand' = Returned /\ handoff' = FALSE
    /\ UNCHANGED <<messages, compacted, tooLong, passVars>>

\* After the yield of tool_end.  A gate or metrics failure closes the batch
\* without looking at the action it holds.
AfterCallEnd ==
    /\ pc = "toolEnd"
    /\ IF why \in {"gate", "metrics"}
       THEN pc' = "closing" /\ UNCHANGED <<messages, hand>>
       ELSE /\ messages' =
                 IF IsSteer(hand) THEN messages \cup {hand} ELSE messages
            /\ hand' = None
            /\ pc' = CASE why = "none" -> "batch"
                       [] why # "none" /\ IsSteer(hand) -> "top"
                       [] OTHER -> "closing"
    /\ UNCHANGED <<vars, why, compacted, tooLong, handoff, passVars>>

\* The rest of the batch is answered "not executed".
CloseCall ==
    /\ pc = "closing"
    /\ \E c \in Calls : DenyTool(c, why # "gate")
    /\ Go(After("closing", why # "gate"), Returned)

\* Faulty variant: the turn ends without an answer for the waiting calls.
CloseBatchFaulty ==
    /\ pc = "closing"
    /\ FailTurn
    /\ pc' = "end" /\ hand' = Returned /\ why' = "none"
    /\ UNCHANGED <<messages, compacted, tooLong, handoff, passVars>>

\* ... then the turn ends, unless the cancel delivered a steer.
CloseBatch ==
    /\ pc = "closing" /\ pending = {}
    /\ IF why = "cancel" /\ IsSteer(hand)
       THEN /\ messages' = messages \cup {hand}
            /\ pc' = "top" /\ hand' = None
            /\ UNCHANGED vars
       ELSE /\ FailTurn
            /\ pc' = After("end", TRUE) /\ hand' = Returned
            /\ UNCHANGED messages
    /\ why' = "none"
    /\ UNCHANGED <<compacted, tooLong, handoff, passVars>>

Agent ==
    \/ StartTurn \/ GiveUp \/ BeginCompaction \/ EndCompactionAttempt
    \/ LeaveCompaction \/ BeginChat \/ AckInterrupt \/ RetryTooLong
    \/ FailChat \/ CommitAnswer \/ CommitCalls
    \/ DenyHeld \/ LeaveHeld \/ RefuseArguments \/ DenyCall \/ ApproveCall
    \/ CheckpointFailed \/ TraceNotOpened \/ StartCall \/ AfterYield \/ BatchDone \/ TaskStarted
    \/ EndCall \/ AfterCallEnd \/ CloseCall \/ CloseBatch

-----------------------------------------------------------------------------
(* The owner: keys *)

\* The checks of submit that raise ControllerError.
Accepts(k) ==
    /\ state \notin {"PICKER", "REWIND", "TOOL_WAITING_APPROVAL", "EXITING"}
    /\ k = "steer" => turn # None

\* The line k typed while busy: a steer nobody accepts becomes a next turn;
\* what is then refused escapes as an exception and takes the REPL down.
TypeLine(k) ==
    /\ pc \in YieldPoints
    /\ LET kind == IF k = "steer" /\ ~Accepts(k) THEN "next_turn" ELSE k IN
       IF Accepts(kind)
       THEN /\ Submit(kind)
            /\ IF Returned = None THEN Go(After(pc, FALSE), hand)
               ELSE /\ hand' = Returned /\ why' = "late"
                    /\ UNCHANGED <<pc, messages, compacted, tooLong, handoff,
                                   passVars>>
       ELSE UNCHANGED vars /\ Go("crashed", hand)

TakeBack == pc \in YieldPoints /\ RetrieveLatest /\ UNCHANGED agentVars

\* Esc: cancel_active_work.  After Ctrl+B it no longer means the tool.
Esc ==
    /\ pc \in YieldPoints
    /\ ~(handoff /\ task)
    /\ RequestCancel \/ RequestToolCancel
    /\ UNCHANGED agentVars

\* Ctrl+B on a running Bash task.
CtrlB ==
    /\ pc = "tool" /\ task /\ ~handoff
    /\ handoff' = TRUE
    /\ UNCHANGED <<vars, pc, why, hand, messages, compacted, tooLong,
                   passVars>>

\* A tool's question: the owner shows the picker inside its event handling.
ShowQuestion == pc = "tool" /\ BeginInteraction /\ Go("asking", hand)
Answer == /\ pc = "asking"
          /\ ResolveInteraction \/ AbortInteraction
          /\ Go("tool", hand)

\* SIGINT as KeyboardInterrupt, anywhere in the generator or the drain of its
\* last event: the open request is cancelled and closed, or the turn failed,
\* from outside.  An action not yet taken out of its event is forgotten, a
\* late one (_late_actions) is kept.
KeyboardInterrupt ==
    /\ pc \in YieldPoints \cup {"batch", "approved"}
    /\ IF request # None THEN AcknowledgeInterrupt /\ hand' = Returned
       ELSE IF turn # None THEN FailTurn /\ hand' = Returned
       ELSE /\ UNCHANGED vars
            /\ hand' \in IF why = "late" THEN {hand} ELSE {hand, None}
    /\ pc' = After("return", TRUE) /\ why' = "none" /\ handoff' = FALSE
    /\ interrupted' = TRUE
    /\ UNCHANGED <<messages, compacted, tooLong, parsed>>

\* Faulty variant: an input dispatched at the turn's boundary is not started.
RunActionFaulty ==
    /\ pc \in {"end", "return"}
    /\ pc' = IF hand # None /\ inputs[hand].kind = "local" THEN "local"
             ELSE "idle"
    /\ why' = "none"
    /\ UNCHANGED <<vars, hand, messages, compacted, tooLong, handoff,
                   passVars>>

\* run_actions: go on with the action in hand, or back to the prompt.
RunAction ==
    /\ pc \in {"end", "return"}
    /\ pc' = CASE hand = None -> "idle"
               [] IsSteer(hand) -> "crashed"
               [] hand # None /\ inputs[hand].kind = "local" -> "local"
               [] OTHER -> "start"
    /\ why' = "none"
    /\ UNCHANGED <<vars, hand, messages, compacted, tooLong, handoff,
                   passVars>>

\* A command ran; the reducer returns the next action.
CommandDone == pc = "local" /\ FinishLocalAction /\ Go(After("return", FALSE), Returned)

\* A line typed at the prompt.
Prompt(k) ==
    /\ pc = "idle"
    /\ Submit(k)
    /\ Go(After("return", FALSE), Returned)

Owner ==
    \/ \E k \in {"steer", "next_turn", "local"} : TypeLine(k)
    \/ TakeBack \/ Esc \/ CtrlB \/ ShowQuestion \/ KeyboardInterrupt
    \/ \E k \in {"next_turn", "local"} : Prompt(k)

Run == RunAction \/ CommandDone

\* The first journal write of a call raises: the reducer is as it was, and
\* the REPL goes down.
JournalFails ==
    /\ JournalMayFail
    /\ pc \notin {"crashed", "broken"}
    /\ UNCHANGED vars /\ Go("crashed", hand)

TurnInit ==
    /\ Init
    /\ pc = "idle" /\ why = "none" /\ hand = None /\ messages = {}
    /\ compacted = FALSE /\ tooLong = FALSE /\ handoff = FALSE
    /\ parsed = FALSE /\ interrupted = FALSE

TurnNext == Agent \/ Owner \/ Answer \/ Run \/ JournalFails

TurnSpec == TurnInit /\ [][TurnNext]_turnVars

\* The generator is driven by a for loop, streams and tools end, and the
\* owner answers an open picker; keys are never promised.
FairTurnSpec ==
    TurnSpec /\ WF_turnVars(Agent) /\ WF_turnVars(Answer) /\ WF_turnVars(Run)
-----------------------------------------------------------------------------

Places == {"idle", "start", "top", "force", "between", "aux", "stream",
           "held", "batch", "approved", "settled", "tool", "asking",
           "toolEnd", "closing", "end", "return", "local", "crashed",
           "broken"}

TurnTypeOK ==
    /\ TypeOK
    /\ pc \in Places
    /\ why \in {"none", "preview", "forced", "gate", "metrics", "cancel",
               "late"}
    /\ hand \in Inputs \cup {None}
    /\ messages \subseteq Inputs
    /\ compacted \in BOOLEAN /\ tooLong \in BOOLEAN /\ handoff \in BOOLEAN
    /\ parsed \in BOOLEAN /\ interrupted \in BOOLEAN

\* Wherever the agent stands, the reducer accepts the calls it makes next:
\* nothing the owner does at a yield point can make the generator raise
\* ControllerError half-way through a turn.
CallsAccepted ==
    /\ pc \in {"top", "force", "between"} =>
         state = "MODEL_STREAMING" /\ turn # None /\ request = None
    /\ pc \in {"aux", "stream"} => request # None
    /\ pc \in {"held", "batch", "closing"} =>
         IF pending # {}
         THEN state = "TOOL_WAITING_APPROVAL" /\ approved = None
         ELSE state = "MODEL_STREAMING"
    /\ pc = "approved" =>
         state = "TOOL_WAITING_APPROVAL" /\ approved # None
    /\ pc = "tool" => state = "TOOL_RUNNING_FOREGROUND" /\ running # None
    /\ pc = "asking" => state = "TOOL_WAITING_DECISION" /\ ask # None
    /\ pc = "local" => local # None

\* Work the reducer has dispatched is always in somebody's hand: a turn that
\* no generator is running yet, and a command until it has run.
WorkIsHeld ==
    /\ turn # None /\ pc \in {"idle", "start", "end", "return", "local"} =>
         hand # None /\ inputs[hand].turn = turn
    /\ local # None => hand = local

\* The provider is never asked without a message of this turn that the
\* journal says was delivered to it.
TranscriptIsWhole ==
    request # None =>
        \A i \in Inputs :
            inputs[i].st = "dispatched" /\ inputs[i].turn = turn
                => i \in messages

\* A turn never ends owing a tool result: the next turn's request would carry
\* an assistant message with unanswered calls.
ClosedTurnsSettled ==
    \A c \in Calls :
        callLog[c].turn # None /\ turnLog[callLog[c].turn] # "open"
            => callLog[c].st = "finished"

\* The types, and the agent's next call is legal.
TurnConsistent == TurnTypeOK /\ CallsAccepted

\* Until the first SIGINT, and until a journal that cannot be written takes the
\* REPL down, nothing gets lost between reducer, generator and owner loop: what
\* was dispatched is in a hand, what waits at an idle prompt is at most a steer
\* whose turn failed, and a turn that is closed owes no result.
NothingIsLost ==
    ~interrupted /\ pc # "crashed" =>
        WorkIsHeld /\ NoStrandedInput /\ ClosedTurnsSettled

\* What is typed with Enter steers the task it was typed in: it has joined that
\* turn, or was taken back, by the time the turn is over ("Enter steers the
\* current task at the next safe boundary").
SteerJoinsItsTurn ==
    \A i \in Inputs :
        inputs[i].kind = "steer" /\ inputs[i].st \in {"queued", "dispatched"} =>
            inputs[i].turn = inputs[i].aim \/ inputs[i].aim = turn

\* A key never takes the REPL down ("keys are handled and persisted while a
\* tool runs").
ReplSurvives == pc # "crashed"

\* Nobody goes on with the turns: the ways down (a journal that cannot be
\* written among them), and SIGINT, after which work may be in nobody's hand.
Stopped == pc \in {"crashed", "broken"} \/ interrupted

\* Every turn that starts ends, whatever is typed and pressed meanwhile.
TurnEnds == \A t \in Turns : turn = t ~> (turn # t \/ Stopped)

\* Esc is honoured: a cancelled request and a cancelled tool are closed.
EscIsHonoured ==
    /\ cancelling ~> ~cancelling \/ Stopped
    /\ toolCancelling ~> ~toolCancelling \/ Stopped

\* A turn comes to its end by itself and by Esc.
TurnAndCancelEnd == TurnEnds /\ EscIsHonoured

\* An input queued for later gets its turn, unless the user takes it back.
QueuedWorkRuns ==
    \A i \in Inputs :
        (inputs[i].st = "queued" /\ inputs[i].kind # "steer")
            ~> (inputs[i].st = "cancelled" \/ Stopped
                \/ (inputs[i].st = "dispatched" /\ hand # i /\ local # i))
=============================================================================
