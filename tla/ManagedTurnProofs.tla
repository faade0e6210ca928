-------------------------- MODULE ManagedTurnProofs --------------------------
(***************************************************************************)
(* The agent and the owner use the reducer only through its methods, so    *)
(* what SessionControllerProofs shows of any caller holds of these two.    *)
(* What only holds of these callers is the second half: TurnInv says where *)
(* the agent stands against the reducer (Standing), that the action in the *)
(* hand is the live one (HandIsLive), and that every input of the open     *)
(* turn is in the transcript or in the hand (AllHeard).                    *)
(***************************************************************************)
EXTENDS ManagedTurn, SessionControllerProofs

\* One step of either caller is one reducer method or none.
LEMMA AgentSteps == ASSUME Agent PROVE [Next]_vars
<1>1. CASE StartTurn \/ GiveUp \/ LeaveHeld \/ CloseBatch
  BY <1>1 DEF StartTurn, GiveUp, LeaveHeld, CloseBatch, Next, RequestNext
<1>2. CASE BeginCompaction \/ EndCompactionAttempt \/ BeginChat \/ AckInterrupt
             \/ RetryTooLong \/ FailChat
  BY <1>2
  DEF BeginCompaction, EndCompactionAttempt, BeginChat, AckInterrupt,
      RetryTooLong, FailChat, Next, RequestNext
<1>3. CASE CommitAnswer \/ CommitCalls
  <2>1. \E C \in SUBSET Calls : CompleteResponse(C)
    BY <1>3 DEF CommitAnswer, CommitCalls
  <2>. QED
    BY <2>1 DEF Next, RequestNext
<1>4. CASE DenyHeld \/ RefuseArguments \/ DenyCall \/ CloseCall
  <2>1. \E c \in Calls, b \in BOOLEAN : DenyTool(c, b)
    BY <1>4 DEF DenyHeld, RefuseArguments, DenyCall, CloseCall
  <2>. QED
    BY <2>1 DEF Next, ToolNext
<1>5. CASE ApproveCall \/ CheckpointFailed \/ TraceNotOpened \/ StartCall
             \/ TaskStarted \/ EndCall
  BY <1>5
  DEF ApproveCall, CheckpointFailed, TraceNotOpened, StartCall, TaskStarted,
      EndCall, Next, ToolNext
<1>6. CASE LeaveCompaction \/ AfterYield \/ BatchDone \/ AfterCallEnd
  BY <1>6 DEF LeaveCompaction, AfterYield, BatchDone, AfterCallEnd
<1>. QED
  BY <1>1, <1>2, <1>3, <1>4, <1>5, <1>6 DEF Agent

LEMMA OwnerSteps == ASSUME Owner \/ Answer \/ Run PROVE [Next]_vars
<1>1. CASE \E k \in {"steer", "next_turn", "local"} : TypeLine(k)
  <2>1. UNCHANGED vars \/ \E k \in Kinds : Submit(k)
    BY <1>1 DEF TypeLine, Kinds
  <2>. QED
    BY <2>1 DEF Next, InputNext
<1>2. CASE \E k \in {"next_turn", "local"} : Prompt(k)
  <2>1. \E k \in Kinds : Submit(k)
    BY <1>2 DEF Prompt, Kinds
  <2>. QED
    BY <2>1 DEF Next, InputNext
<1>3. CASE TakeBack \/ CommandDone
  BY <1>3 DEF TakeBack, CommandDone, Next, InputNext
<1>4. CASE Esc \/ ShowQuestion \/ Answer
  BY <1>4 DEF Esc, ShowQuestion, Answer, Next, RequestNext, ToolNext
<1>5. CASE KeyboardInterrupt
  BY <1>5 DEF KeyboardInterrupt, Next, RequestNext
<1>6. CASE CtrlB \/ RunAction
  BY <1>6 DEF CtrlB, RunAction
<1>. QED
  BY <1>1, <1>2, <1>3, <1>4, <1>5, <1>6 DEF Owner, Run

\* The session loop implements the reducer's specification: its interleaving
\* of agent and owner is one of those SessionController allows.
THEOREM UsesTheReducer == TurnSpec => Spec
<1>1. TurnInit => Init
  BY DEF TurnInit
<1>2. [TurnNext]_turnVars => [Next]_vars
  <2>1. ASSUME TurnNext PROVE [Next]_vars
    BY <2>1, AgentSteps, OwnerSteps DEF TurnNext, JournalFails
  <2>2. UNCHANGED turnVars => UNCHANGED vars
    BY DEF turnVars
  <2>. QED
    BY <2>1, <2>2
<1>. QED
  BY <1>1, <1>2, PTL DEF TurnSpec, Spec

\* So, in a real turn, a request is only open when every tool call of the
\* turn has its result.
THEOREM TurnSettled == TurnSpec => []SettledBeforeRequest
  BY UsesTheReducer, SettledRequests, PTL

\* The whole tool protocol of the reducer holds in the composed system.
THEOREM TurnProtocol == TurnSpec => []ToolProtocol
  BY UsesTheReducer, ProtocolHolds, PTL
-----------------------------------------------------------------------------
(* The invariants of the composed system *)

\* Between two calls of a batch, or after its last one.
BetweenCalls ==
    IF pending # {} THEN state = "TOOL_WAITING_APPROVAL" /\ approved = None
    ELSE state = "MODEL_STREAMING"

\* Where the agent stands against the reducer, its yields included.
Standing ==
    /\ CallsAccepted
    /\ state \notin {"PICKER", "REWIND", "EXITING"}
    /\ pc \in {"settled", "toolEnd"} => BetweenCalls
    /\ pc = "start" => state = "MODEL_STREAMING" /\ hand # None
    /\ pc \notin {"aux", "stream", "crashed"} => request = None

\* The action in the hand is the live one: a command that still runs, or an
\* input of the open turn.  Inside a batch it is a steer of its last call.
HandIsLive ==
    /\ request # None => hand = None
    /\ hand # None =>
         /\ pc \in {"start", "settled", "toolEnd", "closing", "end", "return",
                    "local", "crashed", "broken"}
         /\ inputs[hand].st = "dispatched"
         /\ hand = local \/ (turn # None /\ inputs[hand].turn = turn)
    /\ hand # None /\ turn # None /\ pc \in {"end", "return"} =>
         state = "MODEL_STREAMING"
    /\ hand # None /\ pc \in {"settled", "toolEnd", "closing"} =>
         pending = {} /\ inputs[hand].kind = "steer"
    /\ pc = "idle" => hand = None

\* Which turn a row can name: a steer that waits is aimed at the open turn, or
\* at one that failed.
RowsFit ==
    /\ \A i \in Inputs :
         /\ inputs[i].kind = "local" => inputs[i].turn = None
         /\ inputs[i].turn # None => turnLog[inputs[i].turn] # "none"
    /\ local # None =>
         inputs[local].kind = "local" /\ inputs[local].st = "dispatched"
    /\ \A i \in Inputs :
         inputs[i].kind = "steer" /\ inputs[i].st = "queued" =>
            /\ inputs[i].aim \in Turns
            /\ inputs[i].aim = turn \/ turnLog[inputs[i].aim] = "failed"

\* The input i was delivered to the open turn.
Delivered(i) == inputs[i].st = "dispatched" /\ inputs[i].turn = turn

\* What was delivered to the open turn is in the transcript or on its way
\* there.  At the prompt SIGINT may have left a turn that nobody runs.
AllHeard ==
    /\ turn # None /\ pc # "idle"
    /\ pc \in {"return", "crashed"} => hand # None \/ request # None
    => \A i \in Inputs : Delivered(i) => i \in messages \/ i = hand

\* Until the REPL goes down or SIGINT comes, nothing is dropped.
NothingDropped ==
    ~interrupted /\ pc # "crashed" =>
        WorkIsHeld /\ NoStrandedInput /\ ClosedTurnsSettled

AgentTypes ==
    /\ pc \in Places
    /\ why \in {"none", "preview", "forced", "gate", "metrics", "cancel",
               "late"}
    /\ hand \in Inputs \cup {None}
    /\ messages \subseteq Inputs
    /\ compacted \in BOOLEAN /\ tooLong \in BOOLEAN /\ handoff \in BOOLEAN
    /\ parsed \in BOOLEAN /\ interrupted \in BOOLEAN

\* IInv is the reducer's own invariant.
TurnInv ==
    /\ IInv
    /\ AgentTypes
    /\ Standing
    /\ HandIsLive
    /\ RowsFit
    /\ AllHeard
    /\ NothingDropped

-----------------------------------------------------------------------------
(* What a reducer method leaves behind, in the terms of its callers *)

\* Inside a turn, or between turns: at most one steer is delivered.
Boundary ==
    /\ UNCHANGED <<turnLog, turn, local>>
    /\ \A i \in Inputs : inputs[i].st = "dispatched" => inputs'[i] = inputs[i]
    /\ \A i \in Inputs : Delivered(i)' => Delivered(i) \/ i = Returned
    /\ Returned # None =>
         /\ Returned \in Inputs /\ inputs'[Returned].kind = "steer"
         /\ inputs'[Returned].st = "dispatched" /\ inputs'[Returned].turn = turn
    /\ RowsFit'

\* The turn, if any, is closed, and the next input is dispatched, if any.
Idle == Returned = None /\ turn' = None /\ local' = None /\ state' = "IDLE"
NextTurn ==
    /\ Returned \in Inputs /\ turn' # None /\ local' = None
    /\ state' = "MODEL_STREAMING"
    /\ inputs'[Returned].st = "dispatched" /\ inputs'[Returned].turn = turn'
    /\ inputs'[Returned].kind # "steer"
    /\ \A i \in Inputs : Delivered(i)' => i = Returned
NextLocal ==
    /\ Returned \in Inputs /\ turn' = None /\ local' = Returned
    /\ state' = "TOOL_RUNNING_FOREGROUND"
    /\ inputs'[Returned].st = "dispatched"

Over ==
    /\ Idle \/ NextTurn \/ NextLocal
    /\ \A t \in Turns \ {turn} : turnLog[t] = "open" => turnLog'[t] = "open"
    /\ RowsFit'

\* What an idle reducer keeps that could not go is a steer whose turn failed.
LEMMA StrandedOnly ==
    ASSUME IInv', RowsFit', ~Undispatched PROVE NoStrandedInput'
<1>1. SUFFICES ASSUME state' = "IDLE", NEW i \in queue'
               PROVE  \/ inputs'[i].kind = "goal"
                      \/ /\ inputs'[i].kind = "steer"
                         /\ turnLog'[inputs'[i].aim] = "failed"
  BY DEF NoStrandedInput
<1>2. turn' = None /\ i \in Inputs /\ inputs'[i].st = "queued"
  BY <1>1 DEF IInv, Phase, TypeOK, QueueIsDurable
<1>3. Dispatchable(inputs', queue', FALSE) = {}
  BY <1>1 DEF Undispatched
<1>4. inputs'[i].kind = "steer" \/ inputs'[i].kind = "goal"
  BY <1>1, <1>3 DEF Dispatchable
<1>. QED
  BY <1>2, <1>4, ConstantsAssumption DEF RowsFit

\* ... and where nothing could go, nothing is undispatched.
LEMMA NothingWaits ==
    ASSUME NoStrandedInput, state = "IDLE"
    PROVE  Dispatchable(inputs, queue, FALSE) = {}
  BY DEF NoStrandedInput, Dispatchable

\* The returned action is the one input that became dispatched.
LEMMA ReturnedIs ==
    ASSUME NEW h \in Inputs, inputs[h].st # "dispatched", inputs'[h].st = "dispatched",
           \A i \in Inputs : i # h /\ inputs'[i].st = "dispatched"
                               => inputs[i].st = "dispatched"
    PROVE  Returned = h
<1>. DEFINE new == {i \in Inputs : inputs[i].st # "dispatched"
                                     /\ inputs'[i].st = "dispatched"}
<1>1. new = {h}
  OBVIOUS
<1>. HIDE DEF new
<1>2. (CHOOSE i \in new : TRUE) = h
  BY <1>1
<1>. QED
  BY <1>1, <1>2 DEF Returned, new

LEMMA NoneReturned ==
    ASSUME \A i \in Inputs : inputs'[i].st = "dispatched"
                               => inputs[i].st = "dispatched"
    PROVE  Returned = None
  BY DEF Returned

\* What a method has written before it dispatches: a row submitted, a turn
\* closed; a queued steer aims at a turn that failed.
Written(ins, q, tl) ==
    /\ ins \in [Inputs -> InputRecords]
    /\ tl \in [Turns -> {"none", "open", "completed", "failed"}]
    /\ q = {i \in Inputs : ins[i].st = "queued"}
    /\ \A i \in Inputs :
         \/ ins[i] = inputs[i]
         \/ ins[i].st = "queued" /\ ins[i].turn = None /\ inputs[i].st = "absent"
    /\ \A t \in Turns :
         \/ tl[t] = turnLog[t]
         \/ t = turn /\ turnLog[t] = "open" /\ tl[t] # "none"
    /\ \A i \in Inputs : ins[i].kind = "steer" /\ ins[i].st = "queued" =>
                          ins[i].aim \in Turns /\ tl[ins[i].aim] = "failed"

\* dispatch_ready over them.
LEMMA ReadyIsOver ==
    ASSUME IInv, RowsFit, NEW ins, NEW q, NEW tl, Written(ins, q, tl),
           DispatchReady(ins, q, tl, FALSE)
    PROVE  Over
<1>. USE DEF Written
<1>0. inputs \in [Inputs -> InputRecords]
  BY LogFacts
<1>1. \A i \in Inputs :
        /\ ins[i].kind = "local" => ins[i].turn = None
        /\ ins[i].turn # None => tl[ins[i].turn] # "none"
        /\ ins[i].st = "dispatched" => inputs[i].st = "dispatched"
        /\ ins[i].turn \in Turns \cup {None}
  BY <1>0 DEF RowsFit, InputRecords
<1>2. CASE /\ inputs' = ins /\ queue' = q /\ turnLog' = tl
           /\ turn' = None /\ local' = None /\ state' = "IDLE"
  <2>1. Idle
    BY <1>1, <1>2, NoneReturned DEF Idle
  <2>2. RowsFit'
    BY <1>1, <1>2 DEF RowsFit
  <2>. QED
    BY <1>2, <2>1, <2>2 DEF Over
<1>3. ASSUME NEW i \in q, queue' = q \ {i}, DispatchNewTurn(i, ins, tl)
      PROVE  Over
  <2>1. PICK t \in Turns :
          /\ tl[t] = "none" /\ turn' = t /\ turnLog' = [tl EXCEPT ![t] = "open"]
          /\ inputs' = [ins EXCEPT ![i] =
                          [ins[i] EXCEPT !.st = "dispatched", !.turn = t]]
          /\ local' = None /\ state' = "MODEL_STREAMING"
    BY <1>3 DEF DispatchNewTurn
  <2>2. /\ i \in Inputs /\ ins[i].st = "queued" /\ ins[i] \in InputRecords
        /\ ins[i].kind \in {"next_turn", "goal"} /\ t # None
    BY <1>3, ConstantsAssumption DEF DispatchNewTurn
  <2>3. inputs[i].st # "dispatched"
    BY <2>2
  <2> DEFINE row == [ins[i] EXCEPT !.st = "dispatched", !.turn = t]
  <2>4. row.st = "dispatched" /\ row.turn = t /\ row.kind = ins[i].kind
    BY <2>2 DEF InputRecords
  <2>5. inputs' = [ins EXCEPT ![i] = row]
    BY <2>1
  <2> HIDE DEF row
  <2>6. inputs'[i] = row /\ \A j \in Inputs : j # i => inputs'[j] = ins[j]
    BY <2>2, <2>5
  <2>7. Returned = i
    BY <1>1, <2>2, <2>3, <2>4, <2>6, ReturnedIs
  <2>8. \A j \in Inputs : j # i => inputs'[j].turn # t
    BY <1>1, <2>1, <2>2, <2>6
  <2>9. NextTurn
    BY <2>1, <2>2, <2>4, <2>6, <2>7, <2>8 DEF NextTurn, Delivered
  <2>10. RowsFit'
    <3>1. \A u \in Turns : tl[u] # "none" => turnLog'[u] # "none"
      BY <2>1
    <3>2. turnLog'[t] # "none"
      BY <2>1
    <3>3. \A u \in Turns : tl[u] = "failed" => turnLog'[u] = "failed"
      BY <2>1
    <3>. QED
      BY <1>1, <2>1, <2>2, <2>4, <2>6, <3>1, <3>2, <3>3 DEF RowsFit
  <2>11. \A u \in Turns \ {turn} : turnLog[u] = "open" => turnLog'[u] = "open"
    BY <2>1
  <2>. QED
    BY <2>1, <2>9, <2>10, <2>11 DEF Over
<1>4. ASSUME NEW i \in q, queue' = q \ {i}, DispatchLocal(i, ins, tl)
      PROVE  Over
  <2>1. /\ inputs' = [ins EXCEPT ![i] = [ins[i] EXCEPT !.st = "dispatched"]]
        /\ ins[i].kind = "local" /\ turnLog' = tl /\ turn' = None /\ local' = i
        /\ state' = "TOOL_RUNNING_FOREGROUND"
    BY <1>4 DEF DispatchLocal
  <2>2. i \in Inputs /\ ins[i].st = "queued" /\ ins[i] \in InputRecords
    BY <1>4
  <2>3. inputs[i].st # "dispatched"
    BY <2>2
  <2> DEFINE row == [ins[i] EXCEPT !.st = "dispatched"]
  <2>4. row.st = "dispatched" /\ row.turn = ins[i].turn /\ row.kind = ins[i].kind
    BY <2>2 DEF InputRecords
  <2>5. inputs' = [ins EXCEPT ![i] = row]
    BY <2>1
  <2> HIDE DEF row
  <2>6. inputs'[i] = row /\ \A j \in Inputs : j # i => inputs'[j] = ins[j]
    BY <2>2, <2>5
  <2>7. Returned = i
    BY <1>1, <2>2, <2>3, <2>4, <2>6, ReturnedIs
  <2>8. NextLocal
    BY <2>1, <2>2, <2>4, <2>6, <2>7 DEF NextLocal
  <2>9. RowsFit'
    BY <1>1, <2>1, <2>2, <2>4, <2>6 DEF RowsFit
  <2>. QED
    BY <2>1, <2>8, <2>9 DEF Over
<1>. QED
  BY <1>2, <1>3, <1>4 DEF DispatchReady, Dispatchable

\* The turn was closed, if there was one.
Settled(tl) ==
    \/ tl = turnLog /\ turn = None
    \/ /\ turn # None
       /\ \E st \in {"completed", "failed"} : tl = [turnLog EXCEPT ![turn] = st]

LEMMA ThenIdleIsOver ==
    ASSUME IInv, RowsFit, state # "EXITING", NEW tl, Settled(tl), ThenIdle(tl),
           \/ Steers = {} \/ turn = None
           \/ tl = [turnLog EXCEPT ![turn] = "failed"]
    PROVE  Over
<1>1. /\ turnLog \in [Turns -> {"none", "open", "completed", "failed"}]
      /\ inputs \in [Inputs -> InputRecords] /\ turn \in Turns \cup {None}
      /\ turn # None => turnLog[turn] = "open"
      /\ queue = {i \in Inputs : inputs[i].st = "queued"}
  BY LogFacts DEF TypeOK, IInv, History
<1>2. /\ tl \in [Turns -> {"none", "open", "completed", "failed"}]
      /\ \A t \in Turns : tl[t] = turnLog[t]
            \/ (t = turn /\ turnLog[t] = "open" /\ tl[t] # "none")
  BY <1>1 DEF Settled
<1>3. DispatchReady(inputs, queue, tl, FALSE)
  BY LogFacts, Edges DEF ThenIdle, TypeOK
<1>4. ASSUME NEW i \in Inputs, inputs[i].kind = "steer", inputs[i].st = "queued"
      PROVE  inputs[i].aim \in Turns /\ tl[inputs[i].aim] = "failed"
  <2>1. /\ inputs[i].aim \in Turns /\ i \in Steers
        /\ inputs[i].aim = turn \/ turnLog[inputs[i].aim] = "failed"
    BY <1>1, <1>4 DEF RowsFit, Steers
  <2>2. CASE turn = None
    BY <1>1, <2>1, <2>2, ConstantsAssumption DEF Settled
  <2>3. CASE tl = [turnLog EXCEPT ![turn] = "failed"]
    BY <1>1, <2>1, <2>3
  <2>. QED
    BY <2>1, <2>2, <2>3
<1>5. Written(inputs, queue, tl)
  BY <1>1, <1>2, <1>4 DEF Written
<1>. QED
  BY <1>3, <1>5, ReadyIsOver

\* dispatch_at_boundary.
LEMMA SteerAtBoundary ==
    ASSUME IInv, RowsFit, turn # None, UNCHANGED <<turnLog, turn, local>>,
           DispatchSteer
    PROVE  Boundary
<1>1. /\ inputs \in [Inputs -> InputRecords] /\ turn \in Turns
      /\ turnLog[turn] = "open" /\ local = None
      /\ queue = {i \in Inputs : inputs[i].st = "queued"}
  BY LogFacts DEF TypeOK, IInv, History, Phase
<1>2. CASE inputs' = inputs
  <2>1. Returned = None
    BY <1>2, NoneReturned
  <2>. QED
    BY <1>2, <2>1 DEF Boundary, Delivered, RowsFit
<1>3. ASSUME NEW i \in Steers,
             inputs' = [inputs EXCEPT ![i] =
                          [inputs[i] EXCEPT !.st = "dispatched", !.turn = turn]]
      PROVE  Boundary /\ Returned = i /\ i # None
  <2>1. /\ i \in Inputs /\ inputs[i] \in InputRecords /\ inputs[i].kind = "steer"
        /\ inputs[i].st = "queued" /\ i # None
    BY <1>1, <1>3, ConstantsAssumption DEF Steers
  <2> DEFINE row == [inputs[i] EXCEPT !.st = "dispatched", !.turn = turn]
  <2>2. row.st = "dispatched" /\ row.turn = turn /\ row.kind = "steer"
    BY <2>1 DEF InputRecords
  <2>3. inputs' = [inputs EXCEPT ![i] = row]
    BY <1>3
  <2> HIDE DEF row
  <2>4. inputs'[i] = row /\ \A j \in Inputs : j # i => inputs'[j] = inputs[j]
    BY <1>1, <2>1, <2>3
  <2>5. Returned = i
    BY <2>1, <2>2, <2>4, ReturnedIs
  <2>6. RowsFit'
    BY <1>1, <2>1, <2>2, <2>4 DEF RowsFit
  <2>. QED
    BY <2>1, <2>2, <2>4, <2>5, <2>6 DEF Boundary, Delivered
<1>. QED
  BY <1>2, <1>3 DEF DispatchSteer

\* A method that leaves the rows alone delivers nothing.
LEMMA QuietStep ==
    ASSUME RowsFit, UNCHANGED <<inputs, turnLog, turn, local>>
    PROVE  Boundary /\ Returned = None
<1>1. Returned = None
  BY NoneReturned
<1>. QED
  BY <1>1 DEF Boundary, Delivered, RowsFit

-----------------------------------------------------------------------------
(* The ways a step of agent or owner preserves TurnInv *)

SettledCalls == \A c \in Calls : callLog[c].turn = turn => callLog[c].st = "finished"

\* With no call in a slot, every call of the turn has its result.
LEMMA FreeSlotsAreSettled ==
    ASSUME IInv, turn # None, NoTools PROVE SettledCalls
  BY DEF IInv, NoCallForgotten, Owed, NoTools, SettledCalls

\* A turn is closed, or an idle session dispatches.
LEMMA OverStep ==
    ASSUME TurnInv, IInv', AgentTypes', Over, UNCHANGED callLog,
           \/ pc' = "crashed"
           \/ pc' \in {"end", "return"} /\ ~Undispatched,
           pc # "crashed", hand' = Returned, request' = None,
           interrupted => interrupted',
           ~interrupted' /\ turn # None => SettledCalls
    PROVE  TurnInv'
<1>1. /\ turn \in Turns \cup {None} /\ turn' \in Turns \cup {None}
      /\ None \notin Inputs
  BY ConstantsAssumption DEF TurnInv, IInv, TypeOK
<1>2. Standing' /\ HandIsLive'
  BY <1>1 DEF Over, Idle, NextTurn, NextLocal, Standing, CallsAccepted, HandIsLive
<1>3. AllHeard' /\ WorkIsHeld'
  BY <1>1 DEF Over, Idle, NextTurn, NextLocal, AllHeard, Delivered, WorkIsHeld
<1>4. ~interrupted' => ClosedTurnsSettled'
  <2>1. SUFFICES ASSUME ~interrupted', NEW c \in Calls,
                        callLog[c].turn # None, turnLog'[callLog[c].turn] # "open"
                 PROVE  callLog[c].st = "finished"
    BY DEF ClosedTurnsSettled
  <2>2. callLog[c].turn \in Turns
    BY <2>1 DEF TurnInv, IInv, TypeOK
  <2>3. CASE callLog[c].turn = turn
    BY <1>1, <2>1, <2>2, <2>3 DEF SettledCalls
  <2>4. CASE callLog[c].turn # turn
    BY <2>1, <2>2, <2>4 DEF Over, TurnInv, NothingDropped, ClosedTurnsSettled
  <2>. QED
    BY <2>3, <2>4
<1>. QED
  BY <1>2, <1>3, <1>4, StrandedOnly DEF TurnInv, NothingDropped, Over

\* A method moved the records of this turn's calls only.
OwnCalls == \A c \in Calls : callLog'[c] = callLog[c] \/ callLog'[c].turn = turn

LEMMA OpenTurnOwes ==
    ASSUME TurnInv, OwnCalls, UNCHANGED <<turnLog, turn>>,
           \/ turn # None
           \/ UNCHANGED callLog,
           ~interrupted, pc # "crashed"
    PROVE  ClosedTurnsSettled'
<1>1. turn # None => turnLog[turn] = "open"
  BY DEF TurnInv, IInv, History
<1>. QED
  BY <1>1 DEF OwnCalls, TurnInv, NothingDropped, ClosedTurnsSettled

\* The agent goes on inside its turn.
LEMMA InTurnStep ==
    ASSUME TurnInv, IInv', AgentTypes', Boundary, OwnCalls, turn # None,
           Standing', HandIsLive',
           pc \notin {"idle", "return", "crashed"},
           pc' \notin {"idle", "start", "end", "return", "local"},
           \A i \in Inputs : i \in messages \/ i = hand \/ i = Returned
                               => i \in messages' \/ i = hand',
           UNCHANGED interrupted
    PROVE  TurnInv'
<1>1. turn' = turn /\ turn' # None /\ local' = None /\ state' # "IDLE"
  BY DEF Boundary, IInv, Phase
<1>2. AllHeard'
  BY <1>1 DEF TurnInv, AllHeard, Boundary
<1>3. RowsFit' /\ UNCHANGED <<turnLog, turn>>
  BY DEF Boundary
<1>4. NothingDropped'
  BY <1>1, <1>3, OpenTurnOwes DEF NothingDropped, WorkIsHeld, NoStrandedInput
<1>. QED
  BY <1>2, <1>3, <1>4 DEF TurnInv

\* The queue changes, or a record, and nobody moves.
LEMMA QueueStep ==
    ASSUME TurnInv, IInv', AgentTypes', Boundary, Returned = None, OwnCalls,
           turn # None \/ UNCHANGED callLog,
           UNCHANGED <<state, request, pending, approved, running, ask, pc,
                       hand, messages, interrupted>>,
           state = "IDLE" => Dispatchable(inputs', queue', FALSE)
                               \subseteq Dispatchable(inputs, queue, FALSE)
    PROVE  TurnInv'
<1>0. RowsFit' /\ UNCHANGED <<turnLog, turn, local>>
  BY DEF Boundary
<1>1. Standing'
  BY <1>0 DEF TurnInv, Standing, CallsAccepted, BetweenCalls
<1>2. hand # None => hand \in Inputs /\ inputs'[hand] = inputs[hand]
  BY DEF TurnInv, AgentTypes, HandIsLive, Boundary
<1>3. HandIsLive'
  BY <1>0, <1>2 DEF TurnInv, HandIsLive
<1>4. AllHeard'
  <2>1. \A i \in Inputs : Delivered(i)' => Delivered(i)
    BY ConstantsAssumption DEF Boundary
  <2>. QED
    BY <1>0, <2>1 DEF TurnInv, AllHeard
<1>5. ~interrupted /\ pc # "crashed" => WorkIsHeld' /\ NoStrandedInput'
  <2>1. SUFFICES ASSUME ~interrupted, pc # "crashed"
                 PROVE  WorkIsHeld' /\ NoStrandedInput'
    OBVIOUS
  <2>2. WorkIsHeld'
    BY <1>0, <1>2, <2>1 DEF TurnInv, NothingDropped, WorkIsHeld
  <2>3. ~Undispatched
    BY <2>1, NothingWaits DEF TurnInv, NothingDropped, Undispatched
  <2>. QED
    BY <1>0, <2>2, <2>3, StrandedOnly
<1>. QED
  BY <1>0, <1>1, <1>3, <1>4, <1>5, OpenTurnOwes DEF TurnInv, NothingDropped

-----------------------------------------------------------------------------
(* Each method in those terms *)

LEMMA FailTurnOver ==
    ASSUME IInv, RowsFit, state # "EXITING", FailTurn
    PROVE  Over /\ request' = None /\ UNCHANGED callLog /\ turn # None
<1>1. Settled([turnLog EXCEPT ![turn] = "failed"])
  BY DEF FailTurn, Settled
<1>. QED
  BY <1>1, ThenIdleIsOver DEF FailTurn, requestVars

\* A request ends and its turn with it.
LEMMA RequestOver ==
    ASSUME IInv, RowsFit, state # "EXITING", NEW st \in Closing, CloseRequest(st),
           NEW ts \in {"completed", "failed"}, ts = "failed" \/ Steers = {},
           ThenIdle([turnLog EXCEPT ![turn] = ts])
    PROVE  Over
<1>1. turn # None
  BY CloseFacts
<1>2. Settled([turnLog EXCEPT ![turn] = ts])
  BY <1>1 DEF Settled
<1>. QED
  BY <1>2, ThenIdleIsOver

LEMMA AcknowledgeOutcome ==
    ASSUME IInv, RowsFit, state # "EXITING", AcknowledgeInterrupt
    PROVE  /\ request' = None /\ turn # None /\ NoTools /\ UNCHANGED <<callLog, toolVars>>
           /\ \/ Over
              \/ /\ Boundary /\ UNCHANGED state /\ state = "MODEL_STREAMING"
                 /\ Steers # {}
<1>1. CloseRequest("interrupted") /\ "interrupted" \in Closing
  BY DEF AcknowledgeInterrupt, Closing
<1>2. CASE Steers # {}
  BY <1>1, <1>2, CloseFacts, SteerAtBoundary DEF AcknowledgeInterrupt
<1>3. CASE Steers = {}
  BY <1>1, <1>3, CloseFacts, RequestOver DEF AcknowledgeInterrupt
<1>. QED
  BY <1>1, <1>2, <1>3, CloseFacts DEF AcknowledgeInterrupt

LEMMA AnswerOutcome ==
    ASSUME IInv, RowsFit, state # "EXITING", CompleteResponse({})
    PROVE  /\ request' = None /\ turn # None /\ NoTools /\ UNCHANGED <<callLog, toolVars>>
           /\ \/ Over
              \/ /\ Boundary /\ UNCHANGED state /\ state = "MODEL_STREAMING"
                 /\ Steers # {}
<1>1. CloseRequest("committed") /\ "committed" \in Closing
  BY DEF CompleteResponse, Closing
<1>2. UNCHANGED <<callLog, toolVars>>
  BY LogFacts DEF CompleteResponse, LogOK, toolVars
<1>3. IF Steers # {}
      THEN DispatchSteer /\ UNCHANGED <<turnLog, turn, local, state>>
      ELSE ThenIdle([turnLog EXCEPT ![turn] = "completed"])
  BY DEF CompleteResponse
<1>4. CASE Steers # {}
  BY <1>1, <1>2, <1>3, <1>4, CloseFacts, SteerAtBoundary
<1>5. CASE Steers = {}
  BY <1>1, <1>2, <1>3, <1>5, CloseFacts, RequestOver
<1>. QED
  BY <1>4, <1>5

LEMMA FailRequestOver ==
    ASSUME IInv, RowsFit, state # "EXITING", FailRequest
    PROVE  Over /\ request' = None /\ turn # None /\ NoTools /\ UNCHANGED callLog
<1>1. CloseRequest("failed") /\ "failed" \in Closing
  BY DEF FailRequest, Closing
<1>. QED
  BY <1>1, CloseFacts, RequestOver DEF FailRequest

LEMMA LocalOver ==
    ASSUME IInv, RowsFit, state # "EXITING", FinishLocalAction
    PROVE  Over /\ turn = None /\ request' = None /\ UNCHANGED callLog
<1>1. turn = None /\ request = None /\ Settled(turnLog)
  BY DEF FinishLocalAction, IInv, Phase, Settled
<1>. QED
  BY <1>1, ThenIdleIsOver DEF FinishLocalAction, requestVars

\* submit: dispatched at once by an idle reducer, else queued.
LEMMA SubmitOutcome ==
    ASSUME IInv, RowsFit, NEW k \in Kinds, Submit(k)
    PROVE  /\ UNCHANGED <<callLog, request, toolVars>>
           /\ \/ state = "IDLE" /\ turn = None /\ local = None /\ Over
              \/ /\ state # "IDLE" /\ Boundary /\ Returned = None /\ UNCHANGED state
<1>1. PICK i \in Inputs :
        /\ inputs[i].st = "absent"
        /\ LET ins == [inputs EXCEPT ![i] =
                [kind |-> k, st |-> "queued", turn |-> None, aim |-> turn]]
           IN IF turn = None /\ local = None /\ state = "IDLE"
              THEN DispatchReady(ins, queue \cup {i}, turnLog, FALSE)
              ELSE /\ inputs' = ins
                   /\ queue' = queue \cup {i}
                   /\ UNCHANGED <<turnLog, turn, local, state>>
  BY DEF Submit, First
<1>. DEFINE row == [kind |-> k, st |-> "queued", turn |-> None, aim |-> turn]
            ins == [inputs EXCEPT ![i] = row]
<1>2. /\ inputs \in [Inputs -> InputRecords] /\ turn \in Turns \cup {None}
      /\ turnLog \in [Turns -> {"none", "open", "completed", "failed"}]
      /\ queue = {j \in Inputs : inputs[j].st = "queued"}
      /\ state = "IDLE" => turn = None /\ local = None
      /\ local # None => local \in Inputs /\ inputs[local].st = "dispatched"
  BY LogFacts DEF TypeOK, IInv, Phase, RowsFit
<1>3. /\ row.st = "queued" /\ row.turn = None /\ row.kind = k /\ row.aim = turn
      /\ row \in InputRecords
  BY <1>2 DEF InputRecords
<1>4. IF state = "IDLE"
      THEN DispatchReady(ins, queue \cup {i}, turnLog, FALSE)
      ELSE inputs' = ins /\ UNCHANGED <<turnLog, turn, local, state>>
  BY <1>1, <1>2
<1>. HIDE DEF row
<1>5. /\ ins \in [Inputs -> InputRecords]
      /\ ins[i] = row /\ \A j \in Inputs : j # i => ins[j] = inputs[j]
  BY <1>2, <1>3
<1>. HIDE DEF ins
<1>6. CASE state = "IDLE"
  <2>1. queue \cup {i} = {j \in Inputs : ins[j].st = "queued"}
    BY <1>1, <1>2, <1>3, <1>5
  <2>2. \A j \in Inputs : ins[j].kind = "steer" /\ ins[j].st = "queued" =>
                           ins[j].aim \in Turns /\ turnLog[ins[j].aim] = "failed"
    <3>1. k # "steer" /\ turn = None
      BY <1>2, <1>6 DEF Submit
    <3>. QED
      BY <1>3, <1>5, <3>1, ConstantsAssumption DEF RowsFit
  <2>3. Written(ins, queue \cup {i}, turnLog)
    BY <1>1, <1>2, <1>3, <1>5, <2>1, <2>2 DEF Written
  <2>4. Over
    BY <1>4, <1>6, <2>3, ReadyIsOver
  <2>. QED
    BY <1>2, <1>6, <2>4 DEF Submit, requestVars
<1>7. CASE state # "IDLE"
  <2>1. \A j \in Inputs : inputs'[j].st = "dispatched" => inputs[j].st = "dispatched"
    BY <1>3, <1>4, <1>5, <1>7
  <2>2. Returned = None
    BY <2>1, NoneReturned
  <2>0. k = "steer" => turn \in Turns
    BY <1>2 DEF Submit
  <2>3. RowsFit'
    BY <1>1, <1>2, <1>3, <1>4, <1>5, <1>7, <2>0 DEF RowsFit
  <2>4. Boundary
    BY <1>1, <1>3, <1>4, <1>5, <1>7, <2>2, <2>3 DEF Boundary, Delivered
  <2>. QED
    BY <1>4, <1>7, <2>2, <2>4 DEF Submit, requestVars
<1>. QED
  BY <1>6, <1>7

LEMMA TakeBackOutcome ==
    ASSUME IInv, RowsFit, RetrieveLatest
    PROVE  /\ Boundary /\ Returned = None
           /\ Dispatchable(inputs', queue', FALSE) \subseteq Dispatchable(inputs, queue, FALSE)
           /\ UNCHANGED <<state, callLog, requestVars, toolVars>>
<1>1. PICK i \in queue : CancelQueuedItems({i})
  BY DEF RetrieveLatest
<1>2. /\ inputs \in [Inputs -> InputRecords] /\ i \in Inputs
      /\ inputs[i].st = "queued"
  BY <1>1, LogFacts
<1>. DEFINE row == [inputs[i] EXCEPT !.st = "cancelled"]
<1>3. /\ row.st = "cancelled" /\ row.turn = inputs[i].turn
      /\ row.kind = inputs[i].kind
  BY <1>2 DEF InputRecords
<1>4. inputs'[i] = row /\ \A j \in Inputs : j # i => inputs'[j] = inputs[j]
  BY <1>1, <1>2 DEF CancelQueuedItems
<1>. HIDE DEF row
<1>5. /\ UNCHANGED <<turnLog, turn, local, state, callLog, requestVars, toolVars>>
      /\ queue' = queue \ {i} /\ queue \subseteq Inputs
  BY <1>1, LogFacts DEF CancelQueuedItems
<1>6. Returned = None
  BY <1>3, <1>4, NoneReturned
<1>7. RowsFit'
  <2>1. local # None => inputs'[local] = inputs[local]
    BY <1>2, <1>4, LogFacts DEF RowsFit, TypeOK
  <2>2. \A j \in Inputs : /\ inputs'[j].turn = inputs[j].turn
                           /\ inputs'[j].kind = inputs[j].kind
    BY <1>3, <1>4
  <2>3. \A j \in Inputs : inputs'[j].st = "queued" => inputs'[j] = inputs[j]
    BY <1>3, <1>4
  <2>. QED
    BY <1>5, <2>1, <2>2, <2>3 DEF RowsFit
<1>8. Boundary
  BY <1>2, <1>3, <1>4, <1>5, <1>6, <1>7 DEF Boundary, Delivered
<1>9. Dispatchable(inputs', queue', FALSE) \subseteq Dispatchable(inputs, queue, FALSE)
  BY <1>3, <1>4, <1>5 DEF Dispatchable
<1>. QED
  BY <1>5, <1>6, <1>8, <1>9

\* A call is settled: the next one waits, or the boundary is reached.
LEMMA AfterCallOutcome ==
    ASSUME IInv, RowsFit, NEW boundary, turn # None,
           AfterCall(boundary) \/ (UNCHANGED <<state, inputs, queue>> /\ pending' # {}),
           state \in {"TOOL_WAITING_APPROVAL", "TOOL_RUNNING_FOREGROUND"},
           pending' # {} /\ state = "TOOL_RUNNING_FOREGROUND" => AfterCall(boundary),
           approved' = None, UNCHANGED <<turnLog, turn, local>>
    PROVE  Boundary /\ BetweenCalls' /\ (Returned # None => pending' = {})
<1>1. CASE UNCHANGED <<inputs, queue>>
  BY <1>1, QuietStep, LogFacts, Edges DEF AfterCall, BetweenCalls, TypeOK
<1>2. CASE DispatchSteer /\ pending' = {} /\ state' = "MODEL_STREAMING"
  BY <1>2, SteerAtBoundary DEF BetweenCalls
<1>. QED
  BY <1>1, <1>2 DEF AfterCall

-----------------------------------------------------------------------------
(* The agent's steps *)

\* The new state of the agent is typed.
LEMMA TurnTypes ==
    ASSUME TurnInv, NEW to \in Places, NEW h \in Inputs \cup {None}, Go(to, h)
    PROVE  AgentTypes' /\ UNCHANGED interrupted
  BY DEF TurnInv, AgentTypes, Go, passVars

LEMMA ReturnedType == Returned \in Inputs \cup {None}
<1>. DEFINE new == {i \in Inputs : inputs[i].st # "dispatched"
                                     /\ inputs'[i].st = "dispatched"}
<1>1. CASE new = {}
  BY <1>1 DEF Returned
<1>2. CASE new # {}
  <2>1. (CHOOSE i \in new : TRUE) \in new
    BY <1>2
  <2>2. (CHOOSE i \in new : TRUE) \in Inputs
    BY <2>1
  <2>. QED
    BY <1>2, <2>2 DEF Returned
<1>. QED
  BY <1>1, <1>2

\* An empty hand is fine anywhere.
LEMMA EmptyHand == hand' = None => HandIsLive'
  BY DEF HandIsLive

\* A turn that fails, with every slot free.
LEMMA FailingStep ==
    ASSUME TurnInv, IInv', AgentTypes', FailTurn, NoTools,
           pc' = After("end", TRUE), pc # "crashed", hand' = Returned,
           UNCHANGED interrupted
    PROVE  TurnInv'
<1>1. state # "EXITING" /\ IInv /\ RowsFit
  BY DEF TurnInv, Standing
<1>. QED
  BY <1>1, FailTurnOver, FreeSlotsAreSettled, OverStep DEF After

\* The agent goes on with an empty hand, and delivers nothing.
LEMMA GoingOn ==
    ASSUME TurnInv, IInv', AgentTypes', Standing', turn # None,
           UNCHANGED <<inputs, turnLog, turn, local, interrupted>>, OwnCalls,
           hand' = None, hand \in messages' \cup {None}, messages \subseteq messages',
           pc \notin {"idle", "return", "crashed"},
           pc' \notin {"idle", "start", "end", "return", "local"}
    PROVE  TurnInv'
<1>1. Boundary /\ Returned = None
  BY QuietStep DEF TurnInv
<1>2. None \notin Inputs
  BY ConstantsAssumption
<1>. QED
  BY <1>1, <1>2, InTurnStep, EmptyHand

LEMMA RequestSteps ==
    ASSUME TurnInv, IInv',
           StartTurn \/ GiveUp \/ BeginCompaction \/ EndCompactionAttempt
             \/ LeaveCompaction \/ BeginChat \/ RetryTooLong \/ FailChat
    PROVE  TurnInv'
<1>0. /\ IInv /\ RowsFit /\ state \notin {"PICKER", "REWIND", "EXITING"}
      /\ None \notin Inputs
      /\ hand \in Inputs \cup {None} /\ messages \subseteq Inputs
      /\ state = "MODEL_STREAMING" => turn # None /\ NoTools /\ local = None
      /\ request # None => turn # None /\ NoTools /\ hand = None
                             /\ state = "MODEL_STREAMING"
      /\ pc \in {"top", "force", "between", "aux", "stream"} => hand = None
  BY ConstantsAssumption DEF TurnInv, Standing, AgentTypes, HandIsLive, IInv, Phase
<1>1. CASE StartTurn
  <2>1. AgentTypes' /\ UNCHANGED interrupted
    BY <1>0, <1>1, ReturnedType
    DEF StartTurn, After, TurnInv, AgentTypes, Places, passVars
  <2>2. pc = "start" /\ state = "MODEL_STREAMING" /\ request = None
    BY <1>1 DEF StartTurn, TurnInv, Standing
  <2>3. CASE FailTurn /\ pc' = After("end", TRUE) /\ hand' = Returned
    BY <1>0, <2>1, <2>2, <2>3, FailingStep
  <2>4. CASE pc' = "top" /\ hand' = None /\ UNCHANGED vars
    <3>1. Standing'
      BY <1>0, <2>2, <2>4
      DEF Standing, CallsAccepted, vars, journal, requestVars, toolVars
    <3>. QED
      BY <1>0, <1>1, <2>1, <2>2, <2>4, <3>1, GoingOn
      DEF StartTurn, OwnCalls, vars, journal
  <2>. QED
    BY <1>1, <2>3, <2>4 DEF StartTurn
<1>2. CASE GiveUp
  <2>1. AgentTypes' /\ UNCHANGED interrupted
    BY <1>2, TurnTypes, ReturnedType DEF GiveUp, After, Places
  <2>2. state = "MODEL_STREAMING"
    BY <1>2 DEF GiveUp, TurnInv, Standing, CallsAccepted
  <2>. QED
    BY <1>0, <1>2, <2>1, <2>2, FailingStep DEF GiveUp, Go
<1>3. CASE BeginCompaction
  <2>1. AgentTypes' /\ UNCHANGED interrupted
    BY <1>3 DEF BeginCompaction, TurnInv, AgentTypes, Places, passVars
  <2>2. pc \in {"top", "force", "between"} /\ pc' = "aux"
    BY <1>3 DEF BeginCompaction
  <2>3. request' # None /\ UNCHANGED state
    BY <1>3, ConstantsAssumption DEF BeginCompaction, BeginRequest
  <2>4. Standing'
    BY <1>0, <2>2, <2>3 DEF Standing, CallsAccepted
  <2>. QED
    BY <1>0, <1>3, <2>1, <2>2, <2>4, GoingOn
    DEF BeginCompaction, BeginRequest, OwnCalls
<1>4. CASE EndCompactionAttempt
  <2>1. AgentTypes' /\ UNCHANGED interrupted
    BY <1>4, TurnTypes DEF EndCompactionAttempt, Places
  <2>2. /\ request # None /\ request' = None
        /\ UNCHANGED <<inputs, turnLog, turn, local, callLog, state>>
    BY <1>4
    DEF EndCompactionAttempt, FinishAuxRequest, EndRequestOnly, CloseRequest
  <2>3. pc = "aux" /\ pc' = "between" /\ hand' = None /\ UNCHANGED messages
    BY <1>4 DEF EndCompactionAttempt, Go
  <2>4. Standing'
    BY <1>0, <2>2, <2>3 DEF Standing, CallsAccepted
  <2>. QED
    BY <1>0, <2>1, <2>2, <2>3, <2>4, GoingOn DEF OwnCalls
<1>5. CASE LeaveCompaction
  <2>1. AgentTypes' /\ UNCHANGED interrupted
    BY <1>5 DEF LeaveCompaction, TurnInv, AgentTypes, Places, passVars
  <2>2. /\ state = "MODEL_STREAMING" /\ request = None
        /\ pc \in {"between", "force"} /\ pc' = "top" /\ UNCHANGED <<vars, hand, messages>>
    BY <1>5 DEF LeaveCompaction, TurnInv, Standing, CallsAccepted
  <2>3. Standing'
    BY <1>0, <2>2
    DEF Standing, CallsAccepted, vars, journal, requestVars, toolVars
  <2>. QED
    BY <1>0, <2>1, <2>2, <2>3, GoingOn DEF OwnCalls, vars, journal
<1>6. CASE BeginChat
  <2>1. AgentTypes' /\ UNCHANGED interrupted
    BY <1>6, TurnTypes DEF BeginChat, Places
  <2>2. pc = "top" /\ pc' = "stream" /\ hand' = None /\ UNCHANGED messages
    BY <1>6 DEF BeginChat, Go
  <2>3. request' # None /\ UNCHANGED state
    BY <1>6, ConstantsAssumption DEF BeginChat, BeginRequest
  <2>4. Standing'
    BY <1>0, <2>2, <2>3 DEF Standing, CallsAccepted
  <2>. QED
    BY <1>0, <1>6, <2>1, <2>2, <2>4, GoingOn DEF BeginChat, BeginRequest, OwnCalls
<1>7. CASE RetryTooLong
  <2>1. AgentTypes' /\ UNCHANGED interrupted
    BY <1>7 DEF RetryTooLong, TurnInv, AgentTypes, Places, passVars
  <2>2. /\ request # None /\ request' = None
        /\ UNCHANGED <<inputs, turnLog, turn, local, callLog, state>>
    BY <1>7 DEF RetryTooLong, RetryRequest, EndRequestOnly, CloseRequest
  <2>3. pc = "stream" /\ pc' = "force" /\ UNCHANGED <<hand, messages>>
    BY <1>7 DEF RetryTooLong
  <2>4. Standing'
    BY <1>0, <2>2, <2>3 DEF Standing, CallsAccepted
  <2>. QED
    BY <1>0, <2>1, <2>2, <2>3, <2>4, GoingOn DEF OwnCalls
<1>8. CASE FailChat
  <2>1. AgentTypes' /\ UNCHANGED interrupted
    BY <1>8, TurnTypes, ReturnedType DEF FailChat, After, Places
  <2>2. Over /\ request' = None /\ SettledCalls /\ UNCHANGED callLog
    BY <1>0, <1>8, FailRequestOver, FreeSlotsAreSettled DEF FailChat
  <2>. QED
    BY <1>8, <2>1, <2>2, OverStep DEF FailChat, After, Go
<1>. QED
  BY <1>1, <1>2, <1>3, <1>4, <1>5, <1>6, <1>7, <1>8

\* A request that ends with its turn, or with a steer that the agent adopts.
LEMMA AdoptingStep ==
    ASSUME TurnInv, IInv', AgentTypes', NoTools, turn # None, request' = None,
           UNCHANGED <<callLog, toolVars, interrupted>>,
           pc \in {"aux", "stream"},
           \/ Over
           \/ /\ Boundary /\ UNCHANGED state /\ state = "MODEL_STREAMING"
              /\ Steers # {},
           IF Returned # None /\ inputs'[Returned].kind = "steer"
           THEN messages' = messages \cup {Returned} /\ hand' = None /\ pc' = "top"
           ELSE messages' = messages /\ hand' = Returned /\ pc' = After("end", TRUE)
    PROVE  TurnInv'
<1>0. IInv /\ RowsFit /\ None \notin Inputs /\ hand = None
  BY ConstantsAssumption DEF TurnInv, HandIsLive
<1>1. CASE Over
  <2>1. ~(Returned # None /\ inputs'[Returned].kind = "steer")
    BY <1>1 DEF Over, Idle, NextTurn, NextLocal, RowsFit
  <2>. QED
    BY <1>0, <1>1, <2>1, FreeSlotsAreSettled, OverStep DEF After
<1>2. CASE /\ Boundary /\ UNCHANGED state /\ state = "MODEL_STREAMING"
           /\ Steers # {}
  <2>1. turn' # None /\ UNCHANGED turn
    BY <1>2 DEF Boundary
  <2>2. Returned # None => inputs'[Returned].kind = "steer"
    BY <1>2 DEF Boundary
  <2>6. pc' \in {"top", "crashed"}
    BY <1>2, <2>2 DEF After, Undelivered, NoTools, toolVars
  <2>3. Standing'
    BY <1>2, <2>1, <2>6 DEF Standing, CallsAccepted
  <2>4. hand' = None
    BY <2>2
  <2>5. OwnCalls
    BY DEF OwnCalls
  <2>7. \A i \in Inputs : i \in messages \/ i = hand \/ i = Returned
                            => i \in messages' \/ i = hand'
    BY <1>0, <2>2
  <2>8. HandIsLive'
    BY <2>4, EmptyHand
  <2>. QED
    BY <1>2, <2>3, <2>5, <2>6, <2>7, <2>8, InTurnStep
<1>. QED
  BY <1>1, <1>2

LEMMA AnswerSteps ==
    ASSUME TurnInv, IInv', AckInterrupt \/ CommitAnswer \/ CommitCalls
    PROVE  TurnInv'
<1>0. /\ IInv /\ RowsFit /\ state \notin {"PICKER", "REWIND", "EXITING"}
      /\ None \notin Inputs /\ Returned \in Inputs \cup {None}
      /\ messages \subseteq Inputs
      /\ pc \in {"aux", "stream"} => hand = None
  BY ConstantsAssumption, ReturnedType DEF TurnInv, Standing, AgentTypes, HandIsLive
<1>1. CASE AckInterrupt
  <2>1. AgentTypes' /\ UNCHANGED interrupted
    BY <1>0, <1>1 DEF AckInterrupt, After, TurnInv, AgentTypes, Places, passVars
  <2>2. /\ pc \in {"aux", "stream"}
        /\ IF Returned # None /\ inputs'[Returned].kind = "steer"
           THEN messages' = messages \cup {Returned} /\ hand' = None /\ pc' = "top"
           ELSE messages' = messages /\ hand' = Returned /\ pc' = After("end", TRUE)
        /\ AcknowledgeInterrupt
    BY <1>1 DEF AckInterrupt
  <2>. QED
    BY <1>0, <2>1, <2>2, AcknowledgeOutcome, AdoptingStep
<1>2. CASE CommitAnswer
  <2>1. AgentTypes' /\ UNCHANGED interrupted
    BY <1>0, <1>2 DEF CommitAnswer, Adopting, After, TurnInv, AgentTypes, Places,
                          passVars
  <2>2. /\ pc \in {"aux", "stream"}
        /\ IF Returned # None /\ inputs'[Returned].kind = "steer"
           THEN messages' = messages \cup {Returned} /\ hand' = None /\ pc' = "top"
           ELSE messages' = messages /\ hand' = Returned /\ pc' = After("end", TRUE)
        /\ CompleteResponse({})
    BY <1>2 DEF CommitAnswer, Adopting
  <2>. QED
    BY <1>0, <2>1, <2>2, AnswerOutcome, AdoptingStep
<1>3. CASE CommitCalls
  <2>1. PICK C \in (SUBSET Calls) \ {{}} : CompleteResponse(C)
    BY <1>3 DEF CommitCalls
  <2>2. PICK to \in {"batch", "held"} : Go(to, None)
    BY <1>3 DEF CommitCalls
  <2>3. pc = "stream" /\ pc' = to /\ hand' = None /\ UNCHANGED messages
    BY <1>3, <2>2 DEF CommitCalls, Go
  <2>4. AgentTypes' /\ UNCHANGED interrupted
    BY <2>2, TurnTypes DEF Places
  <2>5. CloseRequest("committed") /\ "committed" \in Closing
    BY <2>1 DEF CompleteResponse, Closing
  <2>6. turn # None /\ NoTools /\ request' = None /\ state = "MODEL_STREAMING"
    BY <1>0, <2>5, CloseFacts
  <2>7. /\ UNCHANGED <<inputs, turnLog, turn, local, approved>>
        /\ pending' = C /\ C # {} /\ state' = Transition("TOOL_WAITING_APPROVAL")
        /\ callLog' = [c \in Calls |-> IF c \in C
                     THEN [st |-> "requested", turn |-> turn] ELSE callLog[c]]
    <3>1. C # {} /\ CompleteResponse(C)
      BY <2>1
    <3>. QED
      BY <3>1 DEF CompleteResponse
  <2>8. state' = "TOOL_WAITING_APPROVAL"
    BY <2>6, <2>7, Edges DEF States
  <2>9. OwnCalls
    BY <2>7 DEF OwnCalls
  <2>10. Standing'
    BY <2>3, <2>6, <2>7, <2>8 DEF Standing, CallsAccepted, NoTools
  <2>. QED
    BY <1>0, <2>3, <2>4, <2>6, <2>7, <2>9, <2>10, GoingOn
<1>. QED
  BY <1>1, <1>2, <1>3

-----------------------------------------------------------------------------
(* The agent's steps inside a batch *)

LEMMA DenyOutcome ==
    ASSUME TurnInv, NEW c \in Calls, NEW b \in BOOLEAN, DenyTool(c, b)
    PROVE  /\ Boundary /\ BetweenCalls' /\ (Returned # None => pending' = {})
           /\ b = FALSE => UNCHANGED inputs
           /\ turn # None /\ request' = None /\ OwnCalls /\ pending # {}
<1>0. IInv /\ RowsFit
  BY DEF TurnInv
<1>1. turn # None /\ request = None /\ c \in Owed
  BY <1>0 DEF DenyTool, IInv, Phase, NoTools, Owed
<1>2. UNCHANGED <<turnLog, turn, request, local, approved>> /\ approved = None
  BY DEF DenyTool, requestVars
<1>3. \/ AfterCall(b)
      \/ UNCHANGED <<state, inputs, queue>> /\ pending' # {}
  BY DEF DenyTool
<1>4. state = "TOOL_WAITING_APPROVAL" /\ pending # {}
  BY DEF DenyTool
<1>5. OwnCalls
  BY <1>0, <1>1, HeldCalls, CallFacts DEF DenyTool, OwnCalls, CallStates
<1>6. b = FALSE => UNCHANGED inputs
  BY DEF DenyTool, AfterCall
<1>. QED
  BY <1>0, <1>1, <1>2, <1>3, <1>4, <1>5, <1>6, AfterCallOutcome

LEMMA AbortOutcome ==
    ASSUME TurnInv, AbortApprovedTool
    PROVE  /\ Boundary /\ BetweenCalls' /\ (Returned # None => pending' = {})
           /\ turn # None /\ request' = None /\ OwnCalls
<1>0. IInv /\ RowsFit
  BY DEF TurnInv
<1>1. turn # None /\ request = None /\ approved \in Owed
  BY <1>0 DEF AbortApprovedTool, IInv, Phase, NoTools, Owed
<1>2. UNCHANGED <<turnLog, turn, request, local>> /\ approved' = None
  BY DEF AbortApprovedTool, requestVars
<1>3. \/ AfterCall(TRUE)
      \/ UNCHANGED <<state, inputs, queue>> /\ pending' # {}
  BY DEF AbortApprovedTool
<1>4. state = "TOOL_WAITING_APPROVAL"
  BY DEF AbortApprovedTool
<1>5. OwnCalls
  BY <1>0, <1>1, HeldCalls, CallFacts DEF AbortApprovedTool, OwnCalls, CallStates
<1>. QED
  BY <1>0, <1>1, <1>2, <1>3, <1>4, <1>5, AfterCallOutcome

LEMMA FinishOutcome ==
    ASSUME TurnInv, NEW b \in BOOLEAN, FinishTool(b), state = "TOOL_RUNNING_FOREGROUND"
    PROVE  /\ Boundary /\ BetweenCalls' /\ (Returned # None => pending' = {})
           /\ turn # None /\ request' = None /\ OwnCalls
<1>0. IInv /\ RowsFit
  BY DEF TurnInv
<1>1. turn # None /\ request = None /\ running \in Owed
  BY <1>0 DEF FinishTool, IInv, Phase, NoTools, Owed
<1>2. UNCHANGED <<turnLog, turn, request, local>> /\ approved' = None
  BY <1>0 DEF FinishTool, requestVars, IInv, Phase
<1>3. AfterCall(b)
  BY DEF FinishTool
<1>5. OwnCalls
  BY <1>0, <1>1, HeldCalls, CallFacts DEF FinishTool, OwnCalls, CallStates
<1>. QED
  BY <1>0, <1>1, <1>2, <1>3, <1>5, AfterCallOutcome

\* A call is settled, and its action is in the agent's hand.
LEMMA SettledStep ==
    ASSUME TurnInv, IInv', AgentTypes', Boundary, BetweenCalls', OwnCalls,
           turn # None, request' = None, Returned # None => pending' = {},
           hand = None, hand' = Returned, UNCHANGED <<messages, interrupted>>,
           pc \notin {"idle", "return", "crashed"},
           pc' \in {"settled", "toolEnd", "closing", "broken", "crashed"}
    PROVE  TurnInv'
<1>1. Standing'
  <2>1. IInv'
    OBVIOUS
  <2>2. state' \notin {"PICKER", "REWIND", "EXITING"}
    BY DEF BetweenCalls
  <2>. QED
    BY <2>2 DEF Standing, CallsAccepted, BetweenCalls
<1>2. HandIsLive'
  BY DEF Boundary, HandIsLive
<1>3. \A i \in Inputs : i \in messages \/ i = hand \/ i = Returned
                          => i \in messages' \/ i = hand'
  BY ConstantsAssumption
<1>. QED
  BY <1>1, <1>2, <1>3, InTurnStep

\* With the batch done, the agent stands with every slot free.
LEMMA BatchIsDone ==
    ASSUME TurnInv, pc \in {"held", "batch", "closing"}, pending = {}
    PROVE  NoTools /\ state = "MODEL_STREAMING" /\ request = None /\ turn # None
  BY DEF TurnInv, Standing, CallsAccepted, IInv, Phase

LEMMA DenialSteps ==
    ASSUME TurnInv, IInv',
           DenyHeld \/ RefuseArguments \/ DenyCall \/ CloseCall
             \/ CheckpointFailed \/ TraceNotOpened
    PROVE  TurnInv'
<1>0. /\ None \notin Inputs /\ Returned \in Inputs \cup {None}
      /\ hand \in Inputs \cup {None} /\ messages \subseteq Inputs
      /\ pc \in {"held", "batch", "approved"} => hand = None
      /\ pc = "closing" /\ pending # {} => hand = None
  BY ConstantsAssumption, ReturnedType DEF TurnInv, AgentTypes, HandIsLive
<1>1. CASE DenyHeld
  <2>1. PICK c \in Calls : DenyTool(c, FALSE)
    BY <1>1 DEF DenyHeld
  <2>2. pc = "held" /\ pc' = "held" /\ hand' = None /\ UNCHANGED messages
    BY <1>1 DEF DenyHeld, Go
  <2>3. AgentTypes' /\ UNCHANGED interrupted
    BY <1>1, TurnTypes DEF DenyHeld, Places
  <2>4. /\ Boundary /\ BetweenCalls' /\ UNCHANGED inputs
        /\ turn # None /\ request' = None /\ OwnCalls
    BY <2>1, DenyOutcome
  <2>5. Standing'
    BY <2>2, <2>4 DEF Standing, CallsAccepted, BetweenCalls
  <2>. QED
    BY <1>0, <2>2, <2>3, <2>4, <2>5, GoingOn DEF Boundary
<1>2. CASE RefuseArguments \/ DenyCall \/ CloseCall
  <2>1. PICK c \in Calls, b \in BOOLEAN : DenyTool(c, b)
    BY <1>2 DEF RefuseArguments, DenyCall, CloseCall
  <2>2. /\ pc \in {"batch", "closing"}
        /\ pc' \in {"settled", "closing", "broken", "crashed"}
        /\ hand' = Returned /\ UNCHANGED messages
    BY <1>2 DEF RefuseArguments, DenyCall, CloseCall, Go, GoParsed, After
  <2>3. AgentTypes' /\ UNCHANGED interrupted
    BY <1>0, <1>2
    DEF RefuseArguments, DenyCall, CloseCall, Go, GoParsed, After, TurnInv,
        AgentTypes, Places, passVars
  <2>. QED
    BY <1>0, <2>1, <2>2, <2>3, DenyOutcome, SettledStep
<1>3. CASE CheckpointFailed \/ TraceNotOpened
  <2>1. /\ pc = "approved" /\ pc' \in {"settled", "closing", "crashed"}
        /\ hand' = Returned /\ UNCHANGED messages /\ AbortApprovedTool
    BY <1>3 DEF CheckpointFailed, TraceNotOpened, Go, After
  <2>2. AgentTypes' /\ UNCHANGED interrupted
    BY <1>0, <1>3
    DEF CheckpointFailed, TraceNotOpened, Go, After, TurnInv, AgentTypes, Places,
        passVars
  <2>. QED
    BY <1>0, <2>1, <2>2, AbortOutcome, SettledStep
<1>. QED
  BY <1>1, <1>2, <1>3

LEMMA CallSteps ==
    ASSUME TurnInv, IInv', ApproveCall \/ StartCall \/ TaskStarted \/ EndCall
    PROVE  TurnInv'
<1>0. /\ None \notin Inputs /\ Returned \in Inputs \cup {None}
      /\ hand \in Inputs \cup {None} /\ messages \subseteq Inputs /\ IInv
      /\ pc \in {"batch", "approved", "tool"} => hand = None /\ request = None
  BY ConstantsAssumption, ReturnedType
  DEF TurnInv, AgentTypes, HandIsLive, Standing
<1>1. CASE ApproveCall
  <2>1. PICK c \in Calls : ApproveTool(c)
    BY <1>1 DEF ApproveCall
  <2>2. /\ pc = "batch" /\ pc' = "approved" /\ hand' = None
        /\ UNCHANGED <<messages, interrupted>>
    BY <1>1 DEF ApproveCall, GoParsed
  <2>3. AgentTypes'
    BY <1>1 DEF ApproveCall, GoParsed, TurnInv, AgentTypes, Places
  <2>4. /\ state = "TOOL_WAITING_APPROVAL" /\ turn # None /\ c # None /\ c \in Owed
        /\ approved' = c
        /\ UNCHANGED <<inputs, turnLog, turn, request, local, state>>
        /\ callLog' = LogCall(c, "approved")
    BY <1>0, <2>1, ConstantsAssumption DEF ApproveTool, IInv, Phase, Owed, requestVars
  <2>5. OwnCalls
    BY <1>0, <2>4, HeldCalls, CallFacts DEF OwnCalls, CallStates
  <2>6. Standing'
    BY <1>0, <2>2, <2>4 DEF Standing, CallsAccepted
  <2>. QED
    BY <1>0, <2>2, <2>3, <2>4, <2>5, <2>6, GoingOn
<1>2. CASE StartCall
  <2>1. StartTool /\ Go("tool", None) /\ pc = "approved"
    BY <1>2 DEF StartCall
  <2>2. pc' = "tool" /\ hand' = None /\ UNCHANGED messages
    BY <2>1 DEF Go
  <2>3. AgentTypes' /\ UNCHANGED interrupted
    BY <2>1, TurnTypes DEF Places
  <2>4. /\ state = "TOOL_WAITING_APPROVAL" /\ turn # None
        /\ approved # None /\ approved \in Owed /\ running' = approved
        /\ UNCHANGED <<inputs, turnLog, turn, request, local>>
        /\ state' = Transition("TOOL_RUNNING_FOREGROUND")
        /\ callLog' = LogCall(approved, "started")
    BY <1>0, <2>1 DEF StartTool, IInv, Phase, Owed, requestVars
  <2>5. OwnCalls
    BY <1>0, <2>4, HeldCalls, CallFacts DEF OwnCalls, CallStates
  <2>6. state' = "TOOL_RUNNING_FOREGROUND"
    BY <2>4, Edges DEF States
  <2>7. Standing'
    BY <1>0, <2>1, <2>2, <2>4, <2>6 DEF Standing, CallsAccepted
  <2>. QED
    BY <1>0, <2>1, <2>2, <2>3, <2>4, <2>5, <2>7, GoingOn
<1>3. CASE TaskStarted
  <2>1. RegisterToolTask /\ UNCHANGED agentVars /\ pc = "tool"
    BY <1>3 DEF TaskStarted
  <2>2. /\ UNCHANGED <<inputs, turnLog, turn, local, callLog, state, request, running>>
        /\ turn # None
    BY <1>0, <2>1
    DEF RegisterToolTask, IInv, Phase, NoTools, journal, requestVars
  <2>3. AgentTypes' /\ Standing'
    BY <2>1, <2>2
    DEF TurnInv, AgentTypes, Standing, CallsAccepted, agentVars, passVars
  <2>. QED
    BY <1>0, <2>1, <2>2, <2>3, GoingOn DEF OwnCalls, agentVars, passVars
<1>4. CASE EndCall
  <2>1. PICK b \in BOOLEAN : FinishTool(b)
    BY <1>4 DEF EndCall
  <2>2. /\ pc = "tool" /\ pc' \in {"toolEnd", "crashed"} /\ hand' = Returned
        /\ UNCHANGED <<messages, interrupted>>
    BY <1>4 DEF EndCall, After, passVars
  <2>3. AgentTypes'
    BY <1>0, <1>4 DEF EndCall, Outcomes, After, TurnInv, AgentTypes, Places, passVars
  <2>4. state = "TOOL_RUNNING_FOREGROUND"
    BY <2>2 DEF TurnInv, Standing, CallsAccepted
  <2>. QED
    BY <1>0, <2>1, <2>2, <2>3, <2>4, FinishOutcome, SettledStep
<1>. QED
  BY <1>1, <1>2, <1>3, <1>4

LEMMA BatchSteps ==
    ASSUME TurnInv, IInv',
           LeaveHeld \/ AfterYield \/ BatchDone \/ AfterCallEnd \/ CloseBatch
    PROVE  TurnInv'
<1>0. /\ IInv /\ None \notin Inputs /\ Returned \in Inputs \cup {None}
      /\ hand \in Inputs \cup {None} /\ messages \subseteq Inputs
      /\ pc \in {"held", "batch"} => hand = None
      /\ pc \in {"settled", "toolEnd", "closing"} /\ hand # None => IsSteer(hand)
  BY ConstantsAssumption, ReturnedType
  DEF TurnInv, AgentTypes, HandIsLive, IsSteer
<1>1. CASE LeaveHeld
  <2>1. NoTools /\ state = "MODEL_STREAMING" /\ request = None /\ turn # None
    BY <1>1, BatchIsDone DEF LeaveHeld
  <2>2. CASE UNCHANGED vars /\ Go("top", None)
    <3>1. /\ AgentTypes' /\ UNCHANGED <<interrupted, messages>>
          /\ pc' = "top" /\ hand' = None
      BY <2>2, TurnTypes DEF Places, Go
    <3>2. Standing'
      BY <2>1, <2>2, <3>1
      DEF Standing, CallsAccepted, vars, journal, requestVars
    <3>. QED
      BY <1>0, <1>1, <2>1, <2>2, <3>1, <3>2, GoingOn
      DEF LeaveHeld, OwnCalls, vars, journal
  <2>3. CASE FailTurn /\ Go(After("end", TRUE), Returned)
    <3>0. After("end", TRUE) \in Places
      BY DEF After, Places
    <3>1. /\ AgentTypes' /\ UNCHANGED interrupted
          /\ pc' = After("end", TRUE) /\ hand' = Returned
      BY <1>0, <2>3, <3>0, TurnTypes DEF Go
    <3>. QED
      BY <1>1, <2>1, <2>3, <3>1, FailingStep DEF LeaveHeld
  <2>. QED
    BY <1>1, <2>2, <2>3 DEF LeaveHeld
<1>2. CASE AfterYield
  <2>1. /\ pc = "settled" /\ pc' = "batch" /\ hand' = None
        /\ UNCHANGED <<vars, interrupted>>
        /\ messages' = IF IsSteer(hand) THEN messages \cup {hand} ELSE messages
    BY <1>2 DEF AfterYield, passVars
  <2>2. AgentTypes'
    BY <1>0, <1>2 DEF AfterYield, TurnInv, AgentTypes, Places, passVars, IsSteer
  <2>3. BetweenCalls /\ request = None
    BY <2>1 DEF TurnInv, Standing
  <2>4. turn # None
    BY <1>0, <2>3 DEF BetweenCalls, IInv, Phase
  <2>5. Standing'
    BY <2>1, <2>3
    DEF Standing, CallsAccepted, BetweenCalls, vars, journal, requestVars, toolVars
  <2>. QED
    BY <1>0, <2>1, <2>2, <2>4, <2>5, GoingOn DEF OwnCalls, vars, journal
<1>3. CASE BatchDone
  <2>1. NoTools /\ state = "MODEL_STREAMING" /\ request = None /\ turn # None
    BY <1>3, BatchIsDone DEF BatchDone
  <2>2. /\ AgentTypes' /\ UNCHANGED <<interrupted, messages, vars>>
        /\ pc' = "top" /\ hand' = None /\ pc = "batch"
    BY <1>3, TurnTypes DEF BatchDone, Places, Go
  <2>3. Standing'
    BY <2>1, <2>2 DEF Standing, CallsAccepted, vars, journal, requestVars
  <2>. QED
    BY <1>0, <2>1, <2>2, <2>3, GoingOn DEF OwnCalls, vars, journal
<1>4. CASE AfterCallEnd
  <2>1. pc = "toolEnd" /\ UNCHANGED <<vars, interrupted>>
    BY <1>4 DEF AfterCallEnd, passVars
  <2>2. AgentTypes'
    BY <1>0, <1>4 DEF AfterCallEnd, TurnInv, AgentTypes, Places, passVars, IsSteer
  <2>3. BetweenCalls /\ request = None /\ (hand # None => pending = {})
    BY <2>1 DEF TurnInv, Standing, HandIsLive
  <2>4. turn # None
    BY <1>0, <2>3 DEF BetweenCalls, IInv, Phase
  <2>5. UNCHANGED <<state, turn, request, pending, approved, inputs, turnLog, local, callLog>>
    BY <2>1 DEF vars, journal, requestVars, toolVars
  <2>6. CASE why \in {"gate", "metrics"}
    <3>1. pc' = "closing" /\ UNCHANGED <<messages, hand>>
      BY <1>4, <2>6 DEF AfterCallEnd
    <3>2. Standing'
      BY <2>3, <2>5, <3>1 DEF Standing, CallsAccepted, BetweenCalls
    <3>3. HandIsLive'
      BY <2>1, <2>5, <3>1 DEF TurnInv, HandIsLive
    <3>4. Boundary /\ Returned = None
      BY <2>5, QuietStep DEF TurnInv
    <3>. QED
      BY <1>0, <2>1, <2>2, <2>4, <2>5, <3>1, <3>2, <3>3, <3>4, InTurnStep
      DEF OwnCalls
  <2>7. CASE why \notin {"gate", "metrics"}
    <3>1. /\ messages' = IF IsSteer(hand) THEN messages \cup {hand} ELSE messages
          /\ hand' = None
          /\ pc' = CASE why = "none" -> "batch"
                     [] why # "none" /\ IsSteer(hand) -> "top"
                     [] OTHER -> "closing"
      BY <1>4, <2>7 DEF AfterCallEnd
    <3>2. IsSteer(hand) => pending = {}
      BY <2>3 DEF IsSteer
    <3>3. pc' \in {"batch", "closing"} \/ (pc' = "top" /\ pending = {})
      BY <3>1, <3>2
    <3>4. Standing'
      BY <2>3, <2>4, <2>5, <3>3 DEF Standing, CallsAccepted, BetweenCalls
    <3>. QED
      BY <1>0, <2>1, <2>2, <2>4, <2>5, <3>1, <3>3, <3>4, GoingOn DEF OwnCalls
  <2>. QED
    BY <2>6, <2>7
<1>5. CASE CloseBatch
  <2>1. NoTools /\ state = "MODEL_STREAMING" /\ request = None /\ turn # None
    BY <1>5, BatchIsDone DEF CloseBatch
  <2>2. AgentTypes' /\ UNCHANGED interrupted
    BY <1>0, <1>5
    DEF CloseBatch, After, TurnInv, AgentTypes, Places, passVars, IsSteer
  <2>3. CASE why = "cancel" /\ IsSteer(hand)
    <3>1. /\ messages' = messages \cup {hand} /\ pc' = "top" /\ hand' = None
          /\ UNCHANGED vars /\ pc = "closing"
      BY <1>5, <2>3 DEF CloseBatch
    <3>2. Standing'
      BY <2>1, <3>1 DEF Standing, CallsAccepted, vars, journal, requestVars
    <3>. QED
      BY <1>0, <2>1, <2>2, <3>1, <3>2, GoingOn DEF OwnCalls, vars, journal
  <2>4. CASE ~(why = "cancel" /\ IsSteer(hand))
    <3>1. /\ FailTurn /\ pc' = After("end", TRUE) /\ hand' = Returned
          /\ pc = "closing"
      BY <1>5, <2>4 DEF CloseBatch
    <3>. QED
      BY <2>1, <2>2, <3>1, FailingStep
  <2>. QED
    BY <2>3, <2>4
<1>. QED
  BY <1>1, <1>2, <1>3, <1>4, <1>5

LEMMA AgentInv == ASSUME TurnInv, Agent PROVE TurnInv'
<1>1. IInv'
  BY AgentSteps, NextIInv DEF TurnInv
<1>. QED
  BY <1>1, RequestSteps, AnswerSteps, DenialSteps, CallSteps, BatchSteps DEF Agent

-----------------------------------------------------------------------------
(* The owner's steps *)

\* A key that does not move the agent.
LEMMA QueueTypes ==
    ASSUME TurnInv, UNCHANGED agentVars PROVE AgentTypes'
  BY DEF TurnInv, AgentTypes, agentVars, passVars

LEMMA KeySteps ==
    ASSUME TurnInv, IInv', TakeBack \/ Esc \/ CtrlB \/ ShowQuestion \/ Answer
    PROVE  TurnInv'
<1>0. /\ IInv /\ RowsFit /\ None \notin Inputs
      /\ pc \in {"tool", "asking"} => hand = None
  BY ConstantsAssumption DEF TurnInv, HandIsLive
<1>1. CASE TakeBack
  <2>1. RetrieveLatest /\ UNCHANGED agentVars
    BY <1>1 DEF TakeBack
  <2>2. /\ Boundary /\ Returned = None
        /\ Dispatchable(inputs', queue', FALSE) \subseteq Dispatchable(inputs, queue, FALSE)
        /\ UNCHANGED <<state, callLog, requestVars, toolVars>>
    BY <1>0, <2>1, TakeBackOutcome
  <2>. QED
    BY <2>1, <2>2, QueueTypes, QueueStep
    DEF OwnCalls, agentVars, passVars, requestVars, toolVars
<1>2. CASE Esc
  <2>1. RequestCancel \/ RequestToolCancel
    BY <1>2 DEF Esc
  <2>2. UNCHANGED agentVars
    BY <1>2 DEF Esc
  <2>3. /\ UNCHANGED <<inputs, turnLog, turn, local, queue, state, request,
                       pending, approved, running, ask>>
        /\ OwnCalls /\ turn # None
    <3>1. CASE RequestCancel
      BY <1>0, <3>1 DEF RequestCancel, OwnCalls, toolVars, IInv, Phase
    <3>2. CASE RequestToolCancel
      <4>1. running \in Owed /\ callLog' = LogCall(running, "cancel_requested")
        BY <3>2 DEF RequestToolCancel, Owed
      <4>. QED
        BY <1>0, <3>2, <4>1, HeldCalls, CallFacts
        DEF RequestToolCancel, OwnCalls, CallStates, requestVars
    <3>. QED
      BY <2>1, <3>1, <3>2
  <2>4. Boundary /\ Returned = None
    BY <1>0, <2>3, QuietStep
  <2>. QED
    BY <2>2, <2>3, <2>4, QueueTypes, QueueStep DEF agentVars, passVars
<1>3. CASE CtrlB
  <2>1. UNCHANGED <<vars, pc, hand, messages, interrupted>> /\ AgentTypes'
    BY <1>3 DEF CtrlB, passVars, TurnInv, AgentTypes
  <2>2. Boundary /\ Returned = None
    BY <1>0, <2>1, QuietStep DEF vars, journal
  <2>. QED
    BY <2>1, <2>2, QueueStep DEF OwnCalls, vars, journal, requestVars, toolVars
<1>4. CASE ShowQuestion \/ Answer
  <2>1. /\ UNCHANGED <<inputs, turnLog, turn, local, callLog, request, running>>
        /\ running # None
        /\ BeginInteraction \/ ResolveInteraction \/ AbortInteraction
    BY <1>4
    DEF ShowQuestion, Answer, BeginInteraction, ResolveInteraction,
        AbortInteraction, EndInteraction, requestVars
  <2>2. turn # None
    BY <1>0, <2>1 DEF IInv, Phase, NoTools
  <2>3. /\ pc \in {"tool", "asking"} /\ hand' = None
        /\ UNCHANGED <<messages, interrupted>>
        /\ \/ pc' = "asking" /\ BeginInteraction
           \/ pc' = "tool" /\ (ResolveInteraction \/ AbortInteraction)
    BY <1>0, <1>4 DEF ShowQuestion, Answer, Go, passVars
  <2>4. AgentTypes'
    BY <1>4 DEF ShowQuestion, Answer, Go, TurnInv, AgentTypes, Places, passVars
  <2>5. CASE pc' = "asking" /\ BeginInteraction
    <3>1. ask' # None /\ state' = "TOOL_WAITING_DECISION"
      BY <2>5, Edges, ConstantsAssumption DEF BeginInteraction, States
    <3>2. Standing'
      BY <2>1, <2>3, <2>5, <3>1 DEF TurnInv, Standing, CallsAccepted
    <3>. QED
      BY <1>0, <2>1, <2>2, <2>3, <2>4, <2>5, <3>2, GoingOn DEF OwnCalls
  <2>6. CASE pc' = "tool" /\ (ResolveInteraction \/ AbortInteraction)
    <3>1. state' = "TOOL_RUNNING_FOREGROUND"
      BY <2>6, Edges
      DEF ResolveInteraction, AbortInteraction, EndInteraction, States
    <3>2. Standing'
      BY <2>1, <2>3, <2>6, <3>1 DEF TurnInv, Standing, CallsAccepted
    <3>. QED
      BY <1>0, <2>1, <2>2, <2>3, <2>4, <2>6, <3>2, GoingOn DEF OwnCalls
  <2>. QED
    BY <2>3, <2>5, <2>6
<1>. QED
  BY <1>1, <1>2, <1>3, <1>4

LEMMA LineSteps ==
    ASSUME TurnInv, IInv', NEW k \in {"steer", "next_turn", "local"}, TypeLine(k)
    PROVE  TurnInv'
<1>. DEFINE kind == IF k = "steer" /\ ~Accepts(k) THEN "next_turn" ELSE k
<1>0. /\ IInv /\ RowsFit /\ kind \in Kinds /\ pc \in YieldPoints
      /\ Returned \in Inputs \cup {None}
      /\ state \notin {"PICKER", "REWIND", "EXITING"}
  BY ReturnedType DEF TypeLine, TurnInv, Kinds, Standing
<1>1. CASE Accepts(kind)
  <2>1. /\ Submit(kind)
        /\ IF Returned = None THEN Go(After(pc, FALSE), hand)
           ELSE /\ hand' = Returned /\ why' = "late"
                /\ UNCHANGED <<pc, messages, compacted, tooLong, handoff, passVars>>
    BY <1>1 DEF TypeLine
  <2>2. /\ AgentTypes' /\ UNCHANGED <<messages, interrupted>>
        /\ pc' = pc \/ (pc' = "crashed" /\ Undispatched)
        /\ Undispatched /\ Returned = None => pc' = "crashed"
        /\ hand' = IF Returned = None THEN hand ELSE Returned
    BY <1>0, <2>1 DEF TurnInv, AgentTypes, Places, Go, After, passVars
  <2>3. CASE state = "IDLE" /\ turn = None /\ local = None /\ Over
             /\ UNCHANGED <<callLog, request, toolVars>>
    <3>1. pc = "end" /\ request = None /\ hand = None
      BY <1>0, <2>3
      DEF YieldPoints, TurnInv, Standing, CallsAccepted, BetweenCalls, HandIsLive,
          IInv, Phase
    <3>2. hand' = Returned
      BY <2>2, <3>1
    <3>3. Returned # None => ~Undispatched
      BY <2>3 DEF Over, Idle, NextTurn, NextLocal, Undispatched
    <3>. QED
      BY <2>2, <2>3, <3>1, <3>2, <3>3, OverStep
  <2>4. CASE state # "IDLE" /\ Boundary /\ Returned = None
             /\ UNCHANGED <<state, callLog, request, toolVars>>
    <3>1. UNCHANGED <<pc, hand>>
      BY <2>2, <2>4 DEF Undispatched
    <3>. QED
      BY <2>2, <2>4, <3>1, QueueStep DEF OwnCalls, toolVars
  <2>. QED
    BY <1>0, <2>1, <2>3, <2>4, SubmitOutcome
<1>2. CASE ~Accepts(kind)
  <2>1. UNCHANGED vars /\ Go("crashed", hand)
    BY <1>2 DEF TypeLine
  <2>2. AgentTypes' /\ UNCHANGED <<interrupted, hand, messages>> /\ pc' = "crashed"
    BY <2>1, TurnTypes DEF Places, Go, TurnInv, AgentTypes
  <2>3. turn # None
    BY <1>0, <1>2 DEF Accepts, IInv, Phase
  <2>4. Boundary /\ Returned = None /\ OwnCalls
    BY <1>0, <2>1, QuietStep DEF OwnCalls, vars, journal
  <2>5. Standing' /\ HandIsLive'
    BY <2>1, <2>2
    DEF TurnInv, Standing, CallsAccepted, HandIsLive, vars, journal, requestVars
  <2>6. \A i \in Inputs : i # None
    BY ConstantsAssumption
  <2>. QED
    BY <1>0, <2>2, <2>3, <2>4, <2>5, <2>6, InTurnStep DEF YieldPoints
<1>. QED
  BY <1>1, <1>2

LEMMA InterruptStep ==
    ASSUME TurnInv, IInv', KeyboardInterrupt PROVE TurnInv'
<1>0. /\ IInv /\ RowsFit /\ state # "EXITING" /\ None \notin Inputs
      /\ Returned \in Inputs \cup {None} /\ hand \in Inputs \cup {None}
      /\ pc \notin {"idle", "return", "crashed"}
      /\ After("return", TRUE) \in {"return", "crashed"}
  BY ConstantsAssumption, ReturnedType
  DEF TurnInv, Standing, AgentTypes, KeyboardInterrupt, YieldPoints, After
<1>1. /\ pc' = After("return", TRUE) /\ interrupted' = TRUE /\ UNCHANGED messages
      /\ \/ request # None /\ AcknowledgeInterrupt /\ hand' = Returned
         \/ request = None /\ turn # None /\ FailTurn /\ hand' = Returned
         \/ request = None /\ turn = None /\ UNCHANGED vars /\ hand' \in {hand, None}
  BY DEF KeyboardInterrupt
<1>2. AgentTypes'
  BY <1>0, <1>1 DEF KeyboardInterrupt, TurnInv, AgentTypes, Places
<1>3. CASE request' = None /\ Over /\ UNCHANGED callLog /\ hand' = Returned
  BY <1>0, <1>1, <1>2, <1>3, OverStep DEF After
<1>4. CASE /\ Boundary /\ UNCHANGED state /\ state = "MODEL_STREAMING"
           /\ request # None /\ request' = None /\ hand' = Returned
  <2>1. UNCHANGED turn /\ turn # None /\ hand = None
    BY <1>0, <1>4 DEF Boundary, TurnInv, HandIsLive, IInv, Phase
  <2>2. Standing' /\ HandIsLive'
    BY <1>0, <1>1, <1>4, <2>1 DEF Standing, CallsAccepted, HandIsLive, Boundary
  <2>3. AllHeard'
    BY <1>0, <1>1, <1>4, <2>1 DEF TurnInv, AllHeard, Boundary
  <2>. QED
    BY <1>1, <1>2, <1>4, <2>2, <2>3 DEF TurnInv, NothingDropped, Boundary
<1>5. CASE request = None /\ turn = None /\ UNCHANGED vars /\ hand' \in {hand, None}
  <2>1. Standing'
    BY <1>0, <1>1, <1>5
    DEF TurnInv, Standing, CallsAccepted, vars, journal, requestVars
  <2>2. HandIsLive'
    BY <1>0, <1>1, <1>5
    DEF TurnInv, HandIsLive, vars, journal, requestVars
  <2>3. RowsFit' /\ AllHeard'
    BY <1>0, <1>5 DEF RowsFit, AllHeard, vars, journal
  <2>. QED
    BY <1>1, <1>2, <2>1, <2>2, <2>3 DEF TurnInv, NothingDropped
<1>. QED
  BY <1>0, <1>1, <1>3, <1>4, <1>5, AcknowledgeOutcome, FailTurnOver

LEMMA LoopSteps ==
    ASSUME TurnInv, IInv',
           RunAction \/ CommandDone \/ \E k \in {"next_turn", "local"} : Prompt(k)
    PROVE  TurnInv'
<1>0. /\ IInv /\ RowsFit /\ state # "EXITING" /\ None \notin Inputs
      /\ Returned \in Inputs \cup {None} /\ hand \in Inputs \cup {None}
  BY ConstantsAssumption, ReturnedType DEF TurnInv, Standing, AgentTypes
<1>1. CASE RunAction
  <2>1. /\ pc \in {"end", "return"} /\ UNCHANGED <<vars, hand, messages, interrupted>>
        /\ pc' = CASE hand = None -> "idle"
                   [] IsSteer(hand) -> "crashed"
                   [] hand # None /\ inputs[hand].kind = "local" -> "local"
                   [] OTHER -> "start"
    BY <1>1 DEF RunAction, passVars
  <2>2. /\ UNCHANGED <<inputs, turnLog, callLog, state, turn, request, pending,
                       approved, running, ask, local, queue>>
        /\ request = None
    BY <2>1 DEF vars, journal, requestVars, toolVars, TurnInv, Standing
  <2>3. AgentTypes'
    BY <1>1 DEF RunAction, TurnInv, AgentTypes, Places, passVars
  <2>4. /\ pc' \in {"idle", "crashed", "local", "start"}
        /\ pc' = "idle" <=> hand = None
        /\ pc' = "local" => local # None /\ turn = None
        /\ pc' = "start" => state = "MODEL_STREAMING"
    <3>1. hand # None /\ inputs[hand].kind = "local" => local # None
      BY <1>0, <2>1 DEF TurnInv, HandIsLive, RowsFit
    <3>2. hand # None /\ inputs[hand].kind # "local" =>
            turn # None /\ state = "MODEL_STREAMING"
      BY <1>0, <2>1 DEF TurnInv, HandIsLive, RowsFit
    <3>3. local # None => turn = None
      BY <1>0 DEF IInv, Phase
    <3>4. \/ hand = None /\ pc' = "idle"
          \/ hand # None /\ pc' = "crashed"
          \/ hand # None /\ inputs[hand].kind = "local" /\ pc' = "local"
          \/ hand # None /\ inputs[hand].kind # "local" /\ pc' = "start"
      <4>1. CASE hand = None
        BY <2>1, <4>1 DEF IsSteer
      <4>2. CASE IsSteer(hand)
        BY <2>1, <4>2 DEF IsSteer
      <4>3. CASE hand # None /\ ~IsSteer(hand)
        BY <2>1, <4>3
      <4>. QED
        BY <4>1, <4>2, <4>3
    <3>. QED
      BY <3>1, <3>2, <3>3, <3>4
  <2>5. Standing'
    BY <2>1, <2>2, <2>4 DEF TurnInv, Standing, CallsAccepted
  <2>6. HandIsLive' /\ RowsFit'
    BY <1>0, <2>1, <2>2, <2>4 DEF TurnInv, HandIsLive, RowsFit
  <2>7. AllHeard'
    BY <2>1, <2>2, <2>4 DEF TurnInv, AllHeard, Delivered
  <2>8. NothingDropped'
    BY <2>1, <2>2
    DEF TurnInv, NothingDropped, WorkIsHeld, NoStrandedInput, ClosedTurnsSettled
  <2>. QED
    BY <2>3, <2>5, <2>6, <2>7, <2>8 DEF TurnInv
<1>2. CASE CommandDone
  <2>1. FinishLocalAction /\ Go(After("return", FALSE), Returned) /\ pc = "local"
    BY <1>2 DEF CommandDone
  <2>2. After("return", FALSE) \in Places
    BY DEF After, Places
  <2>3. /\ AgentTypes' /\ UNCHANGED interrupted
        /\ pc' = After("return", FALSE) /\ hand' = Returned
    BY <1>0, <2>1, <2>2, TurnTypes DEF Go
  <2>. QED
    BY <1>0, <2>1, <2>3, LocalOver, OverStep DEF After
<1>3. ASSUME NEW k \in {"next_turn", "local"}, Prompt(k) PROVE TurnInv'
  <2>1. /\ pc = "idle" /\ Submit(k) /\ k \in Kinds
        /\ Go(After("return", FALSE), Returned)
    BY <1>3 DEF Prompt, Kinds
  <2>0. After("return", FALSE) \in {"return", "crashed"}
    BY DEF After
  <2>2. /\ AgentTypes' /\ UNCHANGED <<interrupted, messages>>
        /\ pc' = After("return", FALSE)
        /\ hand' = Returned /\ hand = None /\ request = None
    BY <1>0, <2>0, <2>1, TurnTypes DEF Places, Go, TurnInv, Standing, HandIsLive
  <2>3. CASE turn = None /\ Over /\ UNCHANGED <<callLog, request>>
    BY <2>1, <2>2, <2>3, OverStep DEF After
  <2>4. CASE state # "IDLE" /\ Boundary /\ Returned = None
             /\ UNCHANGED <<state, callLog, request>>
    <3>1. Standing' /\ HandIsLive'
      BY <2>0, <2>2, <2>4, EmptyHand DEF TurnInv, Standing, CallsAccepted
    <3>2. RowsFit' /\ AllHeard' /\ UNCHANGED <<turn, turnLog, local>>
      BY <2>0, <2>2, <2>4 DEF AllHeard, Boundary
    <3>3. ~interrupted => turn = None /\ local = None
      BY <2>1, <2>2 DEF TurnInv, NothingDropped, WorkIsHeld
    <3>4. ~interrupted => ClosedTurnsSettled'
      BY <2>1, <2>4, <3>2, OpenTurnOwes DEF OwnCalls
    <3>5. NothingDropped'
      BY <2>2, <2>4, <3>2, <3>3, <3>4 DEF NothingDropped, WorkIsHeld, NoStrandedInput
    <3>. QED
      BY <2>2, <3>1, <3>2, <3>5 DEF TurnInv
  <2>. QED
    BY <1>0, <2>1, <2>3, <2>4, SubmitOutcome
<1>. QED
  BY <1>1, <1>2, <1>3

\* The REPL goes down with the reducer as it was.
LEMMA JournalStep == ASSUME TurnInv, JournalFails PROVE TurnInv'
<1>1. /\ UNCHANGED vars /\ UNCHANGED <<hand, messages, interrupted>>
      /\ pc' = "crashed" /\ pc # "crashed"
  BY DEF JournalFails, Go, passVars
<1>2. IInv'
  BY <1>1, NextIInv DEF TurnInv
<1>3. AgentTypes'
  BY DEF JournalFails, Go, TurnInv, AgentTypes, Places, passVars
<1>4. UNCHANGED <<inputs, turnLog, turn, local, state, request>>
  BY <1>1 DEF vars, journal, requestVars
<1>5. Standing' /\ RowsFit'
  BY <1>1, <1>4 DEF TurnInv, Standing, CallsAccepted, RowsFit
<1>6. HandIsLive'
  BY <1>1, <1>4 DEF TurnInv, HandIsLive
<1>7. AllHeard'
  BY <1>1, <1>4 DEF TurnInv, AllHeard, Delivered, HandIsLive, Standing
<1>. QED
  BY <1>1, <1>2, <1>3, <1>5, <1>6, <1>7 DEF TurnInv, NothingDropped

LEMMA OwnerInv == ASSUME TurnInv, Owner \/ Answer \/ Run PROVE TurnInv'
<1>1. IInv'
  BY OwnerSteps, NextIInv DEF TurnInv
<1>. QED
  BY <1>1, KeySteps, LineSteps, InterruptStep, LoopSteps DEF Owner, Run

LEMMA StutterInv == ASSUME TurnInv, UNCHANGED turnVars PROVE TurnInv'
<1>1. IInv'
  BY NextIInv DEF TurnInv, turnVars
<1>2. UNCHANGED vars /\ UNCHANGED agentVars
  BY DEF turnVars
<1>3. Boundary /\ Returned = None
  BY <1>2, QuietStep DEF vars, journal, TurnInv
<1>. QED
  BY <1>1, <1>2, <1>3, QueueTypes, QueueStep
  DEF OwnCalls, vars, journal, requestVars, toolVars, agentVars, passVars

LEMMA InitTurnInv == TurnInit => TurnInv
<1>. SUFFICES ASSUME TurnInit PROVE TurnInv
  OBVIOUS
<1>1. IInv
  BY InitIInv DEF TurnInit
<1>2. AgentTypes /\ Standing /\ HandIsLive /\ AllHeard
  BY DEF TurnInit, Init, AgentTypes, Places, Standing, CallsAccepted, HandIsLive, AllHeard
<1>3. RowsFit
  BY ConstantsAssumption DEF TurnInit, Init, RowsFit
<1>4. WorkIsHeld /\ ClosedTurnsSettled
  BY DEF TurnInit, Init, WorkIsHeld, ClosedTurnsSettled
<1>5. NoStrandedInput
  BY DEF TurnInit, Init, NoStrandedInput, Dispatchable
<1>. QED
  BY <1>1, <1>2, <1>3, <1>4, <1>5 DEF TurnInv, NothingDropped

\* The strengthening is invariant, whichever journal write fails.
THEOREM TurnInvHolds == TurnSpec => []TurnInv
<1>1. TurnInv /\ [TurnNext]_turnVars => TurnInv'
  BY AgentInv, OwnerInv, JournalStep, StutterInv DEF TurnNext
<1>. QED
  BY <1>1, InitTurnInv, PTL DEF TurnSpec

\* The state is typed, and nothing a key does at a yield makes the agent's
\* next call to the reducer an illegal one.
THEOREM CallsStayLegal == TurnSpec => []TurnConsistent
<1>1. TurnInv => TurnConsistent
  BY DEF TurnInv, IInv, AgentTypes, Standing, TurnConsistent, TurnTypeOK
<1>. QED
  BY <1>1, TurnInvHolds, PTL

\* The provider is only asked with every delivered input in the transcript.
THEOREM RequestsSeeEveryInput == TurnSpec => []TranscriptIsWhole
<1>1. TurnInv => TranscriptIsWhole
  <2>1. SUFFICES ASSUME TurnInv, request # None PROVE TranscriptIsWhole
    BY DEF TranscriptIsWhole
  <2>2. /\ hand = None /\ pc \notin {"idle", "return"} /\ turn # None
    BY <2>1 DEF TurnInv, HandIsLive, Standing, IInv, Phase
  <2>. QED
    BY <2>1, <2>2, ConstantsAssumption
    DEF TurnInv, AllHeard, Delivered, TranscriptIsWhole
<1>. QED
  BY <1>1, TurnInvHolds, PTL

\* Until SIGINT comes or the REPL goes down, no dispatched work leaves every
\* hand, an idle prompt keeps nothing but steers whose turn failed, and no
\* result is owed by a closed turn.
THEOREM WorkIsNeverLost == TurnSpec => []NothingIsLost
<1>1. TurnInv => NothingIsLost
  BY DEF TurnInv, NothingDropped, NothingIsLost
<1>. QED
  BY <1>1, TurnInvHolds, PTL
=============================================================================
