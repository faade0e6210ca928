----------------------- MODULE SessionControllerProofs -----------------------
(***************************************************************************)
(* The safety invariants of SessionController for every set of ids, every  *)
(* number of inputs, and whichever journal write fails.  Phase says which  *)
(* reducer slots each controller state may have in use; History ties every *)
(* record of the journal to the slot or the turn it belongs to.  At the    *)
(* end: the reducer implements SessionLedger.                              *)
(***************************************************************************)
EXTENDS SessionController, TLAPS

NoTools == pending = {} /\ approved = None /\ running = None /\ ask = None

Phase ==
    /\ turn = None => request = None /\ NoTools
    /\ request # None => NoTools /\ state \in {"MODEL_STREAMING", "EXITING"}
    /\ request = None => ~cancelling
    /\ ask # None => running # None
    /\ local # None => turn = None
    /\ approved # None => running = None
    /\ state \in {"IDLE", "PICKER", "REWIND"} => turn = None /\ local = None
    /\ state = "MODEL_STREAMING" => turn # None /\ NoTools
    /\ state = "TOOL_WAITING_APPROVAL" =>
         turn # None /\ running = None /\ ask = None
    /\ state = "TOOL_RUNNING_FOREGROUND" =>
         approved = None /\ ask = None /\ (running # None \/ local # None)
    /\ state = "TOOL_WAITING_DECISION" => approved = None

Live(r) == requestLog[r].st \in {"started", "cancel_requested"}

History ==
    /\ turn # None => turnLog[turn] = "open"
    /\ \A r \in Requests :
         /\ requestLog[r].st = "none" <=> requestLog[r].turn = None
         /\ requestLog[r].turn # None => turnLog[requestLog[r].turn] # "none"
         /\ turn # None /\ requestLog[r].turn = turn /\ Live(r) => r = request
    /\ \A c \in Calls :
         /\ callLog[c].st = "none" <=> callLog[c].turn = None
         /\ callLog[c].turn # None => turnLog[callLog[c].turn] # "none"
         /\ c \in pending => callLog[c].st = "requested"
         /\ c = approved => callLog[c].st = "approved"

IInv ==
    /\ TypeOK
    /\ QueueIsDurable
    /\ NoCallForgotten
    /\ CancelIntentIsDurable
    /\ QuestionMatchesTool
    /\ Phase
    /\ History

-----------------------------------------------------------------------------

\* The transition table, one fact per use: only EXITING refuses to go on.
LEMMA Edges ==
    ASSUME state \in States
    PROVE  /\ "IDLE" \in Allowed[state] \cup {state} <=> state # "EXITING"
           /\ Transition("EXITING") = "EXITING"
           /\ state \in {"MODEL_STREAMING", "TOOL_RUNNING_FOREGROUND",
                         "TOOL_WAITING_DECISION", "TOOL_WAITING_APPROVAL"} =>
                Transition("TOOL_WAITING_APPROVAL") = "TOOL_WAITING_APPROVAL"
           /\ state \in {"TOOL_RUNNING_FOREGROUND", "TOOL_WAITING_DECISION",
                         "TOOL_WAITING_APPROVAL"} =>
                Transition("MODEL_STREAMING") = "MODEL_STREAMING"
           /\ state \in {"TOOL_WAITING_APPROVAL", "TOOL_WAITING_DECISION"} =>
                Transition("TOOL_RUNNING_FOREGROUND")
                    = "TOOL_RUNNING_FOREGROUND"
           /\ state = "TOOL_RUNNING_FOREGROUND" =>
                Transition("TOOL_WAITING_DECISION") = "TOOL_WAITING_DECISION"
           /\ state = "EXITING" => \A s : Transition(s) = "EXITING"
  BY DEF States, Allowed, Transition

\* The initial state.
LEMMA InitIInv == Init => IInv
<1>. SUFFICES ASSUME Init PROVE IInv
  OBVIOUS
<1>1. TypeOK
  BY ConstantsAssumption
  DEF Init, TypeOK, InputRecords, Kinds, RequestStates, CallStates, States
<1>2. History /\ CancelIntentIsDurable
  BY ConstantsAssumption
  DEF Init, History, Live, CancelIntentIsDurable
<1>. QED
  BY <1>1, <1>2
  DEF Init, IInv, QueueIsDurable, NoCallForgotten, QuestionMatchesTool,
      Phase, NoTools

\* Every record of these logs is typed and belongs to a turn tl knows of.
LogOK(rl, cl, al, tl) ==
    /\ rl \in [Requests -> [st : RequestStates, turn : Turns \cup {None}]]
    /\ cl \in [Calls -> [st : CallStates, turn : Turns \cup {None}]]
    /\ al \in [Asks -> [st : {"none", "open", "resolved", "aborted"},
                        call : Calls \cup {None}]]
    /\ \A r \in Requests : /\ rl[r].st = "none" <=> rl[r].turn = None
                           /\ rl[r].turn # None => tl[rl[r].turn] # "none"
    /\ \A c \in Calls : /\ cl[c].st = "none" <=> cl[c].turn = None
                        /\ cl[c].turn # None => tl[cl[c].turn] # "none"

SlotsFree == request = None /\ cancelling = FALSE /\ NoTools
                /\ task \in BOOLEAN /\ toolCancelling \in BOOLEAN

\* dispatch_ready out of a reducer whose slots are all empty, over any
\* committed inputs, queue and turn log, leads to a good state.
LEMMA DispatchReadyIInv ==
    ASSUME TypeOK,
           NEW ins \in [Inputs -> InputRecords],
           NEW q, q = {i \in Inputs : ins[i].st = "queued"},
           NEW tl \in [Turns -> {"none", "open", "completed", "failed"}],
           NEW gate,
           DispatchReady(ins, q, tl, gate),
           LogOK(requestLog', callLog', askLog', tl), SlotsFree'
    PROVE  IInv'
<1>. DEFINE Stay == /\ inputs' = ins /\ queue' = q /\ turnLog' = tl
                    /\ turn' = None /\ local' = None /\ state' = "IDLE"
            Run(i, t) == /\ queue' = q \ {i} /\ tl[t] = "none"
                         /\ inputs' = [ins EXCEPT ![i] =
                                [@ EXCEPT !.st = "dispatched", !.turn = t]]
                         /\ turnLog' = [tl EXCEPT ![t] = "open"]
                         /\ turn' = t /\ local' = None
                         /\ state' = "MODEL_STREAMING"
            Act(i) == /\ queue' = q \ {i}
                      /\ inputs' = [ins EXCEPT ![i].st = "dispatched"]
                      /\ turnLog' = tl /\ turn' = None /\ local' = i
                      /\ state' = "TOOL_RUNNING_FOREGROUND"
<1>1. \/ Stay
      \/ \E i \in q, t \in Turns : Run(i, t)
      \/ \E i \in q : Act(i)
  <2>1. Dispatchable(ins, q, gate) \subseteq q
    BY DEF Dispatchable
  <2>2. \A i : DispatchNewTurn(i, ins, tl) /\ queue' = q \ {i} =>
                 \E t \in Turns : Run(i, t)
    BY DEF DispatchNewTurn
  <2>3. \A i : DispatchLocal(i, ins, tl) /\ queue' = q \ {i} => Act(i)
    BY DEF DispatchLocal
  <2>. HIDE DEF Stay, Run, Act
  <2>4. CASE \E i \in Dispatchable(ins, q, gate) :
                /\ queue' = q \ {i}
                /\ DispatchNewTurn(i, ins, tl) \/ DispatchLocal(i, ins, tl)
    BY <2>1, <2>2, <2>3, <2>4
  <2>. QED
    BY <2>4 DEF DispatchReady, Stay
<1>. HIDE DEF Stay, Run, Act
<1>2. CASE Stay
  <2>1. TypeOK'
    BY <1>2 DEF Stay, LogOK, SlotsFree, NoTools, TypeOK, States
  <2>2. QueueIsDurable'
    BY <1>2 DEF Stay, QueueIsDurable
  <2>3. History'
    BY <1>2, ConstantsAssumption DEF Stay, LogOK, SlotsFree, NoTools, History
  <2>. QED
    BY <1>2, <2>1, <2>2, <2>3
    DEF Stay, SlotsFree, IInv, NoCallForgotten, CancelIntentIsDurable,
        QuestionMatchesTool, Phase, NoTools
<1>3. ASSUME NEW i \in q, NEW t \in Turns, Run(i, t)
      PROVE  IInv'
  <2>1. i \in Inputs /\ t # None
    BY ConstantsAssumption
  <2>2. /\ inputs' \in [Inputs -> InputRecords]
        /\ \A j \in Inputs : inputs'[j].st = "queued"
                               <=> j # i /\ ins[j].st = "queued"
    <3>1. ins[i] \in InputRecords
      BY <2>1
    <3>2. [ins[i] EXCEPT !.st = "dispatched", !.turn = t] \in InputRecords
      BY <3>1 DEF InputRecords
    <3>. QED
      BY <1>3, <2>1, <3>1, <3>2 DEF Run, InputRecords
  <2>3. TypeOK'
    BY <1>3, <2>1, <2>2 DEF Run, LogOK, SlotsFree, NoTools, TypeOK, States
  <2>4. QueueIsDurable'
    BY <1>3, <2>1, <2>2 DEF Run, QueueIsDurable
  <2>5. /\ \A c \in Calls : callLog'[c].turn # t
        /\ \A r \in Requests : requestLog'[r].turn # t
    BY <1>3, <2>1, ConstantsAssumption DEF Run, LogOK
  <2>6. NoCallForgotten'
    BY <1>3, <2>5 DEF Run, SlotsFree, NoTools, NoCallForgotten, Owed
  <2>7. History'
    BY <1>3, <2>1, <2>5, ConstantsAssumption DEF Run, LogOK, SlotsFree, NoTools, History
  <2>. QED
    BY <1>3, <2>1, <2>3, <2>4, <2>6, <2>7
    DEF Run, SlotsFree, IInv, CancelIntentIsDurable, QuestionMatchesTool, Phase, NoTools
<1>4. ASSUME NEW i \in q, Act(i)
      PROVE  IInv'
  <2>1. i \in Inputs /\ i # None
    BY ConstantsAssumption
  <2>2. /\ inputs' \in [Inputs -> InputRecords]
        /\ \A j \in Inputs : inputs'[j].st = "queued"
                               <=> j # i /\ ins[j].st = "queued"
    <3>1. ins[i] \in InputRecords
      BY <2>1
    <3>2. [ins[i] EXCEPT !.st = "dispatched"] \in InputRecords
      BY <3>1 DEF InputRecords
    <3>. QED
      BY <1>4, <2>1, <3>1, <3>2 DEF Act, InputRecords
  <2>3. TypeOK'
    BY <1>4, <2>1, <2>2 DEF Act, LogOK, SlotsFree, NoTools, TypeOK, States
  <2>4. QueueIsDurable'
    BY <1>4, <2>1, <2>2 DEF Act, QueueIsDurable
  <2>5. History'
    BY <1>4, ConstantsAssumption DEF Act, LogOK, SlotsFree, NoTools, History
  <2>. QED
    BY <1>4, <2>1, <2>3, <2>4, <2>5
    DEF Act, SlotsFree, IInv, NoCallForgotten, CancelIntentIsDurable,
        QuestionMatchesTool, Phase, NoTools
<1>. QED
  BY <1>1, <1>2, <1>3, <1>4

\* The tail shared by every action that ends a turn or a local action.
LEMMA ThenIdleIInv ==
    ASSUME IInv,
           NEW tl \in [Turns -> {"none", "open", "completed", "failed"}],
           ThenIdle(tl),
           LogOK(requestLog', callLog', askLog', tl), SlotsFree'
    PROVE  IInv'
<1>0. /\ inputs \in [Inputs -> InputRecords]
      /\ queue = {i \in Inputs : inputs[i].st = "queued"}
      /\ TypeOK
      /\ FALSE \in BOOLEAN
  BY DEF IInv, TypeOK, QueueIsDurable
<1>1. CASE state # "EXITING"
  <2>1. DispatchReady(inputs, queue, tl, FALSE)
    BY <1>0, <1>1, Edges DEF ThenIdle, TypeOK
  <2>. QED
    BY <1>0, <2>1, DispatchReadyIInv
<1>2. CASE state = "EXITING"
  <2>1. /\ turnLog' = tl /\ turn' = None /\ local' = None
        /\ UNCHANGED <<inputs, queue, state>>
    BY <1>0, <1>2, Edges DEF ThenIdle, TypeOK
  <2>2. TypeOK'
    BY <1>0, <2>1 DEF TypeOK, LogOK, SlotsFree, NoTools
  <2>3. QueueIsDurable' /\ History'
    BY <1>0, <2>1, ConstantsAssumption DEF QueueIsDurable, History, LogOK, SlotsFree, NoTools
  <2>. QED
    BY <1>2, <2>1, <2>2, <2>3
    DEF SlotsFree, IInv, NoCallForgotten, CancelIntentIsDurable,
        QuestionMatchesTool, Phase, NoTools
<1>. QED
  BY <1>1, <1>2

\* What the two lemmas above ask of the journal, taken from IInv.
LEMMA LogFacts ==
    ASSUME IInv
    PROVE  /\ turnLog \in [Turns -> {"none", "open", "completed", "failed"}]
           /\ LogOK(requestLog, callLog, askLog, turnLog)
           /\ inputs \in [Inputs -> InputRecords]
           /\ queue = {i \in Inputs : inputs[i].st = "queued"}
           /\ TypeOK /\ FALSE \in BOOLEAN
           /\ turn = None => SlotsFree
  BY DEF IInv, TypeOK, QueueIsDurable, History, LogOK, SlotsFree, Phase, NoTools

\* A step that touches neither slots nor logs keeps both facts.
LEMMA Kept ==
    ASSUME IInv, UNCHANGED <<requestLog, callLog, askLog, requestVars, toolVars>>
    PROVE  /\ LogOK(requestLog', callLog', askLog', turnLog)
           /\ turn = None => SlotsFree'
  BY LogFacts DEF SlotsFree, NoTools, requestVars, toolVars

\* Submitting, taking back and dispatching inputs.
LEMMA InputStep == ASSUME IInv, InputNext PROVE IInv'
<1>. USE LogFacts
<1>1. ASSUME NEW k \in Kinds, Submit(k) PROVE IInv'
  <2>1. PICK i \in Inputs :
          /\ inputs[i].st = "absent"
          /\ LET ins == [inputs EXCEPT ![i] =
                  [kind |-> k, st |-> "queued", turn |-> None, aim |-> turn]]
             IN IF turn = None /\ local = None /\ state = "IDLE"
                THEN DispatchReady(ins, queue \cup {i}, turnLog, FALSE)
                ELSE /\ inputs' = ins
                     /\ queue' = queue \cup {i}
                     /\ UNCHANGED <<turnLog, turn, local, state>>
    BY <1>1 DEF Submit, First
  <2>. DEFINE ins == [inputs EXCEPT ![i] =
                [kind |-> k, st |-> "queued", turn |-> None, aim |-> turn]]
  <2>2. /\ ins \in [Inputs -> InputRecords]
        /\ queue \cup {i} = {j \in Inputs : ins[j].st = "queued"}
    <3>1. [kind |-> k, st |-> "queued", turn |-> None, aim |-> turn]
            \in InputRecords
      BY DEF InputRecords, TypeOK
    <3>2. ins \in [Inputs -> InputRecords]
      BY <2>1, <3>1
    <3>3. \A j \in Inputs : ins[j].st = "queued"
                               <=> j = i \/ inputs[j].st = "queued"
      BY <2>1
    <3>. QED
      BY <2>1, <3>2, <3>3
  <2>3. UNCHANGED <<requestLog, callLog, askLog, requestVars, toolVars>>
    BY <1>1 DEF Submit
  <2>. HIDE DEF ins
  <2>4. CASE turn = None /\ local = None /\ state = "IDLE"
    <3>1. DispatchReady(ins, queue \cup {i}, turnLog, FALSE)
      BY <2>1, <2>4 DEF ins
    <3>. QED
      BY <2>2, <2>3, <2>4, <3>1, LogFacts, Kept, DispatchReadyIInv
  <2>5. CASE ~(turn = None /\ local = None /\ state = "IDLE")
    <3>1. /\ inputs' = ins /\ queue' = queue \cup {i}
          /\ UNCHANGED <<turnLog, turn, local, state>>
      BY <2>1, <2>5 DEF ins
    <3>2. TypeOK'
      BY <2>2, <2>3, <3>1 DEF IInv, TypeOK, requestVars, toolVars
    <3>3. QueueIsDurable'
      BY <2>2, <3>1 DEF QueueIsDurable
    <3>4. History'
      BY <2>3, <3>1 DEF IInv, History, Live, requestVars, toolVars
    <3>. QED
      BY <2>3, <3>1, <3>2, <3>3, <3>4
      DEF IInv, NoCallForgotten, CancelIntentIsDurable, QuestionMatchesTool,
          Phase, NoTools, Owed, requestVars, toolVars
  <2>. QED
    BY <2>4, <2>5
<1>2. ASSUME NEW S \in SUBSET queue, CancelQueuedItems(S) PROVE IInv'
  <2>1. /\ inputs' \in [Inputs -> InputRecords]
        /\ \A j \in Inputs : inputs'[j].st = "queued"
                               <=> inputs[j].st = "queued" /\ j \notin S
    <3>1. \A j \in Inputs : /\ inputs[j] \in InputRecords
                            /\ [inputs[j] EXCEPT !.st = "cancelled"]
                                 \in InputRecords
                            /\ [inputs[j] EXCEPT !.st = "cancelled"].st
                                 = "cancelled"
      BY DEF InputRecords
    <3>2. /\ DOMAIN inputs' = Inputs
          /\ \A j \in Inputs : inputs'[j] =
               IF j \in S THEN [inputs[j] EXCEPT !.st = "cancelled"]
               ELSE inputs[j]
          /\ inputs' = [j \in Inputs |-> inputs'[j]]
      BY <1>2 DEF CancelQueuedItems
    <3>. QED
      BY <3>1, <3>2
  <2>2. TypeOK'
    BY <1>2, <2>1 DEF CancelQueuedItems, IInv, TypeOK, requestVars, toolVars
  <2>3. QueueIsDurable'
    BY <1>2, <2>1 DEF CancelQueuedItems, QueueIsDurable
  <2>. QED
    BY <1>2, <2>2, <2>3
    DEF CancelQueuedItems, IInv, NoCallForgotten, CancelIntentIsDurable,
        QuestionMatchesTool, Phase, NoTools, History, Live, Owed,
        requestVars, toolVars
<1>3. CASE RetrieveLatest
  BY <1>2, <1>3 DEF RetrieveLatest
<1>4. CASE CancelInternalInputs
  <2>1. PICK S \in SUBSET {i \in queue : inputs[i].kind = "goal"} :
          CancelQueuedItems(S)
    BY <1>4 DEF CancelInternalInputs
  <2>2. S \in SUBSET queue
    OBVIOUS
  <2>. QED
    BY <1>2, <2>1, <2>2
<1>5. ASSUME NEW gate \in BOOLEAN, OwnerDispatch(gate) PROVE IInv'
  BY <1>5, LogFacts, Kept, DispatchReadyIInv DEF OwnerDispatch
<1>6. CASE FinishLocalAction
  <2>1. turn = None
    BY <1>6 DEF FinishLocalAction, IInv, Phase
  <2>. QED
    BY <1>6, <2>1, LogFacts, Kept, ThenIdleIInv DEF FinishLocalAction
<1>. QED
  BY <1>1, <1>3, <1>4, <1>5, <1>6 DEF InputNext
-----------------------------------------------------------------------------

\* Taking the oldest steer keeps the rows typed and the queue durable.
LEMMA SteerFacts ==
    ASSUME IInv, DispatchSteer
    PROVE  inputs' \in [Inputs -> InputRecords] /\ QueueIsDurable'
<1>1. CASE UNCHANGED <<inputs, queue>>
  BY <1>1, LogFacts DEF QueueIsDurable
<1>2. ASSUME NEW i \in Steers,
             inputs' = [inputs EXCEPT ![i] =
                          [@ EXCEPT !.st = "dispatched", !.turn = turn]],
             queue' = queue \ {i}
      PROVE  inputs' \in [Inputs -> InputRecords] /\ QueueIsDurable'
  <2>1. i \in Inputs /\ inputs[i] \in InputRecords
    BY LogFacts DEF Steers
  <2>2. [inputs[i] EXCEPT !.st = "dispatched", !.turn = turn] \in InputRecords
    BY <2>1, LogFacts DEF InputRecords, TypeOK
  <2>3. \A j \in Inputs : inputs'[j].st = "queued"
                            <=> j # i /\ inputs[j].st = "queued"
    BY <1>2, <2>1, LogFacts DEF InputRecords
  <2>4. inputs' \in [Inputs -> InputRecords]
    BY <1>2, <2>1, <2>2, LogFacts
  <2>5. queue' = {j \in Inputs : inputs'[j].st = "queued"}
    BY <1>2, <2>1, <2>3, LogFacts
  <2>. QED
    BY <2>4, <2>5 DEF QueueIsDurable
<1>. QED
  BY <1>1, <1>2 DEF DispatchSteer

\* Closing the open turn leaves the logs in order.
LEMMA TurnOver ==
    ASSUME IInv, turn # None, NEW st \in {"completed", "failed"}
    PROVE  /\ [turnLog EXCEPT ![turn] = st]
                \in [Turns -> {"none", "open", "completed", "failed"}]
           /\ \A t \in Turns : turnLog[t] # "none"
                => [turnLog EXCEPT ![turn] = st][t] # "none"
  BY LogFacts DEF TypeOK

Closing == {"committed", "completed", "interrupted", "failed"}

\* Closing a request only moves its own record, and keeps it in its turn.
LEMMA CloseFacts ==
    ASSUME IInv, NEW st \in Closing, CloseRequest(st)
    PROVE  /\ turn \in Turns /\ turn # None /\ request \in Requests
           /\ request' = None /\ cancelling' = FALSE
           /\ state \in {"MODEL_STREAMING", "EXITING"}
           /\ NoTools /\ local = None
           /\ requestLog' \in
                [Requests -> [st : RequestStates, turn : Turns \cup {None}]]
           /\ requestLog'[request] = [st |-> st, turn |-> turn]
           /\ \A r \in Requests : r # request => requestLog'[r] = requestLog[r]
<1>1. /\ turn \in Turns /\ turn # None /\ request \in Requests
      /\ state \in {"MODEL_STREAMING", "EXITING"} /\ NoTools /\ local = None
  BY LogFacts DEF CloseRequest, IInv, Phase, TypeOK
<1>2. [st |-> st, turn |-> turn] \in [st : RequestStates, turn : Turns \cup {None}]
  BY <1>1 DEF Closing, RequestStates
<1>. QED
  BY <1>1, <1>2, LogFacts DEF CloseRequest, LogRequest, LogOK

\* What the journal says of requests, once the active one is closed.
LEMMA CloseHistory ==
    ASSUME IInv, NEW st \in Closing, CloseRequest(st), NEW r \in Requests
    PROVE  /\ requestLog'[r].st = "none" <=> requestLog'[r].turn = None
           /\ requestLog'[r].turn # None
                => turnLog[requestLog'[r].turn] # "none"
           /\ requestLog'[r].turn = turn
                => requestLog'[r].st \notin {"started", "cancel_requested"}
<1>1. CASE r = request
  <2>1. turnLog[turn] = "open" /\ turn # None
    BY CloseFacts DEF IInv, History
  <2>2. requestLog'[request] = [st |-> st, turn |-> turn]
    BY CloseFacts
  <2>3. requestLog'[r].st = st /\ requestLog'[r].turn = turn
    BY <1>1, <2>2
  <2>. QED
    BY <2>1, <2>3 DEF Closing
<1>2. CASE r # request
  <2>1. requestLog'[r] = requestLog[r] /\ turn # None
    BY <1>2, CloseFacts
  <2>. QED
    BY <1>2, <2>1 DEF IInv, History, Live
<1>. QED
  BY <1>1, <1>2

\* A request closes and its turn goes on, whatever happens to the queue.
LEMMA TurnGoesOn ==
    ASSUME IInv, NEW st \in Closing, CloseRequest(st),
           inputs' \in [Inputs -> InputRecords], QueueIsDurable',
           UNCHANGED <<turnLog, callLog, askLog, state, turn, local, toolVars>>
    PROVE  IInv'
<1>. USE CloseFacts
<1>1. TypeOK'
  <2>1. queue' \subseteq Inputs
    BY DEF QueueIsDurable
  <2>. QED
    BY <2>1, LogFacts DEF TypeOK, toolVars
<1>2. History'
  BY CloseHistory DEF IInv, History, Live, toolVars
<1>. QED
  BY <1>1, <1>2
  DEF IInv, NoCallForgotten, CancelIntentIsDurable, QuestionMatchesTool,
      Phase, NoTools, Owed, toolVars

\* A request closes and takes its turn with it.
LEMMA TurnClosing ==
    ASSUME IInv, NEW st \in Closing, CloseRequest(st),
           NEW ts \in {"completed", "failed"},
           ThenIdle([turnLog EXCEPT ![turn] = ts]),
           UNCHANGED <<callLog, askLog, toolVars>>
    PROVE  IInv'
<1>. DEFINE tl == [turnLog EXCEPT ![turn] = ts]
<1>1. tl \in [Turns -> {"none", "open", "completed", "failed"}]
  BY CloseFacts, TurnOver
<1>2. \A t \in Turns : turnLog[t] # "none" => tl[t] # "none"
  BY CloseFacts, TurnOver
<1>3. ThenIdle(tl)
  OBVIOUS
<1>. HIDE DEF tl
<1>4. LogOK(requestLog', callLog', askLog', tl)
  <2>1. \A r \in Requests :
          /\ requestLog'[r].st = "none" <=> requestLog'[r].turn = None
          /\ requestLog'[r].turn # None => tl[requestLog'[r].turn] # "none"
    <3>1. \A r \in Requests : requestLog'[r].turn \in Turns \cup {None}
      BY CloseFacts
    <3>. QED
      BY <1>2, <3>1, CloseHistory
  <2>2. \A c \in Calls :
          /\ callLog[c].st = "none" <=> callLog[c].turn = None
          /\ callLog[c].turn # None => tl[callLog[c].turn] # "none"
    <3>1. \A c \in Calls : callLog[c].turn \in Turns \cup {None}
      BY LogFacts DEF LogOK
    <3>. QED
      BY <1>2, <3>1, LogFacts DEF LogOK
  <2>. QED
    BY <2>1, <2>2, CloseFacts, LogFacts DEF LogOK
<1>5. SlotsFree'
  BY CloseFacts, LogFacts DEF SlotsFree, NoTools, toolVars, TypeOK
<1>. QED
  BY <1>1, <1>3, <1>4, <1>5, ThenIdleIInv

\* The provider request handlers.
LEMMA RequestStep == ASSUME IInv, RequestNext PROVE IInv'
<1>. USE LogFacts
<1>1. CASE BeginRequest
  <2>1. PICK r \in Requests :
          /\ requestLog[r].st = "none"
          /\ requestLog' = LogRequest(r, "started")
          /\ request' = r
    BY <1>1 DEF BeginRequest
  <2>2. /\ UNCHANGED <<inputs, turnLog, callLog, askLog, state, turn, local,
                       toolVars, queue>>
        /\ state = "MODEL_STREAMING" /\ turn \in Turns /\ turn # None
        /\ request = None /\ cancelling' = FALSE /\ r # None
    BY <1>1, ConstantsAssumption DEF BeginRequest, TypeOK
  <2>3. /\ requestLog' \in
             [Requests -> [st : RequestStates, turn : Turns \cup {None}]]
        /\ requestLog'[r] = [st |-> "started", turn |-> turn]
        /\ \A x \in Requests : x # r => requestLog'[x] = requestLog[x]
    <3>1. [st |-> "started", turn |-> turn]
            \in [st : RequestStates, turn : Turns \cup {None}]
      BY <2>2 DEF RequestStates
    <3>. QED
      BY <2>1, <3>1 DEF LogRequest, LogOK
  <2>4. TypeOK'
    BY <2>1, <2>2, <2>3 DEF TypeOK, toolVars
  <2>5. History'
    BY <2>1, <2>2, <2>3, ConstantsAssumption
    DEF IInv, History, Live, toolVars
  <2>. QED
    BY <2>1, <2>2, <2>3, <2>4, <2>5
    DEF IInv, QueueIsDurable, NoCallForgotten, CancelIntentIsDurable,
        QuestionMatchesTool, Phase, NoTools, Owed, toolVars
<1>2. CASE RequestCancel
  <2>1. /\ UNCHANGED <<inputs, turnLog, callLog, askLog, state, turn, request,
                       local, toolVars, queue>>
        /\ request \in Requests /\ request # None /\ cancelling' = TRUE
        /\ turn \in Turns /\ turn # None
        /\ requestLog' = LogRequest(request, "cancel_requested")
    BY <1>2 DEF RequestCancel, TypeOK, IInv, Phase
  <2>2. /\ requestLog' \in
             [Requests -> [st : RequestStates, turn : Turns \cup {None}]]
        /\ requestLog'[request] = [st |-> "cancel_requested", turn |-> turn]
        /\ \A x \in Requests : x # request => requestLog'[x] = requestLog[x]
    <3>1. [st |-> "cancel_requested", turn |-> turn]
            \in [st : RequestStates, turn : Turns \cup {None}]
      BY <2>1 DEF RequestStates
    <3>. QED
      BY <2>1, <3>1 DEF LogRequest, LogOK
  <2>3. TypeOK'
    BY <2>1, <2>2 DEF TypeOK, toolVars
  <2>4. History'
    BY <2>1, <2>2 DEF IInv, History, Live, toolVars
  <2>. QED
    BY <2>1, <2>2, <2>3, <2>4
    DEF IInv, QueueIsDurable, NoCallForgotten, CancelIntentIsDurable,
        QuestionMatchesTool, Phase, NoTools, Owed, toolVars
<1>3. CASE AcknowledgeInterrupt
  <2>1. CloseRequest("interrupted") /\ "interrupted" \in Closing
        /\ UNCHANGED <<callLog, askLog, toolVars>>
    BY <1>3 DEF AcknowledgeInterrupt, Closing
  <2>2. CASE Steers # {}
    BY <1>3, <2>1, <2>2, SteerFacts, TurnGoesOn DEF AcknowledgeInterrupt
  <2>3. CASE Steers = {}
    BY <1>3, <2>1, <2>3, TurnClosing DEF AcknowledgeInterrupt
  <2>. QED
    BY <2>2, <2>3
<1>4. ASSUME NEW C \in SUBSET Calls, CompleteResponse(C) PROVE IInv'
  <2>1. CloseRequest("committed") /\ "committed" \in Closing
    BY <1>4 DEF CompleteResponse, Closing
  <2>2. CASE C = {}
    <3>1. callLog' = callLog
      BY <1>4, <2>2 DEF CompleteResponse, LogOK
    <3>2. UNCHANGED <<callLog, askLog, toolVars>>
      BY <1>4, <2>2, <3>1 DEF CompleteResponse, toolVars
    <3>3. CASE Steers # {}
      BY <1>4, <2>1, <2>2, <3>2, <3>3, SteerFacts, TurnGoesOn
      DEF CompleteResponse
    <3>4. CASE Steers = {}
      BY <1>4, <2>1, <2>2, <3>2, <3>4, TurnClosing DEF CompleteResponse
    <3>. QED
      BY <3>3, <3>4
  <2>3. CASE C # {}
    <3>1. /\ UNCHANGED <<inputs, queue, turnLog, turn, local, askLog, approved,
                         running, task, toolCancelling, ask>>
          /\ pending' = C /\ state' = Transition("TOOL_WAITING_APPROVAL")
          /\ \A c \in C : callLog[c].st = "none"
          /\ callLog' = [c \in Calls |-> IF c \in C
                     THEN [st |-> "requested", turn |-> turn] ELSE callLog[c]]
      BY <1>4, <2>3 DEF CompleteResponse
    <3>2. /\ turn \in Turns /\ turn # None /\ request \in Requests
          /\ request' = None /\ cancelling' = FALSE
          /\ state \in {"MODEL_STREAMING", "EXITING"} /\ NoTools /\ local = None
      BY <2>1, CloseFacts
    <3>3. state' \in {"TOOL_WAITING_APPROVAL", "EXITING"}
      BY <3>1, <3>2, Edges DEF TypeOK
    <3>4. /\ \A c \in Calls : c \in C =>
               callLog'[c] = [st |-> "requested", turn |-> turn]
          /\ \A c \in Calls : c \notin C => callLog'[c] = callLog[c]
      BY <3>1
    <3>5. callLog' \in [Calls -> [st : CallStates, turn : Turns \cup {None}]]
      <4>1. [st |-> "requested", turn |-> turn]
              \in [st : CallStates, turn : Turns \cup {None}]
        BY <3>2 DEF CallStates
      <4>. QED
        BY <3>1, <4>1 DEF LogOK
    <3>6. TypeOK'
      BY <2>1, <3>1, <3>2, <3>3, <3>5, CloseFacts DEF TypeOK, States
    <3>7. \A c \in Calls : callLog[c].turn = turn => callLog[c].st = "finished"
      BY <3>2 DEF IInv, NoCallForgotten, Owed, NoTools
    <3>8. NoCallForgotten'
      BY <3>1, <3>2, <3>4, <3>7 DEF NoCallForgotten, Owed, NoTools
    <3>9. History'
      <4>1. /\ turn' # None => turnLog'[turn'] = "open"
            /\ \A r \in Requests :
                 /\ requestLog'[r].st = "none" <=> requestLog'[r].turn = None
                 /\ requestLog'[r].turn # None
                      => turnLog'[requestLog'[r].turn] # "none"
                 /\ (turn' # None /\ requestLog'[r].turn = turn' /\ Live(r)'
                      => r = request')
        BY <2>1, <3>1, <3>2, CloseHistory DEF IInv, History, Live
      <4>2. \A c \in Calls :
              /\ callLog'[c].st = "none" <=> callLog'[c].turn = None
              /\ callLog'[c].turn # None => turnLog'[callLog'[c].turn] # "none"
              /\ c \in pending' => callLog'[c].st = "requested"
              /\ c = approved' => callLog'[c].st = "approved"
        BY <3>1, <3>2, <3>4, ConstantsAssumption DEF IInv, History, NoTools
      <4>. QED
        BY <4>1, <4>2 DEF History
    <3>. QED
      BY <3>1, <3>2, <3>3, <3>6, <3>8, <3>9
      DEF IInv, QueueIsDurable, CancelIntentIsDurable, QuestionMatchesTool,
          Phase, NoTools
  <2>. QED
    BY <2>2, <2>3
<1>5. CASE FailRequest
  <2>1. CloseRequest("failed") /\ "failed" \in Closing
    BY <1>5 DEF FailRequest, Closing
  <2>2. ask = None
    BY <2>1, CloseFacts DEF NoTools
  <2>. QED
    BY <1>5, <2>1, <2>2, TurnClosing DEF FailRequest, toolVars
<1>6. ASSUME NEW st \in Closing, EndRequestOnly(st) PROVE IInv'
  BY <1>6, TurnGoesOn DEF EndRequestOnly, QueueIsDurable
<1>7. CASE RetryRequest \/ FinishAuxRequest
  BY <1>6, <1>7 DEF RetryRequest, FinishAuxRequest, Closing
<1>8. CASE FailTurn
  <2>. DEFINE tl == [turnLog EXCEPT ![turn] = "failed"]
  <2>1. /\ tl \in [Turns -> {"none", "open", "completed", "failed"}]
        /\ \A t \in Turns : turnLog[t] # "none" => tl[t] # "none"
    BY <1>8, TurnOver DEF FailTurn
  <2>2. ThenIdle(tl) /\ UNCHANGED <<requestLog, callLog, askLog>>
    BY <1>8 DEF FailTurn
  <2>. HIDE DEF tl
  <2>3. LogOK(requestLog', callLog', askLog', tl)
    BY <2>1, <2>2 DEF LogOK
  <2>4. SlotsFree'
    BY <1>8 DEF FailTurn, SlotsFree, NoTools, requestVars, IInv, Phase, TypeOK
  <2>. QED
    BY <2>1, <2>2, <2>3, <2>4, ThenIdleIInv
<1>. QED
  BY <1>1, <1>2, <1>3, <1>4, <1>5, <1>7, <1>8 DEF RequestNext

-----------------------------------------------------------------------------

\* A held tool call belongs to the current turn.
LEMMA HeldCalls ==
    ASSUME IInv, NEW c \in Owed
    PROVE  /\ c \in Calls /\ c # None /\ turn \in Turns /\ turn # None
           /\ callLog[c].turn = turn /\ callLog[c].st # "none"
           /\ request = None
<1>1. c \in Calls /\ turn \in Turns \cup {None}
  BY LogFacts DEF TypeOK, Owed
<1>2. turn # None /\ request = None
  BY DEF IInv, Phase, NoTools, Owed
<1>3. callLog[c].turn = turn
  BY <1>1, <1>2 DEF IInv, NoCallForgotten
<1>. QED
  BY <1>1, <1>2, <1>3, ConstantsAssumption DEF IInv, History

\* Moving the record of one held call.
LEMMA CallFacts ==
    ASSUME IInv, NEW c \in Owed, NEW st \in CallStates \ {"none"},
           callLog' = LogCall(c, st)
    PROVE  /\ callLog' \in [Calls -> [st : CallStates, turn : Turns \cup {None}]]
           /\ callLog'[c].st = st
           /\ \A x \in Calls : /\ callLog'[x].turn = callLog[x].turn
                               /\ x # c => callLog'[x] = callLog[x]
<1>1. c \in Calls /\ callLog \in [Calls -> [st : CallStates, turn : Turns \cup {None}]]
  BY HeldCalls, LogFacts DEF LogOK
<1>2. [callLog[c] EXCEPT !.st = st] \in [st : CallStates, turn : Turns \cup {None}]
  BY <1>1
<1>3. callLog' = [callLog EXCEPT ![c] = [callLog[c] EXCEPT !.st = st]]
  BY DEF LogCall
<1>. QED
  BY <1>1, <1>2, <1>3

\* Whatever else a step does, History survives the move of a held call's
\* record to st, when the call leaves pending and lands in the right slot.
LEMMA CallHistory ==
    ASSUME IInv, NEW c \in Owed, NEW st \in CallStates \ {"none"},
           callLog' = LogCall(c, st),
           UNCHANGED <<turnLog, requestLog, turn, request>>,
           pending' \subseteq pending \ {c},
           approved' \in {None, approved} \/ approved' = c,
           approved' = c => st = "approved"
    PROVE  History'
<1>1. \A x \in Calls :
        /\ callLog'[x].st = "none" <=> callLog'[x].turn = None
        /\ callLog'[x].turn # None => turnLog'[callLog'[x].turn] # "none"
        /\ x \in pending' => callLog'[x].st = "requested"
        /\ x = approved' => callLog'[x].st = "approved"
  <2>. TAKE x \in Calls
  <2>1. CASE x = c
    BY <2>1, CallFacts, HeldCalls DEF IInv, History
  <2>2. CASE x # c
    <3>1. callLog'[x] = callLog[x] /\ x # None
      BY <2>2, CallFacts, ConstantsAssumption
    <3>. QED
      BY <2>2, <3>1 DEF IInv, History
  <2>. QED
    BY <2>1, <2>2
<1>. QED
  BY <1>1 DEF IInv, History, Live

\* Where the reducer goes once a call is settled.
LEMMA AfterCallFacts ==
    ASSUME IInv, NEW boundary, AfterCall(boundary),
           state \in {"TOOL_WAITING_APPROVAL", "TOOL_RUNNING_FOREGROUND",
                      "TOOL_WAITING_DECISION", "EXITING"}
    PROVE  /\ inputs' \in [Inputs -> InputRecords] /\ QueueIsDurable'
           /\ state' = IF state = "EXITING" THEN "EXITING"
                       ELSE IF pending' # {} THEN "TOOL_WAITING_APPROVAL"
                       ELSE "MODEL_STREAMING"
<1>1. UNCHANGED <<inputs, queue>>
        => inputs' \in [Inputs -> InputRecords] /\ QueueIsDurable'
  BY LogFacts DEF QueueIsDurable
<1>2. inputs' \in [Inputs -> InputRecords] /\ QueueIsDurable'
  BY <1>1, SteerFacts DEF AfterCall
<1>. QED
  BY <1>2, LogFacts, Edges DEF AfterCall, TypeOK

\* The tool call handlers.
LEMMA ToolStep == ASSUME IInv, ToolNext PROVE IInv'
<1>. USE LogFacts
<1>1. ASSUME NEW c \in Calls, ApproveTool(c) PROVE IInv'
  <2>1. c \in Owed /\ callLog' = LogCall(c, "approved")
        /\ "approved" \in CallStates \ {"none"}
    BY <1>1 DEF ApproveTool, Owed, CallStates
  <2>2. TypeOK'
    BY <1>1, <2>1, CallFacts DEF ApproveTool, TypeOK, requestVars
  <2>3. NoCallForgotten'
    BY <1>1, <2>1, HeldCalls, CallFacts, ConstantsAssumption
    DEF ApproveTool, IInv, NoCallForgotten, Owed
  <2>4. History'
    BY <1>1, <2>1, CallHistory DEF ApproveTool, requestVars
  <2>5. running = None /\ request = None
    BY <1>1, <2>1, HeldCalls DEF ApproveTool, IInv, Phase
  <2>. QED
    BY <1>1, <2>1, <2>2, <2>3, <2>4, <2>5, HeldCalls
    DEF ApproveTool, IInv, QueueIsDurable, CancelIntentIsDurable,
        QuestionMatchesTool, Phase, NoTools, requestVars
<1>2. ASSUME NEW c \in Owed, NEW boundary \in BOOLEAN,
             callLog' = LogCall(c, "finished"),
             pending' = pending \ {c},
             approved' = IF c = approved THEN None ELSE approved,
             approved = None \/ c = approved,
             running' = None, running = None \/ c = running,
             ask = None, ask' = None,
             task' \in BOOLEAN, toolCancelling' \in BOOLEAN,
             state \in {"TOOL_WAITING_APPROVAL", "TOOL_RUNNING_FOREGROUND",
                        "TOOL_WAITING_DECISION", "EXITING"},
             \/ AfterCall(boundary)
             \/ /\ state = "TOOL_WAITING_APPROVAL" /\ pending' # {}
                /\ UNCHANGED <<state, inputs, queue>>,
             UNCHANGED <<turnLog, requestLog, askLog, turn, requestVars, local>>
      PROVE  IInv'
  <2>1. "finished" \in CallStates \ {"none"}
    BY DEF CallStates
  <2>2. /\ inputs' \in [Inputs -> InputRecords] /\ QueueIsDurable'
        /\ state' = IF state = "EXITING" THEN "EXITING"
                    ELSE IF pending' # {} THEN "TOOL_WAITING_APPROVAL"
                    ELSE "MODEL_STREAMING"
    BY <1>2, AfterCallFacts DEF QueueIsDurable
  <2>3. approved' = None
    BY <1>2
  <2>4. TypeOK'
    <3>1. queue' \subseteq Inputs /\ state' \in States
      BY <2>2, <1>2 DEF QueueIsDurable, States
    <3>. QED
      BY <1>2, <2>1, <2>2, <2>3, <3>1, CallFacts DEF TypeOK, requestVars
  <2>5. NoCallForgotten'
    BY <1>2, <2>1, <2>3, HeldCalls, CallFacts, ConstantsAssumption
    DEF IInv, NoCallForgotten, Owed
  <2>6. History'
    BY <1>2, <2>1, <2>3, CallHistory, HeldCalls DEF requestVars
  <2>7. turn # None /\ request = None
    BY <1>2, HeldCalls
  <2>. QED
    BY <1>2, <2>2, <2>3, <2>4, <2>5, <2>6, <2>7
    DEF IInv, CancelIntentIsDurable, QuestionMatchesTool, Phase, NoTools,
        requestVars
<1>3. ASSUME NEW c \in Calls, NEW boundary \in BOOLEAN, DenyTool(c, boundary)
      PROVE  IInv'
  <2>1. c \in Owed /\ running = None /\ ask = None
    BY <1>3 DEF DenyTool, Owed, IInv, Phase
  <2>2. approved = None /\ c # approved
    BY <1>3, <2>1, HeldCalls DEF DenyTool
  <2>. QED
    BY <1>2, <1>3, <2>1, <2>2 DEF DenyTool, TypeOK
<1>4. CASE AbortApprovedTool
  <2>1. approved \in Owed /\ running = None /\ ask = None
    BY <1>4 DEF AbortApprovedTool, Owed, IInv, Phase
  <2>2. approved \notin pending
    BY <1>4, <2>1, HeldCalls DEF AbortApprovedTool, IInv, History
  <2>. QED
    BY <1>2, <1>4, <2>1, <2>2 DEF AbortApprovedTool, TypeOK
<1>5. ASSUME NEW boundary \in BOOLEAN, FinishTool(boundary) PROVE IInv'
  <2>1. running \in Owed /\ approved = None /\ ask = None
    BY <1>5 DEF FinishTool, Owed, IInv, Phase
  <2>2. /\ running \notin pending
        /\ state \in {"TOOL_RUNNING_FOREGROUND", "TOOL_WAITING_DECISION",
                      "EXITING"}
    BY <1>5, <2>1, HeldCalls
    DEF FinishTool, IInv, History, CancelIntentIsDurable, Phase, NoTools,
        TypeOK, States
  <2>. QED
    BY <1>2, <1>5, <2>1, <2>2 DEF FinishTool, TypeOK
<1>6. CASE StartTool
  <2>1. approved \in Owed /\ callLog' = LogCall(approved, "started")
        /\ "started" \in CallStates \ {"none"}
    BY <1>6 DEF StartTool, Owed, CallStates
  <2>2. running = None /\ ask = None /\ approved \notin pending
    BY <1>6, <2>1, HeldCalls DEF StartTool, IInv, Phase, History
  <2>3. state' = "TOOL_RUNNING_FOREGROUND"
    BY <1>6, Edges DEF StartTool, TypeOK
  <2>4. TypeOK'
    BY <1>6, <2>1, <2>3, CallFacts DEF StartTool, TypeOK, requestVars, States
  <2>5. NoCallForgotten'
    BY <1>6, <2>1, <2>2, HeldCalls, CallFacts, ConstantsAssumption
    DEF StartTool, IInv, NoCallForgotten, Owed
  <2>6. History'
    BY <1>6, <2>1, <2>2, HeldCalls, CallHistory DEF StartTool, requestVars
  <2>7. callLog'[running'] = [st |-> "started", turn |-> turn']
    <3>1. /\ callLog'[approved].st = "started"
          /\ callLog'[approved].turn = turn
          /\ callLog'[approved] \in [st : CallStates, turn : Turns \cup {None}]
      BY <2>1, HeldCalls, CallFacts
    <3>. QED
      BY <1>6, <3>1 DEF StartTool
  <2>. QED
    BY <1>6, <2>1, <2>2, <2>3, <2>4, <2>5, <2>6, <2>7, HeldCalls
    DEF StartTool, IInv, QueueIsDurable, CancelIntentIsDurable,
        QuestionMatchesTool, Phase, NoTools, requestVars
<1>7. CASE RegisterToolTask
  <2>1. TypeOK' /\ History'
    BY <1>7 DEF RegisterToolTask, IInv, TypeOK, History, Live, journal, requestVars
  <2>. QED
    BY <1>7, <2>1
    DEF RegisterToolTask, IInv, QueueIsDurable, NoCallForgotten, Owed,
        CancelIntentIsDurable, QuestionMatchesTool, Phase, NoTools, journal,
        requestVars
<1>8. CASE RequestToolCancel
  <2>1. running \in Owed /\ callLog' = LogCall(running, "cancel_requested")
        /\ "cancel_requested" \in CallStates \ {"none"}
    BY <1>8 DEF RequestToolCancel, Owed, CallStates
  <2>2. running \notin pending /\ approved = None
    BY <1>8, <2>1, HeldCalls
    DEF RequestToolCancel, IInv, Phase, History, CancelIntentIsDurable
  <2>3. TypeOK'
    BY <1>8, <2>1, CallFacts DEF RequestToolCancel, TypeOK, requestVars
  <2>4. NoCallForgotten'
    BY <1>8, <2>1, HeldCalls, CallFacts, ConstantsAssumption
    DEF RequestToolCancel, IInv, NoCallForgotten, Owed
  <2>5. History'
    BY <1>8, <2>1, <2>2, HeldCalls, CallHistory DEF RequestToolCancel, requestVars
  <2>6. callLog'[running'] = [st |-> "cancel_requested", turn |-> turn']
    <3>1. /\ callLog'[running].st = "cancel_requested"
          /\ callLog'[running].turn = turn
          /\ callLog'[running] \in [st : CallStates, turn : Turns \cup {None}]
      BY <2>1, HeldCalls, CallFacts
    <3>. QED
      BY <1>8, <3>1 DEF RequestToolCancel
  <2>. QED
    BY <1>8, <2>1, <2>2, <2>3, <2>4, <2>5, <2>6, HeldCalls
    DEF RequestToolCancel, IInv, QueueIsDurable, CancelIntentIsDurable,
        QuestionMatchesTool, Phase, NoTools, requestVars
<1>9. CASE BeginInteraction
  <2>1. PICK a \in Asks :
          /\ askLog' = [askLog EXCEPT ![a] = [st |-> "open", call |-> running]]
          /\ ask' = a
    BY <1>9 DEF BeginInteraction
  <2>2. running \in Calls /\ state' = "TOOL_WAITING_DECISION" /\ a # None
    BY <1>9, Edges, ConstantsAssumption DEF BeginInteraction, TypeOK
  <2>3. TypeOK'
    BY <1>9, <2>1, <2>2 DEF BeginInteraction, TypeOK, requestVars, States
  <2>4. askLog'[a] = [st |-> "open", call |-> running]
    BY <2>1 DEF TypeOK
  <2>5. History'
    BY <1>9 DEF BeginInteraction, IInv, History, Live, requestVars
  <2>6. request = None /\ turn # None
    BY <1>9 DEF BeginInteraction, IInv, Phase, NoTools
  <2>. QED
    BY <1>9, <2>1, <2>2, <2>3, <2>4, <2>5, <2>6
    DEF BeginInteraction, IInv, QueueIsDurable, NoCallForgotten, Owed,
        CancelIntentIsDurable, QuestionMatchesTool, Phase, NoTools, requestVars
<1>10. ASSUME NEW st \in {"resolved", "aborted"}, EndInteraction(st)
       PROVE  IInv'
  <2>1. askLog' = [askLog EXCEPT ![ask].st = st] /\ ask \in Asks
        /\ state' = "TOOL_RUNNING_FOREGROUND"
    BY <1>10, Edges DEF EndInteraction, TypeOK
  <2>2. askLog' \in [Asks -> [st : {"none", "open", "resolved", "aborted"},
                              call : Calls \cup {None}]]
    <3>1. [askLog[ask] EXCEPT !.st = st] \in
            [st : {"none", "open", "resolved", "aborted"},
             call : Calls \cup {None}]
      BY <2>1 DEF TypeOK
    <3>2. askLog' = [askLog EXCEPT ![ask] = [askLog[ask] EXCEPT !.st = st]]
      BY <2>1
    <3>. QED
      BY <3>1, <3>2 DEF TypeOK
  <2>3. TypeOK'
    BY <1>10, <2>1, <2>2 DEF EndInteraction, TypeOK, requestVars, States
  <2>4. History'
    BY <1>10 DEF EndInteraction, IInv, History, Live, requestVars
  <2>5. request = None /\ turn # None
    BY <1>10 DEF EndInteraction, IInv, Phase, NoTools
  <2>. QED
    BY <1>10, <2>1, <2>3, <2>4, <2>5
    DEF EndInteraction, IInv, QueueIsDurable, NoCallForgotten, Owed,
        CancelIntentIsDurable, QuestionMatchesTool, Phase, NoTools, requestVars
<1>. QED
  BY <1>1, <1>3, <1>4, <1>5, <1>6, <1>7, <1>8, <1>9, <1>10
  DEF ToolNext, ResolveInteraction, AbortInteraction

\* Modals and exit change the state only.
LEMMA ModalStep == ASSUME IInv, ModalNext PROVE IInv'
<1>1. PICK s \in {"PICKER", "REWIND", "IDLE", "EXITING"} :
        /\ OnlyState(s)
        /\ s = "EXITING" \/ state \in {"IDLE", "PICKER", "REWIND"}
  <2>1. Transition("EXITING") = "EXITING"
    BY LogFacts, Edges DEF TypeOK
  <2>. QED
    BY <2>1 DEF ModalNext, OpenModal, CloseModal, BeginExit
<1>2. TypeOK'
  BY <1>1 DEF OnlyState, IInv, TypeOK, States, journal, requestVars, toolVars
<1>3. History'
  BY <1>1 DEF OnlyState, IInv, History, Live, journal, requestVars, toolVars
<1>4. QueueIsDurable' /\ NoCallForgotten' /\ CancelIntentIsDurable'
  BY <1>1
  DEF OnlyState, IInv, QueueIsDurable, NoCallForgotten, Owed,
      CancelIntentIsDurable, journal, requestVars, toolVars
<1>5. QuestionMatchesTool' /\ Phase'
  BY <1>1
  DEF OnlyState, IInv, QuestionMatchesTool, Phase, NoTools, journal,
      requestVars, toolVars
<1>. QED
  BY <1>2, <1>3, <1>4, <1>5 DEF IInv

\* A new reducer on the old journal.
LEMMA RestartStep ==
    ASSUME IInv, NEW startup, Restart(startup)
    PROVE  IInv'
<1>. DEFINE q == {i \in Inputs : inputs[i].st = "queued"}
<1>1. SlotsFree' /\ LogOK(requestLog', callLog', askLog', turnLog)
  BY LogFacts DEF Restart, SlotsFree, NoTools
<1>2. CASE startup
  <2>1. DispatchReady(inputs, q, turnLog, FALSE)
    BY <1>2 DEF Restart
  <2>. QED
    BY <1>1, <2>1, LogFacts, DispatchReadyIInv
<1>3. CASE ~startup
  <2>1. /\ queue' = q /\ turn' = None /\ local' = None /\ state' = "IDLE"
        /\ UNCHANGED <<inputs, turnLog, requestLog, callLog, askLog>>
    BY <1>3 DEF Restart
  <2>2. TypeOK'
    BY <1>1, <2>1, LogFacts DEF TypeOK, SlotsFree, NoTools, States
  <2>3. QueueIsDurable' /\ History'
    BY <1>1, <2>1, ConstantsAssumption
    DEF QueueIsDurable, IInv, History, SlotsFree, NoTools
  <2>. QED
    BY <1>1, <2>1, <2>2, <2>3
    DEF SlotsFree, IInv, NoCallForgotten, CancelIntentIsDurable,
        QuestionMatchesTool, Phase, NoTools
<1>. QED
  BY <1>2, <1>3

-----------------------------------------------------------------------------

\* The inductive step: every handler, and the step that does nothing.
LEMMA NextIInv == IInv /\ [Next]_vars => IInv'
<1>. SUFFICES ASSUME IInv, [Next]_vars PROVE IInv'
  OBVIOUS
<1>1. CASE Next
  BY <1>1, InputStep, RequestStep, ToolStep, ModalStep, RestartStep DEF Next
<1>2. CASE UNCHANGED vars
  <2>1. TypeOK' /\ QueueIsDurable' /\ NoCallForgotten'
    BY <1>2
    DEF IInv, TypeOK, QueueIsDurable, NoCallForgotten, Owed, vars, journal,
        requestVars, toolVars
  <2>2. CancelIntentIsDurable' /\ QuestionMatchesTool' /\ Phase'
    BY <1>2
    DEF IInv, CancelIntentIsDurable, QuestionMatchesTool, Phase, NoTools,
        vars, journal, requestVars, toolVars
  <2>3. History'
    BY <1>2
    DEF IInv, History, Live, vars, journal, requestVars, toolVars
  <2>. QED
    BY <2>1, <2>2, <2>3 DEF IInv
<1>. QED
  BY <1>1, <1>2

\* IInv, the strengthening all the theorems below follow from, is invariant.
THEOREM Inductive == Spec => []IInv
  BY InitIInv, NextIInv, PTL DEF Spec

\* The reducer and the journal stay well typed.
THEOREM Typed == Spec => []TypeOK
<1>1. IInv => TypeOK
  BY DEF IInv
<1>. QED
  BY <1>1, Inductive, PTL

\* No input is lost or dispatched twice: the queue in memory is the durable
\* one after every handler, even when its second journal write raised.
THEOREM DurableQueue == Spec => []QueueIsDurable
<1>1. IInv => QueueIsDurable
  BY DEF IInv
<1>. QED
  BY <1>1, Inductive, PTL

\* No tool call of the live turn is forgotten before its result is written.
THEOREM NothingForgotten == Spec => []NoCallForgotten
<1>1. IInv => NoCallForgotten
  BY DEF IInv
<1>. QED
  BY <1>1, Inductive, PTL

\* A provider request is only ever open when every tool call of its turn has
\* its result: with a request open no slot holds a call, and the slots hold
\* every unfinished call.
THEOREM SettledRequests == Spec => []SettledBeforeRequest
<1>1. IInv => SettledBeforeRequest
  BY DEF IInv, Phase, NoTools, NoCallForgotten, Owed, SettledBeforeRequest
<1>. QED
  BY <1>1, Inductive, PTL

\* Cancelling is in the journal exactly when the reducer says it is.
THEOREM DurableIntent == Spec => []CancelIntentIsDurable
<1>1. IInv => CancelIntentIsDurable
  BY DEF IInv
<1>. QED
  BY <1>1, Inductive, PTL

\* A parked question always belongs to the running tool.
THEOREM QuestionsMatch == Spec => []QuestionMatchesTool
<1>1. IInv => QuestionMatchesTool
  BY DEF IInv
<1>. QED
  BY <1>1, Inductive, PTL

\* What a restart would read is what the reducer shows.
THEOREM JournalHolds == Spec => []JournalAgrees
<1>1. QueueIsDurable /\ CancelIntentIsDurable => JournalAgrees
  BY DEF JournalAgrees
<1>. QED
  BY <1>1, DurableQueue, DurableIntent, PTL

\* The tool protocol holds under any caller.
THEOREM ProtocolHolds == Spec => []ToolProtocol
<1>1. NoCallForgotten /\ SettledBeforeRequest /\ QuestionMatchesTool => ToolProtocol
  BY DEF ToolProtocol
<1>. QED
  BY <1>1, NothingForgotten, SettledRequests, QuestionsMatch, PTL

-----------------------------------------------------------------------------
(***************************************************************************)
(* The reducer implements the ledger a reader of its journal relies on:    *)
(* Spec => Ledger!Spec, for every set of ids, whichever journal write      *)
(* fails.  The invariant says all that is needed: what the reducer holds   *)
(* in memory is what the journal shows to be open, so each write takes a   *)
(* legal edge.                                                             *)
(***************************************************************************)

(* The two ways an input leaves the queue, as the journal shows them. *)

Idles(ins, tl) == inputs' = ins /\ turnLog' = tl /\ turn' = None

OpensTurn(ins, tl, i, t) ==
    /\ ins[i].kind \in {"next_turn", "goal"} /\ tl[t] = "none"
    /\ inputs' = [ins EXCEPT ![i] = [ins[i] EXCEPT !.st = "dispatched", !.turn = t]]
    /\ turnLog' = [tl EXCEPT ![t] = "open"] /\ turn' = t

RunsLocally(ins, tl, i) ==
    /\ ins[i].kind = "local"
    /\ inputs' = [ins EXCEPT ![i] = [ins[i] EXCEPT !.st = "dispatched"]]
    /\ turnLog' = tl /\ turn' = None

\* Nobody who may go before i still waits.
NextInLine(ins, i) ==
    /\ ins[i].st = "queued"
    /\ \A j \in Inputs : ins[j].st = "queued" /\ ins[j].kind \notin {"steer", "goal"}
                           => i <= j

Dispatches(ins, tl) ==
    \/ Idles(ins, tl)
    \/ \E i \in Inputs : /\ NextInLine(ins, i)
                         /\ \/ \E t \in Turns : OpensTurn(ins, tl, i, t)
                            \/ RunsLocally(ins, tl, i)

LEMMA DispatchReadyLedger ==
    ASSUME NEW ins, NEW q, NEW tl, NEW gate, DispatchReady(ins, q, tl, gate),
           q = {i \in Inputs : ins[i].st = "queued"}
    PROVE  Dispatches(ins, tl)
<1>1. CASE inputs' = ins /\ turnLog' = tl /\ turn' = None
  BY <1>1 DEF Dispatches, Idles
<1>2. ASSUME NEW i \in Dispatchable(ins, q, gate), First(i, Dispatchable(ins, q, gate)),
             DispatchNewTurn(i, ins, tl) \/ DispatchLocal(i, ins, tl)
      PROVE  Dispatches(ins, tl)
  <2>1. i \in Inputs /\ NextInLine(ins, i)
    BY <1>2 DEF NextInLine, First, Dispatchable
  <2>2. CASE DispatchNewTurn(i, ins, tl)
    BY <2>1, <2>2 DEF DispatchNewTurn, Dispatches, OpensTurn
  <2>3. CASE DispatchLocal(i, ins, tl)
    BY <2>1, <2>3 DEF DispatchLocal, Dispatches, RunsLocally
  <2>. QED
    BY <1>2, <2>2, <2>3
<1>. QED
  BY <1>1, <1>2 DEF DispatchReady

LEMMA ThenIdleLedger ==
    ASSUME IInv, NEW tl, ThenIdle(tl) PROVE Dispatches(inputs, tl)
<1>1. CASE DispatchReady(inputs, queue, tl, FALSE)
  BY <1>1, LogFacts, DispatchReadyLedger
<1>2. CASE turnLog' = tl /\ turn' = None /\ UNCHANGED inputs
  BY <1>2 DEF Dispatches, Idles
<1>. QED
  BY <1>1, <1>2 DEF ThenIdle

-----------------------------------------------------------------------------
(* The part of a ledger step that is about inputs and turns. *)

InputsMove ==
    /\ \A i \in Inputs : \/ inputs'[i] = inputs[i]
                         \/ <<inputs[i].st, inputs'[i].st>> \in Ledger!InputEdges
    /\ \A t \in Turns : \/ turnLog'[t] = turnLog[t]
                        \/ <<turnLog[t], turnLog'[t]>> \in Ledger!TurnEdges
    /\ Ledger!TurnsOpenWithTheirInput
    /\ Ledger!FirstComeFirstServed
    /\ Ledger!SteersJoinAtBoundary

LogsMove ==
    /\ \A r \in Requests : \/ requestLog'[r] = requestLog[r]
         \/ <<requestLog[r].st, requestLog'[r].st>> \in Ledger!RequestEdges
    /\ \A c \in Calls : \/ callLog'[c] = callLog[c]
                        \/ <<callLog[c].st, callLog'[c].st>> \in Ledger!CallEdges
    /\ \A a \in Asks : \/ askLog'[a] = askLog[a]
                       \/ <<askLog[a].st, askLog'[a].st>> \in Ledger!AskEdges

LEMMA MovesTogether ==
    ASSUME InputsMove, LogsMove, Ledger!Progress \/ Ledger!AfterRestart
    PROVE  Ledger!Next
  BY DEF InputsMove, LogsMove, Ledger!Next, Ledger!EdgesLegal, Ledger!Inputs, Inputs

\* A new input was written to the queue, or none.
Enqueued(ins) ==
    \/ ins = inputs
    \/ \E n \in Inputs, k \in Kinds :
         /\ inputs[n].st = "absent"
         /\ ins = [inputs EXCEPT ![n] =
                [kind |-> k, st |-> "queued", turn |-> None, aim |-> turn]]

\* The turn was closed, if there was one.
LogsSettled(tl) ==
    \/ tl = turnLog /\ turn = None
    \/ /\ turn # None
       /\ \E st \in {"completed", "failed"} : tl = [turnLog EXCEPT ![turn] = st]

LEMMA EnqueuedFacts ==
    ASSUME IInv, NEW ins, Enqueued(ins)
    PROVE  /\ ins \in [Inputs -> InputRecords]
           /\ \A i \in Inputs : ins[i] = inputs[i]
                 \/ (inputs[i].st = "absent" /\ ins[i].st = "queued")
<1>1. inputs \in [Inputs -> InputRecords] /\ turn \in Turns \cup {None}
  BY DEF IInv, TypeOK
<1>2. \A k \in Kinds : [kind |-> k, st |-> "queued", turn |-> None, aim |-> turn]
                            \in InputRecords
  BY <1>1 DEF InputRecords
<1>. QED
  BY <1>1, <1>2 DEF Enqueued

LEMMA SettledFacts ==
    ASSUME IInv, NEW tl, LogsSettled(tl) \/ tl = turnLog
    PROVE  /\ tl \in [Turns -> {"none", "open", "completed", "failed"}]
           /\ \A t \in Turns : tl[t] = turnLog[t]
                 \/ (t = turn /\ turnLog[t] = "open" /\ tl[t] \in {"completed", "failed"})
           /\ LogsSettled(tl) /\ turn # None => turn \in Turns /\ tl[turn] # "open"
<1>1. /\ turnLog \in [Turns -> {"none", "open", "completed", "failed"}]
      /\ turn \in Turns \cup {None} /\ (turn # None => turnLog[turn] = "open")
  BY DEF IInv, TypeOK, History
<1>. QED
  BY <1>1 DEF LogsSettled

\* An input leaves the queue of a reducer without a turn, or that closed it.
LEMMA DispatchesMove ==
    ASSUME IInv, NEW ins, NEW tl, Enqueued(ins), LogsSettled(tl) \/ tl = turnLog,
           Dispatches(ins, tl)
    PROVE  /\ InputsMove
           /\ Ledger!Closed \subseteq {turn} /\ (tl = turnLog => Ledger!Closed = {})
           /\ turn' = None \/ turn' \in Ledger!Opened
           /\ LogsSettled(tl) /\ turn # None => turn \in Ledger!Closed /\ turn' # turn
           /\ \A t \in Turns : turnLog[t] = "open" => turnLog'[t] = tl[t]
<1>1. /\ ins \in [Inputs -> InputRecords]
      /\ \A i \in Inputs : ins[i] = inputs[i]
             \/ (inputs[i].st = "absent" /\ ins[i].st = "queued")
      /\ inputs \in [Inputs -> InputRecords]
  BY EnqueuedFacts, LogFacts
<1>2. /\ tl \in [Turns -> {"none", "open", "completed", "failed"}]
      /\ \A t \in Turns : tl[t] = turnLog[t]
            \/ (t = turn /\ turnLog[t] = "open" /\ tl[t] \in {"completed", "failed"})
      /\ LogsSettled(tl) /\ turn # None => turn \in Turns /\ tl[turn] # "open"
      /\ None \notin Turns
      /\ turn # None => turn \in Turns /\ turnLog[turn] = "open"
  BY SettledFacts, ConstantsAssumption DEF IInv, TypeOK, History
<1>3. CASE Idles(ins, tl)
  <2>1. Ledger!Opened = {} /\ Ledger!Dispatched = {}
    BY <1>1, <1>2, <1>3 DEF Idles, Ledger!Opened, Ledger!Dispatched, Ledger!Inputs, Inputs
  <2>2. InputsMove
    BY <1>1, <1>2, <1>3, <2>1
    DEF Idles, InputsMove, Ledger!InputEdges, Ledger!TurnEdges,
        Ledger!TurnsOpenWithTheirInput, Ledger!FirstComeFirstServed,
        Ledger!SteersJoinAtBoundary
  <2>. QED
    BY <1>2, <1>3, <2>2 DEF Idles, Ledger!Closed
<1>4. ASSUME NEW i \in Inputs, NextInLine(ins, i), NEW t \in Turns,
             OpensTurn(ins, tl, i, t)
      PROVE  /\ InputsMove
             /\ Ledger!Closed \subseteq {turn} /\ (tl = turnLog => Ledger!Closed = {})
             /\ turn' = None \/ turn' \in Ledger!Opened
             /\ LogsSettled(tl) /\ turn # None => turn \in Ledger!Closed /\ turn' # turn
             /\ \A u \in Turns : turnLog[u] = "open" => turnLog'[u] = tl[u]
  <2> DEFINE row == [ins[i] EXCEPT !.st = "dispatched", !.turn = t]
  <2>1. /\ row.st = "dispatched" /\ row.turn = t /\ row.kind = ins[i].kind
        /\ ins[i].st = "queued" /\ row.kind \in {"next_turn", "goal"}
    BY <1>1, <1>4 DEF InputRecords, OpensTurn, NextInLine
  <2>2. /\ inputs' = [ins EXCEPT ![i] = row] /\ tl[t] = "none"
        /\ turnLog' = [tl EXCEPT ![t] = "open"] /\ turn' = t
    BY <1>4 DEF OpensTurn
  <2> HIDE DEF row
  <2>3. /\ inputs'[i] = row /\ \A j \in Inputs : j # i => inputs'[j] = ins[j]
        /\ turnLog'[t] = "open" /\ \A u \in Turns : u # t => turnLog'[u] = tl[u]
    BY <1>1, <1>2, <2>2
  <2>4. turnLog[t] = "none"
    BY <1>2, <2>2
  <2>5. Ledger!Opened = {t}
    BY <1>2, <2>3, <2>4 DEF Ledger!Opened
  <2>6. Ledger!Dispatched = {i}
    BY <1>1, <2>1, <2>3 DEF Ledger!Dispatched, Ledger!Inputs, Inputs
  <2>7. \A j \in Inputs : \/ inputs'[j] = inputs[j]
                          \/ <<inputs[j].st, inputs'[j].st>> \in Ledger!InputEdges
    BY <1>1, <2>1, <2>3 DEF Ledger!InputEdges
  <2>8. \A u \in Turns : \/ turnLog'[u] = turnLog[u]
                         \/ <<turnLog[u], turnLog'[u]>> \in Ledger!TurnEdges
    BY <1>2, <2>3, <2>4 DEF Ledger!TurnEdges
  <2>9. Ledger!TurnsOpenWithTheirInput
    BY <2>1, <2>2, <2>3, <2>5, <2>6 DEF Ledger!TurnsOpenWithTheirInput
  <2>10. Ledger!FirstComeFirstServed
    <3>1. ASSUME NEW j \in Inputs, j < i, inputs[j].st = "queued",
                 inputs[j].kind # "goal", inputs[j].kind # "steer"
          PROVE  FALSE
      BY <1>1, <1>4, <3>1 DEF NextInLine, Inputs
    <3>. QED
      BY <2>1, <2>3, <2>6, <3>1 DEF Ledger!FirstComeFirstServed, Ledger!Inputs, Inputs
  <2>11. Ledger!SteersJoinAtBoundary
    BY <2>1, <2>3, <2>6 DEF Ledger!SteersJoinAtBoundary
  <2>12. InputsMove
    BY <2>7, <2>8, <2>9, <2>10, <2>11 DEF InputsMove
  <2>. QED
    BY <1>2, <2>2, <2>3, <2>4, <2>5, <2>12 DEF Ledger!Closed
<1>5. ASSUME NEW i \in Inputs, NextInLine(ins, i), RunsLocally(ins, tl, i)
      PROVE  /\ InputsMove
             /\ Ledger!Closed \subseteq {turn} /\ (tl = turnLog => Ledger!Closed = {})
             /\ turn' = None \/ turn' \in Ledger!Opened
             /\ LogsSettled(tl) /\ turn # None => turn \in Ledger!Closed /\ turn' # turn
             /\ \A u \in Turns : turnLog[u] = "open" => turnLog'[u] = tl[u]
  <2> DEFINE row == [ins[i] EXCEPT !.st = "dispatched"]
  <2>1. /\ row.st = "dispatched" /\ row.kind = "local" /\ ins[i].st = "queued"
    BY <1>1, <1>5 DEF InputRecords, RunsLocally, NextInLine
  <2>2. inputs' = [ins EXCEPT ![i] = row] /\ turnLog' = tl /\ turn' = None
    BY <1>5 DEF RunsLocally
  <2> HIDE DEF row
  <2>3. inputs'[i] = row /\ \A j \in Inputs : j # i => inputs'[j] = ins[j]
    BY <1>1, <2>2
  <2>5. Ledger!Opened = {}
    BY <1>2, <2>2 DEF Ledger!Opened
  <2>6. Ledger!Dispatched = {i}
    BY <1>1, <2>1, <2>3 DEF Ledger!Dispatched, Ledger!Inputs, Inputs
  <2>7. \A j \in Inputs : \/ inputs'[j] = inputs[j]
                          \/ <<inputs[j].st, inputs'[j].st>> \in Ledger!InputEdges
    BY <1>1, <2>1, <2>3 DEF Ledger!InputEdges
  <2>8. \A u \in Turns : \/ turnLog'[u] = turnLog[u]
                         \/ <<turnLog[u], turnLog'[u]>> \in Ledger!TurnEdges
    BY <1>2, <2>2 DEF Ledger!TurnEdges
  <2>9. Ledger!TurnsOpenWithTheirInput
    BY <2>1, <2>3, <2>5, <2>6 DEF Ledger!TurnsOpenWithTheirInput
  <2>10. Ledger!FirstComeFirstServed
    <3>1. ASSUME NEW j \in Inputs, j < i, inputs[j].st = "queued",
                 inputs[j].kind # "goal", inputs[j].kind # "steer"
          PROVE  FALSE
      BY <1>1, <1>5, <3>1 DEF NextInLine, Inputs
    <3>. QED
      BY <2>1, <2>3, <2>6, <3>1 DEF Ledger!FirstComeFirstServed, Ledger!Inputs, Inputs
  <2>11. Ledger!SteersJoinAtBoundary
    BY <2>1, <2>3, <2>6 DEF Ledger!SteersJoinAtBoundary
  <2>12. InputsMove
    BY <2>7, <2>8, <2>9, <2>10, <2>11 DEF InputsMove
  <2>. QED
    BY <1>2, <2>2, <2>12 DEF Ledger!Closed
<1>. QED
  BY <1>3, <1>4, <1>5 DEF Dispatches

\* No row changes, and no turn.
LEMMA InputsStay ==
    ASSUME UNCHANGED <<inputs, turnLog, turn>>
    PROVE  InputsMove /\ Ledger!Closed = {} /\ Ledger!TurnIsKept /\ Ledger!TurnsCloseClean
<1>1. Ledger!Opened = {} /\ Ledger!Dispatched = {} /\ Ledger!Closed = {}
  BY DEF Ledger!Opened, Ledger!Dispatched, Ledger!Closed
<1>. QED
  BY <1>1
  DEF InputsMove, Ledger!TurnsOpenWithTheirInput, Ledger!FirstComeFirstServed,
      Ledger!SteersJoinAtBoundary, Ledger!TurnIsKept, Ledger!TurnsCloseClean

\* A steer joins the turn at a boundary, or none does.
LEMMA SteerMoves ==
    ASSUME IInv, turn # None, UNCHANGED <<turnLog, turn>>,
           DispatchSteer \/ UNCHANGED inputs,
           ~Ledger!Unanswered(turn), ~Ledger!Unsettled(turn)
    PROVE  InputsMove /\ Ledger!Closed = {} /\ Ledger!TurnIsKept /\ Ledger!TurnsCloseClean
<1>1. CASE UNCHANGED inputs
  BY <1>1, InputsStay
<1>2. ASSUME NEW i \in Steers, First(i, Steers),
             inputs' = [inputs EXCEPT ![i] = [@ EXCEPT !.st = "dispatched", !.turn = turn]]
      PROVE  InputsMove
  <2> DEFINE row == [inputs[i] EXCEPT !.st = "dispatched", !.turn = turn]
  <2>1. /\ inputs \in [Inputs -> InputRecords] /\ i \in Inputs
        /\ queue = {j \in Inputs : inputs[j].st = "queued"}
        /\ turn \in Turns /\ turnLog[turn] = "open"
    BY <1>2, LogFacts DEF Steers, TypeOK, IInv, History
  <2>2. /\ row.st = "dispatched" /\ row.turn = turn /\ row.kind = "steer"
        /\ inputs[i].st = "queued" /\ inputs[i].kind = "steer"
    BY <1>2, <2>1 DEF InputRecords, Steers
  <2>3. inputs' = [inputs EXCEPT ![i] = row]
    BY <1>2
  <2> HIDE DEF row
  <2>4. inputs'[i] = row /\ \A j \in Inputs : j # i => inputs'[j] = inputs[j]
    BY <2>1, <2>3
  <2>5. Ledger!Dispatched = {i}
    BY <2>1, <2>2, <2>4 DEF Ledger!Dispatched, Ledger!Inputs, Inputs
  <2>6. Ledger!Opened = {}
    BY DEF Ledger!Opened
  <2>7. Ledger!FirstComeFirstServed
    <3>1. ASSUME NEW j \in Inputs, j < i, inputs[j].st = "queued", inputs[j].kind = "steer"
          PROVE  FALSE
      BY <1>2, <2>1, <3>1 DEF First, Steers, Inputs
    <3>. QED
      BY <2>2, <2>4, <2>5, <3>1 DEF Ledger!FirstComeFirstServed, Ledger!Inputs, Inputs
  <2>8. Ledger!SteersJoinAtBoundary
    BY <2>1, <2>2, <2>4, <2>5 DEF Ledger!SteersJoinAtBoundary
  <2>9. Ledger!TurnsOpenWithTheirInput
    BY <2>2, <2>4, <2>5, <2>6 DEF Ledger!TurnsOpenWithTheirInput
  <2>10. \A j \in Inputs : \/ inputs'[j] = inputs[j]
                           \/ <<inputs[j].st, inputs'[j].st>> \in Ledger!InputEdges
    BY <2>2, <2>4 DEF Ledger!InputEdges
  <2>. QED
    BY <2>7, <2>8, <2>9, <2>10 DEF InputsMove
<1>3. Ledger!Closed = {} /\ Ledger!TurnIsKept /\ Ledger!TurnsCloseClean
  BY DEF Ledger!Closed, Ledger!TurnIsKept, Ledger!TurnsCloseClean
<1>. QED
  BY <1>1, <1>2, <1>3 DEF DispatchSteer

\* Rows that only enter the queue, or are taken back from it.
QueueEdge(i) ==
    \/ inputs'[i] = inputs[i]
    \/ inputs[i].st = "absent" /\ inputs'[i].st = "queued"
    \/ inputs[i].st = "queued" /\ inputs'[i].st = "cancelled"

LEMMA QueueMoves ==
    ASSUME UNCHANGED <<turnLog, turn>>, \A i \in Inputs : QueueEdge(i)
    PROVE  InputsMove /\ Ledger!Closed = {} /\ Ledger!TurnIsKept /\ Ledger!TurnsCloseClean
<1>1. Ledger!Opened = {} /\ Ledger!Closed = {}
  BY DEF Ledger!Opened, Ledger!Closed
<1>2. Ledger!Dispatched = {}
  BY DEF QueueEdge, Ledger!Dispatched, Ledger!Inputs, Inputs
<1>3. \A i \in Inputs : \/ inputs'[i] = inputs[i]
                        \/ <<inputs[i].st, inputs'[i].st>> \in Ledger!InputEdges
  BY DEF QueueEdge, Ledger!InputEdges
<1>. QED
  BY <1>1, <1>2, <1>3
  DEF InputsMove, Ledger!TurnsOpenWithTheirInput, Ledger!FirstComeFirstServed,
      Ledger!SteersJoinAtBoundary, Ledger!TurnIsKept, Ledger!TurnsCloseClean

-----------------------------------------------------------------------------
(* The part of a ledger step that is about requests, calls and questions. *)

LEMMA LogsStay ==
    ASSUME UNCHANGED <<requestLog, callLog, askLog>>
    PROVE  LogsMove /\ Ledger!OnlyTheLiveTurnMoves
  BY DEF LogsMove, Ledger!OnlyTheLiveTurnMoves

\* While a request is open every call of its turn has its result.
LEMMA OpenRequest ==
    ASSUME IInv, request # None
    PROVE  /\ request \in Requests /\ turn # None /\ turn \in Turns
           /\ requestLog[request] =
                [st |-> IF cancelling THEN "cancel_requested" ELSE "started", turn |-> turn]
           /\ \A c \in Calls : callLog[c].turn = turn => callLog[c].st = "finished"
           /\ \A r \in Requests : requestLog[r].turn = turn /\ Live(r) => r = request
           /\ requestLog \in [Requests -> [st : RequestStates, turn : Turns \cup {None}]]
           /\ turnLog[turn] = "open"
  BY DEF IInv, TypeOK, Phase, NoTools, NoCallForgotten, Owed, CancelIntentIsDurable, History

\* The event that is written for an open request.
LEMMA RequestMoves ==
    ASSUME IInv, request # None, NEW st,
           st \in {"completed", "interrupted", "failed"}
             \/ (~cancelling /\ st \in {"cancel_requested", "committed"}),
           requestLog' = LogRequest(request, st)
    PROVE  /\ \A r \in Requests : \/ requestLog'[r] = requestLog[r]
                \/ <<requestLog[r].st, requestLog'[r].st>> \in Ledger!RequestEdges
           /\ \A r \in Requests : requestLog'[r] # requestLog[r] =>
                /\ turn # None /\ requestLog'[r].turn = turn
                /\ requestLog'[r].st # "started"
           /\ requestLog'[request] = [st |-> st, turn |-> turn]
           /\ requestLog[request].st # "committed"
           /\ st # "cancel_requested" => ~Ledger!Unanswered(turn)
<1>1. /\ requestLog'[request] = [st |-> st, turn |-> turn]
      /\ \A r \in Requests : r # request => requestLog'[r] = requestLog[r]
  BY OpenRequest DEF LogRequest
<1>2. <<requestLog[request].st, st>> \in Ledger!RequestEdges
  BY OpenRequest DEF Ledger!RequestEdges
<1>3. st # "cancel_requested" => ~Ledger!Unanswered(turn)
  BY <1>1, OpenRequest DEF Ledger!Unanswered, Live
<1>. QED
  BY <1>1, <1>2, <1>3, OpenRequest

\* The same, with no other entry of the logs.
LEMMA RequestOnly ==
    ASSUME IInv, request # None, NEW st,
           st \in {"completed", "interrupted", "failed"}
             \/ (~cancelling /\ st \in {"cancel_requested", "committed"}),
           requestLog' = LogRequest(request, st), UNCHANGED <<callLog, askLog>>
    PROVE  /\ LogsMove /\ Ledger!OnlyTheLiveTurnMoves /\ ~Ledger!Unsettled(turn)
           /\ st # "cancel_requested" => ~Ledger!Unanswered(turn)
<1>1. ~Ledger!Unsettled(turn)
  BY OpenRequest DEF Ledger!Unsettled
<1>. QED
  BY <1>1, RequestMoves DEF LogsMove, Ledger!OnlyTheLiveTurnMoves

\* What is known of the calls while there is no open request.
LEMMA OpenCalls ==
    ASSUME IInv, Owed # {}
    PROVE  /\ request = None /\ turn # None /\ turn \in Turns
           /\ ~\E r \in Requests : requestLog[r].turn = turn /\ Live(r)
           /\ Owed = {c \in Calls : callLog[c].turn = turn /\ callLog[c].st # "finished"}
           /\ callLog \in [Calls -> [st : CallStates, turn : Turns \cup {None}]]
           /\ \A c \in pending : callLog[c].st = "requested"
           /\ approved # None => callLog[approved].st = "approved"
           /\ running # None => callLog[running].st =
                                 IF toolCancelling THEN "cancel_requested" ELSE "started"
<1>1. request = None /\ turn # None
  BY DEF IInv, Phase, NoTools, Owed
<1>2. \A r \in Requests : r # None
  BY ConstantsAssumption
<1>. QED
  BY <1>1, <1>2 DEF IInv, TypeOK, NoCallForgotten, CancelIntentIsDurable, History, Owed

\* The next event of a call that is still owed.
LEMMA CallMoves ==
    ASSUME IInv, NEW c \in Owed, NEW st, callLog' = LogCall(c, st),
           <<callLog[c].st, st>> \in Ledger!CallEdges, st # "requested",
           UNCHANGED <<requestLog, askLog>>
    PROVE  /\ LogsMove /\ Ledger!OnlyTheLiveTurnMoves
           /\ turn # None /\ ~Ledger!Unanswered(turn)
           /\ Owed = {c} /\ st = "finished" => ~Ledger!Unsettled(turn)
<1>1. /\ c \in Calls /\ callLog[c].turn = turn
      /\ callLog'[c].st = st /\ callLog'[c].turn = turn
      /\ \A d \in Calls : d # c => callLog'[d] = callLog[d]
  BY OpenCalls DEF LogCall
<1>2. ~Ledger!Unanswered(turn)
  BY OpenCalls DEF Ledger!Unanswered, Live
<1>3. Owed = {c} /\ st = "finished" => ~Ledger!Unsettled(turn)
  BY <1>1, OpenCalls DEF Ledger!Unsettled
<1>. QED
  BY <1>1, <1>2, <1>3, OpenCalls DEF LogsMove, Ledger!OnlyTheLiveTurnMoves

-----------------------------------------------------------------------------
(* The actions. *)

\* The turn is closed, and perhaps the next one opened.
LEMMA TurnMoves ==
    ASSUME IInv, turn # None, NEW st \in {"completed", "failed"},
           ThenIdle([turnLog EXCEPT ![turn] = st]),
           ~Ledger!Unanswered(turn), st = "completed" => ~Ledger!Unsettled(turn)
    PROVE  InputsMove /\ Ledger!TurnIsKept /\ Ledger!TurnsCloseClean
<1> DEFINE tl == [turnLog EXCEPT ![turn] = st]
<1>1. LogsSettled(tl) /\ Enqueued(inputs) /\ Dispatches(inputs, tl)
  BY ThenIdleLedger DEF LogsSettled, Enqueued
<1>2. /\ turnLog[turn] = "open" /\ turn \in Turns
      /\ turnLog \in [Turns -> {"none", "open", "completed", "failed"}]
  BY DEF IInv, TypeOK, History
<1>3. tl[turn] = st
  BY <1>2
<1> HIDE DEF tl
<1>4. /\ InputsMove /\ Ledger!Closed \subseteq {turn}
      /\ turn \in Ledger!Closed /\ turn' # turn
      /\ \A t \in Turns : turnLog[t] = "open" => turnLog'[t] = tl[t]
  BY <1>1, DispatchesMove
<1>5. turnLog'[turn] = st
  BY <1>2, <1>3, <1>4
<1>. QED
  BY <1>4, <1>5 DEF Ledger!TurnIsKept, Ledger!TurnsCloseClean

\* Without a turn there is none to close.
LEMMA NoTurnEnds ==
    ASSUME IInv, turn = None, NEW ins, Enqueued(ins), Dispatches(ins, turnLog)
    PROVE  InputsMove /\ Ledger!TurnIsKept /\ Ledger!TurnsCloseClean
<1>1. InputsMove /\ Ledger!Closed = {}
  BY DispatchesMove DEF LogsSettled
<1>. QED
  BY <1>1 DEF Ledger!TurnIsKept, Ledger!TurnsCloseClean

LEMMA InputLedger == ASSUME IInv, InputNext PROVE Ledger!Next
<1>0. UNCHANGED <<requestLog, callLog, askLog>>
  BY DEF InputNext, Submit, RetrieveLatest, CancelInternalInputs, CancelQueuedItems,
         OwnerDispatch, FinishLocalAction
<1>1. InputsMove /\ Ledger!TurnIsKept /\ Ledger!TurnsCloseClean
  <2>1. ASSUME NEW k \in Kinds, Submit(k)
        PROVE  InputsMove /\ Ledger!TurnIsKept /\ Ledger!TurnsCloseClean
    <3>1. PICK i \in Inputs :
            /\ First(i, {j \in Inputs : inputs[j].st = "absent"})
            /\ LET ins == [inputs EXCEPT ![i] =
                    [kind |-> k, st |-> "queued", turn |-> None, aim |-> turn]]
               IN IF turn = None /\ local = None /\ state = "IDLE"
                  THEN DispatchReady(ins, queue \cup {i}, turnLog, FALSE)
                  ELSE /\ inputs' = ins
                       /\ queue' = queue \cup {i}
                       /\ UNCHANGED <<turnLog, turn, local, state>>
      BY <2>1 DEF Submit
    <3> DEFINE ins == [inputs EXCEPT ![i] =
                  [kind |-> k, st |-> "queued", turn |-> None, aim |-> turn]]
    <3>2. Enqueued(ins)
      BY <3>1 DEF Enqueued, First
    <3>3. \/ turn = None /\ DispatchReady(ins, queue \cup {i}, turnLog, FALSE)
          \/ inputs' = ins /\ UNCHANGED <<turnLog, turn>>
      BY <3>1
    <3>4. queue \cup {i} = {j \in Inputs : ins[j].st = "queued"}
      BY <3>1, LogFacts DEF First
    <3> HIDE DEF ins
    <3>5. CASE turn = None /\ DispatchReady(ins, queue \cup {i}, turnLog, FALSE)
      <4>1. Dispatches(ins, turnLog)
        BY <3>4, <3>5, DispatchReadyLedger
      <4>. QED
        BY <3>2, <3>5, <4>1, NoTurnEnds
    <3>6. CASE inputs' = ins /\ UNCHANGED <<turnLog, turn>>
      <4>1. \A j \in Inputs : QueueEdge(j)
        BY <3>2, <3>6, EnqueuedFacts DEF QueueEdge
      <4>. QED
        BY <3>6, <4>1, QueueMoves
    <3>. QED
      BY <3>3, <3>5, <3>6
  <2>2. ASSUME NEW S \in SUBSET queue, CancelQueuedItems(S)
        PROVE  InputsMove /\ Ledger!TurnIsKept /\ Ledger!TurnsCloseClean
    <3>1. \A i \in Inputs : /\ inputs'[i] = IF i \in S
                               THEN [inputs[i] EXCEPT !.st = "cancelled"] ELSE inputs[i]
                            /\ inputs[i] \in InputRecords
                            /\ i \in S => inputs[i].st = "queued"
      BY <2>2, LogFacts DEF CancelQueuedItems
    <3>2. \A i \in Inputs : [inputs[i] EXCEPT !.st = "cancelled"].st = "cancelled"
      BY <3>1 DEF InputRecords
    <3>3. UNCHANGED <<turnLog, turn>>
      BY <2>2 DEF CancelQueuedItems
    <3>4. \A i \in Inputs : QueueEdge(i)
      BY <3>1, <3>2 DEF QueueEdge
    <3>. QED
      BY <3>3, <3>4, QueueMoves
  <2>3. CASE \E gate \in BOOLEAN : OwnerDispatch(gate)
    BY <2>3, LogFacts, DispatchReadyLedger, NoTurnEnds DEF OwnerDispatch, Enqueued
  <2>4. CASE FinishLocalAction
    <3>1. turn = None
      BY <2>4 DEF FinishLocalAction, IInv, Phase
    <3>. QED
      BY <2>4, <3>1, ThenIdleLedger, NoTurnEnds DEF FinishLocalAction, Enqueued
  <2>5. CASE RetrieveLatest
    BY <2>5, <2>2 DEF RetrieveLatest, Latest
  <2>6. CASE CancelInternalInputs
    <3>1. PICK S \in SUBSET {i \in queue : inputs[i].kind = "goal"} : CancelQueuedItems(S)
      BY <2>6 DEF CancelInternalInputs
    <3>. QED
      BY <2>2, <3>1
  <2>. QED
    BY <2>1, <2>3, <2>4, <2>5, <2>6 DEF InputNext
<1>. QED
  BY <1>0, <1>1, LogsStay, MovesTogether DEF Ledger!Progress

LEMMA RequestLedger == ASSUME IInv, RequestNext PROVE Ledger!Next
<1>1. CASE BeginRequest
  <2>1. PICK r \in Requests :
          requestLog[r].st = "none" /\ requestLog' = LogRequest(r, "started")
    BY <1>1 DEF BeginRequest
  <2>2. /\ turn # None /\ turn \in Turns /\ turnLog[turn] = "open"
        /\ \A c \in Calls : callLog[c].turn = turn => callLog[c].st = "finished"
        /\ ~\E q \in Requests : requestLog[q].turn = turn /\ Live(q)
    BY <1>1, ConstantsAssumption
    DEF BeginRequest, IInv, TypeOK, Phase, NoTools, NoCallForgotten, Owed, History
  <2>3. /\ requestLog'[r] = [st |-> "started", turn |-> turn]
        /\ \A q \in Requests : q # r => requestLog'[q] = requestLog[q]
    BY <2>1, LogFacts DEF LogRequest, LogOK
  <2>4. UNCHANGED <<inputs, turnLog, callLog, askLog, turn>>
    BY <1>1 DEF BeginRequest
  <2>5. LogsMove
    BY <2>1, <2>3, <2>4 DEF LogsMove, Ledger!RequestEdges
  <2>6. Ledger!OnlyTheLiveTurnMoves
    <3>1. ~Ledger!Unsettled(turn)
      BY <2>2, <2>4 DEF Ledger!Unsettled
    <3>2. \A q \in Requests \ {r} : requestLog'[q].turn = turn =>
                    requestLog'[q].st \notin {"started", "cancel_requested"}
      BY <2>2, <2>3 DEF Live
    <3>. QED
      BY <2>2, <2>3, <2>4, <3>1, <3>2 DEF Ledger!OnlyTheLiveTurnMoves
  <2>. QED
    BY <2>4, <2>5, <2>6, InputsStay, MovesTogether DEF Ledger!Progress
<1>2. CASE RequestCancel
  BY <1>2, RequestOnly, InputsStay, MovesTogether DEF RequestCancel, Ledger!Progress
<1>3. CASE AcknowledgeInterrupt
  <2>1. /\ request # None /\ requestLog' = LogRequest(request, "interrupted")
        /\ UNCHANGED <<callLog, askLog>>
    BY <1>3 DEF AcknowledgeInterrupt, CloseRequest
  <2>2. /\ LogsMove /\ Ledger!OnlyTheLiveTurnMoves /\ ~Ledger!Unsettled(turn)
        /\ ~Ledger!Unanswered(turn) /\ turn # None
    BY <2>1, RequestOnly, OpenRequest
  <2>3. \/ DispatchSteer /\ UNCHANGED <<turnLog, turn>>
        \/ ThenIdle([turnLog EXCEPT ![turn] = "failed"])
    BY <1>3 DEF AcknowledgeInterrupt
  <2>. QED
    BY <2>2, <2>3, SteerMoves, TurnMoves, MovesTogether DEF Ledger!Progress
<1>4. ASSUME NEW C \in SUBSET Calls, CompleteResponse(C) PROVE Ledger!Next
  <2>1. /\ request # None /\ requestLog' = LogRequest(request, "committed") /\ ~cancelling
        /\ UNCHANGED askLog /\ \A c \in C : callLog[c].st = "none"
        /\ \A c \in Calls : callLog'[c] = IF c \in C
             THEN [st |-> "requested", turn |-> turn] ELSE callLog[c]
    BY <1>4 DEF CompleteResponse, CloseRequest
  <2>2. /\ \A r \in Requests : \/ requestLog'[r] = requestLog[r]
                \/ <<requestLog[r].st, requestLog'[r].st>> \in Ledger!RequestEdges
        /\ \A r \in Requests : requestLog'[r] # requestLog[r] =>
                /\ requestLog'[r].turn = turn /\ requestLog'[r].st # "started"
        /\ requestLog'[request] = [st |-> "committed", turn |-> turn]
        /\ requestLog[request].st # "committed" /\ ~Ledger!Unanswered(turn)
    BY <2>1, RequestMoves
  <2>3. request \in Requests /\ turn # None /\ turn \in Turns
        /\ \A c \in Calls : callLog[c].turn = turn => callLog[c].st = "finished"
    BY <2>1, OpenRequest
  <2>4. LogsMove
    BY <2>1, <2>2 DEF LogsMove, Ledger!CallEdges
  <2>5. Ledger!OnlyTheLiveTurnMoves
    BY <2>1, <2>2, <2>3 DEF Ledger!OnlyTheLiveTurnMoves
  <2>6. CASE C # {}
    BY <1>4, <2>4, <2>5, <2>6, InputsStay, MovesTogether
    DEF CompleteResponse, Ledger!Progress
  <2>7. CASE C = {}
    <3>1. ~Ledger!Unsettled(turn)
      BY <2>1, <2>3, <2>7 DEF Ledger!Unsettled
    <3>2. \/ DispatchSteer /\ UNCHANGED <<turnLog, turn>>
          \/ ThenIdle([turnLog EXCEPT ![turn] = "completed"])
      BY <1>4, <2>7 DEF CompleteResponse
    <3>. QED
      BY <2>2, <2>3, <2>4, <2>5, <3>1, <3>2, SteerMoves, TurnMoves, MovesTogether
      DEF Ledger!Progress
  <2>. QED
    BY <2>6, <2>7
<1>5. CASE FailRequest
  <2>1. /\ request # None /\ requestLog' = LogRequest(request, "failed")
        /\ UNCHANGED <<callLog, askLog>> /\ ThenIdle([turnLog EXCEPT ![turn] = "failed"])
    BY <1>5 DEF FailRequest, CloseRequest
  <2>. QED
    BY <2>1, RequestOnly, OpenRequest, TurnMoves, MovesTogether DEF Ledger!Progress
<1>6. ASSUME NEW st \in {"completed", "failed"}, EndRequestOnly(st) PROVE Ledger!Next
  BY <1>6, RequestOnly, InputsStay, MovesTogether
  DEF EndRequestOnly, CloseRequest, Ledger!Progress
<1>7. CASE FailTurn
  <2>1. turn # None /\ request = None /\ UNCHANGED <<requestLog, callLog, askLog>>
        /\ ThenIdle([turnLog EXCEPT ![turn] = "failed"])
    BY <1>7 DEF FailTurn
  <2>2. ~Ledger!Unanswered(turn)
    BY <2>1, ConstantsAssumption DEF Ledger!Unanswered, IInv, History, Live
  <2>. QED
    BY <2>1, <2>2, LogsStay, TurnMoves, MovesTogether DEF Ledger!Progress
<1>. QED
  BY <1>1, <1>2, <1>3, <1>4, <1>5, <1>6, <1>7
  DEF RequestNext, RetryRequest, FinishAuxRequest

\* The boundary is reached only when the last call of the batch is settled.
LEMMA BoundaryMoves ==
    ASSUME IInv, turn # None, AfterCall(TRUE) \/ AfterCall(FALSE), UNCHANGED <<turnLog, turn>>,
           ~Ledger!Unanswered(turn), pending' = {} => ~Ledger!Unsettled(turn)
    PROVE  InputsMove /\ Ledger!TurnIsKept /\ Ledger!TurnsCloseClean
<1>1. CASE UNCHANGED inputs
  BY <1>1, InputsStay
<1>2. CASE pending' = {} /\ DispatchSteer
  BY <1>2, SteerMoves
<1>. QED
  BY <1>1, <1>2 DEF AfterCall

LEMMA ToolLedger == ASSUME IInv, ToolNext PROVE Ledger!Next
<1>0. /\ state = "TOOL_WAITING_APPROVAL" => running = None
      /\ approved # None => running = None
      /\ None \notin Calls /\ pending \subseteq Calls
  BY ConstantsAssumption DEF IInv, Phase, TypeOK
<1>1. ASSUME NEW c \in Calls, ApproveTool(c) PROVE Ledger!Next
  <2>1. c \in pending /\ c \in Owed /\ callLog' = LogCall(c, "approved")
        /\ UNCHANGED <<inputs, turnLog, turn, requestLog, askLog>>
    BY <1>1 DEF ApproveTool, Owed
  <2>2. <<callLog[c].st, "approved">> \in Ledger!CallEdges
    BY <2>1, OpenCalls DEF Ledger!CallEdges
  <2>. QED
    BY <2>1, <2>2, CallMoves, InputsStay, MovesTogether DEF Ledger!Progress
<1>2. ASSUME NEW c \in Calls, NEW boundary \in BOOLEAN, DenyTool(c, boundary)
      PROVE  Ledger!Next
  <2>1. /\ c \in pending /\ c \in Owed /\ callLog' = LogCall(c, "finished")
        /\ UNCHANGED <<turnLog, turn, requestLog, askLog>>
        /\ approved = None /\ running = None /\ pending' = pending \ {c}
        /\ UNCHANGED inputs \/ AfterCall(TRUE) \/ AfterCall(FALSE)
    BY <1>0, <1>2 DEF DenyTool, Owed
  <2>2. <<callLog[c].st, "finished">> \in Ledger!CallEdges
    BY <2>1, OpenCalls DEF Ledger!CallEdges
  <2>3. pending' = {} => Owed = {c}
    BY <2>1 DEF Owed
  <2>4. /\ LogsMove /\ Ledger!OnlyTheLiveTurnMoves
        /\ turn # None /\ ~Ledger!Unanswered(turn)
        /\ pending' = {} => ~Ledger!Unsettled(turn)
    BY <2>1, <2>2, <2>3, CallMoves
  <2>. QED
    BY <2>1, <2>4, BoundaryMoves, InputsStay, MovesTogether DEF Ledger!Progress
<1>3. CASE StartTool
  <2>1. approved \in Owed /\ callLog' = LogCall(approved, "started") /\ approved # None
        /\ UNCHANGED <<inputs, turnLog, turn, requestLog, askLog>>
    BY <1>3 DEF StartTool, Owed
  <2>2. <<callLog[approved].st, "started">> \in Ledger!CallEdges
    BY <2>1, OpenCalls DEF Ledger!CallEdges
  <2>. QED
    BY <2>1, <2>2, CallMoves, InputsStay, MovesTogether DEF Ledger!Progress
<1>4. CASE AbortApprovedTool
  <2>1. /\ approved \in Owed /\ callLog' = LogCall(approved, "finished")
        /\ UNCHANGED <<turnLog, turn, requestLog, askLog, pending>>
        /\ approved # None /\ running = None
        /\ UNCHANGED inputs \/ AfterCall(TRUE)
    BY <1>0, <1>4 DEF AbortApprovedTool, Owed
  <2>2. <<callLog[approved].st, "finished">> \in Ledger!CallEdges
    BY <2>1, OpenCalls DEF Ledger!CallEdges
  <2>3. pending' = {} => Owed = {approved}
    BY <2>1 DEF Owed
  <2>4. /\ LogsMove /\ Ledger!OnlyTheLiveTurnMoves
        /\ turn # None /\ ~Ledger!Unanswered(turn)
        /\ pending' = {} => ~Ledger!Unsettled(turn)
    BY <2>1, <2>2, <2>3, CallMoves
  <2>. QED
    BY <2>1, <2>4, BoundaryMoves, InputsStay, MovesTogether DEF Ledger!Progress
<1>5. CASE RegisterToolTask
  <2>1. UNCHANGED <<inputs, turnLog, turn, requestLog, callLog, askLog>>
    BY <1>5 DEF RegisterToolTask, journal
  <2>. QED
    BY <2>1, LogsStay, InputsStay, MovesTogether DEF Ledger!Progress
<1>6. CASE RequestToolCancel
  <2>1. running \in Owed /\ callLog' = LogCall(running, "cancel_requested")
        /\ running # None /\ ~toolCancelling
        /\ UNCHANGED <<inputs, turnLog, turn, requestLog, askLog>>
    BY <1>6 DEF RequestToolCancel, Owed
  <2>2. <<callLog[running].st, "cancel_requested">> \in Ledger!CallEdges
    BY <2>1, OpenCalls DEF Ledger!CallEdges
  <2>. QED
    BY <2>1, <2>2, CallMoves, InputsStay, MovesTogether DEF Ledger!Progress
<1>7. CASE BeginInteraction
  <2>1. PICK a \in Asks : /\ askLog[a].st = "none"
                         /\ askLog' = [askLog EXCEPT ![a] = [st |-> "open", call |-> running]]
    BY <1>7 DEF BeginInteraction
  <2>2. UNCHANGED <<inputs, turnLog, turn, requestLog, callLog>>
    BY <1>7 DEF BeginInteraction
  <2>3. askLog'[a].st = "open" /\ \A b \in Asks : b # a => askLog'[b] = askLog[b]
    BY <2>1, LogFacts DEF LogOK
  <2>4. LogsMove /\ Ledger!OnlyTheLiveTurnMoves
    BY <2>1, <2>2, <2>3 DEF LogsMove, Ledger!AskEdges, Ledger!OnlyTheLiveTurnMoves
  <2>. QED
    BY <2>2, <2>4, InputsStay, MovesTogether DEF Ledger!Progress
<1>8. ASSUME NEW st \in {"resolved", "aborted"}, EndInteraction(st) PROVE Ledger!Next
  <2>1. /\ ask # None /\ askLog' = [askLog EXCEPT ![ask].st = st]
        /\ UNCHANGED <<inputs, turnLog, turn, requestLog, callLog>>
    BY <1>8 DEF EndInteraction
  <2>2. ask \in Asks /\ askLog[ask].st = "open"
    BY <2>1 DEF IInv, TypeOK, QuestionMatchesTool
  <2>3. askLog'[ask].st = st /\ \A b \in Asks : b # ask => askLog'[b] = askLog[b]
    BY <2>1, <2>2, LogFacts DEF LogOK
  <2>4. LogsMove /\ Ledger!OnlyTheLiveTurnMoves
    BY <2>1, <2>2, <2>3 DEF LogsMove, Ledger!AskEdges, Ledger!OnlyTheLiveTurnMoves
  <2>. QED
    BY <2>1, <2>4, InputsStay, MovesTogether DEF Ledger!Progress
<1>9. ASSUME NEW boundary \in BOOLEAN, FinishTool(boundary) PROVE Ledger!Next
  <2>1. /\ running \in Owed /\ callLog' = LogCall(running, "finished")
        /\ UNCHANGED <<turnLog, turn, requestLog, askLog, pending>>
        /\ running # None /\ approved = None
        /\ AfterCall(TRUE) \/ AfterCall(FALSE)
    BY <1>0, <1>9 DEF FinishTool, Owed
  <2>2. <<callLog[running].st, "finished">> \in Ledger!CallEdges
    BY <2>1, OpenCalls DEF Ledger!CallEdges
  <2>3. pending' = {} => Owed = {running}
    BY <2>1 DEF Owed
  <2>4. /\ LogsMove /\ Ledger!OnlyTheLiveTurnMoves
        /\ turn # None /\ ~Ledger!Unanswered(turn)
        /\ pending' = {} => ~Ledger!Unsettled(turn)
    BY <2>1, <2>2, <2>3, CallMoves
  <2>. QED
    BY <2>1, <2>4, BoundaryMoves, MovesTogether DEF Ledger!Progress
<1>. QED
  BY <1>1, <1>2, <1>3, <1>4, <1>5, <1>6, <1>7, <1>8, <1>9
  DEF ToolNext, ResolveInteraction, AbortInteraction

LEMMA RestartLedger ==
    ASSUME IInv, NEW startup, Restart(startup) PROVE Ledger!Next
<1>1. Dispatches(inputs, turnLog)
  BY DispatchReadyLedger DEF Restart, Dispatches, Idles
<1>2. InputsMove /\ Ledger!Closed = {} /\ (turn' = None \/ turn' \in Ledger!Opened)
  BY <1>1, DispatchesMove DEF Enqueued
<1>3. UNCHANGED <<requestLog, callLog, askLog>>
  BY DEF Restart
<1>. QED
  BY <1>2, <1>3, LogsStay, MovesTogether DEF Ledger!AfterRestart

LEMMA ModalLedger == ASSUME IInv, ModalNext \/ UNCHANGED vars PROVE Ledger!Next
<1>1. UNCHANGED <<inputs, turnLog, turn, requestLog, callLog, askLog>>
  BY DEF ModalNext, OpenModal, CloseModal, BeginExit, OnlyState, vars, journal
<1>. QED
  BY <1>1, LogsStay, InputsStay, MovesTogether DEF Ledger!Progress

LEMMA InitLedger == Init => Ledger!Init
  BY DEF Init, Ledger!Init, Ledger!Inputs, Inputs

\* The journal the reducer writes always tells a legal story: every input,
\* turn, request, call and question takes only its own edges, turns open with
\* one message and close with nothing open, steers join at a boundary, and a
\* restart goes on from what is there.
THEOREM JournalIsLegal == Spec => ImplementsLedger
<1>1. IInv /\ [Next]_vars => [Ledger!Next]_(Ledger!vars)
  BY InputLedger, RequestLedger, ToolLedger, RestartLedger, ModalLedger DEF Next
<1>. QED
  BY <1>1, InitLedger, Inductive, PTL DEF Spec, ImplementsLedger, Ledger!Spec
=============================================================================
