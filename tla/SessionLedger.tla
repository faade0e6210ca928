---------------------------- MODULE SessionLedger ----------------------------
(***************************************************************************)
(* What the event journal of a session promises to whoever reads it back:  *)
(* the edges each input, turn, request, tool call and interaction may      *)
(* take, and which of them may happen together.  No reducer state appears; *)
(* `turn' is the turn the running process is working on.                   *)
(***************************************************************************)
EXTENDS Naturals

CONSTANTS MaxInputs, Turns, Requests, Calls, Asks, None
VARIABLES inputs, turnLog, requestLog, callLog, askLog, turn

vars == <<inputs, turnLog, requestLog, callLog, askLog, turn>>
Inputs == 1..MaxInputs

Init ==
    /\ \A i \in Inputs : inputs[i].st = "absent"
    /\ \A t \in Turns : turnLog[t] = "none"
    /\ \A r \in Requests : requestLog[r].st = "none"
    /\ \A c \in Calls : callLog[c].st = "none"
    /\ \A a \in Asks : askLog[a].st = "none"
    /\ turn = None

-----------------------------------------------------------------------------
(* The life of each entity.  Pairs are <<before, after>>. *)

InputEdges == {<<"absent", "queued">>, <<"absent", "dispatched">>,
               <<"queued", "dispatched">>, <<"queued", "cancelled">>}
TurnEdges == {<<"none", "open">>, <<"open", "completed">>,
              <<"open", "failed">>}
\* Once a cancel is recorded the answer of the request is never committed.
RequestEdges == {<<"none", "started">>} \cup
    ({"started"} \X {"cancel_requested", "committed", "completed",
                     "interrupted", "failed"}) \cup
    ({"cancel_requested"} \X {"completed", "interrupted", "failed"})
CallEdges == {<<"none", "requested">>, <<"requested", "approved">>,
              <<"requested", "finished">>, <<"approved", "started">>,
              <<"approved", "finished">>, <<"started", "cancel_requested">>,
              <<"started", "finished">>, <<"cancel_requested", "finished">>}
AskEdges == {<<"none", "open">>, <<"open", "resolved">>,
             <<"open", "aborted">>}

EdgesLegal ==
    /\ \A i \in Inputs : \/ inputs'[i] = inputs[i]
                         \/ <<inputs[i].st, inputs'[i].st>> \in InputEdges
    /\ \A t \in Turns : \/ turnLog'[t] = turnLog[t]
                        \/ <<turnLog[t], turnLog'[t]>> \in TurnEdges
    /\ \A r \in Requests : \/ requestLog'[r] = requestLog[r]
         \/ <<requestLog[r].st, requestLog'[r].st>> \in RequestEdges
    /\ \A c \in Calls : \/ callLog'[c] = callLog[c]
                        \/ <<callLog[c].st, callLog'[c].st>> \in CallEdges
    /\ \A a \in Asks : \/ askLog'[a] = askLog[a]
                       \/ <<askLog[a].st, askLog'[a].st>> \in AskEdges

-----------------------------------------------------------------------------

Opened == {t \in Turns : turnLog[t] = "none" /\ turnLog'[t] = "open"}
Closed == {t \in Turns : turnLog[t] = "open" /\ turnLog'[t] # "open"}
Dispatched == {i \in Inputs : inputs[i].st # "dispatched"
                                /\ inputs'[i].st = "dispatched"}

\* A turn opens with one user message, and every message opens one turn.
TurnsOpenWithTheirInput ==
    /\ \A t \in Opened :
         /\ turn' = t
         /\ \E i \in Dispatched : inputs'[i].kind \in {"next_turn", "goal"}
                                    /\ inputs'[i].turn = t
    /\ \A i \in Dispatched :
         inputs'[i].kind \in {"next_turn", "goal"} =>
            /\ inputs'[i].turn \in Opened
            /\ \A j \in Dispatched : j = i

\* User messages of one kind leave the queue in the order they entered it.
FirstComeFirstServed ==
    \A i \in Dispatched, j \in Inputs :
        ( /\ j < i
          /\ inputs[j].st = "queued"
          /\ inputs[j].kind # "goal"
          /\ (inputs'[i].kind = "steer") = (inputs[j].kind = "steer") )
        => inputs'[j].st # "queued"

Unanswered(t) == \E r \in Requests :
    requestLog'[r].turn = t /\ requestLog'[r].st \in {"started", "cancel_requested"}
Unsettled(t) == \E c \in Calls :
    callLog'[c].turn = t /\ callLog'[c].st # "finished"

\* A steer joins the live turn at a boundary: no request, no tool call open.
SteersJoinAtBoundary ==
    \A i \in Dispatched : inputs'[i].kind = "steer" =>
        /\ turn # None
        /\ inputs'[i].turn = turn
        /\ turnLog'[turn] = "open"
        /\ ~Unanswered(turn) /\ ~Unsettled(turn)

\* Requests and calls move only in the live turn.  A request starts when it
\* is the only one and all tool results are there; calls come with an answer.
OnlyTheLiveTurnMoves ==
    /\ \A r \in Requests : requestLog'[r] # requestLog[r] =>
         /\ turn # None /\ requestLog'[r].turn = turn
         /\ requestLog'[r].st = "started" =>
              /\ turnLog'[turn] = "open" /\ ~Unsettled(turn)
              /\ \A q \in Requests \ {r} : requestLog'[q].turn = turn =>
                    requestLog'[q].st \notin {"started", "cancel_requested"}
    /\ \A c \in Calls : callLog'[c] # callLog[c] =>
         /\ turn # None /\ callLog'[c].turn = turn
         /\ callLog'[c].st = "requested" =>
              \E r \in Requests : requestLog[r].st # "committed"
                /\ requestLog'[r] = [st |-> "committed", turn |-> turn]

\* A turn is closed once, by its own process, with no request left open; a
\* completed turn has every tool result.
TurnsCloseClean ==
    \A t \in Closed :
        /\ t = turn /\ turn' # t
        /\ ~Unanswered(t)
        /\ turnLog'[t] = "completed" => ~Unsettled(t)

\* The process keeps its turn until the journal says it is over.
TurnIsKept == turn # None => turn' = turn \/ turn \in Closed

Progress == TurnIsKept /\ TurnsCloseClean /\ OnlyTheLiveTurnMoves

\* After a restart the journal goes on where it stopped: the open turn, its
\* request and its calls stay as they are for ever.
AfterRestart ==
    /\ Closed = {}
    /\ turn' = None \/ turn' \in Opened
    /\ UNCHANGED <<requestLog, callLog, askLog>>

Next ==
    /\ EdgesLegal
    /\ TurnsOpenWithTheirInput
    /\ FirstComeFirstServed
    /\ SteersJoinAtBoundary
    /\ Progress \/ AfterRestart

Spec == Init /\ [][Next]_vars
=============================================================================
