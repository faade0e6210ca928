------------------------------- MODULE MCEnds -------------------------------
(***************************************************************************)
(* What must come to an end, over parts that share no state: a workflow    *)
(* with its children, one request to a provider, and the calls and         *)
(* background tasks of a session.                                          *)
(***************************************************************************)
EXTENDS MCWorkflow, ProviderStream, TaskManager

VARIABLE part

EndsInit ==
    /\ part \in {"workflow", "stream", "tasks"}
    /\ Init /\ StreamInit /\ TaskInit

\* No task says that it changed the workspace; the first of them is cancelled,
\* and the others as the session ends.
EndsBound ==
    /\ \A t \in Tasks : job'[t].changed = "none"
    /\ \A t \in Tasks \ {1} : job'[t].cancel => job[t].cancel \/ main' = "closing"

EndsNext ==
    /\ UNCHANGED part
    /\ \/ part = "workflow" /\ Next /\ UNCHANGED <<streamVars, taskVars>>
       \/ part = "stream" /\ StreamNext /\ UNCHANGED <<vars, taskVars>>
       \/ part = "tasks" /\ QuietNext /\ EndsBound /\ UNCHANGED <<vars, streamVars>>

\* The fairness of all three: a request that is not made asks for nothing, nor
\* does, by itself, a workflow or a call that was not started.
EndsFairness ==
    /\ Fairness
    /\ WF_streamVars(part = "stream" /\ ThreadStep)
    /\ WF_streamVars(part = "stream" /\ OwnerStep)
    /\ BusyFairness
    /\ SF_taskVars(part = "tasks" /\ IdleDrain)

EndsSpec ==
    EndsInit /\ [][EndsNext]_<<part, vars, streamVars, taskVars>> /\ EndsFairness
=============================================================================
