------------------------- MODULE MCSessionController -------------------------
(***************************************************************************)
(* The controller, the task manager and the stores, each by itself: a      *)
(* behaviour takes the steps of one of them (what the first two do         *)
(* together is in ManagedTurn).                                            *)
(***************************************************************************)
EXTENDS SessionController, TaskManager, MCStores

MCInit ==
    /\ part \in {"controller", "tasks"} \cup StoreParts
    /\ Init /\ TaskInit /\ StoresInit

\* Ids are only compared for equality: the first of each kind is used first.
FirstOf(ids) == CHOOSE i \in ids : TRUE

ControllerBound ==
    /\ turnLog'[FirstOf(Turns)] = "none" =>
         \A t \in Turns : turnLog'[t] = "none"
    /\ requestLog'[FirstOf(Requests)].st = "none" =>
         \A r \in Requests : requestLog'[r].st = "none"
    /\ callLog'[FirstOf(Calls)].st = "none" =>
         \A c \in Calls : callLog'[c].st = "none"

\* The first of the tasks may change the workspace, and fail.
TaskBound ==
    \A t \in Tasks \ {1} :
        job'[t].changed = "none" /\ job'[t].status # "failed"

MCNext ==
    /\ UNCHANGED part
    /\ \/ part = "controller" /\ Next /\ ControllerBound
          /\ UNCHANGED taskVars /\ Rest("none")
       \/ part = "tasks" /\ TaskNext /\ TaskBound /\ UNCHANGED vars /\ Rest("none")
       \/ StoresNext /\ UNCHANGED <<vars, taskVars>>
=============================================================================
