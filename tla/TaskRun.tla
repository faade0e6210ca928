------------------------------- MODULE TaskRun -------------------------------
(***************************************************************************)
(* core/tasks.py, TaskHandle: one tool on its worker thread, which either  *)
(* runs a process group (run_process) or asks the owner a question         *)
(* (request_interaction), while the owner thread answers, and cancels the  *)
(* task.  A shell may end before a process it started, which stays in its  *)
(* group; processes that leave the group are not the task's.               *)
(***************************************************************************)
EXTENDS Naturals

CONSTANTS
    MayTimeOut,     \* has the call a timeout?
    Unkillable      \* may a process survive SIGKILL for a while?

ASSUME RunAssumption == MayTimeOut \in BOOLEAN /\ Unkillable \in BOOLEAN

Signal == [none |-> 0, INT |-> 1, TERM |-> 2, KILL |-> 3]

VARIABLES
    worker,         \* where the worker thread stands
    canceller,      \* how far cancel() is in the owner thread
    timedOut,       \* timed_out
    stage,          \* _stop_stage: the signal sent last
    leader, child,  \* the processes of the group, see Process
    pidKnown,       \* bind_process has set process_pid
    returncode,     \* has it been recorded?
    runError,       \* record_error: the group could not be cleaned up
    question,       \* the one interaction: its state and result
    gate,           \* the owner: "no" gate, "open", or what resolve returned
    heard           \* what the worker's request returned

processVars == <<leader, child, pidKnown, returncode, runError>>
questionVars == <<question, gate, heard>>
runVars == <<worker, canceller, timedOut, stage, processVars, questionVars>>

\* heeds: the weakest signal that ends the process, 4 for one that is stuck.
Processes == [alive : BOOLEAN, reaped : BOOLEAN,
              heeds : 1..(IF Unkillable THEN 4 ELSE 3)]

Cancelling == canceller # "idle"                    \* is_cancelled
Ended == worker = "ended"                           \* is_done
Settled == question.state = "settled"               \* request.done

NoProcess == [alive |-> FALSE, reaped |-> TRUE, heeds |-> 1]

RunInit ==
    /\ worker \in {"spawning", "asking"} /\ canceller = "idle"
    /\ timedOut = FALSE /\ stage = "none"
    /\ leader = NoProcess /\ child = NoProcess
    /\ pidKnown = FALSE /\ returncode = FALSE /\ runError = FALSE
    /\ question = [state |-> "none", result |-> "none"]
    /\ gate = "no" /\ heard = "none"

-----------------------------------------------------------------------------
(* Signals *)

\* wincompat.group_exists: a process that ended counts until it is reaped.
GroupExists == pidKnown /\ (child.alive \/ leader.alive \/ ~leader.reaped)

Hit(process, signal) ==
    [process EXCEPT !.alive = @ /\ process.heeds > Signal[signal]]

\* os.killpg
KillGroup(signal) ==
    /\ leader' = Hit(leader, signal)
    /\ child' = Hit(child, signal)

\* _send_group: a group whose leader has ended is not signalled any more.
SendGroup(signal) ==
    IF pidKnown /\ leader.alive THEN KillGroup(signal)
    ELSE UNCHANGED <<leader, child>>

\* _start_stop: whoever comes first chooses the signal.
StartStop(signal) ==
    IF stage # "none" THEN UNCHANGED <<stage, leader, child>>
    ELSE stage' = signal /\ SendGroup(signal)

\* A process may end by itself at any time.
ProcessEnds ==
    /\ \/ leader.alive /\ leader' = [leader EXCEPT !.alive = FALSE]
          /\ UNCHANGED child
       \/ child.alive /\ child' = [child EXCEPT !.alive = FALSE]
          /\ UNCHANGED leader
    /\ UNCHANGED <<worker, canceller, timedOut, stage, pidKnown, returncode,
                   runError, questionVars>>

-----------------------------------------------------------------------------
(* The worker: run_process *)

\* Popen, between which and bind_process the owner may cancel.
Spawn ==
    /\ worker = "spawning" /\ worker' = "binding"
    /\ \E l, c \in Processes :
          /\ l.alive /\ ~l.reaped /\ leader' = l
          /\ c.reaped /\ child' = c
    /\ UNCHANGED <<canceller, timedOut, stage, pidKnown, returncode, runError,
                   questionVars>>

\* The first signal of a cancel that came too early is sent now.
BindProcess ==
    /\ worker = "binding" /\ worker' = "loop"
    /\ pidKnown' = TRUE
    /\ IF Cancelling
       THEN /\ stage' = IF stage = "none" THEN "INT" ELSE stage
            /\ IF leader.alive THEN KillGroup("INT")
               ELSE UNCHANGED <<leader, child>>
       ELSE UNCHANGED <<stage, leader, child>>
    /\ UNCHANGED <<canceller, timedOut, returncode, runError, questionVars>>

\* The pipes stay open as long as a process of the group lives.
PipesOpen == leader.alive \/ child.alive

\* poll() finds that the leader ended: what is left of its group goes.
LeaderExited ==
    /\ worker = "loop" /\ ~leader.alive
    /\ leader' = [leader EXCEPT !.reaped = TRUE] /\ returncode' = TRUE
    /\ worker' = IF child.alive THEN "cleaning" ELSE "last"
    /\ UNCHANGED <<canceller, timedOut, stage, child, pidKnown, runError,
                   questionVars>>

RequestTimeout ==
    /\ worker = "loop" /\ MayTimeOut /\ ~timedOut
    /\ timedOut' = TRUE /\ StartStop("TERM")
    /\ UNCHANGED <<worker, canceller, pidKnown, returncode, runError,
                   questionVars>>

\* A signal had its time.
AdvanceStop ==
    /\ worker = "loop" /\ stage \in {"INT", "TERM"}
    /\ LET next == IF stage = "INT" THEN "TERM" ELSE "KILL" IN
       stage' = next /\ SendGroup(next)
    /\ UNCHANGED <<worker, canceller, timedOut, pidKnown, returncode, runError,
                   questionVars>>

\* Reading, or preparing to read, raises: on to the cleanup.
SetupFails ==
    /\ worker = "loop" /\ worker' = "last"
    /\ UNCHANGED <<canceller, timedOut, stage, processVars, questionVars>>

\* Faulty variant: the cleanup asks for the leader first.
CleanupFaulty ==
    /\ worker \in {"cleaning", "last"}
    /\ IF ~leader.alive
       THEN /\ worker' = IF worker = "last" THEN "unbinding" ELSE "loop"
            /\ UNCHANGED <<leader, child>>
       ELSE /\ KillGroup("TERM")
            /\ worker' = IF worker = "last" THEN "lastTerm" ELSE "cleaningTerm"
    /\ UNCHANGED <<canceller, timedOut, stage, pidKnown, returncode, runError,
                   questionVars>>

\* _cleanup_process_group, inside the loop and once more at the end: TERM to
\* the group, whoever is left of it,
Cleanup ==
    /\ worker \in {"cleaning", "last"}
    /\ IF ~GroupExists
       THEN /\ worker' = IF worker = "last" THEN "unbinding" ELSE "loop"
            /\ UNCHANGED <<leader, child>>
       ELSE /\ KillGroup("TERM")
            /\ worker' = IF worker = "last" THEN "lastTerm" ELSE "cleaningTerm"
    /\ UNCHANGED <<canceller, timedOut, stage, pidKnown, returncode, runError,
                   questionVars>>

\* ... KILL after the grace period (it reaps the leader as it waits),
CleanupKill ==
    /\ worker \in {"cleaningTerm", "lastTerm"}
    /\ LET reaped == [leader EXCEPT !.reaped = ~leader.alive] IN
       IF child.alive \/ reaped.alive
       THEN leader' = Hit(reaped, "KILL") /\ child' = Hit(child, "KILL")
       ELSE leader' = reaped /\ UNCHANGED child
    /\ worker' = IF worker = "lastTerm" THEN "lastKill" ELSE "cleaningKill"
    /\ UNCHANGED <<canceller, timedOut, stage, pidKnown, returncode, runError,
                   questionVars>>

\* ... and an error when even that has not helped after a second.
CleanupOver ==
    /\ worker \in {"cleaningKill", "lastKill"}
    /\ leader' = [leader EXCEPT !.reaped = ~leader.alive]
    /\ runError' = (runError \/ leader.alive \/ child.alive)
    /\ worker' = IF worker = "lastKill" THEN "unbinding"
                 ELSE IF PipesOpen THEN "loop" ELSE "last"
    /\ UNCHANGED <<canceller, timedOut, stage, child, pidKnown, returncode,
                   questionVars>>

\* wait(timeout=1), the last of the output, unbind_process.
Unbind ==
    /\ worker = "unbinding" /\ worker' = "finishing"
    /\ leader' = [leader EXCEPT !.reaped = ~leader.alive]
    /\ returncode' = (returncode \/ ~leader.alive)
    /\ UNCHANGED <<canceller, timedOut, stage, child, pidKnown, runError,
                   questionVars>>

-----------------------------------------------------------------------------
(* The worker: request_interaction *)

SettleAs(result) == question' = [state |-> "settled", result |-> result]

\* The request is entered and seen at once; a cancelled task asks nothing.
Ask ==
    /\ worker = "asking"
    /\ IF Cancelling
       THEN worker' = "finishing" /\ heard' = "cancelled" /\ UNCHANGED question
       ELSE /\ worker' = "waiting" /\ UNCHANGED heard
            /\ question' = [state |-> "pending", result |-> "none"]
    /\ UNCHANGED <<canceller, timedOut, stage, processVars, gate>>

\* The wait is over in slices: cancelled, or out of time.
GiveUp ==
    /\ worker = "waiting" /\ question.state \in {"pending", "announced"}
    /\ \/ Cancelling /\ SettleAs("cancelled")
       \/ MayTimeOut /\ SettleAs("expired")
    /\ UNCHANGED <<worker, canceller, timedOut, stage, processVars, gate,
                   heard>>

\* ... and the request is forgotten as its result is returned.
Hear ==
    /\ worker = "waiting" /\ Settled
    /\ heard' = question.result /\ worker' = "finishing"
    /\ question' = [state |-> "forgotten", result |-> "none"]
    /\ UNCHANGED <<canceller, timedOut, stage, processVars, gate>>

\* finish(): the status is set after the open questions are closed.
FinishRun ==
    /\ worker = "finishing" /\ worker' = "ended"
    /\ IF question.state \in {"pending", "announced"} THEN SettleAs("cancelled")
       ELSE UNCHANGED question
    /\ UNCHANGED <<canceller, timedOut, stage, processVars, gate, heard>>

-----------------------------------------------------------------------------
(* The owner *)

\* drain_interactions: each request is shown once.
DrainInteractions ==
    /\ question.state = "pending" /\ gate' = "open"
    /\ question' = [question EXCEPT !.state = "announced"]
    /\ UNCHANGED <<worker, canceller, timedOut, stage, processVars, heard>>

\* resolve_interaction: the answer counts only if the worker still waits.
ResolveInteraction ==
    /\ gate = "open"
    /\ IF question.state = "announced"
       THEN gate' = "accepted" /\ SettleAs("answer")
       ELSE gate' = "late" /\ UNCHANGED question
    /\ UNCHANGED <<worker, canceller, timedOut, stage, processVars, heard>>

\* cancel: the flag under the lock, then the questions, then the signal.
CancelRun ==
    /\ canceller = "idle" /\ ~Ended /\ canceller' = "flagged"
    /\ UNCHANGED <<worker, timedOut, stage, processVars, questionVars>>

CancelInteractions ==
    /\ canceller = "flagged" /\ canceller' = "woken"
    /\ IF question.state \in {"pending", "announced"} THEN SettleAs("cancelled")
       ELSE UNCHANGED question
    /\ UNCHANGED <<worker, timedOut, stage, processVars, gate, heard>>

CancelSignals ==
    /\ canceller = "woken" /\ canceller' = "done"
    /\ StartStop("INT")
    /\ UNCHANGED <<worker, timedOut, pidKnown, returncode, runError,
                   questionVars>>

RunNext ==
    \/ Spawn \/ BindProcess \/ ProcessEnds \/ LeaderExited \/ RequestTimeout
    \/ AdvanceStop \/ SetupFails \/ Cleanup \/ CleanupKill \/ CleanupOver
    \/ Unbind \/ Ask \/ GiveUp \/ Hear \/ FinishRun
    \/ DrainInteractions \/ ResolveInteraction
    \/ CancelRun \/ CancelInteractions \/ CancelSignals

RunSpec == RunInit /\ [][RunNext]_runVars

-----------------------------------------------------------------------------
(* Properties *)

\* A task that has ended leaves no process of its group behind, unless it says
\* so; an answer the owner saw accepted is the one the tool got, and one that
\* came too late is none; no question is open whose worker is gone.
TaskEndsClean ==
    /\ Ended => (~leader.alive /\ ~child.alive) \/ runError
    /\ Ended /\ pidKnown /\ ~runError => returncode
    /\ gate = "accepted" /\ heard # "none" => heard = "answer"
    /\ heard = "answer" => gate = "accepted"
    /\ Ended => question.state \notin {"pending", "announced"}
=============================================================================
