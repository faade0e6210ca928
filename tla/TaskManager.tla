----------------------------- MODULE TaskManager -----------------------------
(***************************************************************************)
(* core/tasks.py, TaskManager: the registry of tool runs, with the threads *)
(* that use it.  The main thread is the agent's tool loop (the generator   *)
(* `run') and the REPL, interleaved at the generator's yields; each task   *)
(* has a worker thread that may take a step at any time.  A critical       *)
(* section of the code is one action, and so is everything the main thread *)
(* does between two reads of what a worker may change.                     *)
(*                                                                         *)
(* Left out: the processes a worker runs, its questions to the owner, the  *)
(* pages of its output.                                                    *)
(***************************************************************************)
EXTENDS Naturals, FiniteSets, Sequences

CONSTANTS
    MaxTasks,       \* bound: tool calls of the session
    MaxHistory,     \* finished tasks the registry keeps (max_history)
    JoinTimesOut    \* may a worker outlive the bounded join?

Tasks == 1..MaxTasks        \* numbered in order of creation
NoTask == 0

ASSUME TaskAssumption ==
    /\ MaxTasks \in Nat
    /\ MaxHistory \in Nat \ {0}
    /\ JoinTimesOut \in BOOLEAN

VARIABLES
    job,            \* per task: the TaskHandle, see TaskRecord
    kept,           \* _tasks: what the registry still knows
    foreground,     \* _foreground_id
    preCancel,      \* _pending_cancel: cancels of calls not created yet
    main,           \* where the main thread stands
    back,           \* ... and where it goes on after draining
    todo,           \* drain_background: tasks not looked at yet
    draining,       \* ... and the one whose events were just taken
    current,        \* the call of the agent's tool loop
    handoff,        \* _task_background_handoff_id of the session
    prompts,        \* _task_handoff_queue: results to give to the model
    told,           \* results the model was prompted with
    orphaned        \* a bounded join gave up on a live worker

drainVars == <<back, todo, draining>>
mainVars == <<main, drainVars, current, handoff, prompts, told, orphaned>>
taskVars == <<job, kept, foreground, preCancel, mainVars>>

Terminal == {"completed", "failed", "cancelled"}
Done(t) == job[t].status \in Terminal

Fresh == [status |-> "none", worker |-> "none", verdict |-> "none",
          cancel |-> FALSE, background |-> FALSE, claimed |-> FALSE,
          changed |-> "none", result |-> "none"]

\* The yields of the turn: the owner handles keys and background events.
InTurnPoints == {"turn", "call", "started", "loop", "toolEnd"}
InTurn == {"turn", "call", "started", "loop", "ended", "toolEnd"}

-----------------------------------------------------------------------------
(* TaskHandle and the registry *)

\* cancel: a no-op on a finished task.
Cancelled(r) == IF r.status \in Terminal THEN r
                ELSE [r EXCEPT !.cancel = TRUE, !.status = "cancelling"]

\* mark_running.
Marked(r) ==
    IF r.status \in Terminal THEN r
    ELSE [r EXCEPT !.status = IF r.cancel THEN "cancelling" ELSE "running"]

\* mark_background, inside background().
MayBackground(t) ==
    /\ foreground = t
    /\ job[t].status \in {"queued", "running"}
    /\ ~job[t].background

Prunable(r) ==
    r.status \in Terminal /\ (~r.background \/ r.claimed)

\* The history keeps the newest finished tasks.
Pruned(tasks) ==
    LET old == {t \in kept : Prunable(tasks[t])} IN
    kept \ {t \in old : Cardinality({u \in old : t <= u}) > MaxHistory}

\* _finish_task: the slot is free, and the oldest finished tasks go.
FinishTask(t, tasks) ==
    /\ job' = tasks
    /\ foreground' = IF foreground = t THEN NoTask ELSE foreground
    /\ kept' = Pruned(tasks)

\* The worker is not started: finish(CANCELLED), then _finish_task.
NeverStarted(t, r) ==
    FinishTask(t, [job EXCEPT ![t] = [Marked(Cancelled(r)) EXCEPT
        !.status = IF r.status \in Terminal THEN @ ELSE "cancelled"]])

\* _launch_worker: thread.start() may fail.
LaunchWorker(t, r) ==
    \/ /\ job' = [job EXCEPT ![t] = [r EXCEPT !.worker = "ready"]]
       /\ UNCHANGED <<kept, foreground>>
    \/ FinishTask(t, [job EXCEPT ![t] = [r EXCEPT !.status = "failed"]])

-----------------------------------------------------------------------------
(* The worker thread of task t *)

WorkerVars == <<preCancel, mainVars>>

\* mark_running; the tool of a task that was cancelled meanwhile is not run.
WorkerStart(t) ==
    /\ job[t].worker = "ready"
    /\ job' = [job EXCEPT ![t] =
          IF @.cancel
          THEN [Marked(@) EXCEPT !.worker = "ending", !.verdict = "cancelled"]
          ELSE [Marked(@) EXCEPT !.worker = "runner"]]
    /\ UNCHANGED <<kept, foreground, WorkerVars>>

\* runtime_event(workspace_changed): the one event that is never dropped.
WorkerChange(t) ==
    /\ job[t].worker = "runner"
    /\ job[t].changed = "none"
    /\ job' = [job EXCEPT ![t].changed = "pending"]
    /\ UNCHANGED <<kept, foreground, WorkerVars>>

\* The runner returns or raises; the status is chosen from what is known now,
\* before finish() takes the lock.
WorkerReturn(t) ==
    /\ job[t].worker = "runner"
    /\ \E v \in IF job[t].cancel THEN {"cancelled"} ELSE {"completed", "failed"} :
          job' = [job EXCEPT ![t].worker = "ending", ![t].verdict = v]
    /\ UNCHANGED <<kept, foreground, WorkerVars>>

\* Faulty variant: the status stays, only the result is set.
WorkerFinishFaulty(t) ==
    /\ job[t].worker = "ending"
    /\ job' = [job EXCEPT ![t].worker = "pruning",
          ![t].verdict = "none",
          ![t].status = IF job[t].cancel THEN @ ELSE job[t].verdict]
    /\ UNCHANGED <<kept, foreground, WorkerVars>>

\* finish(): closing the artifacts may fail the task.
WorkerFinish(t) ==
    /\ job[t].worker = "ending"
    /\ \E s \in {job[t].verdict} \cup
              (IF job[t].verdict = "cancelled" THEN {} ELSE {"failed"}) :
          job' = [job EXCEPT ![t].worker = "pruning", ![t].verdict = "none",
                               ![t].status = s]
    /\ UNCHANGED <<kept, foreground, WorkerVars>>

WorkerExit(t) ==
    /\ job[t].worker = "pruning"
    /\ FinishTask(t, [job EXCEPT ![t].worker = "gone"])
    /\ UNCHANGED WorkerVars

Worker(t) ==
    \/ WorkerStart(t) \/ WorkerChange(t) \/ WorkerReturn(t)
    \/ WorkerFinish(t) \/ WorkerExit(t)

-----------------------------------------------------------------------------
(* The agent's tool loop: the generator run() *)

Move(to) ==
    /\ main' = to
    /\ UNCHANGED <<drainVars, current, handoff, prompts, told, orphaned>>

\* The call is started in the controller; the owner may already cancel it.
BeginCall ==
    /\ main = "turn"
    /\ \E t \in Tasks :
          /\ job[t].status = "none" /\ \A u \in 1..(t - 1) : job[u].status # "none"
          /\ current' = t
          /\ job' = [job EXCEPT ![t].status = "called"]
    /\ main' = "call"
    /\ UNCHANGED <<kept, foreground, preCancel, drainVars, handoff, prompts,
                   told, orphaned>>

EndTurn == main = "turn" /\ Move("idle")
             /\ UNCHANGED <<job, kept, foreground, preCancel>>

\* Faulty variant: a cancel that came before the task is forgotten.
CreateTaskFaulty ==
    LET t == current IN
    /\ main = "call"
    /\ job' = [job EXCEPT ![t].status = "queued"]
    /\ kept' = kept \cup {t}
    /\ foreground' = t
    /\ preCancel' = preCancel \ {t}
    /\ Move("started")

\* _new_task; with a foreground task still there it raises TaskError.
CreateTask ==
    LET t == current
        new == [job[t] EXCEPT !.status = "queued"]
    IN
    /\ main = "call"
    /\ IF foreground # NoTask /\ ~Done(foreground)
       THEN /\ job' = [job EXCEPT ![t].status = "refused"]
            /\ UNCHANGED <<kept, foreground, preCancel>>
            /\ Move("ended")
       ELSE /\ job' = [job EXCEPT ![t] =
                         IF t \in preCancel THEN Cancelled(new) ELSE new]
            /\ kept' = kept \cup {t}
            /\ foreground' = t
            /\ preCancel' = preCancel \ {t}
            /\ Move("started")

\* The generator is advanced past `started'.
Advance ==
    LET t == current IN
    /\ main = "started"
    /\ IF job[t].cancel
       THEN /\ job' = [job EXCEPT ![t].status = "cancelled"]
            /\ UNCHANGED <<kept, foreground>>
       ELSE LaunchWorker(t, job[t])
    /\ Move("loop")
    /\ UNCHANGED preCancel

\* The model asked for a background run: background(), then close().
StartInBackground ==
    LET t == current
        r == [job[t] EXCEPT !.background = TRUE, !.result = "backgrounded"]
    IN
    /\ main = "started"
    /\ \/ /\ MayBackground(t)
          /\ handoff' = t
          /\ \/ /\ job' = [job EXCEPT ![t] = [r EXCEPT !.worker = "ready"]]
                /\ foreground' = NoTask /\ UNCHANGED kept
             \/ FinishTask(t, [job EXCEPT ![t] = [r EXCEPT !.status = "failed"]])
       \/ /\ NeverStarted(t, job[t])
          /\ UNCHANGED handoff
    /\ main' = "ended"
    /\ UNCHANGED <<preCancel, drainVars, current, prompts, told, orphaned>>

\* Faulty variant: the loop reports a background job's end itself.
ResumeLoopFaulty ==
    LET t == current IN
    /\ main = "loop"
    /\ Done(t)
    /\ FinishTask(t, [job EXCEPT ![t].result = "terminal"])
    /\ Move("ended") /\ UNCHANGED preCancel

\* One turn of the polling loop: the events so far, and the end if there is
\* one; a task in the background is left to drain_background.
ResumeLoop ==
    LET t == current IN
    /\ main = "loop"
    /\ IF job[t].background
       THEN /\ FinishTask(t, [job EXCEPT ![t].result = "backgrounded"])
            /\ Move("ended")
       ELSE LET r == [job[t] EXCEPT
                !.changed = IF @ = "pending" THEN "applied" ELSE @] IN
            IF Done(t)
            THEN /\ FinishTask(t, [job EXCEPT ![t] =
                        [r EXCEPT !.result = "terminal"]])
                 /\ Move("ended")
            ELSE /\ job' = [job EXCEPT ![t] = r]
                 /\ UNCHANGED <<kept, foreground>> /\ Move("loop")
    /\ UNCHANGED preCancel

\* finish_tool, and the tool_end event.
FinishCall == main = "ended" /\ Move("toolEnd")
                /\ UNCHANGED <<job, kept, foreground, preCancel>>

Managed == {t \in kept : job[t].background}

StartDrain(from) ==
    /\ main' = "drain" /\ back' = from
    /\ todo' = Managed /\ draining' = NoTask

\* The owner's handling of tool_end: release the gate and drain at once.
ToolEnd ==
    /\ main = "toolEnd"
    /\ current' = NoTask
    /\ IF handoff = current
       THEN handoff' = NoTask /\ StartDrain("turn")
       ELSE main' = "turn" /\ UNCHANGED <<drainVars, handoff>>
    /\ UNCHANGED <<job, kept, foreground, preCancel, prompts, told, orphaned>>

Agent == BeginCall \/ EndTurn \/ CreateTask \/ Advance \/ StartInBackground
           \/ ResumeLoop \/ FinishCall \/ ToolEnd

-----------------------------------------------------------------------------
(* The owner: keys, SIGINT, the prompt *)

\* Esc on the running call; on a handed over task it does nothing.
Esc ==
    /\ main \in {"call", "started", "loop"}
    /\ handoff # current
    /\ IF main = "call"
       THEN preCancel' = preCancel \cup {current} /\ UNCHANGED job
       ELSE /\ job' = [job EXCEPT ![current] = Cancelled(@)]
            /\ UNCHANGED preCancel
    /\ UNCHANGED <<kept, foreground, mainVars>>

\* Ctrl+B: background().
CtrlB ==
    LET t == current IN
    /\ main \in {"started", "loop"}
    /\ MayBackground(t)
    /\ job' = [job EXCEPT ![t].background = TRUE]
    /\ foreground' = NoTask
    /\ handoff' = t
    /\ UNCHANGED <<kept, preCancel, main, drainVars, current, prompts, told,
                   orphaned>>

\* /kill, or a task_status stop of the model.
Kill ==
    /\ main \in {"idle", "turn", "loop"}
    /\ \E t \in Managed :
          ~Done(t) /\ job' = [job EXCEPT ![t] = Cancelled(@)]
    /\ UNCHANGED <<kept, foreground, preCancel, mainVars>>

\* A call put in the background before the generator was advanced is started
\* by the close of the generator; any other is finished as cancelled.
CloseStarted(t) ==
    IF job[t].background /\ ~job[t].cancel
    THEN LaunchWorker(t, job[t])
    ELSE NeverStarted(t, job[t])

\* SIGINT ends the turn: the generators are closed, and a foreground task is
\* cancelled and joined.
KeyboardInterrupt ==
    LET t == current
        cutOff == main = "loop" /\ ~job[t].background /\ ~Done(t)
    IN
    /\ main \in InTurn
    /\ IF main = "started" THEN CloseStarted(t)
       ELSE IF cutOff
       THEN /\ job' = [job EXCEPT ![t] = Cancelled(@)]
            /\ UNCHANGED <<kept, foreground>>
       ELSE IF main = "loop" THEN FinishTask(t, job)
       ELSE UNCHANGED <<job, kept, foreground>>
    /\ main' = IF cutOff THEN "join" ELSE "idle"
    /\ current' = IF cutOff THEN t ELSE NoTask
    /\ UNCHANGED <<preCancel, drainVars, handoff, prompts, told, orphaned>>

\* worker.join, bounded by the grace periods.
Joined ==
    /\ main = "join"
    /\ job[current].worker = "gone" \/ JoinTimesOut
    /\ FinishTask(current, job)
    /\ main' = "idle" /\ current' = NoTask
    /\ orphaned' = (orphaned \/ job[current].worker # "gone")
    /\ UNCHANGED <<preCancel, drainVars, handoff, prompts, told>>

-----------------------------------------------------------------------------
(* drain_task_events, and the idle loop *)

\* At any yield of the turn the owner drains the background tasks ...
TurnDrain ==
    /\ main \in InTurnPoints
    /\ StartDrain(main)
    /\ UNCHANGED <<job, kept, foreground, preCancel, current, handoff,
                   prompts, told, orphaned>>

\* ... and at every pause of an idle prompt, before it looks for a prompt.
IdleDrain ==
    /\ main = "idle"
    /\ StartDrain("ready")
    /\ UNCHANGED <<job, kept, foreground, preCancel, current, handoff,
                   prompts, told, orphaned>>

\* The events of one job,
DrainEvents ==
    /\ main = "drain" /\ draining = NoTask
    /\ \E t \in todo :
          /\ \A u \in todo : t <= u
          /\ draining' = t /\ todo' = todo \ {t}
          /\ job' = [job EXCEPT ![t].changed = IF @ = "pending" THEN "applied" ELSE @]
    /\ UNCHANGED <<kept, foreground, preCancel, main, back, current, handoff,
                   prompts, told, orphaned>>

\* ... then its terminal, unless its call is still open; a result the model
\* should know of becomes a prompt (_queue_task_handoff).
ClaimTerminal ==
    LET t == draining IN
    /\ main = "drain" /\ t # NoTask
    /\ IF t # handoff /\ Done(t) /\ ~job[t].claimed
       THEN /\ FinishTask(t, [job EXCEPT ![t].claimed = TRUE])
            /\ prompts' = IF job[t].status = "cancelled" THEN prompts
                          ELSE Append(prompts, t)
       ELSE UNCHANGED <<job, kept, foreground, prompts>>
    /\ draining' = NoTask
    /\ UNCHANGED <<preCancel, main, back, todo, current, handoff, told,
                   orphaned>>

EndDrain ==
    /\ main = "drain" /\ draining = NoTask /\ todo = {}
    /\ main' = back /\ back' = "idle"
    /\ UNCHANGED <<job, kept, foreground, preCancel, todo, draining, current,
                   handoff, prompts, told, orphaned>>

\* Faulty variant: a handed over result waits for the next user prompt.
DispatchPromptFaulty ==
    /\ main = "ready"
    /\ main' = "idle"
    /\ UNCHANGED <<job, kept, foreground, preCancel, drainVars, current,
                   handoff, prompts, told, orphaned>>

\* dispatch_task_handoff_ready, then a whole turn.
DispatchPrompt ==
    /\ main = "ready"
    /\ IF prompts = <<>>
       THEN main' = "idle" /\ UNCHANGED <<prompts, told>>
       ELSE /\ told' = told \cup {Head(prompts)}
            /\ prompts' = Tail(prompts)
            /\ main' = "turn"
    /\ UNCHANGED <<job, kept, foreground, preCancel, drainVars, current,
                   handoff, orphaned>>

\* The user submits a line.
UserPrompt ==
    main = "idle" /\ Move("turn") /\ UNCHANGED <<job, kept, foreground,
                                                 preCancel>>

\* Session.close: shutdown() cancels what still runs ...
Shutdown ==
    /\ main = "idle"
    /\ job' = [t \in Tasks |->
                  IF t \in kept /\ ~Done(t) THEN Cancelled(job[t]) ELSE job[t]]
    /\ Move("closing")
    /\ UNCHANGED <<kept, foreground, preCancel>>

\* ... joins the workers; the gate is released and the session drained last.
ShutdownJoined ==
    /\ main = "closing"
    /\ \A t \in kept : job[t].worker \in {"none", "gone"} \/ JoinTimesOut
    /\ foreground' = NoTask /\ kept' = Pruned(job)
    /\ handoff' = NoTask
    /\ orphaned' = (orphaned \/ \E t \in kept :
                                   job[t].worker \notin {"none", "gone"})
    /\ StartDrain("off")
    /\ UNCHANGED <<job, preCancel, current, prompts, told>>

Off == main = "off" /\ UNCHANGED taskVars

Drain == TurnDrain \/ IdleDrain \/ DrainEvents \/ ClaimTerminal \/ EndDrain

Owner == Esc \/ CtrlB \/ Kill \/ Drain \/ DispatchPrompt \/ UserPrompt
           \/ Shutdown \/ ShutdownJoined \/ Off

Interrupt == KeyboardInterrupt \/ Joined

-----------------------------------------------------------------------------
TaskInit ==
    /\ job = [t \in Tasks |-> Fresh]
    /\ kept = {} /\ foreground = NoTask /\ preCancel = {}
    /\ main = "idle" /\ back = "idle" /\ todo = {} /\ draining = NoTask
    /\ current = NoTask /\ handoff = NoTask
    /\ prompts = <<>> /\ told = {} /\ orphaned = FALSE

\* A session that nobody sends SIGINT, and any session.
QuietNext == Agent \/ Owner \/ \E t \in Tasks : Worker(t)
TaskNext == QuietNext \/ Interrupt

TaskSpec == TaskInit /\ [][TaskNext]_taskVars

\* Threads run; every tool returns (bash has a timeout, and a cancelled
\* process is killed); each yield of the turn is resumed whatever the owner
\* does at it; the user of an idle prompt pauses now and then.  And nobody
\* sends SIGINT: the gate of a turn it ends may stay shut.
BusyFairness ==
    /\ \A t \in Tasks :
          /\ WF_taskVars(WorkerStart(t)) /\ WF_taskVars(WorkerReturn(t))
          /\ WF_taskVars(WorkerFinish(t)) /\ WF_taskVars(WorkerExit(t))
    /\ SF_taskVars(Agent)
    /\ WF_taskVars(DrainEvents \/ ClaimTerminal \/ EndDrain)
    /\ WF_taskVars(DispatchPrompt) /\ WF_taskVars(ShutdownJoined)

TaskFairness == BusyFairness /\ SF_taskVars(IdleDrain)

FairTaskSpec == TaskInit /\ [][QuietNext]_taskVars /\ TaskFairness

-----------------------------------------------------------------------------
(* Properties *)

TaskRecord ==
    [status : {"none", "called", "refused", "queued", "running", "cancelling"}
                \cup Terminal,
     worker : {"none", "ready", "runner", "ending", "pruning", "gone"},
     verdict : {"none"} \cup Terminal,
     cancel : BOOLEAN, background : BOOLEAN, claimed : BOOLEAN,
     changed : {"none", "pending", "applied"},
     result : {"none", "backgrounded", "terminal"}]

\* The types; the foreground slot only ever names a task the registry knows and
\* whose worker has not gone.
TaskTypeOK ==
    /\ job \in [Tasks -> TaskRecord]
    /\ kept \subseteq Tasks
    /\ foreground \in kept \cup {NoTask}
    /\ foreground # NoTask => job[foreground].worker # "gone"
    /\ preCancel \subseteq Tasks
    /\ main \in InTurn \cup {"idle", "join", "drain", "ready", "closing", "off"}
    /\ back \in InTurnPoints \cup {"idle", "ready", "off"}
    /\ todo \subseteq Tasks /\ draining \in Tasks \cup {NoTask}
    /\ current \in Tasks \cup {NoTask} /\ handoff \in Tasks \cup {NoTask}
    /\ prompts \in Seq(Tasks) /\ told \subseteq Tasks /\ orphaned \in BOOLEAN

\* The end of a task is reported once: by the call that waited for it or by
\* the background drain, never by both, and its prompt is queued once.  The
\* race is a Ctrl+B in the tick in which the worker ends (TaskManager.run).
ReportedOnce ==
    /\ \A t \in Tasks : ~(job[t].claimed /\ job[t].result = "terminal")
    /\ \A i, j \in DOMAIN prompts : prompts[i] = prompts[j] => i = j
    /\ \A i \in DOMAIN prompts : prompts[i] \notin told

\* The journal never has the end of a background task before the result of
\* the call that started it (the terminal gate of Session).
ResultBeforeEnd == \A t \in Tasks : job[t].claimed => t # current

\* The registry never forgets a background task whose end was not reported,
\* however many calls finish meanwhile (max_history in _finish_task).
UnreportedIsKept ==
    \A t \in Tasks :
        job[t].background /\ ~job[t].claimed => t \in kept

\* Two calls never run at once: the next call of the loop starts only when
\* the worker of the one before has gone or was put in the background; only a
\* worker that outlived its bounded join may still be there.  And no call of
\* the loop is refused because another one still has the slot.
OneForegroundWorker ==
    /\ ~orphaned => \A t, u \in Tasks :
          /\ job[t].worker = "runner" /\ ~job[t].background
          /\ job[u].worker = "runner" /\ ~job[u].background
          => t = u
    /\ \A t \in Tasks : job[t].status # "refused"

\* A call cancelled before its tool began is never run: it stays cancelled
\* until it is finished as cancelled, wherever the cancel came in (before the
\* task existed, before its thread, before the tool).
CancelledFirst(t) ==
    \/ t \in preCancel
    \/ job[t].cancel /\ job[t].worker \in {"none", "ready"}
CancelledNeverRuns ==
    [][\A t \in Tasks : CancelledFirst(t) =>
          (\/ CancelledFirst(t)
           \/ job[t].verdict = "cancelled" \/ job[t].status = "cancelled")']_taskVars

\* The status of a finished task never changes again, whoever cancels it late.
EndIsFinal ==
    [][\A t \in Tasks : Done(t) => job'[t].status = job[t].status]_taskVars

\* A session that ended left no end of a background task unreported, unless
\* its worker outlived the bounded join.
ExitReports ==
    main = "off" /\ ~orphaned =>
        \A t \in Tasks : job[t].background => job[t].claimed

\* The types, the slot of the foreground call is exclusive, and each end of a
\* background task reaches the journal once, after its beginning, and before
\* the session is over.
EndsAreReported ==
    /\ TaskTypeOK /\ OneForegroundWorker
    /\ ReportedOnce /\ ResultBeforeEnd /\ UnreportedIsKept /\ ExitReports

\* Neither a late cancel nor an early one is undone.
OutcomeIsFinal == EndIsFinal /\ CancelledNeverRuns

\* A cancelled task ends.
CancelEnds == \A t \in Tasks : job[t].cancel ~> Done(t)

\* The result of a background task that was not cancelled reaches the model,
\* unless the session ends.
ResultReachesModel ==
    \A t \in Tasks :
        (job[t].background /\ job[t].status \in {"completed", "failed"})
            ~> (t \in told \/ main \in {"closing", "off"} \/ back = "off")
=============================================================================
