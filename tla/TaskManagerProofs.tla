-------------------------- MODULE TaskManagerProofs --------------------------
(***************************************************************************)
(* The task registry is proved safe for every number of calls, every       *)
(* history limit and whether or not a worker outlives its join: the slot   *)
(* of the foreground call is exclusive, every end of a background task is  *)
(* reported once, after its call and before the session is over            *)
(* (EndsAreReported), and no step undoes an end or an early cancel         *)
(* (OutcomeIsFinal).  The inductive invariant TaskInv adds what the two    *)
(* threads rely on without saying it: calls are numbered in order          *)
(* (Numbering), where the open call stands (Slot, OpenCall), which workers *)
(* are busy (Workers), and which ends are on their way (Reports).          *)
(***************************************************************************)
EXTENDS TaskManager, FiniteSetTheorems, TLAPS

\* Where the main thread is, or goes back to after draining.
Point == IF main = "drain" THEN back ELSE main
Between == {"turn", "idle", "ready", "closing", "off"}

\* Calls are created in order; the open one is the newest.
Numbering ==
    /\ \A t, u \in Tasks :
         t < u /\ job[u].status # "none" => job[t].status # "none"
    /\ \A t \in Tasks : job[t].status = "none" => job[t] = Fresh
    /\ \A t \in kept : job[t].status # "none"
    /\ current # NoTask =>
         /\ job[current].status # "none"
         /\ \A u \in Tasks : current < u => job[u].status = "none"

\* The slot is the open call's, and only while its worker is waited for.
Slot ==
    /\ (current = NoTask) <=> (Point \in Between)
    /\ foreground # NoTask =>
         /\ foreground = current /\ Point \in {"started", "loop", "join"}
         /\ ~job[foreground].background

\* What is known of the open call at each point.
OpenCall ==
    /\ Point = "call" => job[current] = [Fresh EXCEPT !.status = "called"]
    /\ Point = "started" =>
         /\ current \in kept /\ job[current].status \in {"queued", "cancelling"}
         /\ job[current].worker = "none" /\ job[current].result = "none"
    /\ Point = "loop" =>
         /\ job[current].result = "none"
         /\ job[current].worker = "none" => Done(current)
    /\ current # NoTask =>
         ~job[current].claimed /\ (job[current].background => handoff = current)

Slots == Numbering /\ Slot /\ OpenCall

\* A worker that has not finished its task, and one that has.
Busy(t) == job[t].worker \in {"ready", "runner", "ending"}
Workers ==
    \A t \in Tasks :
      /\ Busy(t) => ~Done(t)
      /\ job[t].worker \in {"pruning", "gone"} => Done(t)
      /\ job[t].worker = "ending" => job[t].verdict \in Terminal
      /\ Busy(t) /\ ~job[t].background =>
           orphaned \/ (t = current /\ Point \in {"loop", "join"})
      /\ job[t].background /\ job[t].worker = "none" =>
           Done(t) \/ (t = current /\ Point = "started")

\* What was reported, what is being reported, what is left at the end.
Reports ==
    /\ \A t \in Tasks : job[t].claimed => job[t].background
    /\ \A t \in Tasks : job[t].result = "terminal" => ~job[t].background
    /\ \A t \in todo : job[t].background
    /\ draining # NoTask => job[draining].background
    /\ main # "drain" => todo = {} /\ draining = NoTask
    /\ \A i \in DOMAIN prompts : job[prompts[i]].claimed
    /\ \A t \in told : job[t].claimed
    /\ Point = "off" /\ ~orphaned =>
         /\ handoff = NoTask
         /\ \A t \in Tasks : job[t].background /\ ~job[t].claimed =>
              Done(t) /\ t \in todo \cup {draining}

TaskInv == EndsAreReported /\ Slots /\ Workers /\ Reports

-----------------------------------------------------------------------------
(* Records and the registry. *)

Same(r, q) == /\ r.cancel = q.cancel /\ r.background = q.background
              /\ r.claimed = q.claimed /\ r.result = q.result

LEMMA StatusType ==
    ASSUME NEW r \in TaskRecord, NEW s \in {"called", "refused", "queued", "running",
                                         "cancelling"} \cup Terminal
    PROVE  /\ [r EXCEPT !.status = s] \in TaskRecord
           /\ [r EXCEPT !.status = s].status = s
           /\ [r EXCEPT !.status = s].worker = r.worker
           /\ [r EXCEPT !.status = s].verdict = r.verdict
           /\ [r EXCEPT !.status = s].changed = r.changed
           /\ Same([r EXCEPT !.status = s], r)
  BY DEF TaskRecord, Same

LEMMA CancelledType ==
    ASSUME NEW r \in TaskRecord
    PROVE  /\ Cancelled(r) \in TaskRecord
           /\ Cancelled(r).status = IF r.status \in Terminal THEN r.status ELSE "cancelling"
           /\ Cancelled(r).worker = r.worker /\ Cancelled(r).verdict = r.verdict
           /\ Cancelled(r).background = r.background /\ Cancelled(r).claimed = r.claimed
           /\ Cancelled(r).result = r.result /\ (r.cancel => Cancelled(r).cancel)
           /\ r.status \notin Terminal => Cancelled(r).cancel
  <1>1. CASE r.status \in Terminal
    BY <1>1 DEF Cancelled
  <1>2. CASE r.status \notin Terminal
    <2>1. [r EXCEPT !.cancel = TRUE] \in TaskRecord
      BY DEF TaskRecord
    <2>2. [[r EXCEPT !.cancel = TRUE] EXCEPT !.status = "cancelling"] \in TaskRecord
      BY <2>1, StatusType
    <2> QED
      BY <1>2, <2>2 DEF Cancelled, TaskRecord
  <1> QED
    BY <1>1, <1>2

LEMMA MarkedType ==
    ASSUME NEW r \in TaskRecord
    PROVE  /\ Marked(r) \in TaskRecord
           /\ r.status \in Terminal => Marked(r) = r
           /\ r.status \notin Terminal => Marked(r).status \in {"running", "cancelling"}
           /\ Marked(r).worker = r.worker /\ Marked(r).verdict = r.verdict
           /\ Same(Marked(r), r)
  BY DEF Marked, TaskRecord, Same, Terminal

\* Pruning the history forgets neither what was not reported nor the newest.
LEMMA PrunedKeeps ==
    ASSUME kept \subseteq Tasks, NEW tasks
    PROVE  /\ Pruned(tasks) \subseteq kept
           /\ \A t \in kept : ~Prunable(tasks[t]) => t \in Pruned(tasks)
           /\ \A t \in kept : (\A u \in kept : u <= t) => t \in Pruned(tasks)
  <1> DEFINE old == {t \in kept : Prunable(tasks[t])}
  <1>1. Pruned(tasks) = kept \ {t \in old : Cardinality({u \in old : t <= u}) > MaxHistory}
    BY DEF Pruned
  <1>2. ASSUME NEW t \in old, \A u \in kept : u <= t
        PROVE  ~(Cardinality({u \in old : t <= u}) > MaxHistory)
    <2>1. \A u \in old : t <= u => u = t
      BY <1>2 DEF Tasks
    <2>2. {u \in old : t <= u} = {t}
      BY <1>2, <2>1 DEF Tasks
    <2>3. Cardinality({t}) = 1
      BY FS_Singleton
    <2> QED
      BY <2>2, <2>3, TaskAssumption
  <1> QED
    BY <1>1, <1>2

\* What the registry still knows after a task was finished.
LEMMA FinishTaskFacts ==
    ASSUME TaskInv, NEW t, NEW tasks, FinishTask(t, tasks)
    PROVE  /\ job' = tasks /\ kept' \subseteq kept
           /\ foreground' = IF foreground = t THEN NoTask ELSE foreground
           /\ \A u \in kept : tasks[u].background /\ ~tasks[u].claimed => u \in kept'
           /\ current # NoTask /\ current \in kept => current \in kept'
           /\ foreground' \in kept' \cup {NoTask}
  <1>1. kept \subseteq Tasks /\ foreground \in kept \cup {NoTask}
    BY DEF TaskInv, EndsAreReported, TaskTypeOK
  <1>2. kept' = Pruned(tasks)
    BY DEF FinishTask
  <1>3. \A u \in kept : tasks[u].background /\ ~tasks[u].claimed => u \in kept'
    BY <1>1, <1>2, PrunedKeeps DEF Prunable
  <1>4. ASSUME current # NoTask, current \in kept PROVE current \in kept'
    <2>1. \A u \in kept : ~(current < u)
      BY <1>1, <1>4 DEF TaskInv, Slots, Numbering
    <2>2. \A u \in kept : u <= current
      BY <1>1, <1>4, <2>1 DEF Tasks
    <2> QED
      BY <1>1, <1>2, <1>4, <2>2, PrunedKeeps
  <1>5. foreground # NoTask => foreground = current
    BY DEF TaskInv, Slots, Slot
  <1>6. kept' \subseteq kept
    BY <1>1, <1>2, PrunedKeeps
  <1> QED
    BY <1>1, <1>3, <1>4, <1>5, <1>6 DEF FinishTask

LEMMA InitTaskInv == TaskInit => TaskInv
  <1> SUFFICES ASSUME TaskInit PROVE TaskInv
    OBVIOUS
  <1>1. Fresh \in TaskRecord
    BY DEF Fresh, TaskRecord
  <1>2. TaskTypeOK
    <2>1. prompts \in Seq(Tasks)
      BY DEF TaskInit
    <2> QED
      BY <1>1, <2>1 DEF TaskInit, TaskTypeOK, InTurnPoints
  <1>3. OneForegroundWorker /\ ReportedOnce /\ ResultBeforeEnd /\ UnreportedIsKept
        /\ ExitReports
    BY DEF TaskInit, OneForegroundWorker, ReportedOnce, ResultBeforeEnd,
           UnreportedIsKept, ExitReports, Fresh
  <1>4. Slots
    BY DEF TaskInit, Slots, Numbering, Slot, OpenCall, Point, Between, Fresh
  <1>5. Workers
    BY DEF TaskInit, Workers, Busy, Fresh
  <1>6. Reports
    BY DEF TaskInit, Reports, Point, Fresh
  <1> QED
    BY <1>2, <1>3, <1>4, <1>5, <1>6 DEF TaskInv, EndsAreReported

-----------------------------------------------------------------------------
(* A step of a worker changes the record of its own task, and nothing that *)
(* was decided about that task.                                            *)

LEMMA WorkerStepKeeps ==
    ASSUME TaskInv, NEW t \in Tasks, NEW r \in TaskRecord,
           job' = [job EXCEPT ![t] = r], UNCHANGED WorkerVars,
           kept' \subseteq kept, foreground' \in kept' \cup {NoTask},
           foreground' = foreground \/ foreground' = NoTask,
           r.worker = "gone" => foreground' # t,
           current # NoTask /\ current \in kept => current \in kept',
           \A u \in kept : job[u].background /\ ~job[u].claimed => u \in kept',
           job[t].worker # "none", r.worker # "none", Same(r, job[t]),
           r.status \notin {"none", "refused"},
           Done(t) => r.status = job[t].status,
           r.worker \in {"ready", "runner", "ending"} =>
               r.status \notin Terminal /\ Busy(t),
           r.worker = "runner" => job[t].worker \in {"ready", "runner"},
           r.worker \in {"pruning", "gone"} => r.status \in Terminal,
           r.worker = "ending" => r.verdict \in Terminal
    PROVE  TaskInv'
  <1>0. TaskTypeOK /\ Slots /\ Workers /\ Reports /\ OneForegroundWorker
        /\ ReportedOnce /\ ResultBeforeEnd /\ UnreportedIsKept /\ ExitReports
    BY DEF TaskInv, EndsAreReported
  <1>1. /\ job'[t] = r /\ \A u \in Tasks : u # t => job'[u] = job[u]
        /\ job' \in [Tasks -> TaskRecord]
    BY <1>0 DEF TaskTypeOK
  <1>2. \A u \in Tasks : /\ job'[u].cancel = job[u].cancel /\ job'[u].claimed = job[u].claimed
                          /\ job'[u].background = job[u].background
                          /\ job'[u].result = job[u].result
    BY <1>1 DEF Same
  <1>3. \A u \in Tasks : job[u].status # "none" => job'[u].status # "none"
    BY <1>1
  <1>4. job[t].status # "none"
    BY <1>0 DEF Slots, Numbering, Fresh
  <1>5. UNCHANGED <<main, back, todo, draining, current, handoff, prompts, told, orphaned, Point>>
    BY DEF WorkerVars, mainVars, drainVars, Point
  <1>6. TaskTypeOK'
    BY <1>0, <1>1, <1>5 DEF TaskTypeOK, WorkerVars
  <1>7. Slots'
    <2>1. \A u \in Tasks : job'[u].status # "none" => job[u].status # "none"
      BY <1>1, <1>4
    <2>2. \A u, v \in Tasks :
             u < v /\ job'[v].status # "none" => job'[u].status # "none"
      BY <1>0, <1>3, <2>1 DEF Slots, Numbering, Slot, OpenCall
    <2>3. \A u \in Tasks : job'[u].status = "none" => job'[u] = Fresh
      BY <1>0, <1>1 DEF Slots, Numbering, Slot, OpenCall
    <2>4. \A u \in kept' : job'[u].status # "none"
      BY <1>0, <1>3 DEF Slots, Numbering, TaskTypeOK
    <2>6. current # NoTask => current \in Tasks
      BY <1>0 DEF TaskTypeOK
    <2>5. current' # NoTask =>
             /\ job'[current'].status # "none"
             /\ \A u \in Tasks : current' < u => job'[u].status = "none"
      BY <1>0, <1>3, <1>5, <2>1, <2>6 DEF Slots, Numbering
    <2>7. Point \in {"call", "started"} => t # current
      BY <1>0 DEF Slots, OpenCall, Fresh
    <2>8. Point \in {"call", "started", "loop"} => current # NoTask
      BY <1>0 DEF Slots, Slot, Between
    <2>9. Point = "call" => job'[current] = [Fresh EXCEPT !.status = "called"]
      BY <1>0, <1>1, <2>6, <2>7, <2>8 DEF Slots, Numbering, Slot, OpenCall
    <2>10. Point = "started" =>
             /\ current \in kept' /\ job'[current].status \in {"queued", "cancelling"}
             /\ job'[current].worker = "none" /\ job'[current].result = "none"
      BY <1>0, <1>1, <2>6, <2>7, <2>8 DEF Slots, Numbering, Slot, OpenCall
    <2>11. Point = "loop" =>
             /\ job'[current].result = "none"
             /\ job'[current].worker = "none" => job'[current].status \in Terminal
      BY <1>0, <1>1, <1>2, <2>6, <2>8 DEF Slots, OpenCall, Done
    <2>12. current # NoTask => ~job'[current].claimed
                            /\ (job'[current].background => handoff = current)
      BY <1>0, <1>2, <2>6 DEF Slots, Numbering, Slot, OpenCall
    <2>13. foreground' # NoTask =>
             /\ foreground' = current /\ Point \in {"started", "loop", "join"}
             /\ ~job'[foreground'].background
      BY <1>0, <1>2, <2>6 DEF Slots, Numbering, Slot, OpenCall
    <2>14. (current = NoTask) <=> (Point \in Between)
      BY <1>0 DEF Slots, Numbering, Slot, OpenCall
    <2> QED
      BY <1>5, <2>2, <2>3, <2>4, <2>5, <2>9, <2>10, <2>11, <2>12, <2>13, <2>14
      DEF Slots, Numbering, Slot, OpenCall, Done
  <1>8. Workers'
    BY <1>0, <1>1, <1>2, <1>5 DEF Workers, Busy, Done
  <1>9. Reports'
    BY <1>0, <1>1, <1>2, <1>5 DEF Reports, Done, TaskTypeOK
  <1>10. OneForegroundWorker'
    BY <1>0, <1>1, <1>2, <1>5 DEF OneForegroundWorker, Workers, Busy
  <1>11. ReportedOnce' /\ ResultBeforeEnd' /\ UnreportedIsKept' /\ ExitReports'
    BY <1>0, <1>1, <1>2, <1>5
    DEF ReportedOnce, ResultBeforeEnd, UnreportedIsKept, ExitReports
  <1> QED
    BY <1>6, <1>7, <1>8, <1>9, <1>10, <1>11 DEF TaskInv, EndsAreReported

LEMMA WorkersKeep == ASSUME TaskInv, NEW t \in Tasks, Worker(t) PROVE TaskInv'
  <1>0. /\ job \in [Tasks -> TaskRecord] /\ kept \subseteq Tasks
        /\ foreground \in kept \cup {NoTask} /\ job[t] \in TaskRecord
        /\ foreground # NoTask => job[foreground].worker # "gone"
    BY DEF TaskInv, EndsAreReported, TaskTypeOK
  <1>1. /\ job[t].worker # "none" => job[t].status \notin {"none", "refused"}
        /\ Busy(t) => ~Done(t)
        /\ job[t].worker \in {"pruning", "gone"} => Done(t)
        /\ job[t].worker = "ending" => job[t].verdict \in Terminal
    BY <1>0 DEF TaskInv, EndsAreReported, OneForegroundWorker, Slots, Numbering, Workers, Fresh
  <1>2. CASE WorkerStart(t)
    <2> DEFINE m == Marked(job[t])
    <2>1. /\ m \in TaskRecord /\ m.status \in {"running", "cancelling"} /\ Same(m, job[t])
      BY <1>0, <1>1, <1>2, MarkedType DEF WorkerStart, Busy, Done
    <2> HIDE DEF m
    <2> DEFINE r == IF job[t].cancel
                    THEN [m EXCEPT !.worker = "ending", !.verdict = "cancelled"]
                    ELSE [m EXCEPT !.worker = "runner"]
    <2>2. /\ r \in TaskRecord /\ Same(r, job[t]) /\ r.status = m.status
          /\ r.worker \in {"ending", "runner"}
          /\ r.worker = "ending" => r.verdict \in Terminal
      BY <2>1 DEF TaskRecord, Same, Terminal
    <2>3. job' = [job EXCEPT ![t] = r]
      BY <1>0, <1>2 DEF WorkerStart, m
    <2> HIDE DEF r
    <2> QED
      BY <1>0, <1>1, <1>2, <2>1, <2>2, <2>3, WorkerStepKeeps
      DEF WorkerStart, Busy, Done, Terminal
  <1>3. CASE WorkerChange(t)
    <2> DEFINE r == [job[t] EXCEPT !.changed = "pending"]
    <2>1. /\ r \in TaskRecord /\ Same(r, job[t]) /\ r.status = job[t].status
          /\ r.worker = "runner"
      BY <1>0, <1>3 DEF WorkerChange, TaskRecord, Same
    <2>2. job' = [job EXCEPT ![t] = r]
      BY <1>0, <1>3 DEF WorkerChange
    <2> HIDE DEF r
    <2> QED
      BY <1>0, <1>1, <1>3, <2>1, <2>2, WorkerStepKeeps
      DEF WorkerChange, Busy, Done, Terminal
  <1>4. CASE WorkerReturn(t)
    <2>1. PICK v \in IF job[t].cancel THEN {"cancelled"} ELSE {"completed", "failed"} :
             job' = [job EXCEPT ![t].worker = "ending", ![t].verdict = v]
      BY <1>4 DEF WorkerReturn
    <2> DEFINE r == [job[t] EXCEPT !.worker = "ending", !.verdict = v]
    <2>2. v \in Terminal
      BY <2>1 DEF Terminal
    <2>3. /\ r \in TaskRecord /\ Same(r, job[t]) /\ r.status = job[t].status
          /\ r.worker = "ending" /\ r.verdict = v
      BY <1>0, <2>2 DEF TaskRecord, Same
    <2>4. job' = [job EXCEPT ![t] = r]
      BY <1>0, <2>1
    <2> HIDE DEF r
    <2> QED
      BY <1>0, <1>1, <1>4, <2>2, <2>3, <2>4, WorkerStepKeeps
      DEF WorkerReturn, Busy, Done
  <1>5. CASE WorkerFinish(t)
    <2>1. PICK s \in {job[t].verdict} \cup
                       (IF job[t].verdict = "cancelled" THEN {} ELSE {"failed"}) :
             job' = [job EXCEPT ![t].worker = "pruning", ![t].verdict = "none",
                                ![t].status = s]
      BY <1>5 DEF WorkerFinish
    <2> DEFINE r == [job[t] EXCEPT !.worker = "pruning", !.verdict = "none", !.status = s]
    <2>2. s \in Terminal
      BY <1>1, <1>5, <2>1 DEF Terminal, WorkerFinish
    <2>3. /\ r \in TaskRecord /\ Same(r, job[t]) /\ r.status = s
          /\ r.worker = "pruning"
      BY <1>0, <2>2 DEF TaskRecord, Same
    <2>4. job' = [job EXCEPT ![t] = r]
      BY <1>0, <2>1
    <2>5. Busy(t) /\ s \notin {"none", "refused"}
      BY <1>5, <2>2 DEF WorkerFinish, Busy, Terminal
    <2> HIDE DEF r
    <2> QED
      BY <1>0, <1>1, <1>5, <2>2, <2>3, <2>4, <2>5, WorkerStepKeeps
      DEF WorkerFinish, Done
  <1>6. CASE WorkerExit(t)
    <2> DEFINE r == [job[t] EXCEPT !.worker = "gone"]
    <2>1. /\ r \in TaskRecord /\ Same(r, job[t]) /\ r.status = job[t].status
          /\ r.worker = "gone"
      BY <1>0 DEF TaskRecord, Same
    <2>2. [job EXCEPT ![t].worker = "gone"] = [job EXCEPT ![t] = r]
      BY <1>0
    <2> HIDE DEF r
    <2>3. FinishTask(t, [job EXCEPT ![t] = r])
      BY <1>6, <2>2 DEF WorkerExit
    <2>4. \A u \in kept : [job EXCEPT ![t] = r][u].background = job[u].background
                          /\ [job EXCEPT ![t] = r][u].claimed = job[u].claimed
      BY <1>0, <2>1 DEF Same
    <2>5. /\ job' = [job EXCEPT ![t] = r] /\ kept' \subseteq kept
          /\ foreground' = (IF foreground = t THEN NoTask ELSE foreground)
          /\ \A u \in kept : job[u].background /\ ~job[u].claimed => u \in kept'
          /\ current # NoTask /\ current \in kept => current \in kept'
          /\ foreground' \in kept' \cup {NoTask}
      BY <2>3, <2>4, FinishTaskFacts
    <2>6. foreground' # t
      BY <2>5 DEF NoTask, Tasks
    <2> QED
      BY <1>0, <1>1, <1>6, <2>1, <2>5, <2>6, WorkerStepKeeps
      DEF WorkerExit, Busy, Done, Terminal
  <1> QED
    BY <1>2, <1>3, <1>4, <1>5, <1>6 DEF Worker

-----------------------------------------------------------------------------
(* Lemmas for the steps of the main thread. *)

\* The registry after a task was finished, or was not touched.
Registry(tasks) ==
    /\ kept' \subseteq kept
    /\ foreground' \in kept' \cup {NoTask}
    /\ foreground' = foreground \/ foreground' = NoTask
    /\ \A u \in kept : tasks[u].background /\ ~tasks[u].claimed => u \in kept'
    /\ current # NoTask /\ current \in kept => current \in kept'

LEMMA FinishedRegistry ==
    ASSUME TaskInv, NEW t, NEW tasks, FinishTask(t, tasks)
    PROVE  job' = tasks /\ Registry(tasks) /\ (t # NoTask => foreground' # t)
  BY FinishTaskFacts DEF Registry, FinishTask

LEMMA SameRegistry ==
    ASSUME TaskInv, NEW tasks, UNCHANGED <<kept, foreground>>
    PROVE  Registry(tasks)
  BY DEF Registry, TaskInv, EndsAreReported, TaskTypeOK

\* _launch_worker: the worker is there, or the task has failed.
LEMMA LaunchOutcome ==
    ASSUME TaskInv, NEW t \in Tasks, NEW r \in TaskRecord, LaunchWorker(t, r)
    PROVE  /\ Registry(job')
           /\ \E q \in TaskRecord :
                /\ job' = [job EXCEPT ![t] = q] /\ Same(q, r)
                /\ \/ q.worker = "ready" /\ q.status = r.status
                   \/ q.worker = r.worker /\ q.status = "failed"
  <1>1. CASE /\ job' = [job EXCEPT ![t] = [r EXCEPT !.worker = "ready"]]
             /\ UNCHANGED <<kept, foreground>>
    <2>1. /\ [r EXCEPT !.worker = "ready"] \in TaskRecord
          /\ Same([r EXCEPT !.worker = "ready"], r)
          /\ [r EXCEPT !.worker = "ready"].worker = "ready"
          /\ [r EXCEPT !.worker = "ready"].status = r.status
      BY DEF TaskRecord, Same
    <2> QED
      BY <1>1, <2>1, SameRegistry
  <1>2. CASE FinishTask(t, [job EXCEPT ![t] = [r EXCEPT !.status = "failed"]])
    <2>1. /\ [r EXCEPT !.status = "failed"] \in TaskRecord
          /\ Same([r EXCEPT !.status = "failed"], r)
          /\ [r EXCEPT !.status = "failed"].worker = r.worker
          /\ [r EXCEPT !.status = "failed"].status = "failed"
      BY DEF TaskRecord, Same, Terminal
    <2> QED
      BY <1>2, <2>1, FinishedRegistry
  <1> QED
    BY <1>1, <1>2 DEF LaunchWorker

\* A task that is finished before its worker was started.
LEMMA NeverStartedOutcome ==
    ASSUME TaskInv, NEW t \in Tasks, NeverStarted(t, job[t]), ~Done(t)
    PROVE  /\ Registry(job')
           /\ \E q \in TaskRecord :
                /\ job' = [job EXCEPT ![t] = q] /\ q.status = "cancelled"
                /\ q.worker = job[t].worker /\ q.background = job[t].background
                /\ q.claimed = job[t].claimed /\ q.result = job[t].result
                /\ q.cancel
  <1> DEFINE m == Marked(Cancelled(job[t]))
             q == [m EXCEPT !.status = "cancelled"]
  <1>1. job[t] \in TaskRecord
    BY DEF TaskInv, EndsAreReported, TaskTypeOK
  <1>2. /\ m \in TaskRecord /\ m.worker = job[t].worker /\ m.cancel
        /\ m.background = job[t].background /\ m.claimed = job[t].claimed
        /\ m.result = job[t].result
    BY <1>1, CancelledType, MarkedType DEF Same, Done
  <1>3. FinishTask(t, [job EXCEPT ![t] = q])
    BY DEF NeverStarted, Done
  <1> HIDE DEF m
  <1>4. /\ q \in TaskRecord /\ q.status = "cancelled" /\ q.worker = m.worker
        /\ Same(q, m)
    BY <1>2, StatusType DEF Terminal
  <1> HIDE DEF q
  <1> QED
    BY <1>2, <1>3, <1>4, FinishedRegistry DEF Same

\* The order of the calls, when none is created.
LEMMA NumberingKeeps ==
    ASSUME TaskInv,
           \A u \in Tasks : (job'[u].status = "none") <=> (job[u].status = "none"),
           \A u \in Tasks : job[u].status = "none" => job'[u] = job[u],
           \A u \in kept' : u \in kept \/ u = current, current \in Tasks \cup {NoTask},
           current # NoTask => job[current].status # "none",
           kept' \subseteq Tasks,
           current' = current \/ current' = NoTask
    PROVE  Numbering'
  <1>1. Numbering
    BY DEF TaskInv, Slots
  <1>2. \A t, u \in Tasks :
             t < u /\ job'[u].status # "none" => job'[t].status # "none"
    BY <1>1 DEF Numbering
  <1>3. \A t \in Tasks : job'[t].status = "none" => job'[t] = Fresh
    BY <1>1 DEF Numbering
  <1>4. ASSUME NEW t \in kept' PROVE job'[t].status # "none"
    <2>1. CASE t \in kept
      BY <1>1, <1>4, <2>1 DEF Numbering
    <2>2. CASE t = current
      BY <1>4, <2>2 DEF NoTask, Tasks
    <2> QED
      BY <1>4, <2>1, <2>2
  <1>5. current' # NoTask =>
           /\ job'[current'].status # "none"
           /\ \A u \in Tasks : current' < u => job'[u].status = "none"
    BY <1>1 DEF Numbering
  <1> QED
    BY <1>2, <1>3, <1>4, <1>5 DEF Numbering

\* Calls do not run at once when the workers that are busy are accounted for.
LEMMA ExclusiveSlot ==
    ASSUME Workers', \A u \in Tasks : job'[u].status # "refused"
    PROVE  OneForegroundWorker'
  BY DEF Workers, Busy, OneForegroundWorker

\* A step of the main thread outside draining, before the end.
LEMMA MainStepKeeps ==
    ASSUME TaskInv, TaskTypeOK', Slots', Workers',
           main # "drain", main' # "drain", main' # "off",
           UNCHANGED <<todo, draining, prompts, told>>,
           \A u \in Tasks : job'[u].claimed = job[u].claimed,
           \A u \in Tasks : job[u].background => job'[u].background,
           \A u \in Tasks : job'[u].status # "refused",
           \A u \in Tasks : job'[u].result = "terminal" => ~job'[u].background,
           \A u \in Tasks : job'[u].background /\ ~job'[u].claimed => u \in kept'
    PROVE  TaskInv'
  <1>0. TaskTypeOK /\ Reports /\ ReportedOnce
    BY DEF TaskInv, EndsAreReported
  <1>a. \A i \in DOMAIN prompts : prompts[i] \in Tasks
    BY <1>0 DEF TaskTypeOK
  <1>1. Reports'
    <2>1. \A t \in Tasks : job'[t].claimed => job'[t].background
      BY <1>0, <1>a DEF Reports
    <2>2. \A i \in DOMAIN prompts : job'[prompts[i]].claimed
      BY <1>0, <1>a DEF Reports
    <2>3. \A t \in told : job'[t].claimed
      BY <1>0, <1>a DEF Reports, TaskTypeOK
    <2>4. todo = {} /\ draining = NoTask
      BY <1>0 DEF Reports
    <2>5. Point' # "off"
      BY DEF Point
    <2> QED
      BY <2>1, <2>2, <2>3, <2>4, <2>5 DEF Reports
  <1>2. ReportedOnce'
    BY <1>0, <1>1 DEF ReportedOnce, Reports, TaskTypeOK
  <1>3. ResultBeforeEnd'
    <2>1. \A t \in Tasks : t # NoTask
      BY DEF NoTask, Tasks
    <2>2. current' # NoTask => ~job'[current'].claimed
      BY DEF Slots, OpenCall
    <2> QED
      BY <2>1, <2>2 DEF ResultBeforeEnd
  <1>4. UnreportedIsKept'
    BY DEF UnreportedIsKept
  <1>5. ExitReports'
    BY DEF ExitReports
  <1>6. OneForegroundWorker'
    BY ExclusiveSlot
  <1> QED
    BY <1>1, <1>2, <1>3, <1>4, <1>5, <1>6 DEF TaskInv, EndsAreReported

\* A step that changes no task, but perhaps where the main thread stands.
LEMMA PointKeeps ==
    ASSUME TaskInv, UNCHANGED <<job, kept, foreground, orphaned>>,
           current' = current \/ current' = NoTask,
           (current' = NoTask) <=> (Point' \in Between),
           current' # NoTask => handoff' = handoff,
           \/ Point' = Point
           \/ /\ Point' \notin {"call", "started", "loop", "join"}
              /\ Point \notin {"started", "loop", "join"}
    PROVE  Slots' /\ Workers'
  <1>1. Numbering /\ Slot /\ OpenCall /\ Workers /\ TaskTypeOK
    BY DEF TaskInv, EndsAreReported, Slots
  <1>2. Numbering'
    BY <1>1 DEF Numbering
  <1>3. Point' \in {"call", "started", "loop", "join"} => Point' = Point /\ current' = current
    BY DEF Between
  <1>4. Slot'
    BY <1>1, <1>3 DEF Slot, Between
  <1>5. OpenCall'
    BY <1>1, <1>3 DEF OpenCall, Done
  <1>6. Workers'
    BY <1>1, <1>3 DEF Workers, Busy, Done, Between
  <1> QED
    BY <1>2, <1>4, <1>5, <1>6 DEF Slots

\* The same, with what the owner makes of the reports.
LEMMA QuietKeeps ==
    ASSUME TaskInv, TaskTypeOK', ReportedOnce', Slots', Workers',
           UNCHANGED <<job, kept, foreground, orphaned>>,
           current' = current \/ current' = NoTask,
           \A i \in DOMAIN prompts' : job[prompts'[i]].claimed,
           \A t \in told' : job[t].claimed,
           \A t \in todo' : job[t].background,
           draining' # NoTask => job[draining'].background,
           main' # "drain" => todo' = {} /\ draining' = NoTask,
           Point' = "off" =>
             Point = "off" /\ UNCHANGED <<handoff, todo, draining>>
    PROVE  TaskInv'
  <1>1. /\ ReportedOnce /\ ResultBeforeEnd /\ UnreportedIsKept /\ Reports
        /\ OneForegroundWorker /\ TaskTypeOK
    BY DEF TaskInv, EndsAreReported
  <1>2. Reports'
    BY <1>1 DEF Reports, Done
  <1>3. ResultBeforeEnd'
    BY <1>1 DEF ResultBeforeEnd, NoTask, Tasks
  <1>4. ExitReports'
    <2>1. main' = "off" => Point' = "off" /\ todo' = {} /\ draining' = NoTask
      BY DEF Point
    <2> QED
      BY <1>2, <2>1 DEF Reports, ExitReports, NoTask, Tasks
  <1>5. UnreportedIsKept' /\ OneForegroundWorker'
    BY <1>1 DEF UnreportedIsKept, OneForegroundWorker
  <1> QED
    BY <1>2, <1>3, <1>4, <1>5 DEF TaskInv, EndsAreReported

LEMMA SamePrompts ==
    ASSUME TaskInv, UNCHANGED <<job, prompts, told>>
    PROVE  /\ ReportedOnce'
           /\ \A i \in DOMAIN prompts' : job[prompts'[i]].claimed
           /\ \A t \in told' : job[t].claimed
  BY DEF TaskInv, EndsAreReported, ReportedOnce, Reports

-----------------------------------------------------------------------------
(* The steps that change no task. *)

LEMMA EndTurnKeeps == ASSUME TaskInv, EndTurn PROVE TaskInv'
  <1>1. /\ Point = "turn" /\ Point' = "idle" /\ main # "drain" /\ current' = current
        /\ UNCHANGED <<job, kept, foreground, preCancel, drainVars, handoff, prompts,
                       told, orphaned>>
    BY DEF EndTurn, Move, Point
  <1>2. TaskTypeOK'
    BY <1>1 DEF TaskInv, EndsAreReported, TaskTypeOK, EndTurn, Move, drainVars
  <1>3. Slots' /\ Workers'
    BY <1>1, PointKeeps DEF TaskInv, Slots, Slot, Between
  <1> QED
    BY <1>1, <1>2, <1>3, QuietKeeps, SamePrompts
    DEF TaskInv, Reports, drainVars, EndTurn, Move

LEMMA UserPromptKeeps == ASSUME TaskInv, UserPrompt PROVE TaskInv'
  <1>1. /\ Point = "idle" /\ Point' = "turn" /\ main # "drain" /\ current' = current
        /\ UNCHANGED <<job, kept, foreground, preCancel, drainVars, handoff, prompts,
                       told, orphaned>>
    BY DEF UserPrompt, Move, Point
  <1>2. TaskTypeOK'
    BY <1>1 DEF TaskInv, EndsAreReported, TaskTypeOK, UserPrompt, Move, drainVars, InTurn
  <1>3. Slots' /\ Workers'
    BY <1>1, PointKeeps DEF TaskInv, Slots, Slot, Between
  <1> QED
    BY <1>1, <1>2, <1>3, QuietKeeps, SamePrompts
    DEF TaskInv, Reports, drainVars, UserPrompt, Move

LEMMA FinishCallKeeps == ASSUME TaskInv, FinishCall PROVE TaskInv'
  <1>1. /\ Point = "ended" /\ Point' = "toolEnd" /\ main # "drain" /\ current' = current
        /\ UNCHANGED <<job, kept, foreground, preCancel, drainVars, handoff, prompts,
                       told, orphaned>>
    BY DEF FinishCall, Move, Point
  <1>2. TaskTypeOK'
    BY <1>1 DEF TaskInv, EndsAreReported, TaskTypeOK, FinishCall, Move, drainVars, InTurn
  <1>3. Slots' /\ Workers'
    BY <1>1, PointKeeps DEF TaskInv, Slots, Slot, Between
  <1> QED
    BY <1>1, <1>2, <1>3, QuietKeeps, SamePrompts
    DEF TaskInv, Reports, drainVars, FinishCall, Move

LEMMA ToolEndKeeps == ASSUME TaskInv, ToolEnd PROVE TaskInv'
  <1>0. TaskTypeOK /\ Reports
    BY DEF TaskInv, EndsAreReported
  <1>1. /\ Point = "toolEnd" /\ Point' = "turn" /\ main # "drain" /\ current' = NoTask
        /\ UNCHANGED <<job, kept, foreground, preCancel, prompts, told, orphaned>>
        /\ \/ main' = "turn" /\ UNCHANGED <<drainVars, handoff>>
           \/ /\ main' = "drain" /\ back' = "turn" /\ todo' = Managed
              /\ draining' = NoTask /\ handoff' = NoTask
    BY DEF ToolEnd, StartDrain, Point
  <1>2. TaskTypeOK'
    BY <1>0, <1>1 DEF TaskTypeOK, drainVars, InTurn, InTurnPoints, Managed
  <1>3. Slots' /\ Workers'
    BY <1>1, PointKeeps DEF Between
  <1> QED
    BY <1>0, <1>1, <1>2, <1>3, QuietKeeps, SamePrompts DEF Reports, drainVars, Managed

LEMMA StartDrainKeeps ==
    ASSUME TaskInv, TurnDrain \/ IdleDrain PROVE TaskInv'
  <1>0. TaskTypeOK
    BY DEF TaskInv, EndsAreReported
  <1>1. /\ main # "drain" /\ main' = "drain" /\ todo' = Managed /\ draining' = NoTask
        /\ UNCHANGED <<job, kept, foreground, preCancel, current, handoff, prompts,
                       told, orphaned>>
        /\ \/ main \in InTurnPoints /\ back' = main
           \/ main = "idle" /\ back' = "ready"
    BY DEF TurnDrain, IdleDrain, StartDrain, InTurnPoints
  <1>2. TaskTypeOK'
    BY <1>0, <1>1 DEF TaskTypeOK, InTurnPoints, Managed
  <1>3. Point = main /\ Point' = back'
    BY <1>1 DEF Point
  <1>4. Slots' /\ Workers'
    BY <1>1, <1>3, PointKeeps DEF TaskInv, Slots, Slot, Between, InTurnPoints
  <1> QED
    BY <1>1, <1>2, <1>3, <1>4, QuietKeeps, SamePrompts DEF Managed, InTurnPoints

LEMMA EndDrainKeeps == ASSUME TaskInv, EndDrain PROVE TaskInv'
  <1>0. TaskTypeOK
    BY DEF TaskInv, EndsAreReported
  <1>1. /\ main' = back /\ todo = {} /\ draining = NoTask /\ back # "drain"
        /\ UNCHANGED <<job, kept, foreground, preCancel, todo, draining, current,
                       handoff, prompts, told, orphaned>>
        /\ Point = back /\ Point' = back
    BY <1>0 DEF EndDrain, Point, TaskTypeOK, InTurnPoints
  <1>2. TaskTypeOK'
    BY <1>0, <1>1 DEF EndDrain, TaskTypeOK, InTurnPoints, InTurn
  <1>3. Slots' /\ Workers'
    BY <1>1, PointKeeps DEF TaskInv, Slots, Slot
  <1> QED
    BY <1>1, <1>2, <1>3, QuietKeeps, SamePrompts

LEMMA DispatchPromptKeeps == ASSUME TaskInv, DispatchPrompt PROVE TaskInv'
  <1>0. TaskTypeOK /\ Reports /\ ReportedOnce
    BY DEF TaskInv, EndsAreReported
  <1>1. /\ Point = "ready" /\ Point' \in {"idle", "turn"} /\ Point' = main'
        /\ main # "drain" /\ current' = current
        /\ UNCHANGED <<job, kept, foreground, preCancel, drainVars, handoff, orphaned>>
    BY DEF DispatchPrompt, Point
  <1>2. Slots' /\ Workers'
    BY <1>1, PointKeeps DEF TaskInv, Slots, Slot, Between
  <1>3. CASE prompts = <<>>
    <2>1. UNCHANGED <<prompts, told>>
      BY <1>3 DEF DispatchPrompt
    <2>2. TaskTypeOK'
      BY <1>0, <1>1, <2>1 DEF TaskTypeOK, drainVars, InTurn
    <2> QED
      BY <1>0, <1>1, <1>2, <2>1, <2>2, QuietKeeps, SamePrompts DEF Reports, drainVars
  <1>4. CASE prompts # <<>>
    <2>1. prompts' = Tail(prompts) /\ told' = told \cup {Head(prompts)}
      BY <1>4 DEF DispatchPrompt
    <2>2. /\ prompts' \in Seq(Tasks) /\ Head(prompts) = prompts[1] /\ 1 \in DOMAIN prompts
          /\ \A i \in DOMAIN prompts' : i + 1 \in DOMAIN prompts /\ i + 1 # 1
                                      /\ prompts'[i] = prompts[i + 1]
      BY <1>0, <1>4, <2>1 DEF TaskTypeOK
    <2>3. prompts[1] \in Tasks
      BY <1>0, <2>2 DEF TaskTypeOK
    <2>4. TaskTypeOK'
      BY <1>0, <1>1, <2>1, <2>2, <2>3 DEF TaskTypeOK, drainVars, InTurn
    <2>5. /\ \A i \in DOMAIN prompts' : job[prompts'[i]].claimed
          /\ \A t \in told' : job[t].claimed
      BY <1>0, <2>1, <2>2 DEF Reports
    <2>6. ASSUME NEW i \in DOMAIN prompts', NEW j \in DOMAIN prompts',
                 prompts'[i] = prompts'[j]
          PROVE  i = j
      <3>1. i \in Nat /\ j \in Nat /\ i + 1 = j + 1
        BY <1>0, <2>2, <2>6 DEF ReportedOnce
      <3> QED
        BY <3>1
    <2>7. \A i \in DOMAIN prompts' : prompts'[i] \notin told'
      BY <1>0, <2>1, <2>2 DEF ReportedOnce
    <2>8. ReportedOnce'
      BY <1>0, <1>1, <2>6, <2>7 DEF ReportedOnce
    <2> QED
      BY <1>0, <1>1, <1>2, <2>4, <2>5, <2>8, QuietKeeps DEF Reports, drainVars
  <1> QED
    BY <1>3, <1>4

-----------------------------------------------------------------------------
(* The steps of the open call. *)

LEMMA CurrentStepKeeps ==
    ASSUME TaskInv, current # NoTask, NEW r \in TaskRecord,
           job' = [job EXCEPT ![current] = r],
           job[current].status # "none", r.status \notin {"none", "refused"},
           ~r.claimed, job[current].background => r.background,
           r.result = "terminal" => ~r.background,
           kept' \subseteq Tasks, \A u \in kept' : u \in kept \/ u = current,
           \A u \in kept : u # current /\ job[u].background /\ ~job[u].claimed
                           => u \in kept',
           r.background => current \in kept',
           foreground' \in kept' \cup {NoTask},
           foreground' # NoTask =>
             /\ foreground' = current /\ main' \in {"started", "loop", "join"}
             /\ ~r.background /\ r.worker # "gone",
           preCancel' \subseteq Tasks, UNCHANGED <<drainVars, prompts, told>>,
           orphaned' \in BOOLEAN, orphaned => orphaned',
           main \in InTurn \cup {"join"},
           main' \in {"started", "loop", "ended", "join", "idle"},
           current' = IF main' = "idle" THEN NoTask ELSE current,
           handoff' \in Tasks \cup {NoTask},
           main' # "idle" /\ r.background => handoff' = current,
           main' = "started" =>
             /\ current \in kept' /\ r.status \in {"queued", "cancelling"}
             /\ r.worker = "none" /\ r.result = "none",
           main' = "loop" =>
             r.result = "none" /\ (r.worker = "none" => r.status \in Terminal),
           r.worker \in {"ready", "runner", "ending"} =>
             /\ r.status \notin Terminal
             /\ r.background \/ orphaned' \/ main' \in {"loop", "join"},
           r.worker \in {"pruning", "gone"} => r.status \in Terminal,
           r.worker = "ending" => r.verdict \in Terminal,
           r.background /\ r.worker = "none" =>
             r.status \in Terminal \/ main' = "started"
    PROVE  TaskInv'
  <1>0. /\ TaskTypeOK /\ Slots /\ Workers /\ Reports /\ OneForegroundWorker
        /\ UnreportedIsKept /\ current \in Tasks
    BY DEF TaskInv, EndsAreReported, TaskTypeOK
  <1>1. /\ job'[current] = r /\ \A u \in Tasks : u # current => job'[u] = job[u]
        /\ job' \in [Tasks -> TaskRecord]
    BY <1>0 DEF TaskTypeOK
  <1>2. Point' = main' /\ Point = main /\ main # "drain" /\ main # "off"
    BY DEF Point, InTurn
  <1>3. TaskTypeOK'
    BY <1>0, <1>1 DEF TaskTypeOK, drainVars, InTurn
  <1>4. Slots'
    <2>1. Numbering'
      BY <1>0, <1>1, NumberingKeeps
    <2>2. Slot'
      BY <1>0, <1>1, <1>2 DEF Slot, Between
    <2>3. OpenCall'
      BY <1>0, <1>1, <1>2 DEF OpenCall, Done, Slots
    <2> QED
      BY <2>1, <2>2, <2>3 DEF Slots
  <1>5. Workers'
    <2> SUFFICES ASSUME NEW t \in Tasks
                 PROVE  (/\ Busy(t) => ~Done(t)
                         /\ job[t].worker \in {"pruning", "gone"} => Done(t)
                         /\ job[t].worker = "ending" => job[t].verdict \in Terminal
                         /\ Busy(t) /\ ~job[t].background =>
                              orphaned \/ (t = current /\ Point \in {"loop", "join"})
                         /\ job[t].background /\ job[t].worker = "none" =>
                              Done(t) \/ (t = current /\ Point = "started"))'
      BY DEF Workers
    <2>1. CASE t = current
      BY <1>0, <1>1, <1>2, <2>1 DEF Busy, Done
    <2>2. CASE t # current
      BY <1>0, <1>1, <2>2 DEF Workers, Busy, Done
    <2> QED
      BY <2>1, <2>2
  <1>6. \A u \in Tasks : job'[u].claimed = job[u].claimed
    BY <1>0, <1>1 DEF Slots, OpenCall, TaskTypeOK, TaskRecord
  <1>7. \A u \in Tasks : job'[u].status # "refused"
    BY <1>0, <1>1 DEF OneForegroundWorker
  <1>8. \A u \in Tasks : job'[u].result = "terminal" => ~job'[u].background
    BY <1>0, <1>1 DEF Reports
  <1>9. \A u \in Tasks : job'[u].background /\ ~job'[u].claimed => u \in kept'
    BY <1>0, <1>1 DEF UnreportedIsKept
  <1>10. \A u \in Tasks : job[u].background => job'[u].background
    BY <1>0, <1>1
  <1> QED
    BY <1>2, <1>3, <1>4, <1>5, <1>6, <1>7, <1>8, <1>9, <1>10, MainStepKeeps
    DEF drainVars

\* What the steps of the open call may use.
LEMMA CurrentFacts ==
    ASSUME TaskInv, main \in {"call", "started", "loop", "join"}
    PROVE  /\ Point = main /\ current # NoTask /\ current \in Tasks
           /\ job \in [Tasks -> TaskRecord] /\ job[current] \in TaskRecord
           /\ job[current].status \notin {"none", "refused"} /\ ~job[current].claimed
           /\ job[current].background => handoff = current
           /\ kept \subseteq Tasks /\ foreground \in kept \cup {NoTask}
           /\ foreground # NoTask =>
                /\ foreground = current /\ ~job[current].background
                /\ job[current].worker # "gone"
           /\ preCancel \subseteq Tasks /\ handoff \in Tasks \cup {NoTask}
           /\ orphaned \in BOOLEAN
           /\ main = "call" => foreground = NoTask
                              /\ job[current] = [Fresh EXCEPT !.status = "called"]
           /\ main = "started" =>
                /\ current \in kept /\ job[current].status \in {"queued", "cancelling"}
                /\ job[current].worker = "none" /\ job[current].result = "none"
           /\ main = "loop" =>
                /\ job[current].result = "none"
                /\ job[current].worker = "none" => Done(current)
           /\ job[current].background => current \in kept
  <1>1. Point = main
    BY DEF Point
  <1>2. current # NoTask
    BY <1>1 DEF TaskInv, Slots, Slot, Between
  <1>3. TaskTypeOK /\ Slots /\ UnreportedIsKept /\ OneForegroundWorker /\ Workers
    BY DEF TaskInv, EndsAreReported
  <1>4. current \in Tasks /\ job[current] \in TaskRecord
    BY <1>2, <1>3 DEF TaskTypeOK
  <1>5. job[current].status # "none"
    BY <1>2, <1>3 DEF Slots, Numbering
  <1> QED
    BY <1>1, <1>2, <1>3, <1>4, <1>5
    DEF TaskTypeOK, Slots, Slot, OpenCall, OneForegroundWorker, UnreportedIsKept

LEMMA CreateTaskKeeps == ASSUME TaskInv, CreateTask PROVE TaskInv'
  <1> DEFINE t == current
             new == [job[t] EXCEPT !.status = "queued"]
             r == IF t \in preCancel THEN Cancelled(new) ELSE new
  <1>1. main = "call" /\ t # NoTask /\ foreground = NoTask
    BY CurrentFacts DEF CreateTask
  <1>2. new \in TaskRecord /\ new.status = "queued" /\ Same(new, job[t])
        /\ new.worker = job[t].worker
    BY <1>1, CurrentFacts, StatusType
  <1>3. ~new.claimed /\ ~new.background /\ new.worker = "none" /\ new.result = "none"
    BY <1>1, <1>2, CurrentFacts DEF Same, Fresh
  <1>4. /\ job' = [job EXCEPT ![t] = r] /\ kept' = kept \cup {t} /\ foreground' = t
        /\ preCancel' = preCancel \ {t} /\ Move("started")
    BY <1>1 DEF CreateTask
  <1> HIDE DEF new
  <1>5. /\ r \in TaskRecord /\ r.status \in {"queued", "cancelling"} /\ ~r.claimed
        /\ ~r.background /\ r.worker = "none" /\ r.result = "none"
    BY <1>2, <1>3, CancelledType DEF Terminal
  <1> HIDE DEF r
  <1>6. /\ kept' \subseteq Tasks /\ \A u \in kept' : u \in kept \/ u = t
        /\ kept \subseteq kept' /\ t \in kept' /\ preCancel' \subseteq Tasks
    BY <1>1, <1>4, CurrentFacts
  <1>7. /\ current' = current /\ main' = "started" /\ orphaned' = orphaned
        /\ UNCHANGED <<drainVars, prompts, told, handoff>>
    BY <1>4 DEF Move
  <1>8. /\ job[t].status # "none" /\ ~job[t].background /\ orphaned \in BOOLEAN
        /\ handoff \in Tasks \cup {NoTask}
    BY <1>1, <1>2, <1>3, CurrentFacts DEF Same
  <1> QED
    BY <1>1, <1>4, <1>5, <1>6, <1>7, <1>8, CurrentStepKeeps DEF InTurn

LEMMA AdvanceKeeps == ASSUME TaskInv, Advance PROVE TaskInv'
  <1> DEFINE t == current
  <1>1. main = "started" /\ t # NoTask /\ Move("loop") /\ UNCHANGED preCancel
    BY CurrentFacts DEF Advance
  <1>2. CASE job[t].cancel
    <2> DEFINE r == [job[t] EXCEPT !.status = "cancelled"]
    <2>1. /\ r \in TaskRecord /\ r.status = "cancelled" /\ Same(r, job[t])
          /\ r.worker = job[t].worker
      BY <1>1, CurrentFacts, StatusType DEF Terminal
    <2>2. job' = [job EXCEPT ![t] = r] /\ UNCHANGED <<kept, foreground>>
      BY <1>2, <1>1, CurrentFacts DEF Advance
    <2> HIDE DEF r
    <2> QED
      BY <1>1, <2>1, <2>2, CurrentFacts, CurrentStepKeeps
      DEF Move, InTurn, Same, Terminal
  <1>3. CASE ~job[t].cancel
    <2>1. LaunchWorker(t, job[t])
      BY <1>3 DEF Advance
    <2>2. PICK q \in TaskRecord :
             /\ job' = [job EXCEPT ![t] = q] /\ Same(q, job[t])
             /\ \/ q.worker = "ready" /\ q.status = job[t].status
                \/ q.worker = job[t].worker /\ q.status = "failed"
      BY <1>1, <2>1, CurrentFacts, LaunchOutcome
    <2>3. Registry(job')
      BY <1>1, <2>1, CurrentFacts, LaunchOutcome
    <2>4. \A u \in kept : u # t => job'[u] = job[u]
      BY <1>1, <2>2, CurrentFacts
    <2> QED
      BY <1>1, <2>2, <2>3, <2>4, CurrentFacts, CurrentStepKeeps
      DEF Move, InTurn, Same, Terminal, Registry
  <1> QED
    BY <1>2, <1>3

LEMMA StartInBackgroundKeeps == ASSUME TaskInv, StartInBackground PROVE TaskInv'
  <1> DEFINE t == current
             b == [job[t] EXCEPT !.background = TRUE]
             r == [b EXCEPT !.result = "backgrounded"]
  <1>1. /\ main = "started" /\ main' = "ended" /\ t # NoTask /\ t \in Tasks
        /\ UNCHANGED <<preCancel, drainVars, current, prompts, told, orphaned>>
    BY CurrentFacts DEF StartInBackground
  <1>2. /\ b \in TaskRecord /\ b.background /\ b.status = job[t].status
        /\ b.worker = job[t].worker /\ b.claimed = job[t].claimed
    BY <1>1, CurrentFacts DEF TaskRecord
  <1>3. r = [job[t] EXCEPT !.background = TRUE, !.result = "backgrounded"]
    OBVIOUS
  <1> HIDE DEF b
  <1>4. /\ r \in TaskRecord /\ r.background /\ r.status = job[t].status
        /\ r.worker = job[t].worker /\ ~r.claimed /\ r.result = "backgrounded"
    BY <1>1, <1>2, CurrentFacts DEF TaskRecord
  <1> HIDE DEF r
  <1>5. CASE /\ handoff' = t /\ foreground' = NoTask /\ UNCHANGED kept
             /\ job' = [job EXCEPT ![t] = [r EXCEPT !.worker = "ready"]]
    <2> DEFINE q == [r EXCEPT !.worker = "ready"]
    <2>1. /\ q \in TaskRecord /\ q.worker = "ready" /\ q.status = r.status
          /\ Same(q, r)
      BY <1>4 DEF TaskRecord, Same
    <2>2. \A u \in kept : u # t => job'[u] = job[u]
      BY <1>1, <1>5, CurrentFacts
    <2>3. job' = [job EXCEPT ![t] = q]
      BY <1>5
    <2> HIDE DEF q
    <2> QED
      BY <1>1, <1>4, <1>5, <2>1, <2>2, <2>3, CurrentFacts, CurrentStepKeeps
      DEF InTurn, Same, Terminal
  <1>6. CASE /\ handoff' = t
             /\ FinishTask(t, [job EXCEPT ![t] = [r EXCEPT !.status = "failed"]])
    <2> DEFINE q == [r EXCEPT !.status = "failed"]
    <2>1. /\ q \in TaskRecord /\ q.worker = r.worker /\ q.status = "failed"
          /\ Same(q, r)
      BY <1>4, StatusType DEF Terminal
    <2>2. FinishTask(t, [job EXCEPT ![t] = q])
      BY <1>6
    <2> HIDE DEF q
    <2>3. job' = [job EXCEPT ![t] = q] /\ Registry(job') /\ foreground' # t
      BY <1>1, <2>2, FinishedRegistry
    <2>4. \A u \in kept : u # t => job'[u] = job[u]
      BY <1>1, <2>3, CurrentFacts
    <2>5. /\ kept' \subseteq kept /\ t \in kept' /\ foreground' = NoTask
          /\ \A u \in kept : u # t /\ job[u].background /\ ~job[u].claimed => u \in kept'
      BY <1>1, <2>3, <2>4, CurrentFacts DEF Registry
    <2> QED
      BY <1>1, <1>4, <1>6, <2>1, <2>3, <2>5, CurrentFacts, CurrentStepKeeps
      DEF InTurn, Same, Terminal
  <1>7. CASE NeverStarted(t, job[t]) /\ UNCHANGED handoff
    <2>1. ~Done(t)
      BY <1>1, CurrentFacts DEF Done, Terminal
    <2>2. PICK q \in TaskRecord :
                /\ job' = [job EXCEPT ![t] = q] /\ q.status = "cancelled"
                /\ q.worker = job[t].worker /\ q.background = job[t].background
                /\ q.claimed = job[t].claimed /\ q.result = job[t].result
                /\ q.cancel
      BY <1>1, <1>7, <2>1, NeverStartedOutcome
    <2>3. Registry(job') /\ foreground' # t
      BY <1>1, <1>7, <2>1, NeverStartedOutcome, FinishedRegistry DEF NeverStarted
    <2>4. \A u \in kept : u # t => job'[u] = job[u]
      BY <1>1, <2>2, CurrentFacts
    <2>5. /\ kept' \subseteq kept /\ t \in kept' /\ foreground' = NoTask
          /\ \A u \in kept : u # t /\ job[u].background /\ ~job[u].claimed => u \in kept'
      BY <1>1, <2>3, <2>4, CurrentFacts DEF Registry
    <2> QED
      BY <1>1, <1>7, <2>2, <2>3, <2>5, CurrentFacts, CurrentStepKeeps
      DEF InTurn, Terminal
  <1> QED
    BY <1>3, <1>5, <1>6, <1>7 DEF StartInBackground

LEMMA FinishedCurrent ==
    ASSUME TaskInv, main \in {"started", "loop", "join"}, NEW q \in TaskRecord,
           FinishTask(current, [job EXCEPT ![current] = q])
    PROVE  /\ job' = [job EXCEPT ![current] = q] /\ kept' \subseteq kept
           /\ foreground' = NoTask /\ (current \in kept => current \in kept')
           /\ \A u \in kept : u # current /\ job[u].background /\ ~job[u].claimed
                            => u \in kept'
  <1>1. current # NoTask /\ current \in Tasks /\ job \in [Tasks -> TaskRecord]
        /\ kept \subseteq Tasks
    BY CurrentFacts
  <1>2. foreground = NoTask \/ foreground = current
    BY CurrentFacts
  <1>3. /\ job' = [job EXCEPT ![current] = q] /\ Registry(job')
        /\ foreground' # current
    BY <1>1, FinishedRegistry
  <1>4. \A u \in kept : u # current => job'[u] = job[u]
    BY <1>1, <1>3
  <1> QED
    BY <1>1, <1>2, <1>3, <1>4 DEF Registry

LEMMA ResumeLoopKeeps == ASSUME TaskInv, ResumeLoop PROVE TaskInv'
  <1> DEFINE t == current
  <1>1. main = "loop" /\ t # NoTask /\ t \in Tasks /\ UNCHANGED preCancel
    BY CurrentFacts DEF ResumeLoop
  <1>2. Workers
    BY DEF TaskInv
  <1>3. CASE job[t].background
    <2> DEFINE r == [job[t] EXCEPT !.result = "backgrounded"]
    <2>1. FinishTask(t, [job EXCEPT ![t] = r]) /\ Move("ended")
      BY <1>1, <1>3, CurrentFacts DEF ResumeLoop
    <2>2. /\ r \in TaskRecord /\ r.status = job[t].status /\ r.worker = job[t].worker
          /\ r.background /\ ~r.claimed /\ r.result = "backgrounded"
          /\ r.verdict = job[t].verdict
      BY <1>1, <1>3, CurrentFacts DEF TaskRecord
    <2> HIDE DEF r
    <2> QED
      BY <1>1, <1>2, <1>3, <2>1, <2>2, CurrentFacts, FinishedCurrent, CurrentStepKeeps
      DEF Move, InTurn, Workers, Busy, Done
  <1>4. CASE ~job[t].background
    <2> DEFINE c == [job[t] EXCEPT !.changed = IF @ = "pending" THEN "applied" ELSE @]
    <2>1. /\ c \in TaskRecord /\ c.status = job[t].status /\ c.worker = job[t].worker
          /\ ~c.background /\ ~c.claimed /\ c.result = "none"
          /\ c.verdict = job[t].verdict
      BY <1>1, <1>4, CurrentFacts DEF TaskRecord
    <2>2. CASE Done(t)
      <3> DEFINE r == [c EXCEPT !.result = "terminal"]
      <3>1. FinishTask(t, [job EXCEPT ![t] = r]) /\ Move("ended")
        BY <1>4, <2>2 DEF ResumeLoop
      <3> HIDE DEF c
      <3>2. /\ r \in TaskRecord /\ r.status = job[t].status /\ r.worker = job[t].worker
            /\ ~r.background /\ ~r.claimed /\ r.verdict = job[t].verdict
        BY <2>1 DEF TaskRecord
      <3> HIDE DEF r
      <3> QED
        BY <1>1, <1>2, <1>4, <2>2, <3>1, <3>2, CurrentFacts, FinishedCurrent, CurrentStepKeeps
        DEF Move, InTurn, Workers, Busy, Done
    <2>3. CASE ~Done(t)
      <3>1. job' = [job EXCEPT ![t] = c] /\ UNCHANGED <<kept, foreground>> /\ Move("loop")
        BY <1>4, <2>3 DEF ResumeLoop
      <3> HIDE DEF c
      <3> QED
        BY <1>1, <1>2, <1>4, <2>1, <2>3, <3>1, CurrentFacts, CurrentStepKeeps
        DEF Move, InTurn, Workers, Busy, Done
    <2> QED
      BY <2>2, <2>3
  <1> QED
    BY <1>3, <1>4

LEMMA CtrlBKeeps == ASSUME TaskInv, CtrlB PROVE TaskInv'
  <1> DEFINE t == current
             r == [job[t] EXCEPT !.background = TRUE]
  <1>1. /\ main \in {"started", "loop"} /\ t # NoTask /\ t \in Tasks /\ main' = main
        /\ job' = [job EXCEPT ![t] = r] /\ foreground' = NoTask /\ handoff' = t
        /\ foreground = t /\ job[t].status \in {"queued", "running"}
        /\ UNCHANGED <<kept, preCancel, drainVars, current, prompts, told, orphaned>>
    BY CurrentFacts DEF CtrlB, MayBackground
  <1>2. /\ r \in TaskRecord /\ r.status = job[t].status /\ r.worker = job[t].worker
        /\ r.background /\ ~r.claimed /\ r.result = job[t].result
        /\ r.verdict = job[t].verdict
    BY <1>1, CurrentFacts DEF TaskRecord
  <1>3. Workers /\ t \in kept /\ ~Done(t)
    BY <1>1, CurrentFacts DEF TaskInv, Done, Terminal
  <1>4. job[t].result = "none" /\ (main = "loop" => job[t].worker # "none")
    BY <1>1, <1>3, CurrentFacts
  <1> HIDE DEF r
  <1> QED
    BY <1>1, <1>2, <1>3, <1>4, CurrentFacts, CurrentStepKeeps
    DEF InTurn, Workers, Busy, Done, Terminal

LEMMA JoinedKeeps == ASSUME TaskInv, Joined PROVE TaskInv'
  <1> DEFINE t == current
  <1>1. /\ main = "join" /\ main' = "idle" /\ current' = NoTask /\ t \in Tasks
        /\ orphaned' = (orphaned \/ job[t].worker # "gone") /\ FinishTask(t, job)
        /\ UNCHANGED <<preCancel, drainVars, handoff, prompts, told>>
    BY CurrentFacts DEF Joined
  <1>2. job = [job EXCEPT ![t] = job[t]]
    BY <1>1, CurrentFacts
  <1>3. /\ job' = [job EXCEPT ![t] = job[t]] /\ kept' \subseteq kept
        /\ foreground' = NoTask /\ (t \in kept => t \in kept')
        /\ \A u \in kept : u # t /\ job[u].background /\ ~job[u].claimed => u \in kept'
    BY <1>1, <1>2, CurrentFacts, FinishedCurrent
  <1>4. Workers /\ Reports
    BY DEF TaskInv
  <1>5. orphaned' \in BOOLEAN /\ (orphaned => orphaned')
    BY <1>1, CurrentFacts
  <1>6. job[t].worker \in {"ready", "runner", "ending"} => orphaned'
    BY <1>1
  <1>7. /\ Busy(t) => ~Done(t)
        /\ job[t].worker \in {"pruning", "gone"} => Done(t)
        /\ job[t].worker = "ending" => job[t].verdict \in Terminal
        /\ job[t].background /\ job[t].worker = "none" => Done(t)
        /\ job[t].result = "terminal" => ~job[t].background
    BY <1>1, <1>4, CurrentFacts DEF Workers, Reports
  <1> QED
    BY <1>1, <1>3, <1>5, <1>6, <1>7, CurrentFacts, CurrentStepKeeps DEF InTurn, Busy, Done

\* The turn is cut off while its call has no worker that waits.
LEMMA InterruptedPoint ==
    ASSUME TaskInv, KeyboardInterrupt, main \notin {"started", "loop"} PROVE TaskInv'
  <1>0. TaskTypeOK /\ Reports
    BY DEF TaskInv, EndsAreReported
  <1>1. /\ main \in {"turn", "call", "ended", "toolEnd"} /\ main' = "idle"
        /\ current' = NoTask
        /\ UNCHANGED <<job, kept, foreground, preCancel, drainVars, handoff, prompts,
                       told, orphaned>>
    BY DEF KeyboardInterrupt, InTurn
  <1>2. Point = main /\ Point' = "idle"
    BY <1>1 DEF Point
  <1>3. TaskTypeOK'
    BY <1>0, <1>1 DEF TaskTypeOK, drainVars
  <1>4. Slots' /\ Workers'
    BY <1>1, <1>2, PointKeeps DEF Between
  <1> QED
    BY <1>0, <1>1, <1>2, <1>3, <1>4, QuietKeeps, SamePrompts DEF Reports, drainVars

LEMMA InterruptedStart ==
    ASSUME TaskInv, KeyboardInterrupt, main = "started" PROVE TaskInv'
  <1> DEFINE t == current
  <1>1. /\ main' = "idle" /\ current' = NoTask /\ t \in Tasks /\ CloseStarted(t)
        /\ UNCHANGED <<preCancel, drainVars, handoff, prompts, told, orphaned>>
    BY CurrentFacts DEF KeyboardInterrupt
  <1>2. CASE job[t].background /\ ~job[t].cancel
    <2>1. LaunchWorker(t, job[t])
      BY <1>1, <1>2 DEF CloseStarted
    <2>2. PICK q \in TaskRecord :
             /\ job' = [job EXCEPT ![t] = q] /\ Same(q, job[t])
             /\ \/ q.worker = "ready" /\ q.status = job[t].status
                \/ q.worker = job[t].worker /\ q.status = "failed"
      BY <1>1, <2>1, CurrentFacts, LaunchOutcome
    <2>3. Registry(job') /\ foreground = NoTask
      BY <1>1, <1>2, <2>1, CurrentFacts, LaunchOutcome
    <2>4. \A u \in kept : u # t => job'[u] = job[u]
      BY <1>1, <2>2, CurrentFacts
    <2>5. /\ kept' \subseteq kept /\ t \in kept' /\ foreground' = NoTask
          /\ \A u \in kept : u # t /\ job[u].background /\ ~job[u].claimed => u \in kept'
      BY <1>1, <2>3, <2>4, CurrentFacts DEF Registry
    <2> QED
      BY <1>1, <1>2, <2>2, <2>5, CurrentFacts, CurrentStepKeeps DEF InTurn, Same, Terminal
  <1>3. CASE ~(job[t].background /\ ~job[t].cancel)
    <2>1. ~Done(t) /\ NeverStarted(t, job[t])
      BY <1>1, <1>3, CurrentFacts DEF Done, Terminal, CloseStarted
    <2>2. PICK q \in TaskRecord :
                /\ job' = [job EXCEPT ![t] = q] /\ q.status = "cancelled"
                /\ q.worker = job[t].worker /\ q.background = job[t].background
                /\ q.claimed = job[t].claimed /\ q.result = job[t].result
                /\ q.cancel
      BY <1>1, <2>1, NeverStartedOutcome
    <2>3. Registry(job') /\ foreground' # t
      BY <1>1, <2>1, NeverStartedOutcome, FinishedRegistry, CurrentFacts DEF NeverStarted
    <2>4. \A u \in kept : u # t => job'[u] = job[u]
      BY <1>1, <2>2, CurrentFacts
    <2>5. /\ kept' \subseteq kept /\ t \in kept' /\ foreground' = NoTask
          /\ \A u \in kept : u # t /\ job[u].background /\ ~job[u].claimed => u \in kept'
      BY <1>1, <2>3, <2>4, CurrentFacts DEF Registry
    <2> QED
      BY <1>1, <2>2, <2>5, CurrentFacts, CurrentStepKeeps DEF InTurn, Terminal
  <1> QED
    BY <1>2, <1>3

LEMMA InterruptedLoop ==
    ASSUME TaskInv, KeyboardInterrupt, main = "loop" PROVE TaskInv'
  <1> DEFINE t == current
  <1>1. t \in Tasks /\ t # NoTask
        /\ UNCHANGED <<preCancel, drainVars, handoff, prompts, told, orphaned>>
    BY CurrentFacts DEF KeyboardInterrupt
  <1>2. Workers
    BY DEF TaskInv
  <1>3. /\ Busy(t) => ~Done(t)
        /\ job[t].worker \in {"pruning", "gone"} => Done(t)
        /\ job[t].worker = "ending" => job[t].verdict \in Terminal
        /\ job[t].background /\ job[t].worker = "none" => Done(t)
        /\ job[t].result = "none" /\ (job[t].worker = "none" => Done(t))
    BY <1>1, <1>2, CurrentFacts DEF Workers
  <1>4. CASE ~job[t].background /\ ~Done(t)
    <2>1. /\ main' = "join" /\ current' = t /\ job' = [job EXCEPT ![t] = Cancelled(job[t])]
          /\ UNCHANGED <<kept, foreground>>
      BY <1>4, CurrentFacts DEF KeyboardInterrupt
    <2> DEFINE r == Cancelled(job[t])
    <2>2. /\ r \in TaskRecord /\ r.status = "cancelling" /\ r.worker = job[t].worker
          /\ r.verdict = job[t].verdict /\ ~r.background /\ ~r.claimed
          /\ r.result = "none"
      BY <1>3, <1>4, CurrentFacts, CancelledType DEF Done
    <2> HIDE DEF r
    <2>3. job' = [job EXCEPT ![t] = r]
      BY <2>1 DEF r
    <2>4. r.worker \in {"ready", "runner", "ending"} /\ "cancelling" \notin Terminal
      BY <1>1, <1>3, <1>4, <2>2, CurrentFacts DEF Terminal, TaskRecord
    <2> QED
      BY <1>1, <1>3, <1>4, <2>1, <2>2, <2>3, <2>4, CurrentFacts, CurrentStepKeeps DEF InTurn
  <1>5. CASE job[t].background \/ Done(t)
    <2>1. /\ main' = "idle" /\ current' = NoTask /\ FinishTask(t, job)
          /\ job = [job EXCEPT ![t] = job[t]]
      BY <1>5, CurrentFacts DEF KeyboardInterrupt
    <2>2. /\ job' = [job EXCEPT ![t] = job[t]] /\ kept' \subseteq kept
          /\ foreground' = NoTask /\ (t \in kept => t \in kept')
          /\ \A u \in kept : u # t /\ job[u].background /\ ~job[u].claimed => u \in kept'
      BY <2>1, CurrentFacts, FinishedCurrent
    <2> QED
      BY <1>1, <1>3, <1>5, <2>1, <2>2, CurrentFacts, CurrentStepKeeps DEF InTurn, Busy, Done
  <1> QED
    BY <1>4, <1>5

LEMMA KeyboardInterruptKeeps == ASSUME TaskInv, KeyboardInterrupt PROVE TaskInv'
  BY InterruptedPoint, InterruptedStart, InterruptedLoop

-----------------------------------------------------------------------------
(* Cancels, by any key or command, and the first step of a call. *)

\* Some of the tasks are cancelled.
LEMMA CancelsKeep ==
    ASSUME TaskInv, job' \in [Tasks -> TaskRecord], TaskTypeOK',
           \A u \in Tasks : job'[u] = job[u] \/ (job[u].status # "none" /\ job'[u] = Cancelled(job[u])),
           UNCHANGED <<kept, foreground, drainVars, current, handoff, prompts, told,
                       orphaned>>,
           main \in {"idle", "turn", "started", "loop"},
           main' = main \/ (main = "idle" /\ main' = "closing")
    PROVE  TaskInv'
  <1>0. /\ TaskTypeOK /\ Slots /\ Workers /\ Reports /\ OneForegroundWorker
        /\ UnreportedIsKept
    BY DEF TaskInv, EndsAreReported
  <1>1. /\ Point' = main' /\ Point = main
    BY DEF Point
  <1>2. \A u \in Tasks :
           /\ job'[u].worker = job[u].worker /\ job'[u].verdict = job[u].verdict
           /\ job'[u].background = job[u].background /\ job'[u].claimed = job[u].claimed
           /\ job'[u].result = job[u].result
           /\ job'[u].status = job[u].status
              \/ /\ job[u].status \notin Terminal /\ job[u].status # "none"
                 /\ job'[u].status = "cancelling"
    BY <1>0, CancelledType DEF TaskTypeOK
  <1>3. Numbering'
    <2>1. \A u \in Tasks : (job'[u].status = "none") <=> (job[u].status = "none")
      BY <1>0, <1>2 DEF Slots, Numbering
    <2>2. \A u \in Tasks : job[u].status = "none" => job'[u] = job[u]
      BY <1>0 DEF Slots, Numbering
    <2>3. current # NoTask => job[current].status # "none"
      BY <1>0 DEF Slots, Numbering
    <2> QED
      BY <1>0, <2>1, <2>2, <2>3, NumberingKeeps DEF TaskTypeOK
  <1>4. Slot'
    BY <1>0, <1>1, <1>2 DEF Slots, Slot, Between, TaskTypeOK
  <1>5. OpenCall'
    <2>1. current # NoTask => current \in Tasks
      BY <1>0 DEF TaskTypeOK
    <2>2. main \in {"started", "loop"} => current # NoTask
      BY <1>0, <1>1 DEF Slots, Slot, Between
    <2> QED
      BY <1>0, <1>1, <1>2, <2>1, <2>2 DEF Slots, OpenCall, Done, Terminal
  <1>6. Workers'
    BY <1>0, <1>1, <1>2 DEF Workers, Busy, Done, Terminal
  <1>7. \A u \in Tasks : job'[u].status # "refused"
    BY <1>0, <1>2 DEF OneForegroundWorker
  <1> QED
    BY <1>0, <1>2, <1>3, <1>4, <1>5, <1>6, <1>7, MainStepKeeps
    DEF Slots, drainVars, Reports, UnreportedIsKept

LEMMA EscKeeps == ASSUME TaskInv, Esc PROVE TaskInv'
  <1> DEFINE t == current
  <1>0. TaskTypeOK /\ Reports
    BY DEF TaskInv, EndsAreReported
  <1>1. /\ main \in {"call", "started", "loop"} /\ t \in Tasks
        /\ UNCHANGED <<kept, foreground, main, back, todo, draining, current, handoff,
                       prompts, told, orphaned, drainVars, Point>>
    BY CurrentFacts DEF Esc, mainVars, drainVars, Point
  <1>2. CASE main = "call"
    <2>1. preCancel' = preCancel \cup {t} /\ UNCHANGED job
      BY <1>2 DEF Esc
    <2>2. TaskTypeOK'
      BY <1>0, <1>1, <2>1 DEF TaskTypeOK
    <2>3. Slots' /\ Workers'
      BY <1>1, <2>1, PointKeeps DEF TaskInv, Slots, Slot
    <2> QED
      BY <1>0, <1>1, <2>1, <2>2, <2>3, QuietKeeps, SamePrompts DEF Reports
  <1>3. CASE main \in {"started", "loop"}
    <2> DEFINE r == Cancelled(job[t])
    <2>1. job' = [job EXCEPT ![t] = r] /\ UNCHANGED preCancel
      BY <1>3 DEF Esc
    <2>2. r \in TaskRecord
      BY <1>0, <1>1, CancelledType DEF TaskTypeOK
    <2>3. r.worker = job[t].worker
      BY <1>0, <1>1, CancelledType DEF TaskTypeOK
    <2> HIDE DEF r
    <2>4. TaskTypeOK'
      BY <1>0, <1>1, <2>1, <2>2, <2>3 DEF TaskTypeOK
    <2>5. job[t].status # "none"
      BY <1>1, CurrentFacts
    <2> QED
      BY <1>0, <1>1, <1>3, <2>1, <2>2, <2>4, <2>5, CancelsKeep DEF TaskTypeOK, r
  <1> QED
    BY <1>1, <1>2, <1>3

LEMMA KillKeeps == ASSUME TaskInv, Kill PROVE TaskInv'
  <1>0. TaskTypeOK /\ Slots
    BY DEF TaskInv, EndsAreReported
  <1>1. PICK t \in Managed : ~Done(t) /\ job' = [job EXCEPT ![t] = Cancelled(job[t])]
    BY <1>0 DEF Kill, Managed, TaskTypeOK
  <1>2. t \in Tasks /\ job[t].status # "none"
    BY <1>0, <1>1 DEF Managed, TaskTypeOK, Slots, Numbering
  <1> DEFINE r == Cancelled(job[t])
  <1>3. r \in TaskRecord /\ r.worker = job[t].worker
    BY <1>0, <1>2, CancelledType DEF TaskTypeOK
  <1>4. job' = [job EXCEPT ![t] = r]
    BY <1>1
  <1>5. /\ UNCHANGED <<kept, foreground, preCancel, drainVars, current, handoff, prompts,
                       told, orphaned, main>>
        /\ main \in {"idle", "turn", "loop"}
    BY DEF Kill, mainVars
  <1> HIDE DEF r
  <1>6. TaskTypeOK'
    BY <1>0, <1>2, <1>3, <1>4, <1>5 DEF TaskTypeOK, drainVars
  <1> QED
    BY <1>0, <1>2, <1>4, <1>5, <1>6, CancelsKeep DEF TaskTypeOK, r

LEMMA ShutdownKeeps == ASSUME TaskInv, Shutdown PROVE TaskInv'
  <1>0. TaskTypeOK /\ Slots
    BY DEF TaskInv, EndsAreReported
  <1>1. /\ UNCHANGED <<kept, foreground, preCancel, drainVars, current, handoff, prompts,
                       told, orphaned>>
        /\ main = "idle" /\ main' = "closing"
        /\ job' = [t \in Tasks |-> IF t \in kept /\ ~Done(t) THEN Cancelled(job[t])
                                  ELSE job[t]]
    BY DEF Shutdown, Move
  <1>2. \A u \in Tasks : job'[u] = job[u]
                           \/ (job[u].status # "none" /\ job'[u] = Cancelled(job[u]))
    BY <1>0, <1>1 DEF Slots, Numbering
  <1>3. \A u \in Tasks : Cancelled(job[u]) \in TaskRecord
                           /\ Cancelled(job[u]).worker = job[u].worker
    BY <1>0, CancelledType DEF TaskTypeOK
  <1>4. job' \in [Tasks -> TaskRecord] /\ \A u \in Tasks : job'[u].worker = job[u].worker
    BY <1>0, <1>1, <1>3 DEF TaskTypeOK
  <1>5. TaskTypeOK'
    BY <1>0, <1>1, <1>4 DEF TaskTypeOK, drainVars
  <1> QED
    BY <1>1, <1>2, <1>4, <1>5, CancelsKeep

LEMMA BeginCallKeeps == ASSUME TaskInv, BeginCall PROVE TaskInv'
  <1>0. /\ TaskTypeOK /\ Slots /\ Workers /\ Reports /\ OneForegroundWorker
        /\ UnreportedIsKept
    BY DEF TaskInv, EndsAreReported
  <1>1. PICK t \in Tasks :
             /\ job[t].status = "none" /\ \A u \in 1..(t - 1) : job[u].status # "none"
             /\ current' = t
             /\ job' = [job EXCEPT ![t].status = "called"]
    BY DEF BeginCall
  <1> DEFINE r == [Fresh EXCEPT !.status = "called"]
  <1>2. /\ UNCHANGED <<kept, foreground, preCancel, drainVars, handoff, prompts, told,
                       orphaned>>
        /\ main = "turn" /\ main' = "call" /\ Point = "turn" /\ Point' = "call"
    BY DEF BeginCall, Point
  <1>3. /\ current = NoTask /\ foreground = NoTask /\ t # NoTask
        /\ job[t] = Fresh /\ t \notin kept
    BY <1>0, <1>1, <1>2 DEF Slots, Slot, Between, Numbering, NoTask, Tasks, TaskTypeOK
  <1>4. job' = [job EXCEPT ![t] = r] /\ r \in TaskRecord
    BY <1>0, <1>1, <1>3 DEF TaskRecord, Fresh
  <1>5. /\ job'[t] = r /\ \A u \in Tasks : u # t => job'[u] = job[u]
        /\ job' \in [Tasks -> TaskRecord]
    BY <1>0, <1>4 DEF TaskTypeOK
  <1>6. /\ r.status = "called" /\ r.worker = "none" /\ ~r.background /\ ~r.claimed
        /\ r.result = "none"
    BY DEF Fresh
  <1>7. TaskTypeOK'
    BY <1>0, <1>1, <1>2, <1>3, <1>5 DEF TaskTypeOK, drainVars, InTurn
  <1>8. Slots'
    <2>1. \A u, v \in Tasks :
             u < v /\ job'[v].status # "none" => job'[u].status # "none"
      BY <1>0, <1>1, <1>5, <1>6 DEF Slots, Numbering, Tasks
    <2>2. \A u \in Tasks : job'[u].status = "none" => job'[u] = Fresh
      BY <1>0, <1>5, <1>6 DEF Slots, Numbering
    <2>3. \A u \in kept' : job'[u].status # "none"
      BY <1>0, <1>2, <1>5, <1>6 DEF Slots, Numbering, TaskTypeOK
    <2>0. t \in Nat /\ \A u \in Tasks : t < u => u # t
      BY DEF Tasks
    <2>4. \A u \in Tasks : t < u => job'[u].status = "none"
      BY <1>0, <1>1, <1>5, <2>0 DEF Slots, Numbering
    <2>5. Numbering'
      BY <1>1, <1>5, <1>6, <2>1, <2>2, <2>3, <2>4 DEF Numbering
    <2>6. Slot' /\ OpenCall'
      BY <1>1, <1>2, <1>3, <1>5, <1>6 DEF Slot, OpenCall, Between
    <2> QED
      BY <2>5, <2>6 DEF Slots
  <1> HIDE DEF r
  <1>9. Workers'
    BY <1>0, <1>1, <1>2, <1>3, <1>5, <1>6 DEF Workers, Busy, Done, Terminal
  <1>10. \A u \in Tasks : job'[u].status # "refused"
    BY <1>0, <1>5, <1>6 DEF OneForegroundWorker
  <1>11. /\ \A u \in Tasks : job'[u].claimed = job[u].claimed
         /\ \A u \in Tasks : job'[u].background = job[u].background
    BY <1>3, <1>5, <1>6 DEF Fresh, r
  <1>12. /\ \A u \in Tasks : job'[u].result = "terminal" => ~job'[u].background
         /\ \A u \in Tasks : job'[u].background /\ ~job'[u].claimed => u \in kept'
    BY <1>0, <1>2, <1>5, <1>6 DEF Reports, UnreportedIsKept
  <1> QED
    BY <1>2, <1>7, <1>8, <1>9, <1>10, <1>11, <1>12, MainStepKeeps DEF drainVars

-----------------------------------------------------------------------------
(* Draining. *)

\* The events or the end of a background task are taken.
LEMMA DrainStepKeeps ==
    ASSUME TaskInv, main = "drain", NEW t \in Tasks, job[t].background,
           NEW r \in TaskRecord, job' = [job EXCEPT ![t] = r],
           r.status = job[t].status, r.worker = job[t].worker,
           r.verdict = job[t].verdict, r.background, r.result = job[t].result,
           r.cancel = job[t].cancel,
           job[t].claimed => r.claimed, r.claimed => job[t].claimed \/ t # current,
           kept' \subseteq kept, foreground' \in kept' \cup {NoTask},
           foreground' = foreground \/ foreground' = NoTask,
           current # NoTask /\ current \in kept => current \in kept',
           \A u \in kept : u # t /\ job[u].background /\ ~job[u].claimed => u \in kept',
           ~r.claimed => t \in kept',
           UNCHANGED <<preCancel, main, back, current, handoff, told, orphaned>>,
           todo' \subseteq todo, draining' = NoTask \/ draining' \in todo,
           \A u \in Tasks : u \in todo \cup {draining} =>
             \/ u \in todo' \cup {draining'}
             \/ u = t /\ (r.claimed \/ (handoff # t => ~Done(t))),
           prompts' \in Seq(Tasks), ReportedOnce',
           \A i \in DOMAIN prompts' : job'[prompts'[i]].claimed
    PROVE  TaskInv'
  <1>0. /\ TaskTypeOK /\ Slots /\ Workers /\ Reports /\ OneForegroundWorker
        /\ UnreportedIsKept /\ ResultBeforeEnd
    BY DEF TaskInv, EndsAreReported
  <1>1. /\ job'[t] = r /\ \A u \in Tasks : u # t => job'[u] = job[u]
        /\ job' \in [Tasks -> TaskRecord]
    BY <1>0 DEF TaskTypeOK
  <1>2. Point' = Point
    BY DEF Point
  <1>3. /\ \A u \in Tasks : job'[u].status = job[u].status
        /\ \A u \in Tasks : job'[u].worker = job[u].worker
        /\ \A u \in Tasks : job'[u].verdict = job[u].verdict
        /\ \A u \in Tasks : job'[u].background <=> job[u].background
        /\ \A u \in Tasks : job'[u].result = job[u].result
        /\ \A u \in Tasks : job[u].claimed => job'[u].claimed
        /\ \A u \in Tasks : job'[u].claimed => job[u].claimed \/ u # current
    BY <1>1
  <1>4. TaskTypeOK'
    BY <1>0, <1>1, <1>3 DEF TaskTypeOK
  <1>5. job[t].status # "none"
    BY <1>0 DEF Slots, Numbering, Fresh
  <1>6. Slots'
    <2>1. Numbering'
      <3>1. current # NoTask => job[current].status # "none"
        BY <1>0 DEF Slots, Numbering
      <3> QED
        BY <1>0, <1>1, <1>3, <1>5, <3>1, NumberingKeeps DEF TaskTypeOK
    <2>2. Slot'
      BY <1>0, <1>2, <1>3 DEF Slots, Slot, TaskTypeOK
    <2>3. Point = "call" => current # t
      BY <1>0 DEF Slots, OpenCall, Fresh
    <2>4. current # NoTask => current \in Tasks
      BY <1>0 DEF TaskTypeOK
    <2>5. Point \in {"call", "started", "loop"} => current # NoTask
      BY <1>0 DEF Slots, Slot, Between
    <2>6. OpenCall'
      BY <1>0, <1>1, <1>2, <1>3, <2>3, <2>4, <2>5 DEF Slots, OpenCall, Done
    <2> QED
      BY <2>1, <2>2, <2>6 DEF Slots
  <1>7. Workers'
    BY <1>0, <1>2, <1>3 DEF Workers, Busy, Done
  <1>8. Reports'
    <2>1. /\ \A u \in Tasks : job'[u].claimed => job'[u].background
          /\ \A u \in Tasks : job'[u].result = "terminal" => ~job'[u].background
          /\ \A u \in todo' : job'[u].background
          /\ draining' # NoTask => job'[draining'].background
          /\ \A u \in told' : job'[u].claimed
      BY <1>0, <1>1, <1>3 DEF Reports, TaskTypeOK
    <2>2. ASSUME Point' = "off", ~orphaned', NEW u \in Tasks, job'[u].background,
                 ~job'[u].claimed
          PROVE  Done(u)' /\ u \in todo' \cup {draining'}
      BY <1>0, <1>1, <1>2, <1>3, <2>2 DEF Reports, Done, NoTask, Tasks
    <2>3. Point' = "off" /\ ~orphaned' => handoff' = NoTask
      BY <1>0, <1>2 DEF Reports
    <2> QED
      BY <2>1, <2>2, <2>3 DEF Reports
  <1>9. OneForegroundWorker'
    BY <1>0, <1>3, <1>7, ExclusiveSlot DEF OneForegroundWorker
  <1>10. ResultBeforeEnd'
    BY <1>0, <1>3 DEF ResultBeforeEnd
  <1>11. UnreportedIsKept'
    BY <1>0, <1>1 DEF UnreportedIsKept
  <1>12. ExitReports'
    BY DEF ExitReports
  <1> QED
    BY <1>4, <1>6, <1>7, <1>8, <1>9, <1>10, <1>11, <1>12 DEF TaskInv, EndsAreReported

LEMMA DrainEventsKeeps == ASSUME TaskInv, DrainEvents PROVE TaskInv'
  <1>0. TaskTypeOK /\ Slots /\ Reports /\ ReportedOnce
    BY DEF TaskInv, EndsAreReported
  <1>1. PICK t \in todo :
          /\ draining' = t /\ todo' = todo \ {t}
          /\ job' = [job EXCEPT ![t].changed = IF @ = "pending" THEN "applied" ELSE @]
    BY DEF DrainEvents
  <1>2. /\ main = "drain" /\ draining = NoTask
        /\ UNCHANGED <<kept, foreground, preCancel, main, back, current, handoff, prompts,
                       told, orphaned>>
    BY DEF DrainEvents
  <1>3. t \in Tasks /\ job[t].background /\ t # NoTask
    BY <1>0, <1>1 DEF TaskTypeOK, Reports, NoTask, Tasks
  <1> DEFINE r == [job[t] EXCEPT !.changed = IF @ = "pending" THEN "applied" ELSE @]
  <1>4. /\ r \in TaskRecord /\ r.status = job[t].status /\ r.worker = job[t].worker
        /\ r.verdict = job[t].verdict /\ r.background /\ r.result = job[t].result
        /\ r.cancel = job[t].cancel /\ r.claimed = job[t].claimed
    BY <1>0, <1>3 DEF TaskTypeOK, TaskRecord
  <1>5. job' = [job EXCEPT ![t] = r]
    BY <1>0, <1>1, <1>3 DEF TaskTypeOK
  <1> HIDE DEF r
  <1>6. /\ \A u \in Tasks : job'[u].claimed = job[u].claimed
        /\ \A u \in Tasks : job'[u].result = job[u].result
    BY <1>0, <1>3, <1>4, <1>5 DEF TaskTypeOK
  <1>7. \A i \in DOMAIN prompts : prompts[i] \in Tasks
    BY <1>0 DEF TaskTypeOK
  <1>8. ReportedOnce' /\ \A i \in DOMAIN prompts' : job'[prompts'[i]].claimed
    BY <1>0, <1>2, <1>6, <1>7 DEF ReportedOnce, Reports
  <1>9. ~r.claimed => t \in kept'
    BY <1>2, <1>3, <1>4 DEF TaskInv, EndsAreReported, UnreportedIsKept
  <1>10. /\ prompts' \in Seq(Tasks) /\ foreground' \in kept' \cup {NoTask}
    BY <1>0, <1>2 DEF TaskTypeOK
  <1>11. /\ todo' \subseteq todo /\ draining' \in todo
         /\ \A u \in Tasks : u \in todo \cup {draining} => u \in todo' \cup {draining'}
    BY <1>1, <1>2 DEF NoTask, Tasks
  <1>12. /\ \A u \in kept : u \in kept'
         /\ current # NoTask /\ current \in kept => current \in kept'
         /\ foreground' = foreground /\ kept' \subseteq kept
    BY <1>2
  <1> QED
    BY <1>2, <1>3, <1>4, <1>5, <1>8, <1>9, <1>10, <1>11, <1>12, DrainStepKeeps

LEMMA ClaimTerminalKeeps == ASSUME TaskInv, ClaimTerminal PROVE TaskInv'
  <1> DEFINE t == draining
  <1>0. TaskTypeOK /\ Slots /\ Reports /\ ReportedOnce
    BY DEF TaskInv, EndsAreReported
  <1>1. /\ main = "drain" /\ t # NoTask /\ draining' = NoTask
        /\ UNCHANGED <<preCancel, main, back, todo, current, handoff, told, orphaned>>
    BY DEF ClaimTerminal
  <1>2. t \in Tasks /\ job[t] \in TaskRecord /\ job[t].background
    BY <1>0, <1>1 DEF TaskTypeOK, Reports
  <1>3. \A i \in DOMAIN prompts : prompts[i] \in Tasks
    BY <1>0 DEF TaskTypeOK
  <1>4. CASE t # handoff /\ Done(t) /\ ~job[t].claimed
    <2> DEFINE r == [job[t] EXCEPT !.claimed = TRUE]
    <2>1. /\ r \in TaskRecord /\ r.status = job[t].status /\ r.worker = job[t].worker
          /\ r.verdict = job[t].verdict /\ r.background /\ r.result = job[t].result
          /\ r.cancel = job[t].cancel /\ r.claimed
      BY <1>2 DEF TaskRecord
    <2>2. /\ FinishTask(t, [job EXCEPT ![t] = r])
          /\ prompts' = IF job[t].status = "cancelled" THEN prompts ELSE Append(prompts, t)
      BY <1>4, <1>1 DEF ClaimTerminal
    <2> HIDE DEF r
    <2>3. job' = [job EXCEPT ![t] = r] /\ Registry(job')
      BY <2>2, FinishedRegistry
    <2>4. t # current
      BY <1>0, <1>1, <1>2, <1>4 DEF Slots, OpenCall
    <2>5. \A u \in Tasks : u # t => job'[u] = job[u]
      BY <1>0, <2>3 DEF TaskTypeOK
    <2>6. /\ kept' \subseteq kept /\ foreground' \in kept' \cup {NoTask}
          /\ foreground' = foreground \/ foreground' = NoTask
          /\ current # NoTask /\ current \in kept => current \in kept'
      BY <2>3 DEF Registry
    <2>7. \A u \in kept : u # t /\ job[u].background /\ ~job[u].claimed => u \in kept'
      BY <1>0, <2>3, <2>5 DEF Registry, TaskTypeOK
    <2>8. t \notin told /\ \A i \in DOMAIN prompts : prompts[i] # t
      BY <1>0, <1>4 DEF Reports
    <2>9. job'[t] = r
      BY <1>0, <1>2, <2>3 DEF TaskTypeOK
    <2>10. /\ \A u \in Tasks : job[u].claimed => job'[u].claimed
           /\ \A u \in Tasks : job'[u].result = job[u].result
           /\ \A u \in Tasks : job'[u].claimed => job[u].claimed \/ u = t
      BY <2>1, <2>5, <2>9
    <2>11. /\ prompts' \in Seq(Tasks)
           /\ \A i \in DOMAIN prompts' :
                \/ i \in DOMAIN prompts /\ prompts'[i] = prompts[i]
                \/ i = Len(prompts) + 1 /\ prompts'[i] = t
      BY <1>0, <1>2, <2>2 DEF TaskTypeOK
    <2>12. \A i \in DOMAIN prompts' : job'[prompts'[i]].claimed
      BY <1>0, <1>3, <2>1, <2>9, <2>10, <2>11 DEF Reports
    <2>13. \A u \in Tasks : ~(job'[u].claimed /\ job'[u].result = "terminal")
      BY <1>0, <1>2, <2>10 DEF ReportedOnce, Reports
    <2>14. \A i, j \in DOMAIN prompts' : prompts'[i] = prompts'[j] => i = j
      BY <1>0, <2>8, <2>11 DEF ReportedOnce
    <2>15. \A i \in DOMAIN prompts' : prompts'[i] \notin told'
      BY <1>0, <1>1, <2>8, <2>11 DEF ReportedOnce
    <2>16. ReportedOnce'
      BY <2>13, <2>14, <2>15 DEF ReportedOnce
    <2> QED
      BY <1>1, <1>2, <2>1, <2>3, <2>4, <2>6, <2>7, <2>11, <2>12, <2>16, DrainStepKeeps
  <1>5. CASE ~(t # handoff /\ Done(t) /\ ~job[t].claimed)
    <2>1. UNCHANGED <<job, kept, foreground, prompts>>
      BY <1>5 DEF ClaimTerminal
    <2>2. job' = [job EXCEPT ![t] = job[t]]
      BY <1>0, <2>1 DEF TaskTypeOK
    <2>3. ReportedOnce' /\ \A i \in DOMAIN prompts' : job'[prompts'[i]].claimed
      BY <1>1, <2>1, SamePrompts
    <2>4. /\ \A u \in kept : u \in kept'
          /\ current # NoTask /\ current \in kept => current \in kept'
          /\ foreground' = foreground /\ kept' \subseteq kept
          /\ foreground' \in kept' \cup {NoTask} /\ prompts' \in Seq(Tasks)
      BY <1>0, <2>1 DEF TaskTypeOK
    <2>5. ~job[t].claimed => t \in kept'
      BY <1>2, <2>1 DEF TaskInv, EndsAreReported, UnreportedIsKept
    <2> QED
      BY <1>1, <1>2, <1>5, <2>2, <2>3, <2>4, <2>5, DrainStepKeeps
  <1> QED
    BY <1>4, <1>5

LEMMA ShutdownJoinedKeeps == ASSUME TaskInv, ShutdownJoined PROVE TaskInv'
  <1>0. /\ TaskTypeOK /\ Slots /\ Workers /\ Reports /\ OneForegroundWorker
        /\ UnreportedIsKept /\ ReportedOnce
    BY DEF TaskInv, EndsAreReported
  <1>1. /\ main = "closing" /\ main' = "drain" /\ back' = "off" /\ todo' = Managed
        /\ draining' = NoTask /\ foreground' = NoTask /\ kept' = Pruned(job)
        /\ handoff' = NoTask /\ UNCHANGED <<job, preCancel, current, prompts, told>>
        /\ orphaned' = (orphaned \/ \E t \in kept : job[t].worker \notin {"none", "gone"})
    BY DEF ShutdownJoined, StartDrain
  <1>2. Point = "closing" /\ Point' = "off" /\ current = NoTask
    BY <1>0, <1>1 DEF Point, Slots, Slot, Between
  <1>3. kept' \subseteq kept /\ \A u \in kept : job[u].background /\ ~job[u].claimed
                                              => u \in kept'
    BY <1>0, <1>1, PrunedKeeps DEF Prunable, TaskTypeOK
  <1>4. orphaned' \in BOOLEAN /\ (orphaned => orphaned')
    BY <1>0, <1>1 DEF TaskTypeOK
  <1>5. TaskTypeOK'
    BY <1>0, <1>1, <1>3, <1>4 DEF TaskTypeOK, Managed
  <1>6. Slots'
    BY <1>0, <1>1, <1>2, <1>3 DEF Slots, Numbering, Slot, OpenCall, Between
  <1>7. Workers'
    BY <1>0, <1>1, <1>2, <1>4 DEF Workers, Busy, Done
  <1>8. Reports'
    <2>1. ASSUME ~orphaned', NEW u \in Tasks, job[u].background, ~job[u].claimed
          PROVE  Done(u) /\ u \in Managed
      <3>1. u \in kept /\ u \in Managed
        BY <1>0, <2>1 DEF UnreportedIsKept, Managed
      <3>2. job[u].worker \in {"none", "gone"}
        BY <1>1, <2>1, <3>1
      <3> QED
        BY <1>0, <1>2, <2>1, <3>1, <3>2 DEF Workers
    <2>2. \A u \in todo' : job[u].background
      BY <1>1 DEF Managed
    <2> QED
      BY <1>0, <1>1, <1>2, <2>1, <2>2 DEF Reports, Done
  <1>9. ReportedOnce' /\ UnreportedIsKept'
    BY <1>0, <1>1, <1>3, SamePrompts DEF UnreportedIsKept
  <1>10. ResultBeforeEnd' /\ ExitReports'
    BY <1>1, <1>2 DEF ResultBeforeEnd, ExitReports, NoTask, Tasks
  <1>11. OneForegroundWorker'
    BY <1>0, <1>1, <1>7, ExclusiveSlot DEF OneForegroundWorker
  <1> QED
    BY <1>5, <1>6, <1>7, <1>8, <1>9, <1>10, <1>11 DEF TaskInv, EndsAreReported

LEMMA StutterKeeps == ASSUME TaskInv, UNCHANGED taskVars PROVE TaskInv'
  BY DEF TaskInv, EndsAreReported, TaskTypeOK, OneForegroundWorker, ReportedOnce,
         ResultBeforeEnd, UnreportedIsKept, ExitReports, Slots, Numbering, Slot,
         OpenCall, Point, Workers, Busy, Done, Reports, taskVars, mainVars, drainVars

LEMMA TaskInvInductive == TaskInv /\ [TaskNext]_taskVars => TaskInv'
  <1> SUFFICES ASSUME TaskInv, [TaskNext]_taskVars PROVE TaskInv'
    OBVIOUS
  <1>1. CASE Agent
    BY <1>1, BeginCallKeeps, EndTurnKeeps, CreateTaskKeeps, AdvanceKeeps,
       StartInBackgroundKeeps, ResumeLoopKeeps, FinishCallKeeps, ToolEndKeeps DEF Agent
  <1>2. CASE Owner
    BY <1>2, EscKeeps, CtrlBKeeps, KillKeeps, StartDrainKeeps, DrainEventsKeeps,
       ClaimTerminalKeeps, EndDrainKeeps, DispatchPromptKeeps, UserPromptKeeps,
       ShutdownKeeps, ShutdownJoinedKeeps, StutterKeeps DEF Owner, Drain, Off
  <1>3. CASE Interrupt
    BY <1>3, KeyboardInterruptKeeps, JoinedKeeps DEF Interrupt
  <1>4. CASE \E t \in Tasks : Worker(t)
    BY <1>4, WorkersKeep
  <1> QED
    BY <1>1, <1>2, <1>3, <1>4, StutterKeeps DEF TaskNext, QuietNext

\* The strengthening holds in every reachable state of the session.
THEOREM TaskInvHolds == TaskSpec => []TaskInv
  BY InitTaskInv, TaskInvInductive, PTL DEF TaskSpec

\* Whatever the owner cancels, sends to the background or interrupts, and
\* whenever a worker ends: one call has the slot, and every background end is
\* journaled once, between the result of its call and the end of the session.
THEOREM EndsReported == TaskSpec => []EndsAreReported
  <1>1. TaskInv => EndsAreReported
    BY DEF TaskInv
  <1> QED
    BY <1>1, TaskInvHolds, PTL

-----------------------------------------------------------------------------
(* What no step undoes: the end of a task, and an early cancel. *)

KeptOutcome(r, q) ==
    /\ r.status \in Terminal => q.status = r.status
    /\ r.cancel /\ r.worker \in {"none", "ready"} =>
         \/ q.cancel /\ q.worker \in {"none", "ready"}
         \/ q.verdict = "cancelled" \/ q.status = "cancelled"

OutcomesKept ==
    /\ \A t \in Tasks : KeptOutcome(job[t], job'[t])
    /\ \A t \in preCancel : t \in preCancel'
                            \/ (job'[t].cancel /\ job'[t].worker \in {"none", "ready"})

LEMMA OneOutcome ==
    ASSUME TaskInv, NEW t, NEW q, job' = [job EXCEPT ![t] = q],
           KeptOutcome(job[t], q), UNCHANGED preCancel
    PROVE  OutcomesKept
  BY DEF OutcomesKept, KeptOutcome, TaskInv, EndsAreReported, TaskTypeOK

LEMMA SameOutcomes ==
    ASSUME UNCHANGED <<job, preCancel>> PROVE OutcomesKept
  BY DEF OutcomesKept, KeptOutcome

LEMMA WorkerOutcome == ASSUME TaskInv, NEW t \in Tasks, Worker(t) PROVE OutcomesKept
  <1>0. /\ job \in [Tasks -> TaskRecord] /\ job[t] \in TaskRecord
        /\ Busy(t) => ~Done(t)
    BY DEF TaskInv, EndsAreReported, TaskTypeOK, Workers
  <1>1. UNCHANGED preCancel
    BY DEF Worker, WorkerStart, WorkerChange, WorkerReturn, WorkerFinish, WorkerExit,
           WorkerVars
  <1>2. CASE WorkerStart(t)
    <2> DEFINE m == Marked(job[t])
               r == IF job[t].cancel
                    THEN [m EXCEPT !.worker = "ending", !.verdict = "cancelled"]
                    ELSE [m EXCEPT !.worker = "runner"]
    <2>1. m \in TaskRecord
      BY <1>0, MarkedType
    <2>2. job' = [job EXCEPT ![t] = r]
      BY <1>0, <1>2 DEF WorkerStart
    <2>3. ~Done(t)
      BY <1>0, <1>2 DEF WorkerStart, Busy
    <2> HIDE DEF m
    <2>4. job[t].cancel => r.verdict = "cancelled"
      BY <2>1 DEF TaskRecord
    <2> HIDE DEF r
    <2> QED
      BY <1>1, <2>2, <2>3, <2>4, OneOutcome DEF KeptOutcome, Done
  <1>3. CASE WorkerChange(t)
    <2>1. job' = [job EXCEPT ![t] = [job[t] EXCEPT !.changed = "pending"]]
      BY <1>0, <1>3 DEF WorkerChange
    <2>2. KeptOutcome(job[t], [job[t] EXCEPT !.changed = "pending"])
      BY <1>0 DEF KeptOutcome, TaskRecord
    <2> QED
      BY <1>1, <2>1, <2>2, OneOutcome
  <1>4. CASE WorkerReturn(t)
    <2>1. PICK v : job' = [job EXCEPT ![t].worker = "ending", ![t].verdict = v]
      BY <1>4 DEF WorkerReturn
    <2> DEFINE r == [job[t] EXCEPT !.worker = "ending", !.verdict = v]
    <2>2. job' = [job EXCEPT ![t] = r]
      BY <1>0, <2>1
    <2>3. KeptOutcome(job[t], r)
      BY <1>0, <1>4 DEF KeptOutcome, TaskRecord, WorkerReturn
    <2> QED
      BY <1>1, <2>2, <2>3, OneOutcome
  <1>5. CASE WorkerFinish(t)
    <2>1. PICK s : job' = [job EXCEPT ![t].worker = "pruning", ![t].verdict = "none",
                                       ![t].status = s]
      BY <1>5 DEF WorkerFinish
    <2> DEFINE r == [job[t] EXCEPT !.worker = "pruning", !.verdict = "none", !.status = s]
    <2>2. job' = [job EXCEPT ![t] = r]
      BY <1>0, <2>1
    <2>3. ~Done(t) /\ job[t].worker = "ending"
      BY <1>0, <1>5 DEF WorkerFinish, Busy
    <2>4. KeptOutcome(job[t], r)
      BY <2>3 DEF KeptOutcome, Done
    <2> QED
      BY <1>1, <2>2, <2>4, OneOutcome
  <1>6. CASE WorkerExit(t)
    <2>1. job' = [job EXCEPT ![t] = [job[t] EXCEPT !.worker = "gone"]]
      BY <1>0, <1>6 DEF WorkerExit, FinishTask
    <2>2. KeptOutcome(job[t], [job[t] EXCEPT !.worker = "gone"])
      BY <1>0, <1>6 DEF KeptOutcome, TaskRecord, WorkerExit
    <2> QED
      BY <1>1, <2>1, <2>2, OneOutcome
  <1> QED
    BY <1>2, <1>3, <1>4, <1>5, <1>6 DEF Worker

\* The records of the other steps, as far as outcomes go.
LEMMA LaunchKeepsOutcome ==
    ASSUME TaskInv, NEW t \in Tasks, LaunchWorker(t, job[t]), ~Done(t),
           UNCHANGED preCancel
    PROVE  OutcomesKept
  <1>1. job[t] \in TaskRecord
    BY DEF TaskInv, EndsAreReported, TaskTypeOK
  <1>2. PICK q \in TaskRecord :
           /\ job' = [job EXCEPT ![t] = q] /\ Same(q, job[t])
           /\ \/ q.worker = "ready" /\ q.status = job[t].status
              \/ q.worker = job[t].worker /\ q.status = "failed"
    BY <1>1, LaunchOutcome
  <1> QED
    BY <1>2, OneOutcome DEF KeptOutcome, Same, Done

LEMMA NeverStartedKeepsOutcome ==
    ASSUME TaskInv, NEW t \in Tasks, NeverStarted(t, job[t]), ~Done(t),
           UNCHANGED preCancel
    PROVE  OutcomesKept
  <1>1. PICK q : job' = [job EXCEPT ![t] = q] /\ q.status = "cancelled"
    BY NeverStartedOutcome
  <1> QED
    BY <1>1, OneOutcome DEF KeptOutcome, Done

LEMMA CancelKeepsOutcome ==
    ASSUME TaskInv, NEW r \in TaskRecord PROVE KeptOutcome(r, Cancelled(r))
  BY CancelledType DEF KeptOutcome

LEMMA AgentOutcome == ASSUME TaskInv, Agent PROVE OutcomesKept
  <1> DEFINE t == current
  <1>0. TaskTypeOK /\ Slots
    BY DEF TaskInv, EndsAreReported
  <1>1. CASE BeginCall
    <2>1. PICK u \in Tasks : job[u].status = "none" /\ job' = [job EXCEPT ![u].status = "called"]
      BY <1>1 DEF BeginCall
    <2>2. job' = [job EXCEPT ![u] = [job[u] EXCEPT !.status = "called"]] /\ job[u] = Fresh
      BY <1>0, <2>1 DEF Slots, Numbering, TaskTypeOK
    <2>3. KeptOutcome(job[u], [job[u] EXCEPT !.status = "called"])
      BY <2>2 DEF KeptOutcome, Fresh, Terminal
    <2>4. UNCHANGED preCancel
      BY <1>1 DEF BeginCall
    <2> QED
      BY <2>2, <2>3, <2>4, OneOutcome
  <1>2. CASE EndTurn \/ FinishCall \/ ToolEnd
    BY <1>2, SameOutcomes DEF EndTurn, FinishCall, ToolEnd
  <1>3. CASE CreateTask
    <2> DEFINE new == [job[t] EXCEPT !.status = "queued"]
               r == IF t \in preCancel THEN Cancelled(new) ELSE new
    <2>1. main = "call" /\ t # NoTask /\ t \in Tasks /\ foreground = NoTask
      BY <1>3, CurrentFacts DEF CreateTask
    <2>2. job[t] = [Fresh EXCEPT !.status = "called"] /\ job[t] \in TaskRecord
      BY <2>1, CurrentFacts
    <2>3. new \in TaskRecord /\ new.status = "queued" /\ new.worker = "none"
      BY <2>2, StatusType DEF Fresh
    <2>4. job' = [job EXCEPT ![t] = r] /\ preCancel' = preCancel \ {t}
      BY <1>3, <2>1 DEF CreateTask
    <2> HIDE DEF new
    <2>5. r.worker = "none" /\ (t \in preCancel => r.cancel)
      BY <2>3, CancelledType DEF Terminal
    <2> HIDE DEF r
    <2>6. job'[t] = r /\ \A u \in Tasks : u # t => job'[u] = job[u]
      BY <1>0, <2>1, <2>4 DEF TaskTypeOK
    <2>7. KeptOutcome(job[t], r)
      BY <2>2 DEF KeptOutcome, Fresh, Terminal
    <2> QED
      BY <1>0, <2>4, <2>5, <2>6, <2>7 DEF OutcomesKept, KeptOutcome, TaskTypeOK
  <1>4. CASE Advance
    <2>1. main = "started" /\ t \in Tasks /\ ~Done(t) /\ UNCHANGED preCancel
      BY <1>4, CurrentFacts DEF Advance, Done, Terminal
    <2>2. CASE job[t].cancel
      <3>1. job' = [job EXCEPT ![t] = [job[t] EXCEPT !.status = "cancelled"]]
        BY <1>0, <1>4, <2>2 DEF Advance, TaskTypeOK
      <3>2. KeptOutcome(job[t], [job[t] EXCEPT !.status = "cancelled"])
        BY <1>0, <2>1 DEF KeptOutcome, TaskTypeOK, TaskRecord, Done
      <3> QED
        BY <2>1, <3>1, <3>2, OneOutcome
    <2>3. CASE ~job[t].cancel
      BY <1>4, <2>1, <2>3, LaunchKeepsOutcome DEF Advance
    <2> QED
      BY <2>2, <2>3
  <1>5. CASE StartInBackground
    <2>1. main = "started" /\ t \in Tasks /\ ~Done(t) /\ UNCHANGED preCancel
          /\ job[t].worker = "none" /\ job[t] \in TaskRecord
      BY <1>5, CurrentFacts DEF StartInBackground, Done, Terminal
    <2> DEFINE r == [job[t] EXCEPT !.background = TRUE, !.result = "backgrounded"]
    <2>2. /\ KeptOutcome(job[t], [r EXCEPT !.worker = "ready"])
          /\ KeptOutcome(job[t], [r EXCEPT !.status = "failed"])
      BY <2>1 DEF KeptOutcome, TaskRecord, Done
    <2>3. \/ job' = [job EXCEPT ![t] = [r EXCEPT !.worker = "ready"]]
          \/ job' = [job EXCEPT ![t] = [r EXCEPT !.status = "failed"]]
          \/ NeverStarted(t, job[t])
      BY <1>5 DEF StartInBackground, FinishTask
    <2> HIDE DEF r
    <2> QED
      BY <2>1, <2>2, <2>3, OneOutcome, NeverStartedKeepsOutcome
  <1>6. CASE ResumeLoop
    <2>1. t \in Tasks /\ job[t] \in TaskRecord /\ UNCHANGED preCancel
      BY <1>6, CurrentFacts DEF ResumeLoop
    <2> DEFINE c == [job[t] EXCEPT !.changed = IF @ = "pending" THEN "applied" ELSE @]
    <2>2. /\ c \in TaskRecord /\ c.status = job[t].status /\ c.worker = job[t].worker
          /\ c.cancel = job[t].cancel /\ KeptOutcome(job[t], c)
      BY <2>1 DEF TaskRecord, KeptOutcome
    <2>3. \/ job' = [job EXCEPT ![t] = [job[t] EXCEPT !.result = "backgrounded"]]
          \/ job' = [job EXCEPT ![t] = [c EXCEPT !.result = "terminal"]]
          \/ job' = [job EXCEPT ![t] = c]
      BY <1>0, <1>6 DEF ResumeLoop, FinishTask, TaskTypeOK
    <2>4. KeptOutcome(job[t], [job[t] EXCEPT !.result = "backgrounded"])
      BY <2>1 DEF TaskRecord, KeptOutcome
    <2> HIDE DEF c
    <2>5. KeptOutcome(job[t], [c EXCEPT !.result = "terminal"])
      BY <2>2 DEF TaskRecord, KeptOutcome
    <2> QED
      BY <2>1, <2>2, <2>3, <2>4, <2>5, OneOutcome
  <1> QED
    BY <1>1, <1>2, <1>3, <1>4, <1>5, <1>6 DEF Agent

LEMMA OwnerOutcome == ASSUME TaskInv, Owner PROVE OutcomesKept
  <1> DEFINE t == current
  <1>0. TaskTypeOK /\ Slots
    BY DEF TaskInv, EndsAreReported
  <1>1. CASE Esc
    <2>1. CASE main = "call"
      BY <1>1, <2>1 DEF Esc, OutcomesKept, KeptOutcome
    <2>2. CASE main # "call"
      <3>1. /\ job' = [job EXCEPT ![t] = Cancelled(job[t])] /\ UNCHANGED preCancel
            /\ t \in Tasks
        BY <1>1, <2>2, CurrentFacts DEF Esc
      <3> QED
        BY <1>0, <3>1, CancelKeepsOutcome, OneOutcome DEF TaskTypeOK
    <2> QED
      BY <2>1, <2>2
  <1>2. CASE CtrlB
    <2> DEFINE r == [job[t] EXCEPT !.background = TRUE]
    <2>1. /\ job' = [job EXCEPT ![t] = r] /\ UNCHANGED preCancel /\ t \in Tasks
      BY <1>0, <1>2, CurrentFacts DEF CtrlB, TaskTypeOK
    <2>2. KeptOutcome(job[t], r)
      BY <1>0, <2>1 DEF TaskTypeOK, TaskRecord, KeptOutcome
    <2> QED
      BY <2>1, <2>2, OneOutcome
  <1>3. CASE Kill
    <2>1. PICK u \in Managed : job' = [job EXCEPT ![u] = Cancelled(job[u])]
      BY <1>0, <1>3 DEF Kill, Managed, TaskTypeOK
    <2> QED
      BY <1>0, <1>3, <2>1, CancelKeepsOutcome, OneOutcome DEF TaskTypeOK, Managed, Kill
  <1>4. CASE Shutdown
    <2>1. \A u \in Tasks : KeptOutcome(job[u], job[u])
      BY DEF KeptOutcome
    <2>2. \A u \in Tasks : job'[u] = job[u] \/ job'[u] = Cancelled(job[u])
      BY <1>4 DEF Shutdown
    <2>3. \A u \in Tasks : KeptOutcome(job[u], job'[u])
      BY <1>0, <2>1, <2>2, CancelKeepsOutcome DEF TaskTypeOK
    <2> QED
      BY <1>4, <2>3 DEF OutcomesKept, Shutdown
  <1>5. CASE DrainEvents
    <2>1. PICK u \in todo :
            job' = [job EXCEPT ![u].changed = IF @ = "pending" THEN "applied" ELSE @]
      BY <1>5 DEF DrainEvents
    <2> DEFINE r == [job[u] EXCEPT !.changed = IF @ = "pending" THEN "applied" ELSE @]
    <2>2. job' = [job EXCEPT ![u] = r] /\ u \in Tasks
      BY <1>0, <2>1 DEF TaskTypeOK
    <2>3. KeptOutcome(job[u], r)
      BY <1>0, <2>2 DEF TaskTypeOK, TaskRecord, KeptOutcome
    <2> QED
      BY <1>5, <2>2, <2>3, OneOutcome DEF DrainEvents
  <1>6. CASE ClaimTerminal
    <2> DEFINE r == [job[draining] EXCEPT !.claimed = TRUE]
    <2>1. UNCHANGED job \/ job' = [job EXCEPT ![draining] = r]
      BY <1>0, <1>6 DEF ClaimTerminal, FinishTask, TaskTypeOK
    <2>2. KeptOutcome(job[draining], r)
      BY <1>0, <1>6 DEF TaskTypeOK, TaskRecord, KeptOutcome, ClaimTerminal
    <2> QED
      BY <1>6, <2>1, <2>2, OneOutcome, SameOutcomes DEF ClaimTerminal
  <1>7. CASE TurnDrain \/ IdleDrain \/ EndDrain \/ DispatchPrompt \/ UserPrompt
               \/ ShutdownJoined \/ Off
    BY <1>7, SameOutcomes
    DEF TurnDrain, IdleDrain, EndDrain, DispatchPrompt, UserPrompt, ShutdownJoined, Off,
        taskVars
  <1> QED
    BY <1>1, <1>2, <1>3, <1>4, <1>5, <1>6, <1>7 DEF Owner, Drain

LEMMA InterruptOutcome == ASSUME TaskInv, Interrupt PROVE OutcomesKept
  <1> DEFINE t == current
  <1>0. TaskTypeOK
    BY DEF TaskInv, EndsAreReported
  <1>1. UNCHANGED preCancel
    BY DEF Interrupt, KeyboardInterrupt, Joined
  <1>2. CASE KeyboardInterrupt /\ main = "started"
    <2>1. CloseStarted(t) /\ t \in Tasks /\ ~Done(t)
      BY <1>2, CurrentFacts DEF KeyboardInterrupt, Done, Terminal
    <2> QED
      BY <1>1, <2>1, LaunchKeepsOutcome, NeverStartedKeepsOutcome DEF CloseStarted
  <1>3. CASE KeyboardInterrupt /\ main # "started"
    <2>1. UNCHANGED job \/ (main = "loop" /\ job' = [job EXCEPT ![t] = Cancelled(job[t])])
      BY <1>3 DEF KeyboardInterrupt, FinishTask
    <2>2. main = "loop" => t \in Tasks
      BY CurrentFacts
    <2> QED
      BY <1>0, <1>1, <2>1, <2>2, SameOutcomes, OneOutcome, CancelKeepsOutcome DEF TaskTypeOK
  <1>4. CASE Joined
    BY <1>1, <1>4, SameOutcomes DEF Joined, FinishTask
  <1> QED
    BY <1>2, <1>3, <1>4 DEF Interrupt

LEMMA StepsKeepOutcomes ==
    ASSUME TaskInv, [TaskNext]_taskVars PROVE OutcomesKept
  BY AgentOutcome, OwnerOutcome, InterruptOutcome, WorkerOutcome, SameOutcomes
  DEF TaskNext, QuietNext, taskVars

\* No step of any thread changes the status of a finished task, and none lets
\* the tool of a task run that was cancelled before it began.
THEOREM OutcomesFinal == TaskSpec => OutcomeIsFinal
  <1>1. TaskInv /\ [TaskNext]_taskVars =>
          [\A t \in Tasks : Done(t) => job'[t].status = job[t].status]_taskVars
    BY StepsKeepOutcomes DEF OutcomesKept, KeptOutcome, Done
  <1>2. TaskInv /\ [TaskNext]_taskVars =>
          [\A t \in Tasks : CancelledFirst(t) =>
             (\/ CancelledFirst(t)
              \/ job[t].verdict = "cancelled" \/ job[t].status = "cancelled")']_taskVars
    BY StepsKeepOutcomes DEF OutcomesKept, KeptOutcome, CancelledFirst
  <1> QED
    BY <1>1, <1>2, TaskInvHolds, PTL
    DEF TaskSpec, OutcomeIsFinal, EndIsFinal, CancelledNeverRuns
=============================================================================
