---------------------------- MODULE ChildAgents ----------------------------
(***************************************************************************)
(* The read-only child agents of core/agents.py: the durable record of a   *)
(* child with its inbox (AgentStore), one run of it (AgentRuntime) and the *)
(* background threads that start, watch and resume children                *)
(* (AgentWorkspace).                                                       *)
(*                                                                         *)
(* A step is what happens between two places where another thread may act: *)
(* the record of a child is locked for one read or one update at a time,   *)
(* the table of workers under AgentWorkspace._lock.  Reports, transcripts  *)
(* and the projection queue of the UI are left out; a message is a unit of *)
(* the inbox.                                                              *)
(***************************************************************************)
EXTENDS Naturals, FiniteSets

CONSTANTS
    MaxAgents,          \* bound: children ever spawned
    MaxMessages,        \* bound: direct messages ever sent
    MaxContinuations    \* runs in a row that one claim may do for its inbox

ASSUME ChildAssumption ==
    /\ MaxAgents \in Nat \ {0}
    /\ MaxMessages \in Nat
    /\ MaxContinuations \in Nat \ {0}

VARIABLES
    child,      \* the durable records, by id; ids are given in order
    worker,     \* AgentWorkspace._workers and what each thread has read
    open,       \* ~AgentWorkspace._closed
    sent,       \* direct messages sent so far
    excused     \* a workspace error was shown for the inbox, or it was cancelled

childVars == <<child, worker, open, sent, excused>>

Agents == 1..MaxAgents

EndStates == {"completed", "failed", "cancelled"}
Stopped == EndStates \cup {"waiting"}

\* A record that is not there yet.
NoChild == [state |-> "none", owner |-> "none", inbox |-> 0]

\* A thread that does not run.
NoWorker == [pc |-> "off", guarded |-> FALSE, cancel |-> FALSE, gen |-> 0,
             seen |-> 0, tried |-> 0, turns |-> 0, out |-> "none"]

Alive(a) == worker[a].pc # "off"
Known(a) == child[a].state # "none"
FreshIds == {a \in Agents : ~Known(a)}

ChildInit ==
    /\ child = [a \in Agents |-> NoChild]
    /\ worker = [a \in Agents |-> NoWorker]
    /\ open = TRUE
    /\ sent = 0
    /\ excused = [a \in Agents |-> FALSE]

At(a, pc) == worker' = [worker EXCEPT ![a].pc = pc]

-----------------------------------------------------------------------------
(* The workspace: spawn, send, cancel. *)

\* spawn: the record and the thread of its first run, which carries the
\* caller's budget guard.
Spawn(a) ==
    /\ open
    /\ a \in FreshIds /\ \A b \in FreshIds : a <= b
    /\ child' = [child EXCEPT ![a].state = "queued"]
    /\ worker' = [worker EXCEPT ![a] =
                    [NoWorker EXCEPT !.pc = "claim", !.guarded = TRUE, !.gen = 1]]
    /\ UNCHANGED <<open, sent, excused>>

\* send: the message is durable, then one live monitor is made sure of.  A
\* monitor that is already cancelled only has its generation raised.
Wake(a) ==
    IF Alive(a) THEN [worker[a] EXCEPT !.gen = @ + 1]
                ELSE [NoWorker EXCEPT !.pc = "drive", !.gen = 1]

Send(a) ==
    /\ open
    /\ Known(a)
    /\ sent < MaxMessages
    /\ sent' = sent + 1
    /\ child' = [child EXCEPT ![a].inbox = @ + 1]
    /\ worker' = [worker EXCEPT ![a] = Wake(a)]
    /\ excused' = [excused EXCEPT ![a] = Alive(a) /\ worker[a].cancel]
    /\ UNCHANGED open

\* What workspace.cancel does to one child: a live worker is told; without one
\* a record that is not running any more is ended here.
MayCancel(a) == Alive(a) \/ child[a].state # "running"

CancelledWorker(a) ==
    IF Alive(a) THEN [worker[a] EXCEPT !.cancel = TRUE] ELSE worker[a]

CancelledChild(a) ==
    IF ~Alive(a) /\ child[a].state \in {"queued", "waiting"}
    THEN [child[a] EXCEPT !.state = "cancelled", !.owner = "none"]
    ELSE child[a]

CancelAll(set) ==
    LET hit == {a \in set : MayCancel(a)}
    IN  /\ worker' = [a \in Agents |-> IF a \in hit THEN CancelledWorker(a) ELSE worker[a]]
        /\ child' = [a \in Agents |-> IF a \in hit THEN CancelledChild(a) ELSE child[a]]
        /\ excused' = [a \in Agents |-> excused[a] \/ a \in hit]
        /\ UNCHANGED <<open, sent>>

-----------------------------------------------------------------------------
(* One run of a child: AgentRuntime._execute. *)

\* claim: a record runs under one live owner.
Claim(a) ==
    /\ worker[a].pc \in {"claim", "resume"}
    /\ child' = [child EXCEPT ![a].state = "running", ![a].owner = "live"]
    /\ worker' = [worker EXCEPT ![a].pc = "call", ![a].turns = 1, ![a].out = "completed"]
    /\ UNCHANGED <<open, sent, excused>>

\* Before each provider request the inbox is delivered, and the guard asked;
\* a refused request ends the run with an error.
Request(a, allowed) ==
    /\ worker[a].pc = "call"
    /\ child' = [child EXCEPT ![a].inbox = 0]
    /\ worker' = [worker EXCEPT ![a].pc = IF allowed THEN "run" ELSE "check",
                                ![a].out = IF allowed THEN @ ELSE "failed"]
    /\ UNCHANGED <<open, sent, excused>>

\* An answer: the tool loop goes on, the run fails, reaches its turn limit, or
\* would end; with messages in the inbox it takes them and goes on.
Answer(a) ==
    /\ worker[a].pc = "run"
    /\ \/ worker[a].guarded /\ At(a, "call") /\ UNCHANGED child
       \/ \E out \in {"failed", "waiting"} :
             /\ worker' = [worker EXCEPT ![a].pc = "check", ![a].out = out]
             /\ UNCHANGED child
       \/ /\ child' = [child EXCEPT ![a].inbox = 0]
          /\ At(a, IF child[a].inbox > 0 THEN "call" ELSE "check")
    /\ UNCHANGED <<open, sent, excused>>

\* After a run: cancelled, failed, once more for the inbox, or done.
Check(a) ==
    LET w == worker[a]
        again == child[a].inbox > 0 /\ ~w.cancel /\ w.out # "failed"
    IN  /\ w.pc = "check"
        /\ worker' = [worker EXCEPT ![a] =
              IF again /\ w.turns < MaxContinuations
              THEN [w EXCEPT !.pc = "call", !.turns = @ + 1, !.out = "completed"]
              ELSE [w EXCEPT !.pc = "finish",
                             !.out = IF w.cancel THEN "cancelled"
                                     ELSE IF again THEN "waiting" ELSE @]]
        /\ UNCHANGED <<child, open, sent, excused>>

\* AgentStore.finish: a message that came since the last look turns completed
\* into waiting.  A run that was cancelled leaves its thread.
EndState(a) ==
    IF worker[a].out = "completed" /\ child[a].inbox > 0 THEN "waiting" ELSE worker[a].out

Finish(a) ==
    /\ worker[a].pc = "finish"
    /\ child' = [child EXCEPT ![a].state = EndState(a), ![a].owner = "none"]
    /\ At(a, "drive")
    /\ UNCHANGED <<open, sent, excused>>

-----------------------------------------------------------------------------
(* The monitor loop of a worker: AgentWorkspace._drive. *)

\* A cancelled worker leaves without another look at its inbox.
Leave(a) ==
    /\ worker[a].pc \in {"drive", "retire"}
    /\ worker[a].cancel
    /\ worker' = [worker EXCEPT ![a] = NoWorker]
    /\ UNCHANGED <<child, open, sent, excused>>

\* One look at the generation and the record.  One resume per generation: a
\* second failure in a row is reported and ends the monitor.  A record that
\* another worker runs is polled.
Look(a) ==
    LET w == worker[a]
        seen == [w EXCEPT !.seen = w.gen]
    IN  /\ w.pc = "drive" /\ ~w.cancel
        /\ IF child[a].inbox = 0
           THEN /\ worker' = [worker EXCEPT ![a] = [seen EXCEPT !.pc = "retire"]]
                /\ UNCHANGED excused
           ELSE /\ child[a].state \in Stopped
                /\ IF w.tried = 0 \/ w.gen > w.tried
                   THEN /\ worker' = [worker EXCEPT ![a] =
                                        [seen EXCEPT !.pc = "resume", !.tried = w.gen]]
                        /\ UNCHANGED excused
                   ELSE /\ worker' = [worker EXCEPT ![a] = [seen EXCEPT !.pc = "retire"]]
                        /\ excused' = [excused EXCEPT ![a] = TRUE]
        /\ UNCHANGED <<child, open, sent>>

\* _retire: under the lock, and only if nobody raised the generation since.
RetireFaulty(a) ==
    /\ worker[a].pc = "retire" /\ ~worker[a].cancel
    /\ worker' = [worker EXCEPT ![a] = NoWorker]
    /\ UNCHANGED <<child, open, sent, excused>>
Retire(a) ==
    LET w == worker[a]
    IN  /\ w.pc = "retire" /\ ~w.cancel
        /\ worker' = [worker EXCEPT ![a] =
              IF open /\ w.gen # w.seen THEN [w EXCEPT !.pc = "drive", !.tried = 0] ELSE NoWorker]
        /\ UNCHANGED <<child, open, sent, excused>>

-----------------------------------------------------------------------------
\* The process ends: threads are gone, records keep a dead owner.
ChildrenDie ==
    /\ worker' = [a \in Agents |-> NoWorker]
    /\ child' = [a \in Agents |-> [child[a] EXCEPT !.owner = IF @ = "live" THEN "dead" ELSE @]]
    /\ excused' = [a \in Agents |-> TRUE]
    /\ UNCHANGED sent

\* What a worker does by itself, its requests aside.
WorkerStep(a) ==
    Claim(a) \/ Answer(a) \/ Check(a) \/ Finish(a) \/ Leave(a) \/ Look(a) \/ Retire(a)

-----------------------------------------------------------------------------
ChildTypeOK ==
    /\ child \in [Agents -> [state : Stopped \cup {"none", "queued", "running"},
                             owner : {"none", "live", "dead"},
                             inbox : 0..MaxMessages]]
    /\ worker \in [Agents -> [pc : {"off", "claim", "resume", "call", "run", "check",
                                    "finish", "drive", "retire"},
                              guarded : BOOLEAN, cancel : BOOLEAN,
                              gen : 0..(MaxMessages + 1), seen : 0..(MaxMessages + 1),
                              tried : 0..(MaxMessages + 1), turns : 0..MaxContinuations,
                              out : Stopped \cup {"none"}]]
    /\ open \in BOOLEAN
    /\ sent \in 0..MaxMessages
    /\ excused \in [Agents -> BOOLEAN]

\* A direct message is never left behind: while a child has one in its inbox, a
\* worker still watches it, or the user has been told (a workspace error), or the
\* child was cancelled, or the process that took the message is gone.  This is
\* the hand-over between the last look at the inbox and finish, and between
\* _drive and _retire.
MessageIsWatched == \A a \in Agents : child[a].inbox > 0 => Alive(a) \/ excused[a]
=============================================================================
