----------------------------- MODULE Workflow ------------------------------
(***************************************************************************)
(* One durable workflow of core/workflows.py: a DAG of nodes, each run by  *)
(* a child agent, the driver thread that schedules them, and the commands  *)
(* the owner's main thread gives meanwhile.                                *)
(*                                                                         *)
(* The record of the workflow is one file, updated under a lock: an action *)
(* makes at most the updates between which the other thread's order cannot *)
(* matter.  A command that reads, waits and then writes is two actions, as *)
(* is the launch of a node (spawn, then the node row).  The main thread    *)
(* gives one command at a time.                                            *)
(***************************************************************************)
EXTENDS ChildAgents

CONSTANTS
    Nodes,          \* keys of the nodes the plan has, or may be given later
    First,          \* the nodes of start_plan; the others come by add_nodes
    Deps,           \* depends_on
    Gateway,        \* the gateway of each route of each node
    MaxParallel,    \* budget: children at a time
    MaxPerGateway,  \* budget: children at a time on one gateway
    MaxNodes,       \* budget: nodes of the plan
    MaxRequests,    \* budget: provider attempts
    MaxPerNode,     \* budget: max_requests_per_agent, counted for each node
    MaxAttempts,    \* budget: max_node_attempts
    MaxRoutes,      \* routes of a seat
    MaxOps,         \* bound: commands of the user
    MaxEnds,        \* bound: ends of the process, by crash or by close
    None

ASSUME WorkflowAssumption ==
    /\ First \subseteq Nodes
    /\ Deps \in [Nodes -> SUBSET Nodes]
    /\ {MaxParallel, MaxPerGateway, MaxPerNode, MaxAttempts, MaxRoutes} \subseteq Nat \ {0}
    /\ {MaxNodes, MaxRequests, MaxOps, MaxEnds} \subseteq Nat

VARIABLES
    wf,         \* the record: state, stage, resume_stage, owner, requests_started,
                \* of which for each node
    node,       \* its plan: one row per node
    driver,     \* the driver thread: where it is, its two events, its outcome
    active,     \* its table of launched children
    ready,      \* the rest of its list of nodes to launch, as of its last look
    fresh,      \* the node whose child is spawned and whose row is not written yet
    stopping,   \* children it has cancelled and waits for
    nodeOf,     \* the node a child was spawned for
    gate,       \* the gateway it was spawned on
    slots,      \* WorkflowManager._active_total
    reaping,    \* children whose slot a reaper thread holds
    over,       \* tokens or time are used up
    cmd,        \* the command the main thread is in
    up,         \* the process runs and its manager is not closed
    ops, ends,  \* bounds used
    spawned,    \* children ever spawned for a node
    pauses,     \* times the user put a node back himself, by pause or restart
    late,       \* a pause has given up waiting for the driver
    lost,       \* children whose row the process never wrote
    asked       \* a cancel of the whole workflow was accepted and not settled

flowVars == <<wf, node, driver, active, ready, fresh, stopping, nodeOf, gate, slots,
              reaping, over, cmd, up, ops, ends, spawned, pauses, late, lost, asked>>
vars == <<flowVars, childVars>>

Going == {"queued", "running"}          \* ACTIVE_STATES
Driven == driver.pc # "off"
Idle == up /\ cmd.op = "none"

NoNode == [st |-> "none", agent |-> 0, att |-> 0, route |-> 1, report |-> FALSE]
NewNode == [NoNode EXCEPT !.st = "queued"]
NoDriver == [pc |-> "off", cancel |-> FALSE, pause |-> FALSE, out |-> "none"]
NoCmd == [op |-> "none", node |-> None]
Plan == {n \in Nodes : node[n].st # "none"}

Init ==
    /\ ChildInit
    /\ wf = [state |-> "none", stage |-> "none", back |-> "none", owner |-> "none", started |-> 0,
             asks |-> [n \in Nodes |-> 0]]
    /\ node = [n \in Nodes |-> NoNode]
    /\ driver = NoDriver
    /\ active = {} /\ ready = {} /\ fresh = None /\ stopping = {}
    /\ nodeOf = [a \in Agents |-> None] /\ gate = [a \in Agents |-> None]
    /\ slots = 0 /\ reaping = {}
    /\ over = FALSE
    /\ cmd = NoCmd
    /\ up = TRUE
    /\ ops = 0 /\ ends = 0
    /\ spawned = [n \in Nodes |-> 0]
    /\ pauses = 0 /\ late = FALSE /\ lost = 0
    /\ asked = FALSE

Goto(pc) == driver' = [driver EXCEPT !.pc = pc]
Exit(out) == driver' = [driver EXCEPT !.pc = "stop", !.out = out]

-----------------------------------------------------------------------------
(* The driver: _drive_plan. *)

Begin ==
    /\ driver.pc = "begin"
    /\ wf' = [wf EXCEPT !.state = "running", !.owner = "live",
                        !.stage = IF @ \in {"queued", "paused"} THEN "agents" ELSE @]
    /\ Goto("preflight")
    /\ UNCHANGED <<node, active, ready, fresh, stopping, nodeOf, gate, slots, reaping, over,
                   cmd, up, ops, ends, spawned, pauses, late, lost, asked, childVars>>

\* _finish: the record is closed and has no owner.
Finished(state) == [wf EXCEPT !.state = state, !.stage = state, !.owner = "none"]

\* The driver leaves: its entry in the table goes with it.
Gone ==
    /\ driver' = NoDriver
    /\ ready' = {}
    /\ asked' = FALSE
    /\ UNCHANGED <<node, active, fresh, stopping, nodeOf, gate, slots, reaping, over,
                   cmd, up, ops, ends, spawned, pauses, late, lost, childVars>>

\* _preflight_plan: probe the routes of the nodes to come; a seat without a
\* route that answers fails the workflow before anything is spent.  The stage
\* stays preflight.
Preflight ==
    LET pending == {n \in Plan : node[n].st = "queued" /\ node[n].agent = 0}
        probed == [wf EXCEPT !.stage = "preflight"]
    IN  /\ driver.pc = "preflight"
        /\ \/ /\ ~driver.cancel \/ pending = {}
              /\ wf' = IF pending = {} THEN wf ELSE probed
              /\ Goto("top")
              /\ UNCHANGED <<node, active, ready, fresh, stopping, nodeOf, gate, slots, reaping, over,
                             cmd, up, ops, ends, spawned, pauses, late, lost, asked, childVars>>
           \/ /\ pending # {}
              /\ wf' = Finished(IF driver.cancel THEN "cancelled" ELSE "failed")
              /\ Gone

\* The first round looks at the cancel first.
Top ==
    /\ driver.pc = "top"
    /\ IF driver.cancel THEN Exit("cancelled")
       ELSE IF driver.pause THEN Exit("paused")
       ELSE Goto("poll")
    /\ UNCHANGED <<wf, node, active, ready, fresh, stopping, nodeOf, gate, slots, reaping, over,
                   cmd, up, ops, ends, spawned, pauses, late, lost, asked, childVars>>

\* A launched child has ended: its slot is free, its node takes its state, and
\* a node whose route failed is queued again on the next route of its seat.
\* The drain before a budget stop does the same, without other routes.
Ended(a) == a \in active /\ child[a].state \in EndStates

Rerouted(n) == [node[n] EXCEPT !.st = "queued", !.agent = 0, !.report = FALSE, !.route = @ + 1]
Took(n, a) == [node[n] EXCEPT !.st = child[a].state, !.report = child[a].state = "completed"]

Poll(a) ==
    LET n == nodeOf[a] IN
    /\ driver.pc \in {"poll", "drain"}
    /\ Ended(a)
    /\ active' = active \ {a}
    /\ slots' = slots - 1
    /\ \/ node' = [node EXCEPT ![n] = Took(n, a)]
       \/ /\ driver.pc = "poll"
          /\ child[a].state = "failed"
          /\ node[n].att < MaxAttempts /\ node[n].route < MaxRoutes
          /\ node' = [node EXCEPT ![n] = Rerouted(n)]
    /\ UNCHANGED <<wf, driver, ready, fresh, stopping, nodeOf, gate, reaping, over,
                   cmd, up, ops, ends, spawned, pauses, late, lost, asked, childVars>>

\* After the poll: stop on a used-up budget, block what depends on a failed
\* node, and decide what can be launched.
Sweep ==
    LET queued == {n \in Plan : node[n].st = "queued"}
        blocked == {n \in queued : \E d \in Deps[n] : node[d].st \in {"failed", "cancelled"}}
        can == {n \in queued \ blocked : \A d \in Deps[n] : node[d].st = "completed"}
        more == queued \ blocked
    IN  /\ driver.pc = "poll"
        /\ IF over
           THEN /\ driver' = [driver EXCEPT !.pc = "drain", !.out = "raised"]
                /\ UNCHANGED <<node, ready>>
           ELSE /\ node' = [n \in Nodes |->
                              IF n \in blocked THEN [node[n] EXCEPT !.st = "cancelled"] ELSE node[n]]
                /\ ready' = can
                /\ IF more = {} /\ active = {}
                   THEN \E out \in {"completed"} \cup
                                   (IF \E n \in Plan : node[n].st = "failed" THEN {"raised"} ELSE {}) :
                          Exit(out)
                   ELSE IF active = {} /\ can = {} /\ blocked = {} THEN Exit("raised")
                   ELSE Goto("launch")
        /\ UNCHANGED <<wf, active, fresh, stopping, nodeOf, gate, slots, reaping, over,
                       cmd, up, ops, ends, spawned, pauses, late, lost, asked, childVars>>

\* One node of the list: skipped without a slot, else its child is spawned.
MayLaunch == Cardinality(active) < MaxParallel /\ ~driver.cancel /\ ~driver.pause

Holders == active \cup stopping \cup reaping
HeldAt(g) == {a \in Holders : gate[a] = g}

\* _try_claim_slot: the counts of all children and of those on one gateway.
SlotFor(n) ==
    /\ up /\ slots < MaxParallel
    /\ Cardinality(HeldAt(Gateway[n][node[n].route])) < MaxPerGateway

Skip(n) ==
    /\ driver.pc = "launch" /\ n \in ready /\ MayLaunch
    /\ ~SlotFor(n) \/ FreshIds = {}       \* the last: bound MaxAgents
    /\ ready' = ready \ {n}
    /\ UNCHANGED <<wf, node, driver, active, fresh, stopping, nodeOf, gate, slots, reaping, over,
                   cmd, up, ops, ends, spawned, pauses, late, lost, asked, childVars>>

Launch(n, a) ==
    /\ driver.pc = "launch" /\ n \in ready /\ MayLaunch
    /\ SlotFor(n)
    /\ Spawn(a)
    /\ slots' = slots + 1
    /\ active' = active \cup {a}
    /\ nodeOf' = [nodeOf EXCEPT ![a] = n]
    /\ gate' = [gate EXCEPT ![a] = Gateway[n][node[n].route]]
    /\ ready' = ready \ {n}
    /\ fresh' = n
    /\ spawned' = [spawned EXCEPT ![n] = @ + 1]
    /\ Goto("row")
    /\ UNCHANGED <<wf, node, stopping, reaping, over, cmd, up, ops, ends, pauses, late, lost, asked>>

\* The row of the node, whatever it says by now.
NodeRow ==
    LET a == CHOOSE b \in active : nodeOf[b] = fresh
    IN  /\ driver.pc = "row"
        /\ node' = [node EXCEPT ![fresh].st = "running", ![fresh].agent = a, ![fresh].att = @ + 1]
        /\ fresh' = None
        /\ Goto("launch")
        /\ UNCHANGED <<wf, active, ready, stopping, nodeOf, gate, slots, reaping, over,
                       cmd, up, ops, ends, spawned, pauses, late, lost, asked, childVars>>

Launched ==
    /\ driver.pc = "launch"
    /\ ready = {} \/ ~MayLaunch
    /\ ready' = {}
    /\ Goto("wait")
    /\ UNCHANGED <<wf, node, active, fresh, stopping, nodeOf, gate, slots, reaping, over,
                   cmd, up, ops, ends, spawned, pauses, late, lost, asked, childVars>>

\* The wait between two rounds looks at the pause first, the next round at the
\* cancel.
Wait ==
    /\ driver.pc = "wait"
    /\ IF driver.pause THEN Exit("paused")
       ELSE IF driver.cancel THEN Exit("cancelled")
       ELSE Goto("poll")
    /\ UNCHANGED <<wf, node, active, ready, fresh, stopping, nodeOf, gate, slots, reaping, over,
                   cmd, up, ops, ends, spawned, pauses, late, lost, asked, childVars>>

\* _drain_active ends when nothing is active, after 90 s, or on a cancel.
DrainEnds ==
    /\ driver.pc = "drain"
    /\ Exit("raised")
    /\ UNCHANGED <<wf, node, active, ready, fresh, stopping, nodeOf, gate, slots, reaping, over,
                   cmd, up, ops, ends, spawned, pauses, late, lost, asked, childVars>>

\* _stop_active: cancel what still runs; wait for each, and leave the slot of
\* one that takes longer to a reaper.
StopActive ==
    /\ driver.pc = "stop"
    /\ CancelAll(active)
    /\ stopping' = active
    /\ active' = {}
    /\ Goto("join")
    /\ UNCHANGED <<wf, node, ready, fresh, nodeOf, gate, slots, reaping, over,
                   cmd, up, ops, ends, spawned, pauses, late, lost, asked>>

\* The wait of one second for each: it has ended, or a reaper gets its slot.
Join(a) ==
    /\ driver.pc = "join"
    /\ a \in stopping
    /\ stopping' = stopping \ {a}
    /\ IF Alive(a) THEN reaping' = reaping \cup {a} /\ UNCHANGED slots
                   ELSE slots' = slots - 1 /\ UNCHANGED reaping
    /\ UNCHANGED <<wf, node, driver, active, ready, fresh, nodeOf, gate, over,
                   cmd, up, ops, ends, spawned, pauses, late, lost, asked, childVars>>

Reap(a) ==
    /\ a \in reaping
    /\ ~Alive(a)
    /\ reaping' = reaping \ {a}
    /\ slots' = slots - 1
    /\ UNCHANGED <<wf, node, driver, active, ready, fresh, stopping, nodeOf, gate, over,
                   cmd, up, ops, ends, spawned, pauses, late, lost, asked, childVars>>

SettledFaulty == IF driver.out \in {"paused", "raised"} THEN wf ELSE Finished(driver.out)

\* The end of _drive_plan: what is written depends on the outcome, and after an
\* exception on the two events, the pause first.
Settled ==
    LET some == \E n \in Plan : node[n].st = "completed"
        raised == driver.out = "raised" \/ (driver.out = "completed" /\ ~some)
    IN  IF driver.out = "paused" THEN wf
        ELSE IF driver.out = "cancelled" THEN Finished("cancelled")
        ELSE IF raised /\ driver.pause THEN wf
        ELSE IF driver.cancel THEN Finished("cancelled")
        ELSE Finished(IF raised THEN "failed" ELSE "completed")

Settle ==
    /\ driver.pc = "join" /\ stopping = {}
    /\ wf' = Settled
    /\ Gone
-----------------------------------------------------------------------------
(* The budget. *)

\* _reserve_request: counted, durably, before the request goes out.  A monitor
\* that a direct message started has no guard.  What a node has used is counted
\* over all its children, in the last 256 events of the record.
Reserve(a) ==
    LET n == nodeOf[a]
        left == wf.started < MaxRequests /\ wf.asks[n] < MaxPerNode
    IN  /\ Request(a, left \/ ~worker[a].guarded)
        /\ wf' = IF worker[a].guarded /\ left
                 THEN [wf EXCEPT !.started = @ + 1, !.asks[n] = @ + 1] ELSE wf
        /\ UNCHANGED <<node, driver, active, ready, fresh, stopping, nodeOf, gate, slots, reaping, over,
                       cmd, up, ops, ends, spawned, pauses, late, lost, asked>>

\* Time passes: max_elapsed_seconds, or max_tokens.
UseUp ==
    /\ wf.state \in Going /\ ~over
    /\ over' = TRUE
    /\ UNCHANGED <<wf, node, driver, active, ready, fresh, stopping, nodeOf, gate, slots, reaping,
                   cmd, up, ops, ends, spawned, pauses, late, lost, asked, childVars>>

ChildStep(a) ==
    /\ WorkerStep(a)
    /\ UNCHANGED flowVars

-----------------------------------------------------------------------------
(* The main thread. *)

Command(op, n) ==
    /\ Idle
    /\ ops < MaxOps
    /\ ops' = ops + 1
    /\ cmd' = [op |-> op, node |-> n]

Atomic ==
    /\ Idle
    /\ ops < MaxOps
    /\ ops' = ops + 1
    /\ UNCHANGED cmd

NewDriver == [NoDriver EXCEPT !.pc = "begin"]

\* _validate_node_graph: no dangling key, no cycle; in every part of the plan
\* some node depends on none of the part.
Valid(plan) ==
    /\ \A n \in plan : Deps[n] \subseteq plan
    /\ \A part \in SUBSET plan : part # {} => \E n \in part : Deps[n] \cap part = {}

\* A plan has a request for each node; the first one has two nodes at least.
Affordable(plan) ==
    Valid(plan) /\ Cardinality(plan) <= MaxNodes /\ Cardinality(plan) <= MaxRequests
Acceptable(plan) == Affordable(plan) /\ Cardinality(plan) >= 2

StartPlan ==
    /\ Idle /\ wf.state = "none"
    /\ Acceptable(First)
    /\ wf' = [wf EXCEPT !.state = "queued", !.stage = "queued", !.owner = "live"]
    /\ node' = [n \in Nodes |-> IF n \in First THEN NewNode ELSE NoNode]
    /\ driver' = NewDriver
    /\ UNCHANGED <<active, ready, fresh, stopping, nodeOf, gate, slots, reaping, over,
                   cmd, up, ops, ends, spawned, pauses, late, lost, asked, childVars>>

AddNode(n) ==
    /\ Atomic
    /\ wf.state \in Going
    /\ wf.stage \in {"queued", "agents", "recovering", "paused"}
    /\ node[n].st = "none" /\ Affordable(Plan \cup {n})
    /\ wf.started < MaxRequests /\ ~over
    /\ node' = [node EXCEPT ![n] = NewNode]
    /\ UNCHANGED <<wf, driver, active, ready, fresh, stopping, nodeOf, gate, slots, reaping, over,
                   up, ends, spawned, pauses, late, lost, asked, childVars>>

\* cancel: an event for a live driver; without one the record is closed here,
\* unless somebody still owns it.
Cancel ==
    /\ Atomic
    /\ \/ /\ Driven
          /\ driver' = [driver EXCEPT !.cancel = TRUE]
          /\ asked' = TRUE
          /\ UNCHANGED wf
       \/ /\ ~Driven /\ wf.state \in Going /\ wf.owner # "live"
          /\ wf' = Finished("cancelled")
          /\ UNCHANGED <<driver, asked>>
    /\ UNCHANGED <<node, active, ready, fresh, stopping, nodeOf, gate, slots, reaping, over,
                   up, ends, spawned, pauses, late, lost, childVars>>

\* pause_workflow waits for the driver, and only then rewrites the record.
Pause ==
    /\ wf.state \in Going /\ wf.stage # "paused"
    /\ Driven \/ wf.owner # "live"
    /\ Command("pause", None)
    /\ driver' = IF Driven THEN [driver EXCEPT !.pause = TRUE] ELSE driver
    /\ UNCHANGED <<wf, node, active, ready, fresh, stopping, nodeOf, gate, slots, reaping, over,
                   up, ends, spawned, pauses, late, lost, asked, childVars>>

PutBack(n) == [node[n] EXCEPT !.st = "queued", !.agent = 0, !.report = FALSE]

Paused ==
    /\ cmd.op = "pause" /\ ~Driven
    /\ cmd' = NoCmd
    /\ IF wf.state \in Going
       THEN /\ wf' = [wf EXCEPT !.state = "queued", !.stage = "paused", !.back = wf.stage,
                                !.owner = "none"]
            /\ node' = [n \in Nodes |-> IF node[n].st = "running" THEN PutBack(n) ELSE node[n]]
            /\ pauses' = pauses + 1
       ELSE UNCHANGED <<wf, node, pauses>>
    /\ UNCHANGED <<driver, active, ready, fresh, stopping, nodeOf, gate, slots, reaping, over,
                   up, ops, ends, spawned, late, lost, asked, childVars>>

PauseGivesUp ==
    /\ cmd.op = "pause" /\ Driven
    /\ cmd' = NoCmd
    /\ late' = TRUE
    /\ UNCHANGED <<wf, node, driver, active, ready, fresh, stopping, nodeOf, gate, slots, reaping, over,
                   up, ops, ends, spawned, pauses, lost, asked, childVars>>

\* A workflow that was put back, by the user or by close, is driven again.
Resume ==
    /\ Idle
    /\ ~Driven
    /\ wf.state = "queued" /\ wf.stage \in {"paused", "queued", "recovering"}
    /\ wf' = [wf EXCEPT !.owner = "live", !.stage = IF wf.back = "none" THEN "agents" ELSE wf.back]
    /\ driver' = NewDriver
    /\ UNCHANGED <<node, active, ready, fresh, stopping, nodeOf, gate, slots, reaping, over,
                   cmd, up, ops, ends, spawned, pauses, late, lost, asked, childVars>>

\* restart_node: the node, with cascade all that depends on it.
Upward(set) == \A m \in Plan : Deps[m] \cap set # {} => m \in set
Below(n) == {m \in Plan : \A set \in SUBSET Plan : n \in set /\ Upward(set) => m \in set}

RestartFaulty(n, cascade) ==
    /\ Atomic
    /\ ~Driven
    /\ n \in Plan
    /\ node[n].st = "completed" => cascade
    /\ node' = [m \in Nodes |-> IF m = n THEN PutBack(m) ELSE node[m]]
    /\ wf' = [wf EXCEPT !.state = "queued", !.stage = "paused", !.back = "agents", !.owner = "none"]
    /\ pauses' = pauses + 1
    /\ UNCHANGED <<driver, active, ready, fresh, stopping, nodeOf, gate, slots, reaping, over,
                   up, ends, spawned, late, lost, asked, childVars>>
Restart(n, cascade) ==
    LET below == Below(n)
        reset == IF cascade THEN below ELSE {n}
    IN  /\ Atomic
        /\ ~Driven
        /\ n \in Plan
        /\ node[n].st = "completed" => cascade
        /\ (\E m \in below \ {n} : node[m].st \notin {"queued", "cancelled"}) => cascade
        /\ node' = [m \in Nodes |-> IF m \in reset THEN PutBack(m) ELSE node[m]]
        /\ wf' = [wf EXCEPT !.state = "queued", !.stage = "paused", !.back = "agents",
                            !.owner = "none"]
        /\ pauses' = pauses + 1
        /\ UNCHANGED <<driver, active, ready, fresh, stopping, nodeOf, gate, slots, reaping, over,
                       up, ends, spawned, late, lost, asked, childVars>>

\* cancel_node looks, cancels the child, and then writes, whatever the node
\* has become.
CancelNode(n) ==
    /\ node[n].st \in {"queued", "running"}
    /\ node[n].st = "running" => MayCancel(node[n].agent)
    /\ Command("cancel_node", n)
    /\ CancelAll(IF node[n].st = "running" THEN {node[n].agent} ELSE {})
    /\ UNCHANGED <<wf, node, driver, active, ready, fresh, stopping, nodeOf, gate, slots, reaping, over,
                   up, ends, spawned, pauses, late, lost, asked>>

NodeCancelled ==
    /\ cmd.op = "cancel_node"
    /\ node' = [node EXCEPT ![cmd.node].st = "cancelled"]
    /\ cmd' = NoCmd
    /\ UNCHANGED <<wf, driver, active, ready, fresh, stopping, nodeOf, gate, slots, reaping, over,
                   up, ops, ends, spawned, pauses, late, lost, asked, childVars>>

\* send_node, or a message typed in the child's own view: to any child, since
\* what send_node has checked may have changed by the time it sends.
Message(a) ==
    /\ Atomic
    /\ Send(a)
    /\ UNCHANGED <<wf, node, driver, active, ready, fresh, stopping, nodeOf, gate, slots, reaping, over,
                   up, ends, spawned, pauses, late, lost, asked>>

-----------------------------------------------------------------------------
(* The end of the process, and the next one. *)

\* close: no more slots, the driver is asked to pause.
Close ==
    /\ Idle /\ ends < MaxEnds
    /\ up' = FALSE
    /\ ends' = ends + 1
    /\ cmd' = [NoCmd EXCEPT !.op = "close"]
    /\ driver' = IF Driven THEN [driver EXCEPT !.pause = TRUE] ELSE driver
    /\ UNCHANGED <<wf, node, active, ready, fresh, stopping, nodeOf, gate, slots, reaping, over,
                   ops, spawned, pauses, late, lost, asked, childVars>>

\* The threads of this process go; the next one starts with an empty manager.
Die ==
    /\ ChildrenDie
    /\ driver' = NoDriver
    /\ active' = {} /\ ready' = {} /\ fresh' = None /\ stopping' = {}
    /\ slots' = 0 /\ reaping' = {}
    /\ asked' = FALSE
    /\ open' = FALSE
    /\ up' = FALSE
    /\ cmd' = [NoCmd EXCEPT !.op = "dead"]
    /\ late' = FALSE
    /\ lost' = IF driver.pc = "row" THEN lost + 1 ELSE lost
    /\ UNCHANGED <<nodeOf, gate, over, ops, spawned, pauses>>

\* The driver was in time: the record is given back as paused, its nodes as
\* they are.
Closed ==
    /\ cmd.op = "close" /\ ~Driven
    /\ wf' = IF wf.state \in Going /\ wf.owner = "live"
             THEN [wf EXCEPT !.state = "queued", !.stage = "paused", !.owner = "none"] ELSE wf
    /\ Die
    /\ UNCHANGED <<node, ends>>

\* It was not, or the process is killed.
Orphaned == [wf EXCEPT !.owner = IF @ = "live" THEN "dead" ELSE @]

CloseGivesUp ==
    /\ cmd.op = "close" /\ Driven
    /\ wf' = Orphaned
    /\ Die
    /\ UNCHANGED <<node, ends>>

Crash ==
    /\ up /\ ends < MaxEnds
    /\ ends' = ends + 1
    /\ wf' = Orphaned
    /\ Die
    /\ UNCHANGED node

\* recover: a node that was running is completed by the report its child left,
\* queued again, or failed; its child is closed.
RecoveredFaulty(n) == PutBack(n)
Recovered(n) ==
    LET row == node[n]
    IN  IF row.agent # 0 /\ child[row.agent].state = "completed"
        THEN [row EXCEPT !.st = "completed", !.report = TRUE]
        ELSE IF row.att < MaxAttempts THEN PutBack(n)
        ELSE [row EXCEPT !.st = "failed"]

Interrupted == {n \in Plan : node[n].st = "running"}

Recover ==
    LET stale == {node[n].agent : n \in Interrupted} \cap {a \in Agents : child[a].state = "running"}
        claimed == wf.state \in Going
    IN  /\ cmd.op = "dead"
        /\ cmd' = NoCmd
        /\ up' = TRUE /\ open' = TRUE
        /\ IF claimed
           THEN /\ child' = [a \in Agents |->
                               IF a \in stale THEN [child[a] EXCEPT !.state = "failed", !.owner = "none"]
                               ELSE child[a]]
                /\ node' = [n \in Nodes |-> IF n \in Interrupted THEN Recovered(n) ELSE node[n]]
                /\ wf' = [wf EXCEPT !.state = "queued", !.stage = "recovering", !.owner = "live"]
                /\ driver' = NewDriver
           ELSE UNCHANGED <<child, node, wf, driver>>
        /\ UNCHANGED <<active, ready, fresh, stopping, nodeOf, gate, slots, reaping, over,
                       ops, ends, spawned, pauses, late, lost, asked, worker, sent, excused>>

-----------------------------------------------------------------------------
DriverStep ==
    \/ Begin \/ Preflight \/ Top \/ Sweep \/ NodeRow \/ Launched \/ Wait
    \/ DrainEnds \/ StopActive \/ Settle
    \/ \E a \in Agents : Poll(a) \/ Join(a)
    \/ \E n \in Nodes : Skip(n) \/ \E a \in Agents : Launch(n, a)

MainStep == Paused \/ PauseGivesUp \/ NodeCancelled \/ Closed \/ CloseGivesUp \/ Recover

User ==
    \/ StartPlan \/ Cancel \/ Pause \/ Resume \/ Close
    \/ \E n \in Nodes : \/ AddNode(n) \/ CancelNode(n)
                        \/ \E cascade \in BOOLEAN : Restart(n, cascade)
    \/ \E a \in Agents : Message(a)

Next ==
    \/ DriverStep \/ MainStep \/ User \/ UseUp \/ Crash
    \/ \E a \in Agents : ChildStep(a) \/ Reserve(a) \/ Reap(a)

Spec == Init /\ [][Next]_vars

\* Threads run, requests are answered or time out, and the clock reaches
\* max_elapsed_seconds.  Nothing is asked of the user and his main thread.
Fairness ==
    /\ WF_vars(DriverStep)
    /\ WF_vars(UseUp)
    /\ \A a \in Agents : WF_vars(ChildStep(a) \/ Reserve(a) \/ Reap(a))

FairSpec == Spec /\ Fairness
-----------------------------------------------------------------------------
Stages == EndStates \cup {"none", "queued", "preflight", "agents", "recovering", "paused"}

WorkflowTypeOK ==
    /\ ChildTypeOK
    /\ wf \in [state : EndStates \cup Going \cup {"none"}, stage : Stages, back : Stages,
               owner : {"none", "live", "dead"}, started : 0..MaxRequests,
               asks : [Nodes -> 0..MaxPerNode]]
    /\ node \in [Nodes -> [st : EndStates \cup Going \cup {"none"}, agent : 0..MaxAgents,
                           att : Nat, route : 1..MaxRoutes, report : BOOLEAN]]
    /\ driver.pc \in {"off", "begin", "preflight", "top", "poll", "launch", "row", "wait",
                      "drain", "stop", "join"}
    /\ active \cup stopping \cup reaping \subseteq Agents
    /\ ready \subseteq Nodes

\* The provider slots are counted right whatever ends a child: its own end, the
\* drain of a budget stop, a cancel that is answered in time or by a reaper.
\* Every first run of a child has one, and never more than MaxParallel do, nor
\* more than MaxPerGateway on the gateway each was spawned on, also
\* when a second driver starts while children of the first are still going.
FirstRun == {a \in Agents : /\ worker[a].pc \in {"claim", "call", "run", "check", "finish"}
                            /\ worker[a].guarded /\ worker[a].tried = 0}
SlotsCoverWorkers ==
    /\ slots = Cardinality(Holders)
    /\ slots <= MaxParallel
    /\ \A a \in Holders : Cardinality(HeldAt(gate[a])) <= MaxPerGateway
    /\ FirstRun \subseteq Holders

\* A node that runs or has run was given the report of everything it depends on,
\* and these reports are still there: a failed prerequisite cannot turn into
\* empty context, by restarts, cancels, recoveries or new nodes either.
InputsAreReports ==
    \A n \in Plan : node[n].st \in {"running", "completed"}
                       => \A d \in Deps[n] : node[d].report

\* No endless replay: the children spawned for a node are at most
\* max_node_attempts, one for each time the user put nodes back, and one for
\* each child whose row a crash has swallowed.
SpawnsBounded == \A n \in Nodes : spawned[n] <= MaxAttempts + pauses + lost

\* The types, the slots and the spawns.
ChildrenAreBounded == WorkflowTypeOK /\ SlotsCoverWorkers /\ SpawnsBounded

\* A workflow this process owns has a driver: otherwise nobody schedules it, and
\* cancel, pause and resume all refuse it as somebody else's.  A pause that
\* gives up waiting (5 s, against the 90 s of a drain) breaks it.
OwnedIsDriven ==
    up /\ cmd.op = "none" /\ wf.state \in Going /\ wf.owner = "live" => Driven \/ late

\* Nobody waits for a thread that is not there: neither the workflow for its
\* driver nor a message to a child for its monitor.
NobodyIsForgotten == OwnedIsDriven /\ MessageIsWatched

\* A finished node is a checkpoint: only a restart by the user drops its report,
\* no crash, pause, recovery or cancel.
KeptReport ==
    \A n \in Nodes : node[n].report /\ ~node'[n].report => ops' # ops /\ pauses' # pauses
ReportsReachDependents == [][KeptReport /\ InputsAreReports']_vars

\* A cancel of the whole workflow that was accepted closes it, unless a pause or
\* the end of the process overtakes it.
CancelledEnds == asked ~> (wf.state \in EndStates \/ driver.pause \/ cmd.op = "dead")

\* No driver runs for ever: a child that neither ends nor answers (waiting at its
\* turn limit) is outlived by the budget.
DriverEnds == Driven ~> ~Driven

\* A workflow comes to its end by its own budget and by a cancel.
WorkflowEnds == CancelledEnds /\ DriverEnds
=============================================================================
