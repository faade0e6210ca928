--------------------------- MODULE WorkflowProofs ---------------------------
(***************************************************************************)
(* A workflow is proved safe for any plan, any number of children,         *)
(* messages, commands, crashes and closes: its slots cover its workers,    *)
(* its spawns are bounded, nobody waits for a thread that is not there,    *)
(* and no node runs on a report that is gone.  Children is inductive by    *)
(* itself, whatever the workflow does with its children; Flow adds what    *)
(* the driver thread and the main thread rely on without a word: where the *)
(* tables are empty (Tables), who holds a slot (Slots), how often a node   *)
(* may still be launched (Counts), who owns the record (Owner), and what a *)
(* launched node has been given (Reports).                                 *)
(***************************************************************************)
EXTENDS Workflow, FiniteSetTheorems, TLAPS

Busy == {"call", "run", "check", "finish"}
First1(a) == worker[a].pc \in Busy \cup {"claim"} /\ worker[a].guarded /\ worker[a].tried = 0

\* The counters of a worker never pass the messages sent.
Numbers(a) ==
    /\ child[a].inbox <= sent
    /\ worker[a].gen <= sent + 1
    /\ worker[a].seen <= worker[a].gen
    /\ worker[a].tried <= worker[a].gen
    /\ Alive(a) => worker[a].gen >= 1

\* What a worker relies on from its pc.
Standing(a) ==
    /\ worker[a].pc \in Busy => worker[a].out \in Stopped
    /\ Alive(a) => Known(a)
    /\ worker[a].pc = "claim" =>
         worker[a].guarded /\ worker[a].tried = 0 /\ child[a].state = "queued"
    /\ worker[a].pc = "resume" => worker[a].tried >= 1
    /\ First1(a) /\ worker[a].pc # "claim" => child[a].state = "running"

\* Who looks after the inbox.
Watch(a) ==
    /\ child[a].inbox > 0 => Alive(a) \/ excused[a]
    /\ worker[a].cancel => excused[a]
    /\ worker[a].pc = "retire" /\ worker[a].gen = worker[a].seen /\ ~worker[a].cancel =>
           child[a].inbox = 0 \/ excused[a]

Children ==
    /\ ChildTypeOK
    /\ \A a \in Agents : Numbers(a) /\ Standing(a) /\ Watch(a)
    /\ ~open => \A a \in Agents : ~Alive(a)

-----------------------------------------------------------------------------
DriverPcs == {"off", "begin", "preflight", "top", "poll", "launch", "row", "wait",
              "drain", "stop", "join"}

WfRecord == [state : EndStates \cup Going \cup {"none"}, stage : Stages, back : Stages,
             owner : {"none", "live", "dead"}, started : 0..MaxRequests,
             asks : [Nodes -> 0..MaxPerNode]]
NodeRecord == [st : EndStates \cup Going \cup {"none"}, agent : 0..MaxAgents,
               att : Nat, route : 1..MaxRoutes, report : BOOLEAN]
DriverRecord == [pc : DriverPcs, cancel : BOOLEAN, pause : BOOLEAN,
                 out : {"none", "cancelled", "paused", "raised", "completed"}]
CmdRecord == [op : {"none", "pause", "cancel_node", "close", "dead"}, node : Nodes \cup {None}]

FlowTypes ==
    /\ wf \in WfRecord /\ node \in [Nodes -> NodeRecord] /\ driver \in DriverRecord
    /\ active \subseteq Agents /\ stopping \subseteq Agents /\ reaping \subseteq Agents
    /\ ready \subseteq Nodes
    /\ fresh \in Nodes \cup {None}
    /\ nodeOf \in [Agents -> Nodes \cup {None}]
    /\ gate = [a \in Agents |-> gate[a]]
    /\ slots \in Nat
    /\ spawned \in [Nodes -> Nat]
    /\ cmd \in CmdRecord
    /\ up \in BOOLEAN /\ late \in BOOLEAN
    /\ ops \in Nat /\ pauses \in Nat /\ lost \in Nat

\* Which tables are in use where.
Places ==
    /\ driver.pc = "off" => driver = NoDriver
    /\ driver.pc \in {"off", "begin", "preflight", "top", "join"} => active = {}
    /\ driver.pc # "join" => stopping = {}
    /\ driver.pc \notin {"launch", "row"} => ready = {}

\* What is left when the process ends.
Dead ==
    /\ cmd.op = "dead" => ~Driven /\ ~up /\ ~open /\ reaping = {}
    /\ cmd.op = "close" => ~up

Planned ==
    /\ cmd.op = "cancel_node" => cmd.node \in Plan
    /\ \A n \in Nodes : node[n].st = "none" => node[n] = NoNode
    /\ wf.state = "none" => ~Driven /\ Plan = {}

Tables == Places /\ Dead /\ Planned

Slots ==
    /\ active \cap stopping = {} /\ active \cap reaping = {} /\ stopping \cap reaping = {}
    /\ \A a \in Holders : Known(a)
    /\ \A a \in active : nodeOf[a] \in Nodes
    /\ SlotsCoverWorkers

\* Whether a launch of n is under way whose row is not written.
Unwritten(n) == driver.pc = "row" /\ fresh = n
Launchable(n) == node[n].st = "queued" \/ n \in ready \/ Unwritten(n)

Counts ==
    /\ \A n \in Nodes :
         /\ spawned[n] <= node[n].att + lost + (IF Unwritten(n) THEN 1 ELSE 0)
         /\ node[n].att <= MaxAttempts + pauses
         /\ Launchable(n) => node[n].att < MaxAttempts + pauses
    /\ driver.pc = "row" => \E a \in active : nodeOf[a] = fresh

Owner ==
    /\ up /\ cmd.op \notin {"pause", "close"} /\ wf.state \in Going /\ wf.owner = "live"
         => Driven \/ late
    /\ driver.pause => cmd.op \in {"pause", "close"} \/ late
    /\ driver.out = "paused" => driver.pause

\* n may run: it has no report, and what it depends on has.
Given(n) == ~node[n].report /\ \A d \in Deps[n] : node[d].report

Reports ==
    /\ \A n \in Nodes : node[n].st = "completed" => node[n].report
    /\ \A n \in Nodes : node[n].st \in {"queued", "running"} => ~node[n].report
    /\ \A a \in active : Given(nodeOf[a])
    /\ \A a, b \in active : nodeOf[a] = nodeOf[b] => a = b
    /\ \A n \in ready : Given(n) /\ n \in Plan /\ \A a \in active : nodeOf[a] # n
    /\ \A a \in active : Unwritten(nodeOf[a]) \/ node[nodeOf[a]].st \in {"running", "cancelled"}
    /\ InputsAreReports

Flow == FlowTypes /\ Tables /\ Slots /\ Counts /\ Owner /\ Reports
IInv == Children /\ Flow
-----------------------------------------------------------------------------
(* The children keep their invariant, whatever is done with them. *)

\* What the workflow relies on: ids stay given, and a first run is one of before.
Moved(set) ==
    /\ Children'
    /\ \A a \in Agents : Known(a) => Known(a)'
    /\ \A a \in Agents \ set : First1(a)' => First1(a)

LEMMA SpawnKeeps ==
    ASSUME Children, NEW a \in Agents, Spawn(a), ChildAssumption
    PROVE  Moved({a}) /\ ~Known(a) /\ Known(a)' /\ open' = open
  <1>1. child' \in [Agents -> [state : Stopped \cup {"none", "queued", "running"},
                               owner : {"none", "live", "dead"}, inbox : 0..MaxMessages]]
    BY DEF Children, ChildTypeOK, Spawn
  <1>2. worker'[a] = [NoWorker EXCEPT !.pc = "claim", !.guarded = TRUE, !.gen = 1]
    BY DEF Children, ChildTypeOK, Spawn
  <1>3. ChildTypeOK'
    <2>1. 1 \in 0..(MaxMessages + 1) /\ 0 \in 0..(MaxMessages + 1) /\ 0 \in 0..MaxContinuations
      BY DEF ChildAssumption
    <2> QED
      BY <1>1, <2>1 DEF Children, ChildTypeOK, Spawn, NoWorker
  <1>4. ~Known(a)
    BY DEF Spawn, FreshIds
  <1>5. ~Alive(a)
    BY <1>4 DEF Children, Standing
  <1>6. \A b \in Agents : Numbers(b)' /\ Standing(b)' /\ Watch(b)'
    <2>1. Numbers(a)' /\ Standing(a)' /\ Watch(a)'
      BY <1>2, <1>4, <1>5 DEF Children, ChildTypeOK, Spawn, NoWorker, Numbers, Standing, Watch,
         Known, Alive, First1, Busy
    <2>2. ASSUME NEW b \in Agents, b # a PROVE Numbers(b)' /\ Standing(b)' /\ Watch(b)'
      BY <2>2 DEF Children, ChildTypeOK, Spawn, Numbers, Standing, Watch, Known, Alive, First1
    <2> QED
      BY <2>1, <2>2
  <1> QED
    BY <1>3, <1>4, <1>6 DEF Moved, Children, ChildTypeOK, Spawn, Known, First1

LEMMA SendKeeps ==
    ASSUME Children, NEW a \in Agents, Send(a), ChildAssumption
    PROVE  Moved({}) /\ open' = open
  <1>1. worker'[a] = Wake(a) /\ \A b \in Agents : b # a => worker'[b] = worker[b]
    BY DEF Children, ChildTypeOK, Send
  <1>2. child'[a] = [child[a] EXCEPT !.inbox = @ + 1] /\ \A b \in Agents : b # a => child'[b] = child[b]
    BY DEF Children, ChildTypeOK, Send
  <1>3. worker[a].gen + 1 \in 0..(MaxMessages + 1) /\ child[a].inbox + 1 \in 0..MaxMessages
        /\ sent + 1 \in 0..MaxMessages
    BY DEF Children, ChildTypeOK, Send, Numbers, ChildAssumption
  <1>4. ChildTypeOK'
    <2>1. 1 \in 0..(MaxMessages + 1) /\ 0 \in 0..(MaxMessages + 1) /\ 0 \in 0..MaxContinuations
      BY DEF ChildAssumption
    <2>2. child' \in [Agents -> [state : Stopped \cup {"none", "queued", "running"},
                                 owner : {"none", "live", "dead"}, inbox : 0..MaxMessages]]
      BY <1>3 DEF Children, ChildTypeOK, Send
    <2>3. Wake(a) \in [pc : {"off", "claim", "resume", "call", "run", "check", "finish", "drive", "retire"},
                       guarded : BOOLEAN, cancel : BOOLEAN,
                       gen : 0..(MaxMessages + 1), seen : 0..(MaxMessages + 1),
                       tried : 0..(MaxMessages + 1), turns : 0..MaxContinuations,
                       out : Stopped \cup {"none"}]
      <3>1. CASE Alive(a)
        BY <1>3, <3>1 DEF Wake, Children, ChildTypeOK
      <3>2. CASE ~Alive(a)
        BY <2>1, <3>2 DEF Wake, NoWorker
      <3> QED
        BY <3>1, <3>2
    <2>4. excused' \in [Agents -> BOOLEAN]
      BY Zenon DEF Children, ChildTypeOK, Send, Alive
    <2> QED
      BY <1>3, <2>2, <2>3, <2>4 DEF Children, ChildTypeOK, Send
  <1>5. \A b \in Agents : b # a => excused'[b] = excused[b]
    BY DEF Children, ChildTypeOK, Send
  <1>6. excused'[a] <=> Alive(a) /\ worker[a].cancel
    BY Zenon DEF Children, ChildTypeOK, Send
  <1>7. Numbers(a)' /\ Standing(a)' /\ Watch(a)'
    <2>1. CASE Alive(a)
      BY <1>1, <1>2, <1>6, <2>1 DEF Children, ChildTypeOK, Send, Wake, Numbers, Standing, Watch,
         Known, Alive, First1, Busy
    <2>2. CASE ~Alive(a)
      BY <1>1, <1>2, <1>6, <2>2 DEF Children, ChildTypeOK, Send, Wake, NoWorker, Numbers, Standing,
         Watch, Known, Alive, First1, Busy
    <2> QED
      BY <2>1, <2>2
  <1>8. ASSUME NEW b \in Agents, b # a PROVE Numbers(b)' /\ Standing(b)' /\ Watch(b)'
    BY <1>1, <1>2, <1>5, <1>8 DEF Children, ChildTypeOK, Send, Numbers, Standing, Watch, Known,
       Alive, First1
  <1>9. \A b \in Agents : (Known(b) => Known(b)') /\ (First1(b)' => First1(b))
    <2>1. ASSUME NEW b \in Agents PROVE Known(b) => Known(b)'
      BY <1>2 DEF Known, Children, ChildTypeOK
    <2>2. ASSUME NEW b \in Agents, b # a PROVE First1(b)' => First1(b)
      BY <1>1, <2>2 DEF First1
    <2>3. CASE Alive(a)
      <3>1. Wake(a) = [worker[a] EXCEPT !.gen = @ + 1]
        BY <2>3 DEF Wake
      <3> QED
        BY <1>1, <2>1, <2>2, <3>1 DEF First1, Children, ChildTypeOK
    <2>4. CASE ~Alive(a)
      <3>1. Wake(a).pc = "drive"
        BY <2>4 DEF Wake, NoWorker
      <3> QED
        BY <1>1, <2>1, <2>2, <3>1 DEF First1, Busy
    <2> QED
      BY <2>3, <2>4
  <1> QED
    BY <1>4, <1>7, <1>8, <1>9 DEF Moved, Children, Send

WorkerRecord == [pc : {"off", "claim", "resume", "call", "run", "check", "finish", "drive", "retire"},
                 guarded : BOOLEAN, cancel : BOOLEAN,
                 gen : 0..(MaxMessages + 1), seen : 0..(MaxMessages + 1),
                 tried : 0..(MaxMessages + 1), turns : 0..MaxContinuations,
                 out : Stopped \cup {"none"}]
ChildRecord == [state : Stopped \cup {"none", "queued", "running"},
                owner : {"none", "live", "dead"}, inbox : 0..MaxMessages]

LEMMA NoWorkerType ==
    ASSUME ChildAssumption
    PROVE  NoWorker \in WorkerRecord
  BY DEF ChildAssumption, NoWorker, WorkerRecord

\* A step of one child by its own thread.
LEMMA OneMoves ==
    ASSUME Children, NEW a \in Agents, Alive(a),
           NEW w \in WorkerRecord, NEW c \in ChildRecord,
           worker' = [worker EXCEPT ![a] = w], child' = [child EXCEPT ![a] = c],
           excused' \in [Agents -> BOOLEAN], excused[a] => excused'[a],
           \A b \in Agents : b # a => excused'[b] = excused[b],
           UNCHANGED <<open, sent>>,
           c.state # "none",
           Numbers(a)', Standing(a)', Watch(a)', First1(a)' => First1(a)
    PROVE  Moved({}) /\ open' = open
  <1>1. ChildTypeOK'
    BY DEF Children, ChildTypeOK, WorkerRecord, ChildRecord
  <1>2. \A b \in Agents : b # a => worker'[b] = worker[b] /\ child'[b] = child[b]
    BY DEF Children, ChildTypeOK
  <1>3. child'[a] = c
    BY DEF Children, ChildTypeOK
  <1>4. ASSUME NEW b \in Agents, b # a PROVE Numbers(b)' /\ Standing(b)' /\ Watch(b)'
    BY <1>2, <1>4 DEF Children, Numbers, Standing, Watch, Known, Alive, First1
  <1>5. \A b \in Agents : (Known(b) => Known(b)') /\ (First1(b)' => First1(b))
    BY <1>2, <1>3 DEF Known, First1
  <1>6. open
    BY DEF Children
  <1> QED
    BY <1>1, <1>4, <1>5, <1>6 DEF Moved, Children

\* A step within a run: it may take the messages of the inbox.
Kept(v, w) ==
    /\ v.guarded = w.guarded /\ v.cancel = w.cancel
    /\ v.gen = w.gen /\ v.seen = w.seen /\ v.tried = w.tried

LEMMA RunMoves ==
    ASSUME Children, NEW a \in Agents, worker[a].pc \in Busy, ChildAssumption,
           NEW w \in WorkerRecord, w.pc \in Busy, w.out \in Stopped, Kept(w, worker[a]),
           NEW i \in {0, child[a].inbox},
           worker' = [worker EXCEPT ![a] = w],
           child' = [child EXCEPT ![a] = [child[a] EXCEPT !.inbox = i]],
           UNCHANGED <<open, sent, excused>>
    PROVE  Moved({}) /\ open' = open
  <1> DEFINE c == [child[a] EXCEPT !.inbox = i]
  <1>0. child[a] \in ChildRecord /\ sent \in 0..MaxMessages /\ MaxMessages \in Nat
        /\ worker[a] \in WorkerRecord
        /\ worker \in [Agents -> WorkerRecord] /\ child \in [Agents -> ChildRecord]
        /\ excused \in [Agents -> BOOLEAN]
    BY DEF Children, ChildTypeOK, ChildRecord, WorkerRecord, ChildAssumption
  <1>1. Alive(a)
    BY DEF Alive, Busy
  <1>2. Numbers(a) /\ Standing(a) /\ Watch(a) /\ Known(a)
    BY <1>1 DEF Children, Standing
  <1>3. /\ c \in ChildRecord /\ c.state = child[a].state /\ c.inbox <= child[a].inbox
        /\ c.inbox \in Nat /\ child[a].inbox \in Nat
        /\ c.inbox > 0 => child[a].inbox > 0
    BY <1>0 DEF ChildRecord
  <1>4. worker'[a] = w /\ child'[a] = c /\ child' = [child EXCEPT ![a] = c]
    BY <1>0
  <1> HIDE DEF c
  <1>5. Alive(a)' /\ Known(a)' /\ c.state # "none"
    BY <1>2, <1>3, <1>4 DEF Alive, Known, Busy
  <1>6. Numbers(a)'
    BY <1>0, <1>2, <1>3, <1>4 DEF Numbers, Kept, Alive, Busy, WorkerRecord
  <1>7. First1(a)' => First1(a)
    BY <1>4 DEF First1, Kept
  <1>8. Standing(a)'
    BY <1>2, <1>3, <1>4, <1>5, <1>7 DEF Standing, First1, Kept, Busy
  <1>9. Watch(a)'
    BY <1>2, <1>4, <1>5 DEF Watch, Kept, Busy
  <1>10. /\ excused' \in [Agents -> BOOLEAN] /\ excused[a] => excused'[a]
         /\ \A b \in Agents : b # a => excused'[b] = excused[b]
    BY Zenon, <1>0
  <1> QED
    BY <1>0, <1>1, <1>3, <1>4, <1>5, <1>6, <1>7, <1>8, <1>9, <1>10, OneMoves

LEMMA RequestKeeps ==
    ASSUME Children, NEW a \in Agents, NEW allowed \in BOOLEAN, Request(a, allowed), ChildAssumption
    PROVE  Moved({}) /\ open' = open
  <1> DEFINE w == [worker[a] EXCEPT !.pc = IF allowed THEN "run" ELSE "check",
                                    !.out = IF allowed THEN @ ELSE "failed"]
  <1>1. worker[a] \in WorkerRecord /\ worker[a].pc = "call" /\ worker[a].out \in Stopped
    BY DEF Children, ChildTypeOK, WorkerRecord, Request, Standing, Busy
  <1>2. w \in WorkerRecord /\ w.pc \in Busy /\ w.out \in Stopped /\ Kept(w, worker[a])
    BY <1>1 DEF WorkerRecord, Busy, Stopped, EndStates, Kept
  <1>3. worker' = [worker EXCEPT ![a] = w]
    BY <1>1 DEF Request, Children, ChildTypeOK
  <1>4. child' = [child EXCEPT ![a] = [child[a] EXCEPT !.inbox = 0]] /\ UNCHANGED <<open, sent, excused>>
    BY DEF Request, Children, ChildTypeOK
  <1> HIDE DEF w
  <1> QED
    BY <1>1, <1>2, <1>3, <1>4, RunMoves DEF Busy

LEMMA WorkerKeeps ==
    ASSUME Children, NEW a \in Agents, WorkerStep(a), ChildAssumption
    PROVE  Moved({}) /\ open' = open
  <1> DEFINE w == worker[a]
             c == child[a]
  <1>0. w \in WorkerRecord /\ c \in ChildRecord /\ worker \in [Agents -> WorkerRecord]
        /\ child \in [Agents -> ChildRecord] /\ excused \in [Agents -> BOOLEAN]
    BY DEF Children, ChildTypeOK, WorkerRecord, ChildRecord
  <1>a. Alive(a)
    BY DEF WorkerStep, Claim, Answer, Check, Finish, Leave, Look, Retire, Alive
  <1>b. Known(a) /\ c.state # "none" /\ Numbers(a) /\ Standing(a) /\ Watch(a)
    BY <1>a DEF Children, Standing, Known
  <1>c. MaxContinuations \in Nat \ {0} /\ MaxMessages \in Nat /\ sent \in 0..MaxMessages
    BY DEF ChildAssumption, Children, ChildTypeOK
  <1>1. CASE Claim(a)
    <2> DEFINE v == [w EXCEPT !.pc = "call", !.turns = 1, !.out = "completed"]
               d == [c EXCEPT !.state = "running", !.owner = "live"]
    <2>1. v \in WorkerRecord
      <3>1. 1 \in 0..MaxContinuations
        BY <1>c
      <3>2. "completed" \in Stopped
        BY DEF Stopped, EndStates
      <3> QED
        BY <1>0, <3>1, <3>2 DEF WorkerRecord
    <2>2. d \in ChildRecord /\ d.state # "none"
      BY <1>0 DEF ChildRecord
    <2>3. worker' = [worker EXCEPT ![a] = v] /\ child' = [child EXCEPT ![a] = d]
      BY <1>1, <1>0 DEF Claim
    <2>4. worker'[a] = v /\ child'[a] = d
      BY <2>3, <1>0
    <2>5. UNCHANGED <<open, sent, excused>>
      BY <1>1 DEF Claim
    <2>6. Numbers(a)' /\ Standing(a)' /\ Watch(a)' /\ (First1(a)' => First1(a))
      BY <2>4, <2>5, <1>0, <1>1, <1>b DEF Claim, Numbers, Standing, Watch, Known, Alive, First1, Busy,
         WorkerRecord, ChildRecord, Stopped, EndStates
    <2> HIDE DEF v, d, w, c
    <2> QED
      BY <1>0, <1>a, <2>1, <2>2, <2>3, <2>5, <2>6, OneMoves
  <1>2. CASE Answer(a)
    <2>1. w.pc = "run" /\ w.out \in Stopped /\ UNCHANGED <<open, sent, excused>> /\ w.pc \in Busy
      BY <1>2, <1>b DEF Answer, Standing, Busy
    <2>2. ASSUME NEW out \in Stopped, NEW pc \in {"call", "check"}, NEW i \in {0, c.inbox},
                 worker' = [worker EXCEPT ![a] = [w EXCEPT !.pc = pc, !.out = out]],
                 child' = [child EXCEPT ![a] = [c EXCEPT !.inbox = i]]
          PROVE  Moved({}) /\ open' = open
      <3> DEFINE v == [w EXCEPT !.pc = pc, !.out = out]
      <3>1. v \in WorkerRecord /\ v.pc \in Busy /\ v.out \in Stopped /\ Kept(v, w)
        BY <1>0 DEF WorkerRecord, Busy, Kept
      <3> HIDE DEF v
      <3> QED
        BY <2>1, <2>2, <3>1, RunMoves DEF v
    <2>3. c = [c EXCEPT !.inbox = c.inbox] /\ child = [child EXCEPT ![a] = c]
          /\ \A pc \in {"call", "check"} : [w EXCEPT !.pc = pc] = [w EXCEPT !.pc = pc, !.out = w.out]
      BY <1>0 DEF ChildRecord, WorkerRecord
    <2>4. CASE At(a, "call") /\ UNCHANGED child
      BY <2>1, <2>2, <2>3, <2>4 DEF At
    <2>5. ASSUME NEW out \in {"failed", "waiting"},
                 worker' = [worker EXCEPT ![a].pc = "check", ![a].out = out], UNCHANGED child
          PROVE  Moved({}) /\ open' = open
      <3>1. worker' = [worker EXCEPT ![a] = [w EXCEPT !.pc = "check", !.out = out]]
        BY <1>0, <2>5
      <3>2. child' = [child EXCEPT ![a] = [c EXCEPT !.inbox = c.inbox]]
        BY <2>3, <2>5
      <3> QED
        BY <2>2, <3>1, <3>2 DEF Stopped, EndStates
    <2>6. CASE /\ child' = [child EXCEPT ![a].inbox = 0]
               /\ At(a, IF c.inbox > 0 THEN "call" ELSE "check")
      <3>1. CASE c.inbox > 0
        BY <2>1, <2>2, <2>3, <2>6, <3>1 DEF At
      <3>2. CASE ~(c.inbox > 0)
        BY <2>1, <2>2, <2>3, <2>6, <3>2 DEF At
      <3> QED
        BY <3>1, <3>2
    <2> QED
      BY <1>2, <2>4, <2>5, <2>6 DEF Answer
  <1>3. CASE Check(a)
    <2> DEFINE again == c.inbox > 0 /\ ~w.cancel /\ w.out # "failed"
               on == [w EXCEPT !.pc = "call", !.turns = @ + 1, !.out = "completed"]
               out == IF w.cancel THEN "cancelled" ELSE IF again THEN "waiting" ELSE w.out
               end == [w EXCEPT !.pc = "finish", !.out = out]
    <2>1. w.pc = "check" /\ w.pc \in Busy /\ w.out \in Stopped /\ UNCHANGED <<open, sent, excused, child>>
      BY <1>3, <1>b DEF Check, Standing, Busy
    <2>2. child' = [child EXCEPT ![a] = [c EXCEPT !.inbox = c.inbox]]
      BY <1>0, <2>1 DEF ChildRecord
    <2>3. CASE again /\ w.turns < MaxContinuations
      <3>1. w.turns + 1 \in 0..MaxContinuations
        BY <1>0, <1>c, <2>3 DEF WorkerRecord
      <3>2. on \in WorkerRecord /\ on.pc \in Busy /\ on.out \in Stopped /\ Kept(on, w)
        BY <1>0, <3>1 DEF WorkerRecord, Busy, Kept, Stopped, EndStates
      <3>3. worker' = [worker EXCEPT ![a] = on]
        BY <1>3, <2>3 DEF Check
      <3> HIDE DEF on
      <3> QED
        BY <2>1, <2>2, <3>2, <3>3, RunMoves
    <2>4. CASE ~(again /\ w.turns < MaxContinuations)
      <3>1. out \in Stopped
        BY <2>1 DEF Stopped, EndStates
      <3>2. worker' = [worker EXCEPT ![a] = end]
        BY <1>3, <2>4 DEF Check
      <3> HIDE DEF out
      <3>3. end \in WorkerRecord /\ end.pc \in Busy /\ end.out \in Stopped /\ Kept(end, w)
        BY <1>0, <3>1 DEF WorkerRecord, Busy, Kept
      <3> HIDE DEF end
      <3> QED
        BY <2>1, <2>2, <3>2, <3>3, RunMoves
    <2> QED
      BY <2>3, <2>4
  <1>4. CASE Finish(a)
    <2> DEFINE v == [w EXCEPT !.pc = "drive"]
               d == [c EXCEPT !.state = EndState(a), !.owner = "none"]
    <2>1. v \in WorkerRecord
      BY <1>0 DEF WorkerRecord
    <2>2. EndState(a) \in Stopped
      BY <1>4, <1>b DEF Finish, EndState, Standing, Busy, Stopped
    <2>3. d \in ChildRecord /\ d.state # "none" /\ d.inbox = c.inbox
      BY <1>0, <2>2 DEF ChildRecord, Stopped, EndStates
    <2>4. worker' = [worker EXCEPT ![a] = v] /\ child' = [child EXCEPT ![a] = d]
          /\ UNCHANGED <<open, sent, excused>>
      BY <1>4, <1>0 DEF Finish, At
    <2>5. worker'[a] = v /\ child'[a] = d /\ w.pc = "finish"
      BY <2>4, <1>0, <1>4 DEF Finish
    <2>6. v.pc = "drive" /\ Kept(v, w)
      BY <1>0 DEF Kept, WorkerRecord
    <2> HIDE DEF v, d, w, c
    <2>7. Numbers(a)' /\ Standing(a)' /\ Watch(a)' /\ ~First1(a)'
      BY <2>3, <2>4, <2>5, <2>6, <1>a, <1>b DEF Numbers, Standing, Watch, Known, Alive, First1, Busy, Kept, w, c
    <2> QED
      BY <1>0, <1>a, <2>1, <2>3, <2>4, <2>7, OneMoves
  <1>5. CASE Leave(a)
    <2>1. worker' = [worker EXCEPT ![a] = NoWorker] /\ child' = [child EXCEPT ![a] = c]
          /\ UNCHANGED <<open, sent, excused, child>> /\ w.cancel
      BY <1>0, <1>5 DEF Leave
    <2>2. Numbers(a)' /\ Standing(a)' /\ Watch(a)' /\ ~First1(a)'
      BY <2>1, <1>0, <1>a, <1>b, <1>c DEF Numbers, Standing, Watch, Known, Alive, First1, Busy, NoWorker,
         ChildRecord
    <2> HIDE DEF w, c
    <2> QED
      BY <1>0, <1>a, <1>b, <2>1, <2>2, OneMoves, NoWorkerType
  <1>6. CASE Retire(a)
    <2> DEFINE v == [w EXCEPT !.pc = "drive", !.tried = 0]
    <2>0. UNCHANGED <<open, sent, excused, child>> /\ child' = [child EXCEPT ![a] = c] /\ open
          /\ w.pc = "retire" /\ ~w.cancel
      BY <1>0, <1>6, <1>a DEF Retire, Children
    <2>1. CASE w.gen # w.seen
      <3>1. v \in WorkerRecord /\ v.pc = "drive" /\ v.tried = 0 /\ v.gen = w.gen /\ v.seen = w.seen
            /\ v.cancel = w.cancel
        <4>1. 0 \in 0..(MaxMessages + 1)
          BY <1>c
        <4> QED
          BY <1>0, <4>1 DEF WorkerRecord
      <3>2. worker' = [worker EXCEPT ![a] = v]
        BY <1>6, <2>0, <2>1 DEF Retire
      <3>3. worker'[a] = v
        BY <1>0, <3>2
      <3> HIDE DEF v
      <3>4. Numbers(a)' /\ Standing(a)' /\ Watch(a)' /\ ~First1(a)'
        BY <2>0, <3>1, <3>3, <1>0, <1>a, <1>b, <1>c DEF Numbers, Standing, Watch, Known, Alive, First1,
           Busy, WorkerRecord
      <3> HIDE DEF w, c
      <3> QED
        BY <1>0, <1>a, <1>b, <2>0, <3>1, <3>2, <3>4, OneMoves
    <2>2. CASE w.gen = w.seen
      <3>1. worker' = [worker EXCEPT ![a] = NoWorker]
        BY <1>6, <2>2 DEF Retire
      <3>2. Numbers(a)' /\ Standing(a)' /\ Watch(a)' /\ ~First1(a)'
        BY <2>0, <2>2, <3>1, <1>0, <1>a, <1>b, <1>c DEF Numbers, Standing, Watch, Known, Alive, First1,
           Busy, NoWorker, ChildRecord
      <3> HIDE DEF w, c
      <3> QED
        BY <1>0, <1>a, <1>b, <2>0, <3>1, <3>2, OneMoves, NoWorkerType
    <2> QED
      BY <2>1, <2>2
  <1>7. CASE Look(a)
    <2>0. UNCHANGED <<open, sent, child>> /\ child' = [child EXCEPT ![a] = c]
          /\ w.pc = "drive" /\ ~w.cancel
      BY <1>0, <1>7 DEF Look
    <2>1. ASSUME NEW pc \in {"retire", "resume"}, NEW tried \in {w.tried, w.gen},
                 NEW e \in {excused, [excused EXCEPT ![a] = TRUE]},
                 worker' = [worker EXCEPT ![a] = [w EXCEPT !.seen = w.gen, !.pc = pc, !.tried = tried]],
                 excused' = e,
                 pc = "resume" => tried = w.gen,
                 pc = "retire" => c.inbox = 0 \/ e[a]
          PROVE  Moved({}) /\ open' = open
      <3> DEFINE v == [w EXCEPT !.seen = w.gen, !.pc = pc, !.tried = tried]
      <3>1. /\ v \in WorkerRecord /\ v.pc = pc /\ v.seen = w.gen /\ v.tried = tried
            /\ v.gen = w.gen /\ v.cancel = w.cancel
        BY <1>0 DEF WorkerRecord
      <3>2. worker'[a] = v
        BY <1>0, <2>1
      <3>3. e \in [Agents -> BOOLEAN] /\ (excused[a] => e[a]) /\ \A b \in Agents : b # a => e[b] = excused[b]
        BY <1>0
      <3> HIDE DEF v
      <3>4. Numbers(a)'
        BY <2>0, <3>1, <3>2, <1>0, <1>a, <1>b, <1>c DEF Numbers, Alive, WorkerRecord
      <3>5. Standing(a)' /\ Watch(a)' /\ ~First1(a)'
        BY <2>0, <2>1, <3>1, <3>2, <3>3, <1>0, <1>a, <1>b, <1>c DEF Numbers, Standing, Watch, Known, Alive,
           First1, Busy, WorkerRecord
      <3> HIDE DEF w, c
      <3> QED
        BY <1>0, <1>a, <1>b, <2>0, <2>1, <3>1, <3>3, <3>4, <3>5, OneMoves DEF v
    <2> DEFINE seen == [w EXCEPT !.seen = w.gen]
    <2>2. /\ [seen EXCEPT !.pc = "retire"] = [w EXCEPT !.seen = w.gen, !.pc = "retire", !.tried = w.tried]
          /\ [seen EXCEPT !.pc = "resume", !.tried = w.gen]
               = [w EXCEPT !.seen = w.gen, !.pc = "resume", !.tried = w.gen]
      BY <1>0 DEF WorkerRecord
    <2>3. CASE c.inbox = 0
      <3>1. worker' = [worker EXCEPT ![a] = [seen EXCEPT !.pc = "retire"]] /\ excused' = excused
        BY <1>7, <2>3 DEF Look
      <3> QED
        BY <2>1, <2>2, <2>3, <3>1
    <2>4. CASE c.inbox # 0 /\ (w.tried = 0 \/ w.gen > w.tried)
      <3>1. worker' = [worker EXCEPT ![a] = [seen EXCEPT !.pc = "resume", !.tried = w.gen]]
            /\ excused' = excused
        BY <1>7, <2>4 DEF Look
      <3> QED
        BY <2>1, <2>2, <3>1
    <2>5. CASE c.inbox # 0 /\ ~(w.tried = 0 \/ w.gen > w.tried)
      <3>1. worker' = [worker EXCEPT ![a] = [seen EXCEPT !.pc = "retire"]]
            /\ excused' = [excused EXCEPT ![a] = TRUE]
        BY <1>7, <2>5 DEF Look
      <3>2. [excused EXCEPT ![a] = TRUE][a]
        BY <1>0
      <3> QED
        BY <2>1, <2>2, <3>1, <3>2
    <2> QED
      BY <2>3, <2>4, <2>5
  <1> QED
    BY <1>1, <1>2, <1>3, <1>4, <1>5, <1>6, <1>7 DEF WorkerStep

LEMMA CancelKeeps ==
    ASSUME Children, NEW set, CancelAll(set), ChildAssumption
    PROVE  Moved({}) /\ open' = open
  <1>1. \A a \in Agents :
           /\ worker'[a] \in {worker[a], [worker[a] EXCEPT !.cancel = TRUE]}
           /\ worker'[a] = worker[a] \/ (excused'[a] /\ Alive(a))
           /\ child'[a] = child[a] \/ (~Alive(a) /\ child[a].state \in {"queued", "waiting"}
                 /\ child'[a] = [child[a] EXCEPT !.state = "cancelled", !.owner = "none"])
           /\ excused[a] => excused'[a]
    BY DEF CancelAll, CancelledWorker, CancelledChild
  <1>2. worker \in [Agents -> WorkerRecord] /\ child \in [Agents -> ChildRecord]
    BY DEF Children, ChildTypeOK, WorkerRecord, ChildRecord
  <1>3. ASSUME NEW a \in Agents
        PROVE  /\ worker'[a] \in WorkerRecord /\ worker'[a].pc = worker[a].pc
               /\ worker'[a].guarded = worker[a].guarded /\ worker'[a].tried = worker[a].tried
               /\ worker'[a].gen = worker[a].gen /\ worker'[a].seen = worker[a].seen
               /\ worker'[a].out = worker[a].out
               /\ worker'[a].cancel => worker[a].cancel \/ excused'[a]
               /\ ~worker'[a].cancel => ~worker[a].cancel
    <2>1. CASE worker'[a] = worker[a]
      BY <1>2, <2>1
    <2>2. CASE worker'[a] = [worker[a] EXCEPT !.cancel = TRUE] /\ excused'[a]
      <3>1. worker'[a] = [worker[a] EXCEPT !.cancel = TRUE] /\ worker[a] \in WorkerRecord
        BY <1>2, <2>2
      <3>2. /\ worker'[a] \in WorkerRecord /\ worker'[a].pc = worker[a].pc
            /\ worker'[a].guarded = worker[a].guarded /\ worker'[a].tried = worker[a].tried
            /\ worker'[a].gen = worker[a].gen /\ worker'[a].seen = worker[a].seen
            /\ worker'[a].out = worker[a].out /\ worker'[a].cancel
        BY <3>1 DEF WorkerRecord
      <3> QED
        BY Zenon, <2>2, <3>2
    <2> QED
      BY <1>1, <2>1, <2>2
  <1>4. ASSUME NEW a \in Agents
        PROVE  /\ child'[a] \in ChildRecord /\ child'[a].inbox = child[a].inbox
               /\ Known(a) => Known(a)'
               /\ child'[a].state = child[a].state \/ ~Alive(a)
    <2>1. CASE child'[a] = child[a]
      BY <1>2, <2>1 DEF Known
    <2>2. CASE ~Alive(a) /\ child'[a] = [child[a] EXCEPT !.state = "cancelled", !.owner = "none"]
      <3>1. child[a] \in ChildRecord /\ "cancelled" \in Stopped /\ "cancelled" # "none"
        BY <1>2 DEF Stopped, EndStates
      <3> QED
        BY <2>2, <3>1 DEF ChildRecord, Known
    <2> QED
      BY <1>1, <2>1, <2>2
  <1>5. ChildTypeOK'
    <2>1. worker' \in [Agents -> WorkerRecord] /\ child' \in [Agents -> ChildRecord]
      BY <1>3, <1>4 DEF CancelAll
    <2>2. excused' \in [Agents -> BOOLEAN]
      BY Zenon DEF CancelAll
    <2> QED
      BY <2>1, <2>2 DEF CancelAll, Children, ChildTypeOK, WorkerRecord, ChildRecord
  <1>6. ASSUME NEW a \in Agents PROVE Numbers(a)' /\ Standing(a)' /\ Watch(a)' /\ (First1(a)' => First1(a))
    <2>1. Numbers(a) /\ Standing(a) /\ Watch(a)
      BY DEF Children
    <2>2. Numbers(a)'
      BY <2>1, <1>3, <1>4 DEF Numbers, Alive, CancelAll
    <2>3. First1(a)' => First1(a)
      BY <1>3 DEF First1
    <2>4. Standing(a)'
      BY <2>1, <2>3, <1>3, <1>4 DEF Standing, Alive, Known, First1, Busy
    <2>5. Watch(a)'
      BY <2>1, <1>1, <1>3, <1>4 DEF Watch, Alive
    <2> QED
      BY <2>2, <2>3, <2>4, <2>5
  <1> QED
    BY <1>3, <1>4, <1>5, <1>6 DEF Moved, Children, CancelAll, Alive

\* The end of the process leaves no thread.
LEMMA DeathKeeps ==
    ASSUME Children, ChildrenDie, open' = FALSE, ChildAssumption
    PROVE  Moved({})
  <1>1. worker \in [Agents -> WorkerRecord] /\ child \in [Agents -> ChildRecord]
    BY DEF Children, ChildTypeOK, WorkerRecord, ChildRecord
  <1>2. ASSUME NEW a \in Agents
        PROVE  /\ child'[a] \in ChildRecord /\ child'[a].inbox = child[a].inbox
               /\ child'[a].state = child[a].state /\ worker'[a] = NoWorker /\ excused'[a]
    BY <1>1 DEF ChildRecord, ChildrenDie
  <1>3. ChildTypeOK'
    <2>1. child' \in [Agents -> ChildRecord] /\ worker' \in [Agents -> WorkerRecord]
      BY <1>2, NoWorkerType DEF ChildrenDie
    <2> QED
      BY <2>1 DEF Children, ChildTypeOK, ChildrenDie, WorkerRecord, ChildRecord
  <1>4. ASSUME NEW a \in Agents PROVE Numbers(a)' /\ Standing(a)' /\ Watch(a)' /\ ~First1(a)' /\ ~Alive(a)'
    <2>1. Numbers(a) /\ sent' = sent /\ sent \in Nat
      BY DEF Children, ChildrenDie, ChildTypeOK, ChildAssumption
    <2> QED
      BY <2>1, <1>2 DEF Numbers, Standing, Watch, First1, Alive, NoWorker, Busy
  <1> QED
    BY <1>2, <1>3, <1>4 DEF Moved, Children, Known

\* A recovery closes children that nobody runs.
LEMMA ClosingKeeps ==
    ASSUME Children, ~open, open',
           child' = [a \in Agents |-> child'[a]],
           \A a \in Agents :
             child'[a] \in {child[a], [child[a] EXCEPT !.state = "failed", !.owner = "none"]},
           UNCHANGED <<worker, sent, excused>>
    PROVE  Moved({})
  <1>1. worker \in [Agents -> WorkerRecord] /\ child \in [Agents -> ChildRecord]
    BY DEF Children, ChildTypeOK, WorkerRecord, ChildRecord
  <1>2. ASSUME NEW a \in Agents
        PROVE  child'[a] \in ChildRecord /\ child'[a].inbox = child[a].inbox /\ (Known(a) => Known(a)')
    BY <1>1 DEF ChildRecord, Known, Stopped, EndStates
  <1>3. ChildTypeOK'
    <2>1. child' \in [Agents -> ChildRecord]
      BY <1>2
    <2> QED
      BY <2>1 DEF Children, ChildTypeOK, ChildRecord
  <1>4. ASSUME NEW a \in Agents PROVE Numbers(a)' /\ Standing(a)' /\ Watch(a)' /\ ~First1(a)'
    <2>1. Numbers(a) /\ Watch(a) /\ ~Alive(a)
      BY DEF Children
    <2> QED
      BY <2>1, <1>2 DEF Numbers, Standing, Watch, First1, Alive, Busy
  <1> QED
    BY <1>2, <1>3, <1>4 DEF Moved, Children

LEMMA NothingKeeps ==
    ASSUME Children, UNCHANGED childVars
    PROVE  Moved({}) /\ open' = open
  BY DEF Children, Moved, childVars, ChildTypeOK, Numbers, Standing, Watch, Known, Alive, First1

-----------------------------------------------------------------------------
(* The workflow around them: the types of what it keeps. *)

LEMMA FinishedType ==
    ASSUME wf \in WfRecord, NEW s \in EndStates
    PROVE  /\ Finished(s) \in WfRecord /\ Finished(s).state = s /\ Finished(s).owner = "none"
           /\ s \notin Going /\ s # "none"
  BY DEF WfRecord, Stages, Finished, EndStates, Going

LEMMA SettledType ==
    ASSUME wf \in WfRecord
    PROVE  \/ Settled = wf /\ (driver.out = "paused" \/ driver.pause)
           \/ \E s \in EndStates : Settled = Finished(s)
  BY DEF Settled, EndStates

LEMMA WfNext ==
    ASSUME wf \in WfRecord, Next, WorkflowAssumption
    PROVE  wf' \in WfRecord
  <1>0. /\ wf \in WfRecord
        /\ \A s \in EndStates : Finished(s) \in WfRecord
        /\ {wf.stage, wf.back, "queued", "preflight", "agents", "recovering", "paused"} \subseteq Stages
        /\ wf.owner \in {"none", "live", "dead"}
        /\ wf.state \in EndStates \cup Going \cup {"none"} /\ "queued" \in Going /\ "running" \in Going
    BY FinishedType DEF WfRecord, Stages, Going
  <1>1. CASE UNCHANGED wf
    BY <1>1, <1>0
  <1>2. CASE Begin
    <2>1. PICK g \in {"agents", wf.stage} :
              wf' = [wf EXCEPT !.state = "running", !.owner = "live", !.stage = g]
      BY <1>2 DEF Begin
    <2> QED
      BY <1>0, <2>1 DEF WfRecord
  <1>3. CASE Preflight
    <2>1. [wf EXCEPT !.stage = "preflight"] \in WfRecord
      BY <1>0 DEF WfRecord
    <2> QED
      BY <1>3, <1>0, <2>1 DEF Preflight, EndStates
  <1>4. CASE Settle
    BY <1>4, <1>0, SettledType DEF Settle
  <1>5. ASSUME NEW a \in Agents, Reserve(a) PROVE wf' \in WfRecord
    <2> DEFINE n == nodeOf[a]
               asks == [wf.asks EXCEPT ![n] = @ + 1]
    <2>1. CASE wf' = wf
      BY <1>0, <2>1
    <2>2. CASE wf' # wf
      <3>1. /\ wf.started < MaxRequests /\ wf.asks[n] < MaxPerNode
            /\ wf' = [wf EXCEPT !.started = @ + 1, !.asks = asks]
        BY <1>5, <1>0, <2>2 DEF Reserve, WfRecord
      <3>2. wf.started + 1 \in 0..MaxRequests
        BY <1>0, <3>1 DEF WfRecord, WorkflowAssumption
      <3>3. asks \in [Nodes -> 0..MaxPerNode]
        <4>1. wf.asks \in [Nodes -> 0..MaxPerNode]
          BY <1>0 DEF WfRecord
        <4>2. n \in Nodes => wf.asks[n] + 1 \in 0..MaxPerNode
          BY <3>1, <4>1 DEF WorkflowAssumption
        <4> QED
          BY <4>1, <4>2
      <3> HIDE DEF asks
      <3> QED
        BY <1>0, <3>1, <3>2, <3>3 DEF WfRecord
    <2> QED
      BY <2>1, <2>2
  <1>6. CASE StartPlan
    BY <1>6, <1>0 DEF StartPlan, NewDriver, NoDriver, NewNode, NoNode, Idle, WfRecord, Stages, EndStates, Going
  <1>7. CASE Cancel
    BY <1>7, <1>0 DEF Cancel, EndStates
  <1>8. CASE Paused
    <2>1. wf' = wf \/ wf' = [wf EXCEPT !.state = "queued", !.stage = "paused", !.back = wf.stage, !.owner = "none"]
      BY <1>8 DEF Paused
    <2> QED
      BY <1>0, <2>1 DEF WfRecord
  <1>9. CASE Resume
    <2>1. PICK g \in {"agents", wf.back} : wf' = [wf EXCEPT !.owner = "live", !.stage = g]
      BY <1>9 DEF Resume
    <2> QED
      BY <1>0, <2>1 DEF WfRecord
  <1>10. ASSUME NEW n \in Nodes, NEW c \in BOOLEAN, Restart(n, c) PROVE wf' \in WfRecord
    BY <1>10, <1>0 DEF Restart, Atomic, Idle, PutBack, WfRecord, Stages, EndStates, Going
  <1>11. CASE Closed
    <2>1. wf' = wf \/ wf' = [wf EXCEPT !.state = "queued", !.stage = "paused", !.owner = "none"]
      BY <1>11 DEF Closed
    <2> QED
      BY <1>0, <2>1 DEF WfRecord
  <1>12. CASE CloseGivesUp
    BY <1>12, <1>0 DEF CloseGivesUp, Die, Orphaned, NoDriver, NoCmd, WfRecord, Stages, EndStates, Going
  <1>13. CASE Crash
    BY <1>13, <1>0 DEF Crash, Die, Orphaned, NoDriver, NoCmd, WfRecord, Stages, EndStates, Going
  <1>14. CASE Recover
    <2>1. wf' = wf \/ wf' = [wf EXCEPT !.state = "queued", !.stage = "recovering", !.owner = "live"]
      BY <1>14 DEF Recover
    <2> QED
      BY <1>0, <2>1 DEF WfRecord
  <1> QED
    BY <1>1, <1>2, <1>3, <1>4, <1>5, <1>6, <1>7, <1>8, <1>9, <1>10, <1>11, <1>12, <1>13, <1>14 DEF Next, DriverStep, MainStep, User, Top, Sweep, NodeRow, Launched, Wait, DrainEnds, StopActive, Poll, Join, Skip, Launch, PauseGivesUp, NodeCancelled, Pause, Close, AddNode, CancelNode, Message, UseUp, ChildStep, Reap, Atomic, Command, flowVars

LEMMA RowTypes ==
    ASSUME NEW row \in NodeRecord, WorkflowAssumption, ChildAssumption
    PROVE  /\ NoNode \in NodeRecord /\ NewNode \in NodeRecord
           /\ \A s \in EndStates : [row EXCEPT !.st = s] \in NodeRecord
           /\ \A s \in EndStates, r \in BOOLEAN : [row EXCEPT !.st = s, !.report = r] \in NodeRecord
           /\ [row EXCEPT !.st = "queued", !.agent = 0, !.report = FALSE] \in NodeRecord
           /\ row.route < MaxRoutes =>
                [row EXCEPT !.st = "queued", !.agent = 0, !.report = FALSE, !.route = @ + 1] \in NodeRecord
           /\ \A a \in Agents :
                [row EXCEPT !.st = "running", !.agent = a, !.att = @ + 1] \in NodeRecord
  <1>1. 0 \in 0..MaxAgents /\ 1 \in 1..MaxRoutes /\ Agents \subseteq 0..MaxAgents /\ MaxRoutes \in Nat
        /\ "queued" \in Going /\ "running" \in Going
    BY DEF WorkflowAssumption, ChildAssumption, Agents, Going
  <1>2. NoNode \in NodeRecord /\ NewNode \in NodeRecord
    BY <1>1 DEF NodeRecord, NoNode, NewNode
  <1>3. [row EXCEPT !.st = "queued", !.agent = 0, !.report = FALSE] \in NodeRecord
    BY <1>1 DEF NodeRecord
  <1>4. ASSUME row.route < MaxRoutes
        PROVE  [row EXCEPT !.st = "queued", !.agent = 0, !.report = FALSE, !.route = @ + 1] \in NodeRecord
    <2>1. row.route + 1 \in 1..MaxRoutes
      BY <1>1, <1>4 DEF NodeRecord
    <2> QED
      BY <1>1, <2>1 DEF NodeRecord
  <1>5. ASSUME NEW a \in Agents
        PROVE  [row EXCEPT !.st = "running", !.agent = a, !.att = @ + 1] \in NodeRecord
    <2>1. a \in 0..MaxAgents /\ row.att + 1 \in Nat
      BY <1>1 DEF NodeRecord
    <2> QED
      BY <1>1, <2>1 DEF NodeRecord
  <1>6. ASSUME NEW s \in EndStates, NEW r \in BOOLEAN
        PROVE  [row EXCEPT !.st = s] \in NodeRecord /\ [row EXCEPT !.st = s, !.report = r] \in NodeRecord
    BY DEF NodeRecord
  <1> QED
    BY <1>2, <1>3, <1>4, <1>5, <1>6

LEMMA NodeNext ==
    ASSUME IInv, Next, WorkflowAssumption, ChildAssumption
    PROVE  node' \in [Nodes -> NodeRecord]
  <1>0. node \in [Nodes -> NodeRecord] /\ nodeOf \in [Agents -> Nodes \cup {None}] /\ cmd \in CmdRecord
        /\ "cancelled" \in EndStates /\ "failed" \in EndStates /\ "completed" \in EndStates
    BY DEF IInv, Flow, FlowTypes, EndStates
  <1>a. ASSUME NEW n \in Nodes
        PROVE  PutBack(n) \in NodeRecord /\ NoNode \in NodeRecord /\ NewNode \in NodeRecord
    BY <1>0, RowTypes DEF PutBack
  <1>1. CASE UNCHANGED node
    BY <1>1, <1>0, <1>a
  <1>2. ASSUME NEW a \in Agents, Poll(a) PROVE node' \in [Nodes -> NodeRecord]
    <2>1. node[nodeOf[a]] \in NodeRecord
      BY <1>0, <1>2 DEF IInv, Flow, Slots, Poll, Ended
    <2>2. Took(nodeOf[a], a) \in NodeRecord
      BY <1>2, <2>1, RowTypes DEF Poll, Ended, Took
    <2>3. node[nodeOf[a]].route < MaxRoutes => Rerouted(nodeOf[a]) \in NodeRecord
      BY <2>1, RowTypes DEF Rerouted
    <2> QED
      BY <1>2, <1>0, <2>2, <2>3 DEF Poll
  <1>3. CASE Sweep
    <2>1. \A n \in Nodes : [node[n] EXCEPT !.st = "cancelled"] \in NodeRecord
      BY <1>0, RowTypes
    <2> QED
      BY <1>3, <1>0, <2>1 DEF Sweep
  <1>4. CASE NodeRow
    <2>1. \E b \in active : nodeOf[b] = fresh
      BY <1>4 DEF NodeRow, IInv, Flow, Counts
    <2>2. PICK a \in Agents : node' = [node EXCEPT ![fresh].st = "running", ![fresh].agent = a, ![fresh].att = @ + 1]
      BY <1>4, <2>1 DEF NodeRow, IInv, Flow, FlowTypes
    <2>3. node' = [node EXCEPT ![fresh] = [node[fresh] EXCEPT !.st = "running", !.agent = a, !.att = @ + 1]]
      BY <1>0, <2>2
    <2>4. fresh \in Nodes => [node[fresh] EXCEPT !.st = "running", !.agent = a, !.att = @ + 1] \in NodeRecord
      BY <1>0, RowTypes
    <2> QED
      BY <1>0, <2>3, <2>4
  <1>5. CASE StartPlan
    BY <1>5, <1>0, <1>a DEF StartPlan, NewDriver, NoDriver, NewNode, NoNode, Idle
  <1>6. ASSUME NEW n \in Nodes, AddNode(n) PROVE node' \in [Nodes -> NodeRecord]
    BY <1>6, <1>0, <1>a DEF AddNode, Atomic, Idle, NewNode, NoNode
  <1>7. CASE Paused
    BY <1>7, <1>0, <1>a DEF Paused
  <1>8. ASSUME NEW n \in Nodes, NEW c \in BOOLEAN, Restart(n, c) PROVE node' \in [Nodes -> NodeRecord]
    BY <1>8, <1>0, <1>a DEF Restart, Atomic, Idle, PutBack
  <1>9. CASE NodeCancelled
    <2>1. node' = [node EXCEPT ![cmd.node] = [node[cmd.node] EXCEPT !.st = "cancelled"]]
      BY <1>9, <1>0 DEF NodeCancelled
    <2>2. cmd.node \in Nodes => [node[cmd.node] EXCEPT !.st = "cancelled"] \in NodeRecord
      BY <1>0, RowTypes
    <2> QED
      BY <1>0, <2>1, <2>2
  <1>10. CASE Recover
    <2>1. ASSUME NEW n \in Nodes PROVE Recovered(n) \in NodeRecord
      BY <1>0, <1>a, RowTypes DEF Recovered
    <2>2. CASE wf.state \in Going
      <3>1. node' = [n \in Nodes |-> IF n \in Interrupted THEN Recovered(n) ELSE node[n]]
        BY <1>10, <2>2 DEF Recover
      <3> QED
        BY <1>0, <2>1, <3>1
    <2>3. CASE wf.state \notin Going
      BY <1>10, <1>0, <2>3 DEF Recover
    <2> QED
      BY <2>2, <2>3
  <1> QED
    BY <1>1, <1>2, <1>3, <1>4, <1>5, <1>6, <1>7, <1>8, <1>9, <1>10 DEF Next, DriverStep, MainStep, User, Begin, Preflight, Top, Launched, Wait, DrainEnds, StopActive, Settle, Join, Skip, Launch, PauseGivesUp, Closed, CloseGivesUp, Cancel, Pause, Resume, Close, CancelNode, Message, UseUp, Crash, ChildStep, Reserve, Reap, Atomic, Command, Die, Gone, flowVars

LEMMA DriverNext ==
    ASSUME IInv, Next
    PROVE  driver' \in DriverRecord
  <1>0. driver \in DriverRecord
    BY DEF IInv, Flow, FlowTypes
  <1>a. NoDriver \in DriverRecord /\ NewDriver \in DriverRecord
    BY DEF NoDriver, NewDriver, DriverRecord, DriverPcs
  <1>b. /\ \A pc \in DriverPcs : Goto(pc) => driver' \in DriverRecord
        /\ \A out \in {"cancelled", "paused", "raised", "completed"} :
             Exit(out) => driver' \in DriverRecord
    BY <1>0 DEF Goto, Exit, DriverRecord, DriverPcs
  <1>c. /\ [driver EXCEPT !.cancel = TRUE] \in DriverRecord
        /\ [driver EXCEPT !.pause = TRUE] \in DriverRecord
        /\ [driver EXCEPT !.pc = "drain", !.out = "raised"] \in DriverRecord
    BY <1>0 DEF DriverRecord, DriverPcs
  <1>1. CASE UNCHANGED driver
    BY <1>1, <1>0
  <1>2. CASE Begin
    BY <1>2, <1>0, <1>a, <1>b, <1>c DEF Begin, DriverPcs
  <1>3. CASE Preflight
    BY <1>3, <1>0, <1>a, <1>b, <1>c DEF Preflight, DriverPcs, Gone
  <1>4. CASE Top
    BY <1>4, <1>0, <1>a, <1>b, <1>c DEF Top, DriverPcs
  <1>5. CASE Sweep
    BY <1>5, <1>0, <1>a, <1>b, <1>c DEF Sweep, DriverPcs
  <1>6. ASSUME NEW n \in Nodes, NEW a \in Agents, Launch(n, a) PROVE driver' \in DriverRecord
    BY <1>6, <1>0, <1>a, <1>b, <1>c DEF Launch, DriverPcs
  <1>7. CASE NodeRow
    BY <1>7, <1>0, <1>a, <1>b, <1>c DEF NodeRow, DriverPcs
  <1>8. CASE Launched
    BY <1>8, <1>0, <1>a, <1>b, <1>c DEF Launched, DriverPcs
  <1>9. CASE Wait
    BY <1>9, <1>0, <1>a, <1>b, <1>c DEF Wait, DriverPcs
  <1>10. CASE DrainEnds
    BY <1>10, <1>0, <1>a, <1>b, <1>c DEF DrainEnds, DriverPcs
  <1>11. CASE StopActive
    BY <1>11, <1>0, <1>a, <1>b, <1>c DEF StopActive, DriverPcs
  <1>12. CASE Settle
    BY <1>12, <1>0, <1>a, <1>b, <1>c DEF Settle, DriverPcs, Gone
  <1>13. CASE StartPlan
    BY <1>13, <1>0, <1>a, <1>b, <1>c DEF StartPlan, DriverPcs
  <1>14. CASE Cancel
    BY <1>14, <1>0, <1>a, <1>b, <1>c DEF Cancel, DriverPcs
  <1>15. CASE Pause
    BY <1>15, <1>0, <1>a, <1>b, <1>c DEF Pause, DriverPcs
  <1>16. CASE Resume
    BY <1>16, <1>0, <1>a, <1>b, <1>c DEF Resume, DriverPcs
  <1>17. CASE Close
    BY <1>17, <1>0, <1>a, <1>b, <1>c DEF Close, DriverPcs
  <1>18. CASE Closed
    BY <1>18, <1>0, <1>a, <1>b, <1>c DEF Closed, DriverPcs, Die
  <1>19. CASE CloseGivesUp
    BY <1>19, <1>0, <1>a, <1>b, <1>c DEF CloseGivesUp, DriverPcs, Die
  <1>20. CASE Crash
    BY <1>20, <1>0, <1>a, <1>b, <1>c DEF Crash, DriverPcs, Die
  <1>21. CASE Recover
    BY <1>21, <1>0, <1>a, <1>b, <1>c DEF Recover, DriverPcs
  <1> QED
    BY <1>1, <1>2, <1>3, <1>4, <1>5, <1>6, <1>7, <1>8, <1>9, <1>10, <1>11, <1>12, <1>13, <1>14, <1>15, <1>16, <1>17, <1>18, <1>19, <1>20, <1>21 DEF Next, DriverStep, MainStep, User, Poll, Join, Skip, Paused, PauseGivesUp, NodeCancelled, AddNode, CancelNode, Restart, Message, UseUp, ChildStep, Reserve, Reap, Atomic, Command, flowVars

\* Every holder of a slot is counted.
LEMMA SlotCount ==
    ASSUME active \subseteq Agents, stopping \subseteq Agents, reaping \subseteq Agents,
           ChildAssumption
    PROVE  /\ IsFiniteSet(Holders) /\ Cardinality(Holders) \in Nat
           /\ \A a : Cardinality(Holders \cup {a}) =
                       IF a \in Holders THEN Cardinality(Holders) ELSE Cardinality(Holders) + 1
           /\ \A a \in Holders :
                /\ Cardinality(Holders \ {a}) = Cardinality(Holders) - 1
                /\ Cardinality(Holders) \in Nat \ {0}
  <1>1. IsFiniteSet(Agents)
    BY FS_Interval DEF Agents, ChildAssumption
  <1>2. IsFiniteSet(Holders)
    BY <1>1, FS_Subset DEF Holders
  <1> QED
    BY <1>2, FS_CardinalityType, FS_AddElement, FS_RemoveElement, FS_EmptySet

LEMMA SlotsPositive ==
    ASSUME IInv, NEW a \in Holders, ChildAssumption
    PROVE  slots - 1 \in Nat
  <1>1. Cardinality(Holders) \in Nat \ {0}
    BY SlotCount DEF IInv, Flow, FlowTypes
  <1> QED
    BY <1>1 DEF IInv, Flow, Slots, SlotsCoverWorkers


LEMMA TablesTyped ==
    ASSUME IInv, Next, WorkflowAssumption, ChildAssumption
    PROVE  active' \subseteq Agents /\ stopping' \subseteq Agents /\ reaping' \subseteq Agents /\ ready' \subseteq Nodes
  <1>0. FlowTypes
    BY DEF IInv, Flow
  <1>1. CASE UNCHANGED <<active, stopping, reaping, ready>>
    BY <1>1, <1>0 DEF FlowTypes
  <1>2. CASE Preflight
    BY <1>2, <1>0 DEF Preflight, Gone, FlowTypes
  <1>3. CASE Settle
    BY <1>3, <1>0 DEF Settle, Gone, FlowTypes
  <1>4. ASSUME NEW a \in Agents, Poll(a) PROVE active' \subseteq Agents /\ stopping' \subseteq Agents /\ reaping' \subseteq Agents /\ ready' \subseteq Nodes
    BY <1>4, <1>0 DEF Poll, Took, Rerouted, FlowTypes
  <1>5. CASE Sweep
    BY <1>5, <1>0 DEF Sweep, FlowTypes, Plan
  <1>6. ASSUME NEW n \in Nodes, Skip(n) PROVE active' \subseteq Agents /\ stopping' \subseteq Agents /\ reaping' \subseteq Agents /\ ready' \subseteq Nodes
    BY <1>6, <1>0 DEF Skip, FlowTypes
  <1>7. ASSUME NEW n \in Nodes, NEW a \in Agents, Launch(n, a) PROVE active' \subseteq Agents /\ stopping' \subseteq Agents /\ reaping' \subseteq Agents /\ ready' \subseteq Nodes
    BY <1>7, <1>0 DEF Launch, Goto, FlowTypes
  <1>8. CASE Launched
    BY <1>8, <1>0 DEF Launched, Goto, FlowTypes
  <1>9. CASE StopActive
    BY <1>9, <1>0 DEF StopActive, Goto, FlowTypes
  <1>10. ASSUME NEW a \in Agents, Join(a) PROVE active' \subseteq Agents /\ stopping' \subseteq Agents /\ reaping' \subseteq Agents /\ ready' \subseteq Nodes
    BY <1>10, <1>0 DEF Join, FlowTypes
  <1>11. ASSUME NEW a \in Agents, Reap(a) PROVE active' \subseteq Agents /\ stopping' \subseteq Agents /\ reaping' \subseteq Agents /\ ready' \subseteq Nodes
    BY <1>11, <1>0 DEF Reap, FlowTypes
  <1>12. CASE Closed
    BY <1>12 DEF Closed, Die
  <1>13. CASE CloseGivesUp
    BY <1>13 DEF CloseGivesUp, Die
  <1>14. CASE Crash
    BY <1>14 DEF Crash, Die
  <1> QED
    BY <1>1, <1>2, <1>3, <1>4, <1>5, <1>6, <1>7, <1>8, <1>9, <1>10, <1>11, <1>12, <1>13, <1>14 DEF Next, DriverStep, MainStep, User, Begin, Top, NodeRow, Wait, DrainEnds, Paused, PauseGivesUp, NodeCancelled, Recover, StartPlan, Cancel, Pause, Resume, Close, AddNode, CancelNode, Restart, Message, UseUp, ChildStep, Reserve, Atomic, Command, flowVars

LEMMA LaunchTyped ==
    ASSUME IInv, Next, WorkflowAssumption, ChildAssumption
    PROVE  fresh' \in Nodes \cup {None} /\ nodeOf' \in [Agents -> Nodes \cup {None}] /\ spawned' \in [Nodes -> Nat]
  <1>0. FlowTypes
    BY DEF IInv, Flow
  <1>1. CASE UNCHANGED <<fresh, nodeOf, spawned>>
    BY <1>1, <1>0 DEF FlowTypes
  <1>2. ASSUME NEW n \in Nodes, NEW a \in Agents, Launch(n, a) PROVE fresh' \in Nodes \cup {None} /\ nodeOf' \in [Agents -> Nodes \cup {None}] /\ spawned' \in [Nodes -> Nat]
    BY <1>2, <1>0 DEF Launch, Goto, FlowTypes
  <1>3. CASE NodeRow
    BY <1>3, <1>0 DEF NodeRow, Goto, FlowTypes
  <1>4. CASE Closed
    BY <1>4, <1>0 DEF Closed, Die, FlowTypes
  <1>5. CASE CloseGivesUp
    BY <1>5, <1>0 DEF CloseGivesUp, Die, FlowTypes
  <1>6. CASE Crash
    BY <1>6, <1>0 DEF Crash, Die, FlowTypes
  <1> QED
    BY <1>1, <1>2, <1>3, <1>4, <1>5, <1>6 DEF Next, DriverStep, MainStep, User, Begin, Preflight, Top, Sweep, Launched, Wait, DrainEnds, StopActive, Settle, Poll, Join, Skip, Paused, PauseGivesUp, NodeCancelled, Recover, StartPlan, Cancel, Pause, Resume, Close, AddNode, CancelNode, Restart, Message, UseUp, ChildStep, Reserve, Reap, Atomic, Command, Gone, flowVars

LEMMA GateTyped ==
    ASSUME IInv, Next
    PROVE  gate' = [a \in Agents |-> gate'[a]]
  <1>0. gate = [a \in Agents |-> gate[a]]
    BY DEF IInv, Flow, FlowTypes
  <1>1. CASE UNCHANGED gate
    BY <1>0, <1>1
  <1>2. ASSUME NEW n \in Nodes, NEW a \in Agents, Launch(n, a)
        PROVE  gate' = [b \in Agents |-> gate'[b]]
    BY <1>0, <1>2 DEF Launch
  <1> QED
    BY <1>1, <1>2 DEF Next, DriverStep, MainStep, User, Begin, Preflight, Top, Sweep, NodeRow, Launched, Wait, DrainEnds, StopActive, Settle, Poll, Join, Skip, Paused, PauseGivesUp, NodeCancelled, Closed, CloseGivesUp, Recover, StartPlan, Cancel, Pause, Resume, Close, AddNode, CancelNode, Restart, Message, UseUp, Crash, ChildStep, Reserve, Reap, Atomic, Command, Die, Gone, flowVars

LEMMA CommandTyped ==
    ASSUME IInv, Next, WorkflowAssumption, ChildAssumption
    PROVE  cmd' \in CmdRecord /\ up' \in BOOLEAN /\ late' \in BOOLEAN
  <1>0. FlowTypes
    BY DEF IInv, Flow
  <1>1. CASE UNCHANGED <<cmd, up, late>>
    BY <1>1, <1>0 DEF FlowTypes
  <1>2. CASE Paused
    BY <1>2, <1>0 DEF Paused, PutBack, NoCmd, FlowTypes, CmdRecord
  <1>3. CASE PauseGivesUp
    BY <1>3, <1>0 DEF PauseGivesUp, NoCmd, FlowTypes, CmdRecord
  <1>4. CASE NodeCancelled
    BY <1>4, <1>0 DEF NodeCancelled, NoCmd, FlowTypes, CmdRecord
  <1>5. CASE Closed
    BY <1>5, <1>0 DEF Closed, Die, NoDriver, NoCmd, FlowTypes, CmdRecord
  <1>6. CASE CloseGivesUp
    BY <1>6, <1>0 DEF CloseGivesUp, Die, Orphaned, NoDriver, NoCmd, FlowTypes, CmdRecord
  <1>7. CASE Recover
    BY <1>7, <1>0 DEF Recover, NoCmd, NewDriver, NoDriver, FlowTypes, CmdRecord
  <1>8. CASE Pause
    BY <1>8, <1>0 DEF Pause, Command, Idle, Driven, FlowTypes, CmdRecord
  <1>9. CASE Close
    BY <1>9, <1>0 DEF Close, Idle, NoCmd, Driven, FlowTypes, CmdRecord
  <1>10. ASSUME NEW n \in Nodes, CancelNode(n) PROVE cmd' \in CmdRecord /\ up' \in BOOLEAN /\ late' \in BOOLEAN
    BY <1>10, <1>0 DEF CancelNode, Command, Idle, FlowTypes, CmdRecord
  <1>11. CASE Crash
    BY <1>11, <1>0 DEF Crash, Die, Orphaned, NoDriver, NoCmd, FlowTypes, CmdRecord
  <1> QED
    BY <1>1, <1>2, <1>3, <1>4, <1>5, <1>6, <1>7, <1>8, <1>9, <1>10, <1>11 DEF Next, DriverStep, MainStep, User, Begin, Preflight, Top, Sweep, NodeRow, Launched, Wait, DrainEnds, StopActive, Settle, Poll, Join, Skip, Launch, StartPlan, Cancel, Resume, AddNode, Restart, Message, UseUp, ChildStep, Reserve, Reap, Atomic, Gone, flowVars

LEMMA NumbersTyped ==
    ASSUME IInv, Next, WorkflowAssumption, ChildAssumption
    PROVE  slots' \in Nat /\ ops' \in Nat /\ pauses' \in Nat /\ lost' \in Nat
  <1>0. FlowTypes
    BY DEF IInv, Flow
  <1>1. CASE UNCHANGED <<slots, ops, pauses, lost>>
    BY <1>1, <1>0 DEF FlowTypes
  <1>2. ASSUME NEW a \in Agents, Poll(a) PROVE slots' \in Nat /\ ops' \in Nat /\ pauses' \in Nat /\ lost' \in Nat
    BY <1>2, <1>0, SlotsPositive DEF Poll, Ended, Holders, FlowTypes
  <1>3. ASSUME NEW n \in Nodes, NEW a \in Agents, Launch(n, a) PROVE slots' \in Nat /\ ops' \in Nat /\ pauses' \in Nat /\ lost' \in Nat
    BY <1>3, <1>0 DEF Launch, Goto, FlowTypes
  <1>4. ASSUME NEW a \in Agents, Join(a) PROVE slots' \in Nat /\ ops' \in Nat /\ pauses' \in Nat /\ lost' \in Nat
    BY <1>4, <1>0, SlotsPositive DEF Join, Holders, FlowTypes
  <1>5. ASSUME NEW a \in Agents, Reap(a) PROVE slots' \in Nat /\ ops' \in Nat /\ pauses' \in Nat /\ lost' \in Nat
    BY <1>5, <1>0, SlotsPositive DEF Reap, Holders, FlowTypes
  <1>6. CASE Paused
    BY <1>6, <1>0 DEF Paused, FlowTypes
  <1>7. CASE Cancel
    BY <1>7, <1>0 DEF Cancel, Atomic, Idle, Finished, Driven, FlowTypes
  <1>8. CASE Pause
    BY <1>8, <1>0 DEF Pause, Command, Idle, Driven, FlowTypes
  <1>9. ASSUME NEW n \in Nodes, AddNode(n) PROVE slots' \in Nat /\ ops' \in Nat /\ pauses' \in Nat /\ lost' \in Nat
    BY <1>9, <1>0 DEF AddNode, Atomic, Idle, NewNode, NoNode, FlowTypes
  <1>10. ASSUME NEW n \in Nodes, CancelNode(n) PROVE slots' \in Nat /\ ops' \in Nat /\ pauses' \in Nat /\ lost' \in Nat
    BY <1>10, <1>0 DEF CancelNode, Command, Idle, FlowTypes
  <1>11. ASSUME NEW n \in Nodes, NEW c \in BOOLEAN, Restart(n, c) PROVE slots' \in Nat /\ ops' \in Nat /\ pauses' \in Nat /\ lost' \in Nat
    BY <1>11, <1>0 DEF Restart, Atomic, FlowTypes
  <1>12. ASSUME NEW a \in Agents, Message(a) PROVE slots' \in Nat /\ ops' \in Nat /\ pauses' \in Nat /\ lost' \in Nat
    BY <1>12, <1>0 DEF Message, Atomic, Idle, FlowTypes
  <1>13. CASE Closed
    BY <1>13, <1>0 DEF Closed, Die, FlowTypes
  <1>14. CASE CloseGivesUp
    BY <1>14, <1>0 DEF CloseGivesUp, Die, FlowTypes
  <1>15. CASE Crash
    BY <1>15, <1>0 DEF Crash, Die, FlowTypes
  <1> QED
    BY <1>1, <1>2, <1>3, <1>4, <1>5, <1>6, <1>7, <1>8, <1>9, <1>10, <1>11, <1>12, <1>13, <1>14, <1>15 DEF Next, DriverStep, MainStep, User, Begin, Preflight, Top, Sweep, NodeRow, Launched, Wait, DrainEnds, StopActive, Settle, Skip, PauseGivesUp, NodeCancelled, Recover, StartPlan, Resume, Close, UseUp, ChildStep, Reserve, Gone, flowVars

LEMMA TypesNext ==
    ASSUME IInv, Next, WorkflowAssumption, ChildAssumption
    PROVE  FlowTypes'
  <1>1. wf \in WfRecord
    BY DEF IInv, Flow, FlowTypes
  <1> QED
    BY <1>1, WfNext, NodeNext, DriverNext, TablesTyped, LaunchTyped, GateTyped, CommandTyped,
       NumbersTyped        DEF FlowTypes

-----------------------------------------------------------------------------
(* What each step does to the children, and to the order of the threads. *)

LEMMA ChildrenNext ==
    ASSUME IInv, Next, ChildAssumption
    PROVE  /\ Children'
           /\ \A a \in Agents : Known(a) => Known(a)'
           /\ \A a \in Agents : First1(a)' => First1(a) \/ a \in active'
           /\ open' => open \/ Recover
  <1>0. Children /\ (cmd.op = "dead" => ~open)
    BY DEF IInv, Flow, Tables, Places, Dead, Planned
  <1> DEFINE Quiet == (\E set \in SUBSET active' : Moved(set)) /\ (open' => open \/ Recover)
  <1>1. ASSUME UNCHANGED childVars PROVE Quiet
    BY <1>1, <1>0, NothingKeeps
  <1>2. ASSUME NEW n \in Nodes, NEW a \in Agents, Launch(n, a) PROVE Quiet
    <2>1. Moved({a}) /\ open' = open
      BY <1>2, <1>0, SpawnKeeps DEF Launch
    <2>2. a \in active'
      BY <1>2 DEF Launch
    <2> QED
      BY <2>1, <2>2
  <1>3. ASSUME StopActive PROVE Quiet
    BY <1>3, <1>0, CancelKeeps DEF StopActive
  <1>4. ASSUME NEW a \in Agents, Reserve(a) PROVE Quiet
    BY <1>4, <1>0, RequestKeeps DEF Reserve
  <1>5. ASSUME NEW a \in Agents, ChildStep(a) PROVE Quiet
    BY <1>5, <1>0, WorkerKeeps DEF ChildStep
  <1>6. ASSUME NEW a \in Agents, Message(a) PROVE Quiet
    BY <1>6, <1>0, SendKeeps DEF Message
  <1>7. ASSUME NEW n \in Nodes, CancelNode(n) PROVE Quiet
    BY <1>7, <1>0, CancelKeeps DEF CancelNode
  <1>8. ASSUME Closed PROVE Quiet
    BY <1>8, <1>0, DeathKeeps DEF Closed, Die, NoCmd
  <1>9. ASSUME CloseGivesUp PROVE Quiet
    BY <1>9, <1>0, DeathKeeps DEF CloseGivesUp, Die, NoCmd
  <1>10. ASSUME Crash PROVE Quiet
    BY <1>10, <1>0, DeathKeeps DEF Crash, Die, NoCmd
  <1>11. ASSUME Recover PROVE Quiet
    <2>1. ~open /\ open'
      BY <1>11, <1>0 DEF Recover
    <2>2. /\ child' = [a \in Agents |-> child'[a]]
          /\ \A a \in Agents :
               child'[a] \in {child[a], [child[a] EXCEPT !.state = "failed", !.owner = "none"]}
      <3>1. CASE wf.state \in Going
        BY <1>11, <3>1 DEF Recover
      <3>2. CASE wf.state \notin Going
        BY <1>11, <1>0, <3>2 DEF Recover, Children, ChildTypeOK
      <3> QED
        BY <3>1, <3>2
    <2>3. UNCHANGED <<worker, sent, excused>>
      BY <1>11 DEF Recover
    <2>4. Moved({})
      BY <1>0, <2>1, <2>2, <2>3, ClosingKeeps
    <2> QED
      BY <1>11, <2>4
  <1>100. Quiet
    BY <1>1, <1>2, <1>3, <1>4, <1>5, <1>6, <1>7, <1>8, <1>9, <1>10, <1>11 DEF Next, DriverStep, MainStep, User, Begin, Preflight, Top, Sweep, NodeRow, Launched, Wait, DrainEnds, Settle, Poll, Join, Skip, Paused, PauseGivesUp, NodeCancelled, StartPlan, Cancel, Pause, Resume, Close, AddNode, Restart, UseUp, Reap, Atomic, Command, Gone
  <1> QED
    BY <1>100 DEF Moved

LEMMA Moves ==
    ASSUME driver \in DriverRecord
    PROVE  /\ \A pc : Goto(pc) => driver'.pc = pc /\ driver'.cancel = driver.cancel
                                  /\ driver'.pause = driver.pause /\ driver'.out = driver.out
           /\ \A out : Exit(out) => driver'.pc = "stop" /\ driver'.cancel = driver.cancel
                                    /\ driver'.pause = driver.pause /\ driver'.out = out
  BY DEF Goto, Exit, DriverRecord

LEMMA OwnerNext ==
    ASSUME IInv, Next
    PROVE  Owner'
  <1>0. /\ Owner /\ (driver.pc = "off" => driver = NoDriver)
        /\ cmd.op = "close" => ~up
        /\ cmd.op = "dead" => ~Driven /\ ~up
        /\ wf.state = "none" => ~Driven
    BY DEF IInv, Flow, Tables, Places, Dead, Planned
  <1>a. wf \in WfRecord /\ driver \in DriverRecord /\ cmd \in CmdRecord
    BY DEF IInv, Flow, FlowTypes
  <1>b. \A s \in EndStates : Finished(s).state \notin Going
    BY <1>a, FinishedType
  <1>c. ASSUME UNCHANGED <<up, cmd, wf, late>>, NEW pc \in DriverPcs \ {"off"}, Goto(pc)
        PROVE  Owner'
    BY <1>0, <1>a, <1>c, Moves DEF Owner, Driven
  <1>d. ASSUME UNCHANGED <<up, cmd, wf, late>>, NEW out, out = "paused" => driver.pause, Exit(out)
        PROVE  Owner'
    BY <1>0, <1>a, <1>d, Moves DEF Owner, Driven
  <1>1. CASE UNCHANGED <<up, cmd, wf, driver, late>>
    BY <1>1, <1>0 DEF Owner, Driven
  <1>2. CASE Begin
    BY <1>2, <1>0, <1>a, <1>b DEF Begin, Goto, Owner, Driven
  <1>3. CASE Preflight
    <2>0. UNCHANGED <<up, cmd, late>>
      BY <1>3 DEF Preflight, Gone
    <2>1. CASE Goto("top") /\ wf' \in {wf, [wf EXCEPT !.stage = "preflight"]}
      <3>1. UNCHANGED <<up, cmd, late>> /\ wf'.state = wf.state /\ wf'.owner = wf.owner
        BY <2>0, <2>1, <1>a DEF WfRecord
      <3> QED
        BY <1>0, <1>a, <2>1, <3>1, Moves DEF Owner, Driven
    <2>2. CASE Gone /\ \E t \in EndStates : wf' = Finished(t)
      BY <1>0, <1>a, <1>b, <2>2 DEF Gone, NoDriver, Owner, Driven
    <2> QED
      BY <1>3, <2>1, <2>2 DEF Preflight, EndStates
  <1>4. CASE Top
    BY <1>4, <1>c, <1>d DEF Top, DriverPcs
  <1>5. CASE Sweep
    <2>0. UNCHANGED <<up, cmd, wf, late>>
      BY <1>5 DEF Sweep
    <2>1. CASE driver' = [driver EXCEPT !.pc = "drain", !.out = "raised"]
      <3>1. driver'.pc = "drain" /\ driver'.out = "raised" /\ driver'.pause = driver.pause
        BY <1>a, <2>1 DEF DriverRecord
      <3> QED
        BY <1>0, <2>0, <3>1 DEF Owner, Driven
    <2>2. CASE Goto("launch")
      BY <1>c, <2>0, <2>2 DEF DriverPcs
    <2>3. CASE Exit("raised") \/ Exit("completed")
      BY <1>d, <2>0, <2>3
    <2> QED
      BY <1>5, <2>1, <2>2, <2>3 DEF Sweep
  <1>6. CASE NodeRow
    BY <1>6, <1>c, <1>d DEF NodeRow, DriverPcs
  <1>7. CASE Launched
    BY <1>7, <1>c, <1>d DEF Launched, DriverPcs
  <1>8. CASE Wait
    BY <1>8, <1>c, <1>d DEF Wait, DriverPcs
  <1>9. CASE DrainEnds
    BY <1>9, <1>c, <1>d DEF DrainEnds, DriverPcs
  <1>10. CASE StopActive
    <2>1. UNCHANGED <<up, cmd, wf, late>> /\ Goto("join")
      BY <1>10 DEF StopActive
    <2> QED
      BY <1>0, <1>a, <2>1, Moves DEF Owner, Driven
  <1>11. CASE Settle
    <2>1. UNCHANGED <<up, cmd, late>> /\ driver' = NoDriver /\ wf' = Settled
      BY <1>11 DEF Settle, Gone
    <2>2. (wf' = wf /\ driver.pause) \/ wf'.state \notin Going
      BY <1>0, <1>a, <1>b, <2>1, SettledType DEF Owner
    <2> QED
      BY <1>0, <2>1, <2>2 DEF NoDriver, Owner, Driven
  <1>12. ASSUME NEW n \in Nodes, NEW a \in Agents, Launch(n, a) PROVE Owner'
    BY <1>12, <1>c, <1>d DEF Launch, DriverPcs
  <1>13. CASE Paused
    <2>1. /\ UNCHANGED <<up, late, driver>> /\ cmd' = NoCmd /\ ~Driven
          /\ (wf.state \notin Going /\ wf' = wf) \/ wf'.owner = "none"
      <3>1. [wf EXCEPT !.state = "queued", !.stage = "paused", !.back = wf.stage, !.owner = "none"].owner = "none"
        BY <1>a DEF WfRecord
      <3> QED
        BY <1>13, <3>1 DEF Paused
    <2> QED
      BY <1>0, <2>1 DEF Owner, Driven, NoCmd, NoDriver
  <1>14. CASE PauseGivesUp
    BY <1>14, <1>0, <1>a, <1>b DEF PauseGivesUp, NoCmd, Owner, Driven
  <1>15. CASE NodeCancelled
    BY <1>15, <1>0, <1>a, <1>b DEF NodeCancelled, NoCmd, Owner, Driven
  <1>16. CASE Closed
    BY <1>16, <1>0, <1>a, <1>b DEF Closed, Die, NoDriver, NoCmd, Owner, Driven
  <1>17. CASE CloseGivesUp
    BY <1>17, <1>0, <1>a, <1>b DEF CloseGivesUp, Die, Orphaned, NoDriver, NoCmd, Owner, Driven
  <1>18. CASE Recover
    BY <1>18, <1>0, <1>a, <1>b DEF Recover, NoCmd, NewDriver, NoDriver, Owner, Driven
  <1>19. CASE StartPlan
    BY <1>19, <1>0, <1>a, <1>b DEF StartPlan, NewDriver, NoDriver, NewNode, NoNode, Idle, Owner, Driven
  <1>20. CASE Cancel
    <2>1. UNCHANGED <<up, cmd, late>>
      BY <1>20 DEF Cancel, Atomic
    <2>2. CASE driver' = [driver EXCEPT !.cancel = TRUE] /\ wf' = wf
      <3>1. driver'.pc = driver.pc /\ driver'.pause = driver.pause /\ driver'.out = driver.out
        BY <1>a, <2>2 DEF DriverRecord
      <3> QED
        BY <1>0, <2>1, <2>2, <3>1 DEF Owner, Driven
    <2>3. CASE driver' = driver /\ wf' = Finished("cancelled")
      <3>1. wf'.state \notin Going
        BY <1>b, <2>3 DEF EndStates
      <3> QED
        BY <1>0, <2>1, <2>3, <3>1 DEF Owner, Driven
    <2> QED
      BY <1>20, <2>2, <2>3 DEF Cancel
  <1>21. CASE Pause
    BY <1>21, <1>0, <1>a, <1>b DEF Pause, Command, Idle, Driven, Owner, Driven
  <1>22. CASE Resume
    BY <1>22, <1>0, <1>a, <1>b DEF Resume, Idle, NewDriver, NoDriver, Owner, Driven
  <1>23. CASE Close
    BY <1>23, <1>0, <1>a, <1>b DEF Close, Idle, NoCmd, Driven, Owner, Driven
  <1>24. ASSUME NEW n \in Nodes, CancelNode(n) PROVE Owner'
    BY <1>24, <1>0, <1>a, <1>b DEF CancelNode, Command, Idle, Owner, Driven
  <1>25. ASSUME NEW n \in Nodes, NEW c \in BOOLEAN, Restart(n, c) PROVE Owner'
    <2>1. UNCHANGED <<up, cmd, late, driver>> /\ wf'.owner = "none"
      <3>1. wf' = [wf EXCEPT !.state = "queued", !.stage = "paused", !.back = "agents", !.owner = "none"]
        BY <1>25 DEF Restart
      <3> QED
        BY <1>25, <1>a, <3>1 DEF Restart, Atomic, WfRecord
    <2> QED
      BY <1>0, <2>1 DEF Owner, Driven
  <1>26. CASE Crash
    BY <1>26, <1>0, <1>a, <1>b DEF Crash, Die, Orphaned, NoDriver, NoCmd, Owner, Driven
  <1>27. ASSUME NEW a \in Agents, Reserve(a) PROVE Owner'
    BY <1>27, <1>0, <1>a, <1>b DEF Reserve, Owner, Driven
  <1> QED
    BY <1>1, <1>2, <1>3, <1>4, <1>5, <1>6, <1>7, <1>8, <1>9, <1>10, <1>11, <1>12, <1>13, <1>14, <1>15, <1>16, <1>17, <1>18, <1>19, <1>20, <1>21, <1>22, <1>23, <1>24, <1>25, <1>26, <1>27 DEF Next, DriverStep, MainStep, User, Poll, Join, Skip, AddNode, Message, UseUp, ChildStep, Reap, Atomic, flowVars

LEMMA RowFields ==
    ASSUME NEW n \in Nodes, node[n] \in NodeRecord
    PROVE  /\ PutBack(n).st = "queued" /\ PutBack(n).att = node[n].att /\ ~PutBack(n).report
           /\ Rerouted(n).st = "queued" /\ Rerouted(n).att = node[n].att /\ ~Rerouted(n).report
           /\ Recovered(n).st \in {"completed", "queued", "failed"}
           /\ Recovered(n).att = node[n].att
           /\ Recovered(n).st = "completed" => Recovered(n).report
           /\ Recovered(n).st = "queued" => Recovered(n).att < MaxAttempts /\ ~Recovered(n).report
           /\ Recovered(n).st = "failed" => Recovered(n).report = node[n].report
           /\ \A a : Took(n, a).st = child[a].state /\ Took(n, a).att = node[n].att
                     /\ (Took(n, a).report <=> child[a].state = "completed")
  BY DEF PutBack, Rerouted, Recovered, Took, NodeRecord

LEMMA SweepFacts ==
    ASSUME Sweep
    PROVE  /\ driver.pc = "poll"
           /\ UNCHANGED <<wf, active, fresh, stopping, nodeOf, gate, slots, reaping, over,
                          cmd, up, ops, ends, spawned, pauses, late, lost, asked, childVars>>
           /\ \/ /\ driver' = [driver EXCEPT !.pc = "drain", !.out = "raised"]
                 /\ UNCHANGED <<node, ready>>
              \/ /\ \E blocked \in SUBSET {n \in Plan : node[n].st = "queued"} :
                      node' = [n \in Nodes |->
                        IF n \in blocked THEN [node[n] EXCEPT !.st = "cancelled"] ELSE node[n]]
                 /\ ready' \subseteq {n \in Plan : node[n].st = "queued" /\ node'[n] = node[n]}
                 /\ \A n \in ready' : \A d \in Deps[n] : node[d].st = "completed"
                 /\ Goto("launch") \/ ((Exit("completed") \/ Exit("raised")) /\ ready' = {})
  <1> DEFINE queued == {n \in Plan : node[n].st = "queued"}
             blocked == {n \in queued : \E d \in Deps[n] : node[d].st \in {"failed", "cancelled"}}
             can == {n \in queued \ blocked : \A d \in Deps[n] : node[d].st = "completed"}
             more == queued \ blocked
  <1>1. CASE over
    BY <1>1 DEF Sweep
  <1>2. CASE ~over
    <2>1. /\ node' = [n \in Nodes |->
                        IF n \in blocked THEN [node[n] EXCEPT !.st = "cancelled"] ELSE node[n]]
          /\ ready' = can
      BY <1>2 DEF Sweep
    <2>2. \/ (Exit("completed") \/ Exit("raised")) /\ more = {}
          \/ Exit("raised") /\ can = {}
          \/ Goto("launch")
      BY <1>2 DEF Sweep
    <2>3. can \subseteq more /\ blocked \subseteq queued /\ queued \subseteq Nodes
      BY DEF Plan
    <2>4. \A n \in can : node'[n] = node[n]
      BY <2>1, <2>3
    <2>5. driver.pc = "poll" /\ UNCHANGED <<wf, active, fresh, stopping, nodeOf, gate, slots, reaping, over,
                          cmd, up, ops, ends, spawned, pauses, late, lost, asked, childVars>>
      BY DEF Sweep
    <2>6. ready' = {} \/ Goto("launch")
      BY <2>1, <2>2, <2>3
    <2>7. \A n \in ready' : n \in queued /\ node'[n] = node[n] /\ \A d \in Deps[n] : node[d].st = "completed"
      BY <2>1, <2>4
    <2> HIDE DEF queued, blocked, can, more
    <2> QED
      BY <2>1, <2>2, <2>3, <2>5, <2>6, <2>7 DEF queued
  <1> QED
    BY <1>1, <1>2

LEMMA PlacesNext ==
    ASSUME IInv, Next
    PROVE  Places'
  <1>0. Places /\ driver \in DriverRecord
    BY DEF IInv, Flow, FlowTypes, Tables
  <1>a. wf.state = "none" => ~Driven
    BY DEF IInv, Flow, Tables, Planned
  <1>b. cmd.op = "dead" => ~Driven
    BY DEF IInv, Flow, Tables, Dead
  <1>1. CASE UNCHANGED <<driver, active, stopping, ready>>
    BY <1>1, <1>0 DEF Places
  <1>2. CASE Begin
    BY <1>2, <1>0, <1>a, Moves DEF Begin, Places
  <1>3. CASE Preflight
    <2>1. UNCHANGED <<active, stopping>> /\ (ready' = ready \/ ready' = {})
      BY <1>3 DEF Preflight, Gone
    <2>2. driver' = NoDriver \/ Goto("top")
      BY <1>3 DEF Preflight, Gone
    <2> QED
      BY <1>3, <1>0, <2>1, <2>2, Moves DEF Preflight, NoDriver, Places
  <1>4. CASE Top
    BY <1>4, <1>0, <1>a, Moves DEF Top, Places
  <1>5. CASE Sweep
    <2>1. UNCHANGED <<active, stopping>> /\ driver.pc = "poll"
      BY <1>5, SweepFacts
    <2>2. CASE driver' = [driver EXCEPT !.pc = "drain", !.out = "raised"] /\ UNCHANGED <<node, ready>>
      <3>1. driver'.pc = "drain"
        BY <1>0, <2>2 DEF DriverRecord
      <3> QED
        BY <1>0, <2>1, <2>2, <3>1 DEF Places
    <2>3. CASE Goto("launch") \/ ((Exit("completed") \/ Exit("raised")) /\ ready' = {})
      BY <1>0, <2>1, <2>3, Moves DEF Places
    <2> QED
      BY <1>5, <2>2, <2>3, SweepFacts
  <1>6. CASE NodeRow
    <2>1. UNCHANGED <<active, stopping, ready>> /\ driver.pc = "row" /\ Goto("launch")
      BY <1>6 DEF NodeRow
    <2> QED
      BY <1>0, <2>1, Moves DEF Places
  <1>7. CASE Launched
    BY <1>7, <1>0, <1>a, Moves DEF Launched, Places
  <1>8. CASE Wait
    BY <1>8, <1>0, <1>a, Moves DEF Wait, Places
  <1>9. CASE DrainEnds
    BY <1>9, <1>0, <1>a, Moves DEF DrainEnds, Places
  <1>10. CASE StopActive
    BY <1>10, <1>0, <1>a, Moves DEF StopActive, Places
  <1>11. CASE Settle
    BY <1>11, <1>0, <1>a, Moves DEF Settle, Gone, NoDriver, Places
  <1>12. ASSUME NEW a \in Agents, Poll(a) PROVE Places'
    BY <1>12, <1>0, <1>a, Moves DEF Poll, Places
  <1>13. ASSUME NEW a \in Agents, Join(a) PROVE Places'
    BY <1>13, <1>0, <1>a, Moves DEF Join, Places
  <1>14. ASSUME NEW n \in Nodes, Skip(n) PROVE Places'
    BY <1>14, <1>0, <1>a, Moves DEF Skip, Places
  <1>15. ASSUME NEW n \in Nodes, NEW a \in Agents, Launch(n, a) PROVE Places'
    BY <1>15, <1>0, <1>a, Moves DEF Launch, Places
  <1>16. CASE Closed
    BY <1>16, <1>0, <1>a, Moves DEF Closed, Die, NoDriver, Places
  <1>17. CASE CloseGivesUp
    BY <1>17, <1>0, <1>a, Moves DEF CloseGivesUp, Die, NoDriver, Places
  <1>18. CASE Recover
    <2>1. UNCHANGED <<active, stopping, ready>> /\ (driver' = driver \/ driver' = NewDriver)
      BY <1>18 DEF Recover
    <2>2. active = {} /\ stopping = {} /\ ready = {}
      BY <1>18, <1>0, <1>b DEF Recover, Places, Driven
    <2> QED
      BY <1>0, <2>1, <2>2 DEF NewDriver, NoDriver, Places
  <1>19. CASE StartPlan
    BY <1>19, <1>0, <1>a, Moves DEF StartPlan, NewDriver, NoDriver, Driven, Places
  <1>20. CASE Cancel
    <2>1. UNCHANGED <<active, stopping, ready>>
      BY <1>20 DEF Cancel
    <2>2. driver' = driver \/ (Driven /\ driver'.pc = driver.pc)
      BY <1>20, <1>0 DEF Cancel, Driven, DriverRecord
    <2> QED
      BY <1>0, <2>1, <2>2 DEF Places, Driven
  <1>21. CASE Pause
    <2>1. UNCHANGED <<active, stopping, ready>>
      BY <1>21 DEF Pause
    <2>2. driver' = driver \/ (Driven /\ driver'.pc = driver.pc)
      BY <1>21, <1>0 DEF Pause, Driven, DriverRecord
    <2> QED
      BY <1>0, <2>1, <2>2 DEF Places, Driven
  <1>22. CASE Resume
    BY <1>22, <1>0, <1>a, Moves DEF Resume, NewDriver, NoDriver, Driven, Places
  <1>23. CASE Close
    <2>1. UNCHANGED <<active, stopping, ready>>
      BY <1>23 DEF Close
    <2>2. driver' = driver \/ (Driven /\ driver'.pc = driver.pc)
      BY <1>23, <1>0 DEF Close, Driven, DriverRecord
    <2> QED
      BY <1>0, <2>1, <2>2 DEF Places, Driven
  <1>24. CASE Crash
    BY <1>24, <1>0, <1>a, Moves DEF Crash, Die, NoDriver, Places
  <1> QED
    BY <1>1, <1>2, <1>3, <1>4, <1>5, <1>6, <1>7, <1>8, <1>9, <1>10, <1>11, <1>12, <1>13, <1>14, <1>15, <1>16, <1>17, <1>18, <1>19, <1>20, <1>21, <1>22, <1>23, <1>24 DEF Next, DriverStep, MainStep, User, Paused, PauseGivesUp, NodeCancelled, AddNode, CancelNode, Restart, Message, UseUp, ChildStep, Reserve, Reap, Atomic, Command, flowVars

LEMMA DeadNext ==
    ASSUME IInv, Next, ChildAssumption
    PROVE  Dead'
  <1>0. Dead /\ cmd \in CmdRecord
    BY DEF IInv, Flow, FlowTypes, Tables
  <1>a. open' => open \/ Recover
    BY ChildrenNext
  <1>1. CASE cmd' = cmd /\ up' = up /\ (cmd.op = "dead" => UNCHANGED driver /\ reaping' \subseteq reaping)
    <2>1. CASE cmd.op = "dead" /\ ~Recover
      BY <1>1, <1>0, <1>a, <2>1 DEF Dead, Driven
    <2>2. CASE cmd.op # "dead"
      BY <1>1, <1>0, <2>2 DEF Dead
    <2>3. CASE Recover
      BY <1>0, <2>3 DEF Dead, Recover, NoCmd
    <2> QED
      BY <2>1, <2>2, <2>3
  <1>2. CASE Paused
    BY <1>2, <1>0 DEF Paused, NoCmd, Dead
  <1>3. CASE PauseGivesUp
    BY <1>3, <1>0 DEF PauseGivesUp, NoCmd, Dead
  <1>4. CASE NodeCancelled
    BY <1>4, <1>0 DEF NodeCancelled, NoCmd, Dead
  <1>5. CASE Closed
    BY <1>5, <1>0 DEF Closed, Die, NoDriver, NoCmd, Driven, Dead
  <1>6. CASE CloseGivesUp
    BY <1>6, <1>0 DEF CloseGivesUp, Die, NoDriver, NoCmd, Driven, Dead
  <1>7. CASE Recover
    BY <1>7, <1>0 DEF Recover, NoCmd, Dead
  <1>8. CASE Pause
    BY <1>8, <1>0 DEF Pause, Command, Idle, CmdRecord, Dead
  <1>9. CASE Close
    BY <1>9, <1>0 DEF Close, Idle, NoCmd, Dead
  <1>10. ASSUME NEW n \in Nodes, CancelNode(n) PROVE Dead'
    BY <1>10, <1>0 DEF CancelNode, Command, Idle, CmdRecord, Dead
  <1>11. CASE Crash
    BY <1>11, <1>0 DEF Crash, Die, NoDriver, NoCmd, Driven, Dead
  <1> QED
    BY <1>0, <1>1, <1>2, <1>3, <1>4, <1>5, <1>6, <1>7, <1>8, <1>9, <1>10, <1>11 DEF Next, DriverStep, MainStep, User, Begin, Preflight, Top, Sweep, NodeRow, Launched, Wait, DrainEnds, StopActive, Settle, Poll, Join, Skip, Launch, StartPlan, Cancel, Resume, AddNode, Restart, Message, UseUp, ChildStep, Reserve, Reap, Atomic, Gone, flowVars, Idle, Driven, Dead, StartPlan, Resume

LEMMA PlanNext ==
    ASSUME IInv, Next
    PROVE  \A n \in Nodes : /\ node[n].st # "none" => node'[n].st # "none"
                            /\ node'[n].st = "none" => node'[n] = NoNode
  <1>0. /\ \A n \in Nodes : node[n] \in NodeRecord
        /\ node \in [Nodes -> NodeRecord]
        /\ \A n \in Nodes : node[n].st = "none" => node[n] = NoNode
        /\ wf.state = "none" => Plan = {}
    BY DEF IInv, Flow, FlowTypes, Tables, Planned
  <1> DEFINE Stays == \A n \in Nodes : /\ node[n].st # "none" => node'[n].st # "none"
                                       /\ node'[n].st = "none" => node'[n] = NoNode
  <1> SUFFICES Stays
    OBVIOUS
  <1>1. ASSUME UNCHANGED node PROVE Stays
    BY <1>1, <1>0
  <1>2. ASSUME Sweep PROVE Stays
    <2>1. CASE UNCHANGED node
      BY <1>0, <2>1
    <2>2. ASSUME NEW blocked \in SUBSET Plan,
                 node' = [n \in Nodes |->
                           IF n \in blocked THEN [node[n] EXCEPT !.st = "cancelled"] ELSE node[n]]
          PROVE  Stays
      <3>1. \A n \in Nodes : [node[n] EXCEPT !.st = "cancelled"].st = "cancelled"
        BY <1>0 DEF NodeRecord
      <3> QED
        BY <1>0, <2>2, <3>1
    <2> QED
      BY <1>2, <2>1, <2>2, SweepFacts
  <1>3. ASSUME NodeRow PROVE Stays
    <2>1. \A n \in Nodes : node'[n] = node[n] \/ node'[n].st = "running"
      BY <1>3, <1>0 DEF NodeRow, NodeRecord
    <2> QED
      BY <1>0, <2>1
  <1>4. ASSUME NEW a \in Agents, Poll(a) PROVE Stays
    <2>1. \A n \in Nodes : node'[n] = node[n] \/ node'[n].st \in EndStates \cup {"queued"}
      <3>1. node' = [node EXCEPT ![nodeOf[a]] = Took(nodeOf[a], a)]
            \/ node' = [node EXCEPT ![nodeOf[a]] = Rerouted(nodeOf[a])]
        BY <1>4 DEF Poll
      <3>2. ASSUME NEW n \in Nodes PROVE Took(n, a).st \in EndStates /\ Rerouted(n).st = "queued"
        BY <1>4, <1>0, RowFields DEF Poll, Ended
      <3> QED
        BY <1>0, <3>1, <3>2
    <2> QED
      BY <1>0, <2>1 DEF EndStates
  <1>5. ASSUME Paused PROVE Stays
    <2>1. \A n \in Nodes : node'[n] = node[n] \/ node'[n] = PutBack(n)
      BY <1>5 DEF Paused
    <2> QED
      BY <1>0, <2>1, RowFields
  <1>6. ASSUME NodeCancelled PROVE Stays
    <2>1. \A n \in Nodes : node'[n] = node[n] \/ node'[n].st = "cancelled"
      BY <1>6, <1>0 DEF NodeCancelled, NodeRecord
    <2> QED
      BY <1>0, <2>1
  <1>7. ASSUME Recover PROVE Stays
    <2>1. \A n \in Nodes : node'[n] = node[n] \/ node'[n] = Recovered(n)
      BY <1>7 DEF Recover
    <2>2. \A n \in Nodes : Recovered(n).st # "none"
      BY <1>0, RowFields
    <2> QED
      BY <1>0, <2>1, <2>2
  <1>8. ASSUME StartPlan PROVE Stays
    <2>1. \A n \in Nodes : node'[n] = NewNode \/ node'[n] = NoNode
      BY <1>8 DEF StartPlan
    <2>2. Plan = {} /\ NewNode.st = "queued"
      BY <1>8, <1>0 DEF StartPlan, NewNode, NoNode
    <2> QED
      BY <2>1, <2>2 DEF Plan
  <1>9. ASSUME NEW n \in Nodes, AddNode(n) PROVE Stays
    <2>1. \A m \in Nodes : node'[m] = node[m] \/ node'[m].st = "queued"
      BY <1>9, <1>0 DEF AddNode, NewNode, NoNode
    <2> QED
      BY <1>0, <2>1
  <1>10. ASSUME NEW n \in Nodes, NEW c \in BOOLEAN, Restart(n, c) PROVE Stays
    <2>1. \A m \in Nodes : node'[m] = node[m] \/ node'[m] = PutBack(m)
      BY <1>10 DEF Restart
    <2> QED
      BY <1>0, <2>1, RowFields
  <1> HIDE DEF Stays
  <1>11. ASSUME DriverStep PROVE Stays
    BY <1>1, <1>2, <1>3, <1>4, <1>11 DEF DriverStep, Begin, Preflight, Top, Launched, Wait, DrainEnds, StopActive, Settle, Join, Skip, Launch, Gone
  <1>12. ASSUME MainStep PROVE Stays
    BY <1>1, <1>5, <1>6, <1>7, <1>12 DEF MainStep, Closed, CloseGivesUp, PauseGivesUp
  <1>13. ASSUME User PROVE Stays
    BY <1>1, <1>8, <1>9, <1>10, <1>13 DEF User, Cancel, Pause, Resume, Close, CancelNode, Message
  <1>14. ASSUME UseUp \/ Crash PROVE Stays
    BY <1>1, <1>14 DEF UseUp, Crash
  <1>15. ASSUME NEW a \in Agents, ChildStep(a) \/ Reserve(a) \/ Reap(a) PROVE Stays
    BY <1>1, <1>15 DEF ChildStep, Reserve, Reap, flowVars
  <1> QED
    BY <1>11, <1>12, <1>13, <1>14, <1>15 DEF Next

LEMMA StateNext ==
    ASSUME IInv, Next, wf'.state = "none"
    PROVE  wf.state = "none"
  <1>0. wf \in WfRecord
    BY DEF IInv, Flow, FlowTypes
  <1>a. \A t \in EndStates : Finished(t).state # "none"
    BY <1>0, FinishedType
  <1>1. CASE UNCHANGED wf
    BY <1>1
  <1>2. CASE Begin
    BY <1>2, <1>0 DEF Begin, WfRecord
  <1>3. CASE Preflight
    <2>1. wf'.state = wf.state \/ wf' = Finished("cancelled") \/ wf' = Finished("failed")
      BY <1>3, <1>0 DEF Preflight, WfRecord
    <2> QED
      BY <1>a, <2>1 DEF EndStates
  <1>4. CASE Settle
    BY <1>4, <1>0, <1>a, SettledType DEF Settle
  <1>5. ASSUME NEW a \in Agents, Reserve(a) PROVE wf.state = "none"
    BY <1>5, <1>0 DEF Reserve, WfRecord
  <1>6. CASE StartPlan
    BY <1>6, <1>0 DEF StartPlan, WfRecord
  <1>7. CASE Cancel
    <2>1. wf' = wf \/ wf' = Finished("cancelled")
      BY <1>7 DEF Cancel
    <2> QED
      BY <1>a, <2>1 DEF EndStates
  <1>8. CASE Paused
    BY <1>8, <1>0 DEF Paused, WfRecord
  <1>9. CASE Resume
    BY <1>9, <1>0 DEF Resume, WfRecord
  <1>10. ASSUME NEW n \in Nodes, NEW c \in BOOLEAN, Restart(n, c) PROVE wf.state = "none"
    <2>1. wf' = [wf EXCEPT !.state = "queued", !.stage = "paused", !.back = "agents", !.owner = "none"]
      BY <1>10 DEF Restart
    <2> QED
      BY <1>0, <2>1 DEF WfRecord
  <1>11. CASE Closed
    BY <1>11, <1>0 DEF Closed, WfRecord
  <1>12. CASE CloseGivesUp
    BY <1>12, <1>0 DEF CloseGivesUp, Orphaned, WfRecord
  <1>13. CASE Crash
    BY <1>13, <1>0 DEF Crash, Orphaned, WfRecord
  <1>14. CASE Recover
    BY <1>14, <1>0 DEF Recover, WfRecord
  <1> QED
    BY <1>1, <1>2, <1>3, <1>4, <1>5, <1>6, <1>7, <1>8, <1>9, <1>10, <1>11, <1>12, <1>13, <1>14 DEF Next, DriverStep, MainStep, User, Top, Sweep, NodeRow, Launched, Wait, DrainEnds, StopActive, Poll, Join, Skip, Launch, PauseGivesUp, NodeCancelled, Pause, Close, AddNode, CancelNode, Message, UseUp, ChildStep, Reap, Atomic, Command, flowVars

LEMMA PlannedNext ==
    ASSUME IInv, Next
    PROVE  Planned'
  <1>0. Planned /\ cmd \in CmdRecord /\ driver \in DriverRecord /\ node \in [Nodes -> NodeRecord]
        /\ (cmd.op = "cancel_node" => cmd.node \in Nodes)
    BY DEF IInv, Flow, FlowTypes, Tables, Planned, Plan
  <1>a. cmd'.op = "cancel_node" => cmd'.node \in Plan'
    <2>1. cmd'.op = "cancel_node" => cmd'.node \in Plan
      <3>1. ASSUME UNCHANGED cmd PROVE cmd'.op = "cancel_node" => cmd'.node \in Plan
        BY <3>1, <1>0 DEF Planned
      <3>2. ASSUME Paused PROVE cmd'.op = "cancel_node" => cmd'.node \in Plan
        BY <3>2 DEF Paused, NoCmd
      <3>3. ASSUME PauseGivesUp PROVE cmd'.op = "cancel_node" => cmd'.node \in Plan
        BY <3>3 DEF PauseGivesUp, NoCmd
      <3>4. ASSUME NodeCancelled PROVE cmd'.op = "cancel_node" => cmd'.node \in Plan
        BY <3>4 DEF NodeCancelled, NoCmd
      <3>5. ASSUME Closed PROVE cmd'.op = "cancel_node" => cmd'.node \in Plan
        BY <3>5 DEF Closed, Die, NoCmd
      <3>6. ASSUME CloseGivesUp PROVE cmd'.op = "cancel_node" => cmd'.node \in Plan
        BY <3>6 DEF CloseGivesUp, Die, NoCmd
      <3>7. ASSUME Recover PROVE cmd'.op = "cancel_node" => cmd'.node \in Plan
        BY <3>7 DEF Recover, NoCmd
      <3>8. ASSUME Pause PROVE cmd'.op = "cancel_node" => cmd'.node \in Plan
        BY <3>8 DEF Pause, Command
      <3>9. ASSUME Close PROVE cmd'.op = "cancel_node" => cmd'.node \in Plan
        BY <3>9 DEF Close, NoCmd
      <3>10. ASSUME NEW n \in Nodes, CancelNode(n) PROVE cmd'.op = "cancel_node" => cmd'.node \in Plan
        BY <3>10 DEF CancelNode, Command, Plan
      <3>11. ASSUME Crash PROVE cmd'.op = "cancel_node" => cmd'.node \in Plan
        BY <3>11 DEF Crash, Die, NoCmd
      <3> QED
        BY <3>1, <3>2, <3>3, <3>4, <3>5, <3>6, <3>7, <3>8, <3>9, <3>10, <3>11 DEF Next, DriverStep, MainStep, User, Begin, Preflight, Top, Sweep, NodeRow, Launched, Wait, DrainEnds, StopActive, Settle, Poll, Join, Skip, Launch, StartPlan, Cancel, Resume, AddNode, Restart, Message, UseUp, ChildStep, Reserve, Reap, Atomic, Gone, flowVars
    <2> QED
      BY <2>1, PlanNext DEF Plan
  <1>b. ASSUME wf'.state = "none" PROVE ~Driven' /\ Plan' = {}
    <2>0. wf.state = "none" /\ ~Driven /\ \A n \in Nodes : node[n].st = "none"
      BY <1>0, <1>b, StateNext DEF Planned, Plan
    <2>1. ~Driven' /\ \A n \in Nodes : node'[n].st = "none"
      <3>1. CASE UNCHANGED <<driver, node>>
        BY <2>0, <3>1 DEF Driven
      <3>2. CASE DriverStep
        BY <2>0, <3>2 DEF Driven, DriverStep, Begin, Preflight, Top, Sweep, NodeRow, Launched, Wait, DrainEnds, StopActive, Settle, Poll, Join, Skip, Launch
      <3>3. CASE StartPlan
        BY <1>b, <3>3 DEF StartPlan
      <3>4. CASE Cancel
        BY <2>0, <3>4 DEF Cancel, Driven
      <3>5. CASE Pause
        BY <2>0, <3>5 DEF Pause, Going
      <3>6. CASE Close
        BY <2>0, <3>6 DEF Close, Driven
      <3>7. CASE Resume
        BY <2>0, <3>7 DEF Resume
      <3>8. CASE Recover
        BY <2>0, <3>8 DEF Recover, Going, Driven
      <3>9. CASE Paused
        BY <2>0, <3>9 DEF Paused, Going, Driven
      <3>10. CASE NodeCancelled
        BY <1>0, <2>0, <3>10 DEF NodeCancelled, Planned, Plan
      <3>11. CASE Closed
        BY <2>0, <3>11 DEF Closed, Die, NoDriver, Driven
      <3>12. CASE CloseGivesUp
        BY <2>0, <3>12 DEF CloseGivesUp, Die, NoDriver, Driven
      <3>13. CASE Crash
        BY <2>0, <3>13 DEF Crash, Die, NoDriver, Driven
      <3>14. ASSUME NEW n \in Nodes, AddNode(n) PROVE ~Driven' /\ \A m \in Nodes : node'[m].st = "none"
        BY <2>0, <3>14 DEF AddNode, Going
      <3>15. ASSUME NEW n \in Nodes, NEW c \in BOOLEAN, Restart(n, c) PROVE ~Driven' /\ \A m \in Nodes : node'[m].st = "none"
        BY <2>0, <3>15 DEF Restart, Plan
      <3> QED
        BY <3>1, <3>2, <3>3, <3>4, <3>5, <3>6, <3>7, <3>8, <3>9, <3>10, <3>11, <3>12, <3>13, <3>14, <3>15 DEF Next, MainStep, User, PauseGivesUp, CancelNode, Message, UseUp, ChildStep, Reserve, Reap, flowVars
    <2> QED
      BY <2>1 DEF Plan
  <1>c. \A n \in Nodes : node'[n].st = "none" => node'[n] = NoNode
    BY PlanNext
  <1> QED
    BY <1>a, <1>b, <1>c DEF Planned

-----------------------------------------------------------------------------
(* Who holds a slot. *)

\* A first run that is new is one that is launched, and a run that has ended
\* is no first run.
LEMMA FirstRunsNext ==
    ASSUME IInv, Next, ChildAssumption
    PROVE  /\ FirstRun' \subseteq Holders \cup active'
           /\ \A a \in Agents : ~Alive(a)' => a \notin FirstRun'
           /\ ~open' => FirstRun' = {}
           /\ \A a \in Agents : child'[a].state \in EndStates => a \notin FirstRun'
           /\ \A a \in Agents : Known(a) => Known(a)'
  <1>1. Children' /\ \A a \in Agents : First1(a)' => First1(a) \/ a \in active'
    BY ChildrenNext
  <1>2. FirstRun' = {a \in Agents : First1(a)'} /\ FirstRun = {a \in Agents : First1(a)}
    BY DEF FirstRun, First1, Busy
  <1>3. FirstRun \subseteq Holders
    BY DEF IInv, Flow, Slots, SlotsCoverWorkers
  <1>4. \A a \in Agents : ~Alive(a)' => ~First1(a)'
    BY DEF Alive, First1, Busy
  <1>5. \A a \in Agents : First1(a)' => child'[a].state \in {"queued", "running"}
    BY <1>1 DEF Children, Standing, First1
  <1>6. ~open' => \A a \in Agents : ~Alive(a)'
    BY <1>1 DEF Children
  <1> QED
    BY <1>1, <1>2, <1>3, <1>4, <1>5, <1>6, ChildrenNext DEF EndStates

\* One holder less.
LEMMA GatewaysFreed ==
    ASSUME IInv, ChildAssumption, WorkflowAssumption, Holders' \subseteq Holders,
           UNCHANGED gate
    PROVE  \A a \in Holders' : Cardinality(HeldAt(gate[a])') <= MaxPerGateway
  <1> SUFFICES ASSUME NEW a \in Holders'
               PROVE  Cardinality(HeldAt(gate[a])') <= MaxPerGateway
    OBVIOUS
  <1>1. /\ active \subseteq Agents /\ stopping \subseteq Agents /\ reaping \subseteq Agents
        /\ Cardinality(HeldAt(gate[a])) <= MaxPerGateway
    BY DEF IInv, Flow, FlowTypes, Slots, SlotsCoverWorkers
  <1>2. IsFiniteSet(HeldAt(gate[a]))
    BY <1>1, SlotCount, FS_Subset DEF HeldAt
  <1>3. HeldAt(gate[a])' \subseteq HeldAt(gate[a])
    BY DEF HeldAt
  <1> QED
    BY <1>1, <1>2, <1>3, FS_Subset, FS_CardinalityType DEF WorkflowAssumption

LEMMA SlotFreed ==
    ASSUME IInv, Next, ChildAssumption, WorkflowAssumption,
           NEW a \in Holders, Holders' = Holders \ {a}, slots' = slots - 1,
           active' \subseteq active, UNCHANGED <<nodeOf, gate>>, a \notin FirstRun',
           active' \cap stopping' = {}, active' \cap reaping' = {}, stopping' \cap reaping' = {}
    PROVE  Slots'
  <1>1. Slots /\ active \subseteq Agents /\ stopping \subseteq Agents /\ reaping \subseteq Agents
    BY DEF IInv, Flow, FlowTypes
  <1>2. /\ Cardinality(Holders \ {a}) = Cardinality(Holders) - 1
        /\ Cardinality(Holders) \in Nat \ {0}
    BY <1>1, SlotCount
  <1>3. slots' = Cardinality(Holders') /\ slots' <= MaxParallel
    BY <1>1, <1>2 DEF Slots, SlotsCoverWorkers, WorkflowAssumption
  <1>4. FirstRun' \subseteq Holders'
    <2>1. FirstRun' \subseteq Holders \cup active'
      BY FirstRunsNext
    <2> QED
      BY <1>1, <2>1 DEF Holders
  <1>5. \A b \in Holders' : Known(b)'
    <2>1. \A b \in Holders' : b \in Agents /\ Known(b)
      BY <1>1 DEF Slots, Holders
    <2> QED
      BY <2>1, FirstRunsNext
  <1>6. \A b \in Holders' : Cardinality(HeldAt(gate[b])') <= MaxPerGateway
    BY GatewaysFreed
  <1> QED
    BY <1>1, <1>3, <1>4, <1>5, <1>6 DEF Slots, SlotsCoverWorkers

\* The same holders.
LEMMA SlotsMoved ==
    ASSUME IInv, Next, ChildAssumption, WorkflowAssumption,
           Holders' = Holders, slots' = slots,
           active' \subseteq active, UNCHANGED <<nodeOf, gate>>,
           active' \cap stopping' = {}, active' \cap reaping' = {}, stopping' \cap reaping' = {}
    PROVE  Slots'
  <1>1. Slots /\ active \subseteq Agents /\ stopping \subseteq Agents /\ reaping \subseteq Agents
    BY DEF IInv, Flow, FlowTypes
  <1>2. slots' = Cardinality(Holders') /\ slots' <= MaxParallel
    BY <1>1 DEF Slots, SlotsCoverWorkers
  <1>3. FirstRun' \subseteq Holders'
    <2>1. FirstRun' \subseteq Holders \cup active'
      BY FirstRunsNext
    <2> QED
      BY <1>1, <2>1 DEF Holders
  <1>4. \A b \in Holders' : Known(b)'
    <2>1. \A b \in Holders' : b \in Agents /\ Known(b)
      BY <1>1 DEF Slots, Holders
    <2> QED
      BY <2>1, FirstRunsNext
  <1>5. \A b \in Holders' : Cardinality(HeldAt(gate[b])') <= MaxPerGateway
    BY GatewaysFreed
  <1> QED
    BY <1>1, <1>2, <1>3, <1>4, <1>5 DEF Slots, SlotsCoverWorkers

LEMMA SlotsNext ==
    ASSUME IInv, Next, WorkflowAssumption, ChildAssumption
    PROVE  Slots'
  <1>0. /\ Slots /\ active \subseteq Agents /\ stopping \subseteq Agents /\ reaping \subseteq Agents
        /\ nodeOf \in [Agents -> Nodes \cup {None}]
        /\ gate = [a \in Agents |-> gate[a]]
        /\ driver.pc # "join" => stopping = {}
    BY DEF IInv, Flow, FlowTypes, Tables, Places
  <1>1. CASE UNCHANGED <<active, stopping, reaping, slots, nodeOf, gate>>
    BY <1>1, <1>0, SlotsMoved DEF Slots, Holders
  <1>2. ASSUME NEW a \in Agents, Poll(a) PROVE Slots'
    <2>1. UNCHANGED <<stopping, reaping, childVars, nodeOf, gate>> /\ active' = active \ {a} /\ slots' = slots - 1
          /\ a \in active /\ child'[a].state \in EndStates
      BY <1>2 DEF Poll, Ended, childVars
    <2>2. a \notin stopping /\ a \notin reaping
      BY <1>0, <2>1 DEF Slots
    <2>3. Holders' = Holders \ {a} /\ a \in Holders
      BY <2>1, <2>2 DEF Holders
    <2>4. a \notin FirstRun'
      BY <2>1, FirstRunsNext
    <2> QED
      BY <1>0, <2>1, <2>3, <2>4, SlotFreed DEF Slots
  <1>3. ASSUME NEW n \in Nodes, NEW a \in Agents, Launch(n, a) PROVE Slots'
    <2>1. UNCHANGED <<stopping, reaping>> /\ active' = active \cup {a} /\ slots' = slots + 1
          /\ nodeOf' = [nodeOf EXCEPT ![a] = n] /\ slots < MaxParallel
      BY <1>3 DEF Launch, SlotFor
    <2>2. ~Known(a) /\ Known(a)'
      BY <1>3, SpawnKeeps DEF Launch, IInv
    <2>3. a \notin Holders
      BY <1>0, <2>2 DEF Slots
    <2>4. Holders' = Holders \cup {a}
      BY <2>1 DEF Holders
    <2>5. Cardinality(Holders') = Cardinality(Holders) + 1 /\ Cardinality(Holders) \in Nat
      BY <1>0, <2>3, <2>4, SlotCount
    <2>6. slots' = Cardinality(Holders') /\ slots' <= MaxParallel
      BY <1>0, <2>1, <2>5 DEF Slots, SlotsCoverWorkers, WorkflowAssumption
    <2>7. FirstRun' \subseteq Holders'
      <3>1. FirstRun' \subseteq Holders \cup active'
        BY FirstRunsNext
      <3> QED
        BY <2>1, <2>4, <3>1 DEF Holders
    <2>8. \A b \in Holders' : Known(b)'
      <3>1. \A b \in Holders : b \in Agents /\ Known(b)
        BY <1>0 DEF Slots, Holders
      <3> QED
        BY <2>2, <2>4, <3>1, FirstRunsNext
    <2>9. /\ active' \cap stopping' = {} /\ active' \cap reaping' = {} /\ stopping' \cap reaping' = {}
          /\ \A b \in active' : nodeOf'[b] \in Nodes
      BY <1>0, <2>1, <2>3 DEF Slots, Holders
    <2>10. ASSUME NEW b \in Holders'
           PROVE  Cardinality(HeldAt(gate[b])') <= MaxPerGateway
      <3> DEFINE g == Gateway[n][node[n].route]
      <3>1. /\ gate'[a] = g /\ \A c \in Holders : gate'[c] = gate[c]
            /\ Cardinality(HeldAt(g)) < MaxPerGateway
        BY <1>0, <1>3, <2>3 DEF Launch, SlotFor, Holders
      <3> HIDE DEF g
      <3>2. \A h : IsFiniteSet(HeldAt(h)) /\ Cardinality(HeldAt(h)) \in Nat
        BY <1>0, SlotCount, FS_Subset, FS_CardinalityType DEF HeldAt
      <3>3. CASE gate'[b] = g
        <4>1. HeldAt(gate[b])' = HeldAt(g) \cup {a} /\ a \notin HeldAt(g)
          BY <2>3, <2>4, <3>1, <3>3 DEF HeldAt
        <4>2. Cardinality(HeldAt(g) \cup {a}) = Cardinality(HeldAt(g)) + 1
          BY <3>2, <4>1, FS_AddElement
        <4> QED
          BY <3>1, <3>2, <4>1, <4>2 DEF WorkflowAssumption
      <3>4. CASE gate'[b] # g
        <4>1. b \in Holders /\ HeldAt(gate[b])' = HeldAt(gate[b])
          BY <2>3, <2>4, <3>1, <3>4 DEF HeldAt
        <4> QED
          BY <1>0, <4>1 DEF Slots, SlotsCoverWorkers
      <3> QED
        BY <3>3, <3>4
    <2> QED
      BY <2>6, <2>7, <2>8, <2>9, <2>10 DEF Slots, SlotsCoverWorkers
  <1>4. CASE StopActive
    <2>1. UNCHANGED <<reaping, slots, nodeOf, gate>> /\ stopping' = active /\ active' = {} /\ stopping = {}
      BY <1>4, <1>0 DEF StopActive
    <2>2. Holders' = Holders
      BY <2>1 DEF Holders
    <2> QED
      BY <1>0, <2>1, <2>2, SlotsMoved DEF Slots
  <1>5. ASSUME NEW a \in Agents, Join(a) PROVE Slots'
    <2>1. UNCHANGED <<active, childVars, nodeOf, gate>> /\ a \in stopping /\ stopping' = stopping \ {a}
      BY <1>5 DEF Join
    <2>2. a \notin active /\ a \notin reaping
      BY <1>0, <2>1 DEF Slots
    <2>3. CASE Alive(a)
      <3>1. reaping' = reaping \cup {a} /\ UNCHANGED slots
        BY <1>5, <2>3 DEF Join
      <3>2. Holders' = Holders
        BY <2>1, <3>1 DEF Holders
      <3> QED
        BY <1>0, <2>1, <2>2, <3>1, <3>2, SlotsMoved DEF Slots
    <2>4. CASE ~Alive(a)
      <3>1. slots' = slots - 1 /\ UNCHANGED reaping
        BY <1>5, <2>4 DEF Join
      <3>2. Holders' = Holders \ {a} /\ a \in Holders
        BY <2>1, <2>2, <3>1 DEF Holders
      <3>3. a \notin FirstRun'
        BY <2>1, <2>4, FirstRunsNext DEF Alive, childVars
      <3> QED
        BY <1>0, <2>1, <3>1, <3>2, <3>3, SlotFreed DEF Slots
    <2> QED
      BY <2>3, <2>4
  <1>6. ASSUME NEW a \in Agents, Reap(a) PROVE Slots'
    <2>1. UNCHANGED <<active, stopping, childVars, nodeOf, gate>> /\ a \in reaping /\ reaping' = reaping \ {a}
          /\ slots' = slots - 1 /\ ~Alive(a)
      BY <1>6 DEF Reap
    <2>2. a \notin active /\ a \notin stopping
      BY <1>0, <2>1 DEF Slots
    <2>3. Holders' = Holders \ {a} /\ a \in Holders
      BY <2>1, <2>2 DEF Holders
    <2>4. a \notin FirstRun'
      BY <2>1, FirstRunsNext DEF Alive, childVars
    <2> QED
      BY <1>0, <2>1, <2>3, <2>4, SlotFreed DEF Slots
  <1>7. CASE Die
    <2>1. active' = {} /\ stopping' = {} /\ reaping' = {} /\ slots' = 0 /\ ~open'
      BY <1>7 DEF Die
    <2>2. Holders' = {} /\ FirstRun' = {}
      BY <2>1, FirstRunsNext DEF Holders
    <2>3. Cardinality(Holders') = 0 /\ 0 <= MaxParallel
      BY <2>2, FS_EmptySet DEF WorkflowAssumption
    <2> QED
      BY <2>1, <2>2, <2>3 DEF Slots, SlotsCoverWorkers
  <1> QED
    BY <1>1, <1>2, <1>3, <1>4, <1>5, <1>6, <1>7 DEF Next, DriverStep, MainStep, User, Begin,
       Preflight, Top, Sweep, NodeRow, Launched, Wait, DrainEnds, Settle, Skip, Paused, PauseGivesUp,
       NodeCancelled, Closed, CloseGivesUp, Recover, StartPlan, Cancel, Pause, Resume, Close, AddNode,
       CancelNode, Restart, Message, UseUp, Crash, ChildStep, Reserve, Gone, flowVars

-----------------------------------------------------------------------------
(* How often a node is launched. *)

LEMMA CountsTyped ==
    ASSUME IInv, WorkflowAssumption
    PROVE  /\ MaxAttempts \in Nat \ {0} /\ pauses \in Nat /\ lost \in Nat
           /\ \A n \in Nodes : node[n] \in NodeRecord /\ node[n].att \in Nat /\ spawned[n] \in Nat
           /\ node \in [Nodes -> NodeRecord] /\ spawned \in [Nodes -> Nat]
  BY DEF IInv, Flow, FlowTypes, WorkflowAssumption, NodeRecord

\* A step that launches nothing, writes no launched row, and queues nothing
\* that has been launched too often.
Requeues(n) == node'[n].st = "queued" => node[n].att < MaxAttempts + pauses'

LEMMA CountsQuiet ==
    ASSUME IInv, WorkflowAssumption,
           UNCHANGED <<spawned, lost>>, pauses' \in Nat, pauses <= pauses',
           driver'.pc = "row" <=> driver.pc = "row",
           driver.pc = "row" => UNCHANGED <<fresh, active, nodeOf>>,
           \A n \in Nodes : node'[n].att = node[n].att /\ Requeues(n),
           \A n \in ready' \ ready : node[n].st = "queued"
    PROVE  Counts'
  <1>1. Counts
    BY DEF IInv, Flow
  <1>2. ASSUME NEW n \in Nodes
        PROVE  /\ spawned'[n] <= node'[n].att + lost' + (IF Unwritten(n)' THEN 1 ELSE 0)
               /\ node'[n].att <= MaxAttempts + pauses'
               /\ Launchable(n)' => node'[n].att < MaxAttempts + pauses'
    <2>1. Unwritten(n)' = Unwritten(n)
      BY DEF Unwritten
    <2>2. /\ spawned[n] <= node[n].att + lost + (IF Unwritten(n) THEN 1 ELSE 0)
          /\ node[n].att <= MaxAttempts + pauses
          /\ Launchable(n) => node[n].att < MaxAttempts + pauses
      BY <1>1 DEF Counts
    <2>3. Launchable(n)' => Launchable(n) \/ node'[n].st = "queued"
      BY <2>1 DEF Launchable
    <2>4. node[n].att \in Nat /\ MaxAttempts \in Nat /\ pauses \in Nat
      BY CountsTyped
    <2> QED
      BY <2>1, <2>2, <2>3, <2>4 DEF Requeues
  <1>3. driver'.pc = "row" => \E a \in active' : nodeOf'[a] = fresh'
    BY <1>1 DEF Counts
  <1> QED
    BY <1>2, <1>3 DEF Counts

\* The rows a step leaves alone need no look.
LEMMA RowsKept ==
    ASSUME IInv, NEW n \in Nodes, node'[n] = node[n], pauses' \in Nat, pauses <= pauses',
           WorkflowAssumption
    PROVE  node'[n].att = node[n].att /\ Requeues(n)
  <1>1. node[n].st = "queued" => node[n].att < MaxAttempts + pauses
    BY DEF IInv, Flow, Counts, Launchable
  <1> QED
    BY <1>1, CountsTyped DEF Requeues

LEMMA CountsNext ==
    ASSUME IInv, Next, WorkflowAssumption
    PROVE  Counts'
  <1>0. /\ Counts /\ driver \in DriverRecord /\ (driver.pc = "off" => driver = NoDriver)
        /\ (driver.pc = "off" => ready = {})
    BY DEF IInv, Flow, FlowTypes, Tables, Places
  <1> DEFINE Rows == \A n \in Nodes : node'[n].att = node[n].att /\ Requeues(n)
             Quiet == /\ UNCHANGED <<spawned, lost>> /\ pauses' \in Nat /\ pauses <= pauses'
                      /\ driver'.pc = "row" <=> driver.pc = "row"
                      /\ driver.pc = "row" => UNCHANGED <<fresh, active, nodeOf>>
                      /\ \A n \in ready' \ ready : node[n].st = "queued"
  <1>a. UNCHANGED <<spawned, lost, pauses>> => pauses' \in Nat /\ pauses <= pauses'
    BY CountsTyped
  <1>b. node' = node /\ pauses' \in Nat /\ pauses <= pauses' => Rows
    BY RowsKept
  <1>c. Quiet /\ Rows => Counts'
    BY CountsQuiet
  <1>d. ASSUME UNCHANGED <<spawned, lost, pauses, node>>, ready' \subseteq ready,
               driver'.pc = "row" <=> driver.pc = "row",
               driver.pc = "row" => UNCHANGED <<fresh, active, nodeOf>>
        PROVE  Counts'
    BY <1>a, <1>b, <1>c, <1>d
  <1> HIDE DEF Quiet, Rows
  <1>e. cmd.op = "dead" => ~Driven
    BY DEF IInv, Flow, Tables, Dead
  <1>f. /\ \A n \in Nodes : node[n].st = "none" => node[n] = NoNode
        /\ wf.state = "none" => ~Driven /\ Plan = {}
        /\ nodeOf \in [Agents -> Nodes \cup {None}]
        /\ \A a \in active : nodeOf[a] \in Nodes
        /\ \A n \in ready : \A a \in active : nodeOf[a] # n
    BY DEF IInv, Flow, FlowTypes, Tables, Planned, Slots, Reports
  <1>dd. ASSUME UNCHANGED node, Die PROVE Counts'
    <2>1. UNCHANGED <<spawned, pauses>> /\ ready' = {} /\ driver'.pc = "off"
          /\ lost' = IF driver.pc = "row" THEN lost + 1 ELSE lost
      BY <1>dd DEF Die, NoDriver
    <2>2. ASSUME NEW m \in Nodes
          PROVE  /\ spawned'[m] <= node'[m].att + lost' + (IF Unwritten(m)' THEN 1 ELSE 0)
                 /\ node'[m].att <= MaxAttempts + pauses'
                 /\ Launchable(m)' => node'[m].att < MaxAttempts + pauses'
      <3>0. ~Unwritten(m)'
        BY <2>1 DEF Unwritten
      <3>1. spawned[m] <= node[m].att + lost + (IF Unwritten(m) THEN 1 ELSE 0)
            /\ node[m].att <= MaxAttempts + pauses
            /\ (Launchable(m) => node[m].att < MaxAttempts + pauses)
        BY <1>0 DEF Counts
      <3>2. Launchable(m)' => Launchable(m)
        BY <1>dd, <2>1, <3>0 DEF Launchable
      <3>3. spawned[m] <= node[m].att + lost' /\ lost' \in Nat
        BY <2>1, <3>1, CountsTyped DEF Unwritten
      <3>4. node[m].att + lost' + 0 = node[m].att + lost'
        BY <3>3, CountsTyped
      <3> QED
        BY <1>dd, <2>1, <3>0, <3>1, <3>2, <3>3, <3>4
    <2> QED
      BY <2>1, <2>2 DEF Counts
  <1>1. CASE UNCHANGED <<spawned, lost, pauses, node, driver>> /\ ready' \subseteq ready /\ (driver.pc = "row" => UNCHANGED <<fresh, active, nodeOf>>)
    BY <1>1, <1>d
  <1>2. CASE Begin
    BY <1>2, <1>0, <1>d, Moves DEF Begin
  <1>3. CASE Preflight
    <2>1. UNCHANGED <<spawned, lost, pauses, node>> /\ ready' \subseteq ready /\ driver.pc # "row"
          /\ (driver' = NoDriver \/ Goto("top"))
      BY <1>3 DEF Preflight, Gone
    <2> QED
      BY <1>0, <1>d, <2>1, Moves DEF NoDriver
  <1>4. CASE Top
    BY <1>4, <1>0, <1>d, Moves DEF Top
  <1>5. CASE Sweep
    <2>1. UNCHANGED <<spawned, lost, pauses>> /\ driver.pc = "poll"
      BY <1>5, SweepFacts
    <2>2. driver'.pc # "row" /\ \A n \in ready' \ ready : node[n].st = "queued"
      <3>1. CASE driver' = [driver EXCEPT !.pc = "drain", !.out = "raised"] /\ UNCHANGED ready
        <4>1. driver'.pc = "drain"
          BY <1>0, <3>1 DEF DriverRecord
        <4> QED
          BY <3>1, <4>1
      <3>2. CASE /\ ready' \subseteq {n \in Plan : node[n].st = "queued" /\ node'[n] = node[n]}
                 /\ Goto("launch") \/ Exit("completed") \/ Exit("raised")
        BY <1>0, <3>2, Moves
      <3> QED
        BY <1>5, <3>1, <3>2, SweepFacts
    <2>3. Rows
      <3>1. CASE UNCHANGED node
        BY <1>a, <1>b, <2>1, <3>1
      <3>2. ASSUME NEW blocked \in SUBSET Plan,
                   node' = [n \in Nodes |->
                             IF n \in blocked THEN [node[n] EXCEPT !.st = "cancelled"] ELSE node[n]]
            PROVE  Rows
        <4>1. \A n \in Nodes : /\ [node[n] EXCEPT !.st = "cancelled"].st = "cancelled"
                               /\ [node[n] EXCEPT !.st = "cancelled"].att = node[n].att
          BY CountsTyped DEF NodeRecord
        <4>2. ASSUME NEW n \in Nodes PROVE node'[n].att = node[n].att /\ Requeues(n)
          <5>1. CASE n \in blocked
            BY <3>2, <4>1, <5>1 DEF Requeues
          <5>2. CASE n \notin blocked
            BY <1>a, <2>1, <3>2, <5>2, RowsKept
          <5> QED
            BY <5>1, <5>2
        <4> QED
          BY <4>2 DEF Rows
      <3> QED
        BY <1>5, <3>1, <3>2, SweepFacts
    <2> QED
      BY <1>a, <1>c, <2>1, <2>2, <2>3 DEF Quiet
  <1>6. CASE NodeRow
    <2>1. /\ driver.pc = "row" /\ driver'.pc = "launch" /\ UNCHANGED <<ready, spawned, lost, pauses>>
      BY <1>6, <1>0, Moves DEF NodeRow
    <2>2. fresh \in Nodes /\ fresh \notin ready
      BY <1>0, <1>f, <2>1 DEF Counts
    <2>3. \A m \in Nodes : m # fresh => node'[m] = node[m]
      BY <1>6, CountsTyped DEF NodeRow
    <2>4. node'[fresh].att = node[fresh].att + 1 /\ node'[fresh].st = "running"
      <3>1. node[fresh] \in NodeRecord
        BY <2>2, CountsTyped
      <3> QED
        BY <1>6, <2>2, <3>1, CountsTyped DEF NodeRow, NodeRecord
    <2>5. ASSUME NEW m \in Nodes
          PROVE  /\ spawned'[m] <= node'[m].att + lost' + (IF Unwritten(m)' THEN 1 ELSE 0)
                 /\ node'[m].att <= MaxAttempts + pauses'
                 /\ Launchable(m)' => node'[m].att < MaxAttempts + pauses'
      <3>0. ~Unwritten(m)'
        BY <2>1 DEF Unwritten
      <3>1. CASE m = fresh
        <4>1. spawned[m] <= node[m].att + lost + 1 /\ node[m].att < MaxAttempts + pauses
          BY <1>0, <2>1, <3>1 DEF Counts, Launchable, Unwritten
        <4>2. ~Launchable(m)'
          BY <2>1, <2>2, <2>4, <3>0, <3>1 DEF Launchable
        <4> QED
          BY <2>1, <2>4, <3>0, <3>1, <4>1, <4>2, CountsTyped
      <3>2. CASE m # fresh
        <4>1. /\ spawned[m] <= node[m].att + lost
              /\ node[m].att <= MaxAttempts + pauses
              /\ Launchable(m) => node[m].att < MaxAttempts + pauses
          BY <1>0, <3>2, CountsTyped DEF Counts, Unwritten
        <4>2. Launchable(m)' => Launchable(m)
          BY <2>1, <2>3, <3>0, <3>2 DEF Launchable
        <4> QED
          BY <2>1, <2>3, <3>0, <3>2, <4>1, <4>2, CountsTyped
      <3> QED
        BY <3>1, <3>2
    <2> QED
      BY <2>1, <2>5 DEF Counts
  <1>7. CASE Launched
    BY <1>7, <1>0, <1>d, Moves DEF Launched
  <1>8. CASE Wait
    BY <1>8, <1>0, <1>d, Moves DEF Wait
  <1>9. CASE DrainEnds
    BY <1>9, <1>0, <1>d, Moves DEF DrainEnds
  <1>10. CASE StopActive
    <2>1. UNCHANGED <<spawned, lost, pauses, node, ready>> /\ driver.pc = "stop" /\ Goto("join")
      BY <1>10 DEF StopActive
    <2> QED
      BY <1>0, <1>d, <2>1, Moves
  <1>11. CASE Settle
    <2>1. UNCHANGED <<spawned, lost, pauses, node>> /\ ready' \subseteq ready /\ driver.pc # "row"
          /\ (driver' = NoDriver \/ Goto("top"))
      BY <1>11 DEF Settle, Gone
    <2> QED
      BY <1>0, <1>d, <2>1, Moves DEF NoDriver
  <1>12. ASSUME NEW a \in Agents, Poll(a) PROVE Counts'
    <2>1. UNCHANGED <<spawned, lost>> /\ UNCHANGED pauses
      BY <1>12 DEF Poll
    <2>2. pauses' \in Nat /\ pauses <= pauses'
      BY <2>1, CountsTyped
    <2>3. Quiet
      BY <1>12, <1>0, <2>1, <2>2 DEF Quiet, Poll
    <2>4. ASSUME NEW m \in Nodes PROVE node'[m].att = node[m].att /\ Requeues(m)
      <3>1. \/ node'[m] = node[m]
            \/ node'[m] = Took(m, a)
            \/ node'[m] = Rerouted(m) /\ node[m].att < MaxAttempts
        BY <1>12, CountsTyped DEF Poll
      <3>2. CASE node'[m] = Took(m, a)
        <4>1. Took(m, a).st \in EndStates /\ Took(m, a).att = node[m].att
          BY <1>12, RowFields, CountsTyped DEF Poll, Ended
        <4> QED
          BY <3>2, <4>1 DEF Requeues, EndStates
      <3>3. CASE node'[m] = Rerouted(m) /\ node[m].att < MaxAttempts
        BY <2>1, <2>2, <3>3, RowFields, CountsTyped DEF Requeues
      <3> QED
        BY <2>2, <3>1, <3>2, <3>3, RowsKept
    <2> QED
      BY <1>c, <2>3, <2>4 DEF Rows
  <1>13. ASSUME NEW n \in Nodes, NEW a \in Agents, Launch(n, a) PROVE Counts'
    <2>1. /\ driver.pc = "launch" /\ driver'.pc = "row" /\ fresh' = n /\ n \in ready /\ ready' \subseteq ready
          /\ spawned' = [spawned EXCEPT ![n] = @ + 1] /\ UNCHANGED <<node, lost, pauses>>
      BY <1>13, <1>0, Moves DEF Launch
    <2>2. ASSUME NEW m \in Nodes
          PROVE  /\ spawned'[m] <= node'[m].att + lost' + (IF Unwritten(m)' THEN 1 ELSE 0)
                 /\ node'[m].att <= MaxAttempts + pauses'
                 /\ Launchable(m)' => node'[m].att < MaxAttempts + pauses'
      <3>1. /\ spawned[m] <= node[m].att + lost
            /\ node[m].att <= MaxAttempts + pauses
            /\ Launchable(m) => node[m].att < MaxAttempts + pauses
        BY <1>0, <2>1, CountsTyped DEF Counts, Unwritten
      <3>2. Launchable(m)' => Launchable(m)
        BY <2>1 DEF Launchable, Unwritten
      <3>3. spawned'[m] <= node[m].att + lost + (IF Unwritten(m)' THEN 1 ELSE 0)
        BY <2>1, <3>1, CountsTyped DEF Unwritten
      <3> QED
        BY <2>1, <3>1, <3>2, <3>3
    <2>3. a \in active' /\ nodeOf'[a] = fresh'
      BY <1>13, <1>f DEF Launch
    <2> QED
      BY <2>2, <2>3 DEF Counts
  <1>14. CASE Paused
    <2>0. CASE wf.state \notin Going
      BY <1>14, <1>d, <2>0 DEF Paused
    <2>1. CASE wf.state \in Going
      <3>1. UNCHANGED <<spawned, lost>> /\ pauses' = pauses + 1 /\ UNCHANGED <<driver, ready>> /\ ~Driven
        BY <1>14, <2>1 DEF Paused
      <3>2. pauses' \in Nat /\ pauses <= pauses'
        BY <3>1, CountsTyped
      <3>3. Quiet
        BY <1>0, <3>1, <3>2 DEF Quiet, Driven
      <3>4. ASSUME NEW m \in Nodes PROVE node'[m].att = node[m].att /\ Requeues(m)
        <4>1. node'[m] = node[m] \/ node'[m] = PutBack(m)
          BY <1>14, <2>1 DEF Paused
        <4>2. CASE node'[m] = PutBack(m)
          BY <1>0, <3>1, <4>2, RowFields, CountsTyped DEF Requeues, Counts
        <4> QED
          BY <3>2, <4>1, <4>2, RowsKept
      <3> QED
        BY <1>c, <3>3, <3>4 DEF Rows
    <2> QED
      BY <2>0, <2>1
  <1>15. CASE NodeCancelled
    <2>1. UNCHANGED <<spawned, lost>> /\ UNCHANGED pauses
      BY <1>15 DEF NodeCancelled
    <2>2. pauses' \in Nat /\ pauses <= pauses'
      BY <2>1, CountsTyped
    <2>3. Quiet
      BY <1>15, <1>0, <2>1, <2>2 DEF Quiet, NodeCancelled
    <2>4. ASSUME NEW m \in Nodes PROVE node'[m].att = node[m].att /\ Requeues(m)
      <3>1. node'[m] = node[m] \/ (node'[m] = [node[m] EXCEPT !.st = "cancelled"])
        BY <1>15, CountsTyped DEF NodeCancelled
      <3>2. CASE node'[m] = [node[m] EXCEPT !.st = "cancelled"]
        BY <3>2, CountsTyped DEF Requeues, NodeRecord
      <3> QED
        BY <2>2, <3>1, <3>2, RowsKept
    <2> QED
      BY <1>c, <2>3, <2>4 DEF Rows
  <1>16. CASE Recover
    <2>1. UNCHANGED <<spawned, lost>> /\ UNCHANGED pauses
      BY <1>16 DEF Recover
    <2>2. pauses' \in Nat /\ pauses <= pauses'
      BY <2>1, CountsTyped
    <2>0. ~Driven /\ UNCHANGED ready
      BY <1>16, <1>e DEF Recover
    <2>3. Quiet
      BY <1>16, <1>0, <2>0, <2>1, <2>2 DEF Quiet, Recover, Driven, NewDriver, NoDriver
    <2>4. ASSUME NEW m \in Nodes PROVE node'[m].att = node[m].att /\ Requeues(m)
      <3>1. node'[m] = node[m] \/ (node'[m] = Recovered(m))
        BY <1>16 DEF Recover
      <3>2. CASE node'[m] = Recovered(m)
        BY <2>1, <2>2, <3>2, RowFields, CountsTyped DEF Requeues
      <3> QED
        BY <2>2, <3>1, <3>2, RowsKept
    <2> QED
      BY <1>c, <2>3, <2>4 DEF Rows
  <1>17. CASE StartPlan
    <2>1. UNCHANGED <<spawned, lost>> /\ UNCHANGED pauses
      BY <1>17 DEF StartPlan
    <2>2. pauses' \in Nat /\ pauses <= pauses'
      BY <2>1, CountsTyped
    <2>3. Quiet
      BY <1>17, <1>0, <1>f, <2>1, <2>2 DEF Quiet, StartPlan, Driven, NewDriver, NoDriver
    <2>4. ASSUME NEW m \in Nodes PROVE node'[m].att = node[m].att /\ Requeues(m)
      <3>1. node[m] = NoNode /\ (node'[m] = NewNode \/ node'[m] = NoNode)
        BY <1>17, <1>f DEF StartPlan, Plan
      <3>2. node[m].att = 0 /\ node'[m].att = 0
        BY <3>1 DEF NewNode, NoNode
      <3> QED
        BY <2>1, <2>2, <3>2, CountsTyped DEF Requeues
    <2> QED
      BY <1>c, <2>3, <2>4 DEF Rows
  <1>18. CASE Cancel
    <2>1. UNCHANGED <<spawned, lost, pauses, node, ready, fresh, active, nodeOf>>
      BY <1>18 DEF Cancel
    <2>2. driver'.pc = driver.pc
      BY <1>18, <1>0 DEF Cancel, DriverRecord
    <2> QED
      BY <1>d, <2>1, <2>2
  <1>19. CASE Pause
    <2>1. UNCHANGED <<spawned, lost, pauses, node, ready, fresh, active, nodeOf>>
      BY <1>19 DEF Pause
    <2>2. driver'.pc = driver.pc
      BY <1>19, <1>0 DEF Pause, DriverRecord
    <2> QED
      BY <1>d, <2>1, <2>2
  <1>20. CASE Resume
    <2>1. UNCHANGED <<spawned, lost, pauses, node, ready>> /\ driver.pc = "off" /\ driver'.pc = "begin"
      BY <1>20 DEF Resume, Driven, NewDriver, NoDriver
    <2> QED
      BY <1>d, <2>1
  <1>21. CASE Close
    <2>1. UNCHANGED <<spawned, lost, pauses, node, ready, fresh, active, nodeOf>>
      BY <1>21 DEF Close
    <2>2. driver'.pc = driver.pc
      BY <1>21, <1>0 DEF Close, DriverRecord
    <2> QED
      BY <1>d, <2>1, <2>2
  <1>22. ASSUME NEW n \in Nodes, AddNode(n) PROVE Counts'
    <2>1. UNCHANGED <<spawned, lost>> /\ UNCHANGED pauses
      BY <1>22 DEF AddNode
    <2>2. pauses' \in Nat /\ pauses <= pauses'
      BY <2>1, CountsTyped
    <2>3. Quiet
      BY <1>22, <1>0, <2>1, <2>2 DEF Quiet, AddNode
    <2>4. ASSUME NEW m \in Nodes PROVE node'[m].att = node[m].att /\ Requeues(m)
      <3>1. CASE m = n
        <4>1. node[m] = NoNode /\ node'[m] = NewNode
          BY <1>22, <1>f, <3>1, CountsTyped DEF AddNode
        <4>2. node[m].att = 0 /\ node'[m].att = 0
          BY <4>1 DEF NewNode, NoNode
        <4> QED
          BY <2>1, <2>2, <4>2, CountsTyped DEF Requeues
      <3>2. CASE m # n
        <4>1. node'[m] = node[m]
          BY <1>22, <3>2 DEF AddNode
        <4> QED
          BY <2>2, <4>1, RowsKept
      <3> QED
        BY <3>1, <3>2
    <2> QED
      BY <1>c, <2>3, <2>4 DEF Rows
  <1>23. ASSUME NEW n \in Nodes, NEW c \in BOOLEAN, Restart(n, c) PROVE Counts'
    <2>1. UNCHANGED <<spawned, lost>> /\ pauses' = pauses + 1
      BY <1>23 DEF Restart
    <2>2. pauses' \in Nat /\ pauses <= pauses'
      BY <2>1, CountsTyped
    <2>3. Quiet
      BY <1>23, <1>0, <2>1, <2>2 DEF Quiet, Restart, Driven
    <2>4. ASSUME NEW m \in Nodes PROVE node'[m].att = node[m].att /\ Requeues(m)
      <3>1. node'[m] = node[m] \/ (node'[m] = PutBack(m))
        BY <1>23 DEF Restart
      <3>2. CASE node'[m] = PutBack(m)
        BY <2>1, <3>2, RowFields, CountsTyped, <1>0 DEF Requeues, Counts
      <3> QED
        BY <2>2, <3>1, <3>2, RowsKept
    <2> QED
      BY <1>c, <2>3, <2>4 DEF Rows
  <1>24. CASE Closed
    <2>1. UNCHANGED node /\ Die
      BY <1>24 DEF Closed
    <2> QED
      BY <1>dd, <2>1
  <1>25. CASE CloseGivesUp
    <2>1. UNCHANGED node /\ Die
      BY <1>25 DEF CloseGivesUp
    <2> QED
      BY <1>dd, <2>1
  <1>26. CASE Crash
    <2>1. UNCHANGED node /\ Die
      BY <1>26 DEF Crash
    <2> QED
      BY <1>dd, <2>1
  <1> QED
    BY <1>1, <1>2, <1>3, <1>4, <1>5, <1>6, <1>7, <1>8, <1>9, <1>10, <1>11, <1>12, <1>13, <1>14, <1>15, <1>16, <1>17, <1>18, <1>19, <1>20, <1>21, <1>22, <1>23, <1>24, <1>25, <1>26 DEF Next, DriverStep, MainStep, User, Join, Skip, PauseGivesUp, CancelNode, Message, UseUp, ChildStep, Reserve, Reap, Atomic, Command, flowVars

-----------------------------------------------------------------------------
(* What a launched node is given. *)

\* A step that changes no report, launches nothing, and starts nothing.
LEMMA ReportsSame ==
    ASSUME IInv, Next, active' \subseteq active, UNCHANGED nodeOf, ready' \subseteq ready,
           active' = {} \/ \A n \in Nodes : Unwritten(n) => Unwritten(n)',
           \A n \in Nodes : node'[n].report <=> node[n].report,
           \A n \in Nodes :
               \/ node'[n].st \in {node[n].st, "cancelled"}
               \/ /\ node'[n].st = "queued" /\ ~node[n].report
                  /\ \A a \in active : nodeOf[a] = n => Unwritten(n),
           WorkflowAssumption
    PROVE  Reports'
  <1>1. Reports /\ (\A a \in active : nodeOf[a] \in Nodes) /\ ready \subseteq Nodes
    BY DEF IInv, Flow, FlowTypes, Slots
  <1>2. \A n \in Nodes : Deps[n] \subseteq Nodes
    BY DEF WorkflowAssumption
  <1>3. \A n \in Nodes : Given(n) => Given(n)'
    BY <1>2 DEF Given
  <1>4. \A n \in Nodes : /\ node'[n].st = "completed" => node'[n].report
                         /\ node'[n].st \in {"queued", "running"} => ~node'[n].report
    BY <1>1 DEF Reports
  <1>5. Plan \subseteq Plan' /\ Plan \subseteq Nodes
    BY PlanNext DEF Plan
  <1>6. \A n \in ready' : Given(n)' /\ n \in Plan' /\ \A a \in active' : nodeOf'[a] # n
    BY <1>1, <1>3, <1>5 DEF Reports
  <1>7. \A a \in active' : Given(nodeOf[a])'
    BY <1>1, <1>2, <1>3 DEF Reports, Given
  <1>8. \A a \in active' : Unwritten(nodeOf[a])' \/ node'[nodeOf'[a]].st \in {"running", "cancelled"}
    BY <1>1 DEF Reports, Unwritten
  <1>9. InputsAreReports'
    <2>1. ASSUME NEW n \in Nodes, node'[n].st \in {"running", "completed"}, NEW d \in Deps[n]
          PROVE  node'[d].report
      <3>1. node[n].st \in {"running", "completed"}
        BY <2>1
      <3>2. n \in Plan
        BY <3>1 DEF Plan
      <3> QED
        BY <1>1, <1>2, <3>1, <3>2 DEF Reports, InputsAreReports
    <2> QED
      BY <2>1 DEF InputsAreReports, Plan
  <1>10. \A a, b \in active' : nodeOf'[a] = nodeOf'[b] => a = b
    BY <1>1 DEF Reports
  <1> QED
    BY <1>4, <1>6, <1>7, <1>8, <1>9, <1>10 DEF Reports

\* Without a driver only the rows matter.
LEMMA ReportsIdle ==
    ASSUME active' = {}, ready' = {}, InputsAreReports',
           \A n \in Nodes : /\ node'[n].st = "completed" => node'[n].report
                            /\ node'[n].st \in {"queued", "running"} => ~node'[n].report
    PROVE  Reports'
  BY DEF Reports

\* What depends on a node is below it.
LEMMA BelowUpward ==
    ASSUME NEW n \in Plan, NEW m \in Plan, NEW d \in Deps[m], d \in Below(n)
    PROVE  m \in Below(n)
  BY DEF Below, Upward

LEMMA ReportsNext ==
    ASSUME IInv, Next, WorkflowAssumption, ChildAssumption
    PROVE  Reports'
  <1>0. /\ Reports /\ driver \in DriverRecord
        /\ active \subseteq Agents /\ nodeOf \in [Agents -> Nodes \cup {None}] /\ ready \subseteq Nodes
        /\ \A a \in active : nodeOf[a] \in Nodes
        /\ \A n \in Nodes : Deps[n] \subseteq Nodes
    BY DEF IInv, Flow, FlowTypes, Slots, WorkflowAssumption
  <1>a. /\ driver.pc \notin {"launch", "row"} => ready = {}
        /\ ~Driven => active = {} /\ ready = {}
        /\ cmd.op = "dead" => ~Driven
        /\ wf.state = "none" => ~Driven /\ Plan = {}
        /\ \A n \in Nodes : node[n].st = "none" => node[n] = NoNode
        /\ driver.pc = "row" => \E a \in active : nodeOf[a] = fresh
    BY DEF IInv, Flow, Tables, Places, Dead, Planned, Counts, Driven
  <1>b. node \in [Nodes -> NodeRecord] /\ \A n \in Nodes : node[n] \in NodeRecord
    BY DEF IInv, Flow, FlowTypes
  <1>c. ASSUME UNCHANGED <<node, nodeOf>>, active' \subseteq active, ready' \subseteq ready,
               active' = {} \/ driver.pc # "row" \/ (driver'.pc = "row" /\ UNCHANGED fresh)
        PROVE  Reports'
    BY <1>c, ReportsSame DEF Unwritten
  <1>1. CASE UNCHANGED <<node, nodeOf, active, driver, fresh>> /\ ready' \subseteq ready
    BY <1>1, <1>c
  <1>2. CASE Begin
    BY <1>2, <1>c DEF Begin
  <1>3. CASE Preflight
    BY <1>3, <1>c DEF Preflight, Gone
  <1>4. CASE Top
    BY <1>4, <1>c DEF Top
  <1>5. CASE Sweep
    <2>1. UNCHANGED <<fresh, active, nodeOf>> /\ driver.pc = "poll"
      BY <1>5, SweepFacts
    <2>2. CASE UNCHANGED <<node, ready>>
      BY <1>c, <2>1, <2>2
    <2>3. ASSUME NEW blocked \in SUBSET {n \in Plan : node[n].st = "queued"},
                 node' = [n \in Nodes |->
                           IF n \in blocked THEN [node[n] EXCEPT !.st = "cancelled"] ELSE node[n]],
                 ready' \subseteq {n \in Plan : node[n].st = "queued" /\ node'[n] = node[n]},
                 \A n \in ready' : \A d \in Deps[n] : node[d].st = "completed"
          PROVE  Reports'
      <3>1. ASSUME NEW n \in Nodes
            PROVE  /\ node'[n].report <=> node[n].report
                   /\ node'[n].st \in {node[n].st, "cancelled"}
                   /\ node[n].st # "queued" => node'[n] = node[n]
        BY <1>b, <2>3 DEF NodeRecord
      <3>2. \A n \in Nodes : /\ node'[n].st = "completed" => node'[n].report
                             /\ node'[n].st \in {"queued", "running"} => ~node'[n].report
        BY <1>0, <3>1 DEF Reports
      <3>3. \A n \in Nodes : Given(n) => Given(n)'
        BY <1>0, <3>1 DEF Given
      <3>4. \A a \in active : node[nodeOf[a]].st \in {"running", "cancelled"}
        BY <1>0, <2>1 DEF Reports, Unwritten
      <3>5. ASSUME NEW n \in ready' PROVE Given(n)' /\ n \in Plan' /\ \A a \in active' : nodeOf'[a] # n
        <4>1. n \in Nodes /\ node[n].st = "queued" /\ node'[n] = node[n]
              /\ \A d \in Deps[n] : node[d].st = "completed"
          BY <2>3 DEF Plan
        <4>2. n \in Plan' /\ \A a \in active' : nodeOf'[a] # n
          BY <2>1, <3>4, <4>1 DEF Plan
        <4>3. ~node'[n].report /\ \A d \in Deps[n] : node'[d].report
          BY <1>0, <3>1, <4>1 DEF Reports
        <4> QED
          BY <4>2, <4>3 DEF Given
      <3>6. InputsAreReports'
        <4>1. ASSUME NEW n \in Nodes, node'[n].st \in {"running", "completed"}, NEW d \in Deps[n]
              PROVE  node'[d].report
          <5>1. n \in Plan /\ node[n].st \in {"running", "completed"}
            BY <3>1, <4>1 DEF Plan
          <5> QED
            BY <1>0, <3>1, <5>1 DEF Reports, InputsAreReports
        <4> QED
          BY <4>1 DEF InputsAreReports, Plan
      <3>7. /\ \A a \in active' : Given(nodeOf[a])'
            /\ \A a, b \in active' : nodeOf'[a] = nodeOf'[b] => a = b
            /\ \A a \in active' : Unwritten(nodeOf[a])' \/ node'[nodeOf'[a]].st \in {"running", "cancelled"}
        BY <1>0, <2>1, <3>1, <3>3, <3>4 DEF Reports, Given
      <3> QED
        BY <3>2, <3>5, <3>6, <3>7 DEF Reports
    <2> QED
      BY <1>5, <2>2, <2>3, SweepFacts
  <1>6. CASE NodeRow
    <2>1. /\ driver.pc = "row" /\ driver'.pc = "launch" /\ UNCHANGED <<active, ready, nodeOf>>
      BY <1>6, <1>0, Moves DEF NodeRow
    <2>2. fresh \in Nodes /\ Given(fresh)
      BY <1>0, <1>a, <2>1 DEF Reports
    <2>3. \A m \in Nodes : m # fresh => node'[m] = node[m]
      BY <1>6, <1>b DEF NodeRow
    <2>4. node'[fresh].st = "running" /\ (node'[fresh].report <=> node[fresh].report)
      <3>1. node[fresh] \in NodeRecord
        BY <1>b, <2>2
      <3> QED
        BY <1>6, <1>b, <2>2, <3>1 DEF NodeRow, NodeRecord
    <2>5. \A m \in Nodes : node'[m].report <=> node[m].report
      BY <2>3, <2>4
    <2>6. \A m \in Nodes : Given(m) => Given(m)'
      BY <1>0, <2>5 DEF Given
    <2>7. \A a \in active' : Given(nodeOf[a])'
      BY <1>0, <2>1, <2>6 DEF Reports, Given
    <2>8. \A m \in ready' : Given(m)' /\ m \in Plan' /\ \A a \in active' : nodeOf'[a] # m
      <3>1. \A m \in Plan : m \in Plan'
        BY PlanNext DEF Plan
      <3> QED
        BY <1>0, <2>1, <2>6, <3>1 DEF Reports
    <2>9. \A a \in active' : node'[nodeOf'[a]].st \in {"running", "cancelled"}
      BY <1>0, <2>1, <2>3, <2>4 DEF Reports, Unwritten
    <2>10. \A m \in Nodes : /\ node'[m].st = "completed" => node'[m].report
                            /\ node'[m].st \in {"queued", "running"} => ~node'[m].report
      BY <1>0, <2>2, <2>3, <2>4 DEF Reports, Given
    <2>11. InputsAreReports'
      <3>1. ASSUME NEW m \in Nodes, node'[m].st \in {"running", "completed"}, NEW d \in Deps[m]
            PROVE  node'[d].report
        <4>1. CASE m = fresh
          BY <1>0, <2>2, <2>5, <3>1, <4>1 DEF Given
        <4>2. CASE m # fresh
          <5>1. m \in Plan /\ node[m].st \in {"running", "completed"}
            BY <2>3, <3>1, <4>2 DEF Plan
          <5> QED
            BY <1>0, <2>5, <5>1 DEF Reports, InputsAreReports
        <4> QED
          BY <4>1, <4>2
      <3> QED
        BY <3>1 DEF InputsAreReports, Plan
    <2>12. \A a, b \in active' : nodeOf'[a] = nodeOf'[b] => a = b
      BY <1>0, <2>1 DEF Reports
    <2> QED
      BY <2>7, <2>8, <2>9, <2>10, <2>11, <2>12 DEF Reports
  <1>7. CASE Launched
    BY <1>7, <1>c DEF Launched
  <1>8. CASE Wait
    BY <1>8, <1>c DEF Wait
  <1>9. CASE DrainEnds
    BY <1>9, <1>c DEF DrainEnds
  <1>10. CASE StopActive
    BY <1>10, <1>c DEF StopActive
  <1>11. CASE Settle
    BY <1>11, <1>c DEF Settle, Gone
  <1>12. ASSUME NEW a \in Agents, Poll(a) PROVE Reports'
    <2> DEFINE n == nodeOf[a]
    <2>1. /\ UNCHANGED <<driver, ready, fresh, nodeOf>> /\ active' = active \ {a} /\ a \in active
          /\ driver.pc \in {"poll", "drain"} /\ child[a].state \in EndStates
          /\ node' = [node EXCEPT ![n] = Took(n, a)] \/ node' = [node EXCEPT ![n] = Rerouted(n)]
      BY <1>12 DEF Poll, Ended
    <2>2. n \in Nodes /\ Given(n) /\ ready = {}
      BY <1>0, <1>a, <2>1 DEF Reports
    <2> HIDE DEF n
    <2>3. \A m \in Nodes : m # n => node'[m] = node[m]
      BY <1>b, <2>1
    <2>4. /\ node'[n].st = "completed" => node'[n].report
          /\ node'[n].st \in EndStates \cup {"queued"}
          /\ node'[n].st = "queued" => ~node'[n].report
      <3>1. node'[n] = Took(n, a) \/ node'[n] = Rerouted(n)
        BY <1>b, <2>1, <2>2
      <3> QED
        BY <1>b, <2>1, <2>2, <3>1, RowFields DEF EndStates
    <2>5. \A m \in Nodes : node[m].report => node'[m].report
      BY <2>2, <2>3 DEF Given
    <2>6. \A b \in active' : nodeOf'[b] # n /\ nodeOf'[b] \in Nodes /\ b \in active
      BY <1>0, <2>1 DEF Reports, n
    <2>7. \A b \in active' : Given(nodeOf[b])'
      <3>1. \A m \in Nodes : m # n /\ Given(m) => Given(m)'
        BY <1>0, <2>3, <2>5 DEF Given
      <3> QED
        BY <1>0, <2>1, <2>6, <3>1 DEF Reports, Given
    <2>8. InputsAreReports'
      <3>1. ASSUME NEW m \in Nodes, node'[m].st \in {"running", "completed"}, NEW d \in Deps[m]
            PROVE  node'[d].report
        <4>1. CASE m = n
          BY <1>0, <2>2, <2>5, <3>1, <4>1 DEF Given
        <4>2. CASE m # n
          <5>1. m \in Plan /\ node[m].st \in {"running", "completed"}
            BY <2>3, <3>1, <4>2 DEF Plan
          <5> QED
            BY <1>0, <2>5, <5>1 DEF Reports, InputsAreReports
        <4> QED
          BY <4>1, <4>2
      <3> QED
        BY <3>1 DEF InputsAreReports, Plan
    <2>9. \A b \in active' : node'[nodeOf'[b]].st \in {"running", "cancelled"}
      BY <1>0, <2>1, <2>3, <2>6 DEF Reports, Unwritten
    <2>10. \A m \in Nodes : /\ node'[m].st = "completed" => node'[m].report
                            /\ node'[m].st \in {"queued", "running"} => ~node'[m].report
      BY <1>0, <2>3, <2>4 DEF Reports, EndStates
    <2>11. \A b, e \in active' : nodeOf'[b] = nodeOf'[e] => b = e
      BY <1>0, <2>1 DEF Reports
    <2>12. ready' = {}
      BY <2>1, <2>2
    <2> QED
      BY <2>7, <2>8, <2>9, <2>10, <2>11, <2>12 DEF Reports
  <1>13. ASSUME NEW n \in Nodes, NEW a \in Agents, Launch(n, a) PROVE Reports'
    <2>1. /\ UNCHANGED node /\ active' = active \cup {a} /\ nodeOf' = [nodeOf EXCEPT ![a] = n]
          /\ n \in ready /\ ready' = ready \ {n} /\ driver.pc = "launch" /\ fresh' = n
          /\ driver'.pc = "row"
      BY <1>13, <1>0, Moves DEF Launch
    <2>2. a \notin active
      BY <1>13, SpawnKeeps DEF Launch, IInv, Flow, Slots, Holders
    <2>3. nodeOf'[a] = n /\ \A b \in active : nodeOf'[b] = nodeOf[b] /\ nodeOf[b] # n
      BY <1>0, <2>1, <2>2 DEF Reports
    <2>4. \A m \in Nodes : Given(m) => Given(m)'
      BY <2>1 DEF Given
    <2>5. \A b \in active' : Given(nodeOf[b])'
      BY <1>0, <2>1, <2>3, <2>4 DEF Reports, Given
    <2>6. \A b, e \in active' : nodeOf'[b] = nodeOf'[e] => b = e
      BY <1>0, <2>1, <2>3 DEF Reports
    <2>7. \A m \in ready' : Given(m)' /\ m \in Plan' /\ \A b \in active' : nodeOf'[b] # m
      BY <1>0, <2>1, <2>3, <2>4 DEF Reports, Plan
    <2>8. \A b \in active' : Unwritten(nodeOf[b])' \/ node'[nodeOf'[b]].st \in {"running", "cancelled"}
      BY <1>0, <2>1, <2>3 DEF Reports, Unwritten
    <2>9. InputsAreReports'
      BY <1>0, <2>1 DEF Reports, InputsAreReports, Plan
    <2> QED
      BY <1>0, <2>1, <2>5, <2>6, <2>7, <2>8, <2>9 DEF Reports
  <1>14. CASE Paused
    <2>1. UNCHANGED <<driver, fresh, active, ready, nodeOf>> /\ active = {}
      BY <1>14, <1>a DEF Paused
    <2>2. ASSUME NEW n \in Nodes
          PROVE  /\ node'[n].report <=> node[n].report
                 /\ node'[n].st = node[n].st \/ (node'[n].st = "queued" /\ ~node[n].report)
      <3>1. node'[n] = node[n] \/ (node[n].st = "running" /\ node'[n] = PutBack(n))
        BY <1>14 DEF Paused
      <3> QED
        BY <1>0, <1>b, <3>1, RowFields DEF Reports
    <2> QED
      BY <2>1, <2>2, ReportsSame
  <1>15. CASE NodeCancelled
    <2>1. \A n \in Nodes : /\ node'[n].report <=> node[n].report
                           /\ node'[n].st \in {node[n].st, "cancelled"}
      BY <1>15, <1>b DEF NodeCancelled, NodeRecord
    <2>2. UNCHANGED <<driver, fresh, active, ready, nodeOf>>
      BY <1>15 DEF NodeCancelled
    <2> QED
      BY <2>1, <2>2, ReportsSame DEF Unwritten
  <1>16. CASE Recover
    <2>1. active' = {} /\ ready' = {}
      BY <1>16, <1>a DEF Recover
    <2>2. ASSUME NEW n \in Nodes
          PROVE  node'[n] = node[n] \/ (node[n].st = "running" /\ node'[n] = Recovered(n))
      BY <1>16, <1>b DEF Recover, Interrupted
    <2>3. ASSUME NEW n \in Nodes
          PROVE  /\ node[n].report => node'[n].report
                 /\ node'[n].st = "completed" => node'[n].report
                 /\ node'[n].st \in {"queued", "running"} => ~node'[n].report
                 /\ node'[n].st \in {"running", "completed"} => node[n].st \in {"running", "completed"}
      BY <1>0, <1>b, <2>2, RowFields DEF Reports
    <2>4. InputsAreReports'
      <3>1. ASSUME NEW n \in Nodes, node'[n].st \in {"running", "completed"}, NEW d \in Deps[n]
            PROVE  node'[d].report
        <4>1. n \in Plan /\ node[n].st \in {"running", "completed"}
          BY <2>3, <3>1 DEF Plan
        <4> QED
          BY <1>0, <2>3, <4>1 DEF Reports, InputsAreReports
      <3> QED
        BY <3>1 DEF InputsAreReports, Plan
    <2> QED
      BY <2>1, <2>3, <2>4, ReportsIdle
  <1>17. CASE StartPlan
    <2>1. active' = {} /\ ready' = {}
      BY <1>17, <1>a DEF StartPlan
    <2>2. \A n \in Nodes : node'[n].st \in {"none", "queued"} /\ ~node'[n].report
      <3>1. \A n \in Nodes : node'[n] = NewNode \/ node'[n] = NoNode
        BY <1>17 DEF StartPlan
      <3> QED
        BY <3>1 DEF NewNode, NoNode
    <2>3. InputsAreReports'
      BY <2>2 DEF InputsAreReports, Plan
    <2> QED
      BY <2>1, <2>2, <2>3, ReportsIdle
  <1>18. CASE Cancel
    <2>1. UNCHANGED <<node, ready, fresh, active, nodeOf>>
      BY <1>18 DEF Cancel
    <2>2. driver'.pc = driver.pc
      BY <1>18, <1>0 DEF Cancel, DriverRecord
    <2> QED
      BY <1>c, <2>1, <2>2
  <1>19. CASE Pause
    <2>1. UNCHANGED <<node, ready, fresh, active, nodeOf>>
      BY <1>19 DEF Pause
    <2>2. driver'.pc = driver.pc
      BY <1>19, <1>0 DEF Pause, DriverRecord
    <2> QED
      BY <1>c, <2>1, <2>2
  <1>20. CASE Resume
    BY <1>20, <1>c DEF Resume, Driven
  <1>21. CASE Close
    <2>1. UNCHANGED <<node, ready, fresh, active, nodeOf>>
      BY <1>21 DEF Close
    <2>2. driver'.pc = driver.pc
      BY <1>21, <1>0 DEF Close, DriverRecord
    <2> QED
      BY <1>c, <2>1, <2>2
  <1>22. ASSUME NEW n \in Nodes, AddNode(n) PROVE Reports'
    <2>1. UNCHANGED <<driver, fresh, active, ready, nodeOf>>
      BY <1>22 DEF AddNode
    <2>2. node[n] = NoNode /\ node'[n] = NewNode /\ \A m \in Nodes : m # n => node'[m] = node[m]
      BY <1>22, <1>a, <1>b DEF AddNode
    <2>3. /\ node[n].st = "none" /\ ~node[n].report
          /\ node'[n].st = "queued" /\ ~node'[n].report
      BY <2>2 DEF NoNode, NewNode
    <2>4. \A a \in active : nodeOf[a] = n => Unwritten(n)
      BY <1>0, <2>3 DEF Reports
    <2>5. \A m \in Nodes : node'[m].report <=> node[m].report
      BY <2>2, <2>3
    <2>6. \A m \in Nodes :
            \/ node'[m].st \in {node[m].st, "cancelled"}
            \/ /\ node'[m].st = "queued" /\ ~node[m].report
               /\ \A a \in active : nodeOf[a] = m => Unwritten(m)
      BY <2>2, <2>3, <2>4
    <2> QED
      BY <2>1, <2>5, <2>6, ReportsSame DEF Unwritten
  <1>23. ASSUME NEW n \in Nodes, NEW c \in BOOLEAN, Restart(n, c) PROVE Reports'
    <2> DEFINE reset == IF c THEN Below(n) ELSE {n}
    <2>0. /\ ~Driven /\ n \in Plan /\ UNCHANGED <<active, ready>>
          /\ (\E m \in Below(n) \ {n} : node[m].st \notin {"queued", "cancelled"}) => c
          /\ node' = [m \in Nodes |-> IF m \in reset THEN PutBack(m) ELSE node[m]]
      BY <1>23 DEF Restart
    <2>1. active' = {} /\ ready' = {}
      BY <1>a, <2>0
    <2>2. ASSUME NEW m \in Nodes
          PROVE  /\ m \in reset => node'[m].st = "queued" /\ ~node'[m].report
                 /\ m \notin reset => node'[m] = node[m]
      BY <1>b, <2>0, RowFields
    <2>3. InputsAreReports'
      <3>1. ASSUME NEW m \in Nodes, node'[m].st \in {"running", "completed"}, NEW d \in Deps[m]
            PROVE  node'[d].report
        <4>1. m \notin reset /\ node[m].st \in {"running", "completed"} /\ m \in Plan
          BY <2>2, <3>1 DEF Plan
        <4>2. d \in Nodes /\ node[d].report
          BY <1>0, <3>1, <4>1 DEF Reports, InputsAreReports
        <4>3. CASE c
          <5>1. d \notin reset
            BY <2>0, <3>1, <4>1, <4>3, BelowUpward
          <5> QED
            BY <2>2, <4>2, <5>1
        <4>4. CASE ~c
          <5>1. m \notin Below(n)
            BY <2>0, <4>1, <4>4
          <5>2. n \in Below(n)
            BY <2>0 DEF Below
          <5>3. d # n
            BY <2>0, <3>1, <4>1, <5>1, <5>2, BelowUpward
          <5> QED
            BY <2>2, <4>2, <4>4, <5>3
        <4> QED
          BY <4>3, <4>4
      <3> QED
        BY <3>1 DEF InputsAreReports, Plan
    <2>4. \A m \in Nodes : /\ node'[m].st = "completed" => node'[m].report
                           /\ node'[m].st \in {"queued", "running"} => ~node'[m].report
      BY <1>0, <2>2 DEF Reports
    <2> QED
      BY <2>1, <2>3, <2>4, ReportsIdle
  <1>24. CASE Closed
    BY <1>24, <1>c DEF Closed, Die
  <1>25. CASE CloseGivesUp
    BY <1>25, <1>c DEF CloseGivesUp, Die
  <1>26. CASE Crash
    BY <1>26, <1>c DEF Crash, Die
  <1> QED
    BY <1>1, <1>2, <1>3, <1>4, <1>5, <1>6, <1>7, <1>8, <1>9, <1>10, <1>11, <1>12, <1>13, <1>14, <1>15, <1>16, <1>17, <1>18, <1>19, <1>20, <1>21, <1>22, <1>23, <1>24, <1>25, <1>26 DEF Next, DriverStep, MainStep, User, Join, Skip, PauseGivesUp, CancelNode, Message, UseUp, ChildStep, Reserve, Reap, Atomic, Command, flowVars

-----------------------------------------------------------------------------
(* The inductive invariant, and what it is for. *)

LEMMA InitOK ==
    ASSUME Init, WorkflowAssumption, ChildAssumption
    PROVE  IInv
  <1>1. Children
    <2>1. ChildTypeOK
      <3>1. 0 \in 0..MaxMessages /\ 0 \in 0..(MaxMessages + 1) /\ 0 \in 0..MaxContinuations
        BY DEF ChildAssumption
      <3>2. NoChild \in [state : Stopped \cup {"none", "queued", "running"},
                         owner : {"none", "live", "dead"}, inbox : 0..MaxMessages]
        BY <3>1 DEF NoChild
      <3>3. NoWorker \in [pc : {"off", "claim", "resume", "call", "run", "check",
                                "finish", "drive", "retire"},
                          guarded : BOOLEAN, cancel : BOOLEAN,
                          gen : 0..(MaxMessages + 1), seen : 0..(MaxMessages + 1),
                          tried : 0..(MaxMessages + 1), turns : 0..MaxContinuations,
                          out : Stopped \cup {"none"}]
        BY <3>1 DEF NoWorker
      <3> QED
        BY <3>1, <3>2, <3>3 DEF Init, ChildInit, ChildTypeOK
    <2>2. \A a \in Agents : child[a] = NoChild /\ worker[a] = NoWorker /\ ~excused[a]
      BY DEF Init, ChildInit
    <2>3. \A a \in Agents : Numbers(a) /\ Standing(a) /\ Watch(a)
      BY <2>2, <2>1 DEF NoChild, NoWorker, Numbers, Standing, Watch, Alive, Known, First1, Busy,
         Init, ChildInit, ChildAssumption
    <2> QED
      BY <2>1, <2>3 DEF Children, Init, ChildInit
  <1>2. \A n \in Nodes : node[n] = NoNode
    BY DEF Init
  <1>3. Plan = {}
    BY <1>2 DEF Plan, NoNode
  <1>4. FlowTypes
    <2>1. NoNode \in NodeRecord /\ NoDriver \in DriverRecord /\ NoCmd \in CmdRecord
      BY DEF NoNode, NodeRecord, NoDriver, DriverRecord, DriverPcs, NoCmd, CmdRecord,
         WorkflowAssumption, ChildAssumption
    <2>2. wf \in WfRecord
      BY DEF Init, WfRecord, Stages, WorkflowAssumption
    <2>3. /\ node \in [Nodes -> NodeRecord] /\ driver \in DriverRecord /\ cmd \in CmdRecord
          /\ nodeOf \in [Agents -> Nodes \cup {None}] /\ spawned \in [Nodes -> Nat]
      BY <2>1 DEF Init
    <2> QED
      BY <2>2, <2>3 DEF Init, FlowTypes
  <1>5. Tables
    BY <1>2, <1>3 DEF Init, Tables, Places, Dead, Planned, NoDriver, NoCmd, Driven
  <1>6. Holders = {} /\ FirstRun = {}
    BY DEF Init, ChildInit, NoWorker, Holders, FirstRun
  <1>7. Slots
    BY <1>6, FS_EmptySet DEF Init, Slots, SlotsCoverWorkers, WorkflowAssumption
  <1>8. Counts
    BY <1>2 DEF Init, Counts, Unwritten, Launchable, NoDriver, NoNode, WorkflowAssumption
  <1>9. Owner
    BY DEF Init, Owner, NoDriver, NoCmd, Going
  <1>10. Reports
    BY <1>2, <1>3 DEF Init, Reports, InputsAreReports, NoNode
  <1> QED
    BY <1>1, <1>4, <1>5, <1>7, <1>8, <1>9, <1>10 DEF IInv, Flow

LEMMA StutterOK ==
    ASSUME IInv, UNCHANGED vars
    PROVE  IInv'
  <1>1. UNCHANGED childVars /\ UNCHANGED flowVars
    BY DEF vars
  <1>2. Children'
    BY <1>1, NothingKeeps DEF IInv, Moved
  <1>3. UNCHANGED Plan
    BY <1>1 DEF flowVars, Plan
  <1>4. FlowTypes' /\ Tables' /\ Owner'
    BY <1>1, <1>3 DEF IInv, Flow, flowVars, childVars, FlowTypes, Tables, Places, Dead, Planned, Owner, Driven
  <1>5. Slots'
    BY <1>1 DEF IInv, Flow, flowVars, childVars, Slots, SlotsCoverWorkers, Holders, HeldAt, FirstRun,
       Known
  <1>6. Counts'
    BY <1>1 DEF IInv, Flow, flowVars, Counts, Unwritten, Launchable
  <1>7. Reports'
    BY <1>1, <1>3 DEF IInv, Flow, flowVars, Reports, Given, Unwritten, InputsAreReports
  <1> QED
    BY <1>2, <1>4, <1>5, <1>6, <1>7 DEF IInv, Flow

LEMMA StepOK ==
    ASSUME IInv, [Next]_vars, WorkflowAssumption, ChildAssumption
    PROVE  IInv'
  <1>1. CASE Next
    BY <1>1, ChildrenNext, TypesNext, PlacesNext, DeadNext, PlannedNext, SlotsNext, CountsNext,
       OwnerNext, ReportsNext DEF IInv, Flow, Tables
  <1>2. CASE UNCHANGED vars
    BY <1>2, StutterOK
  <1> QED
    BY <1>1, <1>2

LEMMA Inductive == Spec => []IInv
  <1>1. Init => IInv
    BY InitOK, WorkflowAssumption, ChildAssumption
  <1>2. IInv /\ [Next]_vars => IInv'
    BY StepOK, WorkflowAssumption, ChildAssumption
  <1> QED
    BY <1>1, <1>2, PTL DEF Spec

\* Whatever ends a child, its slot is given back once, and no node is spawned
\* for ever: the counters of _try_acquire_slot and _release_slot, and the
\* attempts of _execute_node and recover, for any plan, budget and number of
\* crashes.
THEOREM ChildrenStayBounded == Spec => []ChildrenAreBounded
  <1>1. IInv => ChildrenAreBounded
    <2> SUFFICES ASSUME IInv PROVE ChildrenAreBounded
      OBVIOUS
    <2>1. WorkflowTypeOK
      BY DEF IInv, Children, Flow, FlowTypes, WorkflowTypeOK, WfRecord, NodeRecord, DriverRecord,
         DriverPcs
    <2>2. SlotsCoverWorkers
      BY DEF IInv, Flow, Slots
    <2>3. ASSUME NEW n \in Nodes PROVE spawned[n] <= MaxAttempts + pauses + lost
      <3>1. /\ spawned[n] <= node[n].att + lost + (IF Unwritten(n) THEN 1 ELSE 0)
            /\ node[n].att <= MaxAttempts + pauses
            /\ Unwritten(n) => node[n].att < MaxAttempts + pauses
        BY DEF IInv, Flow, Counts, Launchable
      <3>2. /\ MaxAttempts \in Nat /\ pauses \in Nat /\ lost \in Nat /\ node[n].att \in Nat
            /\ spawned[n] \in Nat
        BY CountsTyped, WorkflowAssumption
      <3>3. CASE Unwritten(n)
        <4>1. spawned[n] <= node[n].att + lost + 1
          BY <3>1, <3>3
        <4> QED
          BY <3>1, <3>2, <3>3, <4>1
      <3>4. CASE ~Unwritten(n)
        <4>1. spawned[n] <= node[n].att + lost + 0
          BY <3>1, <3>4
        <4> QED
          BY <3>1, <3>2, <4>1
      <3> QED
        BY <3>3, <3>4
    <2> QED
      BY <2>1, <2>2, <2>3 DEF ChildrenAreBounded, SpawnsBounded
  <1> QED
    BY <1>1, Inductive, PTL

\* A workflow this process owns is driven, unless a pause gave up waiting, and
\* a child with a message in its inbox is watched: the hand-overs of
\* pause_workflow, close and recover, and of AgentWorkspace._retire.
THEOREM NobodyStaysForgotten == Spec => []NobodyIsForgotten
  <1>1. IInv => NobodyIsForgotten
    BY DEF IInv, Flow, Owner, Children, Watch, NobodyIsForgotten, OwnedIsDriven, MessageIsWatched
  <1> QED
    BY <1>1, Inductive, PTL

\* A report is dropped by a restart of the user only.
LEMMA KeptNext ==
    ASSUME IInv, Next, WorkflowAssumption, ChildAssumption
    PROVE  KeptReport
  <1>0. /\ Reports /\ (\A a \in active : nodeOf[a] \in Nodes)
        /\ \A n \in Nodes : node[n].st = "none" => node[n] = NoNode
        /\ wf.state = "none" => Plan = {}
        /\ ops \in Nat /\ pauses \in Nat
        /\ node \in [Nodes -> NodeRecord] /\ \A n \in Nodes : node[n] \in NodeRecord
    BY DEF IInv, Flow, FlowTypes, Tables, Planned, Slots
  <1> DEFINE Told == \A n \in Nodes : node[n].report => node'[n].report
  <1>1. CASE UNCHANGED node
    BY <1>1 DEF KeptReport
  <1>2. CASE Sweep
    <2>1. ASSUME UNCHANGED node PROVE Told
      BY <2>1
    <2>2. ASSUME NEW blocked \in SUBSET Plan,
                 node' = [n \in Nodes |->
                           IF n \in blocked THEN [node[n] EXCEPT !.st = "cancelled"] ELSE node[n]]
          PROVE  Told
      <3>1. \A n \in Nodes : [node[n] EXCEPT !.st = "cancelled"].report = node[n].report
        BY <1>0 DEF NodeRecord
      <3> QED
        BY <2>2, <3>1
    <2>3. Told
      BY <1>2, <2>1, <2>2, SweepFacts
    <2> QED
      BY <2>3 DEF KeptReport
  <1>3. CASE NodeRow
    <2>1. \A n \in Nodes : node'[n].report = node[n].report
      BY <1>3, <1>0 DEF NodeRow, NodeRecord
    <2> QED
      BY <2>1 DEF KeptReport
  <1>4. ASSUME NEW a \in Agents, Poll(a) PROVE KeptReport
    <2>1. ~node[nodeOf[a]].report
      BY <1>4, <1>0 DEF Poll, Ended, Reports, Given
    <2>2. \A n \in Nodes : n # nodeOf[a] => node'[n] = node[n]
      BY <1>4, <1>0 DEF Poll
    <2> QED
      BY <2>1, <2>2 DEF KeptReport
  <1>5. CASE Paused
    <2>1. \A n \in Nodes : node'[n] = node[n] \/ node[n].st = "running"
      BY <1>5 DEF Paused
    <2> QED
      BY <1>0, <2>1 DEF KeptReport, Reports
  <1>6. CASE NodeCancelled
    <2>1. \A n \in Nodes : node'[n].report = node[n].report
      BY <1>6, <1>0 DEF NodeCancelled, NodeRecord
    <2> QED
      BY <2>1 DEF KeptReport
  <1>7. CASE Recover
    <2>1. \A n \in Nodes : node'[n] = node[n] \/ node[n].st = "running"
      BY <1>7 DEF Recover, Interrupted
    <2> QED
      BY <1>0, <2>1 DEF KeptReport, Reports
  <1>8. CASE StartPlan
    BY <1>8, <1>0 DEF StartPlan, Plan, NoNode, KeptReport
  <1>9. ASSUME NEW n \in Nodes, AddNode(n) PROVE KeptReport
    <2>1. ~node[n].report /\ \A m \in Nodes : m # n => node'[m] = node[m]
      BY <1>9, <1>0 DEF AddNode, NoNode
    <2> QED
      BY <2>1 DEF KeptReport
  <1>10. ASSUME NEW n \in Nodes, NEW c \in BOOLEAN, Restart(n, c) PROVE KeptReport
    <2>1. ops' = ops + 1 /\ pauses' = pauses + 1
      BY <1>10 DEF Restart, Atomic
    <2> QED
      BY <1>0, <2>1 DEF KeptReport
  <1> QED
    BY <1>1, <1>2, <1>3, <1>4, <1>5, <1>6, <1>7, <1>8, <1>9, <1>10 DEF Next, DriverStep, MainStep,
       User, Begin, Preflight, Top, Launched, Wait, DrainEnds, StopActive, Settle, Join, Skip, Launch,
       PauseGivesUp, Closed, CloseGivesUp, Cancel, Pause, Resume, Close, CancelNode, Message, UseUp,
       Crash, ChildStep, Reserve, Reap, Gone, flowVars

\* A node never runs, nor stays completed, on a prerequisite whose report is
\* gone, and no crash, pause, recovery or cancel drops a report: the DAG side
\* of _execute_node, restart_node and recover.
THEOREM ReportsStayWithDependents == Spec => ReportsReachDependents
  <1>1. IInv /\ IInv' /\ [Next]_vars => [KeptReport /\ InputsAreReports']_vars
    <2> SUFFICES ASSUME IInv, IInv', Next PROVE KeptReport /\ InputsAreReports'
      OBVIOUS
    <2>1. KeptReport
      BY KeptNext, WorkflowAssumption, ChildAssumption
    <2>2. InputsAreReports'
      BY DEF IInv, Flow, Reports
    <2> QED
      BY <2>1, <2>2
  <1> QED
    BY <1>1, Inductive, PTL DEF Spec, ReportsReachDependents

=============================================================================
