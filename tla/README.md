# zylab, specified

TLA+ models of zylab, a terminal coding agent written in Python: the
concurrent and crash-prone parts of `core/` and of the REPL in `zylab.py`,
model-checked with TLC and, where a result should hold for every size, proved
with TLAPS. `PROJECT.json` maps every definition to the lines it stands for.

## 1. The system

One process runs the REPL. Its *owner thread* reads keys from an input pump,
renders, and drives the *agent*, a Python generator that talks to the provider
and calls tools. Everything that must survive the process is written to SQLite
(`~/.zylab`), everything that takes long runs on worker threads or processes
and reports through queues the owner drains.

| Part | State it keeps | Operations | Interacts with |
|---|---|---|---|
| `core/controller.py` SessionController | reducer state, current turn, request, tool batch, question, queue of inputs; the event journal | submit, dispatch, begin/complete/fail request, cancel, decide/start/finish tool, interaction, modal, restart | called by agent and owner; writes the journal |
| `core/agent.py` Agent | transcript, per-turn loop state | one managed turn: requests, compaction, tool batches | controller, provider client, task manager |
| `zylab.py` Session | actions not yet run, late inputs, attached task, goal gate | drain keys while busy, Esc, Ctrl+B, pickers, run_actions, slash commands | all of them |
| `core/tasks.py` TaskManager | task table, cancel intents, pending questions, task events | run, background, cancel, shutdown, interaction rendezvous | agent (foreground), owner (background drain), tool workers |
| `core/checkpoints.py` | checkpoints of written files, restore transactions | prepare/commit a write, restore, recover after a crash | agent (before a writing tool), `/rewind` |
| `core/state.py` StateStore | SQLite: events, queue, traces, metrics | append, enqueue, dispatch, open/close trace, reconcile | controller, agent |
| `core/store.py` | session files, index, lease files | acquire, heartbeat, release, take over, mark dirty, rebuild | start-up, `/resume`, several zylab processes |
| `core/goals.py` | a goal and its rounds | create, reserve a round, pause, resume, stop | owner, controller (goal continuations) |
| `core/agents.py`, `core/subagent.py` | child agents: record, inbox, run, worker table | spawn, message, watch, cancel, resume | owner, workflow engine |
| `core/workflows.py` | one file per workflow: DAG of nodes, attempts, budget, owner | schedule, retry, add nodes, pause, resume, cancel, close | child agents |
| `core/client.py`, `core/model_health.py` | stream state, cancellation handle, traces, circuit per route | stream, retry, fall back, cancel, open, probe, close | provider, metrics database |
| `core/context.py` | the summary that stands for a prefix of the transcript, compaction breaker | plan, compact, project | agent |
| `core/tools.py`, `core/settings.py`, `core/sandbox.py` | prepared calls, permission rules, grants of a session | prepare, decide, execute, edit a rule | agent, owner |
| `core/tui.py`, `core/apprender.py`, `core/views.py` | draft, queue of events, screen contents | keys, panels, painting, resizing | owner, reader thread, any thread that prints |
| `core/models.py` | what is known of each route | refresh, probe, record a success or a rejection | client, `/model` |
| `core/repomap.py` | generations of the architecture map, its lock, notes of the user | refresh, build, publish, annotate | several processes |
| `core/memory.py`, `memory_extract.py`, `away_recap.py` | memories of a project, the recap of a chat | extract, store, show | owner when idle, side threads |
| `core/migrations.py`, `core/homemigrate.py` | temporary database, `.location` | import version 1, rewrite paths after a move | start-up |

### What is hard here

* Two callers (agent and owner) use one reducer, interleaved at the yields of a
  generator, and SIGINT can raise between any two of its lines.
* A method makes two journal writes; the second may fail, or the process dies
  between them.
* Actions are *returned* by the reducer and remembered only in local variables
  of the caller; an overwritten variable is a lost input.
* Tool workers cancel, background, ask questions and end concurrently with the
  owner.
* Restores and migrations touch many files and must be recoverable.
* One record is written by several threads, or as a file and as a journal that
  is allowed to fail.
* What the user sees on the screen is edited, moved and wrapped while he types.
* Several processes share one home directory, with leases on a wall clock.

`PROJECT.json` "hazards" lists them one by one, at their lines, with the
properties that would catch them.

## 2. Modules

| Module | Models | Composes |
|---|---|---|
| `SessionLedger` | abstract: what the event journal promises its readers | - |
| `SessionController` | `core/controller.py` and the projection of its journal | refines `SessionLedger` |
| `ManagedTurn` | `Agent._run_managed` and `Session._turn_managed` / `run_actions` | extends `SessionController` |
| `PlainTurn` | `Agent.run`: the loop of `zylab -p`, of children, of consultations | - |
| `ContextWindow` | plans, cuts and passes of a compaction, the breaker, what is sent | - |
| `ToolPermission` | who allows a call: settings, risk, mode, grants, questions | - |
| `Goal` | the record of a goal with its revisions, reservation of rounds | - |
| `TaskManager` | the registry of tool runs, its worker threads, the owner's drains | - |
| `TaskRun` | one task: its process group, signals, questions | - |
| `TaskOutput` | its bytes: redaction, artifact, ring, pages | - |
| `CheckpointRestore` | prepared writes, path locks, restore transactions, recovery | - |
| `RewindCommand` | `/rewind` with the audit of each of its steps | - |
| `SessionStore` | leases, the canonical write and its catalog, the session switch | - |
| `ShadowJournal` | the JSON record beside its journal in `state.db`, branches of both | - |
| `LegacyImport` | the import of version 1 into a new database | - |
| `HomeMove` | a state directory that was moved or copied | - |
| `ChildAgents` | record and inbox of a child, its run, its monitor threads | - |
| `Workflow` | one workflow: driver, nodes, budget, the owner's commands | extends `ChildAgents` |
| `ModelRoute` | requests over one route: fallbacks, retries, traces, circuit | - |
| `ProviderStream` | a request on a worker thread, its queue and cancellation | - |
| `ModelCatalog` | evidence about a route, of several processes | - |
| `ArchitectureMap` | generations of the map of a repository, lock, user notes | - |
| `MemoryStore` | the memories of a project, one file of several terminals | - |
| `SideNotes` | recaps and memories asked for beside a live session | - |
| `Composer` | the input box: key thread, draft, queue, modals | - |
| `Picker` | a panel over a list that changes | - |
| `InlineScreen` | `TerminalRenderer`: composer below the scrollback | - |
| `AppScreen` | `--app`: full screen, wrapping, selection, resizes | - |
| `TurnView` | what a turn draws: `core/thinking.py`, Markdown's buffers, blocks, the end | - |
| `MC*` | values for TLC; `MCParts`, `MCStores`, `MCEnds` and `MCSessionController` check several modules in one run | see section 3 |
| `*Proofs` | theorems, section 4 | extend the module they are named after; `RequestProofs` four small ones, `StoresProofs` six |

`SessionController`, `TaskManager`, `ToolPermission` and the others are models of
parts that call each other in the code; they are composed where an order of two
of them can go wrong (`ManagedTurn`, `Workflow`), and each assumes of the rest
what its own comment names. A module's header says what it leaves out.

### SessionController

One action per public method. A method first appends to the journal, then
changes its fields; an exception raised by the append leaves everything
unchanged and is therefore no step. Methods that end a turn make a second
write, the dispatch of the next queued input; with `JournalMayFail` that one
may be lost while the first stays (`DispatchReady`, `DispatchSteer`). The
journal is kept as its projection: per input, turn, request, tool call and
question, how far its events got. `Restart` builds a new reducer from it, at
REPL start-up (which dispatches) or by `/resume` (which does not).

Abstracted: texts, arguments, timestamps; `command` and `shell` are one kind
`local`; ids are model values that are fresh when used; inputs are numbered in
enqueue order (the table sorts by wall clock, which is assumed monotonic).
`TOOL_RUNNING_BACKGROUND` is declared in the code and never entered.

### ManagedTurn

`pc` is where the generator stands; `YieldPoints` are the only places at which
the owner handles keys, because both run on one thread. `hand` holds the input
of the last action a reducer call returned and nobody has acted on: the local
variables `action`, `next_action` and `_late_actions` of the code. `messages`
is the set of user inputs in the transcript. A tool's run is the pair of
`StartCall` and `EndCall`, between which keys, the task registration and the
tool's own question may happen. SIGINT is a KeyboardInterrupt at
any yield or between two calls; it needs an outside sender because the raw
terminal delivers Ctrl+C as a key.

`interrupted` remembers it, for the properties that hold until then. A journal
write that fails (`JournalMayFail`) raises in the caller and nothing before the
REPL catches it: `JournalFails` is the first write of a call, `After` finds that
the second one was lost, and both end at `crashed`.

Left out: goal rounds (`Goal`), modals (opened only when idle), exit, restarts
(in `SessionController`), the order of the calls of a batch.

### TaskManager

`job[t]` is the TaskHandle of one tool call and `kept`, `foreground`,
`preCancel` are the registry's `_tasks`, `_foreground_id` and
`_pending_cancel`. A worker thread is `ready` (started), `runner` (in the
tool), `ending` (its status chosen, `finish()` not yet called), `pruning` and
`gone`: between any two of these the main thread may cancel, put the task in
the background or drain. `main` is where the main thread stands: in the
generator `run` of a call (`call`, `started`, `loop`, `ended`), in the turn
between calls, at an idle prompt, in a drain (`back` says where it goes on) or
in the shutdown. `handoff` is the session's terminal gate, `prompts` the queue
of results that become turns of their own.

SIGINT is a KeyboardInterrupt at a point of the turn, not inside a drain or a
shutdown. `JoinTimesOut` lets a worker outlive the bounded join; `orphaned`
remembers that one did. The handing of
results to the model is assumed to be switched on.

Left out: the processes a tool runs, their signals and its questions
(`TaskRun`), what it prints (`TaskOutput`), the index of artifacts.

### CheckpointRestore

Actors are threads or processes that write or restore; each writes in a turn,
hence a checkpoint, of its own, because the writes of one turn run one by one
(only `bash` can be put in the background). `file` is the workspace as
[content, inode], `manifest[c][p]` the row of a checkpoint (`before`,
`expected`, `pending`), `txn[t]` a restore journal, `trash[t][p]` what it moved
away, `lock` the flocks. `pc` follows one operation: `gate` (list incomplete
transactions), `recLock` and `recRow` (recover one of them), `lock` (take the
paths of the operation), then `rename` and `complete` for a write, or `row`,
`swap`, `copied` and `unlink` for a restore. The last comparison of a file and
its rename are two steps, and so are copy and unlink when the trash is on
another filesystem (`crossDevice`). A crash may come anywhere; an I/O error in
the rows of a restore starts its compensation, and one inside a recovery is a
failure of its row. The user edits and deletes files at any time without locks.

No operating system offers a compare-and-rename, so an edit that falls exactly
between the last comparison and the rename is overwritten; `UserContentKept`
excepts that window by name and nothing else. Contents are unique per write, so
equality of contents is equality of SHA-256. The start is a session whose
earlier turn modified or created every file.

`wrote[c]` is history, the contents that the turn of checkpoint `c` has put into
files, and `mine[p]` the last content the user saved.

Left out: file modes, the checks of parent directories and symbolic links,
temporary copies, previews, and `/rewind`'s conversation branch
(`RewindCommand`, `ShadowJournal`).

### SessionStore

`file[s]` is the canonical record, `lease[s]` the lease file (`fresh`: heard of
in the last 30 seconds), `index` and `dirty` the catalog and its marker. Per
process, `run` is the session of the agent and the messages it has, `cur` and
`pend` are `_leased_session_id` and `_pending_session_leases`, `pc` is where a
command stands: `acquire`, `load`, `save`, `swap`, `commit`, `release`, `undo` of
a switch, `marked`, `replaced`, `indexed` of a write, `fork` before the branch is
written. `remote` says which processes are on the other host: a lease of the own
host is judged by whether its process lives, that of another by its heartbeat.
`Lapse` is a heartbeat that stays away for longer than that, of a process that
is asleep as well as of one that died.

Left out: damaged lease and record files and their repair, messages removed by
rewind or compaction, the choice of a working directory, checkpoint audits,
legacy migration (`LegacyImport`), the state database kept beside the records
(`ShadowJournal`), and a `--resume` that its user cancels, which goes on in a
new session.

### Goal

`goal` is the record in memory, `saved` the one in the session file, `rows` the
queue rows of goal rounds; `armed` is the process-local activation that a
restart clears. A reservation charges the record, saves it, writes the row and
hands it out (`step`), and may fail or be cut off between any two. A round that
was reserved before the definition changed is dropped when it is taken up and
its verdict ignored. Left out: objectives, evidence, usage, and what else is in
the queue.

### ToolPermission

`request` is the prepared call with its stage; arguments are those the hooks
left. `settings` are two files merged by rule, `records[s]` the grants in the
session's record, `always` those in memory. `given` is history: what the user
gave and has not taken back, `trusted` the sessions in which the user let calls
leave the sandbox; the code has one flag for all of them, `unsandboxed`, whose
use is an action of its own (`UseApproval`). The analysis that calls a command risky is an
input, as is the boundary the host offers.

### ChildAgents and Workflow

A child's record is locked for one read or one update at a time, so a step is
what lies between two such sections; the workflow's record likewise. `driver` is
the scheduling thread, `cmd` the command the main thread is in; a command that
reads, waits and then writes is two actions, and so is a launch (spawn, then
the row of the node). A slot counts in all and for the gateway a child was
spawned on; a plan has a limit on its nodes and requests, a child one on its
requests. A process may crash or close; another one recovers.

### ModelRoute and ProviderStream

`ModelRoute` has one step per transaction of the metrics database: the
fallbacks and retries of `stream_chat`, the trace of every attempt, and the
circuit that is replayed when attempts are committed out of order. Time counts
units of the shortest circuit. `ProviderStream` opens one attempt: a daemon
thread blocked in the network, the bounded queue it fills, the reader, and the
two steps of a cancel (mark under the lock, shut down outside of it).

### Screen and input

`Composer`, `Picker`, `InlineScreen` and `AppScreen` model what the two threads of
the interface share. A text is a short sequence of cells; a folded paste is its
placeholder and number. `InlineScreen` computes what the escape sequences do to
a grid that wraps late, which is what the renderer counts on.

`TurnView` is the loop of `_turn_managed`, and that of `turn`, over the events of
the agent: `filter` is the `ThinkFilter`, `page` the buffers, the tracker of
thoughts and the screen (cells that are a character or a block), `told` the calls
whose result was shown as a plan or a workflow, `outcome` the end. Where Markdown
holds back a tail, and when a flush is due, is left open. `marks` and `since` are
history.

### What lies on the disk

`ShadowJournal`, `RewindCommand`, `LegacyImport`, `HomeMove`, `ArchitectureMap`,
`ModelCatalog`, `MemoryStore` and `SideNotes` have one action per file that is
replaced or transaction that is committed, a crash or a failing write between
any two, and readers or writers in other processes where the code allows them.

## 3. Runs

| Run | Question | Bounds |
|---|---|---|
| `controller` | do the reducer's invariants and the ledger hold under any caller? by itself: is each end of a background task reported once and final? and by themselves: eight parts of what lies on the disk (next table) | 2 inputs, 2 turns, 2 requests, 2 calls, 1 question; second writes fail, restarts. 2 tasks, history of 1, joins that give up. The parts: see `MCStores` |
| `turn` | agent and owner at the yields: is the next reducer call always accepted, is a request only sent with all that was delivered, is nothing dropped until SIGINT; do turns and cancels end, do queued inputs run? | as the reducer in `controller`; journal writes fail, no restarts |
| `turn_repl` | can a key end the REPL? **Yes** | 1 input |
| `turn_steer` | does what is typed with Enter join the turn it was typed in? **Not if the turn fails first** | 2 inputs, 1 call |
| `checkpoints` | is a restore all or nothing and always recoverable, is nothing of the user's destroyed, does every operation end? | 2 actors, 2 files, 2 operations, 2 faults, 1 edit |
| `sessions` | is a message ever lost, does the agent run what its process has leased however a switch ends, does the catalog follow the records? | 2 processes on one host or two, 2 sessions, 1 new message, 3 commands, 1 fault, 1 missed heartbeat |
| `workflow` | are slots counted and attempts bounded, does the driver feed on reports only, is nobody left behind by a crash or a close? | 3 nodes (a chain of two and one added), 3 children, 2 at a time but 1 on a gateway, 3 requests, 1 command, 1 end of the process |
| `ends` | does every driver end, an accepted cancel close its workflow, Esc end the worker of a request; do cancelled tasks end and background results reach the model; is a complete answer whole? | 2 nodes, 1 command; a stream of 2 attempts over a queue of 1; 2 tasks, history of 1, no SIGINT |
| `parts` | twelve parts of a session, each by itself (next table) | see the cfg |
| `approval` | is an approval to leave the sandbox used in the session it was given for only? **No** | 2 sessions of a process |
| `paste` | is a folded paste sent as what was pasted? **Not always** | 1 child, 1 paste |
| `memory_stray` | do memories stay with their project? **No** | 2 chats, 1 job |

Some properties are conjunctions; the parts are named and commented in their
modules, and each can be checked alone by naming it in the `.cfg`.

| Property | Is |
|---|---|
| `TurnConsistent` | `TurnTypeOK`, `CallsAccepted`: no reducer call of the agent raises |
| `NothingIsLost` | until SIGINT or a journal that cannot be written: `WorkIsHeld`, `NoStrandedInput` (but for a steer whose turn is over, which `turn_steer` shows), `ClosedTurnsSettled` |
| `ChildrenAreBounded` | types, `SlotsCoverWorkers` (in all and for each gateway), `SpawnsBounded` |
| `EndsAreReported` | types, one call in the slot, each end reported once, after its call and before the exit |
| `WorkIsRecoverable` | `AlwaysRecoverable` (restores), `OwnWritesRestorable` (writes) |
| `ConsentHolds` | types, `GrantsAreConsented`, `RunsWithConsent` |
| `RoundsAreAllowed` | types, `RoundsAreCharged`, `OnlyWithConsent` |
| `ContextIsSound` | `ContextIsWhole`, `FailuresAreRationed` (`ContextWindow`) |
| `InputIsMeant` | `InputIsHandled` (`Composer`), `PickIsMeant` (`Picker`) |
| `TasksAreWhole` | `OutputIsWhole` (`TaskOutput`), `TaskEndsClean` (`TaskRun`) |
| `ScreenIsTrue` | `OutputIsKept` (`InlineScreen`), `AppScreenIsTrue` (`AppScreen`), `TurnIsShown` (`TurnView`): `TextIsKept`, `EachMessageIsSplit`, `ThoughtsComeFirst`, `BlocksInOrder`, `OutcomeIsTrue` |
| `StepsAreSound` | `RetriesAreSound` (`ModelRoute`), `RoundIsCurrent` (`Goal`) |
| `MovesAreWhole` | `PathsFollowHome` (`HomeMove`), `ImportIsWhole` (`LegacyImport`) |
| `HistoryIsHonest` | `BranchIsFaithful` (`ShadowJournal`), `RewindIsHonest` (`RewindCommand`) |
| `NotesAreSound` | `ArchitectureIsSound`, `EvidenceIsHonest`, `MemoriesAreKept`, `NotesAreCurrent` |

### Bounds

Two inputs are the least with which a queue has an order and a second turn
exists; more inputs than turns would leave the last one queued for lack of an
id. Two calls make a batch with a rest. Two requests let a compaction precede a
chat request. Ids are consumed and never reused, so every behaviour is finite
and ends when they are used up; the runs therefore do not check deadlock. Ids are
only compared for equality: `ControllerBound` lets the first of each kind be used
first, which drops behaviours that differ in names alone.

Two tasks let a background task end while a foreground call runs, which is what
the slot, the gate and the history have to keep apart; with a history of one the
second end already prunes. Two files make a restore that is half done, two
operations a second actor that meets it, and two faults a recovery that is
itself cut off. One message and one missed heartbeat are enough for a save to
overwrite what another process has saved, three commands for a session to be
changed between two commands of another process.

In the workflow, two slots of which one gateway gives one let a driver be held
back by either limit, and three nodes with three requests are the least with
which a node can be added to a plan of two up to its limits. `ends` has no added
node and no crash, because nobody promises that a dead process goes on.

In `parts` and `controller` a behaviour picks one part and only that one moves;
the parts share no variable, so the union of their behaviours is all there is to
see. `ContextWindow` (plans, passes), `Composer` (drafts, modals), `PlainTurn`
(calls, gates), `ModelCatalog` (verdicts, limits), `SideNotes` (recap, extraction)
and `TurnView` (text, blocks) are looked at twice, each time with the other
concern held still. Gates are looked at with two kinds of fan-out, so that one
answer may follow the refusal of both. The tags of `TurnView` have three
characters and begin and end alike, so that each can be cut everywhere and taken
for the other; four or five events hold a thought, its end, a call with its
result, and text around it.

A directory is moved twice between three places, one of which begins like
another, as does a path beside it; two processes start in it at once, but one
at a time once it was in the third place (`HomeBound`). Two threads write recaps
and two draw memories, with everything else between the answer of one and its
effect. The `...Bound` definitions of `MCParts` and `MCStores` and `MCInit` say what
is cut, with the reason at each.

### Fairness

`FairTurnSpec` has weak fairness on the agent (a `for` loop drives the
generator until it ends; streams and tool runs end, the former by timeout, the
latter by their own limit or by cancel), on the answer to an open picker, and
on `run_actions`. No fairness is given to keys: nobody has to type. Its liveness
properties except SIGINT and the REPL that has crashed (see `turn_repl`).

`TaskFairness` has weak fairness on every worker step but `WorkerChange`
(threads run; a tool returns because `bash` has a timeout and a cancelled
process is killed), on the steps of a drain, on the join and on the dispatch of
a prompt. `Agent` and `IdleDrain` have strong fairness because a drain at a yield
disables them for a moment again and again: the code resumes the generator
after each drain, and an idle prompt drains whenever its user pauses.

`FairSpec` of `CheckpointRestore` has weak fairness on the steps of each actor
(a blocked flock is granted when free); none on faults, edits or new
operations. `FairSpec` of `SessionStore` has weak fairness on the steps of a
command that a process has begun: its main thread does nothing else until the
command ends. `Fairness` of `Workflow` has it on the driver's loop, on each
child's threads, and on the use of the budget (`UseUp`: the clock runs);
`StreamFairness` on the steps of the worker thread and of the reader, none of
which waits for the network. No fairness is given to users, networks, heartbeats or
faults.

## 4. Proofs

What is proved holds for every value of the constants that satisfies the
assumption of the module (`ConstantsAssumption`, `TaskAssumption`, ...): any number
of inputs, turns, calls, tasks, files, actors, crashes and edits. The
assumptions only give the constants their types and keep `None` apart from ids.
No theorem assumes more than that.
`PROJECT.json` lists the theorems.

| Module | Theorems |
|---|---|
| `SessionControllerProofs` | `Typed`, `JournalHolds`, `ProtocolHolds`; `JournalIsLegal`: the reducer implements the ledger |
| `ManagedTurnProofs` | `UsesTheReducer`, `TurnProtocol`, `CallsStayLegal`, `RequestsSeeEveryInput`, `WorkIsNeverLost` |
| `TaskManagerProofs` | `EndsReported`, `OutcomesFinal` |
| `RequestProofs` | `RunsOnlyWithConsent` (`ToolPermission`), `RetriesRunOut` (`ModelRoute`), `CompleteAnswersAreWhole` (`ProviderStream`), `RoundsStayAllowed` and `RoundsAreOfTheirDefinition` (`Goal`) |
| `StoresProofs` | `PathsStayHome` (`HomeMove`), `ImportsAreWhole` (`LegacyImport`); `MovesStayWhole`: these two together; `MemoriesHold` (`MemoryStore`), `CatalogHolds` (`ModelCatalog`), `NotesHold` (`SideNotes`), `ArchitectureHolds` (`ArchitectureMap`); `NotesStaySound`: the last four together |
| `CheckpointRestoreProofs` | `TypesAndLocks`, `WritesAvoidTorn`, `RestoreAllOrNothing`, `WorkRecoverable`, `UserContentIsKept` |
| `SessionStoreProofs` | `StoreHolds`, `MessagesStay` |
| `WorkflowProofs` | `ChildrenStayBounded`, `NobodyStaysForgotten`, `ReportsStayWithDependents` |

None of these is inductive as it stands. Each proof has one lemma per action or
group of actions, and an invariant that says what the code relies on without
saying it. TLC checked each of them on the instance of the run before it was
proved.

* **Reducer.** `IInv` adds to the properties: the tool slots are disjoint and
  only filled in the states that use them, a request is open only in
  MODEL_STREAMING with all slots empty (or in EXITING), the live turn is open in
  the log (`Phase`), and ids that were not used have no log entry (`History`).
* **Ledger.** The same invariant is all the refinement needs: what the reducer
  holds in memory is what the journal shows to be open, so every write takes a
  legal edge of the ledger, alone or with the dispatch that follows it in the
  same method.
* **Agent and owner.** `TurnSpec => Spec`: every step of the two is a step of the
  reducer or leaves it alone, so all of the above holds of them. `TurnInv` says
  where the agent stands against the reducer (`Standing`), that the action in
  the hand is the live one (`HandIsLive`), and that every input of the open turn
  is in the transcript or in the hand (`AllHeard`). `CallsStayLegal` and
  `RequestsSeeEveryInput` hold with failing writes and SIGINT. `WorkIsNeverLost` holds
  until one of the two, which its property says: a write that fails takes the REPL
  down before anybody looks at what was left (`After`). It leaves out a steer whose
  turn is over, and no more; that such a steer exists is the finding of `turn_steer`.
* **Tasks.** `TaskInv` = `EndsAreReported`, `Slots` (calls are numbered in order,
  where the open one stands), `Workers` (which threads are busy) and `Reports`
  (which ends are on their way, and by which of the two threads).
* **Consent.** `ConsentInv` adds that the call being decided is well formed: only
  a Bash call asks to leave the sandbox, so that `Execute`, which looks at Bash
  calls only, misses none. Outside the sandbox the theorem speaks of a consent to
  this call or of the standing approval of the process; that the latter was given
  in the same session is not so (`approval`), and is not claimed.
* **Attempts of a request.** `RetryInv` says of each request what it may still do:
  before an attempt and between two there is no text and a retry left, in one
  only its own text. `FailureCosts` is then the case analysis of `AfterFailure`.
  The proof assumes what the client's fixed list gives, that the parameters are
  finitely many and none is called like the outcome that is retried.
* **Items of a stream.** `StreamInv` counts them: while the turn reads, what came is
  with the turn, in the queue, in that order, or one in the thread's hand
  (`Held`); an error may stand for an item; and the end of the stream is the last
  in the queue, with nothing missing before it. That the turn takes nothing for
  complete after Esc is in the loop, which looks at the flag first.
* **Goal rounds.** Memory and file part company when a save fails; `KeptOnDisk`
  bounds how far, and `Reservation` says what is true between the steps of a
  reservation. With both, a row that survived a crash may be run without a new
  charge.
* **Sessions of several processes.** The properties speak of processes that
  wait; `StoreInv` follows a command through its steps: where the session it
  came from is (`Switch`), that whoever has a lease has read all there is
  (`Reads`), and that a record on its way to the disk contains what is there, more
  than that only under the lease, and archives nothing that somebody runs
  (`Writes`). That stays so until it is written, because a lease is only taken
  under the lock of its session, which the writer holds. `Newborn` says
  that nobody else knows the id of a branch that is not written yet, and
  `OthersKept` that the step of one process leaves all of this to the others.
* **Locks of checkpoints.** `NoWriteIntoTorn` speaks of every transaction while
  locks speak of paths. `IInv` adds who owns what: from `ReadTxn` or `Plan` to its
  last status a transaction is worked on by one actor that holds the locks of
  exactly its paths (`Owns`), a lock is only held by an operation that wants it
  and a critical step has them all (`Holds`), each place has the locals it counts
  on (`Place`), and no transaction is without rows (`Rows`). An actor changes only
  transactions on paths it has locked, and two actors never hold one path
  (`OthersKept`).
* **Contents of files.** Three invariants over `IInv`. `AtomInv`: rows done have
  their before-image and the others what was planned, on the way forward and
  back; two transactions that may have to be recovered share no path.
  `ContentInv`: for each path there is a set of contents that may still come
  back (`Chain`: those of the file, the trash and the open transactions); each of
  them that a turn wrote is in the row of that turn, and behind it lies the
  before-image of the row, which is older. That a recovery after a recovery
  after a crashed write still ends at something restorable is this chain.
  `KeptInv`: a file about to be replaced is not the user's or is a before-image,
  and before-images are never replaced. The proof never uses the disjunct
  `trash` of `UserContentKept`: content of the user's is not moved there.
* **Workflows.** `Children` is inductive by itself, whatever a workflow does with
  its children: what a worker relies on at each pc (`Standing`), who looks after
  its inbox (`Watch`), and that its generations never pass the messages sent
  (`Numbers`). `Flow` adds what driver and main thread rely on: the tables of the
  driver are empty wherever it may leave (`Places`), a holder of a slot is in one
  table only and every first run is one (`Slots`), those of a gateway are among them
  (`GatewaysFreed`), a node that may still be
  launched has an attempt left, counting the row that is not written yet
  (`Counts`), and a launched node has no report while all it depends on have
  theirs, even if a cancel was written over its row (`Reports`). `Counts` bounds
  the spawns, `Owner` says who drives. A restart keeps `InputsAreReports` because what it
  puts back is closed under dependents (`BelowUpward`), or is one node whose
  dependents are queued or cancelled.

* **Moved directory.** While `.location` could be written, a file names the place,
  the path in `.location`, or the other path it is about (`PathsAreKnown`), and a
  process that rewrites does so from what `.location` says, with the file in its
  hand as it read it (`IsAtHome`). `PathsStayHome` holds for any number of processes
  at once, any paths and any moves. What the code does not promise is in the history
  `excused` and so in the statement: a file the user was told of, one that named a
  longer path beginning like the place before, one rewritten for a place that was
  left before it was recorded, and one saved inside the rewriting of another process.
* **Legacy import.** Who is at work on the temporary database holds the lock.
  `ImportedSoFar` says of an import without errors that every source it is done
  with is there, whole, and no older than when the import began;
  `SpoiledIsWritten`, that what could not be read is the last version or an old
  one, so that a later write of a session cannot make good what was read badly.
* **Memories, catalogue.** What a terminal or a client has in hand is the danger:
  it was read before and is written now. `WritersAreCurrent` says that a terminal
  that writes under the lock has read the file as it is, and `ChangesAreMeant` that
  an extraction goes to no key of an entry that was written by hand;
  `ClientsAreHonest`, that the verdict a probe holds was observed and the context
  it holds is one the model takes.
* **Side notes.** Any thread may move between an answer and its effect. A turn that
  begins there makes the recap late, and the end of an old extraction there takes
  away the handle of the next one; `raced` remembers both and the property says so.
  `FailuresAreLeft` bounds the failures by the limit and those still on their way,
  `JobsAreAlone` says that one extraction asks at a time, and who can stop it.
* **Architecture map.** `AloneInv` holds until a build overlapped another: at most
  one builder is under the lock and no two builds have one number
  (`BuildersAreApart`), an answer that was paid for is in the cache
  (`AnswersAreCached`), a note is in the current generation or its node was gone in
  one since it was written (`NotesArePlaced`), and what a builder under the lock has
  read is the cache, the pointer and the notes as they are (`IsSoundBuild`). It needs
  a text to exist (`TextsAssumption`).

### Only model-checked

Liveness under fairness (`TurnAndCancelEnd`, `QueuedWorkRuns`, `CancelEnds`,
`ResultReachesModel`, `OpsEnd`, `SwitchEnds`, `WorkflowEnds`, `EscEndsWorker`): the
prover has no rule for WF, SF or ENABLED that would carry these. Results that depend
on recursion over data (what the renderer does to a grid, how a journal is replayed,
how text is redacted across chunks, what `TurnView` shows of it) need induction that
the installed provers cannot instantiate.

The other invariants of the runs have been checked but not proved: of
`RouteConsistent` the circuit is a replay over sets of attempts, `PlainTurnIsWhole`
orders batches with `SelectSeq`, and most parts of `MCParts` and `MCStores` compute
with sequences of cells, messages and rows. `TaskEndsClean` and `RewindIsHonest` have
no constants that matter: TLC's run is exhaustive.

## 5. What the runs found

`PROJECT.json` "findings" quotes both sides of the five disagreements that have a
run: a line typed between two calls ends the REPL (`ReplSurvives`), a steer
outlives its failed turn (`SteerJoinsItsTurn`), an approval to leave the sandbox
crosses sessions (`ApprovalStaysInSession`), a folded paste is sent as its
placeholder (`FoldedPasteIsSent`), memories are kept with the project that is open
when they arrive (`MemoriesStayHome`).

### Known disagreements without a run

Met while modelling; the lines say what happens. Where a property meets one of
these, it names the exception, and the model contains it.

* Turns and keys: arguments that are no JSON in the first call a turn looks at
  raise UnboundLocalError out of the generator (agent.py:2695; comment 2596-2599;
  the place `broken` of `ManagedTurn`). After SIGINT a delivered steer can raise at
  the prompt (zylab.py:6476), and the terminal gate stays shut (zylab.py:6343;
  README:567). `run()` uses `prepared` unbound on one path (agent.py:4045).
* Fan-out: one answer authorizes every batch that was refused before it, each of
  them once (agent.py:4370), while the comment speaks of one matching batch
  (agent.py:3615-3617). `FanOutIsAgreed` takes the question to have been about all
  that was refused, and allows no more than each of it once.
* Thoughts: one `ThinkFilter` is made per turn (zylab.py:5727, 6526) and fed all
  its messages, so the `<think>` of a message after the first visible text is
  shown as text, and a thought left open swallows the next message
  (core/thinking.py:6 "永远不混进 assistant 正文", 21 "只认**消息开头**").
  `EachMessageIsSplit` excepts the turns with such a message, and no others; in
  those, `TextIsKept` still says that nothing is lost or shown twice. `turn` never
  calls `finish`, so `zylab -p` loses what the filter held. A steer's prompt is
  drawn above the last result of the batch it follows (zylab.py:6111, 6367).
* Permissions: tools in `SAFE` run despite a deny rule (agent.py:2757, 4112;
  README:172, tools.py:54); `RunsWithConsent` excepts them by kind.
* Input box: a search kept open across a switch of the roster mixes drafts
  (tui.py:3340–3356; README:994). Keys of the picker are handled outside its lock
  (tui.py:3660–3690).
* Screen: a stream that stops exactly at the right margin is continued in the
  wrong place (tui.py:6846; comment 6849–6850; `StopsAtEdge`). With wide characters
  `--app` copies other cells than it marks (views.py:215; README:968). A resize
  that arrives inside the wrapping leaves lines of the old width or takes posted
  text twice. The properties of `InlineScreen` and `AppScreen` except these by name.
* Tasks: the repository context is stale when the model is told of a task
  (tasks.py:1836; 483–486). Processes that leave the group by setsid survive
  (README:383). Redaction is only complete when no secret is a prefix of
  another.
* Provider: the last retry can be used up by a rejected option and the stream
  then ends without a word (client.py:1659; 1642, 1695). A refresh of the
  catalogue overwrites a context size that was measured and leaves its label
  (models.py:956); `MeasuredFits` knows the figure of the catalogue from a
  measured one.
* Side notes: an old extraction's end clears the cancel handle of the next one
  (zylab.py:4030), failures are counted per process and can exceed three by one for
  each request under way, and its watermark is not reset by `/new`, `/resume`,
  `/rewind` (zylab.py:3988). A recap that arrives late tells of an earlier state
  (away_recap.py:258; README:515).
* Children and workflows: a late pause leaves a workflow that nobody drives
  (workflows.py:2013; README:727). A cancel that a pause or close overtakes is
  forgotten, `cancel_node` reads and then acts (2189), a message to a worker just
  cancelled is stranded (agents.py:1152), a letter is delivered again after a
  sink failed (agents.py:610), and the child of a crashed owner is polled for
  ever (agents.py:1207).
  The requests of a child are counted in the workflow's events, of which it
  keeps the last 256 (workflows.py:856, 921): a child may pass its limit once
  older ones are gone. A child that is resumed after a run whose last save failed
  is not modelled (agents.py:508).
* Files: the architecture map's stale lock can be taken by two builders, of which
  the second removes the live one's lock ("one live writer"; `OneLiveWriter` says
  when). A portable home moved back is not rewritten (homemigrate.py:78;
  README:229), and of two processes that start after a move the later puts a path
  back into a file that a session has saved since it was read (homemigrate.py:244);
  text that begins like the old place is rewritten too (244). A rewind whose
  screen fails after the branch was committed is told as failed (zylab.py:9342,
  8809; docstring 9085-9091); `RewindIsHonest` names it.

## 6. Plan

Done: every module of section 2, their runs, and the theorems of section 4.

Next: what a replay leaves of a circuit (`RouteConsistent`), once an induction over
it can be stated. The theorems about one component share a module, and those of
small ones another, so that the number of proof modules stays small.

## 7. Not modelled

Consultations (a record written once by one thread), the Windows layer, and
packaging; of the modelled parts, what each module's header leaves out: the
texts of prompts and summaries, previews, wire formats, key decoding, Markdown
and highlighting, usage accounting, the parsing of settings, recipes, commands
and skills, the effects of tools on files and processes, and the code graph
behind the repository map. `PROJECT.json` names the rest per component.
