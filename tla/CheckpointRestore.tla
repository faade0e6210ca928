------------------------- MODULE CheckpointRestore --------------------------
(***************************************************************************)
(* core/checkpoints.py: files changed by zylab with a durable before-image *)
(* (capture, execute), and the restore of a checkpoint as a journalled     *)
(* transaction that anybody completes backwards after a crash.  Actors are *)
(* threads or processes of one home directory and one workspace; the user  *)
(* edits the files with other programs, which take no lock.                *)
(*                                                                         *)
(* A content is a number; 0 is no file.  Left out: file modes, blobs       *)
(* (written before any row or journal that names them), temporary copies,  *)
(* checks of parent directories and symbolic links, the progress noted per *)
(* row, which nobody reads, and the limit of eight attempts, which is not  *)
(* reached here.  The statuses `prepared' and `mutating' are one.          *)
(***************************************************************************)
EXTENDS Naturals, FiniteSets, FiniteSetsExt

CONSTANTS
    MaxPaths,       \* bound: files of the workspace
    Actors,         \* what may write or restore, each in a turn of its own
    OldTurn,        \* an earlier turn
    MaxOps,         \* bound: operations begun
    MaxFaults,      \* bound: crashes and I/O errors
    MaxEdits        \* bound: changes by the user

Paths == 1..MaxPaths        \* in the order in which they are locked
Txns == 1..MaxOps           \* restore transactions, oldest first
None == 0
Turns == Actors \cup {OldTurn}  \* the checkpoints; a turn writes one by one

ASSUME CheckpointAssumption ==
    /\ MaxPaths \in Nat \ {0} /\ MaxOps \in Nat
    /\ MaxFaults \in Nat /\ MaxEdits \in Nat
    /\ OldTurn \notin Actors /\ None \notin Turns

VARIABLES
    file,           \* per path: content and inode
    trash,          \* per transaction and path: what was moved away
    manifest,       \* per checkpoint and path: the row, or NoRow
    txn,            \* the restore journals
    lock,           \* the path locks (flock)
    pc, op,         \* per actor: where it stands, and its locals
    crossDevice,    \* is the trash on another filesystem?
    stamp,          \* contents and inodes made so far
    ops, faults, edits,
    \* History:
    mine,           \* per path: the user's last content, see UserContentKept
    wrote,          \* per checkpoint: the contents that were written in it
    disturbed       \* per transaction: paths the user changed since it began

disk == <<file, trash, manifest, txn>>
history == <<mine, wrote, disturbed>>
bounds == <<crossDevice, ops, faults, edits>>
vars == <<disk, lock, pc, op, stamp, bounds, history>>

NoFile == [data |-> 0, ino |-> 0]
NoRow == [before |-> 0, expected |-> 0, pending |-> 0, known |-> FALSE]
NoPlan == [action |-> "none", data |-> 0, ino |-> 0, result |-> 0]
NoOp == [kind |-> "none", path |-> 1, turn |-> OldTurn, prep |-> NoFile,
         after |-> 0, wanted |-> {}, txn |-> 0, listed |-> {}, todo |-> {},
         failed |-> FALSE, own |-> FALSE]

Incomplete == {"mutating", "recovering", "recovery_conflict"}
RowPaths(t) == {p \in Paths : txn[t].rows[p].action # "none"}
KnownPaths(c) == {p \in Paths : manifest[c][p].known}

\* _incomplete_transactions_affecting_paths
Torn(paths) ==
    \E t \in Txns : txn[t].status \in Incomplete /\ RowPaths(t) \cap paths # {}

-----------------------------------------------------------------------------
(* Steps of an actor: locks, and the ends of an operation *)

Unlocked(a) == [p \in Paths |-> IF lock[p] = a THEN None ELSE lock[p]]
Goto(a, to) == pc' = [pc EXCEPT ![a] = to]
Local(a, r) == op' = [op EXCEPT ![a] = r]

\* The operation returns or raises: _path_locks releases what it holds.
EndOp(a) ==
    /\ Goto(a, "idle") /\ Local(a, NoOp)
    /\ lock' = Unlocked(a)

\* Faulty variant: transactions are not looked for again.
RetryFaulty(a) ==
    /\ Goto(a, "lock") /\ UNCHANGED op
    /\ lock' = Unlocked(a)

\* `continue' of the attempts: release, and look for transactions again.
Retry(a) ==
    /\ Goto(a, "gate") /\ Local(a, [op[a] EXCEPT !.wanted = {}])
    /\ lock' = Unlocked(a)

\* _path_locks: in the order of the paths.
NextLock(a) == Min({p \in op[a].wanted : lock[p] # a})
Locked(a) == \A p \in op[a].wanted : lock[p] = a

Lock(a) ==
    /\ pc[a] \in {"lock", "recLock"}
    /\ ~Locked(a)
    /\ lock[NextLock(a)] = None
    /\ lock' = [lock EXCEPT ![NextLock(a)] = a]
    /\ UNCHANGED <<disk, pc, op, stamp, bounds, history>>

-----------------------------------------------------------------------------
(* recover_incomplete_transactions, before every critical section *)

\* The next transaction of the list, or the paths of the operation itself,
\* for a restore those of its manifest.
Advance(a, listed) ==
    LET r == [op[a] EXCEPT !.listed = listed, !.txn = 0] IN
    IF listed # {}
    THEN /\ Goto(a, "recLock")
         /\ Local(a, [r EXCEPT !.txn = Min(listed),
                              !.wanted = RowPaths(Min(listed))])
    ELSE /\ Goto(a, "lock")
         /\ Local(a, [r EXCEPT !.wanted =
               IF r.kind = "restore" THEN KnownPaths(r.turn) ELSE {r.path}])

List(a) ==
    /\ pc[a] = "gate"
    /\ Advance(a, {t \in Txns : txn[t].status \in Incomplete})
    /\ UNCHANGED <<disk, lock, stamp, bounds, history>>

SetStatus(t, status) == txn' = [txn EXCEPT ![t].status = status]

\* With all locks of the transaction held it is read again.
ReadTxn(a) ==
    LET t == op[a].txn IN
    /\ pc[a] = "recLock" /\ Locked(a)
    /\ IF txn[t].status \in Incomplete
       THEN /\ SetStatus(t, "recovering")
            /\ Goto(a, "recRow")
            /\ Local(a, [op[a] EXCEPT !.todo = RowPaths(t)])
            /\ UNCHANGED lock
       ELSE /\ Advance(a, op[a].listed \ {t})
            /\ lock' = Unlocked(a)
            /\ UNCHANGED txn
    /\ UNCHANGED <<file, trash, manifest, stamp, bounds, history>>

-----------------------------------------------------------------------------
(* _recover_restore_transaction_locked: row by row, back to the start *)

\* The row cannot be taken back without destroying a change of the user.
Conflict(t, p) ==
    LET r == txn[t].rows[p]
        f == file[p].data
        aside == trash[t][p].data
    IN
    IF r.data = 0 THEN f # 0
    ELSE IF f = 0 THEN r.action # "trash" \/ aside # r.data
    ELSE \/ ~(f = r.data \/ (r.action = "restore" /\ f = r.result))
         \/ aside \notin {0, r.data}

RowDone(a) == [op[a] EXCEPT !.todo = @ \ {Max(@)}]
RowFailed(a) == [RowDone(a) EXCEPT !.failed = TRUE]

\* The row is looked at; a row that has to change is changed in a later step.
RecoverRow(a) ==
    LET t == op[a].txn
        p == Max(op[a].todo)
        r == txn[t].rows[p]
    IN
    /\ pc[a] = "recRow" /\ op[a].todo # {}
    /\ \/ /\ Conflict(t, p)
          /\ Local(a, RowFailed(a))
          /\ UNCHANGED <<trash, pc>>
       \/ /\ ~Conflict(t, p)
          /\ IF file[p].data = r.data
             THEN /\ trash' = [trash EXCEPT ![t][p] = NoFile]
                  /\ Local(a, RowDone(a))
                  /\ UNCHANGED pc
             ELSE Goto(a, "recSwap") /\ UNCHANGED <<trash, op>>
    /\ UNCHANGED <<file, manifest, txn, lock, stamp, bounds, history>>

\* The rename: the snapshot replaces the result, or the trash comes back.
\* From another filesystem it comes back as a copy.
RecoverSwap(a) ==
    LET t == op[a].txn
        p == Max(op[a].todo)
        r == txn[t].rows[p]
        moved == r.action = "trash" /\ ~crossDevice
    IN
    /\ pc[a] = "recSwap"
    /\ file' = [file EXCEPT ![p] =
          IF moved THEN trash[t][p] ELSE [data |-> r.data, ino |-> stamp + 1]]
    /\ stamp' = IF moved THEN stamp ELSE stamp + 1
    /\ IF r.action = "trash" /\ crossDevice
       THEN Goto(a, "recUnlink") /\ UNCHANGED <<trash, op>>
       ELSE /\ trash' = [trash EXCEPT ![t][p] = NoFile]
            /\ Goto(a, "recRow") /\ Local(a, RowDone(a))
    /\ UNCHANGED <<manifest, txn, lock, bounds, history>>

RecoverUnlink(a) ==
    /\ pc[a] = "recUnlink"
    /\ trash' = [trash EXCEPT ![op[a].txn][Max(op[a].todo)] = NoFile]
    /\ Goto(a, "recRow") /\ Local(a, RowDone(a))
    /\ UNCHANGED <<file, manifest, txn, lock, stamp, bounds, history>>

\* An I/O error is a failure of its row.
RecoverFails(a) ==
    /\ pc[a] \in {"recRow", "recSwap", "recUnlink"} /\ op[a].todo # {}
    /\ faults < MaxFaults /\ faults' = faults + 1
    /\ Goto(a, "recRow") /\ Local(a, RowFailed(a))
    /\ UNCHANGED <<disk, lock, stamp, crossDevice, ops, edits, history>>

\* The last status.  After a conflict, and after the failure of its own
\* restore, the operation raises.
RecoverEnd(a) ==
    LET t == op[a].txn IN
    /\ pc[a] = "recRow" /\ op[a].todo = {}
    /\ SetStatus(t, IF op[a].failed THEN "recovery_conflict" ELSE "rolled_back")
    /\ IF op[a].failed \/ op[a].own THEN EndOp(a)
       ELSE Advance(a, op[a].listed \ {t}) /\ lock' = Unlocked(a)
    /\ UNCHANGED <<file, trash, manifest, stamp, bounds, history>>

-----------------------------------------------------------------------------
(* A write: prepare, capture_prepared, execute_prepared *)

\* The content is shown and approved; it is bound to the file it was made for.
Prepare(a) ==
    /\ pc[a] = "idle"
    /\ ops < MaxOps /\ ops' = ops + 1
    /\ \E p \in Paths :
          Local(a, [NoOp EXCEPT !.kind = "capture", !.path = p,
                      !.turn = a, !.prep = file[p], !.after = stamp + 1])
    /\ stamp' = stamp + 1
    /\ wrote' = [wrote EXCEPT ![a] = @ \cup {stamp + 1}]
    /\ Goto(a, "gate")
    /\ UNCHANGED <<disk, lock, crossDevice, faults, edits, mine, disturbed>>

\* Faulty variant: a later write of the turn does not look at the chain.
CapturedFaulty(a) ==
    LET r == manifest[op[a].turn][op[a].path]
        now == op[a].prep.data
    IN
    IF r.known THEN {[r EXCEPT !.expected = now, !.pending = op[a].after]}
    ELSE {[before |-> now, expected |-> now, pending |-> op[a].after,
           known |-> TRUE]}

\* The row after the capture, if the chain of writes of the turn is whole: the
\* file is as the last write left it, or as an unfinished one would have.
Captured(a) ==
    LET r == manifest[op[a].turn][op[a].path]
        now == op[a].prep.data
        last == IF r.pending # 0 /\ now = r.pending THEN now ELSE r.expected
    IN
    IF ~r.known
    THEN {[before |-> now, expected |-> now, pending |-> op[a].after,
           known |-> TRUE]}
    ELSE IF now # last THEN {}
    ELSE {[r EXCEPT !.expected = last, !.pending = op[a].after]}

Capture(a) ==
    LET p == op[a].path IN
    /\ pc[a] = "lock" /\ Locked(a) /\ op[a].kind = "capture"
    /\ \/ Torn({p}) /\ Retry(a) /\ UNCHANGED manifest
       \/ /\ ~Torn({p})
          /\ file[p] # op[a].prep \/ Captured(a) = {}
          /\ EndOp(a) /\ UNCHANGED manifest
       \/ /\ ~Torn({p}) /\ file[p] = op[a].prep
          /\ \E r \in Captured(a) :
                manifest' = [manifest EXCEPT ![op[a].turn][p] = r]
          /\ Goto(a, "gate")
          /\ Local(a, [op[a] EXCEPT !.kind = "execute", !.wanted = {}])
          /\ lock' = Unlocked(a)
    /\ UNCHANGED <<file, trash, txn, stamp, bounds, history>>

\* Faulty variant: a transaction that was cut off is not looked for.
ExecuteFaulty(a) ==
    /\ pc[a] = "lock" /\ Locked(a) /\ op[a].kind = "execute"
    /\ IF file[op[a].path] # op[a].prep THEN EndOp(a)
       ELSE Goto(a, "rename") /\ UNCHANGED <<op, lock>>
    /\ UNCHANGED <<disk, stamp, bounds, history>>

\* assert_prepared_unchanged; the file is compared once more before the rename.
Execute(a) ==
    /\ pc[a] = "lock" /\ Locked(a) /\ op[a].kind = "execute"
    /\ IF Torn({op[a].path}) THEN Retry(a)
       ELSE IF file[op[a].path] # op[a].prep THEN EndOp(a)
       ELSE Goto(a, "rename") /\ UNCHANGED <<op, lock>>
    /\ UNCHANGED <<disk, stamp, bounds, history>>

Rename(a) ==
    /\ pc[a] = "rename"
    /\ file' = [file EXCEPT ![op[a].path] =
                   [data |-> op[a].after, ino |-> stamp + 1]]
    /\ stamp' = stamp + 1
    /\ Goto(a, "complete")
    /\ UNCHANGED <<trash, manifest, txn, lock, op, bounds, history>>

\* _complete_prepared; raises when the pending content is not its own.
Complete(a) ==
    LET r == manifest[op[a].turn][op[a].path] IN
    /\ pc[a] = "complete"
    /\ manifest' = IF r.pending # op[a].after THEN manifest
                   ELSE [manifest EXCEPT ![op[a].turn][op[a].path] =
                           [r EXCEPT !.expected = op[a].after, !.pending = 0]]
    /\ EndOp(a)
    /\ UNCHANGED <<file, trash, txn, stamp, bounds, history>>

-----------------------------------------------------------------------------
(* restore *)

BeginRestore(a) ==
    /\ pc[a] = "idle"
    /\ ops < MaxOps /\ ops' = ops + 1
    /\ \E c \in Turns :
          /\ KnownPaths(c) # {}
          /\ Local(a, [NoOp EXCEPT !.kind = "restore", !.turn = c])
    /\ Goto(a, "gate")
    /\ UNCHANGED <<disk, lock, stamp, crossDevice, faults, edits, history>>

\* plan_restore, one path.
PlanAction(c, p) ==
    LET r == manifest[c][p]
        f == file[p].data
    IN
    IF f = r.before THEN "noop"
    ELSE IF f = 0 \/ f \notin {r.expected, r.pending} THEN "conflict"
    ELSE IF r.before = 0 THEN "trash" ELSE "restore"

IsNext(t) ==
    /\ txn[t].status = "none"
    /\ \A u \in 1..(t - 1) : txn[u].status # "none"

\* With all locks held: the plan, and the journal of the transaction.
Plan(a) ==
    LET c == op[a].turn
        rows == [p \in Paths |->
                   IF p \notin KnownPaths(c) THEN NoPlan ELSE
                   [action |-> PlanAction(c, p), data |-> file[p].data,
                    ino |-> file[p].ino, result |-> manifest[c][p].before]]
        kinds == {rows[p].action : p \in KnownPaths(c)}
    IN
    /\ pc[a] = "lock" /\ Locked(a) /\ op[a].kind = "restore"
    /\ \/ /\ Torn(op[a].wanted) \/ KnownPaths(c) # op[a].wanted
          /\ Retry(a) /\ UNCHANGED txn
       \/ /\ ~Torn(op[a].wanted) /\ KnownPaths(c) = op[a].wanted
          /\ "conflict" \in kinds \/ kinds \subseteq {"noop"}
          /\ EndOp(a) /\ UNCHANGED txn
       \/ /\ ~Torn(op[a].wanted) /\ KnownPaths(c) = op[a].wanted
          /\ "conflict" \notin kinds /\ ~(kinds \subseteq {"noop"})
          /\ \E t \in Txns :
                /\ IsNext(t)
                /\ txn' = [txn EXCEPT ![t] =
                              [status |-> "mutating", rows |-> rows]]
                /\ Local(a, [op[a] EXCEPT !.txn = t, !.todo = KnownPaths(c)])
          /\ Goto(a, "row")
          /\ UNCHANGED lock
    /\ UNCHANGED <<file, trash, manifest, stamp, bounds, history>>

\* Faulty variant: the rows are taken back without the locks.
CompensateFaulty(a) ==
    /\ SetStatus(op[a].txn, "recovering")
    /\ Goto(a, "recRow")
    /\ Local(a, [op[a] EXCEPT !.todo = RowPaths(op[a].txn), !.own = TRUE,
                             !.wanted = {}])

\* The exception handler of restore: the transaction is taken back at once.
Compensate(a) ==
    /\ SetStatus(op[a].txn, "recovering")
    /\ Goto(a, "recRow")
    /\ Local(a, [op[a] EXCEPT !.todo = RowPaths(op[a].txn), !.own = TRUE])

AsPlanned(a, p) ==
    LET r == txn[op[a].txn].rows[p] IN
    file[p] = [data |-> r.data, ino |-> r.ino]

\* One row: the file must be as it was planned.
RestoreRow(a) ==
    LET p == Min(op[a].todo) IN
    /\ pc[a] = "row" /\ op[a].todo # {}
    /\ IF ~AsPlanned(a, p) THEN Compensate(a)
       ELSE IF txn[op[a].txn].rows[p].action = "noop"
       THEN Local(a, [op[a] EXCEPT !.todo = @ \ {p}]) /\ UNCHANGED <<txn, pc>>
       ELSE Goto(a, "swap") /\ UNCHANGED <<txn, op>>
    /\ UNCHANGED <<file, trash, manifest, lock, stamp, bounds, history>>

RowRestored(a) ==
    Goto(a, "row") /\ Local(a, [op[a] EXCEPT !.todo = @ \ {Min(@)}])

\* Faulty variant: a created file is removed, not moved.
SwapFaulty(a) ==
    LET t == op[a].txn
        p == Min(op[a].todo)
        r == txn[t].rows[p]
    IN
    /\ pc[a] = "swap"
    /\ IF r.action = "restore"
       THEN /\ file' = [file EXCEPT ![p] =
                           [data |-> r.result, ino |-> stamp + 1]]
            /\ stamp' = stamp + 1
       ELSE file' = [file EXCEPT ![p] = NoFile] /\ UNCHANGED stamp
    /\ RowRestored(a)
    /\ UNCHANGED <<trash, manifest, txn, lock, bounds, history>>

\* The rename: the before-image replaces the file, or the file goes to the
\* trash; to another filesystem it is copied first.
Swap(a) ==
    LET t == op[a].txn
        p == Min(op[a].todo)
        r == txn[t].rows[p]
    IN
    /\ pc[a] = "swap"
    /\ IF r.action = "restore" THEN
          /\ file' = [file EXCEPT ![p] = [data |-> r.result, ino |-> stamp + 1]]
          /\ stamp' = stamp + 1
          /\ RowRestored(a)
          /\ UNCHANGED <<trash, txn>>
       ELSE IF file[p] = NoFile THEN
          Compensate(a) /\ UNCHANGED <<file, trash, stamp>>
       ELSE
          /\ trash' = [trash EXCEPT ![t][p] = file[p]]
          /\ IF crossDevice
             THEN Goto(a, "copied") /\ UNCHANGED <<file, op>>
             ELSE file' = [file EXCEPT ![p] = NoFile] /\ RowRestored(a)
          /\ UNCHANGED <<txn, stamp>>
    /\ UNCHANGED <<manifest, lock, bounds, history>>

\* The source of the copy is compared again before it is unlinked.
Copied(a) ==
    /\ pc[a] = "copied"
    /\ IF AsPlanned(a, Min(op[a].todo))
       THEN Goto(a, "unlink") /\ UNCHANGED <<txn, op>>
       ELSE Compensate(a)
    /\ UNCHANGED <<file, trash, manifest, lock, stamp, bounds, history>>

Unlink(a) ==
    /\ pc[a] = "unlink"
    /\ file' = [file EXCEPT ![Min(op[a].todo)] = NoFile]
    /\ RowRestored(a)
    /\ UNCHANGED <<trash, manifest, txn, lock, stamp, bounds, history>>

\* Faulty variant: committed with a row still to do.
CommitFaulty(a) ==
    /\ pc[a] = "row" /\ Cardinality(op[a].todo) <= 1
    /\ SetStatus(op[a].txn, "committed")
    /\ EndOp(a)
    /\ UNCHANGED <<file, trash, manifest, stamp, bounds, history>>

Commit(a) ==
    /\ pc[a] = "row" /\ op[a].todo = {}
    /\ SetStatus(op[a].txn, "committed")
    /\ EndOp(a)
    /\ UNCHANGED <<file, trash, manifest, stamp, bounds, history>>

\* An I/O error in any of these steps, the commit included.
RestoreFails(a) ==
    /\ pc[a] \in {"row", "swap", "copied", "unlink"}
    /\ faults < MaxFaults /\ faults' = faults + 1
    /\ Compensate(a)
    /\ UNCHANGED <<file, trash, manifest, lock, stamp, crossDevice, ops, edits,
                   history>>

-----------------------------------------------------------------------------
\* The process dies, or an error outside of the rows ends the operation; the
\* kernel releases the locks.
Crash(a) ==
    /\ pc[a] # "idle"
    /\ faults < MaxFaults /\ faults' = faults + 1
    /\ EndOp(a)
    /\ UNCHANGED <<disk, stamp, crossDevice, ops, edits, history>>

\* Between the last comparison and the rename nothing protects the file.
InWindow(p) ==
    \E a \in Actors :
        \/ pc[a] = "rename" /\ op[a].path = p
        \/ pc[a] \in {"swap", "copied", "unlink"} /\ p = Min(op[a].todo)
        \/ pc[a] = "recSwap" /\ p = Max(op[a].todo)

\* The user saves or deletes the file with another program.
UserEdit(p) ==
    /\ edits < MaxEdits /\ edits' = edits + 1
    /\ \/ /\ file' = [file EXCEPT ![p] =
                         [data |-> stamp + 1, ino |-> stamp + 1]]
          /\ mine' = [mine EXCEPT ![p] = IF InWindow(p) THEN 0 ELSE stamp + 1]
          /\ stamp' = stamp + 1
       \/ /\ file[p] # NoFile
          /\ file' = [file EXCEPT ![p] = NoFile]
          /\ mine' = [mine EXCEPT ![p] = 0]
          /\ UNCHANGED stamp
    /\ disturbed' = [t \in Txns |->
          IF txn[t].status = "none" THEN {} ELSE disturbed[t] \cup {p}]
    /\ UNCHANGED <<trash, manifest, txn, lock, pc, op, crossDevice, ops, faults,
                   wrote>>

-----------------------------------------------------------------------------
\* An earlier turn changed or created each file; before it the user's content
\* was p, after it MaxPaths + p.
Init ==
    /\ file = [p \in Paths |-> [data |-> MaxPaths + p, ino |-> MaxPaths + p]]
    /\ \E created \in SUBSET Paths :
          /\ manifest = [c \in Turns |-> [p \in Paths |->
                IF c # OldTurn THEN NoRow
                ELSE [before |-> IF p \in created THEN 0 ELSE p,
                      expected |-> MaxPaths + p, pending |-> 0,
                      known |-> TRUE]]]
          /\ mine = [p \in Paths |-> IF p \in created THEN 0 ELSE p]
    /\ trash = [t \in Txns |-> [p \in Paths |-> NoFile]]
    /\ txn = [t \in Txns |->
              [status |-> "none", rows |-> [p \in Paths |-> NoPlan]]]
    /\ lock = [p \in Paths |-> None]
    /\ pc = [a \in Actors |-> "idle"]
    /\ op = [a \in Actors |-> NoOp]
    /\ crossDevice \in BOOLEAN
    /\ stamp = 2 * MaxPaths
    /\ ops = 0 /\ faults = 0 /\ edits = 0
    /\ wrote = [c \in Turns |->
                  IF c = OldTurn THEN (MaxPaths + 1)..(2 * MaxPaths) ELSE {}]
    /\ disturbed = [t \in Txns |-> {}]

Step(a) ==
    \/ Lock(a) \/ List(a) \/ ReadTxn(a)
    \/ RecoverRow(a) \/ RecoverSwap(a) \/ RecoverUnlink(a) \/ RecoverEnd(a)
    \/ Capture(a) \/ Execute(a) \/ Rename(a) \/ Complete(a)
    \/ Plan(a) \/ RestoreRow(a) \/ Swap(a) \/ Copied(a) \/ Unlink(a)
    \/ Commit(a)

Begin(a) == Prepare(a) \/ BeginRestore(a)
Fault(a) == Crash(a) \/ RestoreFails(a) \/ RecoverFails(a)

Next ==
    \/ \E a \in Actors : Step(a) \/ Begin(a) \/ Fault(a)
    \/ \E p \in Paths : UserEdit(p)

Spec == Init /\ [][Next]_vars

\* Every operation is driven by a thread that runs.
FairSpec == Spec /\ \A a \in Actors : WF_vars(Step(a))

-----------------------------------------------------------------------------
(* Properties *)

Critical == {"recRow", "recSwap", "recUnlink", "rename", "complete",
             "row", "swap", "copied", "unlink"}
FileType == [data : Nat, ino : Nat]
RowType == [before : Nat, expected : Nat, pending : Nat, known : BOOLEAN]
PlannedRow == [action : {"none", "noop", "restore", "trash"},
               data : Nat, ino : Nat, result : Nat]
TxnType == [status : Incomplete \cup {"none", "rolled_back", "committed"},
            rows : [Paths -> PlannedRow]]
OpType == [kind : {"none", "capture", "execute", "restore"}, path : Paths,
           turn : Turns, prep : FileType, after : Nat, wanted : SUBSET Paths,
           txn : Nat, listed : SUBSET Txns, todo : SUBSET Paths,
           failed : BOOLEAN, own : BOOLEAN]

VarTypes ==
    /\ file \in [Paths -> FileType]
    /\ trash \in [Txns -> [Paths -> FileType]]
    /\ manifest \in [Turns -> [Paths -> RowType]]
    /\ txn \in [Txns -> TxnType]
    /\ lock \in [Paths -> Actors \cup {None}]
    /\ pc \in [Actors -> Critical \cup {"idle", "gate", "recLock", "lock"}]
    /\ op \in [Actors -> OpType]
    /\ stamp \in Nat

\* The types; a lock is only held by an operation that wants it, and whoever
\* changes a file, or takes a restore back, holds the locks of all its paths.
CheckpointTypeOK ==
    /\ VarTypes
    /\ \A a \in Actors, p \in Paths : lock[p] = a => p \in op[a].wanted
    /\ \A a \in Actors : pc[a] \in Critical => Locked(a)

\* Nothing of the user's is ever destroyed: his last content of a file is in
\* place, in the trash or a before-image, unless he saved it in the moment
\* between a comparison and the rename ("rather than overwrite").
UserContentKept ==
    \A p \in Paths :
        mine[p] # 0 =>
            \/ file[p].data = mine[p]
            \/ \E c \in Turns : manifest[c][p].before = mine[p]
            \/ \E t \in Txns : trash[t][p].data = mine[p]

\* Wherever a restore was cut off, and however often its recovery was, every
\* row that the user left alone can be taken back.
AlwaysRecoverable ==
    \A t \in Txns :
        txn[t].status \in Incomplete =>
            \A p \in RowPaths(t) \ disturbed[t] : ~Conflict(t, p)

\* Restore is all or nothing: at the commit every row has its before-image,
\* after a rollback every row has what it had at the start.
RestoreIsAtomic ==
    [][\A t \in Txns : \A p \in RowPaths(t) \ disturbed[t] :
        txn'[t].status # txn[t].status =>
          /\ txn'[t].status = "committed" =>
                file'[p].data = txn[t].rows[p].result
          /\ txn'[t].status = "rolled_back" =>
                /\ file'[p].data = txn[t].rows[p].data
                /\ trash'[t][p] = NoFile]_vars

\* No write lands on a file of a restore that was cut off: a recovery would
\* take it for a change of the user, or undo it.
NoWriteIntoTorn ==
    \A a \in Actors :
        pc[a] \in {"rename", "complete"} => ~Torn({op[a].path})

\* What zylab wrote, it can take back: a file with the content of a write of
\* some turn is always accepted by the restore of that turn, whether or not
\* the write was finished ("crash recovery unambiguous").
OwnWritesRestorable ==
    \A c \in Turns, p \in Paths :
        file[p].data \in wrote[c] => PlanAction(c, p) # "conflict"

\* What zylab began it can finish or take back: neither a crash in a restore nor
\* one in a write leaves a file that a later restore must refuse.
WorkIsRecoverable == AlwaysRecoverable /\ OwnWritesRestorable

\* Once no more begin, every operation ends: the path locks do not deadlock
\* and no attempt is repeated for ever.
OpsEnd == ops = MaxOps ~> \A a \in Actors : pc[a] = "idle"
=============================================================================
