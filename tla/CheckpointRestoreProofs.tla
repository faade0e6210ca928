----------------------- MODULE CheckpointRestoreProofs -----------------------
(***************************************************************************)
(* What holds of the files, for any number of actors, files, operations,   *)
(* crashes and edits.  CheckpointTypeOK and NoWriteIntoTorn come first.    *)
(* Their induction needs who owns a transaction: between ReadTxn or Plan   *)
(* and its last status, an actor holds the locks of exactly its paths, and *)
(* no two transactions that are worked on share a path.                    *)
(* The second half adds the contents: a restore is all or nothing and can  *)
(* be taken back wherever it was cut off, zylab can restore what it wrote, *)
(* and the user's last content is never destroyed.                         *)
(***************************************************************************)
EXTENDS CheckpointRestore, WellFoundedInduction, TLAPS

Owning == {"recRow", "recSwap", "recUnlink", "row", "swap", "copied", "unlink"}

\* What an actor relies on from its pc alone.
Place(a) ==
    /\ pc[a] \in {"idle", "gate"} => op[a].wanted = {}
    /\ \/ pc[a] = "lock" /\ op[a].kind # "restore"
       \/ pc[a] \in {"rename", "complete"}
       => op[a].wanted = {op[a].path}
    /\ pc[a] \in {"recSwap", "recUnlink", "swap", "copied", "unlink"} =>
           op[a].todo # {}

\* The locks of an actor are for what it wants; critical steps have them all.
Holds(a) ==
    /\ \A p \in Paths : lock[p] = a => p \in op[a].wanted
    /\ pc[a] \in Critical => Locked(a)

\* The transaction an actor works on, and those it has still to look at.
Owns(a) ==
    /\ \A t \in op[a].listed : txn[t].status # "none"
    /\ pc[a] \in Owning \cup {"recLock"} =>
          /\ op[a].txn \in Txns
          /\ txn[op[a].txn].status # "none"
          /\ op[a].wanted = RowPaths(op[a].txn)
    /\ pc[a] \in Owning => txn[op[a].txn].status \in Incomplete

Clear(a) == pc[a] \in {"rename", "complete"} => ~Torn({op[a].path})

ActorInv(a) == Place(a) /\ Holds(a) /\ Owns(a) /\ Clear(a)

\* No transaction is without rows.
Rows == \A t \in Txns : txn[t].status # "none" => RowPaths(t) # {}

IInv == VarTypes /\ Rows /\ \A a \in Actors : ActorInv(a)

THEOREM InvImpliesProperties == IInv => CheckpointTypeOK /\ NoWriteIntoTorn
BY Zenon DEF IInv, ActorInv, Holds, Clear, CheckpointTypeOK, NoWriteIntoTorn

-----------------------------------------------------------------------------
(* The least and the greatest element *)

LEMMA MinIsMember ==
    ASSUME NEW S \in SUBSET Nat, S # {}
    PROVE  Min(S) \in S /\ \A x \in S : Min(S) <= x
<1>1. PICK x \in S : \A y \in S : ~ (<<y, x>> \in OpToRel(<, Nat))
      <2>1. IsWellFoundedOn(OpToRel(<, Nat), Nat)
            BY Zenon, NatLessThanWellFounded
      <2> QED BY <2>1, WFMin, Zenon
<1>2. ASSUME NEW y \in S PROVE x =< y
      <2>1. <<y, x>> \in Nat \X Nat OBVIOUS
      <2>2. OpToRel(<, Nat) = {ss \in Nat \X Nat : ss[1] < ss[2]}
            BY Zenon DEF OpToRel
      <2>3. ~ (y < x)
            BY Zenon, <1>1, <2>1, <2>2
      <2> QED BY <2>3
<1> QED BY Zenon, <1>2 DEF Min

LEMMA MaxIsMember ==
    ASSUME NEW n \in Nat, NEW S \in SUBSET (1..n), S # {}
    PROVE  Max(S) \in S /\ \A x \in S : x <= Max(S)
<1> DEFINE D == {m \in Nat : \E x \in S : m = n - x}
<1>0. \A x \in S : x \in Nat /\ x <= n /\ n - x \in Nat
      OBVIOUS
<1>1. D \in SUBSET Nat /\ D # {}
      BY Zenon, <1>0
<1> HIDE DEF D
<1>2. Min(D) \in D /\ \A y \in D : Min(D) <= y
      BY <1>1, MinIsMember
<1>3. PICK x \in S : Min(D) = n - x
      BY Zenon, <1>2 DEF D
<1>4. \A y \in S : n - y \in D
      BY <1>0 DEF D
<1>5. ASSUME NEW y \in S PROVE x >= y
      <2>1. n - x <= n - y
            BY <1>2, <1>3, <1>4
      <2> QED BY <2>1, <1>0
<1> QED BY Zenon, <1>5 DEF Max

-----------------------------------------------------------------------------
(* What a step of one actor may do to the others *)

\* A step of a changes only transactions whose paths it has locked: it begins
\* one, or moves one on, never back to one that is to be recovered.
TxnFrame(a) ==
    \A t \in Txns :
        \/ txn'[t] = txn[t]
        \/ /\ Locked(a) /\ op[a].wanted # {}
           /\ RowPaths(t)' = op[a].wanted
           /\ txn'[t].status # "none"
           /\ \/ txn[t].status = "none"
              \/ /\ RowPaths(t) = op[a].wanted
                 /\ txn'[t].status \in Incomplete => txn[t].status \in Incomplete

\* It changes no place and no lock of another actor.
Alone(a) ==
    \A b \in Actors \ {a} :
        /\ pc'[b] = pc[b] /\ op'[b] = op[b]
        /\ \A p \in Paths : lock'[p] = b <=> lock[p] = b

Frame(a) == Alone(a) /\ TxnFrame(a)

\* The others keep what they rely on: they hold other paths.
LEMMA OthersKept ==
    ASSUME IInv, NEW a \in Actors, NEW b \in Actors \ {a},
           Frame(a), txn' \in [Txns -> TxnType]
    PROVE  ActorInv(b)'
<1>1. /\ ActorInv(b) /\ Rows /\ op[b].wanted \in SUBSET Paths
      /\ op[b].listed \in SUBSET Txns /\ op[b].path \in Paths
      BY DEF IInv, VarTypes, OpType
<1>2. /\ pc'[b] = pc[b] /\ op'[b] = op[b]
      /\ \A p \in Paths : lock'[p] = b <=> lock[p] = b
      BY DEF Frame, Alone
<1>3. Locked(b) = Locked(b)'
      BY <1>1, <1>2 DEF Locked
<1>4. Place(b)'
      BY <1>1, <1>2 DEF ActorInv, Place
<1>5. Holds(b)'
      BY <1>1, <1>2, <1>3 DEF ActorInv, Holds
<1>6. \A t \in Txns : txn[t].status # "none" =>
          txn'[t].status # "none" /\ RowPaths(t)' = RowPaths(t)
      BY DEF Frame, TxnFrame, RowPaths
<1>7. \A p \in Paths : lock[p] = a => lock[p] # b
      OBVIOUS
<1>8. Owns(b)'
      <2>1. ASSUME pc[b] \in Owning
            PROVE  txn'[op[b].txn] = txn[op[b].txn]
            <3> DEFINE t == op[b].txn
            <3>1. /\ t \in Txns /\ op[b].wanted = RowPaths(t) /\ Locked(b)
                  /\ txn[t].status # "none" /\ RowPaths(t) # {}
                  BY <1>1, <2>1 DEF ActorInv, Owns, Holds, Owning, Critical, Rows
            <3>2. CASE Locked(a) /\ RowPaths(t) = op[a].wanted
                  <4>1. PICK p \in Paths : p \in RowPaths(t)
                        BY <3>1, <1>1
                  <4> QED BY <4>1, <3>1, <3>2, <1>7 DEF Locked
            <3> QED BY <3>1, <3>2 DEF Frame, TxnFrame
      <2> QED BY <1>1, <1>2, <1>6, <2>1 DEF ActorInv, Owns, Owning
<1>9. Clear(b)'
      <2> SUFFICES ASSUME pc[b] \in {"rename", "complete"}, Torn({op[b].path})'
                   PROVE  FALSE
          BY <1>2 DEF Clear
      <2>1. Locked(b) /\ op[b].wanted = {op[b].path} /\ ~Torn({op[b].path})
            BY <1>1 DEF ActorInv, Holds, Place, Clear, Critical
      <2>2. PICK t \in Txns : /\ txn'[t].status \in Incomplete
                              /\ op[b].path \in RowPaths(t)'
            BY <1>2 DEF Torn
      <2>3. txn'[t] # txn[t]
            BY <2>1, <2>2 DEF Torn, RowPaths
      <2>4. Locked(a) /\ op[b].path \in op[a].wanted
            BY <2>2, <2>3 DEF Frame, TxnFrame
      <2> QED BY <2>1, <2>4, <1>1 DEF Locked
<1> QED BY <1>4, <1>5, <1>8, <1>9 DEF ActorInv

\* A step of a keeps the invariant if a keeps its own part.
LEMMA StepKeepsInv ==
    ASSUME IInv, NEW a \in Actors, Frame(a), VarTypes', ActorInv(a)'
    PROVE  IInv'
<1>1. Rows'
      BY DEF IInv, Rows, Frame, TxnFrame, RowPaths
<1>2. \A b \in Actors \ {a} : ActorInv(b)'
      BY OthersKept DEF VarTypes
<1> QED BY <1>1, <1>2 DEF IInv

-----------------------------------------------------------------------------
(* The ends of an operation, and its continuations *)

ActorTypes ==
    /\ lock \in [Paths -> Actors \cup {None}]
    /\ pc \in [Actors -> Critical \cup {"idle", "gate", "recLock", "lock"}]
    /\ op \in [Actors -> OpType]

LEMMA UnlockedFacts ==
    ASSUME VarTypes, NEW a \in Actors, lock' = Unlocked(a)
    PROVE  /\ lock' \in [Paths -> Actors \cup {None}]
           /\ \A p \in Paths : lock'[p] # a
           /\ \A b \in Actors \ {a}, p \in Paths : lock'[p] = b <=> lock[p] = b
<1>1. None \notin Actors
      BY CheckpointAssumption DEF Turns
<1> QED BY <1>1 DEF VarTypes, Unlocked

LEMMA NoOpType == NoOp \in OpType
<1>1. 1 \in Paths /\ OldTurn \in Turns
      BY CheckpointAssumption DEF Paths, Turns
<1> QED BY <1>1 DEF NoOp, OpType, FileType, NoFile

LEMMA EndOpOK ==
    ASSUME VarTypes, NEW a \in Actors, EndOp(a)
    PROVE  ActorTypes' /\ Alone(a) /\ ActorInv(a)'
<1>1. pc' = [pc EXCEPT ![a] = "idle"] /\ op' = [op EXCEPT ![a] = NoOp]
      BY DEF EndOp, Goto, Local
<1>2. pc'[a] = "idle" /\ op'[a] = NoOp
      BY <1>1 DEF VarTypes
<1>3. ActorTypes'
      BY <1>1, UnlockedFacts, NoOpType DEF EndOp, ActorTypes, VarTypes
<1>4. Alone(a)
      BY <1>1, UnlockedFacts DEF EndOp, Alone, VarTypes
<1>5. ActorInv(a)'
      <2>1. Place(a)'
            BY <1>2 DEF Place, NoOp
      <2>2. Holds(a)'
            BY <1>2, UnlockedFacts DEF EndOp, Holds, Critical
      <2>3. Owns(a)' /\ Clear(a)'
            BY <1>2 DEF Owns, Clear, Owning, NoOp
      <2> QED BY <2>1, <2>2, <2>3 DEF ActorInv
<1> QED BY <1>3, <1>4, <1>5

LEMMA RetryOK ==
    ASSUME IInv, NEW a \in Actors, Retry(a), txn' = txn
    PROVE  ActorTypes' /\ Alone(a) /\ ActorInv(a)'
<1> DEFINE r == [op[a] EXCEPT !.wanted = {}]
<1>0. VarTypes /\ ActorInv(a) /\ op[a] \in OpType
      BY DEF IInv, VarTypes
<1>1. pc' = [pc EXCEPT ![a] = "gate"] /\ op' = [op EXCEPT ![a] = r]
      BY DEF Retry, Goto, Local
<1>2. /\ r \in OpType /\ r.wanted = {} /\ r.listed = op[a].listed
      BY <1>0 DEF OpType
<1> HIDE DEF r
<1>3. pc'[a] = "gate" /\ op'[a] = r
      BY <1>0, <1>1 DEF VarTypes
<1>4. ActorTypes'
      BY <1>0, <1>1, <1>2, UnlockedFacts DEF Retry, ActorTypes, VarTypes
<1>5. Alone(a)
      BY <1>0, <1>1, UnlockedFacts DEF Retry, Alone, VarTypes
<1>6. ActorInv(a)'
      <2>1. Place(a)'
            BY <1>2, <1>3 DEF Place
      <2>2. Holds(a)'
            BY <1>0, <1>3, UnlockedFacts DEF Retry, Holds, Critical
      <2>3. Owns(a)' /\ Clear(a)'
            BY <1>0, <1>2, <1>3 DEF ActorInv, Owns, Clear, Owning
      <2> QED BY <2>1, <2>2, <2>3 DEF ActorInv
<1> QED BY <1>4, <1>5, <1>6

\* The recovery goes on with the next transaction, or with the operation.
LEMMA AdvanceOK ==
    ASSUME IInv, NEW a \in Actors, NEW listed \in SUBSET Txns,
           Advance(a, listed), txn' \in [Txns -> TxnType],
           lock' \in [Paths -> Actors \cup {None}],
           \A p \in Paths : lock'[p] # a,
           \A b \in Actors \ {a}, p \in Paths : lock'[p] = b <=> lock[p] = b,
           \A t \in Txns : txn'[t].rows = txn[t].rows,
           \A t \in listed : txn'[t].status # "none"
    PROVE  ActorTypes' /\ Alone(a) /\ ActorInv(a)'
<1> DEFINE first == Min(listed)
           rec == [op[a] EXCEPT !.listed = listed, !.txn = first,
                                !.wanted = RowPaths(first)]
           own == [op[a] EXCEPT !.listed = listed, !.txn = 0, !.wanted =
                     IF op[a].kind = "restore" THEN KnownPaths(op[a].turn)
                     ELSE {op[a].path}]
<1>0. VarTypes /\ op[a] \in OpType
      BY DEF IInv, VarTypes
<1>1. CASE listed # {}
      <2>1. first \in listed
            BY <1>1, MinIsMember DEF Txns
      <2> HIDE DEF first
      <2>2. pc' = [pc EXCEPT ![a] = "recLock"] /\ op' = [op EXCEPT ![a] = rec]
            BY Zenon, <1>0, <1>1 DEF Advance, Goto, Local, OpType, first
      <2>3. /\ rec \in OpType /\ rec.txn = first /\ rec.listed = listed
            /\ rec.wanted = RowPaths(first)
            <3>1. first \in Nat
                  BY <2>1, CheckpointAssumption DEF Txns
            <3>2. RowPaths(first) \in SUBSET Paths
                  BY DEF RowPaths
            <3> QED BY Zenon, <1>0, <3>1, <3>2 DEF OpType
      <2> HIDE DEF rec
      <2>4. pc'[a] = "recLock" /\ op'[a] = rec
            BY <1>0, <2>2 DEF VarTypes
      <2>5. ActorTypes'
            BY <1>0, <2>2, <2>3 DEF ActorTypes, VarTypes
      <2>6. Alone(a)
            BY <1>0, <2>2 DEF Alone, VarTypes
      <2>7. Place(a)' /\ Holds(a)' /\ Clear(a)'
            BY <2>4 DEF Place, Holds, Clear, Critical
      <2>8. Owns(a)'
            BY <2>1, <2>3, <2>4 DEF Owns, RowPaths, Owning
      <2> QED BY <2>5, <2>6, <2>7, <2>8 DEF ActorInv
<1>2. CASE listed = {}
      <2>2. pc' = [pc EXCEPT ![a] = "lock"] /\ op' = [op EXCEPT ![a] = own]
            BY <1>0, <1>2 DEF Advance, Goto, Local, OpType
      <2>3. /\ own \in OpType /\ own.listed = {}
            /\ own.kind # "restore" => own.wanted = {own.path}
            BY Zenon, <1>0, <1>2 DEF OpType, KnownPaths
      <2> HIDE DEF own
      <2>4. pc'[a] = "lock" /\ op'[a] = own
            BY <1>0, <2>2 DEF VarTypes
      <2>5. ActorTypes'
            BY <1>0, <2>2, <2>3 DEF ActorTypes, VarTypes
      <2>6. Alone(a)
            BY <1>0, <2>2 DEF Alone, VarTypes
      <2>7. Place(a)' /\ Holds(a)' /\ Clear(a)' /\ Owns(a)'
            BY <2>3, <2>4 DEF Place, Holds, Clear, Critical, Owns, Owning
      <2> QED BY <2>5, <2>6, <2>7 DEF ActorInv
<1> QED BY <1>1, <1>2

-----------------------------------------------------------------------------
(* A step within a transaction *)

Statuses == Incomplete \cup {"none", "rolled_back", "committed"}

LEMMA SetStatusFacts ==
    ASSUME VarTypes, NEW t \in Txns, NEW s \in Statuses, SetStatus(t, s)
    PROVE  /\ txn' \in [Txns -> TxnType]
           /\ txn'[t].status = s
           /\ \A u \in Txns : txn'[u].rows = txn[u].rows
           /\ \A u \in Txns \ {t} : txn'[u] = txn[u]
<1> DEFINE r == [txn[t] EXCEPT !.status = s]
<1>1. /\ r \in TxnType /\ r.status = s /\ r.rows = txn[t].rows
      BY DEF VarTypes, TxnType, Statuses
<1>2. txn' = [txn EXCEPT ![t] = r]
      BY DEF SetStatus
<1> HIDE DEF r
<1> QED BY <1>1, <1>2 DEF VarTypes

\* The status of a transaction is moved on by who holds its paths.
LEMMA StatusFrame ==
    ASSUME IInv, NEW a \in Actors, pc[a] \in Owning \cup {"recLock"}, Locked(a),
           NEW s \in Statuses \ {"none"}, SetStatus(op[a].txn, s),
           s \in Incomplete => txn[op[a].txn].status \in Incomplete
    PROVE  TxnFrame(a)
<1>1. PICK t \in Txns : t = op[a].txn
      BY DEF IInv, ActorInv, Owns
<1>2. VarTypes /\ SetStatus(t, s)
      BY <1>1 DEF IInv
<1>3. /\ op[a].wanted = RowPaths(t) /\ op[a].wanted # {}
      /\ s \in Incomplete => txn[t].status \in Incomplete
      BY <1>1 DEF IInv, ActorInv, Owns, Rows
<1>4. /\ txn'[t].status = s /\ txn'[t].rows = txn[t].rows
      /\ \A u \in Txns \ {t} : txn'[u] = txn[u]
      BY <1>2, SetStatusFacts
<1>5. RowPaths(t)' = RowPaths(t)
      BY <1>4 DEF RowPaths
<1> QED BY <1>3, <1>4, <1>5 DEF TxnFrame

LEMMA UnchangedFrame == ASSUME NEW a \in Actors, txn' = txn PROVE TxnFrame(a)
BY DEF TxnFrame

\* An actor goes from one place within a transaction to another.
LEMMA OwnerMoves ==
    ASSUME IInv, NEW a \in Actors, pc[a] \in Owning \cup {"recLock"}, Locked(a),
           NEW to \in Owning, NEW r \in OpType,
           pc' = [pc EXCEPT ![a] = to], op' = [op EXCEPT ![a] = r],
           lock' = lock,
           r.wanted = op[a].wanted, r.txn = op[a].txn, r.listed = op[a].listed,
           to \in {"recSwap", "recUnlink", "swap", "copied", "unlink"} =>
               r.todo # {},
           \A t \in Txns : /\ txn'[t].rows = txn[t].rows
                           /\ txn[t].status # "none" => txn'[t].status # "none",
           txn'[op[a].txn].status \in Incomplete
    PROVE  ActorTypes' /\ Alone(a) /\ ActorInv(a)'
<1>0. /\ VarTypes /\ ActorInv(a) /\ op[a] \in OpType
      /\ pc'[a] = to /\ op'[a] = r
      BY DEF IInv, VarTypes
<1>1. ActorTypes'
      BY <1>0 DEF ActorTypes, VarTypes, Owning, Critical
<1>2. Alone(a)
      BY <1>0 DEF Alone, VarTypes
<1>3. Place(a)'
      BY <1>0 DEF Place, Owning
<1>4. Holds(a)'
      BY <1>0 DEF ActorInv, Holds, Locked
<1>5. Owns(a)'
      <2>1. \A t \in op[a].listed : t \in Txns
            BY <1>0 DEF OpType
      <2>2. RowPaths(op[a].txn)' = RowPaths(op[a].txn)
            BY <1>0 DEF RowPaths, ActorInv, Owns
      <2> QED BY <1>0, <2>1, <2>2 DEF ActorInv, Owns, Incomplete
<1>6. Clear(a)'
      BY <1>0 DEF Clear, Owning
<1> QED BY <1>1, <1>2, <1>3, <1>4, <1>5, <1>6 DEF ActorInv

\* The same, in the words of the actions that leave the journals alone.
LEMMA OwnerGoesOn ==
    ASSUME IInv, NEW a \in Actors, pc[a] \in Owning,
           NEW to \in Owning, NEW r \in OpType,
           pc' = [pc EXCEPT ![a] = to], op' = [op EXCEPT ![a] = r],
           lock' = lock, txn' = txn,
           r.wanted = op[a].wanted, r.txn = op[a].txn, r.listed = op[a].listed,
           to \in {"recSwap", "recUnlink", "swap", "copied", "unlink"} =>
               r.todo # {}
    PROVE  ActorTypes' /\ Frame(a) /\ ActorInv(a)'
<1>1. Locked(a) /\ txn'[op[a].txn].status \in Incomplete
      BY DEF IInv, ActorInv, Holds, Owns, Owning, Critical
<1>2. ActorTypes' /\ Alone(a) /\ ActorInv(a)'
      BY Zenon, <1>1, OwnerMoves
<1> QED BY <1>2, UnchangedFrame DEF Frame

LEMMA CompensateOK ==
    ASSUME IInv, NEW a \in Actors, pc[a] \in {"row", "swap", "copied", "unlink"},
           Compensate(a), lock' = lock
    PROVE  ActorTypes' /\ Frame(a) /\ ActorInv(a)' /\ txn' \in [Txns -> TxnType]
<1> DEFINE t == op[a].txn
           r == [op[a] EXCEPT !.todo = RowPaths(t), !.own = TRUE]
<1>0. /\ VarTypes /\ op[a] \in OpType /\ t \in Txns /\ Locked(a)
      /\ txn[t].status \in Incomplete
      BY DEF IInv, VarTypes, ActorInv, Holds, Owns, Owning, Critical
<1>1. r \in OpType /\ r.wanted = op[a].wanted /\ r.txn = t
      /\ r.listed = op[a].listed
      <2>1. RowPaths(t) \in SUBSET Paths
            BY DEF RowPaths
      <2> QED BY Zenon, <1>0, <2>1 DEF OpType
<1>2. /\ SetStatus(t, "recovering")
      /\ pc' = [pc EXCEPT ![a] = "recRow"] /\ op' = [op EXCEPT ![a] = r]
      BY DEF Compensate, Goto, Local
<1> HIDE DEF r
<1>3. /\ txn' \in [Txns -> TxnType] /\ txn'[t].status = "recovering"
      /\ \A u \in Txns : txn'[u].rows = txn[u].rows
      /\ \A u \in Txns \ {t} : txn'[u] = txn[u]
      BY <1>0, <1>2, SetStatusFacts DEF Statuses, Incomplete
<1>4. TxnFrame(a)
      BY <1>0, <1>2, StatusFrame DEF Statuses, Incomplete, Owning
<1>5. ActorTypes' /\ Alone(a) /\ ActorInv(a)'
      <2>1. \A u \in Txns : txn[u].status # "none" => txn'[u].status # "none"
            BY <1>3
      <2>2. "recRow" \in Owning /\ pc[a] \in Owning \cup {"recLock"}
            /\ "recRow" \notin {"recSwap", "recUnlink", "swap", "copied", "unlink"}
            BY DEF Owning
      <2>3. txn'[t].status \in Incomplete
            BY <1>3 DEF Incomplete
      <2> QED BY Zenon, <1>0, <1>1, <1>2, <1>3, <2>1, <2>2, <2>3, OwnerMoves
<1> QED BY <1>3, <1>4, <1>5 DEF Frame

-----------------------------------------------------------------------------
(* The actions: locks and recovery *)

DiskTypes ==
    /\ file \in [Paths -> FileType]
    /\ trash \in [Txns -> [Paths -> FileType]]
    /\ manifest \in [Turns -> [Paths -> RowType]]
    /\ txn \in [Txns -> TxnType]
    /\ stamp \in Nat

StepOK(a) == DiskTypes' /\ ActorTypes' /\ Frame(a) /\ ActorInv(a)'

LEMMA StepOKKeepsInv ==
    ASSUME IInv, NEW a \in Actors, StepOK(a)
    PROVE  IInv'
<1>1. VarTypes'
      BY DEF StepOK, DiskTypes, ActorTypes, VarTypes
<1> QED BY <1>1, StepKeepsInv DEF StepOK

\* What the invariant says of the actor that moves.
LEMMA ActorFacts ==
    ASSUME IInv, NEW a \in Actors
    PROVE  /\ VarTypes /\ DiskTypes /\ ActorTypes /\ ActorInv(a)
           /\ op[a] \in OpType
           /\ pc[a] \in Critical => Locked(a)
           /\ pc[a] \in Owning => /\ op[a].txn \in Txns
                                  /\ txn[op[a].txn].status \in Incomplete
BY DEF IInv, VarTypes, DiskTypes, ActorTypes, ActorInv, Holds, Owns

LEMMA LeastPath ==
    ASSUME NEW S \in SUBSET Paths, S # {} PROVE Min(S) \in S
BY MinIsMember DEF Paths

LEMMA GreatestPath ==
    ASSUME NEW S \in SUBSET Paths, S # {} PROVE Max(S) \in S
BY MaxIsMember, CheckpointAssumption DEF Paths

LEMMA LockOK ==
    ASSUME IInv, NEW a \in Actors, Lock(a) PROVE StepOK(a)
<1> DEFINE p == NextLock(a)
<1>0. /\ VarTypes /\ DiskTypes /\ ActorTypes /\ ActorInv(a)
      /\ op[a] \in OpType /\ None \notin Actors
      BY ActorFacts, CheckpointAssumption DEF Turns
<1>1. p \in Paths /\ p \in op[a].wanted
      <2>1. {q \in op[a].wanted : lock[q] # a} \in SUBSET Paths
            BY <1>0 DEF OpType
      <2>2. {q \in op[a].wanted : lock[q] # a} # {}
            BY DEF Lock, Locked
      <2> QED BY <2>1, <2>2, LeastPath DEF NextLock
<1>2. /\ lock[p] = None /\ lock' = [lock EXCEPT ![p] = a]
      /\ pc' = pc /\ op' = op /\ txn' = txn /\ pc[a] \in {"lock", "recLock"}
      BY DEF Lock, disk
<1> HIDE DEF p
<1>3. DiskTypes' /\ ActorTypes'
      BY <1>0, <1>1, <1>2 DEF Lock, disk, DiskTypes, ActorTypes
<1>4. Frame(a)
      BY <1>0, <1>1, <1>2, UnchangedFrame DEF Frame, Alone, VarTypes
<1>5. Place(a)' /\ Owns(a)' /\ Clear(a)'
      BY <1>0, <1>2 DEF ActorInv, Place, Owns, Clear, RowPaths, Torn
<1>6. Holds(a)'
      BY <1>0, <1>1, <1>2 DEF ActorInv, Holds, VarTypes, Critical
<1> QED BY <1>3, <1>4, <1>5, <1>6 DEF StepOK, ActorInv

LEMMA ListOK ==
    ASSUME IInv, NEW a \in Actors, List(a) PROVE StepOK(a)
<1> DEFINE listed == {t \in Txns : txn[t].status \in Incomplete}
<1>0. VarTypes /\ DiskTypes /\ ActorInv(a)
      BY ActorFacts
<1>1. /\ Advance(a, listed) /\ pc[a] = "gate" /\ lock' = lock /\ txn' = txn
      /\ file' = file /\ trash' = trash /\ manifest' = manifest
      /\ stamp' = stamp
      BY DEF List, disk
<1>2. \A p \in Paths : lock[p] # a
      BY <1>0, <1>1 DEF ActorInv, Place, Holds
<1>3. \A t \in listed : txn[t].status # "none"
      BY DEF Incomplete
<1>4. listed \in SUBSET Txns
      OBVIOUS
<1> HIDE DEF listed
<1>5. ActorTypes' /\ Alone(a) /\ ActorInv(a)'
      BY <1>0, <1>1, <1>2, <1>3, <1>4, AdvanceOK DEF VarTypes
<1> QED BY <1>0, <1>1, <1>5, UnchangedFrame DEF StepOK, Frame, DiskTypes

LEMMA ReadTxnOK ==
    ASSUME IInv, NEW a \in Actors, ReadTxn(a) PROVE StepOK(a)
<1>0. /\ VarTypes /\ DiskTypes /\ ActorInv(a) /\ op[a] \in OpType
      /\ pc[a] = "recLock" /\ Locked(a)
      BY ActorFacts DEF ReadTxn
<1>1. PICK t \in Txns : t = op[a].txn
      BY <1>0 DEF ActorInv, Owns
<1>2. /\ file' = file /\ trash' = trash /\ manifest' = manifest
      /\ stamp' = stamp
      BY DEF ReadTxn
<1>3. CASE txn[t].status \in Incomplete
      <2> DEFINE r == [op[a] EXCEPT !.todo = RowPaths(t)]
      <2>1. /\ SetStatus(t, "recovering") /\ lock' = lock
            /\ pc' = [pc EXCEPT ![a] = "recRow"] /\ op' = [op EXCEPT ![a] = r]
            BY <1>1, <1>3 DEF ReadTxn, Goto, Local
      <2>2. /\ r \in OpType /\ r.wanted = op[a].wanted /\ r.txn = op[a].txn
            /\ r.listed = op[a].listed
            <3>1. RowPaths(t) \in SUBSET Paths
                  BY DEF RowPaths
            <3> QED BY <1>0, <3>1 DEF OpType
      <2> HIDE DEF r
      <2>3. /\ txn' \in [Txns -> TxnType] /\ txn'[t].status = "recovering"
            /\ \A u \in Txns : txn'[u].rows = txn[u].rows
            /\ \A u \in Txns \ {t} : txn'[u] = txn[u]
            BY <1>0, <2>1, SetStatusFacts DEF Statuses, Incomplete
      <2>4. TxnFrame(a)
            BY <1>0, <1>1, <1>3, <2>1, StatusFrame DEF Statuses, Incomplete
      <2>5. /\ "recRow" \in Owning /\ pc[a] \in Owning \cup {"recLock"}
            /\ "recRow" \notin
                   {"recSwap", "recUnlink", "swap", "copied", "unlink"}
            /\ txn'[op[a].txn].status \in Incomplete
            /\ \A u \in Txns :
                   txn[u].status # "none" => txn'[u].status # "none"
            BY <1>0, <1>1, <2>3 DEF Owning, Incomplete
      <2>6. ActorTypes' /\ Alone(a) /\ ActorInv(a)'
            BY Zenon, <1>0, <2>1, <2>2, <2>3, <2>5, OwnerMoves
      <2> QED BY <1>0, <1>2, <2>3, <2>4, <2>6 DEF StepOK, Frame, DiskTypes
<1>4. CASE txn[t].status \notin Incomplete
      <2>1. /\ Advance(a, op[a].listed \ {t}) /\ lock' = Unlocked(a)
            /\ txn' = txn
            BY <1>1, <1>4 DEF ReadTxn
      <2>2. op[a].listed \ {t} \in SUBSET Txns
            BY <1>0 DEF OpType
      <2>3. \A u \in op[a].listed \ {t} : txn[u].status # "none"
            BY <1>0 DEF ActorInv, Owns
      <2>4. ActorTypes' /\ Alone(a) /\ ActorInv(a)'
            BY <1>0, <2>1, <2>2, <2>3, UnlockedFacts, AdvanceOK DEF VarTypes
      <2> QED BY <1>0, <1>2, <2>1, <2>4, UnchangedFrame
              DEF StepOK, Frame, DiskTypes
<1> QED BY <1>3, <1>4

LEMMA ExceptTwice ==
    ASSUME NEW A, NEW B, NEW C, NEW f \in [A -> [B -> C]],
           NEW i, NEW j, NEW c \in C
    PROVE  [f EXCEPT ![i][j] = c] \in [A -> [B -> C]]
<1>1. CASE i \in A
      <2>1. [f[i] EXCEPT ![j] = c] \in [B -> C]
            BY Zenon, <1>1
      <2> QED BY <1>1, <2>1
<1>2. CASE i \notin A
      BY Zenon, <1>2
<1> QED BY <1>1, <1>2

LEMMA TrashTypes ==
    ASSUME VarTypes, NEW t, NEW p,
           \/ trash' = trash
           \/ trash' = [trash EXCEPT ![t][p] = NoFile]
           \/ trash' = [trash EXCEPT ![t][p] = file[p]] /\ p \in Paths
    PROVE  trash' \in [Txns -> [Paths -> FileType]]
<1>1. NoFile \in FileType
      BY DEF NoFile, FileType
<1>2. p \in Paths => file[p] \in FileType
      BY DEF VarTypes
<1>3. trash \in [Txns -> [Paths -> FileType]]
      BY DEF VarTypes
<1>4. \A f \in FileType :
          [trash EXCEPT ![t][p] = f] \in [Txns -> [Paths -> FileType]]
      BY <1>3, ExceptTwice, Zenon
<1> QED BY <1>1, <1>2, <1>3, <1>4

\* The locals after a row, done or failed.
LEMMA RowDoneFacts ==
    ASSUME NEW a \in Actors, op[a] \in OpType,
           NEW r \in {RowDone(a), RowFailed(a)}
    PROVE  /\ r \in OpType /\ r.wanted = op[a].wanted
           /\ r.txn = op[a].txn /\ r.listed = op[a].listed
<1> DEFINE S == op[a].todo \ {Max(op[a].todo)}
<1>1. S \in SUBSET Paths
      BY DEF OpType
<1>2. \/ r = [op[a] EXCEPT !.todo = S]
      \/ r = [[op[a] EXCEPT !.todo = S] EXCEPT !.failed = TRUE]
      BY DEF RowDone, RowFailed
<1> HIDE DEF S
<1> QED BY Zenon, <1>1, <1>2 DEF OpType

LEMMA RecoverRowOK ==
    ASSUME IInv, NEW a \in Actors, RecoverRow(a) PROVE StepOK(a)
<1>0. /\ VarTypes /\ DiskTypes /\ op[a] \in OpType /\ pc[a] = "recRow"
      /\ op[a].todo # {} /\ pc[a] \in Owning
      BY ActorFacts DEF RecoverRow, Owning
<1>1. /\ txn' = txn /\ file' = file /\ manifest' = manifest
      /\ stamp' = stamp /\ lock' = lock
      BY DEF RecoverRow
<1>2. trash' \in [Txns -> [Paths -> FileType]]
      BY <1>0, TrashTypes DEF RecoverRow
<1>3. \/ \E r \in {RowDone(a), RowFailed(a)} :
            pc' = pc /\ op' = [op EXCEPT ![a] = r]
      \/ pc' = [pc EXCEPT ![a] = "recSwap"] /\ op' = op
      BY DEF RecoverRow, Goto, Local
<1>4. CASE \E r \in {RowDone(a), RowFailed(a)} :
              pc' = pc /\ op' = [op EXCEPT ![a] = r]
      <2>1. PICK r \in {RowDone(a), RowFailed(a)} :
                pc' = pc /\ op' = [op EXCEPT ![a] = r]
            BY Zenon, <1>4
      <2>2. pc' = [pc EXCEPT ![a] = "recRow"]
            BY <1>0, <2>1 DEF VarTypes
      <2>3. r \in OpType /\ r.wanted = op[a].wanted /\ r.txn = op[a].txn
            /\ r.listed = op[a].listed
            BY <1>0, RowDoneFacts
      <2>4. ActorTypes' /\ Frame(a) /\ ActorInv(a)'
            BY Zenon, <1>0, <1>1, <2>1, <2>2, <2>3, OwnerGoesOn DEF Owning
      <2> QED BY <1>0, <1>1, <1>2, <2>4 DEF StepOK, DiskTypes
<1>5. CASE pc' = [pc EXCEPT ![a] = "recSwap"] /\ op' = op
      <2>1. op' = [op EXCEPT ![a] = op[a]]
            BY <1>0, <1>5 DEF VarTypes
      <2>2. ActorTypes' /\ Frame(a) /\ ActorInv(a)'
            BY Zenon, <1>0, <1>1, <1>5, <2>1, OwnerGoesOn DEF Owning
      <2> QED BY <1>0, <1>1, <1>2, <2>2 DEF StepOK, DiskTypes
<1> QED BY <1>3, <1>4, <1>5

\* What a recovery or a restore puts in the place of a file is a file.
LEMMA RowFacts ==
    ASSUME VarTypes, NEW t \in Txns, NEW p \in Paths
    PROVE  /\ trash[t][p] \in FileType /\ file[p] \in FileType
           /\ txn[t].rows[p].data \in Nat /\ txn[t].rows[p].result \in Nat
<1>1. txn[t] \in TxnType
      BY DEF VarTypes
<1>2. txn[t].rows[p] \in PlannedRow
      BY <1>1 DEF TxnType
<1> QED BY <1>2 DEF VarTypes, PlannedRow

LEMMA RecoverSwapOK ==
    ASSUME IInv, NEW a \in Actors, RecoverSwap(a) PROVE StepOK(a)
<1> DEFINE p == Max(op[a].todo)
           t == op[a].txn
<1>0. /\ VarTypes /\ DiskTypes /\ op[a] \in OpType /\ pc[a] \in Owning
      /\ op[a].todo # {} /\ t \in Txns
      BY ActorFacts DEF RecoverSwap, Owning, ActorInv, Place
<1>1. p \in Paths
      BY <1>0, GreatestPath DEF OpType
<1>2. txn' = txn /\ manifest' = manifest /\ lock' = lock
      BY DEF RecoverSwap
<1>3. /\ file' \in [Paths -> FileType] /\ stamp' \in Nat
      /\ trash' \in [Txns -> [Paths -> FileType]]
      <2>0. stamp \in Nat /\ stamp + 1 \in Nat
            BY <1>0 DEF VarTypes
      <2>1. \E f \in FileType : file' = [file EXCEPT ![p] = f]
            <3> DEFINE d == txn[t].rows[p].data
            <3>1. d \in Nat /\ trash[t][p] \in FileType
                  BY <1>0, <1>1, RowFacts
            <3>2. [data |-> d, ino |-> stamp + 1] \in FileType
                  BY <2>0, <3>1 DEF FileType
            <3>3. \/ file' = [file EXCEPT ![p] = trash[t][p]]
                  \/ file' = [file EXCEPT ![p] = [data |-> d, ino |-> stamp + 1]]
                  BY Zenon DEF RecoverSwap
            <3> QED BY <3>1, <3>2, <3>3
      <2>2. stamp' \in Nat
            BY <2>0 DEF RecoverSwap
      <2>3. \/ trash' = trash
            \/ trash' = [trash EXCEPT ![t][p] = NoFile]
            BY DEF RecoverSwap
      <2>4. trash' \in [Txns -> [Paths -> FileType]]
            BY <1>0, <2>3, TrashTypes
      <2> QED BY Zenon, <1>0, <2>1, <2>2, <2>4 DEF VarTypes
<1>4. \/ pc' = [pc EXCEPT ![a] = "recUnlink"] /\ op' = op
      \/ pc' = [pc EXCEPT ![a] = "recRow"] /\ op' = [op EXCEPT ![a] = RowDone(a)]
      BY DEF RecoverSwap, Goto, Local
<1>5. ActorTypes' /\ Frame(a) /\ ActorInv(a)'
      <2>1. CASE pc' = [pc EXCEPT ![a] = "recUnlink"] /\ op' = op
            <3>1. op' = [op EXCEPT ![a] = op[a]]
                  BY <1>0, <2>1 DEF VarTypes
            <3> QED BY Zenon, <1>0, <1>2, <2>1, <3>1, OwnerGoesOn DEF Owning
      <2>2. CASE /\ pc' = [pc EXCEPT ![a] = "recRow"]
                 /\ op' = [op EXCEPT ![a] = RowDone(a)]
            BY Zenon, <1>0, <1>2, <2>2, RowDoneFacts, OwnerGoesOn DEF Owning
      <2> QED BY <1>4, <2>1, <2>2
<1> QED BY <1>0, <1>2, <1>3, <1>5 DEF StepOK, DiskTypes

LEMMA RecoverUnlinkOK ==
    ASSUME IInv, NEW a \in Actors, RecoverUnlink(a) PROVE StepOK(a)
<1>0. VarTypes /\ DiskTypes /\ op[a] \in OpType /\ pc[a] \in Owning
      BY ActorFacts DEF RecoverUnlink, Owning
<1>1. /\ txn' = txn /\ file' = file /\ manifest' = manifest
      /\ stamp' = stamp /\ lock' = lock
      /\ pc' = [pc EXCEPT ![a] = "recRow"] /\ op' = [op EXCEPT ![a] = RowDone(a)]
      BY DEF RecoverUnlink, Goto, Local
<1>2. trash' \in [Txns -> [Paths -> FileType]]
      BY Zenon, <1>0, TrashTypes DEF RecoverUnlink
<1>3. ActorTypes' /\ Frame(a) /\ ActorInv(a)'
      BY Zenon, <1>0, <1>1, RowDoneFacts, OwnerGoesOn DEF Owning
<1> QED BY <1>0, <1>1, <1>2, <1>3 DEF StepOK, DiskTypes

LEMMA RecoverFailsOK ==
    ASSUME IInv, NEW a \in Actors, RecoverFails(a) PROVE StepOK(a)
<1>0. DiskTypes /\ op[a] \in OpType /\ pc[a] \in Owning
      BY ActorFacts DEF RecoverFails, Owning
<1>1. /\ txn' = txn /\ file' = file /\ manifest' = manifest /\ trash' = trash
      /\ stamp' = stamp /\ lock' = lock
      /\ pc' = [pc EXCEPT ![a] = "recRow"]
      /\ op' = [op EXCEPT ![a] = RowFailed(a)]
      BY DEF RecoverFails, Goto, Local, disk
<1>3. ActorTypes' /\ Frame(a) /\ ActorInv(a)'
      BY Zenon, <1>0, <1>1, RowDoneFacts, OwnerGoesOn DEF Owning
<1> QED BY <1>0, <1>1, <1>3 DEF StepOK, DiskTypes

\* The last status of a transaction: EndOp or Advance.
LEMMA RecoverEndOK ==
    ASSUME IInv, NEW a \in Actors, RecoverEnd(a) PROVE StepOK(a)
<1>0. /\ VarTypes /\ DiskTypes /\ ActorInv(a) /\ op[a] \in OpType /\ Locked(a)
      /\ pc[a] \in Owning
      /\ txn[op[a].txn].status \in Incomplete
      BY ActorFacts DEF RecoverEnd, Owning, Critical
<1>1. PICK t \in Txns : t = op[a].txn
      BY <1>0, ActorFacts
<1>2. PICK s \in {"recovery_conflict", "rolled_back"} : SetStatus(t, s)
      BY <1>1 DEF RecoverEnd
<1>3. /\ file' = file /\ trash' = trash /\ manifest' = manifest
      /\ stamp' = stamp
      BY DEF RecoverEnd
<1>4. /\ txn' \in [Txns -> TxnType] /\ txn'[t].status = s
      /\ \A u \in Txns : txn'[u].rows = txn[u].rows
      /\ \A u \in Txns \ {t} : txn'[u] = txn[u]
      BY <1>0, <1>2, SetStatusFacts DEF Statuses, Incomplete
<1>5. TxnFrame(a)
      BY <1>0, <1>1, <1>2, StatusFrame DEF Statuses, Incomplete
<1>6. ActorTypes' /\ Alone(a) /\ ActorInv(a)'
      <2>1. CASE EndOp(a)
            BY <1>0, <2>1, EndOpOK
      <2>2. CASE Advance(a, op[a].listed \ {t}) /\ lock' = Unlocked(a)
            <3>1. op[a].listed \ {t} \in SUBSET Txns
                  BY <1>0 DEF OpType
            <3>2. \A u \in op[a].listed \ {t} : txn'[u].status # "none"
                  BY <1>0, <1>4, <3>1 DEF ActorInv, Owns
            <3> QED BY <1>0, <1>4, <2>2, <3>1, <3>2, UnlockedFacts, AdvanceOK
      <2> QED BY <1>1, <2>1, <2>2 DEF RecoverEnd
<1> QED BY <1>0, <1>3, <1>4, <1>5, <1>6 DEF StepOK, Frame, DiskTypes

-----------------------------------------------------------------------------
(* The actions: writes *)

\* A step that only leaves the operation.
LEMMA EndsOK ==
    ASSUME IInv, NEW a \in Actors, EndOp(a), txn' = txn, DiskTypes'
    PROVE  StepOK(a)
BY ActorFacts, EndOpOK, UnchangedFrame DEF StepOK, Frame

LEMMA RetriesOK ==
    ASSUME IInv, NEW a \in Actors, Retry(a), UNCHANGED <<disk, stamp>>
    PROVE  StepOK(a)
BY ActorFacts, RetryOK, UnchangedFrame DEF StepOK, Frame, disk, DiskTypes

\* An actor that holds no lock begins an operation, or the second half of one.
LEMMA GateOK ==
    ASSUME IInv, NEW a \in Actors, NEW r \in OpType,
           pc' = [pc EXCEPT ![a] = "gate"], op' = [op EXCEPT ![a] = r],
           txn' = txn, lock' \in [Paths -> Actors \cup {None}],
           \A p \in Paths : lock'[p] # a,
           \A b \in Actors \ {a}, p \in Paths : lock'[p] = b <=> lock[p] = b,
           r.wanted = {}, r.listed \in {{}, op[a].listed}, DiskTypes'
    PROVE  StepOK(a)
<1>0. VarTypes /\ ActorInv(a) /\ pc'[a] = "gate" /\ op'[a] = r
      BY ActorFacts DEF VarTypes
<1>1. ActorTypes'
      BY <1>0 DEF ActorTypes, VarTypes
<1>2. Alone(a)
      BY <1>0 DEF Alone, VarTypes
<1>3. Place(a)' /\ Holds(a)' /\ Clear(a)'
      BY <1>0 DEF Place, Holds, Clear, Critical
<1>4. Owns(a)'
      BY <1>0 DEF ActorInv, Owns, Owning
<1> QED BY <1>1, <1>2, <1>3, <1>4, UnchangedFrame DEF StepOK, Frame, ActorInv

\* An idle actor holds no lock.
LEMMA IdleHoldsNone ==
    ASSUME IInv, NEW a \in Actors, pc[a] = "idle"
    PROVE  \A p \in Paths : lock[p] # a
BY ActorFacts DEF ActorInv, Place, Holds

LEMMA PrepareOK ==
    ASSUME IInv, NEW a \in Actors, Prepare(a) PROVE StepOK(a)
<1>0. VarTypes /\ DiskTypes
      BY ActorFacts
<1>1. PICK p \in Paths :
          op' = [op EXCEPT ![a] = [NoOp EXCEPT !.kind = "capture", !.path = p,
                      !.turn = a, !.prep = file[p], !.after = stamp + 1]]
      BY Zenon DEF Prepare, Local
<1> DEFINE r == [NoOp EXCEPT !.kind = "capture", !.path = p,
                      !.turn = a, !.prep = file[p], !.after = stamp + 1]
<1>2. r \in OpType /\ r.wanted = {} /\ r.listed = {}
      <2>1. a \in Turns /\ file[p] \in FileType /\ stamp + 1 \in Nat
            BY <1>0 DEF Turns, VarTypes
      <2>2. NoOp \in OpType /\ NoOp.wanted = {} /\ NoOp.listed = {}
            BY NoOpType DEF NoOp
      <2> HIDE DEF NoOp
      <2> QED BY Zenon, <2>1, <2>2 DEF OpType
<1>3. /\ pc' = [pc EXCEPT ![a] = "gate"] /\ op' = [op EXCEPT ![a] = r]
      /\ txn' = txn /\ lock' = lock /\ pc[a] = "idle"
      BY <1>1 DEF Prepare, Goto, disk
<1> HIDE DEF r
<1>4. DiskTypes'
      BY <1>0 DEF Prepare, disk, DiskTypes
<1>5. lock' \in [Paths -> Actors \cup {None}]
      BY <1>0, <1>3 DEF VarTypes
<1> QED BY Zenon, <1>2, <1>3, <1>4, <1>5, IdleHoldsNone, GateOK

LEMMA BeginRestoreOK ==
    ASSUME IInv, NEW a \in Actors, BeginRestore(a) PROVE StepOK(a)
<1>0. VarTypes /\ DiskTypes
      BY ActorFacts
<1>1. PICK c \in Turns :
          op' = [op EXCEPT ![a] = [NoOp EXCEPT !.kind = "restore", !.turn = c]]
      BY Zenon DEF BeginRestore, Local
<1> DEFINE r == [NoOp EXCEPT !.kind = "restore", !.turn = c]
<1>2. r \in OpType /\ r.wanted = {} /\ r.listed = {}
      <2>2. NoOp \in OpType /\ NoOp.wanted = {} /\ NoOp.listed = {}
            BY NoOpType DEF NoOp
      <2> QED BY Zenon, <2>2 DEF OpType
<1>3. /\ pc' = [pc EXCEPT ![a] = "gate"] /\ op' = [op EXCEPT ![a] = r]
      /\ txn' = txn /\ lock' = lock /\ pc[a] = "idle"
      BY <1>1 DEF BeginRestore, Goto, disk
<1> HIDE DEF r
<1>4. DiskTypes'
      BY <1>0 DEF BeginRestore, disk, DiskTypes
<1>5. lock' \in [Paths -> Actors \cup {None}]
      BY <1>0, <1>3 DEF VarTypes
<1> QED BY Zenon, <1>2, <1>3, <1>4, <1>5, IdleHoldsNone, GateOK

LEMMA ManifestTypes ==
    ASSUME VarTypes, NEW c, NEW p, NEW r \in RowType,
           manifest' = [manifest EXCEPT ![c][p] = r]
    PROVE  manifest' \in [Turns -> [Paths -> RowType]]
<1>1. manifest \in [Turns -> [Paths -> RowType]]
      BY DEF VarTypes
<1>2. [manifest EXCEPT ![c][p] = r] \in [Turns -> [Paths -> RowType]]
      BY <1>1, ExceptTwice, Zenon
<1> QED BY <1>2

LEMMA CaptureOK ==
    ASSUME IInv, NEW a \in Actors, Capture(a) PROVE StepOK(a)
<1>0. VarTypes /\ DiskTypes /\ op[a] \in OpType
      BY ActorFacts
<1>1. file' = file /\ trash' = trash /\ txn' = txn /\ stamp' = stamp
      BY DEF Capture
<1>2. CASE Retry(a) /\ manifest' = manifest
      BY <1>1, <1>2, RetriesOK DEF disk
<1>3. CASE EndOp(a) /\ manifest' = manifest
      BY <1>0, <1>1, <1>3, EndsOK DEF DiskTypes
<1>4. CASE /\ \E r \in Captured(a) : manifest' =
                 [manifest EXCEPT ![op[a].turn][op[a].path] = r]
           /\ Goto(a, "gate") /\ lock' = Unlocked(a)
           /\ Local(a, [op[a] EXCEPT !.kind = "execute", !.wanted = {}])
      <2>1. PICK r \in Captured(a) :
                manifest' = [manifest EXCEPT ![op[a].turn][op[a].path] = r]
            BY Zenon, <1>4
      <2>2. r \in RowType
            <3>1. manifest[op[a].turn][op[a].path] \in RowType
                  BY <1>0 DEF VarTypes, OpType
            <3>2. op[a].prep.data \in Nat /\ op[a].after \in Nat
                  BY <1>0 DEF OpType, FileType
            <3> DEFINE m == manifest[op[a].turn][op[a].path]
                       now == op[a].prep.data
                       after == op[a].after
            <3>3. \/ r = [before |-> now, expected |-> now, pending |-> after,
                          known |-> TRUE]
                  \/ \E e \in {now, m.expected} :
                        r = [m EXCEPT !.expected = e, !.pending = after]
                  BY Zenon, <2>1 DEF Captured
            <3> HIDE DEF m, now, after
            <3>4. now \in Nat /\ after \in Nat
                  BY <3>2 DEF now, after
            <3>5. m \in RowType /\ m.expected \in Nat
                  BY <3>1 DEF m, RowType
            <3>6. \A e \in Nat :
                      [m EXCEPT !.expected = e, !.pending = after] \in RowType
                  BY Zenon, <3>4, <3>5 DEF RowType
            <3>7. [before |-> now, expected |-> now, pending |-> after,
                   known |-> TRUE] \in RowType
                  BY <3>4 DEF RowType
            <3> QED BY Zenon, <3>3, <3>4, <3>5, <3>6, <3>7
      <2>3. DiskTypes'
            BY Zenon, <1>0, <1>1, <2>1, <2>2, ManifestTypes DEF DiskTypes
      <2> DEFINE o == [op[a] EXCEPT !.kind = "execute", !.wanted = {}]
      <2>4. o \in OpType /\ o.wanted = {} /\ o.listed = op[a].listed
            BY Zenon, <1>0 DEF OpType
      <2>5. /\ pc' = [pc EXCEPT ![a] = "gate"] /\ op' = [op EXCEPT ![a] = o]
            /\ lock' = Unlocked(a)
            BY <1>4 DEF Goto, Local
      <2> HIDE DEF o
      <2> QED BY Zenon, <1>0, <1>1, <2>3, <2>4, <2>5, UnlockedFacts, GateOK
<1> QED BY <1>2, <1>3, <1>4 DEF Capture

\* Between the locks of a write and its end.
LEMMA WriterGoesOn ==
    ASSUME IInv, NEW a \in Actors, NEW to \in {"rename", "complete"},
           pc' = [pc EXCEPT ![a] = to], op' = op, lock' = lock, txn' = txn,
           Locked(a), ~Torn({op[a].path}), op[a].wanted = {op[a].path},
           DiskTypes'
    PROVE  StepOK(a)
<1>0. VarTypes /\ ActorInv(a) /\ pc'[a] = to
      BY ActorFacts DEF VarTypes
<1>1. ActorTypes'
      BY <1>0 DEF ActorTypes, VarTypes, Critical
<1>2. Alone(a)
      BY <1>0 DEF Alone, VarTypes
<1>3. Place(a)' /\ Holds(a)'
      BY <1>0 DEF ActorInv, Place, Holds, Locked
<1>4. Owns(a)'
      BY <1>0 DEF ActorInv, Owns, Owning
<1>5. Clear(a)'
      BY DEF Clear, Torn, RowPaths
<1> QED BY <1>1, <1>2, <1>3, <1>4, <1>5, UnchangedFrame
        DEF StepOK, Frame, ActorInv

LEMMA ExecuteOK ==
    ASSUME IInv, NEW a \in Actors, Execute(a) PROVE StepOK(a)
<1>0. /\ DiskTypes /\ pc[a] = "lock" /\ Locked(a) /\ op[a].kind = "execute"
      /\ op[a].wanted = {op[a].path}
      BY ActorFacts DEF Execute, ActorInv, Place
<1>1. UNCHANGED <<disk, stamp>> /\ txn' = txn /\ DiskTypes'
      BY <1>0 DEF Execute, disk, DiskTypes
<1>2. \/ Retry(a)
      \/ EndOp(a)
      \/ /\ ~Torn({op[a].path})
         /\ pc' = [pc EXCEPT ![a] = "rename"] /\ op' = op /\ lock' = lock
      BY DEF Execute, Goto
<1>3. CASE Retry(a)
      BY <1>1, <1>3, RetriesOK
<1>4. CASE EndOp(a)
      BY <1>1, <1>4, EndsOK
<1>5. CASE /\ ~Torn({op[a].path})
           /\ pc' = [pc EXCEPT ![a] = "rename"] /\ op' = op /\ lock' = lock
      BY Zenon, <1>0, <1>1, <1>5, WriterGoesOn
<1> QED BY <1>2, <1>3, <1>4, <1>5

LEMMA RenameOK ==
    ASSUME IInv, NEW a \in Actors, Rename(a) PROVE StepOK(a)
<1>0. /\ DiskTypes /\ Locked(a) /\ op[a] \in OpType
      /\ ~Torn({op[a].path}) /\ op[a].wanted = {op[a].path}
      BY Zenon, ActorFacts DEF Rename, ActorInv, Place, Clear, Critical
<1>1. /\ pc' = [pc EXCEPT ![a] = "complete"] /\ op' = op /\ lock' = lock
      /\ txn' = txn
      BY DEF Rename, Goto
<1>2. DiskTypes'
      <2>1. [data |-> op[a].after, ino |-> stamp + 1] \in FileType
            /\ stamp + 1 \in Nat
            BY <1>0 DEF OpType, FileType, DiskTypes
      <2> QED BY Zenon, <1>0, <2>1 DEF Rename, DiskTypes
<1> QED BY Zenon, <1>0, <1>1, <1>2, WriterGoesOn

LEMMA CompleteOK ==
    ASSUME IInv, NEW a \in Actors, Complete(a) PROVE StepOK(a)
<1>0. VarTypes /\ DiskTypes /\ op[a] \in OpType
      BY ActorFacts
<1>1. DiskTypes'
      <2> DEFINE r == manifest[op[a].turn][op[a].path]
                 n == [r EXCEPT !.expected = op[a].after, !.pending = 0]
      <2>1. op[a].turn \in Turns /\ op[a].path \in Paths /\ op[a].after \in Nat
            BY <1>0 DEF OpType
      <2>2. r \in RowType
            BY <1>0, <2>1 DEF VarTypes
      <2>3. n \in RowType
            BY Zenon, <2>1, <2>2 DEF RowType
      <2>4. \/ manifest' = manifest
            \/ manifest' = [manifest EXCEPT ![op[a].turn][op[a].path] = n]
            BY DEF Complete
      <2> HIDE DEF n
      <2>5. manifest' \in [Turns -> [Paths -> RowType]]
            BY <1>0, <2>3, <2>4, ManifestTypes DEF VarTypes
      <2> QED BY <1>0, <2>5 DEF Complete, DiskTypes
<1> QED BY <1>1, EndsOK DEF Complete

-----------------------------------------------------------------------------
(* The actions: restore *)

\* A new journal: its paths are locked, and there is something to restore.
LEMMA PlanBegins ==
    ASSUME IInv, NEW a \in Actors, NEW t \in Txns,
           pc[a] = "lock", Locked(a), txn[t].status = "none",
           UNCHANGED <<file, trash, manifest, stamp, lock>>,
           NEW rows \in [Paths -> PlannedRow],
           {p \in Paths : rows[p].action # "none"} = op[a].wanted,
           op[a].wanted # {},
           txn' = [txn EXCEPT ![t] = [status |-> "mutating", rows |-> rows]],
           NEW todo \in SUBSET Paths,
           op' = [op EXCEPT ![a] = [op[a] EXCEPT !.txn = t, !.todo = todo]],
           pc' = [pc EXCEPT ![a] = "row"]
    PROVE  StepOK(a)
<1> DEFINE r == [op[a] EXCEPT !.txn = t, !.todo = todo]
           new == [status |-> "mutating", rows |-> rows]
<1>0. VarTypes /\ DiskTypes /\ ActorInv(a) /\ op[a] \in OpType
      BY ActorFacts
<1>1. /\ r \in OpType /\ r.wanted = op[a].wanted /\ r.txn = t
      /\ r.listed = op[a].listed
      <2>1. t \in Nat
            BY CheckpointAssumption DEF Txns
      <2> QED BY Zenon, <1>0, <2>1 DEF OpType
<1>2. new \in TxnType /\ new.status = "mutating" /\ new.rows = rows
      BY DEF TxnType, Incomplete
<1> HIDE DEF r, new
<1>3. /\ txn' = [txn EXCEPT ![t] = new] /\ op' = [op EXCEPT ![a] = r]
      BY DEF r, new
<1>4. /\ txn' \in [Txns -> TxnType] /\ txn'[t] = new
      /\ \A u \in Txns \ {t} : txn'[u] = txn[u]
      BY <1>0, <1>2, <1>3 DEF VarTypes
<1>5. RowPaths(t)' = op[a].wanted
      BY <1>2, <1>4 DEF RowPaths
<1>6. DiskTypes'
      BY <1>0, <1>4 DEF DiskTypes
<1>7. ActorTypes'
      BY <1>0, <1>1, <1>3 DEF ActorTypes, VarTypes, Critical
<1>8. TxnFrame(a)
      BY <1>2, <1>4, <1>5 DEF TxnFrame
<1>9. Alone(a)
      BY <1>0, <1>3 DEF Alone, VarTypes
<1>10. ActorInv(a)'
      <2>1. pc'[a] = "row" /\ op'[a] = r
            BY <1>0, <1>3 DEF VarTypes
      <2>2. Place(a)' /\ Clear(a)'
            BY <2>1 DEF Place, Clear
      <2>3. Holds(a)'
            BY <1>0, <1>1, <2>1 DEF ActorInv, Holds, Locked
      <2>4. \A u \in op[a].listed : txn'[u].status # "none"
            BY <1>0, <1>2, <1>4 DEF ActorInv, Owns, OpType
      <2>5. Owns(a)'
            BY <1>1, <1>2, <1>4, <1>5, <2>1, <2>4 DEF Owns, Incomplete
      <2> QED BY <2>2, <2>3, <2>5 DEF ActorInv
<1> QED BY <1>6, <1>7, <1>8, <1>9, <1>10 DEF StepOK, Frame

LEMMA PlanOK ==
    ASSUME IInv, NEW a \in Actors, Plan(a) PROVE StepOK(a)
<1> DEFINE c == op[a].turn
           rows == [p \in Paths |->
                   IF p \notin KnownPaths(c) THEN NoPlan ELSE
                   [action |-> PlanAction(c, p), data |-> file[p].data,
                    ino |-> file[p].ino, result |-> manifest[c][p].before]]
           kinds == {rows[p].action : p \in KnownPaths(c)}
<1>0. VarTypes /\ DiskTypes /\ op[a] \in OpType /\ pc[a] = "lock" /\ Locked(a)
      BY Zenon, ActorFacts DEF Plan
<1>1. UNCHANGED <<file, trash, manifest, stamp>>
      BY Zenon DEF Plan
<1>2. \/ Retry(a) /\ txn' = txn
      \/ EndOp(a) /\ txn' = txn
      \/ /\ KnownPaths(c) = op[a].wanted
         /\ "conflict" \notin kinds /\ ~(kinds \subseteq {"noop"})
         /\ \E t \in Txns :
                /\ IsNext(t)
                /\ txn' = [txn EXCEPT ![t] =
                              [status |-> "mutating", rows |-> rows]]
                /\ op' = [op EXCEPT ![a] = [op[a] EXCEPT
                              !.txn = t, !.todo = KnownPaths(c)]]
         /\ pc' = [pc EXCEPT ![a] = "row"]
         /\ lock' = lock
      BY Zenon DEF Plan, Goto, Local
<1>3. CASE Retry(a) /\ txn' = txn
      BY <1>1, <1>3, RetriesOK DEF disk
<1>4. CASE EndOp(a) /\ txn' = txn
      BY <1>0, <1>1, <1>4, EndsOK DEF DiskTypes
<1>5. ASSUME KnownPaths(c) = op[a].wanted,
             "conflict" \notin kinds, ~(kinds \subseteq {"noop"}),
             NEW t \in Txns, IsNext(t),
             txn' = [txn EXCEPT ![t] = [status |-> "mutating", rows |-> rows]],
             op' = [op EXCEPT ![a] =
                       [op[a] EXCEPT !.txn = t, !.todo = KnownPaths(c)]],
             pc' = [pc EXCEPT ![a] = "row"], lock' = lock
      PROVE  StepOK(a)
      <2>1. \A p \in KnownPaths(c) :
                /\ p \in Paths /\ rows[p].action = PlanAction(c, p)
                /\ rows[p] = [action |-> PlanAction(c, p), data |-> file[p].data,
                       ino |-> file[p].ino, result |-> manifest[c][p].before]
            BY DEF KnownPaths
      <2>2. \A p \in KnownPaths(c) :
                PlanAction(c, p) \in {"noop", "restore", "trash"}
            <3>1. \A p \in KnownPaths(c) : PlanAction(c, p) # "conflict"
                  BY Zenon, <1>5, <2>1
            <3> QED BY <3>1 DEF PlanAction
      <2>3. \A p \in KnownPaths(c) : rows[p] \in PlannedRow
            <3>1. \A p \in Paths : /\ file[p].data \in Nat /\ file[p].ino \in Nat
                                  /\ manifest[c][p].before \in Nat
                  BY <1>0 DEF VarTypes, FileType, RowType, OpType
            <3> QED BY Zenon, <2>1, <2>2, <3>1 DEF PlannedRow
      <2>4. \A p \in Paths \ KnownPaths(c) : rows[p] = NoPlan
            OBVIOUS
      <2>5. NoPlan \in PlannedRow /\ NoPlan.action = "none"
            BY DEF NoPlan, PlannedRow
      <2>6. rows \in [Paths -> PlannedRow]
            BY Zenon, <2>3, <2>4, <2>5
      <2>7. {p \in Paths : rows[p].action # "none"} = op[a].wanted
            <3>1. KnownPaths(c) \in SUBSET Paths
                  BY DEF KnownPaths
            <3>2. \A p \in Paths : rows[p].action # "none" <=> p \in KnownPaths(c)
                  BY <2>1, <2>2, <2>4, <2>5
            <3> HIDE DEF rows
            <3> QED BY <1>5, <3>1, <3>2
      <2>8. op[a].wanted # {}
            BY Zenon, <1>5
      <2>9. KnownPaths(c) \in SUBSET Paths /\ txn[t].status = "none"
            BY Zenon, <1>5 DEF KnownPaths, IsNext
      <2> HIDE DEF rows, kinds
      <2> QED BY Zenon, <1>0, <1>1, <1>5, <2>6, <2>7, <2>8, <2>9, PlanBegins
<1> QED BY Zenon, <1>2, <1>3, <1>4, <1>5

\* What an owner that compensates, or goes on to the next row, keeps.
LEMMA CompensatesOK ==
    ASSUME IInv, NEW a \in Actors, pc[a] \in {"row", "swap", "copied", "unlink"},
           Compensate(a), UNCHANGED <<file, trash, manifest, stamp, lock>>
    PROVE  StepOK(a)
BY ActorFacts, CompensateOK DEF StepOK, DiskTypes

LEMMA RowRestoredOK ==
    ASSUME IInv, NEW a \in Actors, pc[a] \in {"row", "swap", "copied", "unlink"},
           \E p : op' = [op EXCEPT ![a] = [op[a] EXCEPT !.todo = @ \ {p}]],
           pc' = [pc EXCEPT ![a] = "row"], lock' = lock, txn' = txn, DiskTypes'
    PROVE  StepOK(a)
<1>1. PICK p : op' = [op EXCEPT ![a] = [op[a] EXCEPT !.todo = @ \ {p}]]
      BY Zenon
<1> DEFINE r == [op[a] EXCEPT !.todo = @ \ {p}]
<1>2. op[a] \in OpType /\ pc[a] \in Owning
      BY ActorFacts DEF Owning
<1>3. /\ r \in OpType /\ r.wanted = op[a].wanted /\ r.txn = op[a].txn
      /\ r.listed = op[a].listed
      <2>1. op[a].todo \ {p} \in SUBSET Paths
            BY <1>2 DEF OpType
      <2> QED BY <1>2, <2>1 DEF OpType
<1>4. op' = [op EXCEPT ![a] = r]
      BY Zenon, <1>1
<1> HIDE DEF r
<1> QED BY Zenon, <1>2, <1>3, <1>4, OwnerGoesOn DEF Owning, StepOK

LEMMA SameRowOK ==
    ASSUME IInv, NEW a \in Actors, pc[a] \in {"row", "swap", "copied", "unlink"},
           op[a].todo # {}, NEW to \in {"swap", "copied", "unlink"},
           pc' = [pc EXCEPT ![a] = to], op' = op, lock' = lock, txn' = txn,
           DiskTypes'
    PROVE  StepOK(a)
<1>1. op[a] \in OpType /\ pc[a] \in Owning /\ op' = [op EXCEPT ![a] = op[a]]
      BY ActorFacts DEF Owning, VarTypes
<1> QED BY Zenon, <1>1, OwnerGoesOn DEF Owning, StepOK

LEMMA RestoreRowOK ==
    ASSUME IInv, NEW a \in Actors, RestoreRow(a) PROVE StepOK(a)
<1> DEFINE p == Min(op[a].todo)
<1>0. DiskTypes /\ pc[a] = "row" /\ op[a].todo # {}
      BY ActorFacts DEF RestoreRow
<1>1. UNCHANGED <<file, trash, manifest, stamp, lock>>
      BY DEF RestoreRow
<1>2. \/ Compensate(a)
      \/ /\ op' = [op EXCEPT ![a] = [op[a] EXCEPT !.todo = @ \ {p}]]
         /\ txn' = txn /\ pc' = pc
      \/ pc' = [pc EXCEPT ![a] = "swap"] /\ txn' = txn /\ op' = op
      BY DEF RestoreRow, Goto, Local
<1>3. CASE Compensate(a)
      BY <1>0, <1>1, <1>3, CompensatesOK
<1>4. CASE /\ op' = [op EXCEPT ![a] = [op[a] EXCEPT !.todo = @ \ {p}]]
           /\ txn' = txn /\ pc' = pc
      <2>1. pc' = [pc EXCEPT ![a] = "row"]
            BY <1>0, <1>4, ActorFacts DEF VarTypes
      <2>2. DiskTypes'
            BY <1>0, <1>1, <1>4 DEF DiskTypes
      <2> QED BY Zenon, <1>0, <1>1, <1>4, <2>1, <2>2, RowRestoredOK
<1>5. CASE pc' = [pc EXCEPT ![a] = "swap"] /\ txn' = txn /\ op' = op
      <2>1. DiskTypes'
            BY <1>0, <1>1, <1>5 DEF DiskTypes
      <2> QED BY Zenon, <1>0, <1>1, <1>5, <2>1, SameRowOK
<1> QED BY <1>2, <1>3, <1>4, <1>5

LEMMA SwapOK ==
    ASSUME IInv, NEW a \in Actors, Swap(a) PROVE StepOK(a)
<1> DEFINE t == op[a].txn
           p == Min(op[a].todo)
           r == txn[t].rows[p]
<1>0. /\ VarTypes /\ DiskTypes /\ pc[a] = "swap" /\ op[a].todo # {}
      /\ op[a] \in OpType /\ t \in Txns /\ stamp \in Nat
      BY ActorFacts DEF Swap, ActorInv, Place, Owning, DiskTypes
<1>1. p \in Paths
      BY <1>0, LeastPath DEF OpType
<1>2. manifest' = manifest /\ lock' = lock
      BY DEF Swap
<1>3. \/ /\ file' = [file EXCEPT ![p] =
                        [data |-> r.result, ino |-> stamp + 1]]
         /\ stamp' = stamp + 1 /\ RowRestored(a)
         /\ trash' = trash /\ txn' = txn
      \/ Compensate(a) /\ UNCHANGED <<file, trash, stamp>>
      \/ /\ trash' = [trash EXCEPT ![t][p] = file[p]]
         /\ Goto(a, "copied") /\ UNCHANGED <<file, op>>
         /\ txn' = txn /\ stamp' = stamp
      \/ /\ trash' = [trash EXCEPT ![t][p] = file[p]]
         /\ file' = [file EXCEPT ![p] = NoFile] /\ RowRestored(a)
         /\ txn' = txn /\ stamp' = stamp
      BY DEF Swap
<1>4. [data |-> r.result, ino |-> stamp + 1] \in FileType
      /\ NoFile \in FileType
      BY <1>0, <1>1, RowFacts DEF FileType, NoFile
<1> HIDE DEF p, t, r
<1>5. RowRestored(a) =>
          /\ pc' = [pc EXCEPT ![a] = "row"]
          /\ op' = [op EXCEPT ![a] = [op[a] EXCEPT !.todo = @ \ {p}]]
      BY DEF RowRestored, Goto, Local, p
<1>6. CASE /\ file' = [file EXCEPT ![p] =
                        [data |-> r.result, ino |-> stamp + 1]]
           /\ stamp' = stamp + 1 /\ RowRestored(a)
           /\ trash' = trash /\ txn' = txn
      <2> DEFINE n == [data |-> r.result, ino |-> stamp + 1]
      <2>0. file' = [file EXCEPT ![p] = n] /\ n \in FileType /\ stamp' \in Nat
            BY <1>0, <1>4, <1>6
      <2> HIDE DEF n
      <2>1. DiskTypes'
            BY Zenon, <1>0, <1>2, <1>6, <2>0 DEF DiskTypes
      <2> QED BY <1>0, <1>2, <1>5, <1>6, <2>1, RowRestoredOK
<1>7. CASE Compensate(a) /\ UNCHANGED <<file, trash, stamp>>
      BY <1>0, <1>2, <1>7, CompensatesOK
<1>8. CASE /\ trash' = [trash EXCEPT ![t][p] = file[p]]
           /\ Goto(a, "copied") /\ UNCHANGED <<file, op>>
           /\ txn' = txn /\ stamp' = stamp
      <2>1. trash' \in [Txns -> [Paths -> FileType]]
            BY Zenon, <1>0, <1>1, <1>8, TrashTypes
      <2>2. DiskTypes'
            BY <1>0, <1>2, <1>8, <2>1 DEF DiskTypes
      <2> QED BY Zenon, <1>0, <1>2, <1>8, <2>2, SameRowOK DEF Goto
<1>9. CASE /\ trash' = [trash EXCEPT ![t][p] = file[p]]
           /\ file' = [file EXCEPT ![p] = NoFile] /\ RowRestored(a)
           /\ txn' = txn /\ stamp' = stamp
      <2>1. trash' \in [Txns -> [Paths -> FileType]]
            BY Zenon, <1>0, <1>1, <1>9, TrashTypes
      <2>2. DiskTypes'
            BY <1>0, <1>2, <1>4, <1>9, <2>1 DEF DiskTypes
      <2> QED BY <1>0, <1>2, <1>5, <1>9, <2>2, RowRestoredOK
<1> QED BY <1>3, <1>6, <1>7, <1>8, <1>9

LEMMA CopiedOK ==
    ASSUME IInv, NEW a \in Actors, Copied(a) PROVE StepOK(a)
<1>0. DiskTypes /\ pc[a] = "copied" /\ op[a].todo # {}
      BY ActorFacts DEF Copied, ActorInv, Place
<1>1. UNCHANGED <<file, trash, manifest, stamp, lock>>
      BY DEF Copied
<1>2. CASE Compensate(a)
      BY <1>0, <1>1, <1>2, CompensatesOK
<1>3. CASE Goto(a, "unlink") /\ UNCHANGED <<txn, op>>
      <2>1. DiskTypes'
            BY <1>0, <1>1, <1>3 DEF DiskTypes
      <2> QED BY Zenon, <1>0, <1>1, <1>3, <2>1, SameRowOK DEF Goto
<1> QED BY <1>2, <1>3 DEF Copied

LEMMA UnlinkOK ==
    ASSUME IInv, NEW a \in Actors, Unlink(a) PROVE StepOK(a)
<1>1. /\ pc[a] = "unlink" /\ lock' = lock /\ txn' = txn
      /\ pc' = [pc EXCEPT ![a] = "row"]
      /\ op' = [op EXCEPT ![a] = [op[a] EXCEPT !.todo = @ \ {Min(@)}]]
      BY DEF Unlink, RowRestored, Goto, Local
<1>2. DiskTypes'
      BY Zenon, ActorFacts DEF Unlink, DiskTypes, NoFile, FileType
<1>3. op' = [op EXCEPT ![a] =
                [op[a] EXCEPT !.todo = @ \ {Min(op[a].todo)}]]
      BY <1>1
<1>4. \E p : op' = [op EXCEPT ![a] = [op[a] EXCEPT !.todo = @ \ {p}]]
      BY Zenon, <1>3
<1> QED BY Zenon, <1>1, <1>2, <1>4, RowRestoredOK

LEMMA CommitOK ==
    ASSUME IInv, NEW a \in Actors, Commit(a) PROVE StepOK(a)
<1>0. /\ VarTypes /\ DiskTypes /\ Locked(a) /\ pc[a] \in Owning
      BY ActorFacts DEF Commit, Owning, Critical
<1>1. PICK t \in Txns : t = op[a].txn
      BY <1>0, ActorFacts
<1>2. SetStatus(t, "committed") /\ EndOp(a)
      BY <1>1 DEF Commit
<1>3. txn' \in [Txns -> TxnType]
      BY <1>0, <1>2, SetStatusFacts DEF Statuses
<1>4. TxnFrame(a)
      BY <1>0, <1>1, <1>2, StatusFrame DEF Statuses, Incomplete
<1>5. DiskTypes'
      BY <1>0, <1>3 DEF Commit, DiskTypes
<1> QED BY <1>0, <1>2, <1>4, <1>5, EndOpOK DEF StepOK, Frame

LEMMA FaultOK ==
    ASSUME IInv, NEW a \in Actors, Crash(a) \/ RestoreFails(a)
    PROVE  StepOK(a)
<1>1. CASE Crash(a)
      BY <1>1, EndsOK, ActorFacts DEF Crash, disk, DiskTypes
<1>2. CASE RestoreFails(a)
      BY <1>2, CompensatesOK DEF RestoreFails
<1> QED BY <1>1, <1>2

\* The user changes a file and nothing that an actor relies on.
LEMMA UserEditOK ==
    ASSUME IInv, NEW p \in Paths, UserEdit(p) PROVE IInv'
<1>1. /\ trash' = trash /\ manifest' = manifest /\ txn' = txn /\ lock' = lock
      /\ pc' = pc /\ op' = op
      BY DEF UserEdit
<1>2. VarTypes'
      <2>0. file \in [Paths -> FileType] /\ stamp \in Nat
            BY DEF IInv, VarTypes
      <2> DEFINE n == [data |-> stamp + 1, ino |-> stamp + 1]
      <2>2. n \in FileType /\ NoFile \in FileType
            BY <2>0 DEF FileType, NoFile
      <2>3. \/ file' = [file EXCEPT ![p] = n] /\ stamp' = stamp + 1
            \/ file' = [file EXCEPT ![p] = NoFile] /\ stamp' = stamp
            BY DEF UserEdit
      <2> HIDE DEF n
      <2>1. file' \in [Paths -> FileType] /\ stamp' \in Nat
            BY <2>0, <2>2, <2>3
      <2> QED BY <1>1, <2>1 DEF IInv, VarTypes
<1>3. Rows'
      BY <1>1 DEF IInv, Rows, RowPaths
<1>4. ASSUME NEW a \in Actors PROVE ActorInv(a)'
      BY <1>1 DEF IInv, ActorInv, Place, Holds, Locked, Owns, Clear, Torn,
                  RowPaths
<1> QED BY <1>2, <1>3, <1>4 DEF IInv

LEMMA StutterOK ==
    ASSUME IInv, UNCHANGED vars PROVE IInv'
<1>1. /\ file' = file /\ trash' = trash /\ manifest' = manifest /\ txn' = txn
      /\ lock' = lock /\ pc' = pc /\ op' = op /\ stamp' = stamp
      BY DEF vars, disk
<1>2. VarTypes' /\ Rows'
      BY <1>1 DEF IInv, VarTypes, Rows, RowPaths
<1>3. ASSUME NEW a \in Actors PROVE ActorInv(a)'
      BY <1>1 DEF IInv, ActorInv, Place, Holds, Locked, Owns, Clear, Torn,
                  RowPaths
<1> QED BY <1>2, <1>3 DEF IInv

-----------------------------------------------------------------------------
(* The theorems *)

LEMMA InitOK == Init => IInv
<1> SUFFICES ASSUME Init PROVE IInv
    OBVIOUS
<1>1. /\ file \in [Paths -> FileType] /\ stamp \in Nat
      /\ trash \in [Txns -> [Paths -> FileType]]
      /\ manifest \in [Turns -> [Paths -> RowType]]
      <2>1. MaxPaths \in Nat /\ \A p \in Paths : p \in Nat /\ MaxPaths + p \in Nat
            BY CheckpointAssumption DEF Paths
      <2>2. NoFile \in FileType /\ NoRow \in RowType
            BY DEF NoFile, FileType, NoRow, RowType
      <2>3. file \in [Paths -> FileType] /\ stamp \in Nat
            BY <2>1 DEF Init, FileType
      <2>4. trash \in [Txns -> [Paths -> FileType]]
            BY <2>2 DEF Init
      <2>5. manifest \in [Turns -> [Paths -> RowType]]
            <3>1. PICK created \in SUBSET Paths :
                     manifest = [c \in Turns |-> [p \in Paths |->
                        IF c # OldTurn THEN NoRow
                        ELSE [before |-> IF p \in created THEN 0 ELSE p,
                              expected |-> MaxPaths + p, pending |-> 0,
                              known |-> TRUE]]]
                  BY Zenon DEF Init
            <3>2. \A p \in Paths :
                     [before |-> IF p \in created THEN 0 ELSE p,
                      expected |-> MaxPaths + p, pending |-> 0,
                      known |-> TRUE] \in RowType
                  BY <2>1 DEF RowType
            <3> QED BY <2>2, <3>1, <3>2
      <2> QED BY <2>3, <2>4, <2>5
<1>2. /\ txn = [t \in Txns |->
                  [status |-> "none", rows |-> [p \in Paths |-> NoPlan]]]
      /\ lock = [p \in Paths |-> None] /\ pc = [a \in Actors |-> "idle"]
      /\ op = [a \in Actors |-> NoOp]
      BY DEF Init
<1>3. NoPlan \in PlannedRow
      BY DEF NoPlan, PlannedRow
<1>4. txn \in [Txns -> TxnType]
      BY <1>2, <1>3 DEF TxnType
<1>5. VarTypes
      BY <1>1, <1>2, <1>4, NoOpType DEF VarTypes
<1>6. Rows
      BY <1>2 DEF Rows
<1>7. ASSUME NEW a \in Actors PROVE ActorInv(a)
      <2>1. None \notin Actors
            BY CheckpointAssumption DEF Turns
      <2>2. pc[a] = "idle" /\ op[a] = NoOp /\ \A p \in Paths : lock[p] # a
            BY <1>2, <2>1
      <2> QED BY <2>2 DEF ActorInv, Place, Holds, Owns, Clear, NoOp, Owning,
                          Critical
<1> QED BY <1>5, <1>6, <1>7 DEF IInv

LEMMA NextOK == IInv /\ [Next]_vars => IInv'
<1> SUFFICES ASSUME IInv, [Next]_vars PROVE IInv'
    OBVIOUS
<1>1. ASSUME NEW a \in Actors, Step(a) PROVE StepOK(a)
      BY <1>1, LockOK, ListOK, ReadTxnOK, RecoverRowOK, RecoverSwapOK,
         RecoverUnlinkOK, RecoverEndOK, CaptureOK, ExecuteOK, RenameOK,
         CompleteOK, PlanOK, RestoreRowOK, SwapOK, CopiedOK, UnlinkOK, CommitOK
      DEF Step
<1>2. ASSUME NEW a \in Actors, Begin(a) \/ Fault(a) PROVE StepOK(a)
      BY <1>2, PrepareOK, BeginRestoreOK, FaultOK, RecoverFailsOK
      DEF Begin, Fault
<1> QED BY <1>1, <1>2, StepOKKeepsInv, UserEditOK, StutterOK DEF Next

\* The locks of _path_locks are held by who wants them, and every step that
\* changes a file or takes a restore back is under the locks of all its paths,
\* for every number of actors, files and faults.
THEOREM TypesAndLocks == Spec => []CheckpointTypeOK
<1>1. Spec => []IInv
      BY InitOK, NextOK, PTL DEF Spec
<1> QED BY <1>1, InvImpliesProperties, PTL

\* execute_prepared never replaces a file of a restore that was cut off: the
\* second look for transactions, under the lock, closes the gap that the
\* first one leaves.
THEOREM WritesAvoidTorn == Spec => []NoWriteIntoTorn
<1>1. Spec => []IInv
      BY InitOK, NextOK, PTL DEF Spec
<1> QED BY <1>1, InvImpliesProperties, PTL

-----------------------------------------------------------------------------
(* The contents of the files. *)

Forwards == {"row", "swap", "copied", "unlink"}
Backs == {"recRow", "recSwap", "recUnlink"}

Live(t) == txn[t].status \in Incomplete
Untouched(t) == RowPaths(t) \ disturbed[t]

\* A row of a journal: what restore and plan_restore agree on.
RowsFit ==
    \A t \in Txns : \A p \in RowPaths(t) :
        LET r == txn[t].rows[p] IN
        /\ r.action = "noop" => r.data = r.result
        /\ r.action = "trash" => r.result = 0 /\ r.data # 0
        /\ r.action = "restore" => r.result # 0 /\ r.data # 0

Fresh == \A t \in Txns : txn[t].status = "none" =>
             \A p \in Paths : trash[t][p] = NoFile

\* No two transactions that may have to be recovered share a path.
Apart == \A t, u \in Txns : t # u /\ Live(t) /\ Live(u) =>
             RowPaths(t) \cap RowPaths(u) = {}

RowsSound(t) == Live(t) => \A p \in Untouched(t) : ~Conflict(t, p)

\* A restore on its way: the rows done have their before-image, the others are
\* as they were planned.
Forward(a) ==
    LET t == op[a].txn
        p == Min(op[a].todo)
    IN
    pc[a] \in Forwards =>
        /\ op[a].todo \subseteq RowPaths(t)
        /\ \A q \in Untouched(t) : file[q].data =
              IF q \in op[a].todo THEN txn[t].rows[q].data
              ELSE txn[t].rows[q].result
        /\ pc[a] # "row" => txn[t].rows[p].action \in {"restore", "trash"}
        /\ pc[a] \in {"copied", "unlink"} =>
              /\ txn[t].rows[p].action = "trash"
              /\ p \in Untouched(t) => trash[t][p].data = txn[t].rows[p].data

\* A restore on its way back: unless a row has failed, the rows done are as
\* they were at the start.
Back(a) ==
    LET t == op[a].txn
        p == Max(op[a].todo)
    IN
    pc[a] \in Backs =>
        /\ op[a].todo \subseteq RowPaths(t)
        /\ ~op[a].failed => \A q \in Untouched(t) \ op[a].todo :
              file[q].data = txn[t].rows[q].data /\ trash[t][q] = NoFile
        /\ pc[a] = "recSwap" /\ p \in Untouched(t) =>
              file[p].data # txn[t].rows[p].data
        /\ pc[a] = "recUnlink" /\ p \in Untouched(t) =>
              file[p].data = txn[t].rows[p].data

AtomInv ==
    /\ RowsFit /\ Fresh /\ Apart
    /\ \A t \in Txns : RowsSound(t)
    /\ \A a \in Actors : Forward(a) /\ Back(a)

-----------------------------------------------------------------------------
(* What a step of one actor may do to the contents *)

\* No new journal, and none to be recovered again.
JournalsKept ==
    \A t \in Txns : /\ txn'[t].rows = txn[t].rows
                    /\ Live(t)' => Live(t)
                    /\ txn'[t].status = "none" => txn[t].status = "none"

\* No new journal; only the file of a rename, or files and trash of the
\* transaction that is worked on, change.
Calm(a) ==
    /\ disturbed' = disturbed /\ JournalsKept
    /\ \A q \in Paths :
          \/ file'[q] = file[q]
          \/ pc[a] = "rename" /\ q = op[a].path
          \/ pc[a] \in Owning /\ q \in RowPaths(op[a].txn)
    /\ \A t \in Txns :
          \/ trash'[t] = trash[t]
          \/ pc[a] \in Owning /\ t = op[a].txn

RowsKept(t) == trash'[t] = trash[t] /\ \A q \in RowPaths(t) : file'[q] = file[q]

LEMMA Elsewhere ==
    ASSUME IInv, AtomInv, NEW a \in Actors, Calm(a), NEW t \in Txns, Live(t),
           pc[a] \in Owning => t # op[a].txn
    PROVE  RowsKept(t)
<1>1. ActorInv(a)
      BY ActorFacts
<1>2. trash'[t] = trash[t]
      BY DEF Calm
<1>3. ASSUME NEW q \in RowPaths(t) PROVE file'[q] = file[q]
      <2>1. q \in Paths
            BY DEF RowPaths
      <2>2. CASE pc[a] = "rename" /\ q = op[a].path
            <3>1. ~Torn({q})
                  BY <1>1, <2>2 DEF ActorInv, Clear
            <3> QED BY <3>1 DEF Torn, Live
      <2>3. CASE pc[a] \in Owning /\ q \in RowPaths(op[a].txn)
            <3>1. op[a].txn \in Txns /\ Live(op[a].txn)
                  BY <2>3, ActorFacts DEF Live
            <3> QED BY <2>3, <3>1 DEF AtomInv, Apart
      <2> QED BY <2>1, <2>2, <2>3 DEF Calm
<1> QED BY <1>2, <1>3 DEF RowsKept

LEMMA KeptRowsSound ==
    ASSUME NEW t \in Txns, RowsSound(t), RowsKept(t),
           txn'[t].rows = txn[t].rows, Live(t)' => Live(t),
           disturbed' = disturbed
    PROVE  RowsSound(t)'
<1>1. RowPaths(t)' = RowPaths(t)
      BY DEF RowPaths
<1>2. \A p \in RowPaths(t) : Conflict(t, p)' <=> Conflict(t, p)
      BY DEF RowsKept, Conflict
<1> QED BY <1>1, <1>2 DEF RowsSound, Untouched

\* Two actors never work on the same transaction.
LEMMA OwnersDiffer ==
    ASSUME IInv, NEW a \in Actors, NEW b \in Actors \ {a},
           pc[a] \in Owning, pc[b] \in Owning
    PROVE  op[a].txn # op[b].txn
<1>1. /\ ActorInv(a) /\ ActorInv(b) /\ Rows /\ op[a].txn \in Txns
      /\ Locked(a) /\ Locked(b)
      BY ActorFacts DEF IInv, Owning, Critical
<1>2. /\ op[a].wanted = RowPaths(op[a].txn) /\ op[b].wanted = RowPaths(op[b].txn)
      /\ txn[op[a].txn].status # "none"
      BY <1>1 DEF ActorInv, Owns
<1>3. RowPaths(op[a].txn) # {}
      BY <1>1, <1>2 DEF Rows
<1> QED BY <1>1, <1>2, <1>3 DEF Locked

\* The others find their rows as they left them.
LEMMA OthersGoOn ==
    ASSUME IInv, AtomInv, NEW a \in Actors, Frame(a), Calm(a),
           NEW b \in Actors \ {a}
    PROVE  (Forward(b) /\ Back(b))'
<1>1. pc'[b] = pc[b] /\ op'[b] = op[b] /\ Forward(b) /\ Back(b)
      BY DEF Frame, Alone, AtomInv
<1>2. CASE pc[b] \notin Owning
      BY <1>1, <1>2 DEF Forward, Back, Forwards, Backs, Owning
<1>3. CASE pc[b] \in Owning
      <2>0. PICK t \in Txns : t = op[b].txn
            BY <1>3, ActorFacts
      <2>1. Live(t) /\ (pc[a] \in Owning => t # op[a].txn)
            BY <1>3, <2>0, ActorFacts, OwnersDiffer DEF Live
      <2>2. RowsKept(t)
            BY <2>1, Elsewhere
      <2>3. txn'[t].rows = txn[t].rows /\ disturbed' = disturbed
            BY <2>1 DEF Calm, JournalsKept
      <2>4. RowPaths(t)' = RowPaths(t) /\ Untouched(t)' = Untouched(t)
            BY <2>3 DEF RowPaths, Untouched
      <2>5. \A q \in RowPaths(t) : file'[q] = file[q] /\ trash'[t][q] = trash[t][q]
            BY <2>2 DEF RowsKept
      <2>6. Untouched(t) \subseteq RowPaths(t)
            BY DEF Untouched
      <2>7. Forward(b)'
            BY <1>1, <2>0, <2>3, <2>4, <2>5, <2>6 DEF Forward
      <2>8. Back(b)'
            BY <1>1, <2>0, <2>3, <2>4, <2>5, <2>6 DEF Back
      <2> QED BY <2>7, <2>8
<1> QED BY <1>2, <1>3

\* A step that begins no transaction keeps the invariant if it keeps the rows
\* of its own one, and what it relies on itself.
LEMMA CalmKeeps ==
    ASSUME IInv, AtomInv, NEW a \in Actors, Frame(a), Calm(a),
           \A t \in Txns : pc[a] \in Owning /\ t = op[a].txn => RowsSound(t)',
           Forward(a)', Back(a)'
    PROVE  AtomInv'
<1>1. RowsFit' /\ Apart'
      BY DEF Calm, JournalsKept, AtomInv, RowsFit, Apart, RowPaths
<1>2. Fresh'
      <2>1. ASSUME NEW t \in Txns, txn'[t].status = "none"
            PROVE  txn[t].status = "none" /\ trash'[t] = trash[t]
            <3>1. txn[t].status = "none"
                  BY <2>1 DEF Calm, JournalsKept
            <3>2. pc[a] \in Owning => t # op[a].txn
                  BY <3>1, ActorFacts DEF Incomplete
            <3> QED BY <3>1, <3>2 DEF Calm
      <2> QED BY <2>1 DEF AtomInv, Fresh
<1>3. ASSUME NEW t \in Txns PROVE RowsSound(t)'
      <2>1. CASE pc[a] \in Owning /\ t = op[a].txn
            BY <2>1
      <2>2. CASE Live(t)' /\ (pc[a] \in Owning => t # op[a].txn)
            <3>1. Live(t) /\ txn'[t].rows = txn[t].rows /\ disturbed' = disturbed
                  BY <2>2 DEF Calm, JournalsKept
            <3>2. RowsKept(t) /\ RowsSound(t)
                  BY <2>2, <3>1, Elsewhere DEF AtomInv
            <3> QED BY <3>1, <3>2, KeptRowsSound
      <2> QED BY <2>1, <2>2 DEF RowsSound
<1>4. \A b \in Actors : (Forward(b) /\ Back(b))'
      BY OthersGoOn
<1> QED BY <1>1, <1>2, <1>3, <1>4 DEF AtomInv

LEMMA StillCalm ==
    ASSUME AtomInv, NEW a \in Actors, UNCHANGED <<file, trash, disturbed>>,
           JournalsKept
    PROVE  Calm(a) /\ \A t \in Txns : RowsSound(t)'
<1>1. Calm(a)
      BY DEF Calm
<1>2. \A t \in Txns : RowsKept(t) /\ RowsSound(t)
      BY DEF RowsKept, AtomInv
<1>3. \A t \in Txns : txn'[t].rows = txn[t].rows /\ (Live(t)' => Live(t))
      BY DEF JournalsKept
<1> QED BY <1>1, <1>2, <1>3, KeptRowsSound

LEMMA SameJournals == ASSUME txn' = txn PROVE JournalsKept
BY DEF JournalsKept, Live

LEMMA StatusKeepsJournals ==
    ASSUME VarTypes, NEW t \in Txns, Live(t), NEW s \in Statuses \ {"none"},
           SetStatus(t, s)
    PROVE  JournalsKept
<1>1. /\ txn'[t].status = s
      /\ \A u \in Txns : txn'[u].rows = txn[u].rows
      /\ \A u \in Txns \ {t} : txn'[u] = txn[u]
      BY SetStatusFacts
<1> QED BY <1>1 DEF JournalsKept, Live

-----------------------------------------------------------------------------
(* Atomicity: the actions *)

\* The actor works on no transaction afterwards.
LEMMA OutsideOK ==
    ASSUME IInv, AtomInv, NEW a \in Actors, StepOK(a), pc'[a] \notin Owning,
           UNCHANGED <<file, trash, disturbed>>, JournalsKept
    PROVE  AtomInv'
<1>1. Forward(a)' /\ Back(a)'
      BY DEF Forward, Back, Forwards, Backs, Owning
<1> QED BY <1>1, StillCalm, CalmKeeps DEF StepOK

\* It has all of a transaction to take back.
LEMMA TakesBackOK ==
    ASSUME IInv, AtomInv, NEW a \in Actors, StepOK(a), NEW t \in Txns,
           UNCHANGED <<file, trash, disturbed>>, JournalsKept,
           pc'[a] = "recRow", op'[a].txn = t, op'[a].todo = RowPaths(t)
    PROVE  AtomInv'
<1>1. RowPaths(t)' = RowPaths(t)
      BY DEF JournalsKept, RowPaths
<1>2. Forward(a)' /\ Back(a)'
      BY <1>1 DEF Forward, Back, Forwards, Untouched
<1> QED BY <1>2, StillCalm, CalmKeeps DEF StepOK

LEMMA NowAt ==
    ASSUME VarTypes, NEW a \in Actors
    PROVE  /\ \A to : Goto(a, to) => pc'[a] = to
           /\ \A r : Local(a, r) => op'[a] = r
           /\ EndOp(a) => pc'[a] = "idle"
           /\ Retry(a) => pc'[a] = "gate"
           /\ \A S : Advance(a, S) => pc'[a] \in {"recLock", "lock"}
BY Zenon DEF VarTypes, Goto, Local, EndOp, Retry, Advance

LEMMA CompensateAtom ==
    ASSUME IInv, AtomInv, NEW a \in Actors, pc[a] \in Forwards, Compensate(a),
           UNCHANGED <<file, trash, manifest, stamp, lock, disturbed>>
    PROVE  AtomInv'
<1>0. VarTypes /\ op[a] \in OpType /\ pc[a] \in Owning /\ StepOK(a)
      BY ActorFacts, CompensatesOK DEF Forwards, Owning
<1>1. PICK t \in Txns : t = op[a].txn /\ Live(t)
      BY <1>0, ActorFacts DEF Live
<1>2. JournalsKept
      BY <1>0, <1>1, StatusKeepsJournals DEF Compensate, Statuses, Incomplete
<1>3. pc'[a] = "recRow" /\ op'[a].txn = t /\ op'[a].todo = RowPaths(t)
      <2>1. op'[a] = [op[a] EXCEPT !.todo = RowPaths(t), !.own = TRUE]
            BY <1>0, <1>1, NowAt DEF Compensate
      <2> QED BY <1>0, <1>1, <2>1, NowAt DEF Compensate, OpType
<1> QED BY <1>0, <1>2, <1>3, TakesBackOK

LEMMA ReadTxnAtom ==
    ASSUME IInv, AtomInv, NEW a \in Actors, ReadTxn(a) PROVE AtomInv'
<1>0. /\ VarTypes /\ op[a] \in OpType /\ ActorInv(a) /\ StepOK(a)
      /\ UNCHANGED <<file, trash, disturbed>> /\ pc[a] = "recLock"
      BY ActorFacts, ReadTxnOK DEF ReadTxn, history
<1>1. PICK t \in Txns : t = op[a].txn
      BY <1>0 DEF ActorInv, Owns
<1>2. CASE Live(t)
      <2>1. JournalsKept
            BY <1>0, <1>1, <1>2, StatusKeepsJournals
            DEF ReadTxn, Statuses, Incomplete, Live
      <2>2. pc'[a] = "recRow" /\ op'[a] = [op[a] EXCEPT !.todo = RowPaths(t)]
            BY <1>0, <1>1, <1>2, NowAt DEF ReadTxn, Live
      <2>3. op'[a].txn = t /\ op'[a].todo = RowPaths(t)
            BY <1>0, <1>1, <2>2 DEF OpType
      <2> QED BY Zenon, <1>0, <2>1, <2>2, <2>3, TakesBackOK
<1>3. CASE ~Live(t)
      <2>1. txn' = txn /\ Advance(a, op[a].listed \ {t})
            BY <1>1, <1>3 DEF ReadTxn, Live
      <2>2. pc'[a] \notin Owning
            BY <1>0, <2>1, NowAt DEF Owning
      <2> QED BY <1>0, <2>1, <2>2, SameJournals, OutsideOK
<1> QED BY <1>2, <1>3

\* Steps that leave the files, the trash and the journals alone.
LEMMA ElsewhereAtom ==
    ASSUME IInv, AtomInv, NEW a \in Actors,
           \/ Lock(a) \/ List(a) \/ Capture(a) \/ Execute(a) \/ Complete(a)
           \/ Prepare(a) \/ BeginRestore(a) \/ Crash(a)
    PROVE  AtomInv'
<1>0. VarTypes
      BY ActorFacts
<1>1. StepOK(a)
      BY LockOK, ListOK, CaptureOK, ExecuteOK, CompleteOK, PrepareOK,
         BeginRestoreOK, FaultOK
<1>2. UNCHANGED <<file, trash, txn, disturbed>>
      BY Zenon DEF Lock, List, Capture, Execute, Complete, Prepare, BeginRestore,
             Crash, disk, history
<1>3. pc'[a] \in {"idle", "gate", "lock", "recLock", "rename"}
      <2>1. CASE Lock(a) \/ List(a)
            BY <1>0, <2>1, NowAt DEF Lock, List
      <2>2. CASE Capture(a)
            BY <1>0, <2>2, NowAt DEF Capture
      <2>3. CASE Execute(a) \/ Complete(a)
            BY <1>0, <2>3, NowAt DEF Execute, Complete
      <2>4. CASE Prepare(a) \/ BeginRestore(a) \/ Crash(a)
            BY Zenon, <1>0, <2>4, NowAt DEF Prepare, BeginRestore, Crash
      <2> QED BY <2>1, <2>2, <2>3, <2>4
<1> QED BY <1>1, <1>2, <1>3, SameJournals, OutsideOK DEF Owning

\* The last status of a transaction.
LEMMA LastAtom ==
    ASSUME IInv, AtomInv, NEW a \in Actors, RecoverEnd(a) \/ Commit(a)
    PROVE  AtomInv'
<1>0. /\ VarTypes /\ StepOK(a) /\ UNCHANGED <<file, trash, disturbed>>
      /\ pc[a] \in Owning
      BY ActorFacts, RecoverEndOK, CommitOK
      DEF RecoverEnd, Commit, history, Owning
<1>1. PICK t \in Txns : t = op[a].txn /\ Live(t)
      BY <1>0, ActorFacts DEF Live
<1>2. \E s \in {"recovery_conflict", "rolled_back", "committed"} :
          SetStatus(t, s)
      BY <1>1 DEF RecoverEnd, Commit
<1>3. JournalsKept
      BY <1>0, <1>1, <1>2, StatusKeepsJournals DEF Statuses, Incomplete
<1>4. pc'[a] \notin Owning
      BY <1>0, NowAt DEF RecoverEnd, Commit, Owning
<1> QED BY <1>0, <1>3, <1>4, OutsideOK

LEMMA RenameAtom ==
    ASSUME IInv, AtomInv, NEW a \in Actors, Rename(a) PROVE AtomInv'
<1>0. VarTypes /\ StepOK(a) /\ disturbed' = disturbed /\ op[a].path \in Paths
      BY Zenon, ActorFacts, RenameOK DEF Rename, history, OpType
<1>1. pc[a] = "rename" /\ pc'[a] = "complete" /\ txn' = txn /\ trash' = trash
      BY <1>0, NowAt DEF Rename
<1>2. \A q \in Paths \ {op[a].path} : file'[q] = file[q]
      BY <1>0 DEF Rename, VarTypes
<1>3. Calm(a)
      BY <1>0, <1>1, <1>2, SameJournals DEF Calm
<1>4. Forward(a)' /\ Back(a)' /\ pc[a] \notin Owning
      BY <1>1 DEF Forward, Back, Forwards, Backs, Owning
<1> QED BY <1>0, <1>3, <1>4, CalmKeeps DEF StepOK

\* The actor works on one row of its transaction.
OneRow(t, p) ==
    /\ txn' = txn /\ disturbed' = disturbed
    /\ \A q \in Paths \ {p} : file'[q] = file[q] /\ trash'[t][q] = trash[t][q]
    /\ \A u \in Txns \ {t} : trash'[u] = trash[u]

LEMMA OneRowOK ==
    ASSUME IInv, AtomInv, NEW a \in Actors, StepOK(a), pc[a] \in Owning,
           NEW t \in Txns, t = op[a].txn, NEW p \in RowPaths(t), OneRow(t, p),
           p \in Untouched(t) => ~Conflict(t, p)',
           Forward(a)', Back(a)'
    PROVE  AtomInv'
<1>1. Calm(a)
      BY SameJournals DEF Calm, OneRow
<1>2. RowsSound(t)'
      <2>1. RowPaths(t)' = RowPaths(t) /\ Untouched(t)' = Untouched(t)
            BY DEF OneRow, RowPaths, Untouched
      <2>2. ASSUME Live(t)', NEW q \in Untouched(t)', q # p
            PROVE  ~Conflict(t, q)'
            <3>1. q \in Untouched(t) /\ q \in Paths \ {p} /\ Live(t)
                  BY <2>1, <2>2 DEF Untouched, RowPaths, OneRow, Live
            <3>2. ~Conflict(t, q)
                  BY <3>1 DEF AtomInv, RowsSound
            <3>3. file'[q] = file[q] /\ trash'[t][q] = trash[t][q] /\ txn' = txn
                  BY <3>1 DEF OneRow
            <3> QED BY Zenon, <3>2, <3>3 DEF Conflict
      <2> QED BY <2>1, <2>2 DEF RowsSound
<1>3. Frame(a)
      BY DEF StepOK
<1> QED BY <1>1, <1>2, <1>3, CalmKeeps

LEMMA DoneFacts ==
    ASSUME NEW a \in Actors, op[a] \in OpType
    PROVE  /\ RowDone(a).todo = op[a].todo \ {Max(op[a].todo)}
           /\ RowDone(a).txn = op[a].txn /\ RowDone(a).failed = op[a].failed
           /\ RowFailed(a).todo = op[a].todo \ {Max(op[a].todo)}
           /\ RowFailed(a).txn = op[a].txn /\ RowFailed(a).failed
<1> DEFINE S == op[a].todo \ {Max(op[a].todo)}
           r == [op[a] EXCEPT !.todo = S]
<1>1. RowDone(a) = r /\ RowFailed(a) = [r EXCEPT !.failed = TRUE]
      BY DEF RowDone, RowFailed
<1>2. r.todo = S /\ r.txn = op[a].txn /\ r.failed = op[a].failed
      BY DEF OpType
<1>3. /\ [r EXCEPT !.failed = TRUE].todo = S
      /\ [r EXCEPT !.failed = TRUE].txn = op[a].txn
      /\ [r EXCEPT !.failed = TRUE].failed
      BY <1>2 DEF OpType
<1> QED BY <1>1, <1>2, <1>3

\* One assignment to the trash.
LEMMA TrashAt ==
    ASSUME VarTypes, NEW t \in Txns, NEW p \in Paths, NEW v,
           trash' = [trash EXCEPT ![t][p] = v]
    PROVE  /\ trash'[t][p] = v
           /\ \A q \in Paths \ {p} : trash'[t][q] = trash[t][q]
           /\ \A u \in Txns \ {t} : trash'[u] = trash[u]
BY DEF VarTypes

\* Where a recovery stands.
LEMMA BackFacts ==
    ASSUME IInv, AtomInv, NEW a \in Actors, pc[a] \in Backs, op[a].todo # {},
           NEW p, p = Max(op[a].todo), NEW t \in Txns, t = op[a].txn
    PROVE  /\ p \in op[a].todo /\ p \in RowPaths(t) /\ p \in Paths
           /\ op[a].todo \subseteq RowPaths(t)
           /\ p \in Untouched(t) => ~Conflict(t, p)
           /\ Live(t)
<1>1. op[a] \in OpType /\ Live(t)
      BY ActorFacts DEF Backs, Owning, Live
<1>2. p \in op[a].todo /\ p \in Paths
      BY <1>1, GreatestPath DEF OpType
<1>3. op[a].todo \subseteq RowPaths(t)
      BY DEF AtomInv, Back
<1>4. p \in Untouched(t) => ~Conflict(t, p)
      BY <1>1 DEF AtomInv, RowsSound
<1> QED BY <1>1, <1>2, <1>3, <1>4

\* A row of a recovery is done: as it was at the start, and the trash empty.
LEMMA RowBack ==
    ASSUME IInv, AtomInv, NEW a \in Actors, StepOK(a), pc[a] \in Backs,
           op[a].todo # {}, NEW t \in Txns, t = op[a].txn,
           NEW p, p = Max(op[a].todo), OneRow(t, p),
           pc'[a] = "recRow", op'[a] = RowDone(a), trash'[t][p] = NoFile,
           p \in Untouched(t) => file'[p].data = txn[t].rows[p].data
    PROVE  AtomInv'
<1>0. op[a] \in OpType /\ pc[a] \in Owning
      BY ActorFacts DEF Backs, Owning
<1>1. /\ p \in op[a].todo /\ p \in RowPaths(t) /\ p \in Paths
      /\ op[a].todo \subseteq RowPaths(t)
      BY BackFacts
<1>2. op'[a].todo = op[a].todo \ {p} /\ op'[a].txn = t
      /\ op'[a].failed = op[a].failed
      BY <1>0, DoneFacts
<1>3. RowPaths(t)' = RowPaths(t) /\ Untouched(t)' = Untouched(t)
      BY DEF OneRow, RowPaths, Untouched
<1>4. Forward(a)'
      BY DEF Forward, Forwards
<1>5. Back(a)'
      <2>1. ASSUME ~op[a].failed, NEW q \in Untouched(t) \ op'[a].todo
            PROVE  file'[q].data = txn[t].rows[q].data /\ trash'[t][q] = NoFile
            <3>1. CASE q # p
                  <4>1. /\ q \in Untouched(t) \ op[a].todo /\ q \in Paths \ {p}
                        BY <1>2, <2>1, <3>1 DEF Untouched, RowPaths
                  <4>2. file[q].data = txn[t].rows[q].data /\ trash[t][q] = NoFile
                        BY <2>1, <4>1 DEF AtomInv, Back
                  <4> QED BY <4>1, <4>2 DEF OneRow
            <3> QED BY <2>1, <3>1
      <2>2. txn' = txn /\ op'[a].todo \subseteq RowPaths(t)
            BY <1>1, <1>2 DEF OneRow
      <2> QED BY <1>2, <1>3, <2>1, <2>2 DEF Back
<1>6. p \in Untouched(t) => ~Conflict(t, p)'
      BY DEF Conflict, OneRow, NoFile
<1> QED BY <1>0, <1>1, <1>4, <1>5, <1>6, OneRowOK

\* A row that fails stays as it is; nothing is claimed of the rows done.
LEMMA RowFails ==
    ASSUME IInv, AtomInv, NEW a \in Actors, StepOK(a), pc[a] \in Backs,
           op[a].todo # {}, UNCHANGED <<file, trash, txn, disturbed>>,
           pc'[a] = "recRow", op'[a] = RowFailed(a)
    PROVE  AtomInv'
<1>0. op[a] \in OpType /\ pc[a] \in Owning
      BY ActorFacts DEF Backs, Owning
<1>1. PICK t \in Txns : t = op[a].txn
      BY <1>0, ActorFacts
<1>2. op[a].todo \subseteq RowPaths(t)
      BY <1>1, BackFacts
<1>3. op'[a].todo \subseteq op[a].todo /\ op'[a].txn = t /\ op'[a].failed
      BY <1>0, <1>1, DoneFacts
<1>4. RowPaths(t)' = RowPaths(t)
      BY DEF RowPaths
<1>5. Forward(a)' /\ Back(a)'
      BY <1>2, <1>3, <1>4 DEF Forward, Forwards, Back
<1> QED BY <1>5, StillCalm, SameJournals, CalmKeeps DEF StepOK

LEMMA RecoverRowAtom ==
    ASSUME IInv, AtomInv, NEW a \in Actors, RecoverRow(a) PROVE AtomInv'
<1>0. /\ VarTypes /\ StepOK(a) /\ pc[a] = "recRow" /\ op[a].todo # {}
      /\ pc[a] \in Backs /\ pc[a] \in Owning
      BY ActorFacts, RecoverRowOK DEF RecoverRow, Backs, Owning
<1>1. PICK t \in Txns : t = op[a].txn
      BY <1>0, ActorFacts
<1>2. PICK p : p = Max(op[a].todo)
      OBVIOUS
<1>3. p \in RowPaths(t) /\ p \in Paths
      BY <1>0, <1>1, <1>2, BackFacts
<1>4. UNCHANGED <<file, txn, disturbed>>
      BY DEF RecoverRow, history
<1>5. CASE trash' = trash /\ pc' = pc /\ op'[a] = RowFailed(a)
      BY <1>0, <1>4, <1>5, RowFails
<1>6. CASE /\ file[p].data = txn[t].rows[p].data
           /\ trash' = [trash EXCEPT ![t][p] = NoFile]
           /\ pc' = pc /\ op'[a] = RowDone(a)
      <2>1. OneRow(t, p) /\ trash'[t][p] = NoFile
            <3>1. /\ trash'[t][p] = NoFile
                  /\ \A q \in Paths \ {p} : trash'[t][q] = trash[t][q]
                  /\ \A u \in Txns \ {t} : trash'[u] = trash[u]
                  BY <1>0, <1>3, <1>6, TrashAt, Zenon
            <3> QED BY <1>4, <3>1 DEF OneRow
      <2> QED BY <1>0, <1>1, <1>2, <1>4, <1>6, <2>1, RowBack
<1>7. CASE /\ file[p].data # txn[t].rows[p].data
           /\ trash' = trash /\ pc'[a] = "recSwap" /\ op' = op
      <2>1. RowPaths(t)' = RowPaths(t) /\ Untouched(t)' = Untouched(t)
            BY <1>4 DEF RowPaths, Untouched
      <2>2. Back(a)
            BY DEF AtomInv
      <2>3. Back(a)'
            BY <1>0, <1>1, <1>2, <1>4, <1>7, <2>1, <2>2 DEF Back, Backs
      <2>4. Forward(a)'
            BY <1>7 DEF Forward, Forwards
      <2> QED BY <1>0, <1>4, <1>7, <2>3, <2>4, StillCalm, SameJournals, CalmKeeps
              DEF StepOK
<1>8. \/ trash' = trash /\ pc' = pc /\ op'[a] = RowFailed(a)
      \/ /\ file[p].data = txn[t].rows[p].data
         /\ trash' = [trash EXCEPT ![t][p] = NoFile]
         /\ pc' = pc /\ op'[a] = RowDone(a)
      \/ /\ file[p].data # txn[t].rows[p].data
         /\ trash' = trash /\ pc'[a] = "recSwap" /\ op' = op
      BY <1>0, <1>1, <1>2, NowAt DEF RecoverRow
<1> QED BY <1>5, <1>6, <1>7, <1>8

LEMMA RecoverSwapAtom ==
    ASSUME IInv, AtomInv, NEW a \in Actors, RecoverSwap(a) PROVE AtomInv'
<1>0. /\ VarTypes /\ StepOK(a) /\ pc[a] = "recSwap" /\ op[a].todo # {}
      /\ pc[a] \in Backs /\ pc[a] \in Owning
      BY Zenon, ActorFacts, RecoverSwapOK DEF RecoverSwap, Backs, Owning, ActorInv, Place
<1>1. PICK t \in Txns : t = op[a].txn
      BY <1>0, ActorFacts
<1>2. PICK p : p = Max(op[a].todo)
      OBVIOUS
<1> DEFINE r == txn[t].rows[p]
           moved == r.action = "trash" /\ ~crossDevice
<1>3. /\ p \in RowPaths(t) /\ p \in Paths
      /\ p \in Untouched(t) => ~Conflict(t, p)
      BY <1>0, <1>1, <1>2, BackFacts
<1>4. UNCHANGED <<txn, disturbed>>
      BY DEF RecoverSwap, history
<1>5. /\ \A q \in Paths \ {p} : file'[q] = file[q]
      /\ file'[p].data = IF moved THEN trash[t][p].data ELSE r.data
      <2>1. file' = [file EXCEPT ![p] =
                IF moved THEN trash[t][p] ELSE [data |-> r.data, ino |-> stamp + 1]]
            BY <1>1, <1>2 DEF RecoverSwap
      <2> QED BY <1>0, <1>3, <2>1 DEF VarTypes
<1>6. ASSUME p \in Untouched(t)
      PROVE  /\ file'[p].data = r.data
             /\ r.action = "trash" => trash[t][p].data = r.data
      <2>1. file[p].data # r.data
            BY <1>0, <1>1, <1>2, <1>6 DEF AtomInv, Back, Backs
      <2>2. r.action = "trash" => trash[t][p].data = r.data
            <3>1. r.action = "trash" => r.data # 0
                  BY <1>3 DEF AtomInv, RowsFit
            <3> QED BY <1>3, <1>6, <2>1, <3>1 DEF Conflict
      <2> QED BY <1>5, <2>2
<1>7. CASE /\ trash' = [trash EXCEPT ![t][p] = NoFile]
           /\ pc'[a] = "recRow" /\ op'[a] = RowDone(a)
      <2>1. OneRow(t, p) /\ trash'[t][p] = NoFile
            <3>1. /\ trash'[t][p] = NoFile
                  /\ \A q \in Paths \ {p} : trash'[t][q] = trash[t][q]
                  /\ \A u \in Txns \ {t} : trash'[u] = trash[u]
                  BY <1>0, <1>3, <1>7, TrashAt, Zenon
            <3> QED BY <1>4, <1>5, <3>1 DEF OneRow
      <2> QED BY <1>0, <1>1, <1>2, <1>6, <1>7, <2>1, RowBack
<1>8. CASE /\ r.action = "trash" /\ trash' = trash
           /\ pc'[a] = "recUnlink" /\ op' = op
      <2>1. RowPaths(t)' = RowPaths(t) /\ Untouched(t)' = Untouched(t)
            BY <1>4 DEF RowPaths, Untouched
      <2>2. OneRow(t, p)
            BY <1>4, <1>5, <1>8 DEF OneRow
      <2>3. p \in Untouched(t) => ~Conflict(t, p)'
            BY <1>4, <1>6, <1>8 DEF Conflict
      <2>4. Back(a)' /\ Forward(a)'
            <3>1. op[a].todo \subseteq RowPaths(t) /\ p \in op[a].todo
                  BY <1>0, <1>1, <1>2, BackFacts
            <3>2. ASSUME ~op[a].failed, NEW q \in Untouched(t) \ op[a].todo
                  PROVE  file'[q].data = txn[t].rows[q].data /\ trash'[t][q] = NoFile
                  <4>1. file[q].data = txn[t].rows[q].data /\ trash[t][q] = NoFile
                        BY <1>0, <1>1, <3>2 DEF AtomInv, Back
                  <4>2. q \in Paths \ {p}
                        BY <3>1, <3>2 DEF Untouched, RowPaths
                  <4> QED BY <4>1, <4>2, <2>2 DEF OneRow
            <3> QED BY <1>1, <1>2, <1>4, <1>6, <1>8, <2>1, <3>1, <3>2
                    DEF Back, Forward, Forwards
      <2> QED BY <1>0, <1>1, <1>3, <2>2, <2>3, <2>4, OneRowOK
<1>9. \/ /\ trash' = [trash EXCEPT ![t][p] = NoFile]
         /\ pc'[a] = "recRow" /\ op'[a] = RowDone(a)
      \/ /\ r.action = "trash" /\ trash' = trash
         /\ pc'[a] = "recUnlink" /\ op' = op
      BY <1>0, <1>1, <1>2, NowAt DEF RecoverSwap
<1> QED BY <1>7, <1>8, <1>9

LEMMA RecoverUnlinkAtom ==
    ASSUME IInv, AtomInv, NEW a \in Actors, RecoverUnlink(a) PROVE AtomInv'
<1>0. /\ VarTypes /\ StepOK(a) /\ pc[a] = "recUnlink" /\ op[a].todo # {}
      /\ pc[a] \in Backs /\ pc[a] \in Owning
      BY Zenon, ActorFacts, RecoverUnlinkOK
      DEF RecoverUnlink, Backs, Owning, ActorInv, Place
<1>1. PICK t \in Txns : t = op[a].txn
      BY <1>0, ActorFacts
<1>2. PICK p : p = Max(op[a].todo)
      OBVIOUS
<1>3. p \in RowPaths(t) /\ p \in Paths
      BY <1>0, <1>1, <1>2, BackFacts
<1>4. UNCHANGED <<file, txn, disturbed>>
      BY DEF RecoverUnlink, history
<1>5. /\ trash' = [trash EXCEPT ![t][p] = NoFile]
      /\ pc'[a] = "recRow" /\ op'[a] = RowDone(a)
      BY <1>0, <1>1, <1>2, NowAt DEF RecoverUnlink
<1>6. OneRow(t, p) /\ trash'[t][p] = NoFile
      <2>1. /\ trash'[t][p] = NoFile
            /\ \A q \in Paths \ {p} : trash'[t][q] = trash[t][q]
            /\ \A u \in Txns \ {t} : trash'[u] = trash[u]
            BY <1>0, <1>3, <1>5, TrashAt, Zenon
      <2> QED BY <1>4, <2>1 DEF OneRow
<1>7. p \in Untouched(t) => file[p].data = txn[t].rows[p].data
      BY <1>0, <1>1, <1>2 DEF AtomInv, Back
<1> QED BY <1>0, <1>1, <1>2, <1>4, <1>5, <1>6, <1>7, RowBack

LEMMA RecoverFailsAtom ==
    ASSUME IInv, AtomInv, NEW a \in Actors, RecoverFails(a) PROVE AtomInv'
<1>0. /\ VarTypes /\ StepOK(a) /\ op[a].todo # {} /\ pc[a] \in Backs
      BY ActorFacts, RecoverFailsOK DEF RecoverFails, Backs
<1>1. /\ UNCHANGED <<file, trash, txn, disturbed>>
      /\ pc'[a] = "recRow" /\ op'[a] = RowFailed(a)
      BY <1>0, NowAt DEF RecoverFails, disk, history
<1> QED BY <1>0, <1>1, RowFails

-----------------------------------------------------------------------------
(* Atomicity: a restore *)

\* Where a restore stands.
LEMMA ForwardFacts ==
    ASSUME IInv, AtomInv, NEW a \in Actors, pc[a] \in Forwards,
           op[a].todo # {}, NEW p, p = Min(op[a].todo),
           NEW t \in Txns, t = op[a].txn
    PROVE  /\ p \in op[a].todo /\ p \in RowPaths(t) /\ p \in Paths
           /\ op[a].todo \subseteq RowPaths(t)
           /\ p \in Untouched(t) => /\ ~Conflict(t, p)
                                    /\ file[p].data = txn[t].rows[p].data
           /\ Live(t)
<1>1. op[a] \in OpType /\ Live(t)
      BY ActorFacts DEF Forwards, Owning, Live
<1>2. p \in op[a].todo /\ p \in Paths
      BY <1>1, LeastPath DEF OpType
<1>3. op[a].todo \subseteq RowPaths(t)
      BY DEF AtomInv, Forward
<1>4. p \in Untouched(t) => ~Conflict(t, p)
      BY <1>1 DEF AtomInv, RowsSound
<1>5. p \in Untouched(t) => file[p].data = txn[t].rows[p].data
      BY <1>2 DEF AtomInv, Forward
<1> QED BY <1>1, <1>2, <1>3, <1>4, <1>5

\* A row of a restore is done: it has its before-image.
LEMMA RowForward ==
    ASSUME IInv, AtomInv, NEW a \in Actors, StepOK(a), pc[a] \in Forwards,
           op[a].todo # {}, NEW t \in Txns, t = op[a].txn,
           NEW p, p = Min(op[a].todo), OneRow(t, p),
           pc'[a] = "row", op'[a] = [op[a] EXCEPT !.todo = @ \ {p}],
           p \in Untouched(t) =>
               file'[p].data = txn[t].rows[p].result /\ ~Conflict(t, p)'
    PROVE  AtomInv'
<1>0. op[a] \in OpType /\ pc[a] \in Owning
      BY ActorFacts DEF Forwards, Owning
<1>1. /\ p \in op[a].todo /\ p \in RowPaths(t) /\ p \in Paths
      /\ op[a].todo \subseteq RowPaths(t)
      BY ForwardFacts
<1>2. op'[a].todo = op[a].todo \ {p} /\ op'[a].txn = t
      BY <1>0 DEF OpType
<1>3. RowPaths(t)' = RowPaths(t) /\ Untouched(t)' = Untouched(t)
      BY DEF OneRow, RowPaths, Untouched
<1>4. Back(a)'
      BY DEF Back, Backs
<1>5. Forward(a)'
      <2>1. ASSUME NEW q \in Untouched(t)
            PROVE  file'[q].data = IF q \in op'[a].todo THEN txn[t].rows[q].data
                                   ELSE txn[t].rows[q].result
            <3>1. CASE q # p
                  <4>1. q \in Paths \ {p}
                        BY <2>1, <3>1 DEF Untouched, RowPaths
                  <4>2. file[q].data = IF q \in op[a].todo THEN txn[t].rows[q].data
                                       ELSE txn[t].rows[q].result
                        BY <2>1 DEF AtomInv, Forward
                  <4> QED BY <1>2, <3>1, <4>1, <4>2 DEF OneRow
            <3> QED BY <1>2, <2>1, <3>1
      <2>2. txn' = txn /\ op'[a].todo \subseteq RowPaths(t)
            BY <1>1, <1>2 DEF OneRow
      <2> QED BY <1>2, <1>3, <2>1, <2>2 DEF Forward
<1> QED BY <1>0, <1>1, <1>4, <1>5, OneRowOK

LEMMA RestoreRowAtom ==
    ASSUME IInv, AtomInv, NEW a \in Actors, RestoreRow(a) PROVE AtomInv'
<1>0. /\ VarTypes /\ StepOK(a) /\ pc[a] = "row" /\ op[a].todo # {}
      /\ pc[a] \in Forwards /\ pc[a] \in Owning /\ op[a] \in OpType
      BY ActorFacts, RestoreRowOK DEF RestoreRow, Forwards, Owning
<1>1. PICK t \in Txns : t = op[a].txn
      BY <1>0, ActorFacts
<1>2. PICK p : p = Min(op[a].todo)
      OBVIOUS
<1>3. /\ p \in RowPaths(t) /\ p \in Paths
      /\ p \in Untouched(t) => /\ ~Conflict(t, p)
                               /\ file[p].data = txn[t].rows[p].data
      BY <1>0, <1>1, <1>2, ForwardFacts
<1>4. UNCHANGED <<file, trash, manifest, stamp, lock, disturbed>>
      BY DEF RestoreRow, history
<1>5. CASE Compensate(a)
      BY <1>0, <1>4, <1>5, CompensateAtom
<1>6. CASE /\ txn[t].rows[p].action = "noop" /\ txn' = txn /\ pc' = pc
           /\ op'[a] = [op[a] EXCEPT !.todo = @ \ {p}]
      <2>1. OneRow(t, p)
            BY <1>4, <1>6 DEF OneRow
      <2>2. txn[t].rows[p].data = txn[t].rows[p].result
            BY <1>3, <1>6 DEF AtomInv, RowsFit
      <2>3. p \in Untouched(t) => ~Conflict(t, p)'
            BY <1>3, <1>4, <1>6 DEF Conflict
      <2> QED BY <1>0, <1>1, <1>2, <1>3, <1>4, <1>6, <2>1, <2>2, <2>3, RowForward
<1>7. CASE /\ txn[t].rows[p].action # "noop" /\ txn' = txn /\ op' = op
           /\ pc'[a] = "swap"
      <2>1. RowPaths(t)' = RowPaths(t) /\ Untouched(t)' = Untouched(t)
            BY <1>4, <1>7 DEF RowPaths, Untouched
      <2>2. txn[t].rows[p].action \in {"restore", "trash"}
            <3>1. txn[t].rows[p] \in PlannedRow
                  BY <1>0, <1>3 DEF VarTypes, TxnType
            <3> QED BY <1>3, <1>7, <3>1 DEF RowPaths, PlannedRow
      <2>3. Forward(a)
            BY DEF AtomInv
      <2>4. Forward(a)' /\ Back(a)'
            BY <1>0, <1>1, <1>2, <1>4, <1>7, <2>1, <2>2, <2>3
            DEF Forward, Back, Backs
      <2> QED BY <1>0, <1>4, <1>7, <2>4, StillCalm, SameJournals, CalmKeeps
              DEF StepOK
<1>8. \/ Compensate(a)
      \/ /\ txn[t].rows[p].action = "noop" /\ txn' = txn /\ pc' = pc
         /\ op'[a] = [op[a] EXCEPT !.todo = @ \ {p}]
      \/ /\ txn[t].rows[p].action # "noop" /\ txn' = txn /\ op' = op
         /\ pc'[a] = "swap"
      BY <1>0, <1>1, <1>2, NowAt DEF RestoreRow
<1> QED BY <1>5, <1>6, <1>7, <1>8

LEMMA SwapAtom ==
    ASSUME IInv, AtomInv, NEW a \in Actors, Swap(a) PROVE AtomInv'
<1>0. /\ VarTypes /\ StepOK(a) /\ pc[a] = "swap" /\ op[a].todo # {}
      /\ pc[a] \in Forwards /\ pc[a] \in Owning /\ op[a] \in OpType
      BY ActorFacts, SwapOK DEF Swap, Forwards, Owning, ActorInv, Place
<1>1. PICK t \in Txns : t = op[a].txn
      BY <1>0, ActorFacts
<1>2. PICK p : p = Min(op[a].todo)
      OBVIOUS
<1> DEFINE r == txn[t].rows[p]
<1>3. /\ p \in op[a].todo /\ p \in RowPaths(t) /\ p \in Paths
      /\ op[a].todo \subseteq RowPaths(t)
      /\ p \in Untouched(t) => ~Conflict(t, p) /\ file[p].data = r.data
      BY <1>0, <1>1, <1>2, ForwardFacts
<1>4. UNCHANGED <<manifest, lock, disturbed>>
      BY DEF Swap, history
<1>5. r.action \in {"restore", "trash"}
      BY <1>0, <1>1, <1>2 DEF AtomInv, Forward, Forwards
<1>6. /\ r.action = "trash" => r.result = 0 /\ r.data # 0
      /\ r.action = "restore" => r.result # 0 /\ r.data # 0
      BY <1>3 DEF AtomInv, RowsFit
<1>7. CASE Compensate(a) /\ UNCHANGED <<file, trash, stamp>>
      BY <1>0, <1>4, <1>7, CompensateAtom
<1>8. CASE /\ r.action = "restore"
           /\ file' = [file EXCEPT ![p] = [data |-> r.result, ino |-> stamp + 1]]
           /\ trash' = trash /\ txn' = txn
           /\ pc'[a] = "row" /\ op'[a] = [op[a] EXCEPT !.todo = @ \ {p}]
      <2>1. /\ file'[p].data = r.result
            /\ \A q \in Paths \ {p} : file'[q] = file[q]
            BY <1>0, <1>3, <1>8 DEF VarTypes
      <2>2. OneRow(t, p)
            BY <1>4, <1>8, <2>1 DEF OneRow
      <2>3. p \in Untouched(t) => ~Conflict(t, p)'
            BY <1>3, <1>6, <1>8, <2>1 DEF Conflict
      <2> QED BY Zenon, <1>0, <1>1, <1>2, <1>8, <2>1, <2>2, <2>3, RowForward
<1> DEFINE gone == /\ file' = [file EXCEPT ![p] = NoFile] /\ pc'[a] = "row"
                   /\ op'[a] = [op[a] EXCEPT !.todo = @ \ {p}]
           copy == file' = file /\ pc'[a] = "copied" /\ op' = op
<1>9. CASE /\ r.action = "trash" /\ trash' = [trash EXCEPT ![t][p] = file[p]]
           /\ txn' = txn /\ (gone \/ copy)
      <2>1. /\ trash'[t][p] = file[p]
            /\ \A q \in Paths \ {p} : trash'[t][q] = trash[t][q]
            /\ \A u \in Txns \ {t} : trash'[u] = trash[u]
            BY <1>0, <1>3, <1>9, TrashAt, Zenon
      <2>2. CASE gone
            <3>1. /\ file'[p].data = 0
                  /\ \A q \in Paths \ {p} : file'[q] = file[q]
                  BY <1>0, <1>3, <2>2 DEF VarTypes, NoFile
            <3>2. OneRow(t, p)
                  BY <1>4, <1>9, <2>1, <3>1 DEF OneRow
            <3>3. p \in Untouched(t) => ~Conflict(t, p)'
                  BY <1>3, <1>6, <1>9, <2>1, <3>1 DEF Conflict
            <3> QED BY <1>0, <1>1, <1>2, <1>6, <1>9, <2>2, <3>1, <3>2, <3>3,
                       RowForward
      <2>3. CASE copy
            <3>1. OneRow(t, p)
                  BY <1>4, <1>9, <2>1, <2>3 DEF OneRow
            <3>2. p \in Untouched(t) => ~Conflict(t, p)'
                  BY <1>3, <1>6, <1>9, <2>1, <2>3 DEF Conflict
            <3>3. RowPaths(t)' = RowPaths(t) /\ Untouched(t)' = Untouched(t)
                  BY <1>4, <1>9 DEF RowPaths, Untouched
            <3>4. Forward(a)
                  BY DEF AtomInv
            <3>5. Forward(a)' /\ Back(a)'
                  BY Zenon, <1>0, <1>1, <1>2, <1>3, <1>9, <2>1, <2>3, <3>3, <3>4
                  DEF Forward, Back, Backs
            <3> QED BY <1>0, <1>1, <1>3, <3>1, <3>2, <3>5, OneRowOK
      <2> QED BY <1>9, <2>2, <2>3
<1>10. \/ Compensate(a) /\ UNCHANGED <<file, trash, stamp>>
       \/ /\ r.action = "restore"
          /\ file' = [file EXCEPT ![p] = [data |-> r.result, ino |-> stamp + 1]]
          /\ trash' = trash /\ txn' = txn
          /\ pc'[a] = "row" /\ op'[a] = [op[a] EXCEPT !.todo = @ \ {p}]
       \/ /\ r.action = "trash" /\ trash' = [trash EXCEPT ![t][p] = file[p]]
          /\ txn' = txn /\ (gone \/ copy)
      BY <1>0, <1>1, <1>2, <1>5, NowAt DEF Swap, RowRestored
<1> QED BY <1>7, <1>8, <1>9, <1>10

LEMMA CopiedAtom ==
    ASSUME IInv, AtomInv, NEW a \in Actors, Copied(a) PROVE AtomInv'
<1>0. /\ VarTypes /\ StepOK(a) /\ pc[a] = "copied" /\ pc[a] \in Forwards
      /\ UNCHANGED <<file, trash, manifest, stamp, lock, disturbed>>
      BY ActorFacts, CopiedOK DEF Copied, Forwards, history
<1>1. CASE Compensate(a)
      BY <1>0, <1>1, CompensateAtom
<1>2. CASE pc'[a] = "unlink" /\ txn' = txn /\ op' = op
      <2>0. PICK t \in Txns : t = op[a].txn
            BY <1>0, ActorFacts DEF Owning
      <2>1. RowPaths(t)' = RowPaths(t) /\ Untouched(t)' = Untouched(t)
            BY <1>0, <1>2 DEF RowPaths, Untouched
      <2>2. Forward(a)
            BY DEF AtomInv
      <2>3. Forward(a)' /\ Back(a)'
            BY <1>0, <1>2, <2>0, <2>1, <2>2 DEF Forward, Back, Backs
      <2> QED BY <1>0, <1>2, <2>3, StillCalm, SameJournals, CalmKeeps DEF StepOK
<1> QED BY <1>0, <1>1, <1>2, NowAt DEF Copied

LEMMA UnlinkAtom ==
    ASSUME IInv, AtomInv, NEW a \in Actors, Unlink(a) PROVE AtomInv'
<1>0. /\ VarTypes /\ StepOK(a) /\ pc[a] = "unlink" /\ op[a].todo # {}
      /\ pc[a] \in Forwards /\ pc[a] \in Owning
      BY Zenon, ActorFacts, UnlinkOK DEF Unlink, Forwards, Owning, ActorInv, Place
<1>1. PICK t \in Txns : t = op[a].txn
      BY <1>0, ActorFacts
<1>2. PICK p : p = Min(op[a].todo)
      OBVIOUS
<1> DEFINE r == txn[t].rows[p]
<1>3. p \in RowPaths(t) /\ p \in Paths
      BY <1>0, <1>1, <1>2, ForwardFacts
<1>4. /\ r.action = "trash" /\ r.result = 0 /\ r.data # 0
      /\ p \in Untouched(t) => trash[t][p].data = r.data
      BY <1>0, <1>1, <1>2, <1>3 DEF AtomInv, Forward, RowsFit
<1>5. /\ trash' = trash /\ txn' = txn /\ disturbed' = disturbed
      /\ pc'[a] = "row" /\ op'[a] = [op[a] EXCEPT !.todo = @ \ {p}]
      BY <1>0, <1>2, NowAt DEF Unlink, RowRestored, history
<1>6. /\ file'[p].data = 0
      /\ \A q \in Paths \ {p} : file'[q] = file[q]
      BY <1>0, <1>2, <1>3 DEF Unlink, VarTypes, NoFile
<1>7. OneRow(t, p)
      BY <1>5, <1>6 DEF OneRow
<1>8. p \in Untouched(t) => ~Conflict(t, p)'
      BY <1>4, <1>5, <1>6 DEF Conflict
<1> QED BY <1>0, <1>1, <1>2, <1>4, <1>5, <1>6, <1>7, <1>8, RowForward

LEMMA RestoreFailsAtom ==
    ASSUME IInv, AtomInv, NEW a \in Actors, RestoreFails(a) PROVE AtomInv'
<1>1. /\ UNCHANGED <<file, trash, manifest, stamp, lock, disturbed>>
      /\ pc[a] \in Forwards /\ Compensate(a)
      BY DEF RestoreFails, Forwards, history
<1> QED BY <1>1, CompensateAtom

\* A new journal, in the words of its effects.
NewJournal(a, t) ==
    LET c == op[a].turn IN
    /\ txn[t].status = "none" /\ txn'[t].status = "mutating"
    /\ ~Torn(op[a].wanted) /\ KnownPaths(c) = op[a].wanted
    /\ \A p \in Paths : txn'[t].rows[p] =
          IF p \notin KnownPaths(c) THEN NoPlan ELSE
          [action |-> PlanAction(c, p), data |-> file[p].data,
           ino |-> file[p].ino, result |-> manifest[c][p].before]
    /\ \A p \in KnownPaths(c) : PlanAction(c, p) \in {"noop", "restore", "trash"}
    /\ \A u \in Txns \ {t} : txn'[u] = txn[u]
    /\ pc'[a] = "row" /\ op'[a].txn = t /\ op'[a].todo = KnownPaths(c)

LEMMA PlanCases ==
    ASSUME IInv, NEW a \in Actors, Plan(a)
    PROVE  \/ txn' = txn /\ (Retry(a) \/ EndOp(a))
           \/ \E t \in Txns : NewJournal(a, t)
<1> DEFINE c == op[a].turn
           row(p) == [action |-> PlanAction(c, p), data |-> file[p].data,
                      ino |-> file[p].ino, result |-> manifest[c][p].before]
           rows == [p \in Paths |-> IF p \notin KnownPaths(c) THEN NoPlan ELSE row(p)]
           kinds == {rows[p].action : p \in KnownPaths(c)}
<1>0. VarTypes /\ op[a] \in OpType
      BY ActorFacts
<1>1. CASE Retry(a) /\ txn' = txn
      BY <1>1
<1>2. CASE EndOp(a) /\ txn' = txn
      BY <1>2
<1>3. ASSUME ~Torn(op[a].wanted), KnownPaths(c) = op[a].wanted,
             "conflict" \notin kinds, NEW t \in Txns, IsNext(t),
             txn' = [txn EXCEPT ![t] = [status |-> "mutating", rows |-> rows]],
             Local(a, [op[a] EXCEPT !.txn = t, !.todo = KnownPaths(c)]),
             Goto(a, "row")
      PROVE  NewJournal(a, t)
      <2>1. txn[t].status = "none"
            BY <1>3 DEF IsNext
      <2>2. \A p \in KnownPaths(c) : p \in Paths /\ rows[p].action = PlanAction(c, p)
            BY DEF KnownPaths
      <2>3. \A p \in KnownPaths(c) :
                PlanAction(c, p) \in {"noop", "restore", "trash"}
            <3>1. \A p \in KnownPaths(c) : PlanAction(c, p) # "conflict"
                  BY <1>3, <2>2
            <3> QED BY <3>1 DEF PlanAction
      <2>4. /\ txn'[t].status = "mutating" /\ txn'[t].rows = rows
            /\ \A u \in Txns \ {t} : txn'[u] = txn[u]
            <3> HIDE DEF rows
            <3> QED BY <1>0, <1>3 DEF VarTypes
      <2>5. pc'[a] = "row" /\ op'[a] = [op[a] EXCEPT !.txn = t, !.todo = KnownPaths(c)]
            BY <1>0, <1>3, NowAt
      <2>6. op'[a].txn = t /\ op'[a].todo = KnownPaths(c)
            BY <1>0, <2>5 DEF OpType
      <2>7. \A p \in Paths : txn'[t].rows[p] =
                IF p \notin KnownPaths(c) THEN NoPlan ELSE row(p)
            BY <2>4
      <2> QED BY Zenon, <1>3, <2>1, <2>3, <2>4, <2>5, <2>6, <2>7 DEF NewJournal
<1>4. \/ Retry(a) /\ txn' = txn
      \/ EndOp(a) /\ txn' = txn
      \/ /\ ~Torn(op[a].wanted) /\ KnownPaths(c) = op[a].wanted
         /\ "conflict" \notin kinds
         /\ \E t \in Txns :
               /\ IsNext(t)
               /\ txn' = [txn EXCEPT ![t] = [status |-> "mutating", rows |-> rows]]
               /\ Local(a, [op[a] EXCEPT !.txn = t, !.todo = KnownPaths(c)])
         /\ Goto(a, "row")
      BY Zenon DEF Plan
<1> QED BY Zenon, <1>1, <1>2, <1>3, <1>4

LEMMA PlanAtom ==
    ASSUME IInv, AtomInv, NEW a \in Actors, Plan(a) PROVE AtomInv'
<1>0. /\ VarTypes /\ StepOK(a) /\ pc[a] = "lock"
      /\ UNCHANGED <<file, trash, manifest, disturbed>>
      BY Zenon, ActorFacts, PlanOK DEF Plan, history
<1>1. CASE txn' = txn /\ (Retry(a) \/ EndOp(a))
      <2>1. pc'[a] \notin Owning
            BY <1>0, <1>1, NowAt DEF Owning
      <2> QED BY <1>0, <1>1, <2>1, SameJournals, OutsideOK
<1>2. ASSUME NEW t \in Txns, NewJournal(a, t) PROVE AtomInv'
      <2> DEFINE W == op[a].wanted
      <2>0. W = KnownPaths(op[a].turn) /\ W \subseteq Paths
            BY <1>2 DEF NewJournal, KnownPaths
      <2>1. ASSUME NEW p \in W
            PROVE  /\ txn'[t].rows[p].data = file[p].data
                   /\ txn'[t].rows[p].action = PlanAction(op[a].turn, p)
                   /\ txn'[t].rows[p].result = manifest[op[a].turn][p].before
                   /\ PlanAction(op[a].turn, p) \in {"noop", "restore", "trash"}
            <3>1. txn'[t].rows[p] =
                     [action |-> PlanAction(op[a].turn, p), data |-> file[p].data,
                      ino |-> file[p].ino,
                      result |-> manifest[op[a].turn][p].before]
                  BY <1>2, <2>0, Zenon DEF NewJournal
            <3> QED BY <1>2, <2>0, <3>1 DEF NewJournal
      <2>2. RowPaths(t)' = W
            <3>1. ASSUME NEW p \in Paths \ W PROVE txn'[t].rows[p].action = "none"
                  <4>1. txn'[t].rows[p] = NoPlan
                        BY <1>2, <2>0, Zenon DEF NewJournal
                  <4> QED BY <4>1 DEF NoPlan
            <3>2. \A p \in W : txn'[t].rows[p].action # "none"
                  BY <2>1
            <3> QED BY <2>0, <3>1, <3>2 DEF RowPaths
      <2>3. \A u \in Txns \ {t} : RowPaths(u)' = RowPaths(u) /\ (Live(u)' <=> Live(u))
            BY <1>2 DEF NewJournal, RowPaths, Live
      <2>4. ~Live(t) /\ \A u \in Txns : Live(u) => RowPaths(u) \cap W = {}
            BY <1>2 DEF NewJournal, Torn, Live, Incomplete
      <2>5. RowsFit'
            <3>1. \A p \in W : LET r == txn'[t].rows[p] IN
                     /\ r.action = "noop" => r.data = r.result
                     /\ r.action = "trash" => r.result = 0 /\ r.data # 0
                     /\ r.action = "restore" => r.result # 0 /\ r.data # 0
                  BY <2>1 DEF PlanAction
            <3>2. \A u \in Txns \ {t} : txn'[u] = txn[u]
                  BY <1>2 DEF NewJournal
            <3> QED BY <2>2, <2>3, <3>1, <3>2 DEF AtomInv, RowsFit
      <2>6. Fresh' /\ \A p \in Paths : trash[t][p] = NoFile
            BY <1>0, <1>2 DEF NewJournal, AtomInv, Fresh
      <2>7. Apart'
            BY <2>2, <2>3, <2>4 DEF AtomInv, Apart
      <2>8. ASSUME NEW u \in Txns PROVE RowsSound(u)'
            <3>1. CASE u = t
                  <4>1. ASSUME NEW p \in W PROVE ~Conflict(t, p)'
                        <5>1. trash'[t][p] = NoFile /\ file' = file
                              BY <1>0, <2>2, <2>6 DEF RowPaths
                        <5> QED BY <2>1, <5>1 DEF Conflict, NoFile
                  <4> QED BY <2>2, <3>1, <4>1 DEF RowsSound, Untouched
            <3>2. CASE u # t
                  <4>1. txn'[u] = txn[u] /\ RowsKept(u) /\ RowsSound(u)
                        BY <1>0, <1>2, <3>2 DEF NewJournal, RowsKept, AtomInv
                  <4> QED BY <1>0, <2>3, <3>2, <4>1, KeptRowsSound
            <3> QED BY <3>1, <3>2
      <2>9. Forward(a)' /\ Back(a)'
            <3>1. /\ pc'[a] = "row" /\ op'[a].txn = t /\ op'[a].todo = W
                  BY <1>2 DEF NewJournal
            <3>2. \A q \in W : file'[q].data = txn'[t].rows[q].data
                  BY <1>0, <2>1
            <3>3. Untouched(t)' \subseteq W
                  BY <2>2 DEF Untouched
            <3> QED BY <2>2, <3>1, <3>2, <3>3 DEF Forward, Back, Backs
      <2>10. ASSUME NEW b \in Actors \ {a} PROVE (Forward(b) /\ Back(b))'
            <3>1. pc'[b] = pc[b] /\ op'[b] = op[b] /\ Forward(b) /\ Back(b)
                  BY <1>0 DEF StepOK, Frame, Alone, AtomInv
            <3>2. CASE pc[b] \notin Owning
                  BY <3>1, <3>2 DEF Forward, Back, Forwards, Backs, Owning
            <3>3. CASE pc[b] \in Owning
                  <4>1. PICK u \in Txns : u = op[b].txn /\ Live(u)
                        BY <3>3, ActorFacts DEF Live
                  <4>2. txn'[u] = txn[u]
                        BY <1>2, <2>4, <4>1 DEF NewJournal
                  <4>3. Untouched(u)' = Untouched(u) /\ RowPaths(u)' = RowPaths(u)
                        BY <1>0, <4>2 DEF Untouched, RowPaths
                  <4>4. Forward(b)'
                        BY <1>0, <3>1, <4>1, <4>2, <4>3 DEF Forward
                  <4>5. Back(b)'
                        BY <1>0, <3>1, <4>1, <4>2, <4>3 DEF Back
                  <4> QED BY <4>4, <4>5
            <3> QED BY <3>2, <3>3
      <2> QED BY <2>5, <2>6, <2>7, <2>8, <2>9, <2>10 DEF AtomInv
<1> QED BY <1>1, <1>2, PlanCases

\* What the user touches is no longer promised.
LEMMA UserEditAtom ==
    ASSUME IInv, AtomInv, NEW p \in Paths, UserEdit(p) PROVE AtomInv'
<1>1. /\ trash' = trash /\ txn' = txn /\ pc' = pc /\ op' = op
      /\ \A q \in Paths \ {p} : file'[q] = file[q]
      BY DEF UserEdit, IInv, VarTypes
<1>2. \A t \in Txns : RowPaths(t)' = RowPaths(t)
      BY <1>1 DEF RowPaths
<1>3. ASSUME NEW t \in Txns, txn[t].status # "none"
      PROVE  /\ Untouched(t)' \subseteq Untouched(t) \ {p}
             /\ \A q \in Untouched(t)' : file'[q] = file[q]
      <2>1. disturbed'[t] = disturbed[t] \cup {p}
            BY <1>3 DEF UserEdit
      <2> QED BY <1>1, <1>2, <2>1 DEF Untouched, RowPaths
<1>4. RowsFit' /\ Fresh' /\ Apart'
      BY <1>1, <1>2 DEF AtomInv, RowsFit, Fresh, Apart, Live
<1>5. ASSUME NEW t \in Txns PROVE RowsSound(t)'
      <2>1. ASSUME Live(t), NEW q \in Untouched(t)' PROVE ~Conflict(t, q)'
            <3>1. q \in Untouched(t) /\ file'[q] = file[q]
                  BY <1>3, <2>1 DEF Live, Incomplete
            <3>2. ~Conflict(t, q)
                  BY <2>1, <3>1 DEF AtomInv, RowsSound
            <3> QED BY <1>1, <3>1, <3>2 DEF Conflict
      <2> QED BY <1>1, <2>1 DEF RowsSound, Live
<1>6. ASSUME NEW a \in Actors PROVE Forward(a)' /\ Back(a)'
      <2>1. CASE pc[a] \notin Owning
            BY <1>1, <2>1 DEF Forward, Back, Forwards, Backs, Owning
      <2>2. CASE pc[a] \in Owning
            <3>1. PICK t \in Txns : t = op[a].txn /\ txn[t].status # "none"
                  BY <2>2, ActorFacts DEF Incomplete
            <3>2. Forward(a) /\ Back(a)
                  BY DEF AtomInv
            <3>3. Untouched(t)' \subseteq Untouched(t)
                  /\ \A q \in Untouched(t)' : file'[q] = file[q]
                  BY <1>3, <3>1
            <3>4. Forward(a)'
                  BY <1>1, <1>2, <3>1, <3>2, <3>3 DEF Forward
            <3>5. Back(a)'
                  BY <1>1, <1>2, <3>1, <3>2, <3>3 DEF Back
            <3> QED BY <3>4, <3>5
      <2> QED BY <2>1, <2>2
<1> QED BY <1>4, <1>5, <1>6 DEF AtomInv

LEMMA InitAtom == Init => AtomInv
<1> SUFFICES ASSUME Init PROVE AtomInv
    OBVIOUS
<1>1. \A t \in Txns : /\ txn[t].status = "none" /\ RowPaths(t) = {}
                      /\ \A p \in Paths : trash[t][p] = NoFile
      BY DEF Init, RowPaths, NoPlan
<1>2. \A a \in Actors : pc[a] = "idle"
      BY DEF Init
<1> QED BY <1>1, <1>2 DEF AtomInv, RowsFit, Fresh, Apart, RowsSound, Live,
        Incomplete, Forward, Back, Forwards, Backs

LEMMA StutterAtom ==
    ASSUME AtomInv, UNCHANGED vars PROVE AtomInv'
<1>1. UNCHANGED <<file, trash, txn, pc, op, disturbed>>
      BY DEF vars, disk, history
<1>2. \A t \in Txns : RowPaths(t)' = RowPaths(t) /\ Untouched(t)' = Untouched(t)
                      /\ (Live(t)' <=> Live(t))
      BY <1>1 DEF RowPaths, Untouched, Live
<1>3. (RowsFit /\ Fresh /\ Apart)'
      BY <1>1, <1>2 DEF AtomInv, RowsFit, Fresh, Apart
<1>4. \A t \in Txns : RowsSound(t)'
      BY <1>1, <1>2 DEF AtomInv, RowsSound, Conflict
<1>5. ASSUME NEW a \in Actors PROVE Forward(a)' /\ Back(a)'
      <2>1. Forward(a) /\ Back(a)
            BY DEF AtomInv
      <2>2. Forward(a)'
            BY <1>1, <2>1 DEF Forward, Untouched, RowPaths
      <2>3. Back(a)'
            BY <1>1, <2>1 DEF Back, Untouched, RowPaths
      <2> QED BY <2>2, <2>3
<1> QED BY <1>3, <1>4, <1>5 DEF AtomInv

LEMMA NextAtom == IInv /\ AtomInv /\ [Next]_vars => AtomInv'
<1> SUFFICES ASSUME IInv, AtomInv, [Next]_vars PROVE AtomInv'
    OBVIOUS
<1>1. ASSUME NEW a \in Actors, Step(a) PROVE AtomInv'
      BY <1>1, ElsewhereAtom, ReadTxnAtom, RecoverRowAtom, RecoverSwapAtom,
         RecoverUnlinkAtom, LastAtom, RenameAtom, PlanAtom, RestoreRowAtom,
         SwapAtom, CopiedAtom, UnlinkAtom
      DEF Step
<1>2. ASSUME NEW a \in Actors, Begin(a) \/ Fault(a) PROVE AtomInv'
      BY <1>2, ElsewhereAtom, RestoreFailsAtom, RecoverFailsAtom
      DEF Begin, Fault
<1> QED BY <1>1, <1>2, UserEditAtom, StutterAtom DEF Next

-----------------------------------------------------------------------------
(* The ends of a restore *)

AtEnd(t) ==
    \A p \in Untouched(t) :
        txn'[t].status # txn[t].status =>
          /\ txn'[t].status = "committed" =>
                file'[p].data = txn[t].rows[p].result
          /\ txn'[t].status = "rolled_back" =>
                file'[p].data = txn[t].rows[p].data /\ trash'[t][p] = NoFile

\* Every other step leaves the status, or moves it within the transaction.
LEMMA NoEnd ==
    ASSUME NEW t \in Txns,
           \/ txn'[t].status = txn[t].status
           \/ txn'[t].status \in {"mutating", "recovering", "recovery_conflict"}
    PROVE  AtEnd(t)
BY DEF AtEnd

LEMMA StatusAt ==
    ASSUME VarTypes, NEW t \in Txns, NEW u, NEW s, SetStatus(u, s)
    PROVE  txn'[t].status = IF t = u THEN s ELSE txn[t].status
<1>1. txn[t] \in TxnType
      BY DEF VarTypes
<1> QED BY <1>1 DEF VarTypes, SetStatus, TxnType

LEMMA LastIsEnd ==
    ASSUME IInv, AtomInv, NEW a \in Actors, RecoverEnd(a) \/ Commit(a),
           NEW t \in Txns
    PROVE  AtEnd(t)
<1>0. VarTypes /\ UNCHANGED <<file, trash>> /\ pc[a] \in Owning
      /\ op[a].todo = {}
      BY ActorFacts DEF RecoverEnd, Commit, Owning
<1>1. CASE t # op[a].txn
      BY <1>0, <1>1, StatusAt, NoEnd DEF RecoverEnd, Commit
<1>2. CASE t = op[a].txn /\ Commit(a)
      <2>1. txn'[t].status = "committed"
            BY <1>0, <1>2, StatusAt DEF Commit
      <2>2. \A q \in Untouched(t) : file[q].data = txn[t].rows[q].result
            BY <1>0, <1>2 DEF AtomInv, Forward, Forwards, Commit
      <2> QED BY <1>0, <2>1, <2>2 DEF AtEnd
<1>3. CASE t = op[a].txn /\ RecoverEnd(a)
      <2>1. txn'[t].status =
                IF op[a].failed THEN "recovery_conflict" ELSE "rolled_back"
            BY <1>0, <1>3, StatusAt DEF RecoverEnd
      <2>2. CASE op[a].failed
            BY <2>1, <2>2, NoEnd
      <2>3. CASE ~op[a].failed
            <3>1. \A q \in Untouched(t) :
                     file[q].data = txn[t].rows[q].data /\ trash[t][q] = NoFile
                  BY <1>0, <1>3, <2>3 DEF AtomInv, Back, Backs, RecoverEnd
            <3> QED BY <1>0, <2>1, <2>3, <3>1 DEF AtEnd
      <2> QED BY <2>2, <2>3
<1> QED BY <1>1, <1>2, <1>3

LEMMA OthersDoNotEnd ==
    ASSUME IInv, NEW a \in Actors, Step(a) \/ Begin(a) \/ Fault(a),
           ~(RecoverEnd(a) \/ Commit(a)), NEW t \in Txns
    PROVE  AtEnd(t)
<1>0. VarTypes
      BY ActorFacts
<1>1. CASE txn' = txn
      BY <1>1, NoEnd
<1>2. CASE Compensate(a) \/ ReadTxn(a)
      BY <1>0, <1>1, <1>2, StatusAt, NoEnd DEF Compensate, ReadTxn
<1>3. CASE Plan(a)
      BY <1>1, <1>3, PlanCases, NoEnd DEF NewJournal
<1>4. CASE RestoreRow(a) \/ Swap(a) \/ Copied(a) \/ RestoreFails(a)
      BY <1>1, <1>2, <1>4 DEF RestoreRow, Swap, Copied, RestoreFails
<1>5. CASE \/ Lock(a) \/ List(a) \/ Capture(a) \/ Execute(a) \/ Rename(a)
           \/ Complete(a) \/ RecoverRow(a) \/ RecoverSwap(a)
           \/ RecoverUnlink(a) \/ Unlink(a) \/ Prepare(a) \/ BeginRestore(a)
           \/ Crash(a) \/ RecoverFails(a)
      BY Zenon, <1>1, <1>5 DEF Lock, List, Capture, Execute, Rename, Complete,
         RecoverRow, RecoverSwap, RecoverUnlink, Unlink, Prepare, BeginRestore,
         Crash, RecoverFails, disk
<1> QED BY <1>2, <1>3, <1>4, <1>5 DEF Step, Begin, Fault

LEMMA StepEnds ==
    ASSUME IInv, AtomInv, [Next]_vars, NEW t \in Txns PROVE AtEnd(t)
<1>1. ASSUME NEW p \in Paths, UserEdit(p) PROVE AtEnd(t)
      BY <1>1, NoEnd DEF UserEdit
<1>2. CASE UNCHANGED vars
      BY <1>2, NoEnd DEF vars, disk
<1> QED BY <1>1, <1>2, LastIsEnd, OthersDoNotEnd DEF Next

LEMMA AtomHolds == Spec => [](IInv /\ AtomInv)
<1>1. IInv /\ AtomInv /\ [Next]_vars => (IInv /\ AtomInv)'
      BY NextOK, NextAtom
<1> QED BY <1>1, InitOK, InitAtom, PTL DEF Spec

\* restore() is all or nothing for the files that nobody else touched: at the
\* commit each has its before-image, and after a recovery each has what it
\* had, with nothing left in the trash; whatever crashed, failed or was
\* repeated in between.
THEOREM RestoreAllOrNothing == Spec => RestoreIsAtomic
<1>1. IInv /\ AtomInv /\ [Next]_vars => [\A t \in Txns : AtEnd(t)]_vars
      BY StepEnds
<1>2. (\A t \in Txns : AtEnd(t)) <=>
      \A t \in Txns : \A p \in RowPaths(t) \ disturbed[t] :
        txn'[t].status # txn[t].status =>
          /\ txn'[t].status = "committed" =>
                file'[p].data = txn[t].rows[p].result
          /\ txn'[t].status = "rolled_back" =>
                /\ file'[p].data = txn[t].rows[p].data
                /\ trash'[t][p] = NoFile
      BY DEF AtEnd, Untouched
<1> QED BY <1>1, <1>2, AtomHolds, PTL DEF Spec, RestoreIsAtomic

-----------------------------------------------------------------------------
(* Whose content lies where *)

\* What was written in the checkpoints, and what the user wrote, are different.
WroteOK ==
    /\ wrote \in [Turns -> SUBSET Nat] /\ mine \in [Paths -> Nat]
    /\ \A c \in Turns : \A n \in wrote[c] : n # 0 /\ n <= stamp
    /\ \A c, d \in Turns : c # d => wrote[c] \cap wrote[d] = {}
    /\ \A p \in Paths : mine[p] <= stamp /\ \A c \in Turns : mine[p] \notin wrote[c]

\* A row of a manifest names the before-image and contents of its own turn.
Honest(c, p) ==
    LET r == manifest[c][p] IN
    /\ r.known => /\ r.expected \in {r.before} \cup wrote[c]
                  /\ r.pending \in {0} \cup wrote[c]
                  /\ r.before <= stamp
    /\ ~r.known => r.before = 0

\* A write on its way: its content is new, and once captured it is pending.
Writer(a) ==
    LET r == manifest[a][op[a].path] IN
    /\ pc[a] \in {"rename", "complete"} => op[a].kind = "execute"
    /\ op[a].kind \in {"capture", "execute"} =>
          /\ op[a].turn = a /\ op[a].after \in wrote[a]
          /\ op[a].prep.data < op[a].after
          /\ r.known => r.before < op[a].after
    /\ op[a].kind = "execute" =>
          r.known /\ r.pending = op[a].after /\ r.expected = op[a].prep.data

\* The contents S that may come back to a path, those in its file and in the
\* transactions to recover first: each that a turn wrote is in the row of that
\* turn, and behind it lies the before-image of the row, which is older.
Linked(p, S) ==
    \A c \in Turns : \A n \in S \cap wrote[c] :
        LET r == manifest[c][p] IN
        r.known /\ n \in {r.expected, r.pending} /\ r.before \in S /\ r.before < n

InJournals(p, S) ==
    \A t \in Txns : Live(t) /\ p \in RowPaths(t) =>
        /\ txn[t].rows[p].data \in S /\ txn[t].rows[p].result \in S
        /\ trash[t][p].data \in S

AtWriter(a, p, S) ==
    /\ pc[a] = "rename" /\ op[a].path = p => manifest[a][p].before \in S
    /\ pc[a] = "complete" /\ op[a].path = p => S \cap wrote[a] \subseteq {op[a].after}

ChainOf(p, S) ==
    /\ S \subseteq Nat /\ 0 \in S /\ \A n \in S : n <= stamp
    /\ file[p].data \in S
    /\ InJournals(p, S) /\ Linked(p, S)
    /\ \A a \in Actors : AtWriter(a, p, S)

Chain(p) == \E S \in SUBSET Nat : ChainOf(p, S)

ContentInv ==
    /\ WroteOK
    /\ \A c \in Turns, p \in Paths : Honest(c, p)
    /\ \A a \in Actors : Writer(a)
    /\ \A p \in Paths : Chain(p)

\* A step that writes no row and no journal; contents only move between a
\* file, the trash and the transactions of its path.
Moves ==
    \A p \in Paths :
        /\ \/ file'[p] = file[p]
           \/ \E t \in Txns :
                 /\ Live(t) /\ p \in RowPaths(t)
                 /\ file'[p].data \in {0, txn[t].rows[p].data,
                                       txn[t].rows[p].result, trash[t][p].data}
        /\ \A t \in Txns : \/ trash'[t][p] = trash[t][p]
                           \/ trash'[t][p].data \in {0, file[p].data}

SameJob(a) ==
    \/ op'[a].kind \notin {"capture", "execute"}
    \/ /\ op'[a].kind = op[a].kind /\ op'[a].path = op[a].path
       /\ op'[a].turn = op[a].turn /\ op'[a].prep = op[a].prep
       /\ op'[a].after = op[a].after

Steady(a) ==
    /\ manifest' = manifest /\ wrote' = wrote /\ mine' = mine
    /\ stamp' \in Nat /\ stamp <= stamp'
    /\ JournalsKept /\ Moves
    /\ pc'[a] \notin {"rename", "complete"} /\ SameJob(a)

LEMMA SteadyKeeps ==
    ASSUME IInv, ContentInv, NEW a \in Actors, Alone(a), Steady(a)
    PROVE  ContentInv'
<1>0. stamp \in Nat /\ VarTypes
      BY DEF IInv, VarTypes
<1>1. WroteOK'
      BY <1>0 DEF ContentInv, WroteOK, Steady
<1>2. ASSUME NEW c \in Turns, NEW p \in Paths PROVE Honest(c, p)'
      <2>1. manifest[c][p].before \in Nat
            BY <1>0 DEF VarTypes, RowType
      <2>2. Honest(c, p)
            BY DEF ContentInv
      <2> QED BY <1>0, <2>1, <2>2 DEF Honest, Steady
<1>3. ASSUME NEW b \in Actors PROVE Writer(b)'
      <2>1. Writer(b)
            BY DEF ContentInv
      <2>2. CASE b = a
            BY <2>1, <2>2 DEF Writer, Steady, SameJob
      <2>3. CASE b # a
            BY <2>1, <2>3 DEF Writer, Steady, Alone
      <2> QED BY <2>2, <2>3
<1>4. ASSUME NEW p \in Paths PROVE Chain(p)'
      <2>1. PICK S \in SUBSET Nat : ChainOf(p, S)
            BY DEF ContentInv, Chain
      <2>2. \A n \in S : n <= stamp'
            <3>1. \A n \in S : n \in Nat /\ n <= stamp
                  BY <2>1 DEF ChainOf
            <3>2. stamp' \in Nat /\ stamp <= stamp'
                  BY DEF Steady
            <3> QED BY <1>0, <3>1, <3>2
      <2>3. file'[p].data \in S
            BY <2>1 DEF ChainOf, InJournals, Steady, Moves
      <2>4. InJournals(p, S)'
            <3>1. ASSUME NEW t \in Txns, Live(t)', p \in RowPaths(t)'
                  PROVE  /\ txn'[t].rows[p].data \in S
                         /\ txn'[t].rows[p].result \in S
                         /\ trash'[t][p].data \in S
                  <4>1. Live(t) /\ p \in RowPaths(t) /\ txn'[t].rows = txn[t].rows
                        BY <3>1 DEF Steady, JournalsKept, RowPaths
                  <4>2. /\ txn[t].rows[p].data \in S /\ txn[t].rows[p].result \in S
                        /\ trash[t][p].data \in S
                        BY <2>1, <4>1 DEF ChainOf, InJournals
                  <4>3. trash'[t][p].data \in S
                        BY <2>1, <4>2 DEF Steady, Moves, ChainOf
                  <4> QED BY <4>1, <4>2, <4>3
            <3> QED BY <3>1 DEF InJournals
      <2>5. Linked(p, S)'
            BY <2>1 DEF ChainOf, Linked, Steady
      <2>6. ASSUME NEW b \in Actors PROVE AtWriter(b, p, S)'
            <3>1. AtWriter(b, p, S)
                  BY <2>1 DEF ChainOf
            <3> QED BY <3>1 DEF AtWriter, Steady, Alone
      <2> QED BY Zenon, <2>1, <2>2, <2>3, <2>4, <2>5, <2>6 DEF ChainOf, Chain
<1> QED BY <1>1, <1>2, <1>3, <1>4 DEF ContentInv

-----------------------------------------------------------------------------
(* Contents: the actions that only move them *)

LEMMA SameJobs ==
    ASSUME VarTypes, NEW a \in Actors,
           \/ op' = op \/ EndOp(a) \/ Retry(a) \/ Compensate(a)
           \/ \E S : Advance(a, S)
           \/ \E S : op'[a] = [op[a] EXCEPT !.todo = S]
           \/ op'[a] = RowDone(a) \/ op'[a] = RowFailed(a)
    PROVE  SameJob(a)
<1>0. op[a] \in OpType
      BY DEF VarTypes
<1>1. CASE op' = op
      BY <1>1 DEF SameJob
<1>2. CASE EndOp(a)
      <2>1. op'[a] = NoOp
            BY <1>2, NowAt DEF EndOp
      <2> QED BY <2>1 DEF SameJob, NoOp
<1>3. CASE Retry(a)
      <2>1. op'[a] = [op[a] EXCEPT !.wanted = {}]
            BY <1>3, NowAt DEF Retry
      <2> QED BY <1>0, <2>1 DEF SameJob, OpType
<1>4. CASE Compensate(a)
      <2>1. op'[a] = [op[a] EXCEPT !.todo = RowPaths(op[a].txn), !.own = TRUE]
            BY <1>4, NowAt DEF Compensate
      <2> QED BY <1>0, <2>1 DEF SameJob, OpType
<1>5. CASE \E S : Advance(a, S)
      <2>1. PICK S : Advance(a, S)
            BY <1>5
      <2>2. \E u, w : op'[a] =
               [[op[a] EXCEPT !.listed = S, !.txn = u] EXCEPT !.wanted = w]
            <3> DEFINE r == [op[a] EXCEPT !.listed = S, !.txn = 0]
                       w == IF r.kind = "restore" THEN KnownPaths(r.turn)
                            ELSE {r.path}
            <3>1. CASE S # {}
                  <4>1. op'[a] = [r EXCEPT !.txn = Min(S),
                                           !.wanted = RowPaths(Min(S))]
                        BY Zenon, <2>1, <3>1, NowAt DEF Advance
                  <4>2. [r EXCEPT !.txn = Min(S), !.wanted = RowPaths(Min(S))] =
                        [[op[a] EXCEPT !.listed = S, !.txn = Min(S)]
                            EXCEPT !.wanted = RowPaths(Min(S))]
                        BY Zenon, <1>0 DEF OpType
                  <4> QED BY Zenon, <4>1, <4>2
            <3>2. CASE S = {}
                  <4>1. op'[a] = [r EXCEPT !.wanted = w]
                        BY Zenon, <2>1, <3>2, NowAt DEF Advance
                  <4> QED BY Zenon, <4>1
            <3> QED BY Zenon, <3>1, <3>2
      <2> QED BY <1>0, <2>2 DEF SameJob, OpType
<1>6. CASE \E S : op'[a] = [op[a] EXCEPT !.todo = S]
      BY <1>0, <1>6 DEF SameJob, OpType
<1>7. CASE op'[a] = RowDone(a) \/ op'[a] = RowFailed(a)
      <2> DEFINE S == op[a].todo \ {Max(op[a].todo)}
                 r == [op[a] EXCEPT !.todo = S]
      <2>1. op'[a] = r \/ op'[a] = [r EXCEPT !.failed = TRUE]
            BY <1>7 DEF RowDone, RowFailed
      <2>2. /\ r.kind = op[a].kind /\ r.path = op[a].path /\ r.turn = op[a].turn
            /\ r.prep = op[a].prep /\ r.after = op[a].after
            BY <1>0 DEF OpType
      <2> HIDE DEF S
      <2>3. /\ [r EXCEPT !.failed = TRUE].kind = r.kind
            /\ [r EXCEPT !.failed = TRUE].path = r.path
            /\ [r EXCEPT !.failed = TRUE].turn = r.turn
            /\ [r EXCEPT !.failed = TRUE].prep = r.prep
            /\ [r EXCEPT !.failed = TRUE].after = r.after
            BY <1>0 DEF OpType
      <2> HIDE DEF r
      <2> QED BY Zenon, <2>1, <2>2, <2>3 DEF SameJob
<1> QED BY Zenon, <1>1, <1>2, <1>3, <1>4, <1>5, <1>6, <1>7

LEMMA StillSteady ==
    ASSUME VarTypes, NEW a \in Actors,
           UNCHANGED <<file, trash, manifest, stamp, wrote, mine>>,
           JournalsKept, SameJob(a), pc'[a] \notin {"rename", "complete"}
    PROVE  Steady(a)
BY DEF Steady, Moves, VarTypes

\* A status of its own transaction is no new journal.
LEMMA OwnStatus ==
    ASSUME IInv, NEW a \in Actors, pc[a] \in Owning,
           \E s \in Statuses \ {"none"} : SetStatus(op[a].txn, s)
    PROVE  JournalsKept
<1>1. VarTypes /\ op[a].txn \in Txns /\ Live(op[a].txn)
      BY ActorFacts DEF Live
<1>2. PICK t \in Txns : t = op[a].txn
      BY <1>1
<1> QED BY <1>1, <1>2, StatusKeepsJournals

LEMMA CompensateSteady ==
    ASSUME IInv, NEW a \in Actors, pc[a] \in Owning, Compensate(a),
           UNCHANGED <<file, trash, manifest, stamp, wrote, mine>>
    PROVE  Steady(a)
<1>0. VarTypes
      BY ActorFacts
<1>1. JournalsKept
      BY OwnStatus DEF Compensate, Statuses, Incomplete
<1>2. SameJob(a) /\ pc'[a] = "recRow"
      BY Zenon, <1>0, SameJobs, NowAt DEF Compensate
<1> QED BY <1>0, <1>1, <1>2, StillSteady

\* Operations that end, and attempts that are repeated.
LEMMA EndsSteady ==
    ASSUME IInv, NEW a \in Actors, EndOp(a) \/ Retry(a),
           UNCHANGED <<disk, stamp, wrote, mine>>
    PROVE  Steady(a)
BY ActorFacts, SameJobs, SameJournals, NowAt, StillSteady DEF disk

LEMMA StillActions ==
    ASSUME IInv, NEW a \in Actors,
           \/ Lock(a) \/ List(a) \/ ReadTxn(a) \/ RecoverEnd(a) \/ Commit(a)
           \/ RecoverFails(a) \/ Crash(a) \/ RestoreFails(a) \/ BeginRestore(a)
    PROVE  Steady(a)
<1>0. VarTypes /\ op[a] \in OpType
      BY ActorFacts
<1>1. CASE Lock(a)
      <2>1. SameJob(a) /\ pc' = pc /\ pc[a] \in {"lock", "recLock"} /\ txn' = txn
            BY <1>0, <1>1, SameJobs DEF Lock, disk
      <2> QED BY <1>0, <1>1, <2>1, SameJournals, StillSteady
              DEF Lock, disk, history
<1>2. CASE List(a)
      <2>1. SameJob(a) /\ pc'[a] \in {"lock", "recLock"} /\ txn' = txn
            BY <1>0, <1>2, SameJobs, NowAt DEF List, disk
      <2> QED BY <1>0, <1>2, <2>1, SameJournals, StillSteady
              DEF List, disk, history
<1>3. CASE ReadTxn(a)
      <2>1. PICK t \in Txns : t = op[a].txn
            BY <1>3, ActorFacts DEF ReadTxn, ActorInv, Owns
      <2>2. JournalsKept
            <3>1. CASE Live(t)
                  BY <1>0, <1>3, <2>1, <3>1, StatusKeepsJournals
                  DEF ReadTxn, Statuses, Incomplete, Live
            <3>2. CASE ~Live(t)
                  BY <1>3, <2>1, <3>2, SameJournals DEF ReadTxn, Live
            <3> QED BY <3>1, <3>2
      <2>3. SameJob(a) /\ pc'[a] \in {"lock", "recLock", "recRow"}
            <3>1. \/ Advance(a, op[a].listed \ {t})
                  \/ /\ op'[a] = [op[a] EXCEPT !.todo = RowPaths(t)]
                     /\ pc'[a] = "recRow"
                  BY <1>0, <1>3, <2>1, NowAt DEF ReadTxn
            <3> QED BY Zenon, <1>0, <3>1, SameJobs, NowAt
      <2> QED BY <1>0, <1>3, <2>2, <2>3, StillSteady DEF ReadTxn, history
<1>4. CASE RecoverEnd(a) \/ Commit(a)
      <2>1. JournalsKept
            BY <1>4, OwnStatus
            DEF RecoverEnd, Commit, Statuses, Incomplete, Owning
      <2>2. SameJob(a) /\ pc'[a] \in {"idle", "lock", "recLock"}
            BY <1>0, <1>4, SameJobs, NowAt DEF RecoverEnd, Commit
      <2> QED BY <1>0, <1>4, <2>1, <2>2, StillSteady
              DEF RecoverEnd, Commit, history
<1>5. CASE RecoverFails(a)
      <2>1. SameJob(a) /\ pc'[a] = "recRow" /\ txn' = txn
            BY <1>0, <1>5, SameJobs, NowAt DEF RecoverFails, disk
      <2> QED BY <1>0, <1>5, <2>1, SameJournals, StillSteady
              DEF RecoverFails, disk, history
<1>6. CASE Crash(a)
      BY <1>6, EndsSteady DEF Crash, history
<1>7. CASE RestoreFails(a)
      BY <1>7, CompensateSteady DEF RestoreFails, history, Owning
<1>8. CASE BeginRestore(a)
      <2>1. PICK c \in Turns :
               op'[a] = [NoOp EXCEPT !.kind = "restore", !.turn = c]
            BY Zenon, <1>0, <1>8, NowAt DEF BeginRestore
      <2>2. SameJob(a) /\ pc'[a] = "gate" /\ txn' = txn
            BY Zenon, <1>0, <1>8, <2>1, NowAt DEF BeginRestore, NoOp, SameJob, disk
      <2> QED BY Zenon, <1>0, <1>8, <2>2, SameJournals, StillSteady
              DEF BeginRestore, disk, history
<1> QED BY <1>1, <1>2, <1>3, <1>4, <1>5, <1>6, <1>7, <1>8

\* One row of a live transaction moves.
LEMMA RowSteady ==
    ASSUME IInv, NEW a \in Actors, NEW t \in Txns, Live(t),
           NEW p \in RowPaths(t), OneRow(t, p),
           manifest' = manifest, wrote' = wrote, mine' = mine,
           stamp' \in {stamp, stamp + 1},
           \/ file'[p] = file[p]
           \/ file'[p].data \in {0, txn[t].rows[p].data,
                                 txn[t].rows[p].result, trash[t][p].data},
           trash'[t][p] = trash[t][p] \/ trash'[t][p].data \in {0, file[p].data},
           SameJob(a), pc'[a] \notin {"rename", "complete"}
    PROVE  Steady(a)
<1>1. Moves
      BY DEF Moves, OneRow
<1>2. JournalsKept
      BY SameJournals DEF OneRow
<1>3. stamp' \in Nat /\ stamp <= stamp'
      BY DEF IInv, VarTypes
<1> QED BY <1>1, <1>2, <1>3 DEF Steady

LEMMA RecoverActions ==
    ASSUME IInv, AtomInv, NEW a \in Actors,
           RecoverRow(a) \/ RecoverSwap(a) \/ RecoverUnlink(a)
    PROVE  Steady(a)
<1>0. /\ VarTypes /\ pc[a] \in Backs /\ pc[a] \in Owning /\ op[a].todo # {}
      BY Zenon, ActorFacts DEF RecoverRow, RecoverSwap, RecoverUnlink, Backs, Owning,
         ActorInv, Place
<1>1. PICK t \in Txns : t = op[a].txn
      BY <1>0, ActorFacts
<1>2. PICK p : p = Max(op[a].todo)
      OBVIOUS
<1>3. p \in RowPaths(t) /\ p \in Paths /\ Live(t)
      BY <1>0, <1>1, <1>2, BackFacts
<1>4. UNCHANGED <<manifest, txn, wrote, mine, disturbed>>
      BY DEF RecoverRow, RecoverSwap, RecoverUnlink, history
<1>5. SameJob(a) /\ pc'[a] \in Backs
      <2>1. CASE RecoverRow(a)
            BY <1>0, <2>1, SameJobs, NowAt DEF RecoverRow, Backs
      <2>2. CASE RecoverSwap(a)
            BY <1>0, <2>2, SameJobs, NowAt DEF RecoverSwap, Backs
      <2>3. CASE RecoverUnlink(a)
            BY <1>0, <2>3, SameJobs, NowAt DEF RecoverUnlink, Backs
      <2> QED BY <2>1, <2>2, <2>3
<1>6. trash' = trash \/ trash' = [trash EXCEPT ![t][p] = NoFile]
      BY <1>1, <1>2 DEF RecoverRow, RecoverSwap, RecoverUnlink
<1>7. /\ \A u \in Txns \ {t} : trash'[u] = trash[u]
      /\ \A q \in Paths \ {p} : trash'[t][q] = trash[t][q]
      /\ trash'[t][p] = trash[t][p] \/ trash'[t][p] = NoFile
      <2>1. CASE trash' = trash
            BY <2>1
      <2>2. CASE trash' = [trash EXCEPT ![t][p] = NoFile]
            BY <1>0, <1>3, <2>2, TrashAt, Zenon
      <2> QED BY <1>6, <2>1, <2>2
<1>8. /\ \A q \in Paths \ {p} : file'[q] = file[q]
      /\ \/ file'[p] = file[p]
         \/ file'[p].data \in {txn[t].rows[p].data, trash[t][p].data}
      /\ stamp' \in {stamp, stamp + 1}
      <2>1. CASE RecoverSwap(a)
            <3> DEFINE d == txn[t].rows[p].data
            <3>1. \/ file' = [file EXCEPT ![p] = trash[t][p]]
                  \/ file' = [file EXCEPT ![p] = [data |-> d, ino |-> stamp + 1]]
                  BY Zenon, <1>1, <1>2, <2>1 DEF RecoverSwap
            <3>2. stamp' \in {stamp, stamp + 1}
                  BY <2>1 DEF RecoverSwap
            <3> HIDE DEF d
            <3>3. /\ \A q \in Paths \ {p} : file'[q] = file[q]
                  /\ file'[p].data \in {d, trash[t][p].data}
                  BY <1>0, <1>3, <3>1 DEF VarTypes
            <3> QED BY <3>2, <3>3 DEF d
      <2>2. CASE RecoverRow(a) \/ RecoverUnlink(a)
            BY <2>2 DEF RecoverRow, RecoverUnlink
      <2> QED BY <2>1, <2>2
<1>9. OneRow(t, p)
      BY <1>4, <1>7, <1>8 DEF OneRow
<1>10. NoFile.data = 0
      BY DEF NoFile
<1> QED BY <1>3, <1>4, <1>5, <1>7, <1>8, <1>9, <1>10, RowSteady DEF Backs

LEMMA RestoreActions ==
    ASSUME IInv, AtomInv, NEW a \in Actors,
           RestoreRow(a) \/ Swap(a) \/ Copied(a) \/ Unlink(a)
    PROVE  Steady(a)
<1>0. VarTypes /\ pc[a] \in Forwards /\ pc[a] \in Owning /\ op[a].todo # {}
      BY ActorFacts DEF RestoreRow, Swap, Copied, Unlink, Forwards, Owning,
         ActorInv, Place
<1>1. PICK t \in Txns : t = op[a].txn
      BY <1>0, ActorFacts
<1>2. PICK p : p = Min(op[a].todo)
      OBVIOUS
<1>3. p \in RowPaths(t) /\ p \in Paths /\ Live(t)
      BY <1>0, <1>1, <1>2, ForwardFacts
<1>4. UNCHANGED <<manifest, wrote, mine, disturbed>>
      BY DEF RestoreRow, Swap, Copied, Unlink, history
<1>5. CASE RestoreRow(a) \/ Copied(a)
      <2>1. UNCHANGED <<file, trash, stamp>>
            BY <1>5 DEF RestoreRow, Copied
      <2>2. CASE Compensate(a)
            BY <1>0, <1>4, <2>1, <2>2, CompensateSteady
      <2>3. CASE ~Compensate(a)
            <3>1. txn' = txn /\ SameJob(a) /\ pc'[a] \in Forwards
                  <4>1. CASE RestoreRow(a)
                        BY Zenon, <1>0, <2>3, <4>1, SameJobs, NowAt DEF RestoreRow, Forwards
                  <4>2. CASE Copied(a)
                        BY <1>0, <2>3, <4>2, SameJobs, NowAt DEF Copied, Forwards
                  <4> QED BY <1>5, <4>1, <4>2
            <3> QED BY <1>0, <1>4, <2>1, <3>1, SameJournals, StillSteady
                    DEF Forwards
      <2> QED BY <2>2, <2>3
<1>6. CASE Swap(a)
      <2> DEFINE v == txn[t].rows[p].result
      <2>1. \/ Compensate(a) /\ UNCHANGED <<file, trash, stamp>>
            \/ /\ file' = [file EXCEPT ![p] = [data |-> v, ino |-> stamp + 1]]
               /\ RowRestored(a) /\ trash' = trash /\ txn' = txn
               /\ stamp' = stamp + 1
            \/ /\ trash' = [trash EXCEPT ![t][p] = file[p]]
               /\ file' = [file EXCEPT ![p] = NoFile] /\ RowRestored(a)
               /\ txn' = txn /\ stamp' = stamp
            \/ /\ trash' = [trash EXCEPT ![t][p] = file[p]]
               /\ file' = file /\ op' = op /\ Goto(a, "copied")
               /\ txn' = txn /\ stamp' = stamp
            BY <1>1, <1>2, <1>6 DEF Swap
      <2> HIDE DEF v
      <2>2. CASE Compensate(a) /\ UNCHANGED <<file, trash, stamp>>
            BY <1>0, <1>4, <2>2, CompensateSteady
      <2>3. CASE /\ file' = [file EXCEPT ![p] = [data |-> v, ino |-> stamp + 1]]
                 /\ RowRestored(a) /\ trash' = trash /\ txn' = txn
                 /\ stamp' = stamp + 1
            <3>1. /\ \A q \in Paths \ {p} : file'[q] = file[q]
                  /\ file'[p].data = v
                  BY <1>0, <1>3, <2>3 DEF VarTypes
            <3>2. OneRow(t, p)
                  BY <1>4, <2>3, <3>1 DEF OneRow
            <3>3. SameJob(a) /\ pc'[a] = "row"
                  BY Zenon, <1>0, <2>3, SameJobs, NowAt DEF RowRestored
            <3> QED BY <1>3, <1>4, <2>3, <3>1, <3>2, <3>3, RowSteady DEF v
      <2>4. ASSUME trash' = [trash EXCEPT ![t][p] = file[p]], txn' = txn,
                   stamp' = stamp,
                   \/ file' = [file EXCEPT ![p] = NoFile] /\ RowRestored(a)
                   \/ file' = file /\ op' = op /\ Goto(a, "copied")
            PROVE  Steady(a)
            <3>1. /\ trash'[t][p] = file[p]
                  /\ \A q \in Paths \ {p} : trash'[t][q] = trash[t][q]
                  /\ \A u \in Txns \ {t} : trash'[u] = trash[u]
                  <4>1. VarTypes /\ p \in Paths
                        BY <1>0, <1>3
                  <4>2. trash' = [trash EXCEPT ![t][p] = file[p]]
                        BY <2>4
                  <4> QED BY <4>1, <4>2, TrashAt, Zenon
            <3>2. /\ \A q \in Paths \ {p} : file'[q] = file[q]
                  /\ file'[p] = file[p] \/ file'[p] = NoFile
                  BY <1>0, <1>3, <2>4 DEF VarTypes
            <3>3. OneRow(t, p)
                  BY <1>4, <2>4, <3>1, <3>2 DEF OneRow
            <3>4. SameJob(a) /\ pc'[a] \in {"row", "copied"}
                  BY Zenon, <1>0, <2>4, SameJobs, NowAt DEF RowRestored
            <3>5. NoFile.data = 0
                  BY DEF NoFile
            <3> QED BY <1>3, <1>4, <2>4, <3>1, <3>2, <3>3, <3>4, <3>5, RowSteady
      <2> QED BY <2>1, <2>2, <2>3, <2>4
<1>7. CASE Unlink(a)
      <2>1. /\ file' = [file EXCEPT ![p] = NoFile] /\ RowRestored(a)
            /\ UNCHANGED <<trash, txn, stamp>>
            BY <1>2, <1>7 DEF Unlink
      <2>2. /\ \A q \in Paths \ {p} : file'[q] = file[q]
            /\ file'[p].data = 0
            BY <1>0, <1>3, <2>1 DEF VarTypes, NoFile
      <2>3. OneRow(t, p)
            BY <1>4, <2>1, <2>2 DEF OneRow
      <2>4. SameJob(a) /\ pc'[a] = "row"
            BY Zenon, <1>0, <2>1, SameJobs, NowAt DEF RowRestored
      <2> QED BY <1>3, <1>4, <2>1, <2>2, <2>3, <2>4, RowSteady
<1> QED BY <1>5, <1>6, <1>7

-----------------------------------------------------------------------------
(* Contents: the actions that write a row, a file or a journal *)

\* Whoever has the lock of a path is the only one to write it.
LEMMA SoleWriter ==
    ASSUME IInv, NEW a \in Actors, NEW p \in Paths, lock[p] = a,
           NEW b \in Actors \ {a}, pc[b] \in {"rename", "complete"}
    PROVE  op[b].path # p
<1>1. Locked(b) /\ op[b].wanted = {op[b].path}
      BY ActorFacts DEF ActorInv, Place, Critical
<1> QED BY <1>1 DEF Locked

\* A step that writes the file, or a row, of one path.
LEMMA OneChain ==
    ASSUME IInv, ContentInv, NEW a \in Actors, Alone(a), NEW p \in Paths,
           UNCHANGED <<trash, txn, wrote, mine>>, stamp' \in {stamp, stamp + 1},
           \A q \in Paths \ {p} : file'[q] = file[q],
           \A c \in Turns, q \in Paths :
               c # a \/ q # p => manifest'[c][q] = manifest[c][q],
           pc'[a] \in {"rename", "complete"} => op'[a].path = p,
           Honest(a, p)', Writer(a)', Chain(p)'
    PROVE  ContentInv'
<1>0. stamp \in Nat /\ VarTypes /\ a \in Turns
      BY DEF IInv, VarTypes, Turns
<1>1. WroteOK'
      BY <1>0 DEF ContentInv, WroteOK
<1>2. ASSUME NEW c \in Turns, NEW q \in Paths, c # a \/ q # p PROVE Honest(c, q)'
      <2>1. manifest[c][q].before \in Nat
            BY <1>0 DEF VarTypes, RowType
      <2>2. Honest(c, q) /\ manifest'[c][q] = manifest[c][q]
            BY <1>2 DEF ContentInv
      <2> QED BY <1>0, <2>1, <2>2 DEF Honest
<1>3. ASSUME NEW b \in Actors \ {a} PROVE Writer(b)'
      <2>1. Writer(b) /\ op[b].path \in Paths /\ b \in Turns
            BY ActorFacts DEF ContentInv, OpType, Turns
      <2>2. manifest'[b][op[b].path] = manifest[b][op[b].path]
            BY <2>1
      <2> QED BY <2>1, <2>2 DEF Writer, Alone
<1>4. ASSUME NEW q \in Paths \ {p} PROVE Chain(q)'
      <2>1. PICK S \in SUBSET Nat : ChainOf(q, S)
            BY DEF ContentInv, Chain
      <2>2. \A n \in S : n <= stamp'
            BY <1>0, <2>1 DEF ChainOf
      <2>3. \A c \in Turns : manifest'[c][q] = manifest[c][q]
            BY <1>4
      <2>4. Linked(q, S)'
            BY <2>1, <2>3 DEF ChainOf, Linked
      <2>5. InJournals(q, S)'
            BY <2>1 DEF ChainOf, InJournals, Live, RowPaths
      <2>6. ASSUME NEW b \in Actors PROVE AtWriter(b, q, S)'
            <3>1. CASE b = a
                  BY <1>4, <3>1 DEF AtWriter
            <3>2. CASE b # a
                  <4>1. AtWriter(b, q, S) /\ b \in Turns
                        BY <2>1 DEF ChainOf, Turns
                  <4> QED BY <2>3, <3>2, <4>1 DEF AtWriter, Alone
            <3> QED BY <3>1, <3>2
      <2> QED BY <2>1, <2>2, <2>4, <2>5, <2>6 DEF ChainOf, Chain
<1>5. \A c \in Turns, q \in Paths : Honest(c, q)'
      BY <1>2
<1>6. \A b \in Actors : Writer(b)'
      BY <1>3
<1>7. \A q \in Paths : Chain(q)'
      BY <1>4
<1> QED BY <1>1, <1>5, <1>6, <1>7 DEF ContentInv

\* The contents that may come back to a path that the actor has locked and no
\* transaction is to bring back.
LEMMA LockedChain ==
    ASSUME IInv, NEW a \in Actors, Alone(a), NEW p \in Paths, lock[p] = a,
           ~Torn({p}), txn' = txn,
           NEW S \in SUBSET Nat, 0 \in S, \A n \in S : n <= stamp',
           file'[p].data \in S, Linked(p, S)', AtWriter(a, p, S)'
    PROVE  Chain(p)'
<1>1. InJournals(p, S)'
      BY DEF InJournals, Torn, Live, RowPaths
<1>2. ASSUME NEW b \in Actors \ {a} PROVE AtWriter(b, p, S)'
      <2>1. pc'[b] = pc[b] /\ op'[b] = op[b]
            BY DEF Alone
      <2>2. pc[b] \in {"rename", "complete"} => op[b].path # p
            BY SoleWriter
      <2> QED BY <2>1, <2>2 DEF AtWriter
<1> QED BY Zenon, <1>1, <1>2 DEF ChainOf, Chain

\* A writer that has the lock of its path.
LEMMA WriterFacts ==
    ASSUME IInv, ContentInv, NEW a \in Actors, Locked(a),
           \/ pc[a] = "lock" /\ op[a].kind \in {"capture", "execute"}
           \/ pc[a] \in {"rename", "complete"},
           NEW p, p = op[a].path
    PROVE  /\ p \in Paths /\ lock[p] = a /\ a \in Turns /\ op[a].turn = a
           /\ manifest[a][p] \in RowType /\ op[a].prep.data \in Nat
           /\ op[a].after \in wrote[a] /\ op[a].after \in Nat
           /\ op[a].after <= stamp /\ stamp \in Nat /\ file[p].data \in Nat
<1>1. VarTypes /\ op[a] \in OpType /\ a \in Turns
      BY ActorFacts DEF Turns
<1>2. p \in Paths /\ op[a].prep.data \in Nat /\ op[a].after \in Nat
      BY <1>1 DEF OpType, FileType
<1>3. op[a].wanted = {p}
      BY ActorFacts DEF ActorInv, Place
<1>4. manifest[a][p] \in RowType /\ stamp \in Nat /\ file[p].data \in Nat
      BY <1>1, <1>2 DEF VarTypes, FileType
<1>5. Writer(a) /\ WroteOK
      BY DEF ContentInv
<1>6. op[a].turn = a /\ op[a].after \in wrote[a]
      BY <1>5 DEF Writer
<1>7. op[a].after <= stamp
      BY <1>1, <1>5, <1>6 DEF WroteOK
<1> QED BY <1>1, <1>2, <1>3, <1>4, <1>6, <1>7 DEF Locked

\* The write is captured: the row names the file it was prepared for and its
\* content.  What lay behind the row still does.
LEMMA CapturedContent ==
    ASSUME IInv, ContentInv, NEW a \in Actors, StepOK(a), pc[a] = "lock",
           Locked(a), op[a].kind = "capture", NEW p, p = op[a].path, ~Torn({p}),
           file[p] = op[a].prep, NEW r \in Captured(a),
           manifest'[a][p] = r,
           \A c \in Turns, q \in Paths :
               c # a \/ q # p => manifest'[c][q] = manifest[c][q],
           op'[a].kind = "execute", op'[a].path = p, op'[a].turn = a,
           op'[a].prep = op[a].prep, op'[a].after = op[a].after, pc'[a] = "gate",
           UNCHANGED <<file, trash, txn, stamp, wrote, mine>>
    PROVE  ContentInv'
<1>0. /\ p \in Paths /\ lock[p] = a /\ a \in Turns /\ op[a].turn = a
      /\ manifest[a][p] \in RowType /\ op[a].prep.data \in Nat
      /\ op[a].after \in wrote[a] /\ op[a].after \in Nat
      /\ op[a].after <= stamp /\ stamp \in Nat /\ file[p].data \in Nat
      BY WriterFacts
<1>1. /\ VarTypes /\ op[a] \in OpType /\ Alone(a)
      /\ Honest(a, p) /\ Writer(a) /\ WroteOK
      BY <1>0, ActorFacts DEF StepOK, Frame, ContentInv
<1>2. PICK m \in RowType : m = manifest[a][p]
      BY <1>0
<1>3. PICK now \in Nat : now = file[p].data /\ now = op[a].prep.data
      BY <1>0
<1>4. PICK after \in Nat : after = op[a].after
      BY <1>0
<1>5. PICK S \in SUBSET Nat : ChainOf(p, S)
      BY <1>0 DEF ContentInv, Chain
<1>6. /\ now \in S /\ now <= stamp /\ now < after /\ after # 0
      /\ after \in wrote[a] /\ (m.known => m.before < after)
      BY <1>0, <1>1, <1>2, <1>3, <1>4, <1>5 DEF ChainOf, Writer
<1>7. /\ manifest'[a][p] = r
      /\ \A c \in Turns, q \in Paths : c # a \/ q # p =>
             manifest'[c][q] = manifest[c][q]
      OBVIOUS
<1>8. /\ op'[a].kind = "execute" /\ op'[a].path = p /\ op'[a].turn = a
      /\ op'[a].prep.data = now /\ op'[a].after = after
      BY <1>3, <1>4
<1>9. /\ r.known /\ r.expected = now /\ r.pending = after
      /\ \/ ~m.known /\ r.before = now
         \/ /\ m.known /\ r.before = m.before
            /\ now = m.expected \/ (now = m.pending /\ now # 0)
      <2> DEFINE last == IF m.pending # 0 /\ now = m.pending THEN now
                         ELSE m.expected
      <2>1. r \in IF ~m.known
                  THEN {[before |-> now, expected |-> now, pending |-> after,
                         known |-> TRUE]}
                  ELSE IF now # last THEN {}
                  ELSE {[m EXCEPT !.expected = last, !.pending = after]}
            BY <1>0, <1>2, <1>3, <1>4 DEF Captured
      <2>2. CASE ~m.known
            BY <2>1, <2>2
      <2>3. CASE m.known
            <3>1. now = last /\ r = [m EXCEPT !.expected = now, !.pending = after]
                  BY Zenon, <2>1, <2>3
            <3>5. now = m.expected \/ (now = m.pending /\ now # 0)
                  BY <3>1
            <3> HIDE DEF last
            <3>2. r.expected = now /\ r.pending = after /\ r.before = m.before
                  BY <1>2, <3>1 DEF RowType
            <3>3. r.known = m.known
                  BY <1>2, <3>1 DEF RowType
            <3>4. r.known
                  BY <2>3, <3>3, Zenon
            <3> QED BY <2>3, <3>2, <3>4, <3>5, Zenon
      <2> QED BY <2>2, <2>3
<1>10. /\ now \in {r.before} \cup wrote[a] /\ r.before <= stamp
       /\ r.before < after
      BY <1>1, <1>2, <1>6, <1>9 DEF Honest
<1>11. Honest(a, p)'
      BY <1>6, <1>7, <1>9, <1>10 DEF Honest
<1>12. Writer(a)'
      BY <1>6, <1>7, <1>8, <1>9, <1>10 DEF Writer
<1>13. \E T \in SUBSET S : 0 \in T /\ now \in T /\ Linked(p, T)'
      <2>1. CASE ~m.known
            <3>1. ASSUME NEW c \in Turns, NEW n \in S \cap wrote[c]
                  PROVE  c # a /\ manifest'[c][p] = manifest[c][p]
                  BY <1>0, <1>2, <1>5, <1>7, <2>1, <3>1 DEF ChainOf, Linked
            <3>2. Linked(p, S)'
                  BY <1>5, <3>1 DEF ChainOf, Linked
            <3> QED BY <1>5, <1>6, <3>2 DEF ChainOf
      <2>2. CASE m.known
            <3>1. PICK T : T = {0, now} \cup {x \in S : x <= m.before}
                  BY Zenon
            <3>2. T \subseteq S /\ m.before \in Nat
                  BY <1>2, <1>5, <1>6, <3>1 DEF ChainOf, RowType
            <3>3. ASSUME NEW c \in Turns \ {a}, NEW n \in T \cap wrote[c]
                  PROVE  n <= m.before
                  <4>1. n # 0 /\ n \notin wrote[a]
                        BY <1>0, <1>1, <3>3 DEF WroteOK
                  <4>2. n = now => now = m.before
                        BY <1>9, <1>10, <2>1, <2>2, <4>1
                  <4> QED BY <3>1, <3>2, <4>1, <4>2
            <3>4. ASSUME NEW c \in Turns \ {a}, NEW n \in T \cap wrote[c]
                  PROVE  LET w == manifest[c][p] IN
                         /\ w.known /\ n \in {w.expected, w.pending}
                         /\ w.before \in T /\ w.before < n
                  <4>1. /\ manifest[c][p].known
                        /\ n \in {manifest[c][p].expected, manifest[c][p].pending}
                        /\ manifest[c][p].before \in S /\ manifest[c][p].before < n
                        BY <1>5, <3>2 DEF ChainOf, Linked
                  <4>2. manifest[c][p].before <= m.before
                        <5>1. n <= m.before /\ n \in Nat
                              BY <3>2, <3>3
                        <5>2. PICK x \in Nat : x = manifest[c][p].before /\ x < n
                              BY Zenon, <4>1
                        <5>3. x <= m.before
                              BY <3>2, <5>1, <5>2
                        <5> QED BY <5>2, <5>3
                  <4> QED BY <3>1, <4>1, <4>2
            <3>5. ASSUME NEW n \in T \cap wrote[a]
                  PROVE  n = now /\ m.before \in T /\ m.before < n
                  <4>1. n # 0 /\ m.before \in S /\ m.before < n
                        BY <1>0, <1>1, <1>2, <1>5, <3>2 DEF ChainOf, Linked, WroteOK
                  <4> QED BY <3>1, <3>2, <4>1
            <3>6. Linked(p, T)'
                  <4>1. ASSUME NEW c \in Turns, NEW n \in T \cap wrote[c]
                        PROVE  LET w == manifest'[c][p] IN
                               /\ w.known /\ n \in {w.expected, w.pending}
                               /\ w.before \in T /\ w.before < n
                        <5>1. CASE c = a
                              <6>1. n = now /\ m.before \in T /\ m.before < n
                                    BY <3>5, <4>1, <5>1
                              <6>2. manifest'[c][p] = r /\ r.before = m.before
                                    BY <1>7, <1>9, <2>2, <5>1
                              <6> QED BY <1>9, <6>1, <6>2
                        <5>2. CASE c # a
                              <6>1. manifest'[c][p] = manifest[c][p]
                                    BY <1>0, <1>7, <5>2
                              <6> QED BY <3>4, <4>1, <5>2, <6>1
                        <5> QED BY <5>1, <5>2
                  <4>2. wrote' = wrote
                        OBVIOUS
                  <4> QED BY <4>1, <4>2 DEF Linked
            <3> QED BY <3>1, <3>2, <3>6
      <2> QED BY Zenon, <2>1, <2>2
<1>14. PICK T \in SUBSET S : 0 \in T /\ now \in T /\ Linked(p, T)'
      BY <1>13
<1>15. Chain(p)'
      <2>1. T \in SUBSET Nat /\ \A n \in T : n <= stamp'
            BY Zenon, <1>5 DEF ChainOf
      <2>2. AtWriter(a, p, T)'
            BY DEF AtWriter
      <2> QED BY <1>0, <1>1, <1>3, <1>14, <2>1, <2>2, LockedChain
<1> QED BY <1>0, <1>1, <1>7, <1>11, <1>12, <1>15, OneChain

LEMMA CaptureContent ==
    ASSUME IInv, ContentInv, NEW a \in Actors, Capture(a) PROVE ContentInv'
<1>0. /\ VarTypes /\ StepOK(a) /\ Alone(a) /\ Locked(a) /\ pc[a] = "lock"
      /\ op[a].kind = "capture"
      /\ UNCHANGED <<file, trash, txn, stamp, wrote, mine>>
      BY Zenon, ActorFacts, CaptureOK DEF StepOK, Frame, Capture, history
<1>1. CASE (Retry(a) \/ EndOp(a)) /\ manifest' = manifest
      BY <1>0, <1>1, EndsSteady, SteadyKeeps DEF disk
<1>2. CASE /\ ~Torn({op[a].path}) /\ file[op[a].path] = op[a].prep
           /\ \E r \in Captured(a) :
                 manifest' = [manifest EXCEPT ![op[a].turn][op[a].path] = r]
           /\ Goto(a, "gate")
           /\ Local(a, [op[a] EXCEPT !.kind = "execute", !.wanted = {}])
      <2>1. op[a].turn = a /\ op[a] \in OpType
            BY <1>0, WriterFacts, ActorFacts
      <2>2. PICK p \in Paths : p = op[a].path
            BY <1>0, WriterFacts
      <2>3. PICK r \in Captured(a) : manifest' = [manifest EXCEPT ![a][p] = r]
            BY Zenon, <1>2, <2>1, <2>2
      <2>4. a \in Turns
            BY DEF Turns
      <2>5. /\ manifest'[a][p] = r
            /\ \A c \in Turns, q \in Paths : c # a \/ q # p =>
                   manifest'[c][q] = manifest[c][q]
            BY <1>0, <2>3, <2>4 DEF VarTypes
      <2>6. /\ op'[a].kind = "execute" /\ op'[a].path = p /\ op'[a].turn = a
            /\ op'[a].prep = op[a].prep /\ op'[a].after = op[a].after
            /\ pc'[a] = "gate"
            <3>1. op'[a] = [op[a] EXCEPT !.kind = "execute", !.wanted = {}]
                  BY <1>0, <1>2, NowAt
            <3> QED BY <1>0, <1>2, <2>1, <2>2, <3>1, NowAt DEF OpType
      <2>7. ~Torn({p}) /\ file[p] = op[a].prep
            BY <1>2, <2>2
      <2>8. /\ StepOK(a) /\ pc[a] = "lock" /\ Locked(a)
            /\ op[a].kind = "capture" /\ p = op[a].path
            /\ UNCHANGED <<file, trash, txn, stamp, wrote, mine>>
            BY <1>0, <2>2
      <2>9. manifest'[a][p] = r
            BY <2>5
      <2>10. \A c \in Turns, q \in Paths :
                 c # a \/ q # p => manifest'[c][q] = manifest[c][q]
            BY <2>5
      <2> QED BY <2>6, <2>7, <2>8, <2>9, <2>10, CapturedContent
<1> QED BY Zenon, <1>1, <1>2 DEF Capture

\* The content to be replaced is that of the last write, so its before-image is
\* among those that may come back.
LEMMA ExecuteContent ==
    ASSUME IInv, ContentInv, NEW a \in Actors, Execute(a) PROVE ContentInv'
<1>0. /\ VarTypes /\ Alone(a) /\ Locked(a) /\ pc[a] = "lock"
      /\ op[a].kind = "execute"
      /\ UNCHANGED <<disk, stamp, wrote, mine>>
      BY ActorFacts, ExecuteOK DEF StepOK, Frame, Execute, history
<1>1. CASE Retry(a) \/ EndOp(a)
      BY <1>0, <1>1, EndsSteady, SteadyKeeps
<1>2. CASE /\ ~Torn({op[a].path}) /\ file[op[a].path] = op[a].prep
           /\ Goto(a, "rename") /\ op' = op
      <2>1. PICK p \in Paths : p = op[a].path
            BY <1>0, WriterFacts
      <2>2. /\ lock[p] = a /\ a \in Turns /\ stamp \in Nat
            BY <1>0, <2>1, WriterFacts
      <2>3. PICK S \in SUBSET Nat : ChainOf(p, S)
            BY DEF ContentInv, Chain
      <2>4. manifest[a][p].before \in S
            <3>1. /\ manifest[a][p].known /\ manifest[a][p].expected = file[p].data
                  BY <1>0, <1>2, <2>1 DEF ContentInv, Writer
            <3>2. file[p].data \in S /\ Linked(p, S)
                  BY <2>3 DEF ChainOf
            <3>3. Honest(a, p)
                  BY <2>2 DEF ContentInv
            <3> QED BY Zenon, <2>2, <3>1, <3>2, <3>3 DEF Honest, Linked
      <2>5. pc'[a] = "rename" /\ op'[a].path = p
            BY <1>0, <1>2, <2>1, NowAt
      <2>6. UNCHANGED <<file, trash, txn, manifest>>
            BY <1>0 DEF disk
      <2>7. Honest(a, p)'
            BY <1>0, <2>2, <2>6 DEF ContentInv, Honest
      <2>8. Writer(a)'
            BY <1>0, <1>2, <2>5, <2>6 DEF ContentInv, Writer
      <2>9. Chain(p)'
            <3>1. AtWriter(a, p, S)'
                  BY <2>4, <2>5, <2>6 DEF AtWriter
            <3>2. Linked(p, S)'
                  BY <1>0, <2>3, <2>6 DEF ChainOf, Linked
            <3>3. /\ 0 \in S /\ file'[p].data \in S /\ \A n \in S : n <= stamp'
                  BY <1>0, <2>3, <2>6 DEF ChainOf
            <3>4. ~Torn({p}) /\ txn' = txn
                  BY <1>2, <2>1, <2>6
            <3> QED BY Zenon, <1>0, <2>1, <2>2, <3>1, <3>2, <3>3, <3>4, LockedChain
      <2> QED BY <1>0, <2>2, <2>5, <2>6, <2>7, <2>8, <2>9, OneChain
<1> QED BY <1>1, <1>2 DEF Execute

\* The new content is pending, and behind it lies only its before-image.
LEMMA RenameContent ==
    ASSUME IInv, ContentInv, NEW a \in Actors, Rename(a) PROVE ContentInv'
<1>0. /\ VarTypes /\ Alone(a) /\ Locked(a) /\ pc[a] = "rename"
      /\ UNCHANGED <<trash, manifest, txn, op, wrote, mine>>
      /\ stamp' = stamp + 1
      BY Zenon, ActorFacts, RenameOK DEF StepOK, Frame, Rename, history, Critical
<1>1. PICK p \in Paths : p = op[a].path
      BY <1>0, WriterFacts
<1>2. PICK after \in Nat : after = op[a].after
      BY <1>0, WriterFacts
<1>3. /\ lock[p] = a /\ a \in Turns /\ stamp \in Nat /\ after \in wrote[a]
      /\ after <= stamp /\ manifest[a][p].before \in Nat
      BY <1>0, <1>1, <1>2, WriterFacts DEF RowType
<1>4. ~Torn({p})
      BY <1>0, <1>1, ActorFacts DEF ActorInv, Clear
<1>5. /\ manifest[a][p].known /\ manifest[a][p].pending = after
      /\ manifest[a][p].before < after /\ op[a].kind = "execute"
      BY <1>0, <1>1, <1>2 DEF ContentInv, Writer
<1>6. /\ file'[p].data = after /\ \A q \in Paths \ {p} : file'[q] = file[q]
      <2>1. file' = [file EXCEPT ![p] = [data |-> after, ino |-> stamp + 1]]
            BY <1>1, <1>2 DEF Rename
      <2> QED BY <1>0, <1>1, <2>1 DEF VarTypes
<1>7. pc'[a] = "complete" /\ op'[a] = op[a]
      BY <1>0, NowAt DEF Rename
<1>8. PICK S \in SUBSET Nat : ChainOf(p, S)
      BY DEF ContentInv, Chain
<1>9. PICK b \in Nat : b = manifest[a][p].before
      BY <1>3
<1>10. PICK T : T = {0, after} \cup {x \in S : x <= b}
      BY Zenon
<1>11. /\ T \in SUBSET Nat /\ 0 \in T /\ after \in T /\ b \in T
       /\ \A n \in T : n = after \/ (n \in S /\ n <= b)
      <2>1. b \in S
            BY <1>0, <1>1, <1>8, <1>9 DEF ChainOf, AtWriter
      <2>2. b <= b
            OBVIOUS
      <2>3. b \in T /\ 0 \in T /\ after \in T
            BY <1>10, <2>1, <2>2
      <2>4. 0 \in S /\ 0 <= b
            BY <1>8 DEF ChainOf
      <2>5. \A n \in T : n = after \/ (n \in S /\ n <= b)
            BY <1>10, <2>4
      <2>6. T \in SUBSET Nat
            BY Zenon, <2>5
      <2> QED BY <2>3, <2>5, <2>6
<1>12. \A n \in T : n <= stamp'
      BY <1>0, <1>3, <1>8, <1>11 DEF ChainOf
<1>13. \A c \in Turns \ {a} : after \notin wrote[c]
      BY <1>3 DEF ContentInv, WroteOK
<1>14. ASSUME NEW c \in Turns, NEW n \in S \cap wrote[c], n <= b
       PROVE  LET w == manifest[c][p] IN
              /\ w.known /\ n \in {w.expected, w.pending}
              /\ w.before \in T /\ w.before < n /\ c # a
      <2>1. /\ manifest[c][p].known
            /\ n \in {manifest[c][p].expected, manifest[c][p].pending}
            /\ manifest[c][p].before \in S /\ manifest[c][p].before < n
            BY <1>8 DEF ChainOf, Linked
      <2>2. PICK x \in Nat : x = manifest[c][p].before /\ x < n /\ x \in S
            BY Zenon, <2>1
      <2>3. x <= b /\ ~(x = b)
            BY <1>14, <2>2
      <2> QED BY <1>9, <1>10, <2>1, <2>2, <2>3
<1>15. Linked(p, T)'
      <2>1. ASSUME NEW c \in Turns, NEW n \in T \cap wrote[c]
            PROVE  LET w == manifest[c][p] IN
                   /\ w.known /\ n \in {w.expected, w.pending}
                   /\ w.before \in T /\ w.before < n
            <3>1. CASE n = after
                  <4>1. c = a
                        BY <1>13, <2>1, <3>1
                  <4> QED BY <1>5, <1>9, <1>11, <3>1, <4>1
            <3>2. CASE n \in S /\ n <= b
                  BY <1>14, <2>1, <3>2
            <3> QED BY <1>11, <3>1, <3>2
      <2> QED BY <1>0, <2>1 DEF Linked
<1>16. AtWriter(a, p, T)'
      <2>1. T \cap wrote[a] \subseteq {after}
            BY <1>3, <1>11, <1>14
      <2> QED BY <1>0, <1>2, <1>7, <2>1 DEF AtWriter
<1>17. Chain(p)'
      BY <1>0, <1>3, <1>4, <1>6, <1>11, <1>12, <1>15, <1>16, LockedChain
<1>18. Honest(a, p)'
      <2>1. Honest(a, p)
            BY <1>3 DEF ContentInv
      <2> QED BY <1>0, <1>3, <2>1 DEF Honest
<1>19. Writer(a)'
      BY <1>0, <1>5, <1>7 DEF ContentInv, Writer
<1> QED BY <1>0, <1>1, <1>3, <1>6, <1>7, <1>17, <1>18, <1>19, OneChain

\* The content written is the expected one; nothing else comes back.
LEMMA CompleteContent ==
    ASSUME IInv, ContentInv, NEW a \in Actors, Complete(a) PROVE ContentInv'
<1>0. /\ VarTypes /\ Alone(a) /\ Locked(a) /\ pc[a] = "complete"
      /\ UNCHANGED <<file, trash, txn, stamp, wrote, mine>>
      BY Zenon, ActorFacts, CompleteOK DEF StepOK, Frame, Complete, history, Critical
<1>1. PICK p \in Paths : p = op[a].path
      BY <1>0, WriterFacts
<1>2. PICK after \in Nat : after = op[a].after
      BY <1>0, WriterFacts
<1>3. /\ lock[p] = a /\ a \in Turns /\ stamp \in Nat /\ after \in wrote[a]
      /\ op[a].turn = a
      BY <1>0, <1>1, <1>2, WriterFacts
<1>4. PICK m \in RowType : m = manifest[a][p]
      BY <1>0, <1>1, WriterFacts
<1>5. m.known /\ m.pending = after /\ Honest(a, p)
      BY <1>0, <1>1, <1>2, <1>3, <1>4 DEF ContentInv, Writer
<1>6. PICK r : r = [m EXCEPT !.expected = after, !.pending = 0]
      OBVIOUS
<1>7. r.expected = after /\ r.pending = 0 /\ r.before = m.before /\ r.known = m.known
      BY <1>6 DEF RowType
<1>8. r.known
      BY <1>5, <1>7, Zenon
<1>9. manifest' = [manifest EXCEPT ![a][p] = r]
      BY <1>1, <1>2, <1>3, <1>4, <1>5, <1>6 DEF Complete
<1>10. /\ manifest'[a][p] = r
       /\ \A c \in Turns, q \in Paths : c # a \/ q # p =>
              manifest'[c][q] = manifest[c][q]
      BY <1>0, <1>3, <1>9 DEF VarTypes
<1>11. pc'[a] = "idle" /\ op'[a] = NoOp
      BY <1>0, NowAt DEF Complete, EndOp
<1>12. ~Torn({p})
      BY <1>0, <1>1, ActorFacts DEF ActorInv, Clear
<1>13. PICK S \in SUBSET Nat : ChainOf(p, S)
      BY DEF ContentInv, Chain
<1>14. Linked(p, S)'
      <2>1. ASSUME NEW c \in Turns, NEW n \in S \cap wrote[c]
            PROVE  LET w == manifest'[c][p] IN
                   /\ w.known /\ n \in {w.expected, w.pending}
                   /\ w.before \in S /\ w.before < n
            <3>1. CASE c = a
                  <4>1. n = after
                        BY <1>0, <1>1, <1>2, <1>13, <2>1, <3>1
                        DEF ChainOf, AtWriter
                  <4>2. m.before \in S /\ m.before < n
                        BY <1>4, <1>13, <2>1, <3>1 DEF ChainOf, Linked
                  <4> QED BY <1>7, <1>8, <1>10, <3>1, <4>1, <4>2
            <3>2. CASE c # a
                  <4>1. manifest'[c][p] = manifest[c][p]
                        BY <1>10, <3>2
                  <4> QED BY <1>13, <2>1, <4>1 DEF ChainOf, Linked
            <3> QED BY <3>1, <3>2
      <2> QED BY <1>0, <2>1 DEF Linked
<1>15. AtWriter(a, p, S)'
      BY <1>11 DEF AtWriter
<1>16. Chain(p)'
      <2>1. 0 \in S /\ file'[p].data \in S /\ \A n \in S : n <= stamp'
            BY <1>0, <1>13 DEF ChainOf
      <2> QED BY <1>0, <1>3, <1>12, <1>14, <1>15, <2>1, LockedChain
<1>17. Honest(a, p)'
      BY <1>0, <1>3, <1>4, <1>5, <1>7, <1>8, <1>10 DEF Honest
<1>18. Writer(a)'
      BY <1>11 DEF Writer, NoOp
<1> QED BY <1>0, <1>3, <1>10, <1>11, <1>16, <1>17, <1>18, OneChain

\* The rows of a new journal: what is in the file, and what lies behind it.
LEMMA PlanContent ==
    ASSUME IInv, AtomInv, ContentInv, NEW a \in Actors, Plan(a)
    PROVE  ContentInv'
<1>0. /\ VarTypes /\ op[a] \in OpType /\ Alone(a) /\ pc[a] = "lock"
      /\ op[a].kind = "restore"
      /\ UNCHANGED <<file, trash, manifest, stamp, wrote, mine>>
      BY Zenon, ActorFacts, PlanOK DEF StepOK, Frame, Plan, history
<1>1. CASE txn' = txn /\ (Retry(a) \/ EndOp(a))
      BY <1>0, <1>1, EndsSteady, SteadyKeeps DEF disk
<1>2. CASE \E t \in Txns : NewJournal(a, t)
      <2>1. PICK t \in Txns : NewJournal(a, t)
            BY <1>2
      <2>2. PICK c \in Turns : c = op[a].turn
            BY <1>0 DEF OpType
      <2>3. /\ txn[t].status = "none" /\ pc'[a] = "row"
            /\ \A u \in Txns \ {t} : txn'[u] = txn[u]
            BY <2>1 DEF NewJournal
      <2>4. op'[a].kind \notin {"capture", "execute"}
            <3> DEFINE S == KnownPaths(op[a].turn)
            <3>1. \/ Retry(a) \/ EndOp(a)
                  \/ \E u \in Txns : Local(a, [op[a] EXCEPT !.txn = u, !.todo = S])
                  BY Zenon DEF Plan
            <3>2. CASE Retry(a) \/ EndOp(a)
                  BY <1>0, <2>3, <3>2, NowAt
            <3>3. CASE \E u \in Txns :
                         Local(a, [op[a] EXCEPT !.txn = u, !.todo = S])
                  <4>1. PICK u \in Txns :
                           op'[a] = [op[a] EXCEPT !.txn = u, !.todo = S]
                        BY Zenon, <1>0, <3>3, NowAt
                  <4> QED BY <1>0, <4>1 DEF OpType
            <3> QED BY Zenon, <3>1, <3>2, <3>3
      <2>5. ASSUME NEW p \in Paths, p \in RowPaths(t)'
            PROVE  /\ txn'[t].rows[p].data = file[p].data
                   /\ txn'[t].rows[p].result = manifest[c][p].before
                   /\ PlanAction(c, p) # "conflict" /\ manifest[c][p].known
            <3> DEFINE row == [action |-> PlanAction(c, p), data |-> file[p].data,
                               ino |-> file[p].ino,
                               result |-> manifest[c][p].before]
            <3>1. txn'[t].rows[p] = IF p \notin KnownPaths(c) THEN NoPlan ELSE row
                  BY <2>1, <2>2 DEF NewJournal
            <3>2. txn'[t].rows[p].action # "none"
                  BY <2>5 DEF RowPaths
            <3>3. p \in KnownPaths(c)
                  BY <3>1, <3>2 DEF NoPlan
            <3>4. txn'[t].rows[p] = row
                  BY <3>1, <3>3, Zenon
            <3>5. PlanAction(c, p) # "conflict"
                  BY <2>1, <2>2, <3>3 DEF NewJournal
            <3>6. manifest[c][p].known
                  BY <3>3 DEF KnownPaths
            <3> QED BY <3>4, <3>5, <3>6
      <2>6. ASSUME NEW p \in Paths PROVE Chain(p)'
            <3>1. PICK S \in SUBSET Nat : ChainOf(p, S)
                  BY DEF ContentInv, Chain
            <3>2. ASSUME p \in RowPaths(t)'
                  PROVE  manifest[c][p].before \in S
                  <4>1. /\ PlanAction(c, p) # "conflict" /\ manifest[c][p].known
                        /\ Honest(c, p) /\ file[p].data \in S /\ Linked(p, S)
                        BY <2>5, <3>1, <3>2 DEF ContentInv, ChainOf
                  <4>2. \/ file[p].data = manifest[c][p].before
                        \/ file[p].data \in wrote[c]
                        BY <4>1 DEF PlanAction, Honest
                  <4> QED BY Zenon, <4>1, <4>2 DEF Linked
            <3>3. trash[t][p].data = 0
                  BY <2>3 DEF AtomInv, Fresh, NoFile
            <3>4. ASSUME NEW u \in Txns, Live(u)', p \in RowPaths(u)'
                  PROVE  /\ txn'[u].rows[p].data \in S
                         /\ txn'[u].rows[p].result \in S
                         /\ trash'[u][p].data \in S
                  <4>1. CASE u = t
                        BY <1>0, <2>5, <3>1, <3>2, <3>3, <3>4, <4>1 DEF ChainOf
                  <4>2. CASE u # t
                        <5>1. Live(u) /\ p \in RowPaths(u) /\ txn'[u] = txn[u]
                              BY <2>3, <3>4, <4>2 DEF Live, RowPaths
                        <5> QED BY <1>0, <3>1, <5>1 DEF ChainOf, InJournals
                  <4> QED BY <4>1, <4>2
            <3>5. InJournals(p, S)'
                  BY <3>4 DEF InJournals
            <3>6. Linked(p, S)'
                  BY <1>0, <3>1 DEF ChainOf, Linked
            <3>7. ASSUME NEW b \in Actors PROVE AtWriter(b, p, S)'
                  BY <1>0, <2>3, <3>1 DEF ChainOf, AtWriter, Alone
            <3>8. 0 \in S /\ file'[p].data \in S /\ \A n \in S : n <= stamp'
                  BY <1>0, <3>1 DEF ChainOf
            <3> QED BY <3>5, <3>6, <3>7, <3>8 DEF ChainOf, Chain
      <2>7. WroteOK'
            BY <1>0 DEF ContentInv, WroteOK
      <2>8. \A d \in Turns, p \in Paths : Honest(d, p)'
            BY <1>0 DEF ContentInv, Honest
      <2>9. ASSUME NEW b \in Actors PROVE Writer(b)'
            BY <1>0, <2>3, <2>4 DEF ContentInv, Writer, Alone
      <2> QED BY <2>6, <2>7, <2>8, <2>9 DEF ContentInv
<1> QED BY <1>1, <1>2, PlanCases

\* The content of a write that is prepared is nowhere yet.
LEMMA PrepareContent ==
    ASSUME IInv, ContentInv, NEW a \in Actors, Prepare(a) PROVE ContentInv'
<1>0. /\ VarTypes /\ Alone(a) /\ a \in Turns /\ stamp \in Nat
      /\ UNCHANGED <<file, trash, manifest, txn, mine>>
      /\ stamp' = stamp + 1 /\ wrote' = [wrote EXCEPT ![a] = @ \cup {stamp + 1}]
      BY Zenon, ActorFacts, PrepareOK DEF StepOK, Frame, Prepare, disk, Turns, VarTypes
<1>1. WroteOK /\ \A c \in Turns, p \in Paths : Honest(c, p)
      BY DEF ContentInv
<1>2. PICK p \in Paths :
         op'[a] = [NoOp EXCEPT !.kind = "capture", !.path = p, !.turn = a,
                               !.prep = file[p], !.after = stamp + 1]
      BY Zenon, <1>0, NowAt DEF Prepare
<1>3. /\ op'[a].kind = "capture" /\ op'[a].path = p /\ op'[a].turn = a
      /\ op'[a].prep = file[p] /\ op'[a].after = stamp + 1 /\ pc'[a] = "gate"
      BY <1>0, <1>2, NowAt DEF NoOp, Prepare
<1>4. /\ wrote' \in [Turns -> SUBSET Nat] /\ wrote'[a] = wrote[a] \cup {stamp + 1}
      /\ \A c \in Turns \ {a} : wrote'[c] = wrote[c]
      BY <1>0, <1>1 DEF WroteOK
<1>5. \A n \in Nat : n <= stamp => n <= stamp + 1 /\ n # stamp + 1 /\ n < stamp + 1
      BY <1>0
<1>6. /\ \A c \in Turns : wrote[c] \subseteq Nat /\ \A n \in wrote[c] : n <= stamp
      /\ \A q \in Paths : mine[q] \in Nat /\ mine[q] <= stamp
      BY <1>1 DEF WroteOK
<1>7. WroteOK'
      <2>1. \A c \in Turns : \A n \in wrote'[c] : n # 0 /\ n <= stamp'
            BY <1>0, <1>1, <1>4, <1>5, <1>6 DEF WroteOK
      <2>2. \A c, d \in Turns : c # d => wrote'[c] \cap wrote'[d] = {}
            BY <1>1, <1>4, <1>5, <1>6 DEF WroteOK
      <2>3. \A q \in Paths : mine[q] <= stamp' /\ \A c \in Turns : mine[q] \notin wrote'[c]
            BY <1>0, <1>1, <1>4, <1>5, <1>6 DEF WroteOK
      <2> QED BY <1>0, <1>1, <1>4, <2>1, <2>2, <2>3 DEF WroteOK
<1>8. ASSUME NEW c \in Turns, NEW q \in Paths PROVE Honest(c, q)'
      <2>1. manifest[c][q].before \in Nat
            BY <1>0 DEF VarTypes, RowType
      <2> QED BY <1>0, <1>1, <1>4, <1>5, <2>1 DEF Honest
<1>9. ASSUME NEW q \in Paths PROVE Chain(q)'
      <2>1. PICK S \in SUBSET Nat : ChainOf(q, S)
            BY DEF ContentInv, Chain
      <2>2. \A n \in S : n <= stamp /\ n \in Nat
            BY <2>1 DEF ChainOf
      <2>3. \A c \in Turns : S \cap wrote'[c] = S \cap wrote[c]
            BY <1>4, <1>5, <2>2
      <2>4. Linked(q, S)'
            BY <1>0, <2>1, <2>3 DEF ChainOf, Linked
      <2>5. InJournals(q, S)'
            BY <1>0, <2>1 DEF ChainOf, InJournals, Live, RowPaths
      <2>6. ASSUME NEW b \in Actors PROVE AtWriter(b, q, S)'
            <3>1. AtWriter(b, q, S) /\ b \in Turns
                  BY <2>1 DEF ChainOf, Turns
            <3> QED BY <1>0, <1>3, <2>3, <3>1 DEF AtWriter, Alone
      <2>7. 0 \in S /\ file'[q].data \in S /\ \A n \in S : n <= stamp'
            BY <1>0, <1>5, <2>1, <2>2 DEF ChainOf
      <2> QED BY Zenon, <2>4, <2>5, <2>6, <2>7 DEF ChainOf, Chain
<1>10. Writer(a)'
      <2>1. file[p].data < stamp + 1
            BY Zenon, <1>5 DEF ContentInv, Chain, ChainOf
      <2>2. manifest[a][p].known => manifest[a][p].before < stamp + 1
            <3>1. manifest[a][p].before \in Nat
                  BY <1>0 DEF VarTypes, RowType
            <3> QED BY <1>0, <1>1, <1>5, <3>1 DEF Honest
      <2> QED BY <1>0, <1>3, <1>4, <2>1, <2>2 DEF Writer
<1>11. ASSUME NEW b \in Actors \ {a} PROVE Writer(b)'
      <2>1. Writer(b) /\ b \in Turns /\ pc'[b] = pc[b] /\ op'[b] = op[b]
            BY <1>0 DEF ContentInv, Turns, Alone
      <2> QED BY <1>0, <1>4, <2>1 DEF Writer
<1> QED BY <1>7, <1>8, <1>9, <1>10, <1>11 DEF ContentInv

\* What the user saves is new, and nobody's.
LEMMA UserEditContent ==
    ASSUME IInv, ContentInv, NEW p \in Paths, UserEdit(p) PROVE ContentInv'
<1>0. /\ VarTypes /\ stamp \in Nat
      /\ UNCHANGED <<trash, manifest, txn, pc, op, wrote>>
      BY DEF UserEdit, IInv, VarTypes
<1>1. PICK v \in {0, stamp + 1} :
         /\ file'[p].data = v /\ \A q \in Paths \ {p} : file'[q] = file[q]
         /\ mine' = [mine EXCEPT ![p] = v] \/ mine' = [mine EXCEPT ![p] = 0]
         /\ stamp' \in Nat /\ stamp <= stamp' /\ v <= stamp'
      <2>1. CASE /\ file' = [file EXCEPT ![p] =
                                [data |-> stamp + 1, ino |-> stamp + 1]]
                 /\ mine' = [mine EXCEPT ![p] = IF InWindow(p) THEN 0 ELSE stamp + 1]
                 /\ stamp' = stamp + 1
            <3>1. /\ file'[p].data = stamp + 1
                  /\ \A q \in Paths \ {p} : file'[q] = file[q]
                  BY <1>0, <2>1 DEF VarTypes
            <3>2. mine' = [mine EXCEPT ![p] = stamp + 1]
                  \/ mine' = [mine EXCEPT ![p] = 0]
                  BY Zenon, <2>1
            <3> QED BY <1>0, <2>1, <3>1, <3>2
      <2>2. CASE /\ file' = [file EXCEPT ![p] = NoFile]
                 /\ mine' = [mine EXCEPT ![p] = 0] /\ stamp' = stamp
            <3>1. /\ file'[p].data = 0
                  /\ \A q \in Paths \ {p} : file'[q] = file[q]
                  BY <1>0, <2>2 DEF VarTypes, NoFile
            <3> QED BY <1>0, <2>2, <3>1
      <2> QED BY <2>1, <2>2 DEF UserEdit
<1>2. WroteOK
      BY DEF ContentInv
<1>3. \A c \in Turns : v \notin wrote[c]
      <2>1. ASSUME NEW c \in Turns, NEW n \in wrote[c] PROVE n # v
            <3>1. n \in Nat /\ n # 0 /\ n <= stamp
                  BY <1>2, <2>1 DEF WroteOK
            <3> QED BY <1>0, <1>1, <3>1
      <2> QED BY <2>1
<1>4. \A n \in Nat : n <= stamp => n <= stamp'
      BY <1>0, <1>1
<1>5. WroteOK'
      <2>1. \A c \in Turns : \A n \in wrote[c] : n \in Nat /\ n # 0 /\ n <= stamp'
            BY <1>2, <1>4 DEF WroteOK
      <2>2. ASSUME NEW q \in Paths
            PROVE  /\ mine'[q] \in Nat /\ mine'[q] <= stamp'
                   /\ \A c \in Turns : mine'[q] \notin wrote[c]
            <3>1. /\ mine[q] \in Nat /\ mine[q] <= stamp
                  /\ \A c \in Turns : mine[q] \notin wrote[c] /\ 0 \notin wrote[c]
                  BY <1>2 DEF WroteOK
            <3>2. mine'[q] \in {mine[q], 0, v}
                  BY <1>1, <1>2 DEF WroteOK
            <3>3. v \in Nat /\ 0 <= stamp'
                  BY <1>0, <1>1
            <3> QED BY <1>1, <1>3, <1>4, <3>1, <3>2, <3>3
      <2>3. mine' \in [Paths -> Nat]
            <3>1. mine' = [q \in Paths |-> mine'[q]]
                  BY <1>1, <1>2 DEF WroteOK
            <3> QED BY <2>2, <3>1
      <2> QED BY <1>0, <1>2, <2>1, <2>2, <2>3 DEF WroteOK
<1>6. ASSUME NEW c \in Turns, NEW q \in Paths PROVE Honest(c, q)'
      <2>1. manifest[c][q].before \in Nat /\ Honest(c, q)
            BY <1>0 DEF VarTypes, RowType, ContentInv
      <2> QED BY <1>0, <1>4, <2>1 DEF Honest
<1>7. ASSUME NEW b \in Actors PROVE Writer(b)'
      BY <1>0 DEF ContentInv, Writer
<1>8. ASSUME NEW q \in Paths PROVE Chain(q)'
      <2>1. PICK S \in SUBSET Nat : ChainOf(q, S)
            BY DEF ContentInv, Chain
      <2>2. PICK T : T = IF q = p THEN S \cup {v} ELSE S
            BY Zenon
      <2>3. /\ T \in SUBSET Nat /\ S \subseteq T /\ T \subseteq S \cup {v}
            /\ \A c \in Turns : T \cap wrote[c] = S \cap wrote[c]
            BY <1>0, <1>1, <1>3, <2>2
      <2>4. \A n \in T : n <= stamp'
            BY <1>1, <1>4, <2>1, <2>3 DEF ChainOf
      <2>5. 0 \in T /\ file'[q].data \in T
            BY <1>1, <2>1, <2>2, <2>3 DEF ChainOf
      <2>6. Linked(q, T)'
            BY Zenon, <1>0, <2>1, <2>3 DEF ChainOf, Linked
      <2>7. InJournals(q, T)'
            <3>1. InJournals(q, S)
                  BY <2>1 DEF ChainOf
            <3> QED BY Zenon, <1>0, <2>3, <3>1 DEF InJournals, Live, RowPaths
      <2>8. ASSUME NEW b \in Actors PROVE AtWriter(b, q, T)'
            <3>1. AtWriter(b, q, S) /\ b \in Turns
                  BY <2>1 DEF ChainOf, Turns
            <3> QED BY Zenon, <1>0, <2>3, <3>1 DEF AtWriter
      <2> QED BY <2>3, <2>4, <2>5, <2>6, <2>7, <2>8 DEF ChainOf, Chain
<1> QED BY <1>5, <1>6, <1>7, <1>8 DEF ContentInv

LEMMA InitContent == Init => ContentInv
<1> SUFFICES ASSUME Init PROVE ContentInv
    OBVIOUS
<1>1. /\ MaxPaths \in Nat \ {0} /\ stamp = 2 * MaxPaths /\ OldTurn \in Turns
      /\ \A a \in Actors : pc[a] = "idle" /\ op[a] = NoOp
      /\ \A t \in Txns : txn[t].status = "none"
      BY CheckpointAssumption DEF Init, Turns
<1>2. wrote = [c \in Turns |->
                 IF c = OldTurn THEN (MaxPaths + 1)..(2 * MaxPaths) ELSE {}]
      BY DEF Init
<1>3. PICK created \in SUBSET Paths :
         /\ manifest = [c \in Turns |-> [p \in Paths |->
               IF c # OldTurn THEN NoRow
               ELSE [before |-> IF p \in created THEN 0 ELSE p,
                     expected |-> MaxPaths + p, pending |-> 0, known |-> TRUE]]]
         /\ mine = [p \in Paths |-> IF p \in created THEN 0 ELSE p]
      BY Zenon DEF Init
<1>4. ASSUME NEW p \in Paths
      PROVE  /\ p \in Nat /\ 0 < p /\ p <= MaxPaths /\ file[p].data = MaxPaths + p
             /\ MaxPaths + p \in wrote[OldTurn]
             /\ 0 \notin wrote[OldTurn] /\ p \notin wrote[OldTurn]
      <2>1. p \in Nat /\ 0 < p /\ p <= MaxPaths
            BY <1>1 DEF Paths
      <2>2. file[p].data = MaxPaths + p
            BY DEF Init
      <2> QED BY <1>1, <1>2, <2>1, <2>2
<1>5. \A c \in Turns \ {OldTurn} : wrote[c] = {}
      BY <1>2
<1>6. WroteOK
      <2>1. wrote \in [Turns -> SUBSET Nat]
            BY <1>1, <1>2
      <2>2. \A c \in Turns : \A n \in wrote[c] : n # 0 /\ n <= stamp
            BY <1>1, <1>2
      <2>3. \A c, d \in Turns : c # d => wrote[c] \cap wrote[d] = {}
            BY <1>5
      <2>4. mine \in [Paths -> Nat]
            BY <1>3, <1>4
      <2>5. \A p \in Paths : mine[p] <= stamp
            <3>1. \A p \in Paths : mine[p] \in {0, p}
                  BY <1>3
            <3>2. \A p \in Paths : 0 <= stamp /\ p <= stamp
                  BY <1>1, <1>4
            <3> QED BY <3>1, <3>2
      <2>6. \A p \in Paths, c \in Turns : mine[p] \notin wrote[c]
            BY <1>3, <1>4, <1>5
      <2> QED BY <2>1, <2>2, <2>3, <2>4, <2>5, <2>6 DEF WroteOK
<1>7. ASSUME NEW p \in Paths
      PROVE  /\ manifest[OldTurn][p].before \in {0, p}
             /\ manifest[OldTurn][p].expected = MaxPaths + p
             /\ manifest[OldTurn][p].pending = 0 /\ manifest[OldTurn][p].known
             /\ \A c \in Turns \ {OldTurn} : manifest[c][p] = NoRow
      BY <1>1, <1>3
<1>8. ASSUME NEW c \in Turns, NEW p \in Paths PROVE Honest(c, p)
      <2>1. CASE c = OldTurn
            <3>1. 0 <= stamp /\ p <= stamp
                  BY <1>1, <1>4
            <3> QED BY <1>4, <1>7, <2>1, <3>1 DEF Honest
      <2>2. CASE c # OldTurn
            BY <1>7, <2>2 DEF Honest, NoRow
      <2> QED BY <2>1, <2>2
<1>9. ASSUME NEW a \in Actors PROVE Writer(a)
      BY <1>1 DEF Writer, NoOp
<1>10. ASSUME NEW p \in Paths PROVE Chain(p)
      <2>1. PICK S \in SUBSET Nat : S = {0, p, MaxPaths + p}
            <3>1. {0, p, MaxPaths + p} \in SUBSET Nat
                  BY <1>1, <1>4
            <3> QED BY Zenon, <3>1
      <2>2. \A n \in S : n <= stamp
            BY <1>1, <1>4, <2>1
      <2>3. S \cap wrote[OldTurn] \subseteq {MaxPaths + p}
            BY <1>4, <2>1
      <2>4. 0 < MaxPaths + p /\ p < MaxPaths + p
            BY <1>1, <1>4
      <2>5. Linked(p, S)
            BY <1>5, <1>7, <2>1, <2>3, <2>4 DEF Linked
      <2>6. InJournals(p, S)
            BY <1>1 DEF InJournals, Live, Incomplete
      <2>7. \A a \in Actors : AtWriter(a, p, S)
            BY <1>1 DEF AtWriter
      <2>8. 0 \in S /\ file[p].data \in S
            BY <1>4, <2>1
      <2> QED BY <2>2, <2>5, <2>6, <2>7, <2>8 DEF ChainOf, Chain
<1> QED BY <1>6, <1>8, <1>9, <1>10 DEF ContentInv

LEMMA StutterContent ==
    ASSUME ContentInv, UNCHANGED vars PROVE ContentInv'
<1>1. UNCHANGED <<file, trash, manifest, txn, pc, op, stamp, mine, wrote>>
      BY DEF vars, disk, history
<1>2. WroteOK'
      BY <1>1 DEF ContentInv, WroteOK
<1>3. ASSUME NEW c \in Turns, NEW p \in Paths PROVE Honest(c, p)'
      BY <1>1 DEF ContentInv, Honest
<1>4. ASSUME NEW a \in Actors PROVE Writer(a)'
      BY <1>1 DEF ContentInv, Writer
<1>5. ASSUME NEW p \in Paths PROVE Chain(p)'
      <2>1. PICK S \in SUBSET Nat : ChainOf(p, S)
            BY DEF ContentInv, Chain
      <2>2. InJournals(p, S)' /\ Linked(p, S)'
            BY <1>1, <2>1 DEF ChainOf, InJournals, Linked, Live, RowPaths
      <2>3. \A a \in Actors : AtWriter(a, p, S)'
            BY <1>1, <2>1 DEF ChainOf, AtWriter
      <2> QED BY <1>1, <2>1, <2>2, <2>3 DEF ChainOf, Chain
<1> QED BY <1>2, <1>3, <1>4, <1>5 DEF ContentInv

LEMMA StepIsAlone ==
    ASSUME IInv, NEW a \in Actors, Step(a) \/ Begin(a) \/ Fault(a)
    PROVE  Alone(a)
BY LockOK, ListOK, ReadTxnOK, RecoverRowOK, RecoverSwapOK, RecoverUnlinkOK,
   RecoverEndOK, CaptureOK, ExecuteOK, RenameOK, CompleteOK, PlanOK,
   RestoreRowOK, SwapOK, CopiedOK, UnlinkOK, CommitOK, PrepareOK,
   BeginRestoreOK, FaultOK, RecoverFailsOK
DEF Step, Begin, Fault, StepOK, Frame

LEMMA NextContent == IInv /\ AtomInv /\ ContentInv /\ [Next]_vars => ContentInv'
<1> SUFFICES ASSUME IInv, AtomInv, ContentInv, [Next]_vars PROVE ContentInv'
    OBVIOUS
<1>1. ASSUME NEW a \in Actors, Step(a) \/ Begin(a) \/ Fault(a), Steady(a)
      PROVE  ContentInv'
      BY <1>1, StepIsAlone, SteadyKeeps
<1>2. ASSUME NEW a \in Actors, Step(a) PROVE ContentInv'
      BY <1>1, <1>2, StillActions, RecoverActions, RestoreActions,
         CaptureContent, ExecuteContent, RenameContent, CompleteContent,
         PlanContent
      DEF Step
<1>3. ASSUME NEW a \in Actors, Begin(a) \/ Fault(a) PROVE ContentInv'
      BY <1>1, <1>3, StillActions, PrepareContent DEF Begin, Fault
<1> QED BY <1>2, <1>3, UserEditContent, StutterContent DEF Next

\* Every invariant of the checkpoints.
LEMMA ContentHolds == Spec => [](IInv /\ AtomInv /\ ContentInv)
<1>1. IInv /\ AtomInv /\ ContentInv /\ [Next]_vars => (IInv /\ AtomInv /\ ContentInv)'
      BY NextOK, NextAtom, NextContent
<1> QED BY InitOK, InitAtom, InitContent, <1>1, PTL DEF Spec

\* What zylab began it can finish or take back: each row of a restore that was
\* cut off can be taken back unless the user changed its file, and a file with
\* the content of a write of some turn is accepted by the restore of that turn,
\* wherever that write was cut off.
THEOREM WorkRecoverable == Spec => []WorkIsRecoverable
<1>1. IInv /\ AtomInv /\ ContentInv => WorkIsRecoverable
      <2> SUFFICES ASSUME IInv, AtomInv, ContentInv PROVE WorkIsRecoverable
          OBVIOUS
      <2>1. AlwaysRecoverable
            BY DEF AtomInv, RowsSound, AlwaysRecoverable, Live, Untouched
      <2>2. ASSUME NEW c \in Turns, NEW p \in Paths, file[p].data \in wrote[c]
            PROVE  PlanAction(c, p) # "conflict"
            <3>1. PICK S \in SUBSET Nat : ChainOf(p, S)
                  BY DEF ContentInv, Chain
            <3>2. PICK f \in Nat : f = file[p].data /\ f \in S
                  BY Zenon, <3>1 DEF ChainOf
            <3>3. f # 0
                  BY <2>2, <3>2 DEF ContentInv, WroteOK
            <3>4. /\ f \in {manifest[c][p].expected, manifest[c][p].pending}
                  /\ manifest[c][p].before < f
                  BY <2>2, <3>1, <3>2 DEF ChainOf, Linked
            <3>5. f # manifest[c][p].before
                  BY <3>4
            <3> QED BY <3>2, <3>3, <3>4, <3>5 DEF PlanAction
      <2>3. OwnWritesRestorable
            BY <2>2 DEF OwnWritesRestorable
      <2> QED BY <2>1, <2>3 DEF WorkIsRecoverable
<1> QED BY <1>1, ContentHolds, PTL

-----------------------------------------------------------------------------
(* The user's content *)

\* It is the before-image of a row, or there is none of his.
Safe(p) == mine[p] = 0 \/ \E c \in Turns : manifest[c][p].before = mine[p]

\* A restore replaces what a turn wrote by a before-image.
RowsMine ==
    \A t \in Txns : \A p \in RowPaths(t) :
        LET r == txn[t].rows[p] IN
        r.action \in {"restore", "trash"} =>
            /\ \E c \in Turns : r.data \in wrote[c]
            /\ r.result = 0 \/ \E c \in Turns : manifest[c][p].before = r.result

\* A file about to be replaced is not his, or is a before-image.
KeptInv ==
    /\ RowsMine
    /\ \A p \in Paths : /\ Safe(p) \/ file[p].data = mine[p]
                        /\ InWindow(p) => Safe(p)

InWindowOf(a, p) ==
    \/ pc[a] = "rename" /\ op[a].path = p
    \/ pc[a] \in {"swap", "copied", "unlink"} /\ p = Min(op[a].todo)
    \/ pc[a] = "recSwap" /\ p = Max(op[a].todo)

BeforesKept ==
    \A c \in Turns, p \in Paths :
        manifest[c][p].before # 0 => manifest'[c][p].before = manifest[c][p].before

LEMMA SafeKept ==
    ASSUME BeforesKept, mine' = mine, NEW p \in Paths, Safe(p) PROVE Safe(p)'
<1>1. CASE mine[p] = 0
      BY <1>1 DEF Safe
<1>2. CASE mine[p] # 0
      <2>1. PICK c \in Turns : manifest[c][p].before = mine[p]
            BY <1>2 DEF Safe
      <2>2. manifest'[c][p].before = mine[p]
            BY <1>2, <2>1 DEF BeforesKept
      <2> QED BY <2>2 DEF Safe
<1> QED BY <1>1, <1>2

LEMMA RowsMineKept ==
    ASSUME RowsMine, JournalsKept, BeforesKept,
           \A c \in Turns : wrote[c] \subseteq wrote'[c]
    PROVE  RowsMine'
<1>1. ASSUME NEW t \in Txns, NEW p \in Paths, p \in RowPaths(t)',
             txn'[t].rows[p].action \in {"restore", "trash"}
      PROVE  /\ \E c \in Turns : txn'[t].rows[p].data \in wrote'[c]
             /\ \/ txn'[t].rows[p].result = 0
                \/ \E c \in Turns : manifest'[c][p].before = txn'[t].rows[p].result
      <2>1. txn'[t].rows = txn[t].rows /\ p \in RowPaths(t)
            BY <1>1 DEF JournalsKept, RowPaths
      <2>2. /\ \E c \in Turns : txn[t].rows[p].data \in wrote[c]
            /\ \/ txn[t].rows[p].result = 0
               \/ \E c \in Turns : manifest[c][p].before = txn[t].rows[p].result
            BY <1>1, <2>1 DEF RowsMine
      <2>3. \/ txn[t].rows[p].result = 0
            \/ \E c \in Turns : manifest'[c][p].before = txn[t].rows[p].result
            <3>1. CASE txn[t].rows[p].result = 0
                  BY <3>1
            <3>2. CASE txn[t].rows[p].result # 0
                  <4>1. PICK c \in Turns : manifest[c][p].before = txn[t].rows[p].result
                        BY <2>2, <3>2
                  <4>2. manifest'[c][p].before = txn[t].rows[p].result
                        BY <3>2, <4>1 DEF BeforesKept
                  <4> QED BY <4>2
            <3> QED BY <3>1, <3>2
      <2>4. \E c \in Turns : txn[t].rows[p].data \in wrote'[c]
            BY <2>2
      <2> QED BY <2>1, <2>3, <2>4
<1>2. \A t \in Txns : \A p \in RowPaths(t)' : p \in Paths
      BY DEF RowPaths
<1> QED BY <1>1, <1>2 DEF RowsMine

\* A step of an actor keeps the user's content if it changes a file only in the
\* window of that file, and looks before it enters one.
LEMMA KeptStep ==
    ASSUME KeptInv, NEW a \in Actors, Alone(a), mine' = mine, BeforesKept,
           RowsMine',
           \A p \in Paths : file'[p] = file[p] \/ InWindow(p),
           \A p \in Paths : InWindowOf(a, p)' => Safe(p) \/ file[p].data # mine[p]
    PROVE  KeptInv'
<1>1. ASSUME NEW p \in Paths
      PROVE  /\ Safe(p)' \/ file'[p].data = mine'[p]
             /\ InWindow(p)' => Safe(p)'
      <2>1. Safe(p) => Safe(p)'
            BY SafeKept
      <2>2. Safe(p)' \/ file'[p].data = mine'[p]
            BY <2>1 DEF KeptInv
      <2>3. ASSUME InWindow(p)' PROVE Safe(p)
            <3>1. PICK b \in Actors : InWindowOf(b, p)'
                  BY <2>3 DEF InWindow, InWindowOf
            <3>2. CASE b = a
                  BY <3>1, <3>2 DEF KeptInv
            <3>3. CASE b # a
                  <4>1. InWindowOf(b, p)
                        BY <3>1, <3>3 DEF InWindowOf, Alone
                  <4>2. InWindow(p)
                        BY <4>1 DEF InWindow, InWindowOf
                  <4> QED BY <4>2 DEF KeptInv
            <3> QED BY <3>2, <3>3
      <2> QED BY <2>1, <2>2, <2>3
<1> QED BY <1>1 DEF KeptInv

LEMMA CaptureBefores ==
    ASSUME IInv, ContentInv, NEW a \in Actors, Capture(a) PROVE BeforesKept
<1>0. VarTypes /\ a \in Turns
      BY ActorFacts DEF Turns
<1>1. CASE manifest' = manifest
      BY <1>1 DEF BeforesKept
<1>2. CASE manifest' # manifest
      <2>1. /\ pc[a] = "lock" /\ op[a].kind = "capture" /\ Locked(a)
            /\ \E r \in Captured(a) :
                  manifest' = [manifest EXCEPT ![op[a].turn][op[a].path] = r]
            BY Zenon, <1>2 DEF Capture
      <2>2. PICK p \in Paths : p = op[a].path
            BY <2>1, WriterFacts
      <2>3. op[a].turn = a
            BY <2>1, WriterFacts
      <2>4. PICK r \in Captured(a) : manifest' = [manifest EXCEPT ![a][p] = r]
            BY Zenon, <2>1, <2>2, <2>3
      <2>5. /\ manifest'[a][p] = r
            /\ \A c \in Turns, q \in Paths : c # a \/ q # p =>
                   manifest'[c][q] = manifest[c][q]
            BY <1>0, <2>4 DEF VarTypes
      <2>6. PICK m \in RowType : m = manifest[a][p]
            BY <1>0 DEF VarTypes
      <2>7. m.before # 0 => r.before = m.before
            <3> DEFINE now == op[a].prep.data
                       last == IF m.pending # 0 /\ now = m.pending THEN now
                               ELSE m.expected
                       new == [m EXCEPT !.expected = last, !.pending = op[a].after]
            <3>1. m.before # 0 => m.known
                  BY <1>0, <2>6 DEF ContentInv, Honest
            <3>2. m.known => r \in IF now # last THEN {} ELSE {new}
                  BY <2>2, <2>3, <2>6 DEF Captured
            <3>3. new.before = m.before
                  BY DEF RowType
            <3> HIDE DEF new
            <3> QED BY <3>1, <3>2, <3>3
      <2> QED BY <2>5, <2>6, <2>7 DEF BeforesKept
<1> QED BY <1>1, <1>2

LEMMA CompleteBefores ==
    ASSUME IInv, ContentInv, NEW a \in Actors, Complete(a) PROVE BeforesKept
<1>0. VarTypes /\ pc[a] = "complete" /\ Locked(a)
      BY ActorFacts DEF Complete, Critical
<1>1. PICK p \in Paths : p = op[a].path
      BY <1>0, WriterFacts
<1>2. a \in Turns /\ op[a].turn = a
      BY <1>0, WriterFacts
<1>3. PICK m \in RowType : m = manifest[a][p]
      BY <1>0, <1>2 DEF VarTypes
<1>4. PICK r : r = [m EXCEPT !.expected = op[a].after, !.pending = 0]
      OBVIOUS
<1>5. CASE manifest' = manifest
      BY <1>5 DEF BeforesKept
<1>6. CASE manifest' = [manifest EXCEPT ![a][p] = r]
      <2>1. /\ manifest'[a][p] = r
            /\ \A c \in Turns, q \in Paths : c # a \/ q # p =>
                   manifest'[c][q] = manifest[c][q]
            BY <1>0, <1>2, <1>6 DEF VarTypes
      <2>2. r.before = m.before
            BY <1>4 DEF RowType
      <2> QED BY <1>3, <2>1, <2>2 DEF BeforesKept
<1> QED BY <1>1, <1>2, <1>3, <1>4, <1>5, <1>6 DEF Complete

\* No before-image of a row is ever replaced.
LEMMA BeforesAreKept ==
    ASSUME IInv, ContentInv, NEW a \in Actors, Step(a) \/ Begin(a) \/ Fault(a)
    PROVE  BeforesKept
<1>1. CASE manifest' = manifest
      BY <1>1 DEF BeforesKept
<1>2. \/ manifest' = manifest \/ Capture(a) \/ Complete(a)
      BY Zenon DEF Step, Begin, Fault, Lock, List, ReadTxn, RecoverRow, RecoverSwap,
         RecoverUnlink, RecoverEnd, Execute, Rename, Plan, RestoreRow, Swap,
         Copied, Unlink, Commit, Prepare, BeginRestore, Crash, RestoreFails,
         RecoverFails, disk
<1> QED BY <1>1, <1>2, CaptureBefores, CompleteBefores

\* A restore is planned only over contents that the turn wrote.
LEMMA PlanRowsMine ==
    ASSUME IInv, ContentInv, KeptInv, NEW a \in Actors, Plan(a) PROVE RowsMine'
<1>0. /\ VarTypes /\ op[a] \in OpType
      /\ UNCHANGED <<file, trash, manifest, wrote>>
      BY Zenon, ActorFacts DEF Plan, history
<1>1. CASE txn' = txn
      BY <1>0, <1>1 DEF KeptInv, RowsMine, RowPaths
<1>2. CASE \E t \in Txns : NewJournal(a, t)
      <2>1. PICK t \in Txns : NewJournal(a, t)
            BY <1>2
      <2>2. PICK c \in Turns : c = op[a].turn
            BY <1>0 DEF OpType
      <2>3. \A u \in Txns \ {t} : txn'[u] = txn[u]
            BY <2>1 DEF NewJournal
      <2>4. ASSUME NEW p \in Paths,
                   txn'[t].rows[p].action \in {"restore", "trash"}
            PROVE  /\ txn'[t].rows[p].data \in wrote[c]
                   /\ txn'[t].rows[p].result = manifest[c][p].before
            <3> DEFINE row == [action |-> PlanAction(c, p), data |-> file[p].data,
                               ino |-> file[p].ino,
                               result |-> manifest[c][p].before]
            <3>1. txn'[t].rows[p] = IF p \notin KnownPaths(c) THEN NoPlan ELSE row
                  BY <2>1, <2>2 DEF NewJournal
            <3>2. p \in KnownPaths(c)
                  BY <2>4, <3>1 DEF NoPlan
            <3>3. txn'[t].rows[p] = row
                  BY <3>1, <3>2, Zenon
            <3>4. /\ txn'[t].rows[p].data = file[p].data
                  /\ txn'[t].rows[p].result = manifest[c][p].before
                  /\ txn'[t].rows[p].action = PlanAction(c, p)
                  BY <3>3
            <3>5. Honest(c, p) /\ manifest[c][p].known
                  BY <3>2 DEF ContentInv, KnownPaths
            <3>6. file[p].data \in wrote[c]
                  BY <2>4, <3>4, <3>5 DEF PlanAction, Honest
            <3> QED BY <3>4, <3>6
      <2>5. ASSUME NEW u \in Txns, NEW p \in Paths, p \in RowPaths(u)',
                   txn'[u].rows[p].action \in {"restore", "trash"}
            PROVE  /\ \E d \in Turns : txn'[u].rows[p].data \in wrote'[d]
                   /\ \/ txn'[u].rows[p].result = 0
                      \/ \E d \in Turns :
                            manifest'[d][p].before = txn'[u].rows[p].result
            <3>1. CASE u = t
                  BY <1>0, <2>4, <2>5, <3>1
            <3>2. CASE u # t
                  <4>1. txn'[u] = txn[u] /\ p \in RowPaths(u)
                        BY <2>3, <2>5, <3>2 DEF RowPaths
                  <4> QED BY <1>0, <2>5, <4>1 DEF KeptInv, RowsMine
            <3> QED BY <3>1, <3>2
      <2>6. \A u \in Txns : \A p \in RowPaths(u)' : p \in Paths
            BY DEF RowPaths
      <2> QED BY <2>5, <2>6 DEF RowsMine
<1> QED BY <1>1, <1>2, PlanCases

LEMMA RowsStayMine ==
    ASSUME IInv, AtomInv, ContentInv, KeptInv, NEW a \in Actors,
           Step(a) \/ Begin(a) \/ Fault(a)
    PROVE  RowsMine'
<1>0. BeforesKept /\ RowsMine
      BY BeforesAreKept DEF KeptInv
<1>1. CASE Plan(a)
      BY <1>1, PlanRowsMine
<1>2. CASE Steady(a)
      BY <1>0, <1>2, RowsMineKept DEF Steady
<1>3. CASE Capture(a) \/ Execute(a) \/ Rename(a) \/ Complete(a) \/ Prepare(a)
      <2>1. txn' = txn
            BY Zenon, <1>3 DEF Capture, Execute, Rename, Complete, Prepare, disk
      <2>2. \A c \in Turns : wrote[c] \subseteq wrote'[c]
            <3>1. CASE wrote' = wrote
                  BY <3>1
            <3>2. CASE wrote' = [wrote EXCEPT ![a] = @ \cup {stamp + 1}]
                  BY <3>2 DEF ContentInv, WroteOK
            <3> QED BY Zenon, <1>3, <3>1, <3>2
                    DEF Capture, Execute, Rename, Complete, Prepare, history
      <2> QED BY <1>0, <2>1, <2>2, SameJournals, RowsMineKept
<1> QED BY <1>1, <1>2, <1>3, StillActions, RecoverActions, RestoreActions
        DEF Step, Begin, Fault

\* A step that changes no file and enters no window.
Quiet(a) ==
    /\ file' = file /\ mine' = mine
    /\ pc'[a] \notin {"rename", "swap", "copied", "unlink", "recSwap"}

LEMMA QuietKeeps ==
    ASSUME IInv, AtomInv, ContentInv, KeptInv, NEW a \in Actors,
           Step(a) \/ Begin(a) \/ Fault(a), Quiet(a)
    PROVE  KeptInv'
<1>1. \A p \in Paths : ~InWindowOf(a, p)'
      BY DEF Quiet, InWindowOf
<1>2. mine' = mine /\ \A p \in Paths : file'[p] = file[p]
      BY DEF Quiet
<1>3. Alone(a) /\ BeforesKept /\ RowsMine'
      BY StepIsAlone, BeforesAreKept, RowsStayMine
<1> QED BY <1>1, <1>2, <1>3, KeptStep

LEMMA QuietActions ==
    ASSUME IInv, NEW a \in Actors,
           \/ Lock(a) \/ List(a) \/ ReadTxn(a) \/ RecoverUnlink(a)
           \/ RecoverEnd(a) \/ Capture(a) \/ Complete(a) \/ Plan(a)
           \/ Commit(a) \/ Begin(a) \/ Fault(a)
    PROVE  Quiet(a)
<1>0. VarTypes
      BY ActorFacts
<1>1. file' = file /\ mine' = mine
      BY Zenon DEF Lock, List, ReadTxn, RecoverUnlink, RecoverEnd, Capture, Complete,
         Plan, Commit, Begin, Prepare, BeginRestore, Fault, Crash, RestoreFails,
         RecoverFails, disk, history
<1>2. CASE Lock(a) \/ List(a) \/ ReadTxn(a) \/ RecoverUnlink(a) \/ RecoverEnd(a)
      BY <1>0, <1>1, <1>2, NowAt
      DEF Lock, List, ReadTxn, RecoverUnlink, RecoverEnd, Quiet
<1>3. CASE Capture(a) \/ Complete(a) \/ Plan(a) \/ Commit(a)
      BY Zenon, <1>0, <1>1, <1>3, NowAt DEF Capture, Complete, Plan, Commit, Quiet
<1>4. CASE Begin(a) \/ Fault(a)
      BY Zenon, <1>0, <1>1, <1>4, NowAt
      DEF Begin, Prepare, BeginRestore, Fault, Crash, RestoreFails,
          RecoverFails, Compensate, Quiet
<1> QED BY <1>2, <1>3, <1>4

\* A write: the file is as it was approved, with the expected content.
LEMMA ExecuteLooks ==
    ASSUME IInv, ContentInv, KeptInv, NEW a \in Actors, Execute(a),
           NEW p \in Paths, InWindowOf(a, p)'
    PROVE  Safe(p) \/ file[p].data # mine[p]
<1>0. VarTypes /\ pc[a] = "lock" /\ Locked(a) /\ op[a].kind = "execute"
      BY ActorFacts DEF Execute
<1>1. /\ file[op[a].path] = op[a].prep /\ op' = op /\ pc'[a] = "rename"
      BY <1>0, NowAt DEF Execute, InWindowOf
<1>2. p = op[a].path
      BY <1>1 DEF InWindowOf
<1>3. a \in Turns /\ Writer(a) /\ Honest(a, p)
      BY DEF ContentInv, Turns
<1>4. file[p].data \in {manifest[a][p].before} \cup wrote[a]
      BY <1>0, <1>1, <1>2, <1>3 DEF Writer, Honest
<1> QED BY <1>3, <1>4 DEF ContentInv, WroteOK, Safe

\* A restore: the file has the content that the turn wrote.
LEMMA RestoreRowLooks ==
    ASSUME IInv, AtomInv, ContentInv, KeptInv, NEW a \in Actors, RestoreRow(a),
           NEW p \in Paths, InWindowOf(a, p)'
    PROVE  Safe(p) \/ file[p].data # mine[p]
<1>0. /\ VarTypes /\ pc[a] = "row" /\ op[a].todo # {} /\ pc[a] \in Owning
      BY ActorFacts DEF RestoreRow, Owning
<1>1. PICK t \in Txns : t = op[a].txn
      BY <1>0, ActorFacts
<1>2. PICK q : q = Min(op[a].todo)
      OBVIOUS
<1>3. q \in RowPaths(t)
      BY <1>0, <1>1, <1>2, ForwardFacts DEF Forwards
<1>4. /\ AsPlanned(a, q) /\ txn[t].rows[q].action # "noop" /\ op' = op
      /\ pc'[a] = "swap"
      <2>1. CASE ~AsPlanned(a, q)
            <3>1. pc'[a] = "recRow"
                  BY <1>0, <1>2, <2>1, NowAt DEF RestoreRow, Compensate
            <3> QED BY <3>1 DEF InWindowOf
      <2>2. CASE AsPlanned(a, q) /\ txn[t].rows[q].action = "noop"
            <3>1. pc'[a] = "row"
                  BY <1>0, <1>1, <1>2, <2>2 DEF RestoreRow
            <3> QED BY <3>1 DEF InWindowOf
      <2>3. CASE AsPlanned(a, q) /\ txn[t].rows[q].action # "noop"
            BY <1>0, <1>1, <1>2, <2>3, NowAt DEF RestoreRow
      <2> QED BY <2>1, <2>2, <2>3
<1>5. p = q
      BY <1>2, <1>4 DEF InWindowOf
<1>6. txn[t].rows[p] \in PlannedRow /\ txn[t].rows[p].action # "none"
      BY <1>0, <1>3, <1>5 DEF VarTypes, TxnType, RowPaths
<1>7. \E c \in Turns : txn[t].rows[p].data \in wrote[c]
      BY <1>3, <1>4, <1>5, <1>6 DEF KeptInv, RowsMine, PlannedRow
<1>8. file[p].data = txn[t].rows[p].data
      BY <1>1, <1>4, <1>5 DEF AsPlanned
<1> QED BY <1>7, <1>8 DEF ContentInv, WroteOK

\* A recovery: the file is gone, or it is the before-image.
LEMMA RecoverRowLooks ==
    ASSUME IInv, AtomInv, ContentInv, KeptInv, NEW a \in Actors, RecoverRow(a),
           NEW p \in Paths, InWindowOf(a, p)'
    PROVE  Safe(p) \/ file[p].data # mine[p]
<1>0. /\ VarTypes /\ pc[a] = "recRow" /\ op[a].todo # {} /\ pc[a] \in Owning
      BY ActorFacts DEF RecoverRow, Owning
<1>1. PICK t \in Txns : t = op[a].txn
      BY <1>0, ActorFacts
<1>2. PICK q : q = Max(op[a].todo)
      OBVIOUS
<1>3. q \in RowPaths(t)
      BY <1>0, <1>1, <1>2, BackFacts DEF Backs
<1>4. pc'[a] # "recRow"
      BY DEF InWindowOf
<1>5. /\ ~Conflict(t, q) /\ file[q].data # txn[t].rows[q].data /\ op' = op
      /\ pc'[a] = "recSwap"
      BY <1>0, <1>1, <1>2, <1>4, NowAt DEF RecoverRow
<1>6. p = q
      BY <1>2, <1>5 DEF InWindowOf
<1>7. \/ file[p].data = 0
      \/ /\ txn[t].rows[p].action = "restore"
         /\ file[p].data = txn[t].rows[p].result
      BY <1>5, <1>6 DEF Conflict
<1>8. CASE file[p].data = 0
      BY <1>8 DEF Safe
<1>9. CASE /\ txn[t].rows[p].action = "restore"
           /\ file[p].data = txn[t].rows[p].result
      <2>1. \/ txn[t].rows[p].result = 0
            \/ \E c \in Turns : manifest[c][p].before = txn[t].rows[p].result
            BY <1>3, <1>6, <1>9 DEF KeptInv, RowsMine
      <2> QED BY <1>9, <2>1 DEF Safe
<1> QED BY <1>7, <1>8, <1>9

LEMMA LooksKeep ==
    ASSUME IInv, AtomInv, ContentInv, KeptInv, NEW a \in Actors,
           RecoverRow(a) \/ Execute(a) \/ RestoreRow(a)
    PROVE  KeptInv'
<1>1. Step(a) /\ mine' = mine /\ \A p \in Paths : file'[p] = file[p]
      BY DEF Step, RecoverRow, Execute, RestoreRow, disk, history
<1>2. Alone(a) /\ BeforesKept /\ RowsMine'
      BY <1>1, StepIsAlone, BeforesAreKept, RowsStayMine
<1>3. \A p \in Paths : InWindowOf(a, p)' => Safe(p) \/ file[p].data # mine[p]
      BY RecoverRowLooks, ExecuteLooks, RestoreRowLooks
<1> QED BY <1>1, <1>2, <1>3, KeptStep

\* What is done inside of a window.
LEMMA WindowsKeep ==
    ASSUME IInv, AtomInv, ContentInv, KeptInv, NEW a \in Actors,
           RecoverSwap(a) \/ Rename(a) \/ Swap(a) \/ Copied(a) \/ Unlink(a)
    PROVE  KeptInv'
<1>0. /\ VarTypes /\ Step(a) /\ mine' = mine /\ op[a] \in OpType
      BY Zenon, ActorFacts
      DEF Step, RecoverSwap, Rename, Swap, Copied, Unlink, history
<1>1. PICK p : /\ InWindowOf(a, p)
               /\ p \in Paths => \A q \in Paths \ {p} : file'[q] = file[q]
               /\ \A q \in Paths : InWindowOf(a, q)' => q = p
      <2>1. CASE RecoverSwap(a)
            <3>1. PICK p : p = Max(op[a].todo)
                  OBVIOUS
            <3>2. InWindowOf(a, p)
                  BY <2>1, <3>1 DEF RecoverSwap, InWindowOf
            <3>3. p \in Paths => \A q \in Paths \ {p} : file'[q] = file[q]
                  BY <1>0, <2>1, <3>1 DEF RecoverSwap, VarTypes
            <3>4. pc'[a] \in {"recUnlink", "recRow"}
                  BY <1>0, <2>1, NowAt DEF RecoverSwap
            <3>5. \A q \in Paths : ~InWindowOf(a, q)'
                  BY <3>4 DEF InWindowOf
            <3> QED BY <3>2, <3>3, <3>5
      <2>2. CASE Rename(a)
            <3>1. PICK p : p = op[a].path
                  OBVIOUS
            <3>2. InWindowOf(a, p)
                  BY <2>2, <3>1 DEF Rename, InWindowOf
            <3>3. p \in Paths => \A q \in Paths \ {p} : file'[q] = file[q]
                  BY <1>0, <2>2, <3>1 DEF Rename, VarTypes
            <3>4. \A q \in Paths : ~InWindowOf(a, q)'
                  BY <1>0, <2>2, NowAt DEF Rename, InWindowOf
            <3> QED BY <3>2, <3>3, <3>4
      <2>3. CASE Swap(a) \/ Copied(a) \/ Unlink(a)
            <3>1. PICK p : p = Min(op[a].todo)
                  OBVIOUS
            <3>2. InWindowOf(a, p)
                  BY <2>3, <3>1 DEF Swap, Copied, Unlink, InWindowOf
            <3>3. p \in Paths => \A q \in Paths \ {p} : file'[q] = file[q]
                  <4>1. \/ file' = file
                        \/ file' = [file EXCEPT ![p] = NoFile]
                        \/ \E v : file' = [file EXCEPT ![p] = v]
                        BY <2>3, <3>1 DEF Swap, Copied, Unlink
                  <4> QED BY <1>0, <4>1 DEF VarTypes
            <3>4. \/ pc'[a] \in {"recRow", "row"}
                  \/ pc'[a] \in {"copied", "unlink"} /\ op' = op
                  BY <1>0, <2>3, NowAt
                  DEF Swap, Copied, Unlink, Compensate, RowRestored
            <3>5. \A q \in Paths : InWindowOf(a, q)' => q = p
                  BY <3>1, <3>4 DEF InWindowOf
            <3> QED BY <3>2, <3>3, <3>5
      <2> QED BY <2>1, <2>2, <2>3
<1>2. InWindow(p)
      BY <1>1 DEF InWindow, InWindowOf
<1>3. Alone(a) /\ BeforesKept /\ RowsMine'
      BY <1>0, StepIsAlone, BeforesAreKept, RowsStayMine
<1>4. p \in Paths
      <2>1. CASE pc[a] = "rename" /\ op[a].path = p
            BY <1>0, <2>1 DEF OpType
      <2>2. CASE pc[a] \in {"swap", "copied", "unlink"} /\ p = Min(op[a].todo)
            BY <1>0, <2>2, ActorFacts, LeastPath DEF ActorInv, Place, OpType
      <2>3. CASE pc[a] = "recSwap" /\ p = Max(op[a].todo)
            BY <1>0, <2>3, ActorFacts, GreatestPath DEF ActorInv, Place, OpType
      <2> QED BY <1>1, <2>1, <2>2, <2>3 DEF InWindowOf
<1>5. \A q \in Paths : file'[q] = file[q] \/ InWindow(q)
      BY <1>1, <1>2, <1>4
<1>6. \A q \in Paths : InWindowOf(a, q)' => Safe(q) \/ file[q].data # mine[q]
      BY <1>1, <1>2, <1>4 DEF KeptInv
<1> QED BY <1>0, <1>3, <1>5, <1>6, KeptStep

\* What he saves in a window is nobody's to keep.
LEMMA UserEditKept ==
    ASSUME IInv, ContentInv, KeptInv, NEW p \in Paths, UserEdit(p) PROVE KeptInv'
<1>0. VarTypes /\ WroteOK /\ UNCHANGED <<manifest, txn, pc, op, wrote>>
      BY DEF UserEdit, IInv, ContentInv
<1>1. RowsMine'
      BY <1>0 DEF KeptInv, RowsMine, RowPaths
<1>2. \A q \in Paths : InWindow(q)' <=> InWindow(q)
      BY <1>0 DEF InWindow
<1>3. ASSUME NEW q \in Paths \ {p}
      PROVE  (Safe(q)' \/ file'[q].data = mine'[q]) /\ (InWindow(q)' => Safe(q)')
      <2>1. file'[q] = file[q]
            BY <1>0, <1>3 DEF UserEdit, VarTypes
      <2>2. mine'[q] = mine[q]
            BY <1>0, <1>3 DEF UserEdit, WroteOK
      <2>3. Safe(q)' <=> Safe(q)
            BY <1>0, <2>2 DEF Safe
      <2> QED BY <1>2, <2>1, <2>2, <2>3 DEF KeptInv
<1>4. (Safe(p)' \/ file'[p].data = mine'[p]) /\ (InWindow(p)' => Safe(p)')
      <2>1. CASE mine' = [mine EXCEPT ![p] = 0]
            <3>1. mine'[p] = 0
                  BY <1>0, <2>1 DEF WroteOK
            <3> QED BY <3>1 DEF Safe
      <2>2. CASE /\ file' = [file EXCEPT ![p] =
                                [data |-> stamp + 1, ino |-> stamp + 1]]
                 /\ mine' = [mine EXCEPT ![p] = IF InWindow(p) THEN 0 ELSE stamp + 1]
            <3>1. file'[p].data = stamp + 1
                  BY <1>0, <2>2 DEF VarTypes
            <3>2. mine'[p] = IF InWindow(p) THEN 0 ELSE stamp + 1
                  BY <1>0, <2>2, Zenon DEF WroteOK
            <3>3. CASE InWindow(p)
                  BY <3>2, <3>3 DEF Safe
            <3>4. CASE ~InWindow(p)
                  BY <1>2, <3>1, <3>2, <3>4
            <3> QED BY <3>3, <3>4
      <2> QED BY <2>1, <2>2 DEF UserEdit
<1> QED BY <1>1, <1>3, <1>4 DEF KeptInv

LEMMA InitKept == Init => KeptInv
<1> SUFFICES ASSUME Init PROVE KeptInv
    OBVIOUS
<1>1. /\ OldTurn \in Turns /\ \A a \in Actors : pc[a] = "idle"
      /\ \A t \in Txns : RowPaths(t) = {}
      BY DEF Init, Turns, RowPaths, NoPlan
<1>2. PICK created \in SUBSET Paths :
         /\ manifest = [c \in Turns |-> [p \in Paths |->
               IF c # OldTurn THEN NoRow
               ELSE [before |-> IF p \in created THEN 0 ELSE p,
                     expected |-> MaxPaths + p, pending |-> 0, known |-> TRUE]]]
         /\ mine = [p \in Paths |-> IF p \in created THEN 0 ELSE p]
      BY Zenon DEF Init
<1>3. \A p \in Paths : manifest[OldTurn][p].before = mine[p]
      BY <1>1, <1>2
<1>4. \A p \in Paths : Safe(p)
      BY <1>1, <1>3 DEF Safe
<1> QED BY <1>1, <1>4 DEF KeptInv, RowsMine

LEMMA StutterKept ==
    ASSUME KeptInv, UNCHANGED vars PROVE KeptInv'
<1>1. UNCHANGED <<file, manifest, txn, pc, op, mine, wrote>>
      BY DEF vars, disk, history
<1>2. RowsMine'
      BY <1>1 DEF KeptInv, RowsMine, RowPaths
<1>3. \A p \in Paths : (Safe(p)' <=> Safe(p)) /\ (InWindow(p)' <=> InWindow(p))
      BY <1>1 DEF Safe, InWindow
<1> QED BY <1>1, <1>2, <1>3 DEF KeptInv

LEMMA NextKept ==
    IInv /\ AtomInv /\ ContentInv /\ KeptInv /\ [Next]_vars => KeptInv'
<1> SUFFICES ASSUME IInv, AtomInv, ContentInv, KeptInv, [Next]_vars PROVE KeptInv'
    OBVIOUS
<1>1. ASSUME NEW a \in Actors, Step(a) \/ Begin(a) \/ Fault(a), Quiet(a)
      PROVE  KeptInv'
      BY <1>1, QuietKeeps
<1>2. ASSUME NEW a \in Actors, Step(a) PROVE KeptInv'
      BY <1>1, <1>2, QuietActions, LooksKeep, WindowsKeep DEF Step
<1>3. ASSUME NEW a \in Actors, Begin(a) \/ Fault(a) PROVE KeptInv'
      BY <1>1, <1>3, QuietActions
<1> QED BY <1>2, <1>3, UserEditKept, StutterKept DEF Next

\* The user's last content of a file is never destroyed, unless he saved it
\* between a comparison and the rename: it is in place, or a before-image.
THEOREM UserContentIsKept == Spec => []UserContentKept
<1>1. KeptInv => UserContentKept
      BY DEF KeptInv, Safe, UserContentKept
<1>2. /\ IInv /\ AtomInv /\ ContentInv /\ KeptInv /\ [Next]_vars
      => (IInv /\ AtomInv /\ ContentInv /\ KeptInv)'
      BY NextOK, NextAtom, NextContent, NextKept
<1> QED BY InitOK, InitAtom, InitContent, InitKept, <1>1, <1>2, PTL DEF Spec
=============================================================================
