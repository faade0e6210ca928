-------------------------------- MODULE Goal --------------------------------
(***************************************************************************)
(* The goal of a session (core/goals.py) and the rounds the REPL starts by *)
(* itself to reach it (zylab.py): the durable record with its revisions,   *)
(* the process-local activation, the reservation of a round before its     *)
(* queue row, and what /goal, the goal_update tool and the end of a round  *)
(* do to the record while a round may be in flight.                        *)
(*                                                                         *)
(* The owner thread takes every step; between the steps of a reservation   *)
(* only a crash can come.  Every save of the session and every write of    *)
(* the journal may fail.  Objectives, evidence and usage are left out; the *)
(* queue holds only the rows of the goal.                                  *)
(***************************************************************************)
EXTENDS Integers, Sequences

CONSTANTS
    MaxGoals,       \* bound: ids of goals
    MaxRevision,    \* bound: revisions of a goal
    RoundLimits     \* the limits a user may ask for

ASSUME GoalAssumption == RoundLimits \subseteq Nat

VARIABLES
    goal,       \* the record in memory
    armed,      \* _goal_activation
    saved,      \* the record in the session file
    rows,       \* durable queue rows of origin "goal"
    turn,       \* the turn that runs
    round,      \* _goal_round_items: the metadata of the round in flight
    plan,       \* plan mode
    step,       \* how far dispatch_goal_ready has come
    consent,    \* what the user last decided on automatic rounds
    ran         \* rounds of this goal that were started

goalVars == <<goal, armed, saved, rows, turn, round, plan, step, consent, ran>>

NoGoal == [id |-> 0, rev |-> 0, phase |-> "none", max |-> 0, rounds |-> 0]
NoRound == [id |-> 0, rev |-> 0, n |-> 0]

GoalInit ==
    /\ goal = NoGoal /\ saved = NoGoal
    /\ armed = FALSE /\ plan = FALSE /\ consent = FALSE
    /\ rows = <<>>
    /\ turn = "none" /\ round = NoRound /\ step = "none"
    /\ ran = 0

-----------------------------------------------------------------------------
(* Changes of the record. *)

Revised(g, phase) == [g EXCEPT !.rev = @ + 1, !.phase = phase]

\* _commit_goal: a save that fails keeps the definition and closes the gate.
SaveGoalFaulty(g, on) ==
    \/ goal' = g /\ saved' = g /\ armed' = on
    \/ UNCHANGED <<goal, saved, armed>>
SaveGoal(g, on) ==
    \/ goal' = g /\ saved' = g /\ armed' = on
    \/ armed' = FALSE /\ UNCHANGED <<goal, saved>>

\* A change of the user's first closes the gate and cancels the queued rounds,
\* which may fail.
Change(g, on) ==
    \/ rows' = <<>> /\ SaveGoal(g, on)
    \/ armed' = FALSE /\ UNCHANGED <<goal, saved, rows>>

Free == step = "none" /\ goal.rev < MaxRevision

\* /goal <objective>, or a proposal of the model the user accepted.
Create(max) ==
    /\ step = "none" /\ goal.id < MaxGoals
    /\ goal.phase \in {"none", "complete"}
    /\ rows' = <<>> /\ round' = NoRound
    /\ consent' = TRUE
    /\ SaveGoal([id |-> goal.id + 1, rev |-> 1, phase |-> "active", max |-> max, rounds |-> 0],
                TRUE)
    /\ ran' = IF goal' = goal THEN ran ELSE 0
    /\ UNCHANGED <<turn, plan, step>>

Edit(max) ==
    /\ Free /\ goal.phase \in {"active", "paused", "blocked"}
    /\ max >= goal.rounds
    /\ Change([Revised(goal, goal.phase) EXCEPT !.max = max], armed)
    /\ UNCHANGED <<turn, round, plan, step, consent, ran>>

\* /goal pause, block and complete.
Settle(phase) ==
    /\ Free
    /\ \/ phase \in {"paused", "blocked"} /\ goal.phase = "active"
       \/ phase = "complete" /\ goal.phase \in {"active", "paused", "blocked"}
    /\ Change(Revised(goal, phase), FALSE)
    /\ consent' = FALSE
    /\ UNCHANGED <<turn, round, plan, step, ran>>

\* Arming an active goal is no new revision: a queued round stays valid.
Resume ==
    /\ Free /\ goal.phase \in {"active", "paused", "blocked"}
    /\ goal.rounds < goal.max
    /\ SaveGoal(IF goal.phase = "active" THEN goal ELSE Revised(goal, "active"), TRUE)
    /\ consent' = TRUE
    /\ UNCHANGED <<rows, turn, round, plan, step, ran>>

\* /goal clear.  Ids are never used again.
Clear ==
    /\ step = "none" /\ goal.phase # "none"
    /\ \/ /\ rows' = <<>> /\ round' = NoRound /\ armed' = FALSE
          /\ \/ goal' = [NoGoal EXCEPT !.id = goal.id] /\ saved' = goal'
             \/ UNCHANGED <<goal, saved>>
       \/ armed' = FALSE /\ UNCHANGED <<goal, saved, rows, round>>
    /\ consent' = FALSE
    /\ UNCHANGED <<turn, plan, step, ran>>

TogglePlan ==
    /\ step = "none" /\ turn = "none"
    /\ plan' = ~plan
    /\ UNCHANGED <<goal, armed, saved, rows, turn, round, step, consent, ran>>

\* The record of the tool's compare-and-set reference, when it is current.  A
\* round in flight keeps up with the revisions its own turn makes.
ToolUpdate(phase) ==
    /\ Free /\ turn # "none" /\ ~plan
    /\ \/ goal.phase = "active"
       \/ phase = "complete" /\ goal.phase \in {"paused", "blocked"}
    /\ SaveGoal(Revised(goal, phase), armed /\ phase = "active")
    /\ round' = IF goal' # goal /\ round.id = goal.id /\ round.rev = goal.rev
                THEN [round EXCEPT !.rev = goal'.rev] ELSE round
    /\ consent' = (consent /\ phase = "active")
    /\ UNCHANGED <<rows, turn, plan, step, ran>>

-----------------------------------------------------------------------------
(* Rounds. *)

MatchesFaulty(row) == row.id = goal.id
Matches(row) == row.id = goal.id /\ row.rev = goal.rev /\ row.n = goal.rounds /\ row.n > 0

MayDispatch == goal.phase = "active" /\ armed /\ ~plan /\ turn = "none" /\ step = "none"

StartRound(row) ==
    /\ turn' = "goal" /\ round' = row
    /\ ran' = ran + 1

\* A round that was queued before a crash or a closed gate: stale rows are
\* cancelled, one that matches runs without a new charge.
DispatchQueued ==
    /\ MayDispatch /\ rows # <<>>
    /\ rows' = <<>>
    /\ LET valid == {i \in DOMAIN rows : Matches(rows[i])}
       IN  \/ valid = {} /\ UNCHANGED <<turn, round, ran>>
           \/ \E first \in valid : (\A i \in valid : first <= i) /\ StartRound(rows[first])
    /\ UNCHANGED <<goal, armed, saved, plan, step, consent>>

\* The limit is reached, by an edit or a crash: the goal blocks.
Exhausted ==
    /\ MayDispatch /\ rows = <<>> /\ Free
    /\ goal.rounds >= goal.max
    /\ Change(Revised(goal, "blocked"), FALSE)
    /\ consent' = FALSE
    /\ UNCHANGED <<turn, round, plan, step, ran>>

\* A new round: charged and saved, then queued, then started.
Charge ==
    /\ MayDispatch /\ rows = <<>>
    /\ goal.rounds < goal.max
    /\ goal' = [goal EXCEPT !.rounds = @ + 1]
    /\ saved' \in {goal', saved}
    /\ step' = IF saved' = goal' THEN "charged" ELSE "failed"
    /\ UNCHANGED <<armed, rows, turn, round, plan, consent, ran>>

Enqueue ==
    /\ step = "charged"
    /\ \/ rows' = Append(rows, [id |-> goal.id, rev |-> goal.rev, n |-> goal.rounds])
          /\ step' = "queued"
       \/ step' = "failed" /\ UNCHANGED rows
    /\ UNCHANGED <<goal, armed, saved, turn, round, plan, consent, ran>>

Start ==
    /\ step = "queued"
    /\ \/ StartRound(Head(rows)) /\ rows' = <<>> /\ step' = "none"
       \/ step' = "failed" /\ UNCHANGED <<rows, turn, round, ran>>
    /\ UNCHANGED <<goal, armed, saved, plan, consent>>

\* The charge is taken back, on disk as well unless that save fails too, and
\* the gate closed; a queued row stays, and is stale from now on.
TakeBack ==
    /\ step = "failed"
    /\ goal' = [goal EXCEPT !.rounds = @ - 1]
    /\ saved' \in {goal', saved}
    /\ armed' = FALSE /\ step' = "none"
    /\ UNCHANGED <<rows, turn, round, plan, consent, ran>>

UserTurn ==
    /\ turn = "none" /\ step = "none"
    /\ turn' = "user"
    /\ UNCHANGED <<goal, armed, saved, rows, round, plan, step, consent, ran>>

\* goal_turn_finished: only the round of the present definition may change it.
OutcomeCounts == round.id = goal.id /\ round.rev = goal.rev

TurnOver(ok) ==
    /\ turn # "none" /\ step = "none"
    /\ goal.rev < MaxRevision \/ goal.phase # "active"
    /\ turn' = "none" /\ round' = NoRound
    /\ LET counts == turn = "goal" /\ round # NoRound /\ OutcomeCounts /\ goal.phase = "active"
       IN  \/ /\ counts /\ ~ok /\ armed
              /\ goal' = Revised(goal, "active") /\ armed' = FALSE
              /\ saved' \in {goal', saved} /\ UNCHANGED <<rows, consent>>
           \/ /\ counts /\ ok /\ goal.rounds >= goal.max
              /\ Change(Revised(goal, "blocked"), FALSE) /\ consent' = FALSE
           \/ /\ ~counts \/ (~ok /\ ~armed) \/ (ok /\ goal.rounds < goal.max)
              /\ saved' \in {goal, saved} /\ UNCHANGED <<goal, armed, rows, consent>>
    /\ UNCHANGED <<plan, step, ran>>

\* A crash, or the session is loaded again: the gate is closed.
Reload ==
    /\ goal' = saved /\ armed' = FALSE
    /\ turn' = "none" /\ round' = NoRound /\ step' = "none"
    /\ plan' \in {FALSE, plan}
    /\ consent' = FALSE
    /\ ran' = IF saved.id = goal.id THEN ran ELSE 0
    /\ UNCHANGED <<saved, rows>>

GoalNext ==
    \/ \E max \in RoundLimits : Create(max) \/ Edit(max)
    \/ \E phase \in {"paused", "blocked", "complete"} : Settle(phase)
    \/ Resume \/ Clear \/ TogglePlan
    \/ \E phase \in {"active", "blocked", "complete"} : ToolUpdate(phase)
    \/ DispatchQueued \/ Exhausted \/ Charge \/ Enqueue \/ Start \/ TakeBack
    \/ UserTurn \/ \E ok \in BOOLEAN : TurnOver(ok)
    \/ Reload

GoalSpec == GoalInit /\ [][GoalNext]_goalVars
-----------------------------------------------------------------------------
Phases == {"none", "active", "paused", "blocked", "complete"}
Goals == [id : Nat, rev : Nat, phase : Phases, max : Nat, rounds : Int]
Rows == [id : Nat, rev : Nat, n : Int]
GoalTypeOK ==
    /\ goal \in Goals /\ saved \in Goals
    /\ armed \in BOOLEAN /\ plan \in BOOLEAN /\ consent \in BOOLEAN
    /\ rows \in Seq(Rows)
    /\ turn \in {"none", "user", "goal"}
    /\ round \in Rows
    /\ step \in {"none", "charged", "failed", "queued"}
    /\ ran \in Nat

\* The limit is a real cost boundary: every round that was started is charged,
\* in memory and on disk, whatever failed or crashed around it, and no more are
\* charged than the user allowed.
RoundsAreCharged ==
    /\ goal.phase # "none" => ran <= goal.rounds /\ goal.rounds <= goal.max
    /\ saved.phase # "none" /\ saved.id = goal.id => ran <= saved.rounds

\* No round starts by itself unless the user's last word was that it may: not
\* after a restart, and not after a pause whose save failed.
OnlyWithConsent == armed => consent

\* The rounds the REPL starts by itself are within the limit, and the user has
\* said that they may start.
RoundsAreAllowed == GoalTypeOK /\ RoundsAreCharged /\ OnlyWithConsent

\* A round starts only for the definition that holds now, never for one that
\* was edited, replaced or taken back.
StartsCurrent == turn' = "goal" /\ turn = "none" =>
    /\ round'.id = goal'.id /\ round'.rev = goal'.rev /\ round'.n = goal'.rounds
    /\ goal'.phase = "active" /\ ~plan

\* The outcome of a round of an older definition neither stops nor changes the
\* present one.
OldRoundIsHarmless ==
    /\ turn = "goal" /\ turn' = "none" /\ goal.phase = "active"
    /\ consent' = consent /\ goal'.id = goal.id
    /\ round.id # goal.id \/ round.rev # goal.rev
    => goal'.rev = goal.rev /\ armed' = armed

\* A round belongs to its definition, from its start to its outcome.
RoundIsCurrent == [][StartsCurrent /\ OldRoundIsHarmless]_goalVars
=============================================================================
