----------------------------- MODULE ModelRoute -----------------------------
(***************************************************************************)
(* Requests of several processes over one route (a model at a gateway):    *)
(* stream_chat of core/client.py with its fallbacks and retries, the       *)
(* durable trace of every attempt (core/state.py) and the circuit of the   *)
(* route (core/model_health.py), which is kept as a record of its own and  *)
(* replayed when attempts are committed out of order.                      *)
(*                                                                         *)
(* A step is one transaction of the metrics database, or what happens      *)
(* between two of them.  Time is counted in units of the shortest circuit. *)
(* Compaction requests count for the circuit like chat requests; latency   *)
(* and the counts shown by /model health are left out.                     *)
(***************************************************************************)
EXTENDS Naturals, FiniteSets

CONSTANTS
    Callers,        \* processes, or threads of children
    Attempts,       \* bound: ids of attempts
    MaxTime,        \* bound: the clock
    Threshold,      \* circuit_failure_threshold
    BaseTTL, MaxTTL,    \* circuit_open_ttl, circuit_open_max_ttl
    Retries,        \* retries of stream_chat
    Fixes           \* parameters a gateway may reject and the client then changes

ASSUME RouteAssumption ==
    /\ Attempts \subseteq Nat \ {0}
    /\ {MaxTime, BaseTTL, MaxTTL} \subseteq Nat
    /\ {Threshold, Retries} \subseteq Nat \ {0}
    /\ BaseTTL <= MaxTTL
    /\ IsFiniteSet(Fixes) /\ "transient" \notin Fixes

VARIABLES
    clock,
    row,        \* the table of attempts
    health,     \* the circuit part of the model_health row
    recovery,   \* last_route_recovery_at, 0: never
    caller      \* one logical request of each process

routeVars == <<clock, row, health, recovery, caller>>

Counted == {"transient", "fatal", "ok"}    \* outcomes that reach the circuit
Outcomes == Counted \cup {"interrupted"}

NoRow == [st |-> "none", end |-> 0]
NoHealth == [fails |-> 0, until |-> 0, last |-> 0]
NoCall == [pc |-> "idle", row |-> 0, tries |-> 0, fixes |-> Fixes,
           shown |-> {}, res |-> "none", out |-> "none"]

RouteInit ==
    /\ clock = 1
    /\ row = [r \in Attempts |-> NoRow]
    /\ health = NoHealth
    /\ recovery = 0
    /\ caller = [c \in Callers |-> NoCall]

-----------------------------------------------------------------------------
(* The circuit. *)

IsOpen == health.until > clock

\* The circuit opens at the threshold and its time doubles with every failure
\* more.
TTL(fails) == LET ttl == BaseTTL * 2 ^ (fails - Threshold)
              IN  IF ttl < MaxTTL THEN ttl ELSE MaxTTL

Later(a, b) == IF a < b THEN b ELSE a

\* record_request_outcome: what one attempt does to the record; an attempt that
\* ended before the last one known only counts for the statistics.
Outcome(h, r) ==
    LET fails == h.fails + 1
    IN  IF r.st = "interrupted" \/ r.end < h.last THEN h
        ELSE IF r.st = "ok" THEN [fails |-> 0, until |-> 0, last |-> r.end]
        ELSE IF r.st = "fatal" THEN [h EXCEPT !.last = r.end]
        ELSE [fails |-> fails, last |-> r.end,
              until |-> IF fails < Threshold THEN h.until
                        ELSE Later(h.until, r.end + TTL(fails))]

ResetTail(h) == [h EXCEPT !.fails = 0, !.until = 0]

\* _rebuild_request_health_tx: every attempt again, in the order of their ends,
\* the last recovery in its place.
Before(rows, r, s) == rows[r].end < rows[s].end \/ (rows[r].end = rows[s].end /\ r < s)

Replay(rows) ==
    LET ended == {r \in Attempts : rows[r].st \in Outcomes}
        After[set \in SUBSET ended] ==
            IF set = {} THEN NoHealth
            ELSE LET r == CHOOSE r \in set : \A s \in set \ {r} : Before(rows, s, r)
                     h == After[set \ {r}]
                     past == \A s \in set \ {r} : rows[s].end <= recovery
                 IN  Outcome(IF rows[r].end > recovery /\ recovery > 0 /\ past
                             THEN ResetTail(h) ELSE h, rows[r])
    IN  IF \A r \in ended : rows[r].end <= recovery
        THEN ResetTail(After[ended]) ELSE After[ended]

\* _update_request_health_tx
UpdatedFaulty(rows, r) == Outcome(health, rows[r])
Updated(rows, r) ==
    IF rows[r].end <= health.last \/ rows[r].end <= recovery
    THEN Replay(rows) ELSE Outcome(health, rows[r])

\* A successful probe is evidence that the route works again.
ProbeSucceeds ==
    /\ health # NoHealth
    /\ recovery' = clock
    /\ health' = ResetTail(health)
    /\ UNCHANGED <<clock, row, caller>>

-----------------------------------------------------------------------------
(* One request: stream_chat. *)

Over(w, out) == [NoCall EXCEPT !.out = out, !.shown = w.shown]
Goto(c, pc) == caller' = [caller EXCEPT ![c].pc = pc]

\* An open circuit refuses the call unless the user named the route.
Call(c, explicit) ==
    /\ caller[c].pc = "idle"
    /\ caller' = [caller EXCEPT ![c] =
                    [NoCall EXCEPT !.pc = IF IsOpen /\ ~explicit THEN "idle" ELSE "begin",
                                   !.out = IF IsOpen /\ ~explicit THEN "raised" ELSE "none"]]
    /\ UNCHANGED <<clock, row, health, recovery>>

\* The trace is durable before anything goes out.
Begin(c, r) ==
    /\ caller[c].pc = "begin"
    /\ row[r].st = "none" /\ \A s \in Attempts : row[s].st = "none" => r <= s
    /\ row' = [row EXCEPT ![r].st = "running"]
    /\ caller' = [caller EXCEPT ![c].pc = "stream", ![c].row = r]
    /\ UNCHANGED <<clock, health, recovery>>

\* Text reaches the user.
Show(c) ==
    /\ caller[c].pc = "stream"
    /\ caller' = [caller EXCEPT ![c].shown = @ \cup {caller[c].row}]
    /\ UNCHANGED <<clock, row, health, recovery>>

\* The stream ends: with its answer, an error, Esc, or the rejection of a
\* parameter that was sent.  Its end is stamped before it is committed.
Ends(c, res) ==
    /\ caller[c].pc = "stream"
    /\ res \in Outcomes \cup caller[c].fixes
    /\ row' = [row EXCEPT ![caller[c].row].end = clock]
    /\ caller' = [caller EXCEPT ![c].pc = "commit", ![c].res = res]
    /\ UNCHANGED <<clock, health, recovery>>

\* What follows a failed attempt: nothing after text was shown; a request with
\* another parameter; a retry.  Every rejection but that of "thinking" leaves
\* the budget of retries alone.
AfterFailure(w) ==
    LET used == IF w.res \in Fixes \ {"thinking"} THEN w.tries ELSE w.tries + 1
        once == [w EXCEPT !.tries = used]
    IN  IF w.shown # {} THEN Over(w, "raised")
        ELSE IF w.res \in w.fixes /\ used = Retries THEN Over(w, "silent")
        ELSE IF w.res \in w.fixes THEN [once EXCEPT !.fixes = @ \ {w.res}, !.pc = "begin"]
        ELSE IF w.res = "transient" /\ used < Retries THEN [once EXCEPT !.pc = "retry"]
        ELSE Over(w, "raised")

\* finalize: the result and the health of the route in one transaction.
Commit(c) ==
    LET w == caller[c]
        st == IF w.res \in Outcomes THEN w.res ELSE "fatal"
        rows == [row EXCEPT ![w.row].st = st]
    IN  /\ w.pc = "commit"
        /\ row' = rows
        /\ health' = Updated(rows, w.row)
        /\ caller' = [caller EXCEPT ![c] =
              CASE st = "ok" -> [Over(w, "answer") EXCEPT !.shown = @ \cup {w.row}]
                [] st = "interrupted" -> Over(w, "raised")
                [] OTHER -> AfterFailure(w)]
        /\ UNCHANGED <<clock, recovery>>

\* A retry is automatic, whoever chose the route: an open circuit ends it.
Retry(c) ==
    /\ caller[c].pc = "retry"
    /\ caller' = [caller EXCEPT ![c] = IF IsOpen THEN Over(@, "raised")
                                       ELSE [@ EXCEPT !.pc = "wait"]]
    /\ UNCHANGED <<clock, row, health, recovery>>

\* The pause before a retry, which Esc ends.
Waited(c) ==
    /\ caller[c].pc = "wait"
    /\ \/ Goto(c, "begin")
       \/ caller' = [caller EXCEPT ![c] = Over(@, "raised")]
    /\ UNCHANGED <<clock, row, health, recovery>>

-----------------------------------------------------------------------------
\* A process dies within a request; its running rows are closed by the next
\* process that opens the database.  The circuit does not hear of them.
Dies(c) ==
    /\ caller[c].pc \in {"stream", "commit"}
    /\ caller' = [caller EXCEPT ![c] = [NoCall EXCEPT !.pc = "dead", !.row = caller[c].row]]
    /\ UNCHANGED <<clock, row, health, recovery>>

Reconcile(c) ==
    /\ caller[c].pc = "dead"
    /\ row' = [row EXCEPT ![caller[c].row] = [st |-> "interrupted", end |-> clock]]
    /\ caller' = [caller EXCEPT ![c] = NoCall]
    /\ UNCHANGED <<clock, health, recovery>>

Tick ==
    /\ clock < MaxTime
    /\ clock' = clock + 1
    /\ UNCHANGED <<row, health, recovery, caller>>

CallStep(c) ==
    \/ \E r \in Attempts : Begin(c, r)
    \/ \E res \in Outcomes \cup Fixes : Ends(c, res)
    \/ Commit(c) \/ Retry(c) \/ Waited(c)

RouteNext ==
    \/ Tick \/ ProbeSucceeds
    \/ \E c \in Callers :
          \/ CallStep(c) \/ Show(c) \/ Dies(c) \/ Reconcile(c)
          \/ \E explicit \in BOOLEAN : Call(c, explicit)

RouteSpec == RouteInit /\ [][RouteNext]_routeVars

-----------------------------------------------------------------------------
LogicalCalls ==
    [pc : {"idle", "begin", "stream", "commit", "retry", "wait", "dead"},
     row : Attempts \cup {0}, tries : 0..Retries, fixes : SUBSET Fixes,
     shown : SUBSET Attempts,
     res : Outcomes \cup Fixes \cup {"none"},
     out : {"none", "answer", "raised", "silent"}]

RouteTypeOK ==
    /\ clock \in 1..MaxTime
    /\ row \in [Attempts -> [st : Outcomes \cup {"none", "running"}, end : 0..MaxTime]]
    /\ health \in [fails : 0..Cardinality(Attempts), until : 0..(MaxTime + MaxTTL),
                   last : 0..MaxTime]
    /\ recovery \in 0..clock
    /\ caller \in [Callers -> LogicalCalls]

\* The circuit is what the history of the route says, in the order in which
\* attempts ended, whatever the order in which processes committed them: the
\* failures that may heal since the last success and the last recovery, and
\* open until the latest of the times these failures call for.
Streak == {r \in Attempts :
           /\ row[r].st = "transient" /\ row[r].end > recovery
           /\ \A s \in Attempts : row[s].st = "ok" => Before(row, s, r)}
Rank(r) == Cardinality({s \in Streak : s = r \/ Before(row, s, r)})
Times == {row[r].end + TTL(Rank(r)) : r \in {s \in Streak : Rank(s) >= Threshold}}
CircuitIsTail ==
    /\ health.fails = Cardinality(Streak)
    /\ health.until \in Times \cup {0} /\ \A t \in Times : t <= health.until

\* The types, and the circuit.
RouteConsistent == RouteTypeOK /\ CircuitIsTail

\* The user reads one answer: no attempt starts after text of another was shown.
\* And no loop of fallbacks and retries: each attempt that follows a failure
\* leaves fewer of both.
Budget(w) == (Retries - w.tries) + Cardinality(w.fixes)
RetriesAreSound == [][\A c \in Callers :
    /\ Cardinality(caller'[c].shown) <= 1
    /\ (caller[c].pc = "commit" /\ caller'[c].pc \in {"begin", "retry"})
           => Budget(caller'[c]) < Budget(caller[c])]_routeVars
=============================================================================
