--------------------------- MODULE ContextWindow ---------------------------
(***************************************************************************)
(* What one agent sends to its model: the transcript, which only grows     *)
(* (or is cut by /rewind and /clear), and the summary that stands for a    *)
(* prefix of it (src/core/context.py; the compaction methods of            *)
(* src/core/agent.py).                                                     *)
(*                                                                         *)
(* A message is [role, id]: a prompt with its wording, a call of the model *)
(* (with one or two tool calls), the result of call id, an answer.  An     *)
(* index counts messages, so prefix n is the first n of them.  Every       *)
(* message is one token.  A provider is asked for a summary step by step   *)
(* ("first", "wide", "other"); between two steps Esc may end the turn.     *)
(***************************************************************************)
EXTENDS Integers, Sequences, FiniteSets, SequencesExt

CONSTANTS
    TailTokens,     \* compaction_tail_tokens
    KeepTail,       \* turns the second plan keeps
    SourceTokens,   \* what one summary request may cover
    CompactAt,      \* the threshold; one half of it is the deep target
    MaxMessages,    \* bound: messages of the transcript
    MaxHour,        \* bound: the clock
    SamePlan, Cooldown, \* COMPACT_SAME_PLAN_RETRY_SECONDS, _BREAKER_SECONDS
    OtherSeat       \* is there a route of another family?

Limit == 3          \* COMPACT_BREAKER_FAILURES
MaxPasses == 4      \* COMPACT_MAX_PASSES

VARIABLES
    transcript,
    summary,    \* [to, prefix] or NoSummary
    breaker,    \* [failures, at, plan]
    pass,       \* the summary request in flight
    learned,    \* what the catalogue holds of this model's first step
    attempted,  \* this turn has compacted: compaction_attempted, ctx_retried
    hour,
    spent       \* history: when automatic passes failed since the last reset

windowVars == <<transcript, summary, breaker, pass, learned, attempted, hour,
                spent>>

NoSummary == [to |-> 0, prefix |-> <<>>]
\* n: the pass of this compaction, 0 when none runs; flag: what the first step
\* of it may teach the catalogue.
NoPass == [n |-> 0, forced |-> FALSE, plan |-> 0, step |-> "done",
           asked |-> {}, flag |-> "none"]

WindowInit ==
    /\ transcript = <<>> /\ summary = NoSummary
    /\ breaker = [failures |-> 0, at |-> 0, plan |-> <<>>]
    /\ pass = NoPass /\ learned = "nothing" /\ attempted = {}
    /\ hour = 0 /\ spent = <<>>

-----------------------------------------------------------------------------
\* The protocol units of a transcript, as half-open intervals.

Calls(m) == IF m.role = "call" THEN 1 .. m.id ELSE {}

\* The results that directly follow message i.
RunEnd(t, i) ==
    CHOOSE j \in i .. Len(t) :
        /\ \A k \in i + 1 .. j : t[k].role = "result"
        /\ j < Len(t) => t[j + 1].role # "result"

Answered(t, i) == {t[k].id : k \in i + 1 .. RunEnd(t, i)} = Calls(t[i])

Spans(t) == {[from |-> i - 1, to |-> RunEnd(t, i)] :
                 i \in {k \in 1 .. Len(t) : t[k].role = "call"}}
Issues(t) == {s \in Spans(t) : ~Answered(t, s.from + 1)}

\* The unit that starts at message i, or <<>>.
UnitAt(t, i) ==
    IF t[i].role \in {"prompt", "answer"} THEN <<[from |-> i - 1, to |-> i]>>
    ELSE IF t[i].role = "call" /\ Answered(t, i)
    THEN <<[from |-> i - 1, to |-> RunEnd(t, i)]>>
    ELSE <<>>
Units(t) == FlattenSeq([i \in 1 .. Len(t) |-> UnitAt(t, i)])

\* group_turns: a prompt with the units before the next prompt; units before
\* the first prompt stand alone.
Prompts(t) == {i - 1 : i \in {k \in 1 .. Len(t) : t[k].role = "prompt"}}
Grouped(us, prompts) ==
    LET Starts == {i \in 1 .. Len(us) : us[i].from \in prompts
                     \/ \A p \in prompts : us[i].from < p}
        Final(i) == CHOOSE k \in i .. Len(us) :
                        /\ \A j \in i + 1 .. k : j \notin Starts
                        /\ k < Len(us) => k + 1 \in Starts
    IN FlattenSeq([i \in 1 .. Len(us) |->
           IF i \in Starts THEN <<[from |-> us[i].from, to |-> us[Final(i)].to]>>
           ELSE <<>>])
Turns(t) == Grouped(Units(t), Prompts(t))

BoundariesFaulty(us, t) == {0, Len(t)} \cup {u.to : u \in us}
Boundaries(us, t) == {0, Len(t)} \cup {u.from : u \in us} \cup {u.to : u \in us}

Blocked(t, b) ==
    \E s \in Issues(t) : s.from < b /\ (s.to > b \/ s.to >= Len(t))

Valid(t, s) ==
    /\ 0 < s.to /\ s.to <= Len(t)
    /\ s.to \in Boundaries(ToSet(Units(t)), t)
    /\ ~Blocked(t, s.to)
    /\ s.prefix = SubSeq(t, 1, s.to)

Coverage(t, s) == IF Valid(t, s) THEN s.to ELSE 0

-----------------------------------------------------------------------------
\* The request: the summary, what the user said under it, then the units; the
\* groups in cut keep their prompts only.

Said(ms) == SelectSeq(ms, LAMBDA m : m.role = "prompt")
Messages(t, u) == SubSeq(t, u.from + 1, u.to)
Shown(t, u, covered, cut) ==
    IF u.from < covered THEN <<>>
    ELSE IF \E g \in cut : g.from <= u.from /\ u.to <= g.to
         THEN Said(Messages(t, u)) ELSE Messages(t, u)
RequestOf(t, us, covered, cut) ==
    Said(SubSeq(t, 1, covered))
        \o FlattenSeq([i \in 1 .. Len(us) |-> Shown(t, us[i], covered, cut)])
Projected(t, s, cut) == RequestOf(t, Units(t), Coverage(t, s), cut)

Pending(t, s) == SelectSeq(Turns(t), LAMBDA g : g.from >= Coverage(t, s))

\* The budget drops whole groups from the oldest, never the last one nor the
\* last with a prompt; how many depends on sizes, so any number of them.
CutsOf(gs, prompts) ==
    LET Kept == {i \in 1 .. Len(gs) :
                    i = Len(gs) \/ (/\ gs[i].from \in prompts
                                    /\ \A k \in i + 1 .. Len(gs) :
                                           gs[k].from \notin prompts)}
    IN {{gs[i] : i \in 1 .. n \ Kept} : n \in 0 .. Len(gs)}
Cuts(t, s) == CutsOf(Pending(t, s), Prompts(t))

Pressure(t, s) ==
    Len(Projected(t, s, {})) + IF Valid(t, s) THEN 1 ELSE 0

-----------------------------------------------------------------------------
\* Plans: the boundary a pass would summarise up to, 0 when there is none.

Size(us) == FoldSeq(LAMBDA u, n : n + u.to - u.from, 0, us)
From(us, i) == SubSeq(us, i, Len(us))
LeastOf(S) == CHOOSE x \in S : \A y \in S : x <= y
Lower(a, b) == IF a < b THEN a ELSE b

\* The shortest tail, moved to the next turn if that keeps a quarter of it.
Keeps(tail, first) ==
    Size(SelectSeq(tail, LAMBDA u : u.from >= first)) * 4
        >= Lower(TailTokens, Size(tail))
MovedTail(tail, turns) ==
    LET later == {g.from : g \in {h \in ToSet(turns) : h.from >= tail[1].from}}
    IN IF later # {} /\ Keeps(tail, LeastOf(later))
       THEN LeastOf(later) ELSE tail[1].from
TailStart(units, turns) ==
    MovedTail(From(units, LeastOf({i \in 1 .. Len(units) :
                              \/ Len(units) - i + 1 <= 2
                              \/ Size(From(units, i)) <= TailTokens})), turns)

\* _bounded_plan: the longest part of the covered units that fits, at least one.
Bounded(covered, tail) ==
    LET n == CHOOSE k \in 1 .. Len(covered) :
                 /\ k = 1 \/ Size(SubSeq(covered, 1, k)) <= SourceTokens
                 /\ \A j \in k + 1 .. Len(covered) :
                        Size(SubSeq(covered, 1, j)) > SourceTokens
    IN IF n < Len(covered) THEN covered[n + 1].from ELSE tail

UpTo(us, tail, t, s) ==
    LET covered == SelectSeq(us, LAMBDA u : u.to <= tail)
    IN IF tail <= Coverage(t, s) \/ Blocked(t, tail) \/ covered = <<>>
       THEN 0 ELSE Bounded(covered, tail)

ByTokens(units, t, s) ==
    IF units = <<>> THEN 0 ELSE UpTo(units, TailStart(units, Pending(t, s)), t, s)
PlanByTokens(t, s) ==
    ByTokens(SelectSeq(Units(t), LAMBDA u : u.from >= Coverage(t, s)), t, s)

ByTurns(gs, t, s) ==
    IF Len(gs) <= KeepTail THEN 0
    ELSE UpTo(gs, gs[Len(gs) - KeepTail + 1].from, t, s)
PlanByTurns(t, s) == ByTurns(Pending(t, s), t, s)

\* compaction_breaker_open: too many failures, the last of them not long ago.
BreakerOpen == breaker.failures >= Limit /\ hour - breaker.at < Cooldown

\* over: the provider counted more tokens in the last request than CompactAt.
Pressed(deep, over) ==
    \/ Pressure(transcript, summary) >= IF deep THEN CompactAt \div 2
                                                 ELSE CompactAt
    \/ over /\ ~deep

\* _compaction_plan; deep: the second and later passes of one compaction.
Again(plan) ==
    hour - breaker.at < SamePlan /\ breaker.plan = SubSeq(transcript, 1, plan)
Unless(plan, other) == IF plan > 0 THEN plan ELSE other
NewPlan(plan, force) == IF plan > 0 /\ (force \/ ~Again(plan)) THEN plan ELSE 0
PlanOf(force, deep, over) ==
    IF force \/ (Pressed(deep, over) /\ ~BreakerOpen)
    THEN NewPlan(Unless(PlanByTokens(transcript, summary),
                        IF deep THEN 0 ELSE PlanByTurns(transcript, summary)),
                 force)
    ELSE 0

\* Looking at a breaker that has cooled closes it.
Looked(looks) ==
    breaker' = IF looks /\ breaker.failures >= Limit /\ ~BreakerOpen
               THEN [breaker EXCEPT !.failures = 0] ELSE breaker

\* plan_compaction_to, at a boundary between turns.
PlanTo(n) ==
    LET s == IF Coverage(transcript, summary) > n THEN NoSummary ELSE summary
    IN IF /\ n \in Boundaries(ToSet(Turns(transcript)), transcript)
          /\ ~Blocked(transcript, n)
          /\ \E g \in ToSet(Turns(transcript)) :
                 g.from >= Coverage(transcript, s) /\ g.to <= n
       THEN n ELSE 0

-----------------------------------------------------------------------------
\* The transcript.

Grows(m) ==
    /\ pass.n = 0 /\ Len(transcript) < MaxMessages
    /\ transcript' = Append(transcript, m)
    /\ UNCHANGED <<summary, breaker, pass, learned, hour, spent>>

\* The model may be asked after a prompt or when every call has its result.
MayAsk ==
    /\ pass.n = 0 /\ transcript # <<>>
    /\ Last(transcript).role \in {"prompt", "result"}
    /\ ~\E s \in Issues(transcript) : s.to = Len(transcript)

\* A prompt comes at any time: Esc may have left calls without results.  A
\* steer belongs to the turn that runs.
Prompt(steer) ==
    /\ Grows([role |-> "prompt", id |-> 0])
    /\ attempted' = IF steer THEN attempted ELSE {}
CallTools(k) ==
    MayAsk /\ Grows([role |-> "call", id |-> k]) /\ UNCHANGED attempted
AnswerTurn ==
    MayAsk /\ Grows([role |-> "answer", id |-> 0]) /\ UNCHANGED attempted
ToolReturns ==
    \E s \in Issues(transcript) :
        /\ s.to = Len(transcript)
        /\ Grows([role |-> "result", id |-> s.to - s.from])
        /\ UNCHANGED attempted

\* load_context, after /rewind has branched or a session was resumed.
CutTo(n) ==
    /\ pass.n = 0 /\ n \in Boundaries(ToSet(Turns(transcript)), transcript)
    /\ transcript' = SubSeq(transcript, 1, n)
    /\ summary' = IF Valid(transcript', summary) THEN summary ELSE NoSummary
    /\ breaker' = [breaker EXCEPT !.plan = <<>>]
    /\ attempted' = {}
    /\ UNCHANGED <<pass, learned, hour, spent>>

-----------------------------------------------------------------------------
\* A compaction: passes, each of up to three requests.

Passing(n, forced, plan) ==
    pass' = [n |-> n, forced |-> forced, plan |-> plan, step |-> "first",
             asked |-> {}, flag |-> "none"]
Still == UNCHANGED <<transcript, summary, learned, hour, spent>>

AutoCompact(over) ==
    /\ MayAsk /\ "compacted" \notin attempted
    /\ Looked(Pressed(FALSE, over))
    /\ LET plan == PlanOf(FALSE, FALSE, over)
       IN IF plan = 0 THEN UNCHANGED <<pass, attempted>>
          ELSE /\ Passing(1, FALSE, plan)
               /\ attempted' = attempted \cup {"compacted"}
    /\ Still

\* The provider refuses the request as too long: once a turn, compact by force.
Refused ==
    /\ MayAsk /\ "refused" \notin attempted
    /\ PlanOf(TRUE, FALSE, FALSE) > 0
    /\ Passing(1, TRUE, PlanOf(TRUE, FALSE, FALSE))
    /\ attempted' = attempted \cup {"refused"}
    /\ Still /\ UNCHANGED breaker

CompactNow ==
    /\ pass.n = 0 /\ PlanOf(TRUE, FALSE, FALSE) > 0
    /\ Passing(1, TRUE, PlanOf(TRUE, FALSE, FALSE))
    /\ Still /\ UNCHANGED <<breaker, attempted>>

SummarizeTo(n) ==
    /\ pass.n = 0 /\ PlanTo(n) > 0
    /\ Passing(MaxPasses, TRUE, n)
    /\ Still /\ UNCHANGED <<breaker, attempted>>

Replies == {"text", "starved", "truncated", "rejected", "failed"}

\* compaction_attempts and compaction_should_attempt: the step after a reply.
Following(step, reply) ==
    IF /\ step = "first" /\ learned # "default"
       /\ reply \in {"starved", "truncated", "rejected"}
    THEN "wide"
    ELSE IF step # "other" /\ OtherSeat THEN "other" ELSE "none"

Flag(step, reply) ==
    CASE step # "first" -> pass.flag
      [] reply = "rejected" /\ learned # "default" -> "default"
      [] reply = "truncated" /\ learned = "nothing" -> "wide"
      [] OTHER -> "none"

Installed ==
    /\ summary' = [to |-> pass.plan, prefix |-> SubSeq(transcript, 1, pass.plan)]
    /\ breaker' = [breaker EXCEPT !.failures = 0, !.plan = <<>>]
    /\ pass' = [pass EXCEPT !.step = "done"]
    /\ spent' = <<>>

\* The count saturates: it is only ever compared with Limit.
Rejected(asked) ==
    /\ breaker' = [failures |-> Lower(breaker.failures + 1, Limit), at |-> hour,
                   plan |-> SubSeq(transcript, 1, pass.plan)]
    /\ pass' = [NoPass EXCEPT !.asked = asked]
    /\ spent' = IF pass.forced THEN spent ELSE Append(spent, hour)
    /\ UNCHANGED summary

\* One summary request answers.
Attempt(reply) ==
    LET step == pass.step
        next == Following(step, reply)
        asked == pass.asked \cup {step}
    IN /\ pass.n > 0 /\ step # "done"
       /\ \/ reply = "text" /\ Installed
          \/ reply # "text" /\ next = "none" /\ Rejected(asked)
          \/ /\ reply # "text" /\ next # "none"
             /\ pass' = [pass EXCEPT !.step = next, !.asked = asked,
                                     !.flag = Flag(step, reply)]
             /\ UNCHANGED <<summary, breaker, spent>>
       /\ learned' = IF reply = "text" /\ step = "wide" /\ pass.flag # "none"
                     THEN pass.flag ELSE learned
       /\ UNCHANGED <<transcript, attempted, hour>>

\* Esc or a steer ends the compaction; nothing is installed, nothing counted.
Interrupt ==
    /\ pass.n > 0 /\ pass' = NoPass
    /\ Still /\ UNCHANGED <<breaker, attempted>>

Deeper ==
    /\ pass.n > 0 /\ pass.step = "done"
    /\ Looked(pass.n < MaxPasses /\ Pressed(TRUE, FALSE))
    /\ LET plan == PlanOf(FALSE, TRUE, FALSE)
       IN IF pass.n < MaxPasses /\ plan > 0
          THEN Passing(pass.n + 1, FALSE, plan) ELSE pass' = NoPass
    /\ Still /\ UNCHANGED attempted

-----------------------------------------------------------------------------
SetModel ==
    /\ pass.n = 0
    /\ breaker' = [breaker EXCEPT !.failures = 0]
    /\ learned' = "nothing" /\ spent' = <<>>
    /\ UNCHANGED <<transcript, summary, pass, attempted, hour>>

HourPasses ==
    /\ hour < MaxHour /\ hour' = hour + 1
    /\ spent' = SelectSeq(spent, LAMBDA h : hour' - h < Cooldown)
    /\ UNCHANGED <<transcript, summary, breaker, pass, learned, attempted>>

WindowNext ==
    \/ \E steer \in BOOLEAN : Prompt(steer)
    \/ \E k \in 1 .. 2 : CallTools(k)
    \/ AnswerTurn
    \/ ToolReturns
    \/ \E n \in 0 .. MaxMessages : CutTo(n) \/ SummarizeTo(n)
    \/ \E over \in BOOLEAN : AutoCompact(over)
    \/ Refused
    \/ CompactNow
    \/ \E reply \in Replies : Attempt(reply)
    \/ Interrupt
    \/ Deeper
    \/ SetModel
    \/ HourPasses

-----------------------------------------------------------------------------
\* A summary that was installed keeps standing for a prefix of this transcript
\* while the conversation goes on, also next to a call that was interrupted:
\* context.py:216-243 tells of the summaries that were thrown away at once.
SummaryStays == summary # NoSummary => Valid(transcript, summary)

\* Whatever the budget drops, the request holds every prompt in order
\* (context.py:629-634 raises otherwise), and every call in it is followed by
\* exactly its results, which the provider demands.
WholeRequest(sent) ==
    /\ Said(sent) = Said(transcript)
    /\ Issues(sent) = {}
    /\ \A i \in 1 .. Len(sent) : sent[i].role = "result" =>
           \E s \in Spans(sent) : s.from < i /\ i <= s.to
RequestIsWhole ==
    \A cut \in Cuts(transcript, summary) :
        WholeRequest(Projected(transcript, summary, cut))

\* What the model is sent stands for the whole conversation.
ContextIsWhole == SummaryStays /\ RequestIsWhole

\* Three failed automatic passes, then none until the pause is over, the model
\* changes or a summary succeeds (agent.py:116-119); and a pass gives up only
\* after it asked the other family (agent.py:1725-1729).
FailuresAreRationed ==
    /\ Cardinality({i \in 1 .. Len(spent) : hour - spent[i] < Cooldown}) <= Limit
    /\ pass.n = 0 /\ pass.asked # {} /\ OtherSeat => "other" \in pass.asked
=============================================================================
