---------------------------- MODULE ModelCatalog ----------------------------
(***************************************************************************)
(* What is known of one route in models.json: whether the catalogue lists  *)
(* it, whether it can be used, whether it calls tools, and how much        *)
(* context it takes.  The evidence comes from refreshes of the catalogue,  *)
(* from real requests and from probes, of several processes and threads.   *)
(* Each update holds the lock of the file; a probe reads the record,       *)
(* makes its requests, and writes at the end, and a success looks at the   *)
(* record before it writes.  Sizes are steps of the ladder of a probe.     *)
(***************************************************************************)
EXTENDS Integers, FiniteSets

CONSTANTS
    Clients,    \* threads that have requests under way
    Ceiling,    \* the last step of the ladder: what a request body can hold
    Streak      \* UNAVAILABLE_STREAK

ASSUME CatalogAssumption == Ceiling \in Nat /\ Streak \in Nat

VARIABLES
    known,      \* the record
    client,     \* [client |-> what it is doing, with what it has read]
    limit,      \* what the model really takes
    evidence    \* what was observed: [tools, accepted, refused, declared], and is
                \* the context the outcome of a probe?  [measured]

catalogVars == <<known, client, limit, evidence>>

NoWork == [does |-> "nothing", status |-> "listed", tools |-> "unknown", fits |-> 0]
AsListed == [listed |-> TRUE, status |-> "listed", streak |-> 0, tools |-> "unknown",
          seen |-> 0, rejectAt |-> 0, context |-> 0, source |-> "none", upper |-> 0]

CatalogInit ==
    /\ known = AsListed
    /\ client = [c \in Clients |-> NoWork]
    /\ limit \in 1..Ceiling + 1
    /\ evidence = [tools |-> {}, accepted |-> 0, refused |-> 0,
                   declared |-> 0, measured |-> FALSE]

Does(c, work) == client' = [client EXCEPT ![c] = work]
IdleClient(c) == client[c].does = "nothing"

(***************************************************************************)
(* refresh_catalog, by hand or behind a turn whose catalogue is old: what  *)
(* has gone is marked, never removed, and what is back must be tried again. *)
(***************************************************************************)
Listed(max) ==
    /\ known' = [known EXCEPT !.listed = TRUE,
         !.status = IF @ = "delisted" THEN "listed" ELSE @,
         !.context = IF max = 0 THEN @ ELSE max]
    /\ evidence' = IF max = 0 THEN evidence
                   ELSE [evidence EXCEPT !.declared = max, !.measured = FALSE]
    /\ UNCHANGED <<client, limit>>

Delisted ==
    /\ known.listed
    /\ known' = [known EXCEPT !.listed = FALSE,
                              !.status = IF @ = "ok" THEN "delisted" ELSE @]
    /\ UNCHANGED <<client, limit, evidence>>

(***************************************************************************)
(* The outcome of a real request.  A success looks first whether there is  *)
(* a mark to clear; a failure is one more of a streak.                     *)
(***************************************************************************)
IsMarked == known.streak > 0 \/ known.status \in {"unavailable", "delisted"}

Succeeds(c) ==
    /\ IdleClient(c) /\ IsMarked
    /\ Does(c, [NoWork EXCEPT !.does = "clears"])
    /\ UNCHANGED <<known, limit, evidence>>

NoteAvailable(c) ==
    /\ client[c].does = "clears"
    /\ known' = [known EXCEPT !.streak = 0, !.status = "ok"]
    /\ Does(c, NoWork)
    /\ UNCHANGED <<limit, evidence>>

NoteUnavailable ==
    /\ known' = [known EXCEPT
         !.streak = IF @ < Streak THEN @ + 1 ELSE @,     \* counted no further
         !.status = IF known.streak + 1 >= Streak THEN "unavailable" ELSE @]
    /\ UNCHANGED <<client, limit, evidence>>

\* The longest prompt that went through only grows.
Seen(n) == IF n > known.seen THEN n ELSE known.seen

\* note_context_ok: the usage of an answer says how much was taken.
NoteContextOk(n) ==
    /\ n <= limit
    /\ known' = [known EXCEPT !.seen = Seen(n)]
    /\ evidence' = [evidence EXCEPT !.accepted = IF n > @ THEN n ELSE @]
    /\ UNCHANGED <<client, limit>>

\* What is too long is told its limit, or only that it is; the size of what
\* was sent is an estimate.
Least(a, b) == IF a # 0 /\ a < b THEN a ELSE b

Learned(est) ==
    LET rejected == Least(known.rejectAt, est) IN
    IF rejected > known.seen THEN rejected ELSE known.seen

NoteContextReject(n, stated) ==
    /\ n > limit
    /\ \E est \in IF stated THEN {limit} ELSE {n, n - 1} :
         /\ known' = [known EXCEPT
              !.rejectAt = Least(@, est),
              !.context = IF stated THEN est ELSE Learned(est),
              !.source = IF stated THEN "learned-stated" ELSE "learned-rejected"]
         /\ evidence' = [evidence EXCEPT !.refused = Least(@, est)]
    /\ UNCHANGED <<client, limit>>

(***************************************************************************)
(* probe: what it cannot tell, it writes as it read it before.             *)
(***************************************************************************)
Due(byHand) == byHand \/ known.status # "ok" \/ known.tools = "unknown"

BeginProbe(c, byHand) ==
    /\ IdleClient(c) /\ Due(byHand)
    /\ Does(c, [NoWork EXCEPT !.does = "probes", !.status = known.status,
                              !.tools = known.tools])
    /\ UNCHANGED <<known, limit, evidence>>

ProbeWrites(c, status, tools) ==
    /\ client[c].does = "probes"
    /\ known' = [known EXCEPT !.status = status, !.tools = tools]
    /\ Does(c, NoWork)
    /\ UNCHANGED limit

\* It answered: with a call, or with words only.
ProbeAnswers(c) == \E verdict \in {"yes", "no"} :
    /\ ProbeWrites(c, "ok", verdict)
    /\ evidence' = [evidence EXCEPT !.tools = @ \cup {verdict}]

\* It said that it takes no tools.
ProbeIsRefused(c) ==
    /\ ProbeWrites(c, "error", "no")
    /\ evidence' = [evidence EXCEPT !.tools = @ \cup {"no"}]

\* It failed, or said nothing twice: nothing was learned about tools.
VerdictOfFailure(c) == client[c].tools

ProbeFails(c) ==
    /\ ProbeWrites(c, "error", VerdictOfFailure(c))
    /\ UNCHANGED evidence

\* It was never sent: the status is written back, the verdict left alone.
ProbeIsBlocked(c) ==
    /\ ProbeWrites(c, client[c].status, known.tools)
    /\ UNCHANGED evidence

(***************************************************************************)
(* probe_context: up the ladder until it is told that it is too long.      *)
(***************************************************************************)
BeginContext(c) ==
    /\ IdleClient(c)
    /\ Does(c, [NoWork EXCEPT !.does = "climbs"])
    /\ UNCHANGED <<known, limit, evidence>>

Step(c) == client[c].fits + 1

ContextFits(c) ==
    /\ client[c].does = "climbs" /\ Step(c) <= limit /\ Step(c) <= Ceiling
    /\ Does(c, [client[c] EXCEPT !.fits = Step(c)])
    /\ UNCHANGED <<known, limit, evidence>>

\* A limit that is stated below what was just accepted is not believed.
Bound(c, stated) == IF stated > client[c].fits THEN stated ELSE Step(c)

ContextTooLong(c) ==
    /\ client[c].does = "climbs" /\ Step(c) <= Ceiling /\ Step(c) > limit
    /\ \E stated \in {0, limit, 1} :
         known' = [known EXCEPT
            !.upper = Bound(c, stated),
            !.context = IF client[c].fits = 0 THEN @ ELSE client[c].fits,
            !.source = IF client[c].fits = 0 THEN @ ELSE "probed"]
    /\ evidence' = [evidence EXCEPT !.measured = @ \/ client[c].fits # 0]
    /\ Does(c, NoWork)
    /\ UNCHANGED limit

\* The body cannot be larger: a floor, and no limit.
ContextCeiling(c) ==
    /\ client[c].does = "climbs" /\ Step(c) > Ceiling
    /\ known' = [known EXCEPT !.context = client[c].fits,
                              !.source = "probed-floor", !.upper = 0]
    /\ evidence' = [evidence EXCEPT !.measured = TRUE]
    /\ Does(c, NoWork)
    /\ UNCHANGED limit

\* A transient failure, three times, or a body the gateway refuses.
ContextBlocked(c) ==
    /\ client[c].does = "climbs" /\ Step(c) <= Ceiling
    /\ Does(c, NoWork)
    /\ UNCHANGED <<known, limit, evidence>>

CatalogNext ==
    \/ \E max \in 0..Ceiling + 1 : Listed(max)
    \/ Delisted
    \/ NoteUnavailable
    \/ \E n \in 1..Ceiling + 1 :
         \/ NoteContextOk(n)
         \/ \E stated \in BOOLEAN : NoteContextReject(n, stated)
    \/ \E c \in Clients :
         \/ Succeeds(c) \/ NoteAvailable(c)
         \/ \E byHand \in BOOLEAN : BeginProbe(c, byHand)
         \/ ProbeAnswers(c) \/ ProbeIsRefused(c) \/ ProbeFails(c) \/ ProbeIsBlocked(c)
         \/ BeginContext(c) \/ ContextFits(c) \/ ContextTooLong(c)
         \/ ContextCeiling(c) \/ ContextBlocked(c)

CatalogSpec == CatalogInit /\ [][CatalogNext]_catalogVars

(***************************************************************************)
(* Properties                                                              *)
(***************************************************************************)
\* A verdict on tools was observed once: no failure, silence or local block
\* becomes one, however probes overlap.
VerdictsAreObserved == known.tools # "unknown" => known.tools \in evidence.tools

\* What was accepted and refused is never forgotten nor weakened by a later
\* or an overlapping report.
BoundsAreKept == /\ known.seen = evidence.accepted
                 /\ known.rejectAt = evidence.refused

\* A context with the label of a measurement is one the model takes; only a
\* catalogue that was read since puts its own figure there, under that label.
MeasuredFits == known.source \in {"probed", "probed-floor"} =>
    IF evidence.measured THEN known.context <= limit
    ELSE known.context = evidence.declared

\* What the record says of the route was observed, and is kept.
EvidenceIsHonest == VerdictsAreObserved /\ BoundsAreKept /\ MeasuredFits
=============================================================================
