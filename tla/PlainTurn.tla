------------------------------ MODULE PlainTurn ------------------------------
(***************************************************************************)
(* core/agent.py, Agent.run without a controller: the loop of `zylab -p',  *)
(* of children and of consultations.  Requests and tools run in the        *)
(* caller's thread, one after the other; a child saves its transcript and  *)
(* its inbox with every event (AgentRuntime._execute), other threads set   *)
(* the cancel flag, put messages into the inbox and may end the process.   *)
(*                                                                         *)
(* Left out: what a summary says (ContextWindow), retries of a request     *)
(* (ModelRoute), how permission is given (ToolPermission).                 *)
(***************************************************************************)
EXTENDS Naturals, Sequences, FiniteSets, SequencesExt

CONSTANTS
    Batches,        \* what the model may ask for: sequences of calls
    FanOut,         \* calls that start several requests (workflow, ...)
    Repeats,        \* NO_PROGRESS_REPEATS
    MaxTurns,       \* max_turns
    MaxInbox,       \* bound: messages put into the inbox
    SavesFail       \* may a save of the child's record fail?

ASSUME PlainAssumption ==
    /\ SavesFail \in BOOLEAN
    /\ Repeats \in Nat \ {0, 1} /\ MaxTurns \in Nat /\ MaxInbox \in Nat
    /\ Batches \subseteq Seq(STRING) /\ FanOut \subseteq STRING

VARIABLES
    isChild,        \* is it a child?  It has no gates.
    loop,           \* where the generator stands
    turnsLeft,      \* what is left of max_turns
    spoken,         \* the messages
    batch, at,      \* the calls of the last response, and the one in hand
    bound,          \* is the variable `prepared' bound?
    blockedFor,     \* candidate_pending: batches refused, a gate is awaited
    granted,        \* candidate_authorized: batches a gate allowed
    grantNext,      \* candidate_authorized_next
    stop,           \* cancel: the flag
    retried,        \* ctx_retried
    letters,        \* inbox: "queued" or "delivered"
    persisted       \* the transcript of the child's record

inboxVars == <<letters, persisted>>
gateVars == <<blockedFor, granted, grantNext>>
plainVars == <<isChild, loop, turnsLeft, spoken, batch, at, bound, gateVars,
               stop, retried, inboxVars>>

Finished == {"over", "failed", "raised"}

\* Messages: of the user, of the inbox, of the model, of a tool.
User == [role |-> "user", calls |-> <<>>, from |-> 0]
Letter(n) == [role |-> "user", calls |-> <<>>, from |-> n]
Reply(calls) == [role |-> "assistant", calls |-> calls, from |-> 0]
Result(call, out) == [role |-> "tool", calls |-> <<call, out>>, from |-> 0]
Notice == Reply(<<>>)

PlainInit ==
    /\ isChild \in BOOLEAN /\ loop = "top" /\ turnsLeft = MaxTurns
    /\ spoken = <<User>> /\ persisted = spoken
    /\ batch = <<>> /\ at = 0 /\ bound = FALSE
    /\ blockedFor = {} /\ granted = {} /\ grantNext = FALSE
    /\ stop = FALSE /\ retried = FALSE /\ letters = <<>>

\* A child saves what is said with every event; a save that fails ends the run
\* where it is.
Says(messages, next) ==
    /\ spoken' = spoken \o messages
    /\ IF ~isChild THEN loop' = next /\ UNCHANGED persisted
       ELSE \/ persisted' = spoken' /\ loop' = next
            \/ SavesFail /\ loop' = "raised" /\ UNCHANGED persisted

TurnEnds(messages) == Says(messages, "over")
Fails(messages) == Says(messages, "failed")

-----------------------------------------------------------------------------
(* The top of the loop *)

\* _stalled_tool_call: the last rounds are one call each, all the same.
Stalled ==
    LET rounds == SelectSeq(spoken, LAMBDA m : m.role # "user")
        last == SubSeq(rounds, Len(rounds) - 2 * Repeats + 1, Len(rounds)) IN
    /\ Len(rounds) >= 2 * Repeats
    /\ \A i \in 1..Repeats :
             /\ last[2 * i - 1].role = "assistant" /\ last[2 * i].role = "tool"
             /\ Len(last[2 * i - 1].calls) = 1
             /\ last[2 * i].calls = last[2].calls

\* deliver_inbox: each letter is a message of its own, and all are saved, and
\* marked delivered, in one write.
Queued == {n \in 1..Len(letters) : letters[n] = "queued"}

Delivered(next) ==
    LET new == [i \in 1..Cardinality(Queued) |->
                  Letter(Len(letters) - Cardinality(Queued) + i)] IN
    /\ spoken' = spoken \o new
    /\ \/ /\ persisted' = spoken' /\ loop' = next
          /\ letters' = [n \in 1..Len(letters) |-> "delivered"]
       \/ SavesFail /\ loop' = "raised" /\ UNCHANGED inboxVars

NextTurn ==
    /\ loop = "top" /\ turnsLeft > 0 /\ ~Stalled
    /\ turnsLeft' = turnsLeft - 1
    /\ IF Queued = {} THEN loop' = "request" /\ UNCHANGED <<spoken, inboxVars>>
       ELSE Delivered("request")
    /\ UNCHANGED <<batch, at, bound, gateVars, stop, retried>>

NoTurnLeft ==
    /\ loop = "top" /\ (turnsLeft = 0 \/ Stalled)
    /\ TurnEnds(<<Notice>>)
    /\ UNCHANGED <<turnsLeft, batch, at, bound, gateVars, stop, retried,
                   letters>>

-----------------------------------------------------------------------------
(* The request *)

\* Projection, an API error, an empty response, or Interrupted.
RequestEnds ==
    /\ loop = "request"
    /\ IF stop THEN TurnEnds(<<>>) ELSE TurnEnds(<<Notice>>) \/ Fails(<<>>)
    /\ UNCHANGED <<turnsLeft, batch, at, bound, gateVars, stop, retried,
                   letters>>

\* The first refusal for length is learned from, and compaction tried.
TooLong ==
    /\ loop = "request" /\ ~retried /\ ~stop
    /\ retried' = TRUE /\ Says(<<>>, "top")
    /\ UNCHANGED <<turnsLeft, batch, at, bound, gateVars, stop, letters>>

\* _tool_execution_order: gates first.
Ordered(calls) ==
    SelectSeq(calls, LAMBDA c : c = "gate")
      \o SelectSeq(calls, LAMBDA c : c # "gate")

\* decision_gate_candidates: which fan-out a batch holds (its fingerprint).
Fingerprint(calls) == SelectSeq(calls, LAMBDA c : c \in FanOut)

Gated(calls) == \E i \in 1..Len(calls) : calls[i] = "gate"

\* Faulty variant: a grant is not used up.
SpentFaulty(print) == UNCHANGED <<granted, grantNext>>

\* A grant is used up before its batch runs, or is refused for its gate.
Spent(print) ==
    IF print \in granted
    THEN granted' = granted \ {print} /\ UNCHANGED grantNext
    ELSE grantNext' = FALSE /\ UNCHANGED granted

HasGrant(print) == print \in granted \/ grantNext

\* The model asks for calls, none of which is fan-out that needs a gate first.
Respond ==
    /\ loop = "request" /\ ~stop
    /\ \E calls \in Batches \ {<<>>} :
          LET print == Fingerprint(calls) IN
          /\ isChild \/ print = <<>> \/ (HasGrant(print) /\ ~Gated(calls))
          /\ IF isChild \/ print = <<>>
             THEN UNCHANGED <<granted, grantNext>> ELSE Spent(print)
          /\ batch' = Ordered(calls) /\ at' = 1
          /\ Says(<<Reply(Ordered(calls))>>, "call")
    /\ UNCHANGED <<turnsLeft, bound, blockedFor, stop, retried, letters>>

\* Fan-out nobody was asked about, or in one batch with the question: all of
\* it is refused, and a second time ends the turn.
Block ==
    /\ loop = "request" /\ ~stop /\ ~isChild
    /\ \E calls \in Batches :
          LET print == Fingerprint(calls) IN
          /\ print # <<>> /\ (~HasGrant(print) \/ Gated(calls))
          /\ IF HasGrant(print) THEN Spent(print)
             ELSE UNCHANGED <<granted, grantNext>>
          /\ blockedFor' = blockedFor \cup {print}
          /\ Says(<<Reply(Ordered(calls))>> \o
                  [i \in 1..Len(calls) |-> Result(Ordered(calls)[i], "blocked")],
                  IF print \in blockedFor THEN "failed" ELSE "top")
    /\ UNCHANGED <<turnsLeft, batch, at, bound, stop, retried, letters>>

\* No call: the turn is complete,
Complete ==
    /\ loop = "request" /\ ~stop
    /\ Says(<<Reply(<<>>)>>, IF isChild THEN "deliver" ELSE "over")
    /\ UNCHANGED <<turnsLeft, batch, at, bound, gateVars, stop, retried,
                   letters>>

\* ... unless letters came meanwhile.
DeliverAndGoOn ==
    /\ loop = "deliver"
    /\ IF Queued = {} THEN TurnEnds(<<>>) /\ UNCHANGED letters
       ELSE Delivered("top")
    /\ UNCHANGED <<turnsLeft, batch, at, bound, gateVars, stop, retried>>

-----------------------------------------------------------------------------
(* The calls of the batch, one after the other *)

NextCall == IF at = Len(batch) THEN "top" ELSE "call"
Answers(out) ==
    /\ Says(<<Result(batch[at], out)>>, NextCall)
    /\ at' = at + 1

\* The rest of the batch is answered without being run.
AnswersAll(out, rest) ==
    Fails(<<Result(batch[at], out)>> \o
          [i \in 1..Len(batch) - at |-> Result(batch[at + i], rest)])

InCall == loop = "call" /\ UNCHANGED <<turnsLeft, batch, retried, letters, stop>>

\* Cancelled, no JSON, or not offered: answered at once.
NotRun ==
    /\ InCall
    /\ \/ stop /\ Answers("cancelled")
       \/ ~stop /\ batch[at] = "bad" /\ Answers("invalid")
       \/ ~stop /\ batch[at] = "gate" /\ isChild /\ Answers("denied")
    /\ UNCHANGED <<bound, gateVars>>

\* tools.prepare refuses.  The answer is recorded first; the event that is
\* then shown reads `prepared', which no call may have bound yet.
RefusedByPrepare ==
    /\ InCall /\ ~stop /\ batch[at] = "refused"
    /\ IF bound THEN Answers("denied")
       ELSE Says(<<Result("refused", "denied")>>, "raised") /\ at' = at + 1
    /\ UNCHANGED <<bound, gateVars>>

\* The user refuses, or the checkpoint of a write fails.
Denied ==
    /\ InCall /\ ~stop /\ batch[at] \notin {"bad", "refused", "gate"}
    /\ bound' = TRUE /\ Answers("denied")
    /\ UNCHANGED gateVars

\* The tool runs.
RunTool ==
    /\ InCall /\ ~stop /\ batch[at] \notin {"bad", "refused", "gate"}
    /\ bound' = TRUE /\ Answers("done")
    /\ UNCHANGED gateVars

\* The trace of the call cannot be begun, or not be ended.
TraceFails ==
    /\ InCall /\ ~stop /\ batch[at] \notin {"bad", "refused"}
    /\ isChild => batch[at] # "gate"
    /\ bound' = TRUE
    /\ \/ AnswersAll("denied", "untraced") \/ AnswersAll("done", "untraced")
    /\ UNCHANGED <<at, gateVars>>

\* Nobody answers the gate: the turn is over.
GateUnanswered ==
    /\ InCall /\ ~stop /\ batch[at] = "gate" /\ ~isChild
    /\ bound' = TRUE /\ AnswersAll("unanswered", "skipped")
    /\ UNCHANGED <<at, gateVars>>

\* An answered gate allows every batch that was refused for want of it, or the
\* next one.
GateAnswered ==
    /\ InCall /\ ~stop /\ batch[at] = "gate" /\ ~isChild
    /\ bound' = TRUE /\ Answers("answered")
    /\ IF blockedFor # {}
       THEN granted' = granted \cup blockedFor /\ blockedFor' = {}
            /\ UNCHANGED grantNext
       ELSE grantNext' = TRUE /\ UNCHANGED <<granted, blockedFor>>

-----------------------------------------------------------------------------
(* Others *)

\* cancel.set(): of a child, or Esc.
Cancel ==
    /\ loop \notin Finished /\ ~stop /\ stop' = TRUE
    /\ UNCHANGED <<loop, turnsLeft, spoken, batch, at, bound, gateVars,
                   retried, inboxVars>>

\* AgentStore.send, from the parent.
PutLetter ==
    /\ isChild /\ Len(letters) < MaxInbox /\ letters' = Append(letters, "queued")
    /\ UNCHANGED <<loop, turnsLeft, spoken, batch, at, bound, gateVars, stop,
                   retried, persisted>>

\* _execute: whatever happened, the transcript is saved once more; letters in
\* the inbox are a reason to go on, unless the run failed or was cancelled.
RunAgain ==
    /\ isChild /\ loop = "over" /\ ~stop /\ Queued # {}
    /\ persisted' = spoken /\ loop' = "top" /\ turnsLeft' = MaxTurns
    /\ batch' = <<>> /\ at' = 0 /\ bound' = FALSE /\ retried' = FALSE
    /\ UNCHANGED <<spoken, gateVars, stop, letters>>

SaveAtEnd ==
    /\ isChild /\ loop \in Finished /\ persisted' = spoken /\ persisted # spoken
    /\ UNCHANGED <<loop, turnsLeft, spoken, batch, at, bound, gateVars, stop,
                   retried, letters>>

PlainNext ==
    /\ UNCHANGED isChild
    /\ \/ NextTurn \/ NoTurnLeft \/ RequestEnds \/ TooLong \/ Respond \/ Block
       \/ Complete \/ DeliverAndGoOn
       \/ NotRun \/ RefusedByPrepare \/ Denied \/ RunTool \/ TraceFails
       \/ GateUnanswered \/ GateAnswered
       \/ Cancel \/ PutLetter \/ RunAgain \/ SaveAtEnd

PlainSpec == PlainInit /\ [][PlainNext]_plainVars

-----------------------------------------------------------------------------
(* Properties *)

\* The results that follow a response.
After(i) ==
    LET n == Len(spoken[i].calls)
        up == IF i + n <= Len(spoken) THEN i + n ELSE Len(spoken) IN
    SubSeq(spoken, i + 1, up)

Speaks(role) == {i \in 1..Len(spoken) : spoken[i].role = role}

\* Each answer is next to its call and in order, none is left over, and only
\* the last response may still be short of some: whenever the model is asked,
\* and when the turn is over and no save has failed, it is not.
AnswersFollowCalls ==
    /\ \A i \in Speaks("assistant") : \A j \in 1..Len(After(i)) :
         After(i)[j].role = "tool" /\ After(i)[j].calls[1] = spoken[i].calls[j]
    /\ \A k \in Speaks("tool") : \E i \in Speaks("assistant") :
         i < k /\ k <= i + Len(spoken[i].calls)
    /\ loop \in {"request", "over", "failed"} =>
         \A i \in Speaks("assistant") : Len(After(i)) = Len(spoken[i].calls)

\* A gate nobody answered stops what came with it; fan-out never runs in the
\* batch that asks.
GatesStop ==
    \A i \in Speaks("assistant") :
        LET outs == [j \in 1..Len(After(i)) |-> After(i)[j].calls[2]] IN
        /\ "unanswered" \in ToSet(outs) => "done" \notin ToSet(outs)
        /\ ~isChild /\ Gated(spoken[i].calls) =>
             \A j \in DOMAIN outs : spoken[i].calls[j] \in FanOut => outs[j] # "done"

\* The responses with fan-out that were refused, and those that were not.
FansOut(i) == Fingerprint(spoken[i].calls) # <<>>
IsRefused(i) == i < Len(spoken) /\ spoken[i + 1].calls = <<spoken[i].calls[1], "blocked">>
RefusedFanOut == {i \in Speaks("assistant") : FansOut(i) /\ IsRefused(i)}
AllowedFanOut == {i \in Speaks("assistant") : FansOut(i) /\ ~IsRefused(i)}

\* What the user was asked about: the fan-out refused since the answer before.
Answer == {k \in Speaks("tool") : spoken[k].calls[2] = "answered"}
AskedAbout(k) ==
    {Fingerprint(spoken[i].calls) : i \in {i \in RefusedFanOut :
        i < k /\ ~\E h \in Answer : i < h /\ h < k}}

\* Each fan-out the user lets run has an answer before it that no other one
\* used: an answer about what was refused allows each of it once, and nothing
\* else; an answer before anything was refused allows one.
FanOutIsAgreed ==
    \E by \in [AllowedFanOut -> Answer] : \A i \in AllowedFanOut :
        LET about == AskedAbout(by[i])
            print == Fingerprint(spoken[i].calls) IN
        /\ by[i] < i
        /\ about # {} => print \in about
        /\ \A j \in AllowedFanOut \ {i} : by[j] = by[i] =>
             about # {} /\ Fingerprint(spoken[j].calls) # print

\* Answers follow calls, fan-out runs on consent that is not used twice, each
\* letter is read once, and what a child has saved is what was said.
PlainTurnIsWhole ==
    /\ AnswersFollowCalls
    /\ ~isChild => FanOutIsAgreed
    /\ GatesStop
    /\ \A n \in 1..Len(letters) :
         Cardinality({i \in 1..Len(spoken) : spoken[i].from = n}) <= 1
    /\ isChild => IsPrefix(persisted, spoken)
=============================================================================
