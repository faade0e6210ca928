----------------------------- MODULE RequestProofs -----------------------------
(***************************************************************************)
(* What goes out to a model and what comes back from it, for every value   *)
(* of the constants.                                                       *)
(*                                                                         *)
(* ToolPermission, for every set of sessions and tools: whatever is run    *)
(* was consented to (ConsentHolds).  The invariant is inductive once it    *)
(* also says that the call being decided is well formed: only a Bash call  *)
(* asks to leave the sandbox, so that Execute, which looks at Bash calls   *)
(* only, misses none; what the settings deny got no further than being     *)
(* prepared; and nothing leaves the sandbox unasked before the user has    *)
(* said so for a session of this process (TrustIsGiven).                   *)
(*                                                                         *)
(* ModelRoute, for any callers, retries and parameters a gateway rejects:  *)
(* no attempt follows one that has shown text, and the attempts of a       *)
(* request run out (RetriesAreSound).                                      *)
(*                                                                         *)
(* ProviderStream, for streams and queues of any length: what is complete  *)
(* is whole (CompleteIsWhole).  The invariant counts where the items are:  *)
(* with the turn, in the queue, or with the thread.                        *)
(*                                                                         *)
(* Goal, for every limit a user may ask for: the rounds the REPL starts by *)
(* itself stay within the limit and the user's consent (RoundsAreAllowed), *)
(* and a round is started, and judged, only for the definition it belongs  *)
(* to (RoundIsCurrent).  Memory and file part company when a save fails;   *)
(* KeptOnDisk bounds how far.  Reservation says what is true between the   *)
(* steps of a reservation, and that a queued row is always one that has    *)
(* not been started: with it a row that survived a crash may be run        *)
(* without a new charge.                                                   *)
(***************************************************************************)
EXTENDS ToolPermission, ModelRoute, ProviderStream, Goal, FiniteSetTheorems,
        SequenceTheorems, TLAPS

-----------------------------------------------------------------------------
(* ToolPermission *)

CallIsWellFormed ==
    request.stage # "none" =>
        /\ WellFormed(request)
        /\ "standing" \in request.asked => trusted # {}
        /\ request.stage # "prepared" /\ request.tool # "read" =>
              Permission(request.tool) # "deny"

TrustIsGiven == unsandboxed => trusted # {}

ConsentInv == ConsentHolds /\ CallIsWellFormed /\ TrustIsGiven

\* The strictest of two permissions is one of the two.
LEMMA StrictestIsOneOfThem ==
    ASSUME NEW v \in Values, NEW w \in Values
    PROVE  Strictest(v, w) \in Values
  BY DEF Strictest, Values

\* Settings that are permissions are permissions once they are merged.
LEMMA EffectiveType ==
    ASSUME NEW s \in [user : [Tools -> Values], project : [Tools -> Values]]
    PROVE  Effective(s) \in [Tools -> Values]
  BY StrictestIsOneOfThem DEF Effective

\* The parts of the invariant that a step that leaves the grants and the
\* settings alone can disturb are those about the call.
LEMMA OnlyTheCallChanges ==
    ASSUME ConsentInv,
           UNCHANGED <<settingVars, modeVars, grantVars, readOnly, tty>>,
           request' \in Requests, RunsWithConsent', CallIsWellFormed'
    PROVE  ConsentInv'
  BY DEF ConsentInv, ConsentHolds, PermissionTypeOK, GrantsAreConsented,
         TrustIsGiven, settingVars, modeVars, grantVars

\* A step that leaves the call and the consents to leave the sandbox alone,
\* and the settings unless nothing is being decided, disturbs no part about
\* the call.
LEMMA TheCallRests ==
    ASSUME ConsentInv, UNCHANGED <<request, unsandboxed, trusted>>,
           At("none") \/ UNCHANGED cfg
    PROVE  /\ RunsWithConsent' /\ CallIsWellFormed' /\ TrustIsGiven'
           /\ request' \in Requests
  BY DEF ConsentInv, ConsentHolds, PermissionTypeOK, RunsWithConsent,
         CallIsWellFormed, TrustIsGiven, Permission, At

\* The first session has no grants and nothing runs.
LEMMA InitConsents == PermissionInit => ConsentInv
  <1> SUFFICES ASSUME PermissionInit PROVE ConsentInv
    OBVIOUS
  <1>1. chat \in Chats
    BY PermissionAssumption DEF PermissionInit
  <1>2. settings \in [user : [Tools -> Values], project : [Tools -> Values]]
    BY DEF PermissionInit, Values
  <1>3. cfg \in [Tools -> Values]
    BY <1>2, EffectiveType DEF PermissionInit
  <1>4. PermissionTypeOK
    <2>1. request \in Requests
      BY DEF PermissionInit, Requests
    <2>2. edits \in 0..MaxEdits
      BY PermissionAssumption DEF PermissionInit
    <2>3. /\ records \in [Chats -> SUBSET Tools]
          /\ given \in [Chats -> SUBSET Tools] /\ warned \in [Chats -> SUBSET Tools]
      BY DEF PermissionInit
    <2> QED
      BY <1>1, <1>2, <1>3, <2>1, <2>2, <2>3 DEF PermissionInit, PermissionTypeOK
  <1>5. GrantsAreConsented
    BY <1>1 DEF PermissionInit, GrantsAreConsented
  <1>6. RunsWithConsent /\ CallIsWellFormed /\ TrustIsGiven
    BY DEF PermissionInit, RunsWithConsent, CallIsWellFormed, TrustIsGiven, At, NoRequest
  <1> QED
    BY <1>4, <1>5, <1>6 DEF ConsentInv, ConsentHolds

\* A call that is being decided is a call.
LEMMA TheCall ==
    ASSUME ConsentInv, request.stage # "none"
    PROVE  /\ request \in [stage : {"prepared", "permitted", "running"},
                 tool : Tools, risky : BOOLEAN, network : BOOLEAN,
                 boundary : Boxes, asked : SUBSET Consents]
           /\ CallIsWellFormed
  BY DEF ConsentInv, ConsentHolds, PermissionTypeOK, Requests, NoRequest

\* The user's consent permits a call that the settings do not deny.
LEMMA AgreedKeeps ==
    ASSUME ConsentInv, request.stage # "none", Permission(request.tool) # "deny"
                                                \/ request.stage = "permitted",
           NEW question \in Consents, Agreed(question), UNCHANGED cfg,
           question = "standing" \/ trusted # {} \/ unsandboxed' => trusted' # {}
    PROVE  /\ request' \in Requests /\ request'.stage = "permitted"
           /\ RunsWithConsent' /\ CallIsWellFormed' /\ TrustIsGiven'
  <1>1. request' = [request EXCEPT !.stage = "permitted", !.asked = @ \cup {question}]
    BY DEF Agreed
  <1>2. /\ request' \in Requests /\ request'.stage = "permitted"
        /\ request'.tool = request.tool /\ request'.asked = request.asked \cup {question}
        /\ WellFormed(request')
    BY <1>1, TheCall DEF Requests, CallIsWellFormed, WellFormed
  <1>3. request'.tool # "read" => Permission(request.tool) # "deny"
    BY <1>2, TheCall DEF CallIsWellFormed
  <1>4. CallIsWellFormed'
    BY <1>2, <1>3, TheCall DEF CallIsWellFormed, Permission
  <1> QED
    BY <1>2, <1>4 DEF RunsWithConsent, At, TrustIsGiven

\* A step that decides a call or runs it.
LEMMA DecideKeeps == ConsentInv /\ DecideNext => ConsentInv'
  <1> SUFFICES ASSUME ConsentInv, DecideNext PROVE ConsentInv'
    OBVIOUS
  <1>0. TrustIsGiven
    BY DEF ConsentInv
  <1>1. ASSUME NEW q \in Prepared, Prepare(q) PROVE ConsentInv'
    <2>1. q \in [stage : {"prepared"}, tool : Tools, risky : BOOLEAN,
                 network : BOOLEAN, boundary : Boxes, asked : {{}}]
      BY <1>1 DEF Prepared
    <2>2. /\ request' \in Requests /\ request'.asked = {} /\ WellFormed(request')
          /\ \/ request'.stage = "prepared"
             \/ request'.stage = "permitted" /\ request'.tool = "read"
      BY <1>1, <2>1 DEF Prepare, WellFormed, Requests
    <2>3. RunsWithConsent' /\ CallIsWellFormed'
      BY <2>2 DEF RunsWithConsent, CallIsWellFormed, At
    <2> QED
      BY <1>1, <2>2, <2>3, OnlyTheCallChanges DEF Prepare
  <1>2. ASSUME Refuse \/ CallEnds PROVE ConsentInv'
    <2>1. request' = NoRequest
      BY <1>2 DEF Refuse, CallEnds
    <2>2. request' \in Requests /\ RunsWithConsent' /\ CallIsWellFormed'
      BY <2>1 DEF Requests, NoRequest, RunsWithConsent, CallIsWellFormed, At
    <2> QED
      BY <1>2, <2>2, OnlyTheCallChanges DEF Refuse, CallEnds
  <1>3. ASSUME ConfirmRisk \/ AllowOnce \/ AllowNetwork \/ UseApproval PROVE ConsentInv'
    <2>1. UNCHANGED <<settingVars, modeVars, grantVars, readOnly, tty>>
      BY <1>3 DEF ConfirmRisk, AllowOnce, AllowNetwork, UseApproval
    <2>2. UNCHANGED <<cfg, trusted, unsandboxed>>
      BY <2>1 DEF settingVars, grantVars
    <2>3. PICK question \in Consents :
            /\ Agreed(question) /\ request.stage # "none"
            /\ Permission(request.tool) # "deny" \/ request.stage = "permitted"
            /\ question = "standing" => unsandboxed
      BY <1>3 DEF ConfirmRisk, AllowOnce, MayAskUser, AllowNetwork, UseApproval, At, Consents
    <2> QED
      BY <1>0, <2>1, <2>2, <2>3, AgreedKeeps, OnlyTheCallChanges DEF TrustIsGiven
  <1>4. ASSUME PermitSilently PROVE ConsentInv'
    <2>1. /\ request.stage = "prepared" /\ Permission(request.tool) # "deny"
          /\ request' = [request EXCEPT !.stage = "permitted"]
          /\ UNCHANGED <<settingVars, modeVars, grantVars, readOnly, tty>>
      BY <1>4 DEF PermitSilently, At
    <2>2. /\ request' \in Requests /\ request'.stage = "permitted"
          /\ request'.tool = request.tool /\ request'.asked = request.asked
          /\ WellFormed(request')
      BY <2>1, TheCall DEF Requests, CallIsWellFormed, WellFormed
    <2>3. RunsWithConsent' /\ CallIsWellFormed'
      BY <2>1, <2>2, TheCall
      DEF RunsWithConsent, CallIsWellFormed, At, Permission, settingVars, grantVars
    <2> QED
      BY <2>1, <2>2, <2>3, OnlyTheCallChanges
  <1>5. ASSUME Execute PROVE ConsentInv'
    <2>1. /\ request.stage = "permitted"
          /\ request' = [request EXCEPT !.stage = "running"]
          /\ UNCHANGED <<settingVars, modeVars, grantVars, readOnly, tty>>
      BY <1>5 DEF Execute, At
    <2>2. /\ request' \in Requests /\ request'.stage = "running"
          /\ request'.tool = request.tool /\ request'.asked = request.asked
          /\ request'.risky = request.risky /\ request'.network = request.network
          /\ request'.boundary = request.boundary
      BY <2>1, TheCall DEF Requests
    <2>3. WellFormed(request) /\ WellFormed(request')
      BY <2>1, <2>2, TheCall DEF CallIsWellFormed, WellFormed
    <2>4. CallIsWellFormed'
      BY <2>1, <2>2, <2>3, TheCall
      DEF CallIsWellFormed, Permission, settingVars, grantVars
    <2>5. RunsWithConsent'
      BY <1>5, <2>1, <2>2, <2>3, <2>4, TheCall
      DEF Execute, WellFormed, Hard, NeedsNetwork, NeedsUnsandboxed, Boxes,
          RunsWithConsent, CallIsWellFormed, At
    <2> QED
      BY <2>1, <2>2, <2>4, <2>5, OnlyTheCallChanges
  <1>6. ASSUME AllowAlways PROVE ConsentInv'
    <2>1. /\ request.stage = "prepared" /\ Permission(request.tool) # "deny"
          /\ UNCHANGED <<settingVars, modeVars, chat, unsandboxed, trusted, readOnly, tty>>
      BY <1>6 DEF AllowAlways, MayAskUser, At
    <2>2. /\ request' \in Requests /\ RunsWithConsent' /\ CallIsWellFormed'
          /\ TrustIsGiven'
      <3>1. CASE request' = NoRequest
        BY <1>0, <2>1, <3>1 DEF Requests, NoRequest, RunsWithConsent, CallIsWellFormed,
                                TrustIsGiven, At
      <3>2. CASE Agreed("once")
        BY <1>0, <2>1, <3>2, AgreedKeeps DEF TrustIsGiven, Consents, settingVars
      <3> QED
        BY <1>6, <3>1, <3>2 DEF AllowAlways
    <2>3. request.tool \in Tools
      BY <2>1, TheCall
    <2>4. PermissionTypeOK' /\ GrantsAreConsented'
      BY <1>6, <2>1, <2>2, <2>3 DEF AllowAlways, Saved, Granted, ConsentInv, ConsentHolds,
         PermissionTypeOK, GrantsAreConsented, settingVars, modeVars
    <2> QED
      BY <2>2, <2>4 DEF ConsentInv, ConsentHolds
  <1>7. ASSUME AllowUnsandboxed PROVE ConsentInv'
    <2>1. /\ request.stage = "permitted" /\ Agreed("unsandboxed")
          /\ UNCHANGED <<settingVars, modeVars, chat, always, records, given,
                         warned, readOnly, tty>>
          /\ \/ unsandboxed' = TRUE /\ trusted' = trusted \cup {chat}
             \/ UNCHANGED <<unsandboxed, trusted>>
      BY <1>7 DEF AllowUnsandboxed, At
    <2>2. /\ request' \in Requests /\ RunsWithConsent' /\ CallIsWellFormed'
          /\ TrustIsGiven'
      BY <1>0, <2>1, AgreedKeeps DEF TrustIsGiven, Consents, settingVars
    <2>3. PermissionTypeOK' /\ GrantsAreConsented'
      BY <2>1, <2>2 DEF ConsentInv, ConsentHolds,
         PermissionTypeOK, GrantsAreConsented, settingVars, modeVars
    <2> QED
      BY <2>2, <2>3 DEF ConsentInv, ConsentHolds
  <1> QED
    BY <1>1, <1>2, <1>3, <1>4, <1>5, <1>6, <1>7 DEF DecideNext

\* A step of the user's between calls, or of another terminal.
LEMMA UserKeeps == ConsentInv /\ UserNext => ConsentInv'
  <1> SUFFICES ASSUME ConsentInv, UserNext PROVE ConsentInv'
    OBVIOUS
  <1> USE DEF ConsentInv, ConsentHolds, PermissionTypeOK, GrantsAreConsented,
              settingVars, modeVars, grantVars
  <1>0. PermissionTypeOK /\ GrantsAreConsented
    OBVIOUS
  <1>1. ASSUME BeginTurn \/ CycleMode \/ TogglePlanMode \/ ToggleAuto
        PROVE  ConsentInv'
    BY <1>0, <1>1, TheCallRests DEF BeginTurn, CycleMode, TogglePlanMode, ToggleAuto
  <1>2. ASSUME SaveSession PROVE ConsentInv'
    <2>1. /\ At("none") /\ Saved(always)
          /\ UNCHANGED <<settings, cfg, edits, modeVars, chat, always, unsandboxed,
                         trusted, given, readOnly, tty, request>>
      BY <1>2 DEF SaveSession
    <2>2. /\ RunsWithConsent' /\ CallIsWellFormed' /\ TrustIsGiven'
          /\ request' \in Requests
      BY <2>1, TheCallRests
    <2>3. /\ records' \in [Chats -> SUBSET Tools] /\ warned' \in [Chats -> SUBSET Tools]
          /\ GrantsAreConsented'
      BY <1>0, <2>1 DEF Saved
    <2> QED
      BY <1>0, <2>1, <2>2, <2>3
  <1>3. ASSUME RevokeAll PROVE ConsentInv'
    <2>1. PermissionTypeOK' /\ GrantsAreConsented'
      BY <1>0, <1>3, TheCallRests DEF RevokeAll, Saved
    <2> QED
      BY <1>3, <2>1, TheCallRests DEF RevokeAll
  <1>4. ASSUME LoadSettings PROVE ConsentInv'
    BY <1>0, <1>4, TheCallRests, EffectiveType DEF LoadSettings
  <1>5. ASSUME NEW t \in Tools, NEW v \in Values, SetPermission(t, v)
        PROVE  ConsentInv'
    <2>1. /\ settings' \in [user : [Tools -> Values], project : [Tools -> Values]]
          /\ cfg' \in [Tools -> Values]
      BY <1>0, <1>5, EffectiveType DEF SetPermission
    <2>2. edits' \in 0..MaxEdits
      BY <1>0, <1>5, PermissionAssumption DEF SetPermission
    <2>3. /\ always' \in SUBSET Tools /\ records' \in [Chats -> SUBSET Tools]
          /\ given' \in [Chats -> SUBSET Tools] /\ warned' \in [Chats -> SUBSET Tools]
          /\ GrantsAreConsented'
      BY <1>0, <1>5 DEF SetPermission, Withdraw, Saved
    <2> QED
      BY <1>0, <1>5, <2>1, <2>2, <2>3, TheCallRests DEF SetPermission
  <1>6. ASSUME NEW t \in Tools, NEW v \in Values, EditElsewhere(t, v)
        PROVE  ConsentInv'
    <2>1. settings' \in [user : [Tools -> Values], project : [Tools -> Values]]
      BY <1>0, <1>6 DEF EditElsewhere
    <2>2. edits' \in 0..MaxEdits
      BY <1>0, <1>6, PermissionAssumption DEF EditElsewhere
    <2> QED
      BY <1>0, <1>6, <2>1, <2>2, TheCallRests DEF EditElsewhere
  <1>7. ASSUME NEW s \in Chats, NewChat(s) PROVE ConsentInv'
    <2>1. PermissionTypeOK' /\ GrantsAreConsented'
      BY <1>0, <1>7, TheCallRests DEF NewChat, Saved
    <2> QED
      BY <1>7, <2>1, TheCallRests DEF NewChat
  <1>8. ASSUME NEW s \in Chats, ResumeChat(s) PROVE ConsentInv'
    <2>1. cfg' \in [Tools -> Values]
      BY <1>0, <1>8, EffectiveType DEF ResumeChat
    <2>2. PermissionTypeOK' /\ GrantsAreConsented'
      BY <1>0, <1>8, <2>1, TheCallRests DEF ResumeChat, Saved
    <2> QED
      BY <1>8, <2>2, TheCallRests DEF ResumeChat
  <1>9. ASSUME NEW s \in Chats, RestartOn(s) PROVE ConsentInv'
    <2>1. cfg' \in [Tools -> Values]
      BY <1>0, <1>9, EffectiveType DEF RestartOn
    <2>2. /\ RunsWithConsent' /\ CallIsWellFormed' /\ TrustIsGiven'
          /\ request' \in Requests
      BY <1>9 DEF RestartOn, RunsWithConsent, CallIsWellFormed, TrustIsGiven, At,
                  NoRequest, Requests
    <2> QED
      BY <1>0, <1>9, <2>1, <2>2 DEF RestartOn
  <1> QED
    BY <1>1, <1>2, <1>3, <1>4, <1>5, <1>6, <1>7, <1>8, <1>9 DEF UserNext

\* Whatever tools.run executes, in whatever order calls were decided, grants
\* given and withdrawn, saves failed and sessions changed, was consented to,
\* and no session's record holds a grant the user did not give to it.
THEOREM RunsOnlyWithConsent == PermissionSpec => []ConsentHolds
  <1>1. ConsentInv /\ [PermissionNext]_permissionVars => ConsentInv'
    <2>1. ConsentInv /\ UNCHANGED permissionVars => ConsentInv'
      BY DEF permissionVars, settingVars, modeVars, grantVars, ConsentInv,
             ConsentHolds, PermissionTypeOK, GrantsAreConsented, RunsWithConsent,
             CallIsWellFormed, TrustIsGiven, Permission, At
    <2> QED
      BY <2>1, DecideKeeps, UserKeeps DEF PermissionNext
  <1>2. ConsentInv => ConsentHolds
    BY DEF ConsentInv
  <1> QED
    BY <1>1, <1>2, InitConsents, PTL DEF PermissionSpec

-----------------------------------------------------------------------------
(* ModelRoute *)

\* What a request may still do: before its first text there may be another
\* attempt, with budget left; from then on there is only the one that showed it.
CallIsSound(w) ==
    /\ w.pc \in {"begin", "retry", "wait"} => w.shown = {}
    /\ w.pc \in {"stream", "commit"} => w.shown \subseteq {w.row} /\ w.row \in Attempts
    /\ w.pc \in {"begin", "stream", "commit", "retry", "wait"} => w.tries < Retries
    /\ Cardinality(w.shown) <= 1

RetryInv ==
    /\ caller \in [Callers -> LogicalCalls]
    /\ \A c \in Callers : CallIsSound(caller[c])

\* A set of one element at the most.
LEMMA AtMostOne ==
    ASSUME NEW x, NEW S, S \subseteq {x}
    PROVE  Cardinality(S) <= 1
  <1>1. CASE S = {}
    BY <1>1, FS_EmptySet
  <1>2. CASE S = {x}
    <2>1. Cardinality(S) = 1
      BY <1>2, FS_Singleton
    <2> QED
      BY <2>1
  <1> QED
    BY <1>1, <1>2

\* A request that is not there.
LEMMA NoCallIsSound == NoCall \in LogicalCalls /\ CallIsSound(NoCall)
  <1>1. 0 \in 0..Retries /\ 0 < Retries
    BY RouteAssumption
  <1>2. Cardinality({}) <= 1
    BY FS_EmptySet
  <1> QED
    BY <1>1, <1>2 DEF NoCall, LogicalCalls, CallIsSound

\* A step that changes one request keeps the others.
LEMMA OneCallChanges ==
    ASSUME RetryInv, NEW c \in Callers, NEW w \in LogicalCalls, CallIsSound(w),
           caller' = [caller EXCEPT ![c] = w]
    PROVE  RetryInv'
  <1>1. caller' \in [Callers -> LogicalCalls]
    BY DEF RetryInv
  <1>2. ASSUME NEW d \in Callers PROVE CallIsSound(caller'[d])
    <2>1. caller'[d] = IF d = c THEN w ELSE caller[d]
      BY DEF RetryInv
    <2> QED
      BY <2>1 DEF RetryInv
  <1>3. (\A d \in Callers : CallIsSound(caller[d]))' <=> \A d \in Callers : CallIsSound(caller'[d])
    BY DEF CallIsSound
  <1> QED
    BY <1>1, <1>2, <1>3 DEF RetryInv

\* A request that ends keeps what was shown of it.
LEMMA OverIsSound ==
    ASSUME NEW w \in LogicalCalls, CallIsSound(w),
           NEW out \in {"none", "answer", "raised", "silent"}
    PROVE  Over(w, out) \in LogicalCalls /\ CallIsSound(Over(w, out)) /\ Over(w, out).pc = "idle"
  <1>1. 0 \in 0..Retries /\ 0 < Retries
    BY RouteAssumption
  <1>2. NoCall \in LogicalCalls /\ NoCall.pc = "idle"
    BY <1>1 DEF NoCall, LogicalCalls
  <1>3. /\ Over(w, out) \in LogicalCalls
        /\ Over(w, out).pc = "idle" /\ Over(w, out).shown = w.shown
    BY <1>2 DEF Over, LogicalCalls
  <1> QED
    BY <1>3 DEF CallIsSound

\* After a failure there is another attempt only if nothing was shown, and
\* then with less of its budget: a rejected parameter is one less, and so is a
\* retry.
LEMMA FailureCosts ==
    ASSUME NEW w \in LogicalCalls, CallIsSound(w), w.pc = "commit"
    PROVE  /\ AfterFailure(w) \in LogicalCalls /\ CallIsSound(AfterFailure(w))
           /\ AfterFailure(w).pc \in {"begin", "retry"} => Budget(AfterFailure(w)) < Budget(w)
  <1> DEFINE used == IF w.res \in Fixes \ {"thinking"} THEN w.tries ELSE w.tries + 1
             fixed == [w EXCEPT !.tries = used, !.fixes = @ \ {w.res}, !.pc = "begin"]
             again == [w EXCEPT !.tries = used, !.pc = "retry"]
  <1>0. /\ Retries \in Nat /\ w.tries \in Nat /\ w.tries < Retries
        /\ w.fixes \subseteq Fixes /\ w.shown \subseteq Attempts
        /\ "transient" \notin Fixes
    BY RouteAssumption DEF LogicalCalls, CallIsSound
  <1>1. used \in 0..Retries /\ (used = w.tries \/ used = w.tries + 1)
    BY <1>0
  <1>2. IsFiniteSet(w.fixes) /\ Cardinality(w.fixes) \in Nat
    BY <1>0, RouteAssumption, FS_Subset, FS_CardinalityType
  <1>3. CASE w.shown # {}
    <2>1. AfterFailure(w) = Over(w, "raised")
      BY <1>3 DEF AfterFailure
    <2> QED
      BY <2>1, OverIsSound
  <1>4. CASE w.shown = {} /\ w.res \in w.fixes /\ used = Retries
    <2>1. AfterFailure(w) = Over(w, "silent")
      BY <1>4 DEF AfterFailure
    <2> QED
      BY <2>1, OverIsSound
  <1>5. CASE w.shown = {} /\ w.res \in w.fixes /\ used # Retries
    <2>1. AfterFailure(w) = fixed
      BY <1>5 DEF AfterFailure, LogicalCalls
    <2>2. fixed \in LogicalCalls
      BY <1>0, <1>1 DEF LogicalCalls
    <2>3. fixed.pc = "begin" /\ fixed.tries = used /\ fixed.shown = {} /\ fixed.fixes = w.fixes \ {w.res}
      BY <1>5 DEF LogicalCalls
    <2>4. used < Retries
      BY <1>0, <1>1, <1>5
    <2>5. CallIsSound(fixed)
      <3> HIDE DEF fixed, used
      <3> QED
        BY <2>3, <2>4, FS_EmptySet DEF CallIsSound
    <2>6. Cardinality(w.fixes \ {w.res}) = Cardinality(w.fixes) - 1
      BY <1>2, <1>5, FS_RemoveElement
    <2>7. Budget(fixed) = (Retries - used) + (Cardinality(w.fixes) - 1)
      <3> HIDE DEF fixed, used
      <3> QED
        BY <2>3, <2>6 DEF Budget
    <2>8. Budget(fixed) < Budget(w)
      <3> HIDE DEF fixed, used
      <3> QED
        BY <1>0, <1>1, <1>2, <2>7 DEF Budget
    <2> QED
      BY <2>1, <2>2, <2>5, <2>8
  <1>6. CASE w.shown = {} /\ w.res \notin w.fixes /\ w.res = "transient" /\ used < Retries
    <2>1. AfterFailure(w) = again
      BY <1>6 DEF AfterFailure, LogicalCalls
    <2>2. used = w.tries + 1
      BY <1>0, <1>6
    <2>3. again \in LogicalCalls
      BY <1>0, <1>1 DEF LogicalCalls
    <2>4. again.pc = "retry" /\ again.tries = used /\ again.shown = {} /\ again.fixes = w.fixes
      BY <1>6 DEF LogicalCalls
    <2>5. CallIsSound(again)
      <3> HIDE DEF again, used
      <3> QED
        BY <2>4, <1>6, FS_EmptySet DEF CallIsSound
    <2>6. Budget(again) < Budget(w)
      <3> HIDE DEF again, used
      <3> QED
        BY <1>0, <1>2, <2>2, <2>4 DEF Budget
    <2> QED
      BY <2>1, <2>3, <2>5, <2>6
  <1>7. CASE w.shown = {} /\ w.res \notin w.fixes /\ ~(w.res = "transient" /\ used < Retries)
    <2>1. AfterFailure(w) = Over(w, "raised")
      BY <1>7 DEF AfterFailure
    <2> QED
      BY <2>1, OverIsSound
  <1> QED
    BY <1>3, <1>4, <1>5, <1>6, <1>7

\* What Commit makes of a request.
LEMMA CommitIsSound ==
    ASSUME RetryInv, NEW c \in Callers, Commit(c)
    PROVE  \E w \in LogicalCalls :
             /\ CallIsSound(w) /\ caller' = [caller EXCEPT ![c] = w]
             /\ w.pc \in {"begin", "retry"} => Budget(w) < Budget(caller[c])
  <1> DEFINE old == caller[c]
             st == IF old.res \in Outcomes THEN old.res ELSE "fatal"
             answer == [Over(old, "answer") EXCEPT !.shown = @ \cup {old.row}]
  <1>1. old \in LogicalCalls /\ CallIsSound(old) /\ old.pc = "commit"
    BY DEF RetryInv, Commit
  <1>2. CASE st = "ok"
    <2>1. caller' = [caller EXCEPT ![c] = answer]
      BY <1>2 DEF Commit
    <2>2. Over(old, "answer") \in LogicalCalls /\ CallIsSound(Over(old, "answer"))
          /\ Over(old, "answer").pc = "idle" /\ Over(old, "answer").shown = old.shown
      BY <1>1, OverIsSound DEF Over, NoCall
    <2>3. old.shown \cup {old.row} \subseteq {old.row} /\ old.row \in Attempts
      BY <1>1 DEF CallIsSound
    <2>4. answer \in LogicalCalls /\ answer.pc = "idle" /\ answer.shown = old.shown \cup {old.row}
      <3> HIDE DEF old
      <3> QED
        BY <2>2, <2>3, <1>1 DEF LogicalCalls
    <2>5. Cardinality(answer.shown) <= 1
      BY <2>3, <2>4, AtMostOne
    <2>6. CallIsSound(answer)
      <3> HIDE DEF answer
      <3> QED
        BY <2>4, <2>5 DEF CallIsSound
    <2> QED
      <3> HIDE DEF answer
      <3> QED
        BY <2>1, <2>4, <2>6
  <1>3. CASE st = "interrupted"
    <2>1. caller' = [caller EXCEPT ![c] = Over(old, "raised")]
      BY <1>3 DEF Commit
    <2> QED
      BY <2>1, <1>1, OverIsSound
  <1>4. CASE st # "ok" /\ st # "interrupted"
    <2>1. caller' = [caller EXCEPT ![c] = AfterFailure(old)]
      BY <1>4 DEF Commit
    <2> QED
      BY <2>1, <1>1, FailureCosts
  <1> QED
    BY <1>2, <1>3, <1>4

\* No step of a request breaks the invariant; Commit is above.
LEMMA RequestKeeps ==
    ASSUME RetryInv, NEW c \in Callers,
           \/ CallStep(c) \/ Show(c) \/ Dies(c) \/ Reconcile(c)
           \/ \E explicit \in BOOLEAN : Call(c, explicit)
    PROVE  \E w \in LogicalCalls :
             /\ CallIsSound(w) /\ caller' = [caller EXCEPT ![c] = w]
             /\ caller[c].pc = "commit" /\ w.pc \in {"begin", "retry"}
                  => Budget(w) < Budget(caller[c])
  <1> DEFINE old == caller[c]
             Next(w) == /\ w \in LogicalCalls /\ CallIsSound(w) /\ caller' = [caller EXCEPT ![c] = w]
                        /\ old.pc = "commit" => w.pc = "dead"
  <1>1. old \in LogicalCalls /\ CallIsSound(old)
    BY DEF RetryInv
  <1>2. Retries \in Nat /\ 0 < Retries
    BY RouteAssumption
  <1>3. SUFFICES ASSUME ~Commit(c) PROVE \E w : Next(w)
    BY CommitIsSound
  <1>4. ASSUME NEW r \in Attempts, Begin(c, r) PROVE Next([old EXCEPT !.pc = "stream", !.row = r])
    BY <1>1, <1>4 DEF Begin, LogicalCalls, CallIsSound
  <1>5. ASSUME NEW res \in Outcomes \cup Fixes, Ends(c, res)
        PROVE  Next([old EXCEPT !.pc = "commit", !.res = res])
    BY <1>1, <1>5 DEF Ends, LogicalCalls, CallIsSound
  <1>6. ASSUME Retry(c) PROVE Next(IF IsOpen THEN Over(old, "raised") ELSE [old EXCEPT !.pc = "wait"])
    <2>1. CASE IsOpen
      BY <1>1, <1>6, <2>1, OverIsSound DEF Retry
    <2>2. CASE ~IsOpen
      BY <1>1, <1>6, <2>2 DEF Retry, LogicalCalls, CallIsSound
    <2> QED
      BY <2>1, <2>2
  <1>7. ASSUME Waited(c) PROVE \E w : Next(w)
    <2>1. CASE Goto(c, "begin")
      <3>1. Next([old EXCEPT !.pc = "begin"])
        BY <1>1, <1>7, <2>1 DEF Waited, Goto, LogicalCalls, CallIsSound
      <3> QED
        BY <3>1
    <2>2. CASE caller' = [caller EXCEPT ![c] = Over(@, "raised")]
      <3>1. Next(Over(old, "raised"))
        BY <1>1, <1>7, <2>2, OverIsSound DEF Waited
      <3> QED
        BY <3>1
    <2> QED
      BY <1>7, <2>1, <2>2 DEF Waited
  <1>8. ASSUME Show(c) PROVE Next([old EXCEPT !.shown = @ \cup {old.row}])
    <2>1. old.pc = "stream" /\ old.shown \cup {old.row} \subseteq {old.row} /\ old.row \in Attempts
      BY <1>1, <1>8 DEF Show, CallIsSound
    <2>2. Cardinality(old.shown \cup {old.row}) <= 1
      BY <2>1, AtMostOne
    <2> QED
      BY <1>1, <1>8, <2>1, <2>2 DEF Show, LogicalCalls, CallIsSound
  <1>9. ASSUME Dies(c) PROVE Next([NoCall EXCEPT !.pc = "dead", !.row = old.row])
    BY <1>1, <1>9, NoCallIsSound DEF Dies, NoCall, LogicalCalls, CallIsSound
  <1>10. ASSUME Reconcile(c) PROVE Next(NoCall)
    BY <1>10, NoCallIsSound DEF Reconcile
  <1>11. ASSUME NEW explicit \in BOOLEAN, Call(c, explicit) PROVE \E w : Next(w)
    <2> DEFINE w == [NoCall EXCEPT !.pc = IF IsOpen /\ ~explicit THEN "idle" ELSE "begin",
                                   !.out = IF IsOpen /\ ~explicit THEN "raised" ELSE "none"]
    <2>1. w \in LogicalCalls /\ CallIsSound(w)
      BY <1>2, NoCallIsSound DEF NoCall, LogicalCalls, CallIsSound
    <2>2. Next(w)
      BY <1>11, <2>1 DEF Call
    <2> QED
      BY <2>2
  <1> HIDE DEF Next
  <1> QED
    BY <1>3, <1>4, <1>5, <1>6, <1>7, <1>8, <1>9, <1>10, <1>11 DEF CallStep

\* The user reads one answer, however many attempts it takes, and the attempts
\* of a request use up its retries and the parameters it may still change, for
\* any number of callers, retries and parameters.
THEOREM RetriesRunOut == RouteSpec => RetriesAreSound
  <1>1. RouteInit => RetryInv
    BY NoCallIsSound DEF RouteInit, RetryInv
  <1>2. ASSUME RetryInv, RouteNext
        PROVE  /\ RetryInv'
               /\ \A c \in Callers :
                    caller[c].pc = "commit" /\ caller'[c].pc \in {"begin", "retry"}
                      => Budget(caller'[c]) < Budget(caller[c])
    <2>1. CASE Tick \/ ProbeSucceeds
      <3>1. caller' = caller
        BY <2>1 DEF Tick, ProbeSucceeds
      <3> QED
        BY <1>2, <3>1 DEF RetryInv, CallIsSound
    <2>2. ASSUME NEW c \in Callers,
                 \/ CallStep(c) \/ Show(c) \/ Dies(c) \/ Reconcile(c)
                 \/ \E explicit \in BOOLEAN : Call(c, explicit)
          PROVE  /\ RetryInv'
                 /\ \A d \in Callers :
                      caller[d].pc = "commit" /\ caller'[d].pc \in {"begin", "retry"}
                        => Budget(caller'[d]) < Budget(caller[d])
      <3>1. PICK w \in LogicalCalls :
              /\ CallIsSound(w) /\ caller' = [caller EXCEPT ![c] = w]
              /\ caller[c].pc = "commit" /\ w.pc \in {"begin", "retry"}
                   => Budget(w) < Budget(caller[c])
        BY <1>2, <2>2, RequestKeeps
      <3>2. \A d \in Callers : caller'[d] = IF d = c THEN w ELSE caller[d]
        BY <1>2, <3>1 DEF RetryInv
      <3>3. RetryInv'
        BY <1>2, <3>1, OneCallChanges
      <3>4. ASSUME NEW d \in Callers, caller[d].pc = "commit", caller'[d].pc \in {"begin", "retry"}
            PROVE  Budget(caller'[d]) < Budget(caller[d])
        <4>1. d = c
          BY <3>2, <3>4
        <4> QED
          BY <3>1, <3>2, <3>4, <4>1
      <3> QED
        BY <3>3, <3>4
    <2> QED
      BY <1>2, <2>1, <2>2 DEF RouteNext
  <1>3. RetryInv /\ UNCHANGED routeVars => RetryInv'
    BY DEF routeVars, RetryInv, CallIsSound
  <1>4. RetryInv' => \A c \in Callers : Cardinality(caller'[c].shown) <= 1
    BY DEF RetryInv, CallIsSound
  <1>5. RetryInv /\ [RouteNext]_routeVars =>
          [\A c \in Callers :
             /\ Cardinality(caller'[c].shown) <= 1
             /\ (caller[c].pc = "commit" /\ caller'[c].pc \in {"begin", "retry"})
                  => Budget(caller'[c]) < Budget(caller[c])]_routeVars
    BY <1>2, <1>4
  <1> QED
    BY <1>1, <1>2, <1>3, <1>5, PTL DEF RouteSpec, RetriesAreSound

-----------------------------------------------------------------------------
(* ProviderStream *)

StreamTypeOK ==
    /\ thread \in [pc : {"start", "connect", "connected", "headers", "bind", "read",
                         "line", "put", "ended"},
                   conn : Nat, item : {"none", "item", "done", "error"}]
    /\ queue \in Seq({"item", "done", "error"} \X Nat)
    /\ reader \in {"polls", "closing", "completed", "raised"}
    /\ came \in Seq(Nat) /\ got \in Seq(Nat)
    /\ thread.pc = "put" => thread.item # "none"

\* What is taken out of the network and not yet put into the queue.
Held == IF thread.pc = "line" \/ (thread.pc = "put" /\ thread.item = "item") THEN 1 ELSE 0

\* Behind what the turn has are the next items, and behind the last of them
\* the end of a thread that is over.
QueueInOrder ==
    \A i \in 1..Len(queue) :
        \/ queue[i] = <<"item", Len(got) + i>>
        \/ i = Len(queue) /\ thread.pc = "ended" /\ queue[i][1] \in {"done", "error"}

\* Until an error, the turn, the queue and the thread have all that came; an
\* error may take the place of an item.
NothingMissing ==
    /\ thread.pc # "ended" /\ ~(thread.pc = "put" /\ thread.item = "error") =>
         Len(came) = Len(got) + Len(queue) + Held
    /\ thread.pc = "put" /\ thread.item = "error" => Len(got) + Len(queue) <= Len(came)
    /\ thread.pc = "ended" =>
         /\ queue # <<>> /\ Len(got) + Len(queue) <= Len(came) + 1
         /\ queue[Len(queue)][1] \in {"done", "error"}
         /\ queue[Len(queue)][1] = "done" => Len(came) + 1 = Len(got) + Len(queue)

ItemsInOrder ==
    /\ \A i \in 1..Len(came) : came[i] = i
    /\ \A i \in 1..Len(got) : got[i] = i
    /\ Len(got) <= Len(came)

StreamInv ==
    /\ StreamTypeOK /\ ItemsInOrder
    /\ reader = "polls" => ~stop /\ QueueInOrder /\ NothingMissing
    /\ reader = "completed" => Len(got) = Len(came) /\ thread.pc = "ended"

\* Nothing came yet.
LEMMA InitStream == StreamInit => StreamInv
  BY DEF StreamInit, StreamInv, StreamTypeOK, ItemsInOrder, QueueInOrder, NothingMissing, Held

\* A step of the thread between two items: neither sequence changes, and the
\* thread holds what it held, or goes to report an error.
LEMMA ThreadMoves ==
    ASSUME StreamInv, UNCHANGED <<queue, stop, reader, came, got>>,
           thread' \in [pc : {"start", "connect", "connected", "headers", "bind", "read",
                              "line", "put"},
                        conn : Nat, item : {"none", "item", "done", "error"}],
           thread'.pc = "put" => thread'.item # "none",
           thread.pc # "ended", ~(thread.pc = "put" /\ thread.item = "error"),
           Held' = Held \/ (thread'.pc = "put" /\ thread'.item = "error")
    PROVE  StreamInv'
  <1>1. StreamTypeOK' /\ ItemsInOrder'
    BY DEF StreamInv, StreamTypeOK, ItemsInOrder
  <1>2. Held \in 0..1
    BY DEF Held
  <1>3. CASE reader = "polls"
    <2>1. QueueInOrder'
      BY <1>3 DEF StreamInv, QueueInOrder
    <2>2. Len(came) = Len(got) + Len(queue) + Held
      BY <1>3 DEF StreamInv, NothingMissing
    <2>3. Len(came) \in Nat /\ Len(got) \in Nat /\ Len(queue) \in Nat
      BY DEF StreamInv, StreamTypeOK
    <2>4. thread'.pc # "ended"
      OBVIOUS
    <2>5. NothingMissing'
      <3>1. CASE thread'.pc = "put" /\ thread'.item = "error"
        BY <1>2, <2>2, <2>3, <3>1 DEF NothingMissing
      <3>2. CASE Held' = Held /\ ~(thread'.pc = "put" /\ thread'.item = "error")
        BY <2>2, <2>4, <3>2 DEF NothingMissing
      <3> QED
        BY <3>1, <3>2
    <2> QED
      BY <1>1, <1>3, <2>1, <2>5 DEF StreamInv
  <1>4. CASE reader # "polls"
    BY <1>1, <1>4 DEF StreamInv
  <1> QED
    BY <1>3, <1>4

\* The network and the thread up to the queue.
LEMMA NetworkKeeps ==
    ASSUME StreamInv, Network \/ Begins \/ BindSocket \/ BindResponse \/ Woken \/ GotLine
    PROVE  StreamInv'
  <1>0. thread \in [pc : {"start", "connect", "connected", "headers", "bind", "read",
                          "line", "put", "ended"},
                    conn : Nat, item : {"none", "item", "done", "error"}]
    BY DEF StreamInv, StreamTypeOK
  <1>1. CASE Connects
    BY <1>0, <1>1, ThreadMoves DEF Connects, Goes, Held
  <1>2. CASE Answers /\ UNCHANGED came
    <2>1. \/ thread.pc = "headers" /\ Goes("bind")
          \/ thread.pc = "read" /\ Puts("done") /\ came' = came
          \/ thread.pc = "read" /\ came' = Append(came, Len(came) + 1)
      BY <1>2 DEF Answers, Released
    <2>2. came' # Append(came, Len(came) + 1)
      <3>1. came \in Seq(Nat) /\ Len(came) + 1 \in Nat /\ Len(came) \in Nat
        BY DEF StreamInv, StreamTypeOK
      <3>2. Len(Append(came, Len(came) + 1)) # Len(came)
        BY <3>1, AppendProperties
      <3> QED
        BY <1>2, <3>2
    <2>3. CASE thread.pc = "headers" /\ Goes("bind")
      BY <1>0, <1>2, <2>3, ThreadMoves DEF Answers, Goes, Held
    <2>4. CASE thread.pc = "read" /\ Puts("done")
      BY <1>0, <1>2, <2>4, ThreadMoves DEF Answers, Puts, Held
    <2> QED
      BY <2>1, <2>2, <2>3, <2>4
  <1>3. CASE /\ thread.pc = "read" /\ came' = Append(came, Len(came) + 1) /\ Goes("line")
             /\ UNCHANGED <<queue, stop, reader, got>>
    <2>1. came \in Seq(Nat) /\ Len(came) \in Nat /\ Len(got) \in Nat /\ Len(queue) \in Nat
      BY DEF StreamInv, StreamTypeOK
    <2>2. came' \in Seq(Nat) /\ Len(came') = Len(came) + 1
          /\ \A i \in 1..Len(came') : came'[i] = IF i = Len(came) + 1 THEN i ELSE came[i]
      BY <1>3, <2>1
    <2>3. StreamTypeOK' /\ ItemsInOrder'
      <3>1. StreamTypeOK'
        BY <1>0, <1>3, <2>2 DEF Goes, StreamInv, StreamTypeOK
      <3>2. ASSUME NEW i \in 1..Len(came') PROVE came'[i] = i
        <4>1. i = Len(came) + 1 \/ i \in 1..Len(came)
          BY <2>1, <2>2
        <4> QED
          BY <2>2, <4>1 DEF StreamInv, ItemsInOrder
      <3>3. Len(got') <= Len(came')
        BY <1>3, <2>1, <2>2 DEF StreamInv, ItemsInOrder
      <3> QED
        BY <1>3, <3>1, <3>2, <3>3 DEF StreamInv, ItemsInOrder
    <2>4. CASE reader = "polls"
      <3>1. Len(came) = Len(got) + Len(queue)
        BY <1>3, <2>1, <2>4 DEF StreamInv, NothingMissing, Held
      <3>2. thread'.pc = "line"
        BY <1>0, <1>3 DEF Goes
      <3>3. NothingMissing'
        BY <1>3, <2>1, <2>2, <3>1, <3>2 DEF NothingMissing, Held
      <3>4. QueueInOrder'
        BY <1>3, <2>4 DEF StreamInv, QueueInOrder
      <3> QED
        BY <1>3, <2>3, <2>4, <3>3, <3>4 DEF StreamInv
    <2>5. CASE reader # "polls"
      BY <1>3, <2>3, <2>5 DEF StreamInv
    <2> QED
      BY <2>4, <2>5
  <1>4. CASE Fails
    BY <1>0, <1>4, ThreadMoves DEF Fails, Goes, Puts, Held
  <1>5. CASE Begins
    <2>1. CASE handle.set
      BY <1>0, <1>5, <2>1, ThreadMoves DEF Begins, Puts, Held
    <2>2. CASE thread' = [thread EXCEPT !.pc = "connect", !.conn = @ + 1]
      <3>1. thread.conn + 1 \in Nat
        BY <1>0
      <3>2. /\ thread'.pc = "connect"
            /\ thread' \in [pc : {"start", "connect", "connected", "headers", "bind", "read",
                                  "line", "put"},
                            conn : Nat, item : {"none", "item", "done", "error"}]
        BY <1>0, <2>2, <3>1
      <3> QED
        BY <1>5, <3>2, ThreadMoves DEF Begins, Held
    <2> QED
      BY <1>5, <2>1, <2>2 DEF Begins
  <1>6. CASE BindSocket
    BY <1>0, <1>6, ThreadMoves DEF BindSocket, Goes, Held
  <1>7. CASE BindResponse
    BY <1>0, <1>7, ThreadMoves DEF BindResponse, Goes, Puts, Released, Held
  <1>8. CASE Woken
    BY <1>0, <1>8, ThreadMoves DEF Woken, Puts, Released, Held
  <1>9. CASE GotLine
    BY <1>0, <1>9, ThreadMoves DEF GotLine, Puts, Released, Held
  <1>10. Answers => (Answers /\ UNCHANGED came)
                    \/ /\ thread.pc = "read" /\ came' = Append(came, Len(came) + 1) /\ Goes("line")
                       /\ UNCHANGED <<queue, stop, reader, got>>
    BY DEF Answers
  <1> QED
    BY <1>1, <1>2, <1>3, <1>4, <1>5, <1>6, <1>7, <1>8, <1>9, <1>10 DEF Network

\* What is put is behind the rest, and the end is put last.
LEMMA PutKeeps == ASSUME StreamInv, Put PROVE StreamInv'
  <1>0. /\ thread.item \in {"item", "done", "error"}
        /\ queue \in Seq({"item", "done", "error"} \X Nat)
        /\ Len(came) \in Nat /\ Len(got) \in Nat /\ Len(queue) \in Nat
    BY DEF StreamInv, StreamTypeOK, Put
  <1>1. CASE stop
    <2>1. UNCHANGED <<queue, came, got, reader, stop>> /\ reader # "polls" /\ thread'.pc = "ended"
          /\ reader # "completed"
      BY <1>1 DEF Put, Goes, StreamInv, StreamTypeOK
    <2>2. StreamTypeOK' /\ ItemsInOrder'
      BY <1>1, <2>1 DEF Put, Goes, StreamInv, StreamTypeOK, ItemsInOrder
    <2> QED
      BY <2>1, <2>2 DEF StreamInv
  <1>2. CASE ~stop
    <2> DEFINE new == <<thread.item, Len(came)>>
    <2>1. /\ queue' = Append(queue, new) /\ UNCHANGED <<came, got, reader, stop>>
          /\ thread.pc = "put" /\ thread'.item = thread.item
          /\ thread'.pc = IF thread.item = "item" THEN "read" ELSE "ended"
      BY <1>2 DEF Put, Goes, StreamInv, StreamTypeOK
    <2>2. /\ queue' \in Seq({"item", "done", "error"} \X Nat) /\ Len(queue') = Len(queue) + 1
          /\ queue'[Len(queue) + 1] = new /\ \A i \in 1..Len(queue) : queue'[i] = queue[i]
      BY <1>0, <2>1
    <2>3. StreamTypeOK' /\ ItemsInOrder'
      BY <1>2, <2>1, <2>2 DEF Put, Goes, StreamInv, StreamTypeOK, ItemsInOrder
    <2>4. CASE reader = "polls"
      <3>1. \A i \in 1..Len(queue) : queue[i] = <<"item", Len(got) + i>>
        BY <2>1, <2>4 DEF StreamInv, QueueInOrder
      <3>2. CASE thread.item = "item"
        <4>1. Len(came) = Len(got) + Len(queue) + 1
          BY <2>1, <2>4, <3>2 DEF StreamInv, NothingMissing, Held
        <4>2. new = <<"item", Len(got) + (Len(queue) + 1)>>
          BY <1>0, <3>2, <4>1
        <4>3. QueueInOrder'
          <5>1. ASSUME NEW i \in 1..Len(queue') PROVE queue'[i] = <<"item", Len(got) + i>>
            <6>1. i = Len(queue) + 1 \/ i \in 1..Len(queue)
              BY <1>0, <2>2
            <6> QED
              BY <2>2, <3>1, <4>2, <6>1
          <5> QED
            BY <2>1, <5>1 DEF QueueInOrder
        <4>4. NothingMissing'
          BY <1>0, <2>1, <2>2, <3>2, <4>1 DEF NothingMissing, Held
        <4> QED
          BY <1>2, <2>1, <2>3, <2>4, <4>3, <4>4 DEF StreamInv
      <3>3. CASE thread.item # "item"
        <4>1. thread'.pc = "ended" /\ new[1] \in {"done", "error"}
          BY <1>0, <2>1, <3>3
        <4>2. QueueInOrder'
          <5>1. ASSUME NEW i \in 1..Len(queue')
                PROVE  \/ queue'[i] = <<"item", Len(got) + i>>
                       \/ i = Len(queue') /\ queue'[i][1] \in {"done", "error"}
            <6>1. i = Len(queue) + 1 \/ i \in 1..Len(queue)
              BY <1>0, <2>2
            <6> QED
              BY <2>2, <3>1, <4>1, <6>1
          <5> QED
            BY <2>1, <4>1, <5>1 DEF QueueInOrder
        <4>3. Len(got) + Len(queue) <= Len(came)
              /\ (thread.item = "done" => Len(came) = Len(got) + Len(queue))
          BY <1>0, <2>1, <2>4, <3>3 DEF StreamInv, NothingMissing, Held
        <4>4. queue'[Len(queue')] = new /\ new[1] = thread.item /\ queue' # <<>>
          BY <1>0, <2>2
        <4>5. NothingMissing'
          BY <1>0, <2>1, <2>2, <4>1, <4>3, <4>4 DEF NothingMissing
        <4> QED
          BY <1>2, <2>1, <2>3, <2>4, <4>2, <4>5 DEF StreamInv
      <3> QED
        BY <3>2, <3>3
    <2>5. CASE reader # "polls"
      BY <2>1, <2>3, <2>5 DEF StreamInv
    <2> QED
      BY <2>4, <2>5
  <1> QED
    BY <1>1, <1>2

\* The turn takes the first of the queue: the next item, or the end, which is
\* the last and comes when nothing is missing.
LEMMA PollKeeps == ASSUME StreamInv, PollQueue PROVE StreamInv'
  <1>0. /\ reader = "polls" /\ UNCHANGED <<thread, stop, came>>
        /\ queue \in Seq({"item", "done", "error"} \X Nat)
        /\ came \in Seq(Nat) /\ got \in Seq(Nat)
        /\ Len(came) \in Nat /\ Len(got) \in Nat /\ Len(queue) \in Nat
        /\ QueueInOrder /\ NothingMissing /\ ~stop
    BY DEF PollQueue, StreamInv, StreamTypeOK
  <1>1. CASE handle.set
    BY <1>1 DEF PollQueue, StreamInv, StreamTypeOK, ItemsInOrder
  <1>2. CASE ~handle.set /\ queue # <<>>
    <2>1. /\ 1 \in 1..Len(queue) /\ Head(queue) = queue[1]
          /\ queue[1] \in {"item", "done", "error"} \X Nat
          /\ queue' = Tail(queue) /\ queue' \in Seq({"item", "done", "error"} \X Nat)
          /\ Len(queue') = Len(queue) - 1
          /\ \A i \in 1..Len(queue') : queue'[i] = queue[i + 1]
      <3>1. queue' = Tail(queue)
        BY <1>2 DEF PollQueue
      <3>2. Len(queue) # 0
        BY <1>0, <1>2
      <3>3. 1 \in 1..Len(queue) /\ Head(queue) = queue[1]
        BY <1>0, <3>2
      <3>4. queue[1] \in {"item", "done", "error"} \X Nat
        BY <1>0, <3>3, ElementOfSeq
      <3> QED
        BY <1>0, <1>2, <3>1, <3>3, <3>4, HeadTailProperties
    <2>a. Len(queue') = Len(queue) - 1 /\ Len(queue) \in Nat /\ Len(queue) # 0 /\ Len(queue') \in Nat
      BY <1>0, <2>1
    <2>b. LET kind == Head(queue)[1]
          IN  /\ got' = IF kind = "item" THEN Append(got, Head(queue)[2]) ELSE got
              /\ reader' = CASE kind = "item" -> "polls"
                            [] kind = "done" -> "completed"
                            [] OTHER -> "closing"
      BY <1>2 DEF PollQueue
    <2>2. CASE queue[1][1] = "item"
      <3>1. queue[1] = <<"item", Len(got) + 1>>
        BY <1>0, <2>1, <2>2 DEF QueueInOrder
      <3>2. got' = Append(got, Len(got) + 1) /\ reader' = "polls"
        BY <2>1, <2>b, <3>1
      <3>3. /\ got' \in Seq(Nat) /\ Len(got') = Len(got) + 1
            /\ \A i \in 1..Len(got') : got'[i] = IF i = Len(got) + 1 THEN i ELSE got[i]
        BY <1>0, <3>2
      <3>4. thread.pc = "ended" => Len(queue) > 1
        BY <1>0, <2>1, <2>2 DEF NothingMissing
      <3>5. Len(got) < Len(came)
        <4>1. Held \in 0..1
          BY DEF Held
        <4> QED
          BY <1>0, <2>1, <3>4, <4>1 DEF NothingMissing
      <3>6. StreamTypeOK' /\ ItemsInOrder'
        <4>1. StreamTypeOK'
          BY <1>0, <2>1, <3>2, <3>3 DEF StreamInv, StreamTypeOK
        <4>2. ASSUME NEW i \in 1..Len(got') PROVE got'[i] = i
          <5>1. i = Len(got) + 1 \/ i \in 1..Len(got)
            BY <1>0, <3>3
          <5> QED
            BY <3>3, <5>1 DEF StreamInv, ItemsInOrder
        <4>3. Len(got') <= Len(came')
          BY <1>0, <3>3, <3>5
        <4> QED
          BY <1>0, <4>1, <4>2, <4>3 DEF StreamInv, ItemsInOrder
      <3>7. QueueInOrder'
        <4>1. ASSUME NEW i \in 1..Len(queue')
              PROVE  \/ queue'[i] = <<"item", Len(got') + i>>
                     \/ i = Len(queue') /\ thread.pc = "ended" /\ queue'[i][1] \in {"done", "error"}
          <5>1. i + 1 \in 1..Len(queue) /\ queue'[i] = queue[i + 1]
            BY <1>0, <2>1
          <5>2. Len(got') + i = Len(got) + (i + 1)
            BY <1>0, <3>3
          <5>3. i + 1 = Len(queue) => i = Len(queue')
            BY <2>a
          <5> QED
            BY <1>0, <5>1, <5>2, <5>3 DEF QueueInOrder
        <4> QED
          BY <1>0, <4>1 DEF QueueInOrder
      <3>8. NothingMissing'
        <4>1. Held' = Held
          BY <1>0 DEF Held
        <4>2. Len(got') + Len(queue') = Len(got) + Len(queue)
          BY <1>0, <2>1, <3>3
        <4>3. thread.pc = "ended" => queue' # <<>> /\ queue'[Len(queue')] = queue[Len(queue)]
          <5>1. ASSUME thread.pc = "ended" PROVE queue' # <<>> /\ queue'[Len(queue')] = queue[Len(queue)]
            <6>1. Len(queue') \in 1..Len(queue') /\ Len(queue') + 1 = Len(queue) /\ Len(queue') # 0
              BY <2>a, <3>4, <5>1
            <6>2. queue' # <<>>
              BY <6>1
            <6> QED
              BY <2>1, <6>1, <6>2
          <5> QED
            BY <5>1
        <4> QED
          BY <1>0, <3>3, <2>1, <4>1, <4>2, <4>3 DEF NothingMissing, Held
      <3> QED
        BY <1>0, <3>2, <3>6, <3>7, <3>8 DEF StreamInv
    <2>3. CASE queue[1][1] # "item"
      <3>1. Len(queue) = 1 /\ thread.pc = "ended" /\ queue[1][1] \in {"done", "error"}
        <4>1. queue[1] # <<"item", Len(got) + 1>>
          BY <2>3
        <4> QED
          BY <1>0, <2>1, <4>1 DEF QueueInOrder
      <3>2. got' = got /\ reader' = IF queue[1][1] = "done" THEN "completed" ELSE "closing"
        BY <2>1, <2>b, <2>3, <3>1
      <3>3. StreamTypeOK' /\ ItemsInOrder'
        BY <1>0, <2>1, <3>2 DEF StreamInv, StreamTypeOK, ItemsInOrder
      <3>4. queue[1][1] = "done" => Len(got) = Len(came)
        BY <1>0, <3>1 DEF NothingMissing
      <3> QED
        BY <1>0, <3>1, <3>2, <3>3, <3>4 DEF StreamInv
    <2> QED
      BY <2>2, <2>3
  <1> QED
    BY <1>1, <1>2 DEF PollQueue

\* Esc, and the end of the reading.
LEMMA ReaderKeeps ==
    ASSUME StreamInv, EscPressed \/ Drop \/ ShutDown \/ CloseStream \/ CancelOnClose
    PROVE  StreamInv'
  <1>1. /\ UNCHANGED <<thread, queue, came, got>>
        /\ \/ UNCHANGED <<reader, stop>>
           \/ reader' \in {"closing", "raised"}
           \/ reader = "completed" /\ reader' = reader
    BY DEF EscPressed, Drop, ShutDown, CloseStream, CancelOnClose, StreamInv, StreamTypeOK
  <1>2. StreamTypeOK' /\ ItemsInOrder'
    BY <1>1 DEF StreamInv, StreamTypeOK, ItemsInOrder
  <1>3. QueueInOrder' = QueueInOrder /\ NothingMissing' = NothingMissing
    BY <1>1 DEF QueueInOrder, NothingMissing, Held
  <1> QED
    BY <1>1, <1>2, <1>3 DEF StreamInv

\* An answer that is complete was given to the turn whole and in order, and no
\* other is taken for complete: for streams and queues of any length, whenever
\* Esc is pressed, the stream dropped, or an attempt repeated.
THEOREM CompleteAnswersAreWhole == StreamSpec => []CompleteIsWhole
  <1>1. StreamInv /\ [StreamNext]_streamVars => StreamInv'
    <2>1. StreamInv /\ UNCHANGED streamVars => StreamInv'
      BY DEF streamVars, StreamInv, StreamTypeOK, ItemsInOrder, QueueInOrder, NothingMissing, Held
    <2> QED
      BY <2>1, NetworkKeeps, PutKeeps, PollKeeps, ReaderKeeps DEF StreamNext, ThreadStep, OwnerStep
  <1>2. StreamInv => CompleteIsWhole
    <2> SUFFICES ASSUME StreamInv PROVE CompleteIsWhole
      OBVIOUS
    <2>1. came \in Seq(Nat) /\ got \in Seq(Nat) /\ ItemsInOrder
      BY DEF StreamInv, StreamTypeOK
    <2>2. reader = "completed" => got = came
      BY <2>1, SeqEqual DEF StreamInv, ItemsInOrder
    <2> QED
      BY <2>1, <2>2 DEF CompleteIsWhole, ItemsInOrder
  <1> QED
    BY <1>1, <1>2, InitStream, PTL DEF StreamSpec

-----------------------------------------------------------------------------
(* Goal *)

RowOf(g) == [id |-> g.id, rev |-> g.rev, n |-> g.rounds]

KeptOnDisk ==
    /\ saved.id = goal.id
    /\ saved.phase = "none" <=> goal.phase = "none"
    /\ saved.phase # "none" => saved.rounds <= saved.max
    /\ armed \/ turn = "goal" => saved.rev = goal.rev
    /\ goal.phase # "none" =>
         saved.rounds >= IF step = "failed" THEN goal.rounds - 1 ELSE goal.rounds

Reservation ==
    /\ step # "none" =>
         goal.phase = "active" /\ ~plan /\ turn = "none" /\ ran < goal.rounds
    /\ step \in {"charged", "queued"} => saved = goal
    /\ step = "charged" => rows = <<>>
    /\ step = "queued" => rows = <<RowOf(goal)>>
    /\ \A i \in DOMAIN rows : rows[i].id = goal.id => ran < rows[i].n

GoalInv == RoundsAreAllowed /\ KeptOnDisk /\ Reservation

-----------------------------------------------------------------------------
LEMMA NoRows == <<>> \in Seq(Rows)
  OBVIOUS

(* What the steps do, in the terms of the invariant. *)

\* A change of the record is saved and kept, or only closes the gate.
LEMMA SaveGoalOutcome ==
    ASSUME NEW g \in Goals, NEW on \in BOOLEAN, SaveGoal(g, on)
    PROVE  \/ goal' = g /\ saved' = g /\ armed' = on
           \/ goal' = goal /\ saved' = saved /\ armed' = FALSE
  BY DEF SaveGoal

\* So is a change of the user's, which leaves the queued rows or none.
LEMMA ChangeOutcome ==
    ASSUME NEW g \in Goals, NEW on \in BOOLEAN, Change(g, on)
    PROVE  /\ \/ goal' = g /\ saved' = g /\ armed' = on /\ rows' = <<>>
              \/ goal' = goal /\ saved' = saved /\ armed' = FALSE
           /\ (rows' = rows \/ rows' = <<>>)
  BY DEF Change, SaveGoal

\* Between reservations, a step that does not touch the rounds charged or run
\* and closes the gate, or saves what it changed, keeps the invariant.
LEMMA RecordChanges ==
    ASSUME GoalInv, step = "none", UNCHANGED <<step, ran>>,
           NEW g \in Goals, g.id = goal.id, g.phase # "none", goal.phase # "none",
           g.rounds = goal.rounds, g.rounds <= g.max,
           \/ goal' = g /\ saved' = g
           \/ goal' = goal /\ saved' = saved /\ armed' = FALSE,
           armed' \in BOOLEAN, armed' => consent', consent' \in BOOLEAN,
           (rows' = rows \/ rows' = <<>>), turn' = turn, plan' = plan,
           round' \in Rows
    PROVE  GoalInv'
  <1>0. /\ GoalTypeOK /\ RoundsAreCharged /\ OnlyWithConsent
        /\ KeptOnDisk /\ Reservation
    BY DEF GoalInv, RoundsAreAllowed
  <1>1. GoalTypeOK'
    <2>1. goal' \in Goals /\ saved' \in Goals
      BY <1>0 DEF GoalTypeOK
    <2>2. rows' \in Seq(Rows)
      BY <1>0, NoRows, Zenon DEF GoalTypeOK
    <2> QED
      BY <1>0, <2>1, <2>2 DEF GoalTypeOK
  <1>2. RoundsAreCharged' /\ OnlyWithConsent'
    <2>1. CASE goal' = g /\ saved' = g
      BY <1>0, <2>1 DEF RoundsAreCharged, OnlyWithConsent
    <2>2. CASE goal' = goal /\ saved' = saved /\ armed' = FALSE
      BY <1>0, <2>2 DEF RoundsAreCharged, OnlyWithConsent
    <2> QED
      BY <2>1, <2>2
  <1>3. KeptOnDisk'
    <2>1. CASE goal' = g /\ saved' = g
      BY <1>0, <2>1 DEF KeptOnDisk, Goals
    <2>2. CASE goal' = goal /\ saved' = saved /\ armed' = FALSE
      BY <1>0, <2>2 DEF KeptOnDisk
    <2> QED
      BY <2>1, <2>2
  <1>4. Reservation'
    <2>1. goal'.id = goal.id
      OBVIOUS
    <2>2. step' = "none" /\ ran' = ran
      OBVIOUS
    <2>3. ASSUME NEW i \in DOMAIN rows', rows'[i].id = goal'.id PROVE ran' < rows'[i].n
      BY <1>0, <2>1, <2>2, <2>3 DEF Reservation
    <2> QED
      BY <2>2, <2>3 DEF Reservation
  <1> QED
    BY <1>1, <1>2, <1>3, <1>4 DEF GoalInv, RoundsAreAllowed

LEMMA RevisedType ==
    ASSUME NEW g \in Goals, NEW phase \in Phases
    PROVE  /\ Revised(g, phase) \in Goals
           /\ Revised(g, phase).id = g.id /\ Revised(g, phase).max = g.max
           /\ Revised(g, phase).rounds = g.rounds
           /\ Revised(g, phase).phase = phase
  <1>1. [g EXCEPT !.rev = @ + 1] \in Goals
    BY DEF Goals
  <1>2. [[g EXCEPT !.rev = @ + 1] EXCEPT !.phase = phase] \in Goals
    BY <1>1 DEF Goals
  <1> QED
    BY <1>2 DEF Revised, Goals

-----------------------------------------------------------------------------
(* The invariant. *)

LEMMA InitGoalInv == GoalInit => GoalInv
  <1> SUFFICES ASSUME GoalInit PROVE GoalInv
    OBVIOUS
  <1>1. NoGoal \in Goals /\ NoRound \in Rows
    BY DEF NoGoal, NoRound, Goals, Phases, Rows
  <1>2. GoalTypeOK
    <2>1. rows \in Seq(Rows)
      BY DEF GoalInit
    <2> QED
      BY <1>1, <2>1 DEF GoalInit, GoalTypeOK
  <1>3. RoundsAreCharged /\ OnlyWithConsent /\ KeptOnDisk
    BY DEF GoalInit, RoundsAreCharged, OnlyWithConsent, KeptOnDisk, NoGoal
  <1>4. Reservation
    BY DEF GoalInit, Reservation
  <1> QED
    BY <1>2, <1>3, <1>4 DEF GoalInv, RoundsAreAllowed

\* The user and the model change the definition.
LEMMA DefinitionKeeps ==
    ASSUME GoalInv,
           \/ \E max \in RoundLimits : Create(max) \/ Edit(max)
           \/ \E phase \in {"paused", "blocked", "complete"} : Settle(phase)
           \/ Resume \/ Clear \/ TogglePlan
           \/ \E phase \in {"active", "blocked", "complete"} : ToolUpdate(phase)
    PROVE  GoalInv'
  <1> USE DEF GoalInv, RoundsAreAllowed
  <1>1. ASSUME NEW max \in RoundLimits, Create(max) PROVE GoalInv'
    <2> DEFINE g == [id |-> goal.id + 1, rev |-> 1, phase |-> "active",
                     max |-> max, rounds |-> 0]
    <2>1. g \in Goals /\ goal \in Goals /\ max \in Nat
      BY GoalAssumption DEF Goals, Phases, GoalTypeOK
    <2>2. \/ goal' = g /\ saved' = g /\ armed' = TRUE
          \/ goal' = goal /\ saved' = saved /\ armed' = FALSE
      BY <1>1, <2>1, SaveGoalOutcome DEF Create
    <2>3. GoalTypeOK'
      <3>1. NoRound \in Rows
        BY DEF NoRound, Rows
      <3>2. rows' \in Seq(Rows) /\ ran' \in Nat
        BY <1>1 DEF Create, GoalTypeOK
      <3> HIDE DEF g
      <3>3. goal' \in Goals /\ saved' \in Goals /\ armed' \in BOOLEAN
        BY <2>1, <2>2 DEF GoalTypeOK
      <3> QED
        BY <1>1, <3>1, <3>2, <3>3 DEF Create, GoalTypeOK
    <2>4. RoundsAreCharged' /\ OnlyWithConsent'
      BY <1>1, <2>1, <2>2
      DEF Create, RoundsAreCharged, OnlyWithConsent, GoalTypeOK, Goals
    <2>5. KeptOnDisk'
      BY <1>1, <2>1, <2>2 DEF Create, KeptOnDisk, GoalTypeOK, Goals
    <2>6. Reservation'
      BY <1>1 DEF Create, Reservation
    <2> QED
      BY <2>3, <2>4, <2>5, <2>6
  <1>2. ASSUME NEW max \in RoundLimits, Edit(max) PROVE GoalInv'
    <2> DEFINE g == [Revised(goal, goal.phase) EXCEPT !.max = max]
    <2>1. /\ g \in Goals /\ g.id = goal.id /\ g.phase = goal.phase
          /\ g.rounds = goal.rounds /\ g.rounds <= g.max
      <3>1. goal \in Goals /\ goal.phase \in Phases /\ max \in Nat
        BY GoalAssumption DEF GoalTypeOK, Goals
      <3>2. Revised(goal, goal.phase) \in Goals
        BY <3>1, RevisedType
      <3>3. g \in Goals
        BY <3>1, <3>2 DEF Goals
      <3>4. Revised(goal, goal.phase).rounds = goal.rounds /\ max >= goal.rounds
        BY <1>2, <3>1, RevisedType DEF Edit
      <3> QED
        BY <3>1, <3>2, <3>3, <3>4, RevisedType DEF Goals
    <2>2. Change(g, armed) /\ armed \in BOOLEAN
      BY <1>2 DEF Edit, GoalTypeOK
    <2>3. /\ \/ goal' = g /\ saved' = g /\ armed' = armed
             \/ goal' = goal /\ saved' = saved /\ armed' = FALSE
          /\ (rows' = rows \/ rows' = <<>>)
      BY <2>1, <2>2, ChangeOutcome
    <2> HIDE DEF g
    <2> QED
      <3>1. /\ step = "none" /\ goal.phase # "none" /\ round' \in Rows
            /\ UNCHANGED <<turn, round, plan, step, consent, ran>>
            /\ consent \in BOOLEAN /\ (armed => consent)
        BY <1>2 DEF Edit, Free, GoalTypeOK, OnlyWithConsent
      <3>2. armed' \in BOOLEAN /\ (armed' => consent')
        <4>1. CASE armed' = armed
          BY <2>2, <3>1, <4>1, Zenon
        <4>2. CASE armed' = FALSE
          BY <4>2
        <4> QED
          BY <2>3, <4>1, <4>2
      <3> QED
        BY <2>1, <2>3, <3>1, <3>2, RecordChanges
  <1>3. ASSUME NEW phase \in {"paused", "blocked", "complete"}, Settle(phase)
        PROVE  GoalInv'
    <2> DEFINE g == Revised(goal, phase)
    <2>1. goal \in Goals /\ phase \in Phases /\ goal.phase # "none"
      BY <1>3 DEF Settle, GoalTypeOK, Phases
    <2>2. /\ g \in Goals /\ g.id = goal.id /\ g.phase # "none"
          /\ g.rounds = goal.rounds /\ g.rounds <= g.max
      BY <2>1, RevisedType DEF RoundsAreCharged
    <2>3. /\ \/ goal' = g /\ saved' = g /\ armed' = FALSE
             \/ goal' = goal /\ saved' = saved /\ armed' = FALSE
          /\ (rows' = rows \/ rows' = <<>>)
      BY <1>3, <2>2, ChangeOutcome DEF Settle
    <2> HIDE DEF g
    <2> QED
      BY <1>3, <2>1, <2>2, <2>3, RecordChanges DEF Settle, Free, GoalTypeOK
  <1>4. ASSUME Resume PROVE GoalInv'
    <2> DEFINE g == IF goal.phase = "active" THEN goal ELSE Revised(goal, "active")
    <2>1. goal \in Goals /\ "active" \in Phases /\ goal.phase # "none"
      BY <1>4 DEF Resume, GoalTypeOK, Phases
    <2>2. /\ g \in Goals /\ g.id = goal.id /\ g.phase # "none"
          /\ g.rounds = goal.rounds /\ g.rounds <= g.max
      BY <2>1, RevisedType DEF RoundsAreCharged
    <2>3. \/ goal' = g /\ saved' = g /\ armed' = TRUE
          \/ goal' = goal /\ saved' = saved /\ armed' = FALSE
      BY <1>4, <2>2, SaveGoalOutcome DEF Resume
    <2> HIDE DEF g
    <2> QED
      BY <1>4, <2>1, <2>2, <2>3, RecordChanges DEF Resume, Free, GoalTypeOK
  <1>5. ASSUME Clear PROVE GoalInv'
    <2>1. \/ /\ goal' = [NoGoal EXCEPT !.id = goal.id] /\ saved' = goal'
             /\ rows' = <<>>
          \/ goal' = goal /\ saved' = saved /\ (rows' = rows \/ rows' = <<>>)
      BY <1>5 DEF Clear
    <2>2. /\ armed' = FALSE /\ consent' = FALSE /\ round' \in {round, NoRound}
          /\ UNCHANGED <<turn, plan, step, ran>> /\ step = "none"
      BY <1>5 DEF Clear
    <2>3. GoalTypeOK'
      <3>1. NoRound \in Rows /\ [NoGoal EXCEPT !.id = goal.id] \in Goals
        BY DEF NoRound, NoGoal, Rows, Goals, Phases, GoalTypeOK
      <3>2. rows' \in Seq(Rows)
        BY <2>1, NoRows, Zenon DEF GoalInv, RoundsAreAllowed, GoalTypeOK
      <3> QED
        BY <2>1, <2>2, <3>1, <3>2 DEF GoalTypeOK
    <2>4. RoundsAreCharged' /\ OnlyWithConsent'
      BY <2>1, <2>2 DEF RoundsAreCharged, OnlyWithConsent, NoGoal
    <2>5. KeptOnDisk'
      BY <2>1, <2>2 DEF KeptOnDisk, NoGoal
    <2>6. Reservation'
      BY <2>1, <2>2 DEF Reservation
    <2> QED
      BY <2>3, <2>4, <2>5, <2>6
  <1>6. ASSUME TogglePlan PROVE GoalInv'
    BY <1>6 DEF TogglePlan, GoalTypeOK, RoundsAreCharged, OnlyWithConsent,
                KeptOnDisk, Reservation
  <1>7. ASSUME NEW phase \in {"active", "blocked", "complete"}, ToolUpdate(phase)
        PROVE  GoalInv'
    <2> DEFINE g == Revised(goal, phase)
    <2>1. goal \in Goals /\ phase \in Phases /\ goal.phase # "none"
      BY <1>7 DEF ToolUpdate, GoalTypeOK, Phases
    <2>2. /\ g \in Goals /\ g.id = goal.id /\ g.phase # "none"
          /\ g.rounds = goal.rounds /\ g.rounds <= g.max
      BY <2>1, RevisedType DEF RoundsAreCharged
    <2>3. (armed /\ phase = "active") \in BOOLEAN
      BY DEF GoalTypeOK
    <2>4. \/ goal' = g /\ saved' = g /\ armed' = (armed /\ phase = "active")
          \/ goal' = goal /\ saved' = saved /\ armed' = FALSE
      BY <1>7, <2>2, <2>3, SaveGoalOutcome DEF ToolUpdate
    <2>5. round' \in Rows
      BY <1>7, <2>2, <2>4 DEF ToolUpdate, GoalTypeOK, Goals, Rows
    <2> HIDE DEF g
    <2> QED
      BY <1>7, <2>1, <2>2, <2>3, <2>4, <2>5, RecordChanges
      DEF ToolUpdate, Free, GoalTypeOK, OnlyWithConsent
  <1> QED
    BY <1>1, <1>2, <1>3, <1>4, <1>5, <1>6, <1>7

\* The REPL reserves a round, queues it and starts it, or takes it back.
LEMMA RoundsKeep ==
    ASSUME GoalInv,
           DispatchQueued \/ Charge \/ Enqueue \/ Start \/ TakeBack \/ UserTurn
    PROVE  GoalInv'
  <1>0. /\ GoalTypeOK /\ RoundsAreCharged /\ OnlyWithConsent
        /\ KeptOnDisk /\ Reservation
    BY DEF GoalInv, RoundsAreAllowed
  <1> SUFFICES GoalTypeOK' /\ RoundsAreCharged' /\ OnlyWithConsent'
               /\ KeptOnDisk' /\ Reservation'
    BY DEF GoalInv, RoundsAreAllowed
  <1>1. CASE DispatchQueued
    <2>1. /\ rows' = <<>> /\ step = "none" /\ goal.phase = "active" /\ armed
          /\ UNCHANGED <<goal, armed, saved, plan, step, consent>>
      BY <1>1 DEF DispatchQueued, MayDispatch
    <2>2. CASE UNCHANGED <<turn, round, ran>>
      BY <1>0, <2>1, <2>2, NoRows
      DEF GoalTypeOK, RoundsAreCharged, OnlyWithConsent, KeptOnDisk, Reservation
    <2>3. CASE \E i \in DOMAIN rows : Matches(rows[i]) /\ StartRound(rows[i])
      <3>1. PICK i \in DOMAIN rows : Matches(rows[i]) /\ StartRound(rows[i])
        BY <2>3
      <3>2. rows[i] \in Rows
        BY <1>0 DEF GoalTypeOK
      <3>3. ran + 1 <= goal.rounds
        <4>1. rows[i].id = goal.id /\ rows[i].n = goal.rounds
          BY <3>1 DEF Matches
        <4>2. ran < rows[i].n
          BY <1>0, <4>1 DEF Reservation
        <4> QED
          BY <1>0, <4>1, <4>2 DEF GoalTypeOK, Goals
      <3>4. GoalTypeOK'
        BY <1>0, <2>1, <3>1, <3>2, NoRows DEF GoalTypeOK, StartRound
      <3>5. saved.phase # "none" => ran + 1 <= saved.rounds
        BY <1>0, <2>1, <3>3 DEF KeptOnDisk, GoalTypeOK, Goals
      <3>6. RoundsAreCharged' /\ OnlyWithConsent'
        BY <1>0, <2>1, <3>1, <3>3, <3>5
        DEF RoundsAreCharged, OnlyWithConsent, StartRound
      <3>7. KeptOnDisk'
        BY <1>0, <2>1, <3>1 DEF KeptOnDisk, StartRound
      <3>8. Reservation'
        BY <2>1 DEF Reservation
      <3> QED
        BY <3>4, <3>6, <3>7, <3>8
    <2> QED
      BY <1>1, <2>2, <2>3 DEF DispatchQueued
  <1>2. CASE Charge
    <2> DEFINE g == [goal EXCEPT !.rounds = @ + 1]
    <2>1. /\ goal \in Goals /\ saved \in Goals /\ g \in Goals /\ g.id = goal.id
          /\ g.rev = goal.rev /\ g.phase = goal.phase /\ g.max = goal.max
          /\ g.rounds = goal.rounds + 1
      BY <1>0 DEF GoalTypeOK, Goals
    <2>2. /\ goal' = g /\ (saved' = g \/ saved' = saved)
          /\ step' = (IF saved' = goal' THEN "charged" ELSE "failed")
          /\ goal.phase = "active" /\ ~plan /\ turn = "none" /\ step = "none"
          /\ rows = <<>> /\ goal.rounds < goal.max
          /\ UNCHANGED <<armed, rows, turn, round, plan, consent, ran>>
      BY <1>2 DEF Charge, MayDispatch
    <2> HIDE DEF g
    <2>3. GoalTypeOK'
      BY <1>0, <2>1, <2>2 DEF GoalTypeOK
    <2>4. RoundsAreCharged' /\ OnlyWithConsent'
      BY <1>0, <2>1, <2>2 DEF RoundsAreCharged, OnlyWithConsent, GoalTypeOK, Goals
    <2>5. KeptOnDisk'
      BY <1>0, <2>1, <2>2 DEF KeptOnDisk, Goals
    <2>6. Reservation'
      BY <1>0, <2>1, <2>2 DEF Reservation, RoundsAreCharged, GoalTypeOK, Goals
    <2> QED
      BY <2>3, <2>4, <2>5, <2>6
  <1>3. CASE Enqueue
    <2>1. /\ RowOf(goal) \in Rows /\ goal.phase = "active" /\ ran < goal.rounds
          /\ rows = <<>> /\ saved = goal /\ step = "charged"
          /\ UNCHANGED <<goal, armed, saved, turn, round, plan, consent, ran>>
      BY <1>0, <1>3 DEF Enqueue, Reservation, RowOf, Rows, GoalTypeOK, Goals
    <2>2. CASE rows' = Append(rows, RowOf(goal)) /\ step' = "queued"
      <3>1. rows' = <<RowOf(goal)>> /\ rows' \in Seq(Rows)
        BY <2>1, <2>2
      <3>2. GoalTypeOK'
        BY <1>0, <2>1, <2>2, <3>1 DEF GoalTypeOK
      <3>3. RoundsAreCharged' /\ OnlyWithConsent' /\ KeptOnDisk'
        BY <1>0, <2>1, <2>2 DEF RoundsAreCharged, OnlyWithConsent, KeptOnDisk
      <3>4. \A i \in DOMAIN rows' : rows'[i].n = goal.rounds
        BY <3>1 DEF RowOf
      <3>5. Reservation'
        BY <1>0, <2>1, <2>2, <3>1, <3>4 DEF Reservation
      <3> QED
        BY <3>2, <3>3, <3>5
    <2>3. CASE step' = "failed" /\ UNCHANGED rows
      <3>1. GoalTypeOK'
        BY <1>0, <2>1, <2>3 DEF GoalTypeOK
      <3>2. RoundsAreCharged' /\ OnlyWithConsent' /\ KeptOnDisk'
        BY <1>0, <2>1, <2>3
        DEF RoundsAreCharged, OnlyWithConsent, KeptOnDisk, GoalTypeOK, Goals
      <3>3. Reservation'
        BY <1>0, <2>1, <2>3 DEF Reservation
      <3> QED
        BY <3>1, <3>2, <3>3
    <2> QED
      BY <1>3, <2>2, <2>3 DEF Enqueue, RowOf
  <1>4. CASE Start
    <2>1. /\ rows = <<RowOf(goal)>> /\ Head(rows) = RowOf(goal)
          /\ RowOf(goal) \in Rows /\ goal.phase = "active" /\ ran < goal.rounds
          /\ saved = goal /\ step = "queued"
          /\ UNCHANGED <<goal, armed, saved, plan, consent>>
      BY <1>0, <1>4 DEF Start, Reservation, RowOf, Rows, GoalTypeOK, Goals
    <2>2. CASE StartRound(Head(rows)) /\ rows' = <<>> /\ step' = "none"
      <3>1. GoalTypeOK'
        BY <1>0, <2>1, <2>2, NoRows DEF GoalTypeOK, StartRound
      <3>2. RoundsAreCharged' /\ OnlyWithConsent' /\ KeptOnDisk'
        BY <1>0, <2>1, <2>2
        DEF RoundsAreCharged, OnlyWithConsent, KeptOnDisk, StartRound, GoalTypeOK, Goals
      <3>3. Reservation'
        BY <2>2 DEF Reservation
      <3> QED
        BY <3>1, <3>2, <3>3
    <2>3. CASE step' = "failed" /\ UNCHANGED <<rows, turn, round, ran>>
      <3>1. GoalTypeOK'
        BY <1>0, <2>1, <2>3 DEF GoalTypeOK
      <3>2. RoundsAreCharged' /\ OnlyWithConsent' /\ KeptOnDisk'
        BY <1>0, <2>1, <2>3
        DEF RoundsAreCharged, OnlyWithConsent, KeptOnDisk, GoalTypeOK, Goals
      <3>3. Reservation'
        BY <1>0, <2>1, <2>3 DEF Reservation
      <3> QED
        BY <3>1, <3>2, <3>3
    <2> QED
      BY <1>4, <2>2, <2>3 DEF Start
  <1>5. CASE TakeBack
    <2> DEFINE g == [goal EXCEPT !.rounds = @ - 1]
    <2>1. /\ goal \in Goals /\ saved \in Goals /\ g \in Goals /\ g.id = goal.id
          /\ g.rev = goal.rev /\ g.phase = goal.phase /\ g.max = goal.max
          /\ g.rounds = goal.rounds - 1
      BY <1>0, SMTT(30) DEF GoalTypeOK, Goals
    <2>2. /\ goal' = g /\ (saved' = g \/ saved' = saved) /\ armed' = FALSE
          /\ goal.phase = "active" /\ turn = "none" /\ ran < goal.rounds
          /\ step = "failed" /\ step' = "none"
          /\ UNCHANGED <<rows, turn, round, plan, consent, ran>>
      BY <1>0, <1>5 DEF TakeBack, Reservation
    <2> HIDE DEF g
    <2>3. GoalTypeOK'
      BY <1>0, <2>1, <2>2 DEF GoalTypeOK
    <2>4. RoundsAreCharged' /\ OnlyWithConsent'
      BY <1>0, <2>1, <2>2 DEF RoundsAreCharged, OnlyWithConsent, GoalTypeOK, Goals
    <2>5. KeptOnDisk'
      BY <1>0, <2>1, <2>2 DEF KeptOnDisk, RoundsAreCharged, Goals
    <2>6. Reservation'
      BY <1>0, <2>1, <2>2 DEF Reservation
    <2> QED
      BY <2>3, <2>4, <2>5, <2>6
  <1>6. CASE UserTurn
    BY <1>0, <1>6 DEF UserTurn, GoalTypeOK, RoundsAreCharged, OnlyWithConsent,
                      KeptOnDisk, Reservation
  <1> QED
    BY <1>1, <1>2, <1>3, <1>4, <1>5, <1>6

\* The limit is reached, a turn is over, the session is loaded again.
LEMMA EndsKeep ==
    ASSUME GoalInv, Exhausted \/ (\E ok \in BOOLEAN : TurnOver(ok)) \/ Reload
    PROVE  GoalInv'
  <1>0. /\ GoalTypeOK /\ RoundsAreCharged /\ OnlyWithConsent
        /\ KeptOnDisk /\ Reservation
    BY DEF GoalInv, RoundsAreAllowed
  <1>1. /\ goal \in Goals /\ saved \in Goals /\ NoRound \in Rows
        /\ "blocked" \in Phases /\ "active" \in Phases
    BY <1>0 DEF GoalTypeOK, NoRound, Rows, Phases
  <1>2. CASE Exhausted
    <2> DEFINE g == Revised(goal, "blocked")
    <2>1. /\ g \in Goals /\ g.id = goal.id /\ g.phase # "none"
          /\ g.rounds = goal.rounds /\ g.rounds <= g.max
          /\ step = "none" /\ goal.phase # "none" /\ consent' = FALSE
          /\ UNCHANGED <<turn, round, plan, step, ran>> /\ Change(g, FALSE)
      BY <1>0, <1>1, <1>2, RevisedType
      DEF Exhausted, MayDispatch, RoundsAreCharged
    <2> HIDE DEF g
    <2> QED
      BY <1>0, <2>1, ChangeOutcome, RecordChanges DEF GoalTypeOK
  <1>3. ASSUME NEW ok \in BOOLEAN, TurnOver(ok) PROVE GoalInv'
    <2>1. /\ step = "none" /\ turn' = "none" /\ round' = NoRound
          /\ UNCHANGED <<plan, step, ran>>
      BY <1>3 DEF TurnOver
    <2>2. CASE /\ goal.phase = "active" /\ armed' = FALSE
               /\ goal' = Revised(goal, "active")
               /\ (saved' = goal' \/ saved' = saved) /\ UNCHANGED <<rows, consent>>
      <3> DEFINE g == Revised(goal, "active")
      <3>1. /\ g \in Goals /\ g.id = goal.id /\ g.phase = "active"
            /\ g.rounds = goal.rounds /\ g.max = goal.max
        BY <1>1, RevisedType
      <3> HIDE DEF g
      <3>2. goal' = g /\ (saved' = g \/ saved' = saved)
        BY <2>2 DEF g
      <3>3. GoalTypeOK'
        BY <1>0, <1>1, <2>1, <2>2, <3>1, <3>2 DEF GoalTypeOK
      <3>4. RoundsAreCharged' /\ OnlyWithConsent'
        BY <1>0, <2>1, <2>2, <3>1, <3>2
        DEF RoundsAreCharged, OnlyWithConsent, KeptOnDisk
      <3>5. KeptOnDisk'
        BY <1>0, <1>1, <2>1, <2>2, <3>1, <3>2 DEF KeptOnDisk, RoundsAreCharged, Goals
      <3>6. Reservation'
        BY <1>0, <2>1, <2>2, <3>1, <3>2 DEF Reservation
      <3> QED
        BY <3>3, <3>4, <3>5, <3>6 DEF GoalInv, RoundsAreAllowed
    <2>3. CASE goal.phase = "active" /\ Change(Revised(goal, "blocked"), FALSE)
               /\ consent' = FALSE
      <3> DEFINE g == Revised(goal, "blocked")
      <3>1. /\ g \in Goals /\ g.id = goal.id /\ g.phase = "blocked"
            /\ g.rounds = goal.rounds /\ g.max = goal.max
        BY <1>1, RevisedType
      <3>2. Change(g, FALSE)
        BY <2>3
      <3> HIDE DEF g
      <3>3. /\ (goal' = g /\ saved' = g) \/ (goal' = goal /\ saved' = saved)
            /\ armed' = FALSE /\ (rows' = rows \/ rows' = <<>>)
        BY <3>1, <3>2, ChangeOutcome
      <3>4. GoalTypeOK'
        <4>1. rows' \in Seq(Rows)
          BY <1>0, <3>3, NoRows, Zenon DEF GoalTypeOK
        <4> QED
          BY <1>0, <1>1, <2>1, <2>3, <3>1, <3>3, <4>1 DEF GoalTypeOK
      <3>5. RoundsAreCharged' /\ OnlyWithConsent'
        BY <1>0, <2>1, <2>3, <3>1, <3>3 DEF RoundsAreCharged, OnlyWithConsent
      <3>6. KeptOnDisk'
        BY <1>0, <1>1, <2>1, <2>3, <3>1, <3>3 DEF KeptOnDisk, RoundsAreCharged, Goals
      <3>7. Reservation'
        <4>1. goal'.id = goal.id
          BY <3>1, <3>3
        <4> QED
          BY <1>0, <2>1, <3>3, <4>1 DEF Reservation
      <3> QED
        BY <3>4, <3>5, <3>6, <3>7 DEF GoalInv, RoundsAreAllowed
    <2>4. CASE (saved' = goal \/ saved' = saved)
               /\ UNCHANGED <<goal, armed, rows, consent>>
      <3>1. GoalTypeOK'
        BY <1>0, <1>1, <2>1, <2>4 DEF GoalTypeOK
      <3>2. RoundsAreCharged' /\ OnlyWithConsent'
        BY <1>0, <2>1, <2>4 DEF RoundsAreCharged, OnlyWithConsent, KeptOnDisk
      <3>3. KeptOnDisk'
        BY <1>0, <1>1, <2>1, <2>4 DEF KeptOnDisk, RoundsAreCharged, Goals
      <3>4. Reservation'
        BY <1>0, <2>1, <2>4 DEF Reservation
      <3> QED
        BY <3>1, <3>2, <3>3, <3>4 DEF GoalInv, RoundsAreAllowed
    <2> QED
      BY <1>3, <2>2, <2>3, <2>4 DEF TurnOver
  <1>4. CASE Reload
    <2>1. /\ goal' = saved /\ saved' = saved /\ armed' = FALSE /\ turn' = "none"
          /\ round' = NoRound /\ step' = "none" /\ plan' \in BOOLEAN
          /\ consent' = FALSE /\ ran' = ran /\ rows' = rows
      BY <1>0, <1>4 DEF Reload, KeptOnDisk, GoalTypeOK
    <2>2. GoalTypeOK'
      BY <1>0, <1>1, <2>1 DEF GoalTypeOK
    <2>3. RoundsAreCharged' /\ OnlyWithConsent'
      BY <1>0, <2>1 DEF RoundsAreCharged, OnlyWithConsent, KeptOnDisk
    <2>4. KeptOnDisk'
      BY <1>0, <1>1, <2>1 DEF KeptOnDisk, Goals
    <2>5. Reservation'
      BY <1>0, <2>1 DEF Reservation, KeptOnDisk
    <2> QED
      BY <2>2, <2>3, <2>4, <2>5 DEF GoalInv, RoundsAreAllowed
  <1> QED
    BY <1>2, <1>3, <1>4

LEMMA GoalInvIsInductive == GoalInv /\ [GoalNext]_goalVars => GoalInv'
  <1> SUFFICES ASSUME GoalInv, [GoalNext]_goalVars PROVE GoalInv'
    OBVIOUS
  <1>1. CASE UNCHANGED goalVars
    BY <1>1 DEF goalVars, GoalInv, RoundsAreAllowed, GoalTypeOK, RoundsAreCharged,
                OnlyWithConsent, KeptOnDisk, Reservation
  <1>2. CASE GoalNext
    BY <1>2, DefinitionKeeps, RoundsKeep, EndsKeep DEF GoalNext
  <1> QED
    BY <1>1, <1>2

-----------------------------------------------------------------------------
\* The rounds that start by themselves (dispatch_goal_ready) stay within the
\* limit and the consent of the user, whichever save fails and whenever the
\* process dies.
THEOREM RoundsStayAllowed == GoalSpec => []RoundsAreAllowed
  <1>1. GoalInv => RoundsAreAllowed
    BY DEF GoalInv
  <1> QED
    BY <1>1, InitGoalInv, GoalInvIsInductive, PTL DEF GoalSpec

\* A round is started for the definition that holds, and the outcome of a round
\* of an older one changes nothing (goal_turn_finished).
THEOREM RoundsAreOfTheirDefinition == GoalSpec => RoundIsCurrent
  <1>1. ASSUME GoalInv, GoalNext PROVE StartsCurrent /\ OldRoundIsHarmless
    <2>0. KeptOnDisk /\ Reservation /\ OnlyWithConsent /\ GoalTypeOK
      BY <1>1 DEF GoalInv, RoundsAreAllowed
    <2>1. ASSUME turn' = "goal", turn = "none"
          PROVE  /\ round'.id = goal'.id /\ round'.rev = goal'.rev
                 /\ round'.n = goal'.rounds /\ goal'.phase = "active" /\ ~plan
      <3>1. CASE DispatchQueued
        <4>1. PICK i \in DOMAIN rows : Matches(rows[i]) /\ StartRound(rows[i])
          BY <2>1, <3>1 DEF DispatchQueued
        <4> QED
          BY <3>1, <4>1 DEF DispatchQueued, MayDispatch, Matches, StartRound
      <3>2. CASE Start
        <4>1. Head(rows) = RowOf(goal) /\ goal.phase = "active" /\ ~plan
          BY <2>0, <3>2 DEF Start, Reservation
        <4> QED
          BY <2>1, <3>2, <4>1 DEF Start, StartRound, RowOf
      <3>3. DispatchQueued \/ Start
        BY <1>1, <2>1
        DEF GoalNext, Create, Edit, Settle, Resume, Clear, TogglePlan, ToolUpdate,
            Exhausted, Charge, Enqueue, TakeBack, UserTurn, TurnOver, Reload
      <3> QED
        BY <3>1, <3>2, <3>3
    <2>2. ASSUME turn = "goal", turn' = "none", goal.phase = "active",
                 consent' = consent, round.id # goal.id \/ round.rev # goal.rev
          PROVE  goal'.rev = goal.rev /\ armed' = armed
      <3>1. ASSUME NEW ok \in BOOLEAN, TurnOver(ok) PROVE UNCHANGED <<goal, armed>>
        BY <2>2, <3>1 DEF TurnOver, OutcomeCounts
      <3>2. CASE Reload
        <4>1. saved.rev = goal.rev
          BY <2>0, <2>2 DEF KeptOnDisk
        <4>2. ~armed
          BY <2>0, <2>2, <3>2 DEF Reload, OnlyWithConsent
        <4>3. armed \in BOOLEAN /\ armed' = FALSE /\ goal' = saved
          BY <2>0, <3>2 DEF GoalTypeOK, Reload
        <4>4. armed' = armed
          BY <4>2, <4>3
        <4> QED
          BY <4>1, <4>3, <4>4
      <3>3. Reload \/ \E ok \in BOOLEAN : TurnOver(ok)
        BY <1>1, <2>0, <2>2
        DEF GoalNext, Create, Edit, Settle, Resume, Clear, TogglePlan, ToolUpdate,
            Exhausted, Charge, Enqueue, TakeBack, UserTurn, DispatchQueued, Start,
            StartRound, Reservation
      <3> QED
        BY <3>1, <3>2, <3>3
    <2> QED
      BY <2>1, <2>2 DEF StartsCurrent, OldRoundIsHarmless
  <1>2. GoalInv /\ [GoalNext]_goalVars
          => [StartsCurrent /\ OldRoundIsHarmless]_goalVars
    BY <1>1
  <1> QED
    BY <1>2, InitGoalInv, GoalInvIsInductive, PTL DEF GoalSpec, RoundIsCurrent
==============================================================================
