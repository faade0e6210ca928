---------------------------- MODULE ToolPermission ----------------------------
(***************************************************************************)
(* Who allows a tool call to run.  core/tools.py prepares a call once, with *)
(* the arguments the hooks left; zylab.py (permission_decision) decides     *)
(* over the prepared call: settings, the confirmation of a risk, the mode,  *)
(* /auto, the session's grants, a question.  A Bash call may need a second  *)
(* given, for the host's network or for running outside the sandbox.      *)
(*                                                                          *)
(* Grants belong to a session and are written into its record; settings are *)
(* one file of all terminals below one file of the project.  `given',      *)
(* `warned' and `trusted' are history: what the user has granted to each    *)
(* session and not withdrawn, what was withdrawn with the warning that the  *)
(* record could not be written, and the sessions in which calls may leave   *)
(* the sandbox.                                                             *)
(*                                                                          *)
(* Left out: the analysis that finds a risk in a command (`risky'), which   *)
(* boundary the host offers (`boundary'), previews, and the provider's      *)
(* transport check, which can only refuse.                                  *)
(***************************************************************************)
EXTENDS Naturals, FiniteSets

CONSTANTS
    Chats,      \* the sessions of this user
    Tools,      \* the kinds of calls the model makes
    MaxEdits    \* how often settings are edited

ASSUME PermissionAssumption ==
    /\ Tools \subseteq {"read", "edit", "bash", "memory", "global"}
    /\ Chats # {}
    /\ MaxEdits \in Nat

VARIABLES
    settings,   \* [user, project]: permissions on disk
    cfg,        \* the permissions this process loaded last
    auto,       \* /auto or --yolo
    accept,     \* accept_edits
    planMode,   \* plan_mode
    readOnly,   \* the running turn was started in plan mode
    chat,       \* the current session
    always,     \* its grants in memory
    records,    \* session_grants in every session's record
    unsandboxed,\* _unsandboxed_session_approved
    trusted,    \* history: sessions for which the user said so
    tty,        \* is there somebody to ask?
    request,    \* the call being decided or run
    given,      \* history: grants given to a session and not withdrawn
    warned,     \* history: withdrawn, but said to be still in the record
    edits       \* bound

modeVars == <<auto, accept, planMode>>
grantVars == <<chat, always, records, unsandboxed, trusted, given, warned>>
settingVars == <<settings, cfg, edits>>
permissionVars ==
    <<settingVars, modeVars, grantVars, readOnly, tty, request>>

Values == {"allow", "ask", "deny"}
Severity == [v \in Values |-> CASE v = "allow" -> 0 [] v = "ask" -> 1 [] OTHER -> 2]
Strictest(v, w) == IF Severity[v] >= Severity[w] THEN v ELSE w

\* _merge: the project's file may tighten the user's, never relax it.
Effective(s) == [t \in Tools |-> Strictest(s.user[t], s.project[t])]

\* A memory_write to the global scope also obeys memory_write's permission.
Permission(t) ==
    IF t = "global" /\ "memory" \in Tools
    THEN Strictest(cfg["global"], cfg["memory"])
    ELSE cfg[t]

\* What SandboxPolicy.decide says of a Bash call on this host: inside the
\* sandbox, outside by configuration, or outside if the user agrees.  (In
\* strict mode a call without sandbox is refused while it is prepared.)
Boxes == {"sandboxed", "disabled", "ask"}

NoRequest == [stage |-> "none"]

\* The calls that can be proposed.
Prepared ==
    {[stage |-> "prepared", tool |-> t, risky |-> r, network |-> n,
      boundary |-> b, asked |-> {}] :
        t \in Tools, r \in BOOLEAN, n \in BOOLEAN, b \in Boxes}

WellFormed(q) ==
    /\ q.risky => q.tool \in {"edit", "bash"}
    /\ q.tool # "bash" => ~q.network /\ q.boundary = "disabled"

\* Risks that no setting, mode or grant can wave through.
Hard(q) == q.risky \/ q.tool = "global"

\* permission_decision's silent branches, in their order.
AllowedSilently(t) ==
    \/ Permission(t) = "allow"
    \/ accept /\ ~planMode /\ t = "edit"
    \/ auto
    \/ t \in always

NeedsNetwork(q) ==
    /\ q.tool = "bash" /\ q.network /\ q.boundary = "sandboxed"
    /\ "network" \notin q.asked
NeedsUnsandboxed(q) ==
    /\ q.tool = "bash" /\ q.boundary = "ask"
    /\ q.asked \cap {"unsandboxed", "standing"} = {}

At(stage) == request.stage = stage
Agreed(question) ==
    request' = [request EXCEPT !.stage = "permitted", !.asked = @ \cup {question}]

-----------------------------------------------------------------------------
(* One call *)

\* tools.prepare: PreToolUse ran once, the arguments are frozen.  In a turn
\* started in plan mode only the tools that read are on offer; tools that
\* are SAFE need no permission.
Prepare(q) ==
    /\ At("none")
    /\ WellFormed(q)
    /\ readOnly => q.tool = "read"
    /\ request' = IF q.tool = "read" THEN [q EXCEPT !.stage = "permitted"] ELSE q
    /\ UNCHANGED <<settingVars, modeVars, grantVars, readOnly, tty>>

\* A hook, a setting, the user, or nobody there to ask.
Refuse ==
    /\ request.stage \in {"prepared", "permitted"}
    /\ request' = NoRequest
    /\ UNCHANGED <<settingVars, modeVars, grantVars, readOnly, tty>>

\* _authorize_memory_risk, _authorize_workspace_risk: once, for this call.
ConfirmRisk ==
    /\ At("prepared") /\ Permission(request.tool) # "deny"
    /\ Hard(request) /\ tty
    /\ Agreed("risk")
    /\ UNCHANGED <<settingVars, modeVars, grantVars, readOnly, tty>>

PermitSilently ==
    /\ At("prepared") /\ Permission(request.tool) # "deny"
    /\ ~Hard(request) /\ AllowedSilently(request.tool)
    /\ request' = [request EXCEPT !.stage = "permitted"]
    /\ UNCHANGED <<settingVars, modeVars, grantVars, readOnly, tty>>

MayAskUser ==
    /\ At("prepared") /\ Permission(request.tool) # "deny"
    /\ ~Hard(request) /\ ~AllowedSilently(request.tool) /\ tty

AllowOnce ==
    /\ MayAskUser
    /\ Agreed("once")
    /\ UNCHANGED <<settingVars, modeVars, grantVars, readOnly, tty>>

\* Session.save: the record gets what is in memory.
Saved(grants) ==
    /\ records' = [records EXCEPT ![chat] = grants]
    /\ warned' = [warned EXCEPT ![chat] = @ \cap grants]

Granted == given' = [given EXCEPT ![chat] = @ \cup {request.tool}]

\* Faulty variant: the grant stays in memory although it was not saved.
AllowAlwaysFaulty ==
    /\ MayAskUser
    /\ always' = always \cup {request.tool}
    /\ \/ Saved(always') /\ Granted /\ Agreed("once")
       \/ request' = NoRequest /\ UNCHANGED <<records, given, warned>>
    /\ UNCHANGED <<settingVars, modeVars, chat, unsandboxed, trusted, readOnly, tty>>

\* _remember_session_grant: durable before it is relied on, or not at all.
AllowAlways ==
    /\ MayAskUser
    /\ \/ /\ always' = always \cup {request.tool}
          /\ Saved(always') /\ Granted /\ Agreed("once")
       \/ request' = NoRequest /\ UNCHANGED <<always, records, given, warned>>
    /\ UNCHANGED <<settingVars, modeVars, chat, unsandboxed, trusted, readOnly, tty>>

\* _authorize_network: asked for every call.
AllowNetwork ==
    /\ At("permitted") /\ NeedsNetwork(request) /\ tty
    /\ Agreed("network")
    /\ UNCHANGED <<settingVars, modeVars, grantVars, readOnly, tty>>

\* _authorize_unsandboxed: once, or for the rest of this session.
AllowUnsandboxed ==
    /\ At("permitted") /\ NeedsUnsandboxed(request) /\ tty
    /\ ~unsandboxed
    /\ Agreed("unsandboxed")
    /\ \/ unsandboxed' = TRUE /\ trusted' = trusted \cup {chat}
       \/ UNCHANGED <<unsandboxed, trusted>>
    /\ UNCHANGED <<settingVars, modeVars, chat, always, records, given,
                   warned, readOnly, tty>>

\* ... and not asked again: the flag is this process's, whatever its session.
UseApproval ==
    /\ At("permitted") /\ NeedsUnsandboxed(request) /\ tty
    /\ unsandboxed
    /\ Agreed("standing")
    /\ UNCHANGED <<settingVars, modeVars, grantVars, readOnly, tty>>

\* tools.run and t_bash look at the consents of the frozen call once more.
Execute ==
    /\ At("permitted")
    /\ Hard(request) => "risk" \in request.asked
    /\ ~NeedsNetwork(request) /\ ~NeedsUnsandboxed(request)
    /\ request' = [request EXCEPT !.stage = "running"]
    /\ UNCHANGED <<settingVars, modeVars, grantVars, readOnly, tty>>

CallEnds ==
    /\ At("running")
    /\ request' = NoRequest
    /\ UNCHANGED <<settingVars, modeVars, grantVars, readOnly, tty>>

-----------------------------------------------------------------------------
(* Modes: a key while idle or at a yield point of a running call *)

BeginTurn ==
    /\ At("none")
    /\ readOnly' = planMode
    /\ UNCHANGED <<settingVars, modeVars, grantVars, tty, request>>

\* Shift+Tab: default, accept edits, plan, default.
CycleMode ==
    /\ request.stage \in {"none", "running"}
    /\ accept' = (~planMode /\ ~accept)
    /\ planMode' = (~planMode /\ accept)
    /\ UNCHANGED <<settingVars, grantVars, auto, readOnly, tty, request>>

TogglePlanMode ==
    /\ At("none")
    /\ planMode' = ~planMode
    /\ UNCHANGED <<settingVars, grantVars, auto, accept, readOnly, tty, request>>

ToggleAuto ==
    /\ At("none")
    /\ auto' = ~auto
    /\ UNCHANGED <<settingVars, grantVars, accept, planMode, readOnly, tty, request>>

-----------------------------------------------------------------------------
(* Settings and grants *)

\* A save of the session, at the end of a turn or by a command.
SaveSession ==
    /\ At("none")
    /\ Saved(always)
    /\ UNCHANGED <<settingVars, modeVars, chat, always, unsandboxed, trusted, given,
                   readOnly, tty, request>>

\* The session's grant goes first, durably, before the settings change.
Withdraw(t) ==
    IF t \in always
    THEN /\ always' = always \ {t}
         /\ Saved(always')
         /\ given' = [given EXCEPT ![chat] = @ \ {t}]
    ELSE UNCHANGED <<always, records, given, warned>>

\* _set_permission: a hard policy can only be denied or reset; a save that fails changes
\* nothing (a stutter); the user's file may fail after the grant is gone.
SetPermission(t, v) ==
    /\ At("none")
    /\ edits < MaxEdits /\ edits' = edits + 1
    /\ t = "global" => v # "allow"
    /\ Withdraw(t)
    /\ \/ /\ settings' = [settings EXCEPT !.user[t] = v]
          /\ cfg' = Effective(settings')
       \/ UNCHANGED <<settings, cfg>>
    /\ UNCHANGED <<modeVars, chat, unsandboxed, trusted, readOnly, tty, request>>

\* /permissions revoke: gone in memory even if the record cannot be written.
RevokeAll ==
    /\ At("none")
    /\ always' = {}
    /\ given' = [given EXCEPT ![chat] = {}]
    /\ \/ Saved({})
       \/ warned' = [warned EXCEPT ![chat] = @ \cup records[chat]]
          /\ UNCHANGED records
    /\ UNCHANGED <<settingVars, modeVars, chat, unsandboxed, trusted, readOnly,
                   tty, request>>

\* Another terminal or an editor; this process keeps what it loaded ...
EditElsewhere(t, v) ==
    /\ edits < MaxEdits /\ edits' = edits + 1
    /\ settings' \in {[settings EXCEPT !.user[t] = v],
                      [settings EXCEPT !.project[t] = v]}
    /\ UNCHANGED <<cfg, modeVars, grantVars, readOnly, tty, request>>

\* ... until /permissions is opened or a session of another directory loaded.
LoadSettings ==
    /\ At("none")
    /\ cfg' = Effective(settings)
    /\ UNCHANGED <<settings, edits, modeVars, grantVars, readOnly, tty, request>>

\* /new and /fork: the old session is saved, the new one has no grants.
NewChat(s) ==
    /\ At("none") /\ s # chat
    /\ records[s] = {} /\ given[s] = {} /\ warned[s] = {}
    /\ Saved(always)
    /\ chat' = s /\ always' = {}
    /\ UNCHANGED <<settingVars, modeVars, unsandboxed, trusted, given, readOnly,
                   tty, request>>

\* /resume: the grants of the record, the plan mode it was left in.
ResumeChat(s) ==
    /\ At("none") /\ s # chat
    /\ Saved(always)
    /\ chat' = s /\ always' = records[s]
    /\ planMode' \in BOOLEAN
    /\ cfg' = Effective(settings)
    /\ UNCHANGED <<settings, edits, auto, accept, unsandboxed, trusted, given,
                   readOnly, tty, request>>

\* The process ends, by itself or not, and a session is resumed by another,
\* perhaps with nobody to ask (-p).
RestartOn(s) ==
    /\ chat' = s /\ always' = records[s]
    /\ unsandboxed' = FALSE /\ trusted' = {} /\ accept' = FALSE
    /\ auto' \in BOOLEAN /\ planMode' \in BOOLEAN /\ tty' \in BOOLEAN
    /\ readOnly' = planMode'
    /\ cfg' = Effective(settings)
    /\ request' = NoRequest
    /\ UNCHANGED <<settings, edits, records, given, warned>>

PermissionInit ==
    /\ settings = [user |-> [t \in Tools |-> "ask"],
                   project |-> [t \in Tools |-> "allow"]]
    /\ cfg = Effective(settings)
    /\ auto = FALSE /\ accept = FALSE /\ planMode = FALSE /\ readOnly = FALSE
    /\ chat = (CHOOSE s \in Chats : TRUE) /\ always = {}
    /\ records = [s \in Chats |-> {}]
    /\ unsandboxed = FALSE /\ trusted = {} /\ tty = TRUE
    /\ request = NoRequest
    /\ given = [s \in Chats |-> {}] /\ warned = [s \in Chats |-> {}]
    /\ edits = 0

DecideNext ==
    \/ \E q \in Prepared : Prepare(q)
    \/ Refuse \/ ConfirmRisk \/ PermitSilently \/ AllowOnce \/ AllowAlways
    \/ AllowNetwork \/ AllowUnsandboxed \/ UseApproval \/ Execute \/ CallEnds

UserNext ==
    \/ BeginTurn \/ CycleMode \/ TogglePlanMode \/ ToggleAuto
    \/ SaveSession \/ RevokeAll \/ LoadSettings
    \/ \E t \in Tools, v \in Values :
           SetPermission(t, v) \/ EditElsewhere(t, v)
    \/ \E s \in Chats : NewChat(s) \/ ResumeChat(s) \/ RestartOn(s)

PermissionNext == DecideNext \/ UserNext

PermissionSpec == PermissionInit /\ [][PermissionNext]_permissionVars
-----------------------------------------------------------------------------

Consents == {"risk", "once", "network", "unsandboxed", "standing"}

Requests == {NoRequest} \cup
    [stage : {"prepared", "permitted", "running"}, tool : Tools,
     risky : BOOLEAN, network : BOOLEAN, boundary : Boxes,
     asked : SUBSET Consents]

PermissionTypeOK ==
    /\ settings \in [user : [Tools -> Values], project : [Tools -> Values]]
    /\ cfg \in [Tools -> Values]
    /\ auto \in BOOLEAN /\ accept \in BOOLEAN /\ planMode \in BOOLEAN
    /\ readOnly \in BOOLEAN /\ tty \in BOOLEAN /\ unsandboxed \in BOOLEAN
    /\ chat \in Chats /\ always \in SUBSET Tools
    /\ records \in [Chats -> SUBSET Tools]
    /\ given \in [Chats -> SUBSET Tools] /\ trusted \subseteq Chats
    /\ warned \in [Chats -> SUBSET Tools]
    /\ request \in Requests
    /\ edits \in 0..MaxEdits

\* The grants of the current session, and those that a later /resume would
\* bring back, were given by the user to that very session and not withdrawn
\* since, whatever save failed in between; the exception are those of which
\* the user was told so.  None is relied on that is not in the record.
GrantsAreConsented ==
    /\ always \subseteq records[chat]
    /\ \A s \in Chats : records[s] \subseteq given[s] \cup warned[s]

\* A call that runs has every consent its kind asks for, given to this call;
\* outside the sandbox one that the user has given this process for a session
\* will do.  What the settings deny does not run, but for the tools that only
\* read: nobody looks at their setting.
RunsWithConsent ==
    At("running") =>
        /\ Hard(request) => "risk" \in request.asked
        /\ request.network /\ request.boundary = "sandboxed"
               => "network" \in request.asked
        /\ request.boundary = "ask" =>
               \/ "unsandboxed" \in request.asked
               \/ "standing" \in request.asked /\ trusted # {}
        /\ request.tool # "read" => Permission(request.tool) # "deny"

\* Leaving the sandbox unasked was agreed to for the session that does it ("not
\* kept, and not across sessions").
ApprovalStaysInSession ==
    At("running") /\ "standing" \in request.asked => chat \in trusted

\* Whatever is run was consented to.
ConsentHolds == PermissionTypeOK /\ GrantsAreConsented /\ RunsWithConsent
=============================================================================
