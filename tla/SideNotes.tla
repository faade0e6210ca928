------------------------------ MODULE SideNotes ------------------------------
(***************************************************************************)
(* What a session asks the model on the side: the recap that is written    *)
(* while the user is away or has resumed a chat, and the memories that are *)
(* drawn from a conversation that rests.  The owner runs turns, switches   *)
(* chats and takes what is ready when it is idle; the reader of keys tells *)
(* of the focus; timers and requests run in threads of their own.          *)
(***************************************************************************)
EXTENDS Integers, FiniteSets

CONSTANTS
    Chats,          \* each of another project
    Threads,        \* that write recaps: bounds how many are alive
    Jobs,           \* threads that draw memories, likewise
    RecapMinimum,   \* MIN_USER_MESSAGES of away_recap
    MemoryMinimum,  \* MIN_USER_MESSAGES of memory_extract
    NewPrompts,     \* MIN_NEW_USER_MESSAGES of both
    MaxFailures,    \* MAX_FAILURES_PER_TURN
    MaxAsked        \* bounds the prompts of a chat

NoThread == "nobody"

ASSUME NotesAssumption ==
    /\ NoThread \notin Chats \cup Threads \cup Jobs
    /\ {RecapMinimum, MemoryMinimum, NewPrompts, MaxAsked} \subseteq Nat
    /\ MaxFailures \in Nat \ {0} /\ IsFiniteSet(Threads)

VARIABLES
    chat,       \* the chat of the session
    asked,      \* [chat |-> real_user_messages]
    turnRunning,       \* Session._turn_running, the controller's _loading with it
    focus,      \* _focused: "unseen", "here" or "away"
    recapper,   \* [timer, ended, inflight, failures] of AwayRecapController
    writer,     \* [thread |-> one request for a recap]
    ready,      \* the last of _away_recap_ready, or NoNote
    recapOf,       \* [chat |-> the prompts its context.away_recap counts]
    extractor,  \* [due, users, thread, cancel, compacted] of memory_extract
    drawing,        \* [thread |-> one request for memories]
    found,      \* _memory_extract_ready
    entries        \* entries in the stores: of which chat, in whose project

notesVars == <<chat, asked, turnRunning, focus, recapper, writer, ready, recapOf,
               extractor, drawing, found, entries>>
recapVars == <<focus, recapper, writer, ready, recapOf>>
memoryVars == <<extractor, drawing, found, entries>>

NoNote == [of |-> NoThread, seen |-> 0, stored |-> FALSE, raced |-> FALSE]
NotTold == -1
\* Raced is history: of a recap, a turn began after it had been written; of a
\* request for memories, the one before took away what would cancel it.
NoRequest == [does |-> "nothing", of |-> NoThread, seen |-> 0,
              cancelled |-> FALSE, whole |-> TRUE, raced |-> FALSE]

NotesInit ==
    /\ chat \in Chats
    /\ asked = [c \in Chats |-> 0]
    /\ turnRunning = FALSE /\ focus = "unseen"
    /\ recapper = [timer |-> FALSE, ended |-> FALSE, inflight |-> NoThread,
                   failures |-> 0]
    /\ writer = [t \in Threads |-> NoRequest]
    /\ ready = NoNote
    /\ recapOf = [c \in Chats |-> NotTold]
    /\ extractor = [due |-> FALSE, users |-> 0, thread |-> NoThread,
                    cancel |-> NoThread, compacted |-> FALSE]
    /\ drawing = [j \in Jobs |-> NoRequest]
    /\ found = {} /\ entries = {}

\* _abort, and the cancellation of a job.
Aborted(requests, who) ==
    IF who = NoThread THEN requests
    ELSE [requests EXCEPT ![who].cancelled = TRUE]
\* What has its answer is not registered any more, so that nothing cancels it.
Outrun(requests) ==
    [t \in Threads |-> [requests[t] EXCEPT
        !.raced = @ \/ requests[t].does \in {"written", "telling"}]]
\* _arm: a running turn, or none so far, leaves it unarmed.
Armed(ended) == ended /\ ~turnRunning

(***************************************************************************)
(* A turn: both sides hear of its beginning, which makes what is under way *)
(* and what waits stale, and of its end.                                   *)
(***************************************************************************)
StartTurn ==
    /\ ~turnRunning /\ asked[chat] < MaxAsked
    /\ turnRunning' = TRUE
    /\ asked' = [asked EXCEPT ![chat] = @ + 1]
    /\ ready' = NoNote
    /\ writer' = Outrun(Aborted(writer, recapper.inflight))
    /\ recapper' = [recapper EXCEPT !.timer = FALSE, !.inflight = NoThread]
    /\ drawing' = Aborted(drawing, extractor.cancel)
    /\ extractor' = [extractor EXCEPT !.due = FALSE]
    /\ UNCHANGED <<chat, focus, recapOf, found, entries>>

\* The turn may have compacted the conversation.
TurnOver ==
    /\ turnRunning /\ turnRunning' = FALSE
    /\ recapper' = [recapper EXCEPT !.ended = TRUE, !.timer = TRUE,
                                    !.failures = 0]
    /\ \E compacts \in BOOLEAN :
         extractor' = [extractor EXCEPT !.due = TRUE,
                                        !.compacted = @ \/ compacts]
    /\ UNCHANGED <<chat, asked, focus, writer, ready, recapOf, drawing, found, entries>>

\* focus_changed, from the reader of keys.
Return ==
    /\ focus' = "here"
    /\ writer' = Aborted(writer, recapper.inflight)
    /\ recapper' = [recapper EXCEPT !.timer = FALSE, !.inflight = NoThread]
    /\ UNCHANGED <<chat, asked, turnRunning, ready, recapOf, memoryVars>>

Leave ==
    /\ focus' = "away"
    /\ recapper' = [recapper EXCEPT !.timer = Armed(recapper.ended)]
    /\ UNCHANGED <<chat, asked, turnRunning, writer, ready, recapOf, memoryVars>>

(***************************************************************************)
(* The threads that write recaps.                                          *)
(***************************************************************************)
Writes(t, request) == writer' = [writer EXCEPT ![t] = request]
OtherWriters == UNCHANGED <<chat, asked, turnRunning, focus, memoryVars>>

\* A timer's thread starts; it may be too late to cancel it.
TimerFires(t) ==
    /\ recapper.timer /\ writer[t].does = "nothing"
    /\ Writes(t, [NoRequest EXCEPT !.does = "firing"])
    /\ UNCHANGED <<recapper, ready, recapOf>> /\ OtherWriters

Fire(t) ==
    /\ writer[t].does = "firing"
    /\ recapper' = [recapper EXCEPT !.timer = FALSE]
    /\ Writes(t, IF focus = "away" /\ ~turnRunning
                 THEN [writer[t] EXCEPT !.does = "trying"] ELSE NoRequest)
    /\ UNCHANGED <<ready, recapOf>> /\ OtherWriters

Eligible ==
    LET last == recapOf[chat] IN
    /\ asked[chat] >= RecapMinimum
    /\ last = NotTold \/ last > asked[chat] \/ asked[chat] - last >= NewPrompts

\* maybe_generate; a draft and background work hold it off as well.
TryToWrite(t) ==
    /\ writer[t].does = "trying"
    /\ \/ /\ recapper.inflight = NoThread
          /\ recapper.failures < MaxFailures /\ ~turnRunning /\ Eligible
          /\ recapper' = [recapper EXCEPT !.inflight = t]
          /\ Writes(t, [writer[t] EXCEPT !.does = "asking"])
       \/ Writes(t, NoRequest) /\ UNCHANGED recapper
    /\ UNCHANGED <<ready, recapOf>> /\ OtherWriters

\* generate_away_recap reads the conversation of the agent as it is now.
Reread(t) ==
    /\ writer[t].does = "asking"
    /\ Writes(t, [writer[t] EXCEPT !.does = "sent", !.of = chat,
                                   !.seen = asked[chat]])
    /\ UNCHANGED <<recapper, ready, recapOf>> /\ OtherWriters

\* The request is over: it is unregistered if it still is the registered one.
UnregisteredFaulty(t) == NoThread
Unregistered(t) == IF recapper.inflight = t THEN NoThread ELSE recapper.inflight

Answered(t) ==
    /\ writer[t].does = "sent"
    /\ recapper' = [recapper EXCEPT !.inflight = Unregistered(t)]
    /\ \E end \in {"written", "failed"} :
         Writes(t, IF writer[t].cancelled THEN NoRequest
                   ELSE [writer[t] EXCEPT !.does = end])
    /\ UNCHANGED <<ready, recapOf>> /\ OtherWriters

CountFailure(t) ==
    /\ writer[t].does = "failed"
    /\ recapper' = [recapper EXCEPT !.failures = @ + 1]
    /\ Writes(t, NoRequest)
    /\ UNCHANGED <<ready, recapOf>> /\ OtherWriters

LookAtTurn(t) ==
    /\ writer[t].does = "written"
    /\ Writes(t, IF turnRunning THEN NoRequest
                 ELSE [writer[t] EXCEPT !.does = "telling"])
    /\ UNCHANGED <<recapper, ready, recapOf>> /\ OtherWriters

Deliver(t) ==
    /\ writer[t].does = "telling"
    /\ ready' = [of |-> writer[t].of, seen |-> writer[t].seen,
                 stored |-> FALSE, raced |-> writer[t].raced]
    /\ Writes(t, NoRequest)
    /\ UNCHANGED <<recapper, recapOf>> /\ OtherWriters

(***************************************************************************)
(* The owner, idle.                                                        *)
(***************************************************************************)
Idle == ~turnRunning

\* take_away_recap: what was stored already is shown and not stored again.
TakeRecap ==
    /\ Idle /\ ready # NoNote
    /\ ready' = NoNote
    /\ recapOf' = IF ready.stored THEN recapOf
               ELSE [recapOf EXCEPT ![chat] = asked[chat]]
    /\ UNCHANGED <<chat, asked, turnRunning, focus, recapper, writer, memoryVars>>

\* /recap: the owner waits for it.
RecapNow ==
    /\ Idle /\ asked[chat] > 0
    /\ recapOf' = [recapOf EXCEPT ![chat] = asked[chat]]
    /\ UNCHANGED <<chat, asked, turnRunning, focus, recapper, writer, ready,
                   memoryVars>>

\* Another chat, and request_resume_recap if it was resumed.
SwitchChat(c) ==
    /\ Idle /\ c # chat /\ chat' = c
    /\ IF recapOf[c] = asked[c]
       THEN /\ ready' = [NoNote EXCEPT !.of = c, !.seen = asked[c], !.stored = TRUE]
            /\ UNCHANGED writer
       ELSE /\ UNCHANGED ready
            /\ \/ asked[c] = 0 /\ UNCHANGED writer
               \/ \E t \in Threads :
                    /\ writer[t].does = "nothing"
                    /\ Writes(t, [NoRequest EXCEPT !.does = "trying"])
    /\ UNCHANGED <<asked, turnRunning, focus, recapper, recapOf, memoryVars>>

\* /clear.
ClearChat ==
    /\ Idle /\ asked[chat] > 0
    /\ asked' = [asked EXCEPT ![chat] = 0]
    /\ recapOf' = [recapOf EXCEPT ![chat] = NotTold]
    /\ extractor' = [extractor EXCEPT !.compacted = FALSE]
    /\ UNCHANGED <<chat, turnRunning, focus, recapper, writer, ready, drawing, found, entries>>

(***************************************************************************)
(* Memories.  A tick of the idle owner starts a job if one is due, and     *)
(* keeps what jobs have found, in the project of the chat it is in.        *)
(***************************************************************************)
WorthExtracting ==
    /\ extractor.thread = NoThread /\ extractor.due
    /\ asked[chat] >= MemoryMinimum
    /\ extractor.compacted \/ asked[chat] - extractor.users >= NewPrompts

StartJob(j) ==
    /\ Idle /\ WorthExtracting /\ drawing[j].does = "nothing"
    /\ extractor' = [due |-> FALSE, users |-> asked[chat], thread |-> j,
                     cancel |-> j, compacted |-> FALSE]
    /\ drawing' = [drawing EXCEPT ![j] = [NoRequest EXCEPT !.does = "asking"]]
    /\ UNCHANGED <<chat, asked, turnRunning, recapVars, found, entries>>

KeepFound ==
    /\ Idle /\ found # {}
    /\ entries' = entries \cup {[of |-> c, in |-> chat] : c \in found}
    /\ found' = {}
    /\ UNCHANGED <<chat, asked, turnRunning, recapVars, extractor, drawing>>

\* /memory capture: the owner waits for it.
CaptureNow ==
    /\ Idle /\ asked[chat] >= MemoryMinimum
    /\ entries' = entries \cup {[of |-> chat, in |-> chat]}
    /\ UNCHANGED <<chat, asked, turnRunning, recapVars, extractor, drawing, found>>

OtherJobs == UNCHANGED <<chat, asked, turnRunning, recapVars>>

ReadChat(j) ==
    /\ drawing[j].does = "asking"
    /\ drawing' = [drawing EXCEPT ![j].does = "sent", ![j].of = chat,
                          ![j].seen = asked[chat]]
    /\ UNCHANGED <<extractor, found, entries>> /\ OtherJobs

\* _memory_extract_background, which gives up its place in two steps.
JobEnds(j) ==
    /\ drawing[j].does = "sent"
    /\ extractor' = [extractor EXCEPT !.thread = NoThread]
    /\ \E answers \in BOOLEAN :
         drawing' = [drawing EXCEPT ![j].does = "unbinding",
                            ![j].whole = answers /\ ~drawing[j].cancelled]
    /\ UNCHANGED <<found, entries>> /\ OtherJobs

\* What cancels is cleared, whoever it belongs to by now.
Unbind(j) ==
    /\ drawing[j].does = "unbinding"
    /\ extractor' = [extractor EXCEPT !.cancel = NoThread]
    /\ LET next == IF drawing[j].whole THEN [drawing[j] EXCEPT !.does = "handing"]
                   ELSE NoRequest
       IN drawing' = [k \in Jobs |->
             IF k = j THEN next
             ELSE IF k = extractor.cancel THEN [drawing[k] EXCEPT !.raced = TRUE]
             ELSE drawing[k]]
    /\ UNCHANGED <<found, entries>> /\ OtherJobs

HandOver(j) ==
    /\ drawing[j].does = "handing"
    /\ found' = found \cup {drawing[j].of}
    /\ drawing' = [drawing EXCEPT ![j] = NoRequest]
    /\ UNCHANGED <<extractor, entries>> /\ OtherJobs

NotesNext ==
    \/ StartTurn \/ TurnOver \/ Return \/ Leave
    \/ \E t \in Threads :
         \/ TimerFires(t) \/ Fire(t) \/ TryToWrite(t) \/ Reread(t)
         \/ Answered(t) \/ CountFailure(t) \/ LookAtTurn(t) \/ Deliver(t)
    \/ TakeRecap \/ RecapNow \/ ClearChat \/ KeepFound \/ CaptureNow
    \/ \E c \in Chats : SwitchChat(c)
    \/ \E j \in Jobs : StartJob(j) \/ ReadChat(j) \/ JobEnds(j) \/ Unbind(j)
                       \/ HandOver(j)

NotesSpec == NotesInit /\ [][NotesNext]_notesVars

-----------------------------------------------------------------------------
\* Whatever asks the model can be stopped: a request nobody has cancelled is
\* the one a turn or a return would cancel (_abort, memory_extract_turn).  One
\* for memories is not if the one before gave up its place, in two steps, on
\* both sides of its start; even so only one asks at a time.
AsksTheModel(r) == r.does \in {"asking", "sent"} /\ ~r.cancelled
RequestsCanBeStopped ==
    /\ \A t \in Threads : AsksTheModel(writer[t]) => recapper.inflight = t
    /\ \A j \in Jobs : AsksTheModel(drawing[j]) =>
         extractor.cancel = j \/ drawing[j].raced
    /\ \A j, k \in Jobs :
         {drawing[j].does, drawing[k].does} \subseteq {"asking", "sent"} => j = k

\* A recap written of this chat that waits to be told misses no prompt of it,
\* unless a turn began between its answer and its arrival.
RecapIsCurrent ==
    ready.of = chat /\ ~ready.stored /\ ~ready.raced => ready.seen >= asked[chat]

\* A turn pays for at most MaxFailures that fail, and one more for each thread
\* that has asked before a failure was counted.
FailuresAreLimited ==
    recapper.failures < MaxFailures + Cardinality(Threads)

NotesAreCurrent == RequestsCanBeStopped /\ RecapIsCurrent /\ FailuresAreLimited

\* Memories stay in the project of the conversation they were drawn from
\* (README: projects are isolated from each other).
MemoriesStayHome == \A entry \in entries : entry.in = entry.of
=============================================================================
