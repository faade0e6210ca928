---------------------------- MODULE SessionStore ----------------------------
(***************************************************************************)
(* core/store.py and the session switch of zylab.py: several zylab         *)
(* processes, on one or two hosts, share one home directory.  A session is *)
(* a canonical record, a write lease and a row of the catalog, which is    *)
(* derived and rebuilt when it is marked dirty.                            *)
(*                                                                         *)
(* The messages of a session are a set of numbers, one per message; title  *)
(* and status stand for the metadata.  Operations under one file lock are  *)
(* one action; a write holds the locks of its session and of the catalog   *)
(* from `marked' to `indexed'.  Left out: damage from outside to leases    *)
(* and records, messages that a rewind or a compaction removes, working    *)
(* directories, the state database that is kept beside the records.        *)
(***************************************************************************)
EXTENDS Naturals, FiniteSets

CONSTANTS
    Procs,          \* processes; one that ends does not come back
    Layouts,        \* the sets of processes that may be on the other host
    Sessions,       \* session ids
    Saved,          \* those with a record at the start
    None,
    MaxMessages,    \* bound: messages added
    MaxOps,         \* bound: commands of the users
    MaxFaults,      \* bound: crashes and I/O errors
    MaxLapses       \* bound: heartbeats that stay away for 30 seconds

ASSUME StoreAssumption ==
    /\ Layouts \subseteq SUBSET Procs /\ Saved \subseteq Sessions
    /\ None \notin Procs \cup Sessions
    /\ MaxMessages \in Nat /\ MaxOps \in Nat
    /\ MaxFaults \in Nat /\ MaxLapses \in Nat

VARIABLES
    file,           \* per session: the canonical record, or NoRecord
    lease,          \* per session: owner, and whether it was heard of lately
    index, dirty,   \* the catalog and its dirty marker
    up,             \* per process: "new", "up" or "gone"
    pc, job,        \* where its command stands, and the locals of it
    run,            \* per process: the session of its agent, and its messages
    cur, pend,      \* _leased_session_id, _pending_session_leases
    drawn,          \* ids in use; new_id draws another one
    remote,         \* the processes on the other host
    messages, ops, faults, lapses,
    lapsed          \* history: processes whose lease ran out

store == <<file, lease, index, dirty>>
procs == <<up, pc, job, run, cur, pend, drawn>>
bounds == <<messages, ops, faults, lapses, lapsed, remote>>
vars == <<store, procs, bounds>>

NoRecord == [text |-> {}, title |-> 0, status |-> "none"]
NoLease == [owner |-> None, fresh |-> FALSE]
NoJob == [kind |-> "none", source |-> None, target |-> None, text |-> {},
          on |-> None, record |-> NoRecord,
          prev |-> [id |-> None, text |-> {}]]

Writing == {"marked", "replaced", "indexed"}

\* _exclusive_file_lock of the catalog, and of a session: a writer holds both.
CatalogFree == \A p \in Procs : pc[p] \notin Writing
SessionFree(s) == \A p \in Procs : pc[p] \in Writing => job[p].on # s

\* _summary_from_record
Summary(r) == [title |-> r.title, status |-> r.status,
               count |-> Cardinality(r.text)]
Catalog == [s \in Sessions |-> Summary(file[s])]

\* _session_index_unlocked: a dirty catalog is built again from the records.
Index == IF dirty THEN Catalog ELSE index
ReadIndex == CatalogFree /\ index' = Index /\ dirty' = FALSE

\* _lease_is_live, as a process sees it: a process of its own host lives or
\* not, one of another host has been heard of lately or not.
SameHost(p, q) == p \in remote <=> q \in remote
Live(s, p) ==
    LET o == lease[s].owner IN
    o # None /\ IF SameHost(o, p) THEN up[o] = "up" ELSE lease[s].fresh

\* Faulty variant: an owner without a lease may write.
MayWriteFaulty(p, s, owner) ==
    IF owner /\ lease[s].owner = p THEN Live(s, p) ELSE ~Live(s, p)

\* _assert_session_write_owner_unlocked, with or without the id of an owner
MayWrite(p, s, owner) ==
    IF owner THEN Live(s, p) /\ lease[s].owner = p ELSE ~Live(s, p)

Goto(p, to) == pc' = [pc EXCEPT ![p] = to]
Job(p, j) == job' = [job EXCEPT ![p] = j]
EndJob(p) == Goto(p, "idle") /\ Job(p, NoJob)
Idle(p) == up[p] = "up" /\ pc[p] = "idle"
\* It waits for its user; a --resume that came to nothing only closes.
Ready(p) == Idle(p) /\ cur[p] # None
Command == ops < MaxOps /\ ops' = ops + 1
Fault == faults < MaxFaults /\ faults' = faults + 1

-----------------------------------------------------------------------------
(* _write_session_and_index_unlocked: marker, record, catalog, marker *)

BeginWrite(p, s, r, j) ==
    /\ SessionFree(s) /\ CatalogFree
    /\ index' = Index /\ dirty' = TRUE
    /\ Goto(p, "marked") /\ Job(p, [j EXCEPT !.on = s, !.record = r])

Replace(p) ==
    /\ pc[p] = "marked"
    /\ file' = [file EXCEPT ![job[p].on] = job[p].record]
    /\ Goto(p, "replaced")
    /\ UNCHANGED <<lease, index, dirty, up, job, run, cur, pend, drawn, bounds>>

WriteIndex(p) ==
    /\ pc[p] = "replaced"
    /\ index' = [index EXCEPT ![job[p].on] = Summary(job[p].record)]
    /\ Goto(p, "indexed")
    /\ UNCHANGED <<file, lease, dirty, up, job, run, cur, pend, drawn, bounds>>

\* The locks are released; a command that saved first goes on.
Written(p) ==
    /\ pc[p] = "indexed"
    /\ dirty' = FALSE
    /\ CASE job[p].kind = "save" -> EndJob(p)
         [] job[p].kind = "save to fork" -> Goto(p, "fork") /\ UNCHANGED job
         [] job[p].kind = "fork" ->
               Goto(p, "acquire") /\ Job(p, [job[p] EXCEPT !.kind = "resume"])
         [] OTHER -> Goto(p, "swap") /\ UNCHANGED job
    /\ UNCHANGED <<file, lease, index, up, run, cur, pend, drawn, bounds>>

\* An I/O error in any of these steps: the marker stays.
WriteFails(p) ==
    /\ pc[p] \in Writing
    /\ Fault
    /\ IF job[p].kind \in {"save", "save to fork"}
       THEN EndJob(p)
       ELSE Goto(p, "undo") /\ UNCHANGED job
    /\ UNCHANGED <<store, up, run, cur, pend, drawn, messages, ops, lapses,
                   lapsed, remote>>

-----------------------------------------------------------------------------
(* Commands that write one record *)

\* A turn adds a message to the agent's.
Work(p) ==
    /\ Ready(p) /\ messages < MaxMessages
    /\ messages' = messages + 1
    /\ run' = [run EXCEPT ![p].text = @ \cup {messages + 1}]
    /\ UNCHANGED <<store, up, pc, job, cur, pend, drawn, ops, faults, lapses,
                   lapsed, remote>>

\* save_session: the messages of the agent, the metadata of the record.
SavedRecord(p) ==
    [file[run[p].id] EXCEPT
        !.text = run[p].text,
        !.status = IF @ = "none" THEN "active" ELSE @]

\* Session.save; an empty session is not saved.
Save(p) ==
    /\ Ready(p) /\ run[p].text # {} /\ run[p].id = cur[p]
    /\ Command
    /\ MayWrite(p, cur[p], TRUE)
    /\ BeginWrite(p, cur[p], SavedRecord(p), [NoJob EXCEPT !.kind = "save"])
    /\ UNCHANGED <<file, lease, up, run, cur, pend, drawn, messages, faults,
                   lapses,
                   lapsed, remote>>

\* update_session_metadata by the picker: a title, or the status of a session
\* that is not the process's own.
Edit(p, s, r) ==
    /\ Ready(p) /\ file[s].status # "none"
    /\ Command
    /\ MayWrite(p, s, s = run[p].id)
    /\ BeginWrite(p, s, r, [NoJob EXCEPT !.kind = "save"])
    /\ UNCHANGED <<file, lease, up, run, cur, pend, drawn, messages, faults,
                   lapses,
                   lapsed, remote>>

Rename(p, s) == Edit(p, s, [file[s] EXCEPT !.title = 1])
Archive(p, s) ==
    s # run[p].id /\ Edit(p, s, [file[s] EXCEPT !.status = "archived"])
Unarchive(p, s) ==
    file[s].status = "archived" /\ Edit(p, s, [file[s] EXCEPT !.status = "active"])

-----------------------------------------------------------------------------
(* Leases *)

\* acquire_session_lease
Free(s, p) == lease[s].owner = p \/ ~Live(s, p)
Take(s, p) == lease' = [lease EXCEPT ![s] = [owner |-> p, fresh |-> TRUE]]

\* heartbeat_lease while the process waits or works
Heartbeat(p) ==
    \E s \in (pend[p] \cup {cur[p]}) \ {None} :
        /\ Idle(p) /\ SessionFree(s)
        /\ lease[s].owner = p /\ ~lease[s].fresh
        /\ Take(s, p)
        /\ UNCHANGED <<file, index, dirty, procs, bounds>>

\* Thirty seconds without a heartbeat: the process is busy, or asleep.
Lapse(s) ==
    /\ lease[s].owner # None /\ lease[s].fresh
    /\ lapses < MaxLapses /\ lapses' = lapses + 1
    /\ lease' = [lease EXCEPT ![s].fresh = FALSE]
    /\ lapsed' = lapsed \cup {lease[s].owner}
    /\ UNCHANGED <<file, index, dirty, procs, messages, ops, faults, remote>>

-----------------------------------------------------------------------------
(* resume_session_record, fork_session_record, new session *)

\* resolve_session_id: only an active session, with the catalog as it is.
Resume(p, s) ==
    /\ Ready(p) /\ s # run[p].id
    /\ Command
    /\ ReadIndex /\ Index[s].status = "active"
    /\ Goto(p, "acquire")
    /\ Job(p, [NoJob EXCEPT !.kind = "resume", !.target = s, !.prev = run[p],
                            !.text = file[s].text])
    /\ UNCHANGED <<file, lease, up, run, cur, pend, drawn, messages, faults,
                   lapses,
                   lapsed, remote>>

\* new_id: nobody else knows it.
Draw(s) == s \notin drawn /\ drawn' = drawn \cup {s}

\* acquire_target_lease
Acquired(p, s) ==
    /\ Take(s, p)
    /\ pend' = [pend EXCEPT ![p] = @ \cup {s}]

\* fork_session_record: the process's own session is saved first.
Fork(p, s, child) ==
    LET j == [NoJob EXCEPT !.kind = "save to fork", !.source = s,
                           !.target = child, !.prev = run[p]] IN
    /\ Ready(p) /\ Index[s].status # "none"
    /\ Command
    /\ Draw(child)
    /\ IF s = run[p].id /\ run[p].text # {}
       THEN MayWrite(p, s, TRUE) /\ BeginWrite(p, s, SavedRecord(p), j)
       ELSE ReadIndex /\ Goto(p, "fork") /\ Job(p, j)
    /\ UNCHANGED <<file, lease, up, run, cur, pend, messages, faults, lapses,
                   lapsed, remote>>

\* fork_session: the record of the child is that of the source.
Branch(p) ==
    LET source == job[p].source
        child == job[p].target IN
    /\ pc[p] = "fork" /\ SessionFree(source)
    /\ Acquired(p, child)
    /\ BeginWrite(p, child,
         [file[source] EXCEPT !.title = 1, !.status = "active"],
         [job[p] EXCEPT !.kind = "fork"])
    /\ UNCHANGED <<file, up, run, cur, drawn, bounds>>

\* /new
New(p, s) ==
    /\ Ready(p)
    /\ Command
    /\ Draw(s) /\ Acquired(p, s)
    /\ Goto(p, "save")
    /\ Job(p, [NoJob EXCEPT !.kind = "new", !.target = s, !.prev = run[p]])
    /\ UNCHANGED <<file, index, dirty, up, run, cur, messages, faults, lapses,
                   lapsed, remote>>

\* Faulty variant: wait until the session is free.
AcquireFaulty(p) ==
    LET t == job[p].target IN
    /\ pc[p] = "acquire" /\ SessionFree(t)
    /\ Free(t, p) /\ Acquired(p, t)
    /\ Goto(p, "load")
    /\ UNCHANGED <<file, index, dirty, up, job, run, cur, drawn, bounds>>

\* acquire_target_lease, or SessionBusyError: the command ends.
Acquire(p) ==
    LET t == job[p].target IN
    /\ pc[p] = "acquire" /\ SessionFree(t)
    /\ IF Free(t, p)
       THEN Acquired(p, t) /\ Goto(p, "load") /\ UNCHANGED job
       ELSE EndJob(p) /\ UNCHANGED <<lease, pend>>
    /\ UNCHANGED <<file, index, dirty, up, run, cur, drawn, bounds>>

\* The canonical record is read once more; it may be archived by now.
Load(p) ==
    LET t == job[p].target IN
    /\ pc[p] = "load" /\ ReadIndex
    /\ IF Index[t].status = "active"
       THEN Goto(p, "save") /\ Job(p, [job[p] EXCEPT !.text = file[t].text])
       ELSE Goto(p, "undo") /\ UNCHANGED job
    /\ UNCHANGED <<file, lease, up, run, cur, pend, drawn, bounds>>

\* The session that is left is saved first, unless there is none or it is
\* empty; if it cannot be, the switch is given up.
SaveFirst(p) ==
    /\ pc[p] = "save"
    /\ IF cur[p] = None \/ run[p].text = {}
       THEN Goto(p, "swap") /\ UNCHANGED <<index, dirty, job>>
       ELSE IF MayWrite(p, cur[p], TRUE)
       THEN BeginWrite(p, cur[p], SavedRecord(p), job[p])
       ELSE SessionFree(cur[p]) /\ Goto(p, "undo") /\ UNCHANGED <<index, dirty, job>>
    /\ UNCHANGED <<file, lease, up, run, cur, pend, drawn, bounds>>

\* The runtime is switched before the leases are.
Swap(p) ==
    /\ pc[p] = "swap"
    /\ run' = [run EXCEPT ![p] = [id |-> job[p].target, text |-> job[p].text]]
    /\ Goto(p, "commit")
    /\ UNCHANGED <<store, up, job, cur, pend, drawn, bounds>>

\* commit_target_lease: the target is still ours?
Commit(p) ==
    LET t == job[p].target IN
    /\ pc[p] = "commit" /\ SessionFree(t)
    /\ IF lease[t].owner = p
       THEN Take(t, p) /\ Goto(p, "release")
       ELSE Goto(p, "undo") /\ UNCHANGED lease
    /\ UNCHANGED <<file, index, dirty, up, job, run, cur, pend, drawn, bounds>>

Drop(S, p) ==
    lease' = [s \in Sessions |->
                IF s \in S /\ lease[s].owner = p THEN NoLease ELSE lease[s]]

\* Then the old lease is released, unless it is somebody else's by now.
Release(p) ==
    /\ pc[p] = "release"
    /\ cur[p] # None => SessionFree(cur[p])
    /\ IF cur[p] # None /\ lease[cur[p]].owner \notin {None, p}
       THEN Goto(p, "undo") /\ UNCHANGED <<lease, job, cur, pend>>
       ELSE /\ Drop({cur[p]}, p)
            /\ cur' = [cur EXCEPT ![p] = job[p].target]
            /\ pend' = [pend EXCEPT ![p] = @ \ {job[p].target}]
            /\ EndJob(p)
    /\ UNCHANGED <<file, index, dirty, up, run, drawn, bounds>>

\* Faulty variant: the runtime is not put back.
UndoFaulty(p) ==
    /\ pc[p] = "undo" /\ SessionFree(job[p].target)
    /\ Drop({job[p].target}, p)
    /\ pend' = [pend EXCEPT ![p] = @ \ {job[p].target}]
    /\ EndJob(p)
    /\ UNCHANGED <<file, index, dirty, up, run, cur, drawn, bounds>>

\* The handler of both: rollback_target_lease, and the runtime put back.
Undo(p) ==
    /\ pc[p] = "undo" /\ SessionFree(job[p].target)
    /\ Drop({job[p].target}, p)
    /\ pend' = [pend EXCEPT ![p] = @ \ {job[p].target}]
    /\ run' = [run EXCEPT ![p] = job[p].prev]
    /\ EndJob(p)
    /\ UNCHANGED <<file, index, dirty, up, cur, drawn, bounds>>

\* The user chooses to cancel, or a step of the switch raises.
SwitchFails(p) ==
    /\ pc[p] \in {"load", "save", "swap", "commit", "release"}
    /\ Fault
    /\ Goto(p, "undo")
    /\ UNCHANGED <<store, up, job, run, cur, pend, drawn, messages, ops, lapses,
                   lapsed, remote>>

\* The lease file cannot be removed: it stays provisional.
UndoFails(p) ==
    /\ pc[p] = "undo"
    /\ Fault
    /\ run' = [run EXCEPT ![p] = job[p].prev]
    /\ EndJob(p)
    /\ UNCHANGED <<store, up, cur, pend, drawn, messages, ops, lapses,
                   lapsed, remote>>

-----------------------------------------------------------------------------
(* The life of a process *)

StartNew(p, s) ==
    /\ up[p] = "new" /\ up' = [up EXCEPT ![p] = "up"]
    /\ Draw(s) /\ Take(s, p)
    /\ run' = [run EXCEPT ![p].id = s]
    /\ cur' = [cur EXCEPT ![p] = s]
    /\ UNCHANGED <<file, index, dirty, pc, job, pend, bounds>>

\* --resume: nothing to save, nothing to release.
StartResume(p, s) ==
    /\ up[p] = "new" /\ up' = [up EXCEPT ![p] = "up"]
    /\ ReadIndex /\ Index[s].status = "active"
    /\ Goto(p, "acquire")
    /\ Job(p, [NoJob EXCEPT !.kind = "resume", !.target = s, !.prev = run[p],
                            !.text = file[s].text])
    /\ UNCHANGED <<file, lease, run, cur, pend, drawn, bounds>>

\* release_all_session_leases; a --resume that failed ends like this, too.
Close(p) ==
    LET S == (pend[p] \cup {cur[p]}) \ {None} IN
    /\ Idle(p) /\ \A s \in S : SessionFree(s)
    /\ up' = [up EXCEPT ![p] = "gone"]
    /\ Drop(S, p)
    /\ cur' = [cur EXCEPT ![p] = None]
    /\ pend' = [pend EXCEPT ![p] = {}]
    /\ run' = [run EXCEPT ![p] = [id |-> None, text |-> {}]]
    /\ UNCHANGED <<file, index, dirty, pc, job, drawn, bounds>>

\* The kernel releases the file locks; lease, record and marker stay.
Crash(p) ==
    /\ up[p] = "up" /\ up' = [up EXCEPT ![p] = "gone"]
    /\ Fault
    /\ EndJob(p)
    /\ cur' = [cur EXCEPT ![p] = None]
    /\ pend' = [pend EXCEPT ![p] = {}]
    /\ run' = [run EXCEPT ![p] = [id |-> None, text |-> {}]]
    /\ UNCHANGED <<store, drawn, messages, ops, lapses,
                   lapsed, remote>>

-----------------------------------------------------------------------------
Init ==
    /\ file = [s \in Sessions |-> IF s \in Saved
                 THEN [text |-> {0}, title |-> 0, status |-> "active"]
                 ELSE NoRecord]
    /\ lease = [s \in Sessions |-> NoLease]
    /\ index = Catalog /\ dirty = FALSE
    /\ up = [p \in Procs |-> "new"]
    /\ pc = [p \in Procs |-> "idle"]
    /\ job = [p \in Procs |-> NoJob]
    /\ run = [p \in Procs |-> [id |-> None, text |-> {}]]
    /\ cur = [p \in Procs |-> None]
    /\ pend = [p \in Procs |-> {}]
    /\ drawn = Saved
    /\ messages = 0 /\ ops = 0 /\ faults = 0 /\ lapses = 0
    /\ lapsed = {} /\ remote \in Layouts

Step(p) ==
    \/ Replace(p) \/ WriteIndex(p) \/ Written(p)
    \/ Acquire(p) \/ Load(p) \/ SaveFirst(p) \/ Swap(p) \/ Commit(p)
    \/ Branch(p) \/ Release(p) \/ Undo(p)

User(p) ==
    \/ Work(p) \/ Save(p) \/ Close(p)
    \/ \E s \in Sessions :
          \/ Rename(p, s) \/ Archive(p, s) \/ Unarchive(p, s)
          \/ Resume(p, s) \/ New(p, s) \/ StartNew(p, s) \/ StartResume(p, s)
          \/ \E child \in Sessions : Fork(p, s, child)

Fails(p) == WriteFails(p) \/ SwitchFails(p) \/ UndoFails(p) \/ Crash(p)

Next ==
    \/ \E p \in Procs : Step(p) \/ User(p) \/ Fails(p) \/ Heartbeat(p)
    \/ \E s \in Sessions : Lapse(s)

Spec == Init /\ [][Next]_vars

\* Every command is driven by the main thread of its process.
FairSpec == Spec /\ \A p \in Procs : WF_vars(Step(p))

-----------------------------------------------------------------------------
(* Properties *)

Record == [text : SUBSET Nat, title : Nat,
           status : {"none", "active", "archived"}]
Runtime == [id : Sessions \cup {None}, text : SUBSET Nat]

\* The types; a lease is either current or provisional; a process that waits
\* for its user runs the session that it has leased, however its last switch
\* ended.
StoreTypeOK ==
    /\ file \in [Sessions -> Record]
    /\ lease \in [Sessions -> [owner : Procs \cup {None}, fresh : BOOLEAN]]
    /\ index \in [Sessions -> [title : Nat, count : Nat,
                               status : {"none", "active", "archived"}]]
    /\ dirty \in BOOLEAN
    /\ up \in [Procs -> {"new", "up", "gone"}]
    /\ run \in [Procs -> Runtime]
    /\ cur \in [Procs -> Sessions \cup {None}]
    /\ pend \in [Procs -> SUBSET Sessions]
    /\ \A p \in Procs : cur[p] \notin pend[p]

\* "acquire the target first, then read the transcript again": who may write
\* a session has seen all of its messages.
OwnerHasRead ==
    \A p \in Procs :
        Idle(p) /\ cur[p] # None /\ lease[cur[p]].owner = p
            => file[cur[p]].text \subseteq run[p].text

\* No save of any process, awake or back from a sleep, loses a message that
\* another process has saved.
MessagesKept ==
    [][\A s \in Sessions : file[s].text \subseteq file'[s].text]_vars

\* A switch that fails at any point leaves the agent with the session whose
\* lease the process has, and never with the target's.
RuntimeIsLeased ==
    \A p \in Procs : Idle(p) => run[p].id = cur[p]

\* Whoever died in the middle of a write: a catalog that is not marked dirty
\* says what the records say.
CatalogIsDerived ==
    CatalogFree /\ ~dirty => index = Catalog

\* "A live session cannot be archived": nobody runs an archived session,
\* unless his lease had run out.
ArchivedNotRun ==
    \A p \in Procs :
        /\ Idle(p) /\ cur[p] # None
        /\ lease[cur[p]].owner = p /\ p \notin lapsed
        => file[cur[p]].status # "archived"

\* The types; a process that waits for its user runs the session it leased,
\* which is not archived and of which it has read everything; the catalog.
StoreConsistent ==
    /\ StoreTypeOK /\ RuntimeIsLeased /\ OwnerHasRead /\ ArchivedNotRun
    /\ CatalogIsDerived

\* A switch ends, in the new session or in the old one.
SwitchEnds == \A p \in Procs : pc[p] # "idle" ~> pc[p] = "idle"
=============================================================================
