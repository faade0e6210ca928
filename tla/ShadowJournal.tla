---------------------------- MODULE ShadowJournal ----------------------------
(***************************************************************************)
(* core/store.py and core/state.py: the record of a session is a file      *)
(* (JSON), its journal in state.db a shadow of it.  Both are written by    *)
(* the process that runs the session, on different paths and at different  *)
(* times, and the journal may be off, fail, or be switched on in the       *)
(* middle.  A branch is made from both.                                    *)
(*                                                                         *)
(* One process at a time (SessionStore models the lease); what it is       *)
(* asked, answered and told is a word, the rest of a turn is "turn".       *)
(***************************************************************************)
EXTENDS Naturals, Sequences, SequencesExt, FiniteSets

CONSTANTS
    Sessions,       \* ids
    Root,          \* the first of them
    Words,          \* messages
    Runs,           \* ids of child agents
    MaxWords,       \* bound: messages of a session
    MaxRows         \* bound: events of a session that are not copied

ASSUME ShadowAssumption ==
    /\ Root \in Sessions /\ MaxWords \in Nat /\ MaxRows \in Nat

VARIABLES
    records,        \* the files: of each session its record, or Missing
    rows,           \* state.db: of each session its row and events, or Missing
    agentRuns,      \* state.db: the session each agent belongs to, or Missing
    live,           \* the session of the process: id and messages
    shadow,         \* the writer: "off", "on" or "broken"
    conflict        \* has the database refused what the program wrote?

shadowVars == <<records, rows, agentRuns, live, shadow, conflict>>

Missing == [missing |-> TRUE]
Here(table) == {x \in DOMAIN table : table[x] # Missing}

\* source_key: of a copied event and of the branch itself (0), else NoKey.
NoKey == [of |-> "none", seq |-> 0]
Event(kind, what) == [kind |-> kind, what |-> what, key |-> NoKey]
MessageRow(m) == Event("message", m)
MessagesOf(events) ==
    LET said == SelectSeq(events, LAMBDA e : e.kind = "message")
    IN  [i \in 1..Len(said) |-> said[i].what]

ShadowInit ==
    /\ records = [s \in Sessions |-> Missing]
    /\ rows = [s \in Sessions |-> Missing]
    /\ agentRuns = [a \in Runs |-> Missing]
    /\ live = [id |-> Root, messages |-> <<"system">>]
    /\ shadow \in {"off", "on"} /\ conflict = FALSE

-----------------------------------------------------------------------------
(* StateStore: each operation is one transaction.  A database is a record  *)
(* of rows, runs and ok; ok = FALSE rolls the transaction back.            *)

Database == [rows |-> rows, runs |-> agentRuns, ok |-> TRUE]

\* _upsert_session_tx: an agent's record names no parent, and removes none.
Upsert(db, s, parent, forkSeq) ==
    LET old == db.rows[s]
        new == IF old = Missing
               THEN [parent |-> parent, forkSeq |-> forkSeq, events |-> <<>>]
               ELSE [old EXCEPT
                       !.parent = IF parent = Missing THEN @ ELSE parent,
                       !.forkSeq = IF forkSeq = 0 THEN @ ELSE forkSeq]
    IN  [db EXCEPT !.rows[s] = new]

\* _project_agent_event_tx: an agent stays with the session that spawned it.
Project(db, s, event) ==
    IF event.kind # "agent" THEN db
    ELSE IF db.runs[event.what] \in {Missing, s}
         THEN [db EXCEPT !.runs[event.what] = s]
         ELSE [db EXCEPT !.ok = FALSE]

\* _append_event_tx: an event with a key is written once.
AppendRow(db, s, event) ==
    LET events == db.rows[s].events IN
    IF event.key # NoKey /\ \E i \in 1..Len(events) : events[i].key = event.key
    THEN db
    ELSE Project([db EXCEPT !.rows[s].events = Append(@, event)], s, event)

AppendRows(db, s, events) ==
    FoldLeft(LAMBDA d, event : IF d.ok THEN AppendRow(d, s, event) ELSE d,
             db, events)

\* bootstrap_session: only into an empty journal.
Bootstrap(db, s, parent, forkSeq, messages) ==
    LET named == Upsert(db, s, parent, forkSeq) IN
    IF named.rows[s].events # <<>> THEN named
    ELSE AppendRows(named, s, [i \in 1..Len(messages) |-> MessageRow(messages[i])])

\* Faulty variant: the branch starts at the end of the journal.
ForkSeqFaulty(s, messages) ==
    IF rows[s] = Missing THEN 0 ELSE Len(rows[s].events)

\* fork_seq_for_messages: the last event of the journal before another message
\* than those begins; 0 (None) unless the journal tells the same story.
ForkSeq(s, messages) ==
    LET events == rows[s].events
        told == {n \in 1..Len(events) :
                   MessagesOf(SubSeq(events, 1, n)) = messages} IN
    IF rows[s] = Missing \/ told = {} THEN 0
    ELSE CHOOSE n \in told : \A other \in told : other <= n

\* _fork_event_is_excluded
Excluded == {"queue", "task", "agent"}

\* fork_session: the journal up to forkSeq, without queue, tasks and agents.
ForkRows(db, s, forkSeq, target) ==
    LET keyed == [i \in 1..forkSeq |->
                   [db.rows[s].events[i] EXCEPT !.key = [of |-> s, seq |-> i]]]
        copied == SelectSeq(keyed, LAMBDA e : e.kind \notin Excluded)
        branch == [Event("branch", s) EXCEPT !.key = [of |-> s, seq |-> 0]] IN
    AppendRows(Upsert(db, target, s, forkSeq), target, copied \o <<branch>>)

-----------------------------------------------------------------------------
(* store.py: _shadow_try *)

\* Whatever goes wrong ends the shadow of this process, and nothing else.
ShadowTry(db) ==
    \/ /\ shadow = "on" /\ db.ok /\ UNCHANGED <<shadow, conflict>>
       /\ rows' = db.rows /\ agentRuns' = db.runs
    \/ /\ shadow = "on" /\ shadow' = "broken"
       /\ conflict' = (conflict \/ ~db.ok) /\ UNCHANGED <<rows, agentRuns>>
    \/ shadow # "on" /\ UNCHANGED <<rows, agentRuns, shadow, conflict>>

Small(table) ==
    \A s \in Here(table) :
        Len(SelectSeq(table[s].events, LAMBDA e : e.key = NoKey)) <= MaxRows

\* shadow_events: what the process does is journalled as it happens.
Journal(events) ==
    /\ LET known == Bootstrap(Database, live.id, Missing, 0, live.messages)
       IN  ShadowTry(AppendRows(known, live.id, events))
    /\ Small(rows')

Say(m) ==
    /\ Len(live.messages) < MaxWords
    /\ live' = [live EXCEPT !.messages = Append(@, m)]
    /\ Journal(<<MessageRow(m)>>)
    /\ UNCHANGED records

\* Events that are no messages: a turn begins or ends, an input is queued, an
\* agent is spawned or reports.
Happens ==
    /\ \E kind \in {"turn", "queue"} :
          Journal(<<Event(kind, "none")>>)
    /\ UNCHANGED <<records, live>>

AgentReports(a) ==
    /\ agentRuns[a] \in {Missing, live.id}
    /\ Journal(<<Event("agent", a)>>)
    /\ UNCHANGED <<records, live>>

\* _shadow_sync_session, after the file was written.
Sync(s, record) ==
    ShadowTry(Bootstrap(Database, s, record.parent, record.forkSeq,
                        record.messages))

\* save_session: nothing is saved before the user said something.
Saved ==
    LET old == records[live.id] IN
    IF old = Missing
    THEN [messages |-> live.messages, parent |-> Missing, forkSeq |-> 0,
          forkedAt |-> 0]
    ELSE [old EXCEPT !.messages = live.messages]

SaveRecord ==
    /\ Len(live.messages) > 1
    /\ records' = [records EXCEPT ![live.id] = Saved]
    /\ Sync(live.id, Saved) /\ Small(rows')
    /\ UNCHANGED live

Unused == Sessions \ (Here(records) \cup {live.id})

\* fork_session: the file of the branch first, then its journal; the writer
\* may have died in between.  Nothing that runs goes with it.
ForkSession(s, n) ==
    /\ s \in Here(records) /\ Unused # {}
    /\ n \in 1..Len(records[s].messages)
    /\ s = live.id => records[s].messages = live.messages
    /\ LET source == records[s]
           target == CHOOSE id \in Unused : TRUE       \* new_id()
           forkSeq == IF n = Len(source.messages) /\ shadow = "on"
                      THEN ForkSeq(s, source.messages) ELSE 0
           branch == [messages |-> SubSeq(source.messages, 1, n),
                      parent |-> s, forkSeq |-> forkSeq, forkedAt |-> n]
           made == IF forkSeq # 0 THEN ForkRows(Database, s, forkSeq, target)
                   ELSE Bootstrap(Database, target, s, 0, branch.messages) IN
       /\ records' = [records EXCEPT ![target] = branch]
       /\ ShadowTry(made)
       /\ Small(rows')
    /\ UNCHANGED live

\* The process ends, or goes to another session, which it reads from its file;
\* the next one has a writer of its own, or none.
Start(s) ==
    /\ s \in Here(records)
    /\ live' = [id |-> s, messages |-> records[s].messages]
    /\ shadow' \in {"off", "on"}
    /\ UNCHANGED <<records, rows, agentRuns, conflict>>

ShadowNext ==
    \/ \E m \in Words : Say(m)
    \/ Happens
    \/ \E a \in Runs : AgentReports(a)
    \/ SaveRecord
    \/ \E s \in Sessions : \E n \in 1..MaxWords : ForkSession(s, n)
    \/ \E s \in Sessions : Start(s)

ShadowSpec == ShadowInit /\ [][ShadowNext]_shadowVars

-----------------------------------------------------------------------------
(* Properties *)

\* However the journal was interrupted, a branch that names a place in it has
\* the messages of its record, in the database as in its file; none of it is
\* work of the source; and no branch makes the database refuse it.
BranchIsFaithful ==
    /\ \A c \in Here(records) :
         LET r == records[c] IN
         r.forkSeq # 0 =>
           /\ r.parent \in Here(rows) /\ r.forkSeq <= Len(rows[r.parent].events)
           /\ MessagesOf(SubSeq(rows[r.parent].events, 1, r.forkSeq))
                = SubSeq(r.messages, 1, r.forkedAt)
    /\ \A c \in Here(rows) : \A i \in 1..Len(rows[c].events) :
         LET before == SubSeq(rows[c].events, 1, i - 1)
             branch == rows[c].events[i] IN
         branch.kind = "branch" /\ branch.key.seq = 0 =>
           /\ MessagesOf(before)
                = SubSeq(records[c].messages, 1, records[c].forkedAt)
           /\ \A j \in 1..Len(before) :
                before[j].kind \notin {"queue", "agent"}
    /\ ~conflict
=============================================================================
