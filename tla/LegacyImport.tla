----------------------------- MODULE LegacyImport -----------------------------
(***************************************************************************)
(* core/migrations.py: the session files and usage rows of version 1 go     *)
(* into a new database: into a temporary one, source by source, each in a   *)
(* transaction, and by a link to its final name once all are in.  Several   *)
(* migrations may be started, sessions go on writing their files, and the   *)
(* database may be created by a program that opens it.                      *)
(***************************************************************************)
EXTENDS Naturals

CONSTANTS
    Sources,    \* session files, and the file of usage rows
    Usage,      \* the latter
    Migrators,
    MaxWrites   \* how often sources are written

Nobody == "nobody"

ASSUME ImportAssumption ==
    Usage \in Sources /\ MaxWrites \in Nat /\ Nobody \notin Migrators

VARIABLES
    source,     \* per source: its version, and can it be read?
    temp,       \* the temporary database: does it exist, what is in it
    target,     \* the final one; `began': the sources when that import began
    migLock,    \* *.migrate.lock
    migrator,   \* per process, see Migrator
    spoiled,    \* history: versions that could not be read
    writes      \* bound

importVars == <<source, temp, target, migLock, migrator, spoiled, writes>>

Empty == [s \in Sources |-> 0]     \* no version of any source
NoTemp == [exists |-> FALSE, has |-> Empty]
NoTarget == [by |-> Nobody, has |-> Empty, began |-> Empty]
Versions == [s \in Sources |-> source[s].version]
Outside == [pc |-> "out", todo |-> {}, errors |-> FALSE, began |-> Empty]

Goes(m, pc) == migrator' = [migrator EXCEPT ![m].pc = pc]

\* The finally clause: an error, or the end.
FinishImport(m) ==
    /\ migrator' = [migrator EXCEPT ![m] = Outside]
    /\ migLock' = Nobody

\* Neither of the databases exists.
BeginImport(m) ==
    /\ migrator[m].pc = "out"
    /\ target = NoTarget /\ ~temp.exists
    /\ migrator' = [migrator EXCEPT ![m] =
                       [Outside EXCEPT !.pc = "locking", !.began = Versions]]
    /\ UNCHANGED <<source, temp, target, migLock, spoiled, writes>>

\* O_EXCL; whoever comes second gives up.
LockImport(m) ==
    /\ migrator[m].pc = "locking"
    /\ IF migLock = Nobody
       THEN migLock' = m /\ Goes(m, "opening")
       ELSE UNCHANGED migLock /\ Goes(m, "out")
    /\ UNCHANGED <<source, temp, target, spoiled, writes>>

\* StateStore(temp): made, or the one that a failed import has left meanwhile.
OpenTemp(m) ==
    /\ migrator[m].pc = "opening"
    /\ temp' = [temp EXCEPT !.exists = TRUE]
    /\ migrator' = [migrator EXCEPT ![m].pc = "importing", ![m].todo = Sources]
    /\ UNCHANGED <<source, target, migLock, spoiled, writes>>

Imported(m, s, good, content) ==
    /\ migrator' = [migrator EXCEPT ![m].todo = @ \ {s},
                                    ![m].errors = @ \/ ~good]
    /\ temp' = content
    /\ UNCHANGED <<source, target, migLock, spoiled, writes>>

\* import_legacy_session, import_legacy_usage: the version that is already in
\* is skipped, another is a conflict; of the usage rows the good ones go in,
\* an unreadable session does not.
ImportSource(m, s) ==
    LET v == source[s] IN
    /\ migrator[m].pc = "importing" /\ s \in migrator[m].todo
    /\ CASE ~v.good /\ s # Usage   -> Imported(m, s, FALSE, temp)
         [] temp.has[s] = v.version    -> Imported(m, s, v.good, temp)
         [] temp.has[s] \notin {0, v.version} -> Imported(m, s, FALSE, temp)
         [] OTHER -> Imported(m, s, v.good, [temp EXCEPT !.has[s] = v.version])

\* Sources with errors, or an I/O error at any step: the temporary database
\* stays, with a list of what was wrong.
Reject(m) ==
    /\ migrator[m].pc \in {"opening", "importing", "published"}
    /\ FinishImport(m)
    /\ UNCHANGED <<source, temp, target, spoiled, writes>>

\* os.link never replaces what has appeared meanwhile.
Publish(m) ==
    /\ migrator[m].pc = "importing" /\ migrator[m].todo = {}
    /\ ~migrator[m].errors
    /\ IF target = NoTarget
       THEN /\ target' = [by |-> "import", has |-> temp.has,
                          began |-> migrator[m].began]
            /\ Goes(m, "published") /\ UNCHANGED migLock
       ELSE UNCHANGED target /\ FinishImport(m)
    /\ UNCHANGED <<source, temp, spoiled, writes>>

\* The temporary name goes; the result is opened and checked.
RemoveTemp(m) ==
    /\ migrator[m].pc = "published"
    /\ temp' = NoTemp
    /\ FinishImport(m)
    /\ UNCHANGED <<source, target, spoiled, writes>>

\* The process dies: only what it has not committed is gone.
ImportDies(m) ==
    /\ migrator[m].pc # "out"
    /\ migrator' = [migrator EXCEPT ![m] = Outside]
    /\ UNCHANGED <<source, temp, target, migLock, spoiled, writes>>

\* The user clears what a dead import left behind: the lock, or the database.
CleanUp ==
    /\ \/ migLock = Nobody
       \/ migLock \in Migrators /\ migrator[migLock].pc = "out"
    /\ \/ migLock' = Nobody /\ UNCHANGED temp
       \/ temp' = NoTemp /\ UNCHANGED migLock
    /\ UNCHANGED <<source, target, migrator, spoiled, writes>>

\* A session of version 1 goes on; a write may be torn.
WriteSource(s) ==
    /\ writes < MaxWrites /\ writes' = writes + 1
    /\ \E good \in BOOLEAN :
          /\ source' = [source EXCEPT
                ![s] = [version |-> @.version + 1, good |-> good]]
          /\ spoiled' = IF good THEN spoiled
                        ELSE spoiled \cup {<<s, source[s].version + 1>>}
    /\ UNCHANGED <<temp, target, migLock, migrator>>

\* A program opens the database under its final name.
CreateTarget ==
    /\ target = NoTarget /\ target' = [NoTarget EXCEPT !.by = "other"]
    /\ UNCHANGED <<source, temp, migLock, migrator, spoiled, writes>>

ImportInit ==
    /\ source = [s \in Sources |-> [version |-> 1, good |-> TRUE]]
    /\ temp = NoTemp /\ target = NoTarget /\ migLock = Nobody
    /\ migrator = [m \in Migrators |-> Outside]
    /\ spoiled = {} /\ writes = 0

ImportNext ==
    \/ \E m \in Migrators :
          \/ BeginImport(m) \/ LockImport(m) \/ OpenTemp(m) \/ Reject(m)
          \/ Publish(m) \/ RemoveTemp(m) \/ ImportDies(m)
          \/ \E s \in Sources : ImportSource(m, s)
    \/ CleanUp \/ CreateTarget
    \/ \E s \in Sources : WriteSource(s)

ImportSpec == ImportInit /\ [][ImportNext]_importVars
-----------------------------------------------------------------------------

\* The database that appears under the final name has every source, whole,
\* none older than when that import began, whatever earlier or concurrent
\* imports have left in the temporary one.
ImportIsWhole ==
    target.by = "import" =>
        \A s \in Sources :
            /\ target.has[s] # 0 /\ <<s, target.has[s]>> \notin spoiled
            /\ target.has[s] >= target.began[s]
=============================================================================
