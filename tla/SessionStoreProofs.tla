------------------------- MODULE SessionStoreProofs -------------------------
(***************************************************************************)
(* SessionStore for any number of processes, hosts, sessions, messages,    *)
(* faults and missed heartbeats: no save loses a message (MessagesKept),   *)
(* and a process that waits runs what it has leased and has read all of    *)
(* it, beside a catalog that follows the records (StoreConsistent).        *)
(*                                                                         *)
(* The properties speak of processes that wait.  The invariant follows a   *)
(* command through its steps: where the session it came from is (Switch),  *)
(* what it has read (Reads), and what a record on its way to the disk may  *)
(* contain (Writes).  OthersKept: a step of one process cannot disturb     *)
(* what another one relies on.                                             *)
(***************************************************************************)
EXTENDS SessionStore, FiniteSetTheorems, TLAPS

-----------------------------------------------------------------------------
(* The invariant *)

\* A transcript is finite, so that the catalog can count its messages.
Texts == {T \in SUBSET Nat : IsFiniteSet(T)}

Records == [text : Texts, title : Nat, status : {"none", "active", "archived"}]
Runtimes == [id : Sessions \cup {None}, text : Texts]
Maybe == Sessions \cup {None}
JobType ==
    [kind : {"none", "save", "save to fork", "fork", "resume", "new"},
     source : Maybe, target : Maybe, text : Texts, on : Maybe,
     record : Records, prev : Runtimes]
Places == Writing \cup {"idle", "fork", "acquire", "load", "save", "swap",
                        "commit", "release", "undo"}

VarTypes ==
    /\ file \in [Sessions -> Records]
    /\ lease \in [Sessions -> [owner : Procs \cup {None}, fresh : BOOLEAN]]
    /\ index \in [Sessions -> [title : Nat, count : Nat,
                               status : {"none", "active", "archived"}]]
    /\ dirty \in BOOLEAN
    /\ up \in [Procs -> {"new", "up", "gone"}]
    /\ pc \in [Procs -> Places]
    /\ job \in [Procs -> JobType]
    /\ run \in [Procs -> Runtimes]
    /\ cur \in [Procs -> Maybe]
    /\ pend \in [Procs -> SUBSET Sessions]
    /\ drawn \in SUBSET Sessions
    /\ messages \in Nat
    /\ lapsed \subseteq Procs

Switches == {"save to fork", "fork", "resume", "new"}

\* What a process relies on from where its command stands: the session it came
\* from is still the one it has leased, and the runtime that one or, once it
\* is swapped, the target.
Place(p) ==
    /\ pc[p] = "idle" <=> job[p] = NoJob
    /\ pc[p] = "fork" => job[p].kind = "save to fork"
    /\ job[p].kind = "save to fork" => job[p].source \in Sessions
    /\ pc[p] \in Writing => job[p].kind # "none"
    /\ pc[p] \in {"acquire", "load"} => job[p].kind = "resume"
    /\ pc[p] \in {"save", "swap", "commit", "release"} =>
         job[p].kind \in {"resume", "new"}
    /\ pc[p] = "undo" => job[p].kind \in {"fork", "resume", "new"}
    /\ up[p] # "up" => pc[p] = "idle" /\ cur[p] = None /\ pend[p] = {}
    /\ up[p] = "new" => \A s \in Sessions : lease[s].owner # p

Switch(p) ==
    /\ cur[p] \notin pend[p] /\ cur[p] \in drawn \cup {None}
    /\ job[p].kind \notin Switches => run[p].id = cur[p] /\ job[p].target = None
    /\ job[p].kind \in Switches =>
         /\ job[p].prev.id = cur[p]
         /\ job[p].target \in drawn /\ job[p].target # cur[p]
         /\ pc[p] \notin {"commit", "release", "undo"} => run[p] = job[p].prev
    /\ pc[p] \in {"commit", "release"} =>
         run[p] = [id |-> job[p].target, text |-> job[p].text]

\* The messages the agent has of the session that is leased.
Base(p) == IF job[p].kind \in Switches THEN job[p].prev.text ELSE run[p].text

\* The target was read again after its lease was acquired.
Loaded(p) ==
    /\ job[p].kind \in {"resume", "new"}
    /\ pc[p] \in Writing \cup {"save", "swap", "commit", "release"}

\* Who has the lease has read all there is.
Reads(p) ==
    /\ cur[p] # None /\ lease[cur[p]].owner = p => file[cur[p]].text \subseteq Base(p)
    /\ Loaded(p) /\ lease[job[p].target].owner = p =>
         file[job[p].target].text \subseteq job[p].text

\* ... and it is not archived, unless he was not heard of.
NotArchived(p) ==
    /\ cur[p] # None /\ lease[cur[p]].owner = p /\ p \notin lapsed =>
         file[cur[p]].status # "archived"
    /\ Loaded(p) /\ lease[job[p].target].owner = p /\ p \notin lapsed =>
         file[job[p].target].status # "archived"

\* A write on its way: it keeps the messages, it adds some only under the
\* lease, and it archives nothing that somebody runs.
Writes(p) ==
    LET on == job[p].on
        r == job[p].record
    IN
    /\ pc[p] \in Writing =>
         /\ on \in drawn
         /\ job[p].kind \in {"save to fork", "resume", "new"} => on = cur[p]
         /\ job[p].kind = "fork" => on = job[p].target
    /\ pc[p] = "marked" =>
         /\ file[on].text \subseteq r.text
         /\ lease[on].owner = p \/ r.text = file[on].text
         /\ on = cur[p] => r.text \subseteq Base(p)
         /\ r.status = "archived" /\ lease[on].owner # None
            /\ up[lease[on].owner] = "up" => lease[on].owner \in lapsed

\* The id of a branch that is not written yet is known to nobody else.
Newborn(p) ==
    job[p].kind = "save to fork" =>
        /\ file[job[p].target] = NoRecord
        /\ \A q \in Procs :
             /\ cur[q] # job[p].target
             /\ q # p => job[q].target # job[p].target
             /\ pc[q] \in Writing => job[q].on # job[p].target

ProcInv(p) ==
    Place(p) /\ Switch(p) /\ Reads(p) /\ NotArchived(p) /\ Writes(p) /\ Newborn(p)

OneWriter == \A p, q \in Procs : pc[p] \in Writing /\ pc[q] \in Writing => p = q

\* The catalog lacks at most the record that is being written.
Derived ==
    /\ CatalogFree /\ ~dirty => index = Catalog
    /\ \A p \in Procs : pc[p] \in Writing =>
         /\ dirty
         /\ pc[p] \in {"marked", "indexed"} => index = Catalog
         /\ pc[p] = "replaced" =>
              /\ file[job[p].on] = job[p].record
              /\ \A s \in Sessions \ {job[p].on} : index[s] = Summary(file[s])

Stale == \A s \in Sessions :
            lease[s].owner # None /\ ~lease[s].fresh => lease[s].owner \in lapsed

Undrawn == \A s \in Sessions \ drawn : file[s] = NoRecord

StoreInv ==
    /\ VarTypes
    /\ \A p \in Procs : ProcInv(p)
    /\ OneWriter /\ Derived /\ Stale /\ Undrawn

-----------------------------------------------------------------------------
(* Types *)

LEMMA TextTypes ==
    /\ {} \in Texts /\ {0} \in Texts
    /\ \A T \in Texts : \A n \in Nat : T \cup {n} \in Texts
    /\ \A T \in Texts : Cardinality(T) \in Nat
<1>1. IsFiniteSet({}) /\ IsFiniteSet({0})
      BY FS_EmptySet, FS_Singleton
<1>2. \A T \in Texts : \A n \in Nat : IsFiniteSet(T \cup {n})
      BY FS_AddElement DEF Texts
<1>3. \A T \in Texts : Cardinality(T) \in Nat
      BY FS_CardinalityType DEF Texts
<1> QED BY <1>1, <1>2, <1>3 DEF Texts

SummaryType == [title : Nat, count : Nat,
                status : {"none", "active", "archived"}]

LEMMA SummaryTypes == \A r \in Records : Summary(r) \in SummaryType
<1> TAKE r \in Records
<1>1. r.text \in Texts /\ r.title \in Nat /\ r.status \in {"none", "active", "archived"}
      BY DEF Records
<1> QED BY <1>1, TextTypes DEF Summary, SummaryType

LEMMA NoTypes ==
    /\ NoRecord \in Records
    /\ [id |-> None, text |-> {}] \in Runtimes
    /\ NoJob \in JobType
    /\ NoJob.kind = "none" /\ NoJob.target = None /\ NoJob.on = None
<1>1. NoRecord \in Records BY TextTypes DEF NoRecord, Records
<1>2. [id |-> None, text |-> {}] \in Runtimes BY TextTypes DEF Runtimes, Maybe
<1> QED BY <1>1, <1>2, TextTypes DEF NoJob, JobType, Maybe

LEMMA IndexTypes ==
    ASSUME VarTypes
    PROVE  /\ Catalog \in [Sessions -> SummaryType]
           /\ Index \in [Sessions -> SummaryType]
<1>1. \A s \in Sessions : file[s] \in Records BY DEF VarTypes
<1>2. Catalog \in [Sessions -> SummaryType] BY <1>1, SummaryTypes DEF Catalog
<1> QED BY <1>2 DEF Index, VarTypes, SummaryType

\* The catalog, once it is read, says what the records say.
LEMMA IndexIsCatalog ==
    ASSUME StoreInv, CatalogFree PROVE Index = Catalog
BY DEF StoreInv, Derived, Index

LEMMA CatalogStatus ==
    ASSUME NEW s \in Sessions PROVE Catalog[s].status = file[s].status
BY DEF Catalog, Summary

-----------------------------------------------------------------------------
(* What a step of one process leaves to the others *)

\* The others rest.
Rest(a) ==
    /\ \A q \in Procs \ {a} :
          /\ pc'[q] = pc[q] /\ job'[q] = job[q] /\ run'[q] = run[q]
          /\ cur'[q] = cur[q] /\ pend'[q] = pend[q] /\ up'[q] = up[q]
    /\ drawn \subseteq drawn' /\ lapsed \subseteq lapsed'
    /\ up'[a] = "up" => up[a] # "gone"

\* Leases are taken and dropped where nobody else is writing.
LeasesFit(a) ==
    \A s \in Sessions :
        \/ lease'[s] = lease[s]
        \/ /\ lease'[s] = NoLease \/ lease'[s] = [owner |-> a, fresh |-> TRUE]
           /\ \A q \in Procs \ {a} : pc[q] \in Writing => job[q].on # s

FilesFit(a) ==
    \/ file' = file
    \/ pc[a] = "marked" /\ file' = [file EXCEPT ![job[a].on] = job[a].record]

\* No session is named whose id another process has drawn for a branch.
Known(x, a) ==
    \/ x \in {None, cur[a], job[a].target}
    \/ x \notin drawn
    \/ x \in Sessions /\ file[x].status # "none"

Names(a) ==
    /\ Known(cur'[a], a) /\ Known(job'[a].target, a)
    /\ pc'[a] \in Writing => \/ Known(job'[a].on, a)
                             \/ pc[a] \in Writing /\ job'[a].on = job[a].on

Frame(a) == Rest(a) /\ LeasesFit(a) /\ FilesFit(a) /\ Names(a)

LEMMA OthersKept ==
    ASSUME StoreInv, NEW a \in Procs, Frame(a), NEW q \in Procs \ {a}
    PROVE  ProcInv(q)'
<1> USE StoreAssumption
<1>0. VarTypes /\ ProcInv(q) /\ ProcInv(a) BY DEF StoreInv
<1>1. /\ pc'[q] = pc[q] /\ job'[q] = job[q] /\ run'[q] = run[q]
      /\ cur'[q] = cur[q] /\ pend'[q] = pend[q] /\ up'[q] = up[q]
      /\ drawn \subseteq drawn' /\ lapsed \subseteq lapsed'
      BY DEF Frame, Rest
<1>2. ASSUME NEW s \in Sessions
      PROVE  /\ lease'[s].owner \in {lease[s].owner, None, a}
             /\ lease'[s].owner = q => lease[s].owner = q
             /\ pc[q] \in Writing /\ job[q].on = s => lease'[s] = lease[s]
      BY <1>0 DEF Frame, LeasesFit, NoLease
<1>3. Place(q)'
      BY <1>0, <1>1, <1>2 DEF ProcInv, Place
<1>4. Switch(q)'
      BY <1>0, <1>1 DEF ProcInv, Switch
<1>5. ASSUME NEW s \in Sessions, lease'[s].owner = q
      PROVE  /\ file'[s].text = file[s].text
             /\ file'[s].status = file[s].status \/ file'[s].status # "archived"
                \/ up[q] # "up" \/ q \in lapsed
      <2>1. lease[s].owner = q BY <1>2, <1>5
      <2>2. CASE file' = file BY <2>2
      <2>3. CASE /\ pc[a] = "marked"
                 /\ file' = [file EXCEPT ![job[a].on] = job[a].record]
            <3>1. CASE s # job[a].on BY <1>0, <2>3, <3>1 DEF VarTypes
            <3>2. CASE s = job[a].on
                  <4>1. file'[s] = job[a].record BY <1>0, <2>3, <3>2 DEF VarTypes
                  <4>2. job[a].record.text = file[s].text
                        BY <1>0, <2>1, <2>3, <3>2 DEF ProcInv, Writes
                  <4>3. job[a].record.status = "archived" /\ up[q] = "up" => q \in lapsed
                        BY <1>0, <2>1, <2>3, <3>2 DEF ProcInv, Writes
                  <4> QED BY <4>1, <4>2, <4>3
            <3> QED BY <3>1, <3>2
      <2> QED BY <2>2, <2>3 DEF Frame, FilesFit
<1>6. Base(q)' = Base(q) /\ Loaded(q)' = Loaded(q)
      BY <1>1 DEF Base, Loaded
<1>7. /\ cur[q] # None => cur[q] \in Sessions /\ up[q] = "up"
      /\ Loaded(q) => job[q].target \in Sessions /\ up[q] = "up"
      BY <1>0 DEF VarTypes, Maybe, ProcInv, Place, Switch, Loaded, Writing, Switches
<1>8. Reads(q)'
      BY <1>0, <1>1, <1>2, <1>5, <1>6, <1>7 DEF ProcInv, Reads
<1>9. NotArchived(q)'
      BY <1>0, <1>1, <1>2, <1>5, <1>6, <1>7 DEF ProcInv, NotArchived
<1>10. Writes(q)'
      <2>1. CASE pc[q] \notin Writing BY <1>1, <2>1 DEF Writes, Writing
      <2>2. CASE pc[q] \in Writing
            <3>1. pc[a] \notin Writing /\ job[q].on \in Sessions
                  BY <1>0, <2>2 DEF StoreInv, OneWriter, VarTypes, ProcInv, Writes
            <3>2. file' = file BY <3>1 DEF Frame, FilesFit, Writing
            <3>3. lease'[job[q].on] = lease[job[q].on] BY <1>2, <2>2, <3>1
            <3> DEFINE o == lease[job[q].on].owner
            <3>4. ASSUME o # None, up'[o] = "up" PROVE up[o] = "up"
                  <4>2. o \in Procs BY <1>0, <3>1, <3>4 DEF VarTypes
                  <4>3. CASE o # a BY <3>4, <4>2, <4>3 DEF Frame, Rest
                  <4>4. CASE o = a
                        <5>1. up[a] \in {"new", "up"}
                              BY <1>0, <3>4, <4>4 DEF Frame, Rest, VarTypes
                        <5>2. up[a] # "new"
                              BY <1>0, <3>1, <4>4 DEF ProcInv, Place
                        <5> QED BY <4>4, <5>1, <5>2
                  <4> QED BY <4>3, <4>4
            <3>5. /\ job'[q] = job[q] /\ pc'[q] = pc[q] /\ cur'[q] = cur[q]
                  /\ Base(q)' = Base(q)
                  BY <1>1, <1>6
            <3>6. pc[q] = "marked" /\ job[q].record.status = "archived" /\ o # None
                  /\ up'[o] = "up" => o \in lapsed'
                  BY <1>0, <1>1, <3>4 DEF ProcInv, Writes
            <3> DEFINE on == job[q].on
                       r == job[q].record
            <3>7. /\ on \in drawn'
                  /\ job[q].kind \in {"save to fork", "resume", "new"} => on = cur[q]
                  /\ job[q].kind = "fork" => on = job[q].target
                  BY <1>0, <1>1, <2>2 DEF ProcInv, Writes
            <3>8. pc[q] = "marked" =>
                    /\ file'[on].text \subseteq r.text
                    /\ lease'[on].owner = q \/ r.text = file'[on].text
                    /\ on = cur[q] => r.text \subseteq Base(q)
                  BY <1>0, <3>2, <3>3 DEF ProcInv, Writes
            <3>9. pc[q] = "marked" /\ r.status = "archived"
                  /\ lease'[on].owner # None /\ up'[lease'[on].owner] = "up"
                  => lease'[on].owner \in lapsed'
                  BY <3>3, <3>6
            <3>10. pc[q] = "marked" /\ on = cur[q] => r.text \subseteq Base(q)'
                  BY <3>5, <3>8
            <3> QED BY <3>5, <3>7, <3>8, <3>9, <3>10, Zenon DEF Writes
      <2> QED BY <2>1, <2>2
<1>11. Newborn(q)'
      <2> DEFINE t == job[q].target
      <2>1. SUFFICES ASSUME job[q].kind = "save to fork" PROVE Newborn(q)'
            BY <1>1 DEF Newborn
      <2>2. /\ t \in drawn /\ t \in Sessions /\ t # None
            /\ file[t] = NoRecord
            /\ \A r \in Procs : /\ cur[r] # t
                                /\ r # q => job[r].target # t
                                /\ pc[r] \in Writing => job[r].on # t
            <3>1. t \in drawn BY <1>0, <2>1 DEF ProcInv, Switch, Switches
            <3>2. drawn \subseteq Sessions /\ None \notin Sessions BY <1>0 DEF VarTypes
            <3> QED BY <1>0, <2>1, <3>1, <3>2 DEF ProcInv, Newborn
      <2>3. file'[t] = NoRecord
            BY <1>0, <2>2 DEF Frame, FilesFit, VarTypes, Writing
      <2>4. \A x : Known(x, a) => x # t
            BY <1>0, <2>2 DEF Known, NoRecord
      <2>5. /\ cur'[a] # t /\ job'[a].target # t
            /\ pc'[a] \in Writing => job'[a].on # t
            BY <2>2, <2>4 DEF Frame, Names
      <2>6. ASSUME NEW r \in Procs
            PROVE  /\ cur'[r] # t
                   /\ r # q => job'[r].target # t
                   /\ pc'[r] \in Writing => job'[r].on # t
            BY <2>2, <2>5 DEF Frame, Rest
      <2> QED BY <1>1, <2>3, <2>6 DEF Newborn
<1> QED BY <1>3, <1>4, <1>8, <1>9, <1>10, <1>11 DEF ProcInv

LEMMA FrameKeeps ==
    ASSUME StoreInv, NEW a \in Procs, Frame(a) PROVE Stale' /\ Undrawn'
<1>1. Stale'
      <2> SUFFICES ASSUME NEW s \in Sessions, lease'[s].owner # None, ~lease'[s].fresh
                   PROVE  lease'[s].owner \in lapsed'
          BY DEF Stale
      <2>1. lease'[s] = lease[s] BY DEF Frame, LeasesFit, NoLease
      <2> QED BY <2>1 DEF StoreInv, Stale, Frame, Rest
<1>2. Undrawn'
      <2> SUFFICES ASSUME NEW s \in Sessions \ drawn' PROVE file'[s] = NoRecord
          BY DEF Undrawn
      <2>1. s \notin drawn /\ file[s] = NoRecord BY DEF Frame, Rest, StoreInv, Undrawn
      <2>2. pc[a] = "marked" => job[a].on # s
            BY <2>1 DEF StoreInv, ProcInv, Writes, Writing
      <2> QED BY <2>1, <2>2 DEF Frame, FilesFit, StoreInv, VarTypes
<1> QED BY <1>1, <1>2

-----------------------------------------------------------------------------
(* One writer, and the catalog *)

\* A step after which nobody writes who did not, and no record has changed.
LEMMA NoNewWriter ==
    ASSUME StoreInv, NEW a \in Procs, Rest(a), file' = file,
           pc'[a] \in Writing => pc'[a] = pc[a] /\ job'[a] = job[a],
           (index' = index /\ dirty' = dirty) \/ ReadIndex
    PROVE  OneWriter' /\ Derived'
<1>1. \A q \in Procs : pc'[q] \in Writing =>
          pc[q] \in Writing /\ pc'[q] = pc[q] /\ job'[q] = job[q]
      BY DEF Rest
<1>2. OneWriter' BY <1>1 DEF StoreInv, OneWriter
<1>3. Catalog' = Catalog /\ \A s \in Sessions : Summary(file'[s]) = Summary(file[s])
      BY DEF Catalog
<1>4. CASE ReadIndex
      <2>1. index' = Catalog BY <1>4, IndexIsCatalog DEF ReadIndex
      <2>2. \A q \in Procs : pc'[q] \notin Writing
            BY <1>1, <1>4 DEF ReadIndex, CatalogFree
      <2> QED BY <1>2, <1>3, <2>1, <2>2 DEF Derived
<1>5. CASE index' = index /\ dirty' = dirty
      <2>1. CatalogFree' /\ ~dirty' => index' = Catalog'
            <3>1. SUFFICES ASSUME CatalogFree', ~dirty PROVE index = Catalog
                  BY <1>3, <1>5
            <3>2. CatalogFree BY <3>1 DEF StoreInv, Derived, CatalogFree
            <3> QED BY <3>1, <3>2 DEF StoreInv, Derived
      <2>2. ASSUME NEW q \in Procs, pc'[q] \in Writing
            PROVE  /\ dirty'
                   /\ pc'[q] \in {"marked", "indexed"} => index' = Catalog'
                   /\ pc'[q] = "replaced" =>
                        /\ file'[job'[q].on] = job'[q].record
                        /\ \A s \in Sessions \ {job'[q].on} :
                             index'[s] = Summary(file'[s])
            BY <1>1, <1>3, <1>5, <2>2 DEF StoreInv, Derived
      <2> QED BY <1>2, <2>1, <2>2 DEF Derived
<1> QED BY <1>2, <1>4, <1>5

\* A write begins: nobody else is writing, and the catalog is marked.
LEMMA NewWriter ==
    ASSUME StoreInv, NEW a \in Procs, Rest(a), file' = file,
           CatalogFree, index' = Index, dirty' = TRUE, pc'[a] = "marked"
    PROVE  OneWriter' /\ Derived'
<1>1. \A q \in Procs : pc'[q] \in Writing => q = a
      BY DEF Rest, CatalogFree
<1>2. OneWriter' BY <1>1 DEF OneWriter
<1>3. index' = Catalog' BY IndexIsCatalog DEF Catalog
<1> QED BY <1>1, <1>2, <1>3 DEF Derived

\* All a step has to show for the invariant.
LEMMA StepKeeps ==
    ASSUME StoreInv, NEW a \in Procs, Frame(a), VarTypes', ProcInv(a)',
           OneWriter', Derived'
    PROVE  StoreInv'
<1>1. \A q \in Procs : ProcInv(q)' BY OthersKept
<1> QED BY <1>1, FrameKeeps DEF StoreInv

-----------------------------------------------------------------------------
(* The steps of a write *)

LEMMA ReplaceKeeps ==
    ASSUME StoreInv, NEW a \in Procs, Replace(a) PROVE StoreInv'
<1> USE StoreAssumption
<1> DEFINE on == job[a].on
           r == job[a].record
<1>0. VarTypes /\ ProcInv(a) BY DEF StoreInv
<1>1. /\ pc[a] = "marked" /\ pc' = [pc EXCEPT ![a] = "replaced"]
      /\ file' = [file EXCEPT ![on] = r]
      /\ UNCHANGED <<lease, index, dirty, up, job, run, cur, pend, drawn,
                     messages, lapsed>>
      BY DEF Replace, Goto, bounds
<1>2. on \in Sessions /\ r \in Records
      BY <1>0, <1>1 DEF VarTypes, JobType, ProcInv, Writes, Writing
<1>3. VarTypes'
      BY <1>0, <1>1, <1>2 DEF VarTypes, Places, Writing
<1>4. pc'[a] = "replaced" /\ file'[on] = r
      /\ \A s \in Sessions \ {on} : file'[s] = file[s]
      BY <1>0, <1>1, <1>2 DEF VarTypes
<1>5. Frame(a)
      <2>1. Rest(a) BY <1>0, <1>1 DEF Rest, VarTypes
      <2>2. LeasesFit(a) BY <1>1 DEF LeasesFit
      <2>3. FilesFit(a) BY <1>1 DEF FilesFit
      <2>4. Names(a) BY <1>1 DEF Names, Known, Writing
      <2> QED BY <2>1, <2>2, <2>3, <2>4 DEF Frame
<1>6. ProcInv(a)'
      <2>1. Place(a)' BY <1>0, <1>1, <1>4 DEF ProcInv, Place, Writing
      <2>2. Switch(a)' BY <1>0, <1>1, <1>4 DEF ProcInv, Switch
      <2>3. Base(a)' = Base(a) /\ (Loaded(a)' => Loaded(a))
            BY <1>1, <1>4 DEF Base, Loaded, Writing
      <2>4. cur[a] = on => r.text \subseteq Base(a)
            BY <1>0, <1>1 DEF ProcInv, Writes
      <2>5. Loaded(a) => job[a].target # on
            BY <1>0, <1>1 DEF ProcInv, Loaded, Writes, Writing, Switch, Switches
      <2>6. r.status = "archived" /\ lease[on].owner = a /\ up[a] = "up"
            => a \in lapsed
            BY <1>0, <1>1 DEF ProcInv, Writes
      <2>7. up[a] = "up" BY <1>0, <1>1 DEF ProcInv, Place
      <2>8. /\ cur[a] # None => cur[a] \in Sessions
            /\ Loaded(a) => job[a].target \in Sessions
            BY <1>0 DEF VarTypes, Maybe, ProcInv, Switch, Loaded, Switches
      <2>9. Reads(a)'
            BY <1>0, <1>1, <1>4, <2>3, <2>4, <2>5, <2>8 DEF ProcInv, Reads
      <2>10. NotArchived(a)'
            BY <1>0, <1>1, <1>4, <2>3, <2>5, <2>6, <2>7, <2>8
            DEF ProcInv, NotArchived
      <2>11. Writes(a)' BY <1>0, <1>1, <1>4 DEF ProcInv, Writes, Writing
      <2>12. Newborn(a)'
            <3>1. SUFFICES ASSUME job[a].kind = "save to fork" PROVE Newborn(a)'
                  BY <1>1 DEF Newborn
            <3>2. job[a].target # on /\ job[a].target \in Sessions
                  BY <1>0, <1>1, <3>1
                  DEF ProcInv, Writes, Writing, Switch, Switches, VarTypes
            <3>3. \A q \in Procs : pc'[q] \in Writing => pc[q] \in Writing
                  BY <1>0, <1>1 DEF VarTypes, Writing
            <3> QED BY <1>0, <1>1, <1>4, <3>1, <3>2, <3>3 DEF ProcInv, Newborn
      <2> QED BY <2>1, <2>2, <2>9, <2>10, <2>11, <2>12 DEF ProcInv
<1>7. OneWriter'
      BY <1>0, <1>1 DEF StoreInv, OneWriter, VarTypes, Writing
<1>8. Derived'
      <2>1. \A q \in Procs : pc'[q] \in Writing => q = a
            BY <1>1, <1>4, <1>7, <1>0 DEF OneWriter, Writing
      <2>2. ~CatalogFree' BY <1>4 DEF CatalogFree, Writing
      <2>3. dirty /\ index = Catalog BY <1>1 DEF StoreInv, Derived, Writing
      <2>4. \A s \in Sessions \ {on} : index'[s] = Summary(file'[s])
            BY <1>1, <1>4, <2>3 DEF Catalog
      <2> QED BY <1>1, <1>4, <2>1, <2>2, <2>3, <2>4 DEF Derived
<1> QED BY <1>5, <1>3, <1>6, <1>7, <1>8, StepKeeps

\* What a process may write: a record that keeps the messages, with more of
\* them under the lease only, and archived only if nobody runs it.
MayBe(a, s, r) ==
    /\ s \in Sessions /\ r \in Records
    /\ file[s].text \subseteq r.text
    /\ lease[s].owner = a \/ r.text = file[s].text
    /\ r.status = "archived" /\ lease[s].owner # None
       /\ up[lease[s].owner] = "up" => lease[s].owner \in lapsed

\* The command it begins, or goes on with, by writing.
MayBegin(a, s, r, j) ==
    /\ j \in JobType /\ j.kind \in {"save", "save to fork", "resume", "new"}
    /\ j.kind = "save" => pc[a] = "idle" /\ j.target = None
    /\ j.kind = "save to fork" => pc[a] = "idle" /\ j.source \in Sessions
    /\ j.kind # "save" =>
         /\ s = cur[a] /\ r.text \subseteq j.prev.text
         /\ run[a] = j.prev /\ j.prev.id = cur[a]
    /\ j.kind = "save" /\ s = cur[a] => r.text \subseteq run[a].text
    /\ j.kind = "save to fork" =>
         j.target \in Sessions \ drawn /\ drawn' = drawn \cup {j.target}
    /\ j.kind # "save to fork" => drawn' = drawn
    /\ j.kind \in {"resume", "new"} => pc[a] = "save" /\ j = job[a]
    /\ s = cur[a] \/ file[s].status # "none"

LEMMA BeginKeeps ==
    ASSUME StoreInv, NEW a \in Procs, NEW s, NEW r, NEW j,
           up[a] = "up", BeginWrite(a, s, r, j), MayBe(a, s, r), MayBegin(a, s, r, j),
           UNCHANGED <<file, lease, up, run, cur, pend, messages, lapsed>>
    PROVE  StoreInv'
<1> USE StoreAssumption
<1> DEFINE k == [j EXCEPT !.on = s, !.record = r]
<1>0. VarTypes /\ ProcInv(a) BY DEF StoreInv
<1>1. /\ CatalogFree
      /\ index' = Index /\ dirty' = TRUE
      /\ pc' = [pc EXCEPT ![a] = "marked"] /\ job' = [job EXCEPT ![a] = k]
      BY DEF BeginWrite, Goto, Job
<1>2. /\ k \in JobType /\ k.on = s /\ k.record = r /\ k.kind = j.kind
      /\ k.target = j.target /\ k.prev = j.prev /\ k.text = j.text
      /\ k.source = j.source
      BY DEF MayBe, MayBegin, JobType, Maybe
<1> HIDE DEF k
<1>3. pc'[a] = "marked" /\ job'[a] = k BY <1>0, <1>1 DEF VarTypes
<1>4. s \in drawn
      <2>1. CASE file[s].status # "none"
            BY <2>1 DEF StoreInv, Undrawn, NoRecord, MayBe
      <2>2. CASE s = cur[a]
            BY <1>0, <2>2 DEF ProcInv, Switch, MayBe
      <2> QED BY <2>1, <2>2 DEF MayBegin
<1>5. drawn' \in SUBSET Sessions /\ drawn \subseteq drawn'
      <2>1. drawn \in SUBSET Sessions BY <1>0 DEF VarTypes
      <2>2. drawn' = drawn \/ \E x \in Sessions : drawn' = drawn \cup {x}
            BY DEF MayBegin
      <2> QED BY <2>1, <2>2
<1>6. VarTypes'
      <2>1. index' \in [Sessions -> SummaryType] BY <1>0, <1>1, IndexTypes
      <2> QED BY <1>0, <1>1, <1>2, <1>5, <2>1
              DEF VarTypes, Places, Writing, SummaryType
<1>7. Frame(a)
      <2>1. Rest(a) BY <1>0, <1>1, <1>5 DEF Rest, VarTypes
      <2>2. LeasesFit(a) BY DEF LeasesFit
      <2>3. FilesFit(a) BY DEF FilesFit
      <2>4. Known(s, a) BY DEF Known, MayBe, MayBegin
      <2>5. Known(j.target, a)
            <3>1. CASE j.kind = "save" BY <3>1 DEF MayBegin, Known
            <3>2. CASE j.kind = "save to fork" BY <3>2 DEF MayBegin, Known
            <3>3. CASE j.kind \in {"resume", "new"} BY <3>3 DEF MayBegin, Known
            <3> QED BY <3>1, <3>2, <3>3 DEF MayBegin
      <2>6. Names(a) BY <1>2, <1>3, <2>4, <2>5 DEF Names, Known
      <2> QED BY <2>1, <2>2, <2>3, <2>6 DEF Frame
<1>8. OneWriter' /\ Derived' BY <1>1, <1>3, <1>7, NewWriter DEF Frame
<1>9. ProcInv(a)'
      <2>0. /\ pc[a] = "idle" => job[a] = NoJob /\ job[a].kind = "none"
            /\ k.kind = "save" => pc[a] = "idle"
            /\ k.kind = "save to fork" => pc[a] = "idle" /\ k.source \in Sessions
            /\ k.kind \in {"resume", "new"} => pc[a] = "save" /\ j = job[a]
            /\ k.kind \in {"save", "save to fork", "resume", "new"}
            BY <1>0, <1>2, NoTypes DEF MayBegin, ProcInv, Place
      <2>1. Place(a)'
            BY <1>0, <1>2, <1>3, <2>0, NoTypes DEF ProcInv, Place
      <2>2. Switch(a)'
            BY <1>0, <1>2, <1>3, <1>5, <2>0 DEF ProcInv, Switch, Switches, MayBegin
      <2>7. Base(a)' = Base(a)
            BY <1>2, <1>3, <2>0 DEF Base, Switches, MayBegin
      <2>8. /\ Loaded(a)' => Loaded(a)
            /\ Loaded(a)' => k.target = job[a].target /\ k.text = job[a].text
            BY <1>2, <1>3, <2>0 DEF Loaded, Writing
      <2>3. Reads(a)'
            BY <1>0, <1>3, <2>7, <2>8 DEF ProcInv, Reads
      <2>4. NotArchived(a)'
            BY <1>0, <1>3, <2>8 DEF ProcInv, NotArchived
      <2>5. Writes(a)'
            <3>1. s \in drawn' BY <1>4, <1>5
            <3>2. s = cur[a] => r.text \subseteq Base(a)
                  BY <1>2, <2>0 DEF MayBegin, Base, Switches
            <3>3. k.kind \in {"save to fork", "resume", "new"} => s = cur[a]
                  BY <1>2 DEF MayBegin
            <3>4. k.kind # "fork" BY <2>0
            <3>5. k.on = s /\ k.record = r BY <1>2
            <3>6. /\ file'[s].text \subseteq r.text
                  /\ lease'[s].owner = a \/ r.text = file'[s].text
                  /\ s = cur'[a] => r.text \subseteq Base(a)'
                  BY <2>7, <3>2 DEF MayBe
            <3>7. r.status = "archived" /\ lease'[s].owner # None
                  /\ up'[lease'[s].owner] = "up" => lease'[s].owner \in lapsed'
                  BY DEF MayBe
            <3>8. k.kind \in {"save to fork", "resume", "new"} => s = cur'[a]
                  BY <3>3
            <3> QED BY <1>3, <3>1, <3>4, <3>5, <3>6, <3>7, <3>8 DEF Writes, Writing
      <2>6. Newborn(a)'
            <3>1. SUFFICES ASSUME k.kind = "save to fork" PROVE Newborn(a)'
                  BY <1>3 DEF Newborn
            <3>2. k.target \in Sessions \ drawn BY <1>2, <3>1 DEF MayBegin
            <3>3. file[k.target] = NoRecord BY <3>2 DEF StoreInv, Undrawn
            <3>4. ASSUME NEW q \in Procs
                  PROVE  /\ cur[q] # k.target
                         /\ q # a => job'[q].target # k.target
                         /\ pc'[q] \in Writing => job'[q].on # k.target
                  <4>0. ProcInv(q) /\ None \notin Sessions BY DEF StoreInv
                  <4>1. cur[q] # k.target
                        BY <3>2, <4>0 DEF ProcInv, Switch
                  <4>2. job[q].target # k.target
                        BY <3>2, <4>0 DEF ProcInv, Switch
                  <4>3. pc[q] \in Writing => job[q].on # k.target
                        BY <3>2, <4>0 DEF ProcInv, Writes
                  <4> QED BY <1>0, <1>1, <1>2, <1>3, <1>4, <3>2, <4>1, <4>2, <4>3
                          DEF VarTypes
            <3> QED BY <1>3, <3>1, <3>3, <3>4 DEF Newborn
      <2> QED BY <2>1, <2>2, <2>3, <2>4, <2>5, <2>6 DEF ProcInv
<1> QED BY <1>6, <1>7, <1>8, <1>9, StepKeeps

\* Under its lease a process may write what it has, with the old status.
LEMMA SavedMayBe ==
    ASSUME StoreInv, NEW a \in Procs, cur[a] # None, run[a].id = cur[a],
           Base(a) = run[a].text, MayWrite(a, cur[a], TRUE), up[a] = "up"
    PROVE  MayBe(a, cur[a], SavedRecord(a))
<1> DEFINE s == cur[a]
<1>0. VarTypes /\ ProcInv(a) BY DEF StoreInv
<1>1. s \in Sessions /\ file[s] \in Records /\ run[a].text \in Texts
      BY <1>0 DEF VarTypes, Maybe, Runtimes
<1>2. lease[s].owner = a BY DEF MayWrite
<1>3. /\ SavedRecord(a) \in Records
      /\ SavedRecord(a).text = run[a].text
      /\ SavedRecord(a).status = "archived" => file[s].status = "archived"
      BY <1>1 DEF SavedRecord, Records
<1>4. file[s].text \subseteq run[a].text BY <1>0, <1>2 DEF ProcInv, Reads
<1>5. file[s].status = "archived" => a \in lapsed
      BY <1>0, <1>2 DEF ProcInv, NotArchived
<1> QED BY <1>1, <1>2, <1>3, <1>4, <1>5 DEF MayBe

\* Metadata are written under the lease, or if nobody has a live one.
LEMMA EditedMayBe ==
    ASSUME StoreInv, NEW a \in Procs, cur[a] # None, run[a].id = cur[a],
           NEW s \in Sessions, MayWrite(a, s, s = run[a].id), up[a] = "up",
           NEW r \in Records, r.text = file[s].text,
           s = run[a].id /\ r.status = "archived" => file[s].status = "archived"
    PROVE  MayBe(a, s, r)
<1> USE StoreAssumption
<1>0. VarTypes /\ ProcInv(a) /\ Stale BY DEF StoreInv
<1>1. CASE s = run[a].id
      <2>1. lease[s].owner = a BY <1>1 DEF MayWrite
      <2>2. file[s].status = "archived" => a \in lapsed
            BY <1>0, <1>1, <2>1 DEF ProcInv, NotArchived
      <2> QED BY <1>1, <2>1, <2>2 DEF MayBe
<1>2. CASE s # run[a].id
      <2>1. ~Live(s, a) BY <1>2 DEF MayWrite
      <2>2. ASSUME lease[s].owner # None, up[lease[s].owner] = "up"
            PROVE  lease[s].owner \in lapsed
            BY <1>0, <2>1, <2>2 DEF Live, Stale, VarTypes
      <2> QED BY <2>2 DEF MayBe
<1> QED BY <1>1, <1>2

LEMMA IdleFacts ==
    ASSUME StoreInv, NEW a \in Procs, Ready(a)
    PROVE  /\ up[a] = "up" /\ pc[a] = "idle" /\ job[a] = NoJob
           /\ job[a].kind = "none" /\ job[a].target = None
           /\ cur[a] # None /\ cur[a] \in Sessions /\ run[a].id = cur[a]
           /\ cur[a] \in drawn /\ Base(a) = run[a].text
<1>1. ProcInv(a) /\ cur[a] \in Maybe BY DEF StoreInv, VarTypes
<1>2. job[a] = NoJob /\ job[a].kind = "none" /\ job[a].target = None
      BY <1>1, NoTypes DEF Ready, Idle, ProcInv, Place
<1> QED BY <1>1, <1>2 DEF Ready, Idle, ProcInv, Switch, Switches, Base, Maybe

LEMMA SaveKeeps ==
    ASSUME StoreInv, NEW a \in Procs, Save(a) PROVE StoreInv'
<1> DEFINE j == [NoJob EXCEPT !.kind = "save"]
<1>1. /\ Ready(a) /\ MayWrite(a, cur[a], TRUE)
      /\ BeginWrite(a, cur[a], SavedRecord(a), j)
      /\ UNCHANGED <<file, lease, up, run, cur, pend, drawn, messages, lapsed>>
      BY DEF Save
<1>2. /\ j \in JobType /\ j.kind = "save" /\ j.target = None
      BY NoTypes DEF JobType
<1>3. MayBe(a, cur[a], SavedRecord(a)) BY <1>1, IdleFacts, SavedMayBe
<1>4. SavedRecord(a).text = run[a].text
      BY <1>1, IdleFacts DEF SavedRecord, StoreInv, VarTypes, Records
<1> HIDE DEF j
<1>5. MayBegin(a, cur[a], SavedRecord(a), j)
      BY <1>1, <1>2, <1>4, IdleFacts DEF MayBegin
<1> QED BY <1>1, <1>3, <1>5, IdleFacts, BeginKeeps

LEMMA EditKeeps ==
    ASSUME StoreInv, NEW a \in Procs, NEW s \in Sessions, NEW r \in Records,
           Edit(a, s, r), r.text = file[s].text,
           s = run[a].id /\ r.status = "archived" => file[s].status = "archived"
    PROVE  StoreInv'
<1> DEFINE j == [NoJob EXCEPT !.kind = "save"]
<1>1. /\ Ready(a) /\ MayWrite(a, s, s = run[a].id) /\ file[s].status # "none"
      /\ BeginWrite(a, s, r, j)
      /\ UNCHANGED <<file, lease, up, run, cur, pend, drawn, messages, lapsed>>
      BY DEF Edit
<1>2. /\ j \in JobType /\ j.kind = "save" /\ j.target = None
      BY NoTypes DEF JobType
<1>3. MayBe(a, s, r) BY <1>1, IdleFacts, EditedMayBe
<1> HIDE DEF j
<1>4. s = cur[a] => r.text \subseteq run[a].text
      <2> SUFFICES ASSUME s = cur[a] PROVE r.text \subseteq run[a].text OBVIOUS
      <2>1. lease[s].owner = a BY <1>1, IdleFacts DEF MayWrite
      <2>2. file[s].text \subseteq Base(a) BY <1>1, <2>1, IdleFacts DEF StoreInv, ProcInv, Reads
      <2> QED BY <1>1, <2>2, IdleFacts
<1>5. MayBegin(a, s, r, j)
      BY <1>1, <1>2, <1>4, IdleFacts DEF MayBegin
<1> QED BY <1>1, <1>3, <1>5, IdleFacts, BeginKeeps

LEMMA EditsKeep ==
    ASSUME StoreInv, NEW a \in Procs, NEW s \in Sessions,
           Rename(a, s) \/ Archive(a, s) \/ Unarchive(a, s)
    PROVE  StoreInv'
<1>1. file[s] \in Records BY DEF StoreInv, VarTypes
<1>2. CASE Rename(a, s)
      <2> DEFINE r == [file[s] EXCEPT !.title = 1]
      <2>1. r \in Records /\ r.text = file[s].text /\ r.status = file[s].status
            BY <1>1 DEF Records
      <2>2. Edit(a, s, r) BY <1>2 DEF Rename
      <2> QED BY <2>1, <2>2, EditKeeps
<1>3. CASE Archive(a, s)
      <2> DEFINE r == [file[s] EXCEPT !.status = "archived"]
      <2>1. r \in Records /\ r.text = file[s].text BY <1>1 DEF Records
      <2>2. Edit(a, s, r) /\ s # run[a].id BY <1>3 DEF Archive
      <2> QED BY <2>1, <2>2, EditKeeps
<1>4. CASE Unarchive(a, s)
      <2> DEFINE r == [file[s] EXCEPT !.status = "active"]
      <2>1. r \in Records /\ r.text = file[s].text /\ r.status = "active"
            BY <1>1 DEF Records
      <2>2. Edit(a, s, r) BY <1>4 DEF Unarchive
      <2> QED BY <2>1, <2>2, EditKeeps
<1> QED BY <1>2, <1>3, <1>4

-----------------------------------------------------------------------------
(* Steps that write nothing *)

\* Nothing but the process itself changes, the catalog is perhaps read, and no
\* command starts to write.
Quiet(a) ==
    /\ Frame(a) /\ file' = file
    /\ pc'[a] \in Writing => pc'[a] = pc[a] /\ job'[a] = job[a]
    /\ (index' = index /\ dirty' = dirty) \/ ReadIndex

LEMMA QuietKeeps ==
    ASSUME StoreInv, NEW a \in Procs, Quiet(a), VarTypes', ProcInv(a)'
    PROVE  StoreInv'
BY NoNewWriter, StepKeeps DEF Quiet, Frame

\* A session whose id is drawn has not been heard of.
LEMMA FreshId ==
    ASSUME StoreInv, NEW s \in Sessions \ drawn
    PROVE  /\ file[s] = NoRecord
           /\ \A q \in Procs : /\ cur[q] # s /\ job[q].target # s
                               /\ pc[q] \in Writing => job[q].on # s
<1> USE StoreAssumption
<1>1. ASSUME NEW q \in Procs
      PROVE  /\ cur[q] # s /\ job[q].target # s
             /\ pc[q] \in Writing => job[q].on # s
      <2>1. ProcInv(q) /\ None \notin Sessions BY DEF StoreInv
      <2>2. cur[q] # s BY <2>1 DEF ProcInv, Switch
      <2>3. job[q].target # s BY <2>1 DEF ProcInv, Switch
      <2>4. pc[q] \in Writing => job[q].on # s BY <2>1 DEF ProcInv, Writes
      <2> QED BY <2>2, <2>3, <2>4
<1> QED BY <1>1 DEF StoreInv, Undrawn

LEMMA SaveFirstKeeps ==
    ASSUME StoreInv, NEW a \in Procs, SaveFirst(a) PROVE StoreInv'
<1> USE StoreAssumption
<1>0. VarTypes /\ ProcInv(a) BY DEF StoreInv
<1>1. /\ pc[a] = "save"
      /\ UNCHANGED <<file, lease, up, run, cur, pend, drawn, messages, lapsed>>
      BY DEF SaveFirst, bounds
<1>2. /\ job[a].kind \in {"resume", "new"} /\ up[a] = "up"
      /\ job[a].prev.id = cur[a] /\ run[a] = job[a].prev /\ Base(a) = run[a].text
      /\ job[a] # NoJob
      BY <1>0, <1>1 DEF ProcInv, Place, Switch, Switches, Base
<1>3. CASE cur[a] # None /\ run[a].text # {} /\ MayWrite(a, cur[a], TRUE)
      <2>1. BeginWrite(a, cur[a], SavedRecord(a), job[a])
            BY <1>1, <1>3 DEF SaveFirst
      <2>2. MayBe(a, cur[a], SavedRecord(a)) BY <1>2, <1>3, SavedMayBe
      <2>3. SavedRecord(a).text = run[a].text
            BY <1>0, <1>2, <1>3 DEF SavedRecord, VarTypes, Records, Maybe
      <2>4. MayBegin(a, cur[a], SavedRecord(a), job[a])
            BY <1>0, <1>1, <1>2, <2>3 DEF MayBegin, VarTypes
      <2> QED BY <1>1, <1>2, <2>1, <2>2, <2>4, BeginKeeps
<1>4. CASE ~(cur[a] # None /\ run[a].text # {} /\ MayWrite(a, cur[a], TRUE))
      <2>1. PICK to \in {"swap", "undo"} : pc' = [pc EXCEPT ![a] = to]
            BY <1>1, <1>4 DEF SaveFirst, Goto
      <2>2. job' = job /\ index' = index /\ dirty' = dirty
            BY <1>1, <1>4 DEF SaveFirst
      <2>3. VarTypes' BY <1>0, <1>1, <2>1, <2>2 DEF VarTypes, Places
      <2>4. pc'[a] = to BY <1>0, <2>1 DEF VarTypes
      <2>5. Rest(a) /\ LeasesFit(a) /\ FilesFit(a)
            BY <1>0, <1>1, <2>1, <2>2 DEF Rest, LeasesFit, FilesFit, VarTypes
      <2>6. Quiet(a)
            BY <1>1, <2>2, <2>4, <2>5 DEF Quiet, Frame, Names, Known, Writing
      <2>7. ProcInv(a)'
            <3>1. Place(a)' BY <1>0, <1>1, <1>2, <2>2, <2>4 DEF ProcInv, Place
            <3>2. Switch(a)' BY <1>0, <1>1, <1>2, <2>2, <2>4 DEF ProcInv, Switch
            <3>3. Base(a)' = Base(a) /\ (Loaded(a)' => Loaded(a))
                  BY <1>1, <1>2, <2>2, <2>4 DEF Base, Loaded
            <3>4. Reads(a)' BY <1>0, <1>1, <2>2, <3>3 DEF ProcInv, Reads
            <3>5. NotArchived(a)' BY <1>0, <1>1, <2>2, <3>3 DEF ProcInv, NotArchived
            <3>6. Writes(a)' BY <2>4 DEF Writes, Writing
            <3>7. Newborn(a)' BY <1>2, <2>2 DEF Newborn
            <3> QED BY <3>1, <3>2, <3>4, <3>5, <3>6, <3>7 DEF ProcInv
      <2> QED BY <2>3, <2>6, <2>7, QuietKeeps
<1> QED BY <1>3, <1>4

LEMMA ForkKeeps ==
    ASSUME StoreInv, NEW a \in Procs, NEW s \in Sessions, NEW child \in Sessions,
           Fork(a, s, child)
    PROVE  StoreInv'
<1> USE StoreAssumption
<1> DEFINE j == [NoJob EXCEPT !.kind = "save to fork", !.source = s,
                              !.target = child, !.prev = run[a]]
<1>0. VarTypes /\ ProcInv(a) BY DEF StoreInv
<1>1. /\ Ready(a) /\ child \notin drawn /\ drawn' = drawn \cup {child}
      /\ UNCHANGED <<file, lease, up, run, cur, pend, messages, lapsed>>
      BY DEF Fork, Draw
<1>2. /\ j \in JobType /\ j.kind = "save to fork" /\ j.source = s
      /\ j.target = child /\ j.prev = run[a]
      BY <1>0, NoTypes DEF JobType, VarTypes, Maybe
<1> HIDE DEF j
<1>3. CASE s = run[a].id /\ run[a].text # {}
      <2>1. MayWrite(a, cur[a], TRUE) /\ BeginWrite(a, cur[a], SavedRecord(a), j)
            BY <1>1, <1>3, IdleFacts DEF Fork, j
      <2>2. MayBe(a, cur[a], SavedRecord(a)) BY <1>1, <2>1, IdleFacts, SavedMayBe
      <2>3. SavedRecord(a).text = run[a].text
            BY <1>0, <1>1, IdleFacts DEF SavedRecord, VarTypes, Records
      <2>4. MayBegin(a, cur[a], SavedRecord(a), j)
            BY <1>1, <1>2, <2>3, IdleFacts DEF MayBegin
      <2> QED BY <1>1, <2>1, <2>2, <2>4, IdleFacts, BeginKeeps
<1>4. CASE ~(s = run[a].id /\ run[a].text # {})
      <2>1. /\ ReadIndex /\ pc' = [pc EXCEPT ![a] = "fork"]
            /\ job' = [job EXCEPT ![a] = j]
            BY <1>4 DEF Fork, Goto, Job, j
      <2>2. pc'[a] = "fork" /\ job'[a] = j BY <1>0, <2>1 DEF VarTypes
      <2>3. VarTypes'
            <3>1. index' \in [Sessions -> SummaryType] /\ dirty' \in BOOLEAN
                  BY <1>0, <2>1, IndexTypes DEF ReadIndex
            <3> QED BY <1>0, <1>1, <1>2, <2>1, <3>1
                    DEF VarTypes, Places, SummaryType
      <2>4. Rest(a) /\ LeasesFit(a) /\ FilesFit(a)
            BY <1>0, <1>1, <2>1 DEF Rest, LeasesFit, FilesFit, VarTypes
      <2>5. Quiet(a)
            BY <1>1, <1>2, <2>1, <2>2, <2>4 DEF Quiet, Frame, Names, Known, Writing
      <2>6. ProcInv(a)'
            <3>1. Place(a)'
                  BY <1>0, <1>1, <1>2, <2>2, NoTypes, IdleFacts DEF ProcInv, Place
            <3>2. Switch(a)'
                  BY <1>0, <1>1, <1>2, <2>2, IdleFacts DEF ProcInv, Switch, Switches
            <3>3. Base(a)' = Base(a) /\ ~Loaded(a)'
                  BY <1>1, <1>2, <2>2, IdleFacts DEF Base, Loaded, Switches
            <3>4. Reads(a)' BY <1>0, <1>1, <3>3 DEF ProcInv, Reads
            <3>5. NotArchived(a)' BY <1>0, <1>1, <3>3 DEF ProcInv, NotArchived
            <3>6. Writes(a)' BY <2>2 DEF Writes, Writing
            <3>7. Newborn(a)'
                  <4>1. child \in Sessions \ drawn BY <1>1
                  <4>2. \A q \in Procs : q # a => job'[q] = job[q]
                        BY <2>4 DEF Rest
                  <4>3. \A q \in Procs : pc'[q] \notin Writing
                        BY <2>1, <2>2, <2>4 DEF Rest, ReadIndex, CatalogFree, Writing
                  <4>4. job'[a].target = child BY <1>2, <2>2
                  <4>5. file'[child] = NoRecord BY <1>1, <4>1, FreshId
                  <4>6. ASSUME NEW q \in Procs
                        PROVE  /\ cur'[q] # child
                               /\ q # a => job'[q].target # child
                               /\ pc'[q] \in Writing => job'[q].on # child
                        <5>1. cur[q] # child /\ job[q].target # child
                              BY <4>1, FreshId
                        <5> QED BY <1>1, <4>2, <4>3, <5>1
                  <4> QED BY <4>4, <4>5, <4>6 DEF Newborn
            <3> QED BY <3>1, <3>2, <3>4, <3>5, <3>6, <3>7 DEF ProcInv
      <2> QED BY <2>3, <2>5, <2>6, QuietKeeps
<1> QED BY <1>3, <1>4

LEMMA BranchKeeps ==
    ASSUME StoreInv, NEW a \in Procs, Branch(a) PROVE StoreInv'
<1> USE StoreAssumption
<1> DEFINE child == job[a].target
           r == [file[job[a].source] EXCEPT !.title = 1, !.status = "active"]
           k == [job[a] EXCEPT !.kind = "fork", !.on = child, !.record = r]
<1>0. VarTypes /\ ProcInv(a) BY DEF StoreInv
<1>1. /\ pc[a] = "fork" /\ CatalogFree
      /\ lease' = [lease EXCEPT ![child] = [owner |-> a, fresh |-> TRUE]]
      /\ pend' = [pend EXCEPT ![a] = @ \cup {child}]
      /\ index' = Index /\ dirty' = TRUE /\ pc' = [pc EXCEPT ![a] = "marked"]
      /\ UNCHANGED <<file, up, run, cur, drawn, messages, lapsed>>
      BY DEF Branch, Acquired, Take, BeginWrite, Goto, bounds
<1>2. /\ job[a].kind = "save to fork" /\ job[a].source \in Sessions
      /\ up[a] = "up" /\ child \in drawn /\ child \in Sessions /\ child # cur[a]
      /\ file[child] = NoRecord /\ run[a] = job[a].prev /\ job[a].prev.id = cur[a]
      BY <1>0, <1>1 DEF ProcInv, Place, Switch, Switches, Newborn, VarTypes
<1>3. r \in Records /\ r.status = "active"
      <2>1. file[job[a].source] \in Records BY <1>0, <1>2 DEF VarTypes
      <2> QED BY <2>1 DEF Records
<1>4. /\ k \in JobType /\ k.kind = "fork" /\ k.on = child /\ k.record = r
      /\ k.target = child /\ k.prev = job[a].prev
      <2>1. job[a] \in JobType /\ child \in Maybe BY <1>0, <1>2 DEF VarTypes, Maybe
      <2> HIDE DEF r, child
      <2> QED BY <1>3, <2>1 DEF JobType, child
<1>5. job' = [job EXCEPT ![a] = k]
      <2>1. job' = [job EXCEPT ![a] =
                      [[job[a] EXCEPT !.kind = "fork"] EXCEPT !.on = child, !.record = r]]
            BY DEF Branch, BeginWrite, Job
      <2> QED BY <2>1
<1> HIDE DEF k
<1>6. pc'[a] = "marked" /\ job'[a] = k /\ pend'[a] = pend[a] \cup {child}
      BY <1>0, <1>1, <1>5 DEF VarTypes
<1>7. /\ lease'[child] = [owner |-> a, fresh |-> TRUE]
      /\ \A s \in Sessions \ {child} : lease'[s] = lease[s]
      BY <1>0, <1>1, <1>2 DEF VarTypes
<1>8. VarTypes'
      <2>1. index' \in [Sessions -> SummaryType] BY <1>0, <1>1, IndexTypes
      <2>2. lease' \in [Sessions -> [owner : Procs \cup {None}, fresh : BOOLEAN]]
            BY <1>0, <1>1, <1>2 DEF VarTypes
      <2>3. /\ pc' \in [Procs -> Places]
            /\ pend' \in [Procs -> SUBSET Sessions]
            <3>1. /\ pc \in [Procs -> Places]
                  /\ pend \in [Procs -> SUBSET Sessions]
                  BY <1>0 DEF VarTypes
            <3> HIDE DEF child
            <3> QED BY <1>1, <1>2, <3>1 DEF Places, Writing
      <2>4. job' \in [Procs -> JobType] BY <1>0, <1>4, <1>5 DEF VarTypes
      <2>5. /\ dirty' \in BOOLEAN
            /\ UNCHANGED <<file, up, run, cur, drawn, messages, lapsed>>
            BY <1>1
      <2> HIDE DEF r, child
      <2> QED BY <1>0, <2>1, <2>2, <2>3, <2>4, <2>5 DEF VarTypes, SummaryType
<1>9. Frame(a)
      <2>1. Rest(a) BY <1>0, <1>1, <1>5 DEF Rest, VarTypes
      <2>2. LeasesFit(a) BY <1>1, <1>7 DEF LeasesFit, CatalogFree
      <2>3. FilesFit(a) BY <1>1 DEF FilesFit
      <2>4. Names(a) BY <1>1, <1>4, <1>6 DEF Names, Known
      <2> QED BY <2>1, <2>2, <2>3, <2>4 DEF Frame
<1>10. OneWriter' /\ Derived' BY <1>1, <1>6, <1>9, NewWriter DEF Frame
<1>11. ProcInv(a)'
      <2>1. Place(a)' BY <1>1, <1>2, <1>4, <1>6, NoTypes DEF Place
      <2>2. Switch(a)'
            BY <1>0, <1>1, <1>2, <1>4, <1>6 DEF ProcInv, Switch, Switches
      <2>3. Base(a)' = Base(a) /\ ~Loaded(a)'
            BY <1>1, <1>2, <1>4, <1>6 DEF Base, Loaded, Switches
      <2>4. cur[a] # None => cur[a] \in Sessions /\ lease'[cur[a]] = lease[cur[a]]
            BY <1>0, <1>2, <1>7 DEF VarTypes, Maybe
      <2>5. Reads(a)' BY <1>0, <1>1, <2>3, <2>4 DEF ProcInv, Reads
      <2>6. NotArchived(a)' BY <1>0, <1>1, <2>3, <2>4 DEF ProcInv, NotArchived
      <2>7. Writes(a)'
            <3>1. file[child].text = {}
                  <4>1. file[child] = NoRecord BY <1>2
                  <4>2. NoRecord.text = {} BY DEF NoRecord
                  <4> QED BY <4>1, <4>2
            <3>2. /\ job'[a].on = child /\ job'[a].record = r
                  /\ job'[a].target = child /\ job'[a].kind = "fork"
                  BY <1>4, <1>6
            <3>3. file'[child].text = {} /\ lease'[child].owner = a
                  BY <1>1, <1>7, <3>1
            <3>4. child # cur'[a] /\ child \in drawn' /\ r.status = "active"
                  BY <1>1, <1>2, <1>3
            <3> HIDE DEF r, child
            <3> QED BY <1>6, <3>2, <3>3, <3>4 DEF Writes, Writing
      <2>8. Newborn(a)' BY <1>4, <1>6 DEF Newborn
      <2> QED BY <2>1, <2>2, <2>5, <2>6, <2>7, <2>8 DEF ProcInv
<1> QED BY <1>8, <1>9, <1>10, <1>11, StepKeeps

LEMMA WriteIndexKeeps ==
    ASSUME StoreInv, NEW a \in Procs, WriteIndex(a) PROVE StoreInv'
<1> USE StoreAssumption
<1> DEFINE on == job[a].on
           r == job[a].record
<1>0. VarTypes /\ ProcInv(a) BY DEF StoreInv
<1>1. /\ pc[a] = "replaced" /\ pc' = [pc EXCEPT ![a] = "indexed"]
      /\ index' = [index EXCEPT ![on] = Summary(r)]
      /\ UNCHANGED <<file, lease, dirty, up, job, run, cur, pend, drawn,
                     messages, lapsed>>
      BY DEF WriteIndex, Goto, bounds
<1>2. on \in Sessions /\ Summary(r) \in SummaryType
      BY <1>0, <1>1, SummaryTypes
      DEF VarTypes, JobType, ProcInv, Writes, Writing
<1>3. VarTypes'
      BY <1>0, <1>1, <1>2 DEF VarTypes, Places, Writing, SummaryType
<1>4. pc'[a] = "indexed" BY <1>0, <1>1 DEF VarTypes
<1>5. Frame(a)
      <2>1. Rest(a) BY <1>0, <1>1 DEF Rest, VarTypes
      <2>2. LeasesFit(a) /\ FilesFit(a) BY <1>1 DEF LeasesFit, FilesFit
      <2>3. Names(a) BY <1>1 DEF Names, Known, Writing
      <2> QED BY <2>1, <2>2, <2>3 DEF Frame
<1>6. \A q \in Procs : pc'[q] \in Writing => q = a
      BY <1>0, <1>1 DEF StoreInv, OneWriter, VarTypes, Writing
<1>7. ProcInv(a)'
      <2>1. Place(a)' BY <1>0, <1>1, <1>4 DEF ProcInv, Place, Writing
      <2>2. Switch(a)' BY <1>0, <1>1, <1>4 DEF ProcInv, Switch
      <2>3. Base(a)' = Base(a) /\ (Loaded(a)' => Loaded(a))
            BY <1>1, <1>4 DEF Base, Loaded, Writing
      <2>4. Reads(a)' BY <1>0, <1>1, <2>3 DEF ProcInv, Reads
      <2>5. NotArchived(a)' BY <1>0, <1>1, <2>3 DEF ProcInv, NotArchived
      <2>6. Writes(a)' BY <1>0, <1>1, <1>4 DEF ProcInv, Writes, Writing
      <2>7. Newborn(a)'
            BY <1>0, <1>1, <1>6 DEF ProcInv, Newborn, Writing
      <2> QED BY <2>1, <2>2, <2>4, <2>5, <2>6, <2>7 DEF ProcInv
<1>8. OneWriter' BY <1>6 DEF OneWriter
<1>9. Derived'
      <2>1. /\ dirty /\ file[on] = r
            /\ \A s \in Sessions \ {on} : index[s] = Summary(file[s])
            BY <1>1 DEF StoreInv, Derived, Writing
      <2>2. \A s \in Sessions : index'[s] = Summary(file'[s])
            BY <1>0, <1>1, <1>2, <2>1 DEF VarTypes
      <2>3. index' = Catalog'
            BY <1>3, <2>2 DEF Catalog, VarTypes
      <2>4. ~CatalogFree' BY <1>4 DEF CatalogFree, Writing
      <2> QED BY <1>1, <1>4, <1>6, <2>1, <2>3, <2>4 DEF Derived
<1> QED BY <1>5, <1>3, <1>7, <1>8, <1>9, StepKeeps

\* A switch that is given up.
LEMMA ToUndo ==
    ASSUME StoreInv, NEW a \in Procs, job[a].kind \in {"fork", "resume", "new"},
           pc'[a] = "undo", job' = job,
           UNCHANGED <<file, lease, up, run, cur, pend, drawn, lapsed>>
    PROVE  ProcInv(a)'
<1>0. VarTypes /\ ProcInv(a) BY DEF StoreInv
<1>1. up[a] = "up" /\ job[a] # NoJob BY <1>0, NoTypes DEF ProcInv, Place
<1>2. Place(a)' BY <1>1, NoTypes DEF Place, Writing
<1>3. Switch(a)' BY <1>0 DEF ProcInv, Switch, Switches
<1>4. Base(a)' = Base(a) /\ ~Loaded(a)' BY DEF Base, Loaded, Writing
<1>5. Reads(a)' BY <1>0, <1>4 DEF ProcInv, Reads
<1>6. NotArchived(a)' BY <1>0, <1>4 DEF ProcInv, NotArchived
<1>7. Writes(a)' BY DEF Writes, Writing
<1>8. Newborn(a)' BY DEF Newborn
<1> QED BY <1>2, <1>3, <1>5, <1>6, <1>7, <1>8 DEF ProcInv

LEMMA WrittenKeeps ==
    ASSUME StoreInv, NEW a \in Procs, Written(a) PROVE StoreInv'
<1> USE StoreAssumption
<1> DEFINE k == [job[a] EXCEPT !.kind = "resume"]
<1>0. VarTypes /\ ProcInv(a) BY DEF StoreInv
<1>1. /\ pc[a] = "indexed" /\ dirty' = FALSE
      /\ UNCHANGED <<file, lease, index, up, run, cur, pend, drawn, messages, lapsed>>
      BY DEF Written, bounds
<1>2. up[a] = "up" /\ job[a] # NoJob /\ job[a] \in JobType /\ job[a].kind # "none"
      BY <1>0, <1>1 DEF ProcInv, Place, Writing, VarTypes
<1>3. job[a].kind \in {"save", "save to fork", "fork", "resume", "new"}
      BY <1>2 DEF JobType
<1>4. /\ k \in JobType /\ k.kind = "resume" /\ k.target = job[a].target
      /\ k.prev = job[a].prev /\ k.text = job[a].text
      BY <1>2 DEF JobType
<1> HIDE DEF k
<1>5. PICK to \in {"idle", "fork", "acquire", "swap"} :
          \E j \in JobType :
              /\ pc' = [pc EXCEPT ![a] = to] /\ job' = [job EXCEPT ![a] = j]
              /\ \/ job[a].kind = "save" /\ to = "idle" /\ j = NoJob
                 \/ job[a].kind = "save to fork" /\ to = "fork" /\ j = job[a]
                 \/ job[a].kind = "fork" /\ to = "acquire" /\ j = k
                 \/ job[a].kind \in {"resume", "new"} /\ to = "swap" /\ j = job[a]
      <2>0. job = [job EXCEPT ![a] = job[a]] BY <1>0 DEF VarTypes
      <2>1. CASE job[a].kind = "save"
            BY <2>1, NoTypes DEF Written, EndJob, Goto, Job
      <2>2. CASE job[a].kind = "save to fork"
            BY <1>2, <2>0, <2>2 DEF Written, Goto
      <2>3. CASE job[a].kind = "fork"
            BY <1>4, <2>3 DEF Written, Goto, Job, k
      <2>4. CASE job[a].kind \in {"resume", "new"}
            BY <1>2, <2>0, <2>4 DEF Written, Goto
      <2> QED BY <1>3, <2>1, <2>2, <2>3, <2>4
<1>6. PICK j \in JobType :
          /\ pc' = [pc EXCEPT ![a] = to] /\ job' = [job EXCEPT ![a] = j]
          /\ \/ job[a].kind = "save" /\ to = "idle" /\ j = NoJob
             \/ job[a].kind = "save to fork" /\ to = "fork" /\ j = job[a]
             \/ job[a].kind = "fork" /\ to = "acquire" /\ j = k
             \/ job[a].kind \in {"resume", "new"} /\ to = "swap" /\ j = job[a]
      BY <1>5
<1>7. pc'[a] = to /\ job'[a] = j BY <1>0, <1>6 DEF VarTypes
<1>8. VarTypes' BY <1>0, <1>1, <1>6 DEF VarTypes, Places
<1>9. Frame(a)
      <2>1. Rest(a) BY <1>0, <1>1, <1>6 DEF Rest, VarTypes
      <2>2. LeasesFit(a) /\ FilesFit(a) BY <1>1 DEF LeasesFit, FilesFit
      <2>3. j.target \in {None, job[a].target} BY <1>4, <1>6, NoTypes
      <2>4. Names(a) BY <1>1, <1>7, <2>3 DEF Names, Known, Writing
      <2> QED BY <2>1, <2>2, <2>4 DEF Frame
<1>10. \A q \in Procs : pc'[q] \notin Writing
      BY <1>0, <1>1, <1>6 DEF StoreInv, OneWriter, VarTypes, Writing
<1>11. OneWriter' /\ Derived'
      <2>1. index' = Catalog'
            BY <1>1 DEF StoreInv, Derived, Writing, Catalog
      <2> QED BY <1>10, <2>1 DEF OneWriter, Derived
<1>12. ProcInv(a)'
      <2>1. Place(a)'
            <3>1. j = NoJob <=> to = "idle" BY <1>2, <1>4, <1>6, NoTypes
            <3>2. to = "fork" => j.kind = "save to fork"
                  BY <1>6
            <3>3. j.kind = "save to fork" => j.source \in Sessions
                  BY <1>0, <1>4, <1>6, NoTypes DEF ProcInv, Place
            <3>4. /\ to = "acquire" => j.kind = "resume"
                  /\ to = "swap" => j.kind \in {"resume", "new"}
                  BY <1>4, <1>6
            <3> QED BY <1>1, <1>2, <1>7, <3>1, <3>2, <3>3, <3>4 DEF Place, Writing
      <2>8. ASSUME job[a].kind = "save"
            PROVE  Switch(a)' /\ Base(a)' = Base(a) /\ ~Loaded(a)'
            <3>1. j.kind = "none" /\ j.target = None /\ to = "idle"
                  BY <1>6, <2>8, NoTypes
            <3>2. Switch(a)'
                  BY <1>0, <1>1, <1>7, <2>8, <3>1 DEF ProcInv, Switch, Switches
            <3>3. Base(a)' = Base(a) /\ ~Loaded(a)'
                  BY <1>1, <1>7, <2>8, <3>1 DEF Base, Loaded, Switches
            <3> QED BY <3>2, <3>3
      <2>9. ASSUME job[a].kind # "save"
            PROVE  /\ Switch(a)' /\ Base(a)' = Base(a)
                   /\ Loaded(a)' => Loaded(a) /\ job'[a].target = job[a].target
                                    /\ job'[a].text = job[a].text
            <3>1. /\ j.kind \in Switches /\ job[a].kind \in Switches
                  /\ j.target = job[a].target /\ j.prev = job[a].prev
                  /\ j.text = job[a].text
                  /\ j.kind \in {"resume", "new"} =>
                       to = "acquire" \/ job[a].kind \in {"resume", "new"}
                  BY <1>3, <1>4, <1>6, <2>9 DEF Switches
            <3>2. Switch(a)'
                  BY <1>0, <1>1, <1>7, <2>9, <3>1 DEF ProcInv, Switch
            <3>3. Base(a)' = Base(a) /\ (Loaded(a)' => Loaded(a))
                  BY <1>1, <1>7, <2>9, <3>1 DEF Base, Loaded, Writing
            <3> QED BY <1>7, <3>1, <3>2, <3>3
      <2>2. Switch(a)' BY <2>8, <2>9
      <2>3. /\ Base(a)' = Base(a)
            /\ Loaded(a)' => Loaded(a) /\ job'[a].target = job[a].target
                             /\ job'[a].text = job[a].text
            BY <2>8, <2>9
      <2>4. Reads(a)' BY <1>0, <1>1, <2>3 DEF ProcInv, Reads
      <2>5. NotArchived(a)' BY <1>0, <1>1, <2>3 DEF ProcInv, NotArchived
      <2>6. Writes(a)' BY <1>10 DEF Writes, Writing
      <2>7. Newborn(a)'
            <3>1. SUFFICES ASSUME j.kind = "save to fork" PROVE Newborn(a)'
                  BY <1>7 DEF Newborn
            <3>2. j = job[a] BY <1>4, <1>6, <3>1, NoTypes
            <3>3. \A q \in Procs : q # a => job'[q] = job[q]
                  BY <1>9 DEF Frame, Rest
            <3> QED BY <1>0, <1>1, <1>7, <1>10, <3>1, <3>2, <3>3 DEF ProcInv, Newborn
      <2> QED BY <2>1, <2>2, <2>4, <2>5, <2>6, <2>7 DEF ProcInv
<1> QED BY <1>8, <1>9, <1>11, <1>12, StepKeeps

LEMMA WriteFailsKeeps ==
    ASSUME StoreInv, NEW a \in Procs, WriteFails(a) PROVE StoreInv'
<1> USE StoreAssumption
<1>0. VarTypes /\ ProcInv(a) BY DEF StoreInv
<1>1. /\ pc[a] \in Writing
      /\ UNCHANGED <<file, lease, index, dirty, up, run, cur, pend, drawn,
                     messages, lapsed>>
      BY DEF WriteFails, store
<1>2. up[a] = "up" /\ job[a] # NoJob /\ job[a] \in JobType /\ job[a].kind # "none"
      BY <1>0, <1>1 DEF ProcInv, Place, Writing, VarTypes
<1>3. job[a].kind \in {"save", "save to fork", "fork", "resume", "new"}
      BY <1>2 DEF JobType
<1>4. CASE job[a].kind \in {"save", "save to fork"}
      <2>1. pc' = [pc EXCEPT ![a] = "idle"] /\ job' = [job EXCEPT ![a] = NoJob]
            BY <1>4 DEF WriteFails, EndJob, Goto, Job
      <2>2. pc'[a] = "idle" /\ job'[a] = NoJob BY <1>0, <2>1 DEF VarTypes
      <2>3. VarTypes' BY <1>0, <1>1, <2>1, NoTypes DEF VarTypes, Places
      <2>4. Rest(a) /\ LeasesFit(a) /\ FilesFit(a)
            BY <1>0, <1>1, <2>1 DEF Rest, LeasesFit, FilesFit, VarTypes
      <2>5. Quiet(a)
            BY <1>1, <2>2, <2>4, NoTypes DEF Quiet, Frame, Names, Known, Writing
      <2>6. run[a].id = cur[a]
            /\ (job[a].kind = "save to fork" => run[a] = job[a].prev)
            BY <1>0, <1>1, <1>4 DEF ProcInv, Switch, Switches, Writing
      <2>7. ProcInv(a)'
            <3>1. Place(a)' BY <1>1, <1>2, <2>2, NoTypes DEF Place, Writing
            <3>2. Switch(a)'
                  BY <1>0, <1>1, <2>2, <2>6, NoTypes DEF ProcInv, Switch, Switches
            <3>3. Base(a)' = Base(a) /\ ~Loaded(a)'
                  BY <1>1, <1>4, <2>2, <2>6, NoTypes DEF Base, Loaded, Switches
            <3>4. Reads(a)' BY <1>0, <1>1, <3>3 DEF ProcInv, Reads
            <3>5. NotArchived(a)' BY <1>0, <1>1, <3>3 DEF ProcInv, NotArchived
            <3>6. Writes(a)' BY <2>2 DEF Writes, Writing
            <3>7. Newborn(a)' BY <2>2, NoTypes DEF Newborn
            <3> QED BY <3>1, <3>2, <3>4, <3>5, <3>6, <3>7 DEF ProcInv
      <2> QED BY <2>3, <2>5, <2>7, QuietKeeps
<1>5. CASE job[a].kind \notin {"save", "save to fork"}
      <2>1. pc' = [pc EXCEPT ![a] = "undo"] /\ job' = job
            BY <1>5 DEF WriteFails, Goto
      <2>2. pc'[a] = "undo" BY <1>0, <2>1 DEF VarTypes
      <2>3. VarTypes' BY <1>0, <1>1, <2>1 DEF VarTypes, Places
      <2>4. Rest(a) /\ LeasesFit(a) /\ FilesFit(a)
            BY <1>0, <1>1, <2>1 DEF Rest, LeasesFit, FilesFit, VarTypes
      <2>5. Quiet(a)
            BY <1>1, <2>1, <2>2, <2>4 DEF Quiet, Frame, Names, Known, Writing
      <2> QED BY <1>1, <1>2, <1>3, <1>5, <2>1, <2>2, <2>3, <2>5, QuietKeeps, ToUndo
<1> QED BY <1>4, <1>5

-----------------------------------------------------------------------------
(* Turns, heartbeats and leases *)

LEMMA WorkKeeps ==
    ASSUME StoreInv, NEW a \in Procs, Work(a) PROVE StoreInv'
<1> USE StoreAssumption
<1>0. VarTypes /\ ProcInv(a) BY DEF StoreInv
<1>1. /\ Ready(a)
      /\ UNCHANGED <<file, lease, index, dirty, up, pc, job, cur, pend, drawn, lapsed>>
      BY DEF Work, store
<1> DEFINE r == [run[a] EXCEPT !.text = @ \cup {messages + 1}]
<1>2. run' = [run EXCEPT ![a] = r] BY DEF Work
<1>3. r \in Runtimes /\ r.id = run[a].id /\ run[a].text \subseteq r.text
      <2>1. run[a] \in Runtimes /\ messages + 1 \in Nat BY <1>0 DEF VarTypes
      <2>2. run[a].text \cup {messages + 1} \in Texts BY <2>1, TextTypes DEF Runtimes
      <2> QED BY <2>1, <2>2 DEF Runtimes
<1> HIDE DEF r
<1>4. run'[a] = r BY <1>0, <1>2 DEF VarTypes
<1>5. VarTypes'
      <2>1. messages' \in Nat BY <1>0 DEF VarTypes, Work
      <2> QED BY <1>0, <1>1, <1>2, <1>3, <2>1 DEF VarTypes
<1>6. Quiet(a)
      <2>1. Rest(a) BY <1>0, <1>1, <1>2 DEF Rest, VarTypes
      <2> QED BY <1>1, <2>1
              DEF Quiet, Frame, LeasesFit, FilesFit, Names, Known, Ready, Idle, Writing
<1>7. ProcInv(a)'
      <2>1. /\ job[a].kind = "none" /\ job[a].target = None /\ pc[a] = "idle"
            /\ Base(a) = run[a].text
            BY <1>1, IdleFacts
      <2>2. Place(a)' BY <1>0, <1>1 DEF ProcInv, Place
      <2>3. Switch(a)'
            BY <1>0, <1>1, <1>3, <1>4, <2>1 DEF ProcInv, Switch, Switches
      <2>4. Base(a) \subseteq Base(a)' /\ ~Loaded(a)'
            BY <1>1, <1>3, <1>4, <2>1 DEF Base, Loaded, Switches
      <2>5. Reads(a)' BY <1>0, <1>1, <2>4 DEF ProcInv, Reads
      <2>6. NotArchived(a)' BY <1>0, <1>1, <2>4 DEF ProcInv, NotArchived
      <2>7. Writes(a)' BY <1>1, <2>1 DEF Writes, Writing
      <2>8. Newborn(a)' BY <1>1, <2>1 DEF Newborn
      <2> QED BY <2>2, <2>3, <2>5, <2>6, <2>7, <2>8 DEF ProcInv
<1> QED BY <1>5, <1>6, <1>7, QuietKeeps

LEMMA HeartbeatKeeps ==
    ASSUME StoreInv, NEW a \in Procs, Heartbeat(a) PROVE StoreInv'
<1> USE StoreAssumption
<1>0. VarTypes /\ ProcInv(a) BY DEF StoreInv
<1>1. PICK s : /\ s \in (pend[a] \cup {cur[a]}) \ {None}
               /\ Idle(a) /\ SessionFree(s) /\ lease[s].owner = a
               /\ lease' = [lease EXCEPT ![s] = [owner |-> a, fresh |-> TRUE]]
               /\ UNCHANGED <<file, index, dirty, up, pc, job, run, cur, pend, drawn,
                              messages, lapsed>>
      BY DEF Heartbeat, Take, procs, bounds
<1>2. s \in Sessions BY <1>0, <1>1 DEF VarTypes, Maybe
<1>3. /\ lease'[s] = [owner |-> a, fresh |-> TRUE]
      /\ \A x \in Sessions \ {s} : lease'[x] = lease[x]
      BY <1>0, <1>1, <1>2 DEF VarTypes
<1>4. \A x \in Sessions : lease'[x].owner = lease[x].owner BY <1>1, <1>3
<1>5. VarTypes' BY <1>0, <1>1, <1>2 DEF VarTypes
<1>6. Quiet(a)
      <2>1. Rest(a) BY <1>0, <1>1 DEF Rest, VarTypes
      <2>2. LeasesFit(a) BY <1>1, <1>3 DEF LeasesFit, SessionFree
      <2> QED BY <1>1, <2>1, <2>2
              DEF Quiet, Frame, FilesFit, Names, Known, Idle, Writing
<1>7. ProcInv(a)'
      <2>1. /\ job[a].kind = "none" /\ job[a].target = None /\ pc[a] = "idle"
            /\ up[a] = "up"
            BY <1>0, <1>1, NoTypes DEF ProcInv, Place, Idle
      <2>2. Place(a)' BY <1>0, <1>1, <2>1 DEF ProcInv, Place
      <2>3. Switch(a)' BY <1>0, <1>1, <2>1 DEF ProcInv, Switch
      <2>4. Base(a)' = Base(a) /\ ~Loaded(a)' BY <1>1, <2>1 DEF Base, Loaded
      <2>5. cur[a] # None => cur[a] \in Sessions BY <1>0 DEF VarTypes, Maybe
      <2>6. Reads(a)' BY <1>0, <1>1, <1>4, <2>4, <2>5 DEF ProcInv, Reads
      <2>7. NotArchived(a)' BY <1>0, <1>1, <1>4, <2>4, <2>5 DEF ProcInv, NotArchived
      <2>8. Writes(a)' BY <1>1, <2>1 DEF Writes, Writing
      <2>9. Newborn(a)' BY <1>1, <2>1 DEF Newborn
      <2> QED BY <2>2, <2>3, <2>6, <2>7, <2>8, <2>9 DEF ProcInv
<1> QED BY <1>5, <1>6, <1>7, QuietKeeps

\* The owner stays the same, and it is known that he was not heard of.
LEMMA LapseKeeps ==
    ASSUME StoreInv, NEW s \in Sessions, Lapse(s) PROVE StoreInv'
<1> USE StoreAssumption
<1>0. VarTypes BY DEF StoreInv
<1>1. /\ lease[s].owner # None
      /\ lease' = [lease EXCEPT ![s].fresh = FALSE]
      /\ lapsed' = lapsed \cup {lease[s].owner}
      /\ UNCHANGED <<file, index, dirty, up, pc, job, run, cur, pend, drawn, messages>>
      BY DEF Lapse, procs
<1>2. lease[s] \in [owner : Procs \cup {None}, fresh : BOOLEAN] BY <1>0 DEF VarTypes
<1>3. /\ \A x \in Sessions : lease'[x].owner = lease[x].owner
      /\ \A x \in Sessions \ {s} : lease'[x] = lease[x]
      /\ lapsed \subseteq lapsed'
      BY <1>0, <1>1, <1>2 DEF VarTypes
<1>4. VarTypes' BY <1>0, <1>1, <1>2 DEF VarTypes
<1>5. ASSUME NEW q \in Procs PROVE ProcInv(q)'
      <2>0. ProcInv(q) BY DEF StoreInv
      <2>1. Place(q)' BY <1>1, <1>3, <2>0 DEF ProcInv, Place
      <2>2. Switch(q)' BY <1>1, <2>0 DEF ProcInv, Switch
      <2>3. Base(q)' = Base(q) /\ Loaded(q)' = Loaded(q) BY <1>1 DEF Base, Loaded
      <2>4. /\ cur[q] # None => cur[q] \in Sessions
            /\ Loaded(q) => job[q].target \in Sessions
            /\ pc[q] \in Writing => job[q].on \in Sessions
            BY <1>0, <2>0
            DEF VarTypes, Maybe, ProcInv, Switch, Writes, Loaded, Switches
      <2>5. Reads(q)' BY <1>1, <1>3, <2>0, <2>3, <2>4 DEF ProcInv, Reads
      <2>6. NotArchived(q)' BY <1>1, <1>3, <2>0, <2>3, <2>4 DEF ProcInv, NotArchived
      <2>7. Writes(q)'
            <3>1. CASE pc[q] \notin Writing BY <1>1, <3>1 DEF Writes, Writing
            <3>2. CASE pc[q] \in Writing
                  <4>1. lease'[job[q].on].owner = lease[job[q].on].owner
                        BY <1>3, <2>4, <3>2
                  <4>2. /\ pc'[q] = pc[q] /\ job'[q] = job[q] /\ cur'[q] = cur[q]
                        /\ drawn' = drawn /\ file' = file /\ up' = up
                        BY <1>1
                  <4> DEFINE on == job[q].on
                             r == job[q].record
                  <4>3. /\ on \in drawn
                        /\ job[q].kind \in {"save to fork", "resume", "new"} => on = cur[q]
                        /\ job[q].kind = "fork" => on = job[q].target
                        BY <2>0, <3>2 DEF ProcInv, Writes
                  <4>4. pc[q] = "marked" =>
                          /\ file[on].text \subseteq r.text
                          /\ lease'[on].owner = q \/ r.text = file[on].text
                          /\ on = cur[q] => r.text \subseteq Base(q)'
                        <5>1. pc[q] = "marked" =>
                                /\ file[on].text \subseteq r.text
                                /\ lease[on].owner = q \/ r.text = file[on].text
                                /\ on = cur[q] => r.text \subseteq Base(q)
                              BY <2>0 DEF ProcInv, Writes
                        <5> QED BY <2>3, <4>1, <5>1
                  <4>5. pc[q] = "marked" /\ r.status = "archived"
                        /\ lease'[on].owner # None /\ up[lease'[on].owner] = "up"
                        => lease'[on].owner \in lapsed'
                        BY <1>3, <2>0, <4>1 DEF ProcInv, Writes
                  <4> HIDE DEF on, r
                  <4> QED BY <4>2, <4>3, <4>4, <4>5, Zenon DEF Writes, on, r
            <3> QED BY <3>1, <3>2
      <2>8. Newborn(q)' BY <1>1, <2>0 DEF ProcInv, Newborn
      <2> QED BY <2>1, <2>2, <2>5, <2>6, <2>7, <2>8 DEF ProcInv
<1>6. OneWriter' /\ Derived' /\ Undrawn'
      BY <1>1 DEF StoreInv, OneWriter, Derived, Undrawn, CatalogFree, Catalog
<1>7. Stale'
      <2>1. \A x \in Sessions \ {s} : lease'[x] = lease[x] BY <1>3
      <2>2. lease'[s].owner \in lapsed' BY <1>1, <1>3
      <2> QED BY <1>3, <2>1, <2>2 DEF StoreInv, Stale
<1> QED BY <1>4, <1>5, <1>6, <1>7 DEF StoreInv

LEMMA ResumeKeeps ==
    ASSUME StoreInv, NEW a \in Procs, NEW s \in Sessions, Resume(a, s)
    PROVE  StoreInv'
<1> USE StoreAssumption
<1> DEFINE j == [NoJob EXCEPT !.kind = "resume", !.target = s, !.prev = run[a],
                              !.text = file[s].text]
<1>0. VarTypes /\ ProcInv(a) BY DEF StoreInv
<1>1. /\ Ready(a) /\ s # run[a].id /\ ReadIndex /\ Index[s].status = "active"
      /\ pc' = [pc EXCEPT ![a] = "acquire"] /\ job' = [job EXCEPT ![a] = j]
      /\ UNCHANGED <<file, lease, up, run, cur, pend, drawn, messages, lapsed>>
      BY DEF Resume, Goto, Job
<1>2. /\ j \in JobType /\ j.kind = "resume" /\ j.target = s /\ j.prev = run[a]
      <2>1. file[s].text \in Texts /\ run[a] \in Runtimes
            BY <1>0 DEF VarTypes, Records
      <2> QED BY <2>1, NoTypes DEF JobType, Maybe
<1> HIDE DEF j
<1>3. pc'[a] = "acquire" /\ job'[a] = j BY <1>0, <1>1 DEF VarTypes
<1>4. file[s].status = "active"
      BY <1>1, IndexIsCatalog, CatalogStatus DEF ReadIndex
<1>5. s \in drawn BY <1>4 DEF StoreInv, Undrawn, NoRecord
<1>9. /\ up[a] = "up" /\ job[a].kind = "none" /\ cur[a] # None
      /\ run[a].id = cur[a] /\ Base(a) = run[a].text
      BY <1>1, IdleFacts
<1>6. VarTypes'
      <2>1. index' \in [Sessions -> SummaryType] /\ dirty' \in BOOLEAN
            BY <1>0, <1>1, IndexTypes DEF ReadIndex
      <2> QED BY <1>0, <1>1, <1>2, <2>1 DEF VarTypes, Places, SummaryType
<1>7. Quiet(a)
      <2>1. Rest(a) /\ LeasesFit(a) /\ FilesFit(a)
            BY <1>0, <1>1 DEF Rest, LeasesFit, FilesFit, VarTypes
      <2>2. Known(s, a) BY <1>4 DEF Known
      <2> QED BY <1>1, <1>2, <1>3, <2>1, <2>2 DEF Quiet, Frame, Names, Known, Writing
<1>10. /\ job'[a].kind = "resume" /\ job'[a].target = s /\ job'[a].prev = run[a]
       /\ run'[a] = run[a] /\ cur'[a] = cur[a]
       BY <1>1, <1>2, <1>3
<1>8. ProcInv(a)'
      <2>1. Place(a)'
            BY <1>1, <1>2, <1>3, <1>9, NoTypes DEF Place, Writing
      <2>2. Switch(a)'
            <3>1. cur[a] \notin pend'[a] /\ cur[a] \in drawn' \cup {None}
                  BY <1>0, <1>1 DEF ProcInv, Switch
            <3>2. s \in drawn' /\ s # cur[a] BY <1>1, <1>5, <1>9
            <3> QED BY <1>3, <1>9, <1>10, <3>1, <3>2 DEF Switch, Switches
      <2>3. Base(a)' = Base(a) /\ ~Loaded(a)'
            BY <1>3, <1>9, <1>10 DEF Base, Loaded, Switches, Writing
      <2>4. Reads(a)' BY <1>0, <1>1, <2>3 DEF ProcInv, Reads
      <2>5. NotArchived(a)' BY <1>0, <1>1, <2>3 DEF ProcInv, NotArchived
      <2>6. Writes(a)' BY <1>3 DEF Writes, Writing
      <2>7. Newborn(a)' BY <1>2, <1>3 DEF Newborn
      <2> QED BY <2>1, <2>2, <2>4, <2>5, <2>6, <2>7 DEF ProcInv
<1> QED BY <1>6, <1>7, <1>8, QuietKeeps

LEMMA NewKeeps ==
    ASSUME StoreInv, NEW a \in Procs, NEW s \in Sessions, New(a, s)
    PROVE  StoreInv'
<1> USE StoreAssumption
<1> DEFINE j == [NoJob EXCEPT !.kind = "new", !.target = s, !.prev = run[a]]
<1>0. VarTypes /\ ProcInv(a) BY DEF StoreInv
<1>1. /\ Ready(a) /\ s \notin drawn /\ drawn' = drawn \cup {s}
      /\ lease' = [lease EXCEPT ![s] = [owner |-> a, fresh |-> TRUE]]
      /\ pend' = [pend EXCEPT ![a] = @ \cup {s}]
      /\ pc' = [pc EXCEPT ![a] = "save"] /\ job' = [job EXCEPT ![a] = j]
      /\ UNCHANGED <<file, index, dirty, up, run, cur, messages, lapsed>>
      BY DEF New, Draw, Acquired, Take, Goto, Job
<1>2. /\ j \in JobType /\ j.kind = "new" /\ j.target = s /\ j.prev = run[a]
      <2>1. run[a] \in Runtimes BY <1>0 DEF VarTypes
      <2> QED BY <2>1, NoTypes DEF JobType, Maybe
<1> HIDE DEF j
<1>3. pc'[a] = "save" /\ job'[a] = j /\ pend'[a] = pend[a] \cup {s}
      BY <1>0, <1>1 DEF VarTypes
<1>4. /\ file[s] = NoRecord /\ cur[a] # s
      /\ \A q \in Procs : pc[q] \in Writing => job[q].on # s
      BY <1>1, FreshId
<1>5. /\ lease'[s] = [owner |-> a, fresh |-> TRUE]
      /\ \A x \in Sessions \ {s} : lease'[x] = lease[x]
      BY <1>0, <1>1 DEF VarTypes
<1>9. /\ up[a] = "up" /\ job[a].kind = "none" /\ cur[a] # None
      /\ run[a].id = cur[a] /\ Base(a) = run[a].text
      BY <1>1, IdleFacts
<1>6. VarTypes' BY <1>0, <1>1, <1>2 DEF VarTypes, Places
<1>7. Quiet(a)
      <2>1. Rest(a) BY <1>0, <1>1 DEF Rest, VarTypes
      <2>2. LeasesFit(a) BY <1>4, <1>5 DEF LeasesFit
      <2> QED BY <1>1, <1>2, <1>3, <2>1, <2>2
              DEF Quiet, Frame, FilesFit, Names, Known, Writing
<1>10. /\ job'[a].kind = "new" /\ job'[a].target = s /\ job'[a].prev = run[a]
       /\ run'[a] = run[a] /\ cur'[a] = cur[a]
       BY <1>1, <1>2, <1>3
<1>8. ProcInv(a)'
      <2>1. Place(a)'
            BY <1>1, <1>2, <1>3, <1>9, NoTypes DEF Place, Writing
      <2>2. Switch(a)'
            <3>1. cur[a] \notin pend'[a] /\ cur[a] \in drawn' \cup {None}
                  BY <1>0, <1>1, <1>3, <1>4 DEF ProcInv, Switch
            <3>2. s \in drawn' /\ s # cur[a] BY <1>1, <1>4
            <3> QED BY <1>3, <1>9, <1>10, <3>1, <3>2 DEF Switch, Switches
      <2>3. Base(a)' = Base(a)
            BY <1>9, <1>10 DEF Base, Switches
      <2>4. cur[a] \in Sessions /\ lease'[cur[a]] = lease[cur[a]]
            BY <1>1, <1>4, <1>5, IdleFacts
      <2>5. file'[s].text = {} /\ file'[s].status # "archived"
            <3>1. NoRecord.text = {} /\ NoRecord.status = "none" BY DEF NoRecord
            <3> QED BY <1>1, <1>4, <3>1
      <2>6. Reads(a)' BY <1>0, <1>1, <1>2, <1>3, <2>3, <2>4, <2>5 DEF ProcInv, Reads
      <2>7. NotArchived(a)'
            BY <1>0, <1>1, <1>2, <1>3, <2>4, <2>5 DEF ProcInv, NotArchived
      <2>8. Writes(a)' BY <1>3 DEF Writes, Writing
      <2>9. Newborn(a)' BY <1>2, <1>3 DEF Newborn
      <2> QED BY <2>1, <2>2, <2>6, <2>7, <2>8, <2>9 DEF ProcInv
<1> QED BY <1>6, <1>7, <1>8, QuietKeeps

LEMMA AcquireKeeps ==
    ASSUME StoreInv, NEW a \in Procs, Acquire(a) PROVE StoreInv'
<1> USE StoreAssumption
<1> DEFINE t == job[a].target
<1>0. VarTypes /\ ProcInv(a) BY DEF StoreInv
<1>1. /\ pc[a] = "acquire" /\ SessionFree(t)
      /\ UNCHANGED <<file, index, dirty, up, run, cur, drawn, messages, lapsed>>
      BY DEF Acquire, bounds
<1>2. /\ job[a].kind = "resume" /\ up[a] = "up" /\ job[a] # NoJob
      /\ job[a].prev.id = cur[a] /\ run[a] = job[a].prev
      /\ t \in Sessions /\ t # cur[a]
      BY <1>0, <1>1, NoTypes DEF ProcInv, Place, Switch, Switches, VarTypes
<1>3. CASE Free(t, a)
      <2>1. /\ lease' = [lease EXCEPT ![t] = [owner |-> a, fresh |-> TRUE]]
            /\ pend' = [pend EXCEPT ![a] = @ \cup {t}]
            /\ pc' = [pc EXCEPT ![a] = "load"] /\ job' = job
            BY <1>3 DEF Acquire, Acquired, Take, Goto
      <2>2. pc'[a] = "load" /\ pend'[a] = pend[a] \cup {t}
            BY <1>0, <2>1 DEF VarTypes
      <2>3. /\ lease'[t] = [owner |-> a, fresh |-> TRUE]
            /\ \A x \in Sessions \ {t} : lease'[x] = lease[x]
            BY <1>0, <1>2, <2>1 DEF VarTypes
      <2>4. VarTypes' BY <1>0, <1>1, <1>2, <2>1 DEF VarTypes, Places
      <2>5. Quiet(a)
            <3>1. Rest(a) BY <1>0, <1>1, <2>1 DEF Rest, VarTypes
            <3>2. LeasesFit(a) BY <1>1, <2>3 DEF LeasesFit, SessionFree
            <3> QED BY <1>1, <2>1, <2>2, <3>1, <3>2
                    DEF Quiet, Frame, FilesFit, Names, Known, Writing
      <2>6. ProcInv(a)'
            <3>1. Place(a)' BY <1>0, <1>1, <1>2, <2>1, <2>2 DEF ProcInv, Place, Writing
            <3>2. Switch(a)'
                  BY <1>0, <1>1, <1>2, <2>1, <2>2 DEF ProcInv, Switch, Switches
            <3>3. Base(a)' = Base(a) /\ ~Loaded(a)'
                  BY <1>1, <2>1, <2>2 DEF Base, Loaded, Writing
            <3>4. cur[a] # None => cur[a] \in Sessions /\ lease'[cur[a]] = lease[cur[a]]
                  BY <1>0, <1>2, <2>3 DEF VarTypes, Maybe
            <3>5. Reads(a)' BY <1>0, <1>1, <3>3, <3>4 DEF ProcInv, Reads
            <3>6. NotArchived(a)' BY <1>0, <1>1, <3>3, <3>4 DEF ProcInv, NotArchived
            <3>7. Writes(a)' BY <2>2 DEF Writes, Writing
            <3>8. Newborn(a)' BY <1>2, <2>1 DEF Newborn
            <3> QED BY <3>1, <3>2, <3>5, <3>6, <3>7, <3>8 DEF ProcInv
      <2> QED BY <2>4, <2>5, <2>6, QuietKeeps
<1>4. CASE ~Free(t, a)
      <2>1. /\ pc' = [pc EXCEPT ![a] = "idle"] /\ job' = [job EXCEPT ![a] = NoJob]
            /\ lease' = lease /\ pend' = pend
            BY <1>4 DEF Acquire, EndJob, Goto, Job
      <2>2. pc'[a] = "idle" /\ job'[a] = NoJob BY <1>0, <2>1 DEF VarTypes
      <2>3. VarTypes' BY <1>0, <1>1, <2>1, NoTypes DEF VarTypes, Places
      <2>4. Quiet(a)
            <3>1. Rest(a) /\ LeasesFit(a) /\ FilesFit(a)
                  BY <1>0, <1>1, <2>1 DEF Rest, LeasesFit, FilesFit, VarTypes
            <3> QED BY <1>1, <2>2, <3>1, NoTypes
                    DEF Quiet, Frame, Names, Known, Writing
      <2>5. ProcInv(a)'
            <3>1. Place(a)' BY <1>1, <1>2, <2>2, NoTypes DEF Place, Writing
            <3>2. Switch(a)'
                  BY <1>0, <1>1, <1>2, <2>1, <2>2, NoTypes DEF ProcInv, Switch, Switches
            <3>3. Base(a)' = Base(a) /\ ~Loaded(a)'
                  BY <1>1, <1>2, <2>2, NoTypes DEF Base, Loaded, Switches
            <3>4. Reads(a)' BY <1>0, <1>1, <2>1, <3>3 DEF ProcInv, Reads
            <3>5. NotArchived(a)' BY <1>0, <1>1, <2>1, <3>3 DEF ProcInv, NotArchived
            <3>6. Writes(a)' BY <2>2 DEF Writes, Writing
            <3>7. Newborn(a)' BY <2>2, NoTypes DEF Newborn
            <3> QED BY <3>1, <3>2, <3>4, <3>5, <3>6, <3>7 DEF ProcInv
      <2> QED BY <2>3, <2>4, <2>5, QuietKeeps
<1> QED BY <1>3, <1>4

-----------------------------------------------------------------------------
(* The switch *)

LEMMA UndoneKeeps ==
    ASSUME StoreInv, NEW a \in Procs, job[a].kind \in {"fork", "resume", "new"},
           pc' = [pc EXCEPT ![a] = "undo"], job' = job,
           (index' = index /\ dirty' = dirty) \/ ReadIndex,
           UNCHANGED <<file, lease, up, run, cur, pend, drawn, messages, lapsed>>
    PROVE  StoreInv'
<1> USE StoreAssumption
<1>0. VarTypes BY DEF StoreInv
<1>1. pc'[a] = "undo" BY <1>0 DEF VarTypes
<1>2. VarTypes'
      <2>1. index' \in [Sessions -> SummaryType] /\ dirty' \in BOOLEAN
            BY <1>0, IndexTypes DEF ReadIndex, VarTypes, SummaryType
      <2> QED BY <1>0, <2>1 DEF VarTypes, Places, SummaryType
<1>3. Rest(a) /\ LeasesFit(a) /\ FilesFit(a)
      BY <1>0 DEF Rest, LeasesFit, FilesFit, VarTypes
<1>4. Quiet(a) BY <1>1, <1>3 DEF Quiet, Frame, Names, Known, Writing
<1>5. ProcInv(a)' BY <1>1, ToUndo
<1> QED BY <1>2, <1>4, <1>5, QuietKeeps

LEMMA LoadKeeps ==
    ASSUME StoreInv, NEW a \in Procs, Load(a) PROVE StoreInv'
<1> USE StoreAssumption
<1> DEFINE t == job[a].target
           j == [job[a] EXCEPT !.text = file[t].text]
<1>0. VarTypes /\ ProcInv(a) BY DEF StoreInv
<1>1. /\ pc[a] = "load" /\ ReadIndex
      /\ UNCHANGED <<file, lease, up, run, cur, pend, drawn, messages, lapsed>>
      BY DEF Load, bounds
<1>2. /\ job[a].kind = "resume" /\ up[a] = "up" /\ job[a] # NoJob
      /\ t \in Sessions
      BY <1>0, <1>1, NoTypes DEF ProcInv, Place, Switch, Switches, VarTypes
<1>3. CASE Index[t].status # "active"
      <2>1. pc' = [pc EXCEPT ![a] = "undo"] /\ job' = job
            BY <1>3 DEF Load, Goto
      <2> QED BY <1>1, <1>2, <2>1, UndoneKeeps
<1>4. CASE Index[t].status = "active"
      <2>1. pc' = [pc EXCEPT ![a] = "save"] /\ job' = [job EXCEPT ![a] = j]
            BY <1>4 DEF Load, Goto, Job
      <2>2. file[t].status = "active"
            BY <1>1, <1>2, <1>4, IndexIsCatalog, CatalogStatus DEF ReadIndex
      <2>3. /\ j \in JobType /\ j.kind = "resume" /\ j.target = t
            /\ j.prev = job[a].prev /\ j.text = file[t].text
            <3>1. file[t].text \in Texts /\ job[a] \in JobType
                  BY <1>0, <1>2 DEF VarTypes, Records
            <3> HIDE DEF t
            <3> QED BY <1>2, <3>1 DEF JobType, t
      <2> HIDE DEF j
      <2>4. pc'[a] = "save" /\ job'[a] = j BY <1>0, <2>1 DEF VarTypes
      <2>5. VarTypes'
            <3>1. index' \in [Sessions -> SummaryType] /\ dirty' \in BOOLEAN
                  BY <1>0, <1>1, IndexTypes DEF ReadIndex
            <3> QED BY <1>0, <1>1, <2>1, <2>3, <3>1 DEF VarTypes, Places, SummaryType
      <2>6. Quiet(a)
            <3>1. Rest(a) /\ LeasesFit(a) /\ FilesFit(a)
                  BY <1>0, <1>1, <2>1 DEF Rest, LeasesFit, FilesFit, VarTypes
            <3> QED BY <1>1, <2>3, <2>4, <3>1 DEF Quiet, Frame, Names, Known, Writing
      <2>7. ProcInv(a)'
            <3>0. /\ job'[a].kind = "resume" /\ job'[a].target = t
                  /\ job'[a].prev = job[a].prev /\ job'[a].text = file[t].text
                  BY <2>3, <2>4
            <3>1. Place(a)' BY <1>1, <1>2, <2>4, <3>0, NoTypes DEF Place, Writing
            <3>2. Switch(a)'
                  BY <1>0, <1>1, <1>2, <2>4, <3>0 DEF ProcInv, Switch, Switches
            <3>3. Base(a)' = Base(a) BY <1>2, <3>0 DEF Base, Switches
            <3>4. Reads(a)' BY <1>0, <1>1, <3>0, <3>3 DEF ProcInv, Reads
            <3>5. NotArchived(a)' BY <1>0, <1>1, <2>2, <3>0 DEF ProcInv, NotArchived
            <3>6. Writes(a)' BY <2>4 DEF Writes, Writing
            <3>7. Newborn(a)' BY <3>0 DEF Newborn
            <3> QED BY <3>1, <3>2, <3>4, <3>5, <3>6, <3>7 DEF ProcInv
      <2> QED BY <2>5, <2>6, <2>7, QuietKeeps
<1> QED BY <1>3, <1>4

LEMMA SwapKeeps ==
    ASSUME StoreInv, NEW a \in Procs, Swap(a) PROVE StoreInv'
<1> USE StoreAssumption
<1> DEFINE r == [id |-> job[a].target, text |-> job[a].text]
<1>0. VarTypes /\ ProcInv(a) BY DEF StoreInv
<1>1. /\ pc[a] = "swap" /\ pc' = [pc EXCEPT ![a] = "commit"]
      /\ run' = [run EXCEPT ![a] = r]
      /\ UNCHANGED <<file, lease, index, dirty, up, job, cur, pend, drawn,
                     messages, lapsed>>
      BY DEF Swap, Goto, store, bounds
<1>2. job[a].kind \in {"resume", "new"} /\ r \in Runtimes
      <2>1. job[a] \in JobType BY <1>0 DEF VarTypes
      <2> QED BY <1>0, <1>1, <2>1 DEF ProcInv, Place, JobType, Runtimes, Maybe
<1>3. pc'[a] = "commit" /\ run'[a] = r BY <1>0, <1>1 DEF VarTypes
<1>4. VarTypes' BY <1>0, <1>1, <1>2 DEF VarTypes, Places
<1>5. Quiet(a)
      <2>1. Rest(a) /\ LeasesFit(a) /\ FilesFit(a)
            BY <1>0, <1>1 DEF Rest, LeasesFit, FilesFit, VarTypes
      <2> QED BY <1>1, <1>3, <2>1 DEF Quiet, Frame, Names, Known, Writing
<1>6. ProcInv(a)'
      <2>1. Place(a)' BY <1>0, <1>1, <1>2, <1>3 DEF ProcInv, Place, Writing
      <2>2. Switch(a)' BY <1>0, <1>1, <1>2, <1>3 DEF ProcInv, Switch, Switches
      <2>3. Base(a)' = Base(a) /\ Loaded(a)
            BY <1>1, <1>2 DEF Base, Loaded, Switches
      <2>4. Reads(a)' BY <1>0, <1>1, <2>3 DEF ProcInv, Reads
      <2>5. NotArchived(a)' BY <1>0, <1>1, <2>3 DEF ProcInv, NotArchived
      <2>6. Writes(a)' BY <1>3 DEF Writes, Writing
      <2>7. Newborn(a)' BY <1>1, <1>2 DEF Newborn
      <2> QED BY <2>1, <2>2, <2>4, <2>5, <2>6, <2>7 DEF ProcInv
<1> QED BY <1>4, <1>5, <1>6, QuietKeeps

LEMMA CommitKeeps ==
    ASSUME StoreInv, NEW a \in Procs, Commit(a) PROVE StoreInv'
<1> USE StoreAssumption
<1> DEFINE t == job[a].target
<1>0. VarTypes /\ ProcInv(a) BY DEF StoreInv
<1>1. /\ pc[a] = "commit" /\ SessionFree(t)
      /\ UNCHANGED <<file, index, dirty, up, job, run, cur, pend, drawn,
                     messages, lapsed>>
      BY DEF Commit, bounds
<1>2. job[a].kind \in {"resume", "new"} /\ t \in Sessions
      BY <1>0, <1>1 DEF ProcInv, Place, Switch, Switches, VarTypes
<1>3. CASE lease[t].owner # a
      <2>1. pc' = [pc EXCEPT ![a] = "undo"] /\ lease' = lease
            BY <1>3 DEF Commit, Goto
      <2> QED BY <1>1, <1>2, <2>1, UndoneKeeps
<1>4. CASE lease[t].owner = a
      <2>1. /\ pc' = [pc EXCEPT ![a] = "release"]
            /\ lease' = [lease EXCEPT ![t] = [owner |-> a, fresh |-> TRUE]]
            BY <1>4 DEF Commit, Goto, Take
      <2>2. pc'[a] = "release" BY <1>0, <2>1 DEF VarTypes
      <2>3. /\ lease'[t] = [owner |-> a, fresh |-> TRUE]
            /\ \A x \in Sessions \ {t} : lease'[x] = lease[x]
            BY <1>0, <1>2, <2>1 DEF VarTypes
      <2>4. \A x \in Sessions : lease'[x].owner = lease[x].owner BY <1>4, <2>3
      <2>5. VarTypes' BY <1>0, <1>1, <1>2, <2>1 DEF VarTypes, Places
      <2>6. Quiet(a)
            <3>1. Rest(a) BY <1>0, <1>1, <2>1 DEF Rest, VarTypes
            <3>2. LeasesFit(a) BY <1>1, <2>3 DEF LeasesFit, SessionFree
            <3> QED BY <1>1, <2>2, <3>1, <3>2
                    DEF Quiet, Frame, FilesFit, Names, Known, Writing
      <2>7. ProcInv(a)'
            <3>1. Place(a)' BY <1>0, <1>1, <1>2, <2>2 DEF ProcInv, Place, Writing
            <3>2. Switch(a)' BY <1>0, <1>1, <1>2, <2>2 DEF ProcInv, Switch, Switches
            <3>3. Base(a)' = Base(a) /\ Loaded(a)
                  BY <1>1, <1>2 DEF Base, Loaded
            <3>4. cur[a] # None => cur[a] \in Sessions BY <1>0 DEF VarTypes, Maybe
            <3>5. Reads(a)' BY <1>0, <1>1, <1>2, <2>4, <3>3, <3>4 DEF ProcInv, Reads
            <3>6. NotArchived(a)'
                  BY <1>0, <1>1, <1>2, <2>4, <3>3, <3>4 DEF ProcInv, NotArchived
            <3>7. Writes(a)' BY <2>2 DEF Writes, Writing
            <3>8. Newborn(a)' BY <1>1, <1>2 DEF Newborn
            <3> QED BY <3>1, <3>2, <3>5, <3>6, <3>7, <3>8 DEF ProcInv
      <2> QED BY <2>5, <2>6, <2>7, QuietKeeps
<1> QED BY <1>3, <1>4

\* Leases of the process's own are dropped where nobody is writing.
LEMMA DropFits ==
    ASSUME StoreInv, NEW a \in Procs, NEW S, Drop(S, a),
           \A s \in S \cap Sessions : SessionFree(s)
    PROVE  /\ LeasesFit(a)
           /\ lease' \in [Sessions -> [owner : Procs \cup {None}, fresh : BOOLEAN]]
           /\ \A s \in Sessions :
                /\ s \notin S => lease'[s] = lease[s]
                /\ s \in S => lease'[s].owner # a
                /\ lease'[s].owner \in {lease[s].owner, None}
<1> USE StoreAssumption
<1>0. VarTypes BY DEF StoreInv
<1>1. ASSUME NEW s \in Sessions
      PROVE  \/ lease'[s] = lease[s] /\ (s \in S => lease[s].owner # a)
             \/ lease'[s] = NoLease /\ s \in S
      BY DEF Drop
<1>2. /\ NoLease \in [owner : Procs \cup {None}, fresh : BOOLEAN]
      /\ NoLease.owner = None /\ None # a
      BY DEF NoLease
<1>3. lease' \in [Sessions -> [owner : Procs \cup {None}, fresh : BOOLEAN]]
      <2>1. \A s \in Sessions :
               lease[s] \in [owner : Procs \cup {None}, fresh : BOOLEAN]
            BY <1>0 DEF VarTypes
      <2> QED BY <1>2, <2>1 DEF Drop
<1>4. LeasesFit(a) BY <1>1 DEF LeasesFit, SessionFree
<1> QED BY <1>1, <1>2, <1>3, <1>4

LEMMA ReleaseKeeps ==
    ASSUME StoreInv, NEW a \in Procs, Release(a) PROVE StoreInv'
<1> USE StoreAssumption
<1> DEFINE t == job[a].target
<1>0. VarTypes /\ ProcInv(a) BY DEF StoreInv
<1>1. /\ pc[a] = "release" /\ (cur[a] # None => SessionFree(cur[a]))
      /\ UNCHANGED <<file, index, dirty, up, run, drawn, messages, lapsed>>
      BY DEF Release, bounds
<1>2. /\ job[a].kind \in {"resume", "new"} /\ up[a] = "up" /\ job[a] # NoJob
      /\ t \in Sessions /\ t \in drawn /\ t # cur[a]
      /\ run[a] = [id |-> t, text |-> job[a].text]
      BY <1>0, <1>1, NoTypes DEF ProcInv, Place, Switch, Switches, VarTypes
<1>3. CASE cur[a] # None /\ lease[cur[a]].owner \notin {None, a}
      <2>1. pc' = [pc EXCEPT ![a] = "undo"] /\ UNCHANGED <<lease, job, cur, pend>>
            BY <1>3 DEF Release, Goto
      <2> QED BY <1>1, <1>2, <2>1, UndoneKeeps
<1>4. CASE ~(cur[a] # None /\ lease[cur[a]].owner \notin {None, a})
      <2>1. /\ Drop({cur[a]}, a)
            /\ cur' = [cur EXCEPT ![a] = t] /\ pend' = [pend EXCEPT ![a] = @ \ {t}]
            /\ pc' = [pc EXCEPT ![a] = "idle"] /\ job' = [job EXCEPT ![a] = NoJob]
            BY <1>4 DEF Release, EndJob, Goto, Job
      <2>2. /\ pc'[a] = "idle" /\ job'[a] = NoJob /\ cur'[a] = t
            /\ pend'[a] = pend[a] \ {t}
            BY <1>0, <2>1 DEF VarTypes
      <2>3. \A s \in {cur[a]} \cap Sessions : SessionFree(s) BY <1>1
      <2>4. /\ LeasesFit(a) /\ lease'[t] = lease[t]
            /\ lease' \in [Sessions -> [owner : Procs \cup {None}, fresh : BOOLEAN]]
            BY <1>2, <2>1, <2>3, DropFits
      <2>5. VarTypes'
            BY <1>0, <1>1, <1>2, <2>1, <2>4, NoTypes DEF VarTypes, Places, Maybe
      <2>6. Quiet(a)
            <3>1. Rest(a) BY <1>0, <1>1, <2>1 DEF Rest, VarTypes
            <3> QED BY <1>1, <2>2, <2>4, <3>1, NoTypes
                    DEF Quiet, Frame, FilesFit, Names, Known, Writing
      <2>7. ProcInv(a)'
            <3>1. Place(a)' BY <1>1, <1>2, <2>2, NoTypes DEF Place, Writing
            <3>2. Switch(a)' BY <1>1, <1>2, <2>2, NoTypes DEF Switch, Switches
            <3>3. Base(a)' = job[a].text /\ ~Loaded(a)' /\ Loaded(a)
                  BY <1>1, <1>2, <2>2, NoTypes DEF Base, Loaded, Switches
            <3>4. Reads(a)' BY <1>0, <1>1, <2>2, <2>4, <3>3 DEF ProcInv, Reads
            <3>5. NotArchived(a)'
                  BY <1>0, <1>1, <2>2, <2>4, <3>3 DEF ProcInv, NotArchived
            <3>6. Writes(a)' BY <2>2 DEF Writes, Writing
            <3>7. Newborn(a)' BY <2>2, NoTypes DEF Newborn
            <3> QED BY <3>1, <3>2, <3>4, <3>5, <3>6, <3>7 DEF ProcInv
      <2> QED BY <2>5, <2>6, <2>7, QuietKeeps
<1> QED BY <1>3, <1>4

\* The command is over, and the session it came from is the one that runs.
LEMMA Returned ==
    ASSUME StoreInv, NEW a \in Procs, pc[a] = "undo",
           pc' = [pc EXCEPT ![a] = "idle"], job' = [job EXCEPT ![a] = NoJob],
           run' = [run EXCEPT ![a] = job[a].prev],
           pend' = pend \/ pend' = [pend EXCEPT ![a] = @ \ {job[a].target}],
           LeasesFit(a), cur[a] # None => lease'[cur[a]] = lease[cur[a]],
           lease' \in [Sessions -> [owner : Procs \cup {None}, fresh : BOOLEAN]],
           UNCHANGED <<file, index, dirty, up, cur, drawn, messages, lapsed>>
    PROVE  StoreInv'
<1> USE StoreAssumption
<1>0. VarTypes /\ ProcInv(a) BY DEF StoreInv
<1>1. /\ job[a].kind \in Switches /\ up[a] = "up" /\ job[a].prev.id = cur[a]
      BY <1>0, NoTypes DEF ProcInv, Place, Switch, Switches
<1>2. pc'[a] = "idle" /\ job'[a] = NoJob /\ run'[a] = job[a].prev
      BY <1>0 DEF VarTypes
<1>3. pend'[a] \subseteq pend[a] BY <1>0 DEF VarTypes
<1>4. VarTypes'
      <2>1. job[a].prev \in Runtimes
            <3>1. job[a] \in JobType BY <1>0 DEF VarTypes
            <3> QED BY <3>1 DEF JobType
      <2>2. pend' \in [Procs -> SUBSET Sessions] BY <1>0 DEF VarTypes
      <2> QED BY <1>0, <2>1, <2>2, NoTypes DEF VarTypes, Places
<1>5. Quiet(a)
      <2>1. Rest(a) BY <1>0 DEF Rest, VarTypes
      <2> QED BY <1>2, <2>1, NoTypes DEF Quiet, Frame, FilesFit, Names, Known, Writing
<1>6. ProcInv(a)'
      <2>1. Place(a)' BY <1>1, <1>2, NoTypes DEF Place, Writing
      <2>8. /\ job'[a].kind = "none" /\ job'[a].target = None
            /\ run'[a].id = cur[a] /\ run'[a].text = job[a].prev.text
            BY <1>1, <1>2, NoTypes
      <2>2. Switch(a)'
            <3>1. cur[a] \notin pend'[a] /\ cur[a] \in drawn \cup {None}
                  BY <1>0, <1>3 DEF ProcInv, Switch
            <3> QED BY <1>2, <2>8, <3>1 DEF Switch, Switches
      <2>3. Base(a)' = Base(a) /\ ~Loaded(a)'
            BY <1>1, <2>8 DEF Base, Loaded, Switches
      <2>4. Reads(a)' BY <1>0, <2>3 DEF ProcInv, Reads
      <2>5. NotArchived(a)' BY <1>0, <2>3 DEF ProcInv, NotArchived
      <2>6. Writes(a)' BY <1>2 DEF Writes, Writing
      <2>7. Newborn(a)' BY <1>2, NoTypes DEF Newborn
      <2> QED BY <2>1, <2>2, <2>4, <2>5, <2>6, <2>7 DEF ProcInv
<1> QED BY <1>4, <1>5, <1>6, QuietKeeps

LEMMA UndoKeeps ==
    ASSUME StoreInv, NEW a \in Procs, Undo(a) \/ UndoFails(a) PROVE StoreInv'
<1> USE StoreAssumption
<1> DEFINE t == job[a].target
<1>0. VarTypes /\ ProcInv(a) BY DEF StoreInv
<1>1. CASE Undo(a)
      <2>1. /\ pc[a] = "undo" /\ SessionFree(t) /\ Drop({t}, a)
            /\ pend' = [pend EXCEPT ![a] = @ \ {t}]
            /\ run' = [run EXCEPT ![a] = job[a].prev]
            /\ pc' = [pc EXCEPT ![a] = "idle"] /\ job' = [job EXCEPT ![a] = NoJob]
            /\ UNCHANGED <<file, index, dirty, up, cur, drawn, messages, lapsed>>
            BY <1>1 DEF Undo, EndJob, Goto, Job, bounds
      <2>2. t # cur[a]
            BY <1>0, <2>1 DEF ProcInv, Place, Switch, Switches
      <2>3. cur[a] # None => cur[a] \in Sessions BY <1>0 DEF VarTypes, Maybe
      <2>4. \A s \in {t} \cap Sessions : SessionFree(s) BY <2>1
      <2>5. /\ LeasesFit(a) /\ (cur[a] # None => lease'[cur[a]] = lease[cur[a]])
            /\ lease' \in [Sessions -> [owner : Procs \cup {None}, fresh : BOOLEAN]]
            BY <2>1, <2>2, <2>3, <2>4, DropFits
      <2> QED BY <2>1, <2>5, Returned
<1>2. CASE UndoFails(a)
      <2>1. /\ pc[a] = "undo"
            /\ run' = [run EXCEPT ![a] = job[a].prev]
            /\ pc' = [pc EXCEPT ![a] = "idle"] /\ job' = [job EXCEPT ![a] = NoJob]
            /\ UNCHANGED <<file, lease, index, dirty, up, cur, pend, drawn, messages,
                           lapsed>>
            BY <1>2 DEF UndoFails, EndJob, Goto, Job, store
      <2>2. /\ LeasesFit(a)
            /\ lease' \in [Sessions -> [owner : Procs \cup {None}, fresh : BOOLEAN]]
            BY <1>0, <2>1 DEF LeasesFit, VarTypes
      <2> QED BY <2>1, <2>2, Returned
<1> QED BY <1>1, <1>2

LEMMA SwitchFailsKeeps ==
    ASSUME StoreInv, NEW a \in Procs, SwitchFails(a) PROVE StoreInv'
<1>0. VarTypes /\ ProcInv(a) BY DEF StoreInv
<1>1. /\ pc[a] \in {"load", "save", "swap", "commit", "release"}
      /\ pc' = [pc EXCEPT ![a] = "undo"] /\ job' = job
      /\ UNCHANGED <<file, lease, index, dirty, up, run, cur, pend, drawn,
                     messages, lapsed>>
      BY DEF SwitchFails, Goto, store
<1>2. job[a].kind \in {"resume", "new"} BY <1>0, <1>1 DEF ProcInv, Place
<1> QED BY <1>1, <1>2, UndoneKeeps

-----------------------------------------------------------------------------
(* The life of a process *)

LEMMA StartNewKeeps ==
    ASSUME StoreInv, NEW a \in Procs, NEW s \in Sessions, StartNew(a, s)
    PROVE  StoreInv'
<1> USE StoreAssumption
<1> DEFINE r == [run[a] EXCEPT !.id = s]
<1>0. VarTypes /\ ProcInv(a) BY DEF StoreInv
<1>1. /\ up[a] = "new" /\ up' = [up EXCEPT ![a] = "up"]
      /\ s \notin drawn /\ drawn' = drawn \cup {s}
      /\ lease' = [lease EXCEPT ![s] = [owner |-> a, fresh |-> TRUE]]
      /\ cur' = [cur EXCEPT ![a] = s]
      /\ UNCHANGED <<file, index, dirty, pc, job, pend, messages, lapsed>>
      BY DEF StartNew, Draw, Take, bounds
<1>2. run' = [run EXCEPT ![a] = r] BY DEF StartNew
<1>3. r \in Runtimes /\ r.id = s
      <2>1. run[a] \in Runtimes BY <1>0 DEF VarTypes
      <2> QED BY <2>1 DEF Runtimes, Maybe
<1> HIDE DEF r
<1>4. up'[a] = "up" /\ cur'[a] = s /\ run'[a] = r
      BY <1>0, <1>1, <1>2 DEF VarTypes
<1>5. /\ pc[a] = "idle" /\ job[a] = NoJob /\ pend[a] = {}
      /\ job[a].kind = "none" /\ job[a].target = None
      BY <1>0, <1>1, NoTypes DEF ProcInv, Place
<1>6. file[s] = NoRecord /\ \A q \in Procs : pc[q] \in Writing => job[q].on # s
      BY <1>1, FreshId
<1>7. /\ lease'[s] = [owner |-> a, fresh |-> TRUE]
      /\ \A x \in Sessions \ {s} : lease'[x] = lease[x]
      BY <1>0, <1>1 DEF VarTypes
<1>8. VarTypes' BY <1>0, <1>1, <1>2, <1>3 DEF VarTypes, Maybe
<1>9. Quiet(a)
      <2>1. Rest(a) BY <1>0, <1>1, <1>2 DEF Rest, VarTypes
      <2>2. LeasesFit(a) BY <1>6, <1>7 DEF LeasesFit
      <2> QED BY <1>1, <1>4, <1>5, <2>1, <2>2
              DEF Quiet, Frame, FilesFit, Names, Known, Writing
<1>10. ProcInv(a)'
      <2>1. Place(a)' BY <1>1, <1>4, <1>5 DEF Place, Writing
      <2>2. Switch(a)' BY <1>1, <1>3, <1>4, <1>5 DEF Switch, Switches
      <2>3. file'[s].text = {} /\ file'[s].status # "archived" /\ ~Loaded(a)'
            <3>1. NoRecord.text = {} /\ NoRecord.status = "none" BY DEF NoRecord
            <3> QED BY <1>1, <1>5, <1>6, <3>1 DEF Loaded
      <2>4. Reads(a)' BY <1>4, <2>3 DEF Reads
      <2>5. NotArchived(a)' BY <1>4, <2>3 DEF NotArchived
      <2>6. Writes(a)' BY <1>1, <1>5 DEF Writes, Writing
      <2>7. Newborn(a)' BY <1>1, <1>5 DEF Newborn
      <2> QED BY <2>1, <2>2, <2>4, <2>5, <2>6, <2>7 DEF ProcInv
<1> QED BY <1>8, <1>9, <1>10, QuietKeeps

LEMMA StartResumeKeeps ==
    ASSUME StoreInv, NEW a \in Procs, NEW s \in Sessions, StartResume(a, s)
    PROVE  StoreInv'
<1> USE StoreAssumption
<1> DEFINE j == [NoJob EXCEPT !.kind = "resume", !.target = s, !.prev = run[a],
                              !.text = file[s].text]
<1>0. VarTypes /\ ProcInv(a) BY DEF StoreInv
<1>1. /\ up[a] = "new" /\ up' = [up EXCEPT ![a] = "up"]
      /\ ReadIndex /\ Index[s].status = "active"
      /\ pc' = [pc EXCEPT ![a] = "acquire"] /\ job' = [job EXCEPT ![a] = j]
      /\ UNCHANGED <<file, lease, run, cur, pend, drawn, messages, lapsed>>
      BY DEF StartResume, Goto, Job, bounds
<1>2. /\ j \in JobType /\ j.kind = "resume" /\ j.target = s /\ j.prev = run[a]
      <2>1. file[s].text \in Texts /\ run[a] \in Runtimes
            BY <1>0 DEF VarTypes, Records
      <2> QED BY <2>1, NoTypes DEF JobType, Maybe
<1> HIDE DEF j
<1>3. pc'[a] = "acquire" /\ job'[a] = j /\ up'[a] = "up"
      BY <1>0, <1>1 DEF VarTypes
<1>4. file[s].status = "active"
      BY <1>1, IndexIsCatalog, CatalogStatus DEF ReadIndex
<1>5. s \in drawn BY <1>4 DEF StoreInv, Undrawn, NoRecord
<1>6. /\ cur[a] = None /\ run[a].id = None /\ pend[a] = {}
      /\ job[a].kind = "none"
      BY <1>0, <1>1, NoTypes DEF ProcInv, Place, Switch, Switches
<1>7. /\ job'[a].kind = "resume" /\ job'[a].target = s /\ job'[a].prev = run[a]
      /\ run'[a] = run[a] /\ cur'[a] = None /\ pend'[a] = {}
      BY <1>1, <1>2, <1>3, <1>6
<1>8. VarTypes'
      <2>1. index' \in [Sessions -> SummaryType] /\ dirty' \in BOOLEAN
            BY <1>0, <1>1, IndexTypes DEF ReadIndex
      <2> QED BY <1>0, <1>1, <1>2, <2>1 DEF VarTypes, Places, SummaryType
<1>9. Quiet(a)
      <2>1. Rest(a) /\ LeasesFit(a) /\ FilesFit(a)
            BY <1>0, <1>1 DEF Rest, LeasesFit, FilesFit, VarTypes
      <2>2. Known(s, a) BY <1>4 DEF Known
      <2> QED BY <1>1, <1>3, <1>7, <2>1, <2>2 DEF Quiet, Frame, Names, Known, Writing
<1>10. ProcInv(a)'
      <2>1. Place(a)' BY <1>3, <1>7, NoTypes DEF Place, Writing
      <2>2. Switch(a)' BY <1>3, <1>5, <1>6, <1>7, <1>1 DEF Switch, Switches
      <2>3. ~Loaded(a)' BY <1>3 DEF Loaded, Writing
      <2>4. Reads(a)' BY <1>7, <2>3 DEF Reads
      <2>5. NotArchived(a)' BY <1>7, <2>3 DEF NotArchived
      <2>6. Writes(a)' BY <1>3 DEF Writes, Writing
      <2>7. Newborn(a)' BY <1>7 DEF Newborn
      <2> QED BY <2>1, <2>2, <2>4, <2>5, <2>6, <2>7 DEF ProcInv
<1> QED BY <1>8, <1>9, <1>10, QuietKeeps

\* A process that is gone has no session.
LEMMA GoneKeeps ==
    ASSUME StoreInv, NEW a \in Procs, up[a] = "up",
           up' = [up EXCEPT ![a] = "gone"], cur' = [cur EXCEPT ![a] = None],
           pend' = [pend EXCEPT ![a] = {}],
           run' = [run EXCEPT ![a] = [id |-> None, text |-> {}]],
           pc' = [pc EXCEPT ![a] = "idle"], job' = [job EXCEPT ![a] = NoJob],
           LeasesFit(a),
           lease' \in [Sessions -> [owner : Procs \cup {None}, fresh : BOOLEAN]],
           UNCHANGED <<file, index, dirty, drawn, messages, lapsed>>
    PROVE  StoreInv'
<1> USE StoreAssumption
<1>0. VarTypes BY DEF StoreInv
<1>1. /\ up'[a] = "gone" /\ cur'[a] = None /\ pend'[a] = {} /\ pc'[a] = "idle"
      /\ job'[a] = NoJob /\ run'[a] = [id |-> None, text |-> {}]
      BY <1>0 DEF VarTypes
<1>2. VarTypes' BY <1>0, NoTypes DEF VarTypes, Places, Maybe
<1>3. Quiet(a)
      <2>1. Rest(a) BY <1>0 DEF Rest, VarTypes
      <2> QED BY <1>1, <2>1, NoTypes DEF Quiet, Frame, FilesFit, Names, Known, Writing
<1>4. ProcInv(a)'
      <2>1. Place(a)' BY <1>1, NoTypes DEF Place, Writing
      <2>2. Switch(a)'
            <3>1. job'[a].kind = "none" /\ job'[a].target = None BY <1>1, NoTypes
            <3>2. run'[a].id = None BY <1>1
            <3> QED BY <1>1, <3>1, <3>2 DEF Switch, Switches
      <2>3. ~Loaded(a)' BY <1>1, NoTypes DEF Loaded
      <2>4. Reads(a)' BY <1>1, <2>3 DEF Reads
      <2>5. NotArchived(a)' BY <1>1, <2>3 DEF NotArchived
      <2>6. Writes(a)' BY <1>1 DEF Writes, Writing
      <2>7. Newborn(a)' BY <1>1, NoTypes DEF Newborn
      <2> QED BY <2>1, <2>2, <2>4, <2>5, <2>6, <2>7 DEF ProcInv
<1> QED BY <1>2, <1>3, <1>4, QuietKeeps

LEMMA EndKeeps ==
    ASSUME StoreInv, NEW a \in Procs, Close(a) \/ Crash(a) PROVE StoreInv'
<1>0. VarTypes /\ ProcInv(a) BY DEF StoreInv
<1>1. CASE Close(a)
      <2> DEFINE S == (pend[a] \cup {cur[a]}) \ {None}
      <2>1. /\ up[a] = "up" /\ pc[a] = "idle"
            /\ (\A s \in S : SessionFree(s)) /\ Drop(S, a)
            /\ up' = [up EXCEPT ![a] = "gone"] /\ cur' = [cur EXCEPT ![a] = None]
            /\ pend' = [pend EXCEPT ![a] = {}]
            /\ run' = [run EXCEPT ![a] = [id |-> None, text |-> {}]]
            /\ UNCHANGED <<file, index, dirty, pc, job, drawn, messages, lapsed>>
            BY <1>1 DEF Close, Idle, bounds
      <2>2. pc' = [pc EXCEPT ![a] = "idle"] /\ job' = [job EXCEPT ![a] = NoJob]
            <3>1. job[a] = NoJob BY <1>0, <2>1 DEF ProcInv, Place
            <3> QED BY <1>0, <2>1, <3>1 DEF VarTypes
      <2>3. /\ LeasesFit(a)
            /\ lease' \in [Sessions -> [owner : Procs \cup {None}, fresh : BOOLEAN]]
            BY <2>1, DropFits
      <2> QED BY <2>1, <2>2, <2>3, GoneKeeps
<1>2. CASE Crash(a)
      <2>1. /\ up[a] = "up" /\ up' = [up EXCEPT ![a] = "gone"]
            /\ cur' = [cur EXCEPT ![a] = None] /\ pend' = [pend EXCEPT ![a] = {}]
            /\ run' = [run EXCEPT ![a] = [id |-> None, text |-> {}]]
            /\ pc' = [pc EXCEPT ![a] = "idle"] /\ job' = [job EXCEPT ![a] = NoJob]
            /\ UNCHANGED <<file, lease, index, dirty, drawn, messages, lapsed>>
            BY <1>2 DEF Crash, EndJob, Goto, Job, store
      <2>2. /\ LeasesFit(a)
            /\ lease' \in [Sessions -> [owner : Procs \cup {None}, fresh : BOOLEAN]]
            BY <1>0, <2>1 DEF LeasesFit, VarTypes
      <2> QED BY <2>1, <2>2, GoneKeeps
<1> QED BY <1>1, <1>2

-----------------------------------------------------------------------------
(* The invariant holds *)

LEMMA InitInv == Init => StoreInv
<1> USE StoreAssumption
<1> SUFFICES ASSUME Init PROVE StoreInv OBVIOUS
<1> DEFINE first == [text |-> {0}, title |-> 0, status |-> "active"]
<1>1. first \in Records BY TextTypes DEF Records
<1>2. file \in [Sessions -> Records] BY <1>1, NoTypes DEF Init
<1>3. index \in [Sessions -> SummaryType]
      BY <1>2, SummaryTypes DEF Init, Catalog
<1>4. VarTypes
      <2>1. lease \in [Sessions -> [owner : Procs \cup {None}, fresh : BOOLEAN]]
            BY DEF Init, NoLease
      <2>2. /\ pc \in [Procs -> Places] /\ up \in [Procs -> {"new", "up", "gone"}]
            /\ cur \in [Procs -> Maybe] /\ pend \in [Procs -> SUBSET Sessions]
            BY DEF Init, Places, Maybe
      <2>3. job \in [Procs -> JobType] /\ run \in [Procs -> Runtimes]
            BY NoTypes DEF Init
      <2>4. /\ dirty \in BOOLEAN /\ drawn \in SUBSET Sessions /\ messages \in Nat
            /\ lapsed \subseteq Procs
            BY DEF Init
      <2> QED BY <1>2, <1>3, <2>1, <2>2, <2>3, <2>4 DEF VarTypes, SummaryType
<1>5. ASSUME NEW p \in Procs PROVE ProcInv(p)
      <2>1. /\ up[p] = "new" /\ pc[p] = "idle" /\ job[p] = NoJob /\ cur[p] = None
            /\ pend[p] = {} /\ run[p] = [id |-> None, text |-> {}]
            /\ \A s \in Sessions : lease[s].owner # p
            BY DEF Init, NoLease
      <2>2. Place(p) BY <2>1, NoTypes DEF Place, Writing
      <2>3. Switch(p) BY <2>1, NoTypes DEF Switch, Switches
      <2>4. ~Loaded(p) BY <2>1, NoTypes DEF Loaded
      <2>5. Reads(p) BY <2>1, <2>4 DEF Reads
      <2>6. NotArchived(p) BY <2>1, <2>4 DEF NotArchived
      <2>7. Writes(p) BY <2>1 DEF Writes, Writing
      <2>8. Newborn(p) BY <2>1, NoTypes DEF Newborn
      <2> QED BY <2>2, <2>3, <2>5, <2>6, <2>7, <2>8 DEF ProcInv
<1>6. \A p \in Procs : pc[p] \notin Writing BY DEF Init, Writing
<1>7. OneWriter /\ Derived BY <1>6 DEF OneWriter, Derived, Init
<1>8. Stale /\ Undrawn BY DEF Init, Stale, Undrawn, NoLease
<1> QED BY <1>4, <1>5, <1>7, <1>8 DEF StoreInv

LEMMA NextInv == StoreInv /\ [Next]_vars => StoreInv'
<1> SUFFICES ASSUME StoreInv, [Next]_vars PROVE StoreInv' OBVIOUS
<1>1. ASSUME NEW p \in Procs, Step(p) PROVE StoreInv'
      BY <1>1, ReplaceKeeps, WriteIndexKeeps, WrittenKeeps, AcquireKeeps, LoadKeeps,
         SaveFirstKeeps, SwapKeeps, CommitKeeps, BranchKeeps, ReleaseKeeps, UndoKeeps
      DEF Step
<1>2. ASSUME NEW p \in Procs, User(p) PROVE StoreInv'
      <2>1. CASE Work(p) \/ Save(p) \/ Close(p)
            BY <2>1, WorkKeeps, SaveKeeps, EndKeeps
      <2>2. ASSUME NEW s \in Sessions,
                   \/ Rename(p, s) \/ Archive(p, s) \/ Unarchive(p, s)
                   \/ Resume(p, s) \/ New(p, s) \/ StartNew(p, s) \/ StartResume(p, s)
            PROVE  StoreInv'
            BY <2>2, EditsKeep, ResumeKeeps, NewKeeps, StartNewKeeps, StartResumeKeeps
      <2>3. ASSUME NEW s \in Sessions, NEW child \in Sessions, Fork(p, s, child)
            PROVE  StoreInv'
            BY <2>3, ForkKeeps
      <2> QED BY <1>2, <2>1, <2>2, <2>3 DEF User
<1>3. ASSUME NEW p \in Procs, Fails(p) PROVE StoreInv'
      BY <1>3, WriteFailsKeeps, SwitchFailsKeeps, UndoKeeps, EndKeeps DEF Fails
<1>4. ASSUME NEW p \in Procs, Heartbeat(p) PROVE StoreInv'
      BY <1>4, HeartbeatKeeps
<1>5. ASSUME NEW s \in Sessions, Lapse(s) PROVE StoreInv' BY <1>5, LapseKeeps
<1>6. CASE UNCHANGED vars
      <2> USE <1>6 DEF vars, store, procs, bounds
      <2>1. VarTypes' BY DEF StoreInv, VarTypes
      <2>2. ASSUME NEW p \in Procs PROVE ProcInv(p)'
            <3>0. ProcInv(p) BY DEF StoreInv
            <3>1. Base(p)' = Base(p) /\ Loaded(p)' = Loaded(p) BY DEF Base, Loaded
            <3>2. Place(p)' BY <3>0 DEF ProcInv, Place
            <3>6. Switch(p)' BY <3>0 DEF ProcInv, Switch
            <3>3. Reads(p)' /\ NotArchived(p)'
                  BY <3>0, <3>1 DEF ProcInv, Reads, NotArchived
            <3>4. Writes(p)' BY <3>0, <3>1 DEF ProcInv, Writes
            <3>5. Newborn(p)' BY <3>0 DEF ProcInv, Newborn
            <3> QED BY <3>2, <3>3, <3>4, <3>5, <3>6 DEF ProcInv
      <2>3. OneWriter' /\ Derived' /\ Stale' /\ Undrawn'
            BY DEF StoreInv, OneWriter, Derived, CatalogFree, Catalog, Stale, Undrawn
      <2> QED BY <2>1, <2>2, <2>3 DEF StoreInv
<1> QED BY <1>1, <1>2, <1>3, <1>4, <1>5, <1>6 DEF Next

LEMMA Holds == Spec => []StoreInv
BY InitInv, NextInv, PTL DEF Spec

LEMMA InvConsistent == StoreInv => StoreConsistent
<1> SUFFICES ASSUME StoreInv PROVE StoreConsistent OBVIOUS
<1>0. VarTypes BY DEF StoreInv
<1>1. StoreTypeOK
      <2>1. Records \subseteq Record /\ Runtimes \subseteq Runtime
            BY DEF Records, Record, Runtimes, Runtime, Texts, Maybe
      <2>2. file \in [Sessions -> Record] /\ run \in [Procs -> Runtime]
            BY <1>0, <2>1 DEF VarTypes
      <2>3. \A p \in Procs : cur[p] \notin pend[p] BY DEF StoreInv, ProcInv, Switch
      <2> QED BY <1>0, <2>2, <2>3 DEF StoreTypeOK, VarTypes, Maybe
<1>2. ASSUME NEW p \in Procs, Idle(p)
      PROVE  run[p].id = cur[p] /\ Base(p) = run[p].text /\ ProcInv(p)
      <2>1. ProcInv(p) BY DEF StoreInv
      <2>2. job[p].kind = "none" BY <1>2, <2>1, NoTypes DEF Idle, ProcInv, Place
      <2> QED BY <2>1, <2>2 DEF ProcInv, Switch, Switches, Base
<1>3. RuntimeIsLeased BY <1>2 DEF RuntimeIsLeased
<1>4. OwnerHasRead BY <1>2 DEF OwnerHasRead, ProcInv, Reads
<1>5. ArchivedNotRun BY <1>2 DEF ArchivedNotRun, ProcInv, NotArchived
<1>6. CatalogIsDerived BY DEF StoreInv, Derived, CatalogIsDerived
<1> QED BY <1>1, <1>3, <1>4, <1>5, <1>6 DEF StoreConsistent

\* The types; a process that waits for its user runs the session it leased,
\* which is not archived and of which it has read everything; a catalog that
\* is not marked dirty says what the records say.
THEOREM StoreHolds == Spec => []StoreConsistent
BY Holds, InvConsistent, PTL

-----------------------------------------------------------------------------
(* No message is lost *)

\* Only the second step of a write changes a record, and Writes says what that
\* record contains.
LEMMA StepLosesNothing ==
    ASSUME StoreInv, [Next]_vars
    PROVE  \A s \in Sessions : file[s].text \subseteq file'[s].text
<1>0. VarTypes BY DEF StoreInv
<1>1. ASSUME NEW p \in Procs, Replace(p)
      PROVE  \A s \in Sessions : file[s].text \subseteq file'[s].text
      <2>1. /\ pc[p] = "marked"
            /\ file' = [file EXCEPT ![job[p].on] = job[p].record]
            BY <1>1 DEF Replace
      <2>2. file[job[p].on].text \subseteq job[p].record.text
            BY <2>1 DEF StoreInv, ProcInv, Writes
      <2> QED BY <1>0, <2>1, <2>2 DEF VarTypes
<1>2. CASE file' = file BY <1>2
<1>3. ASSUME NEW p \in Procs, Step(p), ~Replace(p) PROVE file' = file
      BY <1>3 DEF Step, WriteIndex, Written, Acquire, Load, SaveFirst, Swap, Commit,
                  Branch, Release, Undo, store
<1>4. ASSUME NEW p \in Procs, User(p) PROVE file' = file
      BY <1>4 DEF User, Work, Save, Close, Rename, Archive, Unarchive, Edit, Resume,
                  New, StartNew, StartResume, Fork, store
<1>5. ASSUME NEW p \in Procs, Fails(p) \/ Heartbeat(p) PROVE file' = file
      BY <1>5 DEF Fails, WriteFails, SwitchFails, UndoFails, Crash, Heartbeat, store
<1>6. ASSUME NEW s \in Sessions, Lapse(s) PROVE file' = file BY <1>6 DEF Lapse
<1>7. CASE UNCHANGED vars BY <1>7 DEF vars, store
<1> QED BY <1>1, <1>2, <1>3, <1>4, <1>5, <1>6, <1>7 DEF Next

\* No save of any process, awake or back from a sleep, loses a message that
\* another process has saved.
THEOREM MessagesStay == Spec => MessagesKept
<1>1. StoreInv /\ [Next]_vars
      => [\A s \in Sessions : file[s].text \subseteq file'[s].text]_vars
      BY StepLosesNothing
<1> QED BY <1>1, Holds, PTL DEF Spec, MessagesKept
=============================================================================
