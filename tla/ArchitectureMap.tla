-------------------------- MODULE ArchitectureMap --------------------------
(***************************************************************************)
(* The map of a repository: the deterministic map every process of the     *)
(* repository refreshes, and the architecture, which a process builds with *)
(* paid requests and publishes as a generation that a pointer names.       *)
(* Sources change, builders are cancelled or die at any step, and the user *)
(* writes notes into the nodes of the current generation.                  *)
(*                                                                         *)
(* A source is its text and the stamp (size and time) of its last write;   *)
(* that a write leaves the stamp as it was is left out.  A lock without an *)
(* owner is taken to be old only once its builder is dead.                 *)
(***************************************************************************)
EXTENDS Integers, FiniteSets, Sequences

CONSTANTS
    SourceFiles, \* source files of the repository
    Texts,      \* what they may hold
    Slugs,      \* nodes an architecture may have
    Builders,   \* processes that may build or refresh
    MaxSourceWrites, \* bound: writes of sources
    MaxNotes,   \* bound: notes of the user
    MaxBuilds   \* bound: builds that take the lock, or try to

NoFile == "no file"
NoOne == "no one"

ASSUME TextsAssumption == Texts # {}
ASSUME BuildersAssumption == NoOne \notin Builders

NoLock == [owner |-> NoOne, build |-> 0]

VARIABLES
    sources,      \* [path |-> [text, stamp]], the text NoFile when there is no file
    map,          \* the sources map.json was made of
    lock,         \* [owner, build] or NoLock; the owner is NoOne until written
    cached,       \* what the cache file has a summary of: [path, text]
    paid,         \* [<<path, text>> |-> answers paid for and kept]
    generations,  \* those in place, in order: [of, files, nodes, notes]
    pointer,      \* the current one, 0 for none
    builder,      \* [builder |-> its build]
    written,      \* notes the user wrote: [note, slug, gen, late]
    tally         \* [writes, builds, overlap, stolen]: what has happened

architectureVars == <<sources, map, lock, cached, paid, generations, pointer,
                      builder, written, tally>>

\* _source_snapshot over discover_files: what a process reads of the sources.
SeenNow == [p \in {q \in SourceFiles : sources[q].text # NoFile} |-> sources[p]]

Resting == [at |-> "idle", build |-> 0, retried |-> FALSE, planned |-> <<>>,
            files |-> <<>>, known |-> {}, from |-> 0, notes |-> <<>>,
            left |-> {}, asked |-> NoFile, nodes |-> {}]

ArchitectureInit ==
    /\ sources = [p \in SourceFiles |-> [text |-> CHOOSE t \in Texts : TRUE, stamp |-> 0]]
    /\ map = <<>> /\ lock = NoLock /\ cached = {} /\ generations = <<>>
    /\ paid = [x \in SourceFiles \X Texts |-> 0]
    /\ pointer = 0 /\ written = {}
    /\ builder = [b \in Builders |-> Resting]
    /\ tally = [writes |-> 0, builds |-> 0, overlap |-> FALSE, stolen |-> FALSE]

\* The builder goes on, and nothing else changes but what the action names.
Go(b, to) == builder' = [builder EXCEPT ![b].at = to]
GivesUp(b) == builder' = [builder EXCEPT ![b] = Resting]
Under == {"enter", "summaries", "answered", "synthesis", "verify", "replace",
          "pointer", "leave"}

(***************************************************************************)
(* The world: sources are written or removed, notes are added by hand to a *)
(* node of the current generation.                                         *)
(***************************************************************************)
EditSource(p) ==
    /\ tally.writes < MaxSourceWrites
    /\ \E s \in [text : Texts \cup {NoFile}, stamp : {tally.writes + 1}] :
         sources' = [sources EXCEPT ![p] = s]
    /\ tally' = [tally EXCEPT !.writes = @ + 1]
    /\ UNCHANGED <<map, lock, cached, paid, generations, pointer, builder, written>>

\* Late: a builder has compared the notes and not yet moved the pointer.
WriteNote(s) ==
    /\ pointer # 0 /\ s \in generations[pointer].nodes
    /\ Cardinality(written) < MaxNotes
    /\ LET n == Cardinality(written) + 1 IN
         /\ generations' = [generations EXCEPT ![pointer].notes[s] = @ \cup {n}]
         /\ written' = written \cup
              {[note |-> n, slug |-> s, gen |-> pointer,
                late |-> \E b \in Builders : builder[b].at \in {"replace", "pointer"}]}
    /\ UNCHANGED <<sources, map, lock, cached, paid, pointer, builder, tally>>

(***************************************************************************)
(* check_map compares stamps.  refresh_repo_context writes the map again   *)
(* when they differ, and another process may write in between.             *)
(***************************************************************************)
SaysFresh(recorded) ==
    /\ DOMAIN recorded = DOMAIN SeenNow
    /\ \A p \in DOMAIN SeenNow : recorded[p].stamp = SeenNow[p].stamp

Refresh(b) ==
    /\ builder[b].at = "idle" /\ ~SaysFresh(map) /\ DOMAIN SeenNow # {}
    /\ builder' = [builder EXCEPT ![b].at = "map", ![b].files = SeenNow]
    /\ UNCHANGED <<sources, map, lock, cached, paid, generations, pointer,
                   written, tally>>

(***************************************************************************)
(* build_architecture.  The plan is made and the map written before the    *)
(* lock; the snapshot the build works on is another reading of the files,  *)
(* and a file that has gone since ends it.                                 *)
(***************************************************************************)
PlanBuild(b) ==
    /\ builder[b].at = "idle" /\ tally.builds < MaxBuilds /\ DOMAIN SeenNow # {}
    /\ tally' = [tally EXCEPT !.builds = @ + 1]
    /\ builder' = [builder EXCEPT ![b] =
         [Resting EXCEPT !.at = "own map", !.build = tally.builds + 1,
                         !.planned = SeenNow, !.files = SeenNow, !.known = cached]]
    /\ UNCHANGED <<sources, map, lock, cached, paid, generations, pointer, written>>

WriteMap(b) ==
    /\ builder[b].at \in {"map", "own map"}
    /\ map' = builder[b].files
    /\ IF builder[b].at = "map" THEN GivesUp(b) ELSE Go(b, "snapshot")
    /\ UNCHANGED <<sources, lock, cached, paid, generations, pointer, written, tally>>

Snapshot(b) ==
    /\ builder[b].at = "snapshot"
    /\ LET files == DOMAIN builder[b].planned IN
         IF files \subseteq DOMAIN SeenNow
         THEN builder' = [builder EXCEPT ![b].at = "open",
                ![b].files = [p \in files |-> SeenNow[p]], ![b].planned = <<>>]
         ELSE GivesUp(b)
    /\ UNCHANGED <<sources, map, lock, cached, paid, generations, pointer,
                   written, tally>>

\* RepoBuildLock.__enter__: who has the lock file, and is it alive?
IsLive(l) == /\ l.owner # NoOne /\ builder[l.owner].at # "dead"
             /\ builder[l.owner].build = l.build
HalfMade(l) == \E b \in Builders : builder[b].at = "write" /\ builder[b].build = l.build

Open(b) ==
    /\ builder[b].at = "open"
    /\ \/ /\ lock = NoLock
          /\ lock' = [owner |-> NoOne, build |-> builder[b].build]
          /\ Go(b, "write")
       \/ /\ lock # NoLock /\ (IsLive(lock) \/ HalfMade(lock))
          /\ GivesUp(b) /\ UNCHANGED lock
       \/ /\ lock # NoLock /\ ~IsLive(lock) /\ ~HalfMade(lock)
          /\ Go(b, "unlink") /\ UNCHANGED lock
    /\ UNCHANGED <<sources, map, cached, paid, generations, pointer, written, tally>>

\* Whatever has the name by now is removed; there are two attempts.
Unlink(b) ==
    /\ builder[b].at = "unlink"
    /\ lock' = NoLock
    /\ tally' = [tally EXCEPT !.stolen = @ \/ IsLive(lock) \/ HalfMade(lock)]
    /\ IF builder[b].retried THEN GivesUp(b)
       ELSE builder' = [builder EXCEPT ![b].at = "open", ![b].retried = TRUE]
    /\ UNCHANGED <<sources, map, cached, paid, generations, pointer, written>>

\* The payload goes to the open file, which may have lost its name.
WriteOwner(b) ==
    /\ builder[b].at = "write"
    /\ lock' = IF lock # NoLock /\ lock.build = builder[b].build
               THEN [lock EXCEPT !.owner = b] ELSE lock
    /\ Go(b, "enter")
    /\ tally' = [tally EXCEPT !.overlap =
         @ \/ \E c \in Builders \ {b} : builder[c].at \in Under]
    /\ UNCHANGED <<sources, map, cached, paid, generations, pointer, written>>

\* The cache as another build has left it in the meantime.
CacheAtEntry(b) == cached

\* Under the lock: the cache again, and the notes that are to be kept.
EnterLock(b) ==
    /\ builder[b].at = "enter"
    /\ builder' = [builder EXCEPT ![b].at = "summaries", ![b].known = CacheAtEntry(b), ![b].from = pointer,
         ![b].left = DOMAIN builder[b].files,
         ![b].notes = IF pointer = 0 THEN <<>> ELSE generations[pointer].notes]
    /\ UNCHANGED <<sources, map, lock, cached, paid, generations, pointer,
                   written, tally>>

\* One file: the cache has its summary, or the model is asked.
Item(b, p) == [path |-> p, text |-> builder[b].files[p].text]

TakeCached(b, p) ==
    /\ builder[b].at = "summaries" /\ p \in builder[b].left
    /\ Item(b, p) \in builder[b].known
    /\ builder' = [builder EXCEPT ![b].left = @ \ {p}]
    /\ UNCHANGED <<sources, map, lock, cached, paid, generations, pointer,
                   written, tally>>

AskSummary(b, p) ==
    /\ builder[b].at = "summaries" /\ p \in builder[b].left
    /\ Item(b, p) \notin builder[b].known
    /\ builder' = [builder EXCEPT ![b].at = "answered", ![b].asked = p]
    /\ UNCHANGED <<sources, map, lock, cached, paid, generations, pointer,
                   written, tally>>

\* An answer is on disk before the next request; a degenerate one is not kept.
Flush(b) ==
    LET p == builder[b].asked
        all == builder[b].known \cup {Item(b, p)} IN
    /\ builder[b].at = "answered"
    /\ \/ /\ builder' = [builder EXCEPT ![b].at = "summaries", ![b].known = all,
                                        ![b].left = @ \ {p}]
          /\ cached' = all
          /\ paid' = [paid EXCEPT ![<<p, Item(b, p).text>>] = @ + 1]
       \/ /\ builder' = [builder EXCEPT ![b].at = "summaries", ![b].left = @ \ {p}]
          /\ UNCHANGED <<cached, paid>>
    /\ UNCHANGED <<sources, map, lock, generations, pointer, written, tally>>

\* Synthesis and consolidation: nodes that could be read, or the build fails.
Synthesise(b) ==
    /\ builder[b].at = "summaries" /\ builder[b].left = {}
    /\ \E nodes \in (SUBSET Slugs) \ {{}} :
         builder' = [builder EXCEPT ![b].at = "verify", ![b].nodes = nodes,
                                     ![b].known = {}, ![b].asked = NoFile]
    /\ UNCHANGED <<sources, map, lock, cached, paid, generations, pointer,
                   written, tally>>

\* A cancel, a refused request, an answer without nodes.
Fails(b) ==
    /\ builder[b].at \in {"summaries", "answered"}
    /\ Go(b, "leave")
    /\ UNCHANGED <<sources, map, lock, cached, paid, generations, pointer,
                   written, tally>>

\* verify_notes_unchanged: the nodes the notes were read of, as they are now.
NotesUnchanged(b) == builder[b].from # 0 =>
                     generations[builder[b].from].notes = builder[b].notes

Verify(b) ==
    /\ builder[b].at = "verify"
    /\ Go(b, IF NotesUnchanged(b) THEN "replace" ELSE "leave")
    /\ UNCHANGED <<sources, map, lock, cached, paid, generations, pointer,
                   written, tally>>

\* The notes of a node go with its slug; a node that is gone leaves its own.
NotesFor(b) == [s \in builder[b].nodes |->
    IF s \in DOMAIN builder[b].notes THEN builder[b].notes[s] ELSE {}]

\* os.replace: the whole directory appears under its name.
Replace(b) ==
    /\ builder[b].at = "replace"
    /\ generations' = Append(generations,
         [of |-> builder[b].build, files |-> builder[b].files,
          nodes |-> builder[b].nodes, notes |-> NotesFor(b)])
    /\ Go(b, "pointer")
    /\ UNCHANGED <<sources, map, lock, cached, paid, pointer, written, tally>>

MovePointer(b) ==
    /\ builder[b].at = "pointer"
    /\ \E g \in 1..Len(generations) :
         generations[g].of = builder[b].build /\ pointer' = g
    /\ Go(b, "leave")
    /\ UNCHANGED <<sources, map, lock, cached, paid, generations, written, tally>>

\* __exit__: the lock goes only if it is one's own.
LeaveLock(b) ==
    /\ builder[b].at = "leave"
    /\ lock' = IF lock # NoLock /\ lock.owner = b /\ lock.build = builder[b].build
               THEN NoLock ELSE lock
    /\ GivesUp(b)
    /\ UNCHANGED <<sources, map, cached, paid, generations, pointer, written, tally>>

\* A builder dies in its lock; elsewhere its death leaves no trace.
BuilderDies(b) ==
    /\ builder[b].at \in Under \cup {"write"}
    /\ builder' = [builder EXCEPT ![b] = [Resting EXCEPT !.at = "dead"]]
    /\ UNCHANGED <<sources, map, lock, cached, paid, generations, pointer,
                   written, tally>>

StartAgain(b) ==
    /\ builder[b].at = "dead" /\ GivesUp(b)
    /\ UNCHANGED <<sources, map, lock, cached, paid, generations, pointer,
                   written, tally>>

ArchitectureNext ==
    \/ \E p \in SourceFiles : EditSource(p)
    \/ \E s \in Slugs : WriteNote(s)
    \/ \E b \in Builders :
         \/ Refresh(b) \/ PlanBuild(b) \/ WriteMap(b) \/ Snapshot(b)
         \/ Open(b) \/ Unlink(b) \/ WriteOwner(b) \/ EnterLock(b)
         \/ \E p \in SourceFiles : TakeCached(b, p) \/ AskSummary(b, p)
         \/ Flush(b) \/ Synthesise(b) \/ Fails(b)
         \/ Verify(b) \/ Replace(b) \/ MovePointer(b) \/ LeaveLock(b)
         \/ BuilderDies(b) \/ StartAgain(b)

ArchitectureSpec == ArchitectureInit /\ [][ArchitectureNext]_architectureVars

(***************************************************************************)
(* Properties                                                              *)
(***************************************************************************)
\* "One live architecture writer per repo, with stale-owner recovery": two
\* builders work at once only if one removed the lock of a live one, which had
\* come since it read there the lock of a builder that died.
OneLiveWriter == tally.overlap => tally.stolen

\* As long as there was one builder at a time, an answer that was kept is
\* never paid for again, whoever builds and whoever died.
NeverPaidTwice == ~tally.overlap => \A x \in DOMAIN paid : paid[x] <= 1

\* A note the user wrote is in the current generation, unless its node is
\* gone since, another build overlapped, or it fell between the comparison
\* of the notes and the move of the pointer.
NotesAreKept ==
    tally.overlap \/ \A w \in written :
        \/ w.late
        \/ \E g \in w.gen..pointer : w.slug \notin generations[g].nodes
        \/ w.note \in generations[pointer].notes[w.slug]

\* Builders keep apart, what is paid for is kept, and what was written by hand
\* survives a build.
ArchitectureIsSound == OneLiveWriter /\ NeverPaidTwice /\ NotesAreKept
=============================================================================
