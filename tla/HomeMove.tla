------------------------------ MODULE HomeMove ------------------------------
(***************************************************************************)
(* core/homemigrate.py: the state directory is moved, by `init --portable', *)
(* by mv or by a copy, and the files in it name absolute paths.  The path   *)
(* the directory had last is in .location; the first process that starts    *)
(* elsewhere rewrites the files one by one and then records the new path.   *)
(*                                                                          *)
(* A path is told apart by what it is a text prefix of: rewriting replaces  *)
(* text.  Left out: the repair of files an older version had spoiled, which *)
(* changes no path, and Windows' spelling of paths.                         *)
(***************************************************************************)
EXTENDS Naturals, FiniteSets

CONSTANTS
    Homes,      \* where the directory may be
    Elsewhere,  \* other paths the files name, such as a session's cwd
    PrefixOf,   \* pairs <<p, q>>: the text of q begins with that of p
    Files,
    Starters,   \* processes
    MaxMoves

Paths == Homes \cup Elsewhere

ASSUME HomeAssumption ==
    /\ Homes # {} /\ Homes \cap Elsewhere = {}
    /\ "none" \notin Homes /\ "home" \notin Elsewhere /\ "spoiled" \notin Paths
    /\ PrefixOf \subseteq Paths \X Paths
    /\ MaxMoves \in Nat

VARIABLES
    place,      \* where the directory is
    location,   \* what .location says
    names,      \* per file: the path it names
    starter,    \* per process: pc, the path it rewrites from, files to go
    excused,    \* history: files of which no more is promised (below)
    unrecorded, \* history: a write of .location failed or was cut off
    meant,      \* history: per file, "home" or the other path it is about
    moves       \* bound

homeVars == <<place, location, names, starter, excused, unrecorded, meant,
              moves>>

Absent == [pc |-> "off", from |-> "none", todo |-> {}, read |-> {}]
Running == [Absent EXCEPT !.pc = "running"]
Rewriting(from) ==
    [pc |-> "rewriting", from |-> from, todo |-> Files, read |-> {}]
Spoiled == "spoiled"

\* bytes.replace: also at the beginning of a longer path.
Rewritten(path, from, to) ==
    IF path = from THEN to
    ELSE IF <<from, path>> \in PrefixOf THEN Spoiled
    ELSE path

Becomes(p, r) == starter' = [starter EXCEPT ![p] = r]

\* reconcile_location reads the marker.
StartHere(p) ==
    /\ starter[p].pc = "off"
    /\ Becomes(p, CASE location = place -> Running
                    [] location = "none" -> [Running EXCEPT !.pc = "recording"]
                    [] OTHER -> Rewriting(location))
    /\ UNCHANGED <<place, location, names, excused, unrecorded, meant, moves>>

\* Files that a start rewrote before it was cut off, so that .location has the
\* place before: moved once more, they are not found again.
Halfway == {f \in Files : meant[f] = "home" /\ names[f] # location}

Moves(to) ==
    /\ to # place /\ moves < MaxMoves /\ moves' = moves + 1
    /\ place' = to
    /\ excused' = excused \cup Halfway

\* relocate, in a process that was started here, as every command is: refused
\* while a session is live; the rename, then the rewriting.  Who is still
\* starting finds no file any more: what it does then is not of this directory.
Relocate(p, to) ==
    /\ starter[p].pc = "running" /\ Moves(to)
    /\ \A q \in Starters \ {p} : starter[q].pc # "running"
    /\ starter' = [q \in Starters |-> IF q = p THEN Rewriting(place) ELSE Absent]
    /\ UNCHANGED <<location, names, unrecorded, meant>>

\* rewrite_paths reads a file,
ReadFile(p, f) ==
    /\ starter[p].pc = "rewriting" /\ starter[p].read = {}
    /\ f \in starter[p].todo
    /\ Becomes(p, [starter[p] EXCEPT !.todo = @ \ {f},
                                     !.read = {<<f, names[f]>>}])
    /\ UNCHANGED <<place, location, names, excused, unrecorded, meant, moves>>

\* ... and replaces it if that changes it, or reports an error and goes on.
ReplaceFile(p) ==
    /\ \E r \in starter[p].read :       \* the file, and what was read of it
          LET new == Rewritten(r[2], starter[p].from, place)
          IN  \/ /\ names' = IF new = r[2] THEN names ELSE [names EXCEPT ![r[1]] = new]
                 /\ excused' = IF new = Spoiled THEN excused \cup {r[1]} ELSE excused
              \/ excused' = excused \cup {r[1]} /\ UNCHANGED names
    /\ Becomes(p, [starter[p] EXCEPT !.read = {}])
    /\ UNCHANGED <<place, location, unrecorded, meant, moves>>

RewroteAll(p) ==
    starter[p].pc = "rewriting" /\ starter[p].todo = {} /\ starter[p].read = {}

\* Faulty variant: the new place is recorded before the files are rewritten.
RecordFaulty(p) ==
    /\ starter[p].pc \in {"recording", "rewriting"}
    /\ location' = place
    /\ Becomes(p, IF starter[p].pc = "recording" \/ RewroteAll(p) THEN Running
                  ELSE starter[p])
    /\ UNCHANGED <<place, names, excused, unrecorded, meant, moves>>

\* record_location: an error is ignored, before the write and within it.
Record(p) ==
    /\ starter[p].pc = "recording" \/ RewroteAll(p)
    /\ location' \in {location, place, "none"}
    /\ unrecorded' = (unrecorded \/ location' # place)
    /\ Becomes(p, Running)
    /\ UNCHANGED <<place, names, excused, meant, moves>>

\* A session writes a file: about the directory, or about another path; another
\* process that has read it may put back what it was.
SaveFile(p, f) ==
    /\ starter[p].pc = "running"
    /\ \E path \in Elsewhere \cup {place} :
          /\ names' = [names EXCEPT ![f] = path]
          /\ meant' = [meant EXCEPT ![f] = IF path = place THEN "home" ELSE path]
    /\ excused' = IF \E q \in Starters : \E r \in starter[q].read : r[1] = f
                  THEN excused \cup {f} ELSE excused \ {f}
    /\ UNCHANGED <<place, location, starter, unrecorded, moves>>

\* The process ends, at any point; a marker being written is left empty.
LeaveHome(p) ==
    /\ starter[p].pc # "off"
    /\ Becomes(p, Absent)
    /\ location' \in IF starter[p].pc = "recording" \/ RewroteAll(p)
                     THEN {location, "none"} ELSE {location}
    /\ unrecorded' = (unrecorded \/ location' # location)
    /\ UNCHANGED <<place, names, excused, meant, moves>>

\* mv, cp -a, tar: the user, with no process at work.
UserMoves(to) ==
    /\ \A p \in Starters : starter[p].pc = "off"
    /\ Moves(to)
    /\ UNCHANGED <<location, names, starter, unrecorded, meant>>

HomeInit ==
    /\ place = (CHOOSE h \in Homes : TRUE)
    /\ location = place
    /\ names = [f \in Files |-> place] /\ meant = [f \in Files |-> "home"]
    /\ starter = [p \in Starters |-> Absent]
    /\ excused = {} /\ unrecorded = FALSE /\ moves = 0

HomeNext ==
    \/ \E p \in Starters :
          \/ StartHere(p) \/ ReplaceFile(p) \/ Record(p) \/ LeaveHome(p)
          \/ \E to \in Homes : Relocate(p, to)
          \/ \E f \in Files : ReadFile(p, f) \/ SaveFile(p, f)
    \/ \E to \in Homes : UserMoves(to)

HomeSpec == HomeInit /\ [][HomeNext]_homeVars
-----------------------------------------------------------------------------

Means(f) == IF meant[f] = "home" THEN place ELSE meant[f]

\* When a session runs, every file names what it is about, wherever the
\* directory was moved, however often, whoever starts at once, and wherever an
\* earlier start was cut off; unless .location itself was lost, or the file is
\* excused: the user was told that it could not be rewritten; it named a longer
\* path that begins like the place before; it was rewritten, and the directory
\* moved on before that place was recorded; or it was saved between the reading
\* and the replacing of another process.
PathsFollowHome ==
    \A p \in Starters, f \in Files :
        starter[p].pc = "running" /\ ~unrecorded
            => names[f] = Means(f) \/ f \in excused
=============================================================================
