---------------------------- MODULE StoresProofs ----------------------------
(***************************************************************************)
(* Parts of what lies on the disk, for any number of processes, files,     *)
(* keys and writes.                                                        *)
(*                                                                         *)
(* HomeMove: files follow the directory (PathsFollowHome), because they    *)
(* name the place or the one in .location (PathsAreKnown), and what any    *)
(* process has read of one becomes what it is about (ReadsAreKnown).       *)
(*                                                                         *)
(* LegacyImport: the database that appears is whole (ImportIsWhole).       *)
(* The lock makes the import alone; its invariant says how far the         *)
(* temporary database has come (ImportedSoFar), also while sessions write. *)
(*                                                                         *)
(* MemoryStore: the file has the last entry of every key, and none written *)
(* by hand gives way to an extraction (MemoriesAreKept): who writes back   *)
(* has read under the lock what is there (WritersAreCurrent).              *)
(*                                                                         *)
(* ModelCatalog: what is known of a route was observed (EvidenceIsHonest), *)
(* and so is what a client has in hand while it probes (ClientsAreHonest). *)
(*                                                                         *)
(* SideNotes: what is shown and kept is of the conversation it was asked   *)
(* for (NotesAreCurrent), whatever happens between an answer and its       *)
(* effect, except for the late recap that the property names.              *)
(*                                                                         *)
(* ArchitectureMap: two builders are at work only after a lock was taken   *)
(* from a live one or half made (LockInv); until then nothing is paid      *)
(* twice and no note is lost (AloneInv).                                   *)
(***************************************************************************)
EXTENDS MCStores, FiniteSetTheorems, SequenceTheorems, TLAPS

-----------------------------------------------------------------------------
(* HomeMove *)

StarterRecords ==
    [pc : {"off", "running", "recording", "rewriting"}, from : Homes \cup {"none"},
     todo : SUBSET Files, read : SUBSET (Files \X (Paths \cup {Spoiled}))]

\* What was read of a file becomes what the file is about.
ReadsAreKnown(r) ==
    \A x \in r.read :
        /\ \A y \in r.read : x = y
        /\ x[1] \notin excused =>
             /\ meant[x[1]] = "home" => x[2] = r.from \/ (x[2] = place /\ names[x[1]] = place)
             /\ meant[x[1]] # "home" => x[2] = meant[x[1]]

\* What a process counts on: .location has the place of the paths that it has
\* not rewritten, unless another has recorded that all are.
IsAtHome(r) ==
    /\ r.pc # "recording"
    /\ r.pc = "running" => location = place
    /\ r.pc # "rewriting" => r.read = {}
    /\ r.pc = "rewriting" =>
         /\ r.from \in Homes /\ location \in {r.from, place}
         /\ ReadsAreKnown(r)
         /\ \A f \in Files \ excused :
              \/ f \in r.todo \/ \E x \in r.read : x[1] = f
              \/ meant[f] = "home" => names[f] = place

\* A file names the place, the one in .location, or the other path it is about.
PathsAreKnown ==
    \A f \in Files \ excused :
        /\ meant[f] = "home" => names[f] \in {location, place}
        /\ meant[f] # "home" => names[f] = meant[f]

Settled ==
    /\ place \in Homes /\ location \in Homes
    /\ names \in [Files -> Paths \cup {Spoiled}]
    /\ meant \in [Files -> Elsewhere \cup {"home"}]
    /\ starter \in [Starters -> StarterRecords]
    /\ \A p \in Starters : IsAtHome(starter[p])
    /\ PathsAreKnown

HomeInv == unrecorded \in BOOLEAN /\ (unrecorded \/ Settled)

\* One process goes on, the others count on what they did.
LEMMA OthersStayHome ==
    ASSUME Settled, NEW p \in Starters, NEW r \in StarterRecords, Becomes(p, r),
           IsAtHome(r)', \A q \in Starters \ {p} : IsAtHome(starter[q])'
    PROVE  /\ starter' \in [Starters -> StarterRecords]
           /\ \A q \in Starters : IsAtHome(starter[q])'
<1>1. starter' \in [Starters -> StarterRecords] /\ starter'[p] = r
  BY DEF Becomes, Settled
<1>2. ASSUME NEW q \in Starters PROVE IsAtHome(starter[q])'
  <2>1. CASE q = p
    <3>1. starter[q]' = r
      BY <1>1, <2>1
    <3> QED BY <3>1 DEF IsAtHome, ReadsAreKnown
  <2>2. CASE q # p
    BY <2>2
  <2> QED BY <2>1, <2>2
<1> QED BY <1>1, <1>2

\* Who does nothing counts on as much when a file is rewritten or written anew.
LEMMA FilesMoveOn ==
    ASSUME Settled, place' = place, location' \in {location, place},
           NEW q \in Starters, starter[q]' = starter[q],
           \A g \in Files \ excused' :
              \/ /\ g \notin excused /\ meant'[g] = meant[g]
                 /\ meant[g] = "home" /\ names[g] = place => names'[g] = place
              \/ /\ \A x \in starter[q].read : x[1] # g
                 /\ meant'[g] = "home" => names'[g] = place
    PROVE  IsAtHome(starter[q])'
<1>1. IsAtHome(starter[q]) /\ starter[q] \in StarterRecords
  BY DEF Settled
<1>2. ASSUME starter[q].pc = "rewriting"
      PROVE  /\ location' \in {starter[q].from, place}
             /\ ReadsAreKnown(starter[q])'
             /\ \A f \in Files \ excused' :
                   \/ f \in starter[q].todo \/ \E x \in starter[q].read : x[1] = f
                   \/ meant'[f] = "home" => names'[f] = place
  <2>1. location' \in {starter[q].from, place}
    BY <1>1, <1>2 DEF IsAtHome
  <2>2. ReadsAreKnown(starter[q])'
    <3>1. ASSUME NEW x \in starter[q].read
          PROVE  /\ \A y \in starter[q].read : x = y
                 /\ x[1] \notin excused' =>
                      /\ meant'[x[1]] = "home" =>
                           x[2] = starter[q].from \/ (x[2] = place /\ names'[x[1]] = place)
                      /\ meant'[x[1]] # "home" => x[2] = meant'[x[1]]
      <4>1. x[1] \in Files
        BY <1>1 DEF StarterRecords
      <4> QED BY <1>1, <1>2, <4>1 DEF IsAtHome, ReadsAreKnown
    <3> QED BY <3>1 DEF ReadsAreKnown
  <2>3. ASSUME NEW f \in Files \ excused'
        PROVE  \/ f \in starter[q].todo \/ \E x \in starter[q].read : x[1] = f
               \/ meant'[f] = "home" => names'[f] = place
    BY <1>1, <1>2 DEF IsAtHome
  <2> QED BY <2>1, <2>2, <2>3
<1>3. starter[q].pc = "running" => location' = place
  BY <1>1 DEF IsAtHome
<1> QED BY <1>1, <1>2, <1>3 DEF IsAtHome

LEMMA HomeStarts == HomeInit => HomeInv
<1> SUFFICES ASSUME HomeInit PROVE HomeInv
  OBVIOUS
<1>1. place \in Homes /\ location = place /\ unrecorded = FALSE /\ excused = {}
  BY HomeAssumption DEF HomeInit
<1>2. Absent \in StarterRecords /\ Absent.pc = "off" /\ Absent.read = {}
  BY DEF Absent, StarterRecords
<1>3. \A p \in Starters : IsAtHome(starter[p])
  BY <1>1, <1>2 DEF HomeInit, IsAtHome
<1> QED
  BY <1>1, <1>2, <1>3, HomeAssumption
  DEF HomeInit, HomeInv, Settled, PathsAreKnown, Paths

LEMMA HomeSteps ==
    ASSUME HomeInv, [HomeNext]_homeVars
    PROVE  HomeInv'
<1>1. unrecorded' \in BOOLEAN /\ (unrecorded => unrecorded')
  BY DEF HomeInv, HomeNext, homeVars, StartHere, ReplaceFile, Record, LeaveHome,
         Relocate, ReadFile, SaveFile, UserMoves
<1> SUFFICES ASSUME ~unrecorded' PROVE Settled'
  BY <1>1 DEF HomeInv
<1>2. Settled /\ ~unrecorded
  BY <1>1 DEF HomeInv
<1>0. Absent \in StarterRecords /\ Absent.pc = "off" /\ Absent.read = {}
  BY DEF Absent, StarterRecords
<1>3. ASSUME NEW p \in Starters, StartHere(p) PROVE Settled'
  <2>1. PICK r : /\ Becomes(p, r)
                 /\ r = (CASE location = place -> Running
                           [] location = "none" -> [Running EXCEPT !.pc = "recording"]
                           [] OTHER -> Rewriting(location))
    BY <1>3 DEF StartHere
  <2>2. location # "none"
    BY <1>2, HomeAssumption DEF Settled
  <2>3. /\ r \in StarterRecords /\ r.read = {}
        /\ \/ r.pc = "running" /\ location = place
           \/ r.pc = "rewriting" /\ r.from = location /\ r.todo = Files
    BY <1>2, <2>1, <2>2 DEF Running, Absent, Rewriting, StarterRecords, Settled
  <2>4. UNCHANGED <<place, location, names, excused, meant>>
    BY <1>3 DEF StartHere
  <2>5. IsAtHome(r)'
    BY <1>2, <2>3, <2>4 DEF IsAtHome, ReadsAreKnown, Settled
  <2>7. \A q \in Starters \ {p} : IsAtHome(starter[q])'
    BY <1>2, <2>1, <2>4, FilesMoveOn DEF Becomes, Settled
  <2>6. starter' \in [Starters -> StarterRecords] /\ \A q \in Starters : IsAtHome(starter[q])'
    BY <1>2, <2>1, <2>3, <2>5, <2>7, OthersStayHome
  <2> QED BY <1>2, <2>4, <2>6 DEF Settled, PathsAreKnown
<1>4. ASSUME NEW p \in Starters, NEW to \in Homes, Relocate(p, to) PROVE Settled'
  <2>1. starter[p].pc = "running" /\ location = place
    BY <1>2, <1>4 DEF Relocate, Settled, IsAtHome
  <2>2. /\ Rewriting(place) \in StarterRecords
        /\ Rewriting(place).pc = "rewriting" /\ Rewriting(place).from = location
        /\ Rewriting(place).todo = Files /\ Rewriting(place).read = {}
    BY <1>2, <1>4, <2>1 DEF Rewriting, StarterRecords, Relocate, Settled
  <2>3. place' = to /\ UNCHANGED <<location, names, meant>>
        /\ excused' = excused \cup Halfway
    BY <1>4 DEF Relocate, Moves
  <2>4. starter' = [q \in Starters |-> IF q = p THEN Rewriting(place) ELSE Absent]
    BY <1>4 DEF Relocate
  <2>5. starter' \in [Starters -> StarterRecords]
    BY <1>0, <2>2, <2>4
  <2>6. ASSUME NEW q \in Starters PROVE IsAtHome(starter[q])'
    <3>1. starter'[q] = Rewriting(place) \/ starter'[q] = Absent
      BY <2>4
    <3>2. CASE starter'[q] = Rewriting(place)
      BY <1>2, <2>1, <2>2, <2>3, <3>2 DEF IsAtHome, ReadsAreKnown, Settled
    <3>3. CASE starter'[q] = Absent
      BY <1>0, <3>3 DEF IsAtHome
    <3> QED BY <3>1, <3>2, <3>3
  <2>7. PathsAreKnown'
    BY <1>2, <2>3 DEF Settled, PathsAreKnown, Halfway
  <2> QED BY <1>2, <2>3, <2>5, <2>6, <2>7 DEF Settled
<1>5. ASSUME NEW p \in Starters, NEW f \in Files, ReadFile(p, f) PROVE Settled'
  <2>1. PICK r : /\ Becomes(p, r)
                 /\ r = [starter[p] EXCEPT !.todo = @ \ {f}, !.read = {<<f, names[f]>>}]
    BY <1>5 DEF ReadFile
  <2>2. /\ starter[p] \in StarterRecords /\ names[f] \in Paths \cup {Spoiled}
        /\ starter[p].pc = "rewriting" /\ starter[p].read = {}
    BY <1>2, <1>5 DEF Settled, ReadFile
  <2>3. /\ r \in StarterRecords /\ r.pc = "rewriting" /\ r.from = starter[p].from
        /\ r.todo = starter[p].todo \ {f} /\ r.read = {<<f, names[f]>>}
    <3> DEFINE pair == <<f, names[f]>>
    <3>1. /\ pair \in Files \X (Paths \cup {Spoiled})
          /\ r = [starter[p] EXCEPT !.todo = @ \ {f}, !.read = {pair}]
      BY <2>1, <2>2
    <3> HIDE DEF pair
    <3>2. r \in StarterRecords /\ r.pc = "rewriting" /\ r.from = starter[p].from
          /\ r.todo = starter[p].todo \ {f} /\ r.read = {pair}
      BY <2>2, <3>1 DEF StarterRecords
    <3> QED BY <3>2 DEF pair
  <2>4. UNCHANGED <<place, location, names, excused, meant>>
    BY <1>5 DEF ReadFile
  <2>5. IsAtHome(starter[p])
    BY <1>2 DEF Settled
  <2>6. ReadsAreKnown(r)'
    <3>1. ASSUME f \notin excused
          PROVE  /\ meant[f] = "home" => names[f] \in {r.from, place}
                 /\ meant[f] # "home" => names[f] = meant[f]
      BY <1>2, <2>2, <2>3, <2>5, <3>1 DEF Settled, PathsAreKnown, IsAtHome
    <3> QED BY <2>3, <2>4, <3>1 DEF ReadsAreKnown
  <2>7. \A g \in Files \ excused :
          \/ g \in r.todo \/ \E x \in r.read : x[1] = g
          \/ meant[g] = "home" => names[g] = place
    BY <2>2, <2>3, <2>5 DEF IsAtHome
  <2>8. IsAtHome(r)'
    BY <2>2, <2>3, <2>4, <2>5, <2>6, <2>7 DEF IsAtHome
  <2>9. \A q \in Starters \ {p} : IsAtHome(starter[q])'
    BY <1>2, <2>1, <2>4, FilesMoveOn DEF Becomes, Settled
  <2>10. starter' \in [Starters -> StarterRecords] /\ \A q \in Starters : IsAtHome(starter[q])'
    BY <1>2, <2>1, <2>3, <2>8, <2>9, OthersStayHome
  <2> QED BY <1>2, <2>4, <2>10 DEF Settled, PathsAreKnown
<1>6. ASSUME NEW p \in Starters, ReplaceFile(p) PROVE Settled'
  <2>1. IsAtHome(starter[p]) /\ starter[p] \in StarterRecords
    BY <1>2 DEF Settled
  <2>2. PICK x \in starter[p].read :
          LET new == Rewritten(x[2], starter[p].from, place)
          IN  \/ /\ names' = IF new = x[2] THEN names ELSE [names EXCEPT ![x[1]] = new]
                 /\ excused' = IF new = Spoiled THEN excused \cup {x[1]} ELSE excused
              \/ excused' = excused \cup {x[1]} /\ UNCHANGED names
    BY <1>6 DEF ReplaceFile
  <2>3. /\ starter[p].pc = "rewriting" /\ location \in {starter[p].from, place}
        /\ x \in Files \X (Paths \cup {Spoiled}) /\ ReadsAreKnown(starter[p])
    BY <2>1, <2>2 DEF IsAtHome, StarterRecords
  <2>4. PICK f \in Files, v \in Paths \cup {Spoiled} : x = <<f, v>>
    BY <2>3
  <2> DEFINE new == Rewritten(v, starter[p].from, place)
  <2>5. \/ /\ names' = IF new = v THEN names ELSE [names EXCEPT ![f] = new]
           /\ excused' = IF new = Spoiled THEN excused \cup {f} ELSE excused
        \/ excused' = excused \cup {f} /\ names' = names
    BY <2>2, <2>4
  <2>6. new \in Paths \cup {Spoiled}
        /\ (new # Spoiled => new = IF v = starter[p].from THEN place ELSE v)
    BY <1>2, <2>4 DEF Rewritten, Settled, Paths
  <2>7. ASSUME f \notin excused, new # Spoiled
        PROVE  /\ meant[f] = "home" => new = place
               /\ meant[f] # "home" => new = meant[f]
    <3>1. /\ meant[f] = "home" => v \in {starter[p].from, place}
          /\ meant[f] # "home" => v = meant[f]
      BY <2>2, <2>3, <2>4, <2>7 DEF ReadsAreKnown
    <3>5. meant[f] \in Elsewhere \cup {"home"}
      BY <1>2 DEF Settled
    <3>2. meant[f] # "home" => meant[f] \notin Homes
      BY <3>5, HomeAssumption
    <3>3. starter[p].from \in Homes
      BY <2>1, <2>3 DEF IsAtHome
    <3>4. meant[f] # "home" => v # starter[p].from
      BY <3>1, <3>2, <3>3
    <3> QED BY <2>6, <2>7, <3>1, <3>4
  <2>8. PICK r : Becomes(p, r) /\ r = [starter[p] EXCEPT !.read = {}]
    BY <1>6 DEF ReplaceFile
  <2>9. /\ r \in StarterRecords /\ r.pc = "rewriting" /\ r.from = starter[p].from
        /\ r.todo = starter[p].todo /\ r.read = {}
    BY <2>1, <2>3, <2>8 DEF StarterRecords
  <2>10. UNCHANGED <<place, location, meant>>
    BY <1>6 DEF ReplaceFile
  <2> HIDE DEF new
  <2>11. names' \in [Files -> Paths \cup {Spoiled}] /\ excused \subseteq excused'
    BY <1>2, <2>5, <2>6 DEF Settled
  <2>12. ASSUME NEW g \in Files \ excused'
         PROVE  /\ g \notin excused
                /\ meant[g] = "home" => names'[g] \in {names[g], place}
                /\ meant[g] # "home" => names'[g] = meant[g]
                /\ meant[g] = "home" /\ g = f => names'[g] = place
    <3>1. /\ g \notin excused
          /\ meant[g] = "home" => names[g] \in {location, place}
          /\ meant[g] # "home" => names[g] = meant[g]
      BY <1>2, <2>11 DEF Settled, PathsAreKnown
    <3>2. CASE g = f
      <4>1. new # Spoiled /\ names' = IF new = v THEN names ELSE [names EXCEPT ![f] = new]
        BY <2>5, <2>11, <3>2
      <4>2. CASE new # v
        <5>1. names'[g] = new
          BY <1>2, <3>2, <4>1, <4>2 DEF Settled
        <5> QED BY <2>7, <3>1, <3>2, <4>1, <5>1
      <4>3. CASE new = v
        <5>1. names'[g] = names[g]
          BY <4>1, <4>3
        <5>2. ASSUME meant[g] = "home" PROVE names[g] = place
          <6>1. v = starter[p].from \/ names[g] = place
            BY <2>2, <2>3, <2>4, <3>1, <3>2, <5>2 DEF ReadsAreKnown
          <6>2. new = place
            BY <2>7, <3>1, <3>2, <4>1, <5>2
          <6> QED BY <2>3, <3>1, <4>3, <5>2, <6>1, <6>2
        <5> QED BY <3>1, <5>1, <5>2
      <4> QED BY <4>2, <4>3
    <3>3. CASE g # f
      <4>1. names'[g] = names[g]
        BY <1>2, <2>5, <3>3 DEF Settled
      <4> QED BY <3>1, <3>3, <4>1
    <3> QED BY <3>2, <3>3
  <2>13. PathsAreKnown'
    BY <1>2, <2>10, <2>12 DEF PathsAreKnown, Settled
  <2>14. \A q \in Starters \ {p} : IsAtHome(starter[q])'
    <3>1. \A g \in Files \ excused' :
            /\ g \notin excused /\ meant'[g] = meant[g]
            /\ meant[g] = "home" /\ names[g] = place => names'[g] = place
      BY <2>10, <2>12
    <3>2. \A q \in Starters \ {p} : starter[q]' = starter[q]
      BY <1>2, <2>8 DEF Becomes, Settled
    <3> QED BY <1>2, <2>10, <3>1, <3>2, FilesMoveOn
  <2>15. IsAtHome(r)'
    <3>1. ASSUME NEW g \in Files \ excused'
          PROVE  g \in r.todo \/ (meant'[g] = "home" => names'[g] = place)
      <4>1. CASE g = f
        <5>1. meant[g] = "home" => names'[g] = place
          BY <2>12, <3>1, <4>1
        <5> QED BY <2>10, <3>1, <5>1
      <4>2. CASE g # f
        <5>1. \A y \in starter[p].read : y[1] # g
          BY <2>2, <2>3, <2>4, <4>2 DEF ReadsAreKnown
        <5>2. g \in r.todo \/ (meant[g] = "home" => names[g] = place)
          BY <2>1, <2>3, <2>9, <2>12, <5>1 DEF IsAtHome
        <5> QED BY <2>10, <2>12, <5>2
      <4> QED BY <4>1, <4>2
    <3>2. location' \in {r.from, place'} /\ r.from \in Homes
      BY <2>1, <2>3, <2>9, <2>10 DEF IsAtHome
    <3>3. ReadsAreKnown(r)'
      BY <2>9 DEF ReadsAreKnown
    <3>4. r.pc = "rewriting" /\ r.read = {}
      BY <2>9
    <3> HIDE DEF ReadsAreKnown
    <3>5. \A h \in Files \ excused' :
             \/ h \in r.todo \/ \E y \in r.read : y[1] = h
             \/ meant'[h] = "home" => names'[h] = place'
      BY <2>10, <3>1
    <3>6. r.pc # "recording" /\ r.pc # "running"
      BY <3>4
    <3> QED BY <3>2, <3>3, <3>4, <3>5, <3>6 DEF IsAtHome
  <2>16. starter' \in [Starters -> StarterRecords] /\ \A q \in Starters : IsAtHome(starter[q])'
    BY <1>2, <2>8, <2>9, <2>14, <2>15, OthersStayHome
  <2> QED BY <1>2, <2>10, <2>11, <2>13, <2>16 DEF Settled
<1>7. ASSUME NEW p \in Starters, Record(p) PROVE Settled'
  <2>1. IsAtHome(starter[p])
    BY <1>2 DEF Settled
  <2>2. RewroteAll(p) /\ location' = place
    BY <1>7, <2>1 DEF Record, IsAtHome
  <2>3. UNCHANGED <<place, names, excused, meant>> /\ Becomes(p, Running)
    BY <1>7 DEF Record
  <2>4. Running \in StarterRecords /\ Running.pc = "running" /\ Running.read = {}
    BY DEF Running, Absent, StarterRecords
  <2>5. \A f \in Files \ excused : meant[f] = "home" => names[f] = place
    BY <2>1, <2>2 DEF IsAtHome, RewroteAll
  <2>6. IsAtHome(Running)'
    BY <2>2, <2>3, <2>4 DEF IsAtHome
  <2>7. \A q \in Starters \ {p} : IsAtHome(starter[q])'
    BY <1>2, <2>2, <2>3, FilesMoveOn DEF Becomes, Settled
  <2>8. starter' \in [Starters -> StarterRecords] /\ \A q \in Starters : IsAtHome(starter[q])'
    BY <1>2, <2>3, <2>4, <2>6, <2>7, OthersStayHome
  <2>9. PathsAreKnown'
    BY <1>2, <2>3, <2>5 DEF Settled, PathsAreKnown
  <2> QED BY <1>2, <2>2, <2>3, <2>8, <2>9 DEF Settled
<1>8. ASSUME NEW p \in Starters, LeaveHome(p) PROVE Settled'
  <2>1. UNCHANGED <<place, location, names, excused, meant>> /\ Becomes(p, Absent)
    BY <1>8 DEF LeaveHome
  <2>2. IsAtHome(Absent)'
    BY <1>0 DEF IsAtHome
  <2>3. \A q \in Starters \ {p} : IsAtHome(starter[q])'
    BY <1>2, <2>1, FilesMoveOn DEF Becomes, Settled
  <2>4. starter' \in [Starters -> StarterRecords] /\ \A q \in Starters : IsAtHome(starter[q])'
    BY <1>0, <1>2, <2>1, <2>2, <2>3, OthersStayHome
  <2> QED BY <1>2, <2>1, <2>4 DEF Settled, PathsAreKnown
<1>9. ASSUME NEW p \in Starters, NEW f \in Files, SaveFile(p, f) PROVE Settled'
  <2>1. starter[p].pc = "running" /\ location = place
    BY <1>2, <1>9 DEF SaveFile, Settled, IsAtHome
  <2>2. /\ UNCHANGED <<place, location, starter>>
        /\ excused' = IF \E q \in Starters : \E x \in starter[q].read : x[1] = f
                      THEN excused \cup {f} ELSE excused \ {f}
    BY <1>9 DEF SaveFile
  <2>3. PICK path \in Elsewhere \cup {place} :
          /\ names' = [names EXCEPT ![f] = path]
          /\ meant' = [meant EXCEPT ![f] = IF path = place THEN "home" ELSE path]
    BY <1>9 DEF SaveFile
  <2>4. /\ names' \in [Files -> Paths \cup {Spoiled}]
        /\ meant' \in [Files -> Elsewhere \cup {"home"}]
    BY <1>2, <2>3 DEF Settled, Paths
  <2>5. PathsAreKnown'
    BY <1>2, <2>1, <2>2, <2>3, HomeAssumption DEF Settled, PathsAreKnown
  <2>6. ASSUME NEW q \in Starters PROVE IsAtHome(starter[q])'
    <3>1. ASSUME NEW g \in Files \ excused'
          PROVE  \/ /\ g \notin excused /\ meant'[g] = meant[g]
                    /\ meant[g] = "home" /\ names[g] = place => names'[g] = place
                 \/ /\ \A x \in starter[q].read : x[1] # g
                    /\ meant'[g] = "home" => names'[g] = place
      <4>1. CASE g = f
        <5>1. \A x \in starter[q].read : x[1] # g
          BY <2>2, <4>1
        <5>2. meant'[g] = "home" => names'[g] = place
          BY <1>2, <2>3, <4>1, HomeAssumption DEF Settled
        <5> QED BY <5>1, <5>2
      <4>2. CASE g # f
        BY <1>2, <2>2, <2>3, <4>2 DEF Settled
      <4> QED BY <4>1, <4>2
    <3>2. place' = place /\ location' \in {location, place} /\ starter[q]' = starter[q]
      BY <2>2
    <3> HIDE DEF IsAtHome, Settled
    <3> QED BY <1>2, <3>1, <3>2, FilesMoveOn
  <2> QED BY <1>2, <2>2, <2>4, <2>5, <2>6 DEF Settled
<1>10. ASSUME NEW to \in Homes, UserMoves(to) PROVE Settled'
  <2>1. /\ UNCHANGED <<location, names, starter, meant>> /\ place' = to
        /\ excused' = excused \cup Halfway
    BY <1>10 DEF UserMoves, Moves
  <2>2. \A p \in Starters : starter[p].pc = "off"
    BY <1>10 DEF UserMoves
  <2>3. PathsAreKnown'
    BY <1>2, <2>1 DEF Settled, PathsAreKnown, Halfway
  <2>4. \A p \in Starters : IsAtHome(starter[p])'
    BY <1>2, <2>1, <2>2 DEF Settled, IsAtHome
  <2> QED BY <1>2, <2>1, <2>3, <2>4 DEF Settled
<1>11. CASE UNCHANGED homeVars
  BY <1>2, <1>11 DEF homeVars, Settled, IsAtHome, ReadsAreKnown, PathsAreKnown
<1> QED
  BY <1>3, <1>4, <1>5, <1>6, <1>7, <1>8, <1>9, <1>10, <1>11 DEF HomeNext

\* However often the directory is moved, whoever starts at once and wherever a
\* start is cut off: files name what they are about when a session runs, except
\* for those PathsFollowHome excuses.
THEOREM PathsStayHome == HomeSpec => []PathsFollowHome
<1>1. HomeInv /\ [HomeNext]_homeVars => HomeInv'
  BY HomeSteps
<1>2. HomeInv => PathsFollowHome
  BY DEF HomeInv, Settled, IsAtHome, PathsAreKnown, PathsFollowHome, Means
<1> QED BY HomeStarts, <1>1, <1>2, PTL DEF HomeSpec

-----------------------------------------------------------------------------
(* LegacyImport *)

SourceVersions == [Sources -> Nat]

ImportTypeOK ==
    /\ source \in [Sources -> [version : Nat \ {0}, good : BOOLEAN]]
    /\ temp \in [exists : BOOLEAN, has : SourceVersions]
    /\ target \in [by : {Nobody, "import", "other"}, has : SourceVersions,
                   began : SourceVersions]
    /\ migLock \in Migrators \cup {Nobody}
    /\ migrator \in [Migrators ->
          [pc : {"out", "locking", "opening", "importing", "published"},
           todo : SUBSET Sources, errors : BOOLEAN, began : SourceVersions]]
    /\ writes \in Nat

\* Who is at work on the temporary database holds the lock.
ImportIsAlone ==
    \A m \in Migrators :
        migrator[m].pc \in {"opening", "importing", "published"} => migLock = m

\* What could not be read was written, and is the last version or an old one.
SpoiledIsWritten ==
    \A s \in Sources, n \in Nat :
        <<s, n>> \in spoiled =>
            n <= source[s].version /\ (n = source[s].version => ~source[s].good)

\* A version of a source that is whole, is there, and is no older than another.
IsWhole(has, began, s) ==
    /\ has[s] # 0 /\ <<s, has[s]>> \notin spoiled
    /\ began[s] <= has[s] /\ has[s] <= source[s].version

\* An import without errors has seen the sources it is done with.
ImportedSoFar ==
    \A m \in Migrators :
        /\ migrator[m].pc # "out" =>
             \A s \in Sources : migrator[m].began[s] <= source[s].version
        /\ migrator[m].pc = "importing" /\ ~migrator[m].errors =>
             \A s \in Sources \ migrator[m].todo :
                 IsWhole(temp.has, migrator[m].began, s)

PublishedIsWhole ==
    target.by = "import" => \A s \in Sources : IsWhole(target.has, target.began, s)

ImportInv ==
    /\ ImportTypeOK /\ ImportIsAlone /\ SpoiledIsWritten
    /\ ImportedSoFar /\ PublishedIsWhole

LEMMA ImportStarts == ImportInit => ImportInv
  BY ImportAssumption
  DEF ImportInit, ImportInv, ImportTypeOK, ImportIsAlone, SpoiledIsWritten,
      ImportedSoFar, PublishedIsWhole, SourceVersions, NoTemp, NoTarget, Empty,
      Outside, Nobody

\* A step of a migrator that leaves sources and databases alone, and after which
\* nobody is importing who was not before.
LEMMA ImportMoves ==
    ASSUME ImportInv, UNCHANGED <<source, temp, target, spoiled, writes>>,
           ImportTypeOK', ImportIsAlone',
           \A m \in Migrators :
             \/ migrator'[m] = migrator[m]
             \/ migrator'[m].pc = "out"
             \/ /\ migrator[m].pc # "out" /\ migrator'[m].pc # "importing"
                /\ migrator'[m].began = migrator[m].began
             \/ /\ migrator'[m].pc = "locking"
                /\ \A s \in Sources : migrator'[m].began[s] <= source[s].version
    PROVE  ImportInv'
  BY DEF ImportInv, ImportedSoFar, PublishedIsWhole, SpoiledIsWritten, IsWhole

LEMMA ImportSteps == ImportInv /\ [ImportNext]_importVars => ImportInv'
<1> SUFFICES ASSUME ImportInv, [ImportNext]_importVars
             PROVE  ImportInv'
  OBVIOUS
<1> USE ImportAssumption DEF ImportInv
<1>1. ASSUME NEW m \in Migrators, BeginImport(m)
      PROVE  ImportInv'
  <2>1. ImportTypeOK'
    BY <1>1 DEF ImportTypeOK, BeginImport, Outside, Versions, SourceVersions, Empty
  <2>2. ImportIsAlone'
    BY <1>1 DEF ImportTypeOK, ImportIsAlone, BeginImport, Outside
  <2>3. /\ migrator'[m].pc = "locking" /\ migrator'[m].began = Versions
        /\ \A n \in Migrators \ {m} : migrator'[n] = migrator[n]
    BY <1>1 DEF ImportTypeOK, BeginImport, Outside
  <2>4. \A s \in Sources : Versions[s] <= source[s].version
    BY DEF ImportTypeOK, Versions
  <2> QED BY <1>1, <2>1, <2>2, <2>3, <2>4, ImportMoves DEF BeginImport
<1>2. ASSUME NEW m \in Migrators, LockImport(m)
      PROVE  ImportInv'
  <2>1. ImportTypeOK'
    BY <1>2, SMTT(30) DEF ImportTypeOK, LockImport, Goes
  <2>2. ImportIsAlone'
    BY <1>2 DEF ImportTypeOK, ImportIsAlone, LockImport, Goes
  <2> QED BY <1>2, <2>1, <2>2, ImportMoves DEF ImportTypeOK, LockImport, Goes
<1>3. ASSUME NEW m \in Migrators, OpenTemp(m)
      PROVE  ImportInv'
  <2>1. /\ migrator'[m].pc = "importing" /\ migrator'[m].todo = Sources
        /\ migrator'[m].began = migrator[m].began /\ migrator[m].pc = "opening"
        /\ \A n \in Migrators \ {m} : migrator'[n] = migrator[n]
        /\ temp'.has = temp.has /\ UNCHANGED <<source, target, migLock, spoiled>>
    BY <1>3 DEF OpenTemp, ImportTypeOK
  <2>2. ImportTypeOK'
    <3>1. temp' \in [exists : BOOLEAN, has : SourceVersions]
      BY <1>3 DEF OpenTemp, ImportTypeOK
    <3> DEFINE opened == [migrator[m] EXCEPT !.pc = "importing", !.todo = Sources]
               open == [pc : {"out", "locking", "opening", "importing", "published"},
                        todo : SUBSET Sources, errors : BOOLEAN, began : SourceVersions]
    <3>2. migrator[m] \in open /\ opened \in open
      BY DEF ImportTypeOK
    <3>3. migrator' = [migrator EXCEPT ![m] = opened]
      BY <1>3 DEF OpenTemp, ImportTypeOK
    <3> HIDE DEF opened
    <3>4. migrator' \in [Migrators -> open]
      BY <3>2, <3>3 DEF ImportTypeOK
    <3> QED BY <1>3, <3>1, <3>4 DEF OpenTemp, ImportTypeOK
  <2>3. ImportedSoFar'
    BY <2>1 DEF ImportedSoFar, IsWhole
  <2> QED BY <2>1, <2>2, <2>3
      DEF ImportIsAlone, SpoiledIsWritten, PublishedIsWhole, IsWhole
<1>4. ASSUME NEW m \in Migrators, Reject(m)
      PROVE  ImportInv'
  <2>1. ImportTypeOK'
    BY <1>4 DEF ImportTypeOK, Reject, FinishImport, Outside, Empty, SourceVersions
  <2>2. ImportIsAlone'
    BY <1>4 DEF ImportTypeOK, ImportIsAlone, Reject, FinishImport, Outside
  <2> QED BY <1>4, <2>1, <2>2, ImportMoves
          DEF ImportTypeOK, Reject, FinishImport, Outside
<1>5. ASSUME NEW m \in Migrators, Publish(m)
      PROVE  ImportInv'
  <2>1. CASE target = NoTarget
    <3>1. /\ target' = [by |-> "import", has |-> temp.has,
                         began |-> migrator[m].began]
          /\ migrator' = [migrator EXCEPT ![m].pc = "published"]
          /\ migrator[m].pc = "importing" /\ ~migrator[m].errors
          /\ migrator[m].todo = {}
          /\ UNCHANGED <<migLock, source, temp, spoiled, writes>>
      BY <1>5, <2>1 DEF Publish, Goes
    <3>2. ImportTypeOK'
      BY <3>1 DEF ImportTypeOK
    <3>3. ImportIsAlone'
      BY <3>1 DEF ImportIsAlone, ImportTypeOK
    <3>4. PublishedIsWhole'
      BY <3>1 DEF ImportedSoFar, PublishedIsWhole, IsWhole
    <3>5. ImportedSoFar'
      BY <3>1 DEF ImportedSoFar, ImportTypeOK, IsWhole
    <3> QED BY <3>1, <3>2, <3>3, <3>4, <3>5 DEF SpoiledIsWritten
  <2>2. CASE target # NoTarget
    <3>1. /\ FinishImport(m) /\ migrator[m].pc = "importing"
          /\ UNCHANGED <<source, temp, target, spoiled, writes>>
      BY <1>5, <2>2 DEF Publish
    <3> HIDE <2>2
    <3>2. ImportTypeOK'
      BY <3>1 DEF ImportTypeOK, FinishImport, Outside, Empty, SourceVersions
    <3>3. ImportIsAlone'
      BY <3>1 DEF ImportTypeOK, ImportIsAlone, FinishImport, Outside
    <3> QED BY <3>1, <3>2, <3>3, ImportMoves DEF ImportTypeOK, FinishImport, Outside
  <2> QED BY <2>1, <2>2
<1>6. ASSUME NEW m \in Migrators, RemoveTemp(m)
      PROVE  ImportInv'
  <2>1. \A n \in Migrators : migrator[n].pc # "importing"
    BY <1>6 DEF RemoveTemp, ImportIsAlone
  <2> QED BY <1>6, <2>1
      DEF RemoveTemp, FinishImport, Outside, NoTemp, Empty, ImportTypeOK,
          SourceVersions, ImportIsAlone, SpoiledIsWritten, ImportedSoFar,
          PublishedIsWhole, IsWhole
<1>7. ASSUME NEW m \in Migrators, ImportDies(m)
      PROVE  ImportInv'
  <2>1. ImportTypeOK'
    BY <1>7 DEF ImportTypeOK, ImportDies, Outside, Empty, SourceVersions
  <2>2. ImportIsAlone'
    BY <1>7 DEF ImportTypeOK, ImportIsAlone, ImportDies, Outside
  <2> QED BY <1>7, <2>1, <2>2, ImportMoves DEF ImportTypeOK, ImportDies, Outside
<1>8. ASSUME NEW m \in Migrators, NEW s \in Sources, ImportSource(m, s)
      PROVE  ImportInv'
  <2> DEFINE v == source[s]
  <2>1. /\ migrator[m].pc = "importing" /\ s \in migrator[m].todo
        /\ \/ Imported(m, s, FALSE, temp)
           \/ temp.has[s] = v.version /\ Imported(m, s, v.good, temp)
           \/ Imported(m, s, v.good, [temp EXCEPT !.has[s] = v.version])
    BY <1>8 DEF ImportSource
  <2>2. v.version \in Nat \ {0} /\ v.good \in BOOLEAN
    BY DEF ImportTypeOK
  <2>3. ASSUME NEW good \in BOOLEAN, NEW content \in {temp, [temp EXCEPT !.has[s] = v.version]},
               good => v.good /\ content.has[s] = v.version,
               Imported(m, s, good, content)
        PROVE  ImportInv'
    <3>1. content \in [exists : BOOLEAN, has : SourceVersions]
      BY <2>2 DEF ImportTypeOK, SourceVersions
    <3>2. ImportTypeOK'
      <4>1. migrator' = [migrator EXCEPT ![m].todo = @ \ {s}, ![m].errors = @ \/ ~good]
        BY <2>3 DEF Imported
      <4>2. migrator' \in [Migrators ->
          [pc : {"out", "locking", "opening", "importing", "published"},
           todo : SUBSET Sources, errors : BOOLEAN, began : SourceVersions]]
        <5>1. PICK wrong \in BOOLEAN : wrong = (migrator[m].errors \/ ~good)
          OBVIOUS
        <5>2. migrator' = [migrator EXCEPT ![m] =
                  [migrator[m] EXCEPT !.todo = @ \ {s}, !.errors = wrong]]
          BY <4>1, <5>1 DEF ImportTypeOK
        <5>3. [migrator[m] EXCEPT !.todo = @ \ {s}, !.errors = wrong] \in
                [pc : {"out", "locking", "opening", "importing", "published"},
                 todo : SUBSET Sources, errors : BOOLEAN, began : SourceVersions]
          <6>1. migrator[m] \in
                [pc : {"out", "locking", "opening", "importing", "published"},
                 todo : SUBSET Sources, errors : BOOLEAN, began : SourceVersions]
            BY DEF ImportTypeOK
          <6> HIDE DEF ImportInv
          <6> QED BY <6>1
        <5> QED BY <5>2, <5>3 DEF ImportTypeOK
      <4> QED BY <2>3, <3>1, <4>2 DEF Imported, ImportTypeOK
    <3>3. ImportIsAlone' /\ SpoiledIsWritten' /\ PublishedIsWhole'
      BY <2>3 DEF Imported, ImportIsAlone, SpoiledIsWritten, PublishedIsWhole,
                  IsWhole, ImportTypeOK
    <3>4. \A n \in Migrators \ {m} : migrator'[n].pc # "importing"
      BY <2>1, <2>3 DEF Imported, ImportIsAlone, ImportTypeOK
    <3>5. /\ migrator'[m].began = migrator[m].began
          /\ migrator'[m].todo = migrator[m].todo \ {s}
          /\ ~migrator'[m].errors => ~migrator[m].errors /\ good
          /\ \A n \in Migrators \ {m} : migrator'[n] = migrator[n]
          /\ temp' = content /\ UNCHANGED <<source, spoiled>>
      BY <2>3 DEF Imported, ImportTypeOK
    <3>6. \A x \in Sources \ {s} : content.has[x] = temp.has[x]
      BY DEF ImportTypeOK, SourceVersions
    <3>7. good => IsWhole(content.has, migrator[m].began, s)
      BY <2>1, <2>2, <2>3
      DEF ImportedSoFar, IsWhole, ImportTypeOK, SpoiledIsWritten, SourceVersions
    <3>8. ImportedSoFar'
      BY <2>1, <3>4, <3>5, <3>6, <3>7 DEF ImportedSoFar, IsWhole
    <3> QED BY <3>2, <3>3, <3>8
  <2>4. [temp EXCEPT !.has[s] = v.version].has[s] = v.version
    BY DEF ImportTypeOK, SourceVersions
  <2>5. /\ [temp EXCEPT !.has[s] = v.version]
               \in {temp, [temp EXCEPT !.has[s] = v.version]}
        /\ temp \in {temp, [temp EXCEPT !.has[s] = v.version]}
    OBVIOUS
  <2> DEFINE after == [temp EXCEPT !.has[s] = v.version]
  <2> HIDE DEF v, after, ImportInv
  <2>6. CASE Imported(m, s, FALSE, temp)
    BY <2>3, <2>5, <2>6
  <2>7. CASE temp.has[s] = v.version /\ Imported(m, s, v.good, temp)
    BY <2>2, <2>3, <2>5, <2>7
  <2>8. CASE Imported(m, s, v.good, after)
    BY <2>2, <2>3, <2>4, <2>5, <2>8 DEF after
  <2> QED BY <2>1, <2>6, <2>7, <2>8 DEF after
<1>9. ASSUME CleanUp
      PROVE  ImportInv'
  <2>1. \A m \in Migrators :
            migrator[m].pc \notin {"opening", "importing", "published"}
    BY <1>9 DEF CleanUp, ImportIsAlone
  <2>2. ImportTypeOK'
    <3>1. NoTemp \in [exists : BOOLEAN, has : SourceVersions]
      BY DEF NoTemp, Empty, SourceVersions
    <3> QED BY <1>9, <3>1 DEF CleanUp, ImportTypeOK
  <2>3. UNCHANGED <<source, target, migrator, spoiled, writes>>
    BY <1>9 DEF CleanUp
  <2>4. ImportIsAlone' /\ ImportedSoFar'
    BY <2>1, <2>3 DEF ImportIsAlone, ImportedSoFar
  <2> QED BY <2>2, <2>3, <2>4 DEF SpoiledIsWritten, PublishedIsWhole, IsWhole
<1>10. ASSUME CreateTarget
       PROVE  ImportInv'
  BY <1>10 DEF CreateTarget, NoTarget, Empty, ImportTypeOK, SourceVersions,
      ImportIsAlone, SpoiledIsWritten, ImportedSoFar, PublishedIsWhole, IsWhole
<1>11. ASSUME NEW s \in Sources, WriteSource(s)
       PROVE  ImportInv'
  <2>1. PICK good \in BOOLEAN :
           /\ source' = [source EXCEPT ![s] = [version |-> @.version + 1,
                                               good |-> good]]
           /\ spoiled' = IF good THEN spoiled
                         ELSE spoiled \cup {<<s, source[s].version + 1>>}
    BY <1>11 DEF WriteSource
  <2>2. ImportTypeOK' /\ ImportIsAlone'
    BY <1>11, <2>1 DEF WriteSource, ImportTypeOK, ImportIsAlone
  <2>3. /\ source'[s].version = source[s].version + 1 /\ source'[s].good = good
        /\ \A x \in Sources \ {s} : source'[x] = source[x]
        /\ \A x \in Sources : source[x].version \in Nat /\ source'[x].version \in Nat
                              /\ source[x].version <= source'[x].version
    BY <2>1 DEF ImportTypeOK
  <2>4. SpoiledIsWritten'
    BY <2>1, <2>3 DEF SpoiledIsWritten
  <2>5. ASSUME NEW has \in SourceVersions, NEW began \in SourceVersions,
               NEW x \in Sources, IsWhole(has, began, x)
        PROVE  IsWhole(has, began, x)'
    BY <2>1, <2>3, <2>5 DEF IsWhole, SourceVersions
  <2>6. ImportedSoFar' /\ PublishedIsWhole'
    <3>1. UNCHANGED <<temp, target, migrator>>
      BY <1>11 DEF WriteSource
    <3>2. /\ temp.has \in SourceVersions /\ target.has \in SourceVersions
          /\ target.began \in SourceVersions
          /\ \A m \in Migrators : migrator[m].began \in SourceVersions
      BY DEF ImportTypeOK
    <3>3. PublishedIsWhole'
      BY <2>5, <3>1, <3>2 DEF PublishedIsWhole
    <3>4. ASSUME NEW m \in Migrators, migrator[m].pc # "out", NEW x \in Sources
          PROVE  migrator[m].began[x] <= source'[x].version
      BY <2>3, <3>2, <3>4 DEF ImportedSoFar, SourceVersions
    <3>5. ASSUME NEW m \in Migrators, migrator[m].pc = "importing",
                 ~migrator[m].errors, NEW x \in Sources \ migrator[m].todo
          PROVE  IsWhole(temp.has, migrator[m].began, x)'
      BY <2>5, <3>1, <3>2, <3>5 DEF ImportedSoFar
    <3> QED BY <3>1, <3>3, <3>4, <3>5 DEF ImportedSoFar
  <2> QED BY <2>2, <2>4, <2>6
<1>12. CASE UNCHANGED importVars
  BY <1>12 DEF importVars, ImportTypeOK, ImportIsAlone, SpoiledIsWritten,
      ImportedSoFar, PublishedIsWhole, IsWhole
<1> QED
  BY <1>1, <1>2, <1>3, <1>4, <1>5, <1>6, <1>7, <1>8, <1>9, <1>10, <1>11, <1>12
  DEF ImportNext

\* Whatever imports were started, cut off and started again, at once or one
\* after the other, and whatever sessions wrote meanwhile: the database that
\* appears has every source, whole and no older than when its import began.
THEOREM ImportsAreWhole == ImportSpec => []ImportIsWhole
<1>1. ImportInv => ImportIsWhole
  BY DEF ImportInv, ImportTypeOK, SourceVersions, PublishedIsWhole, IsWhole,
         ImportIsWhole
<1> QED BY ImportStarts, ImportSteps, <1>1, PTL DEF ImportSpec

-----------------------------------------------------------------------------
(* MemoryStore *)

Entries == [kind : {"none", "explicit", "auto_extract"},
            text : Contents \cup {"none"}]

InHand == [does : {"nothing", "adds", "removes", "writes"},
           key : Keys \cup {"none"}, entry : Entries,
           file : [Keys -> Entries] \cup {<<>>}]

MemoriesTypeOK ==
    memories \in [Keys -> Entries] /\ terminal \in [Terminals -> InHand]

\* What a terminal has in hand is meant for a key it may have: what was
\* extracted goes to no key of an entry that was written by hand.
ChangesAreMeant ==
    \A p \in Terminals :
        terminal[p].does # "nothing" =>
            /\ terminal[p].key \in Keys
            /\ terminal[p].entry.kind = "auto_extract" =>
                 terminal[p].key \in AutoKeys

\* Who writes holds the lock and has read what is there.
WritersAreCurrent ==
    \A p \in Terminals :
        terminal[p].does = "writes" => holder = p /\ terminal[p].file = memories

MemoriesInv ==
    MemoriesTypeOK /\ MemoriesAreKept /\ ChangesAreMeant /\ WritersAreCurrent

LEMMA MemoriesStart == MemoriesInit => MemoriesInv
  BY DEF MemoriesInit, MemoriesInv, MemoriesTypeOK, MemoriesAreKept, ChangesAreMeant,
         WritersAreCurrent, NoEntry, AtPrompt, Entries, InHand, Keys

LEMMA MemoriesSteps == MemoriesInv /\ [MemoriesNext]_storeVars => MemoriesInv'
<1> SUFFICES ASSUME MemoriesInv, [MemoriesNext]_storeVars
             PROVE  MemoriesInv'
  OBVIOUS
<1> USE DEF MemoriesInv, MemoriesTypeOK
<1>1. NoEntry \in Entries /\ AtPrompt.does = "nothing" /\ AtPrompt \in InHand
  BY DEF NoEntry, AtPrompt, Entries, InHand
\* A terminal decides on a change.
<1>2. ASSUME NEW p \in Terminals, NEW w \in InHand,
             w.does \in {"nothing", "adds", "removes"}, w.key \in Keys,
             w.entry.kind = "auto_extract" => w.key \in AutoKeys,
             BecomesTerminal(p, w), UNCHANGED <<memories, holder, due>>
      PROVE  MemoriesInv'
  <2>1. terminal' = [terminal EXCEPT ![p] = w]
    BY <1>2 DEF BecomesTerminal
  <2>2. MemoriesTypeOK'
    BY <1>2, <2>1
  <2> QED BY <1>2, <2>1, <2>2
      DEF MemoriesAreKept, ChangesAreMeant, WritersAreCurrent
<1>3. ASSUME NEW p \in Terminals, Remember(p)
      PROVE  MemoriesInv'
  <2>1. PICK k \in HandKeys, text \in Contents :
           BecomesTerminal(p, [AtPrompt EXCEPT !.does = "adds", !.key = k,
                               !.entry = [kind |-> "explicit", text |-> text]])
    BY <1>3 DEF Remember
  <2> DEFINE e == [kind |-> "explicit", text |-> text]
             w == [AtPrompt EXCEPT !.does = "adds", !.key = k, !.entry = e]
  <2>2. e \in Entries /\ k \in Keys /\ e.kind # "auto_extract"
    BY DEF Entries, Keys
  <2> HIDE DEF e
  <2>3. w \in InHand /\ w.does = "adds" /\ w.key = k /\ w.entry = e
    BY <2>2 DEF AtPrompt, InHand
  <2> HIDE DEF w
  <2> QED BY <1>2, <1>3, <2>1, <2>2, <2>3 DEF Remember, w, e
<1>4. ASSUME NEW p \in Terminals, StoreExtracted(p)
      PROVE  MemoriesInv'
  <2>1. PICK own \in AutoKeys, named \in Keys, text \in Contents :
           BecomesTerminal(p, [AtPrompt EXCEPT !.does = "adds",
               !.key = KeyFor(own, named),
               !.entry = [kind |-> "auto_extract", text |-> text]])
    BY <1>4 DEF StoreExtracted
  <2> DEFINE e == [kind |-> "auto_extract", text |-> text]
             k == KeyFor(own, named)
             w == [AtPrompt EXCEPT !.does = "adds", !.key = k, !.entry = e]
  <2>2. e \in Entries /\ k \in AutoKeys
    BY DEF KeyFor, MemoriesAreKept, Keys, Entries
  <2> HIDE DEF e, k
  <2>3. w \in InHand /\ w.does = "adds" /\ w.key = k /\ w.entry = e
    BY <2>2 DEF AtPrompt, InHand, Keys
  <2> HIDE DEF w
  <2> QED BY <1>2, <1>4, <2>1, <2>2, <2>3 DEF StoreExtracted, Keys, w, e, k
<1>5. ASSUME NEW p \in Terminals, Forget(p)
      PROVE  MemoriesInv'
  <2>1. PICK k \in Keys :
           BecomesTerminal(p, [AtPrompt EXCEPT !.does = "removes", !.key = k])
    BY <1>5 DEF Forget
  <2> DEFINE w == [AtPrompt EXCEPT !.does = "removes", !.key = k]
  <2>2. w \in InHand /\ w.does = "removes" /\ w.key = k /\ w.entry = NoEntry
    BY <1>1 DEF AtPrompt, InHand
  <2>3. NoEntry.kind # "auto_extract"
    BY DEF NoEntry
  <2> HIDE DEF w
  <2> QED BY <1>2, <1>5, <2>1, <2>2, <2>3 DEF Forget, w
<1>6. ASSUME NEW p \in Terminals, ReadAuthority(p)
      PROVE  MemoriesInv'
  <2>1. CASE BecomesTerminal(p, AtPrompt) /\ UNCHANGED holder
    BY <1>1, <1>6, <2>1
    DEF ReadAuthority, BecomesTerminal, MemoriesAreKept, ChangesAreMeant,
        WritersAreCurrent
  <2>2. CASE /\ holder' = p
             /\ BecomesTerminal(p, [terminal[p] EXCEPT
                  !.does = "writes", !.file = memories])
    <3> DEFINE w == [terminal[p] EXCEPT !.does = "writes", !.file = memories]
    <3>1. /\ terminal' = [terminal EXCEPT ![p] = w]
          /\ UNCHANGED <<memories, due>> /\ terminal[p].does # "nothing"
          /\ holder = Unlocked
      BY <1>6, <2>2 DEF ReadAuthority, Lock, BecomesTerminal
    <3>2. /\ w \in InHand /\ w.key = terminal[p].key /\ w.entry = terminal[p].entry
          /\ w.file = memories
      BY DEF InHand
    <3> HIDE DEF w
    <3>3. MemoriesTypeOK'
      BY <3>1, <3>2
    <3>4. ChangesAreMeant'
      BY <3>1, <3>2 DEF ChangesAreMeant
    <3>5. WritersAreCurrent'
      BY <2>2, <3>1, <3>2, MemoriesAssumption DEF WritersAreCurrent
    <3> QED BY <3>1, <3>3, <3>4, <3>5 DEF MemoriesAreKept
  <2> QED BY <1>6, <2>1, <2>2 DEF ReadAuthority
<1>7. ASSUME NEW p \in Terminals, WriteAuthority(p)
      PROVE  MemoriesInv'
  <2>1. /\ terminal[p].does = "writes" /\ holder = p
        /\ terminal[p].file = memories /\ terminal[p].key \in Keys
        /\ terminal' = [terminal EXCEPT ![p] = AtPrompt]
    BY <1>7 DEF WriteAuthority, WritersAreCurrent, ChangesAreMeant, BecomesTerminal
  <2>2. \A q \in Terminals : terminal'[q].does # "writes"
    BY <1>1, <2>1 DEF WritersAreCurrent
  <2>3. \/ UNCHANGED <<memories, due>>
        \/ /\ memories' = [memories EXCEPT ![terminal[p].key] = terminal[p].entry]
           /\ due' = [due EXCEPT ![terminal[p].key] = terminal[p].entry]
    BY <1>7, <2>1 DEF WriteAuthority
  <2>4. MemoriesTypeOK'
    <3>1. terminal[p].entry \in Entries
      BY DEF InHand
    <3>2. memories' \in [Keys -> Entries]
      BY <2>3, <3>1
    <3>3. terminal' \in [Terminals -> InHand]
      BY <1>1, <2>1
    <3> QED BY <3>2, <3>3
  <2>5. MemoriesAreKept'
    BY <2>1, <2>3, MemoriesAssumption DEF MemoriesAreKept, ChangesAreMeant, Keys
  <2>6. ChangesAreMeant'
    BY <1>1, <2>1 DEF ChangesAreMeant
  <2> QED BY <2>2, <2>4, <2>5, <2>6 DEF WritersAreCurrent
<1>8. CASE UNCHANGED storeVars
  BY <1>8 DEF storeVars, MemoriesAreKept, ChangesAreMeant, WritersAreCurrent
<1> QED BY <1>3, <1>4, <1>5, <1>6, <1>7, <1>8 DEF MemoriesNext

\* Whatever the terminals add, remove and extract at once, the file has the last
\* entry of every key, and no extraction replaces what was written by hand.
THEOREM MemoriesHold == MemoriesSpec => []MemoriesAreKept
  BY MemoriesStart, MemoriesSteps, PTL DEF MemoriesSpec, MemoriesInv

-----------------------------------------------------------------------------
(* ModelCatalog *)

Statuses == {"listed", "ok", "unavailable", "delisted", "error"}
Verdicts == {"unknown", "yes", "no"}

RouteRecords ==
    [listed : BOOLEAN, status : Statuses, streak : Nat, tools : Verdicts,
     seen : Nat, rejectAt : Nat, context : Nat,
     source : {"none", "learned-stated", "learned-rejected", "probed",
               "probed-floor"},
     upper : Nat]
ClientWorks ==
    [does : {"nothing", "clears", "probes", "climbs"}, status : Statuses,
     tools : Verdicts, fits : Nat]
Observed == [tools : SUBSET Verdicts, accepted : Nat, refused : Nat, declared : Nat,
             measured : BOOLEAN]

CatalogTypeOK ==
    /\ limit \in Nat /\ known \in RouteRecords
    /\ client \in [Clients -> ClientWorks] /\ evidence \in Observed

\* What a client has in hand was observed.
IsObserved(work, tools) ==
    /\ work.tools # "unknown" => work.tools \in tools
    /\ work.fits <= limit

ClientsAreHonest == \A c \in Clients : IsObserved(client[c], evidence.tools)

CatalogInv == CatalogTypeOK /\ EvidenceIsHonest /\ ClientsAreHonest

LEMMA CatalogStarts == CatalogInit => CatalogInv
<1> SUFFICES ASSUME CatalogInit PROVE CatalogInv
  OBVIOUS
<1>1. CatalogTypeOK
  BY CatalogAssumption
  DEF CatalogInit, CatalogTypeOK, AsListed, NoWork, RouteRecords, ClientWorks,
      Observed, Statuses, Verdicts
<1>2. EvidenceIsHonest
  BY DEF CatalogInit, EvidenceIsHonest, VerdictsAreObserved, BoundsAreKept,
         MeasuredFits, AsListed
<1>3. ClientsAreHonest
  BY <1>1 DEF CatalogInit, ClientsAreHonest, IsObserved, NoWork, CatalogTypeOK
<1> QED BY <1>1, <1>2, <1>3 DEF CatalogInv

\* What one client takes in hand keeps the invariant, if it was observed.
LEMMA OneClientWorks ==
    ASSUME CatalogInv, NEW c \in Clients, NEW w \in ClientWorks, Does(c, w),
           UNCHANGED limit, evidence' \in Observed, IsObserved(w, evidence'.tools),
           evidence.tools \subseteq evidence'.tools
    PROVE  client' \in [Clients -> ClientWorks] /\ ClientsAreHonest'
<1>1. client' = [client EXCEPT ![c] = w] /\ client \in [Clients -> ClientWorks]
  BY DEF Does, CatalogInv, CatalogTypeOK
<1>2. ClientsAreHonest'
  BY <1>1 DEF CatalogInv, ClientsAreHonest, IsObserved
<1> QED BY <1>1, <1>2

LEMMA ClientsRest ==
    ASSUME CatalogInv, UNCHANGED <<client, limit>>, evidence' \in Observed,
           evidence.tools \subseteq evidence'.tools
    PROVE  client' \in [Clients -> ClientWorks] /\ ClientsAreHonest'
  BY DEF CatalogInv, CatalogTypeOK, ClientsAreHonest, IsObserved

LEMMA CatalogSteps == CatalogInv /\ [CatalogNext]_catalogVars => CatalogInv'
<1> SUFFICES ASSUME CatalogInv, [CatalogNext]_catalogVars
             PROVE  CatalogInv'
  OBVIOUS
<1>0. /\ limit \in Nat /\ known \in RouteRecords /\ evidence \in Observed
      /\ client \in [Clients -> ClientWorks]
      /\ VerdictsAreObserved /\ BoundsAreKept /\ MeasuredFits /\ ClientsAreHonest
  BY DEF CatalogInv, CatalogTypeOK, EvidenceIsHonest
<1> USE CatalogAssumption
    DEF RouteRecords, Observed, Statuses, Verdicts,
        VerdictsAreObserved, BoundsAreKept, MeasuredFits
<1>a. ASSUME known' \in RouteRecords, evidence' \in Observed, UNCHANGED limit,
             client' \in [Clients -> ClientWorks], ClientsAreHonest',
             EvidenceIsHonest'
      PROVE  CatalogInv'
  BY <1>a, <1>0 DEF CatalogInv, CatalogTypeOK
<1>b. ASSUME NEW c \in Clients
      PROVE  /\ client[c] \in ClientWorks /\ client[c].fits <= limit
             /\ client[c].tools # "unknown" => client[c].tools \in evidence.tools
             /\ client[c].fits \in Nat /\ client[c].tools \in Verdicts
             /\ client[c].status \in Statuses
  BY <1>0 DEF ClientWorks, ClientsAreHonest, IsObserved
<1>c. /\ NoWork \in ClientWorks
      /\ \A tools : IsObserved(NoWork, tools)
      /\ \A does \in {"nothing", "clears", "probes", "climbs"} :
            LET w == [NoWork EXCEPT !.does = does]
            IN  w \in ClientWorks /\ \A tools : IsObserved(w, tools)
  BY <1>0 DEF NoWork, ClientWorks, IsObserved
\* Steps that leave the clients alone,
<1>1. ASSUME NEW max \in 0..Ceiling + 1, Listed(max)
      PROVE  CatalogInv'
  <2>1. known' \in RouteRecords /\ evidence' \in Observed /\ evidence'.tools = evidence.tools
    <3>1. max \in Nat
      OBVIOUS
    <3>2. (IF max = 0 THEN known.context ELSE max) \in Nat
          /\ (IF known.status = "delisted" THEN "listed" ELSE known.status) \in Statuses
      BY <1>0, <3>1
    <3> QED BY <1>0, <1>1, <3>2 DEF Listed
  <2>2. EvidenceIsHonest'
    BY <1>0, <1>1 DEF Listed, EvidenceIsHonest
  <2> QED BY <1>1, <1>a, <2>1, <2>2, ClientsRest DEF Listed
<1>2. CASE Delisted
  <2>1. known' \in RouteRecords /\ EvidenceIsHonest'
    BY <1>0, <1>2 DEF Delisted, EvidenceIsHonest
  <2> QED BY <1>0, <1>2, <1>a, <2>1, ClientsRest DEF Delisted
<1>3. CASE NoteUnavailable
  <2>1. (IF known.streak < Streak THEN known.streak + 1 ELSE known.streak) \in Nat
    BY <1>0
  <2>2. known' \in RouteRecords
    BY <1>0, <1>3, <2>1 DEF NoteUnavailable
  <2>3. EvidenceIsHonest'
    BY <1>0, <1>3 DEF NoteUnavailable, EvidenceIsHonest
  <2> QED BY <1>0, <1>3, <1>a, <2>2, <2>3, ClientsRest DEF NoteUnavailable
<1>4. ASSUME NEW n \in 1..Ceiling + 1, NoteContextOk(n)
      PROVE  CatalogInv'
  <2>1. known' \in RouteRecords /\ evidence' \in Observed /\ evidence'.tools = evidence.tools
    BY <1>0, <1>4 DEF NoteContextOk, Seen
  <2>2. EvidenceIsHonest'
    BY <1>0, <1>4 DEF NoteContextOk, Seen, EvidenceIsHonest
  <2> QED BY <1>4, <1>a, <2>1, <2>2, ClientsRest DEF NoteContextOk
<1>5. ASSUME NEW n \in 1..Ceiling + 1, NEW stated \in BOOLEAN,
             NoteContextReject(n, stated)
      PROVE  CatalogInv'
  <2>1. PICK est \in Nat :
         /\ known' = [known EXCEPT
              !.rejectAt = Least(@, est),
              !.context = IF stated THEN est ELSE Learned(est),
              !.source = IF stated THEN "learned-stated" ELSE "learned-rejected"]
         /\ evidence' = [evidence EXCEPT !.refused = Least(@, est)]
         /\ UNCHANGED <<client, limit>>
    <3>1. limit \in Nat /\ n \in Nat /\ n - 1 \in Nat
      BY <1>0
    <3> QED BY <1>5, <3>1 DEF NoteContextReject
  <2>2. \A a \in Nat : Least(a, est) \in Nat
    BY DEF Least
  <2>3. (IF stated THEN est ELSE Learned(est)) \in Nat
    BY <1>0, <2>2 DEF Learned
  <2>4. known' \in RouteRecords /\ evidence' \in Observed /\ evidence'.tools = evidence.tools
    BY <1>0, <2>1, <2>2, <2>3
  <2>5. EvidenceIsHonest'
    BY <1>0, <2>1 DEF EvidenceIsHonest
  <2> QED BY <1>a, <2>1, <2>4, <2>5, ClientsRest
\* ... and those of a client.
<1>6. ASSUME NEW c \in Clients, Succeeds(c)
      PROVE  CatalogInv'
  <2>1. client' \in [Clients -> ClientWorks] /\ ClientsAreHonest'
    BY <1>0, <1>6, <1>c, OneClientWorks DEF Succeeds
  <2> QED BY <1>0, <1>6, <1>a, <2>1 DEF Succeeds, EvidenceIsHonest
<1>7. ASSUME NEW c \in Clients, NoteAvailable(c)
      PROVE  CatalogInv'
  <2>1. client' \in [Clients -> ClientWorks] /\ ClientsAreHonest'
    BY <1>0, <1>7, <1>c, OneClientWorks DEF NoteAvailable
  <2>2. known' \in RouteRecords /\ EvidenceIsHonest'
    BY <1>0, <1>7 DEF NoteAvailable, EvidenceIsHonest
  <2> QED BY <1>0, <1>7, <1>a, <2>1, <2>2 DEF NoteAvailable
<1>8. ASSUME NEW c \in Clients, NEW byHand \in BOOLEAN, BeginProbe(c, byHand)
      PROVE  CatalogInv'
  <2> DEFINE w == [NoWork EXCEPT !.does = "probes", !.status = known.status,
                                 !.tools = known.tools]
  <2>1. w \in ClientWorks /\ w.tools = known.tools /\ w.fits = 0
    BY <1>0 DEF NoWork, ClientWorks
  <2>2. w \in ClientWorks /\ IsObserved(w, evidence.tools)
    BY <1>0, <2>1 DEF IsObserved
  <2> HIDE DEF w
  <2>3. client' \in [Clients -> ClientWorks] /\ ClientsAreHonest'
    BY <1>0, <1>8, <2>2, OneClientWorks DEF BeginProbe, w
  <2> QED BY <1>0, <1>8, <1>a, <2>3 DEF BeginProbe, EvidenceIsHonest
<1>9. ASSUME NEW c \in Clients, NEW status \in Statuses, NEW tools \in Verdicts,
             ProbeWrites(c, status, tools),
             \/ UNCHANGED evidence
             \/ tools # "unknown"
                /\ evidence' = [evidence EXCEPT !.tools = @ \cup {tools}],
             tools # "unknown" => tools \in evidence'.tools
      PROVE  CatalogInv'
  <2>1. evidence' \in Observed /\ evidence.tools \subseteq evidence'.tools
    BY <1>0, <1>9
  <2>2. client' \in [Clients -> ClientWorks] /\ ClientsAreHonest'
    BY <1>9, <1>c, <2>1, OneClientWorks DEF ProbeWrites
  <2>3. known' \in RouteRecords
    BY <1>0, <1>9 DEF ProbeWrites
  <2>4. EvidenceIsHonest'
    BY <1>0, <1>9 DEF ProbeWrites, EvidenceIsHonest
  <2> QED BY <1>9, <1>a, <2>1, <2>2, <2>3, <2>4 DEF ProbeWrites
<1>10. ASSUME NEW c \in Clients, ProbeAnswers(c) \/ ProbeIsRefused(c)
       PROVE  CatalogInv'
  <2>1. PICK verdict \in {"yes", "no"}, status \in Statuses :
           /\ ProbeWrites(c, status, verdict)
           /\ evidence' = [evidence EXCEPT !.tools = @ \cup {verdict}]
    BY <1>10 DEF ProbeAnswers, ProbeIsRefused
  <2>2. verdict \in evidence'.tools
    BY <1>0, <2>1
  <2> QED BY <1>9, <2>1, <2>2
<1>11. ASSUME NEW c \in Clients, ProbeFails(c) \/ ProbeIsBlocked(c)
       PROVE  CatalogInv'
  <2>1. PICK tools \in Verdicts, status \in Statuses :
           /\ ProbeWrites(c, status, tools) /\ UNCHANGED evidence
           /\ tools # "unknown" => tools \in evidence.tools
    BY <1>0, <1>11, <1>b DEF ProbeFails, ProbeIsBlocked, VerdictOfFailure
  <2> QED BY <1>9, <2>1
<1>12. ASSUME NEW c \in Clients, BeginContext(c) \/ ContextBlocked(c)
       PROVE  CatalogInv'
  <2>1. client' \in [Clients -> ClientWorks] /\ ClientsAreHonest'
    BY <1>0, <1>12, <1>c, OneClientWorks DEF BeginContext, ContextBlocked
  <2> QED BY <1>0, <1>12, <1>a, <2>1 DEF BeginContext, ContextBlocked, EvidenceIsHonest
<1>13. ASSUME NEW c \in Clients, ContextFits(c)
       PROVE  CatalogInv'
  <2> DEFINE w == [client[c] EXCEPT !.fits = Step(c)]
  <2>1. Step(c) \in Nat /\ Step(c) <= limit
    BY <1>13, <1>b DEF ContextFits, Step
  <2>2. w \in ClientWorks /\ IsObserved(w, evidence.tools)
    BY <1>b, <2>1 DEF ClientWorks, IsObserved
  <2>3. client' \in [Clients -> ClientWorks] /\ ClientsAreHonest'
    BY <1>0, <1>13, <2>2, OneClientWorks DEF ContextFits
  <2> QED BY <1>0, <1>13, <1>a, <2>3 DEF ContextFits, EvidenceIsHonest
<1>14. ASSUME NEW c \in Clients, ContextTooLong(c)
       PROVE  CatalogInv'
  <2>1. PICK stated \in Nat :
         known' = [known EXCEPT
            !.upper = Bound(c, stated),
            !.context = IF client[c].fits = 0 THEN @ ELSE client[c].fits,
            !.source = IF client[c].fits = 0 THEN @ ELSE "probed"]
    <3>1. {0, limit, 1} \subseteq Nat
      BY <1>0
    <3> QED BY <1>14, <3>1 DEF ContextTooLong
  <2>2. Bound(c, stated) \in Nat
    BY <1>b DEF Bound, Step
  <2>3. known' \in RouteRecords
    BY <1>0, <1>b, <2>1, <2>2
  <2>3a. evidence' \in Observed /\ evidence'.tools = evidence.tools
    BY <1>0, <1>14, <1>b DEF ContextTooLong
  <2>4. EvidenceIsHonest'
    BY <1>0, <1>14, <1>b, <2>1 DEF ContextTooLong, EvidenceIsHonest
  <2>5. client' \in [Clients -> ClientWorks] /\ ClientsAreHonest'
    BY <1>0, <1>14, <1>c, <2>3a, OneClientWorks DEF ContextTooLong
  <2> QED BY <1>0, <1>14, <1>a, <2>3, <2>3a, <2>4, <2>5 DEF ContextTooLong
<1>15. ASSUME NEW c \in Clients, ContextCeiling(c)
       PROVE  CatalogInv'
  <2>1. known' \in RouteRecords
    BY <1>0, <1>15, <1>b DEF ContextCeiling
  <2>1a. evidence' \in Observed /\ evidence'.tools = evidence.tools
    BY <1>0, <1>15 DEF ContextCeiling
  <2>2. EvidenceIsHonest'
    BY <1>0, <1>15, <1>b DEF ContextCeiling, EvidenceIsHonest
  <2>3. client' \in [Clients -> ClientWorks] /\ ClientsAreHonest'
    BY <1>0, <1>15, <1>c, <2>1a, OneClientWorks DEF ContextCeiling
  <2> QED BY <1>0, <1>15, <1>a, <2>1, <2>1a, <2>2, <2>3 DEF ContextCeiling
<1>16. CASE UNCHANGED catalogVars
  BY <1>0, <1>16, <1>a, ClientsRest DEF catalogVars, EvidenceIsHonest
<1> QED
  BY <1>1, <1>2, <1>3, <1>4, <1>5, <1>6, <1>7, <1>8, <1>10, <1>11, <1>12, <1>13,
     <1>14, <1>15, <1>16
  DEF CatalogNext

\* However probes of a route overlap: its verdict on tools was observed, no bound
\* is forgotten or weakened, and a context that was measured last is one the
\* model takes, and under its label there is otherwise the figure of the catalogue.
THEOREM CatalogHolds == CatalogSpec => []EvidenceIsHonest
<1>1. CatalogInv => EvidenceIsHonest
  BY DEF CatalogInv
<1> QED BY CatalogStarts, CatalogSteps, <1>1, PTL DEF CatalogSpec

-----------------------------------------------------------------------------
(* SideNotes *)

RequestRecords ==
    [does : {"nothing", "firing", "trying", "asking", "sent", "failed", "written",
             "telling", "unbinding", "handing"},
     of : Chats \cup {NoThread}, seen : Nat, cancelled : BOOLEAN, whole : BOOLEAN,
     raced : BOOLEAN]
Recappers ==
    [timer : BOOLEAN, ended : BOOLEAN, inflight : Threads \cup {NoThread}, failures : Nat]
Notes == [of : Chats \cup {NoThread}, seen : Nat, stored : BOOLEAN, raced : BOOLEAN]
Extractors ==
    [due : BOOLEAN, users : Nat, thread : Jobs \cup {NoThread},
     cancel : Jobs \cup {NoThread}, compacted : BOOLEAN]

\* What a thread has read of a chat, or will have told, misses no prompt of it,
\* unless a turn began since it was written.
HasRead(r) == \/ r.does \in {"written", "telling"} /\ ~r.raced
              \/ r.does = "sent" /\ ~r.cancelled
WritersHaveReadAll ==
    \A t \in Threads : HasRead(writer[t]) =>
        /\ writer[t].of \in Chats
        /\ writer[t].seen >= asked[writer[t].of]

\* What waits to be told misses no prompt of its chat, whichever is open.
NoteIsCurrent ==
    ready.of \in Chats /\ ~ready.stored /\ ~ready.raced => ready.seen >= asked[ready.of]

\* Each request that can still fail was made when a failure was left.
CanFail(r) == AsksTheModel(r) \/ r.does = "failed"
MayFail == {t \in Threads : CanFail(writer[t])}
FailuresAreLeft ==
    recapper.failures + Cardinality(MayFail) < MaxFailures + Cardinality(Threads)

\* The half of the recapper: who asks the model is the one in flight.
RecapInv ==
    /\ recapper \in Recappers /\ writer \in [Threads -> RequestRecords]
    /\ ready \in Notes
    /\ chat \in Chats /\ asked \in [Chats -> Nat] /\ turnRunning \in BOOLEAN
    /\ \A t \in Threads : AsksTheModel(writer[t]) => recapper.inflight = t
    /\ NoteIsCurrent /\ WritersHaveReadAll /\ FailuresAreLeft

\* The half of the extractor: who asks the model has the place of the thread, and
\* can be cancelled as long as nobody took that away.
JobInv ==
    /\ extractor \in Extractors /\ drawing \in [Jobs -> RequestRecords]
    /\ \A j \in Jobs :
         /\ AsksTheModel(drawing[j]) => extractor.cancel = j \/ drawing[j].raced
         /\ drawing[j].does \in {"asking", "sent"} => extractor.thread = j

NotesInv == RecapInv /\ JobInv

LEMMA NoRequestType ==
    NoRequest \in RequestRecords /\ NoRequest.does = "nothing" /\ ~NoRequest.cancelled
    /\ NoRequest.seen = 0 /\ ~HasRead(NoRequest) /\ ~CanFail(NoRequest)
    /\ ~AsksTheModel(NoRequest)
  BY DEF NoRequest, RequestRecords, HasRead, CanFail, AsksTheModel

\* The threads that may fail are some of them.
LEMMA MayFailIsFinite ==
    /\ IsFiniteSet(Threads) /\ Cardinality(Threads) \in Nat
    /\ \A S \in SUBSET Threads :
         /\ IsFiniteSet(S) /\ Cardinality(S) \in Nat
         /\ Cardinality(S) <= Cardinality(Threads)
  BY NotesAssumption, FS_CardinalityType, FS_Subset

\* No failure is added, and nobody more can fail.
LEMMA NoMoreFail ==
    ASSUME FailuresAreLeft, recapper \in Recappers, recapper' \in Recappers,
           recapper'.failures <= recapper.failures,
           \A t \in Threads : CanFail(writer'[t]) => CanFail(writer[t])
    PROVE  FailuresAreLeft'
<1>1. MayFail \in SUBSET Threads /\ MayFail' \in SUBSET MayFail
  BY DEF MayFail
<1>2. /\ Cardinality(MayFail) \in Nat /\ Cardinality(MayFail') \in Nat
      /\ Cardinality(MayFail') <= Cardinality(MayFail) /\ Cardinality(Threads) \in Nat
  BY <1>1, MayFailIsFinite, FS_Subset
<1>3. MaxFailures \in Nat /\ recapper.failures \in Nat /\ recapper'.failures \in Nat
  BY NotesAssumption DEF Recappers
<1> HIDE DEF MayFail
<1> QED BY <1>2, <1>3 DEF FailuresAreLeft

\* One asks while there is a failure left, at most all of them.
LEMMA OneMoreMayFail ==
    ASSUME recapper' \in Recappers, recapper'.failures < MaxFailures
    PROVE  FailuresAreLeft'
<1>1. MayFail' \in SUBSET Threads
  BY DEF MayFail
<1>2. /\ Cardinality(MayFail') \in Nat /\ Cardinality(Threads) \in Nat
      /\ Cardinality(MayFail') <= Cardinality(Threads)
  BY <1>1, MayFailIsFinite
<1>3. MaxFailures \in Nat /\ recapper'.failures \in Nat
  BY NotesAssumption DEF Recappers
<1> HIDE DEF MayFail
<1> QED BY <1>2, <1>3 DEF FailuresAreLeft

LEMMA NotesStart == NotesInit => NotesInv
<1> SUFFICES ASSUME NotesInit PROVE NotesInv
  OBVIOUS
<1>1. /\ \A t \in Threads : writer[t] = NoRequest
      /\ \A j \in Jobs : drawing[j] = NoRequest
      /\ writer \in [Threads -> RequestRecords] /\ drawing \in [Jobs -> RequestRecords]
  BY NoRequestType DEF NotesInit
<1>2. /\ recapper \in Recappers /\ recapper.failures = 0 /\ ready.of = NoThread
      /\ ready \in Notes
      /\ chat \in Chats /\ asked \in [Chats -> Nat] /\ turnRunning \in BOOLEAN
  BY DEF NotesInit, NoNote, Recappers, Notes
<1>3. NoteIsCurrent
  BY <1>2, NotesAssumption DEF NoteIsCurrent
<1>4. \A t \in Threads : ~AsksTheModel(writer[t]) /\ ~HasRead(writer[t])
  BY <1>1, NoRequestType
<1>5. FailuresAreLeft
  <2>1. MayFail = {}
    BY <1>1, NoRequestType DEF MayFail
  <2>2. Cardinality(Threads) \in Nat /\ MaxFailures \in Nat \ {0}
    BY MayFailIsFinite, NotesAssumption
  <2> QED BY <1>2, <2>1, <2>2, FS_EmptySet DEF FailuresAreLeft
<1>6. RecapInv
  BY <1>1, <1>2, <1>3, <1>4, <1>5 DEF RecapInv, WritersHaveReadAll
<1>7. JobInv
  BY <1>1, NoRequestType DEF NotesInit, JobInv, Extractors
<1> QED BY <1>6, <1>7 DEF NotesInv

\* A step of one thread that leaves the rest of the recaps as they are.
LEMMA OneWriter ==
    ASSUME RecapInv, NEW t \in Threads, NEW r \in RequestRecords, Writes(t, r),
           UNCHANGED <<chat, asked, turnRunning, ready>>,
           recapper' \in Recappers, recapper'.failures = recapper.failures,
           \A u \in Threads \ {t} : recapper.inflight = u => recapper'.inflight = u,
           AsksTheModel(r) => recapper'.inflight = t,
           CanFail(r) => CanFail(writer[t]) \/ recapper.failures < MaxFailures,
           HasRead(r) => r.of \in Chats /\ r.seen >= asked[r.of]
    PROVE  RecapInv'
<1>1. /\ writer' = [writer EXCEPT ![t] = r] /\ writer \in [Threads -> RequestRecords]
      /\ writer'[t] = r /\ \A u \in Threads \ {t} : writer'[u] = writer[u]
  BY DEF Writes, RecapInv
<1>2. /\ writer' \in [Threads -> RequestRecords] /\ ready' \in Notes
      /\ chat' \in Chats /\ asked' \in [Chats -> Nat] /\ turnRunning' \in BOOLEAN
  BY <1>1 DEF RecapInv
<1>3. \A u \in Threads : AsksTheModel(writer[u]) => recapper.inflight = u
  BY DEF RecapInv
<1>4. \A u \in Threads : AsksTheModel(writer'[u]) => recapper'.inflight = u
  BY <1>1, <1>3
<1>5. NoteIsCurrent'
  BY DEF RecapInv, NoteIsCurrent
<1>6. WritersHaveReadAll'
  BY <1>1 DEF RecapInv, WritersHaveReadAll
<1>7. FailuresAreLeft'
  <2>1. FailuresAreLeft /\ recapper \in Recappers /\ recapper'.failures \in Nat
    BY DEF RecapInv, Recappers
  <2>2. CASE recapper.failures < MaxFailures
    BY <2>1, <2>2, OneMoreMayFail
  <2>3. CASE ~(recapper.failures < MaxFailures)
    <3>1. \A u \in Threads : CanFail(writer'[u]) => CanFail(writer[u])
      BY <1>1, <2>3
    <3> QED BY <2>1, <3>1, NoMoreFail
  <2> QED BY <2>2, <2>3
<1> QED BY <1>2, <1>4, <1>5, <1>6, <1>7 DEF RecapInv

\* _abort: whatever asks the model is cancelled, and nothing else changes.
LEMMA AbortEffect ==
    ASSUME NEW S, NoThread \notin S, NEW requests \in [S -> RequestRecords],
           NEW who \in S \cup {NoThread}
    PROVE  /\ Aborted(requests, who) \in [S -> RequestRecords]
           /\ \A x \in S :
                /\ Aborted(requests, who)[x].does = requests[x].does
                /\ Aborted(requests, who)[x].of = requests[x].of
                /\ Aborted(requests, who)[x].seen = requests[x].seen
                /\ Aborted(requests, who)[x].raced = requests[x].raced
                /\ requests[x].cancelled => Aborted(requests, who)[x].cancelled
                /\ x = who => Aborted(requests, who)[x].cancelled
  BY ZenonT(60) DEF Aborted, RequestRecords

\* A turn that begins outruns what was written and not told.
LEMMA OutrunEffect ==
    ASSUME NEW requests \in [Threads -> RequestRecords]
    PROVE  /\ Outrun(requests) \in [Threads -> RequestRecords]
           /\ \A t \in Threads :
                /\ Outrun(requests)[t].does = requests[t].does
                /\ Outrun(requests)[t].cancelled = requests[t].cancelled
                /\ requests[t].does \in {"written", "telling"} =>
                      Outrun(requests)[t].raced
<1>1. ASSUME NEW t \in Threads
      PROVE  LET r == requests[t]
                 x == r.raced \/ r.does \in {"written", "telling"}
                 n == [r EXCEPT !.raced = x]
             IN  /\ n \in RequestRecords /\ n.does = r.does /\ n.cancelled = r.cancelled
                 /\ n.raced = x
  <2> DEFINE r == requests[t]
  <2>1. r \in RequestRecords
    OBVIOUS
  <2>2. PICK x \in BOOLEAN : x = (r.raced \/ r.does \in {"written", "telling"})
    OBVIOUS
  <2> HIDE DEF r
  <2>3. LET n == [r EXCEPT !.raced = x]
        IN  /\ n \in RequestRecords /\ n.does = r.does /\ n.cancelled = r.cancelled
            /\ n.raced = x
    BY <2>1 DEF RequestRecords
  <2> QED BY <2>2, <2>3 DEF r
<1> QED BY <1>1, Zenon DEF Outrun

\* Whatever asks is stopped.
LEMMA StopsRecaps ==
    ASSUME RecapInv
    PROVE  LET stopped == Aborted(writer, recapper.inflight) IN
           /\ stopped \in [Threads -> RequestRecords]
           /\ \A t \in Threads :
                /\ stopped[t].does = writer[t].does /\ stopped[t].of = writer[t].of
                /\ stopped[t].seen = writer[t].seen /\ stopped[t].raced = writer[t].raced
                /\ ~AsksTheModel(stopped[t])
                /\ CanFail(stopped[t]) => CanFail(writer[t])
                /\ HasRead(stopped[t]) => HasRead(writer[t])
<1> USE NotesAssumption
<1> DEFINE stopped == Aborted(writer, recapper.inflight)
<1>1. /\ writer \in [Threads -> RequestRecords]
      /\ recapper.inflight \in Threads \cup {NoThread}
      /\ \A t \in Threads : AsksTheModel(writer[t]) => recapper.inflight = t
  BY DEF RecapInv, Recappers
<1>2. /\ stopped \in [Threads -> RequestRecords]
      /\ \A t \in Threads :
           /\ stopped[t].does = writer[t].does /\ stopped[t].of = writer[t].of
           /\ stopped[t].seen = writer[t].seen /\ stopped[t].raced = writer[t].raced
           /\ writer[t].cancelled => stopped[t].cancelled
           /\ t = recapper.inflight => stopped[t].cancelled
  BY <1>1, AbortEffect
<1> HIDE DEF stopped
<1>3. ASSUME NEW t \in Threads
      PROVE  /\ ~AsksTheModel(stopped[t])
             /\ CanFail(stopped[t]) => CanFail(writer[t])
             /\ HasRead(stopped[t]) => HasRead(writer[t])
  BY <1>1, <1>2 DEF AsksTheModel, HasRead, CanFail
<1> QED BY <1>2, <1>3 DEF stopped

LEMMA RecapSteps ==
    ASSUME RecapInv, NotesNext
    PROVE  RecapInv'
<1> USE NotesAssumption
<1>0. /\ recapper \in Recappers /\ writer \in [Threads -> RequestRecords]
      /\ ready \in Notes
      /\ chat \in Chats /\ asked \in [Chats -> Nat] /\ turnRunning \in BOOLEAN
      /\ \A t \in Threads : AsksTheModel(writer[t]) => recapper.inflight = t
      /\ NoteIsCurrent /\ WritersHaveReadAll /\ FailuresAreLeft
      /\ recapper.failures \in Nat
  BY DEF RecapInv, Recappers
<1>r. ASSUME NEW r \in RequestRecords, NEW does \in
              {"nothing", "firing", "trying", "asking", "sent", "failed", "written",
               "telling", "unbinding", "handing"}
      PROVE  /\ [r EXCEPT !.does = does] \in RequestRecords
             /\ [r EXCEPT !.does = does].does = does
             /\ [r EXCEPT !.does = does].of = r.of
             /\ [r EXCEPT !.does = does].seen = r.seen
             /\ [r EXCEPT !.does = does].cancelled = r.cancelled
             /\ [r EXCEPT !.does = does].raced = r.raced
  BY <1>r DEF RequestRecords
<1>n. NoNote \in Notes /\ NoNote.of \notin Chats
  BY DEF NoNote, Notes
\* A new recapper with the failures of the old one.
<1>t. ASSUME NEW timer \in BOOLEAN
      PROVE  LET timed == [recapper EXCEPT !.timer = timer]
                 ended == [recapper EXCEPT !.timer = timer, !.inflight = NoThread]
             IN  /\ {timed, ended} \subseteq Recappers
                 /\ timed.inflight = recapper.inflight
                 /\ timed.failures = recapper.failures
                 /\ ended.failures = recapper.failures
  BY <1>0 DEF Recappers
<1>1. CASE StartTurn
  <2> DEFINE stopped == Aborted(writer, recapper.inflight)
  <2>1. /\ writer' = Outrun(stopped)
        /\ recapper' = [recapper EXCEPT !.timer = FALSE, !.inflight = NoThread]
        /\ turnRunning' = TRUE /\ chat' = chat /\ ready' = NoNote
        /\ asked' = [asked EXCEPT ![chat] = @ + 1]
    BY <1>1 DEF StartTurn
  <2>2. recapper' \in Recappers /\ recapper'.failures = recapper.failures
    BY <1>t, <2>1
  <2>3. /\ stopped \in [Threads -> RequestRecords]
        /\ \A t \in Threads : ~AsksTheModel(stopped[t])
                              /\ (CanFail(stopped[t]) => CanFail(writer[t]))
    BY StopsRecaps
  <2> HIDE DEF stopped
  <2>4. /\ writer' \in [Threads -> RequestRecords]
        /\ \A t \in Threads :
             /\ writer'[t].does = stopped[t].does
             /\ writer'[t].cancelled = stopped[t].cancelled
             /\ stopped[t].does \in {"written", "telling"} => writer'[t].raced
    BY <2>1, <2>3, OutrunEffect
  <2>5. \A t \in Threads : /\ ~AsksTheModel(writer'[t]) /\ ~HasRead(writer'[t])
                           /\ CanFail(writer'[t]) => CanFail(writer[t])
    BY <2>3, <2>4 DEF AsksTheModel, HasRead, CanFail
  <2>6. asked' \in [Chats -> Nat] /\ ready' \in Notes
    BY <1>0, <1>n, <2>1
  <2>7. NoteIsCurrent' /\ WritersHaveReadAll'
    BY <1>n, <2>1, <2>5 DEF NoteIsCurrent, WritersHaveReadAll
  <2>8. FailuresAreLeft'
    BY <1>0, <2>2, <2>5, NoMoreFail
  <2> QED BY <1>0, <2>1, <2>2, <2>4, <2>5, <2>6, <2>7, <2>8 DEF RecapInv
<1>2. CASE TurnOver
  <2>1. /\ recapper' = [recapper EXCEPT !.ended = TRUE, !.timer = TRUE, !.failures = 0]
        /\ UNCHANGED <<chat, asked, writer, ready>> /\ turnRunning' = FALSE
    BY <1>2 DEF TurnOver
  <2>2. /\ recapper' \in Recappers
        /\ recapper'.inflight = recapper.inflight /\ recapper'.failures = 0
    BY <1>0, <2>1 DEF Recappers
  <2>3. FailuresAreLeft'
    BY <2>2, OneMoreMayFail
  <2> QED BY <1>0, <2>1, <2>2, <2>3 DEF RecapInv, NoteIsCurrent, WritersHaveReadAll
<1>3. CASE Return
  <2>1. /\ writer' = Aborted(writer, recapper.inflight)
        /\ recapper' = [recapper EXCEPT !.timer = FALSE, !.inflight = NoThread]
        /\ UNCHANGED <<chat, asked, turnRunning, ready>>
    BY <1>3 DEF Return
  <2>2. recapper' \in Recappers /\ recapper'.failures = recapper.failures
    BY <1>t, <2>1
  <2>3. /\ writer' \in [Threads -> RequestRecords]
        /\ \A t \in Threads :
             /\ writer'[t].of = writer[t].of /\ writer'[t].seen = writer[t].seen
             /\ ~AsksTheModel(writer'[t])
             /\ CanFail(writer'[t]) => CanFail(writer[t])
             /\ HasRead(writer'[t]) => HasRead(writer[t])
    BY <2>1, StopsRecaps
  <2>4. FailuresAreLeft'
    BY <1>0, <2>2, <2>3, NoMoreFail
  <2>5. NoteIsCurrent' /\ WritersHaveReadAll'
    BY <1>0, <2>1, <2>3 DEF NoteIsCurrent, WritersHaveReadAll
  <2> QED BY <1>0, <2>1, <2>2, <2>3, <2>4, <2>5 DEF RecapInv
\* Steps that leave the chats and the threads alone.
<1>s. ASSUME UNCHANGED <<chat, asked, turnRunning, writer>>, recapper' \in Recappers,
             recapper'.inflight = recapper.inflight,
             recapper'.failures = recapper.failures,
             ready' = ready \/ ready' = NoNote
      PROVE  RecapInv'
  <2>1. FailuresAreLeft'
    BY <1>0, <1>s, NoMoreFail
  <2>2. NoteIsCurrent' /\ ready' \in Notes
    BY <1>0, <1>n, <1>s DEF NoteIsCurrent
  <2> QED BY <1>0, <1>s, <2>1, <2>2 DEF RecapInv, WritersHaveReadAll
<1>4. CASE Leave
  <2>1. /\ recapper' = [recapper EXCEPT !.timer = Armed(recapper.ended)]
        /\ UNCHANGED <<chat, asked, turnRunning, writer, ready>>
    BY <1>4 DEF Leave
  <2>2. Armed(recapper.ended) \in BOOLEAN
    BY DEF Armed
  <2> QED BY <1>t, <1>s, <2>1, <2>2
<1>5. ASSUME NEW t \in Threads, TimerFires(t)
      PROVE  RecapInv'
  <2> DEFINE r == [NoRequest EXCEPT !.does = "firing"]
  <2>1. Writes(t, r) /\ UNCHANGED <<chat, asked, turnRunning, ready, recapper>>
    BY <1>5 DEF TimerFires, OtherWriters
  <2>2. r \in RequestRecords /\ r.does = "firing"
    BY <1>r, NoRequestType
  <2> HIDE DEF r
  <2>3. ~AsksTheModel(r) /\ ~CanFail(r) /\ ~HasRead(r)
    BY <2>2 DEF AsksTheModel, CanFail, HasRead
  <2> QED BY <1>0, <2>1, <2>2, <2>3, OneWriter
<1>6. ASSUME NEW t \in Threads, Fire(t)
      PROVE  RecapInv'
  <2> DEFINE r == [writer[t] EXCEPT !.does = "trying"]
  <2>1. /\ UNCHANGED <<chat, asked, turnRunning, ready>>
        /\ recapper' = [recapper EXCEPT !.timer = FALSE]
        /\ Writes(t, NoRequest) \/ Writes(t, r)
    BY <1>6 DEF Fire, OtherWriters
  <2>2. /\ recapper' \in Recappers /\ recapper'.inflight = recapper.inflight
        /\ recapper'.failures = recapper.failures
    BY <1>t, <2>1
  <2>3. r \in RequestRecords /\ r.does = "trying"
    <3>1. writer[t] \in RequestRecords
      BY <1>0
    <3> QED BY <3>1 DEF RequestRecords
  <2> HIDE DEF r
  <2>4. ~AsksTheModel(r) /\ ~CanFail(r) /\ ~HasRead(r)
    BY <2>3 DEF AsksTheModel, CanFail, HasRead
  <2>5. CASE Writes(t, NoRequest)
    BY <2>1, <2>2, <2>5, NoRequestType, OneWriter
  <2>6. CASE Writes(t, r)
    BY <2>1, <2>2, <2>3, <2>4, <2>6, OneWriter
  <2> QED BY <2>1, <2>5, <2>6
<1>7. ASSUME NEW t \in Threads, TryToWrite(t)
      PROVE  RecapInv'
  <2>0. UNCHANGED <<chat, asked, turnRunning, ready>>
    BY <1>7 DEF TryToWrite, OtherWriters
  <2>1. CASE Writes(t, NoRequest) /\ UNCHANGED recapper
    BY <1>0, <2>0, <2>1, NoRequestType, OneWriter
  <2>2. CASE /\ recapper.inflight = NoThread /\ recapper.failures < MaxFailures
             /\ recapper' = [recapper EXCEPT !.inflight = t]
             /\ Writes(t, [writer[t] EXCEPT !.does = "asking"])
    <3>1. /\ recapper' \in Recappers
          /\ recapper'.inflight = t /\ recapper'.failures = recapper.failures
      BY <1>0, <2>2 DEF Recappers
    <3>2. \A u \in Threads \ {t} : recapper.inflight # u
      BY <2>2
    <3> DEFINE r == [writer[t] EXCEPT !.does = "asking"]
    <3>3. r \in RequestRecords /\ r.does = "asking" /\ Writes(t, r)
      BY <1>0, <1>r, <2>2
    <3> HIDE DEF r
    <3>4. ~HasRead(r)
      BY <3>3 DEF HasRead
    <3> QED BY <2>0, <2>2, <3>1, <3>2, <3>3, <3>4, OneWriter
  <2> QED BY <1>7, <2>1, <2>2 DEF TryToWrite
<1>8. ASSUME NEW t \in Threads, Reread(t)
      PROVE  RecapInv'
  <2> DEFINE r == [writer[t] EXCEPT !.does = "sent", !.of = chat, !.seen = asked[chat]]
  <2>1. /\ Writes(t, r) /\ UNCHANGED <<chat, asked, turnRunning, ready, recapper>>
        /\ writer[t].does = "asking"
    BY <1>8 DEF Reread, OtherWriters
  <2>2. /\ r \in RequestRecords /\ r.does = "sent" /\ r.of = chat
        /\ r.seen = asked[chat] /\ r.cancelled = writer[t].cancelled
    <3>1. asked[chat] \in Nat /\ writer[t] \in RequestRecords
      BY <1>0
    <3> QED BY <1>0, <3>1 DEF RequestRecords
  <2> HIDE DEF r
  <2>3. /\ AsksTheModel(r) => AsksTheModel(writer[t])
        /\ CanFail(r) => CanFail(writer[t])
    BY <2>1, <2>2 DEF AsksTheModel, CanFail
  <2>4. asked[chat] \in Nat
    BY <1>0
  <2> QED BY <1>0, <2>1, <2>2, <2>3, <2>4, OneWriter
<1>9. ASSUME NEW t \in Threads, Answered(t)
      PROVE  RecapInv'
  <2>1. /\ UNCHANGED <<chat, asked, turnRunning, ready>>
        /\ recapper' = [recapper EXCEPT !.inflight = Unregistered(t)]
        /\ writer[t].does = "sent"
        /\ \/ Writes(t, NoRequest)
           \/ /\ ~writer[t].cancelled
              /\ \E end \in {"written", "failed"} :
                    Writes(t, [writer[t] EXCEPT !.does = end])
    BY <1>9 DEF Answered, OtherWriters
  <2>2. /\ recapper' \in Recappers /\ recapper'.failures = recapper.failures
        /\ \A u \in Threads \ {t} : recapper.inflight = u => recapper'.inflight = u
    BY <1>0, <2>1 DEF Unregistered, Recappers
  <2>3. CASE Writes(t, NoRequest)
    BY <2>1, <2>2, <2>3, NoRequestType, OneWriter
  <2>4. ASSUME ~writer[t].cancelled, NEW end \in {"written", "failed"},
               Writes(t, [writer[t] EXCEPT !.does = end])
        PROVE  RecapInv'
    <3> DEFINE r == [writer[t] EXCEPT !.does = end]
    <3>1. /\ r \in RequestRecords /\ r.does = end /\ r.of = writer[t].of
          /\ r.seen = writer[t].seen
      <4>1. writer[t] \in RequestRecords
        BY <1>0
      <4> QED BY <4>1 DEF RequestRecords
    <3>2. Writes(t, r)
      BY <2>4
    <3> HIDE DEF r
    <3>3. CanFail(writer[t]) /\ HasRead(writer[t]) /\ ~AsksTheModel(r)
      BY <2>1, <2>4, <3>1 DEF AsksTheModel, HasRead, CanFail
    <3>4. HasRead(r) => r.of \in Chats /\ r.seen >= asked[r.of]
      BY <1>0, <3>1, <3>3 DEF WritersHaveReadAll
    <3> QED BY <2>1, <2>2, <3>1, <3>2, <3>3, <3>4, OneWriter
  <2> QED BY <2>1, <2>3, <2>4
<1>10. ASSUME NEW t \in Threads, CountFailure(t)
       PROVE  RecapInv'
  <2>1. /\ UNCHANGED <<chat, asked, turnRunning, ready>> /\ writer[t].does = "failed"
        /\ recapper' = [recapper EXCEPT !.failures = @ + 1]
        /\ writer' = [writer EXCEPT ![t] = NoRequest]
    BY <1>10 DEF CountFailure, OtherWriters, Writes
  <2>2. /\ recapper' \in Recappers /\ recapper'.inflight = recapper.inflight
        /\ recapper'.failures = recapper.failures + 1
    BY <1>0, <2>1 DEF Recappers
  <2>3. /\ writer' \in [Threads -> RequestRecords] /\ writer'[t] = NoRequest
        /\ \A u \in Threads \ {t} : writer'[u] = writer[u]
    BY <1>0, <2>1, NoRequestType
  <2>4. FailuresAreLeft'
    <3>1. t \in MayFail /\ MayFail \in SUBSET Threads
      BY <2>1 DEF MayFail, CanFail
    <3>2. MayFail' = MayFail \ {t}
      BY <2>3, NoRequestType DEF MayFail
    <3> HIDE DEF MayFail
    <3>3. IsFiniteSet(MayFail) /\ Cardinality(MayFail) \in Nat /\ Cardinality(Threads) \in Nat
      BY <3>1, MayFailIsFinite
    <3>4. Cardinality(MayFail') = Cardinality(MayFail) - 1
      BY <3>1, <3>2, <3>3, FS_RemoveElement
    <3> QED BY <1>0, <2>2, <3>3, <3>4 DEF FailuresAreLeft
  <2>5. NoteIsCurrent' /\ WritersHaveReadAll'
    BY <1>0, <2>1, <2>3, NoRequestType DEF NoteIsCurrent, WritersHaveReadAll
  <2>6. (\A u \in Threads : AsksTheModel(writer[u]) => recapper.inflight = u)'
    BY <1>0, <2>2, <2>3, NoRequestType
  <2> QED BY <1>0, <2>1, <2>2, <2>3, <2>4, <2>5, <2>6 DEF RecapInv
<1>11. ASSUME NEW t \in Threads, LookAtTurn(t)
       PROVE  RecapInv'
  <2> DEFINE r == [writer[t] EXCEPT !.does = "telling"]
  <2>1. /\ UNCHANGED <<chat, asked, turnRunning, ready, recapper>>
        /\ writer[t].does = "written"
        /\ Writes(t, NoRequest) \/ Writes(t, r)
    BY <1>11 DEF LookAtTurn, OtherWriters
  <2>2. CASE Writes(t, NoRequest)
    BY <1>0, <2>1, <2>2, NoRequestType, OneWriter
  <2>3. CASE Writes(t, r)
    <3>1. /\ r \in RequestRecords /\ r.does = "telling" /\ r.of = writer[t].of
          /\ r.seen = writer[t].seen /\ r.raced = writer[t].raced
      BY <1>0, <1>r
    <3> HIDE DEF r
    <3>2. ~AsksTheModel(r) /\ ~CanFail(r)
      BY <3>1 DEF AsksTheModel, CanFail
    <3>3. HasRead(r) => HasRead(writer[t])
      BY <2>1, <3>1 DEF HasRead
    <3>4. HasRead(r) => r.of \in Chats /\ r.seen >= asked[r.of]
      BY <1>0, <3>1, <3>3 DEF WritersHaveReadAll
    <3> QED BY <1>0, <2>1, <2>3, <3>1, <3>2, <3>4, OneWriter
  <2> QED BY <2>1, <2>2, <2>3
<1>12. ASSUME NEW t \in Threads, Deliver(t)
       PROVE  RecapInv'
  <2> DEFINE n == [of |-> writer[t].of, seen |-> writer[t].seen, stored |-> FALSE,
                   raced |-> writer[t].raced]
  <2>1. /\ UNCHANGED <<chat, asked, turnRunning, recapper>>
        /\ writer[t].does = "telling" /\ ready' = n
        /\ writer' = [writer EXCEPT ![t] = NoRequest]
    BY <1>12 DEF Deliver, OtherWriters, Writes
  <2>2. /\ n \in Notes /\ n.of = writer[t].of /\ n.seen = writer[t].seen
        /\ n.raced = writer[t].raced
    <3>1. writer[t] \in RequestRecords
      BY <1>0
    <3> QED BY <3>1 DEF RequestRecords, Notes
  <2> HIDE DEF n
  <2>3. /\ writer' \in [Threads -> RequestRecords] /\ writer'[t] = NoRequest
        /\ \A u \in Threads \ {t} : writer'[u] = writer[u]
    BY <1>0, <2>1, NoRequestType
  <2>4. NoteIsCurrent'
    <3>1. ~n.raced => HasRead(writer[t])
      BY <2>1, <2>2 DEF HasRead
    <3> QED BY <1>0, <2>1, <2>2, <3>1 DEF WritersHaveReadAll, NoteIsCurrent
  <2>5. WritersHaveReadAll'
    BY <1>0, <2>1, <2>3, NoRequestType DEF WritersHaveReadAll
  <2>6. FailuresAreLeft'
    <3>1. \A u \in Threads : CanFail(writer'[u]) => CanFail(writer[u])
      BY <2>3, NoRequestType
    <3> QED BY <1>0, <2>1, <3>1, NoMoreFail
  <2>7. (\A u \in Threads : AsksTheModel(writer[u]) => recapper.inflight = u)'
    BY <1>0, <2>1, <2>3, NoRequestType
  <2> QED BY <1>0, <2>1, <2>2, <2>3, <2>4, <2>5, <2>6, <2>7 DEF RecapInv
<1>13. CASE TakeRecap \/ RecapNow
  BY <1>0, <1>s, <1>13 DEF TakeRecap, RecapNow
<1>14. CASE ClearChat
  <2>1. /\ asked' = [asked EXCEPT ![chat] = 0]
        /\ UNCHANGED <<chat, turnRunning, recapper, writer, ready>>
    BY <1>14 DEF ClearChat
  <2>2. asked' \in [Chats -> Nat] /\ \A c \in Chats : asked'[c] <= asked[c]
    BY <1>0, <2>1
  <2>3. /\ \A t \in Threads : writer[t] \in RequestRecords /\ writer[t].seen \in Nat
        /\ ready.seen \in Nat
    BY <1>0 DEF RequestRecords, Notes
  <2>4. NoteIsCurrent' /\ WritersHaveReadAll'
    BY <1>0, <2>1, <2>2, <2>3 DEF NoteIsCurrent, WritersHaveReadAll
  <2>5. FailuresAreLeft'
    BY <1>0, <2>1, NoMoreFail
  <2> QED BY <1>0, <2>1, <2>2, <2>4, <2>5 DEF RecapInv
<1>15. ASSUME NEW c \in Chats, SwitchChat(c)
       PROVE  RecapInv'
  <2>1. chat' = c /\ UNCHANGED <<asked, turnRunning, recapper>>
    BY <1>15 DEF SwitchChat
  <2>2. ready' \in Notes /\ (ready' = ready \/ ready'.stored)
    <3>1. CASE ready' = ready
      BY <1>0, <3>1
    <3>2. CASE ready' = [NoNote EXCEPT !.of = c, !.seen = asked[c], !.stored = TRUE]
      <4>1. asked[c] \in Nat
        BY <1>0
      <4> QED BY <3>2, <4>1 DEF NoNote, Notes
    <3> QED BY <1>15, <3>1, <3>2 DEF SwitchChat
  <2>3. NoteIsCurrent'
    BY <1>0, <2>1, <2>2 DEF NoteIsCurrent
  <2>4. /\ writer' \in [Threads -> RequestRecords]
        /\ \A u \in Threads :
             \/ writer'[u] = writer[u]
             \/ ~AsksTheModel(writer'[u]) /\ ~HasRead(writer'[u]) /\ ~CanFail(writer'[u])
    <3>1. CASE UNCHANGED writer
      BY <1>0, <3>1
    <3>2. ASSUME NEW t \in Threads, Writes(t, [NoRequest EXCEPT !.does = "trying"])
          PROVE  /\ writer' \in [Threads -> RequestRecords]
                 /\ \A u \in Threads :
                      \/ writer'[u] = writer[u]
                      \/ ~AsksTheModel(writer'[u]) /\ ~HasRead(writer'[u])
                         /\ ~CanFail(writer'[u])
      <4> DEFINE r == [NoRequest EXCEPT !.does = "trying"]
      <4>1. r \in RequestRecords /\ r.does = "trying"
        BY <1>r, NoRequestType
      <4>2. writer' = [writer EXCEPT ![t] = r]
        BY <3>2 DEF Writes
      <4> HIDE DEF r
      <4>3. ~AsksTheModel(r) /\ ~HasRead(r) /\ ~CanFail(r)
        BY <4>1 DEF AsksTheModel, HasRead, CanFail
      <4>4. writer'[t] = r /\ \A u \in Threads \ {t} : writer'[u] = writer[u]
        BY <1>0, <4>2
      <4>5. writer' \in [Threads -> RequestRecords]
        BY <1>0, <4>1, <4>2
      <4> QED BY <4>3, <4>4, <4>5
    <3> QED BY <1>15, <3>1, <3>2 DEF SwitchChat
  <2>5. FailuresAreLeft'
    BY <1>0, <2>1, <2>4, NoMoreFail
  <2> QED BY <1>0, <2>1, <2>2, <2>3, <2>4, <2>5 DEF RecapInv, WritersHaveReadAll
<1>16. CASE \/ KeepFound \/ CaptureNow
            \/ \E j \in Jobs : StartJob(j) \/ ReadChat(j) \/ JobEnds(j) \/ Unbind(j)
                               \/ HandOver(j)
  BY <1>0, <1>s, <1>16
  DEF KeepFound, CaptureNow, StartJob, ReadChat, JobEnds, Unbind, HandOver, OtherJobs,
      recapVars
<1> QED
  BY <1>1, <1>2, <1>3, <1>4, <1>5, <1>6, <1>7, <1>8, <1>9, <1>10, <1>11, <1>12, <1>13,
     <1>14, <1>15, <1>16
  DEF NotesNext

LEMMA JobSteps ==
    ASSUME JobInv, chat \in Chats, asked \in [Chats -> Nat], NotesNext
    PROVE  JobInv'
<1> USE NotesAssumption
<1>0. /\ extractor \in Extractors /\ drawing \in [Jobs -> RequestRecords]
      /\ \A j \in Jobs :
           /\ AsksTheModel(drawing[j]) => extractor.cancel = j \/ drawing[j].raced
           /\ drawing[j].does \in {"asking", "sent"} => extractor.thread = j
  BY DEF JobInv
<1>c. chat \in Chats /\ asked[chat] \in Nat
  OBVIOUS
<1>s. ASSUME extractor' \in Extractors, drawing' = drawing,
             extractor'.thread = extractor.thread, extractor'.cancel = extractor.cancel
      PROVE  JobInv'
  BY <1>0, <1>s DEF JobInv
<1>1. CASE StartTurn
  <2>1. /\ drawing' = Aborted(drawing, extractor.cancel)
        /\ extractor' = [extractor EXCEPT !.due = FALSE]
    BY <1>1 DEF StartTurn
  <2>2. /\ extractor' \in Extractors /\ extractor'.thread = extractor.thread
        /\ extractor'.cancel = extractor.cancel
        /\ extractor.cancel \in Jobs \cup {NoThread}
    BY <1>0, <2>1 DEF Extractors
  <2>3. /\ drawing' \in [Jobs -> RequestRecords]
        /\ \A j \in Jobs : /\ drawing'[j].does = drawing[j].does
                           /\ drawing'[j].raced = drawing[j].raced
                           /\ drawing[j].cancelled => drawing'[j].cancelled
    BY <1>0, <2>1, <2>2, AbortEffect
  <2> QED BY <1>0, <2>2, <2>3 DEF JobInv, AsksTheModel
<1>2. CASE TurnOver
  <2>1. PICK compacts \in BOOLEAN :
           extractor' = [extractor EXCEPT !.due = TRUE, !.compacted = @ \/ compacts]
    BY <1>2 DEF TurnOver
  <2>2. PICK b \in BOOLEAN : b = (extractor.compacted \/ compacts)
    OBVIOUS
  <2>3. extractor' = [extractor EXCEPT !.due = TRUE, !.compacted = b]
    BY <2>1, <2>2
  <2>4. /\ extractor' \in Extractors /\ extractor'.thread = extractor.thread
        /\ extractor'.cancel = extractor.cancel
    BY <1>0, <2>3 DEF Extractors
  <2> QED BY <1>2, <1>s, <2>4 DEF TurnOver
<1>3. CASE ClearChat
  <2>1. extractor' = [extractor EXCEPT !.compacted = FALSE] /\ drawing' = drawing
    BY <1>3 DEF ClearChat
  <2>2. /\ extractor' \in Extractors /\ extractor'.thread = extractor.thread
        /\ extractor'.cancel = extractor.cancel
    BY <1>0, <2>1 DEF Extractors
  <2> QED BY <1>s, <2>1, <2>2
<1>4. ASSUME UNCHANGED <<extractor, drawing>>
      PROVE  JobInv'
  BY <1>0, <1>4, <1>s
<1>5. CASE \/ Return \/ Leave \/ TakeRecap \/ RecapNow \/ KeepFound \/ CaptureNow
           \/ \E c \in Chats : SwitchChat(c)
           \/ \E t \in Threads :
                \/ TimerFires(t) \/ Fire(t) \/ TryToWrite(t) \/ Reread(t)
                \/ Answered(t) \/ CountFailure(t) \/ LookAtTurn(t) \/ Deliver(t)
  BY <1>4, <1>5
  DEF Return, Leave, TakeRecap, RecapNow, KeepFound, CaptureNow, SwitchChat, TimerFires,
      Fire, TryToWrite, Reread, Answered, CountFailure, LookAtTurn, Deliver,
      OtherWriters, memoryVars
<1>o. ASSUME NEW j \in Jobs, NEW r \in RequestRecords, drawing' = [drawing EXCEPT ![j] = r]
      PROVE  /\ drawing' \in [Jobs -> RequestRecords] /\ drawing'[j] = r
             /\ \A k \in Jobs \ {j} : drawing'[k] = drawing[k]
  BY <1>0, <1>o
<1>6. ASSUME NEW j \in Jobs, StartJob(j)
      PROVE  JobInv'
  <2> DEFINE r == [NoRequest EXCEPT !.does = "asking"]
  <2>1. /\ drawing' = [drawing EXCEPT ![j] = r] /\ extractor.thread = NoThread
        /\ extractor' = [due |-> FALSE, users |-> asked[chat], thread |-> j,
                         cancel |-> j, compacted |-> FALSE]
    BY <1>6 DEF StartJob, WorthExtracting
  <2>2. r \in RequestRecords
    BY NoRequestType DEF RequestRecords
  <2> HIDE DEF r
  <2>3. /\ drawing' \in [Jobs -> RequestRecords]
        /\ \A k \in Jobs \ {j} : drawing'[k] = drawing[k]
    BY <1>o, <2>1, <2>2
  <2>4. extractor' \in Extractors /\ extractor'.thread = j /\ extractor'.cancel = j
    BY <1>c, <2>1 DEF Extractors
  <2>5. \A k \in Jobs : drawing[k].does \notin {"asking", "sent"}
    BY <1>0, <2>1
  <2> QED BY <2>3, <2>4, <2>5 DEF JobInv, AsksTheModel
<1>7. ASSUME NEW j \in Jobs, ReadChat(j)
      PROVE  JobInv'
  <2>1. /\ drawing[j].does = "asking" /\ extractor' = extractor
        /\ drawing' = [drawing EXCEPT ![j].does = "sent", ![j].of = chat, ![j].seen = asked[chat]]
    BY <1>7 DEF ReadChat
  <2>2. /\ drawing' \in [Jobs -> RequestRecords] /\ drawing'[j].does = "sent"
        /\ drawing'[j].cancelled = drawing[j].cancelled
        /\ drawing'[j].raced = drawing[j].raced
        /\ \A k \in Jobs \ {j} : drawing'[k] = drawing[k]
    <3>1. drawing[j] \in RequestRecords
      BY <1>0
    <3> DEFINE r == [drawing[j] EXCEPT !.does = "sent", !.of = chat, !.seen = asked[chat]]
    <3>2. r \in RequestRecords /\ r.does = "sent" /\ r.cancelled = drawing[j].cancelled
          /\ r.raced = drawing[j].raced
      BY <1>c, <3>1 DEF RequestRecords
    <3>3. drawing' = [drawing EXCEPT ![j] = r]
      BY <1>0, <2>1
    <3> HIDE DEF r
    <3> QED BY <1>o, <3>2, <3>3
  <2> QED BY <1>0, <2>1, <2>2 DEF JobInv, AsksTheModel
<1>8. ASSUME NEW j \in Jobs, JobEnds(j)
      PROVE  JobInv'
  <2>1. /\ drawing[j].does = "sent" /\ extractor' = [extractor EXCEPT !.thread = NoThread]
    BY <1>8 DEF JobEnds
  <2>2. PICK answers \in BOOLEAN :
           drawing' = [drawing EXCEPT ![j].does = "unbinding",
                              ![j].whole = answers /\ ~drawing[j].cancelled]
    BY <1>8 DEF JobEnds
  <2>3. PICK b \in BOOLEAN : b = (answers /\ ~drawing[j].cancelled)
    OBVIOUS
  <2>4. drawing' = [drawing EXCEPT ![j].does = "unbinding", ![j].whole = b]
    BY <2>2, <2>3
  <2>5. /\ drawing' \in [Jobs -> RequestRecords] /\ drawing'[j].does = "unbinding"
        /\ \A k \in Jobs \ {j} : drawing'[k] = drawing[k]
    <3>1. drawing[j] \in RequestRecords
      BY <1>0
    <3> DEFINE r == [drawing[j] EXCEPT !.does = "unbinding", !.whole = b]
    <3>2. r \in RequestRecords /\ r.does = "unbinding"
      BY <3>1 DEF RequestRecords
    <3>3. drawing' = [drawing EXCEPT ![j] = r]
      BY <1>0, <2>4
    <3> HIDE DEF r
    <3> QED BY <1>o, <3>2, <3>3
  <2>6. extractor' \in Extractors /\ extractor'.cancel = extractor.cancel
    BY <1>0, <2>1 DEF Extractors
  <2>7. \A k \in Jobs \ {j} : drawing[k].does \notin {"asking", "sent"}
    BY <1>0, <2>1
  <2> QED BY <1>0, <2>5, <2>6, <2>7 DEF JobInv, AsksTheModel
<1>9. ASSUME NEW j \in Jobs, Unbind(j)
      PROVE  JobInv'
  <2>1. /\ drawing[j].does = "unbinding" /\ drawing[j] \in RequestRecords
        /\ extractor' = [extractor EXCEPT !.cancel = NoThread]
    BY <1>0, <1>9 DEF Unbind
  <2>2. PICK r \in RequestRecords :
           /\ r.does \in {"handing", "nothing"}
           /\ drawing' = [k \in Jobs |->
                 IF k = j THEN r
                 ELSE IF k = extractor.cancel THEN [drawing[k] EXCEPT !.raced = TRUE]
                 ELSE drawing[k]]
    <3>1. /\ [drawing[j] EXCEPT !.does = "handing"] \in RequestRecords
          /\ [drawing[j] EXCEPT !.does = "handing"].does = "handing"
      BY <2>1 DEF RequestRecords
    <3>2. CASE drawing[j].whole
      BY <1>9, <3>1, <3>2 DEF Unbind
    <3>3. CASE ~drawing[j].whole
      BY <1>9, <3>3, NoRequestType DEF Unbind
    <3> QED BY <3>2, <3>3
  <2>3. ASSUME NEW k \in Jobs \ {j}
        PROVE  /\ drawing'[k] \in RequestRecords
               /\ drawing'[k].does = drawing[k].does
               /\ drawing'[k].cancelled = drawing[k].cancelled
               /\ drawing[k].raced \/ k = extractor.cancel => drawing'[k].raced
    <3>1. drawing[k] \in RequestRecords
      BY <1>0
    <3>2. CASE k = extractor.cancel
      <4>1. drawing'[k] = [drawing[k] EXCEPT !.raced = TRUE]
        BY <2>2, <2>3, <3>2
      <4> QED BY <3>1, <4>1 DEF RequestRecords
    <3>3. CASE k # extractor.cancel
      BY <2>2, <2>3, <3>1, <3>3
    <3> QED BY <3>2, <3>3
  <2>4. drawing'[j] = r /\ drawing' \in [Jobs -> RequestRecords]
    <3>1. \A k \in Jobs : drawing'[k] \in RequestRecords
      BY <2>2, <2>3
    <3>2. DOMAIN drawing' = Jobs /\ drawing' = [k \in Jobs |-> drawing'[k]]
      BY <2>2
    <3> QED BY <2>2, <3>1, <3>2
  <2>5. extractor' \in Extractors /\ extractor'.thread = extractor.thread
    BY <1>0, <2>1 DEF Extractors
  <2> QED BY <1>0, <2>2, <2>3, <2>4, <2>5 DEF JobInv, AsksTheModel
<1>10. ASSUME NEW j \in Jobs, HandOver(j)
       PROVE  JobInv'
  <2>1. extractor' = extractor /\ drawing' = [drawing EXCEPT ![j] = NoRequest]
    BY <1>10 DEF HandOver
  <2>2. /\ drawing' \in [Jobs -> RequestRecords] /\ drawing'[j].does = "nothing"
        /\ \A k \in Jobs \ {j} : drawing'[k] = drawing[k]
    BY <1>o, <2>1, NoRequestType
  <2> QED BY <1>0, <2>1, <2>2 DEF JobInv, AsksTheModel
<1> QED
  BY <1>1, <1>2, <1>3, <1>5, <1>6, <1>7, <1>8, <1>9, <1>10 DEF NotesNext

\* Whichever threads run between an answer and its effect: a recap tells of every
\* prompt of the conversation it is shown in unless a turn began while it was on
\* its way, failures stay within the limit and one for each thread, one job asks
\* at a time, and what asks can be stopped unless its handle was cleared.
THEOREM NotesHold == NotesSpec => []NotesAreCurrent
<1>1. NotesInit => NotesInv
  BY NotesStart
<1>2. NotesInv /\ [NotesNext]_notesVars => NotesInv'
  <2> SUFFICES ASSUME NotesInv, [NotesNext]_notesVars PROVE NotesInv'
    OBVIOUS
  <2>1. RecapInv /\ JobInv /\ chat \in Chats /\ asked \in [Chats -> Nat]
    BY DEF NotesInv, RecapInv
  <2>2. CASE NotesNext
    <3>1. RecapInv' /\ JobInv'
      BY <2>1, <2>2, RecapSteps, JobSteps
    <3> QED BY <3>1 DEF NotesInv
  <2>3. CASE UNCHANGED notesVars
    <3>1. RecapInv'
      BY <2>1, <2>3
      DEF notesVars, RecapInv, NoteIsCurrent, WritersHaveReadAll, FailuresAreLeft, MayFail
    <3>2. JobInv'
      BY <2>1, <2>3 DEF notesVars, JobInv
    <3> QED BY <3>1, <3>2 DEF NotesInv
  <2> QED BY <2>2, <2>3
<1>3. NotesInv => NotesAreCurrent
  <2> SUFFICES ASSUME NotesInv PROVE NotesAreCurrent
    OBVIOUS
  <2>1. RecapInv /\ JobInv
    BY DEF NotesInv
  <2>2. RequestsCanBeStopped
    <3>1. \A j, k \in Jobs :
             {drawing[j].does, drawing[k].does} \subseteq {"asking", "sent"} => j = k
      BY <2>1 DEF JobInv
    <3> QED BY <2>1, <3>1 DEF RecapInv, JobInv, RequestsCanBeStopped
  <2>3. RecapIsCurrent
    BY <2>1 DEF RecapInv, NoteIsCurrent, RecapIsCurrent
  <2>4. FailuresAreLimited
    <3>1. MayFail \in SUBSET Threads
      BY DEF MayFail
    <3>2. /\ Cardinality(MayFail) \in Nat /\ Cardinality(Threads) \in Nat
          /\ MaxFailures \in Nat /\ recapper.failures \in Nat
      BY <2>1, <3>1, MayFailIsFinite, NotesAssumption DEF RecapInv, Recappers
    <3> HIDE DEF MayFail
    <3> QED BY <2>1, <3>2 DEF RecapInv, FailuresAreLeft, FailuresAreLimited
  <2> QED BY <2>2, <2>3, <2>4 DEF NotesAreCurrent
<1> QED BY <1>1, <1>2, <1>3, PTL DEF NotesSpec

-----------------------------------------------------------------------------
(* ArchitectureMap *)

Stages == {"idle", "map", "own map", "snapshot", "open", "unlink", "write", "enter",
           "summaries", "answered", "synthesis", "verify", "replace", "pointer",
           "leave", "dead"}
Numbered == {"own map", "snapshot", "open", "unlink", "write", "enter", "summaries",
             "answered", "synthesis", "verify", "replace", "pointer", "leave"}
FileRecords == [text : Texts \cup {NoFile}, stamp : Nat]
FileMaps == UNION {[S -> FileRecords] : S \in SUBSET SourceFiles}
NoteMaps == UNION {[S -> SUBSET Nat] : S \in SUBSET Slugs}
\* What a map gives of any path, those it has not included.
GivenTexts == {f[p].text : f \in FileMaps, p \in SourceFiles \cup {NoFile}}
Items == [path : SourceFiles \cup {NoFile}, text : GivenTexts]
BuildRecords ==
    [at : Stages, build : Nat, retried : BOOLEAN, planned : FileMaps, files : FileMaps,
     known : SUBSET Items, from : Nat, notes : NoteMaps, left : SUBSET SourceFiles,
     asked : SourceFiles \cup {NoFile}, nodes : SUBSET Slugs]
Generations == [of : Nat, files : FileMaps, nodes : SUBSET Slugs, notes : NoteMaps]
HandNotes == [note : Nat, slug : Slugs, gen : Nat, late : BOOLEAN]
Tallies == [writes : Nat, builds : Nat, overlap : BOOLEAN, stolen : BOOLEAN]

ArchitectureTypeOK ==
    /\ sources \in [SourceFiles -> FileRecords]
    /\ cached \in SUBSET Items
    /\ paid \in [SourceFiles \X Texts -> Nat]
    /\ generations \in Seq(Generations)
    /\ \A g \in 1..Len(generations) :
          generations[g].notes \in [generations[g].nodes -> SUBSET Nat]
    /\ pointer \in 0..Len(generations)
    /\ builder \in [Builders -> BuildRecords]
    /\ written \in SUBSET HandNotes /\ IsFiniteSet(written)
    /\ tally \in Tallies

\* A note is in what a builder has read of the notes, unless its node is gone.
IsCarried(r) ==
    \A w \in written :
        \/ w.late
        \/ \E g \in w.gen..pointer : w.slug \notin generations[g].nodes
        \/ w.slug \in DOMAIN r.notes /\ w.note \in r.notes[w.slug]

ItemOf(r, p) == [path |-> p, text |-> r.files[p].text]

\* What a build relies on while it is the only one under the lock.
IsSoundBuild(r) ==
    /\ r.at \in {"summaries", "answered"} =>
          r.known = cached /\ r.left \subseteq DOMAIN r.files
    /\ r.at = "answered" => r.asked \in r.left /\ ItemOf(r, r.asked) \notin r.known
    /\ r.at \in Numbered => r.build \in 1..tally.builds
    /\ r.at \in Numbered \ {"pointer", "leave"} =>
          \A g \in 1..Len(generations) : generations[g].of # r.build
    /\ r.at \in {"summaries", "answered", "verify", "replace", "pointer"} =>
          r.from = pointer
    /\ r.at \in {"replace", "pointer"} => IsCarried(r)
    /\ r.at = "pointer" =>
          /\ pointer < Len(generations)
          /\ \A g \in 1..Len(generations) :
                generations[g].of = r.build => g = Len(generations)
          /\ generations[Len(generations)].nodes = r.nodes
          /\ \A s \in r.nodes : s \in DOMAIN r.notes =>
                generations[Len(generations)].notes[s] = r.notes[s]

\* One builder under the lock, and no two builds of one number.
BuildersAreApart ==
    \A b, c \in Builders : b # c =>
        /\ ~(builder[b].at \in Under /\ builder[c].at \in Under)
        /\ builder[b].at \in Numbered /\ builder[c].at \in Numbered =>
              builder[b].build # builder[c].build

\* An answer is paid for once, and then the cache has it.
AnswersAreCached ==
    \A p \in SourceFiles, t \in Texts :
        /\ paid[<<p, t>>] <= 1
        /\ paid[<<p, t>>] >= 1 => [path |-> p, text |-> t] \in cached

NotesArePlaced ==
    \A w \in written :
        /\ w.gen \in 1..pointer
        /\ \/ w.late
           \/ \E g \in w.gen..pointer : w.slug \notin generations[g].nodes
           \/ w.note \in generations[pointer].notes[w.slug]

GenerationsAreNumbered ==
    \A g \in 1..Len(generations) : generations[g].of <= tally.builds

AloneInv ==
    /\ \A b \in Builders : IsSoundBuild(builder[b])
    /\ BuildersAreApart /\ AnswersAreCached /\ NotesArePlaced
    /\ GenerationsAreNumbered

ArchitectureInv == ArchitectureTypeOK /\ (tally.overlap \/ AloneInv)

LEMMA NothingMapped == <<>> \in FileMaps /\ <<>> \in NoteMaps
<1>1. \A X : <<>> \in [{} -> X]
  OBVIOUS
<1>2. {} \in SUBSET SourceFiles /\ {} \in SUBSET Slugs
  OBVIOUS
<1> QED BY <1>1, <1>2 DEF FileMaps, NoteMaps

LEMMA SeenIsMapped ==
    ASSUME sources \in [SourceFiles -> FileRecords]
    PROVE  /\ SeenNow \in FileMaps
           /\ \A S \in SUBSET DOMAIN SeenNow : [p \in S |-> SeenNow[p]] \in FileMaps
<1> DEFINE D == {q \in SourceFiles : sources[q].text # NoFile}
<1>1. D \in SUBSET SourceFiles /\ SeenNow \in [D -> FileRecords]
  BY DEF SeenNow
<1>2. \A S \in SUBSET D : [p \in S |-> SeenNow[p]] \in [S -> FileRecords]
  BY <1>1
<1>3. DOMAIN SeenNow = D
  BY <1>1
<1> HIDE DEF D
<1> QED BY <1>1, <1>2, <1>3 DEF FileMaps

LEMMA RestingIsBuild == Resting \in BuildRecords /\ Resting.at = "idle"
  BY NothingMapped DEF Resting, BuildRecords, Stages

LEMMA ArchitectureStarts == ArchitectureInit => ArchitectureInv
<1> SUFFICES ASSUME ArchitectureInit PROVE ArchitectureInv
  OBVIOUS
<1>1. ArchitectureTypeOK
  <2>1. sources \in [SourceFiles -> FileRecords]
    <3> DEFINE first == CHOOSE t \in Texts : TRUE
    <3>1. first \in Texts
      BY TextsAssumption
    <3>2. sources = [p \in SourceFiles |-> [text |-> first, stamp |-> 0]]
      BY DEF ArchitectureInit
    <3> HIDE DEF first
    <3> QED BY <3>1, <3>2 DEF FileRecords
  <2>2. builder \in [Builders -> BuildRecords]
    BY RestingIsBuild DEF ArchitectureInit
  <2>3. IsFiniteSet(written) /\ written \in SUBSET HandNotes
    BY FS_EmptySet DEF ArchitectureInit
  <2>4. generations \in Seq(Generations) /\ Len(generations) = 0
    BY DEF ArchitectureInit
  <2> QED BY <2>1, <2>2, <2>3, <2>4 DEF ArchitectureInit, ArchitectureTypeOK, Tallies
<1>2. \A b \in Builders : builder[b].at = "idle"
  BY RestingIsBuild DEF ArchitectureInit
<1>3. AloneInv
  <2>1. \A b \in Builders : IsSoundBuild(builder[b])
    BY <1>2 DEF IsSoundBuild, Numbered
  <2>2. BuildersAreApart
    BY <1>2 DEF BuildersAreApart, Under, Numbered
  <2>3. AnswersAreCached
    BY DEF ArchitectureInit, AnswersAreCached
  <2>4. NotesArePlaced /\ GenerationsAreNumbered
    BY DEF ArchitectureInit, NotesArePlaced, GenerationsAreNumbered
  <2> QED BY <2>1, <2>2, <2>3, <2>4 DEF AloneInv
<1> QED BY <1>1, <1>3 DEF ArchitectureInv

\* The types of a step of one builder.
LEMMA OneBuilder ==
    ASSUME ArchitectureTypeOK, NEW b \in Builders, NEW r \in BuildRecords,
           builder' = [builder EXCEPT ![b] = r]
    PROVE  /\ builder' \in [Builders -> BuildRecords] /\ builder'[b] = r
           /\ \A c \in Builders \ {b} : builder'[c] = builder[c]
  BY DEF ArchitectureTypeOK

\* No more happens than that a lock is removed.
OnlyTheLock == tally' \in {tally} \cup {[tally EXCEPT !.stolen = x] : x \in BOOLEAN}

\* A builder takes a step that nothing on disk shows of: what it relies on
\* must hold again, and it neither enters the lock nor gets a number.
LEMMA QuietStep ==
    ASSUME ArchitectureInv, NEW b \in Builders, NEW r \in BuildRecords,
           builder' = [builder EXCEPT ![b] = r],
           UNCHANGED <<sources, cached, paid, generations, pointer, written>>,
           OnlyTheLock,
           r.at \in Under => builder[b].at \in Under,
           r.at \in Numbered =>
               builder[b].at \in Numbered /\ r.build = builder[b].build,
           AloneInv => IsSoundBuild(r)
    PROVE  ArchitectureInv'
<1>1. /\ builder' \in [Builders -> BuildRecords] /\ builder'[b] = r
      /\ \A c \in Builders \ {b} : builder'[c] = builder[c]
  BY OneBuilder DEF ArchitectureInv
<1>0. tally' \in Tallies /\ UNCHANGED <<tally.builds, tally.overlap>>
  BY DEF OnlyTheLock, Tallies, ArchitectureInv, ArchitectureTypeOK
<1>2. ArchitectureTypeOK'
  BY <1>0, <1>1 DEF ArchitectureInv, ArchitectureTypeOK
<1>3. CASE tally.overlap
  BY <1>0, <1>2, <1>3 DEF ArchitectureInv
<1>4. CASE AloneInv
  <2>1. \A c \in Builders : IsSoundBuild(builder'[c])
    BY <1>1, <1>4 DEF AloneInv
  <2>2. (\A c \in Builders : IsSoundBuild(builder[c]))'
    BY <1>0, <2>1 DEF IsSoundBuild, IsCarried
  <2>3. BuildersAreApart'
    BY <1>1, <1>4 DEF AloneInv, BuildersAreApart
  <2>4. AnswersAreCached' /\ NotesArePlaced' /\ GenerationsAreNumbered'
    BY <1>0, <1>4 DEF AloneInv, AnswersAreCached, NotesArePlaced, GenerationsAreNumbered
  <2> QED BY <1>2, <2>2, <2>3, <2>4 DEF AloneInv, ArchitectureInv
<1> QED BY <1>3, <1>4 DEF ArchitectureInv

\* Whoever is at rest, or dead, relies on nothing.
LEMMA RestIsSound ==
    ASSUME NEW r, r.at \in {"idle", "map", "dead"}
    PROVE  IsSoundBuild(r) /\ r.at \notin Under /\ r.at \notin Numbered
  BY DEF IsSoundBuild, Under, Numbered

LEMMA GivesUpStep ==
    ASSUME ArchitectureInv, NEW b \in Builders, GivesUp(b),
           UNCHANGED <<sources, cached, paid, generations, pointer, written>>, OnlyTheLock
    PROVE  ArchitectureInv'
<1>1. IsSoundBuild(Resting) /\ Resting.at \notin Under /\ Resting.at \notin Numbered
  BY RestingIsBuild, RestIsSound
<1>2. builder' = [builder EXCEPT ![b] = Resting]
  BY DEF GivesUp
<1> QED BY <1>1, <1>2, RestingIsBuild, QuietStep

\* From one stage to another where no more is relied on.
LEMMA GoStep ==
    ASSUME ArchitectureInv, NEW b \in Builders, NEW to \in Stages, Go(b, to),
           UNCHANGED <<sources, cached, paid, generations, pointer, written>>, OnlyTheLock,
           to \in Numbered /\ builder[b].at \in Numbered,
           to \in Under => builder[b].at \in Under,
           \/ to \in {"snapshot", "open", "unlink", "write", "leave"}
           \/ /\ to = "replace" /\ builder[b].at = "verify"
              /\ AloneInv => IsCarried(builder[b]),
           to # "leave" => builder[b].at \notin {"pointer", "leave"}
    PROVE  ArchitectureInv'
<1> DEFINE r == [builder[b] EXCEPT !.at = to]
<1>0. builder[b] \in BuildRecords
  BY DEF ArchitectureInv, ArchitectureTypeOK
<1>1. /\ r \in BuildRecords /\ r.at = to /\ r.build = builder[b].build
      /\ r.from = builder[b].from /\ r.notes = builder[b].notes
  BY <1>0 DEF BuildRecords
<1>2. builder' = [builder EXCEPT ![b] = r]
  BY DEF Go
<1> HIDE DEF r
<1>3. ASSUME AloneInv PROVE IsSoundBuild(r)
  <2>1. IsSoundBuild(builder[b])
    BY <1>3 DEF AloneInv
  <2> QED BY <1>1, <1>3, <2>1 DEF IsSoundBuild, IsCarried, Numbered
<1> QED BY <1>1, <1>2, <1>3, QuietStep

(* The world. *)
LEMMA SourcesChange ==
    ASSUME ArchitectureInv, NEW p \in SourceFiles, EditSource(p)
    PROVE  ArchitectureInv'
<1>1. ArchitectureTypeOK'
  <2>1. PICK s \in [text : Texts \cup {NoFile}, stamp : {tally.writes + 1}] :
           sources' = [sources EXCEPT ![p] = s]
    BY DEF EditSource
  <2>2. tally.writes + 1 \in Nat
    BY DEF ArchitectureInv, ArchitectureTypeOK, Tallies
  <2>3. s \in FileRecords
    BY <2>2 DEF FileRecords
  <2>4. sources' \in [SourceFiles -> FileRecords]
    BY <2>1, <2>3 DEF ArchitectureInv, ArchitectureTypeOK
  <2>5. tally' \in Tallies
    BY <2>2 DEF EditSource, Tallies, ArchitectureInv, ArchitectureTypeOK
  <2> QED BY <2>4, <2>5 DEF EditSource, ArchitectureInv, ArchitectureTypeOK
<1>2. /\ UNCHANGED <<cached, paid, generations, pointer, builder, written>>
      /\ tally'.builds = tally.builds /\ tally'.overlap = tally.overlap
  BY DEF EditSource, Tallies, ArchitectureInv, ArchitectureTypeOK
<1>3. CASE AloneInv
  <2>1. (\A c \in Builders : IsSoundBuild(builder[c]))'
    BY <1>2, <1>3 DEF AloneInv, IsSoundBuild, IsCarried
  <2>2. BuildersAreApart' /\ AnswersAreCached' /\ NotesArePlaced'
        /\ GenerationsAreNumbered'
    BY <1>2, <1>3 DEF AloneInv, BuildersAreApart, AnswersAreCached, NotesArePlaced,
                      GenerationsAreNumbered
  <2> QED BY <1>1, <2>1, <2>2 DEF AloneInv, ArchitectureInv
<1> QED BY <1>1, <1>2, <1>3 DEF ArchitectureInv

LEMMA NotesChange ==
    ASSUME ArchitectureInv, NEW s \in Slugs, WriteNote(s)
    PROVE  ArchitectureInv'
<1> DEFINE n == Cardinality(written) + 1
           late == \E b \in Builders : builder[b].at \in {"replace", "pointer"}
           note == [note |-> n, slug |-> s, gen |-> pointer, late |-> late]
<1>0. /\ pointer \in 1..Len(generations) /\ s \in generations[pointer].nodes
      /\ generations \in Seq(Generations) /\ Len(generations) \in Nat
      /\ generations[pointer] \in Generations
      /\ generations[pointer].notes \in [generations[pointer].nodes -> SUBSET Nat]
      /\ generations[pointer].nodes \in SUBSET Slugs
      /\ written \in SUBSET HandNotes /\ IsFiniteSet(written)
      /\ pointer \in Nat
  <2>1. /\ pointer # 0 /\ s \in generations[pointer].nodes /\ pointer \in 0..Len(generations)
        /\ generations \in Seq(Generations)
        /\ written \in SUBSET HandNotes /\ IsFiniteSet(written)
    BY DEF WriteNote, ArchitectureInv, ArchitectureTypeOK
  <2>2. Len(generations) \in Nat /\ pointer \in 1..Len(generations) /\ pointer \in Nat
    BY <2>1
  <2>3. generations[pointer] \in Generations
    BY <2>1, <2>2
  <2>4. generations[pointer].nodes \in SUBSET Slugs
    BY <2>3 DEF Generations
  <2>5. generations[pointer].notes \in [generations[pointer].nodes -> SUBSET Nat]
    BY <2>2 DEF ArchitectureInv, ArchitectureTypeOK
  <2> QED BY <2>1, <2>2, <2>3, <2>4, <2>5
<1>1. n \in Nat
  BY <1>0, FS_CardinalityType
<1>2. PICK hurried \in BOOLEAN : hurried = late
  OBVIOUS
<1>3. /\ generations' = [generations EXCEPT ![pointer].notes[s] = @ \cup {n}]
      /\ written' = written \cup {note}
      /\ UNCHANGED <<sources, cached, paid, pointer, builder, tally>>
  BY DEF WriteNote
<1>4. note \in HandNotes /\ note.note = n /\ note.slug = s /\ note.gen = pointer
      /\ (note.late <=> late)
  <2>1. note = [note |-> n, slug |-> s, gen |-> pointer, late |-> hurried]
    BY <1>2
  <2> QED BY <1>0, <1>1, <1>2, <2>1 DEF HandNotes
<1> HIDE DEF n, late, note
<1> DEFINE g == [generations[pointer] EXCEPT !.notes[s] = @ \cup {n}]
           notes == [generations[pointer].notes EXCEPT ![s] = @ \cup {n}]
<1>5. notes \in [generations[pointer].nodes -> SUBSET Nat]
      /\ n \in notes[s] /\ notes \in NoteMaps
      /\ \A t \in generations[pointer].nodes :
            generations[pointer].notes[t] \subseteq notes[t]
  <2>1. generations[pointer].notes[s] \cup {n} \in SUBSET Nat
    BY <1>0, <1>1
  <2>2. notes \in [generations[pointer].nodes -> SUBSET Nat]
    BY <1>0, <2>1
  <2>3. n \in notes[s] /\ \A t \in generations[pointer].nodes :
                              generations[pointer].notes[t] \subseteq notes[t]
    BY <1>0
  <2> HIDE DEF notes
  <2> QED BY <1>0, <2>2, <2>3 DEF NoteMaps
<1>6. g = [generations[pointer] EXCEPT !.notes = notes]
  BY <1>0
<1> HIDE DEF notes
<1>7. g \in Generations /\ g.nodes = generations[pointer].nodes /\ g.notes = notes
      /\ g.of = generations[pointer].of
  BY <1>0, <1>5, <1>6 DEF Generations
<1>8. generations' = [generations EXCEPT ![pointer] = g]
  BY <1>0, <1>3
<1> HIDE DEF g
<1>9. /\ generations' \in Seq(Generations) /\ Len(generations') = Len(generations)
      /\ generations'[pointer] = g
      /\ \A i \in 1..Len(generations) : i # pointer => generations'[i] = generations[i]
  BY <1>0, <1>7, <1>8
<1>10. \A i \in 1..Len(generations) : /\ generations'[i].nodes = generations[i].nodes
                                      /\ generations'[i].of = generations[i].of
  BY <1>7, <1>9
<1>11. ArchitectureTypeOK'
  <2>1. written' \in SUBSET HandNotes /\ IsFiniteSet(written')
    BY <1>0, <1>3, <1>4, FS_AddElement
  <2>2. (\A i \in 1..Len(generations) :
            generations[i].notes \in [generations[i].nodes -> SUBSET Nat])'
    BY <1>5, <1>7, <1>9 DEF ArchitectureInv, ArchitectureTypeOK
  <2>3. pointer' \in 0..Len(generations')
    BY <1>0, <1>3, <1>9
  <2> QED BY <1>3, <1>9, <2>1, <2>2, <2>3 DEF ArchitectureInv, ArchitectureTypeOK
<1>12. CASE AloneInv
  <2>1. NotesArePlaced'
    <3>1. ASSUME NEW w \in written'
          PROVE  /\ w.gen \in 1..pointer
                 /\ \/ w.late
                    \/ \E i \in w.gen..pointer : w.slug \notin generations'[i].nodes
                    \/ w.note \in generations'[pointer].notes[w.slug]
      <4>1. CASE w = note
        BY <1>0, <1>4, <1>5, <1>7, <1>9, <4>1
      <4>2. CASE w \in written
        <5>1. /\ w.gen \in 1..pointer /\ w.gen \in Nat
              /\ \/ w.late
                 \/ \E i \in w.gen..pointer : w.slug \notin generations[i].nodes
                 \/ w.note \in generations[pointer].notes[w.slug]
          BY <1>0, <1>12, <4>2 DEF AloneInv, NotesArePlaced, HandNotes
        <5>2. w.gen..pointer \subseteq 1..Len(generations)
          BY <1>0, <5>1
        <5>3. CASE \E i \in w.gen..pointer : w.slug \notin generations[i].nodes
          BY <1>10, <5>1, <5>2, <5>3
        <5>4. CASE \A i \in w.gen..pointer : w.slug \in generations[i].nodes
          <6>1. w.slug \in generations[pointer].nodes
            BY <1>0, <5>1, <5>4
          <6> QED BY <1>5, <1>7, <1>9, <5>1, <5>4, <6>1
        <5> QED BY <5>3, <5>4
      <4> QED BY <1>3, <4>1, <4>2
    <3> QED BY <1>3, <3>1 DEF NotesArePlaced
  <2>2. ASSUME NEW c \in Builders
        PROVE  IsSoundBuild(builder[c])'
    <3>1. IsSoundBuild(builder[c])
      BY <1>12 DEF AloneInv
    <3>2. ASSUME builder[c].at \in {"replace", "pointer"}
          PROVE  IsCarried(builder[c])'
      <4>1. late
        BY <3>2 DEF late
      <4>2. IsCarried(builder[c])
        BY <3>1, <3>2 DEF IsSoundBuild
      <4>3. \A w \in written : w.gen \in 1..pointer
        BY <1>12 DEF AloneInv, NotesArePlaced
      <4>4. \A w \in written : \A i \in w.gen..pointer :
               generations'[i].nodes = generations[i].nodes
        BY <1>0, <1>10, <4>3
      <4> QED BY <1>3, <1>4, <4>1, <4>2, <4>4 DEF IsCarried
    <3>3. builder[c].at = "pointer" =>
             pointer < Len(generations)
             /\ generations'[Len(generations)] = generations[Len(generations)]
      BY <1>0, <1>9, <3>1 DEF IsSoundBuild
    <3> QED BY <1>3, <1>9, <1>10, <3>1, <3>2, <3>3 DEF IsSoundBuild, ItemOf
  <2>3. BuildersAreApart' /\ AnswersAreCached' /\ GenerationsAreNumbered'
    BY <1>3, <1>9, <1>10, <1>12
    DEF AloneInv, BuildersAreApart, AnswersAreCached, GenerationsAreNumbered
  <2>4. (\A c \in Builders : IsSoundBuild(builder[c]))'
    BY <2>2
  <2> QED BY <1>11, <2>1, <2>3, <2>4 DEF AloneInv, ArchitectureInv
<1> QED BY <1>3, <1>11, <1>12 DEF ArchitectureInv

(* The steps of a builder. *)
LEMMA QuietBuilderSteps ==
    ASSUME ArchitectureInv, NEW b \in Builders,
           \/ Refresh(b) \/ WriteMap(b) \/ Snapshot(b) \/ Open(b) \/ Unlink(b)
           \/ EnterLock(b) \/ Synthesise(b) \/ Fails(b)
           \/ Verify(b) \/ LeaveLock(b) \/ BuilderDies(b) \/ StartAgain(b)
           \/ \E p \in SourceFiles : TakeCached(b, p) \/ AskSummary(b, p)
    PROVE  ArchitectureInv'
<1>0. /\ builder[b] \in BuildRecords /\ builder \in [Builders -> BuildRecords]
      /\ sources \in [SourceFiles -> FileRecords]
      /\ AloneInv => IsSoundBuild(builder[b])
  BY DEF ArchitectureInv, ArchitectureTypeOK, AloneInv
<1>t. OnlyTheLock
  <2>1. UNCHANGED tally => OnlyTheLock
    BY DEF OnlyTheLock
  <2>2. CASE Unlink(b)
    <3>1. PICK x \in BOOLEAN : x = (tally.stolen \/ IsLive(lock) \/ HalfMade(lock))
      OBVIOUS
    <3>2. tally' = [tally EXCEPT !.stolen = x]
      BY <2>2, <3>1 DEF Unlink
    <3> QED BY <3>2 DEF OnlyTheLock
  <2> QED
    BY <2>1, <2>2
    DEF Refresh, WriteMap, Snapshot, Open, EnterLock, Synthesise, Fails, Verify,
        LeaveLock, BuilderDies, StartAgain, TakeCached, AskSummary
<1> USE <1>t
<1>1. CASE Refresh(b)
  <2> DEFINE r == [builder[b] EXCEPT !.at = "map", !.files = SeenNow]
  <2>1. r \in BuildRecords /\ r.at = "map"
    BY <1>0, SeenIsMapped DEF BuildRecords, Stages
  <2>2. builder' = [builder EXCEPT ![b] = r]
    BY <1>0, <1>1 DEF Refresh
  <2> HIDE DEF r
  <2>3. IsSoundBuild(r) /\ r.at \notin Under /\ r.at \notin Numbered
    BY <2>1, RestIsSound
  <2> QED BY <1>1, <2>1, <2>2, <2>3, QuietStep DEF Refresh
<1>2. CASE WriteMap(b)
  <2>1. CASE builder[b].at = "map"
    BY <1>2, <2>1, GivesUpStep DEF WriteMap
  <2>2. CASE builder[b].at = "own map"
    BY <1>2, <2>2, GoStep DEF WriteMap, Numbered, Stages, Under
  <2> QED BY <1>2, <2>1, <2>2 DEF WriteMap
<1>3. CASE Snapshot(b)
  <2> DEFINE files == DOMAIN builder[b].planned
             r == [builder[b] EXCEPT !.at = "open", !.files = [p \in files |-> SeenNow[p]],
                                     !.planned = <<>>]
  <2>1. CASE files \subseteq DOMAIN SeenNow
    <3>1. [p \in files |-> SeenNow[p]] \in FileMaps
      BY <1>0, <2>1, SeenIsMapped
    <3>2. r \in BuildRecords /\ r.at = "open" /\ r.build = builder[b].build
      BY <1>0, <3>1, NothingMapped DEF BuildRecords, Stages
    <3>3. builder' = [builder EXCEPT ![b] = r]
      BY <1>0, <1>3, <2>1 DEF Snapshot
    <3> HIDE DEF files, r
    <3>4. builder[b].at = "snapshot" /\ r.at \notin Under
      BY <1>3, <3>2 DEF Snapshot, Under
    <3>5. AloneInv => IsSoundBuild(r)
      BY <1>0, <3>2, <3>4 DEF IsSoundBuild, Numbered
    <3> QED BY <1>3, <3>2, <3>3, <3>4, <3>5, QuietStep DEF Snapshot, Numbered
  <2>2. CASE ~(files \subseteq DOMAIN SeenNow)
    BY <1>3, <2>2, GivesUpStep DEF Snapshot
  <2> QED BY <2>1, <2>2
<1>4. CASE Open(b)
  <2>1. /\ builder[b].at = "open" /\ (Go(b, "write") \/ GivesUp(b) \/ Go(b, "unlink"))
        /\ UNCHANGED <<sources, cached, paid, generations, pointer, written>>
    BY <1>4 DEF Open
  <2> QED BY <2>1, GivesUpStep, GoStep DEF Numbered, Stages, Under
<1>5. CASE Unlink(b)
  <2> DEFINE r == [builder[b] EXCEPT !.at = "open", !.retried = TRUE]
  <2>1. CASE builder[b].retried
    BY <1>5, <2>1, GivesUpStep DEF Unlink
  <2>2. CASE ~builder[b].retried
    <3>1. r \in BuildRecords /\ r.at = "open" /\ r.build = builder[b].build
      BY <1>0 DEF BuildRecords, Stages
    <3>2. builder' = [builder EXCEPT ![b] = r]
      BY <1>0, <1>5, <2>2 DEF Unlink
    <3> HIDE DEF r
    <3>3. builder[b].at = "unlink" /\ r.at \notin Under
      BY <1>5, <3>1 DEF Unlink, Under
    <3>4. AloneInv => IsSoundBuild(r)
      BY <1>0, <3>1, <3>3 DEF IsSoundBuild, Numbered
    <3> QED BY <1>5, <3>1, <3>2, <3>3, <3>4, QuietStep DEF Unlink, Numbered
  <2> QED BY <2>1, <2>2
<1>6. CASE EnterLock(b)
  <2> DEFINE left == DOMAIN builder[b].files
             notes == IF pointer = 0 THEN <<>> ELSE generations[pointer].notes
             r == [builder[b] EXCEPT !.at = "summaries", !.known = CacheAtEntry(b),
                                     !.from = pointer, !.left = left, !.notes = notes]
  <2>1. notes \in NoteMaps
    <3>1. CASE pointer = 0
      BY <3>1, NothingMapped
    <3>2. CASE pointer # 0
      <4>1. generations[pointer] \in Generations
        BY <3>2 DEF ArchitectureInv, ArchitectureTypeOK
      <4> QED BY <3>2, <4>1 DEF Generations
    <3> QED BY <3>1, <3>2
  <2>2. left \in SUBSET SourceFiles
    BY <1>0 DEF BuildRecords, FileMaps
  <2>3. pointer \in Nat /\ cached \in SUBSET Items
    BY DEF ArchitectureInv, ArchitectureTypeOK
  <2>4. builder' = [builder EXCEPT ![b] = r]
    BY <1>0, <1>6 DEF EnterLock
  <2> HIDE DEF notes
  <2>5. /\ r \in BuildRecords /\ r.at = "summaries" /\ r.build = builder[b].build
        /\ r.known = cached /\ r.left = DOMAIN r.files /\ r.from = pointer
    BY <1>0, <2>1, <2>2, <2>3 DEF BuildRecords, Stages, CacheAtEntry
  <2> HIDE DEF left, r
  <2>6. builder[b].at = "enter"
    BY <1>6 DEF EnterLock
  <2>7. AloneInv => IsSoundBuild(r)
    BY <1>0, <2>5, <2>6 DEF IsSoundBuild, Numbered
  <2> QED BY <1>6, <2>4, <2>5, <2>6, <2>7, QuietStep DEF EnterLock, Numbered, Under
<1>7. ASSUME NEW p \in SourceFiles, TakeCached(b, p)
      PROVE  ArchitectureInv'
  <2> DEFINE r == [builder[b] EXCEPT !.left = @ \ {p}]
  <2>1. builder' = [builder EXCEPT ![b] = r] /\ builder[b].at = "summaries"
    BY <1>0, <1>7 DEF TakeCached
  <2>2. /\ r \in BuildRecords /\ r.at = builder[b].at /\ r.build = builder[b].build
        /\ r.known = builder[b].known /\ r.left \subseteq builder[b].left
        /\ r.files = builder[b].files /\ r.from = builder[b].from
    BY <1>0 DEF BuildRecords
  <2> HIDE DEF r
  <2>3. AloneInv => IsSoundBuild(r)
    BY <1>0, <2>1, <2>2 DEF IsSoundBuild, Numbered
  <2> QED BY <1>7, <2>1, <2>2, <2>3, QuietStep DEF TakeCached
<1>8. ASSUME NEW p \in SourceFiles, AskSummary(b, p)
      PROVE  ArchitectureInv'
  <2> DEFINE r == [builder[b] EXCEPT !.at = "answered", !.asked = p]
  <2>1. /\ builder' = [builder EXCEPT ![b] = r] /\ builder[b].at = "summaries"
        /\ p \in builder[b].left /\ ItemOf(builder[b], p) \notin builder[b].known
    BY <1>0, <1>8 DEF AskSummary, Item, ItemOf
  <2>2. /\ r \in BuildRecords /\ r.at = "answered" /\ r.build = builder[b].build
        /\ r.known = builder[b].known /\ r.left = builder[b].left /\ r.asked = p
        /\ r.files = builder[b].files /\ r.from = builder[b].from
    BY <1>0 DEF BuildRecords, Stages
  <2> HIDE DEF r
  <2>3. AloneInv => IsSoundBuild(r)
    BY <1>0, <2>1, <2>2 DEF IsSoundBuild, Numbered, ItemOf
  <2> QED BY <1>8, <2>1, <2>2, <2>3, QuietStep DEF AskSummary, Numbered, Under
<1>9. CASE Synthesise(b)
  <2>1. PICK nodes \in (SUBSET Slugs) \ {{}} :
           builder' = [builder EXCEPT ![b].at = "verify", ![b].nodes = nodes,
                                      ![b].known = {}, ![b].asked = NoFile]
    BY <1>9 DEF Synthesise
  <2> DEFINE r == [builder[b] EXCEPT !.at = "verify", !.nodes = nodes, !.known = {},
                                     !.asked = NoFile]
  <2>2. builder' = [builder EXCEPT ![b] = r]
    BY <1>0, <2>1
  <2>3. /\ r \in BuildRecords /\ r.at = "verify" /\ r.build = builder[b].build
        /\ r.from = builder[b].from
    BY <1>0 DEF BuildRecords, Stages
  <2> HIDE DEF r
  <2>4. builder[b].at = "summaries"
    BY <1>9 DEF Synthesise
  <2>5. AloneInv => IsSoundBuild(r)
    BY <1>0, <2>3, <2>4 DEF IsSoundBuild, Numbered
  <2> QED BY <1>9, <2>2, <2>3, <2>4, <2>5, QuietStep DEF Synthesise, Numbered, Under
<1>10. CASE Fails(b)
  BY <1>10, GoStep DEF Fails, Numbered, Stages, Under
<1>11. CASE Verify(b)
  <2>1. builder[b].at = "verify"
        /\ UNCHANGED <<sources, cached, paid, generations, pointer, written>>
    BY <1>11 DEF Verify
  <2>2. CASE ~NotesUnchanged(b)
    BY <1>11, <2>1, <2>2, GoStep DEF Verify, Numbered, Stages, Under
  <2>3. CASE NotesUnchanged(b)
    <3>1. ASSUME AloneInv
          PROVE  IsCarried(builder[b])
      <4>1. builder[b].from = pointer
        BY <1>0, <2>1, <3>1 DEF IsSoundBuild
      <4>2. ASSUME NEW w \in written, ~w.late,
                   \A g \in w.gen..pointer : w.slug \in generations[g].nodes
            PROVE  w.slug \in DOMAIN builder[b].notes
                   /\ w.note \in builder[b].notes[w.slug]
        <5>1. /\ w.gen \in 1..pointer /\ w.note \in generations[pointer].notes[w.slug]
              /\ pointer \in 1..Len(generations)
          BY <3>1, <4>2
          DEF AloneInv, NotesArePlaced, ArchitectureInv, ArchitectureTypeOK
        <5>2. generations[pointer].notes = builder[b].notes
          BY <2>3, <4>1, <5>1 DEF NotesUnchanged
        <5>3. w.slug \in generations[pointer].nodes
          BY <4>2, <5>1
        <5>4. DOMAIN generations[pointer].notes = generations[pointer].nodes
          BY <5>1 DEF ArchitectureInv, ArchitectureTypeOK
        <5> QED BY <5>1, <5>2, <5>3, <5>4
      <4> QED BY <4>2 DEF IsCarried
    <3> QED BY <1>11, <2>1, <2>3, <3>1, GoStep DEF Verify, Numbered, Stages, Under
  <2> QED BY <2>2, <2>3
<1>12. CASE LeaveLock(b)
  BY <1>12, GivesUpStep DEF LeaveLock
<1>13. CASE BuilderDies(b)
  <2> DEFINE r == [Resting EXCEPT !.at = "dead"]
  <2>1. r \in BuildRecords /\ r.at = "dead"
    BY RestingIsBuild DEF BuildRecords, Stages
  <2>2. builder' = [builder EXCEPT ![b] = r]
    BY <1>13 DEF BuilderDies
  <2> HIDE DEF r
  <2>3. IsSoundBuild(r) /\ r.at \notin Under /\ r.at \notin Numbered
    BY <2>1, RestIsSound
  <2> QED BY <1>13, <2>1, <2>2, <2>3, QuietStep DEF BuilderDies
<1>14. CASE StartAgain(b)
  BY <1>14, GivesUpStep DEF StartAgain
<1> QED
  BY <1>1, <1>2, <1>3, <1>4, <1>5, <1>6, <1>7, <1>8, <1>9, <1>10, <1>11, <1>12, <1>13,
     <1>14

\* A build gets a number nobody has had.
LEMMA PlanStep ==
    ASSUME ArchitectureInv, NEW b \in Builders, PlanBuild(b)
    PROVE  ArchitectureInv'
<1>0. /\ tally \in Tallies
      /\ tally.builds \in Nat /\ cached \in SUBSET Items
      /\ sources \in [SourceFiles -> FileRecords]
      /\ tally' = [tally EXCEPT !.builds = @ + 1]
      /\ UNCHANGED <<sources, cached, paid, generations, pointer, written>>
  BY DEF Tallies, ArchitectureInv, ArchitectureTypeOK, PlanBuild
<1>1. /\ tally' \in Tallies
      /\ tally'.builds = tally.builds + 1 /\ tally'.overlap = tally.overlap
  BY <1>0 DEF Tallies
<1>2. PICK r \in BuildRecords : /\ r.at = "own map" /\ r.build = tally.builds + 1
                                /\ builder' = [builder EXCEPT ![b] = r]
  <2> DEFINE n == [Resting EXCEPT !.at = "own map", !.build = tally.builds + 1,
                                  !.planned = SeenNow, !.files = SeenNow, !.known = cached]
  <2>1. SeenNow \in FileMaps /\ tally.builds + 1 \in Nat
    BY <1>0, SeenIsMapped
  <2>2. n \in BuildRecords /\ n.at = "own map" /\ n.build = tally.builds + 1
    BY <1>0, <2>1, RestingIsBuild DEF BuildRecords, Stages
  <2>3. builder' = [builder EXCEPT ![b] = n]
    BY DEF PlanBuild
  <2> HIDE DEF n
  <2> QED BY <2>2, <2>3
<1>3. /\ builder' \in [Builders -> BuildRecords] /\ builder'[b] = r
      /\ \A c \in Builders \ {b} : builder'[c] = builder[c]
  BY <1>2, OneBuilder DEF ArchitectureInv
<1>4. ArchitectureTypeOK'
  BY <1>0, <1>1, <1>3 DEF ArchitectureInv, ArchitectureTypeOK
<1>5. CASE AloneInv
  <2>1. \A c \in Builders : IsSoundBuild(builder[c])
    BY <1>5 DEF AloneInv
  <2>2. \A c \in Builders : builder[c].build \in Nat
    <3>1. \A c \in Builders : builder[c] \in BuildRecords
      BY DEF ArchitectureInv, ArchitectureTypeOK
    <3> QED BY <3>1 DEF BuildRecords
  <2>n. ASSUME NEW g \in 1..Len(generations)
        PROVE  generations[g].of <= tally.builds /\ generations[g].of \in Nat
    <3>1. generations[g] \in Generations
      BY DEF ArchitectureInv, ArchitectureTypeOK
    <3>2. generations[g].of \in Nat
      BY <3>1 DEF Generations
    <3> QED BY <1>5, <3>2 DEF AloneInv, GenerationsAreNumbered
  <2>3. ASSUME NEW c \in Builders
        PROVE  IsSoundBuild(builder[c])'
    <3>1. CASE c # b
      <4>1. builder'[c] = builder[c] /\ IsSoundBuild(builder[c])
        BY <1>3, <2>1, <3>1
      <4>2. builder[c].at \in Numbered => builder[c].build \in 1..tally'.builds
        BY <1>0, <1>1, <2>2, <4>1 DEF IsSoundBuild
      <4> QED BY <1>0, <4>1, <4>2 DEF IsSoundBuild, IsCarried, ItemOf
    <3>2. CASE c = b
      <4>1. ASSUME NEW g \in 1..Len(generations) PROVE generations[g].of # r.build
        <5>1. generations[g].of <= tally.builds /\ generations[g].of \in Nat
          BY <2>n
        <5>2. tally.builds \in Nat /\ r.build = tally.builds + 1
          BY <1>0, <1>2
        <5> QED BY <5>1, <5>2
      <4>2. r.build \in 1..tally'.builds
        <5>1. /\ tally.builds \in Nat /\ r.build = tally.builds + 1
              /\ tally'.builds = tally.builds + 1
          BY <1>0, <1>1, <1>2
        <5> QED BY <5>1
      <4>3. /\ builder'[c].at = "own map" /\ builder'[c].build = r.build
            /\ UNCHANGED generations
        BY <1>0, <1>2, <1>3, <3>2
      <4> QED BY <4>1, <4>2, <4>3 DEF IsSoundBuild
    <3> QED BY <3>1, <3>2
  <2>4. BuildersAreApart'
    <3>1. \A c \in Builders : builder[c].at \in Numbered =>
             builder[c].build <= tally.builds
      BY <1>0, <2>1 DEF IsSoundBuild
    <3>2. r.at \notin Under
      BY <1>2 DEF Under
    <3>3. \A c \in Builders : builder[c].at \in Numbered => builder[c].build # r.build
      <4>1. tally.builds \in Nat /\ r.build = tally.builds + 1
        BY <1>0, <1>2
      <4> QED BY <2>2, <3>1, <4>1
    <3>4. ASSUME NEW c \in Builders, NEW d \in Builders, c # d
          PROVE  /\ ~(builder'[c].at \in Under /\ builder'[d].at \in Under)
                 /\ builder'[c].at \in Numbered /\ builder'[d].at \in Numbered =>
                       builder'[c].build # builder'[d].build
      <4>1. CASE c # b /\ d # b
        BY <1>3, <1>5, <3>4, <4>1 DEF AloneInv, BuildersAreApart
      <4>2. CASE c = b \/ d = b
        BY <1>3, <3>2, <3>3, <3>4, <4>2
      <4> QED BY <4>1, <4>2
    <3> QED BY <3>4 DEF BuildersAreApart
  <2>5. AnswersAreCached' /\ NotesArePlaced'
    BY <1>0, <1>5 DEF AloneInv, AnswersAreCached, NotesArePlaced
  <2>6. GenerationsAreNumbered'
    BY <1>0, <1>1, <2>n DEF GenerationsAreNumbered
  <2>7. (\A c \in Builders : IsSoundBuild(builder[c]))'
    BY <2>3
  <2> QED BY <1>4, <2>4, <2>5, <2>6, <2>7 DEF AloneInv, ArchitectureInv
<1> QED BY <1>1, <1>4, <1>5 DEF ArchitectureInv

\* A builder that enters beside another is counted as overlapping.
LEMMA WriteOwnerStep ==
    ASSUME ArchitectureInv, NEW b \in Builders, WriteOwner(b)
    PROVE  ArchitectureInv'
<1> DEFINE r == [builder[b] EXCEPT !.at = "enter"]
           met == \E c \in Builders \ {b} : builder[c].at \in Under
<1>0. /\ builder[b] \in BuildRecords /\ builder[b].at = "write"
      /\ tally \in Tallies
      /\ UNCHANGED <<sources, cached, paid, generations, pointer, written>>
  BY DEF ArchitectureInv, ArchitectureTypeOK, WriteOwner
<1>1. r \in BuildRecords /\ r.at = "enter" /\ r.build = builder[b].build
  BY <1>0 DEF BuildRecords, Stages
<1>2. builder' = [builder EXCEPT ![b] = r]
  BY DEF WriteOwner, Go
<1> HIDE DEF r
<1>3. /\ builder' \in [Builders -> BuildRecords] /\ builder'[b] = r
      /\ \A c \in Builders \ {b} : builder'[c] = builder[c]
  BY <1>1, <1>2, OneBuilder DEF ArchitectureInv
<1>4. PICK o \in BOOLEAN : o = (tally.overlap \/ met)
  OBVIOUS
<1>5. tally' = [tally EXCEPT !.overlap = o]
  BY <1>4 DEF WriteOwner
<1>6. /\ tally' \in Tallies
      /\ tally'.builds = tally.builds /\ tally'.overlap = o
  BY <1>0, <1>4, <1>5 DEF Tallies
<1>7. ArchitectureTypeOK'
  BY <1>0, <1>3, <1>6 DEF ArchitectureInv, ArchitectureTypeOK
<1>8. CASE o
  BY <1>6, <1>7, <1>8 DEF ArchitectureInv
<1>9. CASE ~o
  <2>1. AloneInv /\ \A c \in Builders \ {b} : builder[c].at \notin Under
    BY <1>4, <1>9 DEF ArchitectureInv
  <2> HIDE DEF met
  <2>2. \A c \in Builders : IsSoundBuild(builder[c])
    BY <2>1 DEF AloneInv
  <2>3. ASSUME NEW c \in Builders
        PROVE  IsSoundBuild(builder[c])'
    <3>1. CASE c # b
      BY <1>0, <1>3, <1>6, <2>2, <3>1, SMTT(30) DEF IsSoundBuild, IsCarried, ItemOf
    <3>2. CASE c = b
      <4>1. builder'[c].at = "enter" /\ builder'[c].build = builder[b].build
        BY <1>1, <1>3, <3>2
      <4>2. /\ builder[b].build \in 1..tally.builds
            /\ \A g \in 1..Len(generations) : generations[g].of # builder[b].build
        BY <1>0, <2>2 DEF IsSoundBuild, Numbered
      <4> QED BY <1>0, <1>6, <4>1, <4>2 DEF IsSoundBuild
    <3> QED BY <3>1, <3>2
  <2>4. BuildersAreApart'
    <3>1. builder[b].at \in Numbered
      BY <1>0 DEF Numbered
    <3> QED BY <1>1, <1>3, <2>1, <3>1 DEF AloneInv, BuildersAreApart
  <2>5. AnswersAreCached' /\ NotesArePlaced' /\ GenerationsAreNumbered'
    BY <1>0, <1>6, <2>1
    DEF AloneInv, AnswersAreCached, NotesArePlaced, GenerationsAreNumbered
  <2>6. (\A c \in Builders : IsSoundBuild(builder[c]))'
    BY <2>3
  <2> QED BY <1>7, <2>4, <2>5, <2>6 DEF AloneInv, ArchitectureInv
<1> QED BY <1>8, <1>9

\* An answer is kept before the next request, or it was degenerate.
LEMMA FlushStep ==
    ASSUME ArchitectureInv, NEW b \in Builders, Flush(b)
    PROVE  ArchitectureInv'
<1> DEFINE p == builder[b].asked
           item == Item(b, p)
           all == builder[b].known \cup {item}
<1>0. /\ builder[b] \in BuildRecords /\ builder \in [Builders -> BuildRecords]
      /\ builder[b].at = "answered" /\ cached \in SUBSET Items
      /\ paid \in [SourceFiles \X Texts -> Nat]
      /\ UNCHANGED <<sources, generations, pointer, written, tally>>
      /\ AloneInv => IsSoundBuild(builder[b])
  BY DEF ArchitectureInv, ArchitectureTypeOK, AloneInv, Flush
<1>1. item = ItemOf(builder[b], p)
  BY DEF Item, ItemOf
<1>2. CASE /\ builder' = [builder EXCEPT ![b].at = "summaries", ![b].left = @ \ {p}]
           /\ UNCHANGED <<cached, paid>>
  <2> DEFINE r == [builder[b] EXCEPT !.at = "summaries", !.left = @ \ {p}]
  <2>1. builder' = [builder EXCEPT ![b] = r]
    BY <1>0, <1>2
  <2>2. /\ r \in BuildRecords /\ r.at = "summaries" /\ r.build = builder[b].build
        /\ r.known = builder[b].known /\ r.left \subseteq builder[b].left
        /\ r.files = builder[b].files /\ r.from = builder[b].from
    BY <1>0 DEF BuildRecords, Stages
  <2> HIDE DEF r, p
  <2>3. AloneInv => IsSoundBuild(r)
    BY <1>0, <2>2 DEF IsSoundBuild, Numbered
  <2>4. builder[b].at \in Under /\ builder[b].at \in Numbered
    BY <1>0 DEF Under, Numbered
  <2>5. OnlyTheLock
    BY <1>0 DEF OnlyTheLock
  <2> QED BY <1>0, <1>2, <2>1, <2>2, <2>3, <2>4, <2>5, QuietStep
<1>3. CASE /\ builder' = [builder EXCEPT ![b].at = "summaries", ![b].known = all,
                                         ![b].left = @ \ {p}]
           /\ cached' = all
           /\ paid' = [paid EXCEPT ![<<p, item.text>>] = @ + 1]
  <2> DEFINE r == [builder[b] EXCEPT !.at = "summaries", !.known = all, !.left = @ \ {p}]
  <2>1. builder' = [builder EXCEPT ![b] = r]
    BY <1>0, <1>3
  <2>2. item \in Items /\ item.path = p /\ item.text = builder[b].files[p].text
    <3>1. p \in SourceFiles \cup {NoFile} /\ builder[b].files \in FileMaps
      BY <1>0 DEF BuildRecords
    <3> DEFINE text == builder[b].files[p].text
    <3>2. text \in GivenTexts
      BY <3>1 DEF GivenTexts
    <3>3. item = [path |-> p, text |-> text]
      BY DEF Item
    <3> HIDE DEF text, p, item
    <3>4. item \in Items /\ item.path = p /\ item.text = text
      BY <3>1, <3>2, <3>3 DEF Items
    <3> QED BY <3>4 DEF text
  <2>3. all \in SUBSET Items
    <3>1. builder[b].known \in SUBSET Items
      BY <1>0 DEF BuildRecords
    <3> QED BY <2>2, <3>1
  <2> DEFINE text == item.text
             before == builder[b].known
  <2>4. paid' = [paid EXCEPT ![<<p, text>>] = @ + 1] /\ cached' = all
    BY <1>3
  <2>5. all = before \cup {item} /\ (AloneInv => item \notin before)
    BY <1>0, <1>1 DEF IsSoundBuild
  <2> HIDE DEF all, item
  <2>6. /\ r \in BuildRecords /\ r.at = "summaries" /\ r.build = builder[b].build
        /\ r.known = all /\ r.left \subseteq builder[b].left
        /\ r.files = builder[b].files /\ r.from = builder[b].from
    BY <1>0, <2>3 DEF BuildRecords, Stages
  <2> HIDE DEF r, p, text, before
  <2>7. /\ builder' \in [Builders -> BuildRecords] /\ builder'[b] = r
        /\ \A c \in Builders \ {b} : builder'[c] = builder[c]
    BY <2>1, <2>6, OneBuilder DEF ArchitectureInv
  <2>8. ArchitectureTypeOK'
    <3>1. paid' \in [SourceFiles \X Texts -> Nat]
      <4>1. CASE <<p, text>> \in SourceFiles \X Texts
        <5>1. paid[<<p, text>>] + 1 \in Nat
          BY <1>0, <4>1
        <5> QED BY <1>0, <2>4, <5>1
      <4>2. CASE <<p, text>> \notin SourceFiles \X Texts
        BY <1>0, <2>4, <4>2
      <4> QED BY <4>1, <4>2
    <3> QED BY <1>0, <2>3, <2>4, <2>7, <3>1 DEF ArchitectureInv, ArchitectureTypeOK
  <2>9. CASE AloneInv
    <3>1. \A c \in Builders : IsSoundBuild(builder[c])
      BY <2>9 DEF AloneInv
    <3>2. before = cached
      BY <1>0, <2>9 DEF IsSoundBuild, before
    <3>3. builder[b].at \in Under /\ builder[b].at \in Numbered
      BY <1>0 DEF Under, Numbered
    <3>4. ASSUME NEW c \in Builders
          PROVE  IsSoundBuild(builder[c])'
      <4>1. CASE c # b
        <5>1. builder[c].at \notin {"summaries", "answered"}
          BY <2>9, <3>3, <4>1 DEF AloneInv, BuildersAreApart, Under
        <5> QED BY <1>0, <2>7, <3>1, <4>1, <5>1 DEF IsSoundBuild, IsCarried
      <4>2. CASE c = b
        BY <1>0, <2>4, <2>6, <2>7, <3>1, <4>2, ZenonT(60)
        DEF IsSoundBuild, Numbered
      <4> QED BY <4>1, <4>2
    <3>5. BuildersAreApart'
      BY <2>6, <2>7, <2>9, <3>3 DEF AloneInv, BuildersAreApart
    <3>6. AnswersAreCached'
      <4>1. ASSUME NEW q \in SourceFiles, NEW t \in Texts
            PROVE  /\ paid'[<<q, t>>] <= 1
                   /\ paid'[<<q, t>>] >= 1 => [path |-> q, text |-> t] \in cached'
        <5>1. /\ paid[<<q, t>>] <= 1 /\ paid[<<q, t>>] \in Nat
              /\ paid[<<q, t>>] >= 1 => [path |-> q, text |-> t] \in cached
          BY <1>0, <2>9 DEF AloneInv, AnswersAreCached
        <5>2. CASE <<q, t>> = <<p, text>>
          <6>1. q = p /\ t = text
            BY <5>2
          <6>2. [path |-> q, text |-> t] = item
            BY <1>1, <2>2, <6>1 DEF ItemOf, text
          <6>3. paid'[<<q, t>>] = paid[<<q, t>>] + 1
            BY <1>0, <2>4, <5>2
          <6> QED BY <2>4, <2>5, <2>9, <3>2, <5>1, <6>2, <6>3
        <5>3. CASE <<q, t>> # <<p, text>>
          <6>1. paid'[<<q, t>>] = paid[<<q, t>>]
            BY <1>0, <2>4, <5>3
          <6> QED BY <2>4, <2>5, <3>2, <5>1, <6>1
        <5> QED BY <5>2, <5>3
      <4> QED BY <4>1 DEF AnswersAreCached
    <3>7. NotesArePlaced' /\ GenerationsAreNumbered'
      BY <1>0, <2>9 DEF AloneInv, NotesArePlaced, GenerationsAreNumbered
    <3>8. (\A c \in Builders : IsSoundBuild(builder[c]))'
      BY <3>4
    <3> QED BY <2>8, <3>5, <3>6, <3>7, <3>8 DEF AloneInv, ArchitectureInv
  <2> QED BY <1>0, <2>8, <2>9 DEF ArchitectureInv
<1> QED BY <1>2, <1>3 DEF Flush

\* The generation appears; it has the notes of the nodes it has.
LEMMA ReplaceStep ==
    ASSUME ArchitectureInv, NEW b \in Builders, Replace(b)
    PROVE  ArchitectureInv'
<1>0. /\ builder[b] \in BuildRecords /\ builder \in [Builders -> BuildRecords]
      /\ builder[b].at = "replace"
      /\ generations \in Seq(Generations) /\ Len(generations) \in Nat
      /\ pointer \in 0..Len(generations)
      /\ UNCHANGED <<sources, cached, paid, pointer, written, tally>>
  BY DEF ArchitectureInv, ArchitectureTypeOK, Replace
<1> DEFINE nodes == builder[b].nodes
           last == Len(generations) + 1
<1>1. PICK g \in Generations : /\ g.of = builder[b].build /\ g.nodes = nodes
                               /\ g.notes = NotesFor(b)
                               /\ generations' = Append(generations, g)
  <2> DEFINE n == [of |-> builder[b].build, files |-> builder[b].files,
                   nodes |-> nodes, notes |-> NotesFor(b)]
  <2>1. NotesFor(b) \in NoteMaps
    <3>1. builder[b].notes \in NoteMaps /\ nodes \in SUBSET Slugs
      BY <1>0 DEF BuildRecords
    <3>2. \A s \in DOMAIN builder[b].notes : builder[b].notes[s] \in SUBSET Nat
      BY <3>1 DEF NoteMaps
    <3>3. NotesFor(b) \in [nodes -> SUBSET Nat]
      BY <3>2 DEF NotesFor
    <3> QED BY <3>1, <3>3 DEF NoteMaps
  <2>2. n \in Generations
    BY <1>0, <2>1 DEF BuildRecords, Generations
  <2>3. generations' = Append(generations, n)
    BY DEF Replace
  <2> QED BY <2>2, <2>3
<1>2. /\ generations' \in Seq(Generations) /\ Len(generations') = last
      /\ generations'[last] = g
      /\ \A i \in 1..Len(generations) : generations'[i] = generations[i]
  BY <1>0, <1>1
<1>3. /\ g.notes \in [nodes -> SUBSET Nat]
      /\ \A s \in nodes : s \in DOMAIN builder[b].notes =>
                             g.notes[s] = builder[b].notes[s]
  <2>1. builder[b].notes \in NoteMaps
    BY <1>0 DEF BuildRecords
  <2>2. \A s \in DOMAIN builder[b].notes : builder[b].notes[s] \in SUBSET Nat
    BY <2>1 DEF NoteMaps
  <2> QED BY <1>1, <2>2 DEF NotesFor
<1>4. PICK r \in BuildRecords :
         /\ builder' = [builder EXCEPT ![b] = r] /\ r.at = "pointer"
         /\ r.build = builder[b].build /\ r.from = builder[b].from
         /\ r.notes = builder[b].notes /\ r.nodes = nodes
  <2> DEFINE n == [builder[b] EXCEPT !.at = "pointer"]
  <2>1. /\ n \in BuildRecords /\ n.at = "pointer" /\ n.build = builder[b].build
        /\ n.from = builder[b].from /\ n.notes = builder[b].notes /\ n.nodes = nodes
    BY <1>0 DEF BuildRecords, Stages
  <2>2. builder' = [builder EXCEPT ![b] = n]
    BY DEF Replace, Go
  <2> HIDE DEF n
  <2> QED BY <2>1, <2>2
<1>5. /\ builder' \in [Builders -> BuildRecords] /\ builder'[b] = r
      /\ \A c \in Builders \ {b} : builder'[c] = builder[c]
  BY <1>4, OneBuilder DEF ArchitectureInv
<1>6. ArchitectureTypeOK'
  <2>1. (\A i \in 1..Len(generations) :
            generations[i].notes \in [generations[i].nodes -> SUBSET Nat])'
    <3>1. ASSUME NEW i \in 1..Len(generations')
          PROVE  generations'[i].notes \in [generations'[i].nodes -> SUBSET Nat]
      <4>1. CASE i = last
        BY <1>1, <1>2, <1>3, <4>1
      <4>2. CASE i # last
        <5>1. i \in 1..Len(generations)
          BY <1>0, <1>2, <4>2
        <5> QED BY <1>2, <5>1 DEF ArchitectureInv, ArchitectureTypeOK
      <4> QED BY <4>1, <4>2
    <3> QED BY <3>1
  <2>2. pointer' \in 0..Len(generations')
    BY <1>0, <1>2
  <2> QED BY <1>0, <1>2, <1>5, <2>1, <2>2 DEF ArchitectureInv, ArchitectureTypeOK
<1>7. CASE AloneInv
  <2>1. \A c \in Builders : IsSoundBuild(builder[c])
    BY <1>7 DEF AloneInv
  <2>2. builder[b].at \in Under /\ builder[b].at \in Numbered
    BY <1>0 DEF Under, Numbered
  <2>3. \A w \in written : w.gen \in 1..pointer
    BY <1>7 DEF AloneInv, NotesArePlaced
  <2>4. \A w \in written : \A i \in w.gen..pointer : generations'[i] = generations[i]
    BY <1>0, <1>2, <2>3
  <2>5. ASSUME NEW c \in Builders
        PROVE  IsSoundBuild(builder[c])'
    <3>1. CASE c # b
      <4>1. builder[c].at \notin Under
        BY <1>7, <2>2, <3>1 DEF AloneInv, BuildersAreApart
      <4>2. builder[c].at \notin {"summaries", "answered", "verify", "replace", "pointer"}
        BY <4>1 DEF Under
      <4>3. builder[c].at \in Numbered => builder[c].build # builder[b].build
        BY <1>7, <2>2, <3>1 DEF AloneInv, BuildersAreApart
      <4>4. builder'[c] = builder[c] /\ IsSoundBuild(builder[c])
        BY <1>5, <2>1, <3>1
      <4>5. builder[c].at \in Numbered \ {"pointer", "leave"} =>
               \A i \in 1..Len(generations') : generations'[i].of # builder[c].build
        <5>1. ASSUME builder[c].at \in Numbered \ {"pointer", "leave"},
                     NEW i \in 1..Len(generations')
              PROVE  generations'[i].of # builder[c].build
          <6>1. CASE i = last
            BY <1>1, <1>2, <4>3, <5>1, <6>1
          <6>2. CASE i # last
            <7>1. i \in 1..Len(generations)
              BY <1>0, <1>2, <6>2
            <7> QED BY <1>2, <4>4, <5>1, <7>1 DEF IsSoundBuild
          <6> QED BY <6>1, <6>2
        <5> QED BY <5>1
      <4> QED BY <1>0, <4>2, <4>4, <4>5 DEF IsSoundBuild
    <3>2. CASE c = b
      <4>1. /\ builder[b].build \in 1..tally.builds
            /\ \A i \in 1..Len(generations) : generations[i].of # builder[b].build
            /\ builder[b].from = pointer /\ IsCarried(builder[b])
        BY <1>0, <2>1, <2>2 DEF IsSoundBuild
      <4>2. (pointer < Len(generations))'
        BY <1>0, <1>2
      <4>3. \A i \in 1..Len(generations') : generations'[i].of = r.build =>
                                               i = Len(generations')
        <5>1. ASSUME NEW i \in 1..Len(generations'), i # last
              PROVE  generations'[i].of # r.build
          <6>1. i \in 1..Len(generations)
            BY <1>0, <1>2, <5>1
          <6> QED BY <1>2, <1>4, <4>1, <6>1
        <5> QED BY <1>2, <5>1
      <4>4. IsCarried(builder[c])'
        BY <1>0, <1>4, <1>5, <2>4, <3>2, <4>1 DEF IsCarried
      <4>5. generations'[Len(generations')] = g
        BY <1>2
      <4>6. builder'[c] = r
        BY <1>5, <3>2
      <4> QED BY <1>0, <1>1, <1>3, <1>4, <4>1, <4>2, <4>3, <4>4, <4>5, <4>6
              DEF IsSoundBuild
    <3> QED BY <3>1, <3>2
  <2>6. BuildersAreApart'
    BY <1>4, <1>5, <1>7, <2>2 DEF AloneInv, BuildersAreApart
  <2>7. AnswersAreCached'
    BY <1>0, <1>7 DEF AloneInv, AnswersAreCached
  <2>8. NotesArePlaced'
    <3>1. \A w \in written : generations'[pointer] = generations[pointer]
      BY <1>0, <2>3, <2>4
    <3> QED BY <1>0, <1>7, <2>4, <3>1 DEF AloneInv, NotesArePlaced
  <2>9. GenerationsAreNumbered'
    <3>1. builder[b].build \in 1..tally.builds
      BY <1>0, <2>1, <2>2 DEF IsSoundBuild
    <3>2. ASSUME NEW i \in 1..Len(generations')
          PROVE  generations'[i].of <= tally.builds
      <4>1. CASE i = last
        BY <1>1, <1>2, <3>1, <4>1
      <4>2. CASE i # last
        <5>1. i \in 1..Len(generations)
          BY <1>0, <1>2, <4>2
        <5> QED BY <1>2, <1>7, <5>1 DEF AloneInv, GenerationsAreNumbered
      <4> QED BY <4>1, <4>2
    <3> QED BY <1>0, <3>2 DEF GenerationsAreNumbered
  <2>10. (\A c \in Builders : IsSoundBuild(builder[c]))'
    BY <2>5
  <2> QED BY <1>6, <2>6, <2>7, <2>8, <2>9, <2>10 DEF AloneInv, ArchitectureInv
<1> QED BY <1>0, <1>6, <1>7 DEF ArchitectureInv

\* The pointer moves to the generation of this build, the last one.
LEMMA MovePointerStep ==
    ASSUME ArchitectureInv, NEW b \in Builders, MovePointer(b)
    PROVE  ArchitectureInv'
<1>0. /\ builder[b] \in BuildRecords /\ builder \in [Builders -> BuildRecords]
      /\ builder[b].at = "pointer"
      /\ generations \in Seq(Generations) /\ Len(generations) \in Nat
      /\ pointer \in 0..Len(generations)
      /\ UNCHANGED <<sources, cached, paid, generations, written, tally>>
  BY DEF ArchitectureInv, ArchitectureTypeOK, MovePointer
<1>1. pointer' \in 1..Len(generations) /\ generations[pointer'].of = builder[b].build
  BY DEF MovePointer
<1>2. PICK r \in BuildRecords : /\ builder' = [builder EXCEPT ![b] = r]
                                /\ r.at = "leave" /\ r.build = builder[b].build
  <2> DEFINE n == [builder[b] EXCEPT !.at = "leave"]
  <2>1. n \in BuildRecords /\ n.at = "leave" /\ n.build = builder[b].build
    BY <1>0 DEF BuildRecords, Stages
  <2>2. builder' = [builder EXCEPT ![b] = n]
    BY DEF MovePointer, Go
  <2> HIDE DEF n
  <2> QED BY <2>1, <2>2
<1>3. /\ builder' \in [Builders -> BuildRecords] /\ builder'[b] = r
      /\ \A c \in Builders \ {b} : builder'[c] = builder[c]
  BY <1>2, OneBuilder DEF ArchitectureInv
<1>4. ArchitectureTypeOK'
  BY <1>0, <1>1, <1>3 DEF ArchitectureInv, ArchitectureTypeOK
<1>5. CASE AloneInv
  <2>1. \A c \in Builders : IsSoundBuild(builder[c])
    BY <1>5 DEF AloneInv
  <2>2. builder[b].at \in Under /\ builder[b].at \in Numbered
    BY <1>0 DEF Under, Numbered
  <2> DEFINE last == generations[Len(generations)]
  <2>3. /\ pointer < Len(generations) /\ pointer' = Len(generations)
        /\ last.nodes = builder[b].nodes
        /\ \A s \in builder[b].nodes : s \in DOMAIN builder[b].notes =>
              last.notes[s] = builder[b].notes[s]
        /\ IsCarried(builder[b]) /\ builder[b].build \in 1..tally.builds
    BY <1>0, <1>1, <2>1, <2>2 DEF IsSoundBuild
  <2>4. ASSUME NEW c \in Builders
        PROVE  IsSoundBuild(builder[c])'
    <3>1. CASE c # b
      <4>1. builder[c].at \notin Under
        BY <1>5, <2>2, <3>1 DEF AloneInv, BuildersAreApart
      <4>2. builder[c].at \notin {"summaries", "answered", "verify", "replace", "pointer"}
        BY <4>1 DEF Under
      <4> QED BY <1>0, <1>3, <2>1, <3>1, <4>2 DEF IsSoundBuild
    <3>2. CASE c = b
      BY <1>0, <1>2, <1>3, <2>3, <3>2 DEF IsSoundBuild
    <3> QED BY <3>1, <3>2
  <2>5. BuildersAreApart'
    BY <1>2, <1>3, <1>5, <2>2 DEF AloneInv, BuildersAreApart
  <2>6. AnswersAreCached' /\ GenerationsAreNumbered'
    BY <1>0, <1>5 DEF AloneInv, AnswersAreCached, GenerationsAreNumbered
  <2>7. NotesArePlaced'
    <3>1. ASSUME NEW w \in written
          PROVE  /\ w.gen \in 1..pointer'
                 /\ \/ w.late
                    \/ \E i \in w.gen..pointer' : w.slug \notin generations[i].nodes
                    \/ w.note \in generations[pointer'].notes[w.slug]
      <4>1. w.gen \in 1..pointer
        BY <1>5 DEF AloneInv, NotesArePlaced
      <4>2. w.gen \in 1..pointer' /\ pointer' \in w.gen..pointer'
            /\ \A i \in w.gen..pointer : i \in w.gen..pointer'
        BY <1>0, <2>3, <4>1
      <4>3. CASE w.slug \in builder[b].nodes
        BY <2>3, <4>2, <4>3 DEF IsCarried
      <4>4. CASE w.slug \notin builder[b].nodes
        BY <2>3, <4>2, <4>4
      <4> QED BY <4>3, <4>4
    <3> QED BY <1>0, <3>1 DEF NotesArePlaced
  <2>8. (\A c \in Builders : IsSoundBuild(builder[c]))'
    BY <2>4
  <2> QED BY <1>4, <2>5, <2>6, <2>7, <2>8 DEF AloneInv, ArchitectureInv
<1> QED BY <1>0, <1>4, <1>5 DEF ArchitectureInv

(* The lock. *)

\* Until the lock of a live builder is removed, who has it or is about to is
\* named there, and nobody else works.
LockIsHeld ==
    \A b \in Builders :
        /\ builder[b].at \in Under \cup {"write"} => lock.build = builder[b].build
        /\ builder[b].at \in Under => lock.owner = b

LockInv ==
    /\ lock \in [owner : Builders \cup {NoOne}, build : Nat]
    /\ tally.stolen \/ (~tally.overlap /\ LockIsHeld)

\* Numbers tell builds apart, so that only one can have the lock.
LEMMA OneHasTheLock ==
    ASSUME ArchitectureInv, ~tally.overlap, LockIsHeld, NEW b \in Builders,
           builder[b].at \in Under \cup {"write"}
    PROVE  /\ lock.build # 0
           /\ \A c \in Builders \ {b} : builder[c].at \notin Under \cup {"write"}
<1>1. BuildersAreApart /\ IsSoundBuild(builder[b]) /\ tally.builds \in Nat
  BY DEF ArchitectureInv, AloneInv, ArchitectureTypeOK, Tallies
<1>2. \A c \in Builders : builder[c].at \in Under \cup {"write"} =>
         builder[c].at \in Numbered /\ lock.build = builder[c].build
  BY DEF LockIsHeld, Under, Numbered
<1>3. builder[b].build \in 1..tally.builds
  BY <1>1, <1>2 DEF IsSoundBuild
<1> QED BY <1>1, <1>2, <1>3 DEF BuildersAreApart

\* Steps that leave the lock alone.
LEMMA LockRests ==
    ASSUME ArchitectureInv, ~tally.overlap, LockIsHeld, NEW b \in Builders,
           UNCHANGED lock,
           \A c \in Builders \ {b} : builder'[c] = builder[c],
           builder'[b].at \in Under \cup {"write"} =>
               /\ builder[b].at \in Under \cup {"write"}
               /\ builder'[b].build = builder[b].build,
           builder'[b].at \in Under => builder[b].at \in Under
    PROVE  LockIsHeld'
  BY DEF LockIsHeld

LEMMA LockKept ==
    ASSUME ArchitectureInv, LockInv, [ArchitectureNext]_architectureVars
    PROVE  LockInv'
<1>0. lock' \in [owner : Builders \cup {NoOne}, build : Nat]
  <2>1. \A b \in Builders : builder[b].build \in Nat
    BY DEF ArchitectureInv, ArchitectureTypeOK, BuildRecords
  <2>2. NoLock \in [owner : Builders \cup {NoOne}, build : Nat]
    BY DEF NoLock
  <2>3. CASE UNCHANGED lock
    BY <2>3 DEF LockInv
  <2>4. ASSUME NEW b \in Builders, Open(b) \/ Unlink(b) \/ WriteOwner(b) \/ LeaveLock(b)
        PROVE  lock' \in [owner : Builders \cup {NoOne}, build : Nat]
    BY <2>1, <2>2, <2>4 DEF LockInv, Open, Unlink, WriteOwner, LeaveLock
  <2> QED
    BY <2>3, <2>4
    DEF ArchitectureNext, architectureVars, EditSource, WriteNote, Refresh, PlanBuild,
        WriteMap, Snapshot, EnterLock, TakeCached, AskSummary, Flush, Synthesise,
        Fails, Verify, Replace, MovePointer, BuilderDies, StartAgain
<1>1. CASE tally.stolen
  <2>1. tally'.stolen
    <3>1. tally \in Tallies
      BY DEF ArchitectureInv, ArchitectureTypeOK
    <3>2. CASE UNCHANGED tally
      BY <1>1, <3>2
    <3>3. ASSUME NEW b \in Builders, Unlink(b) PROVE tally'.stolen
      BY <1>1, <3>1, <3>3 DEF Unlink, Tallies
    <3>4. ASSUME NEW b \in Builders, PlanBuild(b) \/ WriteOwner(b) PROVE tally'.stolen
      BY <1>1, <3>1, <3>4 DEF PlanBuild, WriteOwner, Tallies
    <3>5. ASSUME NEW p \in SourceFiles, EditSource(p) PROVE tally'.stolen
      BY <1>1, <3>1, <3>5 DEF EditSource, Tallies
    <3> QED
      BY <3>2, <3>3, <3>4, <3>5
      DEF ArchitectureNext, architectureVars, WriteNote, Refresh, WriteMap, Snapshot,
          Open, EnterLock, TakeCached, AskSummary, Flush, Synthesise, Fails, Verify,
          Replace, MovePointer, LeaveLock, BuilderDies, StartAgain
  <2> QED BY <1>0, <2>1 DEF LockInv
<1>2. CASE ~tally.overlap /\ LockIsHeld
  <2> SUFFICES \/ tally'.stolen
               \/ UNCHANGED tally.overlap /\ LockIsHeld'
    BY <1>0, <1>2 DEF LockInv
  <2>0. /\ builder \in [Builders -> BuildRecords] /\ tally \in Tallies
        /\ Resting.at = "idle"
        /\ [Resting EXCEPT !.at = "dead"].at = "dead"
    BY RestingIsBuild DEF ArchitectureInv, ArchitectureTypeOK, BuildRecords
  <2>b. \A b \in Builders : builder[b] \in BuildRecords
    BY <2>0
  <2>1. CASE UNCHANGED <<lock, builder, tally>>
    BY <1>2, <2>1 DEF LockIsHeld
  <2>2. ASSUME NEW p \in SourceFiles, EditSource(p)
        PROVE  UNCHANGED tally.overlap /\ LockIsHeld'
    BY <1>2, <2>0, <2>2 DEF EditSource, Tallies, LockIsHeld
  <2>3. ASSUME NEW b \in Builders,
               \/ Refresh(b) \/ PlanBuild(b) \/ WriteMap(b) \/ Snapshot(b)
               \/ BuilderDies(b) \/ StartAgain(b)
        PROVE  UNCHANGED tally.overlap /\ LockIsHeld'
    <3>1. UNCHANGED lock /\ UNCHANGED tally.overlap
      BY <2>0, <2>3
      DEF Refresh, PlanBuild, WriteMap, Snapshot, BuilderDies, StartAgain, Tallies
    <3>2. \A c \in Builders \ {b} : builder'[c] = builder[c]
      BY <2>0, <2>3
      DEF Refresh, PlanBuild, WriteMap, Snapshot, BuilderDies, StartAgain, Go, GivesUp
    <3>3. builder'[b].at \in {"idle", "map", "own map", "snapshot", "open", "dead"}
      <4>1. CASE Refresh(b)
        BY <2>0, <2>b, <4>1 DEF Refresh, BuildRecords
      <4>2. CASE PlanBuild(b)
        <5>1. PICK r : builder' = [builder EXCEPT ![b] = [r EXCEPT !.known = cached]]
                       /\ r = [Resting EXCEPT !.at = "own map", !.build = tally.builds + 1,
                               !.planned = SeenNow, !.files = SeenNow]
          BY <4>2 DEF PlanBuild
        <5> QED BY <2>0, <5>1 DEF Resting
      <4>3. CASE WriteMap(b)
        BY <2>0, <2>b, <4>3 DEF WriteMap, Go, GivesUp, BuildRecords
      <4>4. CASE Snapshot(b)
        <5>1. PICK files : builder' = [builder EXCEPT ![b].at = "open", ![b].files = files,
                                                      ![b].planned = <<>>]
                           \/ GivesUp(b)
          BY <4>4 DEF Snapshot
        <5> QED BY <2>0, <2>b, <5>1 DEF GivesUp, BuildRecords
      <4>5. CASE BuilderDies(b) \/ StartAgain(b)
        BY <2>0, <4>5 DEF BuilderDies, StartAgain, GivesUp
      <4> QED BY <2>3, <4>1, <4>2, <4>3, <4>4, <4>5
    <3>4. builder'[b].at \notin Under \cup {"write"}
      BY <3>3 DEF Under
    <3> QED BY <1>2, <3>1, <3>2, <3>4, LockRests
  <2>4. ASSUME NEW b \in Builders,
               \/ EnterLock(b) \/ Flush(b) \/ Synthesise(b) \/ Fails(b) \/ Verify(b)
               \/ Replace(b) \/ MovePointer(b)
               \/ \E p \in SourceFiles : TakeCached(b, p) \/ AskSummary(b, p)
        PROVE  UNCHANGED tally.overlap /\ LockIsHeld'
    <3>1. UNCHANGED lock /\ UNCHANGED tally.overlap
      BY <2>4
      DEF EnterLock, Flush, Synthesise, Fails, Verify, Replace, MovePointer,
          TakeCached, AskSummary
    <3>2. \A c \in Builders \ {b} : builder'[c] = builder[c]
      BY <2>0, <2>4
      DEF EnterLock, Flush, Synthesise, Fails, Verify, Replace, MovePointer,
          TakeCached, AskSummary, Go
    <3>3. builder[b].at \in Under
      BY <2>4
      DEF EnterLock, Flush, Synthesise, Fails, Verify, Replace, MovePointer,
          TakeCached, AskSummary, Under
    <3>4. builder'[b].build = builder[b].build
      <4>1. CASE EnterLock(b)
        BY <2>0, <2>b, <4>1 DEF EnterLock, BuildRecords
      <4>2. CASE Flush(b) \/ \E p \in SourceFiles : TakeCached(b, p) \/ AskSummary(b, p)
        BY <2>0, <2>b, <4>2 DEF Flush, TakeCached, AskSummary, BuildRecords
      <4>3. CASE Synthesise(b)
        BY <2>0, <2>b, <4>3 DEF Synthesise, BuildRecords
      <4>4. CASE Fails(b) \/ Verify(b) \/ Replace(b) \/ MovePointer(b)
        <5>1. \E to \in Stages : Go(b, to)
          BY <4>4 DEF Fails, Verify, Replace, MovePointer, Stages
        <5> QED BY <2>0, <2>b, <5>1 DEF Go, BuildRecords
      <4> QED BY <2>4, <4>1, <4>2, <4>3, <4>4
    <3> QED BY <1>2, <3>1, <3>2, <3>3, <3>4, LockRests
  <2>5. ASSUME NEW b \in Builders, Open(b)
        PROVE  UNCHANGED tally.overlap /\ LockIsHeld'
    <3>1. builder[b].at = "open" /\ UNCHANGED tally.overlap
      BY <2>5 DEF Open
    <3>2. CASE lock = NoLock /\ lock' = [owner |-> NoOne, build |-> builder[b].build]
               /\ Go(b, "write")
      <4>1. \A c \in Builders : builder[c].at \notin Under \cup {"write"}
        BY <1>2, <3>2, OneHasTheLock DEF NoLock
      <4>2. /\ \A c \in Builders \ {b} : builder'[c] = builder[c]
            /\ builder'[b].at = "write" /\ builder'[b].build = builder[b].build
        BY <2>0, <2>b, <3>2 DEF Go, BuildRecords
      <4>3. lock'.build = builder[b].build /\ "write" \notin Under
        BY <3>2 DEF Under
      <4> QED BY <3>1, <4>1, <4>2, <4>3 DEF LockIsHeld
    <3>3. CASE UNCHANGED lock /\ (GivesUp(b) \/ Go(b, "unlink"))
      <4>1. /\ \A c \in Builders \ {b} : builder'[c] = builder[c]
            /\ builder'[b].at \in {"idle", "unlink"}
        BY <2>0, <2>b, <3>3 DEF Go, GivesUp, BuildRecords
      <4>2. builder'[b].at \notin Under \cup {"write"}
        BY <4>1 DEF Under
      <4> QED BY <1>2, <3>1, <3>3, <4>1, <4>2, LockRests
    <3> QED BY <2>5, <3>2, <3>3 DEF Open
  <2>6. ASSUME NEW b \in Builders, Unlink(b)
        PROVE  tally'.stolen \/ (UNCHANGED tally.overlap /\ LockIsHeld')
    <3>1. CASE IsLive(lock) \/ HalfMade(lock)
      BY <2>0, <2>6, <3>1 DEF Unlink, Tallies
    <3>2. CASE ~IsLive(lock) /\ ~HalfMade(lock)
      <4>1. UNCHANGED tally.overlap
        BY <2>0, <2>6 DEF Unlink, Tallies
      <4>2. /\ \A c \in Builders \ {b} : builder'[c] = builder[c]
            /\ builder'[b].at \in {"idle", "open"}
        BY <2>0, <2>b, <2>6 DEF Unlink, GivesUp, BuildRecords
      <4>3. ASSUME NEW c \in Builders, builder[c].at \in Under \cup {"write"}
            PROVE  FALSE
        <5>1. lock.build = builder[c].build
          BY <1>2, <4>3 DEF LockIsHeld
        <5>2. CASE builder[c].at = "write"
          BY <3>2, <5>1, <5>2 DEF HalfMade
        <5>3. CASE builder[c].at \in Under
          <6>1. lock.owner = c /\ c # NoOne /\ builder[c].at # "dead"
            BY <1>2, <5>3, BuildersAssumption DEF LockIsHeld, Under
          <6> QED BY <3>2, <5>1, <6>1 DEF IsLive
        <5> QED BY <4>3, <5>2, <5>3
      <4>4. builder'[b].at \notin Under \cup {"write"}
        BY <4>2 DEF Under
      <4> QED BY <4>1, <4>2, <4>3, <4>4 DEF LockIsHeld
    <3> QED BY <3>1, <3>2
  <2>7. ASSUME NEW b \in Builders, WriteOwner(b)
        PROVE  UNCHANGED tally.overlap /\ LockIsHeld'
    <3>1. builder[b].at = "write"
      BY <2>7 DEF WriteOwner
    <3>2. /\ lock.build # 0 /\ lock.build = builder[b].build
          /\ \A c \in Builders \ {b} : builder[c].at \notin Under \cup {"write"}
      BY <1>2, <3>1, OneHasTheLock DEF LockIsHeld
    <3>3. lock # NoLock
      BY <3>2 DEF NoLock
    <3>4. lock' = [lock EXCEPT !.owner = b]
      BY <2>7, <3>2, <3>3 DEF WriteOwner
    <3>5. /\ \A c \in Builders \ {b} : builder'[c] = builder[c]
          /\ builder'[b].build = builder[b].build
      BY <2>0, <2>b, <2>7 DEF WriteOwner, Go, BuildRecords
    <3>6. UNCHANGED tally.overlap
      BY <2>0, <2>7, <3>2 DEF WriteOwner, Tallies
    <3>7. lock'.build = lock.build /\ lock'.owner = b
      BY <3>4 DEF LockInv
    <3> QED BY <3>2, <3>5, <3>6, <3>7 DEF LockIsHeld
  <2>8. ASSUME NEW b \in Builders, LeaveLock(b)
        PROVE  UNCHANGED tally.overlap /\ LockIsHeld'
    <3>1. builder[b].at = "leave" /\ UNCHANGED tally.overlap
      BY <2>8 DEF LeaveLock
    <3>2. \A c \in Builders \ {b} : builder[c].at \notin Under \cup {"write"}
      BY <1>2, <3>1, OneHasTheLock DEF Under
    <3>3. /\ \A c \in Builders \ {b} : builder'[c] = builder[c]
          /\ builder'[b].at = "idle"
      BY <2>0, <2>8 DEF LeaveLock, GivesUp
    <3>4. "idle" \notin Under \cup {"write"}
      BY DEF Under
    <3> QED BY <3>1, <3>2, <3>3, <3>4 DEF LockIsHeld
  <2>9. ASSUME NEW s \in Slugs, WriteNote(s)
        PROVE  UNCHANGED <<lock, builder, tally>>
    BY <2>9 DEF WriteNote
  <2> QED
    BY <2>1, <2>2, <2>3, <2>4, <2>5, <2>6, <2>7, <2>8, <2>9
    DEF ArchitectureNext, architectureVars
<1> QED BY <1>1, <1>2 DEF LockInv

\* Two builders are under the lock at once only if the lock of a live one was
\* removed, by one that had read the lock of a dead one.  Before that, no answer
\* is paid for twice, and a note written by hand is in the current generation
\* unless its node is gone.
THEOREM ArchitectureHolds == ArchitectureSpec => []ArchitectureIsSound
<1>0. ArchitectureInit => LockInv
  <2> SUFFICES ASSUME ArchitectureInit PROVE LockInv
    OBVIOUS
  <2>1. \A b \in Builders : builder[b].at = "idle"
    BY RestingIsBuild DEF ArchitectureInit
  <2> QED BY <2>1 DEF ArchitectureInit, LockInv, LockIsHeld, NoLock, Under
<1>1. ArchitectureInit => ArchitectureInv
  BY ArchitectureStarts
<1>2. ArchitectureInv /\ [ArchitectureNext]_architectureVars => ArchitectureInv'
  <2> SUFFICES ASSUME ArchitectureInv, [ArchitectureNext]_architectureVars
               PROVE  ArchitectureInv'
    OBVIOUS
  <2>1. CASE ArchitectureNext
    BY <2>1, SourcesChange, NotesChange, QuietBuilderSteps, PlanStep, WriteOwnerStep,
       FlushStep, ReplaceStep, MovePointerStep
    DEF ArchitectureNext
  <2>2. CASE UNCHANGED architectureVars
    <3>1. ArchitectureTypeOK'
      BY <2>2 DEF architectureVars, ArchitectureInv, ArchitectureTypeOK
    <3>2. ASSUME AloneInv PROVE AloneInv'
      <4>1. (\A c \in Builders : IsSoundBuild(builder[c]))'
        BY <2>2, <3>2 DEF architectureVars, AloneInv, IsSoundBuild, IsCarried, ItemOf
      <4> QED BY <2>2, <3>2, <4>1
              DEF architectureVars, AloneInv, BuildersAreApart, AnswersAreCached,
                  NotesArePlaced, GenerationsAreNumbered
    <3> QED BY <2>2, <3>1, <3>2 DEF architectureVars, ArchitectureInv
  <2> QED BY <2>1, <2>2
<1>3. ArchitectureInv /\ LockInv => ArchitectureIsSound
  <2> SUFFICES ASSUME ArchitectureInv, LockInv PROVE ArchitectureIsSound
    OBVIOUS
  <2>0. OneLiveWriter
    BY DEF LockInv, OneLiveWriter
  <2>1. CASE tally.overlap
    BY <2>0, <2>1 DEF ArchitectureIsSound, NeverPaidTwice, NotesAreKept
  <2>2. CASE AloneInv
    <3>1. NeverPaidTwice
      <4>1. DOMAIN paid = SourceFiles \X Texts
        BY DEF ArchitectureInv, ArchitectureTypeOK
      <4>2. ASSUME NEW x \in DOMAIN paid PROVE paid[x] <= 1
        <5>1. PICK p \in SourceFiles, t \in Texts : x = <<p, t>>
          BY <4>1
        <5> QED BY <2>2, <5>1 DEF AloneInv, AnswersAreCached
      <4> QED BY <4>2 DEF NeverPaidTwice
    <3>2. NotesAreKept
      BY <2>2 DEF AloneInv, NotesArePlaced, NotesAreKept
    <3> QED BY <2>0, <3>1, <3>2 DEF ArchitectureIsSound
  <2> QED BY <2>1, <2>2 DEF ArchitectureInv
<1>4. ArchitectureInv /\ LockInv /\ [ArchitectureNext]_architectureVars => LockInv'
  BY LockKept
<1> QED BY <1>0, <1>1, <1>2, <1>3, <1>4, PTL DEF ArchitectureSpec

-----------------------------------------------------------------------------
(* The parts together. *)

\* A state directory that is moved, and an old one that is imported, end up whole,
\* with any number of processes starting or importing at once.
THEOREM MovesStayWhole == HomeSpec /\ ImportSpec => []MovesAreWhole
<1>1. PathsFollowHome /\ ImportIsWhole => MovesAreWhole
  BY DEF MovesAreWhole
<1> QED BY <1>1, PathsStayHome, ImportsAreWhole, PTL

\* Memories, evidence, side notes and the architecture map stay sound together,
\* with any number of threads, clients and builders between an answer and its effect.
THEOREM NotesStaySound ==
    MemoriesSpec /\ CatalogSpec /\ NotesSpec /\ ArchitectureSpec => []NotesAreSound
<1>1. MemoriesAreKept /\ EvidenceIsHonest /\ NotesAreCurrent /\ ArchitectureIsSound
      => NotesAreSound
  BY DEF NotesAreSound
<1> QED BY <1>1, MemoriesHold, CatalogHolds, NotesHold, ArchitectureHolds, PTL
=============================================================================
