------------------------------ MODULE MCStores ------------------------------
(***************************************************************************)
(* What is kept on disk, in parts that share no state: a behaviour takes   *)
(* the steps of one part and the others rest in their initial states.  The *)
(* catalogue and what is asked on the side are looked at twice.            *)
(* MCSessionController checks them beside the controller.                  *)
(***************************************************************************)
EXTENDS HomeMove, LegacyImport, ShadowJournal, RewindCommand,
        ArchitectureMap, ModelCatalog, MemoryStore, SideNotes

VARIABLE part

\* The name of one home begins that of another, and a path beside it.
MCPrefixOf == {<<"h1", "h2">>, <<"h1", "w">>}

ThirdHome == "h3"

FirstChat == CHOOSE c \in Chats : TRUE
FirstThread == CHOOSE t \in Threads : TRUE
FirstJob == CHOOSE j \in Jobs : TRUE
FirstStarter == CHOOSE p \in Starters : TRUE
FirstBuilder == CHOOSE b \in Builders : TRUE
FirstClient == CHOOSE c \in Clients : TRUE

StoreParts == {"home", "import", "shadow", "rewind", "architecture",
               "verdicts", "limits", "memories", "recap", "extraction"}

StoresInit ==
    /\ HomeInit /\ ImportInit /\ ShadowInit /\ RewindInit
    /\ ArchitectureInit /\ CatalogInit /\ MemoriesInit /\ NotesInit
    /\ part # "shadow" => shadow = "on"
    /\ part \notin {"verdicts", "limits"} => limit = 1
    /\ chat = FirstChat

\* The second process starts beside the first, and none beside another after
\* the directory was in the third place.
HomeBound ==
    /\ \A p \in Starters \ {FirstStarter} :
         starter[p].pc = "off" /\ starter'[p].pc # "off" =>
             starter[FirstStarter].pc # "off"
    /\ ThirdHome \in {place'} \cup Range(names') =>
         Cardinality({p \in Starters : starter'[p].pc # "off"}) <= 1

\* One event that is no message, except for what is copied; one branch of the
\* first session and one of that, whose journal is on.
ShadowBound ==
    LET made == Here(records)
        other(s) == SelectSeq(rows'[s].events, LAMBDA e : e.kind # "message") IN
    /\ \A s \in Here(rows') :
         Len(SelectSeq(other(s), LAMBDA e : e.key = NoKey)) <= 1
    /\ Cardinality(made) > 1 =>
         /\ rows'[Root] = rows[Root] /\ records'[Root] = records[Root]
         /\ live'.id # Root
    /\ Cardinality(made) = 2 /\ live'.id # Root =>
         /\ shadow' = "on"
         /\ Len(live'.messages) <= records[live'.id].forkedAt + 1
    /\ Cardinality(made) = 2 /\ made # Here(records') =>
         \E s \in Sessions : /\ records'[s] # Missing
                             /\ records'[s].parent \notin {Root, Missing}
    /\ Cardinality(made) = 3 => UNCHANGED shadowVars

\* Up to the first overlap; the second builder starts beside the first; one
\* refresh beside none, notes of one node which the first generation has; a
\* third build only for a dead one that left its lock before it asked for
\* anything.
ArchitectureBound ==
    /\ ~tally.overlap
    /\ \A b \in Builders \ {FirstBuilder} :
         builder[b].at = "idle" /\ builder'[b].at # "idle" =>
             builder[FirstBuilder].at # "idle"
    /\ \A b \in Builders : builder'[b].at = "map" =>
         \A c \in Builders \ {b} : builder'[c].at = "idle"
    /\ Len(generations') = 1 => "n" \in generations'[1].nodes
    /\ \A w \in written' : w.slug = "n"
    /\ tally'.builds = MaxBuilds => tally'.writes = 0 /\ cached' = {}
         /\ \A b \in Builders : builder'[b].at \notin {"answered", "verify"}

\* The second client starts beside the first.
ClientBound ==
    \A c \in Clients \ {FirstClient} :
        IdleClient(c) /\ client'[c] # client[c] => ~IdleClient(FirstClient)

\* What a route can do, with no sizes.
VerdictsBound ==
    /\ ClientBound
    /\ known'.seen = 0 /\ known'.rejectAt = 0 /\ known'.context = 0
    /\ \A c \in Clients : client'[c].does # "climbs"

\* How much it takes, of a route that is listed and not probed otherwise.
LimitsBound ==
    /\ ClientBound
    /\ known'.status = known.status /\ known'.tools = known.tools
    /\ known'.streak = 0 /\ known'.listed
    /\ \A c \in Clients : client'[c].does \notin {"probes", "clears"}

\* Recaps of the first chat, which tell of it once after each prompt or by
\* what waits; the second thread starts beside the first; nothing is extracted
\* or cleared.
RecapBound ==
    /\ UNCHANGED <<drawing, entries>> /\ ~extractor'.compacted
    /\ \A c \in Chats \ {FirstChat} : asked'[c] = 0 /\ recapOf'[c] = NotTold
    /\ recapOf' = recapOf \/ ready # NoNote \/ asked' # asked
    /\ chat # FirstChat => writer' # writer \/ chat' # chat
    /\ asked'[FirstChat] >= asked[FirstChat]
    /\ \A t \in Threads : writer'[t].does = "firing" => focus = "away"
    /\ \A t \in Threads \ {FirstThread} :
         writer'[t].does \in {"firing", "trying"} =>
             writer[FirstThread].does \notin {"nothing", "firing", "trying"}

\* Memories of the first chat, one of which is kept, while no recap is written;
\* the second job starts as the first ends.
ExtractionBound ==
    /\ UNCHANGED <<focus, writer, ready, recapOf>>
    /\ \A c \in Chats \ {FirstChat} : asked'[c] = 0
    /\ Cardinality(entries') <= 1 /\ Cardinality(found') <= 1
    /\ chat' # FirstChat => extractor.thread # NoThread \/ chat # FirstChat
    /\ chat # FirstChat => drawing' # drawing \/ chat' # chat
    /\ extractor'.compacted => asked'[FirstChat] = MaxAsked
    /\ \A j \in Jobs \ {FirstJob} : drawing'[j] # NoRequest =>
         drawing[FirstJob].does \in {"unbinding", "handing"} \/ drawing[j] # NoRequest

\* One part moves, the others rest.
Rest(moving) ==
    /\ moving # "home" => UNCHANGED homeVars
    /\ moving # "import" => UNCHANGED importVars
    /\ moving # "shadow" => UNCHANGED shadowVars
    /\ moving # "rewind" => UNCHANGED rewindVars
    /\ moving # "architecture" => UNCHANGED architectureVars
    /\ moving # "catalog" => UNCHANGED catalogVars
    /\ moving # "memories" => UNCHANGED storeVars
    /\ moving # "notes" => UNCHANGED notesVars

StoresNext ==
    \/ part = "home" /\ HomeNext /\ HomeBound /\ Rest("home")
    \/ part = "import" /\ ImportNext /\ Rest("import")
    \/ part = "shadow" /\ ShadowNext /\ ShadowBound /\ Rest("shadow")
    \/ part = "rewind" /\ RewindNext /\ Rest("rewind")
    \/ part = "architecture" /\ ArchitectureNext /\ ArchitectureBound
       /\ Rest("architecture")
    \/ part = "verdicts" /\ CatalogNext /\ VerdictsBound /\ Rest("catalog")
    \/ part = "limits" /\ CatalogNext /\ LimitsBound /\ Rest("catalog")
    \/ part = "memories" /\ MemoriesNext /\ Rest("memories")
    \/ part = "recap" /\ NotesNext /\ RecapBound /\ Rest("notes")
    \/ part = "extraction" /\ NotesNext /\ ExtractionBound /\ Rest("notes")

-----------------------------------------------------------------------------
\* What moves from one place to another arrives whole: the paths in a home
\* that was copied, and what was kept in the files of older versions.
MovesAreWhole == PathsFollowHome /\ ImportIsWhole

\* What is said of the past is so: a branch has the messages it was made at,
\* and a rewind says what it did.
HistoryIsHonest == BranchIsFaithful /\ RewindIsHonest

\* What is written down to be used later was so when it was, and stays: maps
\* of a repository, evidence of a model, recaps and memories.
NotesAreSound ==
    /\ ArchitectureIsSound /\ EvidenceIsHonest
    /\ MemoriesAreKept /\ NotesAreCurrent
=============================================================================
