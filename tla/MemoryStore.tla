----------------------------- MODULE MemoryStore -----------------------------
(***************************************************************************)
(* The memories of one project: a file that several terminals read, and    *)
(* write as a whole under its lock.  Users and the model write entries of  *)
(* their own; what is extracted from a conversation has keys of its own    *)
(* and may name an entry it brings up to date.                             *)
(***************************************************************************)
EXTENDS Integers, FiniteSets

CONSTANTS
    Terminals,      \* processes with the project open
    HandKeys,       \* ids of entries written by hand or by memory_write
    AutoKeys,       \* ids of the keys "auto:<name>"
    Contents,       \* contents, as far as they differ
    MaxChanges      \* bounds the entries written and forgotten

Keys == HandKeys \cup AutoKeys
Unlocked == "nobody"

ASSUME MemoriesAssumption ==
    /\ HandKeys \cap AutoKeys = {} /\ Unlocked \notin Terminals
    /\ MaxChanges \in Nat

VARIABLES
    memories,   \* the file: [key |-> entry or NoEntry]
    terminal,   \* [terminal |-> what it does, with what it has read]
    holder,     \* of the lock of the file
    due,        \* ghost: what the file must hold when the lock is free
    changes     \* how often it was changed

storeVars == <<memories, terminal, holder, due, changes>>

NoEntry == [kind |-> "none", text |-> "none"]
AtPrompt == [does |-> "nothing", key |-> "none", entry |-> NoEntry,
             file |-> <<>>]

MemoriesInit ==
    /\ memories = [k \in Keys |-> NoEntry]
    /\ terminal = [p \in Terminals |-> AtPrompt]
    /\ holder = Unlocked /\ due = memories /\ changes = 0

Has(k) == memories[k] # NoEntry
BecomesTerminal(p, record) == terminal' = [terminal EXCEPT ![p] = record]

\* /memory remember and memory_write.
Remember(p) ==
    /\ terminal[p].does = "nothing" /\ changes < MaxChanges
    /\ \E k \in HandKeys, text \in Contents :
         BecomesTerminal(p, [AtPrompt EXCEPT !.does = "adds", !.key = k,
                             !.entry = [kind |-> "explicit", text |-> text]])
    /\ changes' = changes + 1
    /\ UNCHANGED <<memories, holder, due>>

\* _store_extracted: the entry that is to be brought up to date is read
\* without the lock, and only one that was extracted too lends its key.
KeyFor(own, named) ==
    IF memories[named].kind = "auto_extract" THEN named ELSE own

StoreExtracted(p) ==
    /\ terminal[p].does = "nothing" /\ changes < MaxChanges
    /\ \E own \in AutoKeys, named \in Keys, text \in Contents :
         BecomesTerminal(p, [AtPrompt EXCEPT !.does = "adds",
             !.key = KeyFor(own, named),
             !.entry = [kind |-> "auto_extract", text |-> text]])
    /\ changes' = changes + 1
    /\ UNCHANGED <<memories, holder, due>>

\* remove: the entry is looked up first, without the lock.
Forget(p) ==
    /\ terminal[p].does = "nothing" /\ changes < MaxChanges
    /\ \E k \in Keys :
         /\ Has(k)
         /\ BecomesTerminal(p, [AtPrompt EXCEPT !.does = "removes", !.key = k])
    /\ changes' = changes + 1
    /\ UNCHANGED <<memories, holder, due>>

\* The lock file of the store, across processes and threads.
Lock(p) == holder = Unlocked

\* The authority is read again under the lock; a file that is damaged ends
\* the change with an error, and so does an entry that has gone meanwhile.
ReadAuthority(p) ==
    /\ terminal[p].does \in {"adds", "removes"}
    /\ Lock(p)
    /\ \/ /\ terminal[p].does = "adds" \/ Has(terminal[p].key)
          /\ holder' = p
          /\ BecomesTerminal(p, [terminal[p] EXCEPT
               !.does = "writes", !.file = memories])
       \/ BecomesTerminal(p, AtPrompt) /\ UNCHANGED holder
    /\ UNCHANGED <<memories, due, changes>>

\* _write replaces the file, or fails and leaves it.
WriteAuthority(p) ==
    /\ terminal[p].does = "writes"
    /\ LET k == terminal[p].key IN
       \/ /\ memories' = [terminal[p].file EXCEPT ![k] = terminal[p].entry]
          /\ due' = [due EXCEPT ![k] = terminal[p].entry]
       \/ UNCHANGED <<memories, due>>
    /\ holder' = Unlocked
    /\ BecomesTerminal(p, AtPrompt)
    /\ UNCHANGED changes

MemoriesNext ==
    \E p \in Terminals :
      \/ Remember(p) \/ StoreExtracted(p) \/ Forget(p)
      \/ ReadAuthority(p) \/ WriteAuthority(p)

MemoriesSpec == MemoriesInit /\ [][MemoriesNext]_storeVars

-----------------------------------------------------------------------------
\* Several terminals lose nothing: the file holds the last entry written of
\* each key that was not forgotten, and no extraction replaces an entry that
\* was written by hand (MemoryStore.add, Session._store_extracted).
MemoriesAreKept ==
    /\ memories = due
    /\ \A k \in HandKeys : memories[k].kind # "auto_extract"
=============================================================================
