---------------------------- MODULE RewindCommand ----------------------------
(***************************************************************************)
(* zylab.py, cmd_rewind: back to a checkpoint, by a branch of the          *)
(* conversation, by restoring files, by both, or by a summary.  Each step  *)
(* is entered into the audit of the source session, and each entry may     *)
(* fail like the step itself; the user hears of the outcome and decides    *)
(* whether to try again.                                                   *)
(*                                                                         *)
(* How files are restored is CheckpointRestore, how a branch is made       *)
(* ShadowJournal and SessionStore.                                         *)
(***************************************************************************)
EXTENDS Sequences, SequencesExt

RewindActions == {"conversation", "branch", "code", "both", "summarize"}

VARIABLES
    step,           \* what cmd_rewind does next
    choice,         \* the action it was asked for
    audit,          \* checkpoint_audit of the source session, of this command
    said,           \* what the user was told of it
    done,           \* what it did: "branch", "stray branch" (made, but not
                    \* entered), "restored", "mixed"; "hidden": the branch in
                    \* hand could not be shown
    summary         \* does it cover the prefix, in memory and in the record?

rewindVars == <<step, choice, audit, said, done, summary>>

Forks(c) == c \in {"conversation", "branch", "both"}
Restores(c) == c \in {"code", "both"}

RewindInit ==
    /\ step = "prompt" /\ choice = "none" /\ audit = <<>> /\ said = {}
    /\ done = {} /\ summary = [memory |-> FALSE, disk |-> FALSE]

-----------------------------------------------------------------------------
(* The audit *)

\* _rewind_audit: entered into the record, then into the journal of the
\* controller, which may fail after the record was written.
Enter(kinds, kept) == audit' = IF kept THEN audit \o kinds ELSE audit

\* The handler at the end of the command.
CommandFails == step' = "over" /\ said' = said \cup {"failed"}

\* _rewind_committed_audit: what is done is done and told, whatever becomes of
\* the entry; a second one may say that the first is missing.
Committed(kind, part, next) ==
    /\ step' = next
    /\ \/ Enter(<<kind>>, TRUE) /\ said' = said \cup {part}
       \/ /\ \E kept, noted \in BOOLEAN :
               audit' = audit \o (IF kept THEN <<kind>> ELSE <<>>)
                              \o (IF noted THEN <<"audit failed">> ELSE <<>>)
          /\ said' = said \cup {part, "unaudited"}

-----------------------------------------------------------------------------
(* The command *)

\* No such checkpoint, no valid cutoff, or files that cannot be restored: found
\* before anything is done.
Unavailable ==
    /\ step = "prompt" /\ choice' \in RewindActions
    /\ step' = "over" /\ said' = {"failed"}
    /\ UNCHANGED <<audit, done, summary>>

Chosen ==
    /\ step = "prompt" /\ step' = "request" /\ choice' \in RewindActions
    /\ UNCHANGED <<audit, said, done, summary>>

\* Nothing is done that was not entered before.
AskRewind ==
    /\ step = "request"
    /\ \/ /\ Enter(<<"requested">>, TRUE) /\ UNCHANGED said
          /\ step' = IF Forks(choice) THEN "fork"
                     ELSE IF Restores(choice) THEN "restore" ELSE "summarize"
       \/ \E kept \in BOOLEAN : Enter(<<"requested">>, kept) /\ CommandFails
    /\ UNCHANGED <<choice, done, summary>>

\* fork_session_record: save, lease, record, switch; a branch whose switch
\* fails stays.
Fork ==
    /\ step = "fork" /\ step' = "forked"
    /\ done' = done \cup {"branch"}
    /\ UNCHANGED <<choice, audit, said, summary>>

ForkFails ==
    /\ step = "fork"
    /\ done' \in {done, done \cup {"stray branch"}}
    /\ \E kept \in BOOLEAN : Enter(<<"branch failed">>, kept)
    /\ CommandFails
    /\ UNCHANGED <<choice, summary>>

\* The switch has been committed; showing the branch fails, and this too is
\* entered and told as a branch that failed.
ShowBranchFails ==
    /\ step = "fork" /\ done' = done \cup {"branch", "hidden"}
    /\ \E kept \in BOOLEAN : Enter(<<"branch failed">>, kept)
    /\ CommandFails
    /\ UNCHANGED <<choice, summary>>

EnterBranch ==
    /\ step = "forked"
    /\ Committed("branch created", "branch",
                 IF Restores(choice) THEN "restore" ELSE "complete")
    /\ UNCHANGED <<choice, done, summary>>

\* authority.restore
Restore ==
    /\ step = "restore" /\ step' = "restored"
    /\ done' = done \cup {"restored"}
    /\ UNCHANGED <<choice, audit, said, summary>>

\* It failed and has put everything back; with a branch already made, that is
\* entered too.
RestoreFails ==
    /\ step = "restore"
    /\ LET both == choice = "both" IN
       \/ Enter(<<"restore failed">> \o (IF both THEN <<"partial">> ELSE <<>>),
                TRUE)
       \/ UNCHANGED audit
       \/ both /\ Enter(<<"restore failed">>, TRUE)
    /\ CommandFails
    /\ UNCHANGED <<choice, done, summary>>

\* It failed and could not put everything back: the report is told first of
\* all, whatever becomes of its entry, and asks not to try again.
RestorePartial ==
    /\ step = "restore" /\ step' = "over" /\ done' = done \cup {"mixed"}
    /\ \/ Enter(<<"restore partial">>, TRUE) /\ said' = said \cup {"mixed"}
       \/ /\ \E noted \in BOOLEAN :
               audit' = audit \o (IF noted THEN <<"audit failed">> ELSE <<>>)
          /\ said' = said \cup {"mixed", "unaudited"}
    /\ UNCHANGED <<choice, summary>>

EnterRestored ==
    /\ step = "restored" /\ Committed("restored", "restored", "complete")
    /\ UNCHANGED <<choice, done, summary>>

EnterCompleted ==
    /\ step = "complete" /\ Committed("completed", "completed", "over")
    /\ UNCHANGED <<choice, done, summary>>

\* summarize_to: a summary, none for it exists, or a failure of the request.
\* An entry that fails here fails the command, with nothing changed.
Summarize ==
    /\ step = "summarize"
    /\ \/ step' = "save" /\ summary' = [summary EXCEPT !.memory = TRUE]
          /\ UNCHANGED <<audit, said>>
       \/ /\ \E kind \in {"summarize failed", "summarize noop"} :
               \/ /\ Enter(<<kind>>, TRUE)
                  /\ step' = "over" /\ said' = said \cup {kind}
               \/ UNCHANGED audit /\ CommandFails
          /\ UNCHANGED summary
    /\ UNCHANGED <<choice, done>>

\* A summary that cannot be saved is taken back.
SaveSummary ==
    /\ step = "save"
    /\ \/ summary' = [summary EXCEPT !.disk = TRUE] /\ step' = "saved"
          /\ UNCHANGED said
       \/ CommandFails /\ summary' = [summary EXCEPT !.memory = summary.disk]
    /\ UNCHANGED <<choice, audit, done>>

EnterSummary ==
    /\ step = "saved" /\ Committed("summarized", "summarized", "over")
    /\ UNCHANGED <<choice, done, summary>>

RewindNext ==
    \/ Unavailable \/ Chosen \/ AskRewind \/ Fork \/ ForkFails
    \/ ShowBranchFails \/ EnterBranch
    \/ Restore \/ RestoreFails \/ RestorePartial \/ EnterRestored
    \/ EnterCompleted \/ Summarize \/ SaveSummary \/ EnterSummary

RewindSpec == RewindInit /\ [][RewindNext]_rewindVars

-----------------------------------------------------------------------------
(* Properties *)

Wanted == (IF Forks(choice) THEN {"branch"} ELSE {}) \cup
          (IF Restores(choice) THEN {"restored"} ELSE {})

\* Who only hears that the command failed may give it again: it has changed
\* neither files nor the session in hand, and no summary is there that the
\* record does not have.  One failure is different: a branch that cannot be
\* shown is in hand though its failure is told, and then nothing more is done.
\* Each part that was done is told, and each part that is told was done, even
\* when its entry is lost; nothing is done that was not entered before; and the
\* audit calls created and complete what is.
RewindIsHonest ==
    LET hidden == "hidden" \in done IN
    /\ hidden => done = {"branch", "hidden"} /\ said = {"failed"} /\ step = "over"
    /\ step = "over" /\ ~hidden =>
         /\ said = {"failed"} => done \subseteq {"stray branch"}
         /\ done \subseteq said \cup {"stray branch"}
         /\ said \cap {"branch", "restored", "mixed"} \subseteq done
    /\ step = "over" =>
         /\ summary.memory = summary.disk
         /\ "failed" \notin said /\ "mixed" \notin said => Wanted \subseteq done
    /\ done # {} \/ summary.memory => audit # <<>> /\ audit[1] = "requested"
    /\ Contains(audit, "branch created") => "branch" \in done /\ ~hidden
    /\ Contains(audit, "completed") => Wanted \subseteq done /\ "mixed" \notin done
=============================================================================
