------------------------- MODULE MCCheckpointRestore -------------------------
(***************************************************************************)
(* Small instances of CheckpointRestore for TLC.                           *)
(***************************************************************************)
EXTENDS CheckpointRestore
=============================================================================
