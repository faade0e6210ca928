---------------------------- MODULE MCSessionStore ----------------------------
(***************************************************************************)
(* Small instances of SessionStore for TLC.                                *)
(***************************************************************************)
EXTENDS SessionStore

CONSTANTS p1, p2

\* Both processes on one host, or the second one on the other host.
MCLayouts == {{}, {p2}}
=============================================================================
