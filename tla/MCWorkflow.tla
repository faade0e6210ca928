---------------------------- MODULE MCWorkflow -----------------------------
EXTENDS Workflow

CONSTANTS n1, n2, n3

\* n2 reads the report of n1; n3 stands alone and comes late.
MCDeps == [n \in Nodes |-> IF n = n2 THEN {n1} ELSE {}]

\* The first routes share a gateway, and so do the second.
MCGateway == [n \in Nodes |-> <<"first", "second">>]
=============================================================================
