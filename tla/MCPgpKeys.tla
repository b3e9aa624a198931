----------------------------- MODULE MCPgpKeys -----------------------------
(* A few calls for one address while its keys are made anew.               *)
EXTENDS PgpKeys
=============================================================================
