-------------------------- MODULE MCSessionManager --------------------------
(* A few sessions of one process that may restart.                         *)
EXTENDS SessionManager
=============================================================================
