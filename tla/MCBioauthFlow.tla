--------------------------- MODULE MCBioauthFlow ---------------------------
(* One extension and one phone of one user; the cfg files vary how often   *)
(* each connects, how many RPCs it issues and what may go wrong.           *)
EXTENDS BioauthFlow
=============================================================================
