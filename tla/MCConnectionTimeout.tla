------------------------ MODULE MCConnectionTimeout ------------------------
(* Two connections of one process, and checks that find one of them early. *)
EXTENDS ConnectionTimeout
=============================================================================
