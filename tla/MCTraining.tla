----------------------------- MODULE MCTraining -----------------------------
(* One phone and two codes; each plugin in turn is the one that trains.    *)
EXTENDS Training
=============================================================================
