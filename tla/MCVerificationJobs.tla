------------------------- MODULE MCVerificationJobs -------------------------
(* One verification of three samples, or two of one phone's or of two.     *)
EXTENDS VerificationJobs
=============================================================================
