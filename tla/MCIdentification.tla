--------------------------- MODULE MCIdentification ---------------------------
(* A user of the provider and one of another, in a small index.              *)
EXTENDS Identification
\* The first cluster has two buckets, the second one.
SmallIndex == {<<1, 1>>, <<1, 2>>, <<2, 1>>}
=============================================================================
