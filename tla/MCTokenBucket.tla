--------------------------- MODULE MCTokenBucket ----------------------------
(* A small instance of TokenBucket for TLC.                                *)
EXTENDS TokenBucket, TLC

Symmetric == Permutations(Ids)
=============================================================================
