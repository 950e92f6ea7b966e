---------------------------- MODULE MCTokenBucket ----------------------------
(* TokenBucket on a small instance; Bucket.cfg gives the constants.  The   *)
(* run checks liveness, so no symmetry is declared.                        *)
EXTENDS TokenBucket
=============================================================================
