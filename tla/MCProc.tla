-------------------------------- MODULE MCProc ------------------------------
(* Three slots, the idle process included, and a stack for each of them.   *)
EXTENDS Proc

CONSTANTS s1, s2, s3
=============================================================================
