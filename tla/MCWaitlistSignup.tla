------------------------- MODULE MCWaitlistSignup -------------------------
(* Instances of WaitlistSignup small enough for TLC.                       *)
EXTENDS WaitlistSignup, TLC

CONSTANTS r1, r2

Symmetry == Permutations(Requests)
===========================================================================
