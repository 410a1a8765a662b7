--------------------------- MODULE MCWaitlistAdmin ---------------------------
(* Instances of WaitlistAdmin: two riders, two operators and two batches.  *)
EXTENDS WaitlistAdmin, TLC

CONSTANTS us, intl, o1, o2, b1, b2

(* Operators are alike, and so are batches.                                *)
Peers == Permutations(Operators) \cup Permutations(Runs)
=============================================================================
