----------------------------- MODULE Difficulty -----------------------------
(***************************************************************************)
(* The target arithmetic of internal/miner/difficulty.go on numbers: a     *)
(* hash is its byte-reversed value read as a big-endian integer below      *)
(* HashSpace.  The code's HashSpace is 2^256; the byte-wise comparison of  *)
(* MeetsTarget is abstracted to the order of the numbers it compares.      *)
(***************************************************************************)
EXTENDS Naturals

CONSTANT HashSpace

ASSUME HashSpaceAssumption == HashSpace \in Nat \ {0}

\* (mutant) the quotient is cut to the target's width
ComputeTarget_Truncated(diff) == IF diff = 0 THEN 0 ELSE (HashSpace \div diff) % HashSpace

\* diff = 1 would need one bit more than the target has: the code saturates.
ComputeTarget(diff) ==
  IF diff = 0 THEN 0
  ELSE IF diff = 1 THEN HashSpace - 1
  ELSE HashSpace \div diff

MeetsTarget(pow, target) == pow <= target

=============================================================================
