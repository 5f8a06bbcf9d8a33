---------------------------- MODULE MCConnSlots ----------------------------
(* Instances of ConnSlots for TLC.                                         *)
EXTENDS ConnSlots, TLC

CONSTANTS r1, r2, r3, r4

RequestSymmetry == Permutations(Requests)
=============================================================================
