------------------------------ MODULE MCUsage ------------------------------
(* Instances of Usage for TLC.                                             *)
EXTENDS Usage, TLC

CONSTANTS u1, u2, n1, r1, r2

(* u1 has a quota of two units; another user is not limited.               *)
MCQuota == [u \in Users |-> IF u = u1 THEN 2 ELSE 0]

(* An upload with its answer, an answer alone and an empty exchange, which *)
(* is counted as a request but leaves the bytes at 0.                      *)
MCLoads == {[up |-> 1, down |-> 1], [up |-> 0, down |-> 2], [up |-> 0, down |-> 0]}

(* One amount only, where the order of the steps is what matters.          *)
MCOneLoad == {[up |-> 1, down |-> 1]}

RequestSymmetry == Permutations(Requests)
=============================================================================
