------------------------- MODULE MCSubscriptionSync -------------------------
(* Instances of SubscriptionSync for TLC.                                  *)
EXTENDS SubscriptionSync, TLC

CONSTANTS a1, a2, a3, s1, s2, w1

(* a3 is a1 with another protocol. *)
MixedPort == [a \in Addresses |-> IF a = a3 THEN a1 ELSE a]
OwnPorts == [a \in Addresses |-> a]

ShortLists == {<<a1>>, <<a1, a2>>}
SomeOrNone == {<<>>, <<a1>>}
(* Nothing but its name tells one subscription from another. *)
SubSymmetry == Permutations(Subs)

MixedLists == {<<a1, a2>>, <<a2>>, <<a3>>}
=============================================================================
