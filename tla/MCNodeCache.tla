---------------------------- MODULE MCNodeCache ----------------------------
(* Instances of NodeCache for TLC.                                         *)
EXTENDS NodeCache, TLC

CONSTANTS n1, n2, w1, w2, w3, s1, s2, north, south, west

(* The regions of one country, named like one of them, or nothing.         *)
MCPlaces ==
    {[country |-> IF r = Unknown THEN Unknown ELSE south, region |-> r] :
       r \in Regions \cup {Unknown}}

(* Nothing imported yet, or a node that was checked once.                  *)
Fresh == {None, Probed(NewRow(north), [country |-> south, region |-> north])}

(* A node that was checked once.                                           *)
Checked == {Probed(NewRow(north), [country |-> south, region |-> north])}

WorkerSymmetry == Permutations(Workers)
=============================================================================
