---------------------------- MODULE MCSelector -----------------------------
(* Instances of Selector for TLC.                                          *)
EXTENDS Selector, TLC

CONSTANTS n1, n2, w1, w2, s1, s2, p1, p2, p3, north, south

(* The regions of one country, named like one of them, or nothing.         *)
MCPlaces ==
    {[country |-> IF r = Unknown THEN Unknown ELSE south, region |-> r] :
       r \in Regions \cup {Unknown}}

(* Countries that are regions of their own.                                *)
CityStates == {[country |-> r, region |-> r] : r \in Regions}

(* Nodes imported for the south and found in the north, region and country *)
(* of one name: only the expected region puts them in the south.           *)
Checked == {Probed(NewRow(south), [country |-> north, region |-> north])}

NoFilter == [region |-> Unknown, state |-> Unknown]
InRegion(r) == [region |-> r, state |-> Unknown]
InState(r) == [region |-> Unknown, state |-> r]

AllFilters == {NoFilter, InRegion(north), InRegion(south), InState(north)}
RegionFilters == {InRegion(north), InRegion(south)}

NorthSessions == [s \in Sessions |-> InRegion(north)]
SplitSessions == [s \in Sessions |-> IF s = s1 THEN InRegion(north) ELSE InRegion(south)]

SelectorSymmetry == Permutations(Picks) \cup Permutations(Nodes)
=============================================================================
