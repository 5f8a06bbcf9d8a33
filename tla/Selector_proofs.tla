-------------------------- MODULE Selector_proofs ---------------------------
(***************************************************************************)
(* Theorems about Selector for all sets of requests, sessions, filters and *)
(* nodes, and all bounds: what holds of NodeCache holds while requests     *)
(* pick, and what a request has read stays true of the nodes that no       *)
(* writer touched.                                                         *)
(***************************************************************************)
EXTENDS Selector, NodeCache_proofs

-----------------------------------------------------------------------------
(* Every step of Selector is one of NodeCache, or leaves it alone.         *)
LEMMA PickType ==
  ASSUME SelectorTypeOK, NEW p \in Picks
  PROVE  /\ p \in Active <=> pick[p] \in ActiveStates
         /\ p \in Active <=> pick[p].pc \in ActiveSteps
<1>1. pick[p] \in ActiveStates \cup EndStates \cup {New}
  BY DEF SelectorTypeOK
<1>2. \A x \in ActiveStates : x.pc \in ActiveSteps
  BY DEF ActiveStates
<1>3. \A x \in EndStates \cup {New} : x.pc \notin ActiveSteps
  BY DEF EndStates, New, ActiveSteps
<1> QED BY <1>1, <1>2, <1>3 DEF Active

LEMMA SetStickyRequests ==
  ASSUME TypeOK, NEW s, NEW n \in Nodes \cup {NoNode}, SetSticky(s, n)
  PROVE  Requests
<1>1. CASE s \in Sessions
  BY <1>1 DEF SetSticky, Requests
<1>2. CASE s \notin Sessions
  <2>1. UNCHANGED sticky
    BY <1>2 DEF SetSticky, TypeOK
  <2> QED BY <2>1 DEF SetSticky, Requests
<1> QED BY <1>1, <1>2

LEMMA PickFaultRequests == PickFault => Requests
  BY DEF PickFault, Requests, storeVars

LEMMA PickRequests ==
  ASSUME SelectorTypeOK, NEW p \in Picks, Pick(p) \/ PickFails(p)
  PROVE  Requests \/ UNCHANGED vars
<1>0. TypeOK
  BY DEF SelectorTypeOK
<1>1. CASE DropSticky(p)
  BY <1>0, <1>1, SetStickyRequests DEF DropSticky
<1>2. CASE BindSticky(p)
  <2>1. p \in Active
    BY <1>2 DEF BindSticky, PickPc, Active, ActiveSteps
  <2>2. pick[p].node \in Nodes \cup {NoNode}
    BY <2>1, PickType DEF ActiveStates
  <2> QED BY <1>0, <1>2, <2>2, SetStickyRequests DEF BindSticky
<1>3. CASE PickFails(p)
  BY <1>3, PickFaultRequests DEF PickFails, GetStickyFails, VerifyStickyFails,
     DropStickyFails, LoadNodeFails, CandidatesFail, BindStickyFails
<1> QED BY <1>1, <1>2, <1>3 DEF Pick, StartPick, GetSticky, VerifySticky, MatchNodeIDs,
     LoadNode, LoadEnd, Query

LEMMA ExpiresRequests ==
  ASSUME TypeOK, NEW s \in Sessions, StickyExpires(s)
  PROVE  Requests
  BY DEF StickyExpires, Requests

LEMMA SelectorStep ==
  ASSUME SelectorTypeOK, [SelectorNext]_selectorVars
  PROVE  [Next]_vars
<1>1. CASE UNCHANGED selectorVars
  BY <1>1 DEF selectorVars
<1>2. CASE WriteStep \/ RestartAll
  BY <1>2 DEF WriteStep, RestartAll, Next
<1>3. ASSUME NEW p \in Picks, Pick(p) \/ PickFails(p) PROVE [Next]_vars
  BY <1>3, PickRequests DEF Next
<1>4. ASSUME NEW s \in Sessions, StickyExpires(s) PROVE [Next]_vars
  BY <1>4, ExpiresRequests DEF Next, SelectorTypeOK
<1> QED BY <1>1, <1>2, <1>3, <1>4 DEF SelectorNext

-----------------------------------------------------------------------------
(* What a request knows.                                                   *)
LEMMA SameKnowing ==
  ASSUME UNCHANGED <<rows, cache, worker, history>>
  PROVE  /\ Quiet' = Quiet /\ Calm' = Calm /\ Hunted' = Hunted
         /\ UsableNodes' = UsableNodes /\ Knowing' = Knowing
<1>1. Quiet' = Quiet
  BY DEF Quiet, At
<1>2. Calm' = Calm
  BY <1>1 DEF Calm, history
<1>3. Hunted' = Hunted
  BY DEF Hunted
<1>4. UsableNodes' = UsableNodes
  BY DEF UsableNodes, HasRow, Usable
<1>5. ASSUME NEW x \in ActiveStates PROVE Knows(x)' <=> Knows(x)
  <2>1. \A n, row : Good(n, row, x)' <=> Good(n, row, x)
    BY <1>4 DEF Good, history
  <2>2. \A n : Entries(cache[n])' = Entries(cache[n])
    BY DEF Entries, Region
  <2> QED BY <1>2, <2>1, <2>2 DEF Knows, history
<1>6. Knowing' = Knowing
  BY <1>5 DEF Knowing
<1> QED BY <1>1, <1>2, <1>3, <1>4, <1>6

(* A step of a request that reads no set.                                  *)
LEMMA StillKnows ==
  ASSUME NEW x \in Knowing, NEW y \in ActiveStates,
         y.calm = x.calm, y.filter = x.filter, y.session = x.session,
         y.sole => x.sole,
         y.pc \in {"sticky", "verify", "drop", "bind"} => x.session \in Sessions,
         y.pc \in {"verify", "bind"} => y.node \in Nodes,
         y.todo \subseteq x.todo,
         \A z \in y.found : z \in x.found \/ Good(z[1], z[2], x),
         y.pc = "bind" => Good(y.node, y.row, x)
  PROVE  y \in Knowing
<1>1. Knows(x)
  BY DEF Knowing
<1>2. \A n, row : Good(n, row, x) <=> Good(n, row, y)
  BY DEF Good
<1>3. \A z \in y.found : Good(z[1], z[2], y)
  BY <1>1, <1>2 DEF Knows
<1>4. y.pc = "bind" => Good(y.node, y.row, y)
  BY <1>2
<1> QED BY <1>1, <1>3, <1>4 DEF Knows, Knowing

LEMMA GotoKnows ==
  ASSUME NEW x \in Knowing, NEW pc \in {"drop", "match", "query"},
         pc = "drop" => x.session \in Sessions
  PROVE  [x EXCEPT !.pc = pc] \in Knowing
<1> DEFINE y == [x EXCEPT !.pc = pc]
<1>1. x \in ActiveStates
  BY DEF Knowing
<1>2. y \in ActiveStates
  BY <1>1 DEF ActiveStates, ActiveSteps
<1>3. /\ y.pc = pc /\ y.calm = x.calm /\ y.filter = x.filter /\ y.session = x.session
      /\ y.sole = x.sole /\ y.todo = x.todo /\ y.found = x.found
  BY <1>1 DEF ActiveStates
<1> HIDE DEF y
<1>4. y \in Knowing
  BY <1>2, <1>3, StillKnows
<1> QED BY <1>4 DEF y

LEMMA StickyKnows ==
  ASSUME NEW x \in Knowing, x.pc = "sticky", NEW n \in Nodes \cup {NoNode}
  PROVE  [x EXCEPT !.pc = IF n = NoNode THEN "match" ELSE "verify", !.node = n] \in Knowing
<1> DEFINE y == [x EXCEPT !.pc = IF n = NoNode THEN "match" ELSE "verify", !.node = n]
<1>1. x \in ActiveStates /\ x.session \in Sessions
  BY DEF Knowing, Knows
<1>2. y \in ActiveStates
  BY <1>1 DEF ActiveStates, ActiveSteps
<1>3. /\ y.calm = x.calm /\ y.filter = x.filter /\ y.session = x.session
      /\ y.sole = x.sole /\ y.todo = x.todo /\ y.found = x.found /\ y.node = n
      /\ y.pc = IF n = NoNode THEN "match" ELSE "verify"
  BY <1>1 DEF ActiveStates
<1> HIDE DEF y
<1>4. y \in Knowing
  BY <1>1, <1>2, <1>3, StillKnows
<1> QED BY <1>4 DEF y

LEMMA BindKnows ==
  ASSUME NEW x \in Knowing, x.session \in Sessions, NEW n \in Nodes, NEW row \in Rows \cup {None},
         Good(n, row, x)
  PROVE  [x EXCEPT !.pc = "bind", !.node = n, !.row = row] \in Knowing
<1> DEFINE y == [x EXCEPT !.pc = "bind", !.node = n, !.row = row]
<1>1. x \in ActiveStates
  BY DEF Knowing
<1>2. y \in ActiveStates
  BY <1>1 DEF ActiveStates, ActiveSteps
<1>3. /\ y.calm = x.calm /\ y.filter = x.filter /\ y.session = x.session
      /\ y.sole = x.sole /\ y.todo = x.todo /\ y.found = x.found /\ y.node = n
      /\ y.row = row /\ y.pc = "bind"
  BY <1>1 DEF ActiveStates
<1> HIDE DEF y
<1>4. y \in Knowing
  BY <1>2, <1>3, StillKnows
<1> QED BY <1>4 DEF y

(* The sets name a node that no writer touched by the row that is stored.  *)
LEMMA MatchKnows ==
  ASSUME IInv, NEW x \in Knowing, NEW ids, ids = Members(x.filter)
  PROVE  [x EXCEPT !.pc = IF ids = {} THEN "query" ELSE "load", !.todo = ids] \in Knowing
<1> DEFINE y == [x EXCEPT !.pc = IF ids = {} THEN "query" ELSE "load", !.todo = ids]
<1>1. x \in ActiveStates /\ Knows(x)
  BY DEF Knowing
<1>2. ids \subseteq Nodes
  BY DEF Members, IInv, TypeOK
<1>3. y \in ActiveStates
  BY <1>1, <1>2 DEF ActiveStates, ActiveSteps
<1>4. /\ y.calm = x.calm /\ y.filter = x.filter /\ y.session = x.session
      /\ y.sole = x.sole /\ y.found = x.found /\ y.todo = ids /\ y.pc \in {"query", "load"}
  BY <1>1 DEF ActiveStates
<1> HIDE DEF y
<1>5. ids # {} => x.filter.state = Unknown
  BY DEF Members
<1>6. ASSUME NEW n \in ids, n \notin strayed, x.filter.region # Unknown
      PROVE  x.filter.region \in Entries(cache[n])
  <2>1. n \in index[x.filter.region]
    BY <1>6 DEF Members
  <2>2. x.filter.region \in Regions
    BY <1>1, <1>6, PicksAssumption DEF ActiveStates
  <2>3. RedisKnows(n)
    BY <1>2, <1>6 DEF IInv, NodeInv
  <2> QED BY <1>6, <2>1, <2>2, <2>3 DEF RedisKnows
<1>7. \A z \in y.found : Good(z[1], z[2], y)
  BY <1>1, <1>4 DEF Knows, Good
<1>8. Knows(y)
  BY <1>1, <1>4, <1>5, <1>6, <1>7 DEF Knows
<1> QED BY <1>3, <1>8 DEF Knowing, y

(* The cached row of such a node is the stored one.                        *)
LEMMA LoadKnows ==
  ASSUME IInv, NEW x \in Knowing, NEW n \in x.todo, CachedUsable(n)
  PROVE  Good(n, cache[n], x)
<1>1. x \in ActiveStates /\ Knows(x) /\ n \in Nodes
  BY DEF Knowing, ActiveStates
<1>2. SUFFICES ASSUME n \in x.calm
               PROVE  /\ n \in UsableNodes /\ cache[n] = rows[n]
                      /\ n \notin strayed => RowMatches(x.filter, cache[n])
  BY DEF Good
<1>3. n \in Quiet /\ n \notin dirty
  BY <1>1, <1>2 DEF Knows, Calm
<1>4. RedisKnows(n) /\ ~Pending(n)
  BY <1>1, <1>3 DEF IInv, NodeInv, Quiet, Pending
<1>5. cache[n] = rows[n] /\ HasRow(n)
  BY <1>3, <1>4 DEF RedisKnows, Stored, CachedUsable
<1>6. n \in UsableNodes
  BY <1>1, <1>5 DEF UsableNodes, CachedUsable
<1>7. ASSUME n \notin strayed PROVE RowMatches(x.filter, cache[n])
  <2>1. x.filter.state = Unknown
    BY <1>1 DEF Knows
  <2>2. x.filter.region # Unknown => x.filter.region \in Entries(cache[n])
    BY <1>1, <1>2, <1>7 DEF Knows
  <2> QED BY <2>1, <2>2 DEF RowMatches, Entries, Region
<1> QED BY <1>5, <1>6, <1>7

LEMMA FoundKnows ==
  ASSUME IInv, NEW x \in Knowing, x.pc = "load", NEW n \in x.todo
  PROVE  /\ [x EXCEPT !.todo = @ \ {n},
                      !.found = IF CachedUsable(n) THEN @ \cup {<<n, cache[n]>>} ELSE @]
               \in Knowing
         /\ [x EXCEPT !.todo = @ \ {n}] \in Knowing
<1> DEFINE found == IF CachedUsable(n) THEN x.found \cup {<<n, cache[n]>>} ELSE x.found
<1> DEFINE y == [x EXCEPT !.todo = @ \ {n}, !.found = found]
<1> DEFINE z == [x EXCEPT !.todo = @ \ {n}]
<1>1. x \in ActiveStates /\ n \in Nodes
  BY DEF Knowing, ActiveStates
<1>2. CachedUsable(n) => cache[n] \in Rows
  BY <1>1 DEF IInv, TypeOK, CachedUsable
<1>3. found \in SUBSET (Nodes \X Rows)
  BY <1>1, <1>2 DEF ActiveStates
<1>4. \A a \in found : a \in x.found \/ Good(a[1], a[2], x)
  BY LoadKnows
<1> HIDE DEF found
<1>5. y \in ActiveStates /\ z \in ActiveStates
  BY <1>1, <1>3 DEF ActiveStates
<1>6. /\ y.calm = x.calm /\ y.filter = x.filter /\ y.session = x.session
      /\ y.sole = x.sole /\ y.todo = x.todo \ {n} /\ y.found = found /\ y.pc = x.pc
  BY <1>1 DEF ActiveStates
<1>7. /\ z.calm = x.calm /\ z.filter = x.filter /\ z.session = x.session
      /\ z.sole = x.sole /\ z.todo = x.todo \ {n} /\ z.found = x.found /\ z.pc = x.pc
  BY <1>1 DEF ActiveStates
<1> HIDE DEF y, z
<1>8. y \in Knowing
  BY <1>4, <1>5, <1>6, StillKnows
<1>9. z \in Knowing
  BY <1>5, <1>7, StillKnows
<1> QED BY <1>8, <1>9 DEF y, z, found

(* A step of a request that leaves the writers alone keeps what all know.  *)
Picking == [Picks -> ActiveStates \cup EndStates \cup {New}]

LEMMA Moved ==
  ASSUME SelectorTypeOK, PickInv, NEW p \in Picks, NEW y \in Knowing \cup EndStates,
         PickBecome(p, y), UNCHANGED <<rows, cache, worker, history>>
  PROVE  pick' \in Picking /\ PickInv'
<1>1. Knowing \subseteq ActiveStates
  BY DEF Knowing
<1>2. pick' \in Picking
  BY <1>1 DEF SelectorTypeOK, PickBecome, Picking
<1>3. pick'[p] = y /\ \A q \in Picks \ {p} : pick'[q] = pick[q]
  BY DEF SelectorTypeOK, PickBecome
<1>4. y \in EndStates => y.pc \notin ActiveSteps
  BY DEF EndStates, ActiveSteps
<1>5. \A q \in Active' : pick'[q] \in Knowing
  BY <1>3, <1>4 DEF Active, PickInv
<1>6. Knowing' = Knowing
  BY SameKnowing
<1> QED BY <1>2, <1>5, <1>6 DEF PickInv

LEMMA EndTypes ==
  /\ End("failed", NoNode, None) \in EndStates
  /\ \A n \in Nodes \cup {NoNode}, row \in Rows \cup {None} :
        End("picked", n, row) \in EndStates
  BY DEF End, EndStates

LEMMA UsableTypes ==
  ASSUME TypeOK, NEW n \in UsableNodes
  PROVE  n \in Nodes /\ rows[n] \in Rows
  BY HasRowType DEF UsableNodes

(* What Choose takes, when all that was found is good.                     *)
LEMMA Chosen ==
  ASSUME SelectorTypeOK, PickInv, NEW p \in Picks, pick[p] \in Knowing,
         NEW found \in SUBSET (Nodes \X Rows),
         \A a \in found : Good(a[1], a[2], pick[p]),
         Choose(p, found), UNCHANGED <<rows, cache, worker, history>>
  PROVE  pick' \in Picking /\ PickInv'
<1>1. PICK a \in found :
        PickBecome(p, IF pick[p].session = NoSession
                        THEN End("picked", a[1], a[2])
                        ELSE [pick[p] EXCEPT !.pc = "bind", !.node = a[1], !.row = a[2]])
  BY DEF Choose
<1>2. a[1] \in Nodes /\ a[2] \in Rows /\ Good(a[1], a[2], pick[p])
  OBVIOUS
<1>3. CASE pick[p].session = NoSession
  <2>1. End("picked", a[1], a[2]) \in EndStates
    BY <1>2, EndTypes
  <2> QED BY <1>1, <1>3, <2>1, Moved
<1>4. CASE pick[p].session # NoSession
  <2>1. pick[p].session \in Sessions
    BY <1>4 DEF Knowing, ActiveStates
  <2>2. [pick[p] EXCEPT !.pc = "bind", !.node = a[1], !.row = a[2]] \in Knowing
    BY <1>2, <2>1, BindKnows
  <2> QED BY <1>1, <1>4, <2>2, Moved
<1> QED BY <1>3, <1>4

LEMMA PickMoves ==
  ASSUME IInv, SelectorTypeOK, PickInv, NEW p \in Picks, Pick(p) \/ PickFails(p), ~StartPick(p)
  PROVE  pick' \in Picking /\ PickInv'
<1> USE DEF PickPc, PickGoto
<1>0. TypeOK
  BY DEF IInv
<1>a. pick[p] \in Knowing /\ pick[p] \in ActiveStates
  <2>1. pick[p].pc \in ActiveSteps
    BY DEF Pick, PickFails, GetSticky, VerifySticky, DropSticky, MatchNodeIDs, LoadNode,
       LoadEnd, Query, BindSticky, GetStickyFails, VerifyStickyFails, DropStickyFails,
       LoadNodeFails, CandidatesFail, BindStickyFails, ActiveSteps
  <2> QED BY <2>1 DEF Active, PickInv, Knowing
<1>b. Knows(pick[p])
  BY <1>a DEF Knowing
<1>c. UNCHANGED <<rows, cache, worker, history>>
  BY DEF Pick, PickFails, GetSticky, VerifySticky, DropSticky, MatchNodeIDs, LoadNode,
     LoadEnd, Query, BindSticky, GetStickyFails, VerifyStickyFails, DropStickyFails,
     LoadNodeFails, CandidatesFail, BindStickyFails, SetSticky, PickFault, vars, storeVars
<1>1. CASE GetSticky(p)
  <2>1. sticky[pick[p].session] \in Nodes \cup {NoNode}
    BY <1>0, <1>1, <1>b DEF GetSticky, Knows, TypeOK
  <2> DEFINE y == [pick[p] EXCEPT !.pc = IF sticky[pick[p].session] = NoNode
                                           THEN "match" ELSE "verify",
                                  !.node = sticky[pick[p].session]]
  <2>2. y \in Knowing
    BY <1>1, <1>a, <2>1, StickyKnows DEF GetSticky
  <2>3. PickBecome(p, y)
    BY <1>1 DEF GetSticky
  <2> QED BY <1>c, <2>2, <2>3, Moved
<1>2. CASE VerifySticky(p) /\ pick[p].node \in UsableNodes
  <2>1. End("picked", pick[p].node, rows[pick[p].node]) \in EndStates
    BY <1>0, <1>2, UsableTypes, EndTypes
  <2> QED BY <1>2, <1>c, <2>1, Moved DEF VerifySticky
<1>3. CASE (VerifySticky(p) /\ pick[p].node \notin UsableNodes) \/ VerifyStickyFails(p)
  <2>1. pick[p].session \in Sessions
    BY <1>3, <1>b DEF VerifySticky, VerifyStickyFails, Knows
  <2>2. [pick[p] EXCEPT !.pc = "drop"] \in Knowing
    BY <1>a, <2>1, GotoKnows
  <2>3. PickBecome(p, [pick[p] EXCEPT !.pc = "drop"])
    BY <1>3 DEF VerifySticky, VerifyStickyFails
  <2> QED BY <1>c, <2>2, <2>3, Moved
<1>4. CASE DropSticky(p) \/ DropStickyFails(p) \/ GetStickyFails(p)
  <2>1. [pick[p] EXCEPT !.pc = "match"] \in Knowing
    BY <1>a, GotoKnows
  <2>2. PickBecome(p, [pick[p] EXCEPT !.pc = "match"])
    BY <1>4 DEF DropSticky, DropStickyFails, GetStickyFails
  <2> QED BY <1>c, <2>1, <2>2, Moved
<1>5. CASE MatchNodeIDs(p)
  <2> DEFINE ids == Members(pick[p].filter)
  <2>1. [pick[p] EXCEPT !.pc = IF ids = {} THEN "query" ELSE "load", !.todo = ids] \in Knowing
    BY <1>a, MatchKnows
  <2>2. PickBecome(p, [pick[p] EXCEPT !.pc = IF ids = {} THEN "query" ELSE "load", !.todo = ids])
    BY <1>5 DEF MatchNodeIDs
  <2> QED BY <1>c, <2>1, <2>2, Moved
<1>6. ASSUME NEW n \in Nodes, LoadNode(p, n) \/ LoadNodeFails(p, n)
      PROVE  pick' \in Picking /\ PickInv'
  <2>1. n \in pick[p].todo /\ pick[p].pc = "load"
    BY <1>6 DEF LoadNode, LoadNodeFails
  <2> DEFINE y == [pick[p] EXCEPT
        !.todo = @ \ {n},
        !.found = IF CachedUsable(n) THEN @ \cup {<<n, cache[n]>>} ELSE @]
  <2> DEFINE z == [pick[p] EXCEPT !.todo = @ \ {n}]
  <2>2. y \in Knowing /\ z \in Knowing
    BY <1>a, <2>1, FoundKnows
  <2>3. PickBecome(p, y) \/ PickBecome(p, z)
    BY <1>6 DEF LoadNode, LoadNodeFails
  <2> HIDE DEF y, z
  <2> QED BY <1>c, <2>2, <2>3, Moved
<1>7. CASE LoadEnd(p) /\ pick[p].found = {}
  <2>1. [pick[p] EXCEPT !.pc = "query"] \in Knowing
    BY <1>a, GotoKnows
  <2> QED BY <1>7, <1>c, <2>1, Moved DEF LoadEnd
<1>8. CASE LoadEnd(p) /\ pick[p].found # {}
  <2>1. pick[p].found \in SUBSET (Nodes \X Rows)
    BY <1>a DEF ActiveStates
  <2>2. \A a \in pick[p].found : Good(a[1], a[2], pick[p])
    BY <1>b DEF Knows
  <2>3. Choose(p, pick[p].found)
    BY <1>8 DEF LoadEnd
  <2> QED BY <1>a, <1>c, <2>1, <2>2, <2>3, Chosen
<1>9. CASE Query(p)
  <2> DEFINE matches == {n \in UsableNodes : RowMatches(pick[p].filter, rows[n])}
  <2> DEFINE found == {<<n, rows[n]>> : n \in matches}
  <2>1. found \in SUBSET (Nodes \X Rows)
    BY <1>0, UsableTypes
  <2>2. \A a \in found : Good(a[1], a[2], pick[p])
    BY DEF Good
  <2>3. PickBecome(p, End("failed", NoNode, None)) \/ Choose(p, found)
    BY <1>9 DEF Query
  <2> HIDE DEF found
  <2> QED BY <1>a, <1>c, <2>1, <2>2, <2>3, Chosen, Moved, EndTypes
<1>10. CASE CandidatesFail(p)
  BY <1>10, <1>c, Moved, EndTypes DEF CandidatesFail
<1>11. CASE BindSticky(p) \/ BindStickyFails(p)
  <2>1. End("picked", pick[p].node, pick[p].row) \in EndStates
    BY <1>a, EndTypes DEF ActiveStates
  <2> QED BY <1>11, <1>c, <2>1, Moved DEF BindSticky, BindStickyFails
<1> QED BY <1>1, <1>2, <1>3, <1>4, <1>5, <1>6, <1>7, <1>8, <1>9, <1>10, <1>11 DEF Pick, PickFails

(* The history of the other requests is all that a new request touches.    *)
LEMMA LoseSole ==
  ASSUME NEW x \in Knowing
  PROVE  [x EXCEPT !.sole = FALSE] \in Knowing
<1> DEFINE y == [x EXCEPT !.sole = FALSE]
<1>1. x \in ActiveStates /\ Knows(x)
  BY DEF Knowing
<1>2. y \in ActiveStates
  BY <1>1 DEF ActiveStates
<1>3. /\ y.calm = x.calm /\ y.filter = x.filter /\ y.session = x.session
      /\ y.todo = x.todo /\ y.found = x.found /\ y.pc = x.pc
      /\ y.node = x.node /\ y.row = x.row
  BY <1>1 DEF ActiveStates
<1>4. y.sole = FALSE
  BY <1>1 DEF ActiveStates
<1> HIDE DEF y
<1>5. y \in Knowing
  BY <1>1, <1>2, <1>3, <1>4, StillKnows DEF Knows
<1> QED BY <1>5 DEF y

LEMMA NewKnows ==
  ASSUME NEW s \in Sessions \cup {NoSession}, NEW filter \in Filters, NEW b \in BOOLEAN,
         b => s \in Sessions
  PROVE  [pc |-> IF s = NoSession THEN "match" ELSE "sticky",
          session |-> s, filter |-> filter, node |-> NoNode, row |-> None,
          todo |-> {}, found |-> {}, calm |-> Calm, sole |-> b] \in Knowing
<1> DEFINE y == [pc |-> IF s = NoSession THEN "match" ELSE "sticky",
                 session |-> s, filter |-> filter, node |-> NoNode, row |-> None,
                 todo |-> {}, found |-> {}, calm |-> Calm, sole |-> b]
<1>1. y \in ActiveStates
  <2>1. Calm \subseteq Nodes
    BY DEF Calm, Quiet
  <2>2. filter \in [region : Regions \cup {Unknown}, state : Regions \cup {Unknown}]
    BY PicksAssumption
  <2> QED BY <2>1, <2>2 DEF ActiveStates, ActiveSteps
<1>2. Knows(y)
  BY DEF Knows
<1> QED BY <1>1, <1>2 DEF Knowing

LEMMA StartMoves ==
  ASSUME SelectorTypeOK, PickInv, NEW p \in Picks, StartPick(p)
  PROVE  pick' \in Picking /\ PickInv'
<1>1. PICK s \in Sessions \cup {NoSession}, filter \in Filters : Begin2(p, s, filter)
  BY PicksAssumption DEF StartPick
<1>2. Knowing' = Knowing
  BY SameKnowing DEF StartPick, vars, storeVars
<1>3. Knowing \subseteq ActiveStates
  BY DEF Knowing
<1> DEFINE b == s # NoSession /\ PicksOf(s) = {} /\ s \notin Hunted
<1>4. pick'[p] \in Knowing
  <2>1. b \in BOOLEAN /\ (b => s \in Sessions)
    OBVIOUS
  <2>2. pick'[p] = [pc |-> IF s = NoSession THEN "match" ELSE "sticky",
                    session |-> s, filter |-> filter, node |-> NoNode, row |-> None,
                    todo |-> {}, found |-> {}, calm |-> Calm, sole |-> b]
    BY <1>1 DEF Begin2
  <2> HIDE DEF b
  <2> QED BY <2>1, <2>2, NewKnows
<1>5. ASSUME NEW q \in Picks, q # p
      PROVE  pick'[q] = pick[q] \/ (q \in Active /\ pick'[q] = [pick[q] EXCEPT !.sole = FALSE])
  BY <1>1, <1>5 DEF Begin2, PicksOf
<1>6. ASSUME NEW q \in Picks, q # p, q \in Active PROVE pick'[q] \in Knowing
  <2>1. pick[q] \in Knowing
    BY <1>6 DEF PickInv
  <2> QED BY <1>5, <1>6, <2>1, LoseSole
<1>7. ASSUME NEW q \in Picks, q # p, q \notin Active
      PROVE  pick'[q] = pick[q] /\ pick[q].pc \notin ActiveSteps
  BY <1>5, <1>7 DEF Active
<1>8. pick' \in Picking
  <2>1. \A q \in Picks : pick'[q] \in ActiveStates \cup EndStates \cup {New}
    BY <1>3, <1>4, <1>6, <1>7 DEF SelectorTypeOK
  <2>2. pick' = [q \in Picks |-> pick'[q]]
    BY <1>1 DEF Begin2
  <2> QED BY <2>1, <2>2 DEF Picking
<1>9. \A q \in Active' : pick'[q] \in Knowing
  BY <1>4, <1>6, <1>7 DEF Active
<1> QED BY <1>2, <1>8, <1>9 DEF PickInv

LEMMA ExpiresMoves ==
  ASSUME SelectorTypeOK, PickInv, NEW s \in Sessions, StickyExpires(s)
  PROVE  pick' \in Picking /\ PickInv'
<1>1. Knowing' = Knowing /\ Knowing \subseteq ActiveStates
  BY SameKnowing DEF StickyExpires, Knowing
<1>2. ASSUME NEW q \in Active PROVE pick'[q] \in Knowing
  <2>1. pick[q] \in Knowing /\ q \in Picks
    BY <1>2 DEF PickInv, Active
  <2>2. pick'[q] \in {pick[q], [pick[q] EXCEPT !.sole = FALSE]}
    BY <2>1 DEF StickyExpires
  <2> QED BY <2>1, <2>2, LoseSole
<1>3. ASSUME NEW q \in Picks, q \notin Active
      PROVE  pick'[q] = pick[q] /\ pick[q].pc \notin ActiveSteps
  BY <1>3 DEF Active, StickyExpires, PicksOf
<1>4. pick' \in Picking
  <2>1. \A q \in Picks : pick'[q] \in ActiveStates \cup EndStates \cup {New}
    BY <1>1, <1>2, <1>3 DEF SelectorTypeOK
  <2>2. pick' = [q \in Picks |-> pick'[q]]
    BY DEF StickyExpires
  <2> QED BY <2>1, <2>2 DEF Picking
<1>5. \A q \in Active' : pick'[q] \in Knowing
  BY <1>2, <1>3 DEF Active
<1> QED BY <1>1, <1>4, <1>5 DEF PickInv

-----------------------------------------------------------------------------
(* What a step of a writer leaves alone: the nodes that it is not at, and  *)
(* the sessions that no cleanup has found.                                 *)
Spared ==
    /\ \A n \in Quiet \cap Quiet' : rows'[n] = rows[n]
    /\ \A n \in Quiet \cap Calm' : cache'[n] = cache[n]
    /\ strayed \subseteq strayed'
    /\ \A s \in Sessions \ Hunted : sticky'[s] = sticky[s]
    /\ \A s \in Hunted' \ Hunted : sticky[s] \notin Quiet

LEMMA NotQuiet ==
  ASSUME TypeOK, NEW w \in Workers, worker[w].pc # "idle"
  PROVE  worker[w].node \in Nodes \ Quiet /\ worker[w] # Idle
  BY BusyType DEF Quiet, Idle

LEMMA HitsKept ==
  ASSUME TypeOK, NEW w \in Workers, worker[w].pc # "idle", NEW x, Become(w, x),
         x = Idle \/ x.hits \subseteq worker[w].hits
  PROVE  Hunted' \subseteq Hunted
<1>1. worker[w] # Idle
  BY NotQuiet
<1>2. worker'[w] = x /\ \A v \in Workers \ {w} : worker'[v] = worker[v]
  BY DEF Become, TypeOK
<1> QED BY <1>1, <1>2 DEF Hunted

LEMMA SparedByStart ==
  ASSUME TypeOK, NEW w \in Workers, NEW n \in Nodes, Start(w, n)
  PROVE  Spared
<1>1. PICK pc, copy : Begin(w, n, pc, copy)
  BY DEF Start, StartCheck, StartToggle, StartDelete, Import
<1>2. worker'[w].node = n /\ worker'[w].hits = {}
  BY <1>1 DEF Begin
<1>3. n \notin Quiet'
  BY <1>2 DEF Quiet, At
<1>4. \A m \in Nodes \ {n} : rows'[m] = rows[m]
  BY DEF Start, StartCheck, StartToggle, StartDelete, Import, TypeOK
<1>5. UNCHANGED <<cache, sticky>> /\ strayed \subseteq strayed'
  BY <1>1 DEF Begin
<1>6. ASSUME NEW v \in Workers, v # w, worker'[v] # Idle
      PROVE  worker[v] # Idle /\ worker'[v].hits = worker[v].hits
  <2>1. CASE v \in At(n)
    <3>1. worker'[v] = [worker[v] EXCEPT !.alone = FALSE]
      BY <1>1, <1>6, <2>1 DEF Begin
    <3>2. worker[v] \in BusyStates /\ worker[v].node = n
      BY <2>1, AtType
    <3> QED BY <3>1, <3>2, NamesAssumption DEF BusyStates, Idle
  <2>2. CASE v \notin At(n)
    BY <1>1, <1>6, <2>2 DEF Begin
  <2> QED BY <2>1, <2>2
<1>7. Hunted' \subseteq Hunted
  BY <1>2, <1>6 DEF Hunted
<1> QED BY <1>3, <1>4, <1>5, <1>7 DEF Spared, Quiet

LEMMA SparedByWork ==
  ASSUME TypeOK, NEW w \in Workers, Work(w) \/ Fail(w)
  PROVE  Spared
<1> USE DEF Pc
<1> DEFINE m == worker[w].node
<1>0. worker[w].pc # "idle"
  BY DEF Work, Fail, CheckSucceeds, CheckFails, Toggle, Reread, DeleteRow, CacheLoad,
     CacheExec, Remove, CleanupKeys, CleanupGet, CleanupEnd, CleanupDel, SaveFails, CheckRefused,
     MarkFailureUnsaved, CacheLoadFails, CachingFails, CleanupGetFails, CleanupFails
<1>1. m \in Nodes \ Quiet /\ worker[w] # Idle /\ worker[w] \in BusyStates
  BY <1>0, NotQuiet, BusyType
<1>2. \A n \in Nodes \ {m} : rows'[n] = rows[n] /\ cache'[n] = cache[n]
  BY DEF Work, Fail, CheckSucceeds, CheckFails, Toggle, Save, Reread, DeleteRow, CacheLoad,
     CacheExec, Remove, CleanupKeys, CleanupGet, CleanupEnd, CleanupDel, SaveFails, CheckRefused,
     MarkFailureUnsaved, CacheLoadFails, CachingFails, CleanupGetFails, CleanupFails,
     storeVars, TypeOK
<1>3. strayed \subseteq strayed'
  BY DEF Work, Fail, CheckSucceeds, CheckFails, Toggle, Save, Reread, DeleteRow, CacheLoad,
     CacheExec, Remove, CleanupKeys, CleanupGet, CleanupEnd, CleanupDel, SaveFails, CheckRefused,
     MarkFailureUnsaved, CacheLoadFails, CachingFails, CleanupGetFails, CleanupFails,
     history
<1>4. CASE CleanupDel(w)
  <2>1. worker[w].hits \subseteq Hunted
    BY <1>1 DEF Hunted
  <2>2. \A s \in Sessions \ Hunted : sticky'[s] = sticky[s]
    BY <1>4, <2>1 DEF CleanupDel
  <2>3. Hunted' \subseteq Hunted
    BY <1>0, <1>4, HitsKept DEF CleanupDel
  <2> QED BY <1>1, <1>2, <1>3, <2>2, <2>3 DEF Spared, Quiet
<1>5. ASSUME NEW s \in Sessions, CleanupGet(w, s) PROVE Spared
  <2> DEFINE hits == IF sticky[s] = m THEN worker[w].hits \cup {s} ELSE worker[w].hits
  <2> DEFINE x == [worker[w] EXCEPT !.todo = @ \ {s}, !.hits = hits]
  <2>1. Become(w, x) /\ UNCHANGED sticky
    BY <1>5 DEF CleanupGet, storeVars
  <2>2. x.hits = hits
    BY <1>1 DEF BusyStates
  <2>3. worker'[w] = x /\ \A v \in Workers \ {w} : worker'[v] = worker[v]
    BY <2>1 DEF Become, TypeOK
  <2> HIDE DEF x
  <2>4. \A t \in Hunted' : t \in Hunted \/ t \in hits
    BY <2>2, <2>3 DEF Hunted
  <2>5. \A t \in Hunted' \ Hunted : t = s /\ sticky[s] = m
    BY <1>1, <2>4 DEF Hunted
  <2> QED BY <1>1, <1>2, <1>3, <2>1, <2>5 DEF Spared, Quiet
<1>6. CASE ~CleanupDel(w) /\ ~(\E s \in Sessions : CleanupGet(w, s))
  <2>1. UNCHANGED sticky
    BY <1>6 DEF Work, Fail, CheckSucceeds, CheckFails, Toggle, Save, Reread, DeleteRow,
       CacheLoad, CacheExec, Remove, CleanupKeys, CleanupEnd, SaveFails, CheckRefused, MarkFailureUnsaved,
       CacheLoadFails, CachingFails, CleanupGetFails, CleanupFails, storeVars
  <2>2. PICK x : Become(w, x) /\ (x = Idle \/ x.hits = worker[w].hits)
    <3>1. \A row : [worker[w] EXCEPT !.pc = "load", !.copy = row].hits = worker[w].hits
      BY <1>1 DEF BusyStates
    <3>2. \A pc : [worker[w] EXCEPT !.pc = pc].hits = worker[w].hits
      BY <1>1 DEF BusyStates
    <3>3. \A row : [worker[w] EXCEPT !.pc = "exec", !.prev = row].hits = worker[w].hits
      BY <1>1 DEF BusyStates
    <3>4. \A ss : [worker[w] EXCEPT !.pc = "scan", !.todo = ss].hits = worker[w].hits
      BY <1>1 DEF BusyStates
    <3>5. \A row : [worker[w] EXCEPT !.pc = "load", !.copy = row, !.alone = FALSE].hits
                     = worker[w].hits
      BY <1>1 DEF BusyStates
    <3>6. \A s : [worker[w] EXCEPT !.todo = @ \ {s}].hits = worker[w].hits
      BY <1>1 DEF BusyStates
    <3>7. CASE Fail(w)
      BY <3>2, <3>5, <3>6, <3>7 DEF Fail, SaveFails, CheckRefused, MarkFailureUnsaved, CacheLoadFails,
         CachingFails, CleanupGetFails, CleanupFails, Goto
    <3>8. CASE Reread(w) \/ CacheLoad(w) \/ CleanupKeys(w) \/ CleanupEnd(w)
      BY <3>1, <3>2, <3>3, <3>4, <3>8 DEF Reread, CacheLoad, CleanupKeys, CleanupEnd, Goto
    <3>9. CASE CheckSucceeds(w) \/ CheckFails(w) \/ Toggle(w)
      BY <3>1, <3>9 DEF CheckSucceeds, CheckFails, Toggle, Save
    <3>10. CASE DeleteRow(w) \/ CacheExec(w) \/ Remove(w)
      BY <3>2, <3>10 DEF DeleteRow, CacheExec, Remove, Goto
    <3> QED BY <1>6, <3>7, <3>8, <3>9, <3>10 DEF Work
  <2>3. Hunted' \subseteq Hunted
    BY <1>0, <2>2, HitsKept
  <2> QED BY <1>1, <1>2, <1>3, <2>1, <2>3 DEF Spared, Quiet
<1> QED BY <1>4, <1>5, <1>6

LEMMA WriteSpares ==
  ASSUME TypeOK, Write
  PROVE  Spared
<1>1. ASSUME NEW n \in Nodes, CacheExpires(n) PROVE Spared
  <2>1. n \notin Calm'
    BY <1>1 DEF CacheExpires, Disturb, Calm
  <2>2. /\ UNCHANGED <<rows, sticky, worker>> /\ strayed \subseteq strayed'
        /\ \A m \in Nodes \ {n} : cache'[m] = cache[m]
    BY <1>1 DEF CacheExpires, TypeOK
  <2>3. Hunted' = Hunted
    BY <2>2 DEF Hunted
  <2> QED BY <2>1, <2>2, <2>3 DEF Spared, Quiet, Calm
<1> QED BY <1>1, SparedByStart, SparedByWork DEF Write

(* A step of a writer shrinks what a request knows, and none of it becomes *)
(* wrong.                                                                  *)
LEMMA WatchKnows ==
  ASSUME Spared, NEW x \in Knowing, NEW c, c = Calm', NEW b \in BOOLEAN
  PROVE  [x EXCEPT !.calm = @ \cap c, !.sole = @ /\ b] \in Knowing'
<1> DEFINE y == [x EXCEPT !.calm = @ \cap c, !.sole = @ /\ b]
<1>1. x \in ActiveStates /\ Knows(x)
  BY DEF Knowing
<1>2. y \in ActiveStates
  <2>1. (x.sole /\ b) \in BOOLEAN
    OBVIOUS
  <2>2. x.calm \cap c \in SUBSET Nodes
    BY <1>1 DEF ActiveStates
  <2> QED BY <1>1, <2>1, <2>2 DEF ActiveStates
<1>3. /\ y.filter = x.filter /\ y.session = x.session /\ y.todo = x.todo
      /\ y.found = x.found /\ y.pc = x.pc /\ y.node = x.node /\ y.row = x.row
  BY <1>1 DEF ActiveStates
<1>4. y.calm = x.calm \cap c
  BY <1>1 DEF ActiveStates
<1>5. y.sole = (x.sole /\ b)
  BY <1>1 DEF ActiveStates
<1>6. PICK z : z = y
  OBVIOUS
<1> HIDE DEF y
<1>7. ASSUME NEW n \in z.calm
      PROVE  /\ n \in x.calm /\ rows'[n] = rows[n] /\ cache'[n] = cache[n]
             /\ n \in strayed => n \in strayed'
  <2>1. n \in x.calm /\ n \in Calm /\ n \in Calm'
    BY <1>1, <1>4, <1>6, <1>7 DEF Knows
  <2> QED BY <2>1 DEF Spared, Calm
<1>8. ASSUME NEW n \in z.calm
      PROVE  /\ n \in UsableNodes => n \in UsableNodes'
             /\ Entries(cache[n])' = Entries(cache[n])
  BY <1>7, <1>8 DEF UsableNodes, HasRow, Usable, Entries, Region
<1>9. ASSUME NEW n, NEW row, Good(n, row, x) PROVE Good(n, row, z)'
  BY <1>3, <1>6, <1>7, <1>8, <1>9 DEF Good
<1>10. \A a \in z.found : Good(a[1], a[2], z)'
  BY <1>1, <1>3, <1>6, <1>9 DEF Knows
<1>11. z.pc = "bind" => Good(z.node, z.row, z)'
  BY <1>1, <1>3, <1>6, <1>9 DEF Knows
<1>12. z.calm \subseteq Calm'
  BY <1>4, <1>6
<1>13. \A n \in z.todo : (n \in z.calm \ strayed' /\ z.filter.region # Unknown)
                            => z.filter.region \in Entries(cache[n])'
  BY <1>1, <1>3, <1>6, <1>7, <1>8 DEF Knows
<1>14. Knows(z)'
  BY <1>1, <1>3, <1>5, <1>6, <1>10, <1>11, <1>12, <1>13 DEF Knows
<1>15. z \in Knowing'
  BY <1>2, <1>6, <1>14 DEF Knowing
<1> QED BY <1>6, <1>15 DEF y

LEMMA WatchMoves ==
  ASSUME SelectorTypeOK, PickInv, Spared, Watch
  PROVE  pick' \in Picking /\ PickInv'
<1>1. ASSUME NEW p \in Active PROVE pick'[p] \in Knowing' /\ pick'[p] \in ActiveStates
  <2>1. PICK c : c = Calm'
    OBVIOUS
  <2>2. PICK b \in BOOLEAN : b <=> pick[p].session \notin Hunted'
    OBVIOUS
  <2>3. pick[p] \in Knowing /\ p \in Picks
    BY <1>1 DEF PickInv, Active
  <2>4. pick'[p] = [pick[p] EXCEPT !.calm = @ \cap c, !.sole = @ /\ b]
    BY <1>1, <2>1, <2>2, <2>3 DEF Watch
  <2>5. pick'[p] \in Knowing'
    <3>1. PICK x \in Knowing : x = pick[p]
      BY <2>3
    <3>2. [x EXCEPT !.calm = @ \cap c, !.sole = @ /\ b] \in Knowing'
      BY <2>1, WatchKnows
    <3> QED BY <2>4, <3>1, <3>2
  <2> QED BY <2>5 DEF Knowing
<1>2. ASSUME NEW p \in Picks, p \notin Active
      PROVE  pick'[p] = pick[p] /\ pick[p].pc \notin ActiveSteps
  BY <1>2 DEF Watch, Active
<1>3. pick' \in Picking
  <2>1. \A q \in Picks : pick'[q] \in ActiveStates \cup EndStates \cup {New}
    BY <1>1, <1>2 DEF SelectorTypeOK
  <2>2. pick' = [q \in Picks |-> pick'[q]]
    BY DEF Watch
  <2> QED BY <2>1, <2>2 DEF Picking
<1>4. \A p \in Active' : pick'[p] \in Knowing'
  BY <1>1, <1>2 DEF Active
<1> QED BY <1>3, <1>4 DEF PickInv

LEMMA RestartMoves ==
  ASSUME SelectorTypeOK, RestartAll
  PROVE  pick' \in Picking /\ PickInv' /\ Active' = {}
<1>1. \A p \in Picks : pick'[p] \in EndStates \cup {pick[p]}
  BY EndTypes DEF RestartAll
<1>2. pick' \in Picking
  BY <1>1 DEF RestartAll, SelectorTypeOK, Picking
<1>3. \A p \in Picks : pick'[p].pc \notin ActiveSteps
  BY DEF RestartAll, Active, End, ActiveSteps
<1>4. Active' = {}
  BY <1>3 DEF Active
<1> QED BY <1>2, <1>4 DEF PickInv

Homes == [Sessions -> Nodes \cup {NoNode}]

LEMMA HomeType ==
  ASSUME SelectorTypeOK, PickInv, [SelectorNext]_selectorVars
  PROVE  home' \in Homes
<1> USE DEF Homes
<1>1. CASE UNCHANGED home
  BY <1>1 DEF SelectorTypeOK
<1>2. ASSUME NEW p \in Picks, NEW n \in Nodes \cup {NoNode}, Settle(p, n)
      PROVE  home' \in Homes
  BY <1>2 DEF Settle, SelectorTypeOK
<1>3. ASSUME NEW p \in Picks, Lose(p) PROVE home' \in Homes
  BY <1>3 DEF Lose, SelectorTypeOK
<1>4. ASSUME NEW p \in Picks, VerifySticky(p) \/ BindSticky(p)
      PROVE  home' \in Homes
  <2>1. p \in Active
    BY <1>4 DEF VerifySticky, BindSticky, PickPc, Active, ActiveSteps
  <2>2. pick[p].node \in Nodes \cup {NoNode}
    BY <2>1, PickType DEF ActiveStates
  <2> QED BY <1>1, <1>2, <1>4, <2>2 DEF VerifySticky, BindSticky
<1>5. ASSUME NEW p \in Picks, StartPick(p) PROVE home' \in Homes
  BY <1>5 DEF StartPick, Begin2, SelectorTypeOK
<1>6. CASE WriteStep
  BY <1>6 DEF WriteStep, Watch, SelectorTypeOK
<1>7. ASSUME NEW s \in Sessions, StickyExpires(s) PROVE home' \in Homes
  BY <1>7 DEF StickyExpires, SelectorTypeOK
<1>8. ASSUME NEW p \in Picks, Pick(p) \/ PickFails(p) PROVE home' \in Homes
  BY <1>1, <1>3, <1>4, <1>5, <1>8 DEF Pick, PickFails, GetSticky, DropSticky, MatchNodeIDs,
     LoadNode, LoadEnd, Query, GetStickyFails, VerifyStickyFails, DropStickyFails,
     LoadNodeFails, CandidatesFail, BindStickyFails
<1> QED BY <1>1, <1>6, <1>7, <1>8 DEF SelectorNext, RestartAll, selectorVars, pickVars

-----------------------------------------------------------------------------
(* The invariant of a request.                                             *)
PickInvariant == IInv /\ SelectorTypeOK /\ PickInv

LEMMA PickInvInit == SelectorInit => PickInvariant
<1> SUFFICES ASSUME SelectorInit PROVE PickInvariant
  OBVIOUS
<1>1. IInv
  BY InitInv DEF SelectorInit
<1>2. New.pc \notin ActiveSteps
  BY DEF New, ActiveSteps
<1>3. SelectorTypeOK
  BY <1>1 DEF SelectorInit, SelectorTypeOK, IInv
<1>4. PickInv
  BY <1>2 DEF SelectorInit, PickInv, Active
<1> QED BY <1>1, <1>3, <1>4 DEF PickInvariant

LEMMA PickInvStep == PickInvariant /\ [SelectorNext]_selectorVars => PickInvariant'
<1> SUFFICES ASSUME PickInvariant, [SelectorNext]_selectorVars PROVE PickInvariant'
  OBVIOUS
<1>0. IInv /\ TypeOK /\ SelectorTypeOK /\ PickInv
  BY DEF PickInvariant, IInv
<1>1. IInv'
  BY <1>0, SelectorStep, StepInv
<1>2. pick' \in Picking /\ PickInv'
  <2>1. CASE UNCHANGED selectorVars
    <3>1. Knowing' = Knowing
      BY <2>1, SameKnowing DEF selectorVars, vars, storeVars
    <3>2. UNCHANGED pick
      BY <2>1 DEF selectorVars, pickVars
    <3> QED BY <1>0, <3>1, <3>2 DEF PickInv, Active, SelectorTypeOK, Picking
  <2>2. ASSUME NEW p \in Picks, Pick(p) \/ PickFails(p) PROVE pick' \in Picking /\ PickInv'
    BY <1>0, <2>2, PickMoves, StartMoves
  <2>3. ASSUME NEW s \in Sessions, StickyExpires(s) PROVE pick' \in Picking /\ PickInv'
    BY <1>0, <2>3, ExpiresMoves
  <2>4. CASE WriteStep
    BY <1>0, <2>4, WriteSpares, WatchMoves DEF WriteStep
  <2>5. CASE RestartAll
    BY <1>0, <2>5, RestartMoves
  <2> QED BY <2>1, <2>2, <2>3, <2>4, <2>5 DEF SelectorNext
<1>3. home' \in Homes
  BY <1>0, HomeType
<1>4. TypeOK'
  BY <1>1 DEF IInv
<1>5. SelectorTypeOK'
  BY <1>2, <1>3, <1>4 DEF SelectorTypeOK, Picking, Homes
<1> QED BY <1>1, <1>2, <1>5 DEF PickInvariant

(* Requests that pick keep the invariant of the node cache; of the nodes   *)
(* that no writer touched they hold the row that is stored.                *)
THEOREM PickInvariantHolds == SelectorSpec => []PickInvariant
<1> QED BY PickInvInit, PickInvStep, PTL DEF SelectorSpec

(* Pick adds nothing to the node cache that its model does not have: all   *)
(* that is proved of NodeCache holds while requests pick.                  *)
THEOREM SelectorImplementsNodeCache == SelectorSpec => Spec
<1>1. SelectorInit => Init
  BY DEF SelectorInit
<1>2. PickInvariant /\ [SelectorNext]_selectorVars => [Next]_vars
  BY SelectorStep DEF PickInvariant
<1> QED BY <1>1, <1>2, PickInvariantHolds, PTL DEF SelectorSpec, Spec

(* The variables keep their types.                                         *)
THEOREM SelectorTypes == SelectorSpec => []SelectorTypeOK
<1>1. PickInvariant => SelectorTypeOK
  BY DEF PickInvariant
<1> QED BY <1>1, PickInvariantHolds, PTL

-----------------------------------------------------------------------------
(* A request ends by a step of its own, unless the process stops.          *)
LEMMA OwnStep ==
  ASSUME SelectorTypeOK, [SelectorNext]_selectorVars, NEW p \in Active,
         pick'[p].pc \notin ActiveSteps
  PROVE  Pick(p) \/ PickFails(p) \/ (RestartAll /\ pick'[p].pc = "failed")
<1>1. p \in Picks /\ pick[p].pc \in ActiveSteps /\ pick[p] \in ActiveStates
  BY PickType DEF Active
<1>2. pick'[p].pc # pick[p].pc
  BY <1>1
<1>3. CASE UNCHANGED selectorVars
  BY <1>2, <1>3 DEF selectorVars, pickVars
<1>4. ASSUME NEW q \in Picks, q # p, NEW y, PickBecome(q, y) PROVE FALSE
  BY <1>1, <1>2, <1>4 DEF PickBecome, SelectorTypeOK
<1>5. ASSUME NEW q \in Picks, q # p, StartPick(q) PROVE FALSE
  <2>1. pick'[p] \in {pick[p], [pick[p] EXCEPT !.sole = FALSE]}
    BY <1>1, <1>5 DEF StartPick, Begin2
  <2>2. [pick[p] EXCEPT !.sole = FALSE].pc = pick[p].pc
    BY <1>1 DEF ActiveStates
  <2> QED BY <1>2, <2>1, <2>2
<1>6. ASSUME NEW q \in Picks, q # p, Pick(q) \/ PickFails(q) PROVE FALSE
  BY <1>4, <1>5, <1>6 DEF Pick, PickFails, GetSticky, VerifySticky, DropSticky,
     MatchNodeIDs, LoadNode, LoadEnd, Query, BindSticky, GetStickyFails, VerifyStickyFails,
     DropStickyFails, LoadNodeFails, CandidatesFail, BindStickyFails, Choose, PickGoto
<1>7. ASSUME NEW s \in Sessions, StickyExpires(s) PROVE FALSE
  <2>1. pick'[p] \in {pick[p], [pick[p] EXCEPT !.sole = FALSE]}
    BY <1>1, <1>7 DEF StickyExpires
  <2>2. [pick[p] EXCEPT !.sole = FALSE].pc = pick[p].pc
    BY <1>1 DEF ActiveStates
  <2> QED BY <1>2, <2>1, <2>2
<1>8. CASE WriteStep
  <2>1. PICK c, b : pick'[p] = [pick[p] EXCEPT !.calm = @ \cap c, !.sole = @ /\ b]
    BY <1>1, <1>8 DEF WriteStep, Watch
  <2>2. pick'[p].pc = pick[p].pc
    BY <1>1, <2>1 DEF ActiveStates
  <2> QED BY <1>2, <2>2
<1>9. RestartAll => pick'[p].pc = "failed"
  BY <1>1 DEF RestartAll, End
<1> QED BY <1>3, <1>6, <1>7, <1>8, <1>9 DEF SelectorNext

(* What a request returns.                                                 *)
LEMMA ChosenIsGood ==
  ASSUME SelectorTypeOK, NEW p \in Picks, pick[p] \in ActiveStates, NEW found,
         \A a \in found : Good(a[1], a[2], pick[p]), Choose(p, found), pick'[p].pc = "picked"
  PROVE  Good(pick'[p].node, pick'[p].row, pick[p])
<1>1. PICK a \in found :
        PickBecome(p, IF pick[p].session = NoSession
                        THEN End("picked", a[1], a[2])
                        ELSE [pick[p] EXCEPT !.pc = "bind", !.node = a[1], !.row = a[2]])
  BY DEF Choose
<1>2. [pick[p] EXCEPT !.pc = "bind", !.node = a[1], !.row = a[2]].pc = "bind"
  BY DEF ActiveStates
<1>3. pick'[p] = End("picked", a[1], a[2])
  BY <1>1, <1>2 DEF PickBecome, SelectorTypeOK
<1>4. pick'[p].node = a[1] /\ pick'[p].row = a[2]
  BY <1>3 DEF End
<1> QED BY <1>4

(* The steps that may end a request.                                       *)
LEMMA Ending ==
  ASSUME SelectorTypeOK, NEW p \in Active, Pick(p) \/ PickFails(p),
         pick'[p].pc \notin ActiveSteps
  PROVE  \/ VerifySticky(p) /\ pick[p].node \in UsableNodes
         \/ LoadEnd(p) /\ Choose(p, pick[p].found)
         \/ Query(p) \/ BindSticky(p) \/ BindStickyFails(p) \/ CandidatesFail(p)
<1> USE DEF PickPc
<1>1. p \in Picks /\ pick[p].pc \in ActiveSteps /\ pick[p] \in ActiveStates
  BY PickType DEF Active
<1>2. pick \in Picking
  BY DEF SelectorTypeOK, Picking
<1>3. ASSUME NEW y, PickBecome(p, y) PROVE y.pc \notin ActiveSteps
  BY <1>1, <1>2, <1>3 DEF PickBecome, Picking
<1>5. ~StartPick(p)
  BY <1>1 DEF StartPick, ActiveSteps
<1>6. ASSUME NEW pc \in ActiveSteps, PickGoto(p, pc) PROVE FALSE
  <2>1. [pick[p] EXCEPT !.pc = pc].pc = pc
    BY <1>1 DEF ActiveStates
  <2> QED BY <1>3, <1>6, <2>1 DEF PickGoto
<1>7. /\ "verify" \in ActiveSteps /\ "drop" \in ActiveSteps /\ "match" \in ActiveSteps
      /\ "load" \in ActiveSteps /\ "query" \in ActiveSteps
  BY DEF ActiveSteps
<1>8. ~GetSticky(p)
  <2>1. SUFFICES ASSUME GetSticky(p) PROVE FALSE
    OBVIOUS
  <2>2. PICK n : n = sticky[pick[p].session]
    OBVIOUS
  <2>3. PICK pc \in {"match", "verify"} : pc = IF n = NoNode THEN "match" ELSE "verify"
    OBVIOUS
  <2>4. PickBecome(p, [pick[p] EXCEPT !.pc = pc, !.node = n])
    BY <2>1, <2>2, <2>3 DEF GetSticky
  <2>5. [pick[p] EXCEPT !.pc = pc, !.node = n].pc = pc
    BY <1>1 DEF ActiveStates
  <2> QED BY <1>3, <1>7, <2>3, <2>4, <2>5
<1>9. ~MatchNodeIDs(p)
  <2>1. SUFFICES ASSUME MatchNodeIDs(p) PROVE FALSE
    OBVIOUS
  <2>2. PICK ids : ids = Members(pick[p].filter)
    OBVIOUS
  <2>3. PICK pc \in {"query", "load"} : pc = IF ids = {} THEN "query" ELSE "load"
    OBVIOUS
  <2>4. PickBecome(p, [pick[p] EXCEPT !.pc = pc, !.todo = ids])
    BY <2>1, <2>2, <2>3 DEF MatchNodeIDs
  <2>5. [pick[p] EXCEPT !.pc = pc, !.todo = ids].pc = pc
    BY <1>1 DEF ActiveStates
  <2> QED BY <1>3, <1>7, <2>3, <2>4, <2>5
<1>10. ASSUME NEW n \in Nodes, LoadNode(p, n) \/ LoadNodeFails(p, n) PROVE FALSE
  <2>1. pick[p].pc = "load"
    BY <1>10 DEF LoadNode, LoadNodeFails
  <2>2. CASE LoadNode(p, n)
    <3>1. PICK ids, ns : /\ ids = pick[p].todo \ {n}
                         /\ ns = IF CachedUsable(n) THEN pick[p].found \cup {<<n, cache[n]>>}
                                                    ELSE pick[p].found
      OBVIOUS
    <3>2. PickBecome(p, [pick[p] EXCEPT !.todo = ids, !.found = ns])
      BY <2>2, <3>1 DEF LoadNode
    <3>3. [pick[p] EXCEPT !.todo = ids, !.found = ns].pc = "load"
      BY <1>1, <2>1 DEF ActiveStates
    <3> QED BY <1>3, <1>7, <3>2, <3>3
  <2>3. CASE LoadNodeFails(p, n)
    <3>1. PICK ids : ids = pick[p].todo \ {n}
      OBVIOUS
    <3>2. PickBecome(p, [pick[p] EXCEPT !.todo = ids])
      BY <2>3, <3>1 DEF LoadNodeFails
    <3>3. [pick[p] EXCEPT !.todo = ids].pc = "load"
      BY <1>1, <2>1 DEF ActiveStates
    <3> QED BY <1>3, <1>7, <3>2, <3>3
  <2> QED BY <1>10, <2>2, <2>3
<1>11. ~DropSticky(p) /\ ~GetStickyFails(p) /\ ~VerifyStickyFails(p) /\ ~DropStickyFails(p)
  BY <1>6, <1>7 DEF DropSticky, GetStickyFails, VerifyStickyFails, DropStickyFails
<1>12. VerifySticky(p) => pick[p].node \in UsableNodes
  BY <1>6, <1>7 DEF VerifySticky
<1>13. LoadEnd(p) => Choose(p, pick[p].found)
  BY <1>6, <1>7 DEF LoadEnd
<1> QED BY <1>5, <1>8, <1>9, <1>10, <1>11, <1>12, <1>13 DEF Pick, PickFails

LEMMA Returned ==
  ASSUME PickInvariant, [SelectorNext]_selectorVars, NEW p \in Picks, Returns(p)
  PROVE  \/ VerifySticky(p) /\ pick'[p].node = pick[p].node /\ pick[p].node \in UsableNodes
         \/ ~PickPc(p, "verify") /\ Good(pick'[p].node, pick'[p].row, pick[p])
<1> USE DEF PickPc
<1>1. SelectorTypeOK /\ p \in Active /\ pick'[p].pc = "picked"
  BY DEF PickInvariant, Returns
<1>2. pick[p] \in Knowing /\ pick[p] \in ActiveStates /\ Knows(pick[p])
  BY <1>1 DEF PickInvariant, PickInv, Knowing
<1>3. Pick(p) \/ PickFails(p)
  BY <1>1, OwnStep DEF ActiveSteps
<1>4. \/ VerifySticky(p) /\ pick[p].node \in UsableNodes
      \/ LoadEnd(p) /\ Choose(p, pick[p].found)
      \/ Query(p) \/ BindSticky(p) \/ BindStickyFails(p) \/ CandidatesFail(p)
  BY <1>1, <1>3, Ending DEF ActiveSteps
<1>5. ASSUME NEW y, PickBecome(p, y) PROVE pick'[p] = y
  BY <1>5 DEF PickBecome, PickInvariant, SelectorTypeOK
<1>6. ~PickBecome(p, End("failed", NoNode, None))
  BY <1>1, <1>5 DEF End
<1>7. CASE VerifySticky(p) /\ pick[p].node \in UsableNodes
  BY <1>5, <1>7 DEF VerifySticky, End
<1>8. CASE LoadEnd(p) /\ Choose(p, pick[p].found)
  <2>1. \A a \in pick[p].found : Good(a[1], a[2], pick[p])
    BY <1>2 DEF Knows
  <2> QED BY <1>1, <1>2, <1>8, <2>1, ChosenIsGood DEF LoadEnd
<1>9. CASE Query(p)
  <2> DEFINE found == {<<n, rows[n]>> : n \in {m \in UsableNodes : RowMatches(pick[p].filter, rows[m])}}
  <2>1. Choose(p, found) /\ pick[p].pc = "query"
    BY <1>6, <1>9 DEF Query
  <2>2. \A a \in found : Good(a[1], a[2], pick[p])
    BY DEF Good
  <2> HIDE DEF found
  <2> QED BY <1>1, <1>2, <2>1, <2>2, ChosenIsGood
<1>10. CASE BindSticky(p) \/ BindStickyFails(p)
  <2>1. pick[p].pc = "bind" /\ pick'[p] = End("picked", pick[p].node, pick[p].row)
    BY <1>5, <1>10 DEF BindSticky, BindStickyFails
  <2>2. pick'[p].node = pick[p].node /\ pick'[p].row = pick[p].row
    BY <2>1 DEF End
  <2> QED BY <1>2, <2>1, <2>2 DEF Knows
<1>11. CASE CandidatesFail(p)
  BY <1>6, <1>11 DEF CandidatesFail
<1> QED BY <1>4, <1>7, <1>8, <1>9, <1>10, <1>11

(* A node that no writer touched while the request picked is returned only *)
(* when the database calls it usable.                                      *)
THEOREM SelectorPickedIsUsable == SelectorSpec => PickedIsUsable
<1>1. ASSUME PickInvariant, [SelectorNext]_selectorVars, NEW p \in Picks,
             Returns(p), pick'[p].node \in pick[p].calm
      PROVE  pick'[p].node \in UsableNodes
  BY <1>1, Returned DEF Good
<1>2. PickInvariant /\ [SelectorNext]_selectorVars =>
        [\A p \in Picks :
           (Returns(p) /\ pick'[p].node \in pick[p].calm)
              => pick'[p].node \in UsableNodes]_selectorVars
  BY <1>1
<1> QED BY <1>2, PickInvariantHolds, PTL DEF SelectorSpec, PickedIsUsable

(* The index is enough to answer a filter: the row of such a node matches, *)
(* although Pick compares no region.                                       *)
THEOREM SelectorPickedMatchesFilter == SelectorSpec => PickedMatchesFilter
<1>1. ASSUME PickInvariant, [SelectorNext]_selectorVars, NEW p \in Picks,
             Returns(p), ~PickPc(p, "verify"), pick'[p].node \in pick[p].calm \ strayed
      PROVE  RowMatches(pick[p].filter, pick'[p].row)
  <2>1. Good(pick'[p].node, pick'[p].row, pick[p])
    BY <1>1, Returned DEF VerifySticky
  <2> QED BY <1>1, <2>1 DEF Good
<1>2. PickInvariant /\ [SelectorNext]_selectorVars =>
        [\A p \in Picks :
           (Returns(p) /\ ~PickPc(p, "verify") /\ pick'[p].node \in pick[p].calm \ strayed)
              => RowMatches(pick[p].filter, pick'[p].row)]_selectorVars
  BY <1>1
<1> QED BY <1>2, PickInvariantHolds, PTL DEF SelectorSpec, PickedMatchesFilter

(* A request that gives up without a failure had nothing to choose from    *)
(* among the nodes that no writer touched.                                 *)
THEOREM SelectorFailsOnlyWithoutNode == SelectorSpec => FailsOnlyWithoutNode
<1>1. ASSUME PickInvariant, [SelectorNext]_selectorVars, NEW p \in Active,
             PickPc(p, "failed")', UNCHANGED faults, NEW n \in pick[p].calm
      PROVE  ~(n \in UsableNodes /\ RowMatches(pick[p].filter, rows[n]))
  <2>1. SelectorTypeOK /\ TypeOK /\ faults \in Nat /\ p \in Picks /\ pick'[p].pc = "failed"
    BY <1>1 DEF PickInvariant, SelectorTypeOK, TypeOK, Active, PickPc
  <2>2. ~Fault /\ ~RestartAll
    BY <1>1, <2>1 DEF Fault, RestartAll, Restart
  <2>3. Pick(p) \/ PickFails(p)
    BY <1>1, <2>1, <2>2, OwnStep DEF ActiveSteps
  <2>4. ASSUME NEW y, PickBecome(p, y) PROVE y.pc = "failed"
    BY <2>1, <2>4 DEF PickBecome, SelectorTypeOK
  <2>5. ASSUME NEW found, Choose(p, found) PROVE FALSE
    <3>1. PICK a \in found :
            PickBecome(p, IF pick[p].session = NoSession
                            THEN End("picked", a[1], a[2])
                            ELSE [pick[p] EXCEPT !.pc = "bind", !.node = a[1], !.row = a[2]])
      BY <2>5 DEF Choose
    <3>2. [pick[p] EXCEPT !.pc = "bind", !.node = a[1], !.row = a[2]].pc = "bind"
      BY <1>1, <2>1, PickType DEF ActiveStates
    <3>3. End("picked", a[1], a[2]).pc = "picked"
      BY DEF End
    <3> QED BY <2>4, <3>1, <3>2, <3>3
  <2>6. \A m, row : ~PickBecome(p, End("picked", m, row))
    BY <2>4 DEF End
  <2>7. Query(p)
    <3>1. ~VerifySticky(p) \/ pick[p].node \notin UsableNodes
      BY <2>6 DEF VerifySticky
    <3>2. ~BindSticky(p) /\ ~BindStickyFails(p) /\ ~CandidatesFail(p)
      BY <2>2, <2>6 DEF BindSticky, BindStickyFails, CandidatesFail, PickFault
    <3> QED BY <1>1, <2>1, <2>3, <2>5, <3>1, <3>2, Ending DEF ActiveSteps
  <2>8. {m \in UsableNodes : RowMatches(pick[p].filter, rows[m])} = {}
    BY <2>5, <2>7 DEF Query
  <2> QED BY <2>8
<1>2. PickInvariant /\ [SelectorNext]_selectorVars =>
        [\A p \in Active :
           (PickPc(p, "failed")' /\ UNCHANGED faults) =>
              \A n \in pick[p].calm :
                 ~(n \in UsableNodes /\ RowMatches(pick[p].filter, rows[n]))]_selectorVars
  BY <1>1
<1> QED BY <1>2, PickInvariantHolds, PTL DEF SelectorSpec, FailsOnlyWithoutNode

-----------------------------------------------------------------------------
(* What a step of one request does to the sessions.                        *)
Kept(s) == SoleKept(s) /\ HomeKept(s)

LEMMA SessionSame ==
  ASSUME NEW s \in Sessions, Kept(s), UNCHANGED <<rows, cache, worker, history>>,
         PicksOf(s)' = PicksOf(s), \A q \in PicksOf(s) : pick'[q] = pick[q],
         sticky'[s] = sticky[s], home'[s] = home[s]
  PROVE  Kept(s)'
<1>1. Quiet' = Quiet /\ Hunted' = Hunted /\ UsableNodes' = UsableNodes
  BY SameKnowing
<1>2. SoleKept(s)'
  BY <1>1 DEF Kept, SoleKept, PickPc
<1>3. HomeKept(s)'
  BY <1>1 DEF Kept, HomeKept, PickPc
<1> QED BY <1>2, <1>3 DEF Kept

(* y is what becomes of request p.  Its session keeps its node, or loses   *)
(* it, or is settled by a request that was alone with it.                  *)
Follows(p, y, s) ==
    /\ y.pc \in ActiveSteps => /\ y.session = s /\ (y.sole => pick[p].sole)
                               /\ y.sole /\ y.pc = "verify" => sticky'[s] = y.node
    /\ \/ home'[s] = NoNode
       \/ /\ home'[s] = home[s] /\ sticky'[s] = home[s]
          /\ y.pc \in ActiveSteps => y.pc = "sticky" \/ (y.pc = "verify" /\ y.node = home[s])
       \/ /\ y.pc \notin ActiveSteps /\ pick[p].sole
          /\ sticky'[s] = home'[s] /\ home'[s] \in Quiet \cap UsableNodes

LEMMA SessionFollows ==
  ASSUME SelectorTypeOK, NEW p \in Active, NEW y, PickBecome(p, y),
         NEW s \in Sessions, s = pick[p].session, Kept(s), Follows(p, y, s),
         UNCHANGED <<rows, cache, worker, history>>
  PROVE  Kept(s)'
<1>1. Quiet' = Quiet /\ Hunted' = Hunted /\ UsableNodes' = UsableNodes
  BY SameKnowing
<1>2. pick'[p] = y /\ p \in Picks /\ p \in PicksOf(s)
  BY DEF PickBecome, SelectorTypeOK, Active, PicksOf
<1>3. \A q \in PicksOf(s)' : q \in PicksOf(s) /\ (q # p => pick'[q] = pick[q])
  BY <1>2 DEF PickBecome, SelectorTypeOK, PicksOf, Active
<1>4. p \in PicksOf(s)' <=> y.pc \in ActiveSteps
  BY <1>2 DEF PicksOf, Active, Follows
<1>5. ASSUME NEW q \in PicksOf(s)', pick'[q].sole
      PROVE  /\ q = p /\ pick[p].sole /\ PicksOf(s)' = {p}
             /\ s \notin Hunted /\ (y.pc = "verify" => sticky'[s] = y.node)
  <2>1. pick[q].sole
    BY <1>2, <1>3, <1>4, <1>5 DEF Follows
  <2>2. PicksOf(s) = {q} /\ s \notin Hunted
    BY <1>3, <1>5, <2>1 DEF Kept, SoleKept
  <2>3. q = p
    BY <1>2, <2>2
  <2>4. PicksOf(s)' = {p}
    BY <1>3, <1>5, <2>2, <2>3
  <2> QED BY <1>2, <1>4, <1>5, <2>1, <2>2, <2>3, <2>4 DEF Follows
<1>6. SoleKept(s)'
  BY <1>1, <1>2, <1>5 DEF SoleKept, PickPc
<1>a. SUFFICES HomeKept(s)'
  BY <1>6 DEF Kept
<1>7. CASE home'[s] = NoNode
  BY <1>7 DEF HomeKept
<1>8. CASE /\ home'[s] # NoNode /\ home'[s] = home[s] /\ sticky'[s] = home[s]
           /\ y.pc \in ActiveSteps => y.pc = "sticky" \/ (y.pc = "verify" /\ y.node = home[s])
  BY <1>1, <1>2, <1>3, <1>4, <1>8 DEF Kept, HomeKept, PickPc
<1>9. CASE /\ y.pc \notin ActiveSteps /\ pick[p].sole
           /\ sticky'[s] = home'[s] /\ home'[s] \in Quiet \cap UsableNodes
  <2>1. PicksOf(s) = {p} /\ s \notin Hunted
    BY <1>2, <1>9 DEF Kept, SoleKept
  <2>2. PicksOf(s)' = {}
    BY <1>3, <1>4, <1>9, <2>1
  <2> QED BY <1>1, <1>9, <2>1, <2>2 DEF HomeKept
<1> QED BY <1>7, <1>8, <1>9 DEF Follows

LEMMA SessionMoved ==
  ASSUME SelectorTypeOK, SessionInv, NEW p \in Active, NEW y, PickBecome(p, y),
         y.pc \in ActiveSteps => y.session = pick[p].session,
         UNCHANGED <<rows, cache, worker, history>>,
         \A s \in Sessions :
            IF s = pick[p].session THEN Follows(p, y, s)
            ELSE sticky'[s] = sticky[s] /\ home'[s] = home[s]
  PROVE  SessionInv'
<1>1. ASSUME NEW s \in Sessions PROVE Kept(s)'
  <2>1. Kept(s)
    BY DEF SessionInv, Kept
  <2>2. CASE s = pick[p].session
    BY <2>1, <2>2, SessionFollows
  <2>3. CASE s # pick[p].session
    <3>1. p \in Picks /\ pick'[p] = y /\ \A q \in Picks \ {p} : pick'[q] = pick[q]
      BY DEF PickBecome, SelectorTypeOK, Active
    <3>2. p \notin PicksOf(s) /\ p \notin PicksOf(s)'
      BY <2>3, <3>1 DEF PicksOf, Active
    <3>3. PicksOf(s)' = PicksOf(s) /\ \A q \in PicksOf(s) : pick'[q] = pick[q]
      BY <3>1, <3>2 DEF PicksOf, Active
    <3> QED BY <2>1, <2>3, <3>3, SessionSame
  <2> QED BY <2>2, <2>3
<1> QED BY <1>1 DEF SessionInv, Kept

(* The session of the request has no node to keep afterwards.              *)
LEMMA Unsettled ==
  ASSUME SelectorTypeOK, SessionInv, NEW p \in Active, NEW y, PickBecome(p, y),
         y.pc # "verify",
         y.pc \in ActiveSteps => y.session = pick[p].session /\ (y.sole => pick[p].sole),
         UNCHANGED <<rows, cache, worker, history>>,
         \A s \in Sessions : s # pick[p].session => sticky'[s] = sticky[s],
         \A s \in Sessions : home'[s] = IF s = pick[p].session THEN NoNode ELSE home[s]
  PROVE  SessionInv'
<1>1. \A s \in Sessions : IF s = pick[p].session THEN Follows(p, y, s)
                          ELSE sticky'[s] = sticky[s] /\ home'[s] = home[s]
  BY DEF Follows
<1> QED BY <1>1, SessionMoved

LEMMA Homeless ==
  ASSUME SelectorTypeOK, SessionInv, NEW p \in Active, pick[p].pc \notin {"sticky", "verify"}
  PROVE  \A s \in Sessions : home[s] = IF s = pick[p].session THEN NoNode ELSE home[s]
  BY DEF SessionInv, HomeKept, PicksOf, PickPc

(* A request that has left its sticky key, or never had one, reads on.     *)
LEMMA SearchKeeps ==
  ASSUME PickInvariant, SessionInv, NEW p \in Picks,
         \/ MatchNodeIDs(p) \/ LoadEnd(p) \/ Query(p) \/ CandidatesFail(p)
         \/ \E n \in Nodes : LoadNode(p, n) \/ LoadNodeFails(p, n)
  PROVE  SessionInv'
<1> USE DEF PickPc
<1>1. /\ SelectorTypeOK /\ p \in Active /\ pick[p] \in ActiveStates
      /\ pick[p].pc \notin {"sticky", "verify"}
  <2>1. pick[p].pc \in {"match", "load", "query"}
    BY DEF MatchNodeIDs, LoadNode, LoadEnd, Query, LoadNodeFails, CandidatesFail
  <2>2. p \in Active
    BY <2>1 DEF Active, ActiveSteps
  <2> QED BY <2>1, <2>2, PickType DEF PickInvariant
<1>2. UNCHANGED <<rows, cache, sticky, worker, history>> /\ UNCHANGED home
  BY DEF MatchNodeIDs, LoadNode, LoadEnd, Query, LoadNodeFails, CandidatesFail, PickFault,
     vars, storeVars
<1>3. ASSUME NEW y, PickBecome(p, y), y.pc # "verify",
             y.pc \in ActiveSteps => y.session = pick[p].session /\ y.sole = pick[p].sole
      PROVE  SessionInv'
  <2>1. \A s \in Sessions : home'[s] = IF s = pick[p].session THEN NoNode ELSE home[s]
    BY <1>1, <1>2, Homeless
  <2> QED BY <1>1, <1>2, <1>3, <2>1, Unsettled
<1>4. ASSUME PickBecome(p, End("failed", NoNode, None)) PROVE SessionInv'
  <2>1. End("failed", NoNode, None).pc = "failed"
    BY DEF End
  <2> QED BY <1>3, <1>4, <2>1 DEF ActiveSteps
<1>5. ASSUME NEW found, Choose(p, found) PROVE SessionInv'
  <2>1. PICK a \in found :
          PickBecome(p, IF pick[p].session = NoSession
                          THEN End("picked", a[1], a[2])
                          ELSE [pick[p] EXCEPT !.pc = "bind", !.node = a[1], !.row = a[2]])
    BY <1>5 DEF Choose
  <2>2. End("picked", a[1], a[2]).pc = "picked"
    BY DEF End
  <2> DEFINE y == [pick[p] EXCEPT !.pc = "bind", !.node = a[1], !.row = a[2]]
  <2>3. y.pc = "bind" /\ y.session = pick[p].session /\ y.sole = pick[p].sole
    BY <1>1 DEF ActiveStates
  <2>4. CASE PickBecome(p, End("picked", a[1], a[2]))
    BY <1>3, <2>2, <2>4 DEF ActiveSteps
  <2>5. CASE PickBecome(p, y)
    <3> HIDE DEF y
    <3> QED BY <1>3, <2>3, <2>5
  <2> QED BY <2>1, <2>4, <2>5
<1>6. CASE MatchNodeIDs(p)
  <2>1. PICK ids : ids = Members(pick[p].filter)
    OBVIOUS
  <2>2. PICK pc \in {"query", "load"} : pc = IF ids = {} THEN "query" ELSE "load"
    OBVIOUS
  <2> DEFINE y == [pick[p] EXCEPT !.pc = pc, !.todo = ids]
  <2>3. PickBecome(p, y)
    BY <1>6, <2>1, <2>2 DEF MatchNodeIDs
  <2>4. y.pc = pc /\ y.session = pick[p].session /\ y.sole = pick[p].sole
    BY <1>1 DEF ActiveStates
  <2> HIDE DEF y
  <2> QED BY <1>3, <2>2, <2>3, <2>4
<1>7. ASSUME NEW n \in Nodes, LoadNode(p, n) PROVE SessionInv'
  <2>1. PICK ids, ns : /\ ids = pick[p].todo \ {n}
                       /\ ns = IF CachedUsable(n) THEN pick[p].found \cup {<<n, cache[n]>>}
                                                  ELSE pick[p].found
    OBVIOUS
  <2> DEFINE y == [pick[p] EXCEPT !.todo = ids, !.found = ns]
  <2>2. PickBecome(p, y) /\ pick[p].pc = "load"
    BY <1>7, <2>1 DEF LoadNode
  <2>3. y.pc = "load" /\ y.session = pick[p].session /\ y.sole = pick[p].sole
    BY <1>1, <2>2 DEF ActiveStates
  <2> HIDE DEF y
  <2> QED BY <1>3, <2>2, <2>3
<1>8. ASSUME NEW n \in Nodes, LoadNodeFails(p, n) PROVE SessionInv'
  <2>1. PICK ids : ids = pick[p].todo \ {n}
    OBVIOUS
  <2> DEFINE y == [pick[p] EXCEPT !.todo = ids]
  <2>2. PickBecome(p, y) /\ pick[p].pc = "load"
    BY <1>8, <2>1 DEF LoadNodeFails
  <2>3. y.pc = "load" /\ y.session = pick[p].session /\ y.sole = pick[p].sole
    BY <1>1, <2>2 DEF ActiveStates
  <2> HIDE DEF y
  <2> QED BY <1>3, <2>2, <2>3
<1>9. ASSUME PickGoto(p, "query") PROVE SessionInv'
  <2> DEFINE y == [pick[p] EXCEPT !.pc = "query"]
  <2>1. y.pc = "query" /\ y.session = pick[p].session /\ y.sole = pick[p].sole
    BY <1>1 DEF ActiveStates
  <2>2. PickBecome(p, y)
    BY <1>9 DEF PickGoto
  <2> HIDE DEF y
  <2> QED BY <1>3, <2>1, <2>2
<1>10. CASE LoadEnd(p)
  BY <1>5, <1>9, <1>10 DEF LoadEnd
<1>11. CASE Query(p)
  BY <1>4, <1>5, <1>11 DEF Query
<1>12. CASE CandidatesFail(p)
  BY <1>4, <1>12 DEF CandidatesFail
<1> QED BY <1>6, <1>7, <1>8, <1>10, <1>11, <1>12

(* The steps of a request with a sticky key.                               *)
LEMMA StickyKeeps ==
  ASSUME PickInvariant, SessionInv, NEW p \in Picks,
         \/ GetSticky(p) \/ VerifySticky(p) \/ DropSticky(p) \/ BindSticky(p)
         \/ GetStickyFails(p) \/ VerifyStickyFails(p) \/ DropStickyFails(p) \/ BindStickyFails(p)
  PROVE  SessionInv'
<1> USE DEF PickPc
<1>1. pick[p].pc \in {"sticky", "verify", "drop", "bind"}
  BY DEF GetSticky, VerifySticky, DropSticky, BindSticky, GetStickyFails, VerifyStickyFails,
     DropStickyFails, BindStickyFails
<1>2. SelectorTypeOK /\ TypeOK /\ p \in Active /\ pick[p] \in ActiveStates /\ Knows(pick[p])
  BY <1>1 DEF PickInvariant, SelectorTypeOK, Active, ActiveSteps, PickInv, Knowing
<1>3. PICK s \in Sessions : s = pick[p].session
  BY <1>1, <1>2 DEF Knows
<1>4. SoleKept(s) /\ HomeKept(s) /\ p \in PicksOf(s)
  BY <1>2, <1>3 DEF SessionInv, PicksOf
<1>5. UNCHANGED <<rows, cache, worker, history>>
  BY DEF GetSticky, VerifySticky, DropSticky, BindSticky, GetStickyFails, VerifyStickyFails,
     DropStickyFails, BindStickyFails, SetSticky, PickFault, vars, storeVars
<1>6. \A t \in Sessions \ {s} : sticky'[t] = sticky[t]
  BY <1>2, <1>3 DEF GetSticky, VerifySticky, DropSticky, BindSticky, GetStickyFails,
     VerifyStickyFails, DropStickyFails, BindStickyFails, SetSticky, PickFault, vars,
     storeVars, TypeOK
<1>7. ASSUME NEW y, PickBecome(p, y), y.pc # "verify",
             y.pc \in ActiveSteps => y.session = s /\ y.sole = pick[p].sole,
             \A t \in Sessions : home'[t] = IF t = s THEN NoNode ELSE home[t]
      PROVE  SessionInv'
  BY <1>2, <1>3, <1>5, <1>6, <1>7, Unsettled
<1>8. ASSUME NEW pc \in {"drop", "match"}, PickGoto(p, pc),
             \A t \in Sessions : home'[t] = IF t = s THEN NoNode ELSE home[t]
      PROVE  SessionInv'
  <2> DEFINE y == [pick[p] EXCEPT !.pc = pc]
  <2>1. y.pc = pc /\ y.session = s /\ y.sole = pick[p].sole
    BY <1>2, <1>3 DEF ActiveStates
  <2>2. PickBecome(p, y)
    BY <1>8 DEF PickGoto
  <2> HIDE DEF y
  <2> QED BY <1>7, <1>8, <2>1, <2>2
<1>9. Lose(p) => \A t \in Sessions : home'[t] = IF t = s THEN NoNode ELSE home[t]
  BY <1>3 DEF Lose
<1>10. ASSUME pick[p].pc \notin {"sticky", "verify"} \/ home[s] = NoNode, UNCHANGED home
       PROVE  \A t \in Sessions : home'[t] = IF t = s THEN NoNode ELSE home[t]
  BY <1>2, <1>3, <1>10, Homeless
<1>11. ASSUME NEW n, Settle(p, n)
       PROVE  \A t \in Sessions :
                 home'[t] = IF t = s THEN IF pick[p].sole /\ n \in pick[p].calm THEN n ELSE NoNode
                            ELSE home[t]
  BY <1>3, <1>11 DEF Settle
(* A request ends, and its session is settled.                             *)
<1>12. ASSUME NEW n, NEW row, PickBecome(p, End("picked", n, row)), Settle(p, n),
              (pick[p].sole /\ n \in pick[p].calm) => sticky'[s] = n /\ n \in UsableNodes
       PROVE  SessionInv'
  <2> DEFINE y == End("picked", n, row)
  <2>1. y.pc \notin ActiveSteps
    BY DEF End, ActiveSteps
  <2>2. PickBecome(p, y)
    BY <1>12
  <2> HIDE DEF y
  <2>3. pick[p].calm \subseteq Quiet
    BY <1>2 DEF Knows, Calm
  <2>4. Follows(p, y, s)
    BY <1>11, <1>12, <2>1, <2>3 DEF Follows
  <2>5. \A t \in Sessions \ {s} : home'[t] = home[t]
    BY <1>11, <1>12
  <2> QED BY <1>2, <1>3, <1>5, <1>6, <2>1, <2>2, <2>4, <2>5, SessionMoved
<1>13. CASE GetSticky(p)
  <2>1. PICK n : n = sticky[s]
    OBVIOUS
  <2>2. PICK pc \in {"match", "verify"} : pc = IF n = NoNode THEN "match" ELSE "verify"
    OBVIOUS
  <2> DEFINE y == [pick[p] EXCEPT !.pc = pc, !.node = n]
  <2>3. PickBecome(p, y) /\ UNCHANGED <<sticky, home>> /\ pick[p].pc = "sticky"
    BY <1>3, <1>13, <2>1, <2>2 DEF GetSticky, vars, storeVars
  <2>4. y.pc = pc /\ y.session = s /\ y.sole = pick[p].sole /\ y.node = n
    BY <1>2, <1>3 DEF ActiveStates
  <2> HIDE DEF y
  <2>5. Follows(p, y, s)
    <3>1. CASE home[s] = NoNode
      BY <2>1, <2>2, <2>3, <2>4, <3>1 DEF Follows
    <3>2. CASE home[s] # NoNode
      <4>1. n = home[s] /\ pc = "verify"
        BY <1>4, <2>1, <2>2, <3>2 DEF HomeKept
      <4> QED BY <2>1, <2>3, <2>4, <4>1 DEF Follows
    <3> QED BY <3>1, <3>2
  <2> QED BY <1>2, <1>3, <1>5, <1>6, <2>3, <2>4, <2>5, SessionMoved
<1>14. CASE VerifySticky(p) /\ pick[p].node \in UsableNodes
  <2>1. pick[p].sole => sticky'[s] = pick[p].node
    BY <1>4, <1>14 DEF SoleKept, VerifySticky, vars, storeVars
  <2> QED BY <1>12, <1>14, <2>1 DEF VerifySticky
<1>15. CASE VerifySticky(p) /\ pick[p].node \notin UsableNodes
  <2>1. home[s] = NoNode
    BY <1>4, <1>15 DEF HomeKept, VerifySticky
  <2> QED BY <1>8, <1>10, <1>15, <2>1 DEF VerifySticky
<1>16. CASE DropSticky(p) \/ DropStickyFails(p)
  BY <1>8, <1>10, <1>16 DEF DropSticky, DropStickyFails
<1>17. CASE GetStickyFails(p) \/ VerifyStickyFails(p)
  BY <1>8, <1>9, <1>17 DEF GetStickyFails, VerifyStickyFails
<1>18. CASE BindSticky(p)
  <2>1. sticky'[s] = pick[p].node
    BY <1>2, <1>3, <1>18 DEF BindSticky, SetSticky, TypeOK
  <2>2. pick[p].node \in pick[p].calm => pick[p].node \in UsableNodes
    BY <1>2, <1>18 DEF BindSticky, Knows, Good
  <2> QED BY <1>12, <1>18, <2>1, <2>2 DEF BindSticky
<1>19. CASE BindStickyFails(p)
  <2>1. End("picked", pick[p].node, pick[p].row).pc = "picked"
    BY DEF End
  <2>2. PickBecome(p, End("picked", pick[p].node, pick[p].row)) /\ Lose(p)
    BY <1>19 DEF BindStickyFails
  <2> QED BY <1>7, <1>9, <2>1, <2>2 DEF ActiveSteps
<1> QED BY <1>13, <1>14, <1>15, <1>16, <1>17, <1>18, <1>19

(* A new request makes the others of its session no longer alone.          *)
LEMMA StartKeepsSessions ==
  ASSUME PickInvariant, SessionInv, NEW p \in Picks, StartPick(p)
  PROVE  SessionInv'
<1>1. PICK s \in Sessions \cup {NoSession}, filter \in Filters : Begin2(p, s, filter)
  BY PicksAssumption DEF StartPick
<1>2. /\ p \notin Active /\ UNCHANGED <<rows, cache, sticky, worker, history>>
      /\ pick \in Picking
  BY DEF StartPick, Active, ActiveSteps, PickPc, vars, storeVars, PickInvariant,
     SelectorTypeOK, Picking
<1>3. /\ pick'[p].session = s /\ pick'[p].pc \in {"match", "sticky"}
      /\ s # NoSession => pick'[p].pc = "sticky"
      /\ pick'[p].sole => s # NoSession /\ PicksOf(s) = {} /\ s \notin Hunted
  BY <1>1 DEF Begin2
<1>4. ASSUME NEW q \in Active
      PROVE  /\ pick'[q].pc = pick[q].pc /\ pick'[q].session = pick[q].session
             /\ pick'[q].node = pick[q].node
             /\ pick'[q].sole => pick[q].sole /\ (q \in PicksOf(s) => s = NoSession)
  <2>1. pick[q] \in ActiveStates /\ q \in Picks /\ q # p
    BY <1>2, <1>4, PickType DEF PickInvariant, Active
  <2>2. CASE s # NoSession /\ q \in PicksOf(s)
    <3>1. pick'[q] = [pick[q] EXCEPT !.sole = FALSE]
      BY <1>1, <2>1, <2>2 DEF Begin2
    <3> QED BY <2>1, <3>1 DEF ActiveStates
  <2>3. CASE ~(s # NoSession /\ q \in PicksOf(s))
    <3>1. pick'[q] = pick[q]
      BY <1>1, <2>1, <2>3 DEF Begin2
    <3> QED BY <2>3, <3>1
  <2> QED BY <2>2, <2>3
<1>5. \A q \in Picks \ {p} : q \in Active' => q \in Active
  <2>1. \A q \in Picks \ {p} : q \notin Active => pick'[q] = pick[q]
    BY <1>1 DEF Begin2, PicksOf
  <2> QED BY <2>1 DEF Active
<1>6. Active' = Active \cup {p}
  BY <1>3, <1>4, <1>5 DEF Active, ActiveSteps
<1>7. ASSUME NEW t \in Sessions
      PROVE  PicksOf(t)' = IF t = s THEN PicksOf(t) \cup {p} ELSE PicksOf(t)
  BY <1>2, <1>3, <1>4, <1>6 DEF PicksOf
<1>8. Quiet' = Quiet /\ Hunted' = Hunted /\ UsableNodes' = UsableNodes
  BY <1>2, SameKnowing
<1>9. ASSUME NEW t \in Sessions PROVE SoleKept(t)'
  <2>1. SUFFICES ASSUME NEW q \in PicksOf(t)', pick'[q].sole
                 PROVE  /\ PicksOf(t)' = {q} /\ t \notin Hunted
                        /\ pick'[q].pc = "verify" => sticky[t] = pick'[q].node
    BY <1>2, <1>8 DEF SoleKept, PickPc
  <2>2. CASE q = p
    <3>1. t = s /\ PicksOf(t) = {} /\ t \notin Hunted
      BY <1>2, <1>3, <1>7, <2>1, <2>2 DEF PicksOf
    <3> QED BY <1>3, <1>7, <2>2, <3>1, PicksAssumption
  <2>3. CASE q # p
    <3>1. q \in PicksOf(t) /\ q \in Active
      BY <1>7, <2>1, <2>3 DEF PicksOf
    <3>2. t # s
      BY <1>4, <2>1, <3>1, PicksAssumption
    <3>3. SoleKept(t) /\ pick[q].sole
      BY <1>4, <2>1, <3>1 DEF SessionInv
    <3> QED BY <1>4, <1>7, <3>1, <3>2, <3>3 DEF SoleKept, PickPc
  <2> QED BY <2>2, <2>3
<1>10. ASSUME NEW t \in Sessions PROVE HomeKept(t)'
  <2>1. SUFFICES ASSUME home'[t] # NoNode PROVE HomeKept(t)'
    BY DEF HomeKept
  <2>2. home'[t] = home[t] /\ (t = s => PicksOf(t) = {})
    BY <1>1, <2>1 DEF Begin2
  <2>3. HomeKept(t)
    BY DEF SessionInv
  <2>4. ASSUME NEW q \in PicksOf(t)'
        PROVE  pick'[q].pc = "sticky" \/ (pick'[q].pc = "verify" /\ pick'[q].node = home[t])
    <3>1. CASE t = s
      BY <1>3, <1>7, <2>2, <2>4, <3>1, PicksAssumption
    <3>2. CASE t # s
      <4>1. q \in PicksOf(t) /\ q \in Active
        BY <1>7, <2>4, <3>2 DEF PicksOf
      <4> QED BY <1>4, <2>1, <2>2, <2>3, <4>1 DEF HomeKept, PickPc
    <3> QED BY <3>1, <3>2
  <2> QED BY <1>2, <1>8, <2>1, <2>2, <2>3, <2>4 DEF HomeKept, PickPc
<1> QED BY <1>9, <1>10 DEF SessionInv

LEMMA ExpiryKeepsSessions ==
  ASSUME PickInvariant, SessionInv, NEW s \in Sessions, StickyExpires(s)
  PROVE  SessionInv'
<1>1. /\ UNCHANGED <<rows, cache, worker, history>> /\ SelectorTypeOK
      /\ pick \in Picking /\ home \in Homes /\ sticky \in [Sessions -> Nodes \cup {NoNode}]
  BY DEF StickyExpires, PickInvariant, SelectorTypeOK, TypeOK, Picking, Homes
<1>2. ASSUME NEW q \in Active
      PROVE  /\ pick'[q].pc = pick[q].pc /\ pick'[q].session = pick[q].session
             /\ pick[q].session = s => ~pick'[q].sole
             /\ pick[q].session # s => pick'[q] = pick[q]
  <2>1. pick[q] \in ActiveStates /\ q \in Picks
    BY <1>1, <1>2, PickType DEF Active
  <2>2. CASE pick[q].session = s
    <3>1. pick'[q] = [pick[q] EXCEPT !.sole = FALSE]
      BY <1>2, <2>1, <2>2 DEF StickyExpires, PicksOf
    <3> QED BY <2>1, <2>2, <3>1 DEF ActiveStates
  <2>3. CASE pick[q].session # s
    <3>1. pick'[q] = pick[q]
      BY <1>2, <2>1, <2>3 DEF StickyExpires, PicksOf
    <3> QED BY <2>3, <3>1
  <2> QED BY <2>2, <2>3
<1>3. Active' = Active
  <2>1. \A q \in Picks : q \notin Active => pick'[q] = pick[q]
    BY DEF StickyExpires, PicksOf
  <2> QED BY <1>2, <2>1 DEF Active
<1>4. \A t \in Sessions : PicksOf(t)' = PicksOf(t)
  BY <1>2, <1>3 DEF PicksOf
<1>5. SoleKept(s)' /\ HomeKept(s)'
  <2>1. SoleKept(s)'
    BY <1>2, <1>4 DEF SoleKept, PicksOf
  <2>2. HomeKept(s)'
    BY <1>1 DEF HomeKept, StickyExpires, Homes
  <2> QED BY <2>1, <2>2
<1>6. ASSUME NEW t \in Sessions, t # s PROVE SoleKept(t)' /\ HomeKept(t)'
  <2>1. Kept(t) /\ sticky'[t] = sticky[t] /\ home'[t] = home[t]
    BY <1>1, <1>6 DEF SessionInv, Kept, StickyExpires, Homes
  <2>2. \A q \in PicksOf(t) : pick'[q] = pick[q]
    BY <1>2, <1>6 DEF PicksOf
  <2> QED BY <1>1, <1>4, <2>1, <2>2, SessionSame DEF Kept
<1> QED BY <1>5, <1>6 DEF SessionInv

(* A writer comes to a node that a session keeps, and home forgets it, or  *)
(* leaves the row of the node and the key of the session alone.            *)
LEMMA WriteKeepsSessions ==
  ASSUME PickInvariant, SessionInv, Spared, Watch
  PROVE  SessionInv'
<1>1. ASSUME NEW q \in Active
      PROVE  /\ pick'[q].pc = pick[q].pc /\ pick'[q].session = pick[q].session
             /\ pick'[q].node = pick[q].node
             /\ pick'[q].sole => pick[q].sole /\ pick[q].session \notin Hunted'
  <2>1. pick[q] \in ActiveStates /\ q \in Picks
    BY <1>1, PickType DEF Active, PickInvariant
  <2>2. PICK c : c = Calm'
    OBVIOUS
  <2>3. PICK b \in BOOLEAN : b <=> pick[q].session \notin Hunted'
    OBVIOUS
  <2>4. pick'[q] = [pick[q] EXCEPT !.calm = @ \cap c, !.sole = @ /\ b]
    BY <1>1, <2>1, <2>2, <2>3 DEF Watch
  <2>5. pick'[q].sole = (pick[q].sole /\ b)
    BY <2>1, <2>4 DEF ActiveStates
  <2>6. /\ pick'[q].pc = pick[q].pc /\ pick'[q].session = pick[q].session
        /\ pick'[q].node = pick[q].node
    BY <2>1, <2>4 DEF ActiveStates
  <2> QED BY <2>3, <2>5, <2>6
<1>2. Active' = Active
  <2>1. \A q \in Picks : q \notin Active => pick'[q] = pick[q]
    BY DEF Watch
  <2> QED BY <1>1, <2>1 DEF Active
<1>3. \A s \in Sessions : PicksOf(s)' = PicksOf(s)
  BY <1>1, <1>2 DEF PicksOf
<1>4. ASSUME NEW s \in Sessions PROVE SoleKept(s)'
  <2>1. SUFFICES ASSUME NEW q \in PicksOf(s), pick'[q].sole
                 PROVE  /\ PicksOf(s) = {q} /\ s \notin Hunted'
                        /\ pick'[q].pc = "verify" => sticky'[s] = pick'[q].node
    BY <1>3 DEF SoleKept, PickPc
  <2>2. q \in Active /\ pick[q].session = s
    BY DEF PicksOf
  <2>3. pick[q].sole /\ s \notin Hunted'
    BY <1>1, <2>1, <2>2
  <2>4. SoleKept(s)
    BY DEF SessionInv
  <2>5. sticky'[s] = sticky[s]
    BY <2>1, <2>3, <2>4 DEF SoleKept, Spared
  <2> QED BY <1>1, <2>1, <2>2, <2>3, <2>4, <2>5 DEF SoleKept, PickPc
<1>5. ASSUME NEW s \in Sessions PROVE HomeKept(s)'
  <2>1. SUFFICES ASSUME home'[s] # NoNode PROVE HomeKept(s)'
    BY DEF HomeKept
  <2>2. home'[s] = home[s] /\ home[s] \in Quiet'
    BY <2>1 DEF Watch
  <2>3. HomeKept(s)
    BY DEF SessionInv
  <2>4. sticky[s] = home[s] /\ home[s] \in Quiet \cap UsableNodes /\ s \notin Hunted
    BY <2>1, <2>2, <2>3 DEF HomeKept
  <2>5. sticky'[s] = sticky[s] /\ s \notin Hunted'
    BY <2>4 DEF Spared
  <2>6. home[s] \in UsableNodes'
    BY <2>2, <2>4 DEF Spared, UsableNodes, HasRow, Usable
  <2>7. \A q \in PicksOf(s) : pick'[q].pc = "sticky"
                              \/ (pick'[q].pc = "verify" /\ pick'[q].node = home[s])
    BY <1>1, <2>1, <2>2, <2>3 DEF HomeKept, PickPc, PicksOf
  <2> QED BY <1>3, <2>2, <2>4, <2>5, <2>6, <2>7 DEF HomeKept, PickPc
<1> QED BY <1>4, <1>5 DEF SessionInv

LEMMA RestartKeepsSessions ==
  ASSUME PickInvariant, SessionInv, RestartAll
  PROVE  SessionInv'
<1>1. Active' = {} /\ UNCHANGED <<rows, sticky, home>> /\ worker' = [w \in Workers |-> Idle]
  BY RestartMoves DEF PickInvariant, RestartAll, Restart, storeVars
<1>2. Hunted' = {}
  BY <1>1 DEF Hunted
<1>3. Quiet' = Nodes
  BY <1>1, NamesAssumption DEF Quiet, At, Idle
<1>4. UsableNodes' = UsableNodes
  BY <1>1 DEF UsableNodes, HasRow, Usable
<1>5. \A s \in Sessions : PicksOf(s)' = {}
  BY <1>1 DEF PicksOf
<1>6. ASSUME NEW s \in Sessions PROVE SoleKept(s)' /\ HomeKept(s)'
  <2>1. SoleKept(s)'
    BY <1>5 DEF SoleKept
  <2>2. HomeKept(s)'
    BY <1>1, <1>2, <1>3, <1>4, <1>5 DEF SessionInv, HomeKept, UsableNodes
  <2> QED BY <2>1, <2>2
<1> QED BY <1>6 DEF SessionInv

LEMMA SessionInvStep ==
  PickInvariant /\ SessionInv /\ [SelectorNext]_selectorVars => SessionInv'
<1> SUFFICES ASSUME PickInvariant, SessionInv, [SelectorNext]_selectorVars PROVE SessionInv'
  OBVIOUS
<1>1. CASE UNCHANGED selectorVars
  <2>1. UNCHANGED <<rows, cache, sticky, worker, history, pick, home>>
    BY <1>1 DEF selectorVars, vars, storeVars, pickVars
  <2>2. \A s \in Sessions : PicksOf(s)' = PicksOf(s)
    BY <2>1 DEF PicksOf, Active
  <2> QED BY <2>1, <2>2, SessionSame DEF SessionInv, Kept
<1>2. ASSUME NEW p \in Picks, Pick(p) \/ PickFails(p) PROVE SessionInv'
  BY <1>2, SearchKeeps, StickyKeeps, StartKeepsSessions DEF Pick, PickFails
<1>3. ASSUME NEW s \in Sessions, StickyExpires(s) PROVE SessionInv'
  BY <1>3, ExpiryKeepsSessions
<1>4. CASE WriteStep
  BY <1>4, WriteSpares, WriteKeepsSessions DEF WriteStep, PickInvariant, SelectorTypeOK
<1>5. CASE RestartAll
  BY <1>5, RestartKeepsSessions
<1> QED BY <1>1, <1>2, <1>3, <1>4, <1>5 DEF SelectorNext

LEMMA SessionInvInit == SelectorInit => SessionInv
<1> SUFFICES ASSUME SelectorInit PROVE SessionInv
  OBVIOUS
<1>1. New.pc \notin ActiveSteps
  BY DEF New, ActiveSteps
<1>2. \A s \in Sessions : PicksOf(s) = {}
  BY <1>1 DEF SelectorInit, PicksOf, Active
<1> QED BY <1>2 DEF SelectorInit, SessionInv, SoleKept, HomeKept

(* The invariant that runs check holds for all bounds: also what a session *)
(* that a request alone with it has bound may rely on.                     *)
THEOREM SelectorInvariant == SelectorSpec => []SelectorInv
<1>1. PickInvariant /\ SessionInv => SelectorInv
  BY DEF PickInvariant, SelectorInv
<1> QED BY <1>1, SessionInvInit, SessionInvStep, PickInvariantHolds, PTL DEF SelectorSpec

(* The session gets its node, request after request, until a writer comes  *)
(* to that node, two requests of the session overlap, or something fails.  *)
THEOREM SelectorSessionKeepsNode == SelectorSpec => SessionKeepsNode
<1>1. ASSUME PickInvariant, SessionInv, [SelectorNext]_selectorVars, NEW p \in Picks,
             NEW s \in Sessions, Returns(p), p \in PicksOf(s), home[s] # NoNode
      PROVE  pick'[p].node = home[s]
  <2>1. PickPc(p, "sticky") \/ (PickPc(p, "verify") /\ pick[p].node = home[s])
    BY <1>1 DEF SessionInv, HomeKept
  <2>2. SelectorTypeOK /\ p \in Active /\ pick'[p].pc = "picked"
    BY <1>1 DEF PickInvariant, Returns, PickPc
  <2>3. Pick(p) \/ PickFails(p)
    BY <1>1, <2>2, OwnStep DEF ActiveSteps
  <2>4. VerifySticky(p) /\ pick[p].node \in UsableNodes
    BY <2>1, <2>2, <2>3, Ending DEF PickPc, LoadEnd, Query, BindSticky, BindStickyFails,
       CandidatesFail, ActiveSteps
  <2>5. pick[p].node = home[s]
    BY <2>1, <2>4 DEF VerifySticky, PickPc
  <2>6. pick'[p] = End("picked", pick[p].node, rows[pick[p].node])
    BY <2>2, <2>4 DEF VerifySticky, PickBecome, SelectorTypeOK, Active
  <2> QED BY <2>5, <2>6 DEF End
<1>2. PickInvariant /\ SessionInv /\ [SelectorNext]_selectorVars =>
        [\A p \in Picks, s \in Sessions :
           (Returns(p) /\ p \in PicksOf(s) /\ home[s] # NoNode)
              => pick'[p].node = home[s]]_selectorVars
  BY <1>1
<1>3. SelectorInv => SessionInv
  BY DEF SelectorInv
<1> QED BY <1>2, <1>3, PickInvariantHolds, SelectorInvariant, PTL
        DEF SelectorSpec, SessionKeepsNode

-----------------------------------------------------------------------------
(* The end of Pick.                                                        *)
LEMMA StageFalls ==
  ASSUME NEW x, NEW y,
         \/ x.pc \in ActiveSteps /\ y.pc \in {"picked", "failed"}
         \/ x.pc = "new" /\ y.pc \in {"sticky", "match"}
         \/ x.pc = "sticky" /\ y.pc \in {"verify", "match"}
         \/ x.pc = "verify" /\ y.pc = "drop"
         \/ x.pc = "drop" /\ y.pc = "match"
         \/ x.pc = "match" /\ y.pc \in {"query", "load"}
         \/ x.pc = "load" /\ y.pc \in {"query", "bind"}
         \/ x.pc = "query" /\ y.pc = "bind"
  PROVE  PickBehind(y, x)
<1>1. Stage[y.pc] < Stage[x.pc]
  BY DEF Stage, ActiveSteps
<1> QED BY <1>1 DEF PickBehind

LEMMA EndPc == \A pc, n, row : End(pc, n, row).pc = pc
  BY DEF End

(* What its own steps make of a request.                                   *)
LEMMA StepPickBehind ==
  ASSUME SelectorTypeOK, NEW p \in Picks, Pick(p) \/ PickFails(p), ~StartPick(p)
  PROVE  \E y : pick' = [pick EXCEPT ![p] = y] /\ PickBehind(y, pick[p])
<1> USE DEF PickPc, PickGoto, PickBecome
<1>1. pick[p].pc \in ActiveSteps
  BY DEF Pick, PickFails, GetSticky, VerifySticky, DropSticky, MatchNodeIDs, LoadNode,
     LoadEnd, Query, BindSticky, GetStickyFails, VerifyStickyFails, DropStickyFails,
     LoadNodeFails, CandidatesFail, BindStickyFails, ActiveSteps
<1>2. PICK x \in ActiveStates : x = pick[p] /\ x.pc \in ActiveSteps
  BY <1>1, PickType
<1>3. ASSUME NEW pc, NEW n, NEW row, pc \in {"picked", "failed"},
             pick' = [pick EXCEPT ![p] = End(pc, n, row)]
      PROVE  \E y : pick' = [pick EXCEPT ![p] = y] /\ PickBehind(y, pick[p])
  <2>1. End(pc, n, row).pc \in {"picked", "failed"}
    BY <1>3, EndPc
  <2>2. PickBehind(End(pc, n, row), x)
    BY <1>2, <2>1, StageFalls
  <2> QED BY <1>2, <1>3, <2>2
<1>4. CASE GetSticky(p)
  <2>1. PICK n : n = sticky[x.session]
    OBVIOUS
  <2>2. PICK y : y = [x EXCEPT !.pc = IF n = NoNode THEN "match" ELSE "verify", !.node = n]
    OBVIOUS
  <2>3. y.pc \in {"match", "verify"}
    BY <2>2 DEF ActiveStates
  <2>4. pick' = [pick EXCEPT ![p] = y] /\ x.pc = "sticky"
    BY <1>2, <1>4, <2>1, <2>2 DEF GetSticky
  <2> QED BY <1>2, <2>3, <2>4, StageFalls
<1>5. ASSUME NEW pc, pick' = [pick EXCEPT ![p] = [x EXCEPT !.pc = pc]],
             \/ pc = "drop" /\ x.pc = "verify"
             \/ pc = "match" /\ x.pc \in {"drop", "sticky"}
             \/ pc = "query" /\ x.pc = "load"
      PROVE  \E y : pick' = [pick EXCEPT ![p] = y] /\ PickBehind(y, pick[p])
  <2>1. PICK y : y = [x EXCEPT !.pc = pc]
    OBVIOUS
  <2>2. y.pc = pc
    BY <2>1 DEF ActiveStates
  <2>3. PickBehind(y, x)
    BY <1>5, <2>2, StageFalls
  <2> QED BY <1>2, <1>5, <2>1, <2>3
<1>6. CASE VerifySticky(p)
  <2>1. CASE pick[p].node \in UsableNodes
    BY <1>3, <1>6, <2>1 DEF VerifySticky
  <2>2. CASE pick[p].node \notin UsableNodes
    BY <1>2, <1>5, <1>6, <2>2 DEF VerifySticky
  <2> QED BY <2>1, <2>2
<1>7. CASE VerifyStickyFails(p)
  BY <1>2, <1>5, <1>7 DEF VerifyStickyFails
<1>8. CASE DropSticky(p) \/ DropStickyFails(p)
  BY <1>2, <1>5, <1>8 DEF DropSticky, DropStickyFails
<1>9. CASE GetStickyFails(p)
  BY <1>2, <1>5, <1>9 DEF GetStickyFails
<1>10. CASE MatchNodeIDs(p)
  <2>1. PICK ids : ids = Members(x.filter)
    OBVIOUS
  <2>2. PICK y : y = [x EXCEPT !.pc = IF ids = {} THEN "query" ELSE "load", !.todo = ids]
    OBVIOUS
  <2>3. y.pc \in {"query", "load"}
    BY <2>2 DEF ActiveStates
  <2>4. pick' = [pick EXCEPT ![p] = y] /\ x.pc = "match"
    BY <1>2, <1>10, <2>1, <2>2 DEF MatchNodeIDs
  <2> QED BY <1>2, <2>3, <2>4, StageFalls
<1>11. ASSUME NEW n, n \in x.todo, x.pc = "load", NEW y, pick' = [pick EXCEPT ![p] = y],
              \/ y = [x EXCEPT !.todo = @ \ {n}]
              \/ \E found : y = [x EXCEPT !.todo = @ \ {n}, !.found = found]
       PROVE  \E z : pick' = [pick EXCEPT ![p] = z] /\ PickBehind(z, pick[p])
  <2>1. y.pc = "load" /\ y.todo = x.todo \ {n}
    BY <1>11 DEF ActiveStates
  <2>2. y.todo \subseteq x.todo /\ y.todo # x.todo
    BY <1>11, <2>1
  <2> QED BY <1>2, <1>11, <2>1, <2>2 DEF PickBehind
<1>12. ASSUME NEW n \in Nodes, LoadNode(p, n) \/ LoadNodeFails(p, n)
       PROVE  \E y : pick' = [pick EXCEPT ![p] = y] /\ PickBehind(y, pick[p])
  <2>1. x.pc = "load" /\ n \in x.todo
    BY <1>2, <1>12 DEF LoadNode, LoadNodeFails
  <2>2. CASE LoadNode(p, n)
    <3>1. PICK found : pick' = [pick EXCEPT ![p] = [x EXCEPT !.todo = @ \ {n}, !.found = found]]
      BY <1>2, <2>2 DEF LoadNode
    <3> QED BY <1>11, <2>1, <3>1
  <2>3. CASE LoadNodeFails(p, n)
    <3>1. pick' = [pick EXCEPT ![p] = [x EXCEPT !.todo = @ \ {n}]]
      BY <1>2, <2>3 DEF LoadNodeFails
    <3> QED BY <1>11, <2>1, <3>1
  <2> QED BY <1>12, <2>2, <2>3
<1>13. ASSUME NEW found, Choose(p, found), x.pc \in {"load", "query"}
       PROVE  \E y : pick' = [pick EXCEPT ![p] = y] /\ PickBehind(y, pick[p])
  <2>1. PICK a \in found :
          pick' = [pick EXCEPT ![p] =
                     IF x.session = NoSession
                       THEN End("picked", a[1], a[2])
                       ELSE [x EXCEPT !.pc = "bind", !.node = a[1], !.row = a[2]]]
    BY <1>2, <1>13 DEF Choose
  <2>2. CASE x.session = NoSession
    <3>1. PICK y : y = End("picked", a[1], a[2])
      OBVIOUS
    <3>2. y.pc = "picked"
      BY <3>1, EndPc
    <3>3. pick' = [pick EXCEPT ![p] = y]
      BY <2>1, <2>2, <3>1
    <3>4. PickBehind(y, x)
      BY <1>2, <3>2, StageFalls
    <3> QED BY <1>2, <3>3, <3>4
  <2>3. CASE x.session # NoSession
    <3>1. PICK y : y = [x EXCEPT !.pc = "bind", !.node = a[1], !.row = a[2]]
      OBVIOUS
    <3>2. y.pc = "bind"
      BY <3>1 DEF ActiveStates
    <3>3. pick' = [pick EXCEPT ![p] = y]
      BY <2>1, <2>3, <3>1
    <3>4. PickBehind(y, x)
      BY <1>13, <3>2, StageFalls
    <3> QED BY <1>2, <3>3, <3>4
  <2> QED BY <2>2, <2>3
<1>14. CASE LoadEnd(p)
  <2>1. CASE pick[p].found = {}
    BY <1>2, <1>5, <1>14, <2>1 DEF LoadEnd
  <2>2. CASE pick[p].found # {}
    BY <1>2, <1>13, <1>14, <2>2 DEF LoadEnd
  <2> QED BY <2>1, <2>2
<1>15. CASE Query(p)
  <2>1. x.pc = "query"
    BY <1>2, <1>15 DEF Query
  <2>2. pick' = [pick EXCEPT ![p] = End("failed", NoNode, None)] \/ \E found : Choose(p, found)
    BY <1>15 DEF Query
  <2> QED BY <1>3, <1>13, <2>1, <2>2
<1>16. CASE CandidatesFail(p) \/ BindSticky(p) \/ BindStickyFails(p)
  BY <1>3, <1>16 DEF CandidatesFail, BindSticky, BindStickyFails
<1> QED BY <1>4, <1>6, <1>7, <1>8, <1>9, <1>10, <1>12, <1>14, <1>15, <1>16 DEF Pick, PickFails

LEMMA StartBehind ==
  ASSUME NEW p \in Picks, StartPick(p)
  PROVE  /\ PickBehind(pick'[p], pick[p])
         /\ \A q \in Picks : q # p => pick'[q] \in {pick[q], [pick[q] EXCEPT !.sole = FALSE]}
<1>1. PICK s, filter : Begin2(p, s, filter)
  BY DEF StartPick
<1>2. pick'[p].pc \in {"sticky", "match"}
  BY <1>1 DEF Begin2
<1>3. pick[p].pc = "new"
  BY DEF StartPick, PickPc
<1>4. PickBehind(pick'[p], pick[p])
  BY <1>2, <1>3, StageFalls
<1> QED BY <1>1, <1>4 DEF Begin2

(* What the steps of others make of it.                                    *)
Waits(p) == UNCHANGED pick[p].pc /\ (p \in Active => UNCHANGED pick[p].todo)

LEMMA OthersWait ==
  ASSUME SelectorTypeOK, SelectorNext, NEW p \in Picks
  PROVE  Waits(p) \/ PickBehind(pick'[p], pick[p])
<1>1. /\ p \in Active => pick[p] \in ActiveStates
      /\ p \in Active <=> pick[p].pc \in ActiveSteps
  BY PickType
<1>2. CASE pick'[p] = pick[p]
  BY <1>2 DEF Waits
<1>3. ASSUME p \in Active, pick'[p] = [pick[p] EXCEPT !.sole = FALSE] PROVE Waits(p)
  BY <1>1, <1>3 DEF Waits, ActiveStates
<1>4. ASSUME NEW q \in Picks, Pick(q) \/ PickFails(q), ~StartPick(q)
      PROVE  Waits(p) \/ PickBehind(pick'[p], pick[p])
  <2>1. PICK y : pick' = [pick EXCEPT ![q] = y] /\ PickBehind(y, pick[q])
    BY <1>4, StepPickBehind
  <2>2. CASE p = q
    BY <2>1, <2>2 DEF SelectorTypeOK
  <2>3. CASE p # q
    BY <1>2, <2>1, <2>3 DEF SelectorTypeOK
  <2> QED BY <2>2, <2>3
<1>5. ASSUME NEW q \in Picks, StartPick(q)
      PROVE  Waits(p) \/ PickBehind(pick'[p], pick[p])
  <2>1. CASE p = q
    BY <1>5, <2>1, StartBehind
  <2>2. CASE p # q /\ p \in Active
    BY <1>2, <1>3, <1>5, <2>2, StartBehind
  <2>3. CASE p # q /\ p \notin Active
    <3>1. pick'[p] = pick[p]
      BY <1>5, <2>3 DEF StartPick, Begin2, PicksOf
    <3> QED BY <1>2, <3>1
  <2> QED BY <2>1, <2>2, <2>3
<1>6. ASSUME NEW s \in Sessions, StickyExpires(s)
      PROVE  Waits(p) \/ PickBehind(pick'[p], pick[p])
  <2>1. \/ pick'[p] = pick[p]
        \/ p \in Active /\ pick'[p] = [pick[p] EXCEPT !.sole = FALSE]
    BY <1>6 DEF StickyExpires, PicksOf
  <2> QED BY <1>2, <1>3, <2>1
<1>7. CASE WriteStep
  <2>1. CASE p \in Active
    <3>1. PICK c, b : pick'[p] = [pick[p] EXCEPT !.calm = @ \cap c, !.sole = @ /\ b]
      BY <1>7, <2>1 DEF WriteStep, Watch
    <3> QED BY <1>1, <2>1, <3>1 DEF Waits, ActiveStates
  <2>2. CASE p \notin Active
    BY <1>2, <1>7, <2>2 DEF WriteStep, Watch
  <2> QED BY <2>1, <2>2
<1>8. CASE RestartAll
  <2>1. CASE p \in Active
    <3>1. pick'[p].pc = "failed"
      BY <1>8, <2>1, EndPc DEF RestartAll
    <3> QED BY <1>1, <2>1, <3>1, StageFalls
  <2>2. CASE p \notin Active
    BY <1>2, <1>8, <2>2 DEF RestartAll
  <2> QED BY <2>1, <2>2
<1> QED BY <1>4, <1>5, <1>6, <1>7, <1>8 DEF SelectorNext

(* Every Pick ends by itself, for any number of requests, nodes, writers   *)
(* and failures: each of its steps brings it nearer its end, and nothing   *)
(* that anybody else does makes it start again or load more.               *)
THEOREM SelectorPicksAdvance == SelectorSpec => PicksAdvance
<1>1. ASSUME SelectorTypeOK, SelectorNext, NEW p \in Picks
      PROVE  /\ Pick(p) \/ PickFails(p) => PickBehind(pick'[p], pick[p])
             /\ \/ UNCHANGED pick[p].pc /\ (p \in Active => UNCHANGED pick[p].todo)
                \/ PickBehind(pick'[p], pick[p])
  <2>1. ASSUME Pick(p) \/ PickFails(p) PROVE PickBehind(pick'[p], pick[p])
    <3>1. CASE StartPick(p)
      BY <3>1, StartBehind
    <3>2. CASE ~StartPick(p)
      <4>1. PICK y : pick' = [pick EXCEPT ![p] = y] /\ PickBehind(y, pick[p])
        BY <1>1, <2>1, <3>2, StepPickBehind
      <4> QED BY <1>1, <4>1 DEF SelectorTypeOK
    <3> QED BY <3>1, <3>2
  <2>2. Waits(p) \/ PickBehind(pick'[p], pick[p])
    BY <1>1, OthersWait
  <2> QED BY <2>1, <2>2 DEF Waits
<1>2. SelectorTypeOK /\ SelectorNext =>
        \A p \in Picks :
          /\ Pick(p) \/ PickFails(p) => PickBehind(pick'[p], pick[p])
          /\ \/ UNCHANGED pick[p].pc /\ (p \in Active => UNCHANGED pick[p].todo)
             \/ PickBehind(pick'[p], pick[p])
  BY <1>1
<1> QED BY <1>2, SelectorTypes, PTL DEF SelectorSpec, PicksAdvance
=============================================================================
