------------------------------ MODULE Selector ------------------------------
(***************************************************************************)
(* selector.Pick, which finds the upstream node of a request: the node of  *)
(* its sticky session if the database still calls it usable, else one of   *)
(* the cached nodes that the index sets name, else one the database names. *)
(* Many requests pick at once, while workers write the nodes (NodeCache).  *)
(***************************************************************************)
EXTENDS NodeCache

CONSTANTS
    Picks,      \* requests; each picks once
    NoSession,  \* a request without a session id
    Filters,    \* filters of requests, by region, state, both or neither
    FilterOf    \* the filter that is part of the sticky key of a session

ASSUME PicksAssumption ==
    /\ Filters \subseteq [region : Regions \cup {Unknown}, state : Regions \cup {Unknown}]
    /\ FilterOf \in [Sessions -> Filters]
    /\ NoSession \notin Sessions

VARIABLES
    pick,   \* the requests
    home    \* history: the node that a session must keep

pickVars == <<pick, home>>
selectorVars == <<vars, pickVars>>

-----------------------------------------------------------------------------
(* "verify" has read a sticky key, "drop" will delete it; "load" reads the *)
(* cached nodes of todo one by one into found; "bind" has chosen a node.   *)
(* History: calm are the nodes without a writer since the request began    *)
(* whose last writer was clean; sole is FALSE once somebody else may       *)
(* change the sticky key of the session.                                   *)
ActiveSteps == {"sticky", "verify", "drop", "match", "load", "query", "bind"}

ActiveStates ==
    [pc : ActiveSteps, session : Sessions \cup {NoSession}, filter : Filters,
     node : Nodes \cup {NoNode}, row : Rows \cup {None}, todo : SUBSET Nodes,
     found : SUBSET (Nodes \X Rows), calm : SUBSET Nodes, sole : BOOLEAN]

EndStates ==
    [pc : {"picked", "failed"}, node : Nodes \cup {NoNode}, row : Rows \cup {None}]

New == [pc |-> "new", node |-> NoNode, row |-> None]
End(pc, n, row) == [pc |-> pc, node |-> n, row |-> row]

Active == {p \in Picks : pick[p].pc \in ActiveSteps}
PicksOf(s) == {p \in Active : pick[p].session = s}

(* Sessions whose key a cleanup is about to delete.                        *)
Hunted == UNION {worker[w].hits : w \in {v \in Workers : worker[v] # Idle}}

Quiet == {n \in Nodes : At(n) = {}}
Calm == Quiet \ dirty

SelectorInit ==
    /\ Init
    /\ pick = [p \in Picks |-> New]
    /\ home = [s \in Sessions |-> NoNode]

PickPc(p, pc) == pick[p].pc = pc
PickBecome(p, x) == pick' = [pick EXCEPT ![p] = x]
PickGoto(p, pc) == PickBecome(p, [pick[p] EXCEPT !.pc = pc])

Begin2(p, s, filter) ==
    LET others == PicksOf(s) IN
    /\ pick' = [q \in Picks |->
          IF q = p
            THEN [pc |-> IF s = NoSession THEN "match" ELSE "sticky",
                  session |-> s, filter |-> filter, node |-> NoNode, row |-> None,
                  todo |-> {}, found |-> {}, calm |-> Calm,
                  sole |-> s # NoSession /\ others = {} /\ s \notin Hunted]
            ELSE IF s # NoSession /\ q \in others THEN [pick[q] EXCEPT !.sole = FALSE]
            ELSE pick[q]]
    /\ home' = [t \in Sessions |-> IF t = s /\ others # {} THEN NoNode ELSE home[t]]

(* A request that was admitted starts to pick.                             *)
StartPick(p) ==
    /\ PickPc(p, "new")
    /\ \/ \E s \in Sessions : Begin2(p, s, FilterOf[s])
       \/ \E filter \in Filters : Begin2(p, NoSession, filter)
    /\ UNCHANGED vars

-----------------------------------------------------------------------------
(* The sticky session.                                                     *)
GetSticky(p) ==
    /\ PickPc(p, "sticky")
    /\ LET n == sticky[pick[p].session] IN
         PickBecome(p, [pick[p] EXCEPT !.pc = IF n = NoNode THEN "match" ELSE "verify",
                                       !.node = n])
    /\ UNCHANGED <<vars, home>>

UsableNodes == {n \in Nodes : HasRow(n) /\ Usable(rows[n])}

(* The session of a request that was alone with it keeps the node that it  *)
(* gets, as long as no writer comes to the node.                           *)
Settle(p, n) ==
    home' = [s \in Sessions |->
               IF s = pick[p].session
                 THEN IF pick[p].sole /\ n \in pick[p].calm THEN n ELSE NoNode
                 ELSE home[s]]

(* Mistake: the switch of the node is not looked at.                       *)
FaultyVerifySticky(p) ==
    LET n == pick[p].node IN
    /\ PickPc(p, "verify")
    /\ IF HasRow(n) /\ rows[n].healthy
         THEN PickBecome(p, End("picked", n, rows[n])) /\ Settle(p, n)
         ELSE PickGoto(p, "drop") /\ UNCHANGED home
    /\ UNCHANGED vars

VerifySticky(p) ==
    LET n == pick[p].node IN
    /\ PickPc(p, "verify")
    /\ IF n \in UsableNodes
         THEN PickBecome(p, End("picked", n, rows[n])) /\ Settle(p, n)
         ELSE PickGoto(p, "drop") /\ UNCHANGED home
    /\ UNCHANGED vars

SetSticky(s, n) ==
    /\ sticky' = [sticky EXCEPT ![s] = n]
    /\ UNCHANGED <<rows, cache, healthyNodes, index, worker, ops, faults, history>>

(* Whatever node the key has by now.                                       *)
DropSticky(p) ==
    /\ PickPc(p, "drop")
    /\ SetSticky(pick[p].session, NoNode)
    /\ PickGoto(p, "match")
    /\ UNCHANGED home

-----------------------------------------------------------------------------
(* Mistake: the region is not among the sets.                              *)
FaultyMembers(f) == IF f.state # Unknown THEN {} ELSE healthyNodes

(* matchNodeIDs: SMEMBERS or SINTER.  The states are not indexed.          *)
Members(f) ==
    IF f.state # Unknown THEN {}
    ELSE IF f.region = Unknown THEN healthyNodes
    ELSE healthyNodes \cap index[f.region]

MatchNodeIDs(p) ==
    /\ PickPc(p, "match")
    /\ LET ids == Members(pick[p].filter) IN
         PickBecome(p, [pick[p] EXCEPT !.pc = IF ids = {} THEN "query" ELSE "load",
                                       !.todo = ids])
    /\ UNCHANGED <<vars, home>>

(* LoadNode of one member.  Its region is not looked at again.             *)
LoadNode(p, n) ==
    /\ PickPc(p, "load")
    /\ n \in pick[p].todo
    /\ PickBecome(p, [pick[p] EXCEPT
          !.todo = @ \ {n},
          !.found = IF CachedUsable(n) THEN @ \cup {<<n, cache[n]>>} ELSE @])
    /\ UNCHANGED <<vars, home>>

(* A node of those found at random; a session is bound to it next.         *)
Choose(p, found) ==
    \E x \in found :
        PickBecome(p, IF pick[p].session = NoSession
                        THEN End("picked", x[1], x[2])
                        ELSE [pick[p] EXCEPT !.pc = "bind", !.node = x[1], !.row = x[2]])

LoadEnd(p) ==
    /\ PickPc(p, "load")
    /\ pick[p].todo = {}
    /\ IF pick[p].found = {} THEN PickGoto(p, "query") ELSE Choose(p, pick[p].found)
    /\ UNCHANGED <<vars, home>>

(* The database looks for a region in three columns, the index sets have   *)
(* one of them.                                                            *)
RowMatches(f, row) ==
    /\ f.region # Unknown => f.region \in {row.country, row.detected, row.expected}
    /\ f.state # Unknown => f.state = row.detected

(* Mistake: the expected region is forgotten.                              *)
FaultyQuery(p) ==
    /\ PickPc(p, "query")
    /\ LET f == pick[p].filter
           matches == {n \in UsableNodes : /\ RowMatches(f, rows[n])
                                         /\ f.region \in {Unknown, rows[n].country,
                                                          rows[n].detected}} IN
         IF matches = {} THEN PickBecome(p, End("failed", NoNode, None))
                         ELSE Choose(p, {<<n, rows[n]>> : n \in matches})
    /\ UNCHANGED <<vars, home>>

Query(p) ==
    /\ PickPc(p, "query")
    /\ LET matches == {n \in UsableNodes : RowMatches(pick[p].filter, rows[n])} IN
         IF matches = {} THEN PickBecome(p, End("failed", NoNode, None))
                         ELSE Choose(p, {<<n, rows[n]>> : n \in matches})
    /\ UNCHANGED <<vars, home>>

(* Mistake: the session is not bound.                                      *)
FaultyBindSticky(p) ==
    LET x == pick[p] IN
    /\ PickPc(p, "bind")
    /\ PickBecome(p, End("picked", x.node, x.row))
    /\ Settle(p, x.node)
    /\ UNCHANGED vars

BindSticky(p) ==
    LET x == pick[p] IN
    /\ PickPc(p, "bind")
    /\ SetSticky(x.session, x.node)
    /\ PickBecome(p, End("picked", x.node, x.row))
    /\ Settle(p, x.node)

-----------------------------------------------------------------------------
(* Failures.  No reply to the GET of a sticky key, or of a cached node,    *)
(* counts as no value, a row that cannot be read as none; without members  *)
(* or a result of the query Pick fails; the DEL and the SET are not        *)
(* repeated.                                                               *)
PickFault == Fault /\ UNCHANGED <<storeVars, worker, ops, history>>

(* The session is no longer what the request alone has made it.            *)
Lose(p) ==
    home' = [s \in Sessions |-> IF s = pick[p].session THEN NoNode ELSE home[s]]

GetStickyFails(p) ==
    /\ PickPc(p, "sticky")
    /\ PickFault
    /\ PickGoto(p, "match")
    /\ Lose(p)

VerifyStickyFails(p) ==
    /\ PickPc(p, "verify")
    /\ PickFault
    /\ PickGoto(p, "drop")
    /\ Lose(p)

DropStickyFails(p) ==
    /\ PickPc(p, "drop")
    /\ PickFault
    /\ PickGoto(p, "match")
    /\ UNCHANGED home

LoadNodeFails(p, n) ==
    /\ PickPc(p, "load")
    /\ n \in pick[p].todo
    /\ PickFault
    /\ PickBecome(p, [pick[p] EXCEPT !.todo = @ \ {n}])
    /\ UNCHANGED home

CandidatesFail(p) ==
    /\ pick[p].pc \in {"match", "query"}
    /\ PickFault
    /\ PickBecome(p, End("failed", NoNode, None))
    /\ UNCHANGED home

BindStickyFails(p) ==
    /\ PickPc(p, "bind")
    /\ PickFault
    /\ PickBecome(p, End("picked", pick[p].node, pick[p].row))
    /\ Lose(p)

(* The time to live of a sticky key is over.                               *)
StickyExpires(s) ==
    /\ sticky[s] # NoNode
    /\ Fault
    /\ sticky' = [sticky EXCEPT ![s] = NoNode]
    /\ pick' = [p \in Picks |-> IF p \in PicksOf(s) THEN [pick[p] EXCEPT !.sole = FALSE]
                                ELSE pick[p]]
    /\ home' = [home EXCEPT ![s] = NoNode]
    /\ UNCHANGED <<rows, cache, healthyNodes, index, worker, ops, history>>

-----------------------------------------------------------------------------
(* What a step of a writer means for the history of the requests.          *)
Watch ==
    /\ pick' = [p \in Picks |->
          IF p \in Active
            THEN [pick[p] EXCEPT
                    !.calm = @ \cap Calm',
                    !.sole = @ /\ pick[p].session \notin Hunted']
            ELSE pick[p]]
    /\ home' = [s \in Sessions |->
          IF home[s] \in Quiet' THEN home[s] ELSE NoNode]

WriteStep == Write /\ Watch

RestartAll ==
    /\ Restart
    /\ pick' = [p \in Picks |->
          IF p \in Active THEN End("failed", NoNode, None) ELSE pick[p]]
    /\ UNCHANGED home

Pick(p) ==
    \/ StartPick(p)
    \/ GetSticky(p) \/ VerifySticky(p) \/ DropSticky(p)
    \/ MatchNodeIDs(p) \/ (\E n \in Nodes : LoadNode(p, n)) \/ LoadEnd(p)
    \/ Query(p) \/ BindSticky(p)

PickFails(p) ==
    \/ GetStickyFails(p) \/ VerifyStickyFails(p) \/ DropStickyFails(p)
    \/ (\E n \in Nodes : LoadNodeFails(p, n)) \/ CandidatesFail(p) \/ BindStickyFails(p)

SelectorNext ==
    \/ \E p \in Picks : Pick(p) \/ PickFails(p)
    \/ \E s \in Sessions : StickyExpires(s)
    \/ WriteStep
    \/ RestartAll

SelectorSpec == SelectorInit /\ [][SelectorNext]_selectorVars

-----------------------------------------------------------------------------
SelectorTypeOK ==
    /\ TypeOK
    /\ pick \in [Picks -> ActiveStates \cup EndStates \cup {New}]
    /\ home \in [Sessions -> Nodes \cup {NoNode}]

Returns(p) == p \in Active /\ PickPc(p, "picked")'

(* A node that Pick returns is usable by the database at that moment, if   *)
(* no writer came to it meanwhile and its last writer ended cleanly: what  *)
(* Pick reads from Redis, set and rows at different times, does not lie.   *)
PickedIsUsable ==
    [][\A p \in Picks :
         (Returns(p) /\ pick'[p].node \in pick[p].calm) => pick'[p].node \in UsableNodes]_selectorVars

(* For such a node, when its index entries are exact, the row returned     *)
(* matches the filter of the request, which was tested on the sets only.   *)
(* A session keeps its node whatever becomes of the node's region.         *)
PickedMatchesFilter ==
    [][\A p \in Picks :
         (Returns(p) /\ ~PickPc(p, "verify") /\ pick'[p].node \in pick[p].calm \ strayed)
            => RowMatches(pick[p].filter, pick'[p].row)]_selectorVars

(* Unless a command fails, Pick gives up only when none of the nodes that  *)
(* no writer touched was usable and matched.                               *)
FailsOnlyWithoutNode ==
    [][\A p \in Active :
         (PickPc(p, "failed")' /\ UNCHANGED faults) =>
            \A n \in pick[p].calm : ~(n \in UsableNodes /\ RowMatches(pick[p].filter, rows[n]))]_selectorVars

(* A session keeps its node: after a request that was alone with it, each  *)
(* request of the session gets the same node, until a writer comes to that *)
(* node, two requests of the session overlap, the key expires or a command *)
(* fails.  The cleanup of other nodes does not take the session away.      *)
SessionKeepsNode ==
    [][\A p \in Picks, s \in Sessions :
         (Returns(p) /\ p \in PicksOf(s) /\ home[s] # NoNode)
            => pick'[p].node = home[s]]_selectorVars

(* What a request knows: of the nodes that no writer touched it has the    *)
(* row that is stored, and those found or chosen match its filter.         *)
Good(n, row, x) ==
    n \in x.calm => /\ n \in UsableNodes /\ row = rows[n]
                    /\ n \notin strayed => RowMatches(x.filter, row)

Knows(x) ==
    /\ x.calm \subseteq Calm
    /\ (x.sole \/ x.pc \in {"sticky", "verify", "drop", "bind"}) => x.session \in Sessions
    /\ x.pc \in {"verify", "bind"} => x.node \in Nodes
    /\ x.todo # {} => x.filter.state = Unknown
    /\ \A n \in x.todo : (n \in x.calm \ strayed /\ x.filter.region # Unknown)
                            => x.filter.region \in Entries(cache[n])
    /\ \A y \in x.found : Good(y[1], y[2], x)
    /\ x.pc = "bind" => Good(x.node, x.row, x)

Knowing == {x \in ActiveStates : Knows(x)}

PickInv == \A p \in Active : pick[p] \in Knowing

(* A request that is alone with its session: nobody else may change the    *)
(* sticky key.                                                             *)
SoleKept(s) ==
    \A p \in PicksOf(s) : pick[p].sole =>
        /\ PicksOf(s) = {p}
        /\ s \notin Hunted
        /\ PickPc(p, "verify") => sticky[s] = pick[p].node

(* A session that has a node to keep is bound to it, and so will be.       *)
HomeKept(s) ==
    home[s] # NoNode =>
        /\ sticky[s] = home[s]
        /\ home[s] \in Quiet \cap UsableNodes
        /\ s \notin Hunted
        /\ \A p \in PicksOf(s) :
              PickPc(p, "sticky") \/ (PickPc(p, "verify") /\ pick[p].node = home[s])

SessionInv == \A s \in Sessions : SoleKept(s) /\ HomeKept(s)

SelectorInv == SelectorTypeOK /\ PickInv /\ SessionInv

(* What a request has left to do: steps, and in one of them the members    *)
(* that it found and has not loaded.                                       *)
Stage ==
    [new |-> 9, sticky |-> 8, verify |-> 7, drop |-> 6, match |-> 5, load |-> 4,
     query |-> 3, bind |-> 2, picked |-> 0, failed |-> 0]

PickBehind(y, x) ==
    \/ Stage[y.pc] < Stage[x.pc]
    \/ y.pc = "load" /\ x.pc = "load" /\ y.todo \subseteq x.todo /\ y.todo # x.todo

(* Pick ends by itself: each of its steps, whether its command succeeds or *)
(* fails, brings it nearer a node or an error, and neither the writers nor *)
(* the other requests, whatever they do to the sets and to the sticky key, *)
(* make it start again or load more.                                       *)
PicksAdvance ==
    [][\A p \in Picks :
         /\ Pick(p) \/ PickFails(p) => PickBehind(pick'[p], pick[p])
         /\ \/ UNCHANGED pick[p].pc /\ (p \in Active => UNCHANGED pick[p].todo)
            \/ PickBehind(pick'[p], pick[p])]_selectorVars
=============================================================================
