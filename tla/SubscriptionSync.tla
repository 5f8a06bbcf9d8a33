-------------------------- MODULE SubscriptionSync --------------------------
(***************************************************************************)
(* subscription.Service: rows of subscriptions and nodes, and the links    *)
(* between them.  Sync imports the list that a provider serves, links its  *)
(* nodes and prunes the others; Delete removes a subscription with the     *)
(* nodes that it alone links; the administrator imports and deletes nodes. *)
(* One goroutine syncs what is due, the handlers of the admin API run      *)
(* beside it, and no SQL statement is in a transaction with another.  What *)
(* a row and its cache hold is in NodeCache; here a row is an id.          *)
(***************************************************************************)
EXTENDS Naturals, Sequences, FiniteSets, SequencesExt

CONSTANTS
    Subs,       \* ids of subscriptions
    Addresses,  \* (protocol, host, port) of nodes
    Endpoint,   \* the (host, port) of an address
    Lists,      \* what a provider may serve, or an administrator import
    Ticker,     \* the goroutine of Start
    Admins,     \* handlers of the admin API
    MaxOps,     \* operations of administrators
    MaxEdits,   \* changes of what a provider serves, of a switch, of the time
    MaxFaults   \* failures and restarts

ASSUME SyncAssumption ==
    /\ Lists \subseteq Seq(Addresses)
    /\ DOMAIN Endpoint = Addresses
    /\ Ticker \notin Admins
    /\ {MaxOps, MaxEdits, MaxFaults} \subseteq Nat

VARIABLES
    sub,        \* subscriptions: their life, switch and last_sync_at
    offer,      \* what the provider of each subscription serves
    rows,       \* id of the node with an address, or NoId
    links,      \* rows of subscription_nodes
    lastId, lastLink,
    worker,     \* the goroutines
    round,      \* what is left of the round of Ticker
    ops, edits, faults,
    manual,     \* history: ids that an import by hand has inserted
    disturbed   \* history: ids that two workers held at once, or a failure hit

tables == <<sub, rows, links, lastId, lastLink>>
bounds == <<ops, edits, faults>>
vars == <<tables, offer, worker, round, bounds, manual, disturbed>>

-----------------------------------------------------------------------------
NoId == 0
Workers == Admins \cup {Ticker}
HasRow(i) == \E a \in Addresses : rows[a] = i
LinksTo(i) == {l \in links : l.node = i}
LinksOf(s) == {l \in links : l.sub = s}
Present(s) == sub[s].life = "present"

(* A worker: the list it imports, what is left of it, the ids it imported, *)
(* the links to prune or the ids to examine, and the id it is about.       *)
(* History: sole is TRUE while nobody else has run since it began.         *)
Idle == [pc |-> "idle"]
Syncing(s, sole) ==
    [pc |-> "fetch", kind |-> "sync", sub |-> s, list |-> <<>>, todo |-> <<>>,
     kept |-> {}, stale |-> {}, pending |-> {}, node |-> NoId, sole |-> sole]
Importing(list, sole) ==
    [Syncing(NoId, sole) EXCEPT !.pc = "upsert", !.kind = "import", !.todo = list]
Deleting(s, sole) == [Syncing(s, sole) EXCEPT !.pc = "select", !.kind = "delete"]
Dropping(i, sole) ==
    [Syncing(NoId, sole) EXCEPT !.pc = "unlinkNode", !.kind = "drop", !.node = i]

Checking(i, a, sole) ==
    [Syncing(NoId, sole) EXCEPT !.pc = "probe", !.kind = "check", !.node = i, !.list = <<a>>]

Steps == {"fetch", "upsert", "reread", "find", "link", "prune", "unlink", "count",
          "purge", "probe", "select", "unlinkAll", "sweep", "unlinkNode", "dropNode"}
HoldingSteps == {"reread", "find", "link", "count", "purge", "unlinkNode", "dropNode"}

Busy == {w \in Workers : worker[w] # Idle}

(* A worker holds the ids that it has read and is going to link or delete. *)
Held(x) ==
    IF x = Idle THEN {}
    ELSE x.pending \cup IF x.pc \in HoldingSteps THEN {x.node} ELSE {}
Contended ==
    UNION {Held(worker[p[1]]) \cap Held(worker[p[2]]) :
             p \in {q \in Workers \X Workers : q[1] # q[2]}}

Init ==
    /\ sub \in [Subs -> {[life |-> l, enabled |-> TRUE, due |-> TRUE] : l \in {"new", "present"}}]
    /\ offer \in [Subs -> Lists]
    /\ rows = [a \in Addresses |-> NoId]
    /\ links = {}
    /\ lastId = 0 /\ lastLink = 0
    /\ worker = [w \in Workers |-> Idle]
    /\ round = {}
    /\ ops = 0 /\ edits = 0 /\ faults = 0
    /\ manual = {} /\ disturbed = {}

-----------------------------------------------------------------------------
(* Steps of a worker.  Become also records who is disturbed by the step.   *)
At(w, pc) == worker[w].pc = pc

Touch(ids) == disturbed' = disturbed \cup ids \cup Contended'

Become(w, x) == worker' = [worker EXCEPT ![w] = x] /\ Touch({})
Goto(w, pc) == Become(w, [worker[w] EXCEPT !.pc = pc])

Start(w, x) ==
    /\ worker' = [v \in Workers |->
          IF v = w THEN x
          ELSE IF worker[v] = Idle THEN Idle ELSE [worker[v] EXCEPT !.sole = FALSE]]
    /\ Touch({})
Alone == Busy = {}

Fault == faults < MaxFaults /\ faults' = faults + 1 /\ UNCHANGED <<ops, edits>>
Silent == UNCHANGED <<offer, round, bounds, manual>>

(* syncDueSubscriptions: the switch and the time are looked at when the    *)
(* round begins, the row once more when the turn of a subscription comes.  *)
StartRound ==
    /\ worker[Ticker] = Idle /\ round = {}
    /\ round' = {s \in Subs : Present(s) /\ sub[s].enabled /\ sub[s].due}
    /\ UNCHANGED <<tables, offer, worker, bounds, manual, disturbed>>

(* Mistake: a subscription that is gone ends the round.                    *)
FaultySyncNext(s) ==
    /\ worker[Ticker] = Idle /\ s \in round
    /\ IF Present(s) THEN round' = round \ {s} /\ Start(Ticker, Syncing(s, Alone))
                     ELSE round' = {} /\ UNCHANGED <<worker, disturbed>>
    /\ UNCHANGED <<tables, offer, bounds, manual>>

SyncNext(s) ==
    /\ worker[Ticker] = Idle /\ s \in round
    /\ round' = round \ {s}
    /\ IF Present(s) THEN Start(Ticker, Syncing(s, Alone)) ELSE UNCHANGED <<worker, disturbed>>
    /\ UNCHANGED <<tables, offer, bounds, manual>>

(* A handler begins: sync, import, delete a subscription, delete a node.   *)
Request(w, x) ==
    /\ worker[w] = Idle /\ ops < MaxOps
    /\ ops' = ops + 1
    /\ Start(w, x)
    /\ UNCHANGED <<tables, offer, round, edits, faults, manual>>

SyncSubscription(w) == \E s \in Subs : Present(s) /\ Request(w, Syncing(s, Alone))
ImportNodes(w) == \E list \in Lists \ {<<>>} : Request(w, Importing(list, Alone))

(* The id is not looked up: a subscription that is gone may be deleted     *)
(* once more, with the links that a late sync has given it.                *)
DeleteSubscription(w) == \E s \in Subs : Request(w, Deleting(s, Alone))
DeleteNode(w) == \E a \in Addresses : rows[a] # NoId /\ Request(w, Dropping(rows[a], Alone))

CheckNode(w) ==
    \E a \in Addresses : rows[a] # NoId /\ Request(w, Checking(rows[a], a, Alone))

-----------------------------------------------------------------------------
(* Import: persistParsedNodes, node by node.                               *)
FetchSubscription(w) ==
    /\ At(w, "fetch")
    /\ LET list == offer[worker[w].sub] IN
         Become(w, [worker[w] EXCEPT !.pc = "upsert", !.list = list, !.todo = list])
    /\ UNCHANGED tables /\ Silent

(* Mistake: the table has no index on (host, port).                        *)
FaultyConflict(a) == FALSE

(* The upsert is told about (protocol, host, port) only: another protocol  *)
(* at the same host and port violates the index idx_node_addr.             *)
Conflict(a) ==
    rows[a] = NoId /\ \E b \in Addresses : b # a /\ Endpoint[b] = Endpoint[a] /\ rows[b] # NoId

(* Mistake: the rest is pruned although the import failed.                 *)
FaultyUpsertFails(w) ==
    /\ At(w, "upsert") /\ worker[w].todo # <<>>
    /\ Conflict(Head(worker[w].todo))
    /\ IF worker[w].kind = "sync" THEN Goto(w, "prune") ELSE Become(w, Idle)
    /\ UNCHANGED tables /\ Silent

UpsertFails(w) ==
    /\ At(w, "upsert") /\ worker[w].todo # <<>>
    /\ Conflict(Head(worker[w].todo))
    /\ Become(w, Idle)
    /\ UNCHANGED tables /\ Silent

Upsert(w) ==
    LET a == Head(worker[w].todo)
        new == rows[a] = NoId IN
    /\ At(w, "upsert") /\ worker[w].todo # <<>>
    /\ ~Conflict(a)
    /\ lastId' = IF new THEN lastId + 1 ELSE lastId
    /\ rows' = IF new THEN [rows EXCEPT ![a] = lastId + 1] ELSE rows
    /\ manual' = IF new /\ worker[w].kind = "import" THEN manual \cup {lastId + 1} ELSE manual
    /\ Become(w, [worker[w] EXCEPT !.pc = "reread", !.node = rows'[a]])
    /\ UNCHANGED <<sub, links, lastLink, offer, round, bounds>>

Imported(x) == [x EXCEPT !.pc = "upsert", !.todo = Tail(@), !.kept = @ \cup {x.node}]

(* First: a node that somebody has deleted meanwhile is skipped.           *)
Reread(w) ==
    LET x == worker[w]
        i == rows[Head(x.todo)]
        y == [x EXCEPT !.node = i] IN
    /\ At(w, "reread")
    /\ Become(w, IF i = NoId THEN [x EXCEPT !.pc = "upsert", !.todo = Tail(@)]
                 ELSE IF x.kind = "sync" THEN [y EXCEPT !.pc = "find"]
                 ELSE Imported(y))
    /\ UNCHANGED tables /\ Silent

(* Mistake: a node that was linked before is not among those to keep.      *)
FaultyFindLink(w) ==
    LET x == worker[w] IN
    /\ At(w, "find")
    /\ Become(w, IF \E l \in links : l.sub = x.sub /\ l.node = x.node
                   THEN [x EXCEPT !.pc = "upsert", !.todo = Tail(@)] ELSE [x EXCEPT !.pc = "link"])
    /\ UNCHANGED tables /\ Silent

(* Mistake: the link is inserted without a look at those there are.        *)
FaultyLinkAgain(w) ==
    /\ At(w, "find")
    /\ Goto(w, "link")
    /\ UNCHANGED tables /\ Silent

(* FirstOrCreate is a SELECT and an INSERT.                                *)
FindLink(w) ==
    LET x == worker[w] IN
    /\ At(w, "find")
    /\ Become(w, IF \E l \in links : l.sub = x.sub /\ l.node = x.node
                   THEN Imported(x) ELSE [x EXCEPT !.pc = "link"])
    /\ UNCHANGED tables /\ Silent

CreateLink(w) ==
    /\ At(w, "link")
    /\ lastLink' = lastLink + 1
    /\ links' = links \cup {[id |-> lastLink + 1, sub |-> worker[w].sub, node |-> worker[w].node]}
    /\ Become(w, Imported(worker[w]))
    /\ UNCHANGED <<sub, rows, lastId>> /\ Silent

ImportEnds(w) ==
    /\ At(w, "upsert") /\ worker[w].todo = <<>>
    /\ IF worker[w].kind = "sync" THEN Goto(w, "prune") ELSE Become(w, Idle)
    /\ UNCHANGED tables /\ Silent

-----------------------------------------------------------------------------
(* pruneSubscriptionNodes: the links as they are now, one after the other. *)
ListLinks(w) ==
    /\ At(w, "prune")
    /\ Become(w, [worker[w] EXCEPT !.pc = "unlink",
                     !.stale = {l \in LinksOf(worker[w].sub) : l.node \notin worker[w].kept}])
    /\ UNCHANGED tables /\ Silent

(* Mistake: a node that loses its link is not examined.                    *)
FaultyUnlink(w) ==
    /\ At(w, "unlink")
    /\ \E l \in worker[w].stale :
          /\ links' = links \ {l}
          /\ Become(w, [worker[w] EXCEPT !.stale = @ \ {l}])
    /\ UNCHANGED <<sub, rows, lastId, lastLink>> /\ Silent

Unlink(w) ==
    /\ At(w, "unlink")
    /\ \E l \in worker[w].stale :
          /\ links' = links \ {l}
          /\ Become(w, [worker[w] EXCEPT !.pc = "count", !.stale = @ \ {l}, !.node = l.node])
    /\ UNCHANGED <<sub, rows, lastId, lastLink>> /\ Silent

(* Where a worker goes on when it is done with an id.                      *)
Next1(x) == [x EXCEPT !.pc = IF x.kind = "delete" THEN "sweep" ELSE "unlink"]

(* Mistake: the node is deleted although others link it.                   *)
FaultyCountLinks(w) ==
    /\ At(w, "count")
    /\ Goto(w, "purge")
    /\ UNCHANGED tables /\ Silent

CountLinks(w) ==
    /\ At(w, "count")
    /\ IF LinksTo(worker[w].node) = {} THEN Goto(w, "purge") ELSE Become(w, Next1(worker[w]))
    /\ UNCHANGED tables /\ Silent

WithoutRow(i) == [a \in Addresses |-> IF rows[a] = i THEN NoId ELSE rows[a]]

DeleteRow(w) ==
    /\ At(w, "purge")
    /\ rows' = WithoutRow(worker[w].node)
    /\ Become(w, Next1(worker[w]))
    /\ UNCHANGED <<sub, links, lastId, lastLink>> /\ Silent

(* Mistake: last_sync_at stays as it was.                                  *)
FaultyStamp(w) ==
    /\ At(w, "unlink") /\ worker[w].stale = {}
    /\ Become(w, Idle)
    /\ UNCHANGED tables /\ Silent

(* last_sync_at of a row that is gone is not updated.                      *)
Stamp(w) ==
    LET s == worker[w].sub IN
    /\ At(w, "unlink") /\ worker[w].stale = {}
    /\ sub' = [sub EXCEPT ![s].due = @ /\ ~Present(s)]
    /\ Become(w, Idle)
    /\ UNCHANGED <<rows, links, lastId, lastLink>> /\ Silent

-----------------------------------------------------------------------------
(* Delete: the nodes of the links, the links, the nodes, the subscription. *)
SelectNodes(w) ==
    /\ At(w, "select")
    /\ Become(w, [worker[w] EXCEPT !.pc = "unlinkAll",
                     !.pending = {l.node : l \in {k \in LinksOf(worker[w].sub) : HasRow(k.node)}}])
    /\ UNCHANGED tables /\ Silent

(* Links that came after SelectNodes go too, and nobody examines their     *)
(* nodes.                                                                  *)
UnlinkAll(w) ==
    LET mine == LinksOf(worker[w].sub) IN
    /\ At(w, "unlinkAll")
    /\ links' = links \ mine
    /\ worker' = [worker EXCEPT ![w].pc = "sweep"]
    /\ Touch({l.node : l \in mine} \ worker[w].pending)
    /\ UNCHANGED <<sub, rows, lastId, lastLink>> /\ Silent

Sweep(w) ==
    /\ At(w, "sweep")
    /\ \E i \in worker[w].pending :
          Become(w, [worker[w] EXCEPT !.pc = "count", !.pending = @ \ {i}, !.node = i])
    /\ UNCHANGED tables /\ Silent

RemoveSubscription(w) ==
    LET s == worker[w].sub IN
    /\ At(w, "sweep") /\ worker[w].pending = {}
    /\ sub' = IF Present(s) THEN [sub EXCEPT ![s].life = "deleted"] ELSE sub
    /\ Become(w, Idle)
    /\ UNCHANGED <<rows, links, lastId, lastLink>> /\ Silent

(* adminapi.deleteNode: first its links, then its row.                     *)
UnlinkNode(w) ==
    /\ At(w, "unlinkNode")
    /\ links' = links \ LinksTo(worker[w].node)
    /\ Goto(w, "dropNode")
    /\ UNCHANGED <<sub, rows, lastId, lastLink>> /\ Silent

DropNode(w) ==
    /\ At(w, "dropNode")
    /\ rows' = WithoutRow(worker[w].node)
    /\ Become(w, Idle)
    /\ UNCHANGED <<sub, links, lastId, lastLink>> /\ Silent

(* healthcheck.CheckOne saves the row that it read before the probe: a row *)
(* that was deleted meanwhile is inserted again, unless an index forbids.  *)
SaveChecked(w) ==
    LET i == worker[w].node
        a == Head(worker[w].list)
        again == ~HasRow(i) /\ rows[a] = NoId /\ ~Conflict(a) IN
    /\ At(w, "probe")
    /\ rows' = IF again THEN [rows EXCEPT ![a] = i] ELSE rows
    /\ worker' = [worker EXCEPT ![w] = Idle]
    /\ Touch(IF again THEN {i} ELSE {})
    /\ UNCHANGED <<sub, links, lastId, lastLink>> /\ Silent

-----------------------------------------------------------------------------
(* Failures: a statement or a fetch whose error ends the operation, one    *)
(* whose error is ignored, and the end of the process.                     *)
Fails(w) ==
    /\ worker[w] # Idle
    /\ Fault
    /\ worker' = [worker EXCEPT ![w] = Idle]
    /\ Touch(Held(worker[w]))
    /\ UNCHANGED <<tables, offer, round, manual>>

(* A node that cannot be read back is neither linked nor kept; a link that *)
(* cannot be made is not missed; links that stay do not save their node.   *)
IgnoredError(w) ==
    LET x == worker[w]
        go(y) == worker' = [worker EXCEPT ![w] = [y EXCEPT !.sole = FALSE]] IN
    /\ Fault
    /\ \/ At(w, "reread") /\ go([x EXCEPT !.pc = "upsert", !.todo = Tail(@)])
       \/ x.pc \in {"find", "link"} /\ go(Imported(x))
       \/ At(w, "purge") /\ x.kind = "sync" /\ go(Next1(x))
       \/ At(w, "unlinkNode") /\ go([x EXCEPT !.pc = "dropNode"])
    /\ Touch({x.node})
    /\ UNCHANGED <<tables, offer, round, manual>>

Restart ==
    /\ Fault
    /\ worker' = [w \in Workers |-> Idle]
    /\ round' = {}
    /\ Touch(UNION {Held(worker[w]) : w \in Workers})
    /\ UNCHANGED <<tables, offer, manual>>

(* The provider, the administrator and the clock.  A subscription is       *)
(* created switched on, whatever was asked: FALSE is the zero value, for   *)
(* which the library inserts the default of the column.                    *)
Publish(s) ==
    /\ edits < MaxEdits /\ edits' = edits + 1
    /\ \E list \in Lists : offer' = [offer EXCEPT ![s] = list]
    /\ UNCHANGED <<tables, worker, round, ops, faults, manual, disturbed>>

EditRow(s, row) ==
    /\ edits < MaxEdits /\ edits' = edits + 1
    /\ sub' = [sub EXCEPT ![s] = row]
    /\ UNCHANGED <<rows, links, lastId, lastLink, offer, worker, round, ops, faults, manual, disturbed>>

CreateSubscription(s) ==
    sub[s].life = "new" /\ EditRow(s, [life |-> "present", enabled |-> TRUE, due |-> TRUE])

UpdateSubscription(s) ==
    Present(s) /\ EditRow(s, [sub[s] EXCEPT !.enabled = ~@])

TimePasses(s) ==
    Present(s) /\ ~sub[s].due /\ EditRow(s, [sub[s] EXCEPT !.due = TRUE])

-----------------------------------------------------------------------------
ImportStep(w) ==
    \/ FetchSubscription(w) \/ UpsertFails(w) \/ Upsert(w) \/ Reread(w)
    \/ FindLink(w) \/ CreateLink(w) \/ ImportEnds(w)

DeletionStep(w) ==
    \/ ListLinks(w) \/ Unlink(w) \/ CountLinks(w) \/ DeleteRow(w) \/ Stamp(w)
    \/ SelectNodes(w) \/ UnlinkAll(w) \/ Sweep(w) \/ RemoveSubscription(w)
    \/ UnlinkNode(w) \/ DropNode(w)

WorkerStep(w) == ImportStep(w) \/ DeletionStep(w) \/ SaveChecked(w)

Handler(w) ==
    \/ SyncSubscription(w) \/ ImportNodes(w) \/ DeleteSubscription(w)
    \/ DeleteNode(w) \/ CheckNode(w)

Environment ==
    \E s \in Subs :
        Publish(s) \/ CreateSubscription(s) \/ UpdateSubscription(s) \/ TimePasses(s)

TickerStep == StartRound \/ (\E s \in Subs : SyncNext(s)) \/ WorkerStep(Ticker)

Next ==
    \/ TickerStep \/ Environment \/ Restart
    \/ \E w \in Admins : Handler(w) \/ WorkerStep(w)
    \/ \E w \in Workers : Fails(w) \/ IgnoredError(w)

Spec == Init /\ [][Next]_vars

(* The ticker fires every minute, and a fetch has a timeout of 20 seconds. *)
FairSpec == Spec /\ WF_vars(TickerStep)

-----------------------------------------------------------------------------
Ids == 1..lastId
Links == [id : 1..lastLink, sub : Subs, node : Ids]
WorkerStates ==
    [pc : Steps, kind : {"sync", "import", "delete", "drop", "check"},
     sub : Subs \cup {NoId}, list : Seq(Addresses), todo : Seq(Addresses),
     kept : SUBSET Ids, stale : SUBSET Links, pending : SUBSET Ids,
     node : Ids \cup {NoId}, sole : BOOLEAN]

(* Types, and the unique indexes of proxy_nodes and subscription_nodes.    *)
TypeOK ==
    /\ sub \in [Subs -> [life : {"new", "present", "deleted"}, enabled : BOOLEAN, due : BOOLEAN]]
    /\ offer \in [Subs -> Seq(Addresses)]
    /\ rows \in [Addresses -> Ids \cup {NoId}]
    /\ \A a, b \in Addresses :
          rows[a] # NoId /\ rows[b] # NoId /\ a # b => rows[a] # rows[b] /\ Endpoint[a] # Endpoint[b]
    /\ links \subseteq Links
    /\ lastId \in Nat /\ lastLink \in Nat
    /\ worker \in [Workers -> WorkerStates \cup {Idle}]
    /\ round \subseteq Subs
    /\ ops \in 0..MaxOps /\ edits \in 0..MaxEdits /\ faults \in 0..MaxFaults
    /\ manual \subseteq Ids /\ disturbed \subseteq Ids

(* A linked node exists, however syncs, deletions, imports and checks      *)
(* interleave, unless two of them held that very node at the same time or  *)
(* a failure hit it: count, then delete, in prune and Delete.              *)
LinkedNodesExist ==
    \A l \in links : HasRow(l.node) \/ l.node \in disturbed

(* A node that nobody is working on is linked by some subscription, or was *)
(* imported by hand: what no subscription lists any more is deleted with   *)
(* its last link, whichever of several subscriptions drops it last.        *)
NodesAreLinked ==
    \A a \in Addresses :
        \/ rows[a] \in {NoId} \cup manual \cup disturbed
        \/ LinksTo(rows[a]) # {}
        \/ \E w \in Workers : rows[a] \in Held(worker[w])

(* FirstOrCreate makes no second link, although subscription_nodes has no  *)
(* unique index: only two syncs at the same node at once make one.         *)
OneLinkEach ==
    \A l, k \in links :
        l.sub = k.sub /\ l.node = k.node => l = k \/ l.node \in disturbed

(* A sync that nobody overlaps takes no link from a node of its list: a    *)
(* failed import prunes nothing, an unchanged list deletes nothing.        *)
PruneSparesList ==
    [][\A w \in Workers :
         /\ At(w, "unlink") /\ worker[w].sole /\ worker' # worker
         => \A l \in links \ links', a \in Addresses :
              worker'[w] # worker[w] /\ rows[a] = l.node
                => a \notin ToSet(worker[w].list)]_vars

(* A sync that nobody overlaps and that succeeds leaves exactly the links  *)
(* of its list, each to an existing node, whatever earlier races and       *)
(* failures have left behind.                                              *)
SyncExact ==
    [][\A w \in Workers :
         /\ At(w, "unlink") /\ worker[w].sole
         /\ worker'[w] = Idle /\ faults' = faults
         => {l.node : l \in LinksOf(worker[w].sub)} = {rows[a] : a \in ToSet(worker[w].list)}]_vars

(* A subscription that is due and switched on is synced in the end, unless *)
(* it is switched off or deleted.                                          *)
EventuallySynced ==
    \A s \in Subs :
        (Present(s) /\ sub[s].enabled /\ sub[s].due)
          ~> ~(Present(s) /\ sub[s].enabled /\ sub[s].due)

(* What a worker has left to do, in the order of its phases, of the items  *)
(* of a phase and of the commands for an item.                             *)
Phase ==
    [idle |-> 0, fetch |-> 4, upsert |-> 3, reread |-> 3, find |-> 3, link |-> 3,
     prune |-> 2, unlink |-> 1, count |-> 1, purge |-> 1, select |-> 3, unlinkAll |-> 2, sweep |-> 1,
     unlinkNode |-> 2, dropNode |-> 1, probe |-> 1]
Command ==
    [upsert |-> 3, reread |-> 2, find |-> 1, link |-> 0, count |-> 2, purge |-> 1, unlink |-> 0, sweep |-> 0]
Items(x) == Len(x.todo) + Cardinality(x.stale) + Cardinality(x.pending)

Behind(y, x) ==
    \/ Phase[y.pc] < Phase[x.pc]
    \/ /\ Phase[y.pc] = Phase[x.pc]
       /\ \/ Items(y) < Items(x)
          \/ Items(y) = Items(x) /\ Command[y.pc] < Command[x.pc]

(* Every operation ends, whatever the others do to the tables meanwhile:   *)
(* each of its steps leaves it less to do, so that a sync never chases     *)
(* links that others keep adding, nor a deletion its nodes.                *)
WorkersAdvance ==
    [][\A w \in Workers :
         worker[w] # Idle /\ worker'[w] \notin {worker[w], [worker[w] EXCEPT !.sole = FALSE]}
           => Behind(worker'[w], worker[w])]_vars

Due(s) == Present(s) /\ sub[s].enabled /\ sub[s].due

(* How far s is from its sync: it runs, it is in the round, the next round *)
(* begins, or this one has to end first.                                   *)
Turn(s) ==
    IF worker[Ticker] # Idle /\ worker[Ticker].sub = s THEN 1
    ELSE IF s \in round THEN 2
    ELSE IF worker[Ticker] = Idle /\ round = {} THEN 3 ELSE 4

(* The core of EventuallySynced.  Nobody joins a round that has begun, and *)
(* what is due never falls back: the syncs before it may fail, their       *)
(* subscriptions be deleted, and its own sync ends with last_sync_at, by a *)
(* failure, or at a row that another node's address forbids.               *)
TurnsCome ==
    [][/\ round # {} => round' \subseteq round
       /\ \A s \in Subs : Due(s) =>
            \/ Turn(s)' <= Turn(s) \/ ~Due(s)' \/ faults' > faults
            \/ /\ At(Ticker, "upsert") /\ worker[Ticker].sub = s
               /\ worker[Ticker].todo # <<>> /\ Conflict(Head(worker[Ticker].todo))]_vars
=============================================================================
