----------------------------- MODULE NodeCache -----------------------------
(***************************************************************************)
(* The rows of the upstream nodes and what Redis keeps of them: the JSON   *)
(* node:<id>, the set healthy_nodes and the index sets region:<r> (city,   *)
(* asn and isp are indexed the same way).  Health checks, the admin API    *)
(* and imports read a row, save it and cache it, each statement and each   *)
(* Redis command a step of its own.                                        *)
(***************************************************************************)
EXTENDS Integers, FiniteSets

CONSTANTS
    Nodes,      \* ids of nodes; an id is never used again
    Regions,    \* values of the country and region columns
    Places,     \* what a check may find out: a country and a region in it
    Unknown,    \* the empty region
    None,       \* no row yet; no cached row
    Deleted,    \* the row was deleted
    NoNode,     \* a session without a sticky key
    Sessions,   \* sticky keys: user, filters and session id
    Workers,    \* goroutines that check, edit or import nodes
    MaxFail,    \* max_fail_count
    StartRows,  \* rows that may be there, and cached, at the start
    MaxOps,     \* bound: operations of workers
    MaxFaults   \* bound: failed commands, expiries and restarts

(* A row has more failures than MaxFail only to be compared with it.       *)
Rows == [healthy : BOOLEAN, disabled : BOOLEAN, fails : 0..MaxFail,
         expected : Regions \cup {Unknown}, detected : Regions \cup {Unknown},
         country : Regions \cup {Unknown}]

ASSUME NamesAssumption ==
    /\ Unknown \notin Regions
    /\ None \notin Rows /\ Deleted \notin Rows /\ None # Deleted
    /\ NoNode \notin Nodes
ASSUME PlacesAssumption ==
    Places \subseteq [country : Regions \cup {Unknown}, region : Regions \cup {Unknown}]
ASSUME MaxFailAssumption == MaxFail \in Nat \ {0}
ASSUME StartAssumption == StartRows \subseteq Rows \cup {None}
ASSUME BoundsAssumption == MaxOps \in Nat /\ MaxFaults \in Nat

VARIABLES
    rows,       \* table proxy_nodes
    cache,      \* node:<id>
    healthyNodes,
    index,      \* region:<r>
    sticky,     \* sticky:<uid>:<filters>:<sid>
    worker,
    ops, faults,
    dirty,      \* history: the last writers of the node overlapped or failed
    strayed     \* history: an index set may have kept an old entry of the node

storeVars == <<rows, cache, healthyNodes, index, sticky>>
history == <<dirty, strayed>>
vars == <<storeVars, worker, ops, faults, history>>

-----------------------------------------------------------------------------
HasRow(n) == rows[n] \notin {None, Deleted}

Usable(row) == row.healthy /\ ~row.disabled

Region(row) == IF row.detected # Unknown THEN row.detected ELSE row.expected

(* "check", "toggle" and "delete" have read the row into copy, "reread"    *)
(* is an import that has written it; "load" and "exec" belong to           *)
(* CacheNode, "remove" to RemoveNode, "keys" to "unbind" to                *)
(* cleanupStickyForNode: todo are the keys to read, hits those found.      *)
(* alone: no other worker was at the node, and no command has failed.      *)
Steps == {"check", "toggle", "delete", "reread",
          "load", "exec", "remove", "keys", "scan", "unbind"}

BusyStates ==
    [pc : Steps, node : Nodes, copy : Rows, prev : Rows \cup {None},
     todo : SUBSET Sessions, hits : SUBSET Sessions, alone : BOOLEAN]

Idle == [pc |-> "idle", node |-> NoNode, alone |-> FALSE]

At(n) == {w \in Workers : worker[w].node = n}

(* The index sets that hold a node with this row.                          *)
Entries(row) == IF row = None THEN {} ELSE {Region(row)} \ {Unknown}

(* An import, checks and edits may have happened before; workers have not  *)
(* started.                                                                *)
Init ==
    /\ rows \in [Nodes -> StartRows]
    /\ cache = rows
    /\ healthyNodes = {n \in Nodes : rows[n] # None /\ Usable(rows[n])}
    /\ index = [r \in Regions |-> {n \in Nodes : r \in Entries(rows[n])}]
    /\ sticky = [s \in Sessions |-> NoNode]
    /\ worker = [w \in Workers |-> Idle]
    /\ ops = 0
    /\ faults = 0
    /\ dirty = {}
    /\ strayed = {}

-----------------------------------------------------------------------------
(* An operation of worker w on node n begins.                              *)
Begin(w, n, pc, copy) ==
    /\ worker[w] = Idle
    /\ ops < MaxOps
    /\ ops' = ops + 1
    /\ worker' = [v \in Workers |->
          IF v = w
            THEN [pc |-> pc, node |-> n, copy |-> copy, prev |-> None,
                  todo |-> {}, hits |-> {}, alone |-> At(n) = {}]
            ELSE IF v \in At(n) THEN [worker[v] EXCEPT !.alone = FALSE] ELSE worker[v]]
    /\ dirty' = IF At(n) = {} THEN dirty ELSE dirty \cup {n}
    /\ strayed' = IF At(n) = {} THEN strayed ELSE strayed \cup {n}
    /\ UNCHANGED <<cache, healthyNodes, index, sticky, faults>>

(* Mistake: a row that is not found is checked.                            *)
FaultyStartCheck(w, n) ==
    /\ Begin(w, n, "check", rows[n])
    /\ UNCHANGED rows

StartCheck(w, n) ==
    /\ HasRow(n)
    /\ Begin(w, n, "check", rows[n])
    /\ UNCHANGED rows

StartToggle(w, n, disabled) ==
    /\ HasRow(n)
    /\ Begin(w, n, "toggle", [rows[n] EXCEPT !.disabled = disabled])
    /\ UNCHANGED rows

StartDelete(w, n) ==
    /\ HasRow(n)
    /\ Begin(w, n, "delete", rows[n])
    /\ UNCHANGED rows

NewRow(expected) ==
    [healthy |-> FALSE, disabled |-> FALSE, fails |-> 0,
     expected |-> expected, detected |-> Unknown, country |-> Unknown]

(* The upsert of persistParsedNodes: of a row that is there, the place     *)
(* that was detected, the health and the switch are kept.                  *)
Import(w, n, expected) ==
    /\ rows[n] # Deleted
    /\ rows' = [rows EXCEPT ![n] =
                  IF @ = None THEN NewRow(expected) ELSE [@ EXCEPT !.expected = expected]]
    /\ Begin(w, n, "reread", rows'[n])

-----------------------------------------------------------------------------
Pc(w, pc)   == worker[w].pc = pc
Become(w, x) == worker' = [worker EXCEPT ![w] = x]
Goto(w, pc) == Become(w, [worker[w] EXCEPT !.pc = pc])

(* db.Save writes every column, and inserts a row that is gone.            *)
Save(w, row) ==
    /\ rows' = [rows EXCEPT ![worker[w].node] = row]
    /\ Become(w, [worker[w] EXCEPT !.pc = "load", !.copy = row])
    /\ UNCHANGED <<cache, healthyNodes, index, sticky, ops, faults, history>>

Probed(row, place) ==
    [row EXCEPT !.healthy = TRUE, !.fails = 0,
                !.country = place.country, !.detected = place.region]

(* Mistake: one failure is enough.                                         *)
FaultyMarkFailure(row) ==
    LET fails == IF row.fails < MaxFail THEN row.fails + 1 ELSE MaxFail
    IN  [row EXCEPT !.fails = fails, !.healthy = FALSE]

MarkFailure(row) ==
    LET fails == IF row.fails < MaxFail THEN row.fails + 1 ELSE MaxFail
    IN  [row EXCEPT !.fails = fails, !.healthy = @ /\ fails < MaxFail]

CheckSucceeds(w) ==
    /\ Pc(w, "check")
    /\ \E place \in Places : Save(w, Probed(worker[w].copy, place))

CheckFails(w) == Pc(w, "check") /\ Save(w, MarkFailure(worker[w].copy))

Toggle(w) == Pc(w, "toggle") /\ Save(w, worker[w].copy)

(* Mistake: the import caches what it imported, not the row it has saved.  *)
FaultyReread(w) ==
    /\ Pc(w, "reread")
    /\ Become(w, IF HasRow(worker[w].node)
                   THEN [worker[w] EXCEPT !.pc = "load", !.copy = NewRow(@.expected)]
                   ELSE Idle)
    /\ UNCHANGED <<storeVars, ops, faults, history>>

(* The import loads the row as it is after the upsert.                     *)
Reread(w) ==
    /\ Pc(w, "reread")
    /\ Become(w, IF HasRow(worker[w].node)
                   THEN [worker[w] EXCEPT !.pc = "load", !.copy = rows[worker[w].node]]
                   ELSE Idle)
    /\ UNCHANGED <<storeVars, ops, faults, history>>

(* Deleting a row that is gone is not an error.                            *)
DeleteRow(w) ==
    /\ Pc(w, "delete")
    /\ rows' = [rows EXCEPT ![worker[w].node] = Deleted]
    /\ Goto(w, "remove")
    /\ UNCHANGED <<cache, healthyNodes, index, sticky, ops, faults, history>>

-----------------------------------------------------------------------------
(* Mistake: the index entries of the row cached before are not looked up.  *)
FaultyCacheLoad(w) ==
    /\ Pc(w, "load")
    /\ Goto(w, "exec")
    /\ UNCHANGED <<storeVars, ops, faults, history>>

(* CacheNode reads what is cached, to know which entries to take back.     *)
CacheLoad(w) ==
    /\ Pc(w, "load")
    /\ Become(w, [worker[w] EXCEPT !.pc = "exec", !.prev = cache[worker[w].node]])
    /\ UNCHANGED <<storeVars, ops, faults, history>>

Heal(w) == dirty' = IF worker[w].alone THEN dirty \ {worker[w].node} ELSE dirty

(* Mistake: the new entries come first, then the old ones go.              *)
FaultyCacheExec(w) ==
    LET n == worker[w].node  row == worker[w].copy IN
    /\ Pc(w, "exec")
    /\ cache' = [cache EXCEPT ![n] = row]
    /\ healthyNodes' = IF Usable(row) THEN healthyNodes \cup {n} ELSE healthyNodes \ {n}
    /\ index' = [r \in Regions |->
          IF r \in Entries(worker[w].prev) THEN index[r] \ {n}
          ELSE IF r \in Entries(row) THEN index[r] \cup {n}
          ELSE index[r]]
    /\ IF Usable(row) THEN Become(w, Idle) ELSE Goto(w, "keys")
    /\ Heal(w)
    /\ UNCHANGED <<rows, sticky, ops, faults, strayed>>

(* Its transaction.  Entries of the row read before go, then those of the  *)
(* new row come.                                                           *)
CacheExec(w) ==
    LET n == worker[w].node  row == worker[w].copy IN
    /\ Pc(w, "exec")
    /\ cache' = [cache EXCEPT ![n] = row]
    /\ healthyNodes' = IF Usable(row) THEN healthyNodes \cup {n} ELSE healthyNodes \ {n}
    /\ index' = [r \in Regions |->
          IF r \in Entries(row) THEN index[r] \cup {n}
          ELSE IF r \in Entries(worker[w].prev) THEN index[r] \ {n}
          ELSE index[r]]
    /\ IF Usable(row) THEN Become(w, Idle) ELSE Goto(w, "keys")
    /\ Heal(w)
    /\ UNCHANGED <<rows, sticky, ops, faults, strayed>>

(* The transaction of RemoveNode goes by the row, not by what is cached.   *)
Remove(w) ==
    LET n == worker[w].node IN
    /\ Pc(w, "remove")
    /\ cache' = [cache EXCEPT ![n] = None]
    /\ healthyNodes' = healthyNodes \ {n}
    /\ index' = [r \in Regions |->
          IF r \in Entries(worker[w].copy) THEN index[r] \ {n} ELSE index[r]]
    /\ Goto(w, "keys")
    /\ Heal(w)
    /\ strayed' = IF n \in dirty THEN strayed \cup {n} ELSE strayed
    /\ UNCHANGED <<rows, sticky, ops, faults>>

(* cleanupStickyForNode: KEYS, a GET for each key, one DEL.                *)
CleanupKeys(w) ==
    /\ Pc(w, "keys")
    /\ Become(w, [worker[w] EXCEPT !.pc = "scan", !.todo = {s \in Sessions : sticky[s] # NoNode}])
    /\ UNCHANGED <<storeVars, ops, faults, history>>

CleanupGet(w, s) ==
    /\ Pc(w, "scan")
    /\ s \in worker[w].todo
    /\ Become(w, [worker[w] EXCEPT
          !.todo = @ \ {s},
          !.hits = IF sticky[s] = worker[w].node THEN @ \cup {s} ELSE @])
    /\ UNCHANGED <<storeVars, ops, faults, history>>

CleanupEnd(w) ==
    /\ Pc(w, "scan")
    /\ worker[w].todo = {}
    /\ IF worker[w].hits = {} THEN Become(w, Idle) ELSE Goto(w, "unbind")
    /\ UNCHANGED <<storeVars, ops, faults, history>>

CleanupDel(w) ==
    /\ Pc(w, "unbind")
    /\ sticky' = [s \in Sessions |-> IF s \in worker[w].hits THEN NoNode ELSE sticky[s]]
    /\ Become(w, Idle)
    /\ UNCHANGED <<rows, cache, healthyNodes, index, ops, faults, history>>

-----------------------------------------------------------------------------
(* Failures.  A command of a request whose client has left is not sent,    *)
(* and fails like one that the network lost.                               *)
Fault == faults < MaxFaults /\ faults' = faults + 1

Disturb(n) == dirty' = dirty \cup {n}

(* The SQL statement fails and the operation ends.                         *)
SaveFails(w) ==
    /\ worker[w].pc \in {"check", "toggle", "delete"}
    /\ Fault
    /\ Become(w, Idle)
    /\ UNCHANGED <<storeVars, ops, history>>

(* transportForNode has no dialer for the protocol, or cannot decrypt the  *)
(* credentials: the check ends, and nothing is saved or cached.            *)
CheckRefused(w) ==
    /\ Pc(w, "check")
    /\ Become(w, Idle)
    /\ UNCHANGED <<storeVars, ops, faults, history>>

(* markFailure caches a row that it could not save.                        *)
MarkFailureUnsaved(w) ==
    /\ Pc(w, "check")
    /\ Fault
    /\ Become(w, [worker[w] EXCEPT !.pc = "load", !.copy = MarkFailure(@), !.alone = FALSE])
    /\ Disturb(worker[w].node)
    /\ UNCHANGED <<storeVars, ops, strayed>>

(* A row that cannot be read counts as none.                               *)
CacheLoadFails(w) ==
    /\ Pc(w, "load")
    /\ Fault
    /\ Goto(w, "exec")
    /\ strayed' = strayed \cup {worker[w].node}
    /\ UNCHANGED <<storeVars, ops, dirty>>

(* The import cannot read back the row it has saved, which it ignores, or  *)
(* the transaction fails: Redis keeps what it had.                         *)
CachingFails(w) ==
    /\ worker[w].pc \in {"reread", "exec", "remove"}
    /\ Fault
    /\ Become(w, Idle)
    /\ Disturb(worker[w].node)
    /\ UNCHANGED <<storeVars, ops, strayed>>

CleanupGetFails(w, s) ==
    /\ Pc(w, "scan")
    /\ s \in worker[w].todo
    /\ Fault
    /\ Become(w, [worker[w] EXCEPT !.todo = @ \ {s}])
    /\ UNCHANGED <<storeVars, ops, history>>

CleanupFails(w) ==
    /\ worker[w].pc \in {"keys", "unbind"}
    /\ Fault
    /\ Become(w, Idle)
    /\ UNCHANGED <<storeVars, ops, history>>

(* Nobody cached the node for 24 hours; no set forgets it.                 *)
CacheExpires(n) ==
    /\ cache[n] # None
    /\ Fault
    /\ cache' = [cache EXCEPT ![n] = None]
    /\ Disturb(n)
    /\ strayed' = strayed \cup {n}
    /\ UNCHANGED <<rows, healthyNodes, index, sticky, worker, ops>>

Restart ==
    /\ Fault
    /\ worker' = [w \in Workers |-> Idle]
    /\ dirty' = dirty \cup {n \in Nodes : At(n) # {}}
    /\ UNCHANGED <<storeVars, ops, strayed>>

(* What the requests that pick a node do: they bind and unbind sessions,   *)
(* and their commands fail too.                                            *)
Requests ==
    /\ \/ UNCHANGED sticky
       \/ \E s \in Sessions, n \in Nodes \cup {NoNode} : sticky' = [sticky EXCEPT ![s] = n]
    /\ UNCHANGED faults \/ Fault
    /\ UNCHANGED <<rows, cache, healthyNodes, index, worker, ops, history>>

Start(w, n) ==
    \/ StartCheck(w, n)
    \/ \E disabled \in BOOLEAN : StartToggle(w, n, disabled)
    \/ StartDelete(w, n)
    \/ \E expected \in Regions \cup {Unknown} : Import(w, n, expected)

Work(w) ==
    \/ CheckSucceeds(w) \/ CheckFails(w) \/ Toggle(w) \/ Reread(w) \/ DeleteRow(w)
    \/ CacheLoad(w) \/ CacheExec(w) \/ Remove(w)
    \/ CleanupKeys(w) \/ (\E s \in Sessions : CleanupGet(w, s)) \/ CleanupEnd(w)
    \/ CleanupDel(w)

Fail(w) ==
    \/ SaveFails(w) \/ CheckRefused(w) \/ MarkFailureUnsaved(w)
    \/ CacheLoadFails(w) \/ CachingFails(w)
    \/ (\E s \in Sessions : CleanupGetFails(w, s)) \/ CleanupFails(w)

(* What the writers of nodes do.                                           *)
Write ==
    \/ \E w \in Workers : (\E n \in Nodes : Start(w, n)) \/ Work(w) \/ Fail(w)
    \/ \E n \in Nodes : CacheExpires(n)

Next == Write \/ Restart \/ Requests

Spec == Init /\ [][Next]_vars

-----------------------------------------------------------------------------
TypeOK ==
    /\ rows \in [Nodes -> Rows \cup {None, Deleted}]
    /\ cache \in [Nodes -> Rows \cup {None}]
    /\ healthyNodes \subseteq Nodes
    /\ index \in [Regions -> SUBSET Nodes]
    /\ sticky \in [Sessions -> Nodes \cup {NoNode}]
    /\ worker \in [Workers -> BusyStates \cup {Idle}]
    /\ ops \in 0..MaxOps
    /\ faults \in 0..MaxFaults
    /\ dirty \subseteq Nodes
    /\ strayed \subseteq Nodes

CachedUsable(n) == cache[n] # None /\ Usable(cache[n])

(* Two writers of one node, whatever their order and failures: the set of  *)
(* healthy nodes agrees with the row that is cached, and the index has the *)
(* region of that row.  A region filter misses no node that is cached.     *)
SetsCoverCache ==
    \A n \in Nodes : cache[n] # None =>
        /\ (n \in healthyNodes) = Usable(cache[n])
        /\ \A r \in Entries(cache[n]) : n \in index[r]

(* Once the last writer of a node was alone and nothing failed, Redis has  *)
(* the row of the database, whatever was there before: one clean check     *)
(* repairs what overlapping writers, failures and restarts left behind.    *)
CacheFollowsRow ==
    \A n \in Nodes : (n \notin dirty /\ At(n) = {}) =>
        /\ cache[n] = IF HasRow(n) THEN rows[n] ELSE None
        /\ (n \in healthyNodes) = CachedUsable(n)

(* While writers of a node take turns and its cached row is neither lost   *)
(* nor unreadable, no index set keeps an entry of an earlier region.       *)
IndexExact ==
    \A n \in Nodes \ strayed : \A r \in Regions :
        n \in index[r] => cache[n] # None /\ r \in Entries(cache[n])

(* A step that changes only what its operation is about, though it saves   *)
(* all columns, and brings no deleted row back.                            *)
KeepsOthers(n) ==
    /\ rows[n] = Deleted => rows'[n] = Deleted
    /\ (HasRow(n) /\ HasRow(n)') =>
         /\ rows'[n].disabled # rows[n].disabled => \E w \in At(n) : Pc(w, "toggle")
         /\ rows'[n].expected # rows[n].expected =>
               \E w \in Workers : worker[w] = Idle /\ Pc(w, "reread")'
         /\ (\/ rows'[n].healthy # rows[n].healthy
             \/ rows'[n].fails # rows[n].fails
             \/ rows'[n].detected # rows[n].detected
             \/ rows'[n].country # rows[n].country) =>
               \E w \in At(n) : Pc(w, "check")
         /\ (rows[n].healthy /\ ~rows'[n].healthy) => rows'[n].fails = MaxFail

(* A writer that is alone at a node loses no change of another: a check    *)
(* leaves the switch, a toggle the health, an import both, and a failed    *)
(* check turns a healthy node unhealthy only at max_fail_count.            *)
LosesNothingAlone ==
    [][\A n \in Nodes : (\A w \in At(n) : worker[w].alone) => KeepsOthers(n)]_vars

(* What the workers at a node know of it.  A writer that is alone has the  *)
(* row that is stored, and a node with another kind of writer is dirty.    *)
WorkerKnows(n, w) ==
    LET x == worker[w] IN
    /\ n \notin dirty => x.alone
    /\ n \notin strayed => At(n) = {w}
    /\ x.alone =>
         /\ At(n) = {w}
         /\ x.pc \in {"check", "delete", "load", "exec"} => x.copy = rows[n]
         /\ x.pc = "toggle" =>
              HasRow(n) /\ x.copy = [rows[n] EXCEPT !.disabled = x.copy.disabled]
         /\ x.pc = "reread" => HasRow(n)
         /\ x.pc = "remove" => rows[n] = Deleted
    /\ (x.pc = "remove" /\ n \notin dirty) => cache[n] = x.copy
    /\ (x.pc = "exec" /\ n \notin strayed) => x.prev = cache[n]

(* A worker that has written a row, and not yet Redis.                     *)
Pending(n) == \E w \in At(n) : worker[w].pc \in {"reread", "load", "exec", "remove"}

Stored(n) == IF HasRow(n) THEN rows[n] ELSE None

(* What Redis has of a node.                                               *)
RedisKnows(n) ==
    /\ cache[n] # None => (n \in healthyNodes) = Usable(cache[n])
    /\ \A r \in Entries(cache[n]) : n \in index[r]
    /\ n \notin dirty =>
         /\ ~Pending(n) => cache[n] = Stored(n)
         /\ n \in healthyNodes => cache[n] # None
    /\ n \notin strayed => \A r \in Regions : n \in index[r] => r \in Entries(cache[n])

NodeInv(n) == RedisKnows(n) /\ \A w \in At(n) : WorkerKnows(n, w)

(* The inductive invariant.                                                *)
IInv == TypeOK /\ \A n \in Nodes : NodeInv(n)

(* What a worker has left to do: phases, and in one of them the sticky     *)
(* keys that it found and has not read.                                    *)
Phase ==
    [check |-> 6, toggle |-> 6, delete |-> 6, reread |-> 6, load |-> 5,
     exec |-> 4, remove |-> 4, keys |-> 3, scan |-> 2, unbind |-> 1, idle |-> 0]

Behind(y, x) ==
    \/ Phase[y.pc] < Phase[x.pc]
    \/ y.pc = "scan" /\ x.pc = "scan" /\ y.todo \subseteq x.todo /\ y.todo # x.todo

(* An operation ends by itself: each of its steps, whether its command     *)
(* succeeds or fails, leaves it less to do, and no other writer, and no    *)
(* request that binds sessions meanwhile, gives it more.                   *)
WritersAdvance ==
    [][\A w \in Workers :
         /\ Work(w) \/ Fail(w) => Behind(worker'[w], worker[w])
         /\ worker[w] # Idle =>
              \/ worker'[w] \in {worker[w], [worker[w] EXCEPT !.alone = FALSE]}
              \/ Behind(worker'[w], worker[w])]_vars
=============================================================================
