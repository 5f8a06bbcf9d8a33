# proxydeck: a verification development

proxydeck is an HTTP proxy gateway. Users send requests with a name and a
password; each request is served through one of many upstream nodes. Users,
nodes and subscriptions are rows of an SQLite database; counters, limits, the
node cache and the sessions live in Redis. One process runs the proxy server,
the admin server and three background goroutines (flush of the statistics,
health check, subscription sync). There is no lock and no transaction over
more than one command: everything below is about steps of several goroutines
that interleave between single Redis commands and SQL statements.

## Inventory

Paths are relative to `src/backend/internal/`.

| Component | State | Operations | Hard parts | Correct when |
|---|---|---|---|---|
| Traffic accounting (`stats/`, `quota/`) | rows `used_bytes`, `total_requests`; Redis `usage:*` | RecordTraffic, FlushUsage, Authenticate, CleanupUserRuntime | row and Redis are changed in separate steps; failed GETs read as 0; crash between UPDATE and EXEC | what was recorded is billed once, the quota is decided on all of it |
| Concurrency slots (`quota/`) | Redis `conn:<uid>:current` | Acquire, Release | Release deletes on a value read before; commands of a cancelled context are not sent | the counter is the number of live connections, the limit holds |
| Node selection and cache (`selector/`, `redisstore/`) | Redis `node:*`, `healthy_nodes`, index sets, `sticky:*`; rows of nodes | Pick, CacheNode, RemoveNode | writers of the same node interleave between row, cache and index | the cache follows the row, a session keeps its node, a disabled node is not picked |
| Health check (`healthcheck/`) | rows of nodes | CheckOne, CheckAll, CheckNodes | seconds between reading and saving a row | a node is unhealthy after `max_fail_count` failures, a check changes health only |
| Subscription sync (`subscription/`) | rows of subscriptions, nodes and links | Sync, ImportManualNodes, Delete | partial imports, prune against import, unique indexes | a node exists while some subscription links to it |
| Parsers (`subscription/`, `selector/`) | none | parse a body, parse a user name | seven formats that can say different things | what is stored is dialled as the entry asked |
| Proxy gateway (`proxy/`) | handlers, two connections and two goroutines each | handleHTTP, handleConnect | contexts, hijacked connections, half-closed and lost connections, deadlines of each direction | streams arrive whole, everything is closed and billed on every exit |
| Dialers (`upstream/`) | none | DialTarget | answers read late or never | a node is reached as it is stored, or refused |
| Admin API (`adminapi/`), sessions (`auth/`) | rows; Redis sessions | CRUD, login | row and Redis changed in separate steps | a change of a row reaches Redis |
| Retry (`retry/`) | none | Do | cancellation against the timer, answers that must not be retried | as many attempts as configured, none after a refusal |
| Configuration, logging, metrics, web console | | | I/O | not modelled |

They interact through the two stores only, but for calls: the gateway calls
`quota`, `selector` and `stats`; the admin API calls `subscription`,
`healthcheck` and `quota`; `healthcheck` and `subscription` call `redisstore`.

## Modules

### Usage, Ledger, Usage_proofs: traffic accounting

`Usage` has the columns `used_bytes` and `total_requests` (`usedBytes`,
`totalRequests`, with `rows` for the accounts that have a row), the three
Redis counters of an account (`usage`, with `keys` for those that exist), the
flush goroutine (`flush`) and one goroutine per request (`req`). An account is
a user or a node; the two traffic columns of a node are kept as their sum.
Every GET, MULTI/EXEC and SQL statement of the code is one action:

| Action | Code |
|---|---|
| `ReadRow`, `Reject`, `ReadPendingUpload`, `ReadPendingDownload` | `quota.Authenticate`: the row, then two GETs, then the decision |
| `RecordTraffic`, `Abandon` | `stats.RecordTraffic`, one MULTI/EXEC for user and node; or nothing is recorded |
| `FlushUsage`, `NextAccount`, `ReadUpload`, `ReadDownload`, `ReadRequests`, `UpdateRow`, `RereadRequests`, `DecrUsage` | `stats.FlushUsage`, statement by statement |
| `FlushNodeUsage`, `FlushDone` | `stats.flushNodeUsage`: the same steps without the second reading of the requests |
| `RoundFails`, `DecrFails`, `DecrReplyLost` | the errors that end a round, of a KEYS, an UPDATE and an EXEC; a GET that fails is read as 0 (`Get`) |
| `CreateRow`, `DeleteRow`, `CleanupRuntime`, `CleanupFails`, `RenameUser` | `adminapi` createUser, deleteUser, deleteNode, updateUser; `quota.CleanupUserRuntime`, `redisstore.RemoveNode` |
| `CopyRow`, `SaveRow` | `healthcheck.CheckOne`, `markFailure`, `adminapi.toggleNodeDisabled`: a row read, and saved with every column later |
| `Restart` | the process stops and starts; both stores keep what they have |

History variables: `recorded` (what RecordTraffic added), `twice` (what went
to a row while Redis kept it), `purged` (accounts whose row was deleted,
renamed, or set back by a stale Save), `basis` (what a request could know).

`RoundsBill` says of every step of the flush that the round has less to do
after it (`Behind`), and that what it has not billed yet is still on its way
(`OnItsWay`): `EventuallyBilled` without the fairness.

`Ledger` is the abstract specification: one balance per account, charged by
whole exchanges, raised again only by a failure, closed by an administrator.
`LedgerSpec` maps it to `used_bytes + pending - in flight`.

### ConnSlots, ConnSlots_proofs: the concurrency limit

One user, its `max_concurrency` (`maxConcurrency`, or `NoRow`), the counter
`count` and the request goroutines (`req`). `Acquire` is the INCR, `TakeBack`
the DECR of a refused request; Release is `ReleaseRead` and then `ReleaseDel`
or `ReleaseDecr`. The context of a handler is part of its state: `Cancel` is a
client that leaves, after which no command of the handler is sent
(`AcquireFails`, `TakeBackFails`, `ReleaseFails`); a hijacked CONNECT is
`detached`, and a context is over when its handler returns. A user may be
deleted, created and deleted again before the first DEL is executed: `cleaning`
counts the DELs that `deleteUser` still owes, and each ends in
`CleanupUserRuntime` or, with its error dropped, in `CleanupFails`; two of them
at once are beyond the bounds of `MCConnSlots` and left to the theorems.
History: `leaked` counts the slots that nobody will give back, `disturbed` says
that a DEL was executed while another request had a slot.

`HandlersAdvance` says what `SlotsReturned` rests on beside fairness: the
commands of a handler lead to its end, whether they are sent or fail (`Left`),
and no claim disappears without a trace in the counter or in `leaked`.

### NodeCache, NodeCache_proofs: rows, cache and index of the nodes

`NodeCache` has the row of every node (`rows`; `None` before it is imported,
`Deleted` afterwards, for ids are not used again), the cached row (`cache`),
`healthyNodes`, the index sets (`index`), the sticky keys (`sticky`) and the
workers, goroutines that check, edit, import or delete a node (`worker`). A
worker keeps the row it has read; what it does next goes by that copy.

| Action | Code |
|---|---|
| `StartCheck`, `CheckSucceeds`, `CheckFails` | `healthcheck.CheckOne`, `markFailure`: a row read before the probe, saved with every column after it |
| `StartToggle`, `Toggle` | `adminapi.toggleNodeDisabled` |
| `Import`, `Reread` | `subscription.persistParsedNodes`: the upsert, then the row as it is afterwards |
| `StartDelete`, `DeleteRow`, `Remove` | `Delete`, `pruneSubscriptionNodes`, `adminapi.deleteNode`, with `redisstore.RemoveNode` |
| `CacheLoad`, `CacheExec` | `redisstore.CacheNode`: LoadNode, then one MULTI/EXEC |
| `CleanupKeys`, `CleanupGet`, `CleanupEnd`, `CleanupDel` | `cleanupStickyForNode`: KEYS, a GET for each key, one DEL |
| `CheckRefused` | no transport for the node: the check ends before the probe and saves nothing |
| `SaveFails`, `MarkFailureUnsaved`, `CacheLoadFails`, `CachingFails`, `CleanupGetFails`, `CleanupFails` | the errors, those that are ignored among them; `CachingFails` is the row that an import cannot read back, or a transaction that fails |
| `CacheExpires` | the 24 hours of `node:*` are over; the sets have no time to live |
| `Restart` | the process stops and starts |
| `Requests` | what `Selector` does to the keys of this module |

History: a node is `dirty` while its cache may differ from its row (a failure,
an expiry, a restart, a second writer) until a writer that was alone at it
caches it cleanly, and `strayed` once an index entry may be left that no row
explains; `alone` tells whether a worker was the only one at its node.

`WritersAdvance` says that every operation ends by itself (`Behind`): a cleanup
reads the sticky keys that KEYS has found, and the sessions that requests bind
meanwhile do not prolong it.

### Selector, Selector_proofs: picking a node

`Selector` extends `NodeCache` with the requests that run `selector.Pick`
(`pick`). The writers of nodes are those of `NodeCache`, and every step of a
request is a step `Requests` of `NodeCache` or changes none of its variables:
that is proved (`SelectorImplementsNodeCache`), so what holds of `NodeCache`
alone holds with requests.

| Action | Code |
|---|---|
| `StartPick` | the call, with the session and the filter of the user name |
| `GetSticky`, `VerifySticky`, `DropSticky` | the sticky key, the row of its node, the DEL |
| `MatchNodeIDs` | `matchNodeIDs`: SMEMBERS or SINTER |
| `LoadNode`, `LoadEnd` | `candidates`: one GET for each member, then a random choice |
| `Query` | `candidates`: the query of the database when the cache has nothing |
| `BindSticky` | the SET of the sticky key |
| `...Fails`, `CandidatesFail`, `StickyExpires` | no reply, and the end of the time to live |

History: `calm` are the nodes that no writer has come to since the request
began and that were not dirty; `sole` says that nobody else can change the
sticky key of its session; `home` is the node that a session must get again.
`Watch` is what a step of a writer means for them.

`PicksAdvance` says that every Pick ends by itself (`PickBehind`): from an
unusable sticky node to the sets, from there to the cached rows, to the query
and to the SET, without ever starting again, whatever writers do to the sets
and other requests to the sticky key.

### SubscriptionSync, SubscriptionSync_proofs, SubscriptionSole_proofs: subscriptions, nodes and their links

A row of `proxy_nodes` is an id here (`rows` maps each address to the id of
its row), a subscription has its life, its switch and whether it is due
(`sub`), and `links` are the rows of `subscription_nodes`. The goroutine of
`Start` (`Ticker`) and the handlers of the admin API (`Admins`) are workers;
each SQL statement is one action of a worker.

| Action | Code |
|---|---|
| `StartRound`, `SyncNext` | `syncDueSubscriptions`: the list of what is due, then one Sync after the other |
| `SyncSubscription`, `ImportNodes`, `DeleteSubscription`, `DeleteNode`, `CheckNode`, `CreateSubscription`, `UpdateSubscription` | the handlers of `adminapi`; `Delete` does not look the id up and runs for a subscription that is gone as well |
| `FetchSubscription` | `Sync`: the subscription is read, its body fetched and parsed |
| `Upsert`, `UpsertFails`, `Reread`, `FindLink`, `CreateLink`, `ImportEnds` | `persistParsedNodes`, node by node; `UpsertFails` is the row that violates `idx_node_addr`, the unique index of (host, port) in `model.ProxyNode` (`Conflict`) |
| `ListLinks`, `Unlink`, `CountLinks`, `DeleteRow`, `Stamp` | `pruneSubscriptionNodes`, and `last_sync_at` |
| `SelectNodes`, `UnlinkAll`, `Sweep`, `CountLinks`, `DeleteRow`, `RemoveSubscription` | `Delete` |
| `UnlinkNode`, `DropNode` | `adminapi.deleteNode` |
| `SaveChecked` | the Save of a health check, which inserts a row again that was deleted meanwhile |
| `Fails`, `IgnoredError`, `Restart` | an error that ends the operation, one that the code ignores, the end of the process |
| `Publish`, `TimePasses` | the provider changes its list; the interval is over |

History: `manual` are ids that were imported by hand, which need no link;
`disturbed` are ids that two workers held between two statements, or that a
failure hit; a worker is `sole` while nobody else has run since it began.

`TurnsCome` and `WorkersAdvance` are what `EventuallySynced` needs beside
fairness: what is due never falls back in its `Turn`, and every operation that
has begun has less to do after each of its steps.

### Gateway, Gateway_proofs: one exchange

What happens between Pick and the end of the handler: the dial, the answer of
the node, and the copying. A connection is a pair of queues of numbered
segments (`toGate`, `fromGate`, and `got` for what the peer has read), a
goroutine of `handleConnect` is a record in `copier` (what it does, the
segment it holds, how many it has written, how long it has waited). The
handler of any other request copies the response itself, as `copier["down"]`.

| Action | Code |
|---|---|
| `Hijack`, `Prepare` | `handleConnect` takes the connection over; what the buffer of the server holds is ignored (`DropBuffered`) |
| `Dial`, `Greet`, `Established`, `Respond` | `dialUpstream`, `establishTunnel` and the diallers of `upstream`: connect, say what is wanted, read the answer, tell the client |
| `DialFails`, `GreetFails`, `Refused`, `ConnectTimeout`, `SendFails`, `HeadFails` | the exits of both handlers, each through `Give502` |
| `CopyRead`, `CopyWrite` | `io.Copy` over `idleDeadlineConn`, which moves the deadline of the connection before each Read and Write |
| `CopyEnds`, `CopyTimeout`, `CopyClose` | the end of a stream, the deadline, the Close of the other connection |
| `RecordTunnel`, `RecordResponse` | `RecordTraffic` with a context of its own, or with that of the request |
| `SendRequest`, `ReadHead` | `writeProxyRequest`, `writeOriginRequest`, `http.ReadResponse` |
| `Send`, `Finish`, `Leave`, `Receive`, `Answer` | the two peers, who owe nothing |
| `Tick` | time passes when no goroutine of the exchange can move |

History: `dropped` are the peers whose first segments went into a buffer that
is dropped; `ended` is how the exchange ended.

`AlwaysNearer` is `EventuallyEnds` without the fairness: each step leaves less
to do (`Left`), or lets time pass for someone who waits (`Patience`), and where
nothing of the gateway can move the exchange is over or waits for a peer
without a deadline.

### NodeFormats, Probe, Probe_proofs: from the entry of a subscription to the first check

`NodeFormats` holds the pure functions: what each of the seven formats keeps
of an entry (`Singbox`, `Clash`, `Surge`, `QuantumultX`, `Shadowrocket` with a
parser for each kind of link, `Manual`, `Form`), which nodes a dialler accepts
(`CanDial`), and what goes over the wire (`Dialled`, `Probed`) against what
the entry asks for (`Stated`). `variant` is the other way in which some
formats write the same entry, where the parser treats it differently: of a line
of Surge with its credentials as options the whole text, `password=...`, is
stored, unless it is one of ss (`Credential`); a line of Quantumult X without a
tag and without any other option has one part only and is dropped (`Bare`).
`Probe` takes an entry through `Import` and the
first check: three sources asked through the node for its address, three more
asked directly for what is known of it, every attempt with the retries of
`retry.Do`, and the merge of the answers. `errors` and `stopped` record what
each source has done, `told` what the node's own answer has said.

## Runs

| Run | Question | Bounds |
|---|---|---|
| `MCUsage` | is anything lost, billed twice, negative; what is the quota decided on; does accounting implement the ledger | 1 user with a quota of 2 units, 1 node, 2 requests, 3 loads, 1 failure or restart, 1 row saved from a copy, 1 edit |
| `MCUsageBilling` | does a round of the flush end and pass over nothing; is all that was recorded billed in the end | 2 users, one of them named like a node, 1 node, 2 requests of 2 units each, 1 failure or restart, 1 edit; fairness of the flush |
| `MCConnSlots` | is the counter exact, who is admitted, refused, which key is deleted; does the counter return to 0 | 3 requests, limits 0 and 1, 1 failure or restart, 2 edits; fairness of the handlers' commands |
| `MCNodeCache` | do the sets, the cache and the row of a node agree; do serial writers lose anything | 1 node, 2 regions, 2 workers, 3 operations, 2 failures, expiries or restarts, `max_fail_count` 2 |
| `MCSelector` | does the row of the node that is returned match the filter | 2 nodes, 2 regions in a country named like one of them, 1 session, 4 kinds of filters, 2 requests, 1 worker with 2 operations |
| `MCSelectorSessions` | does a session keep its node; does Pick give up too early; is what it returns usable, after a crash as well | 2 nodes, 2 regions that are countries of their own, 2 sessions, 3 requests, 1 worker with 1 operation, 1 failure, expiry or restart |
| `MCSubscriptionSync` | do nodes and links agree; does a sync alone leave exactly its list; what does a failed import prune | 2 subscriptions, 3 addresses of which two share a port, 3 lists, the ticker and 1 handler with 1 operation, 1 failure or restart, 1 edit; symmetric in the subscriptions |
| `MCSubscriptionLive` | does what is due come nearer to its turn; is it synced in the end | 2 subscriptions, 1 address, lists of one node or none, 1 operation, 1 failure, 1 edit; fairness of the ticker |
| `MCGateway` | do the streams arrive whole, is everything closed and billed, does an exchange come nearer to its end with each step, and end | both modes, 3 kinds of nodes, 3 segments from each peer, a window of 1, an idle timeout of 2 ticks; fairness of the goroutines and the clock |
| `MCProbe` | is a node dialled as its entry was written; is the verdict of a check earned | every combination of the fields of an entry, 7 formats, 2 phases of 3 sources, 2 attempts, 2 fields of a profile |

Two requests are enough for a recording before, between and after the readings
of one flush, which starts over as often as it likes; `EventuallyBilled` asks
for the last unit that both have recorded. Three requests are enough for one
that releases, one that is refused and one that is admitted by the wrong count;
two edits for a user deleted and created again. Nodes do not share a key but
for the sets, of which an operation changes only its own
members: one node and two writers reach every order of row, cache and index,
and the third operation is the one that must repair what the two left. Two
subscriptions with one node in common are enough for a node that one drops and
the other keeps, a third address on the same port for the import that stops
half-way; the ticker and one handler are two syncs at once, or a sync and a
deletion. Three segments, a window of one and two goroutines reach a full
queue, a segment in the hands of a goroutine and one that waits, all at the
moment when the other direction closes. Three
requests are enough for one that binds a session, one that overlaps and one
that comes afterwards. The theorems hold for any number of each.

Two runs end in a violation; each is a disagreement between the code and what
the repository says of it:

| Run | What the code does |
|---|---|
| `BadConcurrencyLimit` | Release deletes a counter that was incremented meanwhile; the limit is then exceeded |
| `BadIdleOnly` | each direction of a tunnel has a deadline of its own: a long download during which the client says nothing is cut by the goroutine that waits for the client |

More was found on the way. The properties above exclude these schedules, with
history variables or by name, and say exactly what remains true:

- `stats/service.go:78`: a request recorded between the two readings of the
  request counter is subtracted and never billed (`RequestsConserved` allows
  only this loss).
- `proxy/gateway.go:126`: when the client has left, no command of Release is
  sent and the slot is never given back (`leaked`).
- `healthcheck/service.go:162`: a check saves the columns it read before the
  probe; it enables a node again that was disabled meanwhile, sets traffic
  back, inserts a deleted row (`dirty`, `purged`).
- `selector/service.go:150`: a node that changes its region between SINTER and
  GET is returned for the old one (`calm`).
- `redisstore/store.go:254`: a cleanup deletes a sticky key that was bound to
  another node after it was read (`sole`).
- `subscription/service.go:1055`: the upsert names (protocol, host, port), the
  index has (host, port) only. A provider that changes the protocol of a node
  makes every later sync of its subscription fail at that row. This is why
  `MCSubscriptionLive` gives every address a port of its own: with two
  protocols on one port `EventuallySynced` does not hold.
- `subscription/service.go:1258`: a sync that runs while its subscription is
  deleted goes on to link nodes to it.
- `proxy/gateway.go:224`: an exchange whose client leaves at the end is not
  billed, nor is the upload of a request without a length (`NothingFree`).
- `upstream/direct_dial.go:230`: the header of a vless or vmess node is waited
  for without a deadline (`NoDeadline`).
- `subscription/service.go:294`: an entry of some formats that names a
  transport that the diallers do not have is stored and dialled without it
  (the exceptions in `DialledAsWritten`).

The same code has more schedules that end badly. The passing properties say
exactly what remains true by excluding them with history variables: the quota
is decided on a row and two counters of three moments (`basis`); a stale Save
sets `used_bytes` back or inserts a deleted row again (`purged`); overlapping
writers leave an older row in the cache (`dirty`) or a node in the set of an
earlier region (`strayed`); overlapping requests of a new session bind it to
two nodes one after the other (`sole`).

### Fairness

`StartFlushLoop` ticks every 30 seconds whatever the last round returned, and
Redis and SQL commands have timeouts: `FairSpec` of `Usage` has weak fairness
of the flush goroutine and nothing else. `FairSpec` of `ConnSlots` has weak
fairness of the Redis commands of each handler; nothing is assumed of clients,
who may keep a connection for ever. `FairSpec` of `SubscriptionSync` has weak
fairness of the goroutine of `Start` alone: its ticker fires every minute, and
a fetch has a timeout of 20 seconds; handlers and providers owe nothing.
`FairSpec` of `Gateway` has weak fairness of the handler with the clock
(`Handler \/ Tick`) and of each copying goroutine: they are scheduled and
deadlines expire, while a peer may say nothing and read nothing for ever.
`EventuallyEnds` therefore names the three waits that have no deadline in the
code. `NodeCache`, `Selector` and `Probe` are checked for safety only.

## Proofs

The theorems hold for all constants that satisfy the ASSUMEs of the modules:
any numbers of users, nodes, sessions, requests, workers, and any bounds.

`Usage_proofs` proves type correctness, `BytesConserved`,
`PendingNeverNegative`, `UsedBytesGrow` and that `Usage` implements `Ledger`.
The argument: nobody but the flush lowers the counters of an account that was
not purged, so what the flush has read stays covered by what Redis holds
(`CapturedCovered`); therefore the subtraction does not go below 0, the row
covers what is in flight (`RowCoversInFlight`), and each step changes
`used_bytes + pending - in flight` by what was recorded or repeated.
`RowsKnown` is needed because an UPDATE of a missing row succeeds and does
nothing.

The other three safety properties are proved there as well.
`RequestsConserved`: what row and Redis do not show of an account's requests
(`Lag`) never shrinks, and for a node it stays 0, because only a user's counter
is read twice. `RepeatOnlyAfterFault`: without a failure what is subtracted is
at least what was added to the row. `QuotaRespected` needs what a request knows
between its three reads (`Admission`): as long as no flush updates the row, what
was recorded before it was read is in what has been read so far and what still
waits in Redis beyond the amount in flight (`WaitingUp`, `WaitingDown`), which
no other step lowers.

`RoundsBill` is the core of `EventuallyBilled`, for any number of accounts and
any exchanges recorded while a round runs. The rank of a round is lexicographic:
its phase, the accounts that are left (`todo`, which is finite: `Finite`), the
command of the account (`Command`). That nobody is passed over needs
`KeysHold`: an account that is owed something has a key in Redis, so that the
KEYS with which a phase begins finds it. From there on its amount only moves,
from Redis to what the flush has read to the row (`OwedWaits`, `OthersLeaveWay`,
`FlushKeepsWay`). `UsedBytesGrow` is a theorem only: no run checks it.

`ConnSlots_proofs` proves the four safety properties of `MCConnSlots` and the
invariant behind them (`IInv`): the counter never exceeds the slots taken or
leaked, and equals them until a DEL hits another slot. Every step is of one of
seven kinds (takes, gives, leaks, wipes...), and the invariant is proved once
per kind. The assumption that matters is that the requests are finitely many.
`HandlersAdvance` is proved there too, from the same kinds.

`NodeCache_proofs` proves the five properties of `MCNodeCache`. The invariant
is a statement per node, so that a step at one node has nothing to show for
the others: what each worker at the node knows (`WorkerKnows`: a worker that
is alone holds the row of the database from its Save or Reread on, and has
read the cached row that its transaction replaces), and what Redis knows when
nobody is at the node (`RedisKnows`: a node that is not dirty has the stored
row cached, one that has not strayed is in no other index set). The histories
are needed because none of this survives a second writer or a failure.
`WritersAdvance` needs the types only: `StepBehind` goes through the commands of
a worker, and `OthersLeave` shows that another worker takes nothing but `alone`
from it.

`Selector_proofs` proves the four properties of the two runs of `Selector`, and
its types (`SelectorTypes`).
`PickInv` says of each request what it may rely on: the rows it has found, of
nodes in `calm`, are those of the database and match its filter; a writer's
step shrinks `calm` before it can make that wrong (`Spared`, `WatchKnows`).
`SessionInv` says who may touch a sticky key: while a request is alone with
its session no cleanup hunts the key, and a session with a `home` is bound to
it, to a usable node without a writer, and all its requests are on their way
to it. `PicksAdvance` is proved like `WritersAdvance`, from a rank of the steps
(`Stage`) and the members that are left to load.

`Gateway_proofs` proves the four invariants of `MCGateway` and `AlwaysNearer` for
every number of segments, every window and every idle timeout. The inductive
invariant is `Types /\ Stages /\ Booked /\ Flows`. `Flows` is the ledger of a
direction: what its goroutine has counted, the segment that it holds (`Held`) and what waits to
be read add up to what the peer has sent (`Counted`), the queue holds the last
numbers (`Waiting`), and what was delivered is what was counted, unless the
sink has left (`Delivered`). Without the segment in the hand of the goroutine
the order of the stream is not inductive. `Stages` says which goroutines and
connections there are at each step of the handler: a goroutine of a tunnel is
done only when it has closed its sink, so that the handler, which waits for
both, leaves nothing open. `Booked` ties the bill to the counts.

`AlwaysNearer` is proved from the same invariant and `Room` (a queue is never
fuller than the window): an exchange cannot go round in circles, and it stops
only at its end or at one of the waits of `NoDeadline`. `EventuallyEnds` follows
with the fairness of the goroutines and the clock; that last step needs ENABLED
and is TLC's.

`SubscriptionSync_proofs` proves the type invariant, `LinkedNodesExist`,
`OneLinkEach`, `NodesAreLinked`, `WorkersAdvance` and `TurnsCome`, for any
lists, workers and bounds. Next to
the types the invariant has three parts. `Exclusive`: two workers hold the same
node only if it is `disturbed`. `Informed`: what a worker that holds a node
alone has read of it, between two statements, is still true (`Knows`). `Nodes`:
a node that is not disturbed is linked as it should be, or a worker that holds
it is about to see to that (`Sound`). A step can only change nodes that its
worker holds before or after it (`Spares`, `StepKeeps`), so each action has
only those to show.

`WorkersAdvance` and `TurnsCome` are the core of `EventuallySynced`. An
operation passes through phases, the items of its list (`Items`) and the
commands of an item; the lists are sequences or sets that were read at once and
are finite (`Finite`), so that whatever others insert meanwhile does not prolong
it. A round takes in nobody once it has begun, and ends with every
subscription synced, failed or gone. `TurnsCome` is checked by
`MCSubscriptionLive`; `WorkersAdvance` is a theorem only, found to hold by TLC
on the bounds of `MCSubscriptionSync` before it was proved.

`SubscriptionSole_proofs` adds the two properties of a worker that ran alone,
`PruneSparesList` and `SyncExact`. Its invariant (`SInv`) says of a worker that
is still `sole` that all the others are idle (`Unshared`), and how far its sync
has come (`Done`): `kept` is the part of the list that was stored, each kept
node has its link, and `stale` is every other link of the subscription.

`Probe_proofs` proves `VerdictIsEarned`, for any number of attempts. The
inductive invariant (`Retries`) counts: the failures of the source that is being asked
are the attempts that are over, the sources to come have none, and each source
before has refused or used up its attempts, unless the context has ended.
From it follows `ChecksAdvance`: a check asks at most six times the attempts
(`Asks`), for `AsksFall` shows that an attempt more, the next source and the
second phase each leave it less.

It also proves `DialledAsWritten`, for every entry of every format: a node
that was imported (`Imported`) never changes before it is dialled, and a lemma
for each format says what its parser keeps of an entry (`SurgeAsWritten`,
`ClashAsWritten`...), one for each protocol what a dialler makes of it
(`TrojanAsWritten`...). The only exceptions are those that the property names.

Only model-checked: the liveness properties `EventuallyBilled`,
`SlotsReturned`, `EventuallySynced` and `EventuallyEnds`, and the violations.
Liveness rests on fairness and so on ENABLED, which is out of reach of the
prover. What is proved instead is the part that depends on the code, the
argument that the steps lead there: `RoundsBill` for the first; for the second
`HandlersAdvance`, and that the counter is exactly the slots taken and leaked;
`WorkersAdvance` and `TurnsCome` for the third; `AlwaysNearer` for the last.

`HandlersAdvance`, `WritersAdvance`, `PicksAdvance` and `ChecksAdvance` are
theorems only, found to hold by TLC on the bounds of `MCConnSlots`,
`MCNodeCache`, `MCSelector` and `MCProbe` before they were proved.

## Abstractions

- Amounts are small units; a load stands for the bytes of one exchange.
- A command is executed at most once: that the Redis client may resend one
  whose reply was lost is not modelled. Redis is not restarted and loses
  nothing but what expires.
- `traffic:region` and `traffic:hour`, which only the dashboard reads, are left
  out. A renamed uid keeps its connections under the old key; `ConnSlots` has
  one uid.
- City, ASN and ISP are indexed and filtered like the region; a filter has the
  region, which is indexed, and the state, which is not. The query accepts the
  column `country` for a region as well. Which regions lie in which countries is
  the constant `Places`, from which a check takes what it writes to both columns.
- A row counts failures up to `max_fail_count` only: more change nothing. It is
  at least 1.
- A command that is not sent because the client of an administrator left is a
  failure like another.
- In `NodeCache` a probe finds any region or none, or fails; what it asks is in
  `Probe`, where an answer gives an address, some fields of a profile, or
  neither, and the length of a pause does not matter.
- In `SubscriptionSync` a list is a sequence of addresses; what a row and its
  cache hold is in `NodeCache`.
- In `Gateway` a segment is what one Read returns; the peers' halves of a TCP
  connection are `fin` and `gone`, and a write to a peer that has left fails at
  once. The timer of the head of a response may expire at any moment, and so may
  that of a write once the whole request is there (`SendFails`); a write that
  expires earlier ends in the same answer, 502 with nothing billed. The frames
  of the protocols and their encryption are a greeting and an answer.
- In `NodeFormats` a string is empty or stands for all others; base64,
  percent-encoding and the syntax of the files are left out.

## Not modelled

- Admin sessions (`auth/`): tokens with a time to live, one command per
  operation; there is nothing that interleaves.
- Parsing of a user name (`selector`): a pure function on one string.
- Configuration, logging and metrics: read once at the start, or never read
  back by the program.
- The web console: a client of the admin API.

## Plan

The modules above are done, and every safety property of a passing
run is a theorem. What could come next: the parts under "Not modelled",
should they grow state that several goroutines share, and a Redis client that
sends a command again when its reply is lost.

There is one run for each question; a finding that is not checked by a run of
its own is told above.
