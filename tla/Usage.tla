------------------------------- MODULE Usage -------------------------------
(***************************************************************************)
(* Traffic accounting of proxydeck, across Redis and the SQL database.     *)
(*                                                                         *)
(* Every proxied request adds its bytes to counters in Redis               *)
(* (stats.RecordTraffic).  One background goroutine moves the counters to  *)
(* the rows of the database every 30 seconds (stats.FlushUsage): it reads  *)
(* them, adds what it read to the row, and subtracts it from Redis.  A new *)
(* request is admitted on the row plus what is still pending in Redis      *)
(* (quota.Authenticate).  None of the three holds a lock: each Redis       *)
(* command, each MULTI/EXEC and each SQL statement is one step, and the    *)
(* steps of requests, of the flush and of the administrator interleave.    *)
(*                                                                         *)
(* An account is a user or an upstream node.  Amounts are abstract units;  *)
(* upload_bytes and download_bytes of a node's row are kept as their sum.  *)
(***************************************************************************)
EXTENDS Integers, FiniteSets

CONSTANTS
    Users,      \* user ids
    Nodes,      \* upstream nodes
    Shadowed,   \* users whose Redis key starts with "usage:node:" (uid "node")
    NoAccount,  \* not an account
    Requests,   \* proxied requests, each handled by a goroutine of its own
    Quota,      \* Quota[u]: quota_bytes of u, 0 when unlimited
    Loads,      \* the [up, down] amounts one request may transfer
    MaxFaults,  \* bound: failed commands, failed statements, restarts
    MaxCopies,  \* bound: copies of node rows held at a time
    MaxEdits    \* bound: rows the administrator creates, renames or deletes

Accounts == Users \cup Nodes

ASSUME AccountsAssumption == Users \cap Nodes = {} /\ Shadowed \subseteq Users
ASSUME NoAccountAssumption == NoAccount \notin Accounts
ASSUME QuotaAssumption == Quota \in [Users -> Nat]
ASSUME LoadsAssumption == Loads \subseteq [up : Nat, down : Nat]
ASSUME BoundsAssumption == MaxFaults \in Nat /\ MaxCopies \in Nat /\ MaxEdits \in Nat

VARIABLES
    \* the database
    rows,           \* accounts that have a row
    usedBytes,      \* used_bytes of a row
    totalRequests,  \* total_requests of a row
    \* Redis
    keys,           \* accounts whose three usage keys exist
    usage,          \* their values; zero where the keys are missing
    \* the processes
    flush,          \* the flush goroutine
    req,            \* the request goroutines
    cleaning,       \* accounts deleted by a handler that has not cleaned Redis yet
    copies,         \* copies of node rows, held by handlers that will Save them
    \* counters of the bounds
    faults, edits,
    \* history, read by the properties only
    recorded,       \* what RecordTraffic has added to each account
    twice,          \* what went to a row while Redis kept it
    purged,         \* accounts whose row was deleted, renamed or set back
    basis           \* what each request could know when it read the row

database == <<rows, usedBytes, totalRequests>>
redis    == <<keys, usage>>
handlers == <<cleaning, copies>>
history  == <<recorded, twice, purged>>
vars == <<rows, usedBytes, totalRequests, keys, usage, flush, req, cleaning,
          copies, faults, edits, recorded, twice, purged, basis>>

-----------------------------------------------------------------------------
Zero  == [up |-> 0, down |-> 0, reqs |-> 0]
Bytes(c) == c.up + c.down

(* Operators named Faulty... are plausible mistakes in the code.  Nothing  *)
(* uses them: each shows that some property would notice the mistake.      *)

FaultyAddBytesOnly(c, d) == [up |-> c.up + d.up, down |-> c.down + d.down]

Add(c, d) == [up |-> c.up + d.up, down |-> c.down + d.down, reqs |-> c.reqs + d.reqs]
FaultyMinusDel(c, d) == Zero
FaultyMinusNothing(c, d) == c
FaultyMinusBytesOnly(c, d) == [c EXCEPT !.up = @ - d.up, !.down = @ - d.down]
FaultyMinusTotal(c, d) == [c EXCEPT !.up = @ - Bytes(d), !.down = @ - d.down, !.reqs = @ - d.reqs]

Minus(c, d) == [up |-> c.up - d.up, down |-> c.down - d.down, reqs |-> c.reqs - d.reqs]

Counters == [up : Int, down : Int, reqs : Int]

FlushSteps == {"idle", "pick", "up", "down", "reqs", "update", "again", "decr"}

Flushes == [pc    : FlushSteps,
            phase : {"users", "nodes"},
            todo  : SUBSET Accounts,
            acct  : Accounts \cup {NoAccount},
            cap   : Counters,     \* the values read from Redis
            added : Int]          \* requests added to the row

RequestSteps == {"new", "up", "down", "admitted", "refused", "done"}

RequestStates == [pc : RequestSteps, user : Users \cup {NoAccount},
                  used : Int, up : Int]

Copies == [node : Nodes, used : Int, reqs : Int]

Idle == [pc |-> "idle", phase |-> "users", todo |-> {}, acct |-> NoAccount,
         cap |-> Zero, added |-> 0]

Init ==
    /\ rows \in SUBSET Accounts
    /\ usedBytes = [a \in Accounts |-> 0]
    /\ totalRequests = [a \in Accounts |-> 0]
    /\ keys = {}
    /\ usage = [a \in Accounts |-> Zero]
    /\ flush = Idle
    /\ req = [r \in Requests |-> [pc |-> "new", user |-> NoAccount, used |-> 0, up |-> 0]]
    /\ cleaning = {}
    /\ copies = {}
    /\ faults = 0
    /\ edits = 0
    /\ recorded = [a \in Accounts |-> Zero]
    /\ twice = [a \in Accounts |-> [bytes |-> 0, reqs |-> 0]]
    /\ purged = {}
    /\ basis = [r \in Requests |-> [recorded |-> 0, stale |-> FALSE]]

-----------------------------------------------------------------------------
(* Failures.  The code ignores the error of a GET and goes on with 0.      *)

Fault == faults < MaxFaults /\ faults' = faults + 1

Get(value, result) ==
    \/ result = value /\ UNCHANGED faults
    \/ result = 0 /\ Fault

(* What the flush has added to the row of a and not yet taken from Redis.  *)
InFlight(a) ==
    IF flush.acct = a /\ flush.pc \in {"again", "decr"} THEN Bytes(flush.cap) ELSE 0

InFlightRequests(a) ==
    IF flush.acct = a /\ flush.pc \in {"again", "decr"} THEN flush.added ELSE 0

-----------------------------------------------------------------------------
(* A request: quota.Authenticate, then the exchange, then RecordTraffic.   *)

(* The row of the user is read and its flags and the password are checked; *)
(* bcrypt makes this the longest pause of the whole check.                 *)
ReadRow(r, u) ==
    /\ req[r].pc = "new"
    /\ u \in rows
    /\ req' = [req EXCEPT ![r] = [pc |-> "up", user |-> u, used |-> usedBytes[u], up |-> 0]]
    /\ basis' = [basis EXCEPT ![r] = [recorded |-> Bytes(recorded[u]), stale |-> FALSE]]
    /\ UNCHANGED <<database, redis, flush, handlers, faults, edits, history>>

(* No row, a disabled or expired user, a wrong password.                   *)
Reject(r) ==
    /\ req[r].pc = "new"
    /\ req' = [req EXCEPT ![r].pc = "refused"]
    /\ UNCHANGED <<database, redis, flush, handlers, faults, edits, history, basis>>

ReadPendingUpload(r) ==
    /\ req[r].pc = "up"
    /\ \E v \in {0, usage[req[r].user].up} :
          /\ Get(usage[req[r].user].up, v)
          /\ req' = [req EXCEPT ![r] = [@ EXCEPT !.pc = "down", !.up = v]]
          /\ basis' = [basis EXCEPT ![r].stale = @ \/ v # usage[req[r].user].up]
    /\ UNCHANGED <<database, redis, flush, handlers, edits, history>>

FaultyOverQuota(u, used) == Quota[u] > 0 /\ used > Quota[u]

OverQuota(u, used) == Quota[u] > 0 /\ used >= Quota[u]

(* The second GET and the decision, which is local to the goroutine.       *)
ReadPendingDownload(r) ==
    /\ req[r].pc = "down"
    /\ \E v \in {0, usage[req[r].user].down} :
          /\ Get(usage[req[r].user].down, v)
          /\ req' = [req EXCEPT ![r].pc =
                        IF OverQuota(req[r].user, req[r].used + req[r].up + v)
                          THEN "refused" ELSE "admitted"]
          /\ basis' = [basis EXCEPT ![r].stale = @ \/ v # usage[req[r].user].down]
    /\ UNCHANGED <<database, redis, flush, handlers, edits, history>>

(* One MULTI/EXEC adds the load to the user and to the node that served    *)
(* it.  The node may have been deleted since it was picked.                *)
RecordTraffic(r, n, load) ==
    LET d == [up |-> load.up, down |-> load.down, reqs |-> 1]
        served == {req[r].user, n}
    IN  /\ req[r].pc = "admitted"
        /\ n \in rows \cup purged
        /\ req' = [req EXCEPT ![r].pc = "done"]
        /\ keys' = keys \cup served
        /\ usage' = [a \in Accounts |-> IF a \in served THEN Add(usage[a], d) ELSE usage[a]]
        /\ recorded' = [a \in Accounts |->
                          IF a \in served THEN Add(recorded[a], d) ELSE recorded[a]]
        /\ UNCHANGED <<database, flush, handlers, faults, edits, twice, purged, basis>>

(* No node, no upstream, or an HTTP client that left: the context of the   *)
(* request is cancelled and RecordTraffic sends nothing.                   *)
Abandon(r) ==
    /\ req[r].pc = "admitted"
    /\ req' = [req EXCEPT ![r].pc = "done"]
    /\ UNCHANGED <<database, redis, flush, handlers, faults, edits, history, basis>>

-----------------------------------------------------------------------------
(* The flush goroutine: stats.FlushUsage, then stats.flushNodeUsage.       *)

(* KEYS usage:*:upload, without the keys that look like those of a node.   *)
FlushUsage ==
    /\ flush.pc = "idle"
    /\ flush' = [Idle EXCEPT !.pc = "pick", !.todo = (keys \cap Users) \ Shadowed]
    /\ UNCHANGED <<database, redis, req, handlers, faults, edits, history, basis>>

(* Mistake: the pattern matches no key.                                    *)
FaultyFlushNodeUsage ==
    /\ flush.pc = "pick" /\ flush.phase = "users" /\ flush.todo = {}
    /\ flush' = [Idle EXCEPT !.pc = "pick", !.phase = "nodes"]
    /\ UNCHANGED <<database, redis, req, handlers, faults, edits, history, basis>>

(* KEYS usage:node:*:upload, once the users are done.                      *)
FlushNodeUsage ==
    /\ flush.pc = "pick" /\ flush.phase = "users" /\ flush.todo = {}
    /\ flush' = [Idle EXCEPT !.pc = "pick", !.phase = "nodes", !.todo = keys \cap Nodes]
    /\ UNCHANGED <<database, redis, req, handlers, faults, edits, history, basis>>

FlushDone ==
    /\ flush.pc = "pick" /\ flush.phase = "nodes" /\ flush.todo = {}
    /\ flush' = Idle
    /\ UNCHANGED <<database, redis, req, handlers, faults, edits, history, basis>>

(* Mistake: the keys are listed anew for each account; those at 0 stay.    *)
FaultyNextAccount(a) ==
    /\ flush.pc = "pick"
    /\ a \in flush.todo
    /\ flush' = [Idle EXCEPT !.pc = "up", !.phase = flush.phase, !.todo = flush.todo, !.acct = a]
    /\ UNCHANGED <<database, redis, req, handlers, faults, edits, history, basis>>

NextAccount(a) ==
    /\ flush.pc = "pick"
    /\ a \in flush.todo
    /\ flush' = [pc |-> "up", phase |-> flush.phase, todo |-> flush.todo \ {a},
                 acct |-> a, cap |-> Zero, added |-> 0]
    /\ UNCHANGED <<database, redis, req, handlers, faults, edits, history, basis>>

ReadUpload ==
    /\ flush.pc = "up"
    /\ \E v \in {0, usage[flush.acct].up} :
          /\ Get(usage[flush.acct].up, v)
          /\ flush' = [flush EXCEPT !.pc = "down", !.cap.up = v]
    /\ UNCHANGED <<database, redis, req, handlers, edits, history, basis>>

(* For a user a total of 0 ends the account here, whatever its requests.   *)
ReadDownload ==
    /\ flush.pc = "down"
    /\ \E v \in {0, usage[flush.acct].down} :
          /\ Get(usage[flush.acct].down, v)
          /\ flush' = [flush EXCEPT
                !.pc = IF flush.phase = "users" /\ flush.cap.up + v = 0
                         THEN "pick" ELSE "reqs",
                !.cap.down = v]
    /\ UNCHANGED <<database, redis, req, handlers, edits, history, basis>>

ReadRequests ==
    /\ flush.pc = "reqs"
    /\ \E v \in {0, usage[flush.acct].reqs} :
          /\ Get(usage[flush.acct].reqs, v)
          /\ flush' = [flush EXCEPT
                !.pc = IF flush.phase = "nodes" /\ flush.cap = Zero /\ v = 0
                         THEN "pick" ELSE "update",
                !.cap.reqs = v]
    /\ UNCHANGED <<database, redis, req, handlers, edits, history, basis>>

(* The UPDATE adds in SQL, so it cannot lose another writer's increment;   *)
(* where the row is gone it matches nothing and still reports no error.    *)
UpdateRow ==
    LET a == flush.acct IN
    /\ flush.pc = "update"
    /\ usedBytes' = IF a \in rows THEN [usedBytes EXCEPT ![a] = @ + Bytes(flush.cap)]
                                  ELSE usedBytes
    /\ totalRequests' = IF a \in rows THEN [totalRequests EXCEPT ![a] = @ + flush.cap.reqs]
                                      ELSE totalRequests
    /\ flush' = [flush EXCEPT !.pc = IF flush.phase = "users" THEN "again" ELSE "decr",
                              !.added = flush.cap.reqs]
    /\ basis' = [r \in Requests |->
                    [basis[r] EXCEPT !.stale = @ \/ req[r].user = a]]
    /\ UNCHANGED <<rows, redis, req, handlers, faults, edits, history>>

(* Mistake: the second reading asks for a key that does not exist.         *)
FaultyRereadRequests ==
    /\ flush.pc = "again"
    /\ flush' = [flush EXCEPT !.pc = "decr", !.cap.reqs = 0]
    /\ UNCHANGED <<database, redis, req, handlers, faults, edits, history, basis>>

(* For a user the request counter is read a second time after the UPDATE;  *)
(* the second value is the one subtracted.                                 *)
RereadRequests ==
    /\ flush.pc = "again"
    /\ \E v \in {0, usage[flush.acct].reqs} :
          /\ Get(usage[flush.acct].reqs, v)
          /\ flush' = [flush EXCEPT !.pc = "decr", !.cap.reqs = v]
    /\ UNCHANGED <<database, redis, req, handlers, edits, history, basis>>

(* What stays in Redis although the row has it.                            *)
Repeat(a, bytes, reqs) ==
    twice' = [twice EXCEPT ![a] = [bytes |-> @.bytes + bytes, reqs |-> @.reqs + reqs]]

Subtract(a) ==
    /\ keys' = keys \cup {a}
    /\ usage' = [usage EXCEPT ![a] = Minus(@, flush.cap)]
    /\ Repeat(a, 0, IF flush.added > flush.cap.reqs
                      THEN flush.added - flush.cap.reqs ELSE 0)

DecrUsage ==
    /\ flush.pc = "decr"
    /\ Subtract(flush.acct)
    /\ flush' = [flush EXCEPT !.pc = "pick"]
    /\ UNCHANGED <<database, req, handlers, faults, edits, recorded, purged, basis>>

(* The errors that end a round: KEYS or the UPDATE, which change nothing;  *)
(* the EXEC before it took effect; the EXEC whose reply was lost after it  *)
(* took effect.                                                            *)
RoundFails ==
    /\ \/ flush.pc \in {"idle", "update"}
       \/ flush.pc = "pick" /\ flush.phase = "users" /\ flush.todo = {}
    /\ flush' = Idle
    /\ Fault
    /\ UNCHANGED <<database, redis, req, handlers, edits, history, basis>>

DecrFails ==
    /\ flush.pc = "decr"
    /\ flush' = Idle
    /\ Repeat(flush.acct, Bytes(flush.cap), flush.added)
    /\ Fault
    /\ UNCHANGED <<database, redis, req, handlers, edits, recorded, purged, basis>>

DecrReplyLost ==
    /\ flush.pc = "decr"
    /\ Subtract(flush.acct)
    /\ flush' = Idle
    /\ Fault
    /\ UNCHANGED <<database, req, handlers, edits, recorded, purged, basis>>

-----------------------------------------------------------------------------
(* Other writers of the rows.  deleteUser and deleteNode delete the row    *)
(* first and the Redis keys later, in one DEL; an error of the cleanup is  *)
(* dropped.  A uid may be used again, the id of a deleted node may not.    *)

Edit == edits < MaxEdits /\ edits' = edits + 1

CreateRow(a) ==
    /\ a \notin rows
    /\ a \in Users \/ a \notin purged
    /\ Edit
    /\ rows' = rows \cup {a}
    /\ UNCHANGED <<usedBytes, totalRequests, redis, flush, req, handlers, faults,
                   history, basis>>

DeleteRow(a) ==
    /\ a \in rows
    /\ Edit
    /\ rows' = rows \ {a}
    /\ usedBytes' = [usedBytes EXCEPT ![a] = 0]
    /\ totalRequests' = [totalRequests EXCEPT ![a] = 0]
    /\ cleaning' = cleaning \cup {a}
    /\ UNCHANGED copies
    /\ purged' = purged \cup {a}
    /\ UNCHANGED <<redis, flush, req, faults, recorded, twice, basis>>

(* Mistake: the pattern of the keys to delete matches every account.       *)
FaultyCleanupRuntime(a) ==
    /\ a \in cleaning
    /\ cleaning' = cleaning \ {a}
    /\ UNCHANGED copies
    /\ keys' = {}
    /\ usage' = [b \in Accounts |-> Zero]
    /\ UNCHANGED <<database, flush, req, faults, edits, history, basis>>

CleanupRuntime(a) ==
    /\ a \in cleaning
    /\ cleaning' = cleaning \ {a}
    /\ UNCHANGED copies
    /\ keys' = keys \ {a}
    /\ usage' = [usage EXCEPT ![a] = Zero]
    /\ UNCHANGED <<database, flush, req, faults, edits, history, basis>>

CleanupFails(a) ==
    /\ a \in cleaning
    /\ cleaning' = cleaning \ {a}
    /\ UNCHANGED copies
    /\ Fault
    /\ UNCHANGED <<database, redis, flush, req, edits, history, basis>>

(* updateUser may change the uid; the usage keys keep the old one.         *)
RenameUser(u, v) ==
    /\ u \in rows /\ v \notin rows
    /\ Edit
    /\ rows' = (rows \ {u}) \cup {v}
    /\ usedBytes' = [usedBytes EXCEPT ![v] = usedBytes[u], ![u] = 0]
    /\ totalRequests' = [totalRequests EXCEPT ![v] = totalRequests[u], ![u] = 0]
    /\ purged' = purged \cup {u, v}
    /\ UNCHANGED <<redis, flush, req, handlers, faults, recorded, twice, basis>>

(* CheckOne, markFailure and toggleNodeDisabled read the whole row of a    *)
(* node and write it back later with Save: every column, the traffic       *)
(* columns too, and a row again where it was deleted meanwhile.            *)
CopyRow(n) ==
    /\ n \in rows
    /\ Cardinality(copies) < MaxCopies
    /\ copies' = copies \cup {[node |-> n, used |-> usedBytes[n], reqs |-> totalRequests[n]]}
    /\ UNCHANGED <<database, redis, flush, req, cleaning, faults, edits, history, basis>>

Unchanged(c) ==
    c.node \in rows /\ c.used = usedBytes[c.node] /\ c.reqs = totalRequests[c.node]

SaveRow(c) ==
    /\ c \in copies
    /\ copies' = copies \ {c}
    /\ rows' = rows \cup {c.node}
    /\ usedBytes' = [usedBytes EXCEPT ![c.node] = c.used]
    /\ totalRequests' = [totalRequests EXCEPT ![c.node] = c.reqs]
    /\ purged' = IF Unchanged(c) THEN purged ELSE purged \cup {c.node}
    /\ UNCHANGED <<redis, flush, req, cleaning, faults, edits, recorded, twice, basis>>

-----------------------------------------------------------------------------
(* The gateway stops and starts again: its goroutines are gone, Redis and  *)
(* the database are as they were.                                          *)
Restart ==
    /\ Fault
    /\ flush' = Idle
    /\ req' = [r \in Requests |->
                 IF req[r].pc = "new" THEN req[r] ELSE [req[r] EXCEPT !.pc = "done"]]
    /\ cleaning' = {} /\ copies' = {}
    /\ twice' = [a \in Accounts |->
                   [bytes |-> twice[a].bytes + InFlight(a),
                    reqs  |-> twice[a].reqs + InFlightRequests(a)]]
    /\ UNCHANGED <<database, redis, edits, recorded, purged, basis>>

RequestStep ==
    \E r \in Requests :
        \/ \E u \in Users : ReadRow(r, u)
        \/ Reject(r)
        \/ ReadPendingUpload(r)
        \/ ReadPendingDownload(r)
        \/ \E n \in Nodes, load \in Loads : RecordTraffic(r, n, load)
        \/ Abandon(r)

FlushStep ==
    \/ FlushUsage
    \/ FlushNodeUsage
    \/ FlushDone
    \/ \E a \in Accounts : NextAccount(a)
    \/ ReadUpload
    \/ ReadDownload
    \/ ReadRequests
    \/ UpdateRow
    \/ RereadRequests
    \/ DecrUsage
    \/ RoundFails
    \/ DecrFails
    \/ DecrReplyLost

AdminStep ==
    \/ \E a \in Accounts :
          \/ CreateRow(a)
          \/ DeleteRow(a)
          \/ CleanupRuntime(a)
          \/ CleanupFails(a)
    \/ \E u, v \in Users : RenameUser(u, v)
    \/ \E n \in Nodes : CopyRow(n)
    \/ \E c \in copies : SaveRow(c)

Next == RequestStep \/ FlushStep \/ AdminStep \/ Restart

Spec == Init /\ [][Next]_vars

(* StartFlushLoop runs as long as the process does and its ticker fires    *)
(* every 30 seconds, whatever the last round returned.                     *)
FairSpec == Spec /\ WF_vars(FlushStep)

-----------------------------------------------------------------------------
TypeOK ==
    /\ rows \in SUBSET Accounts
    /\ usedBytes \in [Accounts -> Int]
    /\ totalRequests \in [Accounts -> Int]
    /\ keys \in SUBSET Accounts
    /\ usage \in [Accounts -> Counters]
    /\ flush \in Flushes
    /\ req \in [Requests -> RequestStates]
    /\ cleaning \in SUBSET Accounts
    /\ copies \in SUBSET Copies
    /\ faults \in 0..MaxFaults
    /\ edits \in 0..MaxEdits
    /\ recorded \in [Accounts -> Counters]
    /\ twice \in [Accounts -> [bytes : Int, reqs : Int]]
    /\ purged \in SUBSET Accounts
    /\ basis \in [Requests -> [recorded : Int, stale : BOOLEAN]]

(* What the system charges an account: its row and its pending counters,   *)
(* counting once what the flush has written and not yet subtracted.        *)
Charged(a) == usedBytes[a] + Bytes(usage[a]) - InFlight(a)
ChargedRequests(a) == totalRequests[a] + usage[a].reqs - InFlightRequests(a)

Lasting == Accounts \ purged

(* No byte that RecordTraffic recorded is lost, and none is charged twice  *)
(* but those of a round that ended between its UPDATE and its EXEC: at     *)
(* every step of FlushUsage and flushNodeUsage, against any interleaving   *)
(* of recording requests, the row and Redis together hold what was         *)
(* recorded.                                                               *)
BytesConserved ==
    \A a \in Lasting : Charged(a) = Bytes(recorded[a]) + twice[a].bytes

(* The request counters: flushNodeUsage subtracts what it added, so the    *)
(* count of a node is exact; FlushUsage subtracts a later reading, so the  *)
(* count of a user may fall behind and never runs ahead.                   *)
RequestsConserved ==
    \A a \in Lasting :
        /\ ChargedRequests(a) <= recorded[a].reqs + twice[a].reqs
        /\ a \in Nodes => ChargedRequests(a) = recorded[a].reqs + twice[a].reqs

(* An amount is charged twice only if some command failed or the process   *)
(* was restarted: no schedule of a healthy system does it.                 *)
RepeatOnlyAfterFault ==
    faults = 0 => \A a \in Lasting : twice[a] = [bytes |-> 0, reqs |-> 0]

(* The flush never subtracts more than Redis holds, so the pending usage   *)
(* that Authenticate adds to the row never lowers it.                      *)
PendingNeverNegative ==
    \A a \in Lasting : usage[a].up >= 0 /\ usage[a].down >= 0 /\ usage[a].reqs >= 0

(* A request is admitted only while the traffic recorded before it read    *)
(* the row is below the quota, unless a flush updated that row between     *)
(* this read and the decision, or a read of Redis failed.                  *)
QuotaRespected ==
    \A r \in Requests :
        LET u == req[r].user IN
        (/\ req[r].pc = "admitted"
         /\ u \in Lasting
         /\ ~basis[r].stale
         /\ Quota[u] > 0) => basis[r].recorded < Quota[u]

(***************************************************************************)
(* The inductive invariant behind the safety properties above.             *)
(***************************************************************************)
Reading == flush.pc \notin {"idle", "pick"}

(* The flush works on an account of the phase it is in.                    *)
FlushShape ==
    /\ flush.todo \subseteq (IF flush.phase = "users" THEN Users ELSE Nodes)
    /\ Reading => flush.acct \in (IF flush.phase = "users" THEN Users ELSE Nodes)
    /\ flush.pc = "again" => flush.phase = "users"

Admitting == {"up", "down", "admitted"}

RequestShape == \A r \in Requests : req[r].pc \in Admitting => req[r].user \in Users

(* Keys in Redis, the accounts of the flush and the users of requests have *)
(* had a row; a lasting one has it still.                                  *)
RowsKnown ==
    /\ cleaning \subseteq purged
    /\ \A c \in copies : c.node \in Lasting => c.node \in rows
    /\ Lasting \cap keys \subseteq rows
    /\ Lasting \cap flush.todo \subseteq rows
    /\ (Reading /\ flush.acct \in Lasting) => flush.acct \in rows
    /\ \A r \in Requests :
          (req[r].pc \in Admitting /\ req[r].user \in Lasting)
              => req[r].user \in rows

(* Nobody but the flush lowers the counters of a lasting account, so what  *)
(* it has read stays covered by what Redis holds.                          *)
CapturedCovered ==
    (Reading /\ flush.acct \in Lasting) =>
        LET held == usage[flush.acct] IN
        /\ flush.pc # "up" => flush.cap.up \in 0..held.up
        /\ flush.pc \notin {"up", "down"} => flush.cap.down \in 0..held.down
        /\ flush.pc \in {"update", "again", "decr"} => flush.cap.reqs \in 0..held.reqs
        /\ flush.pc = "again" => flush.added = flush.cap.reqs
        /\ flush.pc = "decr" =>
              /\ flush.added >= 0
              /\ flush.phase = "nodes" => flush.added = flush.cap.reqs
              /\ faults = 0 => flush.added <= flush.cap.reqs

(* What is in flight is in the row already.                                *)
RowCoversInFlight == \A a \in Lasting : usedBytes[a] >= InFlight(a)

IInv ==
    /\ TypeOK
    /\ FlushShape
    /\ RequestShape
    /\ RowsKnown
    /\ CapturedCovered
    /\ RowCoversInFlight
    /\ PendingNeverNegative
    /\ BytesConserved
    /\ RequestsConserved
    /\ RepeatOnlyAfterFault

(* The row of an account never goes down: what an administrator sees as    *)
(* used grows only, and no flush writes back an older value.               *)
UsedBytesGrow ==
    [][\A a \in Accounts \ purged' : usedBytes'[a] >= usedBytes[a]]_vars

(* All that is recorded reaches the row, the last byte of the last request *)
(* included, even though a round gives up at its first error: the next     *)
(* tick starts over and the counters are still there, those of an amount   *)
(* that a failure repeats too.  Not so for an account whose key FlushUsage *)
(* takes for a node's.                                                     *)
EventuallyBilled ==
    \A a \in Accounts \ Shadowed :
        []<>(a \in purged \/ usedBytes[a] = Bytes(recorded[a]) + twice[a].bytes)

(* What a round of the flush has left to do: its phases, the accounts of a *)
(* phase, the steps of an account.                                         *)
Phase(x) == IF x.pc = "idle" THEN 2 ELSE IF x.phase = "users" THEN 1 ELSE 0
Command == [idle |-> 0, pick |-> 0, up |-> 6, down |-> 5, reqs |-> 4, update |-> 3,
            again |-> 2, decr |-> 1]

Behind(y, x) ==
    \/ Phase(y) < Phase(x)
    \/ /\ Phase(y) = Phase(x)
       /\ \/ Cardinality(y.todo) < Cardinality(x.todo)
          \/ y.todo = x.todo /\ Command[y.pc] < Command[x.pc]

(* The row of a does not show k of what was recorded.                      *)
Owed(a, k) == a \in Lasting /\ usedBytes[a] < k /\ k <= Bytes(recorded[a])

(* The round is yet to come to a, or has read what brings its row to k.    *)
OnItsWay(a, k) ==
    \/ flush.pc = "idle"
    \/ flush.phase = "users" /\ a \in Nodes
    \/ a \in flush.todo
    \/ /\ flush.acct = a
       /\ \/ flush.pc = "up"
          \/ flush.pc = "down" /\ usedBytes[a] + flush.cap.up + usage[a].down >= k
          \/ flush.pc \in {"reqs", "update"} /\ usedBytes[a] + Bytes(flush.cap) >= k

(* The core of EventuallyBilled.  A round ends, whatever is recorded while *)
(* it runs; and it passes over no account and no byte recorded before it   *)
(* began: without a failure the row has them when the round leaves the     *)
(* account.                                                                *)
RoundsBill ==
    [][/\ flush' \in {flush, Idle} \/ Behind(flush', flush)
       /\ \A a \in Accounts \ Shadowed : \A k \in 1..Bytes(recorded[a]) :
            Owed(a, k) /\ OnItsWay(a, k)
              => \/ Owed(a, k)' /\ OnItsWay(a, k)'
                 \/ a \in purged' \/ usedBytes'[a] >= k
                 \/ faults' > faults]_vars

(* Accounting as a whole implements the ledger: a request charges its user *)
(* and its node together, the flush moves amounts and changes no balance,  *)
(* and only a failure between UPDATE and EXEC charges an amount again.     *)
Books == INSTANCE Ledger WITH
    Amounts <- {load.up + load.down : load \in Loads},
    balance <- [a \in Accounts |-> IF a \in purged THEN 0 ELSE Charged(a)],
    closed  <- purged,
    failures <- faults

LedgerSpec == Books!Spec
=============================================================================
