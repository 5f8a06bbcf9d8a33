---------------------------- MODULE Usage_proofs ----------------------------
(***************************************************************************)
(* Theorems about Usage for every set of users, nodes and requests, every  *)
(* quota and load, and every bound on failures and edits.                  *)
(***************************************************************************)
EXTENDS Usage, FiniteSetTheorems, TLAPS

USE DEF Accounts

-----------------------------------------------------------------------------
(* Types.  The account that the flush works on, and the user of a request, *)
(* are needed to type what is read, so their shape goes with the types.    *)

Typing == TypeOK /\ FlushShape /\ RequestShape

LEMMA InitTyping == Init => Typing
  BY BoundsAssumption DEF Init, Typing, FlushShape, RequestShape, Admitting, Reading, TypeOK, Zero, Idle, Counters,
     Flushes, FlushSteps, RequestStates, RequestSteps

LEMMA CountersTyped ==
  ASSUME TypeOK, NEW a \in Accounts
  PROVE  /\ usage[a].up \in Int /\ usage[a].down \in Int /\ usage[a].reqs \in Int
         /\ Bytes(usage[a]) \in Int
         /\ recorded[a].up \in Int /\ recorded[a].down \in Int /\ recorded[a].reqs \in Int
         /\ Bytes(recorded[a]) \in Int
         /\ twice[a].bytes \in Int /\ twice[a].reqs \in Int
<1>1. usage[a] \in Counters /\ recorded[a] \in Counters
      /\ twice[a] \in [bytes : Int, reqs : Int]
  BY DEF TypeOK
<1> QED BY <1>1 DEF Counters, Bytes

(* Each state of a request is one of RequestStates after any of its steps. *)
LEMMA RequestTyping ==
  ASSUME Typing, RequestStep
  PROVE  Typing'
<1>1. PICK r \in Requests :
        \/ \E u \in Users : ReadRow(r, u)
        \/ Reject(r)
        \/ ReadPendingUpload(r)
        \/ ReadPendingDownload(r)
        \/ \E n \in Nodes, load \in Loads : RecordTraffic(r, n, load)
        \/ Abandon(r)
  BY DEF RequestStep
<1> USE DEF Typing, database, handlers, redis, history, FlushShape, RequestShape, Admitting, Reading
<1>2. ASSUME NEW u \in Users, ReadRow(r, u) PROVE Typing'
  <2>1. req' \in [Requests -> RequestStates]
    BY <1>2 DEF TypeOK, ReadRow, RequestStates, RequestSteps
  <2>2. basis' \in [Requests -> [recorded : Int, stale : BOOLEAN]]
    BY <1>2 DEF TypeOK, ReadRow, Bytes, Counters
  <2> QED BY <1>2, <2>1, <2>2 DEF TypeOK, ReadRow
<1>3. CASE Reject(r)
  <2>1. req \in [Requests -> RequestStates]
    BY DEF TypeOK
  <2>2. \A x \in RequestStates : [x EXCEPT !.pc = "refused"] \in RequestStates
    BY DEF RequestStates, RequestSteps
  <2>3. req' = [req EXCEPT ![r] = [@ EXCEPT !.pc = "refused"]]
    BY <1>3 DEF Reject
  <2>4. req' \in [Requests -> RequestStates]
    BY <2>1, <2>2, <2>3
  <2> QED BY <1>3, <2>4 DEF TypeOK, Reject
<1>4. CASE ReadPendingUpload(r)
  <2>1. PICK v \in {0, usage[req[r].user].up} :
          /\ Get(usage[req[r].user].up, v)
          /\ req' = [req EXCEPT ![r] = [@ EXCEPT !.pc = "down", !.up = v]]
          /\ basis' = [basis EXCEPT ![r].stale = @ \/ v # usage[req[r].user].up]
    BY <1>4 DEF ReadPendingUpload
  <2>2. req' \in [Requests -> RequestStates]
    <3>1. req[r].user \in Accounts
      BY <1>4 DEF ReadPendingUpload
    <3>2. usage[req[r].user].up \in Int
      BY <3>1, CountersTyped
    <3>3. req[r] \in RequestStates
      BY DEF TypeOK
    <3>4. v \in Int
      BY <3>2
    <3>5. [req[r] EXCEPT !.pc = "down", !.up = v] \in RequestStates
      BY <3>3, <3>4 DEF RequestStates, RequestSteps
    <3> QED BY <2>1, <3>5 DEF TypeOK
  <2>3. basis' \in [Requests -> [recorded : Int, stale : BOOLEAN]]
    BY <2>1 DEF TypeOK
  <2>4. faults' \in 0..MaxFaults
    BY <2>1, BoundsAssumption DEF TypeOK, Get, Fault
  <2> QED BY <1>4, <2>2, <2>3, <2>4 DEF TypeOK, ReadPendingUpload
<1>5. CASE ReadPendingDownload(r)
  <2>1. PICK v \in {0, usage[req[r].user].down} :
          /\ Get(usage[req[r].user].down, v)
          /\ req' = [req EXCEPT ![r].pc =
                        IF OverQuota(req[r].user, req[r].used + req[r].up + v)
                          THEN "refused" ELSE "admitted"]
          /\ basis' = [basis EXCEPT ![r].stale = @ \/ v # usage[req[r].user].down]
    BY <1>5 DEF ReadPendingDownload
  <2>2. req' \in [Requests -> RequestStates]
    BY <2>1 DEF TypeOK, RequestStates, RequestSteps
  <2>3. basis' \in [Requests -> [recorded : Int, stale : BOOLEAN]]
    BY <2>1 DEF TypeOK
  <2>4. faults' \in 0..MaxFaults
    BY <2>1, BoundsAssumption DEF TypeOK, Get, Fault
  <2> QED BY <1>5, <2>2, <2>3, <2>4 DEF TypeOK, ReadPendingDownload
<1>6. ASSUME NEW n \in Nodes, NEW load \in Loads, RecordTraffic(r, n, load)
      PROVE  Typing'
  <2>1. req' \in [Requests -> RequestStates]
    BY <1>6 DEF TypeOK, RecordTraffic, RequestStates, RequestSteps
  <2>2. /\ usage' \in [Accounts -> Counters]
        /\ recorded' \in [Accounts -> Counters]
    BY <1>6, LoadsAssumption DEF TypeOK, RecordTraffic, Add, Counters
  <2>3. keys' \in SUBSET Accounts
    <3>1. keys' = keys \cup {req[r].user, n}
      BY <1>6 DEF RecordTraffic
    <3>2. req[r].user \in Accounts
      BY <1>6 DEF TypeOK, RecordTraffic
    <3> QED BY <3>1, <3>2 DEF TypeOK
  <2> QED BY <1>6, <2>1, <2>2, <2>3 DEF TypeOK, RecordTraffic
<1>7. CASE Abandon(r)
  <2>1. req \in [Requests -> RequestStates]
    BY DEF TypeOK
  <2>2. \A x \in RequestStates : [x EXCEPT !.pc = "done"] \in RequestStates
    BY DEF RequestStates, RequestSteps
  <2>3. req' = [req EXCEPT ![r] = [@ EXCEPT !.pc = "done"]]
    BY <1>7 DEF Abandon
  <2>4. req' \in [Requests -> RequestStates]
    BY <2>1, <2>2, <2>3
  <2> QED BY <1>7, <2>4 DEF TypeOK, Abandon
<1> QED BY <1>1, <1>2, <1>3, <1>4, <1>5, <1>6, <1>7

(* The states of the flush: every step keeps its record well formed.       *)
LEMMA FlushTyping ==
  ASSUME Typing, FlushStep
  PROVE  Typing'
<1> USE DEF Typing, database, handlers, redis, history, RequestShape, Admitting
<1>0. flush \in Flushes
  BY DEF TypeOK
<1>1. CASE FlushUsage
  <2>1. flush' = [pc |-> "pick", phase |-> "users", todo |-> (keys \cap Users) \ Shadowed,
                  acct |-> NoAccount, cap |-> Zero, added |-> 0]
    BY <1>1 DEF FlushUsage, Idle
  <2>2. flush' \in Flushes
    BY <2>1 DEF TypeOK, Zero, Flushes, FlushSteps, Counters
  <2>3. FlushShape'
    BY <2>1 DEF FlushShape, Reading
  <2> QED BY <1>1, <2>2, <2>3 DEF TypeOK, FlushUsage
<1>2. CASE FlushNodeUsage
  <2>1. flush' = [pc |-> "pick", phase |-> "nodes", todo |-> keys \cap Nodes,
                  acct |-> NoAccount, cap |-> Zero, added |-> 0]
    BY <1>2 DEF FlushNodeUsage, Idle
  <2>2. flush' \in Flushes
    BY <2>1 DEF TypeOK, Zero, Flushes, FlushSteps, Counters
  <2>3. FlushShape'
    BY <2>1 DEF FlushShape, Reading
  <2> QED BY <1>2, <2>2, <2>3 DEF TypeOK, FlushNodeUsage
<1>3. CASE FlushDone
  <2>1. flush' \in Flushes /\ FlushShape'
    BY <1>3 DEF TypeOK, FlushDone, Idle, Zero, Flushes, FlushSteps, Counters,
                FlushShape, Reading
  <2> QED BY <1>3, <2>1 DEF TypeOK, FlushDone
<1>4. ASSUME NEW a \in Accounts, NextAccount(a) PROVE Typing'
  <2>1. Zero \in Counters /\ a \in Accounts
    BY DEF Zero, Counters
  <2>2. flush' \in Flushes
    BY <1>0, <1>4, <2>1 DEF NextAccount, Flushes, FlushSteps
  <2>3. /\ flush'.pc = "up" /\ flush'.acct = a /\ a \in flush.todo
        /\ flush'.phase = flush.phase /\ flush'.todo = flush.todo \ {a}
    BY <1>0, <1>4 DEF NextAccount, Flushes
  <2>4. FlushShape'
    BY <2>3 DEF FlushShape
  <2> QED BY <1>4, <2>2, <2>4 DEF TypeOK, NextAccount
<1>5. CASE ReadUpload
  <2>1. flush.acct \in Accounts
    BY <1>5 DEF ReadUpload, FlushShape, Reading
  <2>2. PICK v \in {0, usage[flush.acct].up} :
          /\ Get(usage[flush.acct].up, v)
          /\ flush' = [flush EXCEPT !.pc = "down", !.cap.up = v]
    BY <1>5 DEF ReadUpload
  <2>3. v \in Int
    BY <2>1, <2>2, CountersTyped
  <2>4. flush' \in Flushes /\ FlushShape'
    BY <1>0, <1>5, <2>2, <2>3
    DEF ReadUpload, Flushes, FlushSteps, Counters, FlushShape, Reading
  <2>5. faults' \in 0..MaxFaults
    BY <2>2, BoundsAssumption DEF TypeOK, Get, Fault
  <2> QED BY <1>5, <2>4, <2>5 DEF TypeOK, ReadUpload
<1>6. CASE ReadDownload
  <2>1. flush.acct \in Accounts
    BY <1>6 DEF ReadDownload, FlushShape, Reading
  <2>2. PICK v \in {0, usage[flush.acct].down} :
          /\ Get(usage[flush.acct].down, v)
          /\ flush' = [flush EXCEPT
                !.pc = IF flush.phase = "users" /\ flush.cap.up + v = 0
                         THEN "pick" ELSE "reqs",
                !.cap.down = v]
    BY <1>6 DEF ReadDownload
  <2>3. v \in Int
    BY <2>1, <2>2, CountersTyped
  <2>4. flush' \in Flushes /\ FlushShape'
    BY <1>0, <1>6, <2>2, <2>3
    DEF ReadDownload, Flushes, FlushSteps, Counters, FlushShape, Reading
  <2>5. faults' \in 0..MaxFaults
    BY <2>2, BoundsAssumption DEF TypeOK, Get, Fault
  <2> QED BY <1>6, <2>4, <2>5 DEF TypeOK, ReadDownload
<1>7. CASE ReadRequests
  <2>1. flush.acct \in Accounts
    BY <1>7 DEF ReadRequests, FlushShape, Reading
  <2>2. PICK v \in {0, usage[flush.acct].reqs} :
          /\ Get(usage[flush.acct].reqs, v)
          /\ flush' = [flush EXCEPT
                !.pc = IF flush.phase = "nodes" /\ flush.cap = Zero /\ v = 0
                         THEN "pick" ELSE "update",
                !.cap.reqs = v]
    BY <1>7 DEF ReadRequests
  <2>3. v \in Int
    BY <2>1, <2>2, CountersTyped
  <2>4. flush' \in Flushes /\ FlushShape'
    BY <1>0, <1>7, <2>2, <2>3
    DEF ReadRequests, Flushes, FlushSteps, Counters, FlushShape, Reading
  <2>5. faults' \in 0..MaxFaults
    BY <2>2, BoundsAssumption DEF TypeOK, Get, Fault
  <2> QED BY <1>7, <2>4, <2>5 DEF TypeOK, ReadRequests
<1>8. CASE UpdateRow
  <2>1. flush' \in Flushes /\ FlushShape'
    BY <1>0, <1>8 DEF UpdateRow, Flushes, FlushSteps, Counters, FlushShape, Reading
  <2>2. Bytes(flush.cap) \in Int /\ flush.cap.reqs \in Int
    BY <1>0 DEF Flushes, Counters, Bytes
  <2>3. usedBytes' \in [Accounts -> Int] /\ totalRequests' \in [Accounts -> Int]
    BY <1>8, <2>2 DEF TypeOK, UpdateRow
  <2>4. basis' \in [Requests -> [recorded : Int, stale : BOOLEAN]]
    BY <1>8 DEF TypeOK, UpdateRow
  <2> QED BY <1>8, <2>1, <2>3, <2>4 DEF TypeOK, UpdateRow
<1>9. CASE RereadRequests
  <2>1. flush.acct \in Accounts
    BY <1>9 DEF RereadRequests, FlushShape, Reading
  <2>2. PICK v \in {0, usage[flush.acct].reqs} :
          /\ Get(usage[flush.acct].reqs, v)
          /\ flush' = [flush EXCEPT !.pc = "decr", !.cap.reqs = v]
    BY <1>9 DEF RereadRequests
  <2>3. v \in Int
    BY <2>1, <2>2, CountersTyped
  <2>4. flush' \in Flushes /\ FlushShape'
    BY <1>0, <1>9, <2>2, <2>3
    DEF RereadRequests, Flushes, FlushSteps, Counters, FlushShape, Reading
  <2>5. faults' \in 0..MaxFaults
    BY <2>2, BoundsAssumption DEF TypeOK, Get, Fault
  <2> QED BY <1>9, <2>4, <2>5 DEF TypeOK, RereadRequests
<1>10. ASSUME flush.pc = "decr", Subtract(flush.acct)
       PROVE  /\ keys' \in SUBSET Accounts
              /\ usage' \in [Accounts -> Counters]
              /\ twice' \in [Accounts -> [bytes : Int, reqs : Int]]
  <2>1. flush.acct \in Accounts
    BY <1>10 DEF FlushShape, Reading
  <2>2. flush.cap \in Counters /\ flush.added \in Int
    BY <1>0 DEF Flushes
  <2>3. keys' \in SUBSET Accounts
    BY <1>10, <2>1 DEF TypeOK, Subtract
  <2>4. usage' \in [Accounts -> Counters]
    BY <1>10, <2>1, <2>2 DEF TypeOK, Subtract, Minus, Counters
  <2>5. twice' \in [Accounts -> [bytes : Int, reqs : Int]]
    BY <1>10, <2>1, <2>2 DEF TypeOK, Subtract, Repeat, Counters
  <2> QED BY <2>3, <2>4, <2>5
<1>11. CASE DecrUsage
  <2>1. flush' \in Flushes /\ FlushShape'
    BY <1>0, <1>11 DEF DecrUsage, Flushes, FlushSteps, FlushShape, Reading
  <2> QED BY <1>10, <1>11, <2>1 DEF TypeOK, DecrUsage
<1>12. ASSUME flush' = Idle PROVE flush' \in Flushes /\ FlushShape'
  BY <1>12 DEF Idle, Zero, Flushes, FlushSteps, Counters, FlushShape, Reading
<1>13. ASSUME Fault PROVE faults' \in 0..MaxFaults
  BY <1>13, BoundsAssumption DEF TypeOK, Fault
<1>14. CASE RoundFails
  BY <1>12, <1>13, <1>14 DEF TypeOK, RoundFails
<1>15. CASE DecrFails
  <2>1. flush.acct \in Accounts /\ Bytes(flush.cap) \in Int /\ flush.added \in Int
    BY <1>0, <1>15 DEF DecrFails, FlushShape, Reading, Flushes, Counters, Bytes
  <2>2. twice' \in [Accounts -> [bytes : Int, reqs : Int]]
    BY <1>15, <2>1 DEF TypeOK, DecrFails, Repeat
  <2> QED BY <1>12, <1>13, <1>15, <2>2 DEF TypeOK, DecrFails
<1>16. CASE DecrReplyLost
  BY <1>10, <1>12, <1>13, <1>16 DEF TypeOK, DecrReplyLost
<1> QED BY <1>1, <1>2, <1>3, <1>4, <1>5, <1>6, <1>7, <1>8, <1>9, <1>11, <1>14, <1>15,
           <1>16 DEF FlushStep

LEMMA AdminTyping ==
  ASSUME Typing, AdminStep
  PROVE  Typing'
<1> USE DEF Typing, database, handlers, redis, history, FlushShape, Reading, RequestShape, Admitting
<1>1. ASSUME Fault PROVE faults' \in 0..MaxFaults
  BY <1>1, BoundsAssumption DEF TypeOK, Fault
<1>2. ASSUME Edit PROVE edits' \in 0..MaxEdits
  BY <1>2, BoundsAssumption DEF TypeOK, Edit
<1>3. ASSUME NEW a \in Accounts, CreateRow(a) PROVE Typing'
  BY <1>2, <1>3 DEF TypeOK, CreateRow
<1>4. ASSUME NEW a \in Accounts, DeleteRow(a) PROVE Typing'
  BY <1>2, <1>4 DEF TypeOK, DeleteRow
<1>5. ASSUME NEW a \in Accounts, CleanupRuntime(a) PROVE Typing'
  <2>1. Zero \in Counters
    BY DEF Zero, Counters
  <2> QED BY <1>5, <2>1 DEF TypeOK, CleanupRuntime
<1>6. ASSUME NEW a \in Accounts, CleanupFails(a) PROVE Typing'
  BY <1>1, <1>6 DEF TypeOK, CleanupFails
<1>7. ASSUME NEW u \in Users, NEW v \in Users, RenameUser(u, v) PROVE Typing'
  BY <1>2, <1>7 DEF TypeOK, RenameUser
<1>8. ASSUME NEW n \in Nodes, CopyRow(n) PROVE Typing'
  <2>1. usedBytes[n] \in Int /\ totalRequests[n] \in Int
    BY DEF TypeOK
  <2>2. copies' \in SUBSET Copies
    BY <1>8, <2>1 DEF TypeOK, CopyRow, Copies
  <2> QED BY <1>8, <2>2 DEF TypeOK, CopyRow
<1>9. ASSUME NEW c \in copies, SaveRow(c) PROVE Typing'
  <2>1. c.node \in Accounts /\ c.used \in Int /\ c.reqs \in Int
    BY DEF TypeOK, Copies
  <2> QED BY <1>9, <2>1 DEF TypeOK, SaveRow
<1> QED BY <1>3, <1>4, <1>5, <1>6, <1>7, <1>8, <1>9 DEF AdminStep

LEMMA RestartTyping ==
  ASSUME Typing, Restart
  PROVE  Typing'
<1> USE DEF Typing, database, handlers, redis, FlushShape, Reading, RequestShape, Admitting
<1>1. flush' \in Flushes /\ FlushShape'
  BY DEF Restart, Idle, Zero, Flushes, FlushSteps, Counters
<1>2. req' \in [Requests -> RequestStates]
  BY DEF TypeOK, Restart, RequestStates, RequestSteps
<1>3. RequestShape'
  BY DEF TypeOK, Restart, RequestStates
<1>4. \A a \in Accounts : InFlight(a) \in Int /\ InFlightRequests(a) \in Int
  BY DEF TypeOK, InFlight, InFlightRequests, Flushes, Counters, Bytes
<1>5. twice' \in [Accounts -> [bytes : Int, reqs : Int]]
  BY <1>4 DEF TypeOK, Restart
<1>6. faults' \in 0..MaxFaults
  BY BoundsAssumption DEF TypeOK, Restart, Fault
<1> QED BY <1>1, <1>2, <1>3, <1>5, <1>6 DEF TypeOK, Restart

LEMMA NextTyping == Typing /\ [Next]_vars => Typing'
<1>1. ASSUME Typing, UNCHANGED vars PROVE Typing'
  BY <1>1 DEF Typing, TypeOK, FlushShape, Reading, RequestShape, Admitting, vars
<1> QED BY <1>1, RequestTyping, FlushTyping, AdminTyping, RestartTyping DEF Next

(* Every variable keeps its type in every behaviour.                       *)
THEOREM UsageTypeOK == Spec => []TypeOK
<1>1. Typing => TypeOK
  BY DEF Typing
<1> QED BY InitTyping, NextTyping, <1>1, PTL DEF Spec

-----------------------------------------------------------------------------
(* The inductive invariant, part by part.                                  *)

LEMMA PurgedGrows ==
  ASSUME Typing, [Next]_vars
  PROVE  /\ purged \subseteq purged'
         /\ faults' >= faults
<1> USE DEF history
<1>1. faults \in Int
  BY BoundsAssumption DEF Typing, TypeOK
<1>2. ASSUME NEW r \in Requests, ReadPendingUpload(r) PROVE purged' = purged /\ faults' >= faults
  BY <1>1, <1>2 DEF ReadPendingUpload, Get, Fault
<1>3. ASSUME NEW r \in Requests, ReadPendingDownload(r) PROVE purged' = purged /\ faults' >= faults
  BY <1>1, <1>3 DEF ReadPendingDownload, Get, Fault
<1>4. CASE RequestStep
  <2>1. PICK r \in Requests :
          \/ \E u \in Users : ReadRow(r, u)
          \/ Reject(r)
          \/ ReadPendingUpload(r)
          \/ ReadPendingDownload(r)
          \/ \E n \in Nodes, load \in Loads : RecordTraffic(r, n, load)
          \/ Abandon(r)
    BY <1>4 DEF RequestStep
  <2>2. CASE ReadPendingUpload(r) \/ ReadPendingDownload(r)
    BY <1>2, <1>3, <2>2
  <2>3. CASE Reject(r) \/ Abandon(r)
    BY <1>1, <2>3 DEF Reject, Abandon
  <2>4. ASSUME NEW u \in Users, ReadRow(r, u) PROVE purged' = purged /\ faults' >= faults
    BY <1>1, <2>4 DEF ReadRow
  <2>5. ASSUME NEW n \in Nodes, NEW load \in Loads, RecordTraffic(r, n, load)
        PROVE  purged' = purged /\ faults' >= faults
    BY <1>1, <2>5 DEF RecordTraffic
  <2> QED BY <2>1, <2>2, <2>3, <2>4, <2>5
<1>5. CASE FlushStep
  BY <1>1, <1>5 DEF FlushStep, FlushUsage, FlushNodeUsage, FlushDone, NextAccount,
              ReadUpload, ReadDownload, ReadRequests, UpdateRow, RereadRequests,
              DecrUsage, RoundFails, DecrFails, DecrReplyLost, Get, Fault
<1>6. CASE AdminStep
  BY <1>1, <1>6 DEF AdminStep, CreateRow, DeleteRow, CleanupRuntime, CleanupFails,
              RenameUser, CopyRow, SaveRow, Fault
<1>7. CASE Restart
  BY <1>1, <1>7 DEF Restart, Fault
<1>8. CASE UNCHANGED vars
  BY <1>1, <1>8 DEF vars
<1> QED BY <1>4, <1>5, <1>6, <1>7, <1>8 DEF Next

(* A key, an account of the flush or the user of a request refers to a row *)
(* that existed when it was created, and only purging removes a row.       *)
LEMMA RowsKnownStep ==
  ASSUME Typing, RowsKnown, [Next]_vars
  PROVE  RowsKnown'
<1> USE DEF RowsKnown, Lasting, Reading, database, handlers, redis, history, Admitting
<1>0. Typing'
  BY NextTyping
<1>1. ASSUME NEW r \in Requests, NEW u \in Users, ReadRow(r, u) PROVE RowsKnown'
  <2>1. req' = [req EXCEPT ![r] = [pc |-> "up", user |-> u, used |-> usedBytes[u], up |-> 0]]
    BY <1>1 DEF ReadRow
  <2> QED BY <1>1, <2>1 DEF Typing, TypeOK, ReadRow
<1>2. ASSUME NEW r \in Requests, Reject(r) PROVE RowsKnown'
  BY <1>2 DEF Typing, TypeOK, Reject, RequestStates
<1>3. ASSUME NEW r \in Requests, ReadPendingUpload(r) PROVE RowsKnown'
  BY <1>3 DEF Typing, TypeOK, ReadPendingUpload, RequestStates
<1>4. ASSUME NEW r \in Requests, ReadPendingDownload(r) PROVE RowsKnown'
  BY <1>4 DEF Typing, TypeOK, ReadPendingDownload, RequestStates
<1>5. ASSUME NEW r \in Requests, NEW n \in Nodes, NEW load \in Loads, RecordTraffic(r, n, load)
      PROVE  RowsKnown'
  <2>1. keys' = keys \cup {req[r].user, n}
    BY <1>5 DEF RecordTraffic
  <2>2. \A q \in Requests : req'[q].user = req[q].user /\ (req'[q].pc # "done" => req'[q].pc = req[q].pc)
    BY <1>5 DEF Typing, TypeOK, RequestStates, RecordTraffic
  <2> QED BY <1>5, <2>1, <2>2 DEF RecordTraffic
<1>6. ASSUME NEW r \in Requests, Abandon(r) PROVE RowsKnown'
  BY <1>6 DEF Typing, TypeOK, Abandon, RequestStates
<1>7. CASE FlushUsage
  <2>1. flush'.pc = "pick" /\ flush'.todo = (keys \cap Users) \ Shadowed
    BY <1>7 DEF FlushUsage, Idle
  <2> QED BY <1>7, <2>1 DEF FlushUsage
<1>8. CASE FlushNodeUsage
  <2>1. flush'.pc = "pick" /\ flush'.todo = keys \cap Nodes
    BY <1>8 DEF FlushNodeUsage, Idle
  <2> QED BY <1>8, <2>1 DEF FlushNodeUsage
<1>9. ASSUME flush' = Idle
      PROVE  flush'.pc = "idle" /\ flush'.todo = {}
  BY <1>9 DEF Idle
<1>10. CASE FlushDone
  BY <1>9, <1>10 DEF FlushDone
<1>11. ASSUME NEW a \in Accounts, NextAccount(a) PROVE RowsKnown'
  BY <1>11 DEF NextAccount
<1>12. ASSUME \/ ReadUpload \/ ReadDownload \/ ReadRequests
              \/ UpdateRow \/ RereadRequests
       PROVE  RowsKnown'
  <2>1. flush'.acct = flush.acct /\ flush'.todo = flush.todo /\ Reading
    BY <1>12 DEF Typing, TypeOK, Flushes, ReadUpload, ReadDownload, ReadRequests,
                 UpdateRow, RereadRequests
  <2> QED BY <1>12, <2>1 DEF ReadUpload, ReadDownload, ReadRequests, UpdateRow,
                             RereadRequests
<1>13. CASE DecrUsage
  <2>1. flush'.pc = "pick" /\ flush'.todo = flush.todo /\ Reading
    BY <1>13 DEF Typing, TypeOK, Flushes, DecrUsage
  <2>2. keys' = keys \cup {flush.acct}
    BY <1>13 DEF DecrUsage, Subtract
  <2> QED BY <1>13, <2>1, <2>2 DEF DecrUsage
<1>14. CASE RoundFails
  BY <1>9, <1>14 DEF RoundFails
<1>15. CASE DecrFails
  BY <1>9, <1>15 DEF DecrFails
<1>16. CASE DecrReplyLost
  <2>1. keys' = keys \cup {flush.acct} /\ Reading
    BY <1>16 DEF DecrReplyLost, Subtract
  <2> QED BY <1>9, <1>16, <2>1 DEF DecrReplyLost
<1>17. CASE AdminStep
  <2>1. CASE \E n \in Nodes : CopyRow(n)
    BY <2>1 DEF CopyRow
  <2>2. ASSUME NEW c \in copies, SaveRow(c) PROVE RowsKnown'
    <3>1. UNCHANGED <<keys, flush, req, cleaning>> /\ rows' = rows \cup {c.node}
          /\ copies' \subseteq copies /\ purged \subseteq purged'
      BY <2>2 DEF SaveRow
    <3> QED BY <3>1
  <2> QED BY <1>17, <2>1, <2>2 DEF AdminStep, CreateRow, DeleteRow, CleanupRuntime,
         CleanupFails, RenameUser
<1>18. CASE Restart
  <2>1. \A q \in Requests : req'[q].pc \notin Admitting
    BY <1>18 DEF Typing, TypeOK, RequestStates, RequestSteps, Restart
  <2> QED BY <1>9, <1>18, <2>1 DEF Restart
<1>19. CASE UNCHANGED vars
  BY <1>19 DEF vars
<1> QED BY <1>1, <1>2, <1>3, <1>4, <1>5, <1>6, <1>7, <1>8, <1>10, <1>11, <1>12, <1>13,
           <1>14, <1>15, <1>16, <1>17, <1>18, <1>19 DEF Next, RequestStep, FlushStep

(* What the flush has captured stays covered: requests only add, the flush *)
(* subtracts what it captured, and cleanup is for purged accounts.         *)
Pending == CapturedCovered /\ PendingNeverNegative

LEMMA PendingStep ==
  ASSUME Typing, RowsKnown, Pending, [Next]_vars
  PROVE  Pending'
<1> USE DEF Pending, Lasting, Reading, database, handlers, redis, history
<1>0. /\ Typing' /\ purged \subseteq purged' /\ faults' >= faults
      /\ faults \in Nat /\ faults' \in Nat
  BY NextTyping, PurgedGrows, BoundsAssumption DEF Typing, TypeOK
<1>1. \A a \in Accounts : usage[a].up \in Int /\ usage[a].down \in Int /\ usage[a].reqs \in Int
  BY CountersTyped DEF Typing
<1>2. /\ flush.acct \in Accounts \cup {NoAccount}
      /\ flush.cap.up \in Int /\ flush.cap.down \in Int /\ flush.cap.reqs \in Int
      /\ flush.added \in Int
  BY DEF Typing, TypeOK, Flushes, Counters
<1>3. Reading => flush.acct \in Accounts
  BY DEF Typing, FlushShape
(* Steps that leave the flush and Redis alone, or end a round.             *)
<1>4. ASSUME UNCHANGED <<usage, flush>> PROVE Pending'
  BY <1>0, <1>4 DEF CapturedCovered, PendingNeverNegative
<1>5. ASSUME UNCHANGED usage, flush'.pc \in {"idle", "pick"} PROVE Pending'
  BY <1>0, <1>5 DEF CapturedCovered, PendingNeverNegative
<1>6. ASSUME NEW r \in Requests, NEW n \in Nodes, NEW load \in Loads, RecordTraffic(r, n, load)
      PROVE  Pending'
  <2>1. load.up \in Nat /\ load.down \in Nat
    BY LoadsAssumption
  <2>2. \A a \in Accounts :
          /\ usage'[a].up >= usage[a].up
          /\ usage'[a].down >= usage[a].down
          /\ usage'[a].reqs >= usage[a].reqs
    BY <1>1, <1>6, <2>1 DEF RecordTraffic, Add
  <2>3. \A a \in Accounts : usage'[a].up \in Int /\ usage'[a].down \in Int /\ usage'[a].reqs \in Int
    <3>1. TypeOK'
      BY <1>0 DEF Typing
    <3>2. \A a \in Accounts : usage'[a] \in Counters
      BY <3>1 DEF TypeOK
    <3> QED BY <3>2 DEF Counters
  <2>4. PendingNeverNegative'
    BY <1>0, <1>1, <2>2, <2>3 DEF PendingNeverNegative
  <2>5. UNCHANGED <<flush, faults>>
    BY <1>6 DEF RecordTraffic
  <2>6. CapturedCovered'
    BY <1>0, <1>1, <1>2, <1>3, <2>2, <2>3, <2>5 DEF CapturedCovered
  <2> QED BY <2>4, <2>6
<1>7. ASSUME NEW a \in Accounts, NextAccount(a) PROVE Pending'
  BY <1>0, <1>7 DEF NextAccount, CapturedCovered, PendingNeverNegative
<1>8. CASE ReadUpload
  <2>1. PICK v \in {0, usage[flush.acct].up} : flush' = [flush EXCEPT !.pc = "down", !.cap.up = v]
    BY <1>8 DEF ReadUpload
  <2>2. /\ flush'.pc = "down" /\ flush'.acct = flush.acct /\ flush'.cap.up = v
        /\ UNCHANGED usage /\ UNCHANGED purged /\ Reading
    BY <1>8, <2>1 DEF ReadUpload, Typing, TypeOK, Flushes, Counters
  <2>3. flush.acct \in Lasting => v \in 0..usage[flush.acct].up
    BY <1>1, <1>3, <2>2 DEF PendingNeverNegative
  <2>4. PendingNeverNegative'
    BY <2>2 DEF PendingNeverNegative
  <2> QED BY <2>2, <2>3, <2>4 DEF CapturedCovered
<1>9. CASE ReadDownload
  <2>1. PICK v \in {0, usage[flush.acct].down} :
          flush' = [flush EXCEPT
                !.pc = IF flush.phase = "users" /\ flush.cap.up + v = 0
                         THEN "pick" ELSE "reqs",
                !.cap.down = v]
    BY <1>9 DEF ReadDownload
  <2>2. /\ flush'.pc \in {"pick", "reqs"} /\ flush'.acct = flush.acct
        /\ flush'.cap.up = flush.cap.up /\ flush'.cap.down = v
        /\ UNCHANGED usage /\ UNCHANGED purged /\ flush.pc = "down"
    BY <1>9, <2>1 DEF ReadDownload, Typing, TypeOK, Flushes, Counters
  <2>3. flush.acct \in Lasting => v \in 0..usage[flush.acct].down
    BY <1>1, <1>3, <2>2 DEF PendingNeverNegative
  <2>4. PendingNeverNegative'
    BY <2>2 DEF PendingNeverNegative
  <2> QED BY <2>2, <2>3, <2>4 DEF CapturedCovered
<1>10. CASE ReadRequests
  <2>1. PICK v \in {0, usage[flush.acct].reqs} :
          flush' = [flush EXCEPT
                !.pc = IF flush.phase = "nodes" /\ flush.cap = Zero /\ v = 0
                         THEN "pick" ELSE "update",
                !.cap.reqs = v]
    BY <1>10 DEF ReadRequests
  <2>2. /\ flush'.pc \in {"pick", "update"} /\ flush'.acct = flush.acct
        /\ flush'.cap.up = flush.cap.up /\ flush'.cap.down = flush.cap.down
        /\ flush'.cap.reqs = v
        /\ UNCHANGED usage /\ UNCHANGED purged /\ flush.pc = "reqs"
    BY <1>10, <2>1 DEF ReadRequests, Typing, TypeOK, Flushes, Counters
  <2>3. flush.acct \in Lasting => v \in 0..usage[flush.acct].reqs
    BY <1>1, <1>3, <2>2 DEF PendingNeverNegative
  <2>4. PendingNeverNegative'
    BY <2>2 DEF PendingNeverNegative
  <2> QED BY <2>2, <2>3, <2>4 DEF CapturedCovered
<1>11. CASE UpdateRow
  <2>1. /\ flush.pc = "update" /\ flush'.acct = flush.acct /\ flush'.cap = flush.cap
        /\ flush'.phase = flush.phase
        /\ flush'.pc \in {"again", "decr"} /\ flush'.added = flush.cap.reqs
        /\ UNCHANGED <<usage, purged>>
    BY <1>11 DEF UpdateRow, Typing, TypeOK, Flushes
  <2>2. PendingNeverNegative'
    BY <2>1 DEF PendingNeverNegative
  <2> QED BY <1>1, <1>2, <1>3, <2>1, <2>2 DEF CapturedCovered
<1>12. CASE RereadRequests
  <2>1. PICK v \in {0, usage[flush.acct].reqs} :
          /\ Get(usage[flush.acct].reqs, v)
          /\ flush' = [flush EXCEPT !.pc = "decr", !.cap.reqs = v]
    BY <1>12 DEF RereadRequests
  <2>2. /\ flush'.pc = "decr" /\ flush'.acct = flush.acct /\ flush'.phase = "users"
        /\ flush'.cap.up = flush.cap.up /\ flush'.cap.down = flush.cap.down
        /\ flush'.cap.reqs = v /\ flush'.added = flush.added
        /\ UNCHANGED usage /\ UNCHANGED purged /\ flush.pc = "again"
    BY <1>12, <2>1 DEF RereadRequests, Typing, TypeOK, FlushShape, Flushes, Counters
  <2>3. flush.acct \in Lasting => v \in 0..usage[flush.acct].reqs
    BY <1>1, <1>3, <2>2 DEF PendingNeverNegative
  <2>4. faults' = 0 => v = usage[flush.acct].reqs
    BY <1>0, <2>1 DEF Get, Fault
  <2>5. PendingNeverNegative'
    BY <2>2 DEF PendingNeverNegative
  <2> QED BY <1>1, <1>2, <1>3, <2>2, <2>3, <2>4, <2>5 DEF CapturedCovered
<1>13. ASSUME flush.pc = "decr", Subtract(flush.acct), flush'.pc \in {"idle", "pick"},
              UNCHANGED purged
       PROVE  Pending'
  <2>1. usage' = [usage EXCEPT ![flush.acct] = Minus(@, flush.cap)]
    BY <1>13 DEF Subtract
  <2>2. flush.acct \in Lasting =>
          /\ usage'[flush.acct].up >= 0
          /\ usage'[flush.acct].down >= 0
          /\ usage'[flush.acct].reqs >= 0
    BY <1>1, <1>2, <1>3, <1>13, <2>1 DEF Minus, CapturedCovered, Typing, TypeOK
  <2>3. \A a \in Accounts \ {flush.acct} : usage'[a] = usage[a]
    BY <2>1 DEF Typing, TypeOK
  <2> QED BY <1>13, <2>2, <2>3 DEF PendingNeverNegative, CapturedCovered
<1>14. ASSUME NEW a \in Accounts, CleanupRuntime(a) PROVE Pending'
  <2>1. a \in purged /\ UNCHANGED <<flush, purged, faults>>
        /\ \A b \in Accounts \ {a} : usage'[b] = usage[b]
    BY <1>14 DEF RowsKnown, CleanupRuntime, Typing, TypeOK
  <2> QED BY <1>3, <2>1 DEF CapturedCovered, PendingNeverNegative
<1>15. CASE RequestStep
  BY <1>4, <1>6, <1>15 DEF RequestStep, ReadRow, Reject, ReadPendingUpload,
                           ReadPendingDownload, Abandon
<1>16. CASE FlushStep
  <2>1. ASSUME flush' = Idle PROVE flush'.pc = "idle"
    BY <2>1 DEF Idle
  <2>2. CASE FlushUsage \/ FlushNodeUsage
    BY <1>5, <2>2 DEF FlushUsage, FlushNodeUsage, Idle
  <2>3. CASE FlushDone \/ RoundFails \/ DecrFails
    BY <1>5, <2>1, <2>3 DEF FlushDone, RoundFails, DecrFails
  <2>4. CASE DecrUsage
    BY <1>13, <2>4 DEF DecrUsage, Typing, TypeOK, Flushes
  <2>5. CASE DecrReplyLost
    BY <1>13, <2>1, <2>5 DEF DecrReplyLost
  <2> QED BY <1>7, <1>8, <1>9, <1>10, <1>11, <1>12, <1>16, <2>2, <2>3, <2>4, <2>5 DEF FlushStep
<1>17. CASE AdminStep
  BY <1>4, <1>14, <1>17 DEF AdminStep, CreateRow, DeleteRow, CleanupFails, RenameUser,
                            CopyRow, SaveRow
<1>18. CASE Restart
  BY <1>5, <1>18 DEF Restart, Idle
<1>19. CASE UNCHANGED vars
  BY <1>4, <1>19 DEF vars
<1> QED BY <1>15, <1>16, <1>17, <1>18, <1>19 DEF Next

-----------------------------------------------------------------------------
(* What the steps do to the balance of an account.                         *)

SameBalance(a) ==
    /\ Charged(a)' = Charged(a)
    /\ Bytes(recorded[a])' = Bytes(recorded[a])
    /\ twice'[a].bytes = twice[a].bytes

(* What was in flight is charged once more.                                *)
Repeated(a) ==
    /\ Charged(a)' = Charged(a) + InFlight(a)
    /\ Bytes(recorded[a])' = Bytes(recorded[a])
    /\ twice'[a].bytes = twice[a].bytes + InFlight(a)

LEMMA AmountsTyped ==
  ASSUME Typing, NEW a \in Accounts
  PROVE  /\ usedBytes[a] \in Int /\ totalRequests[a] \in Int
         /\ usage[a].up \in Int /\ usage[a].down \in Int /\ usage[a].reqs \in Int
         /\ recorded[a].up \in Int /\ recorded[a].down \in Int /\ recorded[a].reqs \in Int
         /\ Bytes(usage[a]) \in Int /\ Bytes(recorded[a]) \in Int
         /\ twice[a].bytes \in Int /\ twice[a].reqs \in Int
         /\ flush.cap.up \in Int /\ flush.cap.down \in Int /\ flush.cap.reqs \in Int
         /\ Bytes(flush.cap) \in Int /\ flush.added \in Int
         /\ InFlight(a) \in Int /\ InFlightRequests(a) \in Int
<1>1. flush.cap \in Counters /\ flush.added \in Int
  BY DEF Typing, TypeOK, Flushes
<1>2. flush.cap.up \in Int /\ flush.cap.down \in Int /\ flush.cap.reqs \in Int
      /\ Bytes(flush.cap) \in Int
  BY <1>1 DEF Counters, Bytes
<1>3. usedBytes[a] \in Int /\ totalRequests[a] \in Int
  BY DEF Typing, TypeOK
<1> QED BY <1>1, <1>2, <1>3, CountersTyped DEF Typing, InFlight, InFlightRequests

(* A round of the flush moves amounts from Redis to the rows and leaves    *)
(* every balance as it was, whichever requests record in between.          *)
LEMMA FlushBalance ==
  ASSUME Typing, RowsKnown, NEW a \in Lasting, FlushStep, ~DecrFails
  PROVE  SameBalance(a)
<1> USE DEF SameBalance, Charged, database, handlers, redis, history
<1>0. a \in Accounts
  BY DEF Lasting
<1>1. CASE FlushUsage \/ FlushNodeUsage \/ FlushDone \/ RoundFails
  <2>1. flush.pc \notin {"again", "decr"} /\ flush'.pc \notin {"again", "decr"}
    <3>1. CASE FlushUsage
      BY <3>1 DEF FlushUsage, Idle
    <3>2. CASE FlushNodeUsage
      BY <3>2 DEF FlushNodeUsage, Idle
    <3>3. CASE FlushDone \/ RoundFails
      BY <3>3 DEF FlushDone, RoundFails, Idle
    <3> QED BY <1>1, <3>1, <3>2, <3>3
  <2>2. UNCHANGED <<usedBytes, usage, recorded, twice>>
    BY <1>1 DEF FlushUsage, FlushNodeUsage, FlushDone, RoundFails
  <2> QED BY <2>1, <2>2 DEF InFlight
<1>2. ASSUME NEW b \in Accounts, NextAccount(b) PROVE SameBalance(a)
  BY <1>2 DEF NextAccount, InFlight
<1>3. CASE ReadUpload \/ ReadDownload \/ ReadRequests
  <2>1. flush.pc \notin {"again", "decr"} /\ flush'.pc \notin {"again", "decr"}
    BY <1>3 DEF ReadUpload, ReadDownload, ReadRequests, Typing, TypeOK, Flushes
  <2> QED BY <1>3, <2>1 DEF ReadUpload, ReadDownload, ReadRequests, InFlight
<1>4. CASE UpdateRow
  <2>1. /\ flush.pc = "update" /\ flush'.pc \in {"again", "decr"}
        /\ flush'.acct = flush.acct /\ flush'.cap = flush.cap
    BY <1>4 DEF UpdateRow, Typing, TypeOK, Flushes
  <2>2. InFlight(a) = 0 /\ InFlight(a)' = IF flush.acct = a THEN Bytes(flush.cap) ELSE 0
    BY <2>1 DEF InFlight, Bytes
  <2>3. flush.acct = a => a \in rows
    BY <2>1 DEF RowsKnown, Reading
  <2>4. usedBytes'[a] = usedBytes[a] + InFlight(a)'
    <3>1. usedBytes' = IF flush.acct \in rows
                         THEN [usedBytes EXCEPT ![flush.acct] = @ + Bytes(flush.cap)]
                         ELSE usedBytes
      BY <1>4 DEF UpdateRow
    <3>2. usedBytes \in [Accounts -> Int] /\ usedBytes[a] \in Int
      BY <1>0 DEF Typing, TypeOK
    <3>3. CASE flush.acct = a
      BY <1>0, <2>2, <2>3, <3>1, <3>2, <3>3
    <3>4. CASE flush.acct # a
      <4>1. usedBytes'[a] = usedBytes[a]
        BY <1>0, <3>1, <3>2, <3>4
      <4> QED BY <2>2, <3>2, <3>4, <4>1
    <3> QED BY <3>3, <3>4
  <2>5. UNCHANGED <<usage, recorded, twice>>
    BY <1>4 DEF UpdateRow
  <2> QED BY <1>0, <2>2, <2>4, <2>5, AmountsTyped
<1>5. CASE RereadRequests
  <2>1. PICK v \in {0, usage[flush.acct].reqs} : flush' = [flush EXCEPT !.pc = "decr", !.cap.reqs = v]
    BY <1>5 DEF RereadRequests
  <2>2. /\ flush.pc = "again" /\ flush'.pc = "decr" /\ flush'.acct = flush.acct
        /\ Bytes(flush'.cap) = Bytes(flush.cap)
    BY <1>5, <2>1 DEF RereadRequests, Typing, TypeOK, Flushes, Counters, Bytes
  <2>3. InFlight(a)' = InFlight(a)
    BY <2>2 DEF InFlight, Bytes
  <2>4. UNCHANGED <<usedBytes, usage, recorded, twice>>
    BY <1>5 DEF RereadRequests
  <2> QED BY <2>3, <2>4
<1>6. ASSUME flush.pc = "decr", Subtract(flush.acct), flush'.pc \in {"idle", "pick"},
             UNCHANGED <<usedBytes, recorded>>
      PROVE  SameBalance(a)
  <2>1. InFlight(a)' = 0 /\ InFlight(a) = IF flush.acct = a THEN Bytes(flush.cap) ELSE 0
    BY <1>6 DEF InFlight
  <2>2. usage' = [usage EXCEPT ![flush.acct] = Minus(@, flush.cap)]
    BY <1>6 DEF Subtract
  <2>3. Bytes(usage'[a]) = Bytes(usage[a]) - InFlight(a)
    <3>1. CASE flush.acct = a
      <4>1. usage'[a] = Minus(usage[a], flush.cap)
        BY <1>0, <2>2, <3>1 DEF Typing, TypeOK
      <4> QED BY <1>0, <2>1, <3>1, <4>1, AmountsTyped DEF Minus, Bytes
    <3>2. CASE flush.acct # a
      <4>1. usage'[a] = usage[a]
        BY <1>0, <2>2, <3>2 DEF Typing, TypeOK
      <4> QED BY <1>0, <2>1, <3>2, <4>1, AmountsTyped
    <3> QED BY <3>1, <3>2
  <2>4. twice'[a].bytes = twice[a].bytes
    BY <1>0, <1>6, AmountsTyped DEF Subtract, Repeat, Typing, TypeOK
  <2> QED BY <1>0, <1>6, <2>1, <2>3, <2>4, AmountsTyped
<1>7. CASE DecrUsage
  BY <1>6, <1>7 DEF DecrUsage, Typing, TypeOK, Flushes
<1>8. CASE DecrReplyLost
  BY <1>6, <1>8 DEF DecrReplyLost, Idle
<1> QED BY <1>1, <1>2, <1>3, <1>4, <1>5, <1>7, <1>8 DEF FlushStep

(* A round cut off between its UPDATE and its EXEC.                        *)
LEMMA DecrFailsBalance ==
  ASSUME Typing, NEW a \in Accounts, DecrFails
  PROVE  Repeated(a)
<1>1. /\ InFlight(a)' = 0
      /\ InFlight(a) = IF flush.acct = a THEN Bytes(flush.cap) ELSE 0
  BY DEF DecrFails, InFlight, Idle
<1>2. UNCHANGED <<usedBytes, usage, recorded>>
  BY DEF DecrFails, database, handlers, redis
<1>3. twice'[a].bytes = twice[a].bytes + InFlight(a)
  <2>1. twice' = [twice EXCEPT ![flush.acct] =
                    [bytes |-> @.bytes + Bytes(flush.cap), reqs |-> @.reqs + flush.added]]
    BY DEF DecrFails, Repeat
  <2> QED BY <1>1, <2>1, AmountsTyped DEF Typing, TypeOK
<1> QED BY <1>1, <1>2, <1>3, AmountsTyped DEF Repeated, Charged

LEMMA RestartBalance ==
  ASSUME Typing, NEW a \in Accounts, Restart
  PROVE  Repeated(a)
<1>1. InFlight(a)' = 0
  BY DEF Restart, InFlight, Idle
<1>2. UNCHANGED <<usedBytes, usage, recorded>>
  BY DEF Restart, database, handlers, redis
<1>3. twice'[a].bytes = twice[a].bytes + InFlight(a)
  BY DEF Restart
<1> QED BY <1>1, <1>2, <1>3, AmountsTyped DEF Repeated, Charged

(* Administrators touch the balance only of the accounts they purge.       *)
LEMMA AdminBalance ==
  ASSUME Typing, RowsKnown, NEW a \in Accounts \ purged', AdminStep
  PROVE  SameBalance(a)
<1>1. UNCHANGED <<flush, recorded, twice>>
  BY DEF AdminStep, CreateRow, DeleteRow, CleanupRuntime, CleanupFails, RenameUser, CopyRow,
         SaveRow, history
<1>2. usedBytes'[a] = usedBytes[a]
  <2>1. ASSUME NEW c \in copies, SaveRow(c) PROVE usedBytes'[a] = usedBytes[a]
    BY <2>1 DEF SaveRow, Unchanged, Typing, TypeOK
  <2> QED BY <2>1 DEF AdminStep, CreateRow, DeleteRow, CleanupRuntime, CleanupFails,
         RenameUser, CopyRow, database, history, Typing, TypeOK
<1>3. usage'[a] = usage[a]
  BY DEF AdminStep, CreateRow, DeleteRow, CleanupRuntime, CleanupFails, RenameUser, CopyRow,
         SaveRow, redis, history, RowsKnown, Typing, TypeOK
<1> QED BY <1>1, <1>2, <1>3 DEF SameBalance, Charged, InFlight

(* Recording charges the user and the node of the exchange.                *)
LEMMA RecordBalance ==
  ASSUME Typing, NEW r \in Requests, NEW n \in Nodes, NEW load \in Loads,
         RecordTraffic(r, n, load), NEW a \in Accounts
  PROVE  LET amount == IF a \in {req[r].user, n} THEN load.up + load.down ELSE 0 IN
         /\ Charged(a)' = Charged(a) + amount
         /\ Bytes(recorded[a])' = Bytes(recorded[a]) + amount
         /\ twice'[a].bytes = twice[a].bytes
<1>1. load.up \in Nat /\ load.down \in Nat
  BY LoadsAssumption
<1>2. UNCHANGED <<usedBytes, flush, twice>>
  BY DEF RecordTraffic, database
<1>3. InFlight(a)' = InFlight(a)
  BY <1>2 DEF InFlight
<1>4. CASE a \in {req[r].user, n}
  <2>1. /\ usage'[a] = Add(usage[a], [up |-> load.up, down |-> load.down, reqs |-> 1])
        /\ recorded'[a] = Add(recorded[a], [up |-> load.up, down |-> load.down, reqs |-> 1])
    BY <1>4 DEF RecordTraffic
  <2>2. /\ Bytes(usage'[a]) = Bytes(usage[a]) + (load.up + load.down)
        /\ Bytes(recorded'[a]) = Bytes(recorded[a]) + (load.up + load.down)
    BY <1>1, <2>1, AmountsTyped DEF Add, Bytes
  <2> QED BY <1>1, <1>2, <1>3, <1>4, <2>2, AmountsTyped DEF Charged
<1>5. CASE a \notin {req[r].user, n}
  <2>1. usage'[a] = usage[a] /\ recorded'[a] = recorded[a]
    BY <1>5 DEF RecordTraffic
  <2> QED BY <1>2, <1>3, <1>5, <2>1, AmountsTyped DEF Charged
<1> QED BY <1>4, <1>5

LEMMA QuietRequestBalance ==
  ASSUME Typing, NEW r \in Requests, NEW a \in Accounts,
         \/ \E u \in Users : ReadRow(r, u)
         \/ Reject(r)
         \/ ReadPendingUpload(r)
         \/ ReadPendingDownload(r)
         \/ Abandon(r)
  PROVE  SameBalance(a)
<1>1. UNCHANGED <<usedBytes, usage, flush, recorded, twice>>
  BY DEF ReadRow, Reject, ReadPendingUpload, ReadPendingDownload, Abandon, database, handlers, redis, history
<1> QED BY <1>1 DEF SameBalance, Charged, InFlight

LEMMA RequestsLeaveRows ==
  ASSUME RequestStep
  PROVE  UNCHANGED <<usedBytes, totalRequests, flush>>
<1> USE DEF database
<1>1. PICK r \in Requests :
        \/ \E u \in Users : ReadRow(r, u)
        \/ Reject(r) \/ ReadPendingUpload(r) \/ ReadPendingDownload(r) \/ Abandon(r)
        \/ \E n \in Nodes, load \in Loads : RecordTraffic(r, n, load)
  BY DEF RequestStep
<1>2. CASE \E u \in Users : ReadRow(r, u)
  BY <1>2 DEF ReadRow
<1>3. CASE Reject(r) \/ ReadPendingUpload(r) \/ ReadPendingDownload(r) \/ Abandon(r)
  BY <1>3 DEF Reject, ReadPendingUpload, ReadPendingDownload, Abandon
<1>4. CASE \E n \in Nodes, load \in Loads : RecordTraffic(r, n, load)
  BY <1>4 DEF RecordTraffic
<1> QED BY <1>1, <1>2, <1>3, <1>4

(* The three things a step can do to the balance of a lasting account.     *)
LEMMA StepBalance ==
  ASSUME Typing, RowsKnown, [Next]_vars, NEW a \in Accounts \ purged'
  PROVE  \/ SameBalance(a)
         \/ Repeated(a)
         \/ \E r \in Requests, n \in Nodes, load \in Loads : RecordTraffic(r, n, load)
<1>0. a \in Accounts /\ a \in Lasting
  BY PurgedGrows DEF Lasting
<1>1. CASE RequestStep
  BY <1>0, <1>1, QuietRequestBalance DEF RequestStep
<1>2. CASE FlushStep
  BY <1>0, <1>2, FlushBalance, DecrFailsBalance
<1>3. CASE AdminStep
  BY <1>3, AdminBalance
<1>4. CASE Restart
  BY <1>0, <1>4, RestartBalance
<1>5. CASE UNCHANGED vars
  BY <1>5 DEF vars, SameBalance, Charged, InFlight
<1> QED BY <1>1, <1>2, <1>3, <1>4, <1>5 DEF Next

LEMMA BytesStep ==
  ASSUME Typing, RowsKnown, BytesConserved, [Next]_vars
  PROVE  BytesConserved'
<1> SUFFICES ASSUME NEW a \in Accounts \ purged'
             PROVE  Charged(a)' = Bytes(recorded[a])' + twice'[a].bytes
  BY DEF BytesConserved, Lasting
<1>1. a \in Accounts /\ Charged(a) = Bytes(recorded[a]) + twice[a].bytes
  BY PurgedGrows DEF BytesConserved, Lasting
<1>2. CASE SameBalance(a)
  BY <1>1, <1>2 DEF SameBalance
<1>3. CASE Repeated(a)
  BY <1>1, <1>3, AmountsTyped DEF Repeated
<1>4. ASSUME NEW r \in Requests, NEW n \in Nodes, NEW load \in Loads, RecordTraffic(r, n, load)
      PROVE  Charged(a)' = Bytes(recorded[a])' + twice'[a].bytes
  <2>1. PICK amount \in Int :
          /\ Charged(a)' = Charged(a) + amount
          /\ Bytes(recorded[a])' = Bytes(recorded[a]) + amount
          /\ twice'[a].bytes = twice[a].bytes
    BY <1>1, <1>4, RecordBalance, LoadsAssumption
  <2> QED BY <1>1, <2>1, AmountsTyped
<1> QED BY <1>2, <1>3, <1>4, StepBalance

LEMMA InitKnown == Init => RowsKnown /\ Pending /\ BytesConserved
<1> SUFFICES ASSUME Init PROVE RowsKnown /\ Pending /\ BytesConserved
  OBVIOUS
<1>1. flush.pc = "idle" /\ flush.todo = {} /\ flush.acct = NoAccount
  BY DEF Init, Idle
<1>2. \A a \in Accounts : /\ usage[a].up = 0 /\ usage[a].down = 0 /\ usage[a].reqs = 0
                          /\ Bytes(recorded[a]) = 0 /\ Bytes(usage[a]) = 0
                          /\ twice[a].bytes = 0 /\ usedBytes[a] = 0 /\ InFlight(a) = 0
  BY <1>1 DEF Init, Zero, Bytes, InFlight
<1>3. RowsKnown
  BY <1>1 DEF Init, RowsKnown, Reading, Lasting, Admitting
<1> QED BY <1>1, <1>2, <1>3 DEF Pending, CapturedCovered, PendingNeverNegative, Reading,
                               BytesConserved, Charged, Lasting

(* No recorded byte is lost, and none is charged twice but for a round cut *)
(* off between its UPDATE and its EXEC.                                    *)
THEOREM UsageBytesConserved == Spec => []BytesConserved
<1> DEFINE Inv == Typing /\ RowsKnown /\ BytesConserved
<1>1. Init => Inv
  BY InitTyping, InitKnown
<1>2. Inv /\ [Next]_vars => Inv'
  BY NextTyping, RowsKnownStep, BytesStep
<1> QED BY <1>1, <1>2, PTL DEF Spec

(* The flush never takes out of Redis more than is there.                  *)
THEOREM UsagePendingNeverNegative == Spec => []PendingNeverNegative
<1> DEFINE Inv == Typing /\ RowsKnown /\ Pending
<1>1. Init => Inv
  BY InitTyping, InitKnown
<1>2. Inv /\ [Next]_vars => Inv'
  BY NextTyping, RowsKnownStep, PendingStep
<1>3. Inv => PendingNeverNegative
  BY DEF Pending
<1> QED BY <1>1, <1>2, <1>3, PTL DEF Spec

LEMMA OtherStepsLeaveRows ==
  ASSUME FlushStep, ~UpdateRow
  PROVE  UNCHANGED <<usedBytes, totalRequests>>
  BY DEF FlushStep, FlushUsage, FlushNodeUsage, FlushDone, NextAccount, ReadUpload,
     ReadDownload, ReadRequests, RereadRequests, DecrUsage, RoundFails, DecrFails,
     DecrReplyLost, database

LEMMA RowGrows ==
  ASSUME Typing, RowsKnown, Pending, Next, NEW a \in Accounts \ purged'
  PROVE  usedBytes'[a] >= usedBytes[a]
<1> USE DEF database
<1>1. a \in Lasting /\ usedBytes[a] \in Int /\ usedBytes \in [Accounts -> Int]
  BY PurgedGrows DEF Lasting, Typing, TypeOK
<1>2. CASE UpdateRow
  <2>1. flush.acct = a => Bytes(flush.cap) >= 0
    BY <1>1, <1>2, AmountsTyped DEF UpdateRow, Reading, Pending, CapturedCovered, Bytes
  <2>2. usedBytes' = IF flush.acct \in rows
                       THEN [usedBytes EXCEPT ![flush.acct] = @ + Bytes(flush.cap)]
                       ELSE usedBytes
    BY <1>2 DEF UpdateRow
  <2>3. Bytes(flush.cap) \in Int
    BY AmountsTyped
  <2> QED BY <1>1, <2>1, <2>2, <2>3
<1>3. CASE FlushStep /\ ~UpdateRow
  BY <1>1, <1>3, OtherStepsLeaveRows
<1>4. CASE RequestStep
  BY <1>1, <1>4, RequestsLeaveRows
<1>5. CASE AdminStep
  <2>1. CASE \E b \in Accounts : DeleteRow(b)
    BY <1>1, <2>1 DEF DeleteRow
  <2>2. CASE \E u, v \in Users : RenameUser(u, v)
    BY <1>1, <2>2 DEF RenameUser
  <2>3. ASSUME NEW c \in copies, SaveRow(c) PROVE usedBytes'[a] = usedBytes[a]
    BY <2>3 DEF SaveRow, Unchanged, Typing, TypeOK
  <2> QED BY <1>1, <1>5, <2>1, <2>2, <2>3 DEF AdminStep, CreateRow, CleanupRuntime,
         CleanupFails, CopyRow
<1>6. CASE Restart
  BY <1>1, <1>6 DEF Restart
<1> QED BY <1>2, <1>3, <1>4, <1>5, <1>6 DEF Next

(* The row of a lasting account never goes down.                           *)
THEOREM UsageUsedBytesGrow == Spec => UsedBytesGrow
<1> DEFINE Inv == Typing /\ RowsKnown /\ Pending
<1>1. Init => Inv
  BY InitTyping, InitKnown
<1>2. Inv /\ [Next]_vars => Inv'
  BY NextTyping, RowsKnownStep, PendingStep
<1>3. Inv /\ [Next]_vars => [\A a \in Accounts \ purged' : usedBytes'[a] >= usedBytes[a]]_vars
  BY RowGrows
<1> QED BY <1>1, <1>2, <1>3, PTL DEF Spec, UsedBytesGrow

-----------------------------------------------------------------------------
(* Accounting implements the ledger.                                       *)

LEMMA FlushEndsInFlight ==
  ASSUME Typing, FlushStep, ~UpdateRow, ~RereadRequests
  PROVE  flush'.pc \notin {"again", "decr"}
<1>1. CASE FlushUsage
  BY <1>1 DEF FlushUsage, Idle
<1>2. CASE FlushNodeUsage
  BY <1>2 DEF FlushNodeUsage, Idle
<1>3. CASE FlushDone \/ RoundFails \/ DecrFails \/ DecrReplyLost
  BY <1>3 DEF FlushDone, RoundFails, DecrFails, DecrReplyLost, Idle
<1>4. CASE \E a \in Accounts : NextAccount(a)
  BY <1>4 DEF NextAccount
<1>5. CASE ReadUpload \/ ReadDownload \/ ReadRequests \/ DecrUsage
  BY <1>5 DEF ReadUpload, ReadDownload, ReadRequests, DecrUsage, Typing, TypeOK, Flushes
<1> QED BY <1>1, <1>2, <1>3, <1>4, <1>5 DEF FlushStep

(* An amount in flight is in the row and in Redis.                         *)
LEMMA RowCoversStep ==
  ASSUME Typing, RowsKnown, Pending, RowCoversInFlight, [Next]_vars
  PROVE  RowCoversInFlight'
<1> SUFFICES ASSUME NEW a \in Accounts \ purged'
             PROVE  usedBytes'[a] >= InFlight(a)'
  BY DEF RowCoversInFlight, Lasting
<1>0. /\ a \in Lasting /\ a \in Accounts /\ usedBytes[a] >= InFlight(a)
      /\ usedBytes[a] \in Int /\ InFlight(a) \in Int
  BY PurgedGrows, AmountsTyped DEF RowCoversInFlight, Lasting
<1>1. usedBytes'[a] \in Int /\ InFlight(a)' \in Int
  <2>1. Typing'
    BY NextTyping
  <2>2. usedBytes'[a] \in Int
    BY <1>0, <2>1 DEF Typing, TypeOK
  <2>3. flush'.cap \in Counters
    BY <2>1 DEF Typing, TypeOK, Flushes
  <2> QED BY <2>2, <2>3 DEF InFlight, Counters, Bytes
<1>2. InFlight(a) >= 0
  BY <1>0, AmountsTyped DEF InFlight, Pending, CapturedCovered, Reading, Bytes
<1>3. CASE UNCHANGED vars
  BY <1>0, <1>3 DEF vars, InFlight
<1>4. CASE Next /\ InFlight(a)' \in {0, InFlight(a)}
  BY <1>0, <1>1, <1>2, <1>4, RowGrows
<1>5. CASE UpdateRow
  <2>1. flush'.acct = flush.acct /\ flush'.cap = flush.cap /\ flush.pc = "update"
    BY <1>5 DEF UpdateRow, Typing, TypeOK, Flushes
  <2>2. flush.acct = a => a \in rows
    BY <1>0, <2>1 DEF RowsKnown, Reading
  <2>3. CASE flush.acct = a
    <3>1. usedBytes'[a] = usedBytes[a] + Bytes(flush.cap)
      BY <1>0, <1>5, <2>2, <2>3 DEF UpdateRow, Typing, TypeOK
    <3>2. InFlight(a)' \in {0, Bytes(flush.cap)} /\ Bytes(flush.cap) \in Int
      BY <1>0, <2>1, AmountsTyped DEF InFlight, Bytes
    <3>3. Bytes(flush.cap) >= 0
      BY <1>0, <2>1, <2>3, AmountsTyped DEF Pending, CapturedCovered, Reading, Bytes
    <3> QED BY <1>0, <1>2, <3>1, <3>2, <3>3
  <2>4. CASE flush.acct # a
    <3>1. InFlight(a)' = 0
      BY <2>1, <2>4 DEF InFlight
    <3> QED BY <1>4, <1>5, <3>1 DEF Next, FlushStep
  <2> QED BY <2>3, <2>4
<1>6. CASE RequestStep \/ AdminStep
  <2>1. UNCHANGED flush
    BY <1>6, RequestsLeaveRows DEF AdminStep, CreateRow, DeleteRow, CleanupRuntime,
       CleanupFails, RenameUser, CopyRow, SaveRow
  <2>2. InFlight(a)' = InFlight(a)
    BY <2>1 DEF InFlight
  <2> QED BY <1>4, <1>6, <2>2 DEF Next
<1>7. CASE Restart
  <2>1. InFlight(a)' = 0
    BY <1>7 DEF Restart, InFlight, Idle
  <2> QED BY <1>4, <1>7, <2>1 DEF Next
<1>8. CASE RereadRequests
  <2>1. PICK v \in {0, usage[flush.acct].reqs} : flush' = [flush EXCEPT !.pc = "decr", !.cap.reqs = v]
    BY <1>8 DEF RereadRequests
  <2>2. /\ flush.pc = "again" /\ flush'.pc = "decr" /\ flush'.acct = flush.acct
        /\ Bytes(flush'.cap) = Bytes(flush.cap)
    BY <1>8, <2>1 DEF RereadRequests, Typing, TypeOK, Flushes, Counters, Bytes
  <2>3. InFlight(a)' = InFlight(a)
    BY <2>2 DEF InFlight, Bytes
  <2> QED BY <1>4, <1>8, <2>3 DEF Next, FlushStep
<1>9. CASE FlushStep /\ ~UpdateRow /\ ~RereadRequests
  <2>1. flush'.pc \notin {"again", "decr"}
    BY <1>9, FlushEndsInFlight
  <2>2. InFlight(a)' = 0
    BY <2>1 DEF InFlight
  <2> QED BY <1>4, <1>9, <2>2 DEF Next
<1> QED BY <1>3, <1>5, <1>6, <1>7, <1>8, <1>9 DEF Next

LEMMA FaultsByOne ==
  ASSUME Typing, [Next]_vars
  PROVE  faults' \in {faults, faults + 1}
<1> USE DEF Get, Fault
<1>1. ASSUME RequestStep PROVE faults' \in {faults, faults + 1}
  <2>1. PICK r \in Requests :
          \/ \E u \in Users : ReadRow(r, u)
          \/ Reject(r) \/ ReadPendingUpload(r) \/ ReadPendingDownload(r) \/ Abandon(r)
          \/ \E n \in Nodes, load \in Loads : RecordTraffic(r, n, load)
    BY <1>1 DEF RequestStep
  <2>2. CASE \E u \in Users : ReadRow(r, u)
    BY <2>2 DEF ReadRow
  <2>3. CASE Reject(r) \/ Abandon(r)
    BY <2>3 DEF Reject, Abandon
  <2>4. CASE ReadPendingUpload(r)
    BY <2>4 DEF ReadPendingUpload
  <2>5. CASE ReadPendingDownload(r)
    BY <2>5 DEF ReadPendingDownload
  <2>6. CASE \E n \in Nodes, load \in Loads : RecordTraffic(r, n, load)
    BY <2>6 DEF RecordTraffic
  <2> QED BY <2>1, <2>2, <2>3, <2>4, <2>5, <2>6
<1>2. CASE FlushStep
  BY <1>2 DEF FlushStep, FlushUsage, FlushNodeUsage, FlushDone, NextAccount, ReadUpload,
     ReadDownload, ReadRequests, UpdateRow, RereadRequests, DecrUsage, RoundFails,
     DecrFails, DecrReplyLost
<1>3. CASE AdminStep
  BY <1>3 DEF AdminStep, CreateRow, DeleteRow, CleanupRuntime, CleanupFails, RenameUser,
     CopyRow, SaveRow
<1>4. CASE Restart
  BY <1>4 DEF Restart
<1>5. CASE UNCHANGED vars
  BY <1>5 DEF vars
<1> QED BY <1>1, <1>2, <1>3, <1>4, <1>5 DEF Next

LEMMA OnlyAdminPurges ==
  ASSUME RequestStep \/ FlushStep \/ Restart
  PROVE  purged' = purged
<1> USE DEF history
<1>1. ASSUME RequestStep PROVE purged' = purged
  <2>1. PICK r \in Requests :
          \/ \E u \in Users : ReadRow(r, u)
          \/ Reject(r) \/ ReadPendingUpload(r) \/ ReadPendingDownload(r) \/ Abandon(r)
          \/ \E n \in Nodes, load \in Loads : RecordTraffic(r, n, load)
    BY <1>1 DEF RequestStep
  <2>2. CASE \E u \in Users : ReadRow(r, u)
    BY <2>2 DEF ReadRow
  <2>3. CASE Reject(r) \/ ReadPendingUpload(r) \/ ReadPendingDownload(r) \/ Abandon(r)
    BY <2>3 DEF Reject, ReadPendingUpload, ReadPendingDownload, Abandon
  <2>4. CASE \E n \in Nodes, load \in Loads : RecordTraffic(r, n, load)
    BY <2>4 DEF RecordTraffic
  <2> QED BY <2>1, <2>2, <2>3, <2>4
<1>2. CASE FlushStep
  BY <1>2 DEF FlushStep, FlushUsage, FlushNodeUsage, FlushDone, NextAccount, ReadUpload,
     ReadDownload, ReadRequests, UpdateRow, RereadRequests, DecrUsage, RoundFails,
     DecrFails, DecrReplyLost
<1>3. CASE Restart
  BY <1>3 DEF Restart
<1> QED BY <1>1, <1>2, <1>3

Balance == [a \in Accounts |-> IF a \in purged THEN 0 ELSE Charged(a)]

LEMMA LedgerInit == Init => Books!Init
<1> SUFFICES ASSUME Init PROVE Books!Init
  OBVIOUS
<1>1. \A a \in Accounts : Charged(a) = 0
  BY DEF Init, Idle, Zero, Bytes, Charged, InFlight
<1> QED BY <1>1 DEF Init, Books!Init

(* A step that purges nobody and keeps the balance of every lasting        *)
(* account is a stutter of the ledger, or a failure that charges nothing.  *)
LEMMA LedgerStutter ==
  ASSUME Typing, [Next]_vars, purged' = purged, \A a \in Lasting : SameBalance(a)
  PROVE  [Books!Next]_<<Balance, purged, faults>>
<1>1. Balance' = Balance
  BY DEF Balance, Lasting, SameBalance
<1> QED BY <1>1, FaultsByOne DEF Books!Next, Books!Fail, Balance

LEMMA LedgerRepeat ==
  ASSUME Typing, RowsKnown, Pending, RowCoversInFlight, DecrFails \/ Restart
  PROVE  [Books!Next]_<<Balance, purged, faults>>
<1>1. purged' = purged /\ faults' = faults + 1
  BY OnlyAdminPurges DEF DecrFails, Restart, Fault, FlushStep
<1>2. \A a \in Accounts : Repeated(a)
  BY DecrFailsBalance, RestartBalance
<1>3. \A a \in Accounts : a # flush.acct => InFlight(a) = 0
  BY DEF InFlight
<1>4. CASE flush.acct \in Accounts \ purged
  <2> DEFINE b == flush.acct
  <2>1. InFlight(b) \in 0..Balance[b]
    <3>1. InFlight(b) \in Int /\ Bytes(usage[b]) \in Int /\ usedBytes[b] \in Int
      BY <1>4, AmountsTyped
    <3>2. usedBytes[b] >= InFlight(b)
      BY <1>4 DEF RowCoversInFlight, Lasting
    <3>3. Bytes(usage[b]) >= InFlight(b) /\ InFlight(b) >= 0
      BY <1>4, AmountsTyped
      DEF Pending, CapturedCovered, PendingNeverNegative, Reading, Lasting, InFlight, Bytes
    <3>4. Balance[b] = usedBytes[b] + Bytes(usage[b]) - InFlight(b)
      BY <1>4 DEF Balance, Charged
    <3> QED BY <3>1, <3>2, <3>3, <3>4
  <2>2. Balance' = [Balance EXCEPT ![b] = @ + InFlight(b)]
    <3>1. \A a \in Accounts : Charged(a) \in Int
      BY AmountsTyped DEF Charged
    <3>2. ASSUME NEW a \in Accounts
          PROVE  Balance'[a] = IF a = b THEN Balance[b] + InFlight(b) ELSE Balance[a]
      BY <1>1, <1>2, <1>3, <1>4, <3>1 DEF Balance, Repeated
    <3>3. Balance' = [a \in Accounts |-> Balance'[a]]
      BY DEF Balance
    <3> QED BY <3>2, <3>3, <1>4 DEF Balance
  <2> QED BY <1>1, <1>4, <2>1, <2>2 DEF Books!Next, Books!Fail, Books!ChargeAgain, Balance
<1>5. CASE flush.acct \notin Accounts \ purged
  <2>1. \A a \in Accounts \ purged : Charged(a)' = Charged(a)
    BY <1>2, <1>3, <1>5, AmountsTyped DEF Repeated, Charged
  <2>2. Balance' = Balance
    BY <1>1, <2>1 DEF Balance
  <2> QED BY <1>1, <2>2 DEF Books!Next, Books!Fail, Balance
<1> QED BY <1>4, <1>5

LEMMA LedgerRecord ==
  ASSUME Typing, NEW r \in Requests, NEW n \in Nodes, NEW load \in Loads,
         RecordTraffic(r, n, load)
  PROVE  Books!Next
<1> DEFINE S == {req[r].user, n}
           amount == load.up + load.down
<1>1. S \subseteq Accounts
  BY DEF RecordTraffic, Typing, RequestShape, Admitting
<1>2. purged' = purged /\ faults' = faults
  BY DEF RecordTraffic
<1>3. ASSUME NEW a \in Accounts
      PROVE  Charged(a)' = IF a \in S THEN Charged(a) + amount ELSE Charged(a)
  <2>1. Charged(a) \in Int
    BY AmountsTyped DEF Charged
  <2> QED BY <2>1, RecordBalance
<1>4. Balance' = [a \in Accounts |-> IF a \in S \ purged THEN Balance[a] + amount ELSE Balance[a]]
  BY <1>2, <1>3 DEF Balance
<1>5. amount \in {l.up + l.down : l \in Loads}
  OBVIOUS
<1>6. Books!Charge(S, amount)
  BY <1>2, <1>4 DEF Books!Charge, Balance
<1> QED BY <1>1, <1>5, <1>6 DEF Books!Next

LEMMA LedgerAdmin ==
  ASSUME Typing, RowsKnown, AdminStep
  PROVE  [Books!Next]_<<Balance, purged, faults>>
<1>1. purged \subseteq purged' /\ purged' \subseteq Accounts /\ Next
  <2>1. Next /\ Typing'
    BY NextTyping DEF Next
  <2> QED BY <2>1, PurgedGrows DEF Typing, TypeOK
<1>2. \A a \in Accounts \ purged' : Charged(a)' = Charged(a)
  BY AdminBalance DEF SameBalance
<1> PICK S \in SUBSET Accounts : S = purged' \ purged
  BY <1>1
<1>3. Balance' = [a \in Accounts |-> IF a \in S THEN 0 ELSE Balance[a]]
  BY <1>1, <1>2 DEF Balance
<1>4. purged' = purged \cup S
  BY <1>1
<1>5. CASE faults' = faults
  <2>1. Books!Close(S)
    BY <1>3, <1>4, <1>5 DEF Books!Close, Balance
  <2> QED BY <2>1 DEF Books!Next
<1>6. CASE faults' # faults
  <2>1. purged' = purged /\ faults' = faults + 1
    BY <1>6 DEF AdminStep, CreateRow, DeleteRow, CleanupRuntime, CleanupFails, RenameUser,
       CopyRow, SaveRow, Fault, history
  <2>2. Balance' = Balance
    BY <1>3, <2>1 DEF Balance
  <2> QED BY <2>1, <2>2 DEF Books!Next, Books!Fail, Balance
<1> QED BY <1>5, <1>6

LEMMA LedgerStep ==
  ASSUME Typing, RowsKnown, Pending, RowCoversInFlight, [Next]_vars
  PROVE  [Books!Next]_<<Balance, purged, faults>>
<1>1. CASE RequestStep
  <2>1. CASE \E r \in Requests, n \in Nodes, load \in Loads : RecordTraffic(r, n, load)
    BY <2>1, LedgerRecord
  <2>2. CASE ~\E r \in Requests, n \in Nodes, load \in Loads : RecordTraffic(r, n, load)
    <3>1. \A a \in Lasting : SameBalance(a)
      BY <1>1, <2>2, QuietRequestBalance DEF RequestStep, Lasting
    <3> QED BY <1>1, <3>1, OnlyAdminPurges, LedgerStutter
  <2> QED BY <2>1, <2>2
<1>2. CASE FlushStep /\ ~DecrFails
  <2>1. \A a \in Lasting : SameBalance(a)
    BY <1>2, FlushBalance
  <2> QED BY <1>2, <2>1, OnlyAdminPurges, LedgerStutter
<1>3. CASE DecrFails \/ Restart
  BY <1>3, LedgerRepeat
<1>4. CASE AdminStep
  BY <1>4, LedgerAdmin
<1>5. CASE UNCHANGED vars
  <2>1. purged' = purged /\ \A a \in Lasting : SameBalance(a)
    BY <1>5 DEF vars, SameBalance, Charged, InFlight
  <2> QED BY <2>1, LedgerStutter
<1> QED BY <1>1, <1>2, <1>3, <1>4, <1>5 DEF Next

(* Seen from outside, the three places where amounts are kept are one      *)
(* balance per account that only exchanges and failures change.            *)
THEOREM UsageImplementsLedger == Spec => LedgerSpec
<1> DEFINE Inv == Typing /\ RowsKnown /\ Pending /\ RowCoversInFlight
<1>1. Init => Inv
  <2>1. Init => RowCoversInFlight
    BY DEF Init, Idle, RowCoversInFlight, InFlight, Lasting
  <2> QED BY <2>1, InitTyping, InitKnown
<1>2. Inv /\ [Next]_vars => Inv'
  BY NextTyping, RowsKnownStep, PendingStep, RowCoversStep
<1>3. Inv /\ [Next]_vars => [Books!Next]_<<Balance, purged, faults>>
  BY LedgerStep
<1> QED BY <1>1, <1>2, <1>3, LedgerInit, PTL DEF Spec, LedgerSpec, Books!Spec, Balance

-----------------------------------------------------------------------------
(* The request counters.  Lag is the number of requests of an account that *)
(* the row and Redis together do not show.                                 *)

Lag(a) == recorded[a].reqs + twice[a].reqs - ChargedRequests(a)

LagKept(a) ==
    /\ Lag(a)' >= Lag(a)
    /\ a \in Nodes => Lag(a)' = Lag(a)

LEMMA LagTyped ==
  ASSUME Typing, NEW a \in Accounts
  PROVE  Lag(a) \in Int
  BY AmountsTyped DEF Lag, ChargedRequests

LEMMA LagsTyped == Typing => \A b \in Accounts : Lag(b) \in Int
  BY LagTyped

LEMMA SameLag ==
  ASSUME Typing, NEW a \in Accounts, Lag(a)' = Lag(a)
  PROVE  LagKept(a)
  BY LagTyped DEF LagKept

(* What the flush writes to a row is in flight until it is subtracted.     *)
LEMMA UpdateLag ==
  ASSUME Typing, RowsKnown, NEW a \in Lasting, UpdateRow
  PROVE  LagKept(a)
<1>0. a \in Accounts
  BY DEF Lasting
<1>1. /\ flush.pc = "update" /\ flush'.pc \in {"again", "decr"}
      /\ flush'.acct = flush.acct /\ flush'.added = flush.cap.reqs
  BY DEF UpdateRow, Typing, TypeOK, Flushes
<1>2. /\ InFlightRequests(a) = 0
      /\ InFlightRequests(a)' = IF flush.acct = a THEN flush.cap.reqs ELSE 0
  BY <1>1 DEF InFlightRequests
<1>3. UNCHANGED <<usage, recorded, twice>>
  BY DEF UpdateRow, redis, history
<1>4. totalRequests' = IF flush.acct \in rows
                         THEN [totalRequests EXCEPT ![flush.acct] = @ + flush.cap.reqs]
                         ELSE totalRequests
  BY DEF UpdateRow
<1>5. totalRequests \in [Accounts -> Int]
  BY DEF Typing, TypeOK
<1>6. CASE flush.acct = a
  <2>1. a \in rows
    BY <1>1, <1>6 DEF RowsKnown, Reading
  <2>2. totalRequests'[a] = totalRequests[a] + flush.cap.reqs
    BY <1>0, <1>4, <1>5, <1>6, <2>1
  <2>3. Lag(a)' = Lag(a)
    BY <1>0, <1>2, <1>3, <1>6, <2>2, AmountsTyped DEF Lag, ChargedRequests
  <2> QED BY <1>0, <2>3, SameLag
<1>7. CASE flush.acct # a
  <2>1. totalRequests'[a] = totalRequests[a]
    BY <1>0, <1>4, <1>5, <1>7
  <2>2. Lag(a)' = Lag(a)
    BY <1>2, <1>3, <1>7, <2>1 DEF Lag, ChargedRequests
  <2> QED BY <1>0, <2>2, SameLag
<1> QED BY <1>6, <1>7

(* The second reading of a user's counter may exceed what was added to the *)
(* row: the row falls behind by the difference.  For a node the two are    *)
(* one reading.                                                            *)
LEMMA SubtractLag ==
  ASSUME Typing, Pending, NEW a \in Lasting, flush.pc = "decr", Subtract(flush.acct),
         flush'.pc \in {"idle", "pick"}, UNCHANGED <<totalRequests, recorded>>
  PROVE  LagKept(a)
<1>0. a \in Accounts
  BY DEF Lasting
<1>1. /\ InFlightRequests(a)' = 0
      /\ InFlightRequests(a) = IF flush.acct = a THEN flush.added ELSE 0
  BY DEF InFlightRequests
<1>2. /\ usage' = [usage EXCEPT ![flush.acct] = Minus(@, flush.cap)]
      /\ twice' = [twice EXCEPT ![flush.acct] =
           [bytes |-> @.bytes + 0,
            reqs  |-> @.reqs + IF flush.added > flush.cap.reqs
                                 THEN flush.added - flush.cap.reqs ELSE 0]]
  BY DEF Subtract, Repeat
<1>3. CASE flush.acct = a
  <2>1. /\ usage'[a].reqs = usage[a].reqs - flush.cap.reqs
        /\ twice'[a].reqs = twice[a].reqs + IF flush.added > flush.cap.reqs
                                              THEN flush.added - flush.cap.reqs ELSE 0
    BY <1>0, <1>2, <1>3 DEF Minus, Typing, TypeOK
  <2>2. a \in Nodes => flush.added = flush.cap.reqs
    <3>1. a \in Nodes => flush.phase = "nodes"
      BY <1>3, AccountsAssumption DEF Typing, TypeOK, Flushes, FlushShape, Reading
    <3>2. flush.phase = "nodes" => flush.added = flush.cap.reqs
      BY <1>3 DEF Pending, CapturedCovered, Reading
    <3> QED BY <3>1, <3>2
  <2>3. /\ usage[a].reqs \in Int /\ twice[a].reqs \in Int /\ recorded[a].reqs \in Int
        /\ totalRequests[a] \in Int /\ flush.added \in Int /\ flush.cap.reqs \in Int
    BY <1>0, AmountsTyped
  <2>4. Lag(a) = recorded[a].reqs + twice[a].reqs - (totalRequests[a] + usage[a].reqs - flush.added)
    BY <1>1, <1>3 DEF Lag, ChargedRequests
  <2>5. Lag(a)' = recorded[a].reqs + twice'[a].reqs - (totalRequests[a] + usage'[a].reqs - 0)
    BY <1>1 DEF Lag, ChargedRequests
  <2> QED BY <2>1, <2>2, <2>3, <2>4, <2>5 DEF LagKept
<1>4. CASE flush.acct # a
  <2>1. usage'[a] = usage[a] /\ twice'[a] = twice[a]
    BY <1>0, <1>2, <1>4 DEF Typing, TypeOK
  <2>2. Lag(a)' = Lag(a)
    BY <1>1, <1>4, <2>1 DEF Lag, ChargedRequests
  <2> QED BY <1>0, <2>2, SameLag
<1> QED BY <1>3, <1>4

LEMMA FlushLag ==
  ASSUME Typing, RowsKnown, Pending, NEW a \in Lasting, FlushStep
  PROVE  LagKept(a)
<1> USE DEF database, handlers, redis, history
<1>0. a \in Accounts
  BY DEF Lasting
<1>1. ASSUME InFlightRequests(a)' = InFlightRequests(a),
             UNCHANGED <<totalRequests, usage, recorded, twice>>
      PROVE  LagKept(a)
  <2>1. Lag(a)' = Lag(a)
    BY <1>1 DEF Lag, ChargedRequests
  <2> QED BY <1>0, <2>1, SameLag
<1>2. ASSUME flush.pc \notin {"again", "decr"}, flush'.pc \notin {"again", "decr"}
      PROVE  InFlightRequests(a)' = InFlightRequests(a)
  BY <1>2 DEF InFlightRequests
<1>3. CASE UpdateRow
  BY <1>3, UpdateLag
<1>4. CASE RereadRequests
  <2>1. /\ flush.pc = "again" /\ flush'.pc = "decr" /\ flush'.acct = flush.acct
        /\ flush'.added = flush.added
    BY <1>4 DEF RereadRequests, Typing, TypeOK, Flushes
  <2>2. InFlightRequests(a)' = InFlightRequests(a)
    BY <2>1 DEF InFlightRequests
  <2> QED BY <1>1, <1>4, <2>2 DEF RereadRequests
<1>5. CASE DecrUsage
  <2>1. flush'.pc = "pick"
    BY <1>5 DEF DecrUsage, Typing, TypeOK, Flushes
  <2> QED BY <1>5, <2>1, SubtractLag DEF DecrUsage
<1>6. CASE DecrReplyLost
  <2>1. flush'.pc = "idle"
    BY <1>6 DEF DecrReplyLost, Idle
  <2> QED BY <1>6, <2>1, SubtractLag DEF DecrReplyLost
<1>7. CASE DecrFails
  <2>1. /\ InFlightRequests(a)' = 0
        /\ InFlightRequests(a) = IF flush.acct = a THEN flush.added ELSE 0
    BY <1>7 DEF DecrFails, InFlightRequests, Idle
  <2>2. twice' = [twice EXCEPT ![flush.acct] =
                    [bytes |-> @.bytes + Bytes(flush.cap), reqs |-> @.reqs + flush.added]]
    BY <1>7 DEF DecrFails, Repeat
  <2>3. twice'[a].reqs = twice[a].reqs + InFlightRequests(a)
    BY <1>0, <2>1, <2>2, AmountsTyped DEF Typing, TypeOK
  <2>4. UNCHANGED <<totalRequests, usage, recorded>>
    BY <1>7 DEF DecrFails
  <2>5. Lag(a)' = Lag(a)
    BY <1>0, <2>1, <2>3, <2>4, AmountsTyped DEF Lag, ChargedRequests
  <2> QED BY <1>0, <2>5, SameLag
<1>8. CASE FlushUsage \/ FlushNodeUsage \/ FlushDone \/ RoundFails
  <2>1. flush.pc \notin {"again", "decr"} /\ flush'.pc \notin {"again", "decr"}
    <3>1. CASE FlushUsage \/ FlushNodeUsage
      BY <3>1 DEF FlushUsage, FlushNodeUsage, Idle
    <3>2. CASE FlushDone \/ RoundFails
      BY <3>2 DEF FlushDone, RoundFails, Idle
    <3> QED BY <1>8, <3>1, <3>2
  <2> QED BY <1>1, <1>2, <1>8, <2>1 DEF FlushUsage, FlushNodeUsage, FlushDone, RoundFails
<1>9. CASE ReadUpload \/ ReadDownload \/ ReadRequests
  <2>1. flush.pc \notin {"again", "decr"} /\ flush'.pc \notin {"again", "decr"}
    BY <1>9 DEF ReadUpload, ReadDownload, ReadRequests, Typing, TypeOK, Flushes
  <2> QED BY <1>1, <1>2, <1>9, <2>1 DEF ReadUpload, ReadDownload, ReadRequests
<1>10. ASSUME NEW b \in Accounts, NextAccount(b) PROVE LagKept(a)
  <2>1. flush.pc \notin {"again", "decr"} /\ flush'.pc \notin {"again", "decr"}
    BY <1>10 DEF NextAccount
  <2> QED BY <1>1, <1>2, <1>10, <2>1 DEF NextAccount
<1> QED BY <1>3, <1>4, <1>5, <1>6, <1>7, <1>8, <1>9, <1>10 DEF FlushStep

LEMMA RecordLag ==
  ASSUME Typing, NEW a \in Accounts, NEW r \in Requests, NEW n \in Nodes, NEW load \in Loads,
         RecordTraffic(r, n, load)
  PROVE  LagKept(a)
<1>1. InFlightRequests(a)' = InFlightRequests(a) /\ UNCHANGED <<totalRequests, twice>>
  BY DEF RecordTraffic, InFlightRequests, database
<1>2. CASE a \in {req[r].user, n}
  <2>1. usage'[a].reqs = usage[a].reqs + 1 /\ recorded'[a].reqs = recorded[a].reqs + 1
    BY <1>2 DEF RecordTraffic, Add
  <2>2. PICK i \in Int, j \in Int, k \in Int, l \in Int, m \in Int :
          /\ i = recorded[a].reqs /\ j = twice[a].reqs /\ k = totalRequests[a]
          /\ l = usage[a].reqs /\ m = InFlightRequests(a)
    BY AmountsTyped
  <2>3. Lag(a) = i + j - (k + l - m)
    BY <2>2 DEF Lag, ChargedRequests
  <2>4. Lag(a)' = i + 1 + j - (k + (l + 1) - m)
    BY <1>1, <2>1, <2>2 DEF Lag, ChargedRequests
  <2>5. Lag(a)' = Lag(a)
    BY <2>2, <2>3, <2>4
  <2> QED BY <2>5, SameLag
<1>3. CASE a \notin {req[r].user, n}
  <2>1. usage'[a] = usage[a] /\ recorded'[a] = recorded[a]
    BY <1>3 DEF RecordTraffic
  <2>2. Lag(a)' = Lag(a)
    BY <1>1, <2>1 DEF Lag, ChargedRequests
  <2> QED BY <2>2, SameLag
<1> QED BY <1>2, <1>3

LEMMA AdminLag ==
  ASSUME Typing, RowsKnown, NEW a \in Accounts \ purged', AdminStep
  PROVE  LagKept(a)
<1>1. UNCHANGED <<flush, recorded, twice>>
  BY DEF AdminStep, CreateRow, DeleteRow, CleanupRuntime, CleanupFails, RenameUser, CopyRow,
         SaveRow, history
<1>2. totalRequests'[a] = totalRequests[a]
  <2>1. ASSUME NEW c \in copies, SaveRow(c) PROVE totalRequests'[a] = totalRequests[a]
    BY <2>1 DEF SaveRow, Unchanged, Typing, TypeOK
  <2> QED BY <2>1 DEF AdminStep, CreateRow, DeleteRow, CleanupRuntime, CleanupFails,
         RenameUser, CopyRow, database, history, Typing, TypeOK
<1>3. usage'[a] = usage[a]
  BY DEF AdminStep, CreateRow, DeleteRow, CleanupRuntime, CleanupFails, RenameUser, CopyRow,
         SaveRow, redis, history, RowsKnown, Typing, TypeOK
<1>4. Lag(a)' = Lag(a)
  BY <1>1, <1>2, <1>3 DEF Lag, ChargedRequests, InFlightRequests
<1> QED BY <1>4, SameLag

LEMMA RestartLag ==
  ASSUME Typing, NEW a \in Accounts, Restart
  PROVE  LagKept(a)
<1>1. InFlightRequests(a)' = 0
  BY DEF Restart, InFlightRequests, Idle
<1>2. UNCHANGED <<totalRequests, usage, recorded>>
  BY DEF Restart, database, handlers, redis
<1>3. twice'[a].reqs = twice[a].reqs + InFlightRequests(a)
  BY DEF Restart
<1>4. Lag(a)' = Lag(a)
  BY <1>1, <1>2, <1>3, AmountsTyped DEF Lag, ChargedRequests
<1> QED BY <1>4, SameLag

LEMMA StepLag ==
  ASSUME Typing, RowsKnown, Pending, [Next]_vars, NEW a \in Accounts \ purged'
  PROVE  LagKept(a)
<1>0. a \in Accounts /\ a \in Lasting
  BY PurgedGrows DEF Lasting
<1>1. CASE RequestStep
  <2>1. PICK r \in Requests :
          \/ \E u \in Users : ReadRow(r, u)
          \/ Reject(r) \/ ReadPendingUpload(r) \/ ReadPendingDownload(r) \/ Abandon(r)
          \/ \E n \in Nodes, load \in Loads : RecordTraffic(r, n, load)
    BY <1>1 DEF RequestStep
  <2>2. CASE \E n \in Nodes, load \in Loads : RecordTraffic(r, n, load)
    BY <1>0, <2>2, RecordLag
  <2>3. ASSUME UNCHANGED <<totalRequests, usage, flush, recorded, twice>>
        PROVE  LagKept(a)
    <3>1. Lag(a)' = Lag(a)
      BY <2>3 DEF Lag, ChargedRequests, InFlightRequests
    <3> QED BY <1>0, <3>1, SameLag
  <2>4. CASE \E u \in Users : ReadRow(r, u)
    BY <2>3, <2>4 DEF ReadRow, database, redis, history
  <2>5. CASE Reject(r) \/ ReadPendingUpload(r) \/ ReadPendingDownload(r) \/ Abandon(r)
    BY <2>3, <2>5 DEF Reject, ReadPendingUpload, ReadPendingDownload, Abandon, database, redis, history
  <2> QED BY <2>1, <2>2, <2>4, <2>5
<1>2. CASE FlushStep
  BY <1>0, <1>2, FlushLag
<1>3. CASE AdminStep
  BY <1>3, AdminLag
<1>4. CASE Restart
  BY <1>0, <1>4, RestartLag
<1>5. CASE UNCHANGED vars
  <2>1. Lag(a)' = Lag(a)
    BY <1>5 DEF vars, Lag, ChargedRequests, InFlightRequests
  <2> QED BY <1>0, <2>1, SameLag
<1> QED BY <1>1, <1>2, <1>3, <1>4, <1>5 DEF Next

LagsSound == \A a \in Lasting : Lag(a) >= 0 /\ (a \in Nodes => Lag(a) = 0)

LEMMA LagsSoundStep ==
  ASSUME Typing, RowsKnown, Pending, LagsSound, [Next]_vars
  PROVE  LagsSound'
<1> SUFFICES ASSUME NEW a \in Accounts \ purged'
             PROVE  Lag(a)' >= 0 /\ (a \in Nodes => Lag(a)' = 0)
  BY DEF LagsSound, Lasting
<1>1. a \in Accounts /\ Lag(a) >= 0 /\ (a \in Nodes => Lag(a) = 0)
  BY PurgedGrows DEF LagsSound, Lasting
<1>2. LagKept(a)
  BY StepLag
<1>3. PICK before \in Int : before = Lag(a)
  BY <1>1, LagTyped
<1>4. PICK after \in Int : after = Lag(a)'
  <2>1. Typing'
    BY NextTyping
  <2>2. (\A b \in Accounts : Lag(b) \in Int)'
    BY <2>1, LagsTyped, PTL
  <2> QED BY <1>1, <2>2
<1> QED BY <1>1, <1>2, <1>3, <1>4 DEF LagKept

LEMMA InitLags == Init => LagsSound
<1> SUFFICES ASSUME Init, NEW a \in Accounts PROVE Lag(a) = 0
  BY DEF LagsSound, Lasting
<1>1. InFlightRequests(a) = 0 /\ recorded[a].reqs = 0 /\ twice[a].reqs = 0
      /\ totalRequests[a] = 0 /\ usage[a].reqs = 0
  BY DEF Init, InFlightRequests, Idle, Zero
<1> QED BY <1>1 DEF Lag, ChargedRequests

(* No request is counted twice but for a round cut off between its UPDATE  *)
(* and its EXEC; the count of a user may fall behind, that of a node is    *)
(* exact.                                                                  *)
THEOREM UsageRequestsConserved == Spec => []RequestsConserved
<1> DEFINE Inv == Typing /\ RowsKnown /\ Pending /\ LagsSound
<1>1. Init => Inv
  BY InitTyping, InitKnown, InitLags
<1>2. Inv /\ [Next]_vars => Inv'
  BY NextTyping, RowsKnownStep, PendingStep, LagsSoundStep
<1>3. Inv => RequestsConserved
  <2> SUFFICES ASSUME Inv, NEW a \in Lasting
               PROVE  /\ ChargedRequests(a) <= recorded[a].reqs + twice[a].reqs
                      /\ a \in Nodes => ChargedRequests(a) = recorded[a].reqs + twice[a].reqs
    BY DEF RequestsConserved
  <2>1. a \in Accounts
    BY DEF Lasting
  <2>2. PICK charged \in Int, known \in Int, again \in Int :
          charged = ChargedRequests(a) /\ known = recorded[a].reqs /\ again = twice[a].reqs
    <3>1. ChargedRequests(a) \in Int /\ recorded[a].reqs \in Int /\ twice[a].reqs \in Int
      BY <2>1, AmountsTyped DEF ChargedRequests
    <3> QED BY <3>1
  <2>3. /\ known + again - charged >= 0
        /\ a \in Nodes => known + again - charged = 0
    <3>1. Lag(a) >= 0 /\ (a \in Nodes => Lag(a) = 0)
      BY DEF LagsSound
    <3>2. Lag(a) = known + again - charged
      BY <2>2 DEF Lag
    <3> QED BY <3>1, <3>2
  <2>4. charged <= known + again /\ (a \in Nodes => charged = known + again)
    BY <2>2, <2>3
  <2> HIDE DEF Inv
  <2> QED BY <2>2, <2>4
<1> QED BY <1>1, <1>2, <1>3, PTL DEF Spec

-----------------------------------------------------------------------------
(* Without a failure nothing is charged twice: what the flush subtracts is *)
(* at least what it has added.                                             *)

LEMMA RepeatStep ==
  ASSUME Typing, Pending, RepeatOnlyAfterFault, [Next]_vars
  PROVE  RepeatOnlyAfterFault'
<1> USE DEF history
<1> SUFFICES ASSUME faults' = 0, NEW a \in Accounts \ purged'
             PROVE  twice'[a] = [bytes |-> 0, reqs |-> 0]
  BY DEF RepeatOnlyAfterFault, Lasting
<1>1. faults = 0 /\ ~Fault
  <2>1. faults \in Nat
    BY BoundsAssumption DEF Typing, TypeOK
  <2> QED BY <2>1, PurgedGrows DEF Fault
<1>2. a \in Lasting /\ twice[a] = [bytes |-> 0, reqs |-> 0]
  BY <1>1, PurgedGrows DEF RepeatOnlyAfterFault, Lasting
<1>3. CASE RequestStep
  <2>1. PICK r \in Requests :
          \/ \E u \in Users : ReadRow(r, u)
          \/ Reject(r) \/ ReadPendingUpload(r) \/ ReadPendingDownload(r) \/ Abandon(r)
          \/ \E n \in Nodes, load \in Loads : RecordTraffic(r, n, load)
    BY <1>3 DEF RequestStep
  <2>2. CASE \E u \in Users : ReadRow(r, u)
    BY <1>2, <2>2 DEF ReadRow
  <2>3. CASE Reject(r) \/ ReadPendingUpload(r) \/ ReadPendingDownload(r) \/ Abandon(r)
    BY <1>2, <2>3 DEF Reject, ReadPendingUpload, ReadPendingDownload, Abandon
  <2>4. CASE \E n \in Nodes, load \in Loads : RecordTraffic(r, n, load)
    BY <1>2, <2>4 DEF RecordTraffic
  <2> QED BY <2>1, <2>2, <2>3, <2>4
<1>4. CASE DecrUsage
  <2>1. twice' = [twice EXCEPT ![flush.acct] =
           [bytes |-> @.bytes + 0,
            reqs  |-> @.reqs + IF flush.added > flush.cap.reqs
                                 THEN flush.added - flush.cap.reqs ELSE 0]]
    BY <1>4 DEF DecrUsage, Subtract, Repeat
  <2>2. CASE flush.acct # a
    BY <1>2, <2>1, <2>2 DEF Typing, TypeOK
  <2>3. CASE flush.acct = a
    <3>1. flush.added <= flush.cap.reqs
      BY <1>1, <1>2, <1>4, <2>3 DEF DecrUsage, Pending, CapturedCovered, Reading
    <3>2. flush.added \in Int /\ flush.cap.reqs \in Int
      BY AmountsTyped
    <3> QED BY <1>2, <2>1, <2>3, <3>1, <3>2 DEF Typing, TypeOK
  <2> QED BY <2>2, <2>3
<1>5. CASE FlushStep /\ ~DecrUsage
  BY <1>1, <1>2, <1>5 DEF FlushStep, FlushUsage, FlushNodeUsage, FlushDone, NextAccount,
     ReadUpload, ReadDownload, ReadRequests, UpdateRow, RereadRequests, RoundFails,
     DecrFails, DecrReplyLost
<1>6. CASE AdminStep
  BY <1>2, <1>6 DEF AdminStep, CreateRow, DeleteRow, CleanupRuntime, CleanupFails, RenameUser,
     CopyRow, SaveRow
<1>7. CASE Restart
  BY <1>1, <1>7 DEF Restart
<1>8. CASE UNCHANGED vars
  BY <1>2, <1>8 DEF vars
<1> QED BY <1>3, <1>4, <1>5, <1>6, <1>7, <1>8 DEF Next

(* Whatever the schedule, an amount is charged twice only when a command   *)
(* failed or the process was restarted.                                    *)
THEOREM UsageRepeatOnlyAfterFault == Spec => []RepeatOnlyAfterFault
<1> DEFINE Inv == Typing /\ RowsKnown /\ Pending /\ RepeatOnlyAfterFault
<1>1. Init => Inv
  <2>1. Init => RepeatOnlyAfterFault
    BY DEF Init, RepeatOnlyAfterFault, Lasting
  <2> QED BY <2>1, InitTyping, InitKnown
<1>2. Inv /\ [Next]_vars => Inv'
  BY NextTyping, RowsKnownStep, PendingStep, RepeatStep
<1> QED BY <1>1, <1>2, PTL DEF Spec

-----------------------------------------------------------------------------
(* The quota check.                                                        *)

(* What Redis holds of an account beyond what the flush has already added  *)
(* to the row.                                                             *)
Ahead(a) == flush.acct = a /\ flush.pc \in {"again", "decr"}
WaitingUp(a) == usage[a].up - IF Ahead(a) THEN flush.cap.up ELSE 0
WaitingDown(a) == usage[a].down - IF Ahead(a) THEN flush.cap.down ELSE 0

(* While no flush updates the row, what was recorded before a request read *)
(* it is in what the request has read and what still waits in Redis.       *)
Knows(r) ==
    LET u == req[r].user
        known == basis[r].recorded
    IN  /\ req[r].pc = "up" => known <= req[r].used + WaitingUp(u) + WaitingDown(u)
        /\ req[r].pc = "down" => known <= req[r].used + req[r].up + WaitingDown(u)
        /\ req[r].pc = "admitted" => (Quota[u] > 0 => known < Quota[u])

Fresh(r) == req[r].pc \in Admitting /\ req[r].user \in Lasting /\ ~basis[r].stale

Admission == \A r \in Requests : Fresh(r) => Knows(r)

LEMMA WaitingTyped ==
  Typing => \A a \in Accounts : WaitingUp(a) \in Int /\ WaitingDown(a) \in Int
  BY AmountsTyped DEF WaitingUp, WaitingDown

LEMMA KnownTyped ==
  Typing => \A r \in Requests :
      /\ basis[r].recorded \in Int /\ basis[r].stale \in BOOLEAN
      /\ req[r].used \in Int /\ req[r].up \in Int
  BY DEF Typing, TypeOK, RequestStates

(* The row and what waits in Redis are what the account is charged.        *)
LEMMA ChargedIsWaiting ==
  ASSUME Typing, NEW a \in Accounts
  PROVE  Charged(a) = usedBytes[a] + WaitingUp(a) + WaitingDown(a)
<1>1. Bytes(usage[a]) = usage[a].up + usage[a].down
      /\ Bytes(flush.cap) = flush.cap.up + flush.cap.down
  BY DEF Bytes
<1> QED BY <1>1, AmountsTyped DEF Charged, WaitingUp, WaitingDown, InFlight, Ahead

(* Only the UPDATE of its row makes less of an account wait in Redis.      *)
WaitingKept(a) == WaitingUp(a)' >= WaitingUp(a) /\ WaitingDown(a)' >= WaitingDown(a)

LEMMA SameWaiting ==
  ASSUME Typing, NEW a \in Accounts, WaitingUp(a)' = WaitingUp(a), WaitingDown(a)' = WaitingDown(a)
  PROVE  WaitingKept(a)
  BY WaitingTyped DEF WaitingKept

(* A round that ends early leaves all of it in Redis.                      *)
LEMMA CutWaiting ==
  ASSUME Typing, Pending, NEW a \in Lasting, flush'.pc = "idle", UNCHANGED usage
  PROVE  WaitingKept(a)
<1>0. a \in Accounts
  BY DEF Lasting
<1>1. WaitingUp(a)' = usage[a].up /\ WaitingDown(a)' = usage[a].down
  BY <1>0, AmountsTyped DEF WaitingUp, WaitingDown, Ahead
<1>2. Ahead(a) => flush.cap.up >= 0 /\ flush.cap.down >= 0
  BY AmountsTyped DEF Ahead, Pending, CapturedCovered, Reading
<1>3. usage[a].up >= WaitingUp(a) /\ usage[a].down >= WaitingDown(a)
  BY <1>0, <1>2, AmountsTyped DEF WaitingUp, WaitingDown
<1> QED BY <1>1, <1>3 DEF WaitingKept

LEMMA FlushWaiting ==
  ASSUME Typing, Pending, NEW a \in Lasting, FlushStep, ~(UpdateRow /\ flush.acct = a)
  PROVE  WaitingKept(a)
<1> USE DEF database, handlers, redis, history
<1>0. a \in Accounts
  BY DEF Lasting
<1>1. ASSUME UNCHANGED usage, Ahead(a)' = FALSE, ~Ahead(a)
      PROVE  WaitingKept(a)
  <2>1. WaitingUp(a)' = WaitingUp(a) /\ WaitingDown(a)' = WaitingDown(a)
    BY <1>1 DEF WaitingUp, WaitingDown
  <2> QED BY <1>0, <2>1, SameWaiting
<1>2. ASSUME flush.pc \notin {"again", "decr"}, flush'.pc \notin {"again", "decr"}, UNCHANGED usage
      PROVE  WaitingKept(a)
  BY <1>1, <1>2 DEF Ahead
<1>3. CASE UpdateRow
  <2>1. flush'.acct = flush.acct /\ flush.acct # a /\ UNCHANGED usage
    BY <1>3 DEF UpdateRow, Typing, TypeOK, Flushes
  <2> QED BY <1>1, <2>1 DEF Ahead
<1>4. CASE RereadRequests
  <2>1. PICK v \in {0, usage[flush.acct].reqs} : flush' = [flush EXCEPT !.pc = "decr", !.cap.reqs = v]
    BY <1>4 DEF RereadRequests
  <2>2. /\ flush.pc = "again" /\ flush'.pc = "decr" /\ flush'.acct = flush.acct
        /\ flush'.cap.up = flush.cap.up /\ flush'.cap.down = flush.cap.down
        /\ UNCHANGED usage
    BY <1>4, <2>1 DEF RereadRequests, Typing, TypeOK, Flushes, Counters
  <2>3. WaitingUp(a)' = WaitingUp(a) /\ WaitingDown(a)' = WaitingDown(a)
    BY <2>2 DEF WaitingUp, WaitingDown, Ahead
  <2> QED BY <1>0, <2>3, SameWaiting
<1>5. ASSUME flush.pc = "decr", Subtract(flush.acct), flush'.pc \in {"idle", "pick"}
      PROVE  WaitingKept(a)
  <2>1. usage' = [usage EXCEPT ![flush.acct] = Minus(@, flush.cap)] /\ ~Ahead(a)'
    BY <1>5 DEF Subtract, Ahead
  <2>2. CASE flush.acct = a
    <3>1. Ahead(a) /\ usage'[a].up = usage[a].up - flush.cap.up
          /\ usage'[a].down = usage[a].down - flush.cap.down
      BY <1>0, <1>5, <2>1, <2>2 DEF Ahead, Minus, Typing, TypeOK
    <3>2. WaitingUp(a)' = WaitingUp(a) /\ WaitingDown(a)' = WaitingDown(a)
      BY <1>0, <2>1, <3>1, AmountsTyped DEF WaitingUp, WaitingDown
    <3> QED BY <1>0, <3>2, SameWaiting
  <2>3. CASE flush.acct # a
    <3>1. ~Ahead(a) /\ usage'[a] = usage[a]
      BY <1>0, <2>1, <2>3 DEF Ahead, Typing, TypeOK
    <3>2. WaitingUp(a)' = WaitingUp(a) /\ WaitingDown(a)' = WaitingDown(a)
      BY <2>1, <3>1 DEF WaitingUp, WaitingDown
    <3> QED BY <1>0, <3>2, SameWaiting
  <2> QED BY <2>2, <2>3
<1>6. CASE DecrUsage
  <2>1. flush'.pc = "pick"
    BY <1>6 DEF DecrUsage, Typing, TypeOK, Flushes
  <2> QED BY <1>5, <1>6, <2>1 DEF DecrUsage
<1>7. CASE DecrReplyLost
  BY <1>5, <1>7 DEF DecrReplyLost, Idle
<1>8. CASE DecrFails
  <2>1. flush.pc = "decr" /\ flush'.pc = "idle" /\ UNCHANGED usage
    BY <1>8 DEF DecrFails, Idle
  <2> QED BY <1>0, <2>1, CutWaiting
<1>9. CASE FlushUsage \/ FlushNodeUsage
  BY <1>2, <1>9 DEF FlushUsage, FlushNodeUsage, Idle
<1>10. CASE FlushDone \/ RoundFails
  BY <1>2, <1>10 DEF FlushDone, RoundFails, Idle
<1>11. CASE ReadUpload \/ ReadDownload \/ ReadRequests
  <2>1. flush.pc \notin {"again", "decr"} /\ flush'.pc \notin {"again", "decr"}
    BY <1>11 DEF ReadUpload, ReadDownload, ReadRequests, Typing, TypeOK, Flushes
  <2> QED BY <1>2, <1>11, <2>1 DEF ReadUpload, ReadDownload, ReadRequests
<1>12. ASSUME NEW b \in Accounts, NextAccount(b) PROVE WaitingKept(a)
  BY <1>2, <1>12 DEF NextAccount
<1> QED BY <1>3, <1>4, <1>6, <1>7, <1>8, <1>9, <1>10, <1>11, <1>12 DEF FlushStep

LEMMA StepWaiting ==
  ASSUME Typing, RowsKnown, Pending, [Next]_vars, NEW a \in Accounts \ purged',
         ~(UpdateRow /\ flush.acct = a)
  PROVE  WaitingKept(a)
<1>0. a \in Accounts /\ a \in Lasting
  BY PurgedGrows DEF Lasting
<1>1. ASSUME usage'[a] = usage[a], UNCHANGED flush PROVE WaitingKept(a)
  <2>1. WaitingUp(a)' = WaitingUp(a) /\ WaitingDown(a)' = WaitingDown(a)
    BY <1>1 DEF WaitingUp, WaitingDown, Ahead
  <2> QED BY <1>0, <2>1, SameWaiting
<1>2. CASE RequestStep
  <2>1. PICK r \in Requests :
          \/ \E u \in Users : ReadRow(r, u)
          \/ Reject(r) \/ ReadPendingUpload(r) \/ ReadPendingDownload(r) \/ Abandon(r)
          \/ \E n \in Nodes, load \in Loads : RecordTraffic(r, n, load)
    BY <1>2 DEF RequestStep
  <2>2. CASE \E u \in Users : ReadRow(r, u)
    BY <1>1, <2>2 DEF ReadRow, redis
  <2>3. CASE Reject(r) \/ ReadPendingUpload(r) \/ ReadPendingDownload(r) \/ Abandon(r)
    BY <1>1, <2>3 DEF Reject, ReadPendingUpload, ReadPendingDownload, Abandon, redis
  <2>4. ASSUME NEW n \in Nodes, NEW load \in Loads, RecordTraffic(r, n, load)
        PROVE  WaitingKept(a)
    <3>1. CASE a \notin {req[r].user, n}
      BY <1>1, <2>4, <3>1 DEF RecordTraffic
    <3>2. CASE a \in {req[r].user, n}
      <4>1. /\ usage'[a].up = usage[a].up + load.up
            /\ usage'[a].down = usage[a].down + load.down
            /\ Ahead(a)' = Ahead(a) /\ UNCHANGED flush
        BY <2>4, <3>2 DEF RecordTraffic, Add, Ahead
      <4>2. load.up \in Nat /\ load.down \in Nat
        BY LoadsAssumption
      <4>3. WaitingUp(a)' = WaitingUp(a) + load.up /\ WaitingDown(a)' = WaitingDown(a) + load.down
        BY <1>0, <4>1, <4>2, AmountsTyped DEF WaitingUp, WaitingDown
      <4>4. PICK x \in Int, y \in Int : x = WaitingUp(a) /\ y = WaitingDown(a)
        BY <1>0, WaitingTyped
      <4> QED BY <4>2, <4>3, <4>4 DEF WaitingKept
    <3> QED BY <3>1, <3>2
  <2> QED BY <2>1, <2>2, <2>3, <2>4
<1>3. CASE FlushStep
  BY <1>0, <1>3, FlushWaiting
<1>4. CASE AdminStep
  <2>1. usage'[a] = usage[a]
    BY <1>4 DEF AdminStep, CreateRow, DeleteRow, CleanupRuntime, CleanupFails, RenameUser,
       CopyRow, SaveRow, redis, history, RowsKnown, Typing, TypeOK
  <2>2. UNCHANGED flush
    BY <1>4 DEF AdminStep, CreateRow, DeleteRow, CleanupRuntime, CleanupFails, RenameUser,
       CopyRow, SaveRow
  <2> QED BY <1>1, <2>1, <2>2
<1>5. CASE Restart
  <2>1. flush'.pc = "idle" /\ UNCHANGED usage
    BY <1>5 DEF Restart, Idle, redis
  <2> QED BY <1>0, <2>1, CutWaiting
<1>6. CASE UNCHANGED vars
  BY <1>1, <1>6 DEF vars
<1> QED BY <1>2, <1>3, <1>4, <1>5, <1>6 DEF Next

RepeatsAdd == \A a \in Lasting : twice[a].bytes >= 0

LEMMA RepeatsAddStep ==
  ASSUME Typing, RowsKnown, Pending, RepeatsAdd, [Next]_vars
  PROVE  RepeatsAdd'
<1> SUFFICES ASSUME NEW a \in Accounts \ purged'
             PROVE  twice'[a].bytes >= 0
  BY DEF RepeatsAdd, Lasting
<1>1. a \in Accounts /\ a \in Lasting /\ twice[a].bytes >= 0 /\ twice[a].bytes \in Int
  BY PurgedGrows, AmountsTyped DEF RepeatsAdd, Lasting
<1>2. PICK more \in Int : more = InFlight(a)
  BY <1>1, AmountsTyped
<1>3. more >= 0
  BY <1>1, <1>2, AmountsTyped DEF InFlight, Pending, CapturedCovered, Reading, Bytes
<1>4. CASE SameBalance(a)
  BY <1>1, <1>4 DEF SameBalance
<1>5. CASE Repeated(a)
  BY <1>1, <1>2, <1>3, <1>5 DEF Repeated
<1>6. CASE \E r \in Requests, n \in Nodes, load \in Loads : RecordTraffic(r, n, load)
  BY <1>1, <1>6, RecordBalance
<1> QED BY <1>4, <1>5, <1>6, StepBalance

(* A request that the step does not move keeps what it knows, unless the   *)
(* step updates the row of its user.                                       *)
LEMMA Unmoved ==
  ASSUME Typing, RowsKnown, Pending, Admission, [Next]_vars, NEW r \in Requests,
         req'[r] = req[r], basis'[r].recorded = basis[r].recorded,
         ~basis'[r].stale => ~basis[r].stale /\ ~(UpdateRow /\ flush.acct = req[r].user),
         Fresh(r)'
  PROVE  Knows(r)'
<1>1. Fresh(r) /\ Knows(r) /\ req[r].user \in Accounts \ purged'
  BY PurgedGrows DEF Fresh, Lasting, Admission
<1>2. PICK u \in Accounts \ purged' : u = req[r].user
  BY <1>1
<1>3. WaitingKept(u)
  BY <1>2, StepWaiting DEF Fresh
<1>4. PICK up \in Int, down \in Int : up = WaitingUp(u) /\ down = WaitingDown(u)
  BY <1>2, WaitingTyped
<1>5. PICK up2 \in Int, down2 \in Int : up2 = WaitingUp(u)' /\ down2 = WaitingDown(u)'
  <2>1. Typing'
    BY NextTyping
  <2>2. (\A a \in Accounts : WaitingUp(a) \in Int /\ WaitingDown(a) \in Int)'
    BY <2>1, WaitingTyped, PTL
  <2> QED BY <1>2, <2>2
<1>6. up2 >= up /\ down2 >= down
  BY <1>3, <1>4, <1>5 DEF WaitingKept
<1>7. /\ basis[r].recorded \in Int /\ req[r].used \in Int /\ req[r].up \in Int
  BY KnownTyped
<1>8. /\ req[r].pc = "up" => basis[r].recorded <= req[r].used + up + down
      /\ req[r].pc = "down" => basis[r].recorded <= req[r].used + req[r].up + down
      /\ req[r].pc = "admitted" => (Quota[u] > 0 => basis[r].recorded < Quota[u])
  BY <1>1, <1>2, <1>4 DEF Knows
<1>9. /\ req[r].pc = "up" => basis[r].recorded <= req[r].used + up2 + down2
      /\ req[r].pc = "down" => basis[r].recorded <= req[r].used + req[r].up + down2
  BY <1>6, <1>7, <1>8
<1> QED BY <1>2, <1>5, <1>8, <1>9 DEF Knows

(* The row together with what waits covers all that was recorded.          *)
LEMMA RowReadKnows ==
  ASSUME Typing, BytesConserved, RepeatsAdd, NEW r \in Requests, NEW u \in Users,
         ReadRow(r, u), u \in Lasting
  PROVE  Knows(r)'
<1>1. req'[r] = [pc |-> "up", user |-> u, used |-> usedBytes[u], up |-> 0]
      /\ basis'[r] = [recorded |-> Bytes(recorded[u]), stale |-> FALSE]
      /\ UNCHANGED <<usage, flush>>
  BY DEF ReadRow, redis, Typing, TypeOK
<1>2. WaitingUp(u)' = WaitingUp(u) /\ WaitingDown(u)' = WaitingDown(u)
  BY <1>1 DEF WaitingUp, WaitingDown, Ahead
<1>3. usedBytes[u] + WaitingUp(u) + WaitingDown(u) = Bytes(recorded[u]) + twice[u].bytes
  BY ChargedIsWaiting DEF BytesConserved
<1>4. twice[u].bytes >= 0
  BY DEF RepeatsAdd
<1>5. PICK up \in Int, down \in Int : up = WaitingUp(u) /\ down = WaitingDown(u)
  BY WaitingTyped
<1>6. Bytes(recorded[u]) <= usedBytes[u] + up + down
  BY <1>3, <1>4, <1>5, AmountsTyped
<1> QED BY <1>1, <1>2, <1>5, <1>6 DEF Knows

LEMMA UploadReadKnows ==
  ASSUME Typing, Pending, Admission, NEW r \in Requests, ReadPendingUpload(r), Fresh(r)'
  PROVE  Knows(r)'
<1>1. PICK v \in {0, usage[req[r].user].up} :
        /\ req' = [req EXCEPT ![r] = [@ EXCEPT !.pc = "down", !.up = v]]
        /\ basis' = [basis EXCEPT ![r].stale = @ \/ v # usage[req[r].user].up]
  BY DEF ReadPendingUpload
<1>2. /\ req[r].pc = "up" /\ req'[r].pc = "down" /\ req'[r].user = req[r].user
      /\ req'[r].used = req[r].used /\ req'[r].up = v
  <2>1. req[r].pc = "up"
    BY DEF ReadPendingUpload
  <2>2. req \in [Requests -> RequestStates] /\ req[r] \in RequestStates
    BY DEF Typing, TypeOK
  <2>3. req'[r] = [req[r] EXCEPT !.pc = "down", !.up = v]
    BY <1>1, <2>2
  <2> QED BY <2>1, <2>2, <2>3 DEF RequestStates
<1>3. basis'[r].recorded = basis[r].recorded
      /\ (~basis'[r].stale => ~basis[r].stale /\ v = usage[req[r].user].up)
  BY <1>1 DEF Typing, TypeOK
<1>4. UNCHANGED <<usage, flush, purged>>
  BY DEF ReadPendingUpload, redis, history
<1>5. Fresh(r) /\ Knows(r) /\ v = usage[req[r].user].up
  BY <1>2, <1>3, <1>4 DEF Fresh, Lasting, Admission, Admitting
<1>6. PICK u \in Accounts : u = req[r].user /\ u \in Lasting
  BY <1>5 DEF Fresh, Lasting
<1>7. PICK up \in Int, down \in Int : up = WaitingUp(u) /\ down = WaitingDown(u)
  BY WaitingTyped
<1>8. up <= v /\ v \in Int
  <2>1. Ahead(u) => flush.cap.up >= 0
    BY <1>6, AmountsTyped DEF Ahead, Pending, CapturedCovered, Reading
  <2> QED BY <1>5, <1>6, <1>7, <2>1, AmountsTyped DEF WaitingUp
<1>9. WaitingDown(u)' = down
  BY <1>4, <1>7 DEF WaitingDown, Ahead
<1>10. basis[r].recorded <= req[r].used + up + down
  BY <1>2, <1>5, <1>6, <1>7 DEF Knows
<1>11. basis[r].recorded <= req[r].used + v + down
  BY <1>7, <1>8, <1>10, KnownTyped
<1> QED BY <1>2, <1>3, <1>6, <1>9, <1>11 DEF Knows

LEMMA DownloadReadKnows ==
  ASSUME Typing, Pending, Admission, NEW r \in Requests, ReadPendingDownload(r), Fresh(r)'
  PROVE  Knows(r)'
<1>1. PICK v \in {0, usage[req[r].user].down} :
        /\ req' = [req EXCEPT ![r].pc =
                      IF OverQuota(req[r].user, req[r].used + req[r].up + v)
                        THEN "refused" ELSE "admitted"]
        /\ basis' = [basis EXCEPT ![r].stale = @ \/ v # usage[req[r].user].down]
  BY DEF ReadPendingDownload
<1>2. /\ req[r].pc = "down" /\ req'[r].user = req[r].user
      /\ req'[r].pc = IF OverQuota(req[r].user, req[r].used + req[r].up + v)
                        THEN "refused" ELSE "admitted"
  BY <1>1 DEF ReadPendingDownload, Typing, TypeOK, RequestStates
<1>3. basis'[r].recorded = basis[r].recorded
      /\ (~basis'[r].stale => ~basis[r].stale /\ v = usage[req[r].user].down)
  BY <1>1 DEF Typing, TypeOK
<1>4. UNCHANGED <<usage, flush, purged>>
  BY DEF ReadPendingDownload, redis, history
<1>5. Fresh(r) /\ Knows(r) /\ v = usage[req[r].user].down
  BY <1>2, <1>3, <1>4 DEF Fresh, Lasting, Admission, Admitting
<1>6. PICK u \in Users : u = req[r].user /\ u \in Lasting
  BY <1>5 DEF Fresh, Lasting, Typing, RequestShape
<1>7. PICK down \in Int : down = WaitingDown(u)
  BY WaitingTyped
<1>8. down <= v /\ v \in Int
  <2>1. Ahead(u) => flush.cap.down >= 0
    BY <1>6, AmountsTyped DEF Ahead, Pending, CapturedCovered, Reading
  <2> QED BY <1>5, <1>6, <1>7, <2>1, AmountsTyped DEF WaitingDown
<1>9. basis[r].recorded <= req[r].used + req[r].up + down
  BY <1>2, <1>5, <1>6, <1>7 DEF Knows
<1>10. basis[r].recorded <= req[r].used + req[r].up + v
  BY <1>7, <1>8, <1>9, KnownTyped
<1>11. req'[r].pc = "admitted" /\ ~OverQuota(u, req[r].used + req[r].up + v)
  BY <1>2, <1>6 DEF Fresh, Admitting
<1>12. Quota[u] > 0 => basis[r].recorded < Quota[u]
  <2>1. Quota[u] \in Nat
    BY QuotaAssumption
  <2> QED BY <1>8, <1>10, <1>11, <2>1, KnownTyped DEF OverQuota
<1> QED BY <1>2, <1>3, <1>6, <1>11, <1>12 DEF Knows

LEMMA AdmissionStep ==
  ASSUME Typing, RowsKnown, Pending, BytesConserved, RepeatsAdd, Admission, [Next]_vars
  PROVE  Admission'
<1> USE DEF database, handlers, redis, history
<1> SUFFICES ASSUME NEW r \in Requests, Fresh(r)' PROVE Knows(r)'
  BY DEF Admission
<1>1. ASSUME UNCHANGED <<req, basis>>, ~UpdateRow PROVE Knows(r)'
  BY <1>1, Unmoved
<1>2. CASE RequestStep
  <2>1. PICK q \in Requests :
          \/ \E u \in Users : ReadRow(q, u)
          \/ Reject(q) \/ ReadPendingUpload(q) \/ ReadPendingDownload(q) \/ Abandon(q)
          \/ \E n \in Nodes, load \in Loads : RecordTraffic(q, n, load)
    BY <1>2 DEF RequestStep
  <2>2. CASE q # r
    <3>1. req'[r] = req[r] /\ basis'[r] = basis[r]
      <4>1. CASE \E u \in Users : ReadRow(q, u)
        BY <2>2, <4>1 DEF ReadRow, Typing, TypeOK
      <4>2. CASE Reject(q) \/ Abandon(q)
        BY <2>2, <4>2 DEF Reject, Abandon, Typing, TypeOK
      <4>3. CASE ReadPendingUpload(q) \/ ReadPendingDownload(q)
        BY <2>2, <4>3 DEF ReadPendingUpload, ReadPendingDownload, Typing, TypeOK
      <4>4. CASE \E n \in Nodes, load \in Loads : RecordTraffic(q, n, load)
        BY <2>2, <4>4 DEF RecordTraffic, Typing, TypeOK
      <4> QED BY <2>1, <4>1, <4>2, <4>3, <4>4
    <3>2. ~UpdateRow \/ basis'[r].stale
      <4>1. UNCHANGED flush
        BY <1>2, RequestsLeaveRows
      <4>2. UpdateRow => flush' # flush
        BY DEF UpdateRow, Typing, TypeOK, Flushes
      <4> QED BY <4>1, <4>2
    <3> QED BY <3>1, <3>2, Unmoved
  <2>3. CASE q = r
    <3>1. ASSUME NEW u \in Users, ReadRow(r, u) PROVE Knows(r)'
      <4>1. u \in Lasting
        BY <3>1 DEF ReadRow, Fresh, Lasting, Typing, TypeOK
      <4> QED BY <3>1, <4>1, RowReadKnows
    <3>2. ASSUME req'[r].pc \notin Admitting PROVE FALSE
      BY <3>2 DEF Fresh, Admitting
    <3>3. CASE Reject(r) \/ Abandon(r)
      BY <3>2, <3>3 DEF Reject, Abandon, Admitting, Typing, TypeOK, RequestStates
    <3>4. CASE \E n \in Nodes, load \in Loads : RecordTraffic(r, n, load)
      BY <3>2, <3>4 DEF RecordTraffic, Admitting, Typing, TypeOK, RequestStates
    <3>5. CASE ReadPendingUpload(r)
      BY <3>5, UploadReadKnows
    <3>6. CASE ReadPendingDownload(r)
      BY <3>6, DownloadReadKnows
    <3> QED BY <2>1, <2>3, <3>1, <3>3, <3>4, <3>5, <3>6
  <2> QED BY <2>2, <2>3
<1>3. CASE UpdateRow
  <2>1. req' = req /\ basis' = [q \in Requests |-> [basis[q] EXCEPT !.stale = @ \/ req[q].user = flush.acct]]
    BY <1>3 DEF UpdateRow
  <2>2. /\ basis'[r].recorded = basis[r].recorded
        /\ basis'[r].stale = (basis[r].stale \/ req[r].user = flush.acct)
    BY <2>1 DEF Typing, TypeOK
  <2> QED BY <2>1, <2>2, Unmoved
<1>4. CASE FlushStep /\ ~UpdateRow
  BY <1>1, <1>4 DEF FlushStep, FlushUsage, FlushNodeUsage, FlushDone, NextAccount,
     ReadUpload, ReadDownload, ReadRequests, RereadRequests, DecrUsage, RoundFails,
     DecrFails, DecrReplyLost
<1>5. CASE AdminStep
  <2>1. UNCHANGED <<req, basis, flush>>
    BY <1>5 DEF AdminStep, CreateRow, DeleteRow, CleanupRuntime, CleanupFails, RenameUser,
       CopyRow, SaveRow
  <2>2. UpdateRow => flush' # flush
    BY DEF UpdateRow, Typing, TypeOK, Flushes
  <2> QED BY <1>1, <2>1, <2>2
<1>6. CASE Restart
  <2>1. req'[r] = IF req[r].pc = "new" THEN req[r] ELSE [req[r] EXCEPT !.pc = "done"]
    BY <1>6 DEF Restart
  <2>2. req'[r].pc \notin Admitting
    BY <2>1 DEF Admitting, Typing, TypeOK, RequestStates
  <2> QED BY <2>2 DEF Fresh
<1>7. CASE UNCHANGED vars
  <2>1. UNCHANGED <<req, basis, flush>>
    BY <1>7 DEF vars
  <2>2. UpdateRow => flush' # flush
    BY DEF UpdateRow, Typing, TypeOK, Flushes
  <2> QED BY <1>1, <2>1, <2>2
<1> QED BY <1>2, <1>3, <1>4, <1>5, <1>6, <1>7 DEF Next

(* A request is admitted only below the quota, counting all that was       *)
(* recorded before it read the row, unless a flush updated the row in      *)
(* between or a GET failed.                                                *)
THEOREM UsageQuotaRespected == Spec => []QuotaRespected
<1> DEFINE Inv == Typing /\ RowsKnown /\ Pending /\ BytesConserved /\ RepeatsAdd /\ Admission
<1>1. Init => Inv
  <2>1. Init => RepeatsAdd /\ Admission
    BY DEF Init, RepeatsAdd, Admission, Fresh, Admitting, Lasting
  <2> QED BY <2>1, InitTyping, InitKnown
<1>2. Inv /\ [Next]_vars => Inv'
  BY NextTyping, RowsKnownStep, PendingStep, BytesStep, RepeatsAddStep, AdmissionStep
<1>3. Inv => QuotaRespected
  BY DEF QuotaRespected, Admission, Fresh, Knows, Admitting
<1> QED BY <1>1, <1>2, <1>3, PTL DEF Spec

-----------------------------------------------------------------------------
(* Rounds of the flush end, and bill what was recorded.                    *)

(* What is not in Redis waits for nobody: the KEYS of a round misses no    *)
(* account that is owed something.                                         *)
KeysHold == \A a \in Accounts : a \notin keys => usage[a] = Zero

LEMMA KeysHoldStep ==
  ASSUME Typing, KeysHold, [Next]_vars
  PROVE  KeysHold'
<1> USE DEF KeysHold
<1>1. ASSUME UNCHANGED redis PROVE KeysHold'
  BY <1>1 DEF redis
<1>2. CASE RequestStep
  <2>1. PICK r \in Requests :
          \/ \E u \in Users : ReadRow(r, u)
          \/ Reject(r) \/ ReadPendingUpload(r) \/ ReadPendingDownload(r) \/ Abandon(r)
          \/ \E n \in Nodes, load \in Loads : RecordTraffic(r, n, load)
    BY <1>2 DEF RequestStep
  <2>2. CASE \E u \in Users : ReadRow(r, u)
    BY <1>1, <2>2 DEF ReadRow
  <2>3. CASE Reject(r) \/ ReadPendingUpload(r) \/ ReadPendingDownload(r) \/ Abandon(r)
    BY <1>1, <2>3 DEF Reject, ReadPendingUpload, ReadPendingDownload, Abandon
  <2>4. CASE \E n \in Nodes, load \in Loads : RecordTraffic(r, n, load)
    BY <2>4 DEF RecordTraffic
  <2> QED BY <2>1, <2>2, <2>3, <2>4
<1>3. ASSUME Subtract(flush.acct) PROVE KeysHold'
  BY <1>3 DEF Subtract, Typing, TypeOK
<1>4. CASE FlushStep
  <2>1. CASE DecrUsage \/ DecrReplyLost
    BY <1>3, <2>1 DEF DecrUsage, DecrReplyLost
  <2>2. CASE ~(DecrUsage \/ DecrReplyLost)
    BY <1>1, <1>4, <2>2 DEF FlushStep, FlushUsage, FlushNodeUsage, FlushDone, NextAccount,
       ReadUpload, ReadDownload, ReadRequests, UpdateRow, RereadRequests, RoundFails, DecrFails
  <2> QED BY <2>1, <2>2
<1>5. CASE AdminStep
  <2>1. ASSUME NEW b \in Accounts, CleanupRuntime(b) PROVE KeysHold'
    BY <2>1 DEF CleanupRuntime, Typing, TypeOK
  <2> QED BY <1>1, <1>5, <2>1 DEF AdminStep, CreateRow, DeleteRow, CleanupFails, RenameUser,
         CopyRow, SaveRow
<1>6. CASE Restart
  BY <1>1, <1>6 DEF Restart
<1>7. CASE UNCHANGED vars
  BY <1>1, <1>7 DEF vars, redis
<1> QED BY <1>2, <1>4, <1>5, <1>6, <1>7 DEF Next

(* A round has finitely many accounts before it, for KEYS is a snapshot.   *)
Finite == IsFiniteSet(keys) /\ IsFiniteSet(flush.todo)

LEMMA FiniteStep ==
  ASSUME Typing, Finite, [Next]_vars
  PROVE  Finite'
<1> USE DEF Finite
<1>1. \A S \in SUBSET keys : IsFiniteSet(S)
  BY FS_Subset
<1>2. \A S \in SUBSET flush.todo : IsFiniteSet(S)
  BY FS_Subset
<1>3. \A a, b : IsFiniteSet(keys \cup {a, b})
  <2> TAKE a, b
  <2>1. IsFiniteSet(keys \cup {a})
    BY FS_AddElement
  <2>2. IsFiniteSet((keys \cup {a}) \cup {b})
    BY <2>1, FS_AddElement
  <2>3. (keys \cup {a}) \cup {b} = keys \cup {a, b}
    OBVIOUS
  <2> QED BY <2>2, <2>3
<1>4. IsFiniteSet({})
  BY FS_EmptySet
<1>5. IsFiniteSet(keys')
  <2>1. CASE RequestStep
    <3>1. PICK r \in Requests :
            \/ \E u \in Users : ReadRow(r, u)
            \/ Reject(r) \/ ReadPendingUpload(r) \/ ReadPendingDownload(r) \/ Abandon(r)
            \/ \E n \in Nodes, load \in Loads : RecordTraffic(r, n, load)
      BY <2>1 DEF RequestStep
    <3>2. CASE \E u \in Users : ReadRow(r, u)
      BY <3>2 DEF ReadRow, redis
    <3>3. CASE Reject(r) \/ ReadPendingUpload(r) \/ ReadPendingDownload(r) \/ Abandon(r)
      BY <3>3 DEF Reject, ReadPendingUpload, ReadPendingDownload, Abandon, redis
    <3>4. ASSUME NEW n \in Nodes, NEW load \in Loads, RecordTraffic(r, n, load)
          PROVE  IsFiniteSet(keys')
      <4>1. keys' = keys \cup {req[r].user, n}
        BY <3>4 DEF RecordTraffic
      <4> QED BY <1>3, <4>1
    <3> QED BY <3>1, <3>2, <3>3, <3>4
  <2>2. CASE FlushStep
    <3>1. keys' = keys \/ keys' = keys \cup {flush.acct, flush.acct}
      BY <2>2 DEF FlushStep, FlushUsage, FlushNodeUsage, FlushDone, NextAccount,
         ReadUpload, ReadDownload, ReadRequests, UpdateRow, RereadRequests, DecrUsage,
         RoundFails, DecrFails, DecrReplyLost, Subtract, redis
    <3> QED BY <1>3, <3>1
  <2>3. CASE AdminStep
    <3>1. keys' \in SUBSET keys
      BY <2>3 DEF AdminStep, CreateRow, DeleteRow, CleanupRuntime, CleanupFails, RenameUser,
         CopyRow, SaveRow, redis
    <3> QED BY <1>1, <3>1
  <2>4. CASE Restart \/ UNCHANGED vars
    BY <2>4 DEF Restart, redis, vars
  <2> QED BY <2>1, <2>2, <2>3, <2>4 DEF Next
<1>6. flush'.todo \in SUBSET keys \/ flush'.todo \in SUBSET flush.todo \/ flush'.todo = {}
  <2>1. CASE RequestStep
    BY <2>1, RequestsLeaveRows
  <2>2. CASE FlushStep
    <3>1. CASE FlushUsage \/ FlushNodeUsage
      BY <3>1 DEF FlushUsage, FlushNodeUsage, Idle
    <3>2. CASE FlushDone \/ RoundFails \/ DecrFails \/ DecrReplyLost
      BY <3>2 DEF FlushDone, RoundFails, DecrFails, DecrReplyLost, Idle
    <3>3. CASE \E a \in Accounts : NextAccount(a)
      BY <3>3 DEF NextAccount
    <3>4. CASE ReadUpload \/ ReadDownload \/ ReadRequests \/ RereadRequests
      BY <3>4 DEF ReadUpload, ReadDownload, ReadRequests, RereadRequests, Typing, TypeOK, Flushes
    <3>5. CASE UpdateRow \/ DecrUsage
      BY <3>5 DEF UpdateRow, DecrUsage, Typing, TypeOK, Flushes
    <3> QED BY <2>2, <3>1, <3>2, <3>3, <3>4, <3>5 DEF FlushStep
  <2>3. CASE AdminStep
    BY <2>3 DEF AdminStep, CreateRow, DeleteRow, CleanupRuntime, CleanupFails, RenameUser,
       CopyRow, SaveRow
  <2>4. CASE Restart
    BY <2>4 DEF Restart, Idle
  <2>5. CASE UNCHANGED vars
    BY <2>5 DEF vars
  <2> QED BY <2>1, <2>2, <2>3, <2>4, <2>5 DEF Next
<1> QED BY <1>1, <1>2, <1>4, <1>5, <1>6

(* The flush is the only goroutine that moves its round, until a restart.  *)
LEMMA OnlyFlushMoves ==
  ASSUME RequestStep \/ AdminStep \/ UNCHANGED vars
  PROVE  UNCHANGED flush
<1>1. CASE AdminStep
  BY <1>1 DEF AdminStep, CreateRow, DeleteRow, CleanupRuntime, CleanupFails, RenameUser,
     CopyRow, SaveRow
<1> QED BY <1>1, RequestsLeaveRows DEF vars

LEMMA RoundAdvances ==
  ASSUME Typing, Finite, [Next]_vars
  PROVE  flush' \in {flush, Idle} \/ Behind(flush', flush)
<1>0. flush \in Flushes
  BY DEF Typing, TypeOK
<1>1. CASE RequestStep \/ AdminStep \/ UNCHANGED vars
  BY <1>1, OnlyFlushMoves
<1>2. CASE Restart
  BY <1>2 DEF Restart
<1>3. CASE FlushUsage
  <2>1. flush.pc = "idle" /\ flush'.pc = "pick" /\ flush'.phase = "users"
    BY <1>3 DEF FlushUsage, Idle
  <2> QED BY <2>1 DEF Behind, Phase
<1>4. CASE FlushNodeUsage
  <2>1. flush.pc = "pick" /\ flush.phase = "users" /\ flush'.pc = "pick" /\ flush'.phase = "nodes"
    BY <1>4 DEF FlushNodeUsage, Idle
  <2> QED BY <2>1 DEF Behind, Phase
<1>5. CASE FlushDone \/ RoundFails \/ DecrFails \/ DecrReplyLost
  BY <1>5 DEF FlushDone, RoundFails, DecrFails, DecrReplyLost
<1>6. ASSUME NEW a \in Accounts, NextAccount(a) PROVE Behind(flush', flush)
  <2>1. /\ flush.pc = "pick" /\ flush'.pc = "up" /\ flush'.phase = flush.phase
        /\ a \in flush.todo /\ flush'.todo = flush.todo \ {a}
    BY <1>6 DEF NextAccount
  <2>2. Cardinality(flush.todo) \in Nat /\ Cardinality(flush.todo \ {a}) = Cardinality(flush.todo) - 1
    BY <2>1, FS_CardinalityType, FS_RemoveElement DEF Finite
  <2>3. Cardinality(flush'.todo) < Cardinality(flush.todo)
    BY <2>1, <2>2
  <2>4. Phase(flush') = Phase(flush)
    BY <2>1 DEF Phase
  <2> QED BY <2>3, <2>4 DEF Behind
<1>7. ASSUME flush.pc # "idle", flush'.pc # "idle", flush'.phase = flush.phase,
             flush'.todo = flush.todo, Command[flush'.pc] < Command[flush.pc]
      PROVE  Behind(flush', flush)
  BY <1>7 DEF Behind, Phase
<1>8. CASE ReadUpload
  <2>1. /\ flush.pc = "up" /\ flush'.pc = "down" /\ flush'.phase = flush.phase
        /\ flush'.todo = flush.todo
    BY <1>0, <1>8 DEF ReadUpload, Flushes
  <2> QED BY <1>7, <2>1 DEF Command
<1>9. CASE ReadDownload
  <2>1. /\ flush.pc = "down" /\ flush'.pc \in {"pick", "reqs"} /\ flush'.phase = flush.phase
        /\ flush'.todo = flush.todo
    BY <1>0, <1>9 DEF ReadDownload, Flushes
  <2> QED BY <1>7, <2>1 DEF Command
<1>10. CASE ReadRequests
  <2>1. /\ flush.pc = "reqs" /\ flush'.pc \in {"pick", "update"} /\ flush'.phase = flush.phase
        /\ flush'.todo = flush.todo
    BY <1>0, <1>10 DEF ReadRequests, Flushes
  <2> QED BY <1>7, <2>1 DEF Command
<1>11. CASE UpdateRow
  <2>1. /\ flush.pc = "update" /\ flush'.pc \in {"again", "decr"} /\ flush'.phase = flush.phase
        /\ flush'.todo = flush.todo
    BY <1>0, <1>11 DEF UpdateRow, Flushes
  <2> QED BY <1>7, <2>1 DEF Command
<1>12. CASE RereadRequests
  <2>1. /\ flush.pc = "again" /\ flush'.pc = "decr" /\ flush'.phase = flush.phase
        /\ flush'.todo = flush.todo
    BY <1>0, <1>12 DEF RereadRequests, Flushes
  <2> QED BY <1>7, <2>1 DEF Command
<1>13. CASE DecrUsage
  <2>1. /\ flush.pc = "decr" /\ flush'.pc = "pick" /\ flush'.phase = flush.phase
        /\ flush'.todo = flush.todo
    BY <1>0, <1>13 DEF DecrUsage, Flushes
  <2> QED BY <1>7, <2>1 DEF Command
<1> QED BY <1>1, <1>2, <1>3, <1>4, <1>5, <1>6, <1>8, <1>9, <1>10, <1>11, <1>12, <1>13
       DEF Next, FlushStep

Solvent == BytesConserved /\ RepeatsAdd

(* What an account is owed waits in Redis, but for what is in flight.      *)
LEMMA OwedWaits ==
  ASSUME Typing, Solvent, NEW a \in Accounts, NEW k \in Nat, Owed(a, k), ~Ahead(a)
  PROVE  usedBytes[a] + usage[a].up + usage[a].down >= k /\ usedBytes[a] < k
<1>1. a \in Lasting /\ usedBytes[a] < k /\ k <= Bytes(recorded[a])
  BY DEF Owed
<1>2. Charged(a) = Bytes(recorded[a]) + twice[a].bytes /\ twice[a].bytes >= 0
  BY <1>1 DEF Solvent, BytesConserved, RepeatsAdd
<1>3. WaitingUp(a) = usage[a].up /\ WaitingDown(a) = usage[a].down
  BY AmountsTyped DEF WaitingUp, WaitingDown
<1>4. Charged(a) = usedBytes[a] + usage[a].up + usage[a].down
  BY <1>3, ChargedIsWaiting
<1> QED BY <1>1, <1>2, <1>4, AmountsTyped

LEMMA OwedHasKey ==
  ASSUME Typing, Solvent, KeysHold, NEW a \in Accounts, NEW k \in Nat, Owed(a, k), ~Ahead(a)
  PROVE  a \in keys
<1>1. a \notin keys => usage[a].up = 0 /\ usage[a].down = 0
  BY DEF KeysHold, Zero
<1> QED BY <1>1, OwedWaits, AmountsTyped

LEMMA RecordedGrows ==
  ASSUME Typing, [Next]_vars, NEW a \in Accounts
  PROVE  Bytes(recorded'[a]) >= Bytes(recorded[a])
<1>1. ASSUME recorded' = recorded PROVE Bytes(recorded'[a]) >= Bytes(recorded[a])
  BY <1>1, AmountsTyped
<1>2. CASE RequestStep
  <2>1. PICK r \in Requests :
          \/ \E u \in Users : ReadRow(r, u)
          \/ Reject(r) \/ ReadPendingUpload(r) \/ ReadPendingDownload(r) \/ Abandon(r)
          \/ \E n \in Nodes, load \in Loads : RecordTraffic(r, n, load)
    BY <1>2 DEF RequestStep
  <2>2. CASE \E u \in Users : ReadRow(r, u)
    BY <1>1, <2>2 DEF ReadRow, history
  <2>3. CASE Reject(r) \/ ReadPendingUpload(r) \/ ReadPendingDownload(r) \/ Abandon(r)
    BY <1>1, <2>3 DEF Reject, ReadPendingUpload, ReadPendingDownload, Abandon, history
  <2>4. ASSUME NEW n \in Nodes, NEW load \in Loads, RecordTraffic(r, n, load)
        PROVE  Bytes(recorded'[a]) >= Bytes(recorded[a])
    <3>1. PICK amount \in Nat : Bytes(recorded[a])' = Bytes(recorded[a]) + amount
      BY <2>4, RecordBalance, LoadsAssumption
    <3> QED BY <3>1, AmountsTyped
  <2> QED BY <2>1, <2>2, <2>3, <2>4
<1>3. CASE FlushStep
  BY <1>1, <1>3 DEF FlushStep, FlushUsage, FlushNodeUsage, FlushDone, NextAccount,
     ReadUpload, ReadDownload, ReadRequests, UpdateRow, RereadRequests, DecrUsage,
     RoundFails, DecrFails, DecrReplyLost, history
<1>4. CASE AdminStep
  BY <1>1, <1>4 DEF AdminStep, CreateRow, DeleteRow, CleanupRuntime, CleanupFails, RenameUser,
     CopyRow, SaveRow, history
<1>5. CASE Restart \/ UNCHANGED vars
  BY <1>1, <1>5 DEF Restart, vars
<1> QED BY <1>2, <1>3, <1>4, <1>5 DEF Next

(* The others only add to what the round is about to read, and to the row. *)
LEMMA OthersLeaveWay ==
  ASSUME Typing, RowsKnown, Pending, [Next]_vars, UNCHANGED flush,
         NEW a \in Accounts \ purged', NEW k \in Nat, OnItsWay(a, k)
  PROVE  OnItsWay(a, k)'
<1>0. a \in Accounts
  OBVIOUS
<1>1. UpdateRow => flush' # flush
  BY DEF UpdateRow, Typing, TypeOK, Flushes
<1>2. WaitingKept(a)
  BY <1>1, StepWaiting
<1>3. usedBytes'[a] >= usedBytes[a]
  <2>1. CASE UNCHANGED vars
    BY <1>0, <2>1, AmountsTyped DEF vars
  <2>2. CASE Next
    BY <2>2, RowGrows
  <2> QED BY <2>1, <2>2
<1>4. /\ usedBytes[a] \in Int /\ usage[a].down \in Int /\ flush.cap.up \in Int
      /\ Bytes(flush.cap) \in Int
  BY <1>0, AmountsTyped
<1>5. usedBytes'[a] \in Int /\ usage'[a].down \in Int
  <2>1. Typing'
    BY NextTyping
  <2>2. usage'[a] \in Counters
    BY <1>0, <2>1 DEF Typing, TypeOK
  <2> QED BY <1>0, <2>1, <2>2 DEF Typing, TypeOK, Counters
<1>6. CASE flush.acct = a /\ flush.pc = "down" /\ usedBytes[a] + flush.cap.up + usage[a].down >= k
  <2>1. WaitingDown(a) = usage[a].down /\ WaitingDown(a)' = usage'[a].down
    BY <1>0, <1>4, <1>5, <1>6 DEF WaitingDown, Ahead
  <2>2. usage'[a].down >= usage[a].down
    BY <1>2, <2>1 DEF WaitingKept
  <2>3. usedBytes'[a] + flush.cap.up + usage'[a].down >= k
    BY <1>3, <1>4, <1>5, <1>6, <2>2
  <2> QED BY <1>6, <2>3 DEF OnItsWay
<1>7. CASE /\ flush.acct = a /\ flush.pc \in {"reqs", "update"}
           /\ usedBytes[a] + Bytes(flush.cap) >= k
  <2>1. usedBytes'[a] + Bytes(flush.cap) >= k
    BY <1>3, <1>4, <1>5, <1>7
  <2> QED BY <1>7, <2>1 DEF OnItsWay
<1> QED BY <1>6, <1>7 DEF OnItsWay

(* A step of the flush without a failure brings the account nearer to its  *)
(* turn, or its turn nearer to the UPDATE.                                 *)
LEMMA FlushKeepsWay ==
  ASSUME Typing, RowsKnown, Solvent, KeysHold, FlushStep, faults' = faults,
         NEW a \in Accounts \ Shadowed, NEW k \in Nat,
         Owed(a, k), OnItsWay(a, k), usedBytes'[a] < k
  PROVE  OnItsWay(a, k)'
<1>0. a \in Accounts /\ a \in Lasting /\ flush \in Flushes /\ usedBytes[a] < k
  BY DEF Owed, Typing, TypeOK
<1>1. ~Fault
  BY DEF Fault, Typing, TypeOK
<1>2. ASSUME NEW value, NEW result, Get(value, result) PROVE result = value
  BY <1>1, <1>2 DEF Get
<1>3. /\ usedBytes[a] \in Int /\ usage[a].up \in Int /\ usage[a].down \in Int
      /\ flush.cap.up \in Int /\ flush.cap.down \in Int
  BY <1>0, AmountsTyped
<1>4. ASSUME ~Ahead(a) PROVE a \in keys
  BY <1>0, <1>4, OwedHasKey
<1>5. ASSUME flush.pc # "idle", flush.acct # a \/ flush.pc \notin {"up", "down", "reqs", "update"},
             flush'.phase = flush.phase, flush'.todo = flush.todo
      PROVE  OnItsWay(a, k)'
  BY <1>5 DEF OnItsWay
<1>6. CASE FlushUsage
  <2>1. /\ flush.pc = "idle" /\ flush'.phase = "users"
        /\ flush'.todo = (keys \cap Users) \ Shadowed
    BY <1>6 DEF FlushUsage, Idle
  <2>2. a \in keys
    BY <1>4, <2>1 DEF Ahead
  <2> QED BY <1>0, <2>1, <2>2 DEF OnItsWay
<1>7. CASE FlushNodeUsage
  <2>1. /\ flush.pc = "pick" /\ flush.todo = {} /\ flush'.todo = keys \cap Nodes
    BY <1>7 DEF FlushNodeUsage, Idle
  <2>2. a \in keys
    BY <1>4, <2>1 DEF Ahead
  <2>3. a \in Nodes
    BY <2>1 DEF OnItsWay
  <2> QED BY <2>1, <2>2, <2>3 DEF OnItsWay
<1>8. CASE FlushDone
  BY <1>8 DEF FlushDone, OnItsWay
<1>9. ASSUME NEW b \in Accounts, NextAccount(b) PROVE OnItsWay(a, k)'
  <2>1. /\ flush.pc = "pick" /\ flush'.pc = "up" /\ flush'.acct = b
        /\ flush'.phase = flush.phase /\ flush'.todo = flush.todo \ {b}
    BY <1>9 DEF NextAccount
  <2> QED BY <2>1 DEF OnItsWay
<1>10. CASE ReadUpload
  <2>1. PICK v \in {0, usage[flush.acct].up} :
          /\ Get(usage[flush.acct].up, v)
          /\ flush' = [flush EXCEPT !.pc = "down", !.cap.up = v]
    BY <1>10 DEF ReadUpload
  <2>2. /\ flush.pc = "up" /\ flush'.pc = "down" /\ flush'.phase = flush.phase
        /\ flush'.todo = flush.todo /\ flush'.acct = flush.acct /\ flush'.cap.up = v
        /\ UNCHANGED <<usedBytes, usage>>
    BY <1>0, <1>10, <2>1 DEF ReadUpload, Flushes, Counters, database, redis
  <2>3. CASE flush.acct = a
    <3>1. v = usage[a].up
      BY <1>2, <2>1, <2>3
    <3>2. usedBytes[a] + usage[a].up + usage[a].down >= k
      BY <1>0, <2>2, OwedWaits DEF Ahead
    <3> QED BY <2>2, <2>3, <3>1, <3>2 DEF OnItsWay
  <2> QED BY <1>5, <2>2, <2>3
<1>11. CASE ReadDownload
  <2>1. PICK v \in {0, usage[flush.acct].down} :
          /\ Get(usage[flush.acct].down, v)
          /\ flush' = [flush EXCEPT
                !.pc = IF flush.phase = "users" /\ flush.cap.up + v = 0
                         THEN "pick" ELSE "reqs",
                !.cap.down = v]
    BY <1>11 DEF ReadDownload
  <2>2. /\ flush.pc = "down" /\ flush'.phase = flush.phase
        /\ flush'.todo = flush.todo /\ flush'.acct = flush.acct
        /\ flush'.cap.up = flush.cap.up /\ flush'.cap.down = v
        /\ flush'.pc = IF flush.phase = "users" /\ flush.cap.up + v = 0 THEN "pick" ELSE "reqs"
        /\ UNCHANGED <<usedBytes, usage>>
    BY <1>0, <1>11, <2>1 DEF ReadDownload, Flushes, Counters, database, redis
  <2>3. CASE flush.acct = a /\ usedBytes[a] + flush.cap.up + usage[a].down >= k
    <3>1. v = usage[a].down
      BY <1>2, <2>1, <2>3
    <3>2. flush.cap.up + v # 0
      BY <1>0, <1>3, <2>3, <3>1
    <3>3. flush'.pc = "reqs"
      BY <2>2, <3>2
    <3>4. usedBytes[a] + (flush.cap.up + v) >= k
      BY <1>3, <2>3, <3>1
    <3> QED BY <2>2, <2>3, <3>3, <3>4 DEF OnItsWay, Bytes
  <2>4. CASE ~(flush.acct = a /\ usedBytes[a] + flush.cap.up + usage[a].down >= k)
    BY <2>2, <2>4 DEF OnItsWay
  <2> QED BY <2>3, <2>4
<1>12. CASE ReadRequests
  <2>1. PICK v \in {0, usage[flush.acct].reqs} :
          flush' = [flush EXCEPT
                      !.pc = IF flush.phase = "nodes" /\ flush.cap = Zero /\ v = 0
                               THEN "pick" ELSE "update",
                      !.cap.reqs = v]
    BY <1>12 DEF ReadRequests
  <2>2. /\ flush.pc = "reqs" /\ flush'.phase = flush.phase
        /\ flush'.todo = flush.todo /\ flush'.acct = flush.acct
        /\ flush'.cap.up = flush.cap.up /\ flush'.cap.down = flush.cap.down
        /\ flush'.pc = IF flush.phase = "nodes" /\ flush.cap = Zero /\ v = 0
                         THEN "pick" ELSE "update"
        /\ UNCHANGED usedBytes
    BY <1>0, <1>12, <2>1 DEF ReadRequests, Flushes, Counters, database
  <2>3. CASE flush.acct = a /\ usedBytes[a] + Bytes(flush.cap) >= k
    <3>1. flush.cap # Zero
      BY <1>0, <1>3, <2>3 DEF Bytes, Zero
    <3>2. flush'.pc = "update" /\ Bytes(flush'.cap) = Bytes(flush.cap)
      BY <2>2, <3>1 DEF Bytes
    <3> QED BY <2>2, <2>3, <3>2 DEF OnItsWay
  <2>4. CASE ~(flush.acct = a /\ usedBytes[a] + Bytes(flush.cap) >= k)
    BY <2>2, <2>4 DEF OnItsWay
  <2> QED BY <2>3, <2>4
<1>13. CASE UpdateRow
  <2>1. flush.pc = "update" /\ flush'.phase = flush.phase /\ flush'.todo = flush.todo
    BY <1>0, <1>13 DEF UpdateRow, Flushes
  <2>2. CASE flush.acct = a /\ usedBytes[a] + Bytes(flush.cap) >= k
    <3>1. a \in rows
      BY <1>0, <2>1, <2>2 DEF RowsKnown, Reading
    <3>2. usedBytes'[a] = usedBytes[a] + Bytes(flush.cap)
      BY <1>0, <1>13, <2>2, <3>1 DEF UpdateRow, Typing, TypeOK
    <3>3. \A x, y \in Int : y >= k /\ x = y => ~(x < k)
      OBVIOUS
    <3>4. usedBytes[a] + Bytes(flush.cap) \in Int
      BY <1>3 DEF Bytes
    <3> QED BY <2>2, <3>2, <3>3, <3>4, Zenon
  <2>3. CASE ~(flush.acct = a /\ usedBytes[a] + Bytes(flush.cap) >= k)
    BY <2>1, <2>3 DEF OnItsWay
  <2> QED BY <2>2, <2>3
<1>14. CASE RereadRequests
  <2>1. flush.pc = "again" /\ flush'.phase = flush.phase /\ flush'.todo = flush.todo
    BY <1>0, <1>14 DEF RereadRequests, Flushes
  <2> QED BY <1>5, <2>1
<1>15. CASE DecrUsage
  <2>1. flush.pc = "decr" /\ flush'.phase = flush.phase /\ flush'.todo = flush.todo
    BY <1>0, <1>15 DEF DecrUsage, Flushes
  <2> QED BY <1>5, <2>1
<1>16. CASE RoundFails \/ DecrFails \/ DecrReplyLost
  BY <1>1, <1>16 DEF RoundFails, DecrFails, DecrReplyLost
<1> QED BY <1>6, <1>7, <1>8, <1>9, <1>10, <1>11, <1>12, <1>13, <1>14, <1>15, <1>16 DEF FlushStep

LEMMA RoundKeepsWay ==
  ASSUME Typing, RowsKnown, Pending, Solvent, KeysHold, [Next]_vars,
         NEW a \in Accounts \ Shadowed, NEW k \in Nat, Owed(a, k), OnItsWay(a, k)
  PROVE  \/ Owed(a, k)' /\ OnItsWay(a, k)'
         \/ a \in purged' \/ usedBytes'[a] >= k
         \/ faults' > faults
<1>0. Typing'
  BY NextTyping
<1>1. SUFFICES ASSUME a \notin purged', usedBytes'[a] < k, faults' = faults
               PROVE  Owed(a, k)' /\ OnItsWay(a, k)'
  <2>1. usedBytes'[a] \in Int
    BY <1>0 DEF Typing, TypeOK
  <2>2. faults \in Nat /\ faults' \in {faults, faults + 1}
    BY FaultsByOne, BoundsAssumption DEF Typing, TypeOK
  <2> QED BY <2>1, <2>2
<1>2. Owed(a, k)'
  <2>1. Bytes(recorded'[a]) >= k
    <3>1. Bytes(recorded[a]) \in Int /\ k <= Bytes(recorded[a])
      BY AmountsTyped DEF Owed
    <3>2. Bytes(recorded'[a]) \in Int
      <4>1. recorded'[a] \in Counters
        BY <1>0 DEF Typing, TypeOK
      <4> QED BY <4>1 DEF Counters, Bytes
    <3> QED BY <3>1, <3>2, RecordedGrows
  <2> QED BY <1>1, <2>1 DEF Owed, Lasting
<1>3. OnItsWay(a, k)'
  <2>1. CASE RequestStep \/ AdminStep \/ UNCHANGED vars
    BY <1>1, <2>1, OnlyFlushMoves, OthersLeaveWay
  <2>2. CASE FlushStep
    BY <1>1, <2>2, FlushKeepsWay
  <2>3. CASE Restart
    BY <1>1, <2>3 DEF Restart, Fault, Typing, TypeOK
  <2> QED BY <2>1, <2>2, <2>3 DEF Next
<1> QED BY <1>2, <1>3

(* Every round ends, whatever is recorded meanwhile, and one without a     *)
(* failure bills all that was recorded before it came to the account: what *)
(* EventuallyBilled needs beside fairness.                                 *)
THEOREM UsageRoundsBill == Spec => RoundsBill
<1> DEFINE Inv == Typing /\ RowsKnown /\ Pending /\ BytesConserved /\ RepeatsAdd /\ KeysHold /\ Finite
           Step == /\ flush' \in {flush, Idle} \/ Behind(flush', flush)
                   /\ \A a \in Accounts \ Shadowed : \A k \in 1..Bytes(recorded[a]) :
                        Owed(a, k) /\ OnItsWay(a, k)
                          => \/ Owed(a, k)' /\ OnItsWay(a, k)'
                             \/ a \in purged' \/ usedBytes'[a] >= k
                             \/ faults' > faults
<1>1. Init => Inv
  <2>1. Init => RepeatsAdd /\ KeysHold
    BY DEF Init, RepeatsAdd, KeysHold, Lasting
  <2>2. Init => Finite
    BY FS_EmptySet DEF Init, Finite, Idle
  <2> QED BY <2>1, <2>2, InitTyping, InitKnown
<1>2. Inv /\ [Next]_vars => Inv'
  BY NextTyping, RowsKnownStep, PendingStep, BytesStep, RepeatsAddStep, KeysHoldStep, FiniteStep
<1>3. Inv /\ [Next]_vars => Step
  <2> SUFFICES ASSUME Inv, [Next]_vars PROVE Step
    OBVIOUS
  <2>1. flush' \in {flush, Idle} \/ Behind(flush', flush)
    BY RoundAdvances
  <2>2. ASSUME NEW a \in Accounts \ Shadowed, NEW k \in 1..Bytes(recorded[a]),
               Owed(a, k), OnItsWay(a, k)
        PROVE  \/ Owed(a, k)' /\ OnItsWay(a, k)'
               \/ a \in purged' \/ usedBytes'[a] >= k
               \/ faults' > faults
    <3>1. k \in Nat
      BY AmountsTyped
    <3> QED BY <2>2, <3>1, RoundKeepsWay DEF Solvent
  <2> QED BY <2>1, <2>2
<1> QED BY <1>1, <1>2, <1>3, PTL DEF Spec, RoundsBill
=============================================================================
