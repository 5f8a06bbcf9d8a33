----------------------- MODULE SubscriptionSync_proofs -----------------------
(***************************************************************************)
(* Theorems about SubscriptionSync for any number of subscriptions, nodes  *)
(* and handlers, any lists and any failures.                               *)
(***************************************************************************)
EXTENDS SubscriptionSync, SequenceTheorems, FiniteSetTheorems, TLAPS

(* What a worker is doing goes with its kind.                              *)
Role(x) ==
    /\ x.pc \in {"fetch", "find", "link", "prune", "unlink"} => x.kind = "sync"
    /\ x.pc \in {"upsert", "reread"} => x.kind \in {"sync", "import"}
    /\ x.pc \in {"select", "unlinkAll", "sweep"} => x.kind = "delete"
    /\ x.pc \in {"count", "purge"} => x.kind \in {"sync", "delete"}
    /\ x.pc \in {"unlinkNode", "dropNode"} <=> x.kind = "drop"
    /\ x.pc = "probe" <=> x.kind = "check"
    /\ x.kind = "check" => x.list # <<>>
    /\ x.kind \in {"sync", "delete"} => x.sub \in Subs
    /\ x.kind # "delete" \/ x.pc = "select" => x.pending = {}
    /\ x.pc \in {"reread", "find", "link"} => x.todo # <<>>
    /\ x.pc \in HoldingSteps \cup {"probe"} => x.node # NoId

(* The tables, and who may hold what.                                      *)
Tables ==
    /\ sub \in [Subs -> [life : {"new", "present", "deleted"}, enabled : BOOLEAN, due : BOOLEAN]]
    /\ offer \in [Subs -> Seq(Addresses)]
    /\ rows \in [Addresses -> Ids \cup {NoId}]
    /\ \A a, b \in Addresses :
          rows[a] # NoId /\ rows[b] # NoId /\ a # b => rows[a] # rows[b] /\ Endpoint[a] # Endpoint[b]
    /\ links \subseteq Links
    /\ lastId \in Nat /\ lastLink \in Nat
    /\ round \subseteq Subs
    /\ ops \in 0..MaxOps /\ edits \in 0..MaxEdits /\ faults \in 0..MaxFaults
    /\ manual \subseteq Ids /\ disturbed \subseteq Ids

Staff ==
    /\ worker \in [Workers -> WorkerStates \cup {Idle}]
    /\ \A w \in Workers : worker[w] # Idle => Role(worker[w])

Exclusive ==
    \A v, w \in Workers : v # w => Held(worker[v]) \cap Held(worker[w]) \subseteq disturbed

(* What a worker knows of the node that it holds, as long as nobody else   *)
(* holds it.                                                               *)
Knows(x) ==
    /\ x.pc = "reread" => rows[Head(x.todo)] = x.node \/ ~HasRow(x.node)
    /\ x.pc = "reread" /\ x.kind = "import" => x.node \in manual \/ LinksTo(x.node) # {}
    /\ x.pc \in {"find", "link"} => HasRow(x.node)
    /\ x.pc = "link" => \A l \in LinksTo(x.node) : l.sub # x.sub
    /\ x.pc \in {"purge", "dropNode"} => LinksTo(x.node) = {}

Informed == \A w \in Workers : worker[w] # Idle /\ worker[w].node \notin disturbed => Knows(worker[w])

(* What holds of a node.                                                   *)
Sound(n) ==
    /\ LinksTo(n) # {} => HasRow(n)
    /\ \A l, k \in LinksTo(n) : l.sub = k.sub => l = k
    /\ HasRow(n) => n \in manual \/ LinksTo(n) # {} \/ \E w \in Workers : n \in Held(worker[w])

Nodes == \A n \in Ids \ disturbed : Sound(n)

IInv == Tables /\ Staff /\ Exclusive /\ Informed /\ Nodes

-----------------------------------------------------------------------------
(* The workers.                                                            *)
Growing ==
    /\ lastId' \in Nat /\ lastLink' \in Nat
    /\ lastId <= lastId' /\ lastLink <= lastLink'

LEMMA Grows ==
  ASSUME Tables, Growing
  PROVE  /\ Ids \subseteq Ids' /\ Links \subseteq Links'
         /\ WorkerStates \subseteq WorkerStates'
<1>1. Ids \subseteq Ids'
  BY DEF Tables, Growing, Ids
<1>2. 1..lastLink \subseteq 1..lastLink'
  BY DEF Tables, Growing
<1>3. Links \subseteq Links'
  BY <1>1, <1>2 DEF Links
<1>4. WorkerStates \subseteq WorkerStates'
  BY <1>1, <1>3 DEF WorkerStates
<1> QED BY <1>1, <1>3, <1>4

LEMMA Working ==
  ASSUME Staff, NEW w \in Workers, worker[w] # Idle \/ worker[w].pc \in Steps
  PROVE  worker[w] \in WorkerStates /\ Role(worker[w]) /\ worker[w] # Idle
BY DEF Staff, Idle, Steps

LEMMA NotIdle ==
  ASSUME NEW x \in WorkerStates PROVE x # Idle
BY DEF WorkerStates, Idle, Steps

LEMMA GrowingNext ==
  ASSUME Tables, Next
  PROVE  Growing
<1> USE DEF tables, Growing
<1>0. lastId \in Nat /\ lastLink \in Nat /\ lastId + 1 \in Nat /\ lastLink + 1 \in Nat
      /\ lastId <= lastId + 1 /\ lastLink <= lastLink + 1 /\ lastId <= lastId /\ lastLink <= lastLink
  BY DEF Tables
<1>1. ASSUME NEW w \in Workers, WorkerStep(w) PROVE Growing
  BY <1>0, <1>1 DEF WorkerStep, ImportStep, DeletionStep, FetchSubscription, UpsertFails, Upsert, Reread,
     FindLink, CreateLink, ImportEnds, ListLinks, Unlink, CountLinks, DeleteRow, Stamp, SelectNodes,
     UnlinkAll, Sweep, RemoveSubscription, UnlinkNode, DropNode, SaveChecked
<1>2. ASSUME NEW w \in Workers, Handler(w) PROVE Growing
  BY <1>0, <1>2 DEF Handler, SyncSubscription, ImportNodes, DeleteSubscription, DeleteNode, CheckNode, Request
<1>3. ASSUME NEW w \in Workers, Fails(w) \/ IgnoredError(w) PROVE Growing
  BY <1>0, <1>3 DEF Fails, IgnoredError
<1>4. CASE Environment \/ Restart
  BY <1>0, <1>4 DEF Environment, Publish, CreateSubscription, UpdateSubscription, TimePasses, EditRow, Restart
<1>5. CASE StartRound \/ \E s \in Subs : SyncNext(s)
  BY <1>0, <1>5 DEF StartRound, SyncNext
<1> QED BY <1>1, <1>2, <1>3, <1>4, <1>5 DEF Next, TickerStep, Workers

LEMMA StaffStep ==
  ASSUME Tables, Staff, Growing, NEW w \in Workers, NEW x, worker' = [worker EXCEPT ![w] = x],
         x = Idle \/ (x \in WorkerStates' /\ Role(x))
  PROVE  Staff'
<1>1. worker' \in [Workers -> WorkerStates' \cup {Idle}]
  BY Grows DEF Staff
<1>2. ASSUME NEW v \in Workers, worker'[v] # Idle PROVE Role(worker'[v])
  <2>1. CASE v = w
    BY <1>2, <2>1 DEF Staff
  <2>2. CASE v # w
    BY <1>2, <2>2 DEF Staff
  <2> QED BY <2>1, <2>2
<1> QED BY <1>1, <1>2 DEF Staff, Idle

LEMMA StaffStart ==
  ASSUME Tables, Staff, Growing, NEW w \in Workers, NEW x, Start(w, x),
         x = Idle \/ (x \in WorkerStates' /\ Role(x))
  PROVE  Staff'
<1>1. ASSUME NEW v \in Workers PROVE worker'[v] = Idle \/ (worker'[v] \in WorkerStates' /\ Role(worker'[v]))
  <2>1. CASE v = w
    BY <2>1 DEF Start
  <2>2. CASE v # w /\ worker[v] = Idle
    BY <2>2 DEF Start
  <2>3. CASE v # w /\ worker[v] # Idle
    <3>1. worker[v] \in WorkerStates' /\ Role(worker[v])
      BY <2>3, Working, Grows
    <3>2. worker'[v] = [worker[v] EXCEPT !.sole = FALSE]
      BY <2>3 DEF Start
    <3>3. worker'[v] \in WorkerStates'
      BY <3>1, <3>2 DEF WorkerStates
    <3>4. Role(worker'[v])
      BY <3>1, <3>2 DEF Role, WorkerStates
    <3> QED BY <3>3, <3>4
  <2> QED BY <2>1, <2>2, <2>3
<1>2. worker' \in [Workers -> WorkerStates' \cup {Idle}]
  BY <1>1 DEF Start, Idle
<1> QED BY <1>1, <1>2 DEF Staff, Idle

(* The import.                                                             *)
LEMMA StaffImport ==
  ASSUME Tables, Staff, Growing, NEW w \in Workers, ImportStep(w)
  PROVE  Staff'
<1> USE DEF At, Become, Goto, HoldingSteps
<1>1. PICK y : y = worker[w]
  OBVIOUS
<1>2. y \in WorkerStates /\ y \in WorkerStates' /\ Role(y)
  <2>1. y.pc \in Steps
    BY <1>1 DEF ImportStep, FetchSubscription, UpsertFails, Upsert, Reread, FindLink, CreateLink, ImportEnds, Steps
  <2> QED BY <1>1, <2>1, Working, Grows
<1>3. ASSUME NEW x, worker' = [worker EXCEPT ![w] = x], x = Idle \/ (x \in WorkerStates' /\ Role(x))
      PROVE  Staff'
  BY <1>3, StaffStep
<1>4. CASE FetchSubscription(w)
  <2>1. PICK list : list = offer[y.sub]
    OBVIOUS
  <2>2. y.pc = "fetch" /\ worker' = [worker EXCEPT ![w] = [y EXCEPT !.pc = "upsert", !.list = list, !.todo = list]]
    BY <1>1, <1>4, <2>1 DEF FetchSubscription
  <2>3. y.sub \in Subs /\ list \in Seq(Addresses)
    BY <1>2, <2>1, <2>2 DEF Role, Tables
  <2>4. PICK x : x = [y EXCEPT !.pc = "upsert", !.list = list, !.todo = list]
    OBVIOUS
  <2>5. x \in WorkerStates'
    BY <1>2, <2>3, <2>4 DEF WorkerStates, Steps
  <2>6. Role(x)
    BY <1>2, <2>2, <2>4 DEF Role, WorkerStates
  <2> QED BY <1>3, <2>2, <2>4, <2>5, <2>6
<1>5. CASE UpsertFails(w)
  BY <1>3, <1>5 DEF UpsertFails
<1>6. CASE Upsert(w)
  <2>1. PICK a : a = Head(y.todo)
    OBVIOUS
  <2>2. y.pc = "upsert" /\ y.todo # <<>>
        /\ worker' = [worker EXCEPT ![w] = [y EXCEPT !.pc = "reread", !.node = rows'[a]]]
    BY <1>1, <1>6, <2>1 DEF Upsert
  <2>3. a \in Addresses
    BY <1>2, <2>1, <2>2, HeadTailProperties DEF WorkerStates
  <2>4. rows'[a] \in Ids' \ {NoId}
    <3>1. CASE rows[a] = NoId
      <4>1. rows'[a] = lastId + 1 /\ lastId' = lastId + 1
        BY <1>1, <1>6, <2>1, <2>3, <3>1 DEF Upsert, Tables
      <4>2. lastId \in Nat
        BY DEF Tables
      <4>3. \A n \in Nat : n + 1 \in 1..(n + 1) /\ n + 1 # 0
        OBVIOUS
      <4> QED BY <4>1, <4>2, <4>3 DEF Ids, NoId
    <3>2. CASE rows[a] # NoId
      <4>1. rows'[a] = rows[a]
        BY <1>1, <1>6, <2>1, <3>2 DEF Upsert
      <4>2. rows[a] \in Ids
        BY <2>3, <3>2 DEF Tables
      <4> QED BY <3>2, <4>1, <4>2, Grows
    <3> QED BY <3>1, <3>2
  <2>5. PICK i : i = rows'[a]
    OBVIOUS
  <2>6. PICK x : x = [y EXCEPT !.pc = "reread", !.node = i]
    OBVIOUS
  <2>7. x \in WorkerStates'
    BY <1>2, <2>4, <2>5, <2>6 DEF WorkerStates, Steps
  <2>8. Role(x)
    BY <1>2, <2>2, <2>4, <2>5, <2>6 DEF Role, WorkerStates
  <2> QED BY <1>3, <2>2, <2>5, <2>6, <2>7, <2>8
<1>7. CASE Reread(w)
  <2>1. PICK i : i = rows[Head(y.todo)]
    OBVIOUS
  <2>2. y.pc = "reread" /\ y.todo # <<>>
    BY <1>1, <1>2, <1>7 DEF Reread, Role
  <2>3. Head(y.todo) \in Addresses /\ Tail(y.todo) \in Seq(Addresses)
    BY <1>2, <2>2, HeadTailProperties DEF WorkerStates
  <2>4. i \in Ids' \cup {NoId}
    BY <2>1, <2>3, Grows DEF Tables
  <2>5. PICK x : worker' = [worker EXCEPT ![w] = x] /\
          \/ i = NoId /\ x = [y EXCEPT !.pc = "upsert", !.todo = Tail(@)]
          \/ i # NoId /\ y.kind = "sync" /\ x = [[y EXCEPT !.node = i] EXCEPT !.pc = "find"]
          \/ i # NoId /\ y.kind # "sync" /\ x = Imported([y EXCEPT !.node = i])
    BY <1>1, <1>7, <2>1 DEF Reread
  <2>6. CASE i = NoId /\ x = [y EXCEPT !.pc = "upsert", !.todo = Tail(@)]
    <3>1. x \in WorkerStates'
      BY <1>2, <2>3, <2>6 DEF WorkerStates, Steps
    <3>2. Role(x)
      BY <1>2, <2>2, <2>6 DEF Role, WorkerStates
    <3> QED BY <1>3, <2>5, <3>1, <3>2
  <2>7. CASE i # NoId /\ y.kind = "sync" /\ x = [[y EXCEPT !.node = i] EXCEPT !.pc = "find"]
    <3>1. x \in WorkerStates'
      BY <1>2, <2>4, <2>7 DEF WorkerStates, Steps
    <3>2. Role(x)
      BY <1>2, <2>2, <2>7 DEF Role, WorkerStates
    <3> QED BY <1>3, <2>5, <3>1, <3>2
  <2>8. CASE i # NoId /\ y.kind # "sync" /\ x = Imported([y EXCEPT !.node = i])
    <3>1. PICK z : z = [y EXCEPT !.node = i]
      OBVIOUS
    <3>2. z \in WorkerStates' /\ z.todo = y.todo /\ z.node = i /\ z.pc = "reread" /\ z.kind = y.kind
      BY <1>2, <2>2, <2>4, <3>1 DEF WorkerStates
    <3>3. Role(z)
      BY <1>2, <2>2, <2>8, <3>1 DEF Role, WorkerStates
    <3>4. i \in Ids' /\ x = Imported(z)
      BY <2>4, <2>8, <3>1
    <3>5. x \in WorkerStates'
      BY <2>3, <3>2, <3>4 DEF WorkerStates, Steps, Imported
    <3>6. Role(x)
      BY <2>2, <3>2, <3>3, <3>4 DEF Role, WorkerStates, Imported
    <3> QED BY <1>3, <2>5, <3>5, <3>6
  <2> QED BY <2>5, <2>6, <2>7, <2>8
<1>8. CASE FindLink(w) \/ CreateLink(w)
  <2>1. y.pc \in {"find", "link"} /\ y.todo # <<>> /\ y.kind = "sync" /\ y.node # NoId
    BY <1>1, <1>2, <1>8 DEF FindLink, CreateLink, Role
  <2>2. Tail(y.todo) \in Seq(Addresses)
    BY <1>2, <2>1, HeadTailProperties DEF WorkerStates
  <2>3. PICK x : worker' = [worker EXCEPT ![w] = x] /\ (x = Imported(y) \/ x = [y EXCEPT !.pc = "link"])
    BY <1>1, <1>8 DEF FindLink, CreateLink
  <2>4. CASE x = Imported(y)
    <3>1. x \in WorkerStates'
      BY <1>2, <2>1, <2>2, <2>4 DEF WorkerStates, Steps, Imported
    <3>2. Role(x)
      BY <1>2, <2>1, <2>4 DEF Role, WorkerStates, Imported
    <3> QED BY <1>3, <2>3, <3>1, <3>2
  <2>5. CASE x = [y EXCEPT !.pc = "link"]
    <3>1. x \in WorkerStates'
      BY <1>2, <2>5 DEF WorkerStates, Steps
    <3>2. Role(x)
      BY <1>2, <2>1, <2>5 DEF Role, WorkerStates
    <3> QED BY <1>3, <2>3, <3>1, <3>2
  <2> QED BY <2>3, <2>4, <2>5
<1>9. CASE ImportEnds(w)
  <2>1. CASE y.kind = "sync"
    <3>1. PICK x : x = [y EXCEPT !.pc = "prune"]
      OBVIOUS
    <3>2. y.pc = "upsert" /\ worker' = [worker EXCEPT ![w] = x]
      BY <1>1, <1>9, <2>1, <3>1 DEF ImportEnds
    <3>3. x \in WorkerStates'
      BY <1>2, <3>1 DEF WorkerStates, Steps
    <3>4. Role(x)
      BY <1>2, <2>1, <3>1, <3>2 DEF Role, WorkerStates
    <3> QED BY <1>3, <3>2, <3>3, <3>4
  <2>2. CASE y.kind # "sync"
    BY <1>1, <1>3, <1>9, <2>2 DEF ImportEnds
  <2> QED BY <2>1, <2>2
<1> QED BY <1>4, <1>5, <1>6, <1>7, <1>8, <1>9 DEF ImportStep

(* The deletions, and the health check.                                    *)
LEMMA StaffDeletion ==
  ASSUME Tables, Staff, Growing, NEW w \in Workers, DeletionStep(w) \/ SaveChecked(w)
  PROVE  Staff'
<1> USE DEF At, Become, Goto, HoldingSteps
<1>1. PICK y : y = worker[w]
  OBVIOUS
<1>2. y \in WorkerStates /\ y \in WorkerStates' /\ Role(y)
  <2>1. y.pc \in Steps
    BY <1>1 DEF DeletionStep, ListLinks, Unlink, CountLinks, DeleteRow, Stamp, SelectNodes, UnlinkAll, Sweep,
                RemoveSubscription, UnlinkNode, DropNode, SaveChecked, Steps
  <2> QED BY <1>1, <2>1, Working, Grows
<1>3. ASSUME NEW x, worker' = [worker EXCEPT ![w] = x], x = Idle \/ (x \in WorkerStates' /\ Role(x))
      PROVE  Staff'
  BY <1>3, StaffStep
<1>4. CASE Stamp(w) \/ RemoveSubscription(w) \/ DropNode(w) \/ SaveChecked(w)
  BY <1>3, <1>4 DEF Stamp, RemoveSubscription, DropNode, SaveChecked
<1>5. CASE ListLinks(w)
  <2>1. PICK s : s = {l \in LinksOf(y.sub) : l.node \notin y.kept}
    OBVIOUS
  <2>2. PICK x : x = [y EXCEPT !.pc = "unlink", !.stale = s]
    OBVIOUS
  <2>3. y.pc = "prune" /\ worker' = [worker EXCEPT ![w] = x]
    BY <1>1, <1>5, <2>1, <2>2 DEF ListLinks
  <2>4. s \subseteq Links'
    BY <2>1, Grows DEF LinksOf, Tables
  <2>5. x \in WorkerStates'
    BY <1>2, <2>2, <2>4 DEF WorkerStates, Steps
  <2>6. Role(x)
    BY <1>2, <2>2, <2>3 DEF Role, WorkerStates
  <2> QED BY <1>3, <2>3, <2>5, <2>6
<1>6. CASE Unlink(w)
  <2>1. PICK l \in y.stale : worker' = [worker EXCEPT ![w] =
                [y EXCEPT !.pc = "count", !.stale = @ \ {l}, !.node = l.node]]
    BY <1>1, <1>6 DEF Unlink
  <2>2. y.pc = "unlink" /\ y.kind = "sync"
    BY <1>1, <1>2, <1>6 DEF Unlink, Role
  <2>3. l.node \in Ids' /\ l.node # NoId
    <3>1. l \in Links /\ l.node \in Ids
      BY <1>2, <2>1 DEF WorkerStates, Links
    <3> QED BY <3>1, Grows DEF Ids, NoId
  <2>4. PICK x : x = [y EXCEPT !.pc = "count", !.stale = @ \ {l}, !.node = l.node]
    OBVIOUS
  <2>5. x \in WorkerStates'
    BY <1>2, <2>3, <2>4 DEF WorkerStates, Steps
  <2>6. Role(x)
    BY <1>2, <2>2, <2>3, <2>4 DEF Role, WorkerStates
  <2> QED BY <1>3, <2>1, <2>4, <2>5, <2>6
<1>7. CASE CountLinks(w) \/ DeleteRow(w)
  <2>1. y.pc \in {"count", "purge"} /\ y.kind \in {"sync", "delete"} /\ y.node # NoId
    BY <1>1, <1>2, <1>7 DEF CountLinks, DeleteRow, Role
  <2>2. PICK x : worker' = [worker EXCEPT ![w] = x] /\ (x = Next1(y) \/ x = [y EXCEPT !.pc = "purge"])
    BY <1>1, <1>7 DEF CountLinks, DeleteRow
  <2>3. x \in WorkerStates'
    BY <1>2, <2>2 DEF WorkerStates, Steps, Next1
  <2>4. Role(x)
    BY <1>2, <2>1, <2>2 DEF Role, WorkerStates, Next1
  <2> QED BY <1>3, <2>2, <2>3, <2>4
<1>8. CASE SelectNodes(w)
  <2>1. PICK s : s = {l.node : l \in {k \in LinksOf(y.sub) : HasRow(k.node)}}
    OBVIOUS
  <2>2. PICK x : x = [y EXCEPT !.pc = "unlinkAll", !.pending = s]
    OBVIOUS
  <2>3. y.pc = "select" /\ worker' = [worker EXCEPT ![w] = x]
    BY <1>1, <1>8, <2>1, <2>2 DEF SelectNodes
  <2>4. s \subseteq Ids'
    <3>1. \A l \in links : l.node \in Ids
      BY DEF Tables, Links
    <3> QED BY <2>1, <3>1, Grows DEF LinksOf
  <2>5. x \in WorkerStates'
    BY <1>2, <2>2, <2>4 DEF WorkerStates, Steps
  <2>6. Role(x)
    BY <1>2, <2>2, <2>3 DEF Role, WorkerStates
  <2> QED BY <1>3, <2>3, <2>5, <2>6
<1>9. CASE UnlinkAll(w)
  <2>1. PICK x : x = [y EXCEPT !.pc = "sweep"]
    OBVIOUS
  <2>2. y.pc = "unlinkAll" /\ worker' = [worker EXCEPT ![w] = x]
    BY <1>1, <1>9, <2>1 DEF UnlinkAll
  <2>3. x \in WorkerStates'
    BY <1>2, <2>1 DEF WorkerStates, Steps
  <2>4. Role(x)
    BY <1>2, <2>1, <2>2 DEF Role, WorkerStates
  <2> QED BY <1>3, <2>2, <2>3, <2>4
<1>10. CASE Sweep(w)
  <2>1. PICK i \in y.pending : worker' = [worker EXCEPT ![w] =
                [y EXCEPT !.pc = "count", !.pending = @ \ {i}, !.node = i]]
    BY <1>1, <1>10 DEF Sweep
  <2>2. y.pc = "sweep" /\ y.kind = "delete"
    BY <1>1, <1>2, <1>10 DEF Sweep, Role
  <2>3. i \in Ids' /\ i # NoId
    <3>1. i \in Ids
      BY <1>2, <2>1 DEF WorkerStates
    <3> QED BY <3>1, Grows DEF Ids, NoId
  <2>4. PICK x : x = [y EXCEPT !.pc = "count", !.pending = @ \ {i}, !.node = i]
    OBVIOUS
  <2>5. x \in WorkerStates'
    BY <1>2, <2>3, <2>4 DEF WorkerStates, Steps
  <2>6. Role(x)
    BY <1>2, <2>2, <2>3, <2>4 DEF Role, WorkerStates
  <2> QED BY <1>3, <2>1, <2>4, <2>5, <2>6
<1>11. CASE UnlinkNode(w)
  <2>1. PICK x : x = [y EXCEPT !.pc = "dropNode"]
    OBVIOUS
  <2>2. y.pc = "unlinkNode" /\ worker' = [worker EXCEPT ![w] = x]
    BY <1>1, <1>11, <2>1 DEF UnlinkNode
  <2>3. x \in WorkerStates'
    BY <1>2, <2>1 DEF WorkerStates, Steps
  <2>4. Role(x)
    BY <1>2, <2>1, <2>2 DEF Role, WorkerStates
  <2> QED BY <1>3, <2>2, <2>3, <2>4
<1> QED BY <1>4, <1>5, <1>6, <1>7, <1>8, <1>9, <1>10, <1>11 DEF DeletionStep
LEMMA SyncingTyped ==
  ASSUME NEW s \in Subs, NEW b \in BOOLEAN
  PROVE  Syncing(s, b) \in WorkerStates /\ Role(Syncing(s, b))
<1>1. <<>> \in Seq(Addresses) /\ {} \in SUBSET Ids /\ {} \in SUBSET Links
  OBVIOUS
<1> QED BY <1>1 DEF Syncing, WorkerStates, Role, Steps, HoldingSteps

LEMMA DeletingTyped ==
  ASSUME NEW s \in Subs, NEW b \in BOOLEAN
  PROVE  Deleting(s, b) \in WorkerStates /\ Role(Deleting(s, b))
<1>1. <<>> \in Seq(Addresses) /\ {} \in SUBSET Ids /\ {} \in SUBSET Links
  OBVIOUS
<1> QED BY <1>1 DEF Deleting, Syncing, WorkerStates, Role, Steps, HoldingSteps

LEMMA ImportingTyped ==
  ASSUME NEW list \in Seq(Addresses), NEW b \in BOOLEAN
  PROVE  Importing(list, b) \in WorkerStates /\ Role(Importing(list, b))
<1>1. <<>> \in Seq(Addresses) /\ {} \in SUBSET Ids /\ {} \in SUBSET Links
  OBVIOUS
<1> QED BY <1>1 DEF Importing, Syncing, WorkerStates, Role, Steps, HoldingSteps

LEMMA DroppingTyped ==
  ASSUME NEW i \in Ids, NEW b \in BOOLEAN
  PROVE  Dropping(i, b) \in WorkerStates /\ Role(Dropping(i, b))
<1>1. <<>> \in Seq(Addresses) /\ {} \in SUBSET Ids /\ {} \in SUBSET Links
  OBVIOUS
<1>2. i # NoId
  BY DEF Ids, NoId
<1> QED BY <1>1, <1>2 DEF Dropping, Syncing, WorkerStates, Role, Steps, HoldingSteps

LEMMA CheckingTyped ==
  ASSUME NEW i \in Ids, NEW a \in Addresses, NEW b \in BOOLEAN
  PROVE  Checking(i, a, b) \in WorkerStates /\ Role(Checking(i, a, b))
<1>1. <<>> \in Seq(Addresses) /\ {} \in SUBSET Ids /\ {} \in SUBSET Links
  OBVIOUS
<1>2. i # NoId
  BY DEF Ids, NoId
<1>3. <<a>> \in Seq(Addresses) /\ <<a>> # <<>>
  OBVIOUS
<1> QED BY <1>1, <1>2, <1>3 DEF Checking, Syncing, WorkerStates, Role, Steps, HoldingSteps

(* What a handler starts.                                                  *)
Fresh(x, b) ==
    \/ \E s \in Subs : x = Syncing(s, b) \/ x = Deleting(s, b)
    \/ \E list \in Lists : x = Importing(list, b)
    \/ \E a \in Addresses : rows[a] # NoId /\ (x = Dropping(rows[a], b) \/ x = Checking(rows[a], a, b))

LEMMA FreshTyped ==
  ASSUME Tables, NEW b \in BOOLEAN, NEW x, Fresh(x, b)
  PROVE  x \in WorkerStates /\ Role(x)
<1>1. ASSUME NEW s \in Subs, x = Syncing(s, b) \/ x = Deleting(s, b)
      PROVE  x \in WorkerStates /\ Role(x)
  BY <1>1, SyncingTyped, DeletingTyped
<1>2. ASSUME NEW list \in Lists, x = Importing(list, b)
      PROVE  x \in WorkerStates /\ Role(x)
  BY <1>2, ImportingTyped, SyncAssumption
<1>3. ASSUME NEW a \in Addresses, rows[a] # NoId, x = Dropping(rows[a], b) \/ x = Checking(rows[a], a, b)
      PROVE  x \in WorkerStates /\ Role(x)
  <2>1. PICK i : i = rows[a]
    OBVIOUS
  <2>2. i \in Ids
    BY <1>3, <2>1 DEF Tables
  <2> QED BY <1>3, <2>1, <2>2, DroppingTyped, CheckingTyped
<1> QED BY <1>1, <1>2, <1>3 DEF Fresh

LEMMA HandlerStarts ==
  ASSUME NEW w \in Workers, Handler(w)
  PROVE  \E b \in BOOLEAN : \E x : Fresh(x, b) /\ worker[w] = Idle /\ Start(w, x)
         /\ UNCHANGED <<tables, offer, round, manual>>
<1>1. PICK b \in BOOLEAN : b = Alone
  BY DEF Alone
<1> QED BY <1>1 DEF Handler, SyncSubscription, ImportNodes, DeleteSubscription, DeleteNode, CheckNode, Request, Fresh

LEMMA StaffIgnored ==
  ASSUME Tables, Staff, Growing, NEW w \in Workers, IgnoredError(w)
  PROVE  Staff'
<1> USE DEF At, HoldingSteps
<1>1. PICK y : y = worker[w]
  OBVIOUS
<1>2. y \in WorkerStates /\ y \in WorkerStates' /\ Role(y)
  <2>1. y.pc \in Steps
    BY <1>1 DEF IgnoredError, Steps
  <2> QED BY <1>1, <2>1, Working, Grows
<1>3. ASSUME NEW z \in WorkerStates', Role(z), worker' = [worker EXCEPT ![w] = [z EXCEPT !.sole = FALSE]]
      PROVE  Staff'
  <2>1. PICK x : x = [z EXCEPT !.sole = FALSE]
    OBVIOUS
  <2>2. x \in WorkerStates'
    BY <1>3, <2>1 DEF WorkerStates
  <2>3. Role(x)
    BY <1>3, <2>1 DEF Role, WorkerStates
  <2> QED BY <1>3, <2>1, <2>2, <2>3, StaffStep
<1>4. PICK z : /\ worker' = [worker EXCEPT ![w] = [z EXCEPT !.sole = FALSE]]
               /\ \/ y.pc = "reread" /\ z = [y EXCEPT !.pc = "upsert", !.todo = Tail(@)]
                  \/ y.pc \in {"find", "link"} /\ z = Imported(y)
                  \/ y.pc = "purge" /\ y.kind = "sync" /\ z = Next1(y)
                  \/ y.pc = "unlinkNode" /\ z = [y EXCEPT !.pc = "dropNode"]
  BY <1>1 DEF IgnoredError
<1>5. CASE y.pc \in {"reread", "find", "link"}
  <2>1. y.todo # <<>> /\ y.kind \in {"sync", "import"} /\ y.node # NoId
    BY <1>2, <1>5 DEF Role
  <2>2. Tail(y.todo) \in Seq(Addresses)
    BY <1>2, <2>1, HeadTailProperties DEF WorkerStates
  <2>3. y.node \in Ids'
    BY <1>2, <2>1 DEF WorkerStates
  <2>4. z \in WorkerStates'
    <3>1. CASE z = [y EXCEPT !.pc = "upsert", !.todo = Tail(@)]
      BY <1>2, <2>2, <3>1 DEF WorkerStates, Steps
    <3>2. CASE z = Imported(y)
      BY <1>2, <2>2, <2>3, <3>2 DEF WorkerStates, Steps, Imported
    <3> QED BY <1>4, <1>5, <3>1, <3>2
  <2>5. z.pc = "upsert" /\ z.kind = y.kind /\ z.sub = y.sub /\ z.node = y.node /\ z.pending = y.pending
    BY <1>2, <1>4, <1>5 DEF WorkerStates, Imported
  <2>6. Role(z)
    BY <1>2, <1>5, <2>1, <2>5 DEF Role
  <2> QED BY <1>3, <1>4, <2>4, <2>6
<1>6. CASE y.pc \in {"purge", "unlinkNode"}
  <2>1. z \in WorkerStates'
    BY <1>2, <1>4, <1>6 DEF WorkerStates, Steps, Next1
  <2>2. Role(z)
    BY <1>2, <1>4, <1>6 DEF Role, WorkerStates, Next1
  <2> QED BY <1>3, <1>4, <2>1, <2>2
<1> QED BY <1>4, <1>5, <1>6

LEMMA StaffNext ==
  ASSUME Tables, Staff, Growing, Next
  PROVE  Staff'
<1>a. ASSUME NEW w \in Workers, NEW b \in BOOLEAN, NEW x, Fresh(x, b), Start(w, x)
      PROVE  Staff'
  <2>1. x \in WorkerStates /\ Role(x)
    BY <1>a, FreshTyped
  <2> QED BY <1>a, <2>1, StaffStart, Grows
<1>1. ASSUME NEW w \in Workers, WorkerStep(w) PROVE Staff'
  BY <1>1, StaffImport, StaffDeletion DEF WorkerStep
<1>2. ASSUME NEW w \in Workers, Handler(w) PROVE Staff'
  BY <1>a, <1>2, HandlerStarts
<1>3. ASSUME NEW w \in Workers, Fails(w) PROVE Staff'
  BY <1>3, StaffStep DEF Fails
<1>4. ASSUME NEW w \in Workers, IgnoredError(w) PROVE Staff'
  BY <1>4, StaffIgnored
<1>5. CASE Restart
  BY <1>5 DEF Restart, Staff, Idle
<1>6. CASE Environment \/ StartRound
  <2>1. worker' = worker
    BY <1>6 DEF Environment, Publish, CreateSubscription, UpdateSubscription, TimePasses, EditRow, StartRound
  <2> QED BY <2>1, Grows DEF Staff
<1>7. ASSUME NEW s \in Subs, SyncNext(s) PROVE Staff'
  <2>1. CASE worker' = worker
    BY <2>1, Grows DEF Staff
  <2>2. CASE Present(s)
    <3>1. PICK b \in BOOLEAN : b = Alone
      BY DEF Alone
    <3>2. Start(Ticker, Syncing(s, b))
      BY <1>7, <2>2, <3>1 DEF SyncNext
    <3> QED BY <1>a, <3>2 DEF Workers, Fresh
  <2> QED BY <1>7, <2>1, <2>2 DEF SyncNext
<1> QED BY <1>1, <1>2, <1>3, <1>4, <1>5, <1>6, <1>7 DEF Next, TickerStep, Workers

-----------------------------------------------------------------------------
(* What is held, and what is disturbed.                                    *)
LEMMA HeldIds ==
  ASSUME NEW x \in WorkerStates, Role(x)
  PROVE  Held(x) \subseteq Ids
<1>1. x.pending \subseteq Ids /\ (x.pc \in HoldingSteps => x.node \in Ids)
  BY DEF WorkerStates, Role
<1> QED BY <1>1 DEF Held

LEMMA StaffHolds ==
  ASSUME Staff, NEW w \in Workers
  PROVE  Held(worker[w]) \subseteq Ids
<1>1. CASE worker[w] = Idle
  BY <1>1 DEF Held
<1>2. CASE worker[w] # Idle
  BY <1>2, Working, HeldIds
<1> QED BY <1>1, <1>2

Found ==
    /\ Contended \subseteq Ids
    /\ \A v, w \in Workers : v # w => Held(worker[v]) \cap Held(worker[w]) \subseteq Contended

LEMMA ContendedHeld == Staff => Found
<1> SUFFICES ASSUME Staff PROVE Found
  OBVIOUS
<1>1. Contended \subseteq Ids
  <2>1. ASSUME NEW n \in Contended PROVE n \in Ids
    <3>1. PICK p \in Workers \X Workers : n \in Held(worker[p[1]])
      BY <2>1 DEF Contended
    <3> QED BY <3>1, StaffHolds
  <2> QED BY <2>1
<1>2. ASSUME NEW v \in Workers, NEW w \in Workers, v # w
      PROVE  Held(worker[v]) \cap Held(worker[w]) \subseteq Contended
  <2>1. <<v, w>> \in {q \in Workers \X Workers : q[1] # q[2]} /\ <<v, w>>[1] = v /\ <<v, w>>[2] = w
    BY <1>2
  <2> QED BY <2>1 DEF Contended
<1> QED BY <1>1, <1>2 DEF Found

(* Either somebody moves, and who holds a node twice is found out, or      *)
(* nobody does.                                                            *)
LEMMA TouchNext ==
  ASSUME Tables, Staff, Next
  PROVE  (\E ids \in SUBSET Ids : Touch(ids)) \/ UNCHANGED <<worker, disturbed>>
<1> USE DEF At, Become, Goto
<1>0. {} \in SUBSET Ids
  OBVIOUS
<1>1. ASSUME NEW w \in Workers, ImportStep(w) PROVE Touch({})
  BY <1>1 DEF ImportStep, FetchSubscription, UpsertFails, Upsert, Reread, FindLink, CreateLink, ImportEnds
<1>2. ASSUME NEW w \in Workers, DeletionStep(w) PROVE \E ids \in SUBSET Ids : Touch(ids)
  <2>1. CASE UnlinkAll(w)
    <3>1. PICK ids : ids = {l.node : l \in LinksOf(worker[w].sub)} \ worker[w].pending
      OBVIOUS
    <3>2. Touch(ids)
      BY <2>1, <3>1 DEF UnlinkAll
    <3>3. \A l \in links : l.node \in Ids
      BY DEF Tables, Links
    <3> QED BY <3>1, <3>2, <3>3 DEF LinksOf
  <2>2. CASE ~UnlinkAll(w)
    <3>1. Touch({})
      BY <1>2, <2>2 DEF DeletionStep, ListLinks, Unlink, CountLinks, DeleteRow, Stamp, SelectNodes, Sweep,
                        RemoveSubscription, UnlinkNode, DropNode
    <3> QED BY <1>0, <3>1
  <2> QED BY <2>1, <2>2
<1>3. ASSUME NEW w \in Workers, SaveChecked(w) PROVE \E ids \in SUBSET Ids : Touch(ids)
  <2>1. PICK i : i = worker[w].node
    OBVIOUS
  <2>2. worker[w].pc = "probe"
    BY <1>3 DEF SaveChecked
  <2>3. i \in Ids
    BY <2>1, <2>2, Working DEF Steps, Role, WorkerStates
  <2>4. Touch({i}) \/ Touch({})
    BY <1>3, <2>1 DEF SaveChecked
  <2> QED BY <1>0, <2>3, <2>4
<1>4. ASSUME NEW w \in Workers, Handler(w) PROVE Touch({})
  BY <1>4, HandlerStarts DEF Start
<1>5. ASSUME NEW w \in Workers, Fails(w) PROVE \E ids \in SUBSET Ids : Touch(ids)
  BY <1>5, StaffHolds DEF Fails
<1>6. ASSUME NEW w \in Workers, IgnoredError(w) PROVE \E ids \in SUBSET Ids : Touch(ids)
  <2>1. PICK i : i = worker[w].node
    OBVIOUS
  <2>2. worker[w].pc \in {"reread", "find", "link", "purge", "unlinkNode"}
    BY <1>6 DEF IgnoredError
  <2>3. i \in Ids
    BY <2>1, <2>2, Working DEF Steps, Role, WorkerStates, HoldingSteps
  <2>4. Touch({i})
    BY <1>6, <2>1 DEF IgnoredError
  <2> QED BY <2>3, <2>4
<1>7. CASE Restart
  <2>1. PICK ids : ids = UNION {Held(worker[w]) : w \in Workers}
    OBVIOUS
  <2>2. ids \subseteq Ids
    BY <2>1, StaffHolds
  <2> QED BY <1>7, <2>1, <2>2 DEF Restart
<1>8. CASE Environment \/ StartRound
  BY <1>8 DEF Environment, Publish, CreateSubscription, UpdateSubscription, TimePasses, EditRow, StartRound
<1>9. ASSUME NEW s \in Subs, SyncNext(s) PROVE Touch({}) \/ UNCHANGED <<worker, disturbed>>
  BY <1>9 DEF SyncNext, Start
<1> QED BY <1>0, <1>1, <1>2, <1>3, <1>4, <1>5, <1>6, <1>7, <1>8, <1>9 DEF Next, TickerStep, WorkerStep, Workers

LEMMA DisturbedNext ==
  ASSUME Tables, Staff, Growing, Staff', Next
  PROVE  /\ disturbed \subseteq disturbed'
         /\ disturbed' \subseteq Ids'
         /\ Contended' \subseteq disturbed' \/ UNCHANGED <<worker, disturbed>>
<1>1. Ids \subseteq Ids' /\ disturbed \subseteq Ids
  BY Grows DEF Tables
<1>2. Found'
  BY ContendedHeld, PTL
<1>3. CASE UNCHANGED <<worker, disturbed>>
  BY <1>1, <1>3
<1>4. ASSUME NEW ids \in SUBSET Ids, Touch(ids)
      PROVE  disturbed \subseteq disturbed' /\ disturbed' \subseteq Ids' /\ Contended' \subseteq disturbed'
  BY <1>1, <1>2, <1>4 DEF Touch, Found
<1> QED BY <1>3, <1>4, TouchNext

LEMMA ExclusiveNext ==
  ASSUME Tables, Staff, Exclusive, Growing, Staff', Next
  PROVE  Exclusive'
<1>1. CASE UNCHANGED <<worker, disturbed>>
  BY <1>1 DEF Exclusive
<1>2. CASE Contended' \subseteq disturbed'
  <2>1. Found'
    BY ContendedHeld, PTL
  <2> QED BY <1>2, <2>1 DEF Exclusive, Found
<1> QED BY <1>1, <1>2, DisturbedNext

-----------------------------------------------------------------------------
(* The tables.                                                             *)
Typed(r, ids) ==
    /\ r \in [Addresses -> ids \cup {NoId}]
    /\ \A a, b \in Addresses :
          r[a] # NoId /\ r[b] # NoId /\ a # b => r[a] # r[b] /\ Endpoint[a] # Endpoint[b]

(* A row is inserted at an address that conflicts with no row, with an id  *)
(* that no row has.                                                        *)
LEMMA RowInserted ==
  ASSUME NEW r, NEW ids, Typed(r, ids), NEW a \in Addresses, NEW i \in ids, ~\E b \in Addresses : r[b] = i,
         ~\E b \in Addresses : b # a /\ Endpoint[b] = Endpoint[a] /\ r[b] # NoId
  PROVE  Typed([r EXCEPT ![a] = i], ids)
<1>1. PICK q : q = [r EXCEPT ![a] = i]
  OBVIOUS
<1>2. q \in [Addresses -> ids \cup {NoId}]
  BY <1>1 DEF Typed
<1>3. q[a] = i /\ \A b \in Addresses : b # a => q[b] = r[b]
  BY <1>1 DEF Typed
<1>4. ASSUME NEW b \in Addresses, NEW c \in Addresses, q[b] # NoId, q[c] # NoId, b # c
      PROVE  q[b] # q[c] /\ Endpoint[b] # Endpoint[c]
  <2>1. CASE b # a /\ c # a
    BY <1>3, <1>4, <2>1 DEF Typed
  <2>2. CASE b = a
    BY <1>3, <1>4, <2>2
  <2>3. CASE c = a
    BY <1>3, <1>4, <2>3
  <2> QED BY <2>1, <2>2, <2>3
<1> QED BY <1>1, <1>2, <1>4 DEF Typed

LEMMA RowDeleted ==
  ASSUME Typed(rows, Ids), NEW i
  PROVE  Typed(WithoutRow(i), Ids)
BY DEF Typed, WithoutRow

LEMMA TypedMore ==
  ASSUME NEW r, NEW ids, NEW more, Typed(r, ids), ids \subseteq more
  PROVE  Typed(r, more)
<1>1. r \in [Addresses -> more \cup {NoId}]
  BY DEF Typed
<1> QED BY <1>1 DEF Typed

(* What an upsert does to the rows.                                        *)
LEMMA UpsertRows ==
  ASSUME Tables, Staff, NEW w \in Workers, Upsert(w)
  PROVE  LET a == Head(worker[w].todo) IN
         /\ a \in Addresses /\ ~Conflict(a)
         /\ \/ rows[a] # NoId /\ UNCHANGED <<rows, lastId, manual>>
            \/ /\ rows[a] = NoId /\ lastId' = lastId + 1
               /\ rows' = [rows EXCEPT ![a] = lastId + 1]
               /\ manual' = IF worker[w].kind = "import" THEN manual \cup {lastId + 1} ELSE manual
<1>1. worker[w].pc = "upsert" /\ worker[w].todo # <<>>
  BY DEF Upsert, At
<1>2. worker[w] \in WorkerStates
  BY <1>1, Working DEF Steps
<1>3. Head(worker[w].todo) \in Addresses
  BY <1>1, <1>2, HeadTailProperties DEF WorkerStates
<1> QED BY <1>3 DEF Upsert

LEMMA FreshId ==
  ASSUME Tables
  PROVE  /\ lastId + 1 \in 1..(lastId + 1) /\ lastId + 1 \notin Ids /\ lastId + 1 # NoId
         /\ ~\E b \in Addresses : rows[b] = lastId + 1
<1>1. lastId \in Nat
  BY DEF Tables
<1>2. \A n \in Nat : n + 1 \in 1..(n + 1) /\ n + 1 \notin 1..n /\ n + 1 # 0
  OBVIOUS
<1>3. lastId + 1 \in 1..(lastId + 1) /\ lastId + 1 \notin Ids /\ lastId + 1 # NoId
  BY <1>1, <1>2 DEF Ids, NoId
<1> QED BY <1>3 DEF Tables

LEMMA RowsNext ==
  ASSUME Tables, Staff, Growing, Next
  PROVE  Typed(rows', Ids')
<1> USE DEF At, tables, Silent
<1>0. Typed(rows, Ids) /\ Typed(rows, Ids') /\ Ids \subseteq Ids'
  BY Grows, TypedMore DEF Typed, Tables
<1>1. CASE UNCHANGED rows
  BY <1>0, <1>1
<1>2. ASSUME NEW i, rows' = WithoutRow(i) PROVE Typed(rows', Ids')
  BY <1>0, <1>2, RowDeleted, TypedMore
<1>3. ASSUME NEW w \in Workers, Upsert(w) PROVE Typed(rows', Ids')
  <2>1. PICK a : a = Head(worker[w].todo)
    OBVIOUS
  <2>2. a \in Addresses /\ ~Conflict(a) /\ (UNCHANGED rows \/
          (rows[a] = NoId /\ lastId' = lastId + 1 /\ rows' = [rows EXCEPT ![a] = lastId + 1]))
    BY <1>3, <2>1, UpsertRows
  <2>3. CASE rows[a] = NoId /\ lastId' = lastId + 1 /\ rows' = [rows EXCEPT ![a] = lastId + 1]
    <3>1. PICK i : i = lastId + 1
      OBVIOUS
    <3>2. i \in Ids' /\ ~\E b \in Addresses : rows[b] = i
      BY <2>3, <3>1, FreshId DEF Ids
    <3>3. ~\E b \in Addresses : b # a /\ Endpoint[b] = Endpoint[a] /\ rows[b] # NoId
      BY <2>2, <2>3 DEF Conflict
    <3> QED BY <1>0, <2>2, <2>3, <3>1, <3>2, <3>3, RowInserted
  <2> QED BY <1>1, <2>2, <2>3
<1>4. ASSUME NEW w \in Workers, SaveChecked(w) PROVE Typed(rows', Ids')
  <2>1. PICK y : y = worker[w]
    OBVIOUS
  <2>2. PICK i, a : i = y.node /\ a = Head(y.list)
    OBVIOUS
  <2>3. y.pc = "probe" /\ y \in WorkerStates /\ Role(y)
    BY <1>4, <2>1, Working DEF SaveChecked, Steps
  <2>4. i \in Ids /\ a \in Addresses
    BY <2>2, <2>3, HeadTailProperties DEF Role, WorkerStates
  <2>5. UNCHANGED rows \/ (~HasRow(i) /\ rows[a] = NoId /\ ~Conflict(a) /\ rows' = [rows EXCEPT ![a] = i])
    BY <1>4, <2>1, <2>2 DEF SaveChecked
  <2>6. CASE ~HasRow(i) /\ rows[a] = NoId /\ ~Conflict(a) /\ rows' = [rows EXCEPT ![a] = i]
    <3>1. ~\E b \in Addresses : b # a /\ Endpoint[b] = Endpoint[a] /\ rows[b] # NoId
      BY <2>6 DEF Conflict
    <3> QED BY <1>0, <2>4, <2>6, <3>1, RowInserted DEF HasRow
  <2> QED BY <1>1, <2>5, <2>6
<1>5. ASSUME NEW w \in Workers, WorkerStep(w) PROVE Typed(rows', Ids')
  <2>1. CASE DeleteRow(w) \/ DropNode(w)
    BY <1>2, <2>1 DEF DeleteRow, DropNode
  <2>2. CASE ~(DeleteRow(w) \/ DropNode(w) \/ Upsert(w) \/ SaveChecked(w))
    BY <1>1, <1>5, <2>2 DEF WorkerStep, ImportStep, DeletionStep, FetchSubscription, UpsertFails, Reread,
       FindLink, CreateLink, ImportEnds, ListLinks, Unlink, CountLinks, Stamp, SelectNodes,
       UnlinkAll, Sweep, RemoveSubscription, UnlinkNode
  <2> QED BY <1>3, <1>4, <2>1, <2>2
<1>6. ASSUME NEW w \in Workers, Handler(w) PROVE Typed(rows', Ids')
  BY <1>1, <1>6, HandlerStarts
<1>7. CASE Environment \/ Restart \/ StartRound
  BY <1>1, <1>7 DEF Environment, Publish, CreateSubscription, UpdateSubscription, TimePasses, EditRow, Restart, StartRound
<1>8. ASSUME NEW w \in Workers, Fails(w) \/ IgnoredError(w) PROVE Typed(rows', Ids')
  BY <1>1, <1>8 DEF Fails, IgnoredError
<1>9. ASSUME NEW s \in Subs, SyncNext(s) PROVE Typed(rows', Ids')
  BY <1>1, <1>9 DEF SyncNext
<1> QED BY <1>5, <1>6, <1>7, <1>8, <1>9 DEF Next, TickerStep, Workers

LEMMA LinksNext ==
  ASSUME Tables, Staff, Growing, Next
  PROVE  links' \subseteq Links'
<1> USE DEF At, tables, Silent
<1>0. links \subseteq Links' /\ Ids \subseteq Ids'
  BY Grows DEF Tables
<1>1. CASE links' \subseteq links
  BY <1>0, <1>1
<1>2. ASSUME NEW w \in Workers, CreateLink(w) PROVE links' \subseteq Links'
  <2>1. PICK s, i, k : s = worker[w].sub /\ i = worker[w].node /\ k = lastLink + 1
    OBVIOUS
  <2>2. worker[w].pc = "link"
    BY <1>2 DEF CreateLink
  <2>3. s \in Subs /\ i \in Ids
    BY <2>1, <2>2, Working DEF Steps, Role, WorkerStates, HoldingSteps
  <2>4. \A n \in Nat : n + 1 \in 1..(n + 1)
    OBVIOUS
  <2>5. lastLink' = k /\ k \in 1..k
    BY <1>2, <2>1, <2>4 DEF CreateLink, Tables
  <2>6. [id |-> k, sub |-> s, node |-> i] \in Links'
    BY <1>0, <2>3, <2>5 DEF Links
  <2> QED BY <1>0, <1>2, <2>1, <2>6 DEF CreateLink
<1>3. ASSUME NEW w \in Workers, WorkerStep(w) PROVE links' \subseteq Links'
  <2>1. CASE ~CreateLink(w)
    BY <1>1, <1>3, <2>1 DEF WorkerStep, ImportStep, DeletionStep, FetchSubscription, UpsertFails, Upsert, Reread,
       FindLink, ImportEnds, ListLinks, Unlink, CountLinks, DeleteRow, Stamp, SelectNodes,
       UnlinkAll, Sweep, RemoveSubscription, UnlinkNode, DropNode, SaveChecked
  <2> QED BY <1>2, <2>1
<1>4. ASSUME NEW w \in Workers, Handler(w) PROVE links' \subseteq Links'
  BY <1>1, <1>4, HandlerStarts
<1>5. CASE Environment \/ Restart \/ StartRound
  BY <1>1, <1>5 DEF Environment, Publish, CreateSubscription, UpdateSubscription, TimePasses, EditRow, Restart, StartRound
<1>6. ASSUME NEW w \in Workers, Fails(w) \/ IgnoredError(w) PROVE links' \subseteq Links'
  BY <1>1, <1>6 DEF Fails, IgnoredError
<1>7. ASSUME NEW s \in Subs, SyncNext(s) PROVE links' \subseteq Links'
  BY <1>1, <1>7 DEF SyncNext
<1> QED BY <1>3, <1>4, <1>5, <1>6, <1>7 DEF Next, TickerStep, Workers

LEMMA ManualNext ==
  ASSUME Tables, Staff, Growing, Next
  PROVE  manual' \subseteq Ids'
<1> USE DEF Silent
<1>0. manual \subseteq Ids'
  BY Grows DEF Tables
<1>1. CASE UNCHANGED manual
  BY <1>0, <1>1
<1>2. ASSUME NEW w \in Workers, Upsert(w) PROVE manual' \subseteq Ids'
  <2>1. UNCHANGED manual \/ (lastId' = lastId + 1 /\ (manual' = manual \cup {lastId + 1} \/ UNCHANGED manual))
    BY <1>2, UpsertRows
  <2>2. lastId + 1 \in 1..(lastId + 1)
    BY FreshId
  <2> QED BY <1>0, <2>1, <2>2 DEF Ids
<1>3. ASSUME NEW w \in Workers, WorkerStep(w) PROVE manual' \subseteq Ids'
  <2>1. CASE ~Upsert(w)
    BY <1>1, <1>3, <2>1 DEF WorkerStep, ImportStep, DeletionStep, FetchSubscription, UpsertFails, Reread,
       FindLink, CreateLink, ImportEnds, ListLinks, Unlink, CountLinks, DeleteRow, Stamp, SelectNodes,
       UnlinkAll, Sweep, RemoveSubscription, UnlinkNode, DropNode, SaveChecked
  <2> QED BY <1>2, <2>1
<1>4. ASSUME NEW w \in Workers, Handler(w) PROVE manual' \subseteq Ids'
  BY <1>1, <1>4, HandlerStarts
<1>5. CASE Environment \/ Restart \/ StartRound
  BY <1>1, <1>5 DEF Environment, Publish, CreateSubscription, UpdateSubscription, TimePasses, EditRow, Restart, StartRound
<1>6. ASSUME NEW w \in Workers, Fails(w) \/ IgnoredError(w) PROVE manual' \subseteq Ids'
  BY <1>1, <1>6 DEF Fails, IgnoredError
<1>7. ASSUME NEW s \in Subs, SyncNext(s) PROVE manual' \subseteq Ids'
  BY <1>1, <1>7 DEF SyncNext
<1> QED BY <1>3, <1>4, <1>5, <1>6, <1>7 DEF Next, TickerStep, Workers

SubRows == [life : {"new", "present", "deleted"}, enabled : BOOLEAN, due : BOOLEAN]

LEMMA SubNext ==
  ASSUME Tables, Staff, Next
  PROVE  sub' \in [Subs -> SubRows]
<1> USE DEF tables
<1>0. sub \in [Subs -> SubRows]
  BY DEF Tables, SubRows
<1>1. CASE UNCHANGED sub
  BY <1>0, <1>1
<1>2. ASSUME NEW s, NEW row \in SubRows, sub' = [sub EXCEPT ![s] = row] PROVE sub' \in [Subs -> SubRows]
  BY <1>0, <1>2
<1>3. ASSUME NEW s \in Subs, Publish(s) \/ CreateSubscription(s) \/ UpdateSubscription(s) \/ TimePasses(s)
      PROVE  sub' \in [Subs -> SubRows]
  <2>1. PICK row : row = sub[s]
    OBVIOUS
  <2>2. row \in SubRows
    BY <1>0, <2>1
  <2>3. [row EXCEPT !.enabled = ~@] \in SubRows /\ [row EXCEPT !.due = TRUE] \in SubRows
        /\ [life |-> "present", enabled |-> TRUE, due |-> TRUE] \in SubRows
    BY <2>2 DEF SubRows
  <2>4. UNCHANGED sub \/ \E r \in SubRows : sub' = [sub EXCEPT ![s] = r]
    BY <1>3, <2>1, <2>3 DEF Publish, CreateSubscription, UpdateSubscription, TimePasses, EditRow
  <2> QED BY <1>1, <1>2, <2>4
<1>4. ASSUME NEW w \in Workers, Stamp(w) \/ RemoveSubscription(w) PROVE sub' \in [Subs -> SubRows]
  <2>1. PICK s : s = worker[w].sub
    OBVIOUS
  <2>2. PICK row : row = sub[s]
    OBVIOUS
  <2>3. CASE s \in Subs
    <3>1. row \in SubRows
      BY <1>0, <2>2, <2>3
    <3>2. PICK b \in BOOLEAN : b = (row.due /\ ~Present(s))
      BY <3>1 DEF SubRows
    <3>3. [row EXCEPT !.due = b] \in SubRows /\ [row EXCEPT !.life = "deleted"] \in SubRows
      BY <3>1 DEF SubRows
    <3>4. CASE Stamp(w)
      <4>1. sub' = [sub EXCEPT ![s] = [row EXCEPT !.due = b]]
        BY <1>0, <2>1, <2>2, <2>3, <3>2, <3>4 DEF Stamp
      <4> QED BY <1>2, <3>3, <4>1
    <3>5. CASE RemoveSubscription(w)
      <4>1. sub' = sub \/ sub' = [sub EXCEPT ![s] = [row EXCEPT !.life = "deleted"]]
        BY <1>0, <2>1, <2>2, <2>3, <3>5 DEF RemoveSubscription
      <4> QED BY <1>0, <1>2, <3>3, <4>1
    <3> QED BY <1>4, <3>4, <3>5
  <2>4. CASE s \notin Subs
    <3>1. sub' = sub
      BY <1>0, <1>4, <2>1, <2>4 DEF Stamp, RemoveSubscription
    <3> QED BY <1>0, <3>1
  <2> QED BY <2>3, <2>4
<1>5. ASSUME NEW w \in Workers, WorkerStep(w) PROVE sub' \in [Subs -> SubRows]
  <2>1. CASE ~(Stamp(w) \/ RemoveSubscription(w))
    BY <1>1, <1>5, <2>1 DEF WorkerStep, ImportStep, DeletionStep, FetchSubscription, UpsertFails, Upsert, Reread,
       FindLink, CreateLink, ImportEnds, ListLinks, Unlink, CountLinks, DeleteRow, SelectNodes,
       UnlinkAll, Sweep, UnlinkNode, DropNode, SaveChecked
  <2> QED BY <1>4, <2>1
<1>6. ASSUME NEW w \in Workers, Handler(w) PROVE sub' \in [Subs -> SubRows]
  BY <1>1, <1>6, HandlerStarts
<1>7. CASE Restart \/ StartRound
  BY <1>1, <1>7 DEF Restart, StartRound
<1>8. ASSUME NEW w \in Workers, Fails(w) \/ IgnoredError(w) PROVE sub' \in [Subs -> SubRows]
  BY <1>1, <1>8 DEF Fails, IgnoredError
<1>9. ASSUME NEW s \in Subs, SyncNext(s) PROVE sub' \in [Subs -> SubRows]
  BY <1>1, <1>9 DEF SyncNext
<1> QED BY <1>3, <1>5, <1>6, <1>7, <1>8, <1>9 DEF Next, TickerStep, Workers, Environment

LEMMA OthersNext ==
  ASSUME Tables, Staff, Next
  PROVE  /\ offer' \in [Subs -> Seq(Addresses)] /\ round' \subseteq Subs
         /\ ops' \in 0..MaxOps /\ edits' \in 0..MaxEdits /\ faults' \in 0..MaxFaults
<1> USE DEF Silent, bounds
<1> DEFINE Others == /\ offer' \in [Subs -> Seq(Addresses)] /\ round' \subseteq Subs
                     /\ ops' \in 0..MaxOps /\ edits' \in 0..MaxEdits /\ faults' \in 0..MaxFaults
<1>0. offer \in [Subs -> Seq(Addresses)] /\ round \subseteq Subs
      /\ ops \in 0..MaxOps /\ edits \in 0..MaxEdits /\ faults \in 0..MaxFaults
  BY DEF Tables
<1>1. CASE UNCHANGED <<offer, round, bounds>>
  BY <1>0, <1>1
<1>2. \A n \in Nat : \A k \in 0..n : k < n => k + 1 \in 0..n
  OBVIOUS
<1>3. MaxOps \in Nat /\ MaxEdits \in Nat /\ MaxFaults \in Nat
  BY SyncAssumption
<1>4. ASSUME NEW w \in Workers, WorkerStep(w) PROVE Others
  BY <1>1, <1>4 DEF WorkerStep, ImportStep, DeletionStep, FetchSubscription, UpsertFails, Upsert, Reread,
     FindLink, CreateLink, ImportEnds, ListLinks, Unlink, CountLinks, DeleteRow, Stamp, SelectNodes,
     UnlinkAll, Sweep, RemoveSubscription, UnlinkNode, DropNode, SaveChecked
<1>5. ASSUME NEW w \in Workers, Handler(w) PROVE Others
  <2>1. UNCHANGED <<offer, round, edits, faults>> /\ ops < MaxOps /\ ops' = ops + 1
    BY <1>5 DEF Handler, SyncSubscription, ImportNodes, DeleteSubscription, DeleteNode, CheckNode, Request
  <2> QED BY <1>0, <1>2, <1>3, <2>1
<1>6. CASE Restart \/ \E w \in Workers : Fails(w) \/ IgnoredError(w)
  <2>1. /\ UNCHANGED <<offer, ops, edits>> /\ (round' = {} \/ round' = round)
        /\ faults < MaxFaults /\ faults' = faults + 1
    BY <1>6 DEF Restart, Fails, IgnoredError, Fault
  <2> QED BY <1>0, <1>2, <1>3, <2>1
<1>7. ASSUME NEW s \in Subs, Publish(s) PROVE Others
  <2>1. UNCHANGED <<round, ops, faults>> /\ edits < MaxEdits /\ edits' = edits + 1
    BY <1>7 DEF Publish
  <2>2. PICK list \in Lists : offer' = [offer EXCEPT ![s] = list]
    BY <1>7 DEF Publish
  <2>3. offer' \in [Subs -> Seq(Addresses)]
    BY <1>0, <2>2, SyncAssumption
  <2> QED BY <1>0, <1>2, <1>3, <2>1, <2>3
<1>8. ASSUME NEW s \in Subs, CreateSubscription(s) \/ UpdateSubscription(s) \/ TimePasses(s) PROVE Others
  <2>1. UNCHANGED <<offer, round, ops, faults>> /\ edits < MaxEdits /\ edits' = edits + 1
    BY <1>8 DEF CreateSubscription, UpdateSubscription, TimePasses, EditRow
  <2> QED BY <1>0, <1>2, <1>3, <2>1
<1>9. CASE StartRound \/ \E s \in Subs : SyncNext(s)
  <2>1. UNCHANGED <<offer, bounds>> /\ round' \subseteq Subs
    BY <1>0, <1>9 DEF StartRound, SyncNext
  <2> QED BY <1>0, <2>1
<1> QED BY <1>4, <1>5, <1>6, <1>7, <1>8, <1>9 DEF Next, TickerStep, Workers, Environment

LEMMA TablesNext ==
  ASSUME Tables, Staff, Staff', Next
  PROVE  Tables'
<1>1. Growing
  BY GrowingNext
<1>2. lastId' \in Nat /\ lastLink' \in Nat
  BY <1>1 DEF Growing
<1>3. Typed(rows', Ids') /\ links' \subseteq Links' /\ manual' \subseteq Ids' /\ disturbed' \subseteq Ids'
  BY <1>1, RowsNext, LinksNext, ManualNext, DisturbedNext
<1>4. sub' \in [Subs -> SubRows]
  BY SubNext
<1>5. /\ offer' \in [Subs -> Seq(Addresses)] /\ round' \subseteq Subs
      /\ ops' \in 0..MaxOps /\ edits' \in 0..MaxEdits /\ faults' \in 0..MaxFaults
  BY OthersNext
<1> QED BY <1>2, <1>3, <1>4, <1>5 DEF Tables, Typed, SubRows

-----------------------------------------------------------------------------
(* What the others know, and what holds of their nodes, is left alone.     *)
Basis(n) ==
    /\ LinksTo(n) # {} => HasRow(n)
    /\ \A l, k \in LinksTo(n) : l.sub = k.sub => l = k

Anchored(n) == HasRow(n) => n \in manual \/ LinksTo(n) # {}

Spares(n) ==
    /\ LinksTo(n)' = LinksTo(n)
    /\ \A a \in Addresses : rows'[a] = n <=> rows[a] = n
    /\ n \in manual => n \in manual'

Marked(x, y) == y = x \/ (x # Idle /\ y = [x EXCEPT !.sole = FALSE])

LEMMA MarkedHolds ==
  ASSUME NEW x, NEW y, x = Idle \/ x \in WorkerStates, Marked(x, y)
  PROVE  /\ Held(y) = Held(x) /\ (y = Idle <=> x = Idle)
         /\ x # Idle => y.node = x.node /\ y.pc = x.pc /\ y.kind = x.kind /\ y.todo = x.todo /\ y.sub = x.sub
<1>1. CASE y = x
  BY <1>1
<1>2. CASE x # Idle /\ y = [x EXCEPT !.sole = FALSE]
  <2>1. y.node = x.node /\ y.pc = x.pc /\ y.pending = x.pending /\ y.kind = x.kind /\ y.todo = x.todo /\ y.sub = x.sub
    BY <1>2 DEF WorkerStates
  <2>2. y \in WorkerStates
    BY <1>2 DEF WorkerStates
  <2>3. y # Idle
    BY <2>2, NotIdle
  <2> QED BY <1>2, <2>1, <2>3 DEF Held
<1> QED BY <1>1, <1>2 DEF Marked

LEMMA KnowsKept ==
  ASSUME NEW x \in WorkerStates, Role(x), Knows(x), x.pc \in HoldingSteps => Spares(x.node)
  PROVE  Knows(x)'
<1>1. CASE x.pc \notin HoldingSteps
  BY <1>1 DEF Knows, HoldingSteps
<1>2. CASE x.pc \in HoldingSteps
  <2>1. PICK n : n = x.node
    OBVIOUS
  <2>2. Spares(n)
    BY <1>2, <2>1
  <2>3. HasRow(n)' <=> HasRow(n)
    BY <2>2 DEF Spares, HasRow
  <2>4. x.pc = "reread" => Head(x.todo) \in Addresses
    BY HeadTailProperties DEF Role, WorkerStates
  <2>5. x.pc = "reread" => (rows'[Head(x.todo)] = n <=> rows[Head(x.todo)] = n)
    BY <2>2, <2>4 DEF Spares
  <2>6. LinksTo(n)' = LinksTo(n) /\ (n \in manual => n \in manual')
    BY <2>2 DEF Spares
  <2> QED BY <2>1, <2>3, <2>5, <2>6 DEF Knows
<1> QED BY <1>1, <1>2

LEMMA StepKeeps ==
  ASSUME Tables, Staff, Exclusive, Informed, Nodes, Staff', Exclusive', NEW w \in Workers, NEW x, NEW y,
         x = worker[w], y = worker'[w],
         \A v \in Workers \ {w} : Marked(worker[v], worker'[v]),
         disturbed \subseteq disturbed', Contended' \subseteq disturbed',
         \A n \in Ids : n \notin Held(x) \cup Held(y) \cup disturbed' => Spares(n),
         Ids' \subseteq Ids \cup Held(y),
         \A n \in (Held(x) \cup Held(y)) \ disturbed' : Basis(n)',
         \A n \in Held(x) \ (Held(y) \cup disturbed') : Anchored(n)',
         y # Idle /\ y.node \notin disturbed' => Knows(y)'
  PROVE  Informed' /\ Nodes'
<1>0. \A v \in Workers : v # w =>
         Held(worker[v]) \cap Held(x) \subseteq disturbed' /\ Held(worker'[v]) \cap Held(y) \subseteq disturbed'
  <2>1. Found'
    BY ContendedHeld, PTL
  <2> QED BY <2>1 DEF Exclusive, Found
<1>1. ASSUME NEW v \in Workers, v # w
      PROVE  (worker[v] = Idle \/ worker[v] \in WorkerStates) /\ Held(worker'[v]) = Held(worker[v])
             /\ (worker'[v] = Idle <=> worker[v] = Idle)
  BY <1>1, MarkedHolds DEF Staff
<1>2. ASSUME NEW v \in Workers, worker'[v] # Idle, worker'[v].node \notin disturbed'
      PROVE  Knows(worker[v])'
  <2>1. CASE v = w
    BY <1>2, <2>1 DEF Knows
  <2>2. CASE v # w
    <3>1. PICK z, u : z = worker[v] /\ u = worker'[v]
      OBVIOUS
    <3>2. z \in WorkerStates /\ z # Idle /\ Role(z) /\ Marked(z, u)
      BY <1>1, <1>2, <2>2, <3>1 DEF Staff
    <3>3. u.node = z.node /\ u.pc = z.pc /\ u.kind = z.kind /\ u.todo = z.todo /\ u.sub = z.sub
      BY <3>2, MarkedHolds
    <3>4. Knows(z)
      BY <1>2, <3>1, <3>2, <3>3 DEF Informed
    <3>5. z.pc \in HoldingSteps => Spares(z.node)
      <4>1. SUFFICES ASSUME z.pc \in HoldingSteps PROVE Spares(z.node)
        OBVIOUS
      <4>2. z.node \in Held(z) /\ Held(z) \subseteq Ids
        BY <3>2, <4>1, HeldIds DEF Held
      <4>3. z.node \notin disturbed' /\ z.node \in Held(worker[v]) /\ z.node \in Held(worker'[v])
        BY <1>1, <1>2, <2>2, <3>1, <3>3, <4>2
      <4> QED BY <1>0, <2>2, <4>2, <4>3
    <3>6. Knows(z)'
      BY <3>2, <3>4, <3>5, KnowsKept
    <3> QED BY <3>1, <3>3, <3>6 DEF Knows
  <2> QED BY <2>1, <2>2
<1>3. ASSUME NEW n \in Ids', n \notin disturbed'
      PROVE  Sound(n)'
  <2>1. CASE n \in Held(y)
    BY <1>3, <2>1 DEF Basis, Sound
  <2>2. CASE n \in Held(x) /\ n \notin Held(y)
    BY <1>3, <2>2 DEF Basis, Anchored, Sound
  <2>3. CASE n \notin Held(x) /\ n \notin Held(y)
    <3>1. n \in Ids /\ n \notin disturbed
      BY <1>3, <2>3
    <3>2. Spares(n) /\ Sound(n)
      BY <1>3, <2>3, <3>1 DEF Nodes
    <3>3. (HasRow(n)' <=> HasRow(n)) /\ LinksTo(n)' = LinksTo(n) /\ (n \in manual => n \in manual')
      BY <3>2 DEF Spares, HasRow
    <3>4. ASSUME NEW v \in Workers, n \in Held(worker[v]) PROVE n \in Held(worker'[v])
      BY <1>1, <2>3, <3>4
    <3> QED BY <3>2, <3>3, <3>4 DEF Sound
  <2> QED BY <2>1, <2>2, <2>3
<1> QED BY <1>2, <1>3 DEF Informed, Nodes

Holds == \A w \in Workers : Held(worker[w]) \subseteq Ids

LEMMA HoldsIds == Staff => Holds
BY StaffHolds DEF Holds

(* One worker moves.                                                       *)
Moves(w, y) ==
    /\ IInv /\ Staff' /\ Exclusive'
    /\ worker' = [worker EXCEPT ![w] = y]
    /\ disturbed \subseteq disturbed' /\ Contended' \subseteq disturbed'

LEMMA MoveKeeps ==
  ASSUME NEW w \in Workers, NEW y, Moves(w, y),
         \A n \in Ids : n \notin Held(worker[w]) \cup Held(y) \cup disturbed' => Spares(n),
         Ids' \subseteq Ids \cup Held(y),
         \A n \in (Held(worker[w]) \cup Held(y)) \ disturbed' : Basis(n)',
         \A n \in Held(worker[w]) \ (Held(y) \cup disturbed') : Anchored(n)',
         y # Idle /\ y.node \notin disturbed' => Knows(y)'
  PROVE  Informed' /\ Nodes'
<1>1. PICK x : x = worker[w]
  OBVIOUS
<1>2. y = worker'[w] /\ \A v \in Workers \ {w} : Marked(worker[v], worker'[v])
  BY DEF Moves, IInv, Staff, Marked
<1> QED BY <1>1, <1>2, StepKeeps DEF Moves, IInv

(* One worker moves, and the tables stay as they are.                      *)
LEMMA MoveQuiet ==
  ASSUME NEW w \in Workers, NEW y, Moves(w, y), UNCHANGED <<rows, links, lastId, manual>>,
         \A n \in Held(worker[w]) \ (Held(y) \cup disturbed') : Anchored(n),
         y # Idle /\ y.node \notin disturbed' => Knows(y)
  PROVE  Informed' /\ Nodes'
<1>1. Ids' = Ids /\ \A n : (LinksTo(n)' = LinksTo(n)) /\ (HasRow(n)' <=> HasRow(n))
  BY DEF Ids, LinksTo, HasRow
<1>2. \A n \in Ids : Spares(n)
  BY <1>1 DEF Spares
<1>3. Held(worker[w]) \subseteq Ids /\ Held(y) \subseteq Ids
  <2>1. Holds /\ Holds'
    BY HoldsIds, PTL DEF Moves, IInv
  <2>2. y = worker'[w]
    BY DEF Moves, IInv, Staff
  <2> QED BY <1>1, <2>1, <2>2 DEF Holds
<1>4. ASSUME NEW n \in (Held(worker[w]) \cup Held(y)) \ disturbed' PROVE Basis(n)'
  <2>1. Sound(n)
    BY <1>3 DEF Moves, IInv, Nodes
  <2> QED BY <1>1, <2>1 DEF Sound, Basis
<1>5. ASSUME NEW n \in Held(worker[w]) \ (Held(y) \cup disturbed') PROVE Anchored(n)'
  BY <1>1, <1>5 DEF Anchored
<1>6. y # Idle /\ y.node \notin disturbed' => Knows(y)'
  BY <1>1 DEF Knows
<1> QED BY <1>1, <1>2, <1>4, <1>5, <1>6, MoveKeeps

LEMMA TouchMoves ==
  ASSUME IInv, Staff', Exclusive', NEW w \in Workers, NEW y, NEW ids,
         worker' = [worker EXCEPT ![w] = y], Touch(ids)
  PROVE  Moves(w, y)
BY DEF Touch, Moves

LEMMA HoldsOne ==
  ASSUME NEW x, x.pc \in Steps
  PROVE  /\ x # Idle
         /\ Held(x) = x.pending \cup (IF x.pc \in HoldingSteps THEN {x.node} ELSE {})
BY DEF Held, Idle, Steps

(* Steps of the import that leave the tables as they are.                  *)
LEMMA ImportQuiet ==
  ASSUME IInv, Staff', Exclusive', NEW w \in Workers,
         FetchSubscription(w) \/ UpsertFails(w) \/ ImportEnds(w) \/ FindLink(w)
  PROVE  Informed' /\ Nodes'
<1> USE DEF At, Become, Goto
<1>1. PICK x : x = worker[w]
  OBVIOUS
<1>2. x \in WorkerStates /\ Role(x) /\ x.pc \in Steps /\ Tables
  <2>1. x.pc \in Steps
    BY <1>1 DEF FetchSubscription, UpsertFails, ImportEnds, FindLink, Steps
  <2> QED BY <1>1, <2>1, Working DEF IInv
<1>3. UNCHANGED <<rows, links, lastId, manual>>
  BY DEF FetchSubscription, UpsertFails, ImportEnds, FindLink, tables, Silent
<1>4. ASSUME NEW y, worker' = [worker EXCEPT ![w] = y], Touch({}),
             \A n \in Held(worker[w]) \ (Held(y) \cup disturbed') : Anchored(n),
             y # Idle /\ y.node \notin disturbed' => Knows(y)
      PROVE  Informed' /\ Nodes'
  BY <1>3, <1>4, TouchMoves, MoveQuiet
<1>5. CASE FetchSubscription(w)
  <2>1. PICK y, list : worker' = [worker EXCEPT ![w] = y] /\ y = [x EXCEPT !.pc = "upsert", !.list = list, !.todo = list]
                       /\ x.pc = "fetch" /\ Touch({})
    BY <1>1, <1>5 DEF FetchSubscription
  <2>2. y.pc = "upsert"
    BY <1>2, <2>1 DEF WorkerStates
  <2>3. Knows(y)
    BY <2>2 DEF Knows
  <2>4. Held(x) = {}
    BY <1>2, <2>1, HoldsOne DEF Role, HoldingSteps
  <2> QED BY <1>1, <1>4, <2>1, <2>3, <2>4
<1>6. CASE UpsertFails(w) \/ ImportEnds(w)
  <2>1. PICK y : worker' = [worker EXCEPT ![w] = y] /\ (y = Idle \/ y = [x EXCEPT !.pc = "prune"])
                 /\ x.pc = "upsert" /\ Touch({})
    BY <1>1, <1>6 DEF UpsertFails, ImportEnds
  <2>2. Held(x) = {}
    BY <1>2, <2>1, HoldsOne DEF Role, HoldingSteps
  <2>3. y # Idle => Knows(y)
    <3>1. y # Idle => y.pc = "prune"
      BY <1>2, <2>1 DEF WorkerStates
    <3> QED BY <3>1 DEF Knows
  <2> QED BY <1>1, <1>4, <2>1, <2>2, <2>3
<1>7. CASE FindLink(w)
  <2>1. PICK y : /\ worker' = [worker EXCEPT ![w] = y] /\ x.pc = "find" /\ Touch({})
                 /\ \/ (\E l \in links : l.sub = x.sub /\ l.node = x.node) /\ y = Imported(x)
                    \/ ~(\E l \in links : l.sub = x.sub /\ l.node = x.node) /\ y = [x EXCEPT !.pc = "link"]
    BY <1>1, <1>7 DEF FindLink
  <2>2. Held(x) = {x.node}
    BY <1>2, <2>1, HoldsOne DEF Role, HoldingSteps
  <2>3. CASE (\E l \in links : l.sub = x.sub /\ l.node = x.node) /\ y = Imported(x)
    <3>1. y.pc = "upsert"
      BY <1>2, <2>3 DEF WorkerStates, Imported
    <3>2. Knows(y)
      BY <3>1 DEF Knows
    <3>3. Anchored(x.node)
      BY <2>3 DEF Anchored, LinksTo
    <3> QED BY <1>1, <1>4, <2>1, <2>2, <3>2, <3>3
  <2>4. CASE ~(\E l \in links : l.sub = x.sub /\ l.node = x.node) /\ y = [x EXCEPT !.pc = "link"]
    <3>1. y.pc = "link" /\ y.node = x.node /\ y.pending = x.pending /\ y.sub = x.sub
      BY <1>2, <2>4 DEF WorkerStates
    <3>2. Held(y) = Held(x)
      BY <2>1, <3>1, HoldsOne DEF HoldingSteps, Steps
    <3>3. ASSUME x.node \notin disturbed PROVE Knows(y)
      <4>1. Knows(x)
        BY <1>1, <1>2, <3>3, NotIdle DEF IInv, Informed
      <4> QED BY <2>1, <2>4, <3>1, <4>1 DEF Knows, LinksTo
    <3>4. disturbed \subseteq disturbed'
      BY <2>1 DEF Touch
    <3> QED BY <1>1, <1>4, <2>1, <3>1, <3>2, <3>3, <3>4
  <2> QED BY <2>1, <2>3, <2>4
<1> QED BY <1>5, <1>6, <1>7

LEMMA RereadKeeps ==
  ASSUME IInv, Staff', Exclusive', NEW w \in Workers, Reread(w)
  PROVE  Informed' /\ Nodes'
<1> USE DEF At, Become, Goto
<1>1. PICK x : x = worker[w]
  OBVIOUS
<1>2. x \in WorkerStates /\ Role(x) /\ x.pc = "reread" /\ Tables /\ x # Idle
  <2>1. x.pc = "reread"
    BY <1>1 DEF Reread
  <2> QED BY <1>1, <2>1, Working DEF IInv, Steps
<1>3. PICK i : i = rows[Head(x.todo)]
  OBVIOUS
<1>4. UNCHANGED <<rows, links, lastId, manual>> /\ Touch({})
  BY DEF Reread, tables, Silent
<1>5. PICK y : worker' = [worker EXCEPT ![w] = y] /\
          \/ i = NoId /\ y = [x EXCEPT !.pc = "upsert", !.todo = Tail(@)]
          \/ i # NoId /\ x.kind = "sync" /\ y = [[x EXCEPT !.node = i] EXCEPT !.pc = "find"]
          \/ i # NoId /\ x.kind # "sync" /\ y = Imported([x EXCEPT !.node = i])
  BY <1>1, <1>3 DEF Reread
<1>6. Held(x) = {x.node} /\ x.node # NoId /\ Head(x.todo) \in Addresses
  BY <1>2, HoldsOne, HeadTailProperties DEF Role, HoldingSteps, Steps, WorkerStates
<1>7. ASSUME x.node \notin disturbed' PROVE Knows(x)
  BY <1>1, <1>2, <1>4, <1>7 DEF IInv, Informed, Touch
<1>8. ASSUME \A n \in Held(worker[w]) \ (Held(y) \cup disturbed') : Anchored(n),
             y # Idle /\ y.node \notin disturbed' => Knows(y)
      PROVE  Informed' /\ Nodes'
  BY <1>4, <1>5, <1>8, TouchMoves, MoveQuiet
<1>9. CASE i = NoId /\ y = [x EXCEPT !.pc = "upsert", !.todo = Tail(@)]
  <2>1. y.pc = "upsert"
    BY <1>2, <1>9 DEF WorkerStates
  <2>2. Knows(y)
    BY <2>1 DEF Knows
  <2>3. x.node \notin disturbed' => Anchored(x.node)
    BY <1>2, <1>3, <1>6, <1>7, <1>9 DEF Knows, Anchored
  <2> QED BY <1>1, <1>6, <1>8, <2>2, <2>3
<1>10. CASE i # NoId /\ x.kind = "sync" /\ y = [[x EXCEPT !.node = i] EXCEPT !.pc = "find"]
  <2>1. y.pc = "find" /\ y.node = i /\ y.pending = x.pending
    BY <1>2, <1>10 DEF WorkerStates
  <2>2. Knows(y)
    BY <1>3, <1>6, <2>1 DEF Knows, HasRow
  <2>3. Held(y) = {i}
    <3>1. x.pending = {}
      BY <1>2, <1>10 DEF Role
    <3>2. y.pc \in Steps /\ y.pc \in HoldingSteps
      BY <2>1 DEF Steps, HoldingSteps
    <3> QED BY <2>1, <3>1, <3>2, HoldsOne
  <2>4. x.node # i /\ x.node \notin disturbed' => Anchored(x.node)
    BY <1>2, <1>3, <1>7 DEF Knows, Anchored
  <2> QED BY <1>1, <1>6, <1>8, <2>2, <2>3, <2>4
<1>11. CASE i # NoId /\ x.kind # "sync" /\ y = Imported([x EXCEPT !.node = i])
  <2>1. y.pc = "upsert"
    BY <1>2, <1>11 DEF WorkerStates, Imported
  <2>2. Knows(y)
    BY <2>1 DEF Knows
  <2>3. x.kind = "import"
    BY <1>2, <1>11 DEF Role
  <2>4. x.node \notin disturbed' => Anchored(x.node)
    BY <1>2, <1>7, <2>3 DEF Knows, Anchored
  <2> QED BY <1>1, <1>6, <1>8, <2>2, <2>4
<1> QED BY <1>5, <1>9, <1>10, <1>11

LEMMA UpsertKeeps ==
  ASSUME IInv, Staff', Exclusive', NEW w \in Workers, Upsert(w)
  PROVE  Informed' /\ Nodes'
<1> USE DEF At, Become, Goto
<1>1. PICK x : x = worker[w]
  OBVIOUS
<1>2. x \in WorkerStates /\ Role(x) /\ x.pc = "upsert" /\ Tables /\ Staff /\ x # Idle
  <2>1. x.pc = "upsert"
    BY <1>1 DEF Upsert
  <2> QED BY <1>1, <2>1, Working DEF IInv, Steps
<1>3. PICK a : a = Head(x.todo)
  OBVIOUS
<1>4. PICK i, y : i = rows'[a] /\ y = [x EXCEPT !.pc = "reread", !.node = i]
  OBVIOUS
<1>5. worker' = [worker EXCEPT ![w] = y] /\ Touch({}) /\ UNCHANGED links
  BY <1>1, <1>3, <1>4 DEF Upsert
<1>6. /\ a \in Addresses
      /\ \/ rows[a] # NoId /\ UNCHANGED <<rows, lastId, manual>>
         \/ /\ rows[a] = NoId /\ lastId' = lastId + 1
            /\ rows' = [rows EXCEPT ![a] = lastId + 1]
            /\ manual' = IF x.kind = "import" THEN manual \cup {lastId + 1} ELSE manual
  BY <1>1, <1>2, <1>3, UpsertRows
<1>7. y.pc = "reread" /\ y.node = i /\ y.pending = x.pending /\ y.kind = x.kind /\ y.todo = x.todo
  BY <1>2, <1>4 DEF WorkerStates
<1>8. Held(x) = {} /\ Held(y) = {i}
  <2>1. x.pending = {}
    BY <1>2 DEF Role
  <2>2. y.pc \in Steps /\ y.pc \in HoldingSteps /\ x.pc \in Steps /\ x.pc \notin HoldingSteps
    BY <1>2, <1>7 DEF Steps, HoldingSteps
  <2> QED BY <1>7, <2>1, <2>2, HoldsOne
<1>9. Moves(w, y)
  BY <1>5, TouchMoves
<1>10. CASE rows[a] # NoId /\ UNCHANGED <<rows, lastId, manual>>
  <2>1. rows[a] = i /\ i \in Ids /\ i # NoId
    BY <1>2, <1>4, <1>6, <1>10 DEF Tables
  <2>2. HasRow(i)
    BY <1>6, <2>1 DEF HasRow
  <2>3. ASSUME i \notin disturbed' PROVE i \in manual \/ LinksTo(i) # {}
    <3>1. i \notin disturbed
      BY <1>9, <2>3 DEF Moves
    <3>2. i \in manual \/ LinksTo(i) # {} \/ \E v \in Workers : i \in Held(worker[v])
      BY <2>1, <2>2, <3>1 DEF IInv, Nodes, Sound
    <3>3. ASSUME NEW v \in Workers, i \in Held(worker[v]) PROVE FALSE
      <4>1. v # w
        BY <1>1, <1>8, <3>3
      <4>2. worker'[v] = worker[v] /\ worker'[w] = y
        BY <1>2, <1>5, <4>1 DEF Staff
      <4>3. Found'
        BY ContendedHeld, PTL
      <4>4. Held(worker'[v]) \cap Held(worker'[w]) \subseteq Contended'
        BY <4>1, <4>3 DEF Found
      <4>5. Contended' \subseteq disturbed'
        BY <1>9 DEF Moves
      <4> QED BY <1>8, <2>3, <3>3, <4>2, <4>4, <4>5
    <3> QED BY <3>2, <3>3
  <2>4. y.node \notin disturbed' => Knows(y)
    BY <1>3, <1>7, <2>1, <2>3 DEF Knows
  <2> QED BY <1>1, <1>5, <1>8, <1>9, <1>10, <2>4, MoveQuiet
<1>11. CASE /\ rows[a] = NoId /\ lastId' = lastId + 1
            /\ rows' = [rows EXCEPT ![a] = lastId + 1]
            /\ manual' = IF x.kind = "import" THEN manual \cup {lastId + 1} ELSE manual
  <2>1. i = lastId + 1 /\ rows'[a] = i
    BY <1>2, <1>4, <1>6, <1>11 DEF Tables
  <2>2. i \notin Ids /\ i # NoId
    BY <1>2, <2>1, FreshId
  <2>3. Ids' \subseteq Ids \cup {i}
    <3>1. \A n \in Nat : 1..(n + 1) \subseteq (1..n) \cup {n + 1}
      OBVIOUS
    <3> QED BY <1>2, <1>11, <2>1, <3>1 DEF Ids, Tables
  <2>4. ASSUME NEW n \in Ids PROVE Spares(n)
    <3>1. LinksTo(n)' = LinksTo(n)
      BY <1>5 DEF LinksTo
    <3>2. n # NoId
      BY DEF Ids, NoId
    <3>3. \A b \in Addresses : rows'[b] = n <=> rows[b] = n
      BY <1>2, <1>6, <1>11, <2>1, <2>2, <3>2 DEF Tables
    <3> QED BY <1>11, <3>1, <3>3 DEF Spares
  <2>5. LinksTo(i)' = {}
    BY <1>2, <1>5, <2>2 DEF LinksTo, Tables, Links
  <2>6. Basis(i)'
    BY <2>5 DEF Basis
  <2>7. Knows(y)'
    <3>1. y.kind = "import" => i \in manual'
      BY <1>7, <1>11, <2>1
    <3> QED BY <1>3, <1>7, <2>1, <3>1 DEF Knows
  <2> QED BY <1>1, <1>8, <1>9, <2>3, <2>4, <2>6, <2>7, MoveKeeps
<1> QED BY <1>6, <1>10, <1>11

LEMMA CreateLinkKeeps ==
  ASSUME IInv, Staff', Exclusive', NEW w \in Workers, CreateLink(w)
  PROVE  Informed' /\ Nodes'
<1> USE DEF At, Become, Goto
<1>1. PICK x, y : x = worker[w] /\ y = Imported(x)
  OBVIOUS
<1>2. x \in WorkerStates /\ Role(x) /\ x.pc = "link" /\ Tables /\ x # Idle
  <2>1. x.pc = "link"
    BY <1>1 DEF CreateLink
  <2> QED BY <1>1, <2>1, Working DEF IInv, Steps
<1>3. PICK new : new = [id |-> lastLink + 1, sub |-> x.sub, node |-> x.node]
  OBVIOUS
<1>4. worker' = [worker EXCEPT ![w] = y] /\ Touch({}) /\ links' = links \cup {new}
      /\ UNCHANGED <<rows, lastId, manual>>
  BY <1>1, <1>3 DEF CreateLink, Silent
<1>5. new.sub = x.sub /\ new.node = x.node
  BY <1>3
<1>6. y.pc = "upsert"
  BY <1>1, <1>2 DEF WorkerStates, Imported
<1>7. Held(x) = {x.node} /\ Held(y) = {}
  <2>1. x.pending = {} /\ y.pending = {}
    BY <1>1, <1>2 DEF Role, Imported, WorkerStates
  <2>2. y.pc \in Steps /\ y.pc \notin HoldingSteps /\ x.pc \in Steps /\ x.pc \in HoldingSteps
    BY <1>2, <1>6 DEF Steps, HoldingSteps
  <2> QED BY <2>1, <2>2, HoldsOne
<1>8. Moves(w, y)
  BY <1>4, TouchMoves
<1>9. \A n : n # x.node => LinksTo(n)' = LinksTo(n)
  BY <1>4, <1>5 DEF LinksTo
<1>10. \A n \in Ids : n # x.node => Spares(n)
  BY <1>4, <1>9 DEF Spares
<1>11. LinksTo(x.node)' = LinksTo(x.node) \cup {new}
  BY <1>4, <1>5 DEF LinksTo
<1>12. ASSUME x.node \notin disturbed' PROVE Basis(x.node)' /\ Anchored(x.node)'
  <2>1. x.node \notin disturbed
    BY <1>8, <1>12 DEF Moves
  <2>2. Knows(x)
    BY <1>1, <1>2, <2>1 DEF IInv, Informed
  <2>3. HasRow(x.node) /\ \A l \in LinksTo(x.node) : l.sub # x.sub
    BY <1>2, <2>2 DEF Knows
  <2>4. x.node \in Ids
    BY <1>1, <1>7, HoldsIds DEF IInv, Holds
  <2>5. Sound(x.node)
    BY <2>1, <2>4 DEF IInv, Nodes
  <2>6. HasRow(x.node)'
    BY <1>4, <2>3 DEF HasRow
  <2>7. \A l, k \in LinksTo(x.node)' : l.sub = k.sub => l = k
    BY <1>5, <1>11, <2>3, <2>5 DEF Sound
  <2>8. LinksTo(x.node)' # {}
    BY <1>11
  <2> QED BY <2>6, <2>7, <2>8 DEF Basis, Anchored
<1>13. Knows(y)'
  BY <1>6 DEF Knows
<1>14. Ids' = Ids
  BY <1>4 DEF Ids
<1> QED BY <1>1, <1>7, <1>8, <1>10, <1>12, <1>13, <1>14, MoveKeeps

(* Steps of the deletions that leave rows and links as they are.           *)
LEMMA DeletionQuiet ==
  ASSUME IInv, Staff', Exclusive', NEW w \in Workers,
         ListLinks(w) \/ Stamp(w) \/ RemoveSubscription(w) \/ SelectNodes(w) \/ Sweep(w) \/ CountLinks(w)
  PROVE  Informed' /\ Nodes'
<1> USE DEF At, Become, Goto
<1>1. PICK x : x = worker[w]
  OBVIOUS
<1>2. x \in WorkerStates /\ Role(x) /\ x.pc \in Steps
  <2>1. x.pc \in Steps
    BY <1>1 DEF ListLinks, Stamp, RemoveSubscription, SelectNodes, Sweep, CountLinks, Steps
  <2> QED BY <1>1, <2>1, Working DEF IInv
<1>3. UNCHANGED <<rows, links, lastId, manual>>
  BY DEF ListLinks, Stamp, RemoveSubscription, SelectNodes, Sweep, CountLinks, tables, Silent
<1>4. ASSUME NEW y, worker' = [worker EXCEPT ![w] = y], Touch({}),
             \A n \in Held(x) \ (Held(y) \cup disturbed') : Anchored(n),
             y # Idle /\ y.node \notin disturbed' => Knows(y)
      PROVE  Informed' /\ Nodes'
  BY <1>1, <1>3, <1>4, TouchMoves, MoveQuiet
<1>5. CASE ListLinks(w) \/ Stamp(w) \/ RemoveSubscription(w)
  <2>1. PICK y : worker' = [worker EXCEPT ![w] = y] /\ Touch({}) /\ (y = Idle \/ \E s : y = [x EXCEPT !.pc = "unlink", !.stale = s])
    BY <1>1, <1>5 DEF ListLinks, Stamp, RemoveSubscription
  <2>2. x.pc \notin HoldingSteps /\ (x.pc = "sweep" => x.pending = {})
    BY <1>1, <1>5 DEF ListLinks, Stamp, RemoveSubscription, HoldingSteps
  <2>3. x.pending = {}
    BY <1>1, <1>2, <1>5, <2>2 DEF ListLinks, Stamp, RemoveSubscription, Role
  <2>4. Held(x) = {}
    BY <1>2, <2>2, <2>3, HoldsOne
  <2>5. y # Idle => Knows(y)
    <3>1. y # Idle => y.pc = "unlink"
      BY <1>2, <2>1 DEF WorkerStates
    <3> QED BY <3>1 DEF Knows
  <2> QED BY <1>4, <2>1, <2>4, <2>5
<1>6. CASE SelectNodes(w)
  <2>1. PICK y, s : worker' = [worker EXCEPT ![w] = y] /\ Touch({}) /\ y = [x EXCEPT !.pc = "unlinkAll", !.pending = s]
    BY <1>1, <1>6 DEF SelectNodes
  <2>2. y.pc = "unlinkAll"
    BY <1>2, <2>1 DEF WorkerStates
  <2>3. Knows(y)
    BY <2>2 DEF Knows
  <2>4. x.pc = "select"
    BY <1>1, <1>6 DEF SelectNodes
  <2>5. \A n \in Held(x) \ (Held(y) \cup disturbed') : Anchored(n)
    <3>1. x.pending = {} /\ x.pc \in Steps /\ x.pc \notin HoldingSteps
      BY <1>2, <2>4 DEF Role, HoldingSteps, Steps
    <3> QED BY <3>1, HoldsOne
  <2> QED BY <1>4, <2>1, <2>3, <2>5
<1>7. CASE Sweep(w)
  <2>1. PICK i : i \in x.pending /\ Touch({})
                 /\ worker' = [worker EXCEPT ![w] = [x EXCEPT !.pc = "count", !.pending = @ \ {i}, !.node = i]]
    BY <1>1, <1>7 DEF Sweep
  <2>y. PICK y : y = [x EXCEPT !.pc = "count", !.pending = @ \ {i}, !.node = i]
    OBVIOUS
  <2>2. y.pc = "count" /\ y.pending = x.pending \ {i} /\ y.node = i
    BY <1>2, <2>y DEF WorkerStates
  <2>3. Knows(y)
    BY <2>2 DEF Knows
  <2>4. x.pc = "sweep"
    BY <1>1, <1>7 DEF Sweep
  <2>5. Held(x) = x.pending /\ Held(y) = x.pending
    <3>1. x.pc \in Steps /\ x.pc \notin HoldingSteps /\ y.pc \in Steps /\ y.pc \in HoldingSteps
      BY <2>2, <2>4 DEF Steps, HoldingSteps
    <3>2. Held(x) = x.pending /\ Held(y) = y.pending \cup {y.node}
      BY <3>1, HoldsOne
    <3> QED BY <2>1, <2>2, <3>2
  <2> QED BY <1>4, <2>1, <2>y, <2>3, <2>5
<1>8. CASE CountLinks(w)
  <2>1. PICK y : /\ worker' = [worker EXCEPT ![w] = y] /\ Touch({}) /\ x.pc = "count"
                 /\ \/ LinksTo(x.node) = {} /\ y = [x EXCEPT !.pc = "purge"]
                    \/ LinksTo(x.node) # {} /\ y = Next1(x)
    BY <1>1, <1>8 DEF CountLinks
  <2>2. Held(x) = x.pending \cup {x.node}
    BY <1>2, <2>1, HoldsOne DEF HoldingSteps
  <2>3. y.pending = x.pending /\ y.node = x.node /\ y.pc \in {"purge", "sweep", "unlink"}
        /\ (LinksTo(x.node) = {} <=> y.pc = "purge")
    BY <1>2, <2>1 DEF WorkerStates, Next1
  <2>4. Held(y) = x.pending \cup (IF y.pc = "purge" THEN {x.node} ELSE {})
    BY <2>3, HoldsOne DEF HoldingSteps, Steps
  <2>5. Knows(y)
    BY <2>3 DEF Knows
  <2>6. \A n \in Held(x) \ Held(y) : Anchored(n)
    BY <2>2, <2>3, <2>4 DEF Anchored
  <2> QED BY <1>4, <2>1, <2>5, <2>6
<1> QED BY <1>5, <1>6, <1>7, <1>8

(* Steps that remove links.                                                *)
LEMMA UnlinkKeeps ==
  ASSUME IInv, Staff', Exclusive', NEW w \in Workers, Unlink(w) \/ UnlinkNode(w) \/ UnlinkAll(w)
  PROVE  Informed' /\ Nodes'
<1> USE DEF At, Become, Goto
<1>1. PICK x, y, gone : /\ x = worker[w] /\ gone \subseteq links
                        /\ worker' = [worker EXCEPT ![w] = y] /\ links' = links \ gone
                        /\ UNCHANGED <<rows, lastId, manual>>
                        /\ \/ /\ x.pc = "unlink" /\ Touch({})
                              /\ \E l \in x.stale :
                                    gone = {l} \cap links /\ y = [x EXCEPT !.pc = "count", !.stale = @ \ {l}, !.node = l.node]
                           \/ /\ x.pc = "unlinkNode" /\ gone = LinksTo(x.node) /\ y = [x EXCEPT !.pc = "dropNode"]
                              /\ Touch({})
                           \/ /\ x.pc = "unlinkAll" /\ gone = LinksOf(x.sub) /\ y = [x EXCEPT !.pc = "sweep"]
                              /\ Touch({l.node : l \in gone} \ x.pending)
  <2>1. PICK x : x = worker[w]
    OBVIOUS
  <2>2. CASE Unlink(w)
    <3>1. PICK l \in x.stale : links' = links \ {l} /\ UNCHANGED <<rows, lastId, manual>> /\ x.pc = "unlink" /\ Touch({})
             /\ worker' = [worker EXCEPT ![w] = [x EXCEPT !.pc = "count", !.stale = @ \ {l}, !.node = l.node]]
      BY <2>1, <2>2 DEF Unlink, Silent
    <3>2. links' = links \ ({l} \cap links) /\ ({l} \cap links) \subseteq links
      BY <3>1
    <3> QED BY <2>1, <3>1, <3>2
  <2>3. CASE UnlinkNode(w)
    BY <2>1, <2>3 DEF UnlinkNode, LinksTo, Silent
  <2>4. CASE UnlinkAll(w)
    BY <2>1, <2>4 DEF UnlinkAll, LinksOf, Silent
  <2> QED BY <2>2, <2>3, <2>4
<1>2. x \in WorkerStates /\ Role(x) /\ x.pc \in Steps /\ Tables
  <2>1. x.pc \in Steps
    BY <1>1 DEF Steps
  <2> QED BY <1>1, <2>1, Working DEF IInv
<1>3. Moves(w, y)
  BY <1>1, TouchMoves
<1>4. /\ Held(x) \subseteq Held(y)
      /\ \A l \in gone : l.node \in Held(y) \cup disturbed'
      /\ y.pc = "dropNode" => LinksTo(y.node) \subseteq gone
      /\ y.pc \in {"count", "dropNode", "sweep"}
  <2>1. CASE x.pc = "unlink"
    <3>1. PICK l \in x.stale : gone = {l} \cap links /\ y = [x EXCEPT !.pc = "count", !.stale = @ \ {l}, !.node = l.node]
      BY <1>1, <2>1
    <3>2. y.pc = "count" /\ y.node = l.node /\ y.pending = x.pending
      BY <1>2, <3>1 DEF WorkerStates
    <3>3. x.pending = {}
      BY <1>2, <2>1 DEF Role
    <3>4. x.pc \in Steps /\ x.pc \notin HoldingSteps /\ y.pc \in Steps /\ y.pc \in HoldingSteps
      BY <2>1, <3>2 DEF Steps, HoldingSteps
    <3>5. Held(x) = {} /\ Held(y) = {l.node}
      BY <3>2, <3>3, <3>4, HoldsOne
    <3> QED BY <3>1, <3>2, <3>5
  <2>2. CASE x.pc = "unlinkNode"
    <3>1. gone = LinksTo(x.node) /\ y = [x EXCEPT !.pc = "dropNode"]
      BY <1>1, <2>2
    <3>2. y.pc = "dropNode" /\ y.node = x.node /\ y.pending = x.pending
      BY <1>2, <3>1 DEF WorkerStates
    <3>3. x.pc \in Steps /\ x.pc \in HoldingSteps /\ y.pc \in Steps /\ y.pc \in HoldingSteps
      BY <2>2, <3>2 DEF Steps, HoldingSteps
    <3>4. Held(x) = Held(y) /\ x.node \in Held(y)
      BY <3>2, <3>3, HoldsOne
    <3> QED BY <3>1, <3>2, <3>4 DEF LinksTo
  <2>3. CASE x.pc = "unlinkAll"
    <3>1. y = [x EXCEPT !.pc = "sweep"] /\ Touch({l.node : l \in gone} \ x.pending)
      BY <1>1, <2>3
    <3>2. y.pc = "sweep" /\ y.pending = x.pending
      BY <1>2, <3>1 DEF WorkerStates
    <3>3. x.pc \in Steps /\ x.pc \notin HoldingSteps /\ y.pc \in Steps /\ y.pc \notin HoldingSteps
      BY <2>3, <3>2 DEF Steps, HoldingSteps
    <3>4. Held(x) = x.pending /\ Held(y) = x.pending
      BY <3>2, <3>3, HoldsOne
    <3>5. \A l \in gone : l.node \in x.pending \cup disturbed'
      BY <3>1 DEF Touch
    <3> QED BY <3>2, <3>4, <3>5
  <2> QED BY <1>1, <2>1, <2>2, <2>3
<1>5. \A n : LinksTo(n)' = LinksTo(n) \ gone /\ (HasRow(n)' <=> HasRow(n))
  BY <1>1 DEF LinksTo, HasRow
<1>6. ASSUME NEW n \in Ids, n \notin Held(y), n \notin disturbed' PROVE Spares(n)
  <2>1. LinksTo(n) \cap gone = {}
    BY <1>4, <1>6 DEF LinksTo
  <2> QED BY <1>1, <1>5, <2>1 DEF Spares
<1>7. Ids' = Ids
  BY <1>1 DEF Ids
<1>8. ASSUME NEW n \in Held(y), n \notin disturbed' PROVE Basis(n)'
  <2>1. n \in Ids /\ n \notin disturbed
    <3>1. Holds'
      BY HoldsIds, PTL DEF Moves
    <3>2. y = worker'[w]
      BY <1>1 DEF IInv, Staff
    <3> QED BY <1>3, <1>7, <1>8, <3>1, <3>2 DEF Holds, Moves
  <2>2. Sound(n)
    BY <2>1 DEF IInv, Nodes
  <2> QED BY <1>5, <2>2 DEF Sound, Basis
<1>9. Knows(y)'
  BY <1>4, <1>5 DEF Knows
<1> QED BY <1>1, <1>3, <1>4, <1>6, <1>7, <1>8, <1>9, MoveKeeps

(* Steps that change a row.                                                *)
LEMMA DeleteRowKeeps ==
  ASSUME IInv, Staff', Exclusive', NEW w \in Workers, DeleteRow(w) \/ DropNode(w)
  PROVE  Informed' /\ Nodes'
<1> USE DEF At, Become, Goto
<1>1. PICK x, y : /\ x = worker[w] /\ worker' = [worker EXCEPT ![w] = y] /\ Touch({})
                  /\ rows' = WithoutRow(x.node) /\ UNCHANGED <<links, lastId, manual>>
                  /\ \/ x.pc = "purge" /\ y = Next1(x)
                     \/ x.pc = "dropNode" /\ y = Idle
  BY DEF DeleteRow, DropNode, Silent
<1>2. x \in WorkerStates /\ Role(x) /\ x.pc \in Steps /\ x.pc \in HoldingSteps /\ Tables /\ x # Idle
  <2>1. x.pc \in Steps /\ x.pc \in HoldingSteps
    BY <1>1 DEF Steps, HoldingSteps
  <2> QED BY <1>1, <2>1, Working DEF IInv
<1>3. Moves(w, y)
  BY <1>1, TouchMoves
<1>4. PICK n : n = x.node
  OBVIOUS
<1>5. Held(x) = x.pending \cup {n}
  BY <1>2, <1>4, HoldsOne
<1>6. Held(y) = x.pending /\ (y # Idle => Knows(y)')
  <2>1. CASE x.pc = "purge"
    <3>1. y.pending = x.pending /\ y.pc \in {"sweep", "unlink"}
      BY <1>1, <1>2, <2>1 DEF WorkerStates, Next1
    <3>2. y.pc \in Steps /\ y.pc \notin HoldingSteps
      BY <3>1 DEF Steps, HoldingSteps
    <3>3. Held(y) = x.pending
      BY <3>1, <3>2, HoldsOne
    <3> QED BY <3>1, <3>3 DEF Knows
  <2>2. CASE x.pc = "dropNode"
    <3>1. y = Idle /\ x.pending = {}
      BY <1>1, <1>2, <2>2 DEF Role
    <3> QED BY <3>1 DEF Held
  <2> QED BY <1>1, <2>1, <2>2
<1>7. Held(x) \subseteq Ids /\ n \in Ids
  BY <1>1, <1>5, HoldsIds DEF IInv, Holds
<1>8. ~HasRow(n)'
  <2>1. n # NoId
    BY <1>7 DEF Ids, NoId
  <2> QED BY <1>1, <1>4, <2>1 DEF HasRow, WithoutRow
<1>9. ASSUME NEW m \in Ids, m # n PROVE Spares(m)
  <2>1. m # NoId
    BY DEF Ids, NoId
  <2>2. \A a \in Addresses : rows'[a] = m <=> rows[a] = m
    BY <1>1, <1>4, <1>9, <2>1 DEF WithoutRow
  <2> QED BY <1>1, <2>2 DEF Spares, LinksTo
<1>10. ASSUME n \notin disturbed' PROVE LinksTo(n)' = {}
  <2>1. Knows(x)
    BY <1>1, <1>2, <1>3, <1>4, <1>10 DEF Moves, IInv, Informed
  <2> QED BY <1>1, <1>4, <2>1 DEF Knows, LinksTo
<1>11. ASSUME NEW m \in Held(x), m \notin disturbed' PROVE Basis(m)'
  <2>1. CASE m = n
    BY <1>10, <1>11, <2>1 DEF Basis
  <2>2. CASE m # n
    <3>1. Spares(m) /\ Sound(m)
      BY <1>3, <1>7, <1>9, <1>11, <2>2 DEF Moves, IInv, Nodes
    <3> QED BY <3>1 DEF Spares, Sound, Basis, HasRow
  <2> QED BY <2>1, <2>2
<1>12. Anchored(n)'
  BY <1>8 DEF Anchored
<1>13. Ids' = Ids
  BY <1>1 DEF Ids
<1> QED BY <1>1, <1>3, <1>5, <1>6, <1>9, <1>11, <1>12, <1>13, MoveKeeps

LEMMA SaveCheckedKeeps ==
  ASSUME IInv, Staff', Exclusive', NEW w \in Workers, SaveChecked(w)
  PROVE  Informed' /\ Nodes'
<1>1. PICK x : x = worker[w]
  OBVIOUS
<1>2. PICK i, a : i = x.node /\ a = Head(x.list)
  OBVIOUS
<1>3. x.pc = "probe" /\ x \in WorkerStates /\ Role(x) /\ Tables
  BY <1>1, Working DEF SaveChecked, At, Steps, IInv
<1>4. Held(x) = {} /\ Held(Idle) = {}
  BY <1>3, HoldsOne DEF Role, Steps, HoldingSteps, Held
<1>5. a \in Addresses
  BY <1>2, <1>3, HeadTailProperties DEF Role, WorkerStates
<1>6. /\ worker' = [worker EXCEPT ![w] = Idle] /\ UNCHANGED <<links, lastId, manual>>
      /\ \/ UNCHANGED rows /\ Touch({})
         \/ rows[a] = NoId /\ rows' = [rows EXCEPT ![a] = i] /\ Touch({i})
  BY <1>1, <1>2 DEF SaveChecked, Silent
<1>7. Moves(w, Idle)
  BY <1>6, TouchMoves
<1>8. ASSUME NEW n \in Ids, n \notin disturbed' PROVE Spares(n)
  <2>1. CASE UNCHANGED rows
    BY <1>6, <2>1 DEF Spares, LinksTo
  <2>2. CASE rows[a] = NoId /\ rows' = [rows EXCEPT ![a] = i] /\ Touch({i})
    <3>1. n # i /\ n # NoId
      BY <1>8, <2>2 DEF Touch, Ids, NoId
    <3>2. \A b \in Addresses : rows'[b] = n <=> rows[b] = n
      BY <1>3, <2>2, <3>1 DEF Tables
    <3> QED BY <1>6, <3>2 DEF Spares, LinksTo
  <2> QED BY <1>6, <2>1, <2>2
<1>9. Ids' = Ids
  BY <1>6 DEF Ids
<1> QED BY <1>1, <1>4, <1>7, <1>8, <1>9, MoveKeeps

-----------------------------------------------------------------------------
(* Failures, and operations that begin.                                    *)
LEMMA FailsKeeps ==
  ASSUME IInv, Staff', Exclusive', NEW w \in Workers, Fails(w)
  PROVE  Informed' /\ Nodes'
<1>1. worker' = [worker EXCEPT ![w] = Idle] /\ Touch(Held(worker[w])) /\ UNCHANGED <<rows, links, lastId, manual>>
  BY DEF Fails, tables
<1>2. Held(worker[w]) \subseteq disturbed'
  BY <1>1 DEF Touch
<1> QED BY <1>1, <1>2, TouchMoves, MoveQuiet

LEMMA IgnoredErrorKeeps ==
  ASSUME IInv, Staff', Exclusive', NEW w \in Workers, IgnoredError(w)
  PROVE  Informed' /\ Nodes'
<1> USE DEF At
<1>1. PICK x : x = worker[w]
  OBVIOUS
<1>2. x.pc \in {"reread", "find", "link", "purge", "unlinkNode"} /\ (x.pc = "purge" => x.kind = "sync")
  BY <1>1 DEF IgnoredError
<1>3. x \in WorkerStates /\ Role(x)
  BY <1>1, <1>2, Working DEF IInv, Steps
<1>4. PICK z, y : /\ worker' = [worker EXCEPT ![w] = y] /\ y = [z EXCEPT !.sole = FALSE] /\ Touch({x.node})
                  /\ \/ z = [x EXCEPT !.pc = "upsert", !.todo = Tail(@)]
                     \/ z = Imported(x)
                     \/ z = Next1(x)
                     \/ z = [x EXCEPT !.pc = "dropNode"]
  BY <1>1 DEF IgnoredError
<1>5. y.node = x.node
  <2>1. z.node = x.node /\ DOMAIN z = DOMAIN x
    BY <1>3, <1>4 DEF WorkerStates, Imported, Next1
  <2> QED BY <1>3, <1>4, <2>1 DEF WorkerStates
<1>6. Held(x) \subseteq {x.node}
  BY <1>2, <1>3, HoldsOne DEF Role, Steps
<1>7. x.node \in disturbed'
  BY <1>4 DEF Touch
<1>8. UNCHANGED <<rows, links, lastId, manual>>
  BY DEF IgnoredError, tables
<1>9. Moves(w, y)
  BY <1>4, TouchMoves
<1>10. Held(worker[w]) \subseteq disturbed' /\ y.node \in disturbed'
  BY <1>1, <1>5, <1>6, <1>7
<1> QED BY <1>8, <1>9, <1>10, MoveQuiet

LEMMA RestartKeeps ==
  ASSUME IInv, Staff', Restart
  PROVE  Informed' /\ Nodes'
<1>1. worker' = [w \in Workers |-> Idle] /\ UNCHANGED <<rows, links, lastId, manual>>
      /\ \A w \in Workers : Held(worker[w]) \subseteq disturbed'
  BY DEF Restart, tables, Touch
<1>2. disturbed \subseteq disturbed'
  BY DEF Restart, Touch
<1>3. Informed'
  BY <1>1 DEF Informed
<1>4. ASSUME NEW n \in Ids', n \notin disturbed' PROVE Sound(n)'
  <2>1. Sound(n) /\ \A w \in Workers : n \notin Held(worker[w])
    BY <1>1, <1>2, <1>4 DEF IInv, Nodes, Ids
  <2> QED BY <1>1, <2>1 DEF Sound, HasRow, LinksTo
<1> QED BY <1>3, <1>4 DEF Nodes

LEMMA FreshKnows ==
  ASSUME NEW b, NEW x, Fresh(x, b)
  PROVE  Knows(x)
<1>1. ASSUME NEW s PROVE Syncing(s, b).pc = "fetch" /\ Deleting(s, b).pc = "select"
  BY DEF Deleting, Syncing
<1>2. ASSUME NEW list PROVE Importing(list, b).pc = "upsert"
  BY DEF Importing, Syncing
<1>3. ASSUME NEW i PROVE Dropping(i, b).pc = "unlinkNode"
  BY DEF Dropping, Syncing
<1>4. ASSUME NEW i, NEW a PROVE Checking(i, a, b).pc = "probe"
  BY DEF Checking, Syncing
<1>5. x.pc \in {"fetch", "upsert", "select", "unlinkNode", "probe"}
  BY <1>1, <1>2, <1>3, <1>4 DEF Fresh
<1> QED BY <1>5 DEF Knows

LEMMA StartKeeps ==
  ASSUME IInv, Staff', Exclusive', NEW w \in Workers, NEW b \in BOOLEAN, NEW y, Fresh(y, b),
         worker[w] = Idle, Start(w, y), UNCHANGED <<rows, links, lastId, manual>>
  PROVE  Informed' /\ Nodes'
<1>1. y = worker'[w] /\ \A v \in Workers \ {w} : Marked(worker[v], worker'[v])
  BY DEF Start, Marked
<1>2. disturbed \subseteq disturbed' /\ Contended' \subseteq disturbed'
  BY DEF Start, Touch
<1>3. Held(Idle) = {}
  BY DEF Held
<1>4. Ids' = Ids /\ \A n : (LinksTo(n)' = LinksTo(n)) /\ (HasRow(n)' <=> HasRow(n))
  BY DEF Ids, LinksTo, HasRow
<1>5. \A n \in Ids : Spares(n)
  BY <1>4 DEF Spares
<1>6. ASSUME NEW n \in Held(y), n \notin disturbed' PROVE Basis(n)'
  <2>1. Holds'
    BY HoldsIds, PTL
  <2>2. Sound(n)
    BY <1>1, <1>2, <1>4, <1>6, <2>1 DEF Holds, IInv, Nodes
  <2> QED BY <1>4, <2>2 DEF Sound, Basis
<1>7. Knows(y)'
  BY <1>4, FreshKnows DEF Knows
<1>8. PICK x : x = Idle
  OBVIOUS
<1> QED BY <1>1, <1>2, <1>3, <1>4, <1>5, <1>6, <1>7, <1>8, StepKeeps DEF IInv

LEMMA NodesNext ==
  ASSUME IInv, Staff', Exclusive', Next
  PROVE  Informed' /\ Nodes'
<1>1. ASSUME NEW w \in Workers, WorkerStep(w) PROVE Informed' /\ Nodes'
  BY <1>1, ImportQuiet, RereadKeeps, UpsertKeeps, CreateLinkKeeps, DeletionQuiet, UnlinkKeeps, DeleteRowKeeps,
     SaveCheckedKeeps DEF WorkerStep, ImportStep, DeletionStep
<1>2. ASSUME NEW w \in Workers, Handler(w) PROVE Informed' /\ Nodes'
  BY <1>2, HandlerStarts, StartKeeps DEF tables
<1>3. CASE Environment \/ StartRound
  <2>1. UNCHANGED <<rows, links, lastId, worker, manual, disturbed>>
    BY <1>3 DEF Environment, Publish, CreateSubscription, UpdateSubscription, TimePasses, EditRow, StartRound, tables
  <2> QED BY <2>1 DEF IInv, Informed, Knows, Nodes, Sound, HasRow, LinksTo, Ids
<1>4. ASSUME NEW s \in Subs, SyncNext(s) PROVE Informed' /\ Nodes'
  <2>1. CASE UNCHANGED <<worker, disturbed>>
    <3>1. UNCHANGED <<rows, links, lastId, worker, manual, disturbed>>
      BY <1>4, <2>1 DEF SyncNext, tables
    <3> QED BY <3>1 DEF IInv, Informed, Knows, Nodes, Sound, HasRow, LinksTo, Ids
  <2>2. CASE Present(s)
    <3>1. PICK b \in BOOLEAN : b = Alone
      BY DEF Alone
    <3>2. PICK y : y = Syncing(s, b)
      OBVIOUS
    <3>3. Start(Ticker, y) /\ worker[Ticker] = Idle /\ UNCHANGED <<rows, links, lastId, manual>>
      BY <1>4, <2>2, <3>1, <3>2 DEF SyncNext, tables
    <3>4. Fresh(y, b) /\ Ticker \in Workers
      BY <3>2 DEF Fresh, Workers
    <3> QED BY <3>3, <3>4, StartKeeps
  <2> QED BY <1>4, <2>1, <2>2 DEF SyncNext
<1> QED BY <1>1, <1>2, <1>3, <1>4, FailsKeeps, IgnoredErrorKeeps, RestartKeeps DEF Next, TickerStep, Workers

-----------------------------------------------------------------------------
(* The invariant.                                                          *)
LEMMA InitIInv == Init => IInv
<1> SUFFICES ASSUME Init PROVE IInv
  OBVIOUS
<1>1. Ids = {} /\ \A w \in Workers : worker[w] = Idle
  BY DEF Init, Ids
<1>2. Tables
  <2>1. sub \in [Subs -> [life : {"new", "present", "deleted"}, enabled : BOOLEAN, due : BOOLEAN]]
    <3>1. PICK start : start = {[life |-> l, enabled |-> TRUE, due |-> TRUE] : l \in {"new", "present"}}
      OBVIOUS
    <3>2. start \subseteq [life : {"new", "present", "deleted"}, enabled : BOOLEAN, due : BOOLEAN]
      <4>1. ASSUME NEW l \in {"new", "present"}
            PROVE  [life |-> l, enabled |-> TRUE, due |-> TRUE]
                     \in [life : {"new", "present", "deleted"}, enabled : BOOLEAN, due : BOOLEAN]
        OBVIOUS
      <4> QED BY <3>1, <4>1
    <3>3. sub \in [Subs -> start]
      BY <3>1 DEF Init
    <3> QED BY <3>2, <3>3
  <2>2. offer \in [Subs -> Seq(Addresses)]
    BY SyncAssumption DEF Init
  <2>3. rows \in [Addresses -> Ids \cup {NoId}] /\ \A a \in Addresses : rows[a] = NoId
    BY DEF Init
  <2>4. ops \in 0..MaxOps /\ edits \in 0..MaxEdits /\ faults \in 0..MaxFaults
    BY SyncAssumption DEF Init
  <2> QED BY <2>1, <2>2, <2>3, <2>4 DEF Init, Tables
<1>3. Staff /\ Informed
  BY <1>1 DEF Init, Staff, Informed
<1>4. Exclusive
  BY <1>1 DEF Exclusive, Held
<1>5. Nodes
  BY <1>1 DEF Nodes
<1> QED BY <1>2, <1>3, <1>4, <1>5 DEF IInv

LEMMA NextIInv == IInv /\ [Next]_vars => IInv'
<1> SUFFICES ASSUME IInv, [Next]_vars PROVE IInv'
  OBVIOUS
<1>1. CASE Next
  <2>1. Growing
    BY <1>1, GrowingNext DEF IInv
  <2>2. Staff'
    BY <1>1, <2>1, StaffNext DEF IInv
  <2>3. Tables'
    BY <1>1, <2>2, TablesNext DEF IInv
  <2>4. Exclusive'
    BY <1>1, <2>1, <2>2, ExclusiveNext DEF IInv
  <2>5. Informed' /\ Nodes'
    BY <1>1, <2>2, <2>4, NodesNext
  <2> QED BY <2>2, <2>3, <2>4, <2>5 DEF IInv
<1>2. CASE UNCHANGED vars
  <2> USE <1>2 DEF vars, tables, bounds, IInv
  <2>1. Ids' = Ids /\ Links' = Links /\ WorkerStates' = WorkerStates
    BY DEF Ids, Links, WorkerStates
  <2>2. Tables' /\ Staff'
    BY <2>1 DEF Tables, Staff
  <2>3. Exclusive'
    BY DEF Exclusive
  <2>4. \A n : LinksTo(n)' = LinksTo(n) /\ (HasRow(n)' <=> HasRow(n))
    BY DEF LinksTo, HasRow
  <2>5. \A w \in Workers : Knows(worker[w])' <=> Knows(worker[w])
    BY <2>4 DEF Knows
  <2>6. Informed'
    BY <2>5 DEF Informed
  <2>7. \A n \in Ids : Sound(n)' <=> Sound(n)
    BY <2>4 DEF Sound
  <2>8. Nodes'
    BY <2>1, <2>7 DEF Nodes
  <2> QED BY <2>2, <2>3, <2>6, <2>8
<1> QED BY <1>1, <1>2

(* The tables and the workers keep their shape; two workers hold the same  *)
(* node only when it is marked as disturbed; what a worker that holds a    *)
(* node alone has read about it is still true; and a node that nothing has *)
(* disturbed is linked properly.                                           *)
THEOREM SyncInvariant == Spec => []IInv
BY InitIInv, NextIInv, PTL DEF Spec

(* The unique indexes of proxy_nodes and subscription_nodes are respected  *)
(* and every worker is in a state that the code has, for any number of     *)
(* handlers.                                                               *)
THEOREM SyncTypeOK == Spec => []TypeOK
<1>1. IInv => TypeOK
  BY DEF IInv, Tables, Staff, TypeOK
<1> QED BY <1>1, SyncInvariant, PTL

(* persistParsedNodes, prune, Delete, deleteNode and CheckOne leave no     *)
(* link to a node that does not exist, unless two of them held that node   *)
(* at the same time or a failure hit it.                                   *)
THEOREM SyncLinkedNodesExist == Spec => []LinkedNodesExist
<1>1. ASSUME IInv PROVE LinkedNodesExist
  <2>1. ASSUME NEW l \in links, l.node \notin disturbed PROVE HasRow(l.node)
    <3>1. l.node \in Ids /\ l \in LinksTo(l.node)
      BY <1>1 DEF IInv, Tables, Links, LinksTo
    <3>2. Sound(l.node)
      BY <1>1, <2>1, <3>1 DEF IInv, Nodes
    <3> QED BY <3>1, <3>2 DEF Sound
  <2> QED BY <2>1 DEF LinkedNodesExist
<1> QED BY <1>1, SyncInvariant, PTL

(* A subscription links a node once, although the SELECT and the INSERT of *)
(* FirstOrCreate are two statements and no unique index backs them.        *)
THEOREM SyncOneLinkEach == Spec => []OneLinkEach
<1>1. ASSUME IInv PROVE OneLinkEach
  <2>1. ASSUME NEW l \in links, NEW k \in links, l.sub = k.sub, l.node = k.node, l.node \notin disturbed
        PROVE  l = k
    <3>1. l.node \in Ids /\ l \in LinksTo(l.node) /\ k \in LinksTo(l.node)
      BY <1>1, <2>1 DEF IInv, Tables, Links, LinksTo
    <3>2. Sound(l.node)
      BY <1>1, <2>1, <3>1 DEF IInv, Nodes
    <3> QED BY <2>1, <3>1, <3>2 DEF Sound
  <2> QED BY <2>1 DEF OneLinkEach
<1> QED BY <1>1, SyncInvariant, PTL

(* prune and Delete leave no node behind that nothing links and nobody     *)
(* imported by hand, except one that a worker is still busy with.          *)
THEOREM SyncNodesAreLinked == Spec => []NodesAreLinked
<1>1. ASSUME IInv PROVE NodesAreLinked
  <2>1. ASSUME NEW a \in Addresses, rows[a] \notin {NoId} \cup manual \cup disturbed
        PROVE  LinksTo(rows[a]) # {} \/ \E w \in Workers : rows[a] \in Held(worker[w])
    <3>1. PICK n : n = rows[a]
      OBVIOUS
    <3>2. n \in Ids /\ HasRow(n) /\ n \notin disturbed /\ n \notin manual
      BY <1>1, <2>1, <3>1 DEF IInv, Tables, HasRow
    <3>3. Sound(n)
      BY <1>1, <3>2 DEF IInv, Nodes
    <3> QED BY <3>1, <3>2, <3>3 DEF Sound
  <2> QED BY <2>1 DEF NodesAreLinked
<1> QED BY <1>1, SyncInvariant, PTL

-----------------------------------------------------------------------------
(* Every operation ends.                                                   *)
(* What a worker works off is finite.                                      *)
Finite ==
    /\ IsFiniteSet(links)
    /\ \A w \in Workers : worker[w] # Idle => IsFiniteSet(worker[w].stale)

(* A worker takes no more links with it than there are.                    *)
Carries(y, x) == y = Idle \/ y.stale \in SUBSET (x.stale \cup links)

LEMMA ItemsNat ==
  ASSUME Tables, NEW x \in WorkerStates, IsFiniteSet(x.stale)
  PROVE  /\ Len(x.todo) \in Nat /\ Cardinality(x.stale) \in Nat
         /\ IsFiniteSet(x.pending) /\ Cardinality(x.pending) \in Nat
         /\ Items(x) \in Nat
<1>1. Len(x.todo) \in Nat
  BY LenProperties DEF WorkerStates
<1>2. Cardinality(x.stale) \in Nat
  BY FS_CardinalityType
<1>3. IsFiniteSet(x.pending) /\ Cardinality(x.pending) \in Nat
  <2>1. IsFiniteSet(1..lastId)
    BY FS_Interval DEF Tables
  <2>2. x.pending \in SUBSET (1..lastId)
    BY DEF WorkerStates, Ids
  <2> QED BY <2>1, <2>2, FS_Subset, FS_CardinalityType
<1> QED BY <1>1, <1>2, <1>3 DEF Items

LEMMA PhaseNat ==
  ASSUME NEW x \in WorkerStates
  PROVE  Phase[x.pc] \in 1..4
<1>1. x.pc \in Steps
  BY DEF WorkerStates
<1> QED BY <1>1 DEF Steps, Phase

LEMMA IdleBehind ==
  ASSUME NEW x \in WorkerStates
  PROVE  Behind(Idle, x)
<1>1. Phase["idle"] = 0 /\ Idle.pc = "idle"
  BY DEF Phase, Idle
<1> QED BY <1>1, PhaseNat DEF Behind

(* The next item: of a list, of the stale links, of the nodes to examine.  *)
LEMMA NextItem ==
  ASSUME Tables, NEW x \in WorkerStates, IsFiniteSet(x.stale), NEW y, Phase[y.pc] = Phase[x.pc],
         \/ x.todo # <<>> /\ y.todo = Tail(x.todo) /\ y.stale = x.stale /\ y.pending = x.pending
         \/ \E l \in x.stale : y.todo = x.todo /\ y.stale = x.stale \ {l} /\ y.pending = x.pending
         \/ \E i \in x.pending : y.todo = x.todo /\ y.stale = x.stale /\ y.pending = x.pending \ {i}
  PROVE  Behind(y, x)
<1>0. PICK t, s, p, t2, s2, p2 :
        /\ t = Len(x.todo) /\ s = Cardinality(x.stale) /\ p = Cardinality(x.pending)
        /\ t2 = Len(y.todo) /\ s2 = Cardinality(y.stale) /\ p2 = Cardinality(y.pending)
  OBVIOUS
<1>1. t \in Nat /\ s \in Nat /\ p \in Nat /\ IsFiniteSet(x.pending)
  BY <1>0, ItemsNat
<1>2. t2 + s2 + p2 < t + s + p
  <2>1. CASE x.todo # <<>> /\ y.todo = Tail(x.todo) /\ y.stale = x.stale /\ y.pending = x.pending
    <3>1. t2 = t - 1
      BY <1>0, <2>1, HeadTailProperties DEF WorkerStates
    <3> QED BY <1>0, <1>1, <2>1, <3>1
  <2>2. ASSUME NEW l \in x.stale, y.todo = x.todo, y.stale = x.stale \ {l}, y.pending = x.pending
        PROVE  t2 + s2 + p2 < t + s + p
    <3>1. s2 = s - 1
      BY <1>0, <2>2, FS_RemoveElement
    <3> QED BY <1>0, <1>1, <2>2, <3>1
  <2>3. ASSUME NEW i \in x.pending, y.todo = x.todo, y.stale = x.stale, y.pending = x.pending \ {i}
        PROVE  t2 + s2 + p2 < t + s + p
    <3>1. p2 = p - 1
      BY <1>0, <1>1, <2>3, FS_RemoveElement
    <3> QED BY <1>0, <1>1, <2>3, <3>1
  <2> QED BY <2>1, <2>2, <2>3
<1>3. Items(y) < Items(x)
  BY <1>0, <1>2, Zenon DEF Items
<1> QED BY <1>3 DEF Behind

(* The next command for the same item.                                     *)
LEMMA NextCommand ==
  ASSUME NEW x, NEW y, Phase[y.pc] = Phase[x.pc], Command[y.pc] < Command[x.pc],
         y.todo = x.todo, y.stale = x.stale, y.pending = x.pending
  PROVE  Behind(y, x)
BY DEF Behind, Items

LEMMA ImportBehind ==
  ASSUME IInv, Finite, NEW w \in Workers, ImportStep(w), NEW x, x = worker[w]
  PROVE  Behind(worker'[w], x) /\ Carries(worker'[w], x) /\ \A v \in Workers : v # w => worker'[v] = worker[v]
<1> USE DEF At, Become, Goto
<1>1. x.pc \in Steps
  BY DEF ImportStep, FetchSubscription, UpsertFails, Upsert, Reread, FindLink, CreateLink, ImportEnds, Steps
<1>2. x \in WorkerStates /\ Role(x) /\ IsFiniteSet(x.stale) /\ Tables
  BY <1>1, Working DEF IInv, Finite
<1>3. worker \in [Workers -> WorkerStates \cup {Idle}]
  BY DEF IInv, Staff
<1>4. ASSUME NEW y, worker' = [worker EXCEPT ![w] = y], Behind(y, x), Carries(y, x)
      PROVE  Behind(worker'[w], x) /\ Carries(worker'[w], x) /\ \A v \in Workers : v # w => worker'[v] = worker[v]
  BY <1>3, <1>4
<1>5. CASE FetchSubscription(w)
  <2>1. PICK y : /\ worker' = [worker EXCEPT ![w] = y]
                 /\ \E list : y = [x EXCEPT !.pc = "upsert", !.list = list, !.todo = list]
    BY <1>5 DEF FetchSubscription
  <2>2. x.pc = "fetch" /\ y.pc = "upsert" /\ y.stale = x.stale
    BY <1>2, <1>5, <2>1 DEF FetchSubscription, WorkerStates
  <2>3. Behind(y, x) /\ Carries(y, x)
    BY <2>2 DEF Behind, Phase, Carries
  <2> QED BY <1>4, <2>1, <2>3
<1>6. CASE UpsertFails(w)
  BY <1>2, <1>4, <1>6, IdleBehind DEF UpsertFails, Carries
<1>7. CASE Upsert(w)
  <2>1. PICK y : /\ worker' = [worker EXCEPT ![w] = y]
                 /\ \E i : y = [x EXCEPT !.pc = "reread", !.node = i]
    BY <1>7 DEF Upsert
  <2>2. x.pc = "upsert" /\ y.pc = "reread" /\ y.todo = x.todo /\ y.stale = x.stale /\ y.pending = x.pending
    BY <1>2, <1>7, <2>1 DEF Upsert, WorkerStates
  <2>3. Phase[y.pc] = Phase[x.pc] /\ Command[y.pc] < Command[x.pc]
    BY <2>2 DEF Phase, Command
  <2> QED BY <1>4, <2>1, <2>2, <2>3, NextCommand DEF Carries
<1>8. ASSUME NEW y, worker' = [worker EXCEPT ![w] = y], x.pc \in {"reread", "find", "link"},
             \/ y = [x EXCEPT !.pc = "upsert", !.todo = Tail(@)]
             \/ \E i : y = Imported([x EXCEPT !.node = i])
      PROVE  Behind(y, x) /\ Carries(y, x)
  <2>1. y.pc = "upsert" /\ y.todo = Tail(x.todo) /\ y.stale = x.stale /\ y.pending = x.pending
    BY <1>2, <1>8 DEF Imported, WorkerStates
  <2>2. x.todo # <<>>
    BY <1>2, <1>8 DEF Role
  <2>3. Phase[y.pc] = Phase[x.pc]
    BY <1>8, <2>1 DEF Phase
  <2> QED BY <1>2, <2>1, <2>2, <2>3, NextItem DEF Carries
<1>9. CASE Reread(w)
  <2>1. PICK y : /\ worker' = [worker EXCEPT ![w] = y]
                 /\ \/ y = [x EXCEPT !.pc = "upsert", !.todo = Tail(@)]
                    \/ \E i : y = Imported([x EXCEPT !.node = i])
                    \/ \E i : y = [[x EXCEPT !.node = i] EXCEPT !.pc = "find"]
    BY <1>9 DEF Reread
  <2>2. x.pc = "reread"
    BY <1>9 DEF Reread
  <2>3. CASE \E i : y = [[x EXCEPT !.node = i] EXCEPT !.pc = "find"]
    <3>1. y.pc = "find" /\ y.todo = x.todo /\ y.stale = x.stale /\ y.pending = x.pending
      BY <1>2, <2>3 DEF WorkerStates
    <3>2. Phase[y.pc] = Phase[x.pc] /\ Command[y.pc] < Command[x.pc]
      BY <2>2, <3>1 DEF Phase, Command
    <3> QED BY <1>4, <2>1, <3>1, <3>2, NextCommand DEF Carries
  <2>4. CASE \/ y = [x EXCEPT !.pc = "upsert", !.todo = Tail(@)]
             \/ \E i : y = Imported([x EXCEPT !.node = i])
    BY <1>4, <1>8, <2>1, <2>2, <2>4
  <2> QED BY <2>1, <2>3, <2>4
<1>10. CASE FindLink(w) \/ CreateLink(w)
  <2>1. PICK y : worker' = [worker EXCEPT ![w] = y] /\ (y = Imported(x) \/ (x.pc = "find" /\ y = [x EXCEPT !.pc = "link"]))
    BY <1>10 DEF FindLink, CreateLink
  <2>2. x.pc \in {"find", "link"}
    BY <1>10 DEF FindLink, CreateLink
  <2>3. CASE x.pc = "find" /\ y = [x EXCEPT !.pc = "link"]
    <3>1. y.pc = "link" /\ y.todo = x.todo /\ y.stale = x.stale /\ y.pending = x.pending
      BY <1>2, <2>3 DEF WorkerStates
    <3>2. Phase[y.pc] = Phase[x.pc] /\ Command[y.pc] < Command[x.pc]
      BY <2>3, <3>1 DEF Phase, Command
    <3> QED BY <1>4, <2>1, <3>1, <3>2, NextCommand DEF Carries
  <2>4. CASE y = Imported(x)
    <3>1. Imported(x) = Imported([x EXCEPT !.node = x.node])
      BY <1>2 DEF WorkerStates
    <3> QED BY <1>4, <1>8, <2>1, <2>2, <2>4, <3>1
  <2> QED BY <2>1, <2>3, <2>4
<1>11. CASE ImportEnds(w)
  <2>1. PICK y : worker' = [worker EXCEPT ![w] = y] /\ (y = Idle \/ y = [x EXCEPT !.pc = "prune"])
    BY <1>11 DEF ImportEnds
  <2>2. x.pc = "upsert"
    BY <1>11 DEF ImportEnds
  <2>3. CASE y = Idle
    BY <1>2, <1>4, <2>1, <2>3, IdleBehind DEF Carries
  <2>4. CASE y = [x EXCEPT !.pc = "prune"]
    <3>1. y.pc = "prune" /\ y.stale = x.stale
      BY <1>2, <2>4 DEF WorkerStates
    <3>2. Behind(y, x) /\ Carries(y, x)
      BY <2>2, <3>1 DEF Behind, Phase, Carries
    <3> QED BY <1>4, <2>1, <3>2
  <2> QED BY <2>1, <2>3, <2>4
<1> QED BY <1>5, <1>6, <1>7, <1>9, <1>10, <1>11 DEF ImportStep

LEMMA DeletionBehind ==
  ASSUME IInv, Finite, NEW w \in Workers, DeletionStep(w) \/ SaveChecked(w), NEW x, x = worker[w]
  PROVE  Behind(worker'[w], x) /\ Carries(worker'[w], x) /\ \A v \in Workers : v # w => worker'[v] = worker[v]
<1> USE DEF At, Become, Goto
<1>1. x.pc \in Steps
  BY DEF DeletionStep, ListLinks, Unlink, CountLinks, DeleteRow, Stamp, SelectNodes, UnlinkAll, Sweep,
         RemoveSubscription, UnlinkNode, DropNode, SaveChecked, Steps
<1>2. x \in WorkerStates /\ Role(x) /\ IsFiniteSet(x.stale) /\ Tables
  BY <1>1, Working DEF IInv, Finite
<1>3. worker \in [Workers -> WorkerStates \cup {Idle}]
  BY DEF IInv, Staff
<1>4. ASSUME NEW y, worker' = [worker EXCEPT ![w] = y], Behind(y, x), Carries(y, x)
      PROVE  Behind(worker'[w], x) /\ Carries(worker'[w], x) /\ \A v \in Workers : v # w => worker'[v] = worker[v]
  BY <1>3, <1>4
<1>5. CASE ListLinks(w)
  <2>1. PICK y : worker' = [worker EXCEPT ![w] = y] /\ \E S \in SUBSET links : y = [x EXCEPT !.pc = "unlink", !.stale = S]
    <3>1. PICK S : S = {l \in LinksOf(x.sub) : l.node \notin x.kept}
      OBVIOUS
    <3>2. S \in SUBSET links
      BY <3>1 DEF LinksOf
    <3>3. PICK y : y = [x EXCEPT !.pc = "unlink", !.stale = S]
      OBVIOUS
    <3>4. worker' = [worker EXCEPT ![w] = y]
      BY <1>5, <3>1, <3>3 DEF ListLinks
    <3> QED BY <3>2, <3>3, <3>4
  <2>2. x.pc = "prune" /\ y.pc = "unlink" /\ y.stale \in SUBSET links
    BY <1>2, <1>5, <2>1 DEF ListLinks, WorkerStates
  <2>3. Behind(y, x) /\ Carries(y, x)
    BY <2>2 DEF Behind, Phase, Carries
  <2> QED BY <1>4, <2>1, <2>3
<1>6. CASE Unlink(w)
  <2>1. PICK l \in x.stale :
          worker' = [worker EXCEPT ![w] = [x EXCEPT !.pc = "count", !.stale = @ \ {l}, !.node = l.node]]
    BY <1>6 DEF Unlink
  <2>2. PICK y : y = [x EXCEPT !.pc = "count", !.stale = @ \ {l}, !.node = l.node]
    OBVIOUS
  <2>3. y.pc = "count" /\ y.todo = x.todo /\ y.stale = x.stale \ {l} /\ y.pending = x.pending
    BY <1>2, <2>2 DEF WorkerStates
  <2>4. Phase[y.pc] = Phase[x.pc]
    BY <1>6, <2>3 DEF Unlink, Phase
  <2>5. Behind(y, x) /\ Carries(y, x)
    BY <1>2, <2>3, <2>4, NextItem DEF Carries
  <2> QED BY <1>4, <2>1, <2>2, <2>5
<1>7. ASSUME x.pc \in {"count", "purge"} PROVE Behind(Next1(x), x) /\ Carries(Next1(x), x)
  <2>1. PICK y : y = Next1(x)
    OBVIOUS
  <2>2. y.pc \in {"sweep", "unlink"} /\ y.todo = x.todo /\ y.stale = x.stale /\ y.pending = x.pending
    BY <1>2, <2>1 DEF Next1, WorkerStates
  <2>3. Phase[y.pc] = Phase[x.pc] /\ Command[y.pc] < Command[x.pc]
    BY <1>7, <2>2 DEF Phase, Command
  <2> QED BY <2>1, <2>2, <2>3, NextCommand DEF Carries
<1>8. CASE CountLinks(w)
  <2>1. x.pc = "count" /\ (worker' = [worker EXCEPT ![w] = [x EXCEPT !.pc = "purge"]]
                            \/ worker' = [worker EXCEPT ![w] = Next1(x)])
    BY <1>8 DEF CountLinks
  <2>2. Behind([x EXCEPT !.pc = "purge"], x) /\ Carries([x EXCEPT !.pc = "purge"], x)
    <3>1. PICK y : y = [x EXCEPT !.pc = "purge"]
      OBVIOUS
    <3>2. y.pc = "purge" /\ y.todo = x.todo /\ y.stale = x.stale /\ y.pending = x.pending
      BY <1>2, <3>1 DEF WorkerStates
    <3>3. Phase[y.pc] = Phase[x.pc] /\ Command[y.pc] < Command[x.pc]
      BY <2>1, <3>2 DEF Phase, Command
    <3> QED BY <3>1, <3>2, <3>3, NextCommand DEF Carries
  <2> QED BY <1>4, <1>7, <2>1, <2>2
<1>9. CASE DeleteRow(w)
  BY <1>4, <1>7, <1>9 DEF DeleteRow
<1>10. CASE Stamp(w) \/ RemoveSubscription(w) \/ DropNode(w) \/ SaveChecked(w)
  BY <1>2, <1>4, <1>10, IdleBehind DEF Carries, Stamp, RemoveSubscription, DropNode, SaveChecked
<1>11. CASE SelectNodes(w)
  <2>1. PICK y : worker' = [worker EXCEPT ![w] = y] /\ \E S : y = [x EXCEPT !.pc = "unlinkAll", !.pending = S]
    BY <1>11 DEF SelectNodes
  <2>2. x.pc = "select" /\ y.pc = "unlinkAll" /\ y.stale = x.stale
    BY <1>2, <1>11, <2>1 DEF SelectNodes, WorkerStates
  <2>3. Behind(y, x) /\ Carries(y, x)
    BY <2>2 DEF Behind, Phase, Carries
  <2> QED BY <1>4, <2>1, <2>3
<1>12. CASE UnlinkAll(w)
  <2>1. PICK y : worker' = [worker EXCEPT ![w] = y] /\ y = [x EXCEPT !.pc = "sweep"]
    BY <1>3, <1>12 DEF UnlinkAll
  <2>2. x.pc = "unlinkAll" /\ y.pc = "sweep" /\ y.stale = x.stale
    BY <1>2, <1>12, <2>1 DEF UnlinkAll, WorkerStates
  <2>3. Behind(y, x) /\ Carries(y, x)
    BY <2>2 DEF Behind, Phase, Carries
  <2> QED BY <1>4, <2>1, <2>3
<1>13. CASE Sweep(w)
  <2>1. PICK i \in x.pending :
          worker' = [worker EXCEPT ![w] = [x EXCEPT !.pc = "count", !.pending = @ \ {i}, !.node = i]]
    BY <1>13 DEF Sweep
  <2>2. PICK y : y = [x EXCEPT !.pc = "count", !.pending = @ \ {i}, !.node = i]
    OBVIOUS
  <2>3. y.pc = "count" /\ y.todo = x.todo /\ y.stale = x.stale /\ y.pending = x.pending \ {i}
    BY <1>2, <2>2 DEF WorkerStates
  <2>4. Phase[y.pc] = Phase[x.pc]
    BY <1>13, <2>3 DEF Sweep, Phase
  <2>5. Behind(y, x) /\ Carries(y, x)
    BY <1>2, <2>3, <2>4, NextItem DEF Carries
  <2> QED BY <1>4, <2>1, <2>2, <2>5
<1>14. CASE UnlinkNode(w)
  <2>1. PICK y : worker' = [worker EXCEPT ![w] = y] /\ y = [x EXCEPT !.pc = "dropNode"]
    BY <1>14 DEF UnlinkNode
  <2>2. x.pc = "unlinkNode" /\ y.pc = "dropNode" /\ y.stale = x.stale
    BY <1>2, <1>14, <2>1 DEF UnlinkNode, WorkerStates
  <2>3. Behind(y, x) /\ Carries(y, x)
    BY <2>2 DEF Behind, Phase, Carries
  <2> QED BY <1>4, <2>1, <2>3
<1> QED BY <1>5, <1>6, <1>8, <1>9, <1>10, <1>11, <1>12, <1>13, <1>14 DEF DeletionStep

(* An error that is ignored costs an item or the rest of a phase.          *)
LEMMA IgnoredBehind ==
  ASSUME IInv, Finite, NEW w \in Workers, IgnoredError(w), NEW x, x = worker[w]
  PROVE  Behind(worker'[w], x) /\ Carries(worker'[w], x) /\ \A v \in Workers : v # w => worker'[v] = worker[v]
<1> USE DEF At
<1>1. x.pc \in Steps
  BY DEF IgnoredError, Steps
<1>2. x \in WorkerStates /\ Role(x) /\ IsFiniteSet(x.stale) /\ Tables
  BY <1>1, Working DEF IInv, Finite
<1>3. worker \in [Workers -> WorkerStates \cup {Idle}]
  BY DEF IInv, Staff
<1>4. PICK z, y :
        /\ worker' = [worker EXCEPT ![w] = y] /\ y = [z EXCEPT !.sole = FALSE]
        /\ \/ x.pc = "reread" /\ z = [x EXCEPT !.pc = "upsert", !.todo = Tail(@)]
           \/ x.pc \in {"find", "link"} /\ z = Imported(x)
           \/ x.pc = "purge" /\ x.kind = "sync" /\ z = Next1(x)
           \/ x.pc = "unlinkNode" /\ z = [x EXCEPT !.pc = "dropNode"]
  BY DEF IgnoredError
<1>5. worker'[w] = y /\ \A v \in Workers : v # w => worker'[v] = worker[v]
  BY <1>3, <1>4
<1>6. CASE x.pc \in {"reread", "find", "link"}
  <2>1. y.pc = "upsert" /\ y.todo = Tail(x.todo) /\ y.stale = x.stale /\ y.pending = x.pending
    BY <1>2, <1>4, <1>6 DEF Imported, WorkerStates
  <2>2. x.todo # <<>> /\ Phase[y.pc] = Phase[x.pc]
    BY <1>2, <1>6, <2>1 DEF Role, Phase
  <2> QED BY <1>2, <1>5, <2>1, <2>2, NextItem DEF Carries
<1>7. CASE x.pc = "purge"
  <2>1. y.pc = "unlink" /\ y.todo = x.todo /\ y.stale = x.stale /\ y.pending = x.pending
    BY <1>2, <1>4, <1>7 DEF Next1, WorkerStates
  <2>2. Phase[y.pc] = Phase[x.pc] /\ Command[y.pc] < Command[x.pc]
    BY <1>7, <2>1 DEF Phase, Command
  <2> QED BY <1>5, <2>1, <2>2, NextCommand DEF Carries
<1>8. CASE x.pc = "unlinkNode"
  <2>1. y.pc = "dropNode" /\ y.stale = x.stale
    BY <1>2, <1>4, <1>8 DEF WorkerStates
  <2>2. Behind(y, x) /\ Carries(y, x)
    BY <1>8, <2>1 DEF Behind, Phase, Carries
  <2> QED BY <1>5, <2>2
<1> QED BY <1>4, <1>6, <1>7, <1>8

LEMMA AllBehind ==
  ASSUME IInv, Finite, Next, NEW w \in Workers, worker[w] # Idle
  PROVE  worker'[w] \in {worker[w], [worker[w] EXCEPT !.sole = FALSE]} \/ Behind(worker'[w], worker[w])
<1>1. worker[w] \in WorkerStates /\ worker \in [Workers -> WorkerStates \cup {Idle}] /\ Ticker \in Workers
  BY DEF IInv, Staff, Workers
<1>2. ASSUME NEW v \in Workers, WorkerStep(v) \/ IgnoredError(v)
      PROVE  worker'[w] = worker[w] \/ Behind(worker'[w], worker[w])
  BY <1>2, ImportBehind, DeletionBehind, IgnoredBehind DEF WorkerStep
<1>3. ASSUME NEW v \in Workers, NEW x, Start(v, x), worker[v] = Idle
      PROVE  worker'[w] \in {worker[w], [worker[w] EXCEPT !.sole = FALSE]}
  BY <1>3 DEF Start
<1>4. ASSUME NEW v \in Workers, Handler(v)
      PROVE  worker'[w] \in {worker[w], [worker[w] EXCEPT !.sole = FALSE]}
  BY <1>3, <1>4, HandlerStarts
<1>5. CASE StartRound \/ Environment
  BY <1>5 DEF StartRound, Environment, Publish, CreateSubscription, UpdateSubscription, TimePasses, EditRow
<1>6. ASSUME NEW s \in Subs, SyncNext(s)
      PROVE  worker'[w] \in {worker[w], [worker[w] EXCEPT !.sole = FALSE]}
  <2>1. CASE Present(s)
    BY <1>1, <1>3, <1>6, <2>1 DEF SyncNext
  <2>2. CASE ~Present(s)
    BY <1>6, <2>2 DEF SyncNext
  <2> QED BY <2>1, <2>2
<1>7. CASE Restart
  BY <1>1, <1>7, IdleBehind DEF Restart
<1>8. ASSUME NEW v \in Workers, Fails(v)
      PROVE  worker'[w] = worker[w] \/ Behind(worker'[w], worker[w])
  BY <1>1, <1>8, IdleBehind DEF Fails
<1> QED BY <1>1, <1>2, <1>4, <1>5, <1>6, <1>7, <1>8 DEF Next, TickerStep, Workers

LEMMA Moving ==
  ASSUME IInv, NEW w \in Workers, WorkerStep(w) \/ IgnoredError(w)
  PROVE  worker[w] # Idle
<1>1. worker[w].pc \in Steps
  BY DEF WorkerStep, ImportStep, FetchSubscription, UpsertFails, Upsert, Reread, FindLink, CreateLink, ImportEnds,
         DeletionStep, ListLinks, Unlink, CountLinks, DeleteRow, Stamp, SelectNodes, UnlinkAll, Sweep,
         RemoveSubscription, UnlinkNode, DropNode, SaveChecked, IgnoredError, Steps, At
<1> QED BY <1>1, Working DEF IInv

LEMMA LinksFinite ==
  ASSUME IInv, Finite, Next
  PROVE  IsFiniteSet(links')
<1> USE DEF tables, Silent
<1>1. \/ links' \in SUBSET links
      \/ \E l : links' = links \cup {l}
  <2>1. ASSUME NEW w \in Workers, WorkerStep(w)
        PROVE  links' \in SUBSET links \/ \E l : links' = links \cup {l}
    <3>1. CASE ImportStep(w)
      BY <3>1 DEF ImportStep, FetchSubscription, UpsertFails, Upsert, Reread, FindLink, CreateLink, ImportEnds
    <3>2. CASE DeletionStep(w) \/ SaveChecked(w)
      BY <3>2 DEF DeletionStep, ListLinks, Unlink, CountLinks, DeleteRow, Stamp, SelectNodes, UnlinkAll, Sweep,
                  RemoveSubscription, UnlinkNode, DropNode, SaveChecked
    <3> QED BY <2>1, <3>1, <3>2 DEF WorkerStep
  <2>2. CASE StartRound \/ Environment \/ Restart \/ (\E s \in Subs : SyncNext(s))
    BY <2>2 DEF StartRound, Environment, Publish, CreateSubscription, UpdateSubscription, TimePasses, EditRow,
                Restart, SyncNext
  <2>3. ASSUME NEW w \in Workers, Handler(w) \/ Fails(w) \/ IgnoredError(w)
        PROVE  links' = links
    BY <2>3, HandlerStarts DEF Fails, IgnoredError
  <2> QED BY <2>1, <2>2, <2>3 DEF Next, TickerStep, Workers
<1> QED BY <1>1, FS_Subset, FS_AddElement DEF Finite

LEMMA FreshCarries ==
  ASSUME NEW b, NEW x, Fresh(x, b)
  PROVE  x.stale = {}
<1>1. ASSUME NEW s PROVE Syncing(s, b).stale = {} /\ Deleting(s, b).stale = {}
  BY DEF Deleting, Syncing
<1>2. ASSUME NEW list PROVE Importing(list, b).stale = {}
  BY DEF Importing, Syncing
<1>3. ASSUME NEW i PROVE Dropping(i, b).stale = {}
  BY DEF Dropping, Syncing
<1>4. ASSUME NEW i, NEW a PROVE Checking(i, a, b).stale = {}
  BY DEF Checking, Syncing
<1> QED BY <1>1, <1>2, <1>3, <1>4 DEF Fresh

LEMMA FiniteNext ==
  ASSUME IInv, Finite, [Next]_vars
  PROVE  Finite'
<1>1. CASE UNCHANGED vars
  BY <1>1 DEF vars, tables, Finite
<1>2. ASSUME Next, NEW w \in Workers, worker'[w] # Idle PROVE IsFiniteSet(worker'[w].stale)
  <2>0. /\ worker[w] \in WorkerStates \cup {Idle} /\ worker \in [Workers -> WorkerStates \cup {Idle}]
        /\ Ticker \in Workers
    BY DEF IInv, Staff, Workers
  <2>1. ASSUME worker[w] # Idle, worker'[w] \in {worker[w], [worker[w] EXCEPT !.sole = FALSE]}
        PROVE  IsFiniteSet(worker'[w].stale)
    <3>1. worker'[w].stale = worker[w].stale
      BY <2>0, <2>1 DEF WorkerStates
    <3> QED BY <2>1, <3>1 DEF Finite
  <2>2. ASSUME NEW v \in Workers, WorkerStep(v) \/ IgnoredError(v)
        PROVE  IsFiniteSet(worker'[w].stale)
    <3>1. CASE v = w
      <4>0. worker[w] # Idle
        BY <2>2, <3>1, Moving
      <4>1. worker'[w].stale \in SUBSET (worker[w].stale \cup links)
        BY <1>2, <2>2, <3>1, ImportBehind, DeletionBehind, IgnoredBehind DEF WorkerStep, Carries
      <4>2. IsFiniteSet(worker[w].stale \cup links)
        BY <4>0, FS_Union DEF Finite
      <4> QED BY <4>1, <4>2, FS_Subset, Zenon
    <3>2. CASE v # w
      <4>1. worker'[w] = worker[w]
        BY <2>2, <3>2, ImportBehind, DeletionBehind, IgnoredBehind DEF WorkerStep
      <4> QED BY <1>2, <2>1, <4>1
    <3> QED BY <3>1, <3>2
  <2>3. ASSUME NEW v \in Workers, NEW b \in BOOLEAN, NEW x, Fresh(x, b), worker[v] = Idle, Start(v, x)
        PROVE  IsFiniteSet(worker'[w].stale)
    <3>1. CASE v = w
      <4>1. x.stale = {}
        BY <2>3, FreshCarries
      <4> QED BY <2>3, <3>1, <4>1, FS_EmptySet DEF Start
    <3>2. CASE v # w
      BY <1>2, <2>1, <2>3, <3>2 DEF Start
    <3> QED BY <3>1, <3>2
  <2>4. ASSUME NEW v \in Workers, Handler(v)
        PROVE  IsFiniteSet(worker'[w].stale)
    BY <2>3, <2>4, HandlerStarts
  <2>5. CASE StartRound \/ Environment
    <3>1. worker' = worker
      BY <2>5 DEF StartRound, Environment, Publish, CreateSubscription, UpdateSubscription, TimePasses, EditRow
    <3> QED BY <1>2, <3>1 DEF Finite
  <2>6. ASSUME NEW s \in Subs, SyncNext(s)
        PROVE  IsFiniteSet(worker'[w].stale)
    <3>1. PICK b \in BOOLEAN : b = Alone
      BY DEF Alone
    <3>2. CASE Present(s)
      <4>1. Fresh(Syncing(s, b), b) /\ Start(Ticker, Syncing(s, b)) /\ worker[Ticker] = Idle
        BY <2>6, <3>1, <3>2 DEF SyncNext, Fresh
      <4> QED BY <2>0, <2>3, <4>1
    <3>3. CASE ~Present(s)
      <4>1. worker' = worker
        BY <2>6, <3>3 DEF SyncNext
      <4> QED BY <1>2, <4>1 DEF Finite
    <3> QED BY <3>2, <3>3
  <2>7. CASE Restart
    BY <1>2, <2>7 DEF Restart
  <2>8. ASSUME NEW v \in Workers, Fails(v)
        PROVE  IsFiniteSet(worker'[w].stale)
    BY <1>2, <2>0, <2>8 DEF Fails, Finite
  <2> QED BY <1>2, <2>2, <2>4, <2>5, <2>6, <2>7, <2>8 DEF Next, TickerStep, Workers
<1> QED BY <1>1, <1>2, LinksFinite DEF Finite

(* Every operation ends: a sync, an import, a deletion or a check, with    *)
(* whatever runs beside it, has less left to do after each of its steps.   *)
THEOREM SyncWorkersAdvance == Spec => WorkersAdvance
<1>1. Init => Finite
  BY FS_EmptySet DEF Init, Finite
<1>2. IInv /\ Finite /\ [Next]_vars => Finite'
  BY FiniteNext
<1>3. IInv /\ Finite /\ Next =>
        \A w \in Workers :
          worker[w] # Idle /\ worker'[w] \notin {worker[w], [worker[w] EXCEPT !.sole = FALSE]}
            => Behind(worker'[w], worker[w])
  BY AllBehind
<1> QED BY <1>1, <1>2, <1>3, SyncInvariant, PTL DEF Spec, WorkersAdvance

-----------------------------------------------------------------------------
(* The turns of a round.                                                   *)
TickerSyncs == worker[Ticker] # Idle => worker[Ticker].kind = "sync"

(* A step of the ticker's sync goes on with its subscription, or ends it.  *)
SyncGoesOn ==
    /\ worker'[Ticker] # Idle
    /\ worker'[Ticker].kind = "sync" /\ worker'[Ticker].sub = worker[Ticker].sub

LEMMA SyncSteps ==
  ASSUME IInv, TickerSyncs, WorkerStep(Ticker) \/ IgnoredError(Ticker), NEW x, x = worker[Ticker]
  PROVE  SyncGoesOn \/ UpsertFails(Ticker) \/ Stamp(Ticker)
<1> USE DEF At, Become, Goto
<1>0. WorkerStep(Ticker) \/ IgnoredError(Ticker) => worker[Ticker] # Idle
  BY Moving DEF Workers
<1>1. /\ x \in WorkerStates /\ Role(x) /\ x.kind = "sync"
      /\ worker \in [Workers -> WorkerStates \cup {Idle}] /\ Ticker \in Workers
  BY <1>0, Working DEF IInv, Staff, Workers, TickerSyncs
<1>2. ASSUME NEW y, worker' = [worker EXCEPT ![Ticker] = y], y.pc \in Steps, y.kind = "sync", y.sub = x.sub
      PROVE  SyncGoesOn
  <2>1. y # Idle
    BY <1>2 DEF Idle, Steps
  <2> QED BY <1>1, <1>2, <2>1 DEF SyncGoesOn
<1>3. CASE FetchSubscription(Ticker)
  <2>1. PICK y : /\ worker' = [worker EXCEPT ![Ticker] = y]
                 /\ \E list : y = [x EXCEPT !.pc = "upsert", !.list = list, !.todo = list]
    BY <1>1, <1>3 DEF FetchSubscription
  <2>2. y.pc \in Steps /\ y.kind = "sync" /\ y.sub = x.sub
    BY <1>1, <2>1 DEF WorkerStates, Steps
  <2> QED BY <1>2, <2>1, <2>2
<1>4. CASE Upsert(Ticker)
  <2>1. PICK y : /\ worker' = [worker EXCEPT ![Ticker] = y]
                 /\ \E i : y = [x EXCEPT !.pc = "reread", !.node = i]
    BY <1>1, <1>4 DEF Upsert
  <2>2. y.pc \in Steps /\ y.kind = "sync" /\ y.sub = x.sub
    BY <1>1, <2>1 DEF WorkerStates, Steps
  <2> QED BY <1>2, <2>1, <2>2
<1>5. ASSUME NEW y, \/ y = [x EXCEPT !.pc = "upsert", !.todo = Tail(@)]
                    \/ \E i : y = Imported([x EXCEPT !.node = i])
                    \/ \E i : y = [[x EXCEPT !.node = i] EXCEPT !.pc = "find"]
      PROVE  y.pc \in Steps /\ y.kind = "sync" /\ y.sub = x.sub
  <2>1. CASE y = [x EXCEPT !.pc = "upsert", !.todo = Tail(@)]
    BY <1>1, <2>1 DEF WorkerStates, Steps
  <2>2. CASE \E i : y = Imported([x EXCEPT !.node = i])
    BY <1>1, <2>2 DEF Imported, WorkerStates, Steps
  <2>3. CASE \E i : y = [[x EXCEPT !.node = i] EXCEPT !.pc = "find"]
    BY <1>1, <2>3 DEF WorkerStates, Steps
  <2> QED BY <1>5, <2>1, <2>2, <2>3
<1>6. CASE Reread(Ticker)
  <2>1. PICK y : /\ worker' = [worker EXCEPT ![Ticker] = y]
                 /\ \/ y = [x EXCEPT !.pc = "upsert", !.todo = Tail(@)]
                    \/ \E i : y = Imported([x EXCEPT !.node = i])
                    \/ \E i : y = [[x EXCEPT !.node = i] EXCEPT !.pc = "find"]
    BY <1>1, <1>6 DEF Reread
  <2> QED BY <1>2, <1>5, <2>1
<1>7. ASSUME NEW y, y = Imported(x) \/ y = [x EXCEPT !.pc = "link"]
      PROVE  y.pc \in Steps /\ y.kind = "sync" /\ y.sub = x.sub
  BY <1>1, <1>7 DEF Imported, WorkerStates, Steps
<1>8. CASE FindLink(Ticker) \/ CreateLink(Ticker)
  <2>1. PICK y : /\ worker' = [worker EXCEPT ![Ticker] = y]
                 /\ y = Imported(x) \/ y = [x EXCEPT !.pc = "link"]
    BY <1>1, <1>8 DEF FindLink, CreateLink
  <2> QED BY <1>2, <1>7, <2>1
<1>9. CASE ImportEnds(Ticker)
  <2>1. PICK y : worker' = [worker EXCEPT ![Ticker] = y] /\ y = [x EXCEPT !.pc = "prune"]
    BY <1>1, <1>9 DEF ImportEnds
  <2>2. y.pc \in Steps /\ y.kind = "sync" /\ y.sub = x.sub
    BY <1>1, <2>1 DEF WorkerStates, Steps
  <2> QED BY <1>2, <2>1, <2>2
<1>10. CASE ListLinks(Ticker)
  <2>1. PICK y : worker' = [worker EXCEPT ![Ticker] = y] /\ \E S : y = [x EXCEPT !.pc = "unlink", !.stale = S]
    BY <1>1, <1>10 DEF ListLinks
  <2>2. y.pc \in Steps /\ y.kind = "sync" /\ y.sub = x.sub
    BY <1>1, <2>1 DEF WorkerStates, Steps
  <2> QED BY <1>2, <2>1, <2>2
<1>11. CASE Unlink(Ticker)
  <2>1. PICK y : /\ worker' = [worker EXCEPT ![Ticker] = y]
                 /\ \E S, i : y = [x EXCEPT !.pc = "count", !.stale = S, !.node = i]
    <3>1. PICK l \in x.stale :
            worker' = [worker EXCEPT ![Ticker] =
                         [x EXCEPT !.pc = "count", !.stale = x.stale \ {l}, !.node = l.node]]
      BY <1>11 DEF Unlink
    <3>2. PICK y : y = [x EXCEPT !.pc = "count", !.stale = x.stale \ {l}, !.node = l.node]
      OBVIOUS
    <3> QED BY <3>1, <3>2
  <2>2. y.pc \in Steps /\ y.kind = "sync" /\ y.sub = x.sub
    BY <1>1, <2>1 DEF WorkerStates, Steps
  <2> QED BY <1>2, <2>1, <2>2
<1>12. ASSUME NEW y, y = Next1(x) \/ y = [x EXCEPT !.pc = "purge"]
       PROVE  y.pc \in Steps /\ y.kind = "sync" /\ y.sub = x.sub
  BY <1>1, <1>12 DEF Next1, WorkerStates, Steps
<1>13. CASE CountLinks(Ticker) \/ DeleteRow(Ticker)
  <2>1. PICK y : /\ worker' = [worker EXCEPT ![Ticker] = y]
                 /\ y = Next1(x) \/ y = [x EXCEPT !.pc = "purge"]
    BY <1>1, <1>13 DEF CountLinks, DeleteRow
  <2> QED BY <1>2, <1>12, <2>1
<1>14. CASE \/ SelectNodes(Ticker) \/ UnlinkAll(Ticker) \/ Sweep(Ticker) \/ RemoveSubscription(Ticker)
            \/ UnlinkNode(Ticker) \/ DropNode(Ticker) \/ SaveChecked(Ticker)
  BY <1>1, <1>14 DEF Role, SelectNodes, UnlinkAll, Sweep, RemoveSubscription, UnlinkNode, DropNode, SaveChecked
<1>15. CASE IgnoredError(Ticker)
  <2>1. PICK z, y :
          /\ worker' = [worker EXCEPT ![Ticker] = y] /\ y = [z EXCEPT !.sole = FALSE]
          /\ \/ z = [x EXCEPT !.pc = "upsert", !.todo = Tail(@)]
             \/ z = Imported(x) \/ z = Next1(x)
    <3>1. x.pc # "unlinkNode"
      BY <1>1 DEF Role
    <3> QED BY <1>1, <1>15, <3>1 DEF IgnoredError
  <2>2. y.pc \in Steps /\ y.kind = "sync" /\ y.sub = x.sub
    BY <1>1, <2>1 DEF Imported, Next1, WorkerStates, Steps
  <2> QED BY <1>2, <2>1, <2>2
<1> QED BY <1>3, <1>4, <1>6, <1>8, <1>9, <1>10, <1>11, <1>13, <1>14, <1>15
       DEF WorkerStep, ImportStep, DeletionStep

(* What the others do to the ticker: no more than to take its sole.        *)
SameSync ==
    /\ worker'[Ticker] = Idle <=> worker[Ticker] = Idle
    /\ worker[Ticker] # Idle =>
         worker'[Ticker].kind = worker[Ticker].kind /\ worker'[Ticker].sub = worker[Ticker].sub

LEMMA OthersSpareTicker ==
  ASSUME IInv, Finite,
         \/ \E w \in Admins : Handler(w) \/ WorkerStep(w) \/ Fails(w) \/ IgnoredError(w)
         \/ Environment
         \/ UNCHANGED vars
  PROVE  SameSync /\ round' = round
<1>0. /\ worker[Ticker] \in WorkerStates \cup {Idle} /\ worker \in [Workers -> WorkerStates \cup {Idle}]
      /\ Ticker \in Workers /\ Admins \subseteq Workers /\ Ticker \notin Admins
  BY SyncAssumption DEF IInv, Staff, Workers
<1>1. ASSUME worker'[Ticker] = worker[Ticker] PROVE SameSync
  BY <1>1 DEF SameSync
<1>2. ASSUME NEW w \in Admins, WorkerStep(w) \/ IgnoredError(w) PROVE SameSync
  BY <1>0, <1>1, <1>2, ImportBehind, DeletionBehind, IgnoredBehind DEF WorkerStep
<1>3. ASSUME NEW w \in Admins, WorkerStep(w) \/ IgnoredError(w) \/ Fails(w) PROVE round' = round
  <2>1. CASE ImportStep(w)
    BY <2>1 DEF ImportStep, FetchSubscription, UpsertFails, Upsert, Reread, FindLink, CreateLink, ImportEnds, Silent
  <2>2. CASE DeletionStep(w) \/ SaveChecked(w)
    BY <2>2 DEF DeletionStep, ListLinks, Unlink, CountLinks, DeleteRow, Stamp, SelectNodes, UnlinkAll, Sweep,
                RemoveSubscription, UnlinkNode, DropNode, SaveChecked, Silent, tables
  <2> QED BY <1>3, <2>1, <2>2 DEF WorkerStep, IgnoredError, Fails
<1>4. ASSUME NEW w \in Admins, Fails(w) PROVE SameSync
  BY <1>0, <1>1, <1>4 DEF Fails
<1>5. ASSUME NEW w \in Admins, Handler(w) PROVE SameSync
  <2>1. PICK x : Start(w, x)
    BY <1>0, <1>5, HandlerStarts
  <2>2. CASE worker[Ticker] = Idle
    BY <1>0, <1>1, <2>1, <2>2 DEF Start
  <2>3. CASE worker[Ticker] # Idle
    <3>1. worker'[Ticker] = [worker[Ticker] EXCEPT !.sole = FALSE]
      BY <1>0, <2>1, <2>3 DEF Start
    <3>2. PICK y : y = worker'[Ticker]
      OBVIOUS
    <3>3. y.pc = worker[Ticker].pc /\ y.kind = worker[Ticker].kind /\ y.sub = worker[Ticker].sub
      BY <1>0, <2>3, <3>1, <3>2 DEF WorkerStates
    <3>4. y # Idle
      BY <1>0, <2>3, <3>3 DEF WorkerStates, Steps, Idle
    <3> QED BY <2>3, <3>2, <3>3, <3>4 DEF SameSync
  <2> QED BY <2>2, <2>3
<1>6. ASSUME NEW w \in Admins, Handler(w) PROVE round' = round
  BY <1>6 DEF Handler, SyncSubscription, ImportNodes, DeleteSubscription, DeleteNode, CheckNode, Request
<1>7. CASE Environment
  BY <1>1, <1>7 DEF Environment, Publish, CreateSubscription, UpdateSubscription, TimePasses, EditRow
<1>8. CASE UNCHANGED vars
  BY <1>1, <1>8 DEF vars
<1> QED BY <1>2, <1>3, <1>4, <1>5, <1>6, <1>7, <1>8

LEMMA TickerSyncsNext ==
  ASSUME IInv, Finite, TickerSyncs, [Next]_vars
  PROVE  TickerSyncs'
<1> USE DEF TickerSyncs
<1>0. worker \in [Workers -> WorkerStates \cup {Idle}] /\ Ticker \in Workers
  BY DEF IInv, Staff, Workers
<1>1. CASE \/ \E w \in Admins : Handler(w) \/ WorkerStep(w) \/ Fails(w) \/ IgnoredError(w)
           \/ Environment
           \/ UNCHANGED vars
  BY <1>1, OthersSpareTicker DEF SameSync
<1>2. CASE WorkerStep(Ticker) \/ IgnoredError(Ticker)
  <2>1. UpsertFails(Ticker) \/ Stamp(Ticker) => worker'[Ticker] = Idle
    BY <1>0 DEF UpsertFails, Stamp, Become
  <2> QED BY <1>2, <2>1, SyncSteps DEF SyncGoesOn
<1>3. CASE Fails(Ticker) \/ Restart
  BY <1>0, <1>3 DEF Fails, Restart
<1>4. CASE StartRound
  BY <1>4 DEF StartRound
<1>5. ASSUME NEW s \in Subs, SyncNext(s) PROVE TickerSyncs'
  <2>1. CASE Present(s)
    <3>1. worker'[Ticker] = Syncing(s, Alone)
      BY <1>0, <1>5, <2>1 DEF SyncNext, Start
    <3> QED BY <3>1 DEF Syncing
  <2>2. CASE ~Present(s)
    BY <1>5, <2>2 DEF SyncNext
  <2> QED BY <2>1, <2>2
<1> QED BY <1>1, <1>2, <1>3, <1>4, <1>5 DEF Next, TickerStep, Workers

LEMMA TurnKept ==
  ASSUME IInv, Finite, TickerSyncs, [Next]_vars, NEW s \in Subs, Due(s)
  PROVE  \/ Turn(s)' <= Turn(s) \/ ~Due(s)' \/ faults' > faults
         \/ /\ At(Ticker, "upsert") /\ worker[Ticker].sub = s
            /\ worker[Ticker].todo # <<>> /\ Conflict(Head(worker[Ticker].todo))
<1>0. worker \in [Workers -> WorkerStates \cup {Idle}] /\ Ticker \in Workers /\ faults \in Nat
  BY SyncAssumption DEF IInv, Staff, Tables, Workers
<1>1. CASE \/ \E w \in Admins : Handler(w) \/ WorkerStep(w) \/ Fails(w) \/ IgnoredError(w)
           \/ Environment
           \/ UNCHANGED vars
  BY <1>1, OthersSpareTicker DEF SameSync, Turn
<1>2. CASE Fault
  BY <1>0, <1>2 DEF Fault
<1>3. CASE Fails(Ticker) \/ IgnoredError(Ticker) \/ Restart
  BY <1>2, <1>3 DEF Fails, IgnoredError, Restart
<1>4. CASE WorkerStep(Ticker)
  <2>1. round' = round
    <3>1. CASE ImportStep(Ticker)
      BY <3>1 DEF ImportStep, FetchSubscription, UpsertFails, Upsert, Reread, FindLink, CreateLink, ImportEnds, Silent
    <3>2. CASE DeletionStep(Ticker) \/ SaveChecked(Ticker)
      BY <3>2 DEF DeletionStep, ListLinks, Unlink, CountLinks, DeleteRow, Stamp, SelectNodes, UnlinkAll, Sweep,
                  RemoveSubscription, UnlinkNode, DropNode, SaveChecked, Silent, tables
    <3> QED BY <1>4, <3>1, <3>2 DEF WorkerStep
  <2>2. worker[Ticker] # Idle
    BY <1>0, <1>4, Moving
  <2>3. CASE worker[Ticker].sub # s
    <3>1. Turn(s) = IF s \in round THEN 2 ELSE 4
      BY <2>2, <2>3 DEF Turn
    <3>2. SyncGoesOn => Turn(s)' = Turn(s)
      BY <2>1, <2>3, <3>1 DEF SyncGoesOn, Turn
    <3>3. UpsertFails(Ticker) \/ Stamp(Ticker) => worker'[Ticker] = Idle
      BY <1>0 DEF UpsertFails, Stamp, Become
    <3>4. UpsertFails(Ticker) \/ Stamp(Ticker) => Turn(s)' <= Turn(s)
      BY <2>1, <3>1, <3>3 DEF Turn
    <3> QED BY <1>4, <3>1, <3>2, <3>4, SyncSteps
  <2>4. CASE worker[Ticker].sub = s
    <3>1. CASE SyncGoesOn
      BY <2>2, <2>4, <3>1 DEF SyncGoesOn, Turn
    <3>2. CASE UpsertFails(Ticker)
      BY <2>4, <3>2 DEF UpsertFails
    <3>3. CASE Stamp(Ticker)
      <4>1. sub \in [Subs -> [life : {"new", "present", "deleted"}, enabled : BOOLEAN, due : BOOLEAN]]
        BY DEF IInv, Tables
      <4>2. sub'[s].due = FALSE
        BY <2>4, <3>3, <4>1 DEF Stamp, Due
      <4> QED BY <4>2 DEF Due
    <3> QED BY <1>4, <3>1, <3>2, <3>3, SyncSteps
  <2> QED BY <2>3, <2>4
<1>5. CASE StartRound
  <2>1. s \in round' /\ round = {} /\ worker[Ticker] = Idle /\ worker' = worker
    BY <1>5 DEF StartRound, Due
  <2> QED BY <2>1 DEF Turn
<1>6. ASSUME NEW t \in Subs, SyncNext(t) PROVE Turn(s)' <= Turn(s)
  <2>1. worker[Ticker] = Idle /\ t \in round /\ round' = round \ {t}
    BY <1>6 DEF SyncNext
  <2>2. Turn(s) = IF s \in round THEN 2 ELSE 4
    BY <2>1 DEF Turn
  <2>3. CASE s # t
    BY <2>1, <2>2, <2>3 DEF Turn
  <2>4. CASE s = t
    <3>1. worker'[Ticker] = Syncing(s, Alone)
      BY <1>0, <1>6, <2>4 DEF SyncNext, Start, Due
    <3>2. worker'[Ticker].sub = s /\ worker'[Ticker] # Idle
      BY <3>1 DEF Syncing, Idle
    <3>3. Turn(s)' = 1
      BY <3>2 DEF Turn
    <3> QED BY <2>2, <3>3
  <2> QED BY <2>3, <2>4
<1> QED BY <1>1, <1>3, <1>4, <1>5, <1>6 DEF Next, TickerStep, Workers

LEMMA RoundShrinks ==
  ASSUME IInv, Finite, [Next]_vars, round # {}
  PROVE  round' \subseteq round
<1>1. CASE \/ \E w \in Admins : Handler(w) \/ WorkerStep(w) \/ Fails(w) \/ IgnoredError(w)
           \/ Environment
           \/ UNCHANGED vars
  BY <1>1, OthersSpareTicker
<1>2. CASE ImportStep(Ticker)
  BY <1>2 DEF ImportStep, FetchSubscription, UpsertFails, Upsert, Reread, FindLink, CreateLink, ImportEnds, Silent
<1>3. CASE DeletionStep(Ticker) \/ SaveChecked(Ticker)
  BY <1>3 DEF DeletionStep, ListLinks, Unlink, CountLinks, DeleteRow, Stamp, SelectNodes, UnlinkAll, Sweep,
              RemoveSubscription, UnlinkNode, DropNode, SaveChecked, Silent, tables
<1>4. CASE StartRound \/ (\E s \in Subs : SyncNext(s)) \/ Restart
  BY <1>4 DEF StartRound, SyncNext, Restart
<1>5. CASE Fails(Ticker) \/ IgnoredError(Ticker)
  BY <1>5 DEF Fails, IgnoredError
<1> QED BY <1>1, <1>2, <1>3, <1>4, <1>5 DEF Next, TickerStep, WorkerStep, Workers

(* What is due comes nearer to its turn, whatever becomes of the syncs before it:    *)
(* what EventuallySynced needs beside fairness and the end of every sync.  *)
THEOREM SyncTurnsCome == Spec => TurnsCome
<1> DEFINE Step ==
             /\ round # {} => round' \subseteq round
             /\ \A s \in Subs : Due(s)
                  => \/ Turn(s)' <= Turn(s) \/ ~Due(s)' \/ faults' > faults
                     \/ /\ At(Ticker, "upsert") /\ worker[Ticker].sub = s
                        /\ worker[Ticker].todo # <<>> /\ Conflict(Head(worker[Ticker].todo))
<1>1. Init => Finite /\ TickerSyncs
  BY FS_EmptySet DEF Init, Finite, TickerSyncs, Workers
<1>2. IInv /\ Finite /\ TickerSyncs /\ [Next]_vars => Finite' /\ TickerSyncs'
  BY FiniteNext, TickerSyncsNext
<1>3. IInv /\ Finite /\ TickerSyncs /\ [Next]_vars => Step
  BY TurnKept, RoundShrinks
<1> QED BY <1>1, <1>2, <1>3, SyncInvariant, PTL DEF Spec, TurnsCome
=============================================================================
