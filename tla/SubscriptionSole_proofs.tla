----------------------- MODULE SubscriptionSole_proofs -----------------------
(***************************************************************************)
(* What a sync does that nobody overlaps: it prunes no node of its list,   *)
(* and leaves exactly the links of its list.                               *)
(***************************************************************************)
EXTENDS SubscriptionSync_proofs

(* What a sync has achieved, as long as nobody else has run.               *)
Done(x) ==
    /\ x.pc = "fetch" => x.kept = {} /\ x.todo = <<>> /\ x.list = <<>>
    /\ ToSet(x.todo) \subseteq ToSet(x.list)
    /\ \A a \in ToSet(x.list) \ ToSet(x.todo) : rows[a] \in x.kept
    /\ \A i \in x.kept : /\ \E a \in ToSet(x.list) : rows[a] = i
                         /\ \E l \in links : l.sub = x.sub /\ l.node = i
    /\ x.pc \in {"reread", "find", "link"} => rows[Head(x.todo)] = x.node
    /\ x.pc \in {"prune", "unlink", "count", "purge"} => x.todo = <<>>
    /\ x.pc \in {"unlink", "count", "purge"} =>
          \A l \in links : l.sub = x.sub => (l \in x.stale <=> l.node \notin x.kept)
    /\ x.pc \in {"unlink", "count", "purge"} => \A l \in x.stale : l.node \notin x.kept
    /\ x.pc \in {"count", "purge"} => x.node \notin x.kept

(* Who is alone finds everybody else idle.                                 *)
Unshared ==
    \A w \in Workers : worker[w] # Idle /\ worker[w].sole =>
        /\ \A v \in Workers : v # w => worker[v] = Idle
        /\ worker[w].kind = "sync" => Done(worker[w])

SInv == IInv /\ Unshared

-----------------------------------------------------------------------------
LEMMA ToSetTail ==
  ASSUME NEW S, NEW s \in Seq(S), s # <<>>
  PROVE  ToSet(s) = {Head(s)} \cup ToSet(Tail(s)) /\ ToSet(s) \subseteq S
<1>1. /\ Head(s) = s[1] /\ Len(s) \in Nat /\ Len(s) > 0 /\ DOMAIN s = 1..Len(s)
      /\ Tail(s) \in Seq(S) /\ Len(Tail(s)) = Len(s) - 1 /\ DOMAIN Tail(s) = 1..Len(Tail(s))
      /\ \A i \in 1..Len(Tail(s)) : Tail(s)[i] = s[i + 1]
  BY HeadTailProperties, LenProperties, EmptySeq
<1>2. PICK t, n : t = Tail(s) /\ n = Len(s)
  OBVIOUS
<1>3. n \in Nat /\ n > 0 /\ DOMAIN s = 1..n /\ DOMAIN t = 1..(n - 1) /\ \A i \in 1..(n - 1) : t[i] = s[i + 1]
  BY <1>1, <1>2
<1>4. ASSUME NEW a \in ToSet(s) PROVE a = s[1] \/ a \in ToSet(t)
  <2>1. PICK i \in 1..n : a = s[i]
    BY <1>3 DEF ToSet
  <2>2. CASE i # 1
    <3>1. PICK k : k = i - 1
      OBVIOUS
    <3>2. k \in 1..(n - 1) /\ i = k + 1
      BY <1>3, <2>1, <2>2, <3>1
    <3>3. a = t[k]
      BY <1>3, <2>1, <3>2
    <3> QED BY <1>3, <3>2, <3>3 DEF ToSet
  <2> QED BY <2>1, <2>2
<1>5. s[1] \in ToSet(s)
  BY <1>3 DEF ToSet
<1>6. ASSUME NEW a \in ToSet(t) PROVE a \in ToSet(s)
  <2>1. PICK i \in 1..(n - 1) : a = t[i]
    BY <1>3 DEF ToSet
  <2>2. i + 1 \in 1..n
    BY <1>3, <2>1
  <2> QED BY <1>3, <2>1, <2>2 DEF ToSet
<1>7. ToSet(s) \subseteq S
  BY <1>3, ElementOfSeq DEF ToSet
<1> QED BY <1>1, <1>2, <1>4, <1>5, <1>6, <1>7

LEMMA ToSetEmpty == ToSet(<<>>) = {}
BY DEF ToSet

LEMMA SoleStep ==
  ASSUME Staff, Unshared, NEW w \in Workers, NEW y, worker[w] # Idle,
         worker' = [worker EXCEPT ![w] = y],
         y # Idle /\ y.sole => worker[w].sole /\ (y.kind = "sync" => Done(y)')
  PROVE  Unshared'
<1>1. worker'[w] = y /\ \A v \in Workers : v # w => worker'[v] = worker[v]
  BY DEF Staff
<1>2. ASSUME NEW v \in Workers, worker'[v] # Idle, worker'[v].sole
      PROVE  /\ \A u \in Workers : u # v => worker'[u] = Idle
             /\ worker'[v].kind = "sync" => Done(worker[v])'
  <2>1. CASE v = w
    <3>1. worker[w].sole /\ (y.kind = "sync" => Done(y)')
      BY <1>1, <1>2, <2>1
    <3>2. \A u \in Workers : u # v => worker'[u] = Idle
      BY <1>1, <2>1, <3>1 DEF Unshared
    <3> QED BY <1>1, <2>1, <3>1, <3>2 DEF Done
  <2>2. CASE v # w
    BY <1>1, <1>2, <2>2 DEF Unshared
  <2> QED BY <2>1, <2>2
<1> QED BY <1>2 DEF Unshared

LEMMA SoleStart ==
  ASSUME Staff, Unshared, NEW w \in Workers, NEW y, worker[w] = Idle, Start(w, y),
         y # Idle /\ y.sole => Alone /\ (y.kind = "sync" => y.pc = "fetch" /\ y.kept = {} /\ y.todo = <<>> /\ y.list = <<>>)
  PROVE  Unshared'
<1>1. worker'[w] = y /\ \A v \in Workers : v # w =>
        worker'[v] = IF worker[v] = Idle THEN Idle ELSE [worker[v] EXCEPT !.sole = FALSE]
  BY DEF Start
<1>2. ASSUME NEW v \in Workers, v # w, worker[v] # Idle PROVE worker'[v].sole = FALSE
  <2>1. PICK x : x = worker[v]
    OBVIOUS
  <2>2. x \in WorkerStates
    BY <1>2, <2>1 DEF Staff
  <2>3. worker'[v] = [x EXCEPT !.sole = FALSE]
    BY <1>1, <1>2, <2>1
  <2> QED BY <2>2, <2>3 DEF WorkerStates
<1>3. CASE y # Idle /\ y.sole
  <2>1. \A v \in Workers : worker[v] = Idle
    BY <1>3 DEF Alone, Busy
  <2>2. y.kind = "sync" => Done(y)'
    BY <1>3, ToSetEmpty DEF Done
  <2>3. \A v \in Workers : v # w => worker'[v] = Idle
    BY <1>1, <2>1
  <2> QED BY <1>1, <2>2, <2>3 DEF Unshared, Done
<1>4. CASE ~(y # Idle /\ y.sole)
  <2>1. \A v \in Workers : ~(worker'[v] # Idle /\ worker'[v].sole)
    BY <1>1, <1>2, <1>4
  <2> QED BY <2>1 DEF Unshared
<1> QED BY <1>3, <1>4

(* The import of a sync.                                                   *)
LEMMA SoleImport ==
  ASSUME IInv, Unshared, NEW w \in Workers, ImportStep(w)
  PROVE  Unshared'
<1> USE DEF At, Become, Goto
<1>1. PICK x : x = worker[w]
  OBVIOUS
<1>2. x \in WorkerStates /\ Role(x) /\ x # Idle /\ Tables /\ Staff
  <2>1. x.pc \in Steps
    BY <1>1 DEF ImportStep, FetchSubscription, UpsertFails, Upsert, Reread, FindLink, CreateLink, ImportEnds, Steps
  <2> QED BY <1>1, <2>1, Working DEF IInv
<1>3. x.kind = "sync" /\ x.sole => Done(x)
  BY <1>1, <1>2 DEF Unshared
<1>4. ASSUME NEW y, worker' = [worker EXCEPT ![w] = y],
             y # Idle => y.kind = x.kind /\ y.sole = x.sole,
             y # Idle /\ x.kind = "sync" /\ Done(x) => Done(y)'
      PROVE  Unshared'
  BY <1>1, <1>2, <1>3, <1>4, SoleStep
<1>5. CASE FetchSubscription(w)
  <2>1. PICK y, list : /\ worker' = [worker EXCEPT ![w] = y] /\ UNCHANGED <<rows, links>>
                       /\ x.pc = "fetch" /\ y = [x EXCEPT !.pc = "upsert", !.list = list, !.todo = list]
    BY <1>1, <1>5 DEF FetchSubscription, tables
  <2>2. y.pc = "upsert" /\ y.list = list /\ y.todo = list /\ y.kept = x.kept /\ y.kind = x.kind /\ y.sole = x.sole
    BY <1>2, <2>1 DEF WorkerStates
  <2>3. Done(x) => Done(y)'
    BY <2>1, <2>2 DEF Done
  <2> QED BY <1>4, <2>1, <2>2, <2>3
<1>6. CASE UpsertFails(w)
  BY <1>4, <1>6 DEF UpsertFails
<1>7. CASE Upsert(w)
  <2>1. PICK i, y : /\ worker' = [worker EXCEPT ![w] = y] /\ i = rows'[Head(x.todo)] /\ UNCHANGED links
                    /\ y = [x EXCEPT !.pc = "reread", !.node = i] /\ x.pc = "upsert" /\ x.todo # <<>>
    BY <1>1, <1>7 DEF Upsert
  <2>2. y.pc = "reread" /\ y.node = i /\ y.list = x.list /\ y.todo = x.todo /\ y.kept = x.kept /\ y.sub = x.sub
        /\ y.kind = x.kind /\ y.sole = x.sole
    BY <1>2, <2>1 DEF WorkerStates
  <2>3. Head(x.todo) \in ToSet(x.todo) /\ Head(x.todo) \in Addresses /\ ToSet(x.todo) \subseteq Addresses
    BY <1>2, <2>1, ToSetTail DEF WorkerStates
  <2>4. \A b \in Addresses : b # Head(x.todo) \/ rows[b] # NoId => rows'[b] = rows[b]
    BY <1>1, <1>2, <1>7, UpsertRows DEF Tables
  <2>5. ASSUME Done(x), x.kind = "sync" PROVE Done(y)'
    <3>1. \A a \in ToSet(x.list) : a \in Addresses
      BY <1>2, ToSetTail, ToSetEmpty DEF WorkerStates
    <3>2. \A a \in ToSet(x.list) \ ToSet(x.todo) : rows'[a] = rows[a]
      BY <2>3, <2>4, <3>1
    <3>3. \A k \in x.kept : k # NoId
      BY <1>2 DEF WorkerStates, Ids, NoId
    <3>4. ASSUME NEW k \in x.kept PROVE \E a \in ToSet(x.list) : rows'[a] = k
      <4>1. PICK a \in ToSet(x.list) : rows[a] = k
        BY <2>5, <3>4 DEF Done
      <4>2. rows'[a] = k
        BY <2>4, <3>1, <3>3, <4>1
      <4> QED BY <4>1, <4>2
    <3> QED BY <2>1, <2>2, <2>5, <3>2, <3>4 DEF Done
  <2> QED BY <1>4, <2>1, <2>2, <2>5
<1>8. CASE Reread(w)
  <2>1. PICK i : i = rows[Head(x.todo)]
    OBVIOUS
  <2>2. UNCHANGED <<rows, links>> /\ x.pc = "reread" /\ x.todo # <<>> /\ x.node # NoId
    BY <1>1, <1>2, <1>8 DEF Reread, tables, Role, HoldingSteps
  <2>3. PICK y : worker' = [worker EXCEPT ![w] = y] /\
          \/ i = NoId /\ y = [x EXCEPT !.pc = "upsert", !.todo = Tail(@)]
          \/ i # NoId /\ x.kind = "sync" /\ y = [[x EXCEPT !.node = i] EXCEPT !.pc = "find"]
          \/ i # NoId /\ x.kind # "sync" /\ y = Imported([x EXCEPT !.node = i])
    BY <1>1, <1>8, <2>1 DEF Reread
  <2>4. y.kind = x.kind /\ y.sole = x.sole
    BY <1>2, <2>3 DEF WorkerStates, Imported
  <2>5. ASSUME Done(x), x.kind = "sync" PROVE Done(y)'
    <3>1. i = x.node
      BY <2>1, <2>2, <2>5 DEF Done
    <3>2. y = [[x EXCEPT !.node = i] EXCEPT !.pc = "find"]
      BY <2>2, <2>3, <2>5, <3>1
    <3>3. y.pc = "find" /\ y.node = x.node /\ y.list = x.list /\ y.todo = x.todo /\ y.kept = x.kept /\ y.sub = x.sub
      BY <1>2, <3>1, <3>2 DEF WorkerStates
    <3> QED BY <2>2, <2>5, <3>3 DEF Done
  <2> QED BY <1>4, <2>3, <2>4, <2>5
<1>9. CASE FindLink(w) \/ CreateLink(w)
  <2>1. x.pc \in {"find", "link"} /\ x.todo # <<>> /\ x.node # NoId /\ UNCHANGED rows /\ links \subseteq links'
    BY <1>1, <1>2, <1>9 DEF FindLink, CreateLink, Role, HoldingSteps, tables
  <2>2. PICK y : /\ worker' = [worker EXCEPT ![w] = y]
                 /\ \/ y = Imported(x) /\ \E l \in links' : l.sub = x.sub /\ l.node = x.node
                    \/ y = [x EXCEPT !.pc = "link"]
    <3>1. CASE FindLink(w)
      BY <1>1, <3>1 DEF FindLink, tables
    <3>2. CASE CreateLink(w)
      <4>1. PICK new : new = [id |-> lastLink + 1, sub |-> x.sub, node |-> x.node]
        OBVIOUS
      <4>2. new.sub = x.sub /\ new.node = x.node /\ new \in links' /\ worker' = [worker EXCEPT ![w] = Imported(x)]
        BY <1>1, <3>2, <4>1 DEF CreateLink
      <4> QED BY <4>2
    <3> QED BY <1>9, <3>1, <3>2
  <2>3. y.kind = x.kind /\ y.sole = x.sole
    BY <1>2, <2>2 DEF WorkerStates, Imported
  <2>4. ASSUME Done(x), y = [x EXCEPT !.pc = "link"] PROVE Done(y)'
    <3>1. y.pc = "link" /\ y.node = x.node /\ y.list = x.list /\ y.todo = x.todo /\ y.kept = x.kept /\ y.sub = x.sub
      BY <1>2, <2>4 DEF WorkerStates
    <3> QED BY <2>1, <2>4, <3>1 DEF Done
  <2>5. ASSUME Done(x), y = Imported(x), NEW l \in links', l.sub = x.sub, l.node = x.node PROVE Done(y)'
    <3>1. y.pc = "upsert" /\ y.list = x.list /\ y.todo = Tail(x.todo) /\ y.kept = x.kept \cup {x.node} /\ y.sub = x.sub
      BY <1>2, <2>5 DEF WorkerStates, Imported
    <3>2. ToSet(x.todo) = {Head(x.todo)} \cup ToSet(y.todo)
      BY <1>2, <2>1, <3>1, ToSetTail DEF WorkerStates
    <3>3. rows[Head(x.todo)] = x.node
      BY <2>1, <2>5 DEF Done
    <3>4. \A a \in ToSet(y.list) \ ToSet(y.todo) : rows'[a] \in y.kept
      BY <2>1, <2>5, <3>1, <3>2, <3>3 DEF Done
    <3>5. \A i \in y.kept : (\E a \in ToSet(y.list) : rows'[a] = i) /\ (\E k \in links' : k.sub = y.sub /\ k.node = i)
      BY <2>1, <2>5, <3>1, <3>2, <3>3 DEF Done
    <3> QED BY <2>5, <3>1, <3>2, <3>4, <3>5 DEF Done
  <2> QED BY <1>4, <2>2, <2>3, <2>4, <2>5
<1>10. CASE ImportEnds(w)
  <2>1. PICK y : /\ worker' = [worker EXCEPT ![w] = y] /\ UNCHANGED <<rows, links>> /\ x.todo = <<>>
                 /\ (y = Idle \/ y = [x EXCEPT !.pc = "prune"])
    BY <1>1, <1>10 DEF ImportEnds, tables
  <2>2. CASE y = [x EXCEPT !.pc = "prune"]
    <3>1. y.pc = "prune" /\ y.list = x.list /\ y.todo = x.todo /\ y.kept = x.kept /\ y.sub = x.sub
          /\ y.kind = x.kind /\ y.sole = x.sole
      BY <1>2, <2>2 DEF WorkerStates
    <3>2. Done(x) => Done(y)'
      BY <2>1, <3>1 DEF Done
    <3> QED BY <1>4, <2>1, <3>1, <3>2
  <2> QED BY <1>4, <2>1, <2>2
<1> QED BY <1>5, <1>6, <1>7, <1>8, <1>9, <1>10 DEF ImportStep

(* The pruning of a sync.                                                  *)
LEMMA SoleDeletion ==
  ASSUME IInv, Unshared, NEW w \in Workers, DeletionStep(w) \/ SaveChecked(w)
  PROVE  Unshared'
<1> USE DEF At, Become, Goto
<1>1. PICK x : x = worker[w]
  OBVIOUS
<1>2. x \in WorkerStates /\ Role(x) /\ x # Idle /\ Tables /\ Staff
  <2>1. x.pc \in Steps
    BY <1>1 DEF DeletionStep, ListLinks, Unlink, CountLinks, DeleteRow, Stamp, SelectNodes, UnlinkAll, Sweep,
                RemoveSubscription, UnlinkNode, DropNode, SaveChecked, Steps
  <2> QED BY <1>1, <2>1, Working DEF IInv
<1>3. x.kind = "sync" /\ x.sole => Done(x)
  BY <1>1, <1>2 DEF Unshared
<1>4. ASSUME NEW y, worker' = [worker EXCEPT ![w] = y],
             y # Idle => y.kind = x.kind /\ y.sole = x.sole,
             y # Idle /\ x.kind = "sync" /\ Done(x) => Done(y)'
      PROVE  Unshared'
  BY <1>1, <1>2, <1>3, <1>4, SoleStep
<1>5. CASE Stamp(w) \/ RemoveSubscription(w) \/ DropNode(w) \/ SaveChecked(w)
  BY <1>4, <1>5 DEF Stamp, RemoveSubscription, DropNode, SaveChecked
<1>6. CASE SelectNodes(w) \/ UnlinkAll(w) \/ Sweep(w) \/ UnlinkNode(w)
  <2>1. x.kind # "sync"
    BY <1>1, <1>2, <1>6 DEF SelectNodes, UnlinkAll, Sweep, UnlinkNode, Role
  <2>2. PICK y : /\ worker' = [worker EXCEPT ![w] = y]
                 /\ \/ \E s : y = [x EXCEPT !.pc = "unlinkAll", !.pending = s]
                    \/ y = [x EXCEPT !.pc = "sweep"]
                    \/ \E i : y = [x EXCEPT !.pc = "count", !.pending = @ \ {i}, !.node = i]
                    \/ y = [x EXCEPT !.pc = "dropNode"]
    BY <1>1, <1>6 DEF SelectNodes, UnlinkAll, Sweep, UnlinkNode
  <2>3. y.kind = x.kind /\ y.sole = x.sole
    BY <1>2, <2>2 DEF WorkerStates
  <2> QED BY <1>4, <2>1, <2>2, <2>3
<1>7. CASE ListLinks(w)
  <2>1. PICK y, s : /\ worker' = [worker EXCEPT ![w] = y] /\ UNCHANGED <<rows, links>> /\ x.pc = "prune"
                    /\ s = {l \in LinksOf(x.sub) : l.node \notin x.kept}
                    /\ y = [x EXCEPT !.pc = "unlink", !.stale = s]
    BY <1>1, <1>7 DEF ListLinks, tables
  <2>2. y.pc = "unlink" /\ y.list = x.list /\ y.todo = x.todo /\ y.kept = x.kept /\ y.sub = x.sub /\ y.stale = s
        /\ y.kind = x.kind /\ y.sole = x.sole
    BY <1>2, <2>1 DEF WorkerStates
  <2>3. Done(x) => Done(y)'
    BY <2>1, <2>2 DEF Done, LinksOf
  <2> QED BY <1>4, <2>1, <2>2, <2>3
<1>8. CASE Unlink(w)
  <2>1. PICK y, l : /\ l \in x.stale /\ worker' = [worker EXCEPT ![w] = y] /\ UNCHANGED rows /\ x.pc = "unlink"
                    /\ links' = links \ {l}
                    /\ y = [x EXCEPT !.pc = "count", !.stale = @ \ {l}, !.node = l.node]
    <3>1. PICK l \in x.stale : /\ links' = links \ {l} /\ UNCHANGED rows /\ x.pc = "unlink"
             /\ worker' = [worker EXCEPT ![w] = [x EXCEPT !.pc = "count", !.stale = @ \ {l}, !.node = l.node]]
      BY <1>1, <1>8 DEF Unlink
    <3> QED BY <3>1
  <2>2. y.pc = "count" /\ y.list = x.list /\ y.todo = x.todo /\ y.kept = x.kept /\ y.sub = x.sub
        /\ y.stale = x.stale \ {l} /\ y.node = l.node /\ y.kind = x.kind /\ y.sole = x.sole
    BY <1>2, <2>1 DEF WorkerStates
  <2>3. ASSUME Done(x) PROVE Done(y)'
    <3>1. l.node \notin x.kept
      BY <2>1, <2>3 DEF Done
    <3>2. \A i \in x.kept : \E k \in links' : k.sub = x.sub /\ k.node = i
      BY <2>1, <2>3, <3>1 DEF Done
    <3>3. \A k \in links' : k.sub = x.sub => (k \in y.stale <=> k.node \notin x.kept)
      BY <2>1, <2>2, <2>3 DEF Done
    <3> QED BY <2>1, <2>2, <2>3, <3>1, <3>2, <3>3 DEF Done
  <2> QED BY <1>4, <2>1, <2>2, <2>3
<1>9. CASE CountLinks(w)
  <2>1. PICK y : /\ worker' = [worker EXCEPT ![w] = y] /\ UNCHANGED <<rows, links>> /\ x.pc = "count"
                 /\ (y = [x EXCEPT !.pc = "purge"] \/ y = Next1(x))
    BY <1>1, <1>9 DEF CountLinks, tables
  <2>2. y.list = x.list /\ y.todo = x.todo /\ y.kept = x.kept /\ y.sub = x.sub
        /\ y.stale = x.stale /\ y.node = x.node /\ y.kind = x.kind /\ y.sole = x.sole
        /\ (x.kind = "sync" => y.pc \in {"purge", "unlink"})
    BY <1>2, <2>1 DEF WorkerStates, Next1
  <2>3. Done(x) /\ x.kind = "sync" => Done(y)'
    BY <2>1, <2>2 DEF Done
  <2> QED BY <1>4, <2>1, <2>2, <2>3
<1>10. CASE DeleteRow(w)
  <2>1. PICK y : /\ worker' = [worker EXCEPT ![w] = y] /\ UNCHANGED links /\ x.pc = "purge"
                 /\ rows' = WithoutRow(x.node) /\ y = Next1(x)
    BY <1>1, <1>10 DEF DeleteRow
  <2>2. y.list = x.list /\ y.todo = x.todo /\ y.kept = x.kept /\ y.sub = x.sub
        /\ y.stale = x.stale /\ y.node = x.node /\ y.kind = x.kind /\ y.sole = x.sole
        /\ (x.kind = "sync" => y.pc = "unlink")
    BY <1>2, <2>1 DEF WorkerStates, Next1
  <2>3. ASSUME Done(x), x.kind = "sync" PROVE Done(y)'
    <3>1. x.node \notin x.kept /\ x.todo = <<>>
      BY <2>1, <2>3 DEF Done
    <3>2. \A a \in ToSet(x.list) : a \in Addresses
      BY <1>2, ToSetTail, ToSetEmpty DEF WorkerStates
    <3>3. \A a \in ToSet(x.list) : rows[a] \in x.kept => rows'[a] = rows[a]
      BY <2>1, <3>1, <3>2 DEF WithoutRow
    <3>4. \A a \in ToSet(x.list) \ ToSet(x.todo) : rows'[a] \in x.kept
      BY <2>3, <3>3 DEF Done
    <3>5. \A i \in x.kept : \E a \in ToSet(x.list) : rows'[a] = i
      BY <2>3, <3>3 DEF Done
    <3> QED BY <2>1, <2>2, <2>3, <3>1, <3>4, <3>5 DEF Done
  <2> QED BY <1>4, <2>1, <2>2, <2>3
<1> QED BY <1>5, <1>6, <1>7, <1>8, <1>9, <1>10 DEF DeletionStep

LEMMA FreshSole ==
  ASSUME NEW b, NEW x, Fresh(x, b)
  PROVE  x.sole = b /\ (x.kind = "sync" => x.pc = "fetch" /\ x.kept = {} /\ x.todo = <<>> /\ x.list = <<>>)
<1>1. ASSUME NEW s PROVE /\ Syncing(s, b).sole = b /\ Syncing(s, b).pc = "fetch" /\ Syncing(s, b).kept = {}
                         /\ Syncing(s, b).todo = <<>> /\ Syncing(s, b).list = <<>>
                         /\ Deleting(s, b).sole = b /\ Deleting(s, b).kind = "delete"
  BY DEF Deleting, Syncing
<1>2. ASSUME NEW list PROVE Importing(list, b).sole = b /\ Importing(list, b).kind = "import"
  BY DEF Importing, Syncing
<1>3. ASSUME NEW i PROVE Dropping(i, b).sole = b /\ Dropping(i, b).kind = "drop"
  BY DEF Dropping, Syncing
<1>4. ASSUME NEW i, NEW a PROVE Checking(i, a, b).sole = b /\ Checking(i, a, b).kind = "check"
  BY DEF Checking, Syncing
<1> QED BY <1>1, <1>2, <1>3, <1>4 DEF Fresh

LEMMA SoleNext ==
  ASSUME SInv, Next
  PROVE  Unshared'
<1>0. Staff /\ Unshared /\ Tables /\ IInv
  BY DEF SInv, IInv
<1>1. ASSUME NEW w \in Workers, WorkerStep(w) PROVE Unshared'
  BY <1>0, <1>1, SoleImport, SoleDeletion DEF WorkerStep
<1>2. ASSUME NEW w \in Workers, NEW b, NEW x, b = Alone, Fresh(x, b), worker[w] = Idle, Start(w, x) PROVE Unshared'
  BY <1>0, <1>2, FreshSole, SoleStart
<1>3. ASSUME NEW w \in Workers, Handler(w) PROVE Unshared'
  <2>1. PICK b : b = Alone
    OBVIOUS
  <2>2. \E x : Fresh(x, b) /\ worker[w] = Idle /\ Start(w, x)
    BY <1>3, <2>1 DEF Handler, SyncSubscription, ImportNodes, DeleteSubscription, DeleteNode, CheckNode, Request, Fresh
  <2> QED BY <1>2, <2>1, <2>2
<1>4. ASSUME NEW w \in Workers, Fails(w) PROVE Unshared'
  BY <1>0, <1>4, SoleStep DEF Fails
<1>5. ASSUME NEW w \in Workers, IgnoredError(w) PROVE Unshared'
  <2>1. PICK x : x = worker[w]
    OBVIOUS
  <2>2. x \in WorkerStates /\ x # Idle
    <3>1. x.pc \in Steps
      BY <1>5, <2>1 DEF IgnoredError, At, Steps
    <3> QED BY <1>0, <2>1, <3>1, Working
  <2>3. PICK z, y : /\ worker' = [worker EXCEPT ![w] = y] /\ y = [z EXCEPT !.sole = FALSE]
                    /\ \/ z = [x EXCEPT !.pc = "upsert", !.todo = Tail(@)]
                       \/ z = Imported(x)
                       \/ z = Next1(x)
                       \/ z = [x EXCEPT !.pc = "dropNode"]
    BY <1>5, <2>1 DEF IgnoredError
  <2>4. y.sole = FALSE
    <3>1. "sole" \in DOMAIN z
      BY <2>2, <2>3 DEF WorkerStates, Imported, Next1
    <3> QED BY <2>3, <3>1
  <2> QED BY <1>0, <2>1, <2>2, <2>3, <2>4, SoleStep
<1>6. CASE Restart
  BY <1>6 DEF Restart, Unshared
<1>7. CASE Environment \/ StartRound
  <2>1. UNCHANGED <<rows, links, worker>>
    BY <1>7 DEF Environment, Publish, CreateSubscription, UpdateSubscription, TimePasses, EditRow, StartRound, tables
  <2> QED BY <1>0, <2>1 DEF Unshared, Done
<1>8. ASSUME NEW s \in Subs, SyncNext(s) PROVE Unshared'
  <2>1. CASE UNCHANGED worker
    <3>1. UNCHANGED <<rows, links, worker>>
      BY <1>8, <2>1 DEF SyncNext, tables
    <3> QED BY <1>0, <3>1 DEF Unshared, Done
  <2>2. CASE Present(s)
    <3>1. PICK b, x : b = Alone /\ x = Syncing(s, b)
      OBVIOUS
    <3>2. Fresh(x, b) /\ worker[Ticker] = Idle /\ Start(Ticker, x) /\ Ticker \in Workers
      BY <1>8, <2>2, <3>1 DEF SyncNext, Fresh, Workers
    <3> QED BY <1>2, <3>1, <3>2
  <2> QED BY <1>8, <2>1, <2>2 DEF SyncNext
<1> QED BY <1>1, <1>3, <1>4, <1>5, <1>6, <1>7, <1>8 DEF Next, TickerStep, Workers

-----------------------------------------------------------------------------
LEMMA InitSInv == Init => SInv
<1>1. Init => Unshared
  BY DEF Init, Unshared
<1> QED BY <1>1, InitIInv DEF SInv

LEMMA NextSInv == SInv /\ [Next]_vars => SInv'
<1> SUFFICES ASSUME SInv, [Next]_vars PROVE SInv'
  OBVIOUS
<1>1. IInv'
  BY NextIInv DEF SInv
<1>2. CASE Next
  BY <1>1, <1>2, SoleNext DEF SInv
<1>3. CASE UNCHANGED vars
  <2>1. UNCHANGED <<rows, links, worker>>
    BY <1>3 DEF vars, tables
  <2>2. Unshared'
    BY <2>1 DEF SInv, Unshared, Done
  <2> QED BY <1>1, <2>2 DEF SInv
<1> QED BY <1>2, <1>3

(* As long as nobody else has run since a sync began, everybody else is    *)
(* idle, the nodes it kept are those of the part of the list it is through *)
(* with, each has its link, and the links to prune are all the others.     *)
THEOREM SoleInvariant == Spec => []SInv
BY InitSInv, NextSInv, PTL DEF Spec

(* Who takes links away.                                                   *)
LEMMA WhoUnlinks ==
  ASSUME [Next]_vars
  PROVE  links \subseteq links' \/ \E v \in Workers : Unlink(v) \/ UnlinkAll(v) \/ UnlinkNode(v)
<1> USE DEF tables
<1>1. ASSUME NEW w \in Workers, WorkerStep(w), ~(Unlink(w) \/ UnlinkAll(w) \/ UnlinkNode(w))
      PROVE  links \subseteq links'
  BY <1>1 DEF WorkerStep, ImportStep, DeletionStep, FetchSubscription, UpsertFails, Upsert, Reread, FindLink,
     CreateLink, ImportEnds, ListLinks, CountLinks, DeleteRow, Stamp, SelectNodes, Sweep, RemoveSubscription,
     DropNode, SaveChecked
<1>2. ASSUME NEW w \in Workers, Handler(w) PROVE links \subseteq links'
  BY <1>2, HandlerStarts
<1>3. ASSUME NEW w \in Workers, Fails(w) \/ IgnoredError(w) PROVE links \subseteq links'
  BY <1>3 DEF Fails, IgnoredError
<1>4. CASE Environment \/ Restart \/ UNCHANGED vars
  BY <1>4 DEF Environment, Publish, CreateSubscription, UpdateSubscription, TimePasses, EditRow, Restart, vars
<1>5. CASE StartRound \/ \E s \in Subs : SyncNext(s)
  BY <1>5 DEF StartRound, SyncNext
<1> QED BY <1>1, <1>2, <1>3, <1>4, <1>5 DEF Next, TickerStep, Workers

(* Who ends a sync without a failure.                                      *)
LEMMA WhoStamps ==
  ASSUME IInv, [Next]_vars, NEW w \in Workers, At(w, "unlink"), worker'[w] = Idle, faults' = faults
  PROVE  Stamp(w)
<1> USE DEF At, Become, Goto
<1>1. PICK x : x = worker[w]
  OBVIOUS
<1>2. x \in WorkerStates /\ Role(x) /\ x # Idle /\ x.pc = "unlink" /\ Staff /\ faults \in Nat
  BY <1>1, Working DEF IInv, Steps, Tables
<1>3. faults + 1 # faults
  BY <1>2
<1>4. ASSUME NEW v \in Workers, NEW y, worker' = [worker EXCEPT ![v] = y] PROVE v = w /\ y = Idle
  BY <1>1, <1>2, <1>4 DEF Staff
<1>5. ASSUME NEW v \in Workers, WorkerStep(v) PROVE Stamp(w)
  <2>1. v = w
    BY <1>4, <1>5 DEF WorkerStep, ImportStep, DeletionStep, FetchSubscription, UpsertFails, Upsert, Reread,
       FindLink, CreateLink, ImportEnds, ListLinks, Unlink, CountLinks, DeleteRow, Stamp, SelectNodes, UnlinkAll,
       Sweep, RemoveSubscription, UnlinkNode, DropNode, SaveChecked
  <2>2. Stamp(w) \/ Unlink(w)
    BY <1>1, <1>2, <1>5, <2>1 DEF WorkerStep, ImportStep, DeletionStep, FetchSubscription, UpsertFails, Upsert,
       Reread, FindLink, CreateLink, ImportEnds, ListLinks, CountLinks, DeleteRow, SelectNodes, UnlinkAll, Sweep,
       RemoveSubscription, UnlinkNode, DropNode, SaveChecked
  <2>3. ASSUME Unlink(w) PROVE FALSE
    <3>1. PICK l : worker' = [worker EXCEPT ![w] = [x EXCEPT !.pc = "count", !.stale = @ \ {l}, !.node = l.node]]
      BY <1>1, <2>3 DEF Unlink
    <3>2. [x EXCEPT !.pc = "count", !.stale = @ \ {l}, !.node = l.node].pc = "count"
      BY <1>2 DEF WorkerStates
    <3>3. [x EXCEPT !.pc = "count", !.stale = @ \ {l}, !.node = l.node] = Idle
      BY <1>4, <3>1
    <3> QED BY <3>2, <3>3 DEF Idle
  <2> QED BY <2>2, <2>3
<1>6. ASSUME NEW v \in Workers, NEW y, worker[v] = Idle, Start(v, y) PROVE FALSE
  <2>1. worker'[w] = [x EXCEPT !.sole = FALSE]
    BY <1>1, <1>2, <1>6 DEF Start
  <2>2. [x EXCEPT !.sole = FALSE].pc = "unlink"
    BY <1>2 DEF WorkerStates
  <2> QED BY <2>1, <2>2 DEF Idle
<1>7. ASSUME NEW v \in Workers, Handler(v) PROVE FALSE
  BY <1>6, <1>7, HandlerStarts
<1>8. CASE Restart \/ \E v \in Workers : Fails(v) \/ IgnoredError(v)
  BY <1>3, <1>8 DEF Restart, Fails, IgnoredError, Fault
<1>9. CASE UNCHANGED worker
  BY <1>1, <1>2, <1>9
<1>10. CASE Environment \/ StartRound \/ UNCHANGED vars
  BY <1>9, <1>10 DEF Environment, Publish, CreateSubscription, UpdateSubscription, TimePasses, EditRow, StartRound, vars
<1>11. ASSUME NEW s \in Subs, SyncNext(s) PROVE FALSE
  BY <1>1, <1>2, <1>6, <1>11 DEF SyncNext, Workers
<1> QED BY <1>5, <1>7, <1>8, <1>10, <1>11 DEF Next, TickerStep, Workers

(* pruneSubscriptionNodes takes no link from a node of the list that the   *)
(* sync has just imported, when nobody else ran meanwhile: for every list, *)
(* also one with the same node twice, and whatever links earlier races and *)
(* failures have left behind.                                              *)
THEOREM SolePruneSparesList == Spec => PruneSparesList
<1>1. ASSUME SInv, [Next]_vars, NEW w \in Workers, At(w, "unlink"), worker[w].sole,
             NEW l \in links \ links', NEW a \in Addresses, rows[a] = l.node, a \in ToSet(worker[w].list)
      PROVE  FALSE
  <2>1. PICK x : x = worker[w]
    OBVIOUS
  <2>2. x \in WorkerStates /\ Role(x) /\ x # Idle /\ x.pc = "unlink" /\ x.kind = "sync"
    BY <1>1, <2>1, Working DEF At, Steps, SInv, IInv, Role
  <2>3. Done(x) /\ \A v \in Workers : v # w => worker[v] = Idle
    BY <1>1, <2>1, <2>2 DEF SInv, Unshared
  <2>4. rows[a] \in x.kept
    BY <1>1, <2>1, <2>2, <2>3, ToSetEmpty DEF Done
  <2>5. PICK v \in Workers : Unlink(v) \/ UnlinkAll(v) \/ UnlinkNode(v)
    BY <1>1, WhoUnlinks
  <2>6. worker[v].pc \in {"unlink", "unlinkAll", "unlinkNode"}
    BY <2>5 DEF Unlink, UnlinkAll, UnlinkNode, At
  <2>7. v = w
    BY <2>3, <2>6 DEF Idle
  <2>8. Unlink(w)
    BY <2>1, <2>2, <2>5, <2>7 DEF UnlinkAll, UnlinkNode, At
  <2>9. l \in x.stale
    BY <1>1, <2>1, <2>8 DEF Unlink
  <2> QED BY <1>1, <2>2, <2>3, <2>4, <2>9 DEF Done
<1>2. SInv /\ [Next]_vars =>
        \A w \in Workers :
          /\ At(w, "unlink") /\ worker[w].sole /\ worker' # worker
          => \A l \in links \ links', a \in Addresses :
               worker'[w] # worker[w] /\ rows[a] = l.node => a \notin ToSet(worker[w].list)
  BY <1>1
<1> QED BY <1>2, SoleInvariant, PTL DEF Spec, PruneSparesList

(* A sync that ends without a failure, and that nobody overlapped, leaves  *)
(* exactly the links of the list it fetched.                               *)
THEOREM SoleSyncExact == Spec => SyncExact
<1>1. ASSUME SInv, [Next]_vars, NEW w \in Workers, At(w, "unlink"), worker[w].sole,
             worker'[w] = Idle, faults' = faults
      PROVE  {l.node : l \in LinksOf(worker[w].sub)} = {rows[a] : a \in ToSet(worker[w].list)}
  <2>1. PICK x : x = worker[w]
    OBVIOUS
  <2>2. x \in WorkerStates /\ Role(x) /\ x # Idle /\ x.pc = "unlink" /\ x.kind = "sync"
    BY <1>1, <2>1, Working DEF At, Steps, SInv, IInv, Role
  <2>3. Done(x)
    BY <1>1, <2>1, <2>2 DEF SInv, Unshared
  <2>4. x.stale = {}
    BY <1>1, <2>1, WhoStamps DEF SInv, Stamp
  <2>5. \A l \in links : l.sub = x.sub => l.node \in x.kept
    BY <2>2, <2>3, <2>4 DEF Done
  <2>6. \A i \in x.kept : \E l \in links : l.sub = x.sub /\ l.node = i
    BY <2>3 DEF Done
  <2>7. \A a \in ToSet(x.list) : rows[a] \in x.kept
    BY <2>2, <2>3, ToSetEmpty DEF Done
  <2>8. \A i \in x.kept : \E a \in ToSet(x.list) : rows[a] = i
    BY <2>3 DEF Done
  <2>9. {l.node : l \in LinksOf(x.sub)} = x.kept
    BY <2>5, <2>6 DEF LinksOf
  <2>10. {rows[a] : a \in ToSet(x.list)} = x.kept
    BY <2>7, <2>8
  <2> QED BY <2>1, <2>9, <2>10
<1>2. SInv /\ [Next]_vars =>
        \A w \in Workers :
          /\ At(w, "unlink") /\ worker[w].sole
          /\ worker'[w] = Idle /\ faults' = faults
          => {l.node : l \in LinksOf(worker[w].sub)} = {rows[a] : a \in ToSet(worker[w].list)}
  BY <1>1
<1> QED BY <1>2, SoleInvariant, PTL DEF Spec, SyncExact
=============================================================================
