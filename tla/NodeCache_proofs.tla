-------------------------- MODULE NodeCache_proofs --------------------------
(***************************************************************************)
(* Theorems about NodeCache for all sets of nodes, regions, sessions and   *)
(* workers, all start rows, and all bounds on operations and failures.     *)
(***************************************************************************)
EXTENDS NodeCache, TLAPS

LEMMA AtType ==
  ASSUME TypeOK, NEW n \in Nodes, NEW w \in At(n)
  PROVE  w \in Workers /\ worker[w] \in BusyStates /\ worker[w].node = n
  BY NamesAssumption DEF At, TypeOK, Idle

LEMMA BusyType ==
  ASSUME TypeOK, NEW w \in Workers, worker[w].pc # "idle"
  PROVE  worker[w] \in BusyStates /\ worker[w].node \in Nodes /\ w \in At(worker[w].node)
<1>1. worker[w] \in BusyStates
  BY DEF TypeOK, Idle
<1> QED BY <1>1 DEF BusyStates, At

LEMMA HasRowType ==
  ASSUME TypeOK, NEW n \in Nodes
  PROVE  /\ HasRow(n) => rows[n] \in Rows
         /\ rows[n] \in Rows => HasRow(n)
  BY NamesAssumption DEF TypeOK, HasRow

LEMMA RowTypes ==
  /\ \A row \in Rows, d \in BOOLEAN : [row EXCEPT !.disabled = d] \in Rows
  /\ \A row \in Rows, e \in Regions \cup {Unknown} : [row EXCEPT !.expected = e] \in Rows
  /\ \A e \in Regions \cup {Unknown} : NewRow(e) \in Rows
  /\ \A row \in Rows, d \in Places : Probed(row, d) \in Rows
  /\ \A row \in Rows : MarkFailure(row) \in Rows
<1>1. \A row \in Rows : MarkFailure(row) \in Rows
  <2> TAKE row \in Rows
  <2>1. row.fails \in 0..MaxFail
    BY DEF Rows
  <2> DEFINE f == IF row.fails < MaxFail THEN row.fails + 1 ELSE MaxFail
  <2>2. f \in 0..MaxFail
    BY <2>1, MaxFailAssumption
  <2>3. (row.healthy /\ f < MaxFail) \in BOOLEAN
    OBVIOUS
  <2> HIDE DEF f
  <2>4. [row EXCEPT !.fails = f, !.healthy = row.healthy /\ f < MaxFail] \in Rows
    BY <2>2, <2>3 DEF Rows
  <2> QED BY <2>4 DEF MarkFailure, f
<1>2. \A e \in Regions \cup {Unknown} : NewRow(e) \in Rows
  BY MaxFailAssumption DEF Rows, NewRow
<1>3. \A row \in Rows, d \in Places : Probed(row, d) \in Rows
  <2> TAKE row \in Rows, d \in Places
  <2>1. 0 \in 0..MaxFail /\ TRUE \in BOOLEAN
    BY MaxFailAssumption
  <2>2. d.country \in Regions \cup {Unknown} /\ d.region \in Regions \cup {Unknown}
    BY PlacesAssumption
  <2>3. [row EXCEPT !.healthy = TRUE, !.fails = 0,
                    !.country = d.country, !.detected = d.region] \in Rows
    BY <2>1, <2>2 DEF Rows
  <2> QED BY <2>3 DEF Probed
<1>4. \A row \in Rows, d \in BOOLEAN : [row EXCEPT !.disabled = d] \in Rows
  BY DEF Rows
<1>5. \A row \in Rows, e \in Regions \cup {Unknown} : [row EXCEPT !.expected = e] \in Rows
  BY DEF Rows
<1> QED BY <1>1, <1>2, <1>3, <1>4, <1>5

(* What a worker becomes when it goes on.                                  *)
LEMMA BusyUpdates ==
  ASSUME NEW x \in BusyStates
  PROVE  /\ \A pc \in Steps : [x EXCEPT !.pc = pc] \in BusyStates
         /\ \A row \in Rows : [x EXCEPT !.pc = "load", !.copy = row] \in BusyStates
         /\ \A row \in Rows : [x EXCEPT !.pc = "load", !.copy = row, !.alone = FALSE] \in BusyStates
         /\ \A row \in Rows \cup {None} : [x EXCEPT !.pc = "exec", !.prev = row] \in BusyStates
         /\ \A ss \in SUBSET Sessions : [x EXCEPT !.pc = "scan", !.todo = ss] \in BusyStates
         /\ \A s \in Sessions, hs \in SUBSET Sessions :
              [x EXCEPT !.todo = @ \ {s}, !.hits = hs] \in BusyStates
         /\ \A s \in Sessions : [x EXCEPT !.todo = @ \ {s}] \in BusyStates
         /\ \A b \in BOOLEAN : [x EXCEPT !.alone = b] \in BusyStates
<1> USE DEF BusyStates, Steps
<1>1. \A pc \in Steps : [x EXCEPT !.pc = pc] \in BusyStates
  OBVIOUS
<1>2. \A row \in Rows : [x EXCEPT !.pc = "load", !.copy = row] \in BusyStates
  OBVIOUS
<1>3. \A row \in Rows : [x EXCEPT !.pc = "load", !.copy = row, !.alone = FALSE] \in BusyStates
  OBVIOUS
<1>4. \A row \in Rows \cup {None} : [x EXCEPT !.pc = "exec", !.prev = row] \in BusyStates
  OBVIOUS
<1>5. \A ss \in SUBSET Sessions : [x EXCEPT !.pc = "scan", !.todo = ss] \in BusyStates
  OBVIOUS
<1>6. \A s \in Sessions, hs \in SUBSET Sessions :
        [x EXCEPT !.todo = @ \ {s}, !.hits = hs] \in BusyStates
  OBVIOUS
<1>7. \A s \in Sessions : [x EXCEPT !.todo = @ \ {s}] \in BusyStates
  OBVIOUS
<1>8. \A b \in BOOLEAN : [x EXCEPT !.alone = b] \in BusyStates
  OBVIOUS
<1> QED BY <1>1, <1>2, <1>3, <1>4, <1>5, <1>6, <1>7, <1>8

LEMMA BecomeType ==
  ASSUME TypeOK, NEW w \in Workers, NEW x \in BusyStates \cup {Idle}, Become(w, x)
  PROVE  worker' \in [Workers -> BusyStates \cup {Idle}]
  BY DEF TypeOK, Become

LEMMA GotoType ==
  ASSUME TypeOK, NEW w \in Workers, worker[w].pc # "idle", NEW pc \in Steps, Goto(w, pc)
  PROVE  worker' \in [Workers -> BusyStates \cup {Idle}]
  BY BusyType, BusyUpdates, BecomeType DEF Goto

LEMMA BeginType ==
  ASSUME TypeOK, NEW w \in Workers, NEW n \in Nodes, NEW pc \in Steps, NEW copy \in Rows,
         Begin(w, n, pc, copy)
  PROVE  /\ worker' \in [Workers -> BusyStates \cup {Idle}]
         /\ ops' \in 0..MaxOps
         /\ dirty' \subseteq Nodes /\ strayed' \subseteq Nodes
         /\ UNCHANGED <<cache, healthyNodes, index, sticky, faults>>
<1> DEFINE new == [pc |-> pc, node |-> n, copy |-> copy, prev |-> None,
                   todo |-> {}, hits |-> {}, alone |-> At(n) = {}]
           other(v) == IF v \in At(n) THEN [worker[v] EXCEPT !.alone = FALSE] ELSE worker[v]
<1>1. new \in BusyStates
  BY DEF BusyStates
<1>2. ASSUME NEW v \in Workers PROVE other(v) \in BusyStates \cup {Idle}
  BY AtType, BusyUpdates DEF TypeOK
<1>3. worker' = [v \in Workers |-> IF v = w THEN new ELSE other(v)]
  BY DEF Begin
<1> HIDE DEF new, other
<1>4. worker' \in [Workers -> BusyStates \cup {Idle}]
  BY <1>1, <1>2, <1>3
<1>5. ops' \in 0..MaxOps
  BY BoundsAssumption DEF Begin, TypeOK
<1> QED BY <1>4, <1>5 DEF Begin, TypeOK

LEMMA SaveType ==
  ASSUME TypeOK, NEW w \in Workers, worker[w].pc # "idle", NEW row \in Rows, Save(w, row)
  PROVE  TypeOK'
<1>1. worker' \in [Workers -> BusyStates \cup {Idle}]
  BY BusyType, BusyUpdates, BecomeType DEF Save
<1>2. rows' \in [Nodes -> Rows \cup {None, Deleted}]
  BY DEF Save, TypeOK
<1> QED BY <1>1, <1>2 DEF Save, TypeOK, history

(* Types are kept by every step.                                           *)
LEMMA StartTypes ==
  ASSUME TypeOK, NEW w \in Workers, NEW n \in Nodes, Start(w, n)
  PROVE  TypeOK'
<1> USE DEF Steps
<1>1. CASE StartCheck(w, n)
  BY <1>1, HasRowType, BeginType DEF StartCheck, TypeOK
<1>2. ASSUME NEW disabled \in BOOLEAN, StartToggle(w, n, disabled) PROVE TypeOK'
  <2>1. [rows[n] EXCEPT !.disabled = disabled] \in Rows
    BY <1>2, HasRowType, RowTypes DEF StartToggle
  <2> QED BY <1>2, <2>1, BeginType DEF StartToggle, TypeOK
<1>3. CASE StartDelete(w, n)
  BY <1>3, HasRowType, BeginType DEF StartDelete, TypeOK
<1>4. ASSUME NEW expected \in Regions \cup {Unknown}, Import(w, n, expected) PROVE TypeOK'
  <2> DEFINE row == IF rows[n] = None THEN NewRow(expected)
                                      ELSE [rows[n] EXCEPT !.expected = expected]
  <2>1. row \in Rows
    <3>1. rows[n] = None \/ rows[n] \in Rows
      BY <1>4 DEF Import, TypeOK
    <3> QED BY <3>1, RowTypes
  <2>2. rows' = [rows EXCEPT ![n] = row]
    BY <1>4 DEF Import
  <2> HIDE DEF row
  <2>3. rows' \in [Nodes -> Rows \cup {None, Deleted}] /\ rows'[n] \in Rows
    BY <2>1, <2>2 DEF TypeOK
  <2> QED BY <1>4, <2>3, BeginType DEF Import, TypeOK
<1> QED BY <1>1, <1>2, <1>3, <1>4 DEF Start

LEMMA CacheTypes ==
  ASSUME TypeOK, NEW w \in Workers, CacheExec(w) \/ Remove(w)
  PROVE  TypeOK'
<1>0. worker[w].pc # "idle"
  BY DEF CacheExec, Remove, Pc
<1>1. /\ worker[w] \in BusyStates /\ worker[w].node \in Nodes /\ worker[w].copy \in Rows
  BY <1>0, BusyType DEF BusyStates
<1>2. worker' \in [Workers -> BusyStates \cup {Idle}]
  <2>1. "keys" \in Steps
    BY DEF Steps
  <2> QED BY <1>0, <2>1, BecomeType, GotoType DEF CacheExec, Remove
<1>3. cache' \in [Nodes -> Rows \cup {None}]
  BY <1>1 DEF CacheExec, Remove, TypeOK
<1>4. healthyNodes' \subseteq Nodes
  BY <1>1 DEF CacheExec, Remove, TypeOK
<1>5. index' \in [Regions -> SUBSET Nodes]
  <2>1. CASE CacheExec(w)
    BY <1>1, <2>1 DEF CacheExec, TypeOK
  <2>2. CASE Remove(w)
    BY <1>1, <2>2 DEF Remove, TypeOK
  <2> QED BY <2>1, <2>2
<1>6. dirty' \subseteq Nodes /\ strayed' \subseteq Nodes
  BY <1>1 DEF CacheExec, Remove, Heal, TypeOK
<1>7. UNCHANGED <<sticky, ops, faults, rows>>
  BY DEF CacheExec, Remove
<1> QED BY <1>2, <1>3, <1>4, <1>5, <1>6, <1>7 DEF TypeOK

LEMMA WorkTypes ==
  ASSUME TypeOK, NEW w \in Workers, Work(w)
  PROVE  TypeOK'
<1> USE DEF Pc
<1>a. ASSUME worker[w].pc # "idle"
      PROVE  /\ worker[w] \in BusyStates /\ worker[w].node \in Nodes
             /\ worker[w].copy \in Rows
  BY <1>a, BusyType DEF BusyStates
<1>1. CASE CheckSucceeds(w)
  <2>1. PICK place \in Places : Save(w, Probed(worker[w].copy, place))
    BY <1>1 DEF CheckSucceeds
  <2> QED BY <1>1, <1>a, <2>1, RowTypes, SaveType DEF CheckSucceeds
<1>2. CASE CheckFails(w)
  BY <1>2, <1>a, RowTypes, SaveType DEF CheckFails
<1>3. CASE Toggle(w)
  BY <1>3, <1>a, SaveType DEF Toggle
<1>4. CASE Reread(w)
  <2>1. worker' \in [Workers -> BusyStates \cup {Idle}]
    BY <1>4, <1>a, HasRowType, BusyUpdates, BecomeType DEF Reread
  <2> QED BY <1>4, <2>1 DEF Reread, TypeOK, storeVars, history
<1>5. CASE DeleteRow(w)
  <2>1. worker' \in [Workers -> BusyStates \cup {Idle}]
    BY <1>5, <1>a, GotoType DEF DeleteRow, Steps
  <2> QED BY <1>5, <1>a, <2>1 DEF DeleteRow, TypeOK, history
<1>6. CASE CacheLoad(w)
  <2>1. worker' \in [Workers -> BusyStates \cup {Idle}]
    <3>1. cache[worker[w].node] \in Rows \cup {None}
      BY <1>6, <1>a DEF CacheLoad, TypeOK
    <3> QED BY <1>6, <1>a, <3>1, BusyUpdates, BecomeType DEF CacheLoad
  <2> QED BY <1>6, <2>1 DEF CacheLoad, TypeOK, storeVars, history
<1>7. CASE CacheExec(w) \/ Remove(w)
  BY <1>7, CacheTypes
<1>8. CASE CleanupKeys(w)
  <2>1. worker' \in [Workers -> BusyStates \cup {Idle}]
    BY <1>8, <1>a, BusyUpdates, BecomeType DEF CleanupKeys
  <2> QED BY <1>8, <2>1 DEF CleanupKeys, TypeOK, storeVars, history
<1>9. ASSUME NEW s \in Sessions, CleanupGet(w, s) PROVE TypeOK'
  <2>1. worker' \in [Workers -> BusyStates \cup {Idle}]
    <3> DEFINE hs == IF sticky[s] = worker[w].node THEN worker[w].hits \cup {s} ELSE worker[w].hits
               x == [worker[w] EXCEPT !.todo = @ \ {s}, !.hits = hs]
    <3>1. hs \in SUBSET Sessions
      BY <1>9, <1>a DEF CleanupGet, BusyStates
    <3>2. Become(w, x)
      BY <1>9 DEF CleanupGet
    <3> HIDE DEF hs
    <3>3. x \in BusyStates
      BY <1>9, <1>a, <3>1, BusyUpdates DEF CleanupGet
    <3> QED BY <3>2, <3>3, BecomeType
  <2> QED BY <1>9, <2>1 DEF CleanupGet, TypeOK, storeVars, history
<1>10. CASE CleanupEnd(w)
  <2>1. worker' \in [Workers -> BusyStates \cup {Idle}]
    BY <1>10, <1>a, GotoType, BecomeType DEF CleanupEnd, Steps
  <2> QED BY <1>10, <2>1 DEF CleanupEnd, TypeOK, storeVars, history
<1>11. CASE CleanupDel(w)
  <2>1. worker' \in [Workers -> BusyStates \cup {Idle}]
    BY <1>11, BecomeType DEF CleanupDel
  <2>2. sticky' \in [Sessions -> Nodes \cup {NoNode}]
    BY <1>11 DEF CleanupDel, TypeOK
  <2> QED BY <1>11, <2>1, <2>2 DEF CleanupDel, TypeOK, history
<1> QED BY <1>1, <1>2, <1>3, <1>4, <1>5, <1>6, <1>7, <1>8, <1>9, <1>10, <1>11 DEF Work

LEMMA FaultType ==
  ASSUME TypeOK, Fault
  PROVE  faults' \in 0..MaxFaults
  BY BoundsAssumption DEF Fault, TypeOK

LEMMA FailTypes ==
  ASSUME TypeOK, NEW w \in Workers, Fail(w)
  PROVE  TypeOK'
<1> USE DEF Pc
<1>a. ASSUME worker[w].pc # "idle"
      PROVE  /\ worker[w] \in BusyStates /\ worker[w].node \in Nodes
             /\ worker[w].copy \in Rows
  BY <1>a, BusyType DEF BusyStates
<1>b. faults' \in 0..MaxFaults
  <2>1. CASE CheckRefused(w)
    BY <2>1 DEF CheckRefused, TypeOK
  <2> QED BY <2>1, FaultType DEF Fail, SaveFails, MarkFailureUnsaved, CacheLoadFails,
          CachingFails, CleanupGetFails, CleanupFails
<1>1. CASE SaveFails(w) \/ CheckRefused(w) \/ CachingFails(w) \/ CleanupFails(w)
  <2>1. worker[w].pc # "idle"
    BY <1>1 DEF SaveFails, CheckRefused, CachingFails, CleanupFails
  <2>2. worker' \in [Workers -> BusyStates \cup {Idle}]
    BY <1>1, BecomeType DEF SaveFails, CheckRefused, CachingFails, CleanupFails
  <2> QED BY <1>1, <1>a, <1>b, <2>1, <2>2
        DEF SaveFails, CheckRefused, CachingFails, CleanupFails, Disturb, TypeOK, storeVars, history
<1>2. CASE MarkFailureUnsaved(w)
  <2>1. worker' \in [Workers -> BusyStates \cup {Idle}]
    <3>1. MarkFailure(worker[w].copy) \in Rows
      BY <1>2, <1>a, RowTypes DEF MarkFailureUnsaved
    <3> QED BY <1>2, <1>a, <3>1, BusyUpdates, BecomeType DEF MarkFailureUnsaved
  <2> QED BY <1>2, <1>a, <1>b, <2>1 DEF MarkFailureUnsaved, Disturb, TypeOK, storeVars
<1>3. CASE CacheLoadFails(w)
  <2>1. worker' \in [Workers -> BusyStates \cup {Idle}]
    BY <1>3, GotoType DEF CacheLoadFails, Steps
  <2> QED BY <1>3, <1>a, <1>b, <2>1 DEF CacheLoadFails, TypeOK, storeVars
<1>4. ASSUME NEW s \in Sessions, CleanupGetFails(w, s) PROVE TypeOK'
  <2>1. worker' \in [Workers -> BusyStates \cup {Idle}]
    BY <1>4, <1>a, BusyUpdates, BecomeType DEF CleanupGetFails
  <2> QED BY <1>4, <1>b, <2>1 DEF CleanupGetFails, TypeOK, storeVars, history
<1> QED BY <1>1, <1>2, <1>3, <1>4 DEF Fail

LEMMA TypesKept ==
  ASSUME TypeOK, [Next]_vars
  PROVE  TypeOK'
<1>1. ASSUME NEW n \in Nodes, CacheExpires(n) PROVE TypeOK'
  BY <1>1, FaultType DEF CacheExpires, Disturb, TypeOK
<1>2. CASE Restart
  BY <1>2, FaultType DEF Restart, TypeOK, storeVars
<1>3. CASE Requests
  <2>1. sticky' \in [Sessions -> Nodes \cup {NoNode}]
    BY <1>3 DEF Requests, TypeOK
  <2>2. faults' \in 0..MaxFaults
    BY <1>3, FaultType DEF Requests, TypeOK
  <2> QED BY <1>3, <2>1, <2>2 DEF Requests, TypeOK, history
<1>4. CASE UNCHANGED vars
  BY <1>4 DEF TypeOK, vars, storeVars, history
<1> QED BY <1>1, <1>2, <1>3, <1>4, StartTypes, WorkTypes, FailTypes DEF Next, Write

-----------------------------------------------------------------------------
(* A step that has nothing to do with node n.                              *)
SameRedis(n) ==
    /\ rows'[n] = rows[n]
    /\ cache'[n] = cache[n]
    /\ n \in healthyNodes' <=> n \in healthyNodes
    /\ \A r \in Regions : n \in index'[r] <=> n \in index[r]

SameNode(n) ==
    /\ SameRedis(n)
    /\ n \in dirty' <=> n \in dirty
    /\ n \in strayed' <=> n \in strayed
    /\ At(n)' = At(n)
    /\ \A w \in At(n) : worker'[w] = worker[w]

LEMMA SameStored ==
  ASSUME NEW n \in Nodes, rows'[n] = rows[n], cache'[n] = cache[n]
  PROVE  /\ HasRow(n)' <=> HasRow(n)
         /\ Stored(n)' = Stored(n)
         /\ Entries(cache[n])' = Entries(cache[n])
  BY DEF HasRow, Stored, Entries, Region

LEMMA EntriesType ==
  ASSUME NEW row \in Rows \cup {None}
  PROVE  Entries(row) \subseteq Regions
  BY DEF Entries, Region, Rows

LEMMA SameKeeps ==
  ASSUME TypeOK, NEW n \in Nodes, NodeInv(n), SameNode(n)
  PROVE  NodeInv(n)'
<1>0. SameRedis(n) /\ rows'[n] = rows[n] /\ cache'[n] = cache[n]
  BY DEF SameNode, SameRedis
<1>1. HasRow(n)' <=> HasRow(n)
  BY <1>0, SameStored
<1>2. Stored(n)' = Stored(n)
  BY <1>0, SameStored
<1>3. ASSUME NEW w \in At(n)' PROVE WorkerKnows(n, w)'
  <2>1. w \in At(n) /\ worker'[w] = worker[w] /\ At(n)' = At(n)
    BY <1>3 DEF SameNode
  <2>2. WorkerKnows(n, w)
    BY <2>1 DEF NodeInv
  <2> QED BY <1>0, <1>1, <2>1, <2>2 DEF SameNode, WorkerKnows
<1>4. Pending(n)' <=> Pending(n)
  BY DEF SameNode, Pending
<1>5. cache[n] \in Rows \cup {None}
  BY DEF TypeOK
<1>6. RedisKnows(n)'
  <2>1. RedisKnows(n)
    BY DEF NodeInv
  <2>2. \A r \in Entries(cache'[n]) : n \in index'[r]
    BY <1>0, <1>5, <2>1, EntriesType DEF RedisKnows, SameRedis
  <2> QED BY <1>0, <1>2, <1>4, <2>1, <2>2 DEF RedisKnows, SameRedis, SameNode
<1> QED BY <1>3, <1>6 DEF NodeInv

(* A worker that is not the only one at its node: nothing is known.        *)
LEMMA Crowded ==
  ASSUME TypeOK, NEW n \in Nodes, NodeInv(n), NEW w \in At(n), NEW v \in At(n), v # w
  PROVE  n \in dirty /\ n \in strayed /\ ~worker[w].alone /\ ~worker[v].alone
<1>1. WorkerKnows(n, w) /\ WorkerKnows(n, v)
  BY DEF NodeInv
<1>2. At(n) # {w} /\ At(n) # {v}
  OBVIOUS
<1> QED BY <1>1, <1>2 DEF WorkerKnows

(* What it takes that a step of worker w at node m keeps the invariant.    *)
Step(w, m, x) ==
    /\ Become(w, x)
    /\ \A n \in Nodes \ {m} :
          SameRedis(n) /\ (n \in dirty' <=> n \in dirty) /\ (n \in strayed' <=> n \in strayed)
    /\ m \in strayed => m \in strayed'
    /\ (m \in dirty /\ ~worker[w].alone) => m \in dirty'

LEMMA StepAt ==
  ASSUME TypeOK, NEW m \in Nodes, NEW w \in At(m), NEW x, Step(w, m, x),
         x = Idle \/ x.node = m
  PROVE  /\ \A n \in Nodes \ {m} : At(n)' = At(n) /\ \A v \in At(n) : worker'[v] = worker[v]
         /\ At(m)' = IF x = Idle THEN At(m) \ {w} ELSE At(m)
         /\ \A v \in At(m) \ {w} : worker'[v] = worker[v]
         /\ worker'[w] = x
<1>1. w \in Workers /\ worker[w].node = m
  BY AtType
<1>2. worker'[w] = x /\ \A v \in Workers \ {w} : worker'[v] = worker[v]
  BY <1>1 DEF Step, Become, TypeOK
<1>3. Idle.node = NoNode /\ NoNode \notin Nodes
  BY NamesAssumption DEF Idle
<1> QED BY <1>1, <1>2, <1>3 DEF At

LEMMA StepKeeps ==
  ASSUME TypeOK, \A n \in Nodes : NodeInv(n),
         NEW m \in Nodes, NEW w \in At(m), NEW x, Step(w, m, x),
         x = Idle \/ x.node = m,
         x # Idle => WorkerKnows(m, w)',
         RedisKnows(m)'
  PROVE  \A n \in Nodes : NodeInv(n)'
<1>1. ASSUME NEW n \in Nodes, n # m PROVE NodeInv(n)'
  <2>1. SameNode(n)
    BY <1>1, StepAt DEF SameNode, Step
  <2> QED BY <2>1, SameKeeps
<1>2. ASSUME NEW v \in At(m)' PROVE WorkerKnows(m, v)'
  <2>1. CASE v = w
    <3>1. x # Idle
      BY <1>2, <2>1, StepAt
    <3> QED BY <2>1, <3>1
  <2>2. CASE v # w
    <3>1. v \in At(m) /\ worker'[v] = worker[v]
      BY <1>2, <2>2, StepAt
    <3>2. m \in dirty /\ m \in strayed /\ ~worker[w].alone /\ ~worker[v].alone
      BY <2>2, <3>1, Crowded
    <3>3. m \in dirty' /\ m \in strayed' /\ ~worker'[v].alone
      BY <3>1, <3>2 DEF Step
    <3> QED BY <3>3 DEF WorkerKnows
  <2> QED BY <2>1, <2>2
<1> QED BY <1>1, <1>2 DEF NodeInv

LEMMA Knowledge ==
  ASSUME TypeOK, \A n \in Nodes : NodeInv(n), NEW m \in Nodes, NEW w \in At(m)
  PROVE  /\ w \in Workers /\ worker[w] \in BusyStates /\ worker[w].node = m
         /\ worker[w] # Idle /\ worker[w].copy \in Rows
         /\ WorkerKnows(m, w) /\ RedisKnows(m) /\ NodeInv(m)
<1>1. w \in Workers /\ worker[w] \in BusyStates /\ worker[w].node = m
  BY AtType
<1>2. worker[w] # Idle
  BY <1>1, NamesAssumption DEF Idle
<1>3. worker[w].copy \in Rows
  BY <1>1 DEF BusyStates
<1> QED BY <1>1, <1>2, <1>3 DEF NodeInv

LEMMA SaveKeeps ==
  ASSUME TypeOK, \A n \in Nodes : NodeInv(n), NEW m \in Nodes, NEW w \in At(m),
         NEW row \in Rows, Save(w, row)
  PROVE  \A n \in Nodes : NodeInv(n)'
<1> DEFINE x == [worker[w] EXCEPT !.pc = "load", !.copy = row]
<1>1. WorkerKnows(m, w) /\ RedisKnows(m) /\ w \in Workers /\ worker[w].node = m
  BY Knowledge
<1>2. x \in BusyStates /\ x.node = m /\ x.pc = "load" /\ x.copy = row
      /\ x.alone = worker[w].alone
  <2>1. worker[w] \in BusyStates
    BY Knowledge
  <2>2. x \in BusyStates
    BY <2>1, BusyUpdates
  <2>3. x.node = m /\ x.pc = "load" /\ x.copy = row
    BY <1>1, <2>1 DEF BusyStates
  <2>4. x.alone = worker[w].alone
    BY <2>1 DEF BusyStates
  <2> QED BY <2>2, <2>3, <2>4
<1>3. Step(w, m, x)
  BY <1>1 DEF Save, Step, SameRedis, TypeOK, history
<1> HIDE DEF x
<1>4. At(m)' = At(m) /\ worker'[w] = x
  <2>1. x # Idle
    BY <1>2 DEF Idle
  <2> QED BY <1>2, <1>3, <2>1, StepAt
<1>5. rows'[m] = row /\ UNCHANGED <<cache, healthyNodes, index, dirty, strayed>>
  BY <1>1 DEF Save, TypeOK, history
<1>6. WorkerKnows(m, w)'
  BY <1>1, <1>2, <1>4, <1>5 DEF WorkerKnows
<1>7. RedisKnows(m)'
  <2>1. Pending(m)'
    BY <1>2, <1>4 DEF Pending
  <2>2. Entries(cache[m])' = Entries(cache[m])
    BY <1>5
  <2> QED BY <1>1, <1>5, <2>1, <2>2 DEF RedisKnows
<1> QED BY <1>2, <1>3, <1>6, <1>7, StepKeeps

(* Steps that change neither rows nor Redis.                               *)
LEMMA LocalKeeps ==
  ASSUME TypeOK, \A n \in Nodes : NodeInv(n), NEW m \in Nodes, NEW w \in At(m), NEW x,
         Become(w, x), UNCHANGED <<rows, cache, healthyNodes, index>>,
         dirty' = dirty \/ dirty' = dirty \cup {m},
         strayed' = strayed \/ strayed' = strayed \cup {m},
         x = Idle \/ x.node = m,
         x # Idle => WorkerKnows(m, w)',
         (m \notin dirty' /\ worker[w].pc \in {"reread", "load", "exec", "remove"})
            => (x # Idle /\ x.pc \in {"reread", "load", "exec", "remove"})
  PROVE  \A n \in Nodes : NodeInv(n)'
<1>1. Step(w, m, x)
  BY DEF Step, SameRedis
<1>2. /\ At(m)' = IF x = Idle THEN At(m) \ {w} ELSE At(m)
      /\ \A v \in At(m) \ {w} : worker'[v] = worker[v]
      /\ worker'[w] = x
  BY <1>1, StepAt
<1>3. RedisKnows(m)'
  <2>1. RedisKnows(m)
    BY Knowledge
  <2>2. m \notin dirty' /\ Pending(m) => Pending(m)'
    BY <1>2 DEF Pending
  <2>3. Entries(cache[m])' = Entries(cache[m]) /\ Stored(m)' = Stored(m)
    BY DEF Stored, HasRow
  <2> QED BY <2>1, <2>2, <2>3 DEF RedisKnows
<1> QED BY <1>1, <1>3, StepKeeps

LEMMA Fields ==
  ASSUME NEW x \in BusyStates
  PROVE  /\ \A pc \in Steps :
              LET y == [x EXCEPT !.pc = pc] IN
              y.pc = pc /\ y.node = x.node /\ y.copy = x.copy /\ y.prev = x.prev /\ y.alone = x.alone
         /\ \A row \in Rows :
              LET y == [x EXCEPT !.pc = "load", !.copy = row] IN
              y.pc = "load" /\ y.node = x.node /\ y.copy = row /\ y.alone = x.alone
         /\ \A row \in Rows :
              LET y == [x EXCEPT !.pc = "load", !.copy = row, !.alone = FALSE] IN
              y.pc = "load" /\ y.node = x.node /\ y.alone = FALSE
         /\ \A row \in Rows \cup {None} :
              LET y == [x EXCEPT !.pc = "exec", !.prev = row] IN
              y.pc = "exec" /\ y.node = x.node /\ y.copy = x.copy /\ y.prev = row /\ y.alone = x.alone
         /\ \A ss :
              LET y == [x EXCEPT !.pc = "scan", !.todo = ss] IN
              y.pc = "scan" /\ y.node = x.node /\ y.alone = x.alone
         /\ \A ss, hs :
              LET y == [x EXCEPT !.todo = ss, !.hits = hs] IN
              y.pc = x.pc /\ y.node = x.node /\ y.alone = x.alone
         /\ \A ss :
              LET y == [x EXCEPT !.todo = ss] IN
              y.pc = x.pc /\ y.node = x.node /\ y.alone = x.alone
  BY DEF BusyStates

(* The invariant says nothing more of a worker in the cleanup.             *)
LEMMA CleanupKnows ==
  ASSUME TypeOK, \A n \in Nodes : NodeInv(n), NEW m \in Nodes, NEW w \in At(m), NEW x,
         Become(w, x), x \in BusyStates, x.node = m, x.alone = worker[w].alone,
         x.pc \in {"keys", "scan", "unbind"}, UNCHANGED <<dirty, strayed>>
  PROVE  WorkerKnows(m, w)'
<1>1. w \in Workers /\ WorkerKnows(m, w)
  BY Knowledge
<1>2. worker'[w] = x /\ \A v \in Workers \ {w} : worker'[v] = worker[v]
  BY <1>1 DEF Become, TypeOK
<1>3. At(m)' = At(m)
  BY <1>1, <1>2, AtType DEF At
<1> QED BY <1>1, <1>2, <1>3 DEF WorkerKnows

LEMMA CleanupKeeps ==
  ASSUME TypeOK, \A n \in Nodes : NodeInv(n), NEW m \in Nodes, NEW w \in At(m),
         \/ CleanupKeys(w) \/ CleanupEnd(w) \/ CleanupDel(w)
         \/ \E s \in Sessions : CleanupGet(w, s) \/ CleanupGetFails(w, s)
         \/ CleanupFails(w)
  PROVE  \A n \in Nodes : NodeInv(n)'
<1> USE DEF Pc, history, storeVars
<1>1. worker[w] \in BusyStates /\ worker[w].node = m
  BY Knowledge
<1>2. UNCHANGED <<rows, cache, healthyNodes, index, dirty, strayed>>
      /\ worker[w].pc \in {"keys", "scan", "unbind"}
  BY DEF CleanupKeys, CleanupEnd, CleanupDel, CleanupGet, CleanupGetFails, CleanupFails
<1>3. ASSUME NEW x \in BusyStates, x.node = m, x.alone = worker[w].alone,
             x.pc \in {"keys", "scan", "unbind"}, Become(w, x)
      PROVE  \A n \in Nodes : NodeInv(n)'
  BY <1>2, <1>3, CleanupKnows, LocalKeeps
<1>4. ASSUME Become(w, Idle) PROVE \A n \in Nodes : NodeInv(n)'
  BY <1>2, <1>4, LocalKeeps
<1>5. CASE CleanupKeys(w)
  <2> DEFINE ss == {s \in Sessions : sticky[s] # NoNode}
             x == [worker[w] EXCEPT !.pc = "scan", !.todo = ss]
  <2>1. Become(w, x)
    BY <1>5 DEF CleanupKeys
  <2>2. ss \in SUBSET Sessions
    OBVIOUS
  <2> HIDE DEF ss
  <2>3. x \in BusyStates /\ x.node = m /\ x.pc = "scan" /\ x.alone = worker[w].alone
    <3>1. x \in BusyStates
      BY <1>1, <2>2, BusyUpdates
    <3>2. x.node = m /\ x.pc = "scan"
      BY <1>1 DEF BusyStates
    <3>3. x.alone = worker[w].alone
      BY <1>1 DEF BusyStates
    <3> QED BY <3>1, <3>2, <3>3
  <2> QED BY <1>3, <2>1, <2>3
<1>6. CASE CleanupEnd(w)
  <2> DEFINE x == [worker[w] EXCEPT !.pc = "unbind"]
  <2>1. Become(w, Idle) \/ Become(w, x)
    BY <1>6 DEF CleanupEnd, Goto
  <2>2. x \in BusyStates
    BY <1>1, BusyUpdates DEF Steps
  <2>3. x.node = m /\ x.pc = "unbind" /\ x.alone = worker[w].alone
    BY <1>1 DEF BusyStates
  <2> QED BY <1>3, <1>4, <2>1, <2>2, <2>3
<1>7. CASE CleanupDel(w) \/ CleanupFails(w)
  BY <1>4, <1>7 DEF CleanupDel, CleanupFails
<1>8. ASSUME NEW s \in Sessions, CleanupGet(w, s) PROVE \A n \in Nodes : NodeInv(n)'
  <2> DEFINE hs == IF sticky[s] = worker[w].node THEN worker[w].hits \cup {s} ELSE worker[w].hits
             x == [worker[w] EXCEPT !.todo = @ \ {s}, !.hits = hs]
  <2>1. Become(w, x)
    BY <1>8 DEF CleanupGet
  <2>2. hs \in SUBSET Sessions
    BY <1>1 DEF BusyStates
  <2> HIDE DEF hs
  <2>3. x \in BusyStates /\ x.node = m /\ x.pc = worker[w].pc /\ x.alone = worker[w].alone
    <3>1. x \in BusyStates
      BY <1>1, <2>2, BusyUpdates
    <3>2. x.node = m /\ x.pc = worker[w].pc
      BY <1>1 DEF BusyStates
    <3>3. x.alone = worker[w].alone
      BY <1>1 DEF BusyStates
    <3> QED BY <3>1, <3>2, <3>3
  <2> QED BY <1>2, <1>3, <2>1, <2>3
<1>9. ASSUME NEW s \in Sessions, CleanupGetFails(w, s) PROVE \A n \in Nodes : NodeInv(n)'
  <2> DEFINE x == [worker[w] EXCEPT !.todo = @ \ {s}]
  <2>1. Become(w, x)
    BY <1>9 DEF CleanupGetFails
  <2>2. x \in BusyStates /\ x.node = m /\ x.pc = worker[w].pc /\ x.alone = worker[w].alone
    <3>1. x \in BusyStates
      BY <1>1, BusyUpdates
    <3>2. x.node = m /\ x.pc = worker[w].pc
      BY <1>1 DEF BusyStates
    <3>3. x.alone = worker[w].alone
      BY <1>1 DEF BusyStates
    <3> QED BY <3>1, <3>2, <3>3
  <2> QED BY <1>2, <1>3, <2>1, <2>2
<1> QED BY <1>5, <1>6, <1>7, <1>8, <1>9

(* The steps of w at m that read and cache rows.                           *)
LEMMA BecomeAt ==
  ASSUME TypeOK, NEW m \in Nodes, NEW w \in At(m), NEW x, Become(w, x), x.node = m
  PROVE  At(m)' = At(m) /\ worker'[w] = x
<1>1. w \in Workers /\ worker[w].node = m
  BY AtType
<1>2. worker'[w] = x /\ \A v \in Workers \ {w} : worker'[v] = worker[v]
  BY <1>1 DEF Become, TypeOK
<1> QED BY <1>1, <1>2 DEF At

LEMMA RereadKeeps ==
  ASSUME TypeOK, \A n \in Nodes : NodeInv(n), NEW m \in Nodes, NEW w \in At(m), Reread(w)
  PROVE  \A n \in Nodes : NodeInv(n)'
<1>1. worker[w] \in BusyStates /\ worker[w].node = m /\ worker[w].pc = "reread"
      /\ WorkerKnows(m, w)
  BY Knowledge DEF Reread, Pc
<1>2. UNCHANGED <<rows, cache, healthyNodes, index, dirty, strayed>>
  BY DEF Reread, storeVars, history
<1>3. CASE HasRow(m)
  <2> DEFINE x == [worker[w] EXCEPT !.pc = "load", !.copy = rows[m]]
  <2>1. Become(w, x)
    BY <1>1, <1>3 DEF Reread
  <2>2. x.node = m /\ x.pc = "load" /\ x.copy = rows[m]
    BY <1>1 DEF BusyStates
  <2>3. x.alone = worker[w].alone
    BY <1>1 DEF BusyStates
  <2> HIDE DEF x
  <2>4. At(m)' = At(m) /\ worker'[w] = x
    BY <2>1, <2>2, BecomeAt
  <2>5. WorkerKnows(m, w)'
    BY <1>1, <1>2, <2>2, <2>3, <2>4 DEF WorkerKnows
  <2>6. x # Idle
    BY <2>2 DEF Idle
  <2> QED BY <1>2, <2>1, <2>2, <2>5, <2>6, LocalKeeps
<1>4. CASE ~HasRow(m)
  <2>1. m \in dirty
    BY <1>1, <1>4 DEF WorkerKnows
  <2>2. Become(w, Idle)
    BY <1>1, <1>4 DEF Reread
  <2> QED BY <1>2, <2>1, <2>2, LocalKeeps
<1> QED BY <1>3, <1>4

LEMMA CacheLoadKeeps ==
  ASSUME TypeOK, \A n \in Nodes : NodeInv(n), NEW m \in Nodes, NEW w \in At(m),
         CacheLoad(w) \/ CacheLoadFails(w)
  PROVE  \A n \in Nodes : NodeInv(n)'
<1>1. worker[w] \in BusyStates /\ worker[w].node = m /\ worker[w].pc = "load"
      /\ WorkerKnows(m, w)
  BY Knowledge DEF CacheLoad, CacheLoadFails, Pc
<1>2. UNCHANGED <<rows, cache, healthyNodes, index, dirty>>
  BY DEF CacheLoad, CacheLoadFails, storeVars, history
<1>3. PICK prev : /\ worker' = [worker EXCEPT ![w] = [worker[w] EXCEPT !.pc = "exec", !.prev = prev]]
                  /\ \/ prev = cache[m] /\ strayed' = strayed
                     \/ strayed' = strayed \cup {m}
  <2>1. CASE CacheLoad(w)
    BY <1>1, <2>1 DEF CacheLoad, Become, history
  <2>2. CASE CacheLoadFails(w)
    <3>1. [worker[w] EXCEPT !.pc = "exec"] = [worker[w] EXCEPT !.pc = "exec", !.prev = worker[w].prev]
      BY <1>1 DEF BusyStates
    <3> QED BY <1>1, <2>2, <3>1 DEF CacheLoadFails, Goto, Become
  <2> QED BY <2>1, <2>2
<1> DEFINE x == [worker[w] EXCEPT !.pc = "exec", !.prev = prev]
<1>4. x.node = m /\ x.pc = "exec" /\ x.copy = worker[w].copy /\ x.prev = prev
  BY <1>1 DEF BusyStates
<1>5. x.alone = worker[w].alone
  BY <1>1 DEF BusyStates
<1>6. Become(w, x)
  BY <1>3 DEF Become
<1> HIDE DEF x
<1>7. At(m)' = At(m) /\ worker'[w] = x
  BY <1>4, <1>6, BecomeAt
<1>8. WorkerKnows(m, w)'
  BY <1>1, <1>2, <1>3, <1>4, <1>5, <1>7 DEF WorkerKnows
<1>9. x # Idle
  BY <1>4 DEF Idle
<1> QED BY <1>2, <1>3, <1>4, <1>6, <1>8, <1>9, LocalKeeps

LEMMA FailKeeps ==
  ASSUME TypeOK, \A n \in Nodes : NodeInv(n), NEW m \in Nodes, NEW w \in At(m),
         SaveFails(w) \/ CheckRefused(w) \/ CachingFails(w) \/ MarkFailureUnsaved(w)
  PROVE  \A n \in Nodes : NodeInv(n)'
<1>1. worker[w] \in BusyStates /\ worker[w].node = m /\ WorkerKnows(m, w)
      /\ worker[w].copy \in Rows
  BY Knowledge
<1>2. CASE SaveFails(w) \/ CheckRefused(w)
  <2>1. UNCHANGED <<rows, cache, healthyNodes, index, dirty, strayed>>
    BY <1>2 DEF SaveFails, CheckRefused, storeVars, history
  <2>2. Become(w, Idle) /\ worker[w].pc \in {"check", "toggle", "delete"}
    BY <1>2 DEF SaveFails, CheckRefused, Pc
  <2> QED BY <2>1, <2>2, LocalKeeps
<1>3. CASE CachingFails(w)
  <2>1. UNCHANGED <<rows, cache, healthyNodes, index, strayed>> /\ dirty' = dirty \cup {m}
    BY <1>1, <1>3 DEF CachingFails, Disturb, storeVars
  <2>2. Become(w, Idle)
    BY <1>3 DEF CachingFails
  <2> QED BY <2>1, <2>2, LocalKeeps
<1>4. CASE MarkFailureUnsaved(w)
  <2> DEFINE row == MarkFailure(worker[w].copy)
             x == [worker[w] EXCEPT !.pc = "load", !.copy = row, !.alone = FALSE]
  <2>1. UNCHANGED <<rows, cache, healthyNodes, index, strayed>> /\ dirty' = dirty \cup {m}
    BY <1>1, <1>4 DEF MarkFailureUnsaved, Disturb, storeVars
  <2>2. Become(w, x)
    BY <1>4 DEF MarkFailureUnsaved
  <2> HIDE DEF row
  <2>3. x.node = m /\ x.pc = "load"
    BY <1>1 DEF BusyStates
  <2>4. x.alone = FALSE
    BY <1>1 DEF BusyStates
  <2> HIDE DEF x
  <2>5. At(m)' = At(m) /\ worker'[w] = x
    BY <2>2, <2>3, BecomeAt
  <2>6. WorkerKnows(m, w)'
    BY <1>1, <2>1, <2>3, <2>4, <2>5 DEF WorkerKnows
  <2> QED BY <2>1, <2>2, <2>3, <2>6, LocalKeeps
<1> QED BY <1>2, <1>3, <1>4

LEMMA DeleteRowKeeps ==
  ASSUME TypeOK, \A n \in Nodes : NodeInv(n), NEW m \in Nodes, NEW w \in At(m), DeleteRow(w)
  PROVE  \A n \in Nodes : NodeInv(n)'
<1> DEFINE x == [worker[w] EXCEPT !.pc = "remove"]
<1>1. worker[w] \in BusyStates /\ worker[w].node = m /\ worker[w].pc = "delete"
      /\ worker[w].copy \in Rows /\ WorkerKnows(m, w) /\ RedisKnows(m)
  BY Knowledge DEF DeleteRow, Pc
<1>2. /\ UNCHANGED <<cache, healthyNodes, index, dirty, strayed>>
      /\ rows' = [rows EXCEPT ![m] = Deleted]
  BY <1>1 DEF DeleteRow, history
<1>3. Become(w, x)
  BY DEF DeleteRow, Goto
<1>4. x.node = m /\ x.pc = "remove" /\ x.copy = worker[w].copy
  BY <1>1 DEF BusyStates
<1>5. x.alone = worker[w].alone
  BY <1>1 DEF BusyStates
<1> HIDE DEF x
<1>6. At(m)' = At(m) /\ worker'[w] = x
  BY <1>3, <1>4, BecomeAt
<1>7. Step(w, m, x)
  BY <1>2, <1>3 DEF Step, SameRedis, TypeOK
<1>8. rows'[m] = Deleted
  BY <1>2 DEF TypeOK
<1>9. m \notin dirty => cache[m] = worker[w].copy
  <2> HAVE m \notin dirty
  <2>1. worker[w].copy = rows[m] /\ At(m) = {w}
    BY <1>1 DEF WorkerKnows
  <2>2. ~Pending(m)
    BY <1>1, <2>1 DEF Pending
  <2>3. Stored(m) = rows[m]
    BY <1>1, <2>1, HasRowType DEF Stored
  <2> QED BY <1>1, <2>1, <2>2, <2>3 DEF RedisKnows
<1>10. WorkerKnows(m, w)'
  BY <1>1, <1>2, <1>4, <1>5, <1>6, <1>8, <1>9 DEF WorkerKnows
<1>11. RedisKnows(m)'
  <2>1. Pending(m)'
    BY <1>4, <1>6 DEF Pending
  <2>2. Entries(cache[m])' = Entries(cache[m])
    BY <1>2
  <2> QED BY <1>1, <1>2, <2>1, <2>2 DEF RedisKnows
<1> QED BY <1>4, <1>7, <1>10, <1>11, StepKeeps

(* After a transaction the worker is done or cleans up.                    *)
LEMMA AfterExec ==
  ASSUME TypeOK, \A n \in Nodes : NodeInv(n), NEW m \in Nodes, NEW w \in At(m),
         Become(w, Idle) \/ Goto(w, "keys"), Heal(w), strayed \subseteq strayed',
         strayed' \subseteq strayed \cup {m},
         \A n \in Nodes \ {m} : SameRedis(n),
         RedisKnows(m)'
  PROVE  \A n \in Nodes : NodeInv(n)'
<1>1. worker[w] \in BusyStates /\ worker[w].node = m /\ WorkerKnows(m, w)
  BY Knowledge
<1>2. /\ \A n \in Nodes \ {m} : n \in dirty' <=> n \in dirty
      /\ (m \in dirty /\ ~worker[w].alone) => m \in dirty'
      /\ m \notin dirty' => worker[w].alone
  BY <1>1 DEF Heal, WorkerKnows
<1>3. CASE Become(w, Idle)
  <2>1. Step(w, m, Idle)
    BY <1>2, <1>3 DEF Step
  <2> QED BY <2>1, StepKeeps
<1>4. CASE Goto(w, "keys")
  <2> DEFINE x == [worker[w] EXCEPT !.pc = "keys"]
  <2>1. Become(w, x)
    BY <1>4 DEF Goto
  <2>2. x.node = m /\ x.pc = "keys"
    BY <1>1 DEF BusyStates
  <2>3. x.alone = worker[w].alone
    BY <1>1 DEF BusyStates
  <2> HIDE DEF x
  <2>4. At(m)' = At(m) /\ worker'[w] = x
    BY <2>1, <2>2, BecomeAt
  <2>5. Step(w, m, x)
    BY <1>2, <2>1 DEF Step
  <2>6. WorkerKnows(m, w)'
    BY <1>1, <1>2, <2>2, <2>3, <2>4 DEF WorkerKnows
  <2> QED BY <2>2, <2>5, <2>6, StepKeeps
<1> QED BY <1>3, <1>4

LEMMA CacheExecKeeps ==
  ASSUME TypeOK, \A n \in Nodes : NodeInv(n), NEW m \in Nodes, NEW w \in At(m), CacheExec(w)
  PROVE  \A n \in Nodes : NodeInv(n)'
<1> DEFINE row == worker[w].copy  prev == worker[w].prev
<1>1. worker[w].node = m /\ worker[w].pc = "exec" /\ row \in Rows /\ WorkerKnows(m, w)
      /\ RedisKnows(m)
  BY Knowledge DEF CacheExec, Pc
<1>2. /\ cache' = [cache EXCEPT ![m] = row]
      /\ healthyNodes' = IF Usable(row) THEN healthyNodes \cup {m} ELSE healthyNodes \ {m}
      /\ index' = [r \in Regions |->
            IF r \in Entries(row) THEN index[r] \cup {m}
            ELSE IF r \in Entries(prev) THEN index[r] \ {m}
            ELSE index[r]]
      /\ Heal(w) /\ UNCHANGED <<rows, strayed>>
      /\ Become(w, Idle) \/ Goto(w, "keys")
  BY <1>1 DEF CacheExec
<1> HIDE DEF row, prev
<1>3. \A n \in Nodes \ {m} : SameRedis(n)
  BY <1>2 DEF SameRedis, TypeOK
<1>4. cache'[m] = row
  BY <1>2 DEF TypeOK
<1>5. m \notin dirty' => row = rows[m] /\ HasRow(m)'
  <2>1. m \notin dirty' => worker[w].alone
    BY <1>1, <1>2 DEF Heal, WorkerKnows
  <2>2. worker[w].alone => row = rows[m]
    BY <1>1 DEF WorkerKnows, row
  <2>3. row = rows[m] => HasRow(m)'
    BY <1>1, <1>2, HasRowType DEF HasRow
  <2> QED BY <2>1, <2>2, <2>3
<1>6. RedisKnows(m)'
  <2>1. m \in healthyNodes' <=> Usable(row)
    BY <1>2
  <2>2. row # None
    BY <1>1, NamesAssumption
  <2>3. Entries(cache[m])' = Entries(row) /\ Usable(cache[m])' = Usable(row)
    BY <1>4 DEF Entries, Region, Usable
  <2>4. \A r \in Entries(row) : m \in index'[r]
    BY <1>1, <1>2, EntriesType
  <2>5. m \notin strayed' => \A r \in Regions : m \in index'[r] => r \in Entries(row)
    <3> SUFFICES ASSUME m \notin strayed, NEW r \in Regions, m \in index'[r], r \notin Entries(row)
                 PROVE  FALSE
      BY <1>2
    <3>1. prev = cache[m]
      BY <1>1 DEF WorkerKnows, prev
    <3>2. m \in index[r] /\ r \notin Entries(prev)
      BY <1>2
    <3> QED BY <1>1, <3>1, <3>2 DEF RedisKnows
  <2>6. m \notin dirty' => cache'[m] = Stored(m)'
    BY <1>2, <1>4, <1>5 DEF Stored
  <2>7. Usable(row) \in BOOLEAN
    BY DEF Usable
  <2> QED BY <1>4, <2>1, <2>2, <2>3, <2>4, <2>5, <2>6, <2>7 DEF RedisKnows
<1> QED BY <1>2, <1>3, <1>6, AfterExec

LEMMA RemoveKeeps ==
  ASSUME TypeOK, \A n \in Nodes : NodeInv(n), NEW m \in Nodes, NEW w \in At(m), Remove(w)
  PROVE  \A n \in Nodes : NodeInv(n)'
<1>1. worker[w].node = m /\ worker[w].pc = "remove" /\ WorkerKnows(m, w) /\ RedisKnows(m)
  BY Knowledge DEF Remove, Pc
<1>2. /\ cache' = [cache EXCEPT ![m] = None]
      /\ healthyNodes' = healthyNodes \ {m}
      /\ index' = [r \in Regions |->
            IF r \in Entries(worker[w].copy) THEN index[r] \ {m} ELSE index[r]]
      /\ Heal(w) /\ UNCHANGED rows
      /\ strayed' = IF m \in dirty THEN strayed \cup {m} ELSE strayed
      /\ Goto(w, "keys")
  BY <1>1 DEF Remove
<1>3. \A n \in Nodes \ {m} : SameRedis(n)
  BY <1>2 DEF SameRedis, TypeOK
<1>4. cache'[m] = None /\ Entries(cache[m])' = {}
  BY <1>2 DEF TypeOK, Entries
<1>5. m \notin dirty' => Stored(m)' = None
  <2>1. m \notin dirty' => worker[w].alone
    BY <1>1, <1>2 DEF Heal, WorkerKnows
  <2>2. worker[w].alone => rows[m] = Deleted
    BY <1>1 DEF WorkerKnows
  <2> QED BY <1>2, <2>1, <2>2 DEF Stored, HasRow
<1>6. m \notin strayed' => \A r \in Regions : m \notin index'[r]
  <2> SUFFICES ASSUME m \notin strayed', NEW r \in Regions, m \in index'[r]
               PROVE  FALSE
    OBVIOUS
  <2>1. m \notin dirty /\ m \notin strayed
    BY <1>2
  <2>2. cache[m] = worker[w].copy
    BY <1>1, <2>1 DEF WorkerKnows
  <2>3. m \in index[r] /\ r \notin Entries(worker[w].copy)
    BY <1>2
  <2> QED BY <1>1, <2>1, <2>2, <2>3 DEF RedisKnows
<1>7. RedisKnows(m)'
  BY <1>2, <1>4, <1>5, <1>6 DEF RedisKnows
<1> QED BY <1>2, <1>3, <1>7, AfterExec

-----------------------------------------------------------------------------
(* The start of an operation, and the steps that are not of a worker.      *)
LEMMA BeginKeeps ==
  ASSUME TypeOK, \A n \in Nodes : NodeInv(n),
         NEW w \in Workers, NEW n \in Nodes, NEW copy \in Rows,
         NEW pc \in {"check", "toggle", "delete", "reread"}, Begin(w, n, pc, copy),
         \A k \in Nodes \ {n} : rows'[k] = rows[k],
         pc # "reread" => rows'[n] = rows[n],
         pc \in {"check", "delete"} => copy = rows'[n],
         pc \in {"toggle", "reread"} => HasRow(n)',
         pc = "toggle" => copy = [rows'[n] EXCEPT !.disabled = copy.disabled]
  PROVE  \A k \in Nodes : NodeInv(k)'
<1> DEFINE new == [pc |-> pc, node |-> n, copy |-> copy, prev |-> None,
                   todo |-> {}, hits |-> {}, alone |-> At(n) = {}]
<1>1. /\ worker[w] = Idle
      /\ worker' = [v \in Workers |->
            IF v = w THEN new
            ELSE IF v \in At(n) THEN [worker[v] EXCEPT !.alone = FALSE] ELSE worker[v]]
      /\ UNCHANGED <<cache, healthyNodes, index>>
  BY DEF Begin
<1>2. /\ dirty' = IF At(n) = {} THEN dirty ELSE dirty \cup {n}
      /\ strayed' = IF At(n) = {} THEN strayed ELSE strayed \cup {n}
  BY DEF Begin
<1>3. /\ worker'[w] = new
      /\ \A v \in At(n) : worker'[v] = [worker[v] EXCEPT !.alone = FALSE]
      /\ \A v \in Workers \ ({w} \cup At(n)) : worker'[v] = worker[v]
      /\ \A k \in Nodes : w \notin At(k)
  <2>1. \A k \in Nodes : w \notin At(k)
    BY <1>1, NamesAssumption DEF At, Idle
  <2> QED BY <1>1, <2>1 DEF At
<1>4. /\ new.pc = pc /\ new.node = n /\ new.copy = copy
      /\ new.alone <=> At(n) = {}
  OBVIOUS
<1> HIDE DEF new
<1>5. \A v \in At(n) : worker'[v].node = n /\ ~worker'[v].alone
  <2> SUFFICES ASSUME NEW v \in At(n) PROVE worker'[v].node = n /\ ~worker'[v].alone
    OBVIOUS
  <2>1. worker[v] \in BusyStates /\ worker[v].node = n
    BY AtType
  <2> QED BY <1>3, <2>1 DEF BusyStates
<1>6. At(n)' = At(n) \cup {w}
  BY <1>3, <1>4, <1>5 DEF At
<1>7. ASSUME NEW k \in Nodes, k # n PROVE NodeInv(k)'
  <2>1. \A v \in At(k) : v \notin At(n) /\ v # w /\ worker'[v] = worker[v]
    BY <1>3, <1>7 DEF At
  <2>2. At(k)' = At(k)
    BY <1>3, <1>4, <1>5, <1>7, <2>1 DEF At
  <2>3. SameNode(k)
    BY <1>1, <1>2, <1>7, <2>1, <2>2 DEF SameNode, SameRedis
  <2> QED BY <2>3, SameKeeps
<1>8. NodeInv(n)'
  <2>0. RedisKnows(n) /\ Entries(cache[n])' = Entries(cache[n])
    BY <1>1 DEF NodeInv
  <2>1. CASE At(n) = {}
    <3>1. WorkerKnows(n, w)'
      BY <1>3, <1>4, <1>6, <2>1 DEF WorkerKnows
    <3>2. pc # "reread" => Stored(n)' = Stored(n) /\ ~Pending(n)
      BY <2>1 DEF Stored, HasRow, Pending
    <3>3. pc = "reread" => Pending(n)'
      BY <1>3, <1>4, <1>6 DEF Pending
    <3>4. RedisKnows(n)'
      BY <1>1, <1>2, <2>0, <2>1, <3>2, <3>3 DEF RedisKnows
    <3> QED BY <1>6, <2>1, <3>1, <3>4 DEF NodeInv
  <2>2. CASE At(n) # {}
    <3>1. n \in dirty' /\ n \in strayed'
      BY <1>2, <2>2
    <3>2. \A v \in At(n)' : ~worker'[v].alone
      BY <1>3, <1>4, <1>5, <1>6, <2>2
    <3>3. \A v \in At(n)' : WorkerKnows(n, v)'
      BY <3>1, <3>2 DEF WorkerKnows
    <3>4. RedisKnows(n)'
      BY <1>1, <2>0, <3>1 DEF RedisKnows
    <3> QED BY <3>3, <3>4 DEF NodeInv
  <2> QED BY <2>1, <2>2
<1> QED BY <1>7, <1>8

LEMMA StartKeeps ==
  ASSUME TypeOK, \A n \in Nodes : NodeInv(n), NEW w \in Workers, NEW n \in Nodes, Start(w, n)
  PROVE  \A k \in Nodes : NodeInv(k)'
<1>1. CASE StartCheck(w, n)
  BY <1>1, HasRowType, BeginKeeps DEF StartCheck
<1>2. ASSUME NEW disabled \in BOOLEAN, StartToggle(w, n, disabled)
      PROVE  \A k \in Nodes : NodeInv(k)'
  <2> DEFINE copy == [rows[n] EXCEPT !.disabled = disabled]
  <2>1. rows[n] \in Rows /\ HasRow(n) /\ Begin(w, n, "toggle", copy) /\ rows' = rows
    BY <1>2, HasRowType DEF StartToggle
  <2>2. copy \in Rows
    BY <2>1, RowTypes
  <2>3. copy.disabled = disabled
    BY <2>1 DEF Rows
  <2>4. copy = [rows'[n] EXCEPT !.disabled = copy.disabled]
    BY <2>1, <2>3
  <2>5. HasRow(n)'
    BY <2>1 DEF HasRow
  <2> HIDE DEF copy
  <2> QED BY <2>1, <2>2, <2>4, <2>5, BeginKeeps
<1>3. CASE StartDelete(w, n)
  BY <1>3, HasRowType, BeginKeeps DEF StartDelete
<1>4. ASSUME NEW expected \in Regions \cup {Unknown}, Import(w, n, expected)
      PROVE  \A k \in Nodes : NodeInv(k)'
  <2> DEFINE row == IF rows[n] = None THEN NewRow(expected)
                                      ELSE [rows[n] EXCEPT !.expected = expected]
  <2>1. row \in Rows
    <3>1. rows[n] = None \/ rows[n] \in Rows
      BY <1>4 DEF Import, TypeOK
    <3> QED BY <3>1, RowTypes
  <2>2. rows' = [rows EXCEPT ![n] = row] /\ Begin(w, n, "reread", rows'[n])
    BY <1>4 DEF Import
  <2> HIDE DEF row
  <2>3. rows'[n] = row /\ \A k \in Nodes \ {n} : rows'[k] = rows[k]
    BY <2>2 DEF TypeOK
  <2>4. HasRow(n)'
    BY <2>1, <2>3, NamesAssumption DEF HasRow
  <2> QED BY <2>1, <2>2, <2>3, <2>4, BeginKeeps
<1> QED BY <1>1, <1>2, <1>3, <1>4 DEF Start

LEMMA WorkKeeps ==
  ASSUME TypeOK, \A n \in Nodes : NodeInv(n), NEW w \in Workers, Work(w) \/ Fail(w)
  PROVE  \A k \in Nodes : NodeInv(k)'
<1>1. worker[w].pc # "idle"
  BY DEF Work, Fail, Pc, CheckSucceeds, CheckFails, Toggle, Reread, DeleteRow, CacheLoad, CacheExec,
     Remove, CleanupKeys, CleanupGet, CleanupEnd, CleanupDel, SaveFails, CheckRefused, MarkFailureUnsaved,
     CacheLoadFails, CachingFails, CleanupGetFails, CleanupFails
<1>2. PICK m \in Nodes : w \in At(m)
  BY <1>1, BusyType
<1>3. worker[w].copy \in Rows
  BY <1>2, Knowledge
<1>4. CASE CheckSucceeds(w)
  <2>1. PICK place \in Places : Save(w, Probed(worker[w].copy, place))
    BY <1>4 DEF CheckSucceeds
  <2>2. Probed(worker[w].copy, place) \in Rows
    BY <1>3, RowTypes
  <2> QED BY <1>2, <2>1, <2>2, SaveKeeps
<1>5. CASE CheckFails(w) \/ Toggle(w)
  <2>1. PICK row \in Rows : Save(w, row)
    BY <1>3, <1>5, RowTypes DEF CheckFails, Toggle
  <2> QED BY <1>2, <2>1, SaveKeeps
<1> QED BY <1>2, <1>4, <1>5, RereadKeeps, DeleteRowKeeps, CacheLoadKeeps, CacheExecKeeps, RemoveKeeps,
           CleanupKeeps, FailKeeps DEF Work, Fail

LEMMA RestKeeps ==
  ASSUME TypeOK, \A n \in Nodes : NodeInv(n),
         \/ \E n \in Nodes : CacheExpires(n)
         \/ Restart
         \/ Requests
         \/ UNCHANGED vars
  PROVE  \A k \in Nodes : NodeInv(k)'
<1>1. ASSUME NEW n \in Nodes, CacheExpires(n) PROVE \A k \in Nodes : NodeInv(k)'
  <2>1. /\ cache' = [cache EXCEPT ![n] = None] /\ UNCHANGED <<rows, healthyNodes, index, worker>>
        /\ dirty' = dirty \cup {n} /\ strayed' = strayed \cup {n}
    BY <1>1 DEF CacheExpires, Disturb
  <2>2. ASSUME NEW k \in Nodes, k # n PROVE NodeInv(k)'
    <3>1. SameNode(k)
      BY <2>1, <2>2 DEF SameNode, SameRedis, TypeOK, At
    <3> QED BY <3>1, SameKeeps
  <2>3. NodeInv(n)'
    <3>1. cache'[n] = None /\ Entries(cache[n])' = {}
      BY <2>1 DEF TypeOK, Entries
    <3>2. RedisKnows(n)'
      BY <2>1, <3>1 DEF RedisKnows
    <3>3. ASSUME NEW v \in At(n)' PROVE WorkerKnows(n, v)'
      <4>1. v \in At(n) /\ At(n)' = At(n)
        BY <2>1, <3>3 DEF At
      <4>2. WorkerKnows(n, v)
        BY <4>1 DEF NodeInv
      <4> QED BY <2>1, <4>1, <4>2 DEF WorkerKnows, HasRow
    <3> QED BY <3>2, <3>3 DEF NodeInv
  <2> QED BY <2>2, <2>3
<1>2. CASE Restart
  <2>1. /\ worker' = [w \in Workers |-> Idle] /\ UNCHANGED <<rows, cache, healthyNodes, index, strayed>>
        /\ dirty' = dirty \cup {n \in Nodes : At(n) # {}}
    BY <1>2 DEF Restart, storeVars
  <2> SUFFICES ASSUME NEW k \in Nodes PROVE NodeInv(k)'
    OBVIOUS
  <2>2. At(k)' = {}
    BY <2>1, NamesAssumption DEF At, Idle
  <2>3. k \notin dirty' => k \notin dirty /\ At(k) = {}
    BY <2>1
  <2>4. RedisKnows(k)'
    <3>1. RedisKnows(k)
      BY DEF NodeInv
    <3>2. Entries(cache[k])' = Entries(cache[k]) /\ Stored(k)' = Stored(k)
      BY <2>1 DEF Stored, HasRow
    <3>3. k \notin dirty' => ~Pending(k)
      BY <2>3 DEF Pending
    <3> QED BY <2>1, <2>3, <3>1, <3>2, <3>3 DEF RedisKnows
  <2> QED BY <2>2, <2>4 DEF NodeInv
<1>3. CASE \/ Requests
           \/ UNCHANGED vars
  <2>1. UNCHANGED <<rows, cache, healthyNodes, index, worker, dirty, strayed>>
    BY <1>3 DEF Requests, vars, storeVars, history
  <2>2. ASSUME NEW k \in Nodes PROVE SameNode(k)
    BY <2>1 DEF SameNode, SameRedis, At
  <2> QED BY <2>2, SameKeeps
<1> QED BY <1>1, <1>2, <1>3

-----------------------------------------------------------------------------
LEMMA InitInv == Init => IInv
<1> SUFFICES ASSUME Init PROVE IInv
  OBVIOUS
<1>1. TypeOK
  <2>1. rows \in [Nodes -> Rows \cup {None}]
    BY StartAssumption DEF Init
  <2>2. index \in [Regions -> SUBSET Nodes]
    BY DEF Init
  <2>3. sticky \in [Sessions -> Nodes \cup {NoNode}] /\ worker \in [Workers -> BusyStates \cup {Idle}]
    BY DEF Init
  <2> QED BY <2>1, <2>2, <2>3, BoundsAssumption DEF Init, TypeOK
<1>2. ASSUME NEW n \in Nodes PROVE NodeInv(n)
  <2>1. At(n) = {}
    BY NamesAssumption DEF Init, At, Idle
  <2>2. cache[n] = rows[n] /\ rows[n] \in Rows \cup {None}
    BY StartAssumption DEF Init
  <2>3. cache[n] = Stored(n)
    BY <2>2, NamesAssumption DEF Stored, HasRow
  <2>4. \A r \in Regions : n \in index[r] <=> r \in Entries(cache[n])
    BY <2>2 DEF Init
  <2>5. \A r \in Entries(cache[n]) : n \in index[r]
    BY <2>2, <2>4, EntriesType
  <2>6. n \in healthyNodes <=> (cache[n] # None /\ Usable(cache[n]))
    BY <2>2 DEF Init
  <2>7. Usable(cache[n]) \in BOOLEAN
    BY DEF Usable
  <2>8. RedisKnows(n)
    <3>1. cache[n] # None => (n \in healthyNodes) = Usable(cache[n])
      BY <2>6, <2>7
    <3> QED BY <2>3, <2>4, <2>5, <2>6, <3>1 DEF RedisKnows
  <2> QED BY <2>1, <2>8 DEF NodeInv
<1> QED BY <1>1, <1>2 DEF IInv

LEMMA StepInv == IInv /\ [Next]_vars => IInv'
<1> SUFFICES ASSUME IInv, [Next]_vars PROVE IInv'
  OBVIOUS
<1>1. TypeOK /\ \A n \in Nodes : NodeInv(n)
  BY DEF IInv
<1>2. TypeOK'
  BY <1>1, TypesKept
<1>3. \A n \in Nodes : NodeInv(n)'
  BY <1>1, StartKeeps, WorkKeeps, RestKeeps DEF Next, Write
<1> QED BY <1>2, <1>3 DEF IInv

(* The inductive invariant: what every worker knows of its node, and what  *)
(* Redis has of a node that is not dirty, or not strayed.                  *)
THEOREM CacheInvariant == Spec => []IInv
<1> QED BY InitInv, StepInv, PTL DEF Spec

(* The variables keep their types, whatever writers and failures do.       *)
THEOREM CacheTypeOK == Spec => []TypeOK
<1>1. IInv => TypeOK
  BY DEF IInv
<1> QED BY <1>1, CacheInvariant, PTL

(* CacheNode and RemoveNode, run by any number of goroutines: the sets of  *)
(* healthy nodes and of regions cover the rows that are cached.            *)
THEOREM CacheSetsCoverCache == Spec => []SetsCoverCache
<1>1. IInv => SetsCoverCache
  <2> SUFFICES ASSUME IInv, NEW n \in Nodes, cache[n] # None
               PROVE  /\ (n \in healthyNodes) = Usable(cache[n])
                      /\ \A r \in Entries(cache[n]) : n \in index[r]
    BY DEF SetsCoverCache
  <2>1. RedisKnows(n)
    BY DEF IInv, NodeInv
  <2> QED BY <2>1 DEF RedisKnows
<1> QED BY <1>1, CacheInvariant, PTL

(* Redis has the row of the database once the last writer of a node was    *)
(* alone and nothing failed, whatever happened before.                     *)
THEOREM CacheCacheFollowsRow == Spec => []CacheFollowsRow
<1>1. IInv => CacheFollowsRow
  <2> SUFFICES ASSUME IInv, NEW n \in Nodes, n \notin dirty, At(n) = {}
               PROVE  /\ cache[n] = IF HasRow(n) THEN rows[n] ELSE None
                      /\ (n \in healthyNodes) = CachedUsable(n)
    BY DEF CacheFollowsRow
  <2>1. RedisKnows(n)
    BY DEF IInv, NodeInv
  <2>2. cache[n] = Stored(n)
    BY <2>1 DEF RedisKnows, Pending
  <2>3. cache[n] # None => (n \in healthyNodes) = Usable(cache[n])
    BY <2>1 DEF RedisKnows
  <2>4. n \in healthyNodes => cache[n] # None
    BY <2>1 DEF RedisKnows
  <2>5. (n \in healthyNodes) = CachedUsable(n)
    <3>1. CASE cache[n] = None
      BY <2>4, <3>1 DEF CachedUsable
    <3>2. CASE cache[n] # None
      <4>1. Usable(cache[n]) \in BOOLEAN
        BY DEF Usable
      <4>2. CachedUsable(n) <=> Usable(cache[n])
        BY <3>2 DEF CachedUsable
      <4>3. (n \in healthyNodes) <=> Usable(cache[n])
        BY <2>3, <3>2
      <4>4. CachedUsable(n) \in BOOLEAN
        BY DEF CachedUsable
      <4> HIDE DEF CachedUsable
      <4> QED BY <4>2, <4>3, <4>4
    <3> QED BY <3>1, <3>2
  <2> QED BY <2>2, <2>5 DEF Stored
<1> QED BY <1>1, CacheInvariant, PTL

(* No index set keeps an old entry of a node whose writers took turns.     *)
THEOREM CacheIndexExact == Spec => []IndexExact
<1>1. IInv => IndexExact
  <2> SUFFICES ASSUME IInv, NEW n \in Nodes, n \notin strayed, NEW r \in Regions, n \in index[r]
               PROVE  cache[n] # None /\ r \in Entries(cache[n])
    BY DEF IndexExact
  <2>1. r \in Entries(cache[n])
    BY DEF IInv, NodeInv, RedisKnows
  <2> QED BY <2>1 DEF Entries
<1> QED BY <1>1, CacheInvariant, PTL

-----------------------------------------------------------------------------
LEMMA Unwritten ==
  ASSUME NEW n \in Nodes, rows'[n] = rows[n]
  PROVE  KeepsOthers(n)
  BY DEF KeepsOthers

LEMMA CheckColumns ==
  ASSUME NEW row \in Rows
  PROVE  /\ \A d \in Places :
              /\ Probed(row, d).disabled = row.disabled /\ Probed(row, d).expected = row.expected
              /\ Probed(row, d).healthy
         /\ MarkFailure(row).disabled = row.disabled
         /\ MarkFailure(row).expected = row.expected
         /\ (row.healthy /\ ~MarkFailure(row).healthy) => MarkFailure(row).fails = MaxFail
<1>1. \A d \in Places :
         /\ Probed(row, d).disabled = row.disabled /\ Probed(row, d).expected = row.expected
  BY DEF Probed, Rows
<1>2. \A d \in Places : Probed(row, d).healthy
  BY DEF Probed, Rows
<1> DEFINE f == IF row.fails < MaxFail THEN row.fails + 1 ELSE MaxFail
           b == row.healthy /\ f < MaxFail
<1>3. MarkFailure(row) = [row EXCEPT !.fails = f, !.healthy = b]
  BY DEF MarkFailure
<1>4. f \in 0..MaxFail
  BY MaxFailAssumption DEF Rows
<1>5. (row.healthy /\ ~b) => f = MaxFail
  BY <1>4, MaxFailAssumption
<1>6. b \in BOOLEAN
  OBVIOUS
<1> HIDE DEF f, b
<1>7. MarkFailure(row).disabled = row.disabled
  BY <1>3 DEF Rows
<1>8. MarkFailure(row).expected = row.expected /\ MarkFailure(row).fails = f
  BY <1>3 DEF Rows
<1>9. MarkFailure(row).healthy <=> b
  BY <1>3, <1>6 DEF Rows
<1> QED BY <1>1, <1>2, <1>5, <1>7, <1>8, <1>9

LEMMA SaveKeepsOthers ==
  ASSUME IInv, NEW n \in Nodes, \A w \in At(n) : worker[w].alone,
         NEW w \in Workers, CheckSucceeds(w) \/ CheckFails(w) \/ Toggle(w)
  PROVE  KeepsOthers(n)
<1>1. TypeOK /\ \A k \in Nodes : NodeInv(k)
  BY DEF IInv
<1>2. worker[w].pc \in {"check", "toggle"}
  BY DEF CheckSucceeds, CheckFails, Toggle, Pc
<1>3. PICK m \in Nodes : w \in At(m) /\ worker[w].node = m
  BY <1>1, <1>2, BusyType
<1>4. worker[w].copy \in Rows /\ WorkerKnows(m, w)
  BY <1>1, <1>3, Knowledge
<1>5. PICK row \in Rows :
        /\ Save(w, row)
        /\ \/ Pc(w, "check") /\ \E d \in Places : row = Probed(worker[w].copy, d)
           \/ Pc(w, "check") /\ row = MarkFailure(worker[w].copy)
           \/ Pc(w, "toggle") /\ row = worker[w].copy
  BY <1>4, RowTypes DEF CheckSucceeds, CheckFails, Toggle
<1>6. rows' = [rows EXCEPT ![m] = row]
  BY <1>3, <1>5 DEF Save
<1>7. CASE m # n
  <2>1. rows'[n] = rows[n]
    BY <1>1, <1>6, <1>7 DEF TypeOK
  <2> QED BY <2>1, Unwritten
<1>8. CASE m = n
  <2>1. rows'[n] = row /\ w \in At(n) /\ worker[w].alone
    BY <1>1, <1>3, <1>6, <1>8 DEF TypeOK
  <2>2. CASE Pc(w, "check")
    <3>1. worker[w].copy = rows[n] /\ rows[n] \in Rows /\ rows[n] # Deleted
      BY <1>4, <1>8, <2>1, <2>2, NamesAssumption DEF WorkerKnows, Pc
    <3>2. \/ \E d \in Places : row = Probed(rows[n], d)
          \/ row = MarkFailure(rows[n])
      BY <1>5, <2>2, <3>1 DEF Pc
    <3>3. /\ row.disabled = rows[n].disabled /\ row.expected = rows[n].expected
          /\ (rows[n].healthy /\ ~row.healthy) => row.fails = MaxFail
      BY <3>1, <3>2, CheckColumns
    <3> QED BY <2>1, <2>2, <3>1, <3>3 DEF KeepsOthers
  <2>3. CASE Pc(w, "toggle")
    <3>1. HasRow(n) /\ row = [rows[n] EXCEPT !.disabled = worker[w].copy.disabled]
      BY <1>4, <1>5, <1>8, <2>1, <2>3 DEF WorkerKnows, Pc
    <3>2. rows[n] \in Rows /\ rows[n] # Deleted
      BY <1>1, <3>1, HasRowType, NamesAssumption
    <3>3. row.expected = rows[n].expected /\ row.fails = rows[n].fails
          /\ row.detected = rows[n].detected /\ row.country = rows[n].country
      BY <3>1, <3>2 DEF Rows
    <3>4. row.healthy = rows[n].healthy
      BY <3>1, <3>2 DEF Rows
    <3> QED BY <2>1, <2>3, <3>2, <3>3, <3>4 DEF KeepsOthers
  <2> QED BY <1>5, <2>2, <2>3
<1> QED BY <1>7, <1>8

LEMMA ImportKeepsOthers ==
  ASSUME TypeOK, NEW n \in Nodes, NEW w \in Workers, NEW m \in Nodes,
         NEW expected \in Regions \cup {Unknown}, Import(w, m, expected)
  PROVE  KeepsOthers(n)
<1> DEFINE row == IF rows[m] = None THEN NewRow(expected)
                                    ELSE [rows[m] EXCEPT !.expected = expected]
<1>1. rows' = [rows EXCEPT ![m] = row] /\ rows[m] # Deleted
  BY DEF Import
<1>2. CASE m # n
  <2>1. rows'[n] = rows[n]
    BY <1>1, <1>2 DEF TypeOK
  <2> QED BY <2>1, Unwritten
<1>3. CASE m = n /\ rows[n] = None
  BY <1>3 DEF KeepsOthers, HasRow, Import
<1>4. CASE m = n /\ rows[n] # None
  <2>1. rows'[n] = [rows[n] EXCEPT !.expected = expected] /\ rows[n] \in Rows
    BY <1>1, <1>4 DEF TypeOK
  <2>2. rows'[n].fails = rows[n].fails /\ rows'[n].detected = rows[n].detected
        /\ rows'[n].country = rows[n].country
    BY <2>1 DEF Rows
  <2>3. rows'[n].healthy = rows[n].healthy /\ rows'[n].disabled = rows[n].disabled
    BY <2>1 DEF Rows
  <2>4. worker[w] = Idle /\ Pc(w, "reread")'
    BY DEF Import, Begin, Pc
  <2>5. rows[n] # Deleted
    BY <1>1, <1>4
  <2> QED BY <2>2, <2>3, <2>4, <2>5 DEF KeepsOthers
<1> QED BY <1>2, <1>3, <1>4

LEMMA StepKeepsOthers ==
  ASSUME IInv, [Next]_vars, NEW n \in Nodes, \A w \in At(n) : worker[w].alone
  PROVE  KeepsOthers(n)
<1>1. TypeOK
  BY DEF IInv
<1>2. ASSUME NEW w \in Workers, CheckSucceeds(w) \/ CheckFails(w) \/ Toggle(w)
      PROVE  KeepsOthers(n)
  BY <1>2, SaveKeepsOthers
<1>3. ASSUME NEW w \in Workers, NEW m \in Nodes, NEW expected \in Regions \cup {Unknown},
             Import(w, m, expected)
      PROVE  KeepsOthers(n)
  BY <1>1, <1>3, ImportKeepsOthers
<1>4. ASSUME NEW w \in Workers, DeleteRow(w) PROVE KeepsOthers(n)
  <2>1. rows'[n] \in {rows[n], Deleted}
    BY <1>1, <1>4 DEF DeleteRow, TypeOK
  <2> QED BY <2>1 DEF KeepsOthers, HasRow
<1>5. CASE UNCHANGED rows
  BY <1>5, Unwritten
<1>6. ASSUME NEW w \in Workers, NEW m \in Nodes, Start(w, m) PROVE KeepsOthers(n)
  BY <1>3, <1>5, <1>6 DEF Start, StartCheck, StartToggle, StartDelete
<1>7. ASSUME NEW w \in Workers, Work(w) PROVE KeepsOthers(n)
  BY <1>2, <1>4, <1>5, <1>7 DEF Work, Reread, CacheLoad, CacheExec, Remove, CleanupKeys,
     CleanupGet, CleanupEnd, CleanupDel, storeVars
<1>8. ASSUME NEW w \in Workers, Fail(w) PROVE KeepsOthers(n)
  BY <1>5, <1>8 DEF Fail, SaveFails, CheckRefused, MarkFailureUnsaved, CacheLoadFails, CachingFails,
     CleanupGetFails, CleanupFails, storeVars
<1> QED BY <1>5, <1>6, <1>7, <1>8 DEF Next, Write, CacheExpires, Restart, Requests, vars, storeVars

(* A worker alone at a node writes back no stale column and brings no      *)
(* deleted row back.                                                       *)
THEOREM CacheLosesNothingAlone == Spec => LosesNothingAlone
<1>1. IInv /\ [Next]_vars =>
        [\A n \in Nodes : (\A w \in At(n) : worker[w].alone) => KeepsOthers(n)]_vars
  BY StepKeepsOthers
<1> QED BY <1>1, CacheInvariant, PTL DEF Spec, LosesNothingAlone

-----------------------------------------------------------------------------
(* The end of an operation.                                                *)
LEMMA PhaseNat ==
  ASSUME NEW x \in BusyStates
  PROVE  x.pc \in Steps /\ Phase[x.pc] \in Nat \ {0} /\ Idle.pc = "idle" /\ Behind(Idle, x)
<1>1. x.pc \in Steps
  BY DEF BusyStates
<1>2. Phase[x.pc] \in Nat \ {0} /\ Phase["idle"] = 0
  BY <1>1 DEF Phase, Steps
<1>3. Idle.pc = "idle"
  BY DEF Idle
<1>4. Phase[Idle.pc] < Phase[x.pc]
  BY <1>2, <1>3
<1> QED BY <1>1, <1>2, <1>3, <1>4 DEF Behind

(* What a step makes of its worker.                                        *)
LEMMA StepBehind ==
  ASSUME TypeOK, NEW w \in Workers, Work(w) \/ Fail(w)
  PROVE  \E y : worker' = [worker EXCEPT ![w] = y] /\ Behind(y, worker[w])
<1> USE DEF Pc, Goto, Become
<1>1. worker[w].pc # "idle"
  BY DEF Work, Fail, CheckSucceeds, CheckFails, Toggle, Reread, DeleteRow, CacheLoad, CacheExec,
     Remove, CleanupKeys, CleanupGet, CleanupEnd, CleanupDel, SaveFails, CheckRefused, MarkFailureUnsaved,
     CacheLoadFails, CachingFails, CleanupGetFails, CleanupFails
<1>2. PICK x \in BusyStates : x = worker[w]
  BY <1>1, BusyType
<1>3. ASSUME NEW y, worker' = [worker EXCEPT ![w] = y], y = Idle \/ Phase[y.pc] < Phase[x.pc]
      PROVE  \E z : worker' = [worker EXCEPT ![w] = z] /\ Behind(z, worker[w])
  BY <1>2, <1>3, PhaseNat DEF Behind
<1>4. ASSUME NEW row, x.pc \in {"check", "toggle"}, Save(w, row)
      PROVE  \E z : worker' = [worker EXCEPT ![w] = z] /\ Behind(z, worker[w])
  <2>1. PICK y : y = [x EXCEPT !.pc = "load", !.copy = row]
    OBVIOUS
  <2>2. worker' = [worker EXCEPT ![w] = y]
    BY <1>2, <1>4, <2>1 DEF Save
  <2>3. Phase[y.pc] < Phase[x.pc]
    BY <1>2, <1>4, <2>1 DEF Phase, BusyStates
  <2> QED BY <1>3, <2>2, <2>3
<1>5. CASE CheckSucceeds(w) \/ CheckFails(w) \/ Toggle(w)
  BY <1>2, <1>4, <1>5 DEF CheckSucceeds, CheckFails, Toggle
<1>6. ASSUME x.pc \in {"check", "reread", "load", "delete", "exec", "remove", "keys"},
             NEW y, worker' = [worker EXCEPT ![w] = y],
             \/ y = Idle
             \/ \E row : y = [x EXCEPT !.pc = "load", !.copy = row] /\ x.pc = "reread"
             \/ \E row : y = [x EXCEPT !.pc = "load", !.copy = row, !.alone = FALSE] /\ x.pc = "check"
             \/ \E row : y = [x EXCEPT !.pc = "exec", !.prev = row] /\ x.pc = "load"
             \/ y = [x EXCEPT !.pc = "exec"] /\ x.pc = "load"
             \/ y = [x EXCEPT !.pc = "remove"] /\ x.pc = "delete"
             \/ y = [x EXCEPT !.pc = "keys"] /\ x.pc \in {"exec", "remove"}
             \/ \E ss : y = [x EXCEPT !.pc = "scan", !.todo = ss] /\ x.pc = "keys"
      PROVE  \E z : worker' = [worker EXCEPT ![w] = z] /\ Behind(z, worker[w])
  <2>1. \/ y = Idle
        \/ y.pc = "load" /\ x.pc \in {"reread", "check"}
        \/ y.pc = "exec" /\ x.pc = "load"
        \/ y.pc = "remove" /\ x.pc = "delete"
        \/ y.pc = "keys" /\ x.pc \in {"exec", "remove"}
        \/ y.pc = "scan" /\ x.pc = "keys"
    BY <1>6 DEF BusyStates
  <2>2. y = Idle \/ Phase[y.pc] < Phase[x.pc]
    BY <2>1 DEF Phase
  <2> QED BY <1>3, <1>6, <2>2
<1>7. CASE Reread(w)
  BY <1>2, <1>6, <1>7 DEF Reread
<1>8. CASE DeleteRow(w)
  BY <1>2, <1>6, <1>8 DEF DeleteRow
<1>9. CASE CacheLoad(w)
  BY <1>2, <1>6, <1>9 DEF CacheLoad
<1>10. CASE CacheExec(w)
  BY <1>2, <1>6, <1>10 DEF CacheExec
<1>11. CASE Remove(w)
  BY <1>2, <1>6, <1>11 DEF Remove
<1>12. CASE CleanupKeys(w)
  BY <1>2, <1>6, <1>12 DEF CleanupKeys
<1>13. ASSUME NEW s, s \in x.todo, x.pc = "scan", NEW y, worker' = [worker EXCEPT ![w] = y],
              \/ y = [x EXCEPT !.todo = @ \ {s}]
              \/ \E hs : y = [x EXCEPT !.todo = @ \ {s}, !.hits = hs]
       PROVE  \E z : worker' = [worker EXCEPT ![w] = z] /\ Behind(z, worker[w])
  <2>1. y.pc = "scan" /\ y.todo = x.todo \ {s}
    BY <1>13 DEF BusyStates
  <2>2. y.todo \subseteq x.todo /\ y.todo # x.todo
    BY <1>13, <2>1
  <2> QED BY <1>2, <1>13, <2>1, <2>2 DEF Behind
<1>14. ASSUME NEW s \in Sessions, CleanupGet(w, s) \/ CleanupGetFails(w, s)
       PROVE  \E z : worker' = [worker EXCEPT ![w] = z] /\ Behind(z, worker[w])
  <2>1. x.pc = "scan" /\ s \in x.todo
    BY <1>2, <1>14 DEF CleanupGet, CleanupGetFails
  <2>2. CASE CleanupGet(w, s)
    <3>1. PICK hs : worker' = [worker EXCEPT ![w] = [x EXCEPT !.todo = @ \ {s}, !.hits = hs]]
      BY <1>2, <2>2 DEF CleanupGet
    <3> QED BY <1>13, <2>1, <3>1
  <2>3. CASE CleanupGetFails(w, s)
    <3>1. worker' = [worker EXCEPT ![w] = [x EXCEPT !.todo = @ \ {s}]]
      BY <1>2, <2>3 DEF CleanupGetFails
    <3> QED BY <1>13, <2>1, <3>1
  <2> QED BY <1>14, <2>2, <2>3
<1>15. CASE CleanupEnd(w)
  <2>1. PICK y : worker' = [worker EXCEPT ![w] = y] /\ (y = Idle \/ y = [x EXCEPT !.pc = "unbind"])
    BY <1>2, <1>15 DEF CleanupEnd
  <2>2. y = Idle \/ Phase[y.pc] < Phase[x.pc]
    BY <1>2, <1>15, <2>1 DEF CleanupEnd, Phase, BusyStates
  <2> QED BY <1>3, <2>1, <2>2
<1>16. CASE CleanupDel(w) \/ SaveFails(w) \/ CheckRefused(w) \/ CachingFails(w) \/ CleanupFails(w)
  BY <1>3, <1>16 DEF CleanupDel, SaveFails, CheckRefused, CachingFails, CleanupFails
<1>17. CASE MarkFailureUnsaved(w)
  BY <1>2, <1>6, <1>17 DEF MarkFailureUnsaved
<1>18. CASE CacheLoadFails(w)
  BY <1>2, <1>6, <1>18 DEF CacheLoadFails
<1> QED BY <1>5, <1>7, <1>8, <1>9, <1>10, <1>11, <1>12, <1>14, <1>15, <1>16, <1>17, <1>18 DEF Work, Fail

(* What a step of another makes of it.                                     *)
LEMMA OthersLeave ==
  ASSUME TypeOK, [Next]_vars, NEW w \in Workers, worker[w] # Idle
  PROVE  \/ worker'[w] \in {worker[w], [worker[w] EXCEPT !.alone = FALSE]}
         \/ Behind(worker'[w], worker[w])
<1>1. worker \in [Workers -> BusyStates \cup {Idle}] /\ worker[w] \in BusyStates
  BY DEF TypeOK
<1>2. ASSUME NEW v \in Workers, NEW n \in Nodes, Start(v, n)
      PROVE  worker'[w] \in {worker[w], [worker[w] EXCEPT !.alone = FALSE]}
  <2>1. PICK pc, copy : Begin(v, n, pc, copy)
    BY <1>2 DEF Start, StartCheck, StartToggle, StartDelete, Import
  <2>2. v # w
    BY <2>1 DEF Begin
  <2> QED BY <2>1, <2>2 DEF Begin
<1>3. ASSUME NEW v \in Workers, Work(v) \/ Fail(v)
      PROVE  worker'[w] = worker[w] \/ Behind(worker'[w], worker[w])
  <2>1. PICK y : worker' = [worker EXCEPT ![v] = y] /\ Behind(y, worker[v])
    BY <1>3, StepBehind
  <2> QED BY <1>1, <2>1
<1>4. CASE Restart
  <2>1. worker'[w] = Idle
    BY <1>4 DEF Restart
  <2> QED BY <1>1, <2>1, PhaseNat
<1>5. CASE (\E n \in Nodes : CacheExpires(n)) \/ Requests \/ UNCHANGED vars
  BY <1>5 DEF CacheExpires, Requests, vars
<1> QED BY <1>2, <1>3, <1>4, <1>5 DEF Next, Write

(* Every check, edit and import ends by itself, for any number of workers  *)
(* and failures: each of its steps leaves it less to do, and nothing that  *)
(* the others or the requests do gives it more.                            *)
THEOREM CacheWritersAdvance == Spec => WritersAdvance
<1>1. ASSUME TypeOK, Next, NEW w \in Workers
      PROVE  /\ Work(w) \/ Fail(w) => Behind(worker'[w], worker[w])
             /\ worker[w] # Idle =>
                  \/ worker'[w] \in {worker[w], [worker[w] EXCEPT !.alone = FALSE]}
                  \/ Behind(worker'[w], worker[w])
  <2>1. ASSUME Work(w) \/ Fail(w) PROVE Behind(worker'[w], worker[w])
    <3>1. PICK y : worker' = [worker EXCEPT ![w] = y] /\ Behind(y, worker[w])
      BY <1>1, <2>1, StepBehind
    <3>2. worker'[w] = y
      BY <1>1, <3>1 DEF TypeOK
    <3> QED BY <3>1, <3>2
  <2> QED BY <1>1, <2>1, OthersLeave
<1>2. TypeOK /\ Next =>
        \A w \in Workers :
          /\ Work(w) \/ Fail(w) => Behind(worker'[w], worker[w])
          /\ worker[w] # Idle =>
               \/ worker'[w] \in {worker[w], [worker[w] EXCEPT !.alone = FALSE]}
               \/ Behind(worker'[w], worker[w])
  BY <1>1
<1> QED BY <1>2, CacheTypeOK, PTL DEF Spec, WritersAdvance
=============================================================================
