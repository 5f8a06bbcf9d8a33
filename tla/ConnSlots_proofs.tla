-------------------------- MODULE ConnSlots_proofs --------------------------
(***************************************************************************)
(* Theorems about ConnSlots for every finite set of requests, every set of *)
(* limits, and every bound on failures and edits.                          *)
(***************************************************************************)
EXTENDS ConnSlots, FiniteSetTheorems, TLAPS

(* The steps, by what they do to the slots.                                *)
Quiet == UNCHANGED <<count, leaked, disturbed, Claims>>

Takes(r) ==
    /\ r \in Requests \ Claims /\ Claims' = Claims \cup {r}
    /\ count' = count + 1
    /\ UNCHANGED <<leaked, disturbed>>

Gives(r) ==
    /\ r \in Claims /\ Claims' = Claims \ {r}
    /\ count' = count - 1
    /\ UNCHANGED <<leaked, disturbed>>

Leaks(r) ==
    /\ r \in Claims /\ Claims' = Claims \ {r}
    /\ leaked' = leaked + 1
    /\ UNCHANGED <<count, disturbed>>

LeaksUnseen ==
    /\ count' = count + 1 /\ leaked' = leaked + 1
    /\ UNCHANGED <<Claims, disturbed>>

Wipes ==
    /\ count' = 0 /\ leaked' = 0
    /\ disturbed' = (disturbed \/ Claims' # {})
    /\ Claims' \subseteq Claims

Stops ==
    /\ Claims' = {} /\ leaked' = leaked + Cardinality(Claims)
    /\ UNCHANGED <<count, disturbed>>

-----------------------------------------------------------------------------
LEMMA ClaimsFinite ==
  /\ IsFiniteSet(Claims) /\ Cardinality(Claims) \in Nat
  /\ Holders \subseteq Claims /\ IsFiniteSet(Holders) /\ Cardinality(Holders) \in Nat
  /\ Cardinality(Holders) <= Cardinality(Claims)
<1>1. Claims \subseteq Requests /\ Holders \subseteq Claims
  BY DEF Claims, Holders
<1>2. IsFiniteSet(Claims)
  BY <1>1, RequestsAssumption, FS_Subset
<1>3. IsFiniteSet(Holders) /\ Cardinality(Holders) <= Cardinality(Claims)
  BY <1>1, <1>2, FS_Subset
<1> QED BY <1>1, <1>2, <1>3, FS_CardinalityType

LEMMA ClaimsFiniteNext ==
  /\ IsFiniteSet(Claims') /\ Cardinality(Claims') \in Nat
  /\ Holders' \subseteq Claims' /\ IsFiniteSet(Holders') /\ Cardinality(Holders') \in Nat
  /\ Cardinality(Holders') <= Cardinality(Claims')
<1>1. Claims' \subseteq Requests /\ Holders' \subseteq Claims'
  BY DEF Claims, Holders
<1>2. IsFiniteSet(Claims')
  BY <1>1, RequestsAssumption, FS_Subset
<1>3. IsFiniteSet(Holders') /\ Cardinality(Holders') <= Cardinality(Claims')
  BY <1>1, <1>2, FS_Subset
<1> QED BY <1>1, <1>2, <1>3, FS_CardinalityType

(* Types are kept by every step.                                           *)
LEMMA TypesKept ==
  ASSUME TypeOK, [Next]_vars
  PROVE  TypeOK'
<1> USE DEF TypeOK, RequestStates, Steps, Contexts
<1>1. ASSUME Fault PROVE faults' \in 0..MaxFaults
  BY <1>1, BoundsAssumption DEF Fault
<1>2. ASSUME Edit PROVE edits' \in 0..MaxEdits
  BY <1>2, BoundsAssumption DEF Edit
<1>3. ASSUME NEW r \in Requests, Arrive(r) PROVE TypeOK'
  <2>1. req' \in [Requests -> RequestStates]
    <3>1. CASE Authenticate(r)
      <4>1. maxConcurrency \in Limits
        BY <3>1 DEF Authenticate
      <4> QED BY <3>1, <4>1 DEF Authenticate
    <3>2. CASE Cancel(r)
      BY <3>2 DEF Cancel
    <3>3. CASE Serve(r)
      <4>1. PICK ctx \in {req[r].ctx, "detached"} :
              req' = [req EXCEPT ![r] = [@ EXCEPT !.pc = "exchange", !.ctx = ctx]]
        BY <3>3 DEF Serve
      <4>2. ctx \in Contexts
        OBVIOUS
      <4> QED BY <4>1, <4>2
    <3>4. CASE Return(r)
      BY <3>4 DEF Return, Goto
    <3> QED BY <1>3, <3>1, <3>2, <3>3, <3>4 DEF Arrive
  <2> QED BY <1>3, <2>1 DEF Arrive, Authenticate, Cancel, Serve, Return
<1>4. ASSUME NEW r \in Requests, Handle(r) PROVE TypeOK'
  <2>1. req' \in [Requests -> RequestStates]
    <3>1. ASSUME NEW pc \in Steps, Goto(r, pc) PROVE req' \in [Requests -> RequestStates]
      BY <3>1 DEF Goto
    <3> QED BY <1>4, <3>1 DEF Handle, Acquire, AcquireFails, AcquireReplyLost, TakeBack,
           TakeBackFails, ReleaseRead, ReleaseDel, ReleaseDecr, ReleaseFails
  <2>2. faults' \in 0..MaxFaults
    BY <1>1, <1>4 DEF Handle, Acquire, AcquireFails, AcquireReplyLost, TakeBack,
       TakeBackFails, ReleaseRead, ReleaseDel, ReleaseDecr, ReleaseFails, Sent, Failed
  <2>3. count' \in Int /\ leaked' \in Nat
    BY <1>4 DEF Handle, Acquire, AcquireFails, AcquireReplyLost, TakeBack,
       TakeBackFails, ReleaseRead, ReleaseDel, ReleaseDecr, ReleaseFails, Delete
  <2>4. disturbed' \in BOOLEAN
    BY <1>4 DEF Handle, Acquire, AcquireFails, AcquireReplyLost, TakeBack,
       TakeBackFails, ReleaseRead, ReleaseDel, ReleaseDecr, ReleaseFails, Delete
  <2>5. UNCHANGED <<maxConcurrency, cleaning, edits>>
    BY <1>4 DEF Handle, Acquire, AcquireFails, AcquireReplyLost, TakeBack,
       TakeBackFails, ReleaseRead, ReleaseDel, ReleaseDecr, ReleaseFails
  <2> QED BY <2>1, <2>2, <2>3, <2>4, <2>5
<1>5. CASE Administrate
  <2>1. CASE \E limit \in Limits : SaveUser(limit)
    BY <1>2, <2>1 DEF SaveUser
  <2>2. CASE DeleteUser
    BY <1>2, <2>2 DEF DeleteUser
  <2>3. CASE CleanupUserRuntime
    <3>1. count' = 0 /\ leaked' = 0
      BY <2>3 DEF CleanupUserRuntime, Delete
    <3>2. disturbed' \in BOOLEAN
      BY <2>3 DEF CleanupUserRuntime, Delete
    <3>3. cleaning' \in Nat /\ UNCHANGED <<maxConcurrency, req, faults, edits>>
      BY <2>3 DEF CleanupUserRuntime
    <3> QED BY <3>1, <3>2, <3>3
  <2>4. CASE CleanupFails
    BY <1>1, <2>4 DEF CleanupFails
  <2> QED BY <1>5, <2>1, <2>2, <2>3, <2>4 DEF Administrate
<1>6. CASE Restart
  <2>1. req' \in [Requests -> RequestStates]
    BY <1>6 DEF Restart
  <2>2. leaked' \in Nat
    <3>1. leaked' = leaked + Cardinality(Claims)
      BY <1>6 DEF Restart
    <3> QED BY <3>1, ClaimsFinite
  <2>3. faults' \in 0..MaxFaults
    BY <1>1, <1>6 DEF Restart
  <2> QED BY <1>6, <2>1, <2>2, <2>3 DEF Restart
<1>7. CASE UNCHANGED vars
  BY <1>7 DEF vars
<1> QED BY <1>3, <1>4, <1>5, <1>6, <1>7 DEF Next

-----------------------------------------------------------------------------
(* Every step is one of the seven kinds.                                   *)
LEMMA GotoClaims ==
  ASSUME TypeOK, NEW r \in Requests, NEW pc \in Steps, Goto(r, pc)
  PROVE  Claims' = IF pc \in {"over", "pick", "exchange", "get", "del", "decr"}
                     THEN Claims \cup {r} ELSE Claims \ {r}
  BY DEF Goto, Claims, TypeOK, RequestStates, Steps

LEMMA HandlerKinds ==
  ASSUME TypeOK, NEW r \in Requests, Arrive(r) \/ Handle(r)
  PROVE  Quiet \/ Takes(r) \/ Gives(r) \/ Leaks(r) \/ LeaksUnseen \/ Wipes
<1> USE DEF Steps
<1>1. CASE Authenticate(r) \/ Cancel(r)
  <2>1. Claims' = Claims
    BY <1>1 DEF Authenticate, Cancel, Claims, TypeOK, RequestStates
  <2> QED BY <1>1, <2>1 DEF Authenticate, Cancel, Quiet
<1>2. CASE Serve(r)
  <2>1. Claims' = Claims
    BY <1>2 DEF Serve, Claims, TypeOK, RequestStates
  <2> QED BY <1>2, <2>1 DEF Serve, Quiet
<1>3. CASE Return(r)
  BY <1>3, GotoClaims DEF Return, Claims, Quiet
<1>4. CASE Acquire(r)
  <2>1. Claims' = Claims \cup {r}
    BY <1>4, GotoClaims DEF Acquire
  <2> QED BY <1>4, <2>1 DEF Acquire, Claims, Takes
<1>5. CASE AcquireFails(r)
  BY <1>5, GotoClaims DEF AcquireFails, Claims, Quiet
<1>6. CASE AcquireReplyLost(r)
  BY <1>6, GotoClaims DEF AcquireReplyLost, Claims, LeaksUnseen
<1>7. CASE TakeBack(r)
  BY <1>7, GotoClaims DEF TakeBack, Claims, Gives
<1>8. CASE TakeBackFails(r)
  BY <1>8, GotoClaims DEF TakeBackFails, Claims, Leaks
<1>9. CASE ReleaseRead(r)
  BY <1>9, GotoClaims DEF ReleaseRead, Claims, Quiet
<1>10. CASE ReleaseDel(r)
  BY <1>10, GotoClaims DEF ReleaseDel, Delete, Wipes
<1>11. CASE ReleaseDecr(r)
  BY <1>11, GotoClaims DEF ReleaseDecr, Claims, Gives
<1>12. CASE ReleaseFails(r)
  BY <1>12, GotoClaims DEF ReleaseFails, Claims, Leaks
<1> QED BY <1>1, <1>2, <1>3, <1>4, <1>5, <1>6, <1>7, <1>8, <1>9, <1>10, <1>11, <1>12
        DEF Arrive, Handle

LEMMA Kinds ==
  ASSUME TypeOK, [Next]_vars
  PROVE  \/ Quiet \/ LeaksUnseen \/ Wipes \/ Stops
         \/ \E r \in Requests : Takes(r) \/ Gives(r) \/ Leaks(r)
<1>1. CASE \E r \in Requests : Arrive(r) \/ Handle(r)
  BY <1>1, HandlerKinds
<1>2. CASE Administrate
  <2>1. Claims' = Claims
    BY <1>2 DEF Administrate, SaveUser, DeleteUser, CleanupUserRuntime,
       CleanupFails, Claims
  <2> QED BY <1>2, <2>1 DEF Administrate, SaveUser, DeleteUser, CleanupUserRuntime, CleanupFails, Delete,
          Quiet, Wipes
<1>3. CASE Restart
  <2>1. Claims' = {}
    BY <1>3 DEF Restart, Claims, TypeOK, RequestStates, Steps
  <2> QED BY <1>3, <2>1 DEF Restart, Stops
<1>4. CASE UNCHANGED vars
  BY <1>4 DEF vars, Quiet, Claims
<1> QED BY <1>1, <1>2, <1>3, <1>4 DEF Next

(* The counter against the slots.                                          *)
LEMMA CountKept ==
  ASSUME IInv, [Next]_vars
  PROVE  NeverOvercounted' /\ ExactUnlessDisturbed'
<1> DEFINE C == Cardinality(Claims)
           D == Cardinality(Claims')
<1>1. C \in Nat /\ D \in Nat /\ count \in Int /\ leaked \in Nat /\ IsFiniteSet(Claims)
  BY ClaimsFinite, ClaimsFiniteNext DEF IInv, TypeOK
<1>2. count <= C + leaked /\ (~disturbed => count = C + leaked)
  BY DEF IInv, NeverOvercounted, ExactUnlessDisturbed
<1>3. SUFFICES count' <= D + leaked' /\ (~disturbed' => count' = D + leaked')
  BY DEF NeverOvercounted, ExactUnlessDisturbed
<1>4. CASE Quiet
  BY <1>1, <1>2, <1>4 DEF Quiet
<1>5. CASE LeaksUnseen
  BY <1>1, <1>2, <1>5 DEF LeaksUnseen
<1>6. CASE Wipes
  <2>1. ~disturbed' => Claims' = {}
    BY <1>6 DEF Wipes
  <2>2. ~disturbed' => D = 0
    BY <2>1, FS_EmptySet
  <2> QED BY <1>1, <1>6, <2>2 DEF Wipes
<1>7. CASE Stops
  <2>1. D = 0
    BY <1>7, FS_EmptySet DEF Stops
  <2> QED BY <1>1, <1>2, <1>7, <2>1 DEF Stops
<1>8. ASSUME NEW r \in Requests, Takes(r)
      PROVE  count' <= D + leaked' /\ (~disturbed' => count' = D + leaked')
  <2>1. D = C + 1
    BY <1>1, <1>8, FS_AddElement DEF Takes
  <2> QED BY <1>1, <1>2, <1>8, <2>1 DEF Takes
<1>9. ASSUME NEW r \in Requests, Gives(r) \/ Leaks(r)
      PROVE  count' <= D + leaked' /\ (~disturbed' => count' = D + leaked')
  <2>1. D = C - 1
    BY <1>1, <1>9, FS_RemoveElement DEF Gives, Leaks
  <2> QED BY <1>1, <1>2, <1>9, <2>1 DEF Gives, Leaks
<1>10. TypeOK
  BY DEF IInv
<1> QED BY <1>4, <1>5, <1>6, <1>7, <1>8, <1>9, <1>10, Kinds

LEMMA InitIInv == Init => IInv
<1> SUFFICES ASSUME Init PROVE IInv
  OBVIOUS
<1>1. Claims = {}
  BY DEF Init, Claims
<1>2. Cardinality(Claims) = 0
  BY <1>1, FS_EmptySet
<1>3. maxConcurrency \in Limits
  BY DEF Init
<1>4. TypeOK
  <2>1. req \in [Requests -> RequestStates]
    BY <1>3 DEF Init, RequestStates, Steps, Contexts
  <2>2. count \in Int /\ faults \in 0..MaxFaults /\ edits \in 0..MaxEdits /\ leaked \in Nat
    BY BoundsAssumption DEF Init
  <2>3. cleaning \in Nat /\ disturbed \in BOOLEAN
    BY DEF Init
  <2> QED BY <1>3, <2>1, <2>2, <2>3 DEF TypeOK
<1> QED BY <1>2, <1>4 DEF Init, IInv, NeverOvercounted, ExactUnlessDisturbed

(* The inductive invariant: types, and the counter against the slots.      *)
THEOREM SlotsInvariant == Spec => []IInv
<1>1. IInv /\ [Next]_vars => IInv'
  BY TypesKept, CountKept DEF IInv
<1> QED BY <1>1, InitIInv, PTL DEF Spec

(* The variables of ConnSlots have their types: the counter may be any     *)
(* integer.                                                                *)
THEOREM SlotsTypeOK == Spec => []TypeOK
<1>1. IInv => TypeOK
  BY DEF IInv
<1> QED BY <1>1, SlotsInvariant, PTL

(* The counter is exact until a DEL hits the slot of another request.      *)
THEOREM SlotsExactUnlessDisturbed == Spec => []ExactUnlessDisturbed
<1>1. IInv => ExactUnlessDisturbed
  BY DEF IInv
<1> QED BY <1>1, SlotsInvariant, PTL

-----------------------------------------------------------------------------
(* Only Acquire makes a holder, and only where the limit allows it.        *)
LEMMA NewHolder ==
  ASSUME TypeOK, [Next]_vars, NEW r \in Requests, r \in Holders' \ Holders
  PROVE  /\ Takes(r)
         /\ req[r].limit > 0 => count + 1 <= req[r].limit
<1>1. req[r].pc \notin {"pick", "exchange"} /\ req'[r].pc \in {"pick", "exchange"}
  BY DEF Holders
<1>2. Acquire(r)
  <2>1. \A q \in Requests : Arrive(q) \/ Handle(q) => (q = r /\ Acquire(r))
    <3> SUFFICES ASSUME NEW q \in Requests, Arrive(q) \/ Handle(q) PROVE q = r /\ Acquire(r)
      OBVIOUS
    <3>1. \A pc \in Steps : Goto(q, pc) => (q = r /\ pc \in {"pick", "exchange"})
      BY <1>1 DEF Goto, TypeOK, RequestStates, Steps
    <3>2. ~Authenticate(q)
      BY <1>1 DEF Authenticate, TypeOK, RequestStates
    <3>3. ~Cancel(q)
      BY <1>1 DEF Cancel, TypeOK, RequestStates
    <3>4. ~Serve(q)
      BY <1>1 DEF Serve, TypeOK, RequestStates
    <3> QED BY <3>1, <3>2, <3>3, <3>4 DEF Arrive, Handle, Return, Acquire, AcquireFails,
            AcquireReplyLost, TakeBack, TakeBackFails, ReleaseRead, ReleaseDel, ReleaseDecr,
            ReleaseFails, Steps
  <2>2. ~Administrate
    BY <1>1 DEF Administrate, SaveUser, DeleteUser, CleanupUserRuntime, CleanupFails
  <2>3. ~Restart
    BY <1>1 DEF Restart, TypeOK, RequestStates
  <2>4. vars' # vars
    BY <1>1 DEF vars
  <2> QED BY <2>1, <2>2, <2>3, <2>4 DEF Next
<1>3. Claims' = Claims \cup {r}
  BY <1>2, GotoClaims DEF Acquire, Steps
<1>4. Takes(r)
  BY <1>2, <1>3 DEF Acquire, Claims, Takes
<1>5. ~Exceeds(req[r].limit, count + 1)
  BY <1>1, <1>2 DEF Acquire, Goto, TypeOK, RequestStates
<1>6. count \in Int /\ req[r].limit \in Nat
  BY LimitsAssumption DEF TypeOK, RequestStates
<1> QED BY <1>4, <1>5, <1>6 DEF Exceeds

(* A request is admitted only below its limit, unless a DEL has hit the    *)
(* slot of another one: the counter is exact, and covers the holders.      *)
THEOREM SlotsAdmittedWithinLimit == Spec => AdmittedWithinLimit
<1> DEFINE Allowed == \A r \in Requests :
         (~disturbed /\ r \in Holders' \ Holders /\ req[r].limit > 0)
            => Cardinality(Holders') <= req[r].limit
<1>1. IInv /\ [Next]_vars => Allowed
  <2> SUFFICES ASSUME IInv, [Next]_vars, NEW r \in Requests,
                      ~disturbed, r \in Holders' \ Holders, req[r].limit > 0
               PROVE  Cardinality(Holders') <= req[r].limit
    OBVIOUS
  <2>1. Takes(r) /\ count + 1 <= req[r].limit
    BY NewHolder DEF IInv
  <2>2. count = Cardinality(Claims) + leaked
    BY DEF IInv, ExactUnlessDisturbed
  <2>3. Cardinality(Claims') = Cardinality(Claims) + 1
    BY <2>1, ClaimsFinite, FS_AddElement DEF Takes
  <2>4. count \in Int /\ leaked \in Nat /\ req[r].limit \in Nat
    BY LimitsAssumption DEF IInv, TypeOK, RequestStates
  <2> QED BY <2>1, <2>2, <2>3, <2>4, ClaimsFinite, ClaimsFiniteNext
<1> QED BY <1>1, SlotsInvariant, PTL DEF Spec, AdmittedWithinLimit

(* A request is refused for concurrency only when the slots of others and  *)
(* the leaked ones reach its limit: the counter never exceeds their sum.   *)
THEOREM SlotsRefusedOnlyWhenFull == Spec => RefusedOnlyWhenFull
<1> DEFINE Full == \A r \in Requests :
         (req[r].pc = "acquire" /\ req'[r].pc = "over")
            => Cardinality(Claims) + leaked >= req[r].limit
<1>1. IInv /\ [Next]_vars => Full
  <2> SUFFICES ASSUME IInv, [Next]_vars, NEW r \in Requests,
                      req[r].pc = "acquire", req'[r].pc = "over"
               PROVE  Cardinality(Claims) + leaked >= req[r].limit
    OBVIOUS
  <2> USE DEF IInv
  <2>1. Acquire(r)
    <3>1. \A q \in Requests : Arrive(q) \/ Handle(q) => (q = r /\ Acquire(r))
      <4> SUFFICES ASSUME NEW q \in Requests, Arrive(q) \/ Handle(q)
                   PROVE  q = r /\ Acquire(r)
        OBVIOUS
      <4>1. \A pc \in Steps : Goto(q, pc) => (q = r /\ pc = "over")
        BY DEF Goto, TypeOK, RequestStates, Steps
      <4>2. ~Authenticate(q) /\ ~Cancel(q) /\ ~Serve(q)
        BY DEF Authenticate, Cancel, Serve, TypeOK, RequestStates
      <4> QED BY <4>1, <4>2 DEF Arrive, Handle, Return, Acquire, AcquireFails,
              AcquireReplyLost, TakeBack, TakeBackFails, ReleaseRead, ReleaseDel,
              ReleaseDecr, ReleaseFails, Steps
    <3>2. ~Administrate
      BY DEF Administrate, SaveUser, DeleteUser, CleanupUserRuntime, CleanupFails
    <3>3. ~Restart
      BY DEF Restart, TypeOK, RequestStates
    <3>4. vars' # vars
      BY DEF vars
    <3> QED BY <3>1, <3>2, <3>3, <3>4 DEF Next
  <2>2. Exceeds(req[r].limit, count + 1)
    BY <2>1 DEF Acquire, Goto, TypeOK, RequestStates
  <2>3. count \in Int /\ leaked \in Nat /\ req[r].limit \in Nat
    BY LimitsAssumption DEF TypeOK, RequestStates
  <2> QED BY <2>2, <2>3, ClaimsFinite DEF NeverOvercounted, Exceeds
<1> QED BY <1>1, SlotsInvariant, PTL DEF Spec, RefusedOnlyWhenFull

(* Release chooses DEL only for the last slot: the counter it read is      *)
(* exact and at most 1, and its own slot is one.                           *)
THEOREM SlotsDeletesLastSlot == Spec => DeletesLastSlot
<1> DEFINE Last == \A r \in Requests :
         (/\ req[r].pc = "get" /\ req'[r].pc = "del"
          /\ req[r].ctx # "cancelled" /\ UNCHANGED faults
          /\ ~disturbed) => Claims = {r}
<1>1. IInv /\ [Next]_vars => Last
  <2> SUFFICES ASSUME IInv, [Next]_vars, NEW r \in Requests,
                      req[r].pc = "get", req'[r].pc = "del",
                      req[r].ctx # "cancelled", UNCHANGED faults, ~disturbed
               PROVE  Claims = {r}
    OBVIOUS
  <2> USE DEF IInv
  <2>1. ReleaseRead(r)
    <3>1. \A q \in Requests : Arrive(q) \/ Handle(q) => (q = r /\ ReleaseRead(r))
      <4> SUFFICES ASSUME NEW q \in Requests, Arrive(q) \/ Handle(q)
                   PROVE  q = r /\ ReleaseRead(r)
        OBVIOUS
      <4>1. \A pc \in Steps : Goto(q, pc) => (q = r /\ pc = "del")
        BY DEF Goto, TypeOK, RequestStates, Steps
      <4>2. ~Authenticate(q) /\ ~Cancel(q) /\ ~Serve(q)
        BY DEF Authenticate, Cancel, Serve, TypeOK, RequestStates
      <4> QED BY <4>1, <4>2 DEF Arrive, Handle, Return, Acquire, AcquireFails,
              AcquireReplyLost, TakeBack, TakeBackFails, ReleaseRead, ReleaseDel,
              ReleaseDecr, ReleaseFails, Steps
    <3>2. ~Administrate
      BY DEF Administrate, SaveUser, DeleteUser, CleanupUserRuntime, CleanupFails
    <3>3. ~Restart
      BY DEF Restart, TypeOK, RequestStates
    <3>4. vars' # vars
      BY DEF vars
    <3> QED BY <3>1, <3>2, <3>3, <3>4 DEF Next
  <2>2. faults \in Int
    BY DEF TypeOK
  <2>3. count <= 1
    BY <2>1, <2>2 DEF ReleaseRead, Sent, Failed, Fault, Goto, TypeOK, RequestStates
  <2>4. Cardinality(Claims) <= 1
    BY <2>3, ClaimsFinite DEF TypeOK, ExactUnlessDisturbed
  <2>5. r \in Claims
    BY DEF Claims
  <2>6. Cardinality(Claims) = 1
    BY <2>4, <2>5, ClaimsFinite, FS_EmptySet
  <2> QED BY <2>5, <2>6, ClaimsFinite, FS_Singleton
<1> QED BY <1>1, SlotsInvariant, PTL DEF Spec, DeletesLastSlot

-----------------------------------------------------------------------------
(* The end of a request.                                                   *)
LEMMA LeftFalls ==
  ASSUME NEW a, NEW b,
         \/ a = "new" /\ b = "acquire"
         \/ a = "acquire" /\ b \in {"over", "pick", "refused"}
         \/ a = "over" /\ b = "refused"
         \/ a = "pick" /\ b \in {"exchange", "get"}
         \/ a = "exchange" /\ b = "get"
         \/ a = "get" /\ b \in {"del", "decr"}
         \/ a \in {"del", "decr"} /\ b = "done"
         \/ a \in Steps \ {"new", "done"} /\ b = "done"
  PROVE  Left[b] < Left[a]
  BY DEF Left, Steps

LEMMA HandleFalls ==
  ASSUME TypeOK, NEW r \in Requests, Handle(r)
  PROVE  /\ Left[req'[r].pc] < Left[req[r].pc]
         /\ \A q \in Requests \ {r} : UNCHANGED req[q].pc
<1>1. PICK b : /\ Goto(r, b)
               /\ \/ req[r].pc = "acquire" /\ b \in {"over", "pick", "refused"}
                  \/ req[r].pc = "over" /\ b = "refused"
                  \/ req[r].pc = "get" /\ b \in {"del", "decr"}
                  \/ req[r].pc \in {"del", "decr"} /\ b = "done"
  <2> DEFINE P(b) == /\ Goto(r, b)
                     /\ \/ req[r].pc = "acquire" /\ b \in {"over", "pick", "refused"}
                        \/ req[r].pc = "over" /\ b = "refused"
                        \/ req[r].pc = "get" /\ b \in {"del", "decr"}
                        \/ req[r].pc \in {"del", "decr"} /\ b = "done"
  <2>1. CASE Acquire(r) \/ AcquireFails(r) \/ AcquireReplyLost(r)
    <3>1. P("over") \/ P("pick") \/ P("refused")
      BY <2>1 DEF Acquire, AcquireFails, AcquireReplyLost
    <3> QED BY <3>1
  <2>2. CASE TakeBack(r) \/ TakeBackFails(r)
    <3>1. P("refused")
      BY <2>2 DEF TakeBack, TakeBackFails
    <3> QED BY <3>1
  <2>3. CASE ReleaseRead(r)
    <3>1. P("del") \/ P("decr")
      BY <2>3 DEF ReleaseRead
    <3> QED BY <3>1
  <2>4. CASE ReleaseDel(r) \/ ReleaseDecr(r) \/ ReleaseFails(r)
    <3>1. P("done")
      BY <2>4 DEF ReleaseDel, ReleaseDecr, ReleaseFails
    <3> QED BY <3>1
  <2> QED BY <2>1, <2>2, <2>3, <2>4 DEF Handle
<1>2. req'[r].pc = b /\ \A q \in Requests \ {r} : req'[q] = req[q]
  BY <1>1 DEF Goto, TypeOK, RequestStates
<1> QED BY <1>1, <1>2, LeftFalls

LEMMA NobodySentBack ==
  ASSUME TypeOK, Next, NEW q \in Requests
  PROVE  UNCHANGED req[q].pc \/ Left[req'[q].pc] < Left[req[q].pc]
<1>1. ASSUME NEW r \in Requests, Authenticate(r)
      PROVE  UNCHANGED req[q].pc \/ Left[req'[q].pc] < Left[req[q].pc]
  <2>1. req[r].pc = "new" /\ req'[r].pc = "acquire" /\ (q # r => req'[q] = req[q])
    BY <1>1 DEF Authenticate, TypeOK
  <2> QED BY <2>1, LeftFalls
<1>2. ASSUME NEW r \in Requests, Cancel(r) PROVE UNCHANGED req[q].pc
  BY <1>2 DEF Cancel, TypeOK, RequestStates
<1>3. ASSUME NEW r \in Requests, Serve(r)
      PROVE  UNCHANGED req[q].pc \/ Left[req'[q].pc] < Left[req[q].pc]
  <2>1. PICK ctx : req' = [req EXCEPT ![r] = [@ EXCEPT !.pc = "exchange", !.ctx = ctx]]
    BY <1>3 DEF Serve
  <2>2. req[r].pc = "pick" /\ req'[r].pc = "exchange" /\ (q # r => req'[q] = req[q])
    BY <1>3, <2>1 DEF Serve, TypeOK, RequestStates
  <2> QED BY <2>2, LeftFalls
<1>4. ASSUME NEW r \in Requests, Return(r)
      PROVE  UNCHANGED req[q].pc \/ Left[req'[q].pc] < Left[req[q].pc]
  <2>1. req[r].pc \in {"pick", "exchange"} /\ req'[r].pc = "get" /\ (q # r => req'[q] = req[q])
    BY <1>4 DEF Return, Goto, TypeOK, RequestStates
  <2> QED BY <2>1, LeftFalls
<1>5. CASE Administrate
  BY <1>5 DEF Administrate, SaveUser, DeleteUser, CleanupUserRuntime, CleanupFails
<1>6. CASE Restart
  <2>1. req'[q].pc = "done" \/ req'[q] = req[q]
    BY <1>6 DEF Restart, TypeOK, RequestStates
  <2>2. req[q].pc \in Steps /\ (req[q].pc = "new" => req'[q] = req[q])
    BY <1>6 DEF Restart, TypeOK, RequestStates
  <2> QED BY <2>1, <2>2, LeftFalls
<1> QED BY <1>1, <1>2, <1>3, <1>4, <1>5, <1>6, HandleFalls DEF Next, Arrive

LEMMA ClaimsGivenBack ==
  ASSUME IInv, Next, NEW r \in Claims \ Claims'
  PROVE  count' \in {count - 1, 0} \/ leaked' > leaked
<1>1. TypeOK /\ leaked \in Nat /\ IsFiniteSet(Claims) /\ Cardinality(Claims) \in Nat
  BY ClaimsFinite DEF IInv, TypeOK
<1>2. ASSUME NEW q \in Requests, Takes(q) \/ Gives(q) \/ Leaks(q)
      PROVE  count' \in {count - 1, 0} \/ leaked' > leaked
  BY <1>1, <1>2 DEF Takes, Gives, Leaks
<1>3. CASE Stops
  <2>1. Cardinality(Claims) # 0
    BY <1>1, FS_EmptySet
  <2> QED BY <1>1, <1>3, <2>1 DEF Stops
<1> QED BY <1>1, <1>2, <1>3, Kinds DEF Quiet, LeaksUnseen, Wipes

(* The argument for SlotsReturned without its fairness, for any number of  *)
(* requests, limits, failures and edits: every handler comes nearer its    *)
(* end by its own commands, and no claim is given up but from the counter, *)
(* with the counter, or as a leaked slot.                                  *)
THEOREM SlotsHandlersAdvance == Spec => HandlersAdvance
<1>1. IInv /\ Next =>
        \A r \in Requests :
          /\ Handle(r) => Left[req'[r].pc] < Left[req[r].pc]
          /\ UNCHANGED req[r].pc \/ Left[req'[r].pc] < Left[req[r].pc]
          /\ r \in Claims \ Claims' => count' \in {count - 1, 0} \/ leaked' > leaked
  BY HandleFalls, NobodySentBack, ClaimsGivenBack DEF IInv
<1> QED BY <1>1, SlotsInvariant, PTL DEF Spec, HandlersAdvance
=============================================================================
