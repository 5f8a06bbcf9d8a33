----------------------------- MODULE ConnSlots -----------------------------
(***************************************************************************)
(* The concurrency limit of one user: the counter conn:<uid>:current in    *)
(* Redis, which Acquire increments when a request is admitted and Release  *)
(* takes back when its handler returns.  Release reads the counter first:  *)
(* it decrements one above 1 and deletes any other.  Each Redis command    *)
(* is a step, and a command whose context is cancelled is not sent.        *)
(***************************************************************************)
EXTENDS Integers, FiniteSets

CONSTANTS
    Requests,   \* requests of the user, each handled by a goroutine of its own
    Limits,     \* values of max_concurrency; 0 is unlimited
    NoRow,      \* in place of a limit: the user has no row
    MaxFaults,  \* bound: failed commands and restarts
    MaxEdits    \* bound: updates, deletions and creations of the user

ASSUME RequestsAssumption == IsFiniteSet(Requests)
ASSUME LimitsAssumption == Limits \subseteq Nat /\ NoRow \notin Nat
ASSUME BoundsAssumption == MaxFaults \in Nat /\ MaxEdits \in Nat

VARIABLES
    maxConcurrency, \* the row of the user, or NoRow
    count,          \* the counter in Redis; 0 when the key is missing
    req,            \* the request goroutines
    cleaning,       \* handlers that deleted the user and have not cleaned Redis yet
    faults, edits,  \* counters of the bounds
    leaked,         \* history: slots that nobody will give back
    disturbed       \* history: a slot was deleted under a request that had it

vars == <<maxConcurrency, count, req, cleaning, faults, edits, leaked, disturbed>>

-----------------------------------------------------------------------------
(* "over" is a request that found the limit exceeded and has not taken its *)
(* increment back; "get", "del" and "decr" are the commands of Release.    *)
Steps == {"new", "acquire", "over", "pick", "exchange", "get", "del", "decr",
          "refused", "done"}

(* The context of an HTTP exchange ends with the client, and with the      *)
(* handler.  Once a CONNECT is hijacked the server no longer watches the   *)
(* client for it.                                                          *)
Contexts == {"live", "cancelled", "detached"}

RequestStates == [pc : Steps, ctx : Contexts, limit : Limits]

(* Requests that are counted, or should be, and those that are served.     *)
Claims  == {r \in Requests : req[r].pc \in {"over", "pick", "exchange", "get", "del", "decr"}}
Holders == {r \in Requests : req[r].pc \in {"pick", "exchange"}}

Init ==
    /\ maxConcurrency \in Limits
    /\ count = 0
    /\ req = [r \in Requests |-> [pc |-> "new", ctx |-> "live", limit |-> maxConcurrency]]
    /\ cleaning = 0
    /\ faults = 0
    /\ edits = 0
    /\ leaked = 0
    /\ disturbed = FALSE

-----------------------------------------------------------------------------
Fault == faults < MaxFaults /\ faults' = faults + 1

(* A command of r reaches Redis unless its context is cancelled, and has   *)
(* no effect then, or when the connection fails.                           *)
Sent(r)   == req[r].ctx # "cancelled" /\ UNCHANGED faults
Failed(r) == \/ req[r].ctx = "cancelled" /\ UNCHANGED faults
             \/ req[r].ctx # "cancelled" /\ Fault

Goto(r, pc) ==
    req' = [req EXCEPT ![r].pc = pc,
                       ![r].ctx = IF pc \in {"refused", "done"} THEN "cancelled" ELSE @]

Cancel(r) ==
    /\ req[r].pc \notin {"new", "refused", "done"}
    /\ req[r].ctx = "live"
    /\ req' = [req EXCEPT ![r].ctx = "cancelled"]
    /\ UNCHANGED <<maxConcurrency, count, cleaning, faults, edits, leaked, disturbed>>

(* Mistake: a missing row is taken for a user.                             *)
FaultyAuthenticate(r) ==
    /\ req[r].pc = "new"
    /\ req' = [req EXCEPT ![r] = [pc |-> "acquire", ctx |-> "live", limit |-> maxConcurrency]]
    /\ UNCHANGED <<maxConcurrency, count, cleaning, faults, edits, leaked, disturbed>>

(* Authenticate reads the row; the limit used later is the one read here.  *)
Authenticate(r) ==
    /\ req[r].pc = "new"
    /\ maxConcurrency # NoRow
    /\ req' = [req EXCEPT ![r] = [pc |-> "acquire", ctx |-> "live", limit |-> maxConcurrency]]
    /\ UNCHANGED <<maxConcurrency, count, cleaning, faults, edits, leaked, disturbed>>

(* Mistake: the limit is off by one.                                       *)
FaultyExceeds(limit, current) == limit > 0 /\ current > limit + 1

Exceeds(limit, current) == limit > 0 /\ current > limit

(* INCR returns the count with the caller in it.                           *)
Acquire(r) ==
    /\ req[r].pc = "acquire"
    /\ Sent(r)
    /\ count' = count + 1
    /\ Goto(r, IF Exceeds(req[r].limit, count + 1) THEN "over" ELSE "pick")
    /\ UNCHANGED <<maxConcurrency, cleaning, edits, leaked, disturbed>>

AcquireFails(r) ==
    /\ req[r].pc = "acquire"
    /\ Failed(r)
    /\ Goto(r, "refused")
    /\ UNCHANGED <<maxConcurrency, count, cleaning, edits, leaked, disturbed>>

(* The INCR took effect and its reply was lost: the request is refused and *)
(* its handler returns before Release is deferred.                         *)
AcquireReplyLost(r) ==
    /\ req[r].pc = "acquire"
    /\ req[r].ctx = "live"
    /\ Fault
    /\ count' = count + 1
    /\ leaked' = leaked + 1
    /\ Goto(r, "refused")
    /\ UNCHANGED <<maxConcurrency, cleaning, edits, disturbed>>

(* Mistake: a refused request keeps its increment.                         *)
FaultyTakeBack(r) ==
    /\ req[r].pc = "over"
    /\ Goto(r, "refused")
    /\ UNCHANGED <<maxConcurrency, count, cleaning, faults, edits, leaked, disturbed>>

(* The DECR of a refused request; its error is dropped.                    *)
TakeBack(r) ==
    /\ req[r].pc = "over"
    /\ Sent(r)
    /\ count' = count - 1
    /\ Goto(r, "refused")
    /\ UNCHANGED <<maxConcurrency, cleaning, edits, leaked, disturbed>>

TakeBackFails(r) ==
    /\ req[r].pc = "over"
    /\ Failed(r)
    /\ leaked' = leaked + 1
    /\ Goto(r, "refused")
    /\ UNCHANGED <<maxConcurrency, count, cleaning, edits, disturbed>>

-----------------------------------------------------------------------------
(* Pick chose a node: a CONNECT is hijacked, an HTTP exchange is not.      *)
Serve(r) ==
    /\ req[r].pc = "pick"
    /\ \E ctx \in {req[r].ctx, "detached"} :
          /\ ctx = "detached" => req[r].ctx = "live"
          /\ req' = [req EXCEPT ![r] = [@ EXCEPT !.pc = "exchange", !.ctx = ctx]]
    /\ UNCHANGED <<maxConcurrency, count, cleaning, faults, edits, leaked, disturbed>>

(* No node, no upstream, or the exchange is over: the deferred Release.    *)
Return(r) ==
    /\ req[r].pc \in {"pick", "exchange"}
    /\ Goto(r, "get")
    /\ UNCHANGED <<maxConcurrency, count, cleaning, faults, edits, leaked, disturbed>>

(* Mistake: the test is off by one.                                        *)
FaultyReleaseRead(r) ==
    /\ req[r].pc = "get"
    /\ \/ Sent(r) /\ Goto(r, IF count <= 2 THEN "del" ELSE "decr")
       \/ Failed(r) /\ Goto(r, "del")
    /\ UNCHANGED <<maxConcurrency, count, cleaning, edits, leaked, disturbed>>

(* A key that cannot be read is deleted like one that is at most 1.        *)
ReleaseRead(r) ==
    /\ req[r].pc = "get"
    /\ \/ Sent(r) /\ Goto(r, IF count <= 1 THEN "del" ELSE "decr")
       \/ Failed(r) /\ Goto(r, "del")
    /\ UNCHANGED <<maxConcurrency, count, cleaning, edits, leaked, disturbed>>

(* Whatever the counter has become since it was read, it goes.             *)
Delete(others) ==
    /\ count' = 0
    /\ leaked' = 0
    /\ disturbed' = (disturbed \/ others # {})

ReleaseDel(r) ==
    /\ req[r].pc = "del"
    /\ Sent(r)
    /\ Delete(Claims \ {r})
    /\ Goto(r, "done")
    /\ UNCHANGED <<maxConcurrency, cleaning, edits>>

(* Mistake: the counter that was read is written back one lower.           *)
FaultyReleaseDecr(r) ==
    /\ req[r].pc = "decr"
    /\ Sent(r)
    /\ count' = 1
    /\ Goto(r, "done")
    /\ UNCHANGED <<maxConcurrency, cleaning, edits, leaked, disturbed>>

ReleaseDecr(r) ==
    /\ req[r].pc = "decr"
    /\ Sent(r)
    /\ count' = count - 1
    /\ Goto(r, "done")
    /\ UNCHANGED <<maxConcurrency, cleaning, edits, leaked, disturbed>>

(* Both commands drop their error: the slot stays taken, and nothing ever  *)
(* takes it back but a later DEL.                                          *)
ReleaseFails(r) ==
    /\ req[r].pc \in {"del", "decr"}
    /\ Failed(r)
    /\ leaked' = leaked + 1
    /\ Goto(r, "done")
    /\ UNCHANGED <<maxConcurrency, count, cleaning, edits, disturbed>>

-----------------------------------------------------------------------------
(* The administrator.                                                      *)
Edit == edits < MaxEdits /\ edits' = edits + 1

(* createUser where there is no row, updateUser where there is one.        *)
SaveUser(limit) ==
    /\ limit # maxConcurrency
    /\ Edit
    /\ maxConcurrency' = limit
    /\ UNCHANGED <<count, req, cleaning, faults, leaked, disturbed>>

DeleteUser ==
    /\ maxConcurrency # NoRow
    /\ Edit
    /\ maxConcurrency' = NoRow
    /\ cleaning' = cleaning + 1
    /\ UNCHANGED <<count, req, faults, leaked, disturbed>>

(* The DEL of deleteUser, whatever became of the user meanwhile.           *)
CleanupUserRuntime ==
    /\ cleaning > 0
    /\ cleaning' = cleaning - 1
    /\ Delete(Claims)
    /\ UNCHANGED <<maxConcurrency, req, faults, edits>>

(* Its error, or that of the KEYS before it, is dropped: the counter of    *)
(* the deleted user stays, for one created later under the same uid.       *)
CleanupFails ==
    /\ cleaning > 0
    /\ cleaning' = cleaning - 1
    /\ Fault
    /\ UNCHANGED <<maxConcurrency, count, req, edits, leaked, disturbed>>

(* The process stops and starts again.  Shutdown waits for no hijacked     *)
(* connection, and nothing resets the counter.                             *)
Restart ==
    /\ Fault
    /\ leaked' = leaked + Cardinality(Claims)
    /\ req' = [r \in Requests |->
                 IF req[r].pc = "new" THEN req[r] ELSE [req[r] EXCEPT !.pc = "done", !.ctx = "cancelled"]]
    /\ cleaning' = 0
    /\ UNCHANGED <<maxConcurrency, count, edits, disturbed>>

Arrive(r) == Authenticate(r) \/ Cancel(r) \/ Serve(r) \/ Return(r)

(* The Redis commands of a handler, which the client does not hold up.     *)
Handle(r) ==
    \/ Acquire(r)
    \/ AcquireFails(r)
    \/ AcquireReplyLost(r)
    \/ TakeBack(r)
    \/ TakeBackFails(r)
    \/ ReleaseRead(r)
    \/ ReleaseDel(r)
    \/ ReleaseDecr(r)
    \/ ReleaseFails(r)

Administrate ==
    \/ \E limit \in Limits : SaveUser(limit)
    \/ DeleteUser
    \/ CleanupUserRuntime
    \/ CleanupFails

Next == (\E r \in Requests : Arrive(r) \/ Handle(r)) \/ Administrate \/ Restart

Spec == Init /\ [][Next]_vars

(* A handler that has a command to send sends it: go-redis bounds every    *)
(* command by its timeouts.  Nothing is assumed of the client.             *)
FairSpec == Spec /\ \A r \in Requests : WF_vars(Handle(r))

-----------------------------------------------------------------------------
TypeOK ==
    /\ maxConcurrency \in Limits \cup {NoRow}
    /\ count \in Int
    /\ req \in [Requests -> RequestStates]
    /\ cleaning \in Nat
    /\ faults \in 0..MaxFaults
    /\ edits \in 0..MaxEdits
    /\ leaked \in Nat
    /\ disturbed \in BOOLEAN

(* The counter never exceeds the slots that are taken or leaked, whatever  *)
(* the interleaving of Acquire, Release and deleteUser.                    *)
NeverOvercounted == count <= Cardinality(Claims) + leaked

(* Until a DEL of Release or deleteUser hits the slot of another request,  *)
(* the counter is exact: the GET and the DECR of Release, of any number of *)
(* handlers at once, lose nothing.                                         *)
ExactUnlessDisturbed == ~disturbed => count = Cardinality(Claims) + leaked

(* The inductive invariant.                                                *)
IInv == TypeOK /\ NeverOvercounted /\ ExactUnlessDisturbed

(* A request is admitted only while the user has fewer connections than    *)
(* the limit it was authenticated with, the leaked ones counted or not,    *)
(* as long as no DEL has hit the slot of another request.                  *)
AdmittedWithinLimit ==
    [][\A r \in Requests :
         (~disturbed /\ r \in Holders' \ Holders /\ req[r].limit > 0)
            => Cardinality(Holders') <= req[r].limit]_vars

(* A request is refused for concurrency only if the slots taken by others, *)
(* and those leaked, reach its limit: no schedule refuses it otherwise.    *)
RefusedOnlyWhenFull ==
    [][\A r \in Requests :
         (req[r].pc = "acquire" /\ req'[r].pc = "over")
            => Cardinality(Claims) + leaked >= req[r].limit]_vars

(* Release decides to delete the counter only when its own slot is the     *)
(* last one: a slot that its DEL hits was taken later, between the two     *)
(* commands.                                                               *)
DeletesLastSlot ==
    [][\A r \in Requests :
         (/\ req[r].pc = "get" /\ req'[r].pc = "del"
          /\ req[r].ctx # "cancelled" /\ UNCHANGED faults
          /\ ~disturbed) => Claims = {r}]_vars

(* When the user's exchanges are over, and no slot is leaked nor hit by a  *)
(* DEL, the counter returns to 0: no handler forgets its slot.             *)
SlotsReturned ==
    <>[](leaked = 0 /\ ~disturbed /\ Holders = {}) => <>[](count = 0)

(* proxy/gateway_test.go:316 "second status = %d, want 429": at most       *)
(* max_concurrency requests of a user are served at a time, when nothing   *)
(* fails and nobody edits the user.                                        *)
ConcurrencyLimit ==
    (faults = 0 /\ edits = 0 /\ maxConcurrency > 0)
        => Cardinality(Holders) <= maxConcurrency

(* What a request has left to do.                                          *)
Left ==
    [new |-> 6, acquire |-> 5, pick |-> 4, exchange |-> 3,
     over |-> 2, get |-> 2, del |-> 1, decr |-> 1, refused |-> 1, done |-> 0]

(* The argument for SlotsReturned: each command of a handler, whether it   *)
(* is sent or fails, brings it nearer its end, nobody sends a request      *)
(* back, and a request that gives up its claim takes it off the counter,   *)
(* deletes the counter or leaks it.                                        *)
HandlersAdvance ==
    [][\A r \in Requests :
         /\ Handle(r) => Left[req'[r].pc] < Left[req[r].pc]
         /\ UNCHANGED req[r].pc \/ Left[req'[r].pc] < Left[req[r].pc]
         /\ r \in Claims \ Claims' => count' \in {count - 1, 0} \/ leaked' > leaked]_vars
=============================================================================
