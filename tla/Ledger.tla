------------------------------- MODULE Ledger ------------------------------
(***************************************************************************)
(* What the accounting of proxydeck promises, with neither Redis nor a     *)
(* database in it: one balance per account.  Traffic is charged to the     *)
(* accounts that took part, all at once.  A failure may charge once more   *)
(* what was charged before, to one account.  Whatever moves amounts        *)
(* between the places they are stored in changes no balance.  An account   *)
(* that an administrator deletes or renames is closed: nothing is promised *)
(* of it any more.                                                         *)
(***************************************************************************)
EXTENDS Integers

CONSTANTS
    Accounts,
    Amounts     \* what one exchange may cost

VARIABLES balance, closed, failures

Init == balance = [a \in Accounts |-> 0] /\ closed = {} /\ failures = 0

(* One exchange: every account that took part, and is still open, is       *)
(* charged the same amount.                                                *)
Charge(S, amount) ==
    /\ balance' = [a \in Accounts |->
                     IF a \in S \ closed THEN balance[a] + amount ELSE balance[a]]
    /\ UNCHANGED <<closed, failures>>

(* A failure, between two steps of the bookkeeping or elsewhere.           *)
ChargeAgain(a, amount) ==
    balance' = [balance EXCEPT ![a] = @ + amount]

Fail ==
    /\ failures' = failures + 1
    /\ \/ UNCHANGED balance
       \/ \E a \in Accounts \ closed : \E amount \in 0..balance[a] : ChargeAgain(a, amount)
    /\ UNCHANGED closed

Close(S) ==
    /\ closed' = closed \cup S
    /\ balance' = [a \in Accounts |-> IF a \in S THEN 0 ELSE balance[a]]
    /\ UNCHANGED failures

Next ==
    \/ \E S \in SUBSET Accounts, amount \in Amounts : Charge(S, amount)
    \/ Fail
    \/ \E S \in SUBSET Accounts : Close(S)

Spec == Init /\ [][Next]_<<balance, closed, failures>>
=============================================================================
