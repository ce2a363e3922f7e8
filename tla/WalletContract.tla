---------------------------- MODULE WalletContract ----------------------------
(***************************************************************************)
(* What an owner's wallet promises, whatever two stores it is kept in: a   *)
(* request id is paid for at most once, a payment is given back at most    *)
(* once, a top-up counts once, and nothing else moves the balance.         *)
(***************************************************************************)
EXTENDS Integers

CONSTANTS Ids, Topups, Price, Credit, Opening

VARIABLES balance, status, credited

vars == <<balance, status, credited>>

Init ==
    /\ balance = Opening
    /\ status = [i \in Ids |-> "unpaid"]
    /\ credited = {}

Pay(i) ==
    /\ status[i] = "unpaid"
    /\ status' = [status EXCEPT ![i] = "paid"]
    /\ balance' = balance - Price
    /\ UNCHANGED credited

GiveBack(i) ==
    /\ status[i] = "paid"
    /\ status' = [status EXCEPT ![i] = "refunded"]
    /\ balance' = balance + Price
    /\ UNCHANGED credited

TopUp(t) ==
    /\ t \notin credited
    /\ credited' = credited \cup {t}
    /\ balance' = balance + Credit
    /\ UNCHANGED status

Next ==
    \/ \E i \in Ids : Pay(i) \/ GiveBack(i)
    \/ \E t \in Topups : TopUp(t)

Spec == Init /\ [][Next]_vars
=============================================================================
