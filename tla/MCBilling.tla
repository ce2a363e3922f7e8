------------------------------ MODULE MCBilling ------------------------------
(***************************************************************************)
(* Instances of Billing for TLC.                                           *)
(***************************************************************************)
EXTENDS Billing, TLC

CONSTANTS c1, c2, c3, c4, r1, r2, r3, t1

\* c1 and c2 are a call and its retry, c3 and c4 (streams) calls of their own.
IdOfRetry == c1 :> r1 @@ c2 :> r1 @@ c3 :> r2 @@ c4 :> r3

\* Unrelated calls: more of them can be charged or refunded at once.
IdOfDistinct == [c \in Calls |-> c]
=============================================================================
