---------------------------- MODULE MCStripeWebhook ----------------------------
(***************************************************************************)
(* Instances of StripeWebhook for TLC.                                     *)
(***************************************************************************)
EXTENDS StripeWebhook, TLC

CONSTANTS e1, e2, e3, e4, d1, d2, d3, d4, d5, w1, w2

FourKinds == e1 :> "topup" @@ e2 :> "none" @@ e3 :> "lock" @@ e4 :> "unlock"

FirstTwice == d1 :> e1 @@ d2 :> e1 @@ d3 :> e2 @@ d4 :> e3 @@ d5 :> e4

\* A top-up that is delivered twice, an event that nothing is done for, and a
\* dispute that is opened and won.
TopupOrDispute == {{d1, d2}, {d3}, {d4, d5}}
=============================================================================
