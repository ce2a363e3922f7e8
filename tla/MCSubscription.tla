---------------------------- MODULE MCSubscription ----------------------------
(***************************************************************************)
(* Instances of Subscription for TLC.                                      *)
(***************************************************************************)
EXTENDS Subscription

CONSTANTS s1, s2, w1, w2
=============================================================================
