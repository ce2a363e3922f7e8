-------------------------------- MODULE MCProxy --------------------------------
(***************************************************************************)
(* Instances of Proxy for TLC.                                             *)
(***************************************************************************)
EXTENDS Proxy

CONSTANTS c1, c2, c3, c4
=============================================================================
