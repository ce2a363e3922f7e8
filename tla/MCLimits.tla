------------------------------- MODULE MCLimits -------------------------------
(***************************************************************************)
(* Instances of Limits and Usage for TLC: what a call passes before it is  *)
(* handled, and what is written down after it.  They share nothing, so TLC *)
(* need not interleave them: each moves while the other is where it begins. *)
(***************************************************************************)
EXTENDS Limits, Usage, Sequences, TLC

CONSTANTS c1, c2, c3, a1, a2, o1, o2, i1

\* Two minutes to the hour.
MinuteHour == "minute" :> 1 @@ "hour" :> 2
OneAndTwo == "minute" :> 1 @@ "hour" :> 2

\* Two owners who send the same request id.
SameId == a1 :> i1 @@ a2 :> i1
OwnId == a1 :> o1 @@ a2 :> o2

BothInit == Init /\ UsageInit

\* The calls of either kind are alike, so that they may be named by the order
\* they come in.
Begin(order, begun) ==
    \A i, j \in 1 .. Len(order) : i < j /\ order[j] \in begun => order[i] \in begun

InOrder ==
    /\ Begin(<<c1, c2, c3>>, {c \in Calls : at[c] # "arrived"})
    /\ Begin(<<a1, a2>>, {c \in Served : emit[c] # "forwarded"})

BothNext ==
    /\ \/ Next /\ UsageInit /\ UNCHANGED usageVars
       \/ UsageNext /\ Init /\ UNCHANGED vars
    /\ InOrder'

BothSpec ==
    /\ BothInit /\ [][BothNext]_<<vars, usageVars>>
    /\ WF_vars(SlotsExpire) /\ UsageFairness
=============================================================================
