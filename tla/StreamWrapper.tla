----------------------------- MODULE StreamWrapper -----------------------------
(***************************************************************************)
(* StreamMetricsWrapper: the Transform that a streamed answer is piped     *)
(* through.  It notes the first chunk, reports one status when the stream  *)
(* ends in whatever way, and tells the controller whether the charge is to *)
(* be given back.                                                          *)
(*                                                                         *)
(* Four sources of events meet: the upstream reader, the timer of the      *)
(* longest duration, the client's connection, and the controller that asks *)
(* once the reply is over.                                                 *)
(***************************************************************************)
EXTENDS Sequences

CONSTANT Streams

VARIABLES
    phase,     \* of the Transform
    got,       \* ttfbMs is set: a chunk has arrived
    status,    \* the status field
    reported,  \* the statuses given to onMetrics, one after the other
    refund,    \* what the controller was told by isRefundEligible
    cause      \* history: what ended the stream first

streamVars == <<phase, got, status, reported, refund, cause>>

Phase  == {"idle", "open", "flushed", "destroyed"}
Status == {"COMPLETED", "CLIENT_ABORT", "UPSTREAM_ERROR", "TIMEOUT", "ERROR"}
Cause  == {"none", "end", "upstream", "timeout", "client"}

StreamInit ==
    /\ phase = [s \in Streams |-> "idle"] /\ got = [s \in Streams |-> FALSE]
    /\ status = [s \in Streams |-> "COMPLETED"]
    /\ reported = [s \in Streams |-> <<>>]
    /\ refund = [s \in Streams |-> "undecided"] /\ cause = [s \in Streams |-> "none"]

Set(f, s, v) == f' = [f EXCEPT ![s] = v]

\* emitMetrics reports once.
\* Mutation: without the metricsEmitted flag.
Report_Again(s, st) == Set(reported, s, Append(reported[s], st))
Report(s, st) == Set(reported, s, IF reported[s] = <<>> THEN <<st>> ELSE reported[s])

\* destroy(error) after the status has been set to st: _destroy writes 'ERROR'
\* over it before it reports.
Destroy(s, st, error) ==
    LET final == IF error THEN "ERROR" ELSE st
    IN  Set(phase, s, "destroyed") /\ Set(status, s, final) /\ Report(s, final)

EndedBy(s, what) == Set(cause, s, IF cause[s] = "none" THEN what ELSE cause[s])

\* isRefundEligible.
\* Mutation: the data that was already sent is not looked at.
RefundEligible_AnyData(s) == status[s] \notin {"COMPLETED", "CLIENT_ABORT"}
RefundEligible(s) == ~got[s] /\ status[s] \notin {"COMPLETED", "CLIENT_ABORT"}

-----------------------------------------------------------------------------
Open(s) ==
    /\ phase[s] = "idle" /\ Set(phase, s, "open")
    /\ UNCHANGED <<got, status, reported, refund, cause>>

\* The first chunk; the later ones, and [DONE], change none of these fields.
FirstChunk(s) ==
    /\ phase[s] = "open" /\ ~got[s] /\ Set(got, s, TRUE)
    /\ UNCHANGED <<phase, status, reported, refund, cause>>

\* The upstream ends: _flush clears the timer and reports.
Flush(s) ==
    /\ phase[s] = "open"
    /\ Set(phase, s, "flushed") /\ Report(s, status[s]) /\ EndedBy(s, "end")
    /\ UNCHANGED <<got, status, refund>>

\* Once the client has read everything the Transform destroys itself.
AutoDestroy(s) ==
    /\ phase[s] = "flushed" /\ Destroy(s, status[s], FALSE)
    /\ UNCHANGED <<got, refund, cause>>

\* The reader throws (the abort timer of the request included):
\* handleUpstreamError.
UpstreamFails(s) ==
    /\ phase[s] = "open" /\ Destroy(s, "UPSTREAM_ERROR", TRUE) /\ EndedBy(s, "upstream")
    /\ UNCHANGED <<got, refund>>

\* The same after the Transform was destroyed: only the field changes.
UpstreamFailsLate(s) ==
    /\ phase[s] = "destroyed" /\ cause[s] \in {"timeout", "client"}
    /\ status[s] # "UPSTREAM_ERROR" /\ Set(status, s, "UPSTREAM_ERROR")
    /\ UNCHANGED <<phase, got, reported, refund, cause>>

\* handleTimeout; the timer runs while the stream is open.
\* Mutation: the timer only waits for the first chunk.
TimesOut_BeforeData(s) ==
    /\ phase[s] = "open" /\ ~got[s]
    /\ Destroy(s, "TIMEOUT", TRUE) /\ EndedBy(s, "timeout")
    /\ UNCHANGED <<got, refund>>

TimesOut(s) ==
    /\ phase[s] = "open" /\ Destroy(s, "TIMEOUT", TRUE) /\ EndedBy(s, "timeout")
    /\ UNCHANGED <<got, refund>>

\* The client hangs up: the server destroys the stream without an error, and
\* the controller's await ends in the same turn of the event loop.
ClientGone(s) ==
    /\ phase[s] \in {"open", "flushed"} /\ Destroy(s, status[s], FALSE)
    /\ EndedBy(s, "client")
    /\ Set(refund, s, IF refund[s] # "undecided" THEN refund[s]
                      ELSE IF RefundEligible(s) THEN "yes" ELSE "no")
    /\ UNCHANGED got

\* The reply is over: the controller asks.
Decide(s) ==
    /\ phase[s] \in {"flushed", "destroyed"} /\ refund[s] = "undecided"
    /\ Set(refund, s, IF RefundEligible(s) THEN "yes" ELSE "no")
    /\ UNCHANGED <<phase, got, status, reported, cause>>

StreamStep(s) ==
    \/ FirstChunk(s) \/ Flush(s) \/ AutoDestroy(s) \/ UpstreamFails(s)
    \/ UpstreamFailsLate(s) \/ TimesOut(s) \/ ClientGone(s) \/ Decide(s)
=============================================================================
