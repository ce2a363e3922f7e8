--------------------------------- MODULE Proxy ---------------------------------
(***************************************************************************)
(* ProxyService: calls to one provider, each checked against the circuit   *)
(* breaker, forwarded, and its outcome recorded; a streamed answer goes    *)
(* through a StreamMetricsWrapper, whose report is what the breaker hears. *)
(***************************************************************************)
EXTENDS CircuitBreaker, Sequences

CONSTANT Streaming   \* calls with stream: true

ASSUME ProxyAssumption == Streaming \subseteq Calls

VARIABLES phase, got, status, reported, refund, cause   \* of StreamWrapper

Stream == INSTANCE StreamWrapper WITH Streams <- Streaming

streamVars == <<phase, got, status, reported, refund, cause>>
vars == <<breakerVars, streamVars>>

\* What the breaker, the calls and their streams may hold.
TypeOK ==
    /\ circuit \in State /\ circuit.failures <= Threshold /\ age \in 0 .. 1
    /\ at \in [Calls -> Checking \cup Recording \cup Ended \cup {"admitted", "streaming"}]
    /\ saw \in [Calls -> 0 .. Threshold + 1] /\ counted \subseteq Calls
    /\ phase \in [Streaming -> Stream!Phase] /\ got \in [Streaming -> BOOLEAN]
    /\ status \in [Streaming -> Stream!Status]
    /\ reported \in [Streaming -> Seq(Stream!Status)]
    /\ refund \in [Streaming -> {"undecided", "yes", "no"}]
    /\ cause \in [Streaming -> Stream!Cause]

Init == BreakerInit /\ Stream!StreamInit

-----------------------------------------------------------------------------
Breaker(c) == (Check(c) \/ Record(c)) /\ UNCHANGED streamVars
BreakerThrows(c) == (CheckThrows(c) \/ RecordThrows(c)) /\ UNCHANGED streamVars

\* The upstream answers a call that is not a stream.
Answered(c) ==
    /\ c \notin Streaming /\ Step(c, "admitted", "succeeding")
    /\ UNCHANGED <<circuit, age, saw, counted, streamVars>>

\* isUpstreamError: status 5xx or 429, or the timer aborts the request.
UpstreamError(c) ==
    /\ Step(c, "admitted", "failing")
    /\ UNCHANGED <<circuit, age, saw, counted, streamVars>>

\* Any other error: a request that does not validate, another 4xx, a refused
\* or unresolved connection.  The breaker is not told.
OtherError(c) ==
    /\ Step(c, "admitted", "done")
    /\ UNCHANGED <<circuit, age, saw, counted, streamVars>>

StreamBegins(c) ==
    /\ c \in Streaming /\ Step(c, "admitted", "streaming") /\ Stream!Open(c)
    /\ UNCHANGED <<circuit, age, saw, counted>>

\* onMetrics: what the report of a stream makes the breaker record.
Heard(report) ==
    CASE report = "COMPLETED" -> "succeeding"
      [] report \in {"UPSTREAM_ERROR", "TIMEOUT"} -> "failing"
      [] OTHER -> "done"

\* A step of the stream; its report, if any, starts a recordSuccess or
\* recordFailure that nobody awaits.
StreamMoves(c) ==
    /\ c \in Streaming /\ Stream!StreamStep(c)
    /\ at' = IF reported'[c] = reported[c] THEN at
             ELSE [at EXCEPT ![c] = Heard(Head(reported'[c]))]
    /\ UNCHANGED <<circuit, age, saw, counted>>

Next ==
    \/ \E c \in Calls :
          \/ Breaker(c) \/ BreakerThrows(c)
          \/ Answered(c) \/ UpstreamError(c) \/ OtherError(c)
          \/ StreamBegins(c) \/ StreamMoves(c)
    \/ Tick /\ UNCHANGED streamVars

\* A command that was sent is answered, the timers of the request and of the
\* stream go off, and time passes (Redis expires what is due).
Fairness ==
    /\ \A c \in Calls :
          /\ WF_vars(Breaker(c)) /\ WF_vars(UpstreamError(c))
          /\ WF_vars(c \in Streaming /\ Stream!TimesOut(c) /\ StreamMoves(c))
    /\ WF_vars(Tick /\ UNCHANGED streamVars)

Spec == Init /\ [][Next]_vars
FairSpec == Spec /\ Fairness

-----------------------------------------------------------------------------
(***************************************************************************)
(* What holds.                                                             *)
(***************************************************************************)
\* However the reads and writes of calls interleave, the breaker never counts
\* more failures than were recorded, and is open or half-open only after
\* Threshold of them (recordFailure, setHalfOpen).
FailuresExplained ==
    IF circuit.status = "closed"
    THEN circuit.failures <= Cardinality(counted)
    ELSE Threshold <= Cardinality(counted)

\* A charge for a stream is to be given back exactly when its upstream failed
\* or ran out of time before the first byte, never because the client left or
\* the answer was empty (isRefundEligible after _flush, _destroy, the timer).
RefundIffFailedEarly ==
    \A s \in Streaming : refund[s] # "undecided" =>
        (refund[s] = "yes" <=> cause[s] \in {"upstream", "timeout"} /\ ~got[s])

\* A stream that has ended has called onMetrics once, which is all that the
\* breaker hears of it, whatever events follow its end (emitMetrics).  The usage
\* event is not sent from there: the controller reads getMetrics later.
ReportedOnce ==
    \A s \in Streaming : Len(reported[s]) = IF phase[s] \in {"flushed", "destroyed"} THEN 1 ELSE 0

\* A stream ends even when upstream stalls and the client waits: the timer
\* ends it, and the slot and the socket it holds (handleTimeout).
StreamsEnd == \A s \in Streaming : (phase[s] = "open") ~> (phase[s] # "open")

\* A half-open circuit does not stay so when its probe is never recorded (it
\* was invalid, answered 4xx, or broke in mid-stream): the key expires.
HalfOpenEnds == (circuit.status = "half-open") ~> (circuit.status # "half-open")

-----------------------------------------------------------------------------
(***************************************************************************)
(* The inductive invariant.                                                *)
(***************************************************************************)
\* A call carries a number from its read of the breaker to its write, and other
\* calls write in between: its own failure is in counted by then, a call about
\* to open or half-open the circuit has a cause, and nobody is counted twice.
CallsExplained ==
    /\ \A c \in Calls :
          /\ at[c] = "counting" => saw[c] <= Threshold /\ saw[c] <= Cardinality(counted)
          /\ at[c] = "setting" => saw[c] <= Threshold
          /\ at[c] \in {"opening", "halving", "setting"} => Threshold <= Cardinality(counted)
    /\ \A c \in counted : at[c] \in {"opening", "counting"} \cup Ended

\* A stream is open exactly while its call waits for it, and what its fields
\* may be at each phase.
StreamShape ==
    \A s \in Streaming :
        /\ phase[s] = "open" <=> at[s] = "streaming"
        /\ at[s] \in Checking \cup {"admitted"} => phase[s] = "idle"
        /\ phase[s] \in {"idle", "open"} =>
              status[s] = "COMPLETED" /\ cause[s] = "none" /\ refund[s] = "undecided"
        /\ phase[s] = "flushed" => status[s] = "COMPLETED" /\ cause[s] = "end"
        /\ phase[s] = "destroyed" =>
              /\ cause[s] \in {"end", "client", "upstream", "timeout"}
              /\ cause[s] = "end" => status[s] = "COMPLETED"
              /\ cause[s] = "client" => refund[s] # "undecided"
              /\ cause[s] \in {"upstream", "timeout"} => status[s] \in {"ERROR", "UPSTREAM_ERROR"}

IInv ==
    /\ TypeOK /\ FailuresExplained /\ CallsExplained
    /\ StreamShape /\ ReportedOnce /\ RefundIffFailedEarly

-----------------------------------------------------------------------------
(***************************************************************************)
(* What the repository says and the code does not do.                      *)
(***************************************************************************)
\* "Record failure for circuit breaker" (onMetrics): a stream that its
\* upstream breaks, or that times out, counts as a failure.
StreamFailuresHeard ==
    [][\A s \in Streaming :
          at[s] = "streaming" /\ at'[s] # "streaming" /\ cause'[s] \in {"upstream", "timeout"}
             => at'[s] = "failing"]_vars
=============================================================================
