------------------------------ MODULE ProxyProofs ------------------------------
(***************************************************************************)
(* Proofs about Proxy, for every set of calls, of streams among them, and  *)
(* every threshold: its inductive invariant, and the invariants in it.     *)
(*                                                                         *)
(* The breaker's steps and the streams' steps share only "at", so the      *)
(* proof goes in two halves: the breaker's conjuncts need to know of a     *)
(* stream only that it reports while its call waits for it.                *)
(***************************************************************************)
EXTENDS Proxy, FiniteSetTheorems, SequenceTheorems, TLAPS

BreakerInv ==
    /\ circuit \in State /\ circuit.failures <= Threshold /\ age \in 0 .. 1
    /\ at \in [Calls -> Checking \cup Recording \cup Ended \cup {"admitted", "streaming"}]
    /\ saw \in [Calls -> 0 .. Threshold + 1] /\ counted \subseteq Calls
    /\ FailuresExplained /\ CallsExplained

StreamInv ==
    /\ phase \in [Streaming -> Stream!Phase] /\ got \in [Streaming -> BOOLEAN]
    /\ status \in [Streaming -> Stream!Status]
    /\ reported \in [Streaming -> Seq(Stream!Status)]
    /\ refund \in [Streaming -> {"undecided", "yes", "no"}]
    /\ cause \in [Streaming -> Stream!Cause]
    /\ StreamShape /\ ReportedOnce /\ RefundIffFailedEarly

LEMMA Halves == IInv <=> BreakerInv /\ StreamInv
BY DEF IInv, BreakerInv, StreamInv, TypeOK

\* The history of recorded failures is finite, and grows by one.
LEMMA CountedIsFinite ==
    ASSUME counted \subseteq Calls
    PROVE  /\ IsFiniteSet(counted) /\ Cardinality(counted) \in Nat
           /\ \A c \in Calls \ counted : Cardinality(counted \cup {c}) = Cardinality(counted) + 1
<1>1. IsFiniteSet(counted)
  BY BreakerAssumption, FS_Subset
<1>2. Cardinality(counted) \in Nat
  BY <1>1, FS_CardinalityType
<1>3. \A c \in Calls \ counted : Cardinality(counted \cup {c}) = Cardinality(counted) + 1
  BY <1>1, FS_AddElement
<1> QED BY <1>1, <1>2, <1>3

-----------------------------------------------------------------------------
(***************************************************************************)
(* The breaker's half.                                                     *)
(***************************************************************************)
\* A call that moves on without touching the breaker keeps its half, if it
\* does not go where the invariant asks for something.
LEMMA MoveKeeps ==
    ASSUME BreakerInv, NEW c \in Calls, at[c] \notin {"opening", "counting"} \cup Ended,
           NEW to \in {"admitted", "refused", "succeeding", "closing", "failing",
                       "done", "failed", "streaming"},
           at' = [at EXCEPT ![c] = to], UNCHANGED <<circuit, age, saw, counted>>
    PROVE  BreakerInv'
BY DEF BreakerInv, FailuresExplained, CallsExplained, Checking, Recording, Ended

LEMMA TickKeeps ==
    ASSUME BreakerInv, Tick
    PROVE  BreakerInv'
BY CountedIsFinite, BreakerAssumption
   DEF BreakerInv, Tick, Store, Ttl, Closed, State, FailuresExplained, CallsExplained

LEMMA CheckKeeps ==
    ASSUME BreakerInv, NEW c \in Calls, Check(c)
    PROVE  BreakerInv'
<1>1. CASE CheckCircuit(c)
  <2>1. CASE at' = [at EXCEPT ![c] = "halving"] /\ circuit.status = "open" /\ at[c] = "start"
    BY <1>1, <2>1 DEF CheckCircuit, BreakerInv, FailuresExplained, CallsExplained, Checking,
                      Recording, Ended
  <2>2. CASE at' = [at EXCEPT ![c] = "admitted"] \/ at' = [at EXCEPT ![c] = "refused"]
    BY <1>1, <2>2, MoveKeeps DEF CheckCircuit, Step, Ended
  <2> QED BY <1>1, <2>1, <2>2 DEF CheckCircuit, Step, RetryDue
<1>2. CASE ReadAgain(c)
  BY <1>2, BreakerAssumption
     DEF ReadAgain, Step, BreakerInv, State, FailuresExplained, CallsExplained, Checking,
         Recording, Ended
<1>3. CASE SetHalfOpen(c)
  BY <1>3, BreakerAssumption
     DEF SetHalfOpen, Step, Store, BreakerInv, State, FailuresExplained, CallsExplained,
         Checking, Recording, Ended
<1> QED BY <1>1, <1>2, <1>3 DEF Check

LEMMA FailureReadKeeps ==
    ASSUME BreakerInv, NEW c \in Calls, FailureRead(c)
    PROVE  BreakerInv'
<1>1. c \notin counted /\ at[c] = "failing"
  BY DEF FailureRead, Step, BreakerInv, CallsExplained, Ended
<1>2. /\ Cardinality(counted) \in Nat
      /\ Cardinality(counted') = Cardinality(counted) + 1
  BY <1>1, CountedIsFinite DEF FailureRead, BreakerInv
<1>3. saw' = [saw EXCEPT ![c] = circuit.failures + 1] /\ UNCHANGED <<circuit, age>>
  BY DEF FailureRead
<1>4. circuit.failures + 1 \in 0 .. Threshold + 1
  BY BreakerAssumption DEF BreakerInv, State
<1>5. CASE circuit.status = "half-open" \/ ThresholdReached(circuit)
  <2>1. at' = [at EXCEPT ![c] = "opening"]
    BY <1>5 DEF FailureRead, Step
  <2>2. Threshold <= Cardinality(counted')
    BY <1>2, <1>5, BreakerAssumption DEF BreakerInv, State, FailuresExplained, ThresholdReached
  <2> QED BY <1>1, <1>2, <1>3, <1>4, <2>1, <2>2, BreakerAssumption
             DEF FailureRead, BreakerInv, State, FailuresExplained, CallsExplained, Checking,
                 Recording, Ended
<1>6. CASE ~(circuit.status = "half-open" \/ ThresholdReached(circuit))
  <2>1. at' = [at EXCEPT ![c] = "counting"]
    BY <1>6 DEF FailureRead, Step
  <2>2. circuit.failures + 1 <= Threshold /\ circuit.failures + 1 <= Cardinality(counted')
    BY <1>2, <1>6, BreakerAssumption DEF BreakerInv, State, FailuresExplained, ThresholdReached
  <2> QED BY <1>1, <1>2, <1>3, <1>4, <2>1, <2>2, BreakerAssumption
             DEF FailureRead, BreakerInv, State, FailuresExplained, CallsExplained, Checking,
                 Recording, Ended
<1> QED BY <1>5, <1>6

LEMMA RecordKeeps ==
    ASSUME BreakerInv, NEW c \in Calls, Record(c)
    PROVE  BreakerInv'
<1>1. CASE SuccessRead(c)
  BY <1>1, MoveKeeps DEF SuccessRead, Step, Ended
<1>2. CASE CloseCircuit(c)
  BY <1>2, CountedIsFinite, BreakerAssumption
     DEF CloseCircuit, Step, Store, Closed, BreakerInv, State, FailuresExplained,
         CallsExplained, Checking, Recording, Ended
<1>3. CASE FailureRead(c)
  BY <1>3, FailureReadKeeps
<1>4. CASE OpenCircuit(c)
  BY <1>4, BreakerAssumption
     DEF OpenCircuit, Step, Store, BreakerInv, State, FailuresExplained, CallsExplained,
         Checking, Recording, Ended
<1>5. CASE CountFailure(c)
  BY <1>5, BreakerAssumption
     DEF CountFailure, Step, Store, BreakerInv, State, FailuresExplained, CallsExplained,
         Checking, Recording, Ended
<1> QED BY <1>1, <1>2, <1>3, <1>4, <1>5 DEF Record

LEMMA ThrowsKeep ==
    ASSUME BreakerInv, NEW c \in Calls, CheckThrows(c) \/ RecordThrows(c)
    PROVE  BreakerInv'
BY DEF CheckThrows, RecordThrows, BreakerInv, FailuresExplained, CallsExplained, Checking,
       Recording, Ended

-----------------------------------------------------------------------------
(***************************************************************************)
(* The streams' half.                                                      *)
(***************************************************************************)
\* A call that does not stream, before and after its move, leaves the streams'
\* half as it is.
LEMMA OtherMoveKeeps ==
    ASSUME StreamInv, BreakerInv, NEW c \in Calls, UNCHANGED streamVars,
           at[c] # "streaming", NEW to \in Checking \cup Recording \cup Ended \cup {"admitted"},
           to \in Checking \cup {"admitted"} => at[c] \in Checking \cup {"admitted"},
           at' = [at EXCEPT ![c] = to]
    PROVE  StreamInv'
BY ProxyAssumption
   DEF StreamInv, BreakerInv, StreamShape, ReportedOnce, RefundIffFailedEarly, streamVars,
       Checking, Recording, Ended

LEMMA BreakerStepKeepsStreams ==
    ASSUME StreamInv, BreakerInv, NEW c \in Calls, Breaker(c) \/ BreakerThrows(c)
    PROVE  StreamInv'
<1>1. UNCHANGED streamVars
  BY DEF Breaker, BreakerThrows
<1>2. \E to \in Checking \cup Recording \cup Ended \cup {"admitted"} :
         /\ at' = [at EXCEPT ![c] = to] /\ at[c] \in Checking \cup Recording
         /\ to \in Checking \cup {"admitted"} => at[c] \in Checking \cup {"admitted"}
  BY DEF Breaker, BreakerThrows, Check, Record, CheckCircuit, ReadAgain, SetHalfOpen,
         CheckThrows, SuccessRead, CloseCircuit, FailureRead, OpenCircuit, CountFailure,
         RecordThrows, Step, Checking, Recording, Ended
<1> QED BY <1>1, <1>2, OtherMoveKeeps DEF Checking, Recording

LEMMA StreamBeginsKeeps ==
    ASSUME StreamInv, BreakerInv, NEW c \in Calls, StreamBegins(c)
    PROVE  StreamInv'
BY ProxyAssumption
   DEF StreamBegins, Step, Stream!Open, Stream!Set, StreamInv, BreakerInv, StreamShape,
       ReportedOnce, RefundIffFailedEarly, Stream!Phase, Checking

\* An open stream has reported nothing; a stream that ended has.
LEMMA ReportsKnown ==
    ASSUME StreamInv, NEW s \in Streaming
    PROVE  /\ phase[s] \in {"idle", "open"} => reported[s] = <<>>
           /\ phase[s] \in {"flushed", "destroyed"} => reported[s] # <<>>
<1>1. reported[s] \in Seq(Stream!Status)
  BY DEF StreamInv
<1>2. Len(reported[s]) = 0 <=> reported[s] = <<>>
  BY <1>1, EmptySeq
<1>3. Len(reported[s]) = IF phase[s] \in {"flushed", "destroyed"} THEN 1 ELSE 0
  BY DEF StreamInv, ReportedOnce
<1> QED BY <1>2, <1>3

\* The end of an open stream is its one report, and moves the call that waited
\* for the stream to the recording.
LEMMA ReportMoves ==
    ASSUME StreamInv, BreakerInv, NEW s \in Streaming, StreamMoves(s), NEW st \in Stream!Status,
           phase[s] = "open", Stream!Report(s, st),
           NEW to \in {"flushed", "destroyed"}, phase' = [phase EXCEPT ![s] = to]
    PROVE  /\ reported' \in [Streaming -> Seq(Stream!Status)] /\ ReportedOnce'
           /\ at[s] = "streaming"
           /\ \E next \in {"succeeding", "failing", "done"} : at' = [at EXCEPT ![s] = next]
<1>1. reported[s] = <<>> /\ at[s] = "streaming"
  BY ReportsKnown DEF StreamInv, StreamShape
<1>2. reported' = [reported EXCEPT ![s] = <<st>>]
  BY <1>1 DEF Stream!Report, Stream!Set
<1>3. <<st>> \in Seq(Stream!Status) /\ Len(<<st>>) = 1 /\ <<st>> # <<>>
  OBVIOUS
<1>4. reported' \in [Streaming -> Seq(Stream!Status)] /\ reported'[s] = <<st>>
  BY <1>2, <1>3 DEF StreamInv
<1>5. ReportedOnce'
  BY <1>2, <1>3, <1>4 DEF StreamInv, ReportedOnce
<1>6. at' = [at EXCEPT ![s] = Heard(Head(reported'[s]))]
  BY <1>1, <1>3, <1>4 DEF StreamMoves
<1>7. Heard(Head(reported'[s])) \in {"succeeding", "failing", "done"}
  BY DEF Heard
<1> QED BY <1>1, <1>4, <1>5, <1>6, <1>7

\* After the end, and before it, a step that reports nothing leaves the call.
LEMMA NoReport ==
    ASSUME NEW s \in Streaming, StreamMoves(s), reported' = reported
    PROVE  at' = at
BY DEF StreamMoves

\* The end of an open stream: its fields become consistent with its cause.
LEMMA EndKeeps ==
    ASSUME StreamInv, BreakerInv, NEW s \in Streaming, StreamMoves(s), phase[s] = "open",
           NEW to \in {"flushed", "destroyed"}, phase' = [phase EXCEPT ![s] = to],
           NEW st \in Stream!Status, status' = [status EXCEPT ![s] = st], Stream!Report(s, st),
           NEW why \in {"end", "client", "upstream", "timeout"}, cause' = [cause EXCEPT ![s] = why],
           NEW told \in {"undecided", "no"}, refund' = [refund EXCEPT ![s] = told],
           got' = got,
           why = "end" => to = "flushed" /\ st = "COMPLETED",
           to = "flushed" => why = "end",
           why = "client" <=> told = "no",
           why \in {"upstream", "timeout"} => st = "ERROR"
    PROVE  /\ StreamInv'
           /\ at[s] = "streaming"
           /\ \E next \in {"succeeding", "failing", "done"} : at' = [at EXCEPT ![s] = next]
<1>1. /\ reported' \in [Streaming -> Seq(Stream!Status)] /\ ReportedOnce'
      /\ at[s] = "streaming"
      /\ \E next \in {"succeeding", "failing", "done"} : at' = [at EXCEPT ![s] = next]
  BY ReportMoves
<1>2. at \in [Calls -> Checking \cup Recording \cup Ended \cup {"admitted", "streaming"}] /\ s \in Calls
  BY ProxyAssumption DEF BreakerInv
<1>3. StreamShape'
  BY <1>1, <1>2, ProxyAssumption DEF StreamInv, StreamShape, Checking
<1>4. RefundIffFailedEarly'
  BY <1>1 DEF StreamInv, StreamShape, RefundIffFailedEarly
<1>5. /\ phase' \in [Streaming -> Stream!Phase] /\ got' \in [Streaming -> BOOLEAN]
      /\ status' \in [Streaming -> Stream!Status]
      /\ refund' \in [Streaming -> {"undecided", "yes", "no"}]
      /\ cause' \in [Streaming -> Stream!Cause]
  BY DEF StreamInv, Stream!Phase, Stream!Cause
<1> QED BY <1>1, <1>3, <1>4, <1>5 DEF StreamInv

LEMMA StreamMovesKeeps ==
    ASSUME StreamInv, BreakerInv, NEW s \in Streaming, StreamMoves(s)
    PROVE  /\ StreamInv'
           /\ \/ at' = at
              \/ /\ at[s] = "streaming"
                 /\ \E to \in {"succeeding", "failing", "done"} : at' = [at EXCEPT ![s] = to]
<1>0. /\ at \in [Calls -> Checking \cup Recording \cup Ended \cup {"admitted", "streaming"}] /\ s \in Calls
      /\ phase[s] = "open" => cause[s] = "none" /\ status[s] = "COMPLETED" /\ refund[s] = "undecided"
  BY ProxyAssumption DEF BreakerInv, StreamInv, StreamShape
<1>1. \A t \in Streaming : refund = [refund EXCEPT ![t] = refund[t]] /\ status = [status EXCEPT ![t] = status[t]]
  BY DEF StreamInv
<1>3. CASE Stream!Flush(s)
  <2>1. /\ phase[s] = "open" /\ phase' = [phase EXCEPT ![s] = "flushed"]
        /\ status' = [status EXCEPT ![s] = "COMPLETED"] /\ Stream!Report(s, "COMPLETED")
        /\ cause' = [cause EXCEPT ![s] = "end"] /\ refund' = [refund EXCEPT ![s] = "undecided"]
        /\ got' = got
    BY <1>0, <1>1, <1>3 DEF Stream!Flush, Stream!EndedBy, Stream!Set
  <2> QED BY <2>1, EndKeeps DEF Stream!Status
<1>5. CASE Stream!UpstreamFails(s) \/ Stream!TimesOut(s)
  <2>1. PICK why \in {"upstream", "timeout"} :
          /\ phase[s] = "open" /\ phase' = [phase EXCEPT ![s] = "destroyed"]
          /\ status' = [status EXCEPT ![s] = "ERROR"] /\ Stream!Report(s, "ERROR")
          /\ cause' = [cause EXCEPT ![s] = why] /\ refund' = [refund EXCEPT ![s] = "undecided"]
          /\ got' = got
    BY <1>0, <1>1, <1>5
       DEF Stream!UpstreamFails, Stream!TimesOut, Stream!Destroy, Stream!EndedBy, Stream!Set
  <2> QED BY <2>1, EndKeeps DEF Stream!Status
<1>7. CASE Stream!ClientGone(s) /\ phase[s] = "open"
  <2>1. /\ phase' = [phase EXCEPT ![s] = "destroyed"]
        /\ status' = [status EXCEPT ![s] = "COMPLETED"] /\ Stream!Report(s, "COMPLETED")
        /\ cause' = [cause EXCEPT ![s] = "client"] /\ refund' = [refund EXCEPT ![s] = "no"]
        /\ got' = got
    BY <1>0, <1>1, <1>7
       DEF Stream!ClientGone, Stream!Destroy, Stream!EndedBy, Stream!Set, Stream!RefundEligible
  <2> QED BY <1>7, <2>1, EndKeeps DEF Stream!Status
<1> USE DEF StreamInv, StreamShape, ReportedOnce, RefundIffFailedEarly, Stream!Phase,
            Stream!Status, Stream!Cause, Stream!Set, Checking
<1>4. CASE Stream!AutoDestroy(s)
  <2>1. reported' = reported
    BY <1>4, ReportsKnown DEF Stream!AutoDestroy, Stream!Destroy, Stream!Report
  <2> QED BY <1>0, <1>4, <2>1, NoReport DEF Stream!AutoDestroy, Stream!Destroy
<1>6. CASE Stream!UpstreamFailsLate(s)
  BY <1>0, <1>6, NoReport DEF Stream!UpstreamFailsLate
<1>8. CASE Stream!ClientGone(s) /\ phase[s] = "flushed"
  <2>1. reported' = reported
    BY <1>8, ReportsKnown DEF Stream!ClientGone, Stream!Destroy, Stream!Report, Stream!Set, StreamInv
  <2> QED BY <1>0, <1>8, <2>1, NoReport
             DEF Stream!ClientGone, Stream!Destroy, Stream!EndedBy, Stream!RefundEligible
<1>2. CASE Stream!FirstChunk(s)
  <2>1. /\ UNCHANGED <<phase, status, reported, refund, cause>>
        /\ got' = [got EXCEPT ![s] = TRUE] /\ refund[s] = "undecided"
    BY <1>0, <1>2 DEF Stream!FirstChunk
  <2>2. at' = at
    BY <2>1, NoReport
  <2>3. StreamShape' /\ ReportedOnce'
    BY <2>1, <2>2
  <2>4. RefundIffFailedEarly'
    BY <2>1
  <2>5. got' \in [Streaming -> BOOLEAN]
    BY <2>1
  <2> QED BY <2>1, <2>2, <2>3, <2>4, <2>5
<1>9. CASE Stream!Decide(s)
  <2>1. /\ phase[s] \in {"flushed", "destroyed"} /\ refund[s] = "undecided"
        /\ UNCHANGED <<phase, got, status, reported, cause>>
        /\ refund' = [refund EXCEPT ![s] = IF Stream!RefundEligible(s) THEN "yes" ELSE "no"]
    BY <1>9 DEF Stream!Decide
  <2>2. at' = at
    BY <2>1, NoReport
  <2>3. StreamShape' /\ ReportedOnce'
    BY <2>1, <2>2
  <2>4. Stream!RefundEligible(s) <=> cause[s] \in {"upstream", "timeout"} /\ ~got[s]
    BY <2>1 DEF Stream!RefundEligible
  <2>5. RefundIffFailedEarly'
    BY <2>1, <2>4
  <2>6. refund' \in [Streaming -> {"undecided", "yes", "no"}]
    BY <2>1
  <2> QED BY <2>1, <2>2, <2>3, <2>5, <2>6
<1> HIDE DEF StreamInv, StreamShape, ReportedOnce, RefundIffFailedEarly, Stream!Phase,
             Stream!Status, Stream!Cause, Stream!Set, Checking
<1>10. Stream!ClientGone(s) => phase[s] \in {"open", "flushed"}
  BY DEF Stream!ClientGone
<1> QED BY <1>2, <1>3, <1>4, <1>5, <1>6, <1>7, <1>8, <1>9, <1>10 DEF StreamMoves, Stream!StreamStep

-----------------------------------------------------------------------------
(***************************************************************************)
(* The invariant.                                                          *)
(***************************************************************************)
LEMMA InitHolds == Init => BreakerInv /\ StreamInv
<1> SUFFICES ASSUME Init PROVE BreakerInv /\ StreamInv
  OBVIOUS
<1>1. BreakerInv
  BY BreakerAssumption, FS_EmptySet
     DEF Init, BreakerInit, Closed, State, BreakerInv, FailuresExplained, CallsExplained, Checking
<1>2. StreamInv
  BY ProxyAssumption
     DEF Init, BreakerInit, Stream!StreamInit, StreamInv, StreamShape, ReportedOnce,
         RefundIffFailedEarly, Stream!Phase, Stream!Status, Stream!Cause, Checking
<1> QED BY <1>1, <1>2

LEMMA NextKeeps ==
    ASSUME BreakerInv, StreamInv, [Next]_vars
    PROVE  BreakerInv' /\ StreamInv'
<1>1. ASSUME NEW c \in Calls, Breaker(c) \/ BreakerThrows(c) PROVE BreakerInv' /\ StreamInv'
  BY <1>1, CheckKeeps, RecordKeeps, ThrowsKeep, BreakerStepKeepsStreams DEF Breaker, BreakerThrows
<1>2. ASSUME NEW c \in Calls, Answered(c) \/ UpstreamError(c) \/ OtherError(c)
      PROVE  BreakerInv' /\ StreamInv'
  <2>1. /\ at[c] = "admitted" /\ UNCHANGED <<circuit, age, saw, counted>> /\ UNCHANGED streamVars
        /\ \E to \in {"succeeding", "failing", "done"} : at' = [at EXCEPT ![c] = to]
    BY <1>2 DEF Answered, UpstreamError, OtherError, Step
  <2>2. BreakerInv'
    BY <2>1, MoveKeeps DEF Ended
  <2>3. StreamInv'
    BY <2>1, OtherMoveKeeps DEF Checking, Recording, Ended
  <2> QED BY <2>2, <2>3
<1>3. ASSUME NEW c \in Calls, StreamBegins(c) PROVE BreakerInv' /\ StreamInv'
  BY <1>3, StreamBeginsKeeps, MoveKeeps DEF StreamBegins, Step, Ended
<1>4. ASSUME NEW c \in Calls, StreamMoves(c) PROVE BreakerInv' /\ StreamInv'
  <2>1. c \in Streaming /\ UNCHANGED <<circuit, age, saw, counted>>
    BY <1>4 DEF StreamMoves
  <2>2. CASE at' = at
    BY <1>4, <2>1, <2>2, StreamMovesKeeps DEF BreakerInv, FailuresExplained, CallsExplained
  <2>3. CASE at[c] = "streaming" /\ \E to \in {"succeeding", "failing", "done"} :
                at' = [at EXCEPT ![c] = to]
    BY <1>4, <2>1, <2>3, StreamMovesKeeps, MoveKeeps DEF Ended
  <2> QED BY <1>4, <2>1, <2>2, <2>3, StreamMovesKeeps
<1>5. CASE Tick /\ UNCHANGED streamVars
  BY <1>5, TickKeeps
     DEF Tick, streamVars, StreamInv, StreamShape, ReportedOnce, RefundIffFailedEarly
<1>6. CASE UNCHANGED vars
  BY <1>6 DEF vars, breakerVars, streamVars, BreakerInv, FailuresExplained, CallsExplained,
              StreamInv, StreamShape, ReportedOnce, RefundIffFailedEarly
<1> QED BY <1>1, <1>2, <1>3, <1>4, <1>5, <1>6 DEF Next

\* IInv, which says what every number and status under way is worth, holds in
\* every reachable state of Proxy.
THEOREM ProxyInvariant == Spec => []IInv
<1>1. Init => IInv
  BY InitHolds, Halves
<1>2. IInv /\ [Next]_vars => IInv'
  <2>1. IInv' <=> BreakerInv' /\ StreamInv'
    BY DEF IInv, BreakerInv, StreamInv, TypeOK
  <2> QED BY <2>1, Halves, NextKeeps
<1> QED BY <1>1, <1>2, PTL DEF Spec

\* The breaker, the calls and their streams are always well typed.
THEOREM ProxyTypeCorrect == Spec => []TypeOK
<1>1. IInv => TypeOK
  BY DEF IInv
<1> QED BY <1>1, ProxyInvariant, PTL

\* The breaker (recordFailure, setHalfOpen) never counts or acts on failures
\* that were not recorded, for any number of calls and any threshold.
THEOREM FailuresExplainedAlways == Spec => []FailuresExplained
<1>1. IInv => FailuresExplained
  BY DEF IInv
<1> QED BY <1>1, ProxyInvariant, PTL

\* isRefundEligible tells a failure before the first byte from every other end.
THEOREM RefundIffFailedEarlyAlways == Spec => []RefundIffFailedEarly
<1>1. IInv => RefundIffFailedEarly
  BY DEF IInv
<1> QED BY <1>1, ProxyInvariant, PTL

\* emitMetrics reports every ended stream exactly once.
THEOREM ReportedOnceAlways == Spec => []ReportedOnce
<1>1. IInv => ReportedOnce
  BY DEF IInv
<1> QED BY <1>1, ProxyInvariant, PTL
=============================================================================
