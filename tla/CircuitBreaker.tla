---------------------------- MODULE CircuitBreaker ----------------------------
(***************************************************************************)
(* The circuit breaker of one provider: a value under circuit:{provider}   *)
(* in Redis that calls read and write in separate commands.                *)
(*                                                                         *)
(* Every action is one Redis command of a call and what the service does   *)
(* between it and the next.  What happens between the check and the record *)
(* is Proxy's.  Time is the age of the value in whole resetMs.             *)
(***************************************************************************)
EXTENDS Integers, FiniteSets

CONSTANTS
    Calls,
    Threshold    \* CIRCUIT_BREAKER_THRESHOLD

ASSUME BreakerAssumption == IsFiniteSet(Calls) /\ Threshold \in Nat \ {0}

VARIABLES
    circuit,   \* Redis: the stored state; Closed when the key is absent
    age,       \* whole resetMs since it was stored
    at,        \* where each call is
    saw,       \* the failures a call has computed and will store
    counted    \* history: calls whose recordFailure has read the state

breakerVars == <<circuit, age, at, saw, counted>>

State == [status : {"closed", "open", "half-open"}, failures : Nat]
Closed == [status |-> "closed", failures |-> 0]

Checking  == {"start", "halving", "setting"}
Recording == {"succeeding", "closing", "failing", "opening", "counting"}
Ended     == {"refused", "done", "failed"}

BreakerInit ==
    /\ circuit = Closed /\ age = 0
    /\ at = [c \in Calls |-> "start"] /\ saw = [c \in Calls |-> 0]
    /\ counted = {}

\* The TTL of each state, in resetMs.
Ttl(status) == IF status = "half-open" THEN 1 ELSE 2

Store(state) == circuit' = state /\ age' = 0

Step(c, from, to) == at[c] = from /\ at' = [at EXCEPT ![c] = to]

\* Mutation: the half-open state is stored without a TTL.
Tick_HalfOpenStays ==
    /\ circuit # Closed /\ circuit.status # "half-open"
    /\ IF age + 1 < Ttl(circuit.status)
       THEN age' = age + 1 /\ UNCHANGED circuit
       ELSE Store(Closed)
    /\ UNCHANGED <<at, saw, counted>>

\* resetMs go by: nextRetry of an open circuit is reached, or the key expires.
Tick ==
    /\ circuit # Closed
    /\ IF age + 1 < Ttl(circuit.status)
       THEN age' = age + 1 /\ UNCHANGED circuit
       ELSE Store(Closed)
    /\ UNCHANGED <<at, saw, counted>>

-----------------------------------------------------------------------------
(***************************************************************************)
(* checkCircuit, isOpen, setHalfOpen.                                      *)
(***************************************************************************)
RetryDue == circuit.status = "open" /\ age >= 1

CheckCircuit(c) ==
    /\ \/ circuit.status # "open" /\ Step(c, "start", "admitted")
       \/ circuit.status = "open" /\ ~RetryDue /\ Step(c, "start", "refused")
       \/ RetryDue /\ Step(c, "start", "halving")
    /\ UNCHANGED <<circuit, age, saw, counted>>

\* setHalfOpen reads the state again ...
ReadAgain(c) ==
    /\ Step(c, "halving", "setting")
    /\ saw' = [saw EXCEPT ![c] = circuit.failures]
    /\ UNCHANGED <<circuit, age, counted>>

\* ... and stores what it read as half-open, whatever the state is by then.
SetHalfOpen(c) ==
    /\ Step(c, "setting", "admitted")
    /\ Store([status |-> "half-open", failures |-> saw[c]])
    /\ UNCHANGED <<saw, counted>>

\* A Redis command throws before the call is proxied: it is answered with 500.
CheckThrows(c) ==
    /\ at[c] \in Checking /\ at' = [at EXCEPT ![c] = "failed"]
    /\ UNCHANGED <<circuit, age, saw, counted>>

-----------------------------------------------------------------------------
(***************************************************************************)
(* recordSuccess and recordFailure.                                        *)
(***************************************************************************)
SuccessRead(c) ==
    /\ Step(c, "succeeding", IF circuit.status = "half-open" THEN "closing" ELSE "done")
    /\ UNCHANGED <<circuit, age, saw, counted>>

CloseCircuit(c) ==
    /\ Step(c, "closing", "done")
    /\ Store(Closed)
    /\ UNCHANGED <<saw, counted>>

\* Mutation: the circuit opens one failure early.
ThresholdReached_Early(state) == state.failures + 2 >= Threshold
ThresholdReached(state) == state.failures + 1 >= Threshold

FailureRead(c) ==
    /\ Step(c, "failing",
            IF circuit.status = "half-open" \/ ThresholdReached(circuit)
            THEN "opening" ELSE "counting")
    /\ saw' = [saw EXCEPT ![c] = circuit.failures + 1]
    /\ counted' = counted \cup {c}
    /\ UNCHANGED <<circuit, age>>

OpenCircuit(c) ==
    /\ Step(c, "opening", "done")
    /\ Store([status |-> "open", failures |-> Threshold])
    /\ UNCHANGED <<saw, counted>>

\* The new count is stored as "closed", whatever the state is by then.
CountFailure(c) ==
    /\ Step(c, "counting", "done")
    /\ Store([status |-> "closed", failures |-> saw[c]])
    /\ UNCHANGED <<saw, counted>>

\* A Redis command throws while an outcome is recorded: nothing is stored (and
\* a call that is not a stream is answered with the error).
RecordThrows(c) ==
    /\ at[c] \in Recording /\ at' = [at EXCEPT ![c] = "failed"]
    /\ UNCHANGED <<circuit, age, saw, counted>>

Check(c)  == CheckCircuit(c) \/ ReadAgain(c) \/ SetHalfOpen(c)
Record(c) ==
    \/ SuccessRead(c) \/ CloseCircuit(c)
    \/ FailureRead(c) \/ OpenCircuit(c) \/ CountFailure(c)
=============================================================================
