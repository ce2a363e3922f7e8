--------------------------------- MODULE Usage ---------------------------------
(***************************************************************************)
(* The event of a call on its way to the usage tables: the controller adds *)
(* a job with one event, UsageEventsProcessor inserts the event, skipping  *)
(* a request id that is there, and then adds it to the row of its owner    *)
(* and day.  The two writes are not one transaction, and an attempt that   *)
(* does not complete is run again from the start.                          *)
(***************************************************************************)
EXTENDS Integers, FiniteSets

CONSTANTS
    Served,     \* calls that passed the guards
    RequestId,  \* [Served -> Ids]: chosen by the client, unique to nobody
    Owner,      \* [Served -> Owners]
    Ids, Owners, Days, NoEvent,
    MaxAttempts,\* of a job (3)
    MaxStalled, \* how often a job survives the death of its worker (1)
    MaxEvents   \* bound: events that are queued

ASSUME UsageAssumption ==
    /\ IsFiniteSet(Served) /\ Days # {}
    /\ RequestId \in [Served -> Ids] /\ Owner \in [Served -> Owners]
    /\ MaxAttempts \in Nat \ {0} /\ MaxStalled \in Nat /\ MaxEvents \in Nat

\* What a call may report: that it was answered, or that it failed.
Outcomes == {"answered", "failed"}
UsageEvents == Served \X Outcomes
ASSUME NoEventAssumption == NoEvent \notin UsageEvents

VARIABLES
    emit,      \* where the controller is with each call
    job,       \* BullMQ, by event
    failures,  \* attempts of that job that failed
    stalled,   \* attempts of that job whose worker died
    day,       \* the UTC date of the timestamp of the event
    step,      \* what the worker of that job does next
    row,       \* Postgres request_events, by request id: the event that is stored
    requests,  \* Postgres usage_daily: request_count, by owner and day
    recounted  \* history: attempts that were counted and did not complete, as
               \* <<event, how often its job had stalled before>>

usageVars == <<emit, job, failures, stalled, day, step, row, requests, recounted>>
workVars == <<failures, stalled, step, row, requests, recounted>>

\* What the controller, the queue, the workers and Postgres may hold.
UsageTypeOK ==
    /\ emit \in [Served -> {"forwarded", "answered", "failed", "over"}]
    /\ job \in [UsageEvents -> {"absent", "waiting", "active", "completed", "failed"}]
    /\ failures \in [UsageEvents -> 0 .. MaxAttempts] /\ stalled \in [UsageEvents -> 0 .. MaxStalled + 1]
    /\ day \in [UsageEvents -> Days] /\ step \in [UsageEvents -> {"idle", "insert", "count", "complete", "catch"}]
    /\ row \in [Ids -> UsageEvents \cup {NoEvent}]
    /\ requests \in [Owners -> [Days -> Nat]] /\ recounted \subseteq UsageEvents \X (0 .. MaxStalled)

UsageInit ==
    /\ emit = [c \in Served |-> "forwarded"] /\ job = [e \in UsageEvents |-> "absent"]
    /\ failures = [e \in UsageEvents |-> 0] /\ stalled = [e \in UsageEvents |-> 0]
    /\ day = [e \in UsageEvents |-> CHOOSE d \in Days : TRUE]
    /\ step = [e \in UsageEvents |-> "idle"] /\ row = [i \in Ids |-> NoEvent]
    /\ requests = [o \in Owners |-> [d \in Days |-> 0]] /\ recounted = {}

-----------------------------------------------------------------------------
(***************************************************************************)
(* GatewayController, after the guards.                                    *)
(***************************************************************************)
Reach(c, from, to) == emit[c] = from /\ emit' = [emit EXCEPT ![c] = to]

\* The reply is sent, or an error was thrown before.
Ends(c) ==
    /\ Reach(c, "forwarded", "answered") \/ Reach(c, "forwarded", "failed")
    /\ UNCHANGED <<job, day, workVars>>

Queue(e) ==
    /\ Cardinality({f \in UsageEvents : job[f] # "absent"}) < MaxEvents
    /\ job' = [job EXCEPT ![e] = "waiting"]
    /\ \E d \in Days : day' = [day EXCEPT ![e] = d]
    /\ UNCHANGED workVars

EmitRequestCompleted(c) ==
    \E outcome \in Outcomes : Reach(c, outcome, "over") /\ Queue(<<c, outcome>>)

\* queue.add throws, with or without having added the job.  After an answer
\* that leads to the catch, which reports the call once more, as failed; there
\* the error is logged.
EmitThrows(c) ==
    \E outcome \in Outcomes :
        /\ Reach(c, outcome, IF outcome = "answered" THEN "failed" ELSE "over")
        /\ Queue(<<c, outcome>>) \/ UNCHANGED <<job, day, workVars>>

-----------------------------------------------------------------------------
(***************************************************************************)
(* UsageEventsProcessor.process, of which five run at once, and BullMQ.    *)
(***************************************************************************)
At(e, from, to) == step[e] = from /\ step' = [step EXCEPT ![e] = to]

TakeJob(e) ==
    /\ At(e, "idle", "insert") /\ job[e] = "waiting" /\ job' = [job EXCEPT ![e] = "active"]
    /\ UNCHANGED <<emit, failures, stalled, day, row, requests, recounted>>

\* createMany with skipDuplicates.
InsertRequestEvents(e) ==
    LET id == RequestId[e[1]] IN
    /\ At(e, "insert", "count")
    /\ row' = [row EXCEPT ![id] = IF @ = NoEvent THEN e ELSE @]
    /\ UNCHANGED <<emit, job, failures, stalled, day, requests, recounted>>

\* Mutation: the upsert is one of several, and the next one fails.
UpdateDailyAggregates_InParts(e) ==
    /\ At(e, "count", "complete") \/ At(e, "count", "catch")
    /\ requests' = [requests EXCEPT ![Owner[e[1]]][day[e]] = @ + 1]
    /\ UNCHANGED <<emit, job, failures, stalled, day, row, recounted>>

\* The upsert of the row of that owner and day.
UpdateDailyAggregates(e) ==
    /\ At(e, "count", "complete")
    /\ requests' = [requests EXCEPT ![Owner[e[1]]][day[e]] = @ + 1]
    /\ UNCHANGED <<emit, job, failures, stalled, day, row, recounted>>

\* Postgres fails, or two upserts both find no row and one loses.
WriteFails(e) ==
    /\ At(e, "insert", "catch") \/ At(e, "count", "catch")
    /\ UNCHANGED <<emit, job, failures, stalled, day, row, requests, recounted>>

\* Mutation: a failed attempt is put back without being counted.
ThrowAgain_Uncounted(e) ==
    /\ At(e, "catch", "idle") /\ job' = [job EXCEPT ![e] = "waiting"]
    /\ UNCHANGED <<emit, failures, stalled, day, row, requests, recounted>>

ThrowAgain(e) ==
    /\ At(e, "catch", "idle") /\ failures' = [failures EXCEPT ![e] = @ + 1]
    /\ job' = [job EXCEPT ![e] = IF failures'[e] < MaxAttempts THEN "waiting" ELSE "failed"]
    /\ UNCHANGED <<emit, stalled, day, row, requests, recounted>>

CompleteJob(e) ==
    /\ At(e, "complete", "idle") /\ job' = [job EXCEPT ![e] = "completed"]
    /\ UNCHANGED <<emit, failures, stalled, day, row, requests, recounted>>

\* The worker dies; its job stays active.
WorkerDies(e) ==
    /\ step[e] # "idle" /\ step' = [step EXCEPT ![e] = "idle"]
    /\ recounted' = IF step[e] = "complete" THEN recounted \cup {<<e, stalled[e]>>} ELSE recounted
    /\ UNCHANGED <<emit, job, failures, stalled, day, row, requests>>

\* An active job that no worker holds.
JobStalled(e) ==
    /\ job[e] = "active" /\ step[e] = "idle"
    /\ stalled' = [stalled EXCEPT ![e] = @ + 1]
    /\ job' = [job EXCEPT ![e] = IF stalled[e] < MaxStalled THEN "waiting" ELSE "failed"]
    /\ UNCHANGED <<emit, failures, day, step, row, requests, recounted>>

Report(c) == Ends(c) \/ EmitRequestCompleted(c) \/ EmitThrows(c)

Work(e) ==
    \/ TakeJob(e) \/ InsertRequestEvents(e) \/ UpdateDailyAggregates(e)
    \/ WriteFails(e) \/ ThrowAgain(e) \/ CompleteJob(e)

UsageNext ==
    \/ \E c \in Served : Report(c)
    \/ \E e \in UsageEvents : Work(e) \/ WorkerDies(e) \/ JobStalled(e)

UsageSpec == UsageInit /\ [][UsageNext]_usageVars

\* Workers run, and BullMQ finds the jobs of dead workers.
UsageFairness == \A e \in UsageEvents : WF_usageVars(Work(e) \/ JobStalled(e))
FairUsageSpec == UsageSpec /\ UsageFairness

-----------------------------------------------------------------------------
(***************************************************************************)
(* What holds.                                                             *)
(***************************************************************************)
EventsOf(o, d) == {e \in UsageEvents : Owner[e[1]] = o /\ day[e] = d /\ job[e] # "absent"}

\* The events whose last attempt was counted, and those of them whose request
\* id was stored for another event.
Counted(o, d) == {e \in EventsOf(o, d) : step[e] = "complete" \/ job[e] = "completed"}
Stored(o, d) == {e \in Counted(o, d) : row[RequestId[e[1]]] = e}
Skipped(o, d) == {e \in Counted(o, d) : row[RequestId[e[1]]] \in UsageEvents \ {e}}
Recounts(o, d) == {p \in recounted : p[1] \in EventsOf(o, d)}

\* A day of an owner counts the events that are stored, those that were skipped
\* because their request id was there, and once more for each attempt that died
\* after it had counted; a write that fails and is repeated counts nothing
\* twice, and nothing is counted that has no row (process: insert, then count).
CountsExplained ==
    \A o \in Owners, d \in Days :
        requests[o][d] = Cardinality(Stored(o, d)) + Cardinality(Skipped(o, d))
                         + Cardinality(Recounts(o, d))

Pending(c) == \E outcome \in Outcomes : job[<<c, outcome>>] \in {"waiting", "active"}

\* What a call has queued is counted or given up in the end (attempts in
\* emitRequestCompleted, the error thrown again by process).
QueuedIsSettled == \A c \in Served : Pending(c) ~> ~Pending(c)
=============================================================================
