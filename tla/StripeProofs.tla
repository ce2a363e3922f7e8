------------------------------ MODULE StripeProofs ------------------------------
(***************************************************************************)
(* Proofs about StripeWebhook, for every set of events, deliveries and     *)
(* workers and every number of attempts: its inductive invariant, and what *)
(* follows.                                                                *)
(*                                                                         *)
(* The argument: the job id makes a worker the only one of its event       *)
(* (QueueInv), so an entry can be written only when all earlier entries    *)
(* are those of attempts that failed (LedgerInv).                          *)
(***************************************************************************)
EXTENDS StripeWebhook, TLAPS

USE StripeAssumption

\* What a worker has in hand is an event.
LEMMA InHand ==
    ASSUME PipelineInv, NEW w \in Workers, step[w] # "idle"
    PROVE  /\ run[w] \in Events /\ run[w] # NoEvent /\ job[run[w]] = "active"
           /\ ~GaveUp(run[w])
<1>1. run[w] \in Events \cup {NoEvent} /\ run[w] # NoEvent
  BY DEF PipelineInv, QueueInv, TypeOK
<1>2. job[run[w]] = "active"
  BY <1>1 DEF PipelineInv, QueueInv
<1> QED BY <1>1, <1>2 DEF PipelineInv, QueueInv

LEMMA PipelineInit == Init => PipelineInv
<1> SUFFICES ASSUME Init PROVE PipelineInv
  OBVIOUS
<1>1. TypeOK
  <2>1. 0 \in 0 .. Attempts /\ 0 \in 0 .. MaxStalls + 1
    OBVIOUS
  <2> QED BY <2>1 DEF Init, TypeOK, JobState, WorkerStep
<1>2. QueueInv
  BY DEF Init, QueueInv
<1>3. LedgerInv
  BY DEF Init, LedgerInv, Past
<1>4. ProcessedIsWritten /\ EntriesExplained /\ CacheBehindLedger /\ ReceivedIsKept
  BY DEF Init, ProcessedIsWritten, EntriesExplained, CacheBehindLedger, ReceivedIsKept
<1> QED BY <1>1, <1>2, <1>3, <1>4 DEF PipelineInv

-----------------------------------------------------------------------------
(***************************************************************************)
(* Deliveries.                                                             *)
(***************************************************************************)
LEMMA ControllerKeeps ==
    ASSUME PipelineInv, NEW d \in Deliveries, Controller(d)
    PROVE  PipelineInv'
<1>1. CASE Find(d)
  <2>1. TypeOK'
    BY <1>1 DEF Find, Deliver, walletVars, PipelineInv, TypeOK
  <2>2. QueueInv' /\ LedgerInv'
    BY <1>1 DEF Find, Deliver, walletVars, PipelineInv, TypeOK, QueueInv, LedgerInv, Past, Wrote, GaveUp
  <2>3. ReceivedIsKept'
    BY <1>1 DEF Find, Deliver, walletVars, PipelineInv, TypeOK, ReceivedIsKept, GaveUp
  <2> QED BY <1>1, <2>1, <2>2, <2>3
          DEF Find, walletVars, PipelineInv, ProcessedIsWritten, EntriesExplained, CacheBehindLedger, Wrote
<1>2. CASE Create(d)
  <2>1. TypeOK'
    BY <1>2 DEF Create, Deliver, walletVars, PipelineInv, TypeOK
  <2>2. QueueInv'
    BY <1>2 DEF Create, Deliver, walletVars, PipelineInv, TypeOK, QueueInv, GaveUp
  <2>3. LedgerInv'
    BY <1>2 DEF Create, Deliver, walletVars, PipelineInv, TypeOK, LedgerInv, Past, Wrote
  <2>4. ReceivedIsKept'
    BY <1>2 DEF Create, Deliver, walletVars, PipelineInv, TypeOK, ReceivedIsKept, GaveUp
  <2>5. ProcessedIsWritten'
    BY <1>2 DEF Create, Deliver, walletVars, PipelineInv, TypeOK, ProcessedIsWritten, Wrote
  <2> QED BY <1>2, <2>1, <2>2, <2>3, <2>4, <2>5
          DEF Create, walletVars, PipelineInv, EntriesExplained, CacheBehindLedger
<1>3. CASE Add(d)
  <2>1. TypeOK'
    BY <1>3 DEF Add, Deliver, walletVars, PipelineInv, TypeOK, JobState
  <2>2. QueueInv'
    BY <1>3 DEF Add, Deliver, walletVars, PipelineInv, TypeOK, QueueInv, GaveUp
  <2>3. LedgerInv'
    BY <1>3 DEF Add, Deliver, walletVars, PipelineInv, TypeOK, QueueInv, LedgerInv, Past, Wrote
  <2>4. ReceivedIsKept'
    BY <1>3 DEF Add, Deliver, walletVars, PipelineInv, TypeOK, ReceivedIsKept, GaveUp
  <2> QED BY <1>3, <2>1, <2>2, <2>3, <2>4
          DEF Add, walletVars, PipelineInv, ProcessedIsWritten, EntriesExplained, CacheBehindLedger, Wrote
<1>4. CASE Refuse(d)
  <2>1. TypeOK'
    BY <1>4 DEF Refuse, Deliver, walletVars, PipelineInv, TypeOK
  <2>2. QueueInv' /\ LedgerInv' /\ ReceivedIsKept'
    BY <1>4 DEF Refuse, Deliver, walletVars, PipelineInv, TypeOK, QueueInv, LedgerInv, Past, Wrote,
                GaveUp, ReceivedIsKept
  <2> QED BY <1>4, <2>1, <2>2
          DEF Refuse, walletVars, PipelineInv, ProcessedIsWritten, EntriesExplained, CacheBehindLedger, Wrote
<1> QED BY <1>1, <1>2, <1>3, <1>4 DEF Controller

-----------------------------------------------------------------------------
(***************************************************************************)
(* Workers.  The first lemma is about the steps that leave the queue and   *)
(* the deliveries alone.                                                   *)
(***************************************************************************)
LEMMA WorkerMoves ==
    ASSUME PipelineInv, NEW w \in Workers, step[w] # "idle",
           NEW to \in WorkerStep \ {"idle", "complete"}, step' = [step EXCEPT ![w] = to],
           UNCHANGED <<deliveryVars, run>>
    PROVE  /\ QueueInv' /\ ReceivedIsKept'
           /\ step' \in [Workers -> WorkerStep]
           /\ stored' \in [Events -> {"absent", "stored", "processed"}] /\ job' \in [Events -> JobState]
           /\ attempts' \in [Events -> 0 .. Attempts] /\ stalls' \in [Events -> 0 .. MaxStalls + 1]
           /\ at' \in [Deliveries -> {"unsent", "sent", "creating", "adding", "acked", "refused"}]
           /\ run' \in [Workers -> Events \cup {NoEvent}]
<1>1. QueueInv'
  BY DEF PipelineInv, TypeOK, QueueInv, GaveUp, deliveryVars
<1> QED BY <1>1 DEF PipelineInv, TypeOK, ReceivedIsKept, GaveUp, deliveryVars

LEMMA CommitKeeps ==
    ASSUME PipelineInv, NEW w \in Workers, Commit(w)
    PROVE  PipelineInv'
<1> DEFINE e == run[w]
<1>1. /\ e \in Events /\ job[e] = "active" /\ step[w] = "handle" /\ Wrote(e)
      /\ UNCHANGED <<deliveryVars, run, cached, flag, repeats>>
      /\ entries' = [entries EXCEPT ![e] = @ + 1]
      /\ step' = [step EXCEPT ![w] = IF Kind[e] = "chargeback" THEN "mark" ELSE "redis"]
  BY InHand DEF Commit, Wrote
<1>2. entries[e] <= repeats[e]
  BY <1>1 DEF PipelineInv, QueueInv, LedgerInv, Past
<1>3. QueueInv' /\ ReceivedIsKept'
  BY <1>1, WorkerMoves DEF WorkerStep
<1>4. locked' \in BOOLEAN /\ crossed' \in BOOLEAN
  BY DEF Commit, PipelineInv, TypeOK
<1>5. TypeOK'
  <2>1. entries' \in [Events -> Nat] /\ cached' \in [Events -> Nat] /\ repeats' \in [Events -> Nat] /\ flag' \in BOOLEAN
    BY <1>1 DEF PipelineInv, TypeOK
  <2>2. step[w] # "idle" /\ \E to \in WorkerStep \ {"idle", "complete"} : step' = [step EXCEPT ![w] = to]
    BY <1>1 DEF WorkerStep
  <2> QED BY <1>1, <1>4, <2>1, <2>2, WorkerMoves DEF TypeOK
<1>6. LedgerInv'
  BY <1>1, <1>2 DEF PipelineInv, TypeOK, QueueInv, LedgerInv, Past, Wrote, deliveryVars, CacheBehindLedger
<1>7. ProcessedIsWritten' /\ EntriesExplained' /\ CacheBehindLedger'
  BY <1>1, <1>2 DEF PipelineInv, TypeOK, ProcessedIsWritten, EntriesExplained, CacheBehindLedger, Wrote, deliveryVars
<1> QED BY <1>3, <1>5, <1>6, <1>7 DEF PipelineInv

LEMMA HandleNothingKeeps ==
    ASSUME PipelineInv, NEW w \in Workers, HandleNothing(w) \/ HandlerThrows(w)
    PROVE  PipelineInv'
<1>1. /\ step[w] = "handle" /\ UNCHANGED <<deliveryVars, run, walletVars>>
      /\ \/ Kind[run[w]] = "none" /\ step' = [step EXCEPT ![w] = "mark"]
         \/ step' = [step EXCEPT ![w] = "catch"]
  BY DEF HandleNothing, HandlerThrows, Goto
<1>2. QueueInv' /\ ReceivedIsKept' /\ TypeOK'
  BY <1>1, WorkerMoves DEF WorkerStep, PipelineInv, TypeOK, walletVars
<1>3. LedgerInv'
  BY <1>1 DEF PipelineInv, TypeOK, LedgerInv, Past, Wrote, deliveryVars, walletVars
<1> QED BY <1>1, <1>2, <1>3
        DEF PipelineInv, ProcessedIsWritten, EntriesExplained, CacheBehindLedger, Wrote, deliveryVars, walletVars

LEMMA UpdateRedisKeeps ==
    ASSUME PipelineInv, NEW w \in Workers, UpdateRedis(w)
    PROVE  PipelineInv'
<1> DEFINE e == run[w]
<1>1. /\ e \in Events /\ step[w] = "redis" /\ step' = [step EXCEPT ![w] = "mark"]
      /\ cached' = [cached EXCEPT ![e] = IF Kind[e] = "topup" THEN @ + 1 ELSE @]
      /\ UNCHANGED <<deliveryVars, run, entries, locked, repeats, crossed>>
  BY InHand DEF UpdateRedis, Goto
<1>2. Wrote(e) /\ cached[e] < entries[e]
  BY <1>1 DEF PipelineInv, LedgerInv
<1>3. flag' \in BOOLEAN
  BY DEF UpdateRedis, PipelineInv, TypeOK
<1>4. QueueInv' /\ ReceivedIsKept' /\ TypeOK'
  <2>1. entries' \in [Events -> Nat] /\ repeats' \in [Events -> Nat] /\ locked' \in BOOLEAN /\ crossed' \in BOOLEAN
    BY <1>1 DEF PipelineInv, TypeOK
  <2>2. cached' \in [Events -> Nat]
    BY <1>1 DEF PipelineInv, TypeOK
  <2>3. step[w] # "idle" /\ "mark" \in WorkerStep \ {"idle", "complete"}
    BY <1>1 DEF WorkerStep
  <2> QED BY <1>1, <1>3, <2>1, <2>2, <2>3, WorkerMoves DEF TypeOK
<1>5. \A v \in Workers : v # w /\ step[v] = "redis" => run[v] # e
  BY <1>1 DEF PipelineInv, QueueInv
<1>6. LedgerInv'
  BY <1>1, <1>5 DEF PipelineInv, TypeOK, LedgerInv, Past, deliveryVars
<1>7. CacheBehindLedger'
  BY <1>1, <1>2 DEF PipelineInv, TypeOK, CacheBehindLedger
<1> QED BY <1>1, <1>4, <1>6, <1>7 DEF PipelineInv, ProcessedIsWritten, EntriesExplained, deliveryVars

LEMMA RedisFailsKeeps ==
    ASSUME PipelineInv, NEW w \in Workers, RedisFails(w)
    PROVE  PipelineInv'
<1> DEFINE e == run[w]
<1>1. /\ e \in Events /\ step[w] = "redis"
      /\ UNCHANGED <<deliveryVars, run, entries, cached, locked, flag, crossed>>
      /\ \/ step' = [step EXCEPT ![w] = "catch"] /\ repeats' = [repeats EXCEPT ![e] = @ + 1]
         \/ step' = [step EXCEPT ![w] = "mark"] /\ repeats' = repeats
  BY InHand DEF RedisFails, Goto, PipelineInv, TypeOK
<1>2. QueueInv' /\ ReceivedIsKept' /\ TypeOK'
  BY <1>1, WorkerMoves DEF WorkerStep, PipelineInv, TypeOK
<1>3. LedgerInv' /\ EntriesExplained'
  BY <1>1 DEF PipelineInv, TypeOK, LedgerInv, EntriesExplained, Past, deliveryVars
<1> QED BY <1>1, <1>2, <1>3 DEF PipelineInv, ProcessedIsWritten, CacheBehindLedger, deliveryVars

LEMMA MarkKeeps ==
    ASSUME PipelineInv, NEW w \in Workers, Mark(w)
    PROVE  PipelineInv'
<1> DEFINE e == run[w]
<1>1. /\ e \in Events /\ step[w] = "mark" /\ step' = [step EXCEPT ![w] = "complete"]
      /\ job[e] = "active" /\ stored' = [stored EXCEPT ![e] = "processed"]
      /\ UNCHANGED <<job, attempts, stalls, at, run, walletVars>>
  BY InHand DEF Mark, Goto
<1>2. TypeOK'
  BY <1>1 DEF PipelineInv, TypeOK, WorkerStep, walletVars
<1>3. QueueInv'
  BY <1>1 DEF PipelineInv, TypeOK, QueueInv, GaveUp
<1>4. LedgerInv'
  BY <1>1 DEF PipelineInv, TypeOK, LedgerInv, Past, walletVars
<1>5. Wrote(e) => entries[e] > 0
  BY <1>1 DEF PipelineInv, LedgerInv, Past
<1>6. ProcessedIsWritten'
  BY <1>1, <1>5 DEF PipelineInv, TypeOK, ProcessedIsWritten, Wrote, walletVars
<1>7. ReceivedIsKept'
  BY <1>1 DEF PipelineInv, TypeOK, ReceivedIsKept, GaveUp
<1> QED BY <1>1, <1>2, <1>3, <1>4, <1>6, <1>7 DEF PipelineInv, EntriesExplained, CacheBehindLedger, walletVars

LEMMA MarkFailsKeeps ==
    ASSUME PipelineInv, NEW w \in Workers, MarkFails(w)
    PROVE  PipelineInv'
<1> DEFINE e == run[w]
<1>1. /\ e \in Events /\ step[w] = "mark" /\ step' = [step EXCEPT ![w] = "catch"]
      /\ repeats' = [repeats EXCEPT ![e] = IF Wrote(e) THEN @ + 1 ELSE @]
      /\ UNCHANGED <<deliveryVars, run, entries, cached, locked, flag, crossed>>
  BY InHand DEF MarkFails, Goto
<1>2. QueueInv' /\ ReceivedIsKept' /\ TypeOK'
  <2>1. /\ entries' \in [Events -> Nat] /\ cached' \in [Events -> Nat] /\ repeats' \in [Events -> Nat]
        /\ locked' \in BOOLEAN /\ flag' \in BOOLEAN /\ crossed' \in BOOLEAN
    BY <1>1 DEF PipelineInv, TypeOK
  <2>2. step[w] # "idle" /\ "catch" \in WorkerStep \ {"idle", "complete"}
    BY <1>1 DEF WorkerStep
  <2> QED BY <1>1, <2>1, <2>2, WorkerMoves DEF TypeOK
<1>3. LedgerInv' /\ EntriesExplained'
  BY <1>1 DEF PipelineInv, TypeOK, LedgerInv, EntriesExplained, Past, deliveryVars
<1> QED BY <1>1, <1>2, <1>3 DEF PipelineInv, ProcessedIsWritten, CacheBehindLedger, deliveryVars

LEMMA RethrowKeeps ==
    ASSUME PipelineInv, NEW w \in Workers, Rethrow(w)
    PROVE  PipelineInv'
<1> DEFINE e == run[w]
<1>1. /\ e \in Events /\ job[e] = "active" /\ ~GaveUp(e) /\ step[w] = "catch"
      /\ run' = [run EXCEPT ![w] = NoEvent] /\ step' = [step EXCEPT ![w] = "idle"]
      /\ attempts' = [attempts EXCEPT ![e] = @ + 1]
      /\ job' = [job EXCEPT ![e] = IF attempts'[e] < Attempts THEN "waiting" ELSE "failed"]
      /\ UNCHANGED <<stored, stalls, at, walletVars>>
  BY InHand DEF Rethrow, Idle
<1>2. attempts[e] \in Nat /\ attempts[e] < Attempts /\ attempts'[e] = attempts[e] + 1 /\ ~(stalls[e] > MaxStalls)
  BY <1>1 DEF PipelineInv, TypeOK, GaveUp
<1>3. entries[e] <= repeats[e]
  BY <1>1 DEF PipelineInv, QueueInv, LedgerInv, Past
<1>4. \/ job'[e] = "waiting" /\ attempts'[e] < Attempts
      \/ job'[e] = "failed" /\ attempts'[e] = Attempts
  <2>1. job'[e] = IF attempts'[e] < Attempts THEN "waiting" ELSE "failed"
    BY <1>1 DEF PipelineInv, TypeOK
  <2> QED BY <1>2, <2>1
<1>5. \A f \in Events : f # e => job'[f] = job[f] /\ attempts'[f] = attempts[f]
  BY <1>1 DEF PipelineInv, TypeOK
<1>6. attempts' \in [Events -> 0 .. Attempts]
  <2>1. attempts[e] + 1 \in 0 .. Attempts
    BY <1>2
  <2>2. attempts \in [Events -> 0 .. Attempts]
    BY DEF PipelineInv, TypeOK
  <2> QED BY <1>1, <2>1, <2>2
<1>7. TypeOK'
  BY <1>1, <1>6 DEF PipelineInv, TypeOK, JobState, WorkerStep, walletVars
<1>8. QueueInv'
  BY <1>1, <1>2, <1>4, <1>5 DEF PipelineInv, TypeOK, QueueInv, GaveUp
<1>9. LedgerInv'
  BY <1>1, <1>3, <1>5 DEF PipelineInv, TypeOK, QueueInv, LedgerInv, Past, walletVars
<1>10. ReceivedIsKept'
  BY <1>1, <1>4, <1>5 DEF PipelineInv, TypeOK, ReceivedIsKept, GaveUp
<1> QED BY <1>1, <1>7, <1>8, <1>9, <1>10
        DEF PipelineInv, ProcessedIsWritten, EntriesExplained, CacheBehindLedger, walletVars

LEMMA CompleteKeeps ==
    ASSUME PipelineInv, NEW w \in Workers, Complete(w)
    PROVE  PipelineInv'
<1> DEFINE e == run[w]
<1>1. /\ e \in Events /\ job[e] = "active" /\ step[w] = "complete" /\ job' = [job EXCEPT ![e] = "completed"]
      /\ run' = [run EXCEPT ![w] = NoEvent] /\ step' = [step EXCEPT ![w] = "idle"]
      /\ UNCHANGED <<stored, attempts, stalls, at, walletVars>>
  BY InHand DEF Complete, Idle
<1>2. stored[e] = "processed"
  BY <1>1 DEF PipelineInv, QueueInv
<1>3. TypeOK'
  BY <1>1 DEF PipelineInv, TypeOK, JobState, WorkerStep, walletVars
<1>4. QueueInv'
  BY <1>1, <1>2 DEF PipelineInv, TypeOK, QueueInv, GaveUp
<1>5. LedgerInv'
  BY <1>1 DEF PipelineInv, TypeOK, QueueInv, LedgerInv, Past, walletVars
<1>6. ReceivedIsKept'
  BY <1>1 DEF PipelineInv, TypeOK, ReceivedIsKept, GaveUp
<1> QED BY <1>1, <1>3, <1>4, <1>5, <1>6
        DEF PipelineInv, ProcessedIsWritten, EntriesExplained, CacheBehindLedger, walletVars

LEMMA CrashKeeps ==
    ASSUME PipelineInv, NEW w \in Workers, Crash(w)
    PROVE  PipelineInv'
<1> DEFINE e == run[w]
<1>1. /\ e \in Events /\ e # NoEvent
      /\ run' = [run EXCEPT ![w] = NoEvent] /\ step' = [step EXCEPT ![w] = "idle"]
      /\ repeats' = [repeats EXCEPT ![e] = IF Past(w) THEN @ + 1 ELSE @]
      /\ UNCHANGED <<deliveryVars, entries, cached, locked, flag, crossed>>
  BY InHand DEF Crash, Idle, Past
<1>2. TypeOK'
  BY <1>1 DEF PipelineInv, TypeOK, WorkerStep, deliveryVars
<1>3. QueueInv'
  BY <1>1 DEF PipelineInv, TypeOK, QueueInv, GaveUp, deliveryVars
<1>4. LedgerInv' /\ EntriesExplained'
  <2>1. job[e] = "active"
    BY <1>1 DEF PipelineInv, QueueInv
  <2>2. entries[e] <= repeats'[e]
    <3>1. CASE Past(w)
      BY <1>1, <3>1 DEF PipelineInv, TypeOK, EntriesExplained
    <3>2. CASE ~Past(w)
      <4>1. \A v \in Workers : run[v] = e => v = w
        BY <1>1 DEF PipelineInv, QueueInv
      <4> QED BY <1>1, <2>1, <3>2, <4>1 DEF PipelineInv, TypeOK, LedgerInv
    <3> QED BY <3>1, <3>2
  <2>3. repeats'[e] \in Nat /\ entries[e] \in Nat /\ \A f \in Events : f # e => repeats'[f] = repeats[f]
    BY <1>1 DEF PipelineInv, TypeOK
  <2> QED BY <1>1, <2>2, <2>3 DEF PipelineInv, TypeOK, LedgerInv, EntriesExplained, Past, deliveryVars
<1>5. ReceivedIsKept'
  BY <1>1 DEF PipelineInv, ReceivedIsKept, GaveUp, deliveryVars
<1> QED BY <1>1, <1>2, <1>3, <1>4, <1>5 DEF PipelineInv, ProcessedIsWritten, CacheBehindLedger, deliveryVars

LEMMA TakeKeeps ==
    ASSUME PipelineInv, NEW w \in Workers, NEW e \in Events, Take(w, e)
    PROVE  PipelineInv'
<1>1. /\ step[w] = "idle" /\ job[e] = "waiting" /\ job' = [job EXCEPT ![e] = "active"]
      /\ run' = [run EXCEPT ![w] = e] /\ step' = [step EXCEPT ![w] = "handle"]
      /\ UNCHANGED <<stored, attempts, stalls, at, walletVars>>
  BY DEF Take
<1>2. TypeOK'
  BY <1>1 DEF PipelineInv, TypeOK, JobState, WorkerStep, walletVars
<1>3. QueueInv'
  BY <1>1 DEF PipelineInv, TypeOK, QueueInv, GaveUp
<1>4. LedgerInv'
  BY <1>1 DEF PipelineInv, TypeOK, QueueInv, LedgerInv, Past, walletVars
<1>5. ReceivedIsKept'
  BY <1>1 DEF PipelineInv, TypeOK, ReceivedIsKept, GaveUp
<1> QED BY <1>1, <1>2, <1>3, <1>4, <1>5
        DEF PipelineInv, ProcessedIsWritten, EntriesExplained, CacheBehindLedger, walletVars

-----------------------------------------------------------------------------
(***************************************************************************)
(* The queue.                                                              *)
(***************************************************************************)
LEMMA StalledKeeps ==
    ASSUME PipelineInv, NEW e \in Events, Stalled(e)
    PROVE  PipelineInv'
<1>1. /\ job[e] = "active" /\ \A w \in Workers : run[w] # e
      /\ stalls' = [stalls EXCEPT ![e] = @ + 1]
      /\ job' = [job EXCEPT ![e] = IF stalls[e] < MaxStalls THEN "waiting" ELSE "failed"]
      /\ UNCHANGED <<stored, attempts, at, run, step, walletVars>>
  BY DEF Stalled
<1>2. stalls[e] \in Nat /\ stalls[e] <= MaxStalls /\ attempts[e] # Attempts
  BY <1>1 DEF PipelineInv, TypeOK, QueueInv, GaveUp
<1>3. /\ stalls'[e] = stalls[e] + 1 /\ \A f \in Events : f # e => job'[f] = job[f] /\ stalls'[f] = stalls[f]
      /\ \/ job'[e] = "waiting" /\ ~(stalls'[e] > MaxStalls)
         \/ job'[e] = "failed" /\ stalls'[e] > MaxStalls
  <2>1. job'[e] = (IF stalls[e] < MaxStalls THEN "waiting" ELSE "failed") /\ stalls'[e] = stalls[e] + 1
    BY <1>1 DEF PipelineInv, TypeOK
  <2>2. \A f \in Events : f # e => job'[f] = job[f] /\ stalls'[f] = stalls[f]
    BY <1>1 DEF PipelineInv, TypeOK
  <2> QED BY <1>2, <2>1, <2>2
<1>4. stalls' \in [Events -> 0 .. MaxStalls + 1]
  <2>1. stalls[e] + 1 \in 0 .. MaxStalls + 1
    BY <1>2
  <2>2. stalls \in [Events -> 0 .. MaxStalls + 1]
    BY DEF PipelineInv, TypeOK
  <2> QED BY <1>1, <2>1, <2>2
<1>5. TypeOK'
  BY <1>1, <1>4 DEF PipelineInv, TypeOK, JobState, walletVars
<1>6. QueueInv'
  BY <1>1, <1>2, <1>3 DEF PipelineInv, TypeOK, QueueInv, GaveUp
<1>7. LedgerInv'
  BY <1>1, <1>3 DEF PipelineInv, TypeOK, LedgerInv, Past, walletVars
<1>8. ReceivedIsKept'
  BY <1>1, <1>3 DEF PipelineInv, TypeOK, ReceivedIsKept, GaveUp
<1> QED BY <1>1, <1>5, <1>6, <1>7, <1>8
        DEF PipelineInv, ProcessedIsWritten, EntriesExplained, CacheBehindLedger, walletVars

LEMMA ForgetKeeps ==
    ASSUME PipelineInv, NEW e \in Events, Forget(e)
    PROVE  PipelineInv'
<1>1. /\ job[e] \in {"completed", "failed"} /\ job' = [job EXCEPT ![e] = "absent"]
      /\ \A d \in Deliveries : EventOf[d] = e => at[d] \notin {"creating", "adding"}
      /\ UNCHANGED <<stored, attempts, stalls, at, run, step, walletVars>>
  BY DEF Forget
<1>2. TypeOK'
  BY <1>1 DEF PipelineInv, TypeOK, JobState, walletVars
<1>3. QueueInv'
  BY <1>1 DEF PipelineInv, TypeOK, QueueInv, GaveUp
<1>4. LedgerInv'
  BY <1>1 DEF PipelineInv, TypeOK, QueueInv, LedgerInv, Past, walletVars
<1>5. ReceivedIsKept'
  BY <1>1 DEF PipelineInv, TypeOK, QueueInv, ReceivedIsKept, GaveUp
<1> QED BY <1>1, <1>2, <1>3, <1>4, <1>5
        DEF PipelineInv, ProcessedIsWritten, EntriesExplained, CacheBehindLedger, walletVars

-----------------------------------------------------------------------------
(***************************************************************************)
(* All steps together.                                                     *)
(***************************************************************************)
LEMMA PipelineKeeps ==
    ASSUME PipelineInv, [Next]_vars
    PROVE  PipelineInv'
<1>1. ASSUME NEW d \in Deliveries, Controller(d) PROVE PipelineInv'
  BY <1>1, ControllerKeeps
<1>2. ASSUME NEW w \in Workers, Process(w) PROVE PipelineInv'
  BY <1>2, CommitKeeps, HandleNothingKeeps, UpdateRedisKeeps, RedisFailsKeeps, MarkKeeps,
     MarkFailsKeeps, RethrowKeeps, CompleteKeeps DEF Process
<1>3. ASSUME NEW w \in Workers, Crash(w) PROVE PipelineInv'
  BY <1>3, CrashKeeps
<1>4. ASSUME NEW w \in Workers, NEW e \in Events, Take(w, e) PROVE PipelineInv'
  BY <1>4, TakeKeeps
<1>5. ASSUME NEW e \in Events, Stalled(e) \/ Forget(e) PROVE PipelineInv'
  BY <1>5, StalledKeeps, ForgetKeeps
<1>6. CASE UNCHANGED vars
  BY <1>6 DEF vars, PipelineInv, TypeOK, QueueInv, LedgerInv, Past, GaveUp, ProcessedIsWritten,
              EntriesExplained, CacheBehindLedger, ReceivedIsKept
<1> QED BY <1>1, <1>2, <1>3, <1>4, <1>5, <1>6 DEF Next

-----------------------------------------------------------------------------
(***************************************************************************)
(* The two halves of locks and unlocks.                                    *)
(***************************************************************************)
\* Steps that leave the wallet's lock alone, and the progress of the workers
\* between, before and after the halves of locks, and make no job complete.
LEMMA LockStays ==
    ASSUME LockInv, UNCHANGED <<locked, flag, crossed>>,
           \A w \in Workers : BetweenHalves(w)' <=> BetweenHalves(w),
           \A w \in Workers : BetweenHalves(w) => run'[w] = run[w],
           \A e \in Events : Unfinished(e) => Unfinished(e)',
           \A w \in Workers : step'[w] \in {"mark", "complete"} =>
               \/ run'[w] = run[w] /\ step[w] \in {"mark", "complete"}
               \/ ~IsLock(run'[w])
    PROVE  LockInv'
BY DEF LockInv, Unfinished, IsLock

LEMMA LockInit == Init => LockInv
BY DEF Init, LockInv, BetweenHalves

LEMMA ControllerKeepsLock ==
    ASSUME PipelineInv, LockInv, NEW d \in Deliveries, Controller(d)
    PROVE  LockInv'
<1>1. /\ UNCHANGED <<run, step, walletVars>>
      /\ \A e \in Events : job'[e] = job[e] \/ job'[e] = "waiting"
  BY DEF Controller, Find, Create, Add, Refuse, PipelineInv, TypeOK
<1> QED BY <1>1, LockStays DEF walletVars, BetweenHalves, Unfinished, IsLock

LEMMA CommitKeepsLock ==
    ASSUME PipelineInv, LockInv, NEW w \in Workers, Commit(w)
    PROVE  LockInv'
<1>1. /\ step[w] = "handle" /\ step' \in [Workers -> WorkerStep] /\ UNCHANGED <<job, run, flag, repeats>>
      /\ step' = [step EXCEPT ![w] = IF Kind[run[w]] = "chargeback" THEN "mark" ELSE "redis"]
      /\ run[w] \in Events
  BY InHand DEF Commit, deliveryVars, PipelineInv, TypeOK, WorkerStep
<1>2. \A v \in Workers : v # w => step'[v] = step[v]
  BY <1>1
<1>3. step'[w] = (IF Kind[run[w]] = "chargeback" THEN "mark" ELSE "redis")
  BY <1>1 DEF PipelineInv, TypeOK
<1>4. CASE IsLock(run[w])
  <2>1. BetweenHalves(w)' /\ locked' = (Kind[run[w]] = "lock")
    BY <1>1, <1>3, <1>4 DEF BetweenHalves, IsLock, Commit
  <2>2. ~crossed' => \A v \in Workers : BetweenHalves(v)' => v = w
    BY <1>1, <1>2, <1>4 DEF BetweenHalves, Commit
  <2> QED BY <1>1, <2>1, <2>2 DEF LockInv
<1>5. CASE ~IsLock(run[w])
  <2>1. UNCHANGED <<locked, flag>> /\ crossed' = crossed
    BY <1>5 DEF Commit, IsLock, PipelineInv, TypeOK
  <2>2. \A v \in Workers : BetweenHalves(v)' <=> BetweenHalves(v)
    BY <1>1, <1>2, <1>5 DEF BetweenHalves, IsLock
  <2>3. \A e \in Events : Unfinished(e) => Unfinished(e)'
    BY <1>1 DEF Unfinished, IsLock
  <2> QED BY <1>1, <1>2, <1>5, <2>1, <2>2, <2>3, LockStays DEF IsLock
<1> QED BY <1>4, <1>5

LEMMA UpdateRedisKeepsLock ==
    ASSUME PipelineInv, LockInv, NEW w \in Workers, UpdateRedis(w)
    PROVE  LockInv'
<1>1. /\ step[w] = "redis" /\ step'[w] = "mark" /\ UNCHANGED <<job, run, locked, repeats, crossed>>
      /\ \A v \in Workers : v # w => step'[v] = step[v]
  BY DEF UpdateRedis, Goto, deliveryVars, PipelineInv, TypeOK
<1>2. CASE IsLock(run[w])
  <2>1. flag' = (Kind[run[w]] = "lock")
    BY <1>2 DEF UpdateRedis, IsLock
  <2>2. ~crossed => locked = flag' /\ \A v \in Workers : ~BetweenHalves(v)'
    BY <1>1, <1>2, <2>1 DEF LockInv, BetweenHalves
  <2> QED BY <1>1, <2>2 DEF LockInv
<1>3. CASE ~IsLock(run[w])
  <2>1. flag' = flag
    BY <1>3 DEF UpdateRedis, IsLock
  <2>2. /\ \A v \in Workers : BetweenHalves(v)' <=> BetweenHalves(v)
        /\ \A e \in Events : Unfinished(e) => Unfinished(e)'
    BY <1>1, <1>3 DEF BetweenHalves, IsLock, Unfinished
  <2> QED BY <1>1, <1>3, <2>1, <2>2, LockStays DEF IsLock
<1> QED BY <1>2, <1>3

\* A lock or an unlock that fails after its first half leaves its event to be
\* repeated.
LEMMA HalfDone ==
    ASSUME PipelineInv, LockInv, NEW w \in Workers, BetweenHalves(w),
           UNCHANGED <<job, locked, flag, crossed>>,
           repeats' = [repeats EXCEPT ![run[w]] = @ + 1],
           NEW to \in {"catch", "idle"}, step' = [step EXCEPT ![w] = to],
           \A v \in Workers : v # w => run'[v] = run[v],
           run'[w] = run[w] \/ run'[w] = NoEvent
    PROVE  LockInv'
<1>1. run[w] \in Events /\ job[run[w]] = "active" /\ run[w] # NoEvent
  BY InHand DEF BetweenHalves
<1>2. /\ step'[w] = to /\ \A v \in Workers : v # w => step'[v] = step[v]
      /\ repeats'[run[w]] = repeats[run[w]] + 1 /\ repeats[run[w]] \in Nat
  BY <1>1 DEF PipelineInv, TypeOK
<1>3. IsLock(run[w]) /\ repeats'[run[w]] > 0 /\ job'[run[w]] # "completed"
  BY <1>1, <1>2 DEF BetweenHalves
<1>4. \A v \in Workers : run'[v] = run[w] => step'[v] \notin {"mark", "complete"}
  BY <1>1, <1>2 DEF PipelineInv, QueueInv
<1>5. ~crossed => \A v \in Workers : ~BetweenHalves(v)'
  BY <1>2 DEF LockInv, BetweenHalves, IsLock
<1> QED BY <1>1, <1>3, <1>4, <1>5 DEF LockInv, Unfinished, IsLock

LEMMA RedisFailsKeepsLock ==
    ASSUME PipelineInv, LockInv, NEW w \in Workers, RedisFails(w)
    PROVE  LockInv'
<1>1. step[w] = "redis" /\ UNCHANGED <<job, run, locked, flag, crossed>>
  BY DEF RedisFails, deliveryVars
<1>2. CASE IsLock(run[w])
  BY <1>1, <1>2, HalfDone DEF RedisFails, Goto, BetweenHalves
<1>3. CASE ~IsLock(run[w])
  <2>1. step'[w] = "mark" /\ \A v \in Workers : v # w => step'[v] = step[v]
    BY <1>3 DEF RedisFails, Goto, PipelineInv, TypeOK
  <2>2. \A e \in Events : repeats'[e] = repeats[e]
    BY <1>3 DEF RedisFails, PipelineInv, TypeOK
  <2>3. /\ \A v \in Workers : BetweenHalves(v)' <=> BetweenHalves(v)
        /\ \A e \in Events : Unfinished(e) => Unfinished(e)'
    BY <1>1, <1>3, <2>1, <2>2 DEF BetweenHalves, IsLock, Unfinished
  <2> QED BY <1>1, <1>3, <2>1, <2>3, LockStays DEF IsLock
<1> QED BY <1>2, <1>3

\* The other steps of process, but for the completion of a job.
LEMMA ProcessKeepsLock ==
    ASSUME PipelineInv, LockInv, NEW w \in Workers,
           HandleNothing(w) \/ HandlerThrows(w) \/ Mark(w) \/ MarkFails(w) \/ Rethrow(w)
    PROVE  LockInv'
<1>1. UNCHANGED <<locked, flag, crossed>> /\ step[w] \in {"handle", "mark", "catch"}
  BY DEF HandleNothing, HandlerThrows, Mark, MarkFails, Rethrow, Goto, walletVars
<1>2. /\ \A v \in Workers : v # w => step'[v] = step[v] /\ run'[v] = run[v]
      /\ step'[w] \in {"mark", "complete", "catch", "idle"}
      /\ step'[w] \in {"mark", "complete"} =>
            run'[w] = run[w] /\ (step[w] = "mark" \/ Kind[run[w]] = "none")
  BY DEF HandleNothing, HandlerThrows, Mark, MarkFails, Rethrow, Goto, Idle, deliveryVars,
         PipelineInv, TypeOK
<1>3. \A v \in Workers : BetweenHalves(v)' <=> BetweenHalves(v)
  BY <1>1, <1>2 DEF BetweenHalves, IsLock
<1>4. run[w] \in Events /\ job[run[w]] = "active"
  BY <1>1, InHand
<1>5. \A e \in Events : repeats'[e] >= repeats[e] /\ (job'[e] = job[e] \/ job'[e] # "completed")
  <2>1. \A e \in Events : repeats[e] \in Nat
    BY DEF PipelineInv, TypeOK
  <2>2. \A e \in Events : repeats'[e] = repeats[e] \/ repeats'[e] = repeats[e] + 1
    BY <1>4 DEF HandleNothing, HandlerThrows, Mark, MarkFails, Rethrow, walletVars, PipelineInv, TypeOK
  <2>3. \A e \in Events : job'[e] = job[e] \/ job'[e] # "completed"
    BY <1>4 DEF HandleNothing, HandlerThrows, Mark, MarkFails, Rethrow, deliveryVars, PipelineInv, TypeOK
  <2> QED BY <2>1, <2>2, <2>3
<1>6. \A e \in Events : Unfinished(e) => Unfinished(e)'
  <2>1. \A e \in Events : repeats[e] \in Nat /\ (repeats[e] > 0 => repeats'[e] > 0)
    BY <1>5 DEF PipelineInv, TypeOK, HandleNothing, HandlerThrows, Mark, MarkFails, Rethrow, walletVars
  <2> QED BY <1>5, <2>1 DEF Unfinished, IsLock
<1>7. \A v \in Workers : step'[v] \in {"mark", "complete"} =>
          \/ run'[v] = run[v] /\ step[v] \in {"mark", "complete"}
          \/ ~IsLock(run'[v])
  BY <1>2 DEF IsLock
<1>8. \A v \in Workers : BetweenHalves(v) => run'[v] = run[v]
  BY <1>1, <1>2 DEF BetweenHalves
<1> QED BY <1>1, <1>3, <1>6, <1>7, <1>8, LockStays

LEMMA CompleteKeepsLock ==
    ASSUME PipelineInv, LockInv, NEW w \in Workers, Complete(w)
    PROVE  LockInv'
<1>1. /\ step[w] = "complete" /\ UNCHANGED <<locked, flag, crossed, repeats>> /\ run[w] \in Events
      /\ job' = [job EXCEPT ![run[w]] = "completed"]
      /\ run' = [run EXCEPT ![w] = NoEvent] /\ step' = [step EXCEPT ![w] = "idle"]
  BY InHand DEF Complete, Idle, walletVars
<1>2. \A v \in Workers : v # w => step'[v] = step[v] /\ run'[v] = run[v]
  BY <1>1 DEF PipelineInv, TypeOK
<1>3. step'[w] = "idle" /\ run'[w] = NoEvent
  BY <1>1 DEF PipelineInv, TypeOK
<1>4. \A v \in Workers : (BetweenHalves(v)' <=> BetweenHalves(v)) /\ (BetweenHalves(v) => run'[v] = run[v])
  BY <1>1, <1>2, <1>3 DEF BetweenHalves, IsLock
<1>5. ASSUME NEW e \in Events, Unfinished(e),
             \A v \in Workers : run[v] = e => step[v] \notin {"mark", "complete"}
      PROVE  Unfinished(e)' /\ \A v \in Workers : run'[v] = e => step'[v] \notin {"mark", "complete"}
  <2>1. e # run[w]
    BY <1>1, <1>5
  <2>2. job'[e] = job[e] /\ repeats'[e] = repeats[e]
    BY <1>1, <2>1 DEF PipelineInv, TypeOK
  <2> QED BY <1>2, <1>3, <1>5, <2>2 DEF Unfinished, IsLock
<1> QED BY <1>1, <1>4, <1>5 DEF LockInv

LEMMA CrashKeepsLock ==
    ASSUME PipelineInv, LockInv, NEW w \in Workers, Crash(w)
    PROVE  LockInv'
<1>1. /\ step[w] # "idle" /\ UNCHANGED <<job, locked, flag, crossed>> /\ run[w] \in Events
      /\ run' = [run EXCEPT ![w] = NoEvent] /\ step' = [step EXCEPT ![w] = "idle"]
      /\ repeats' = [repeats EXCEPT ![run[w]] =
                        IF Wrote(run[w]) /\ step[w] \in {"redis", "mark", "complete"} THEN @ + 1 ELSE @]
  BY InHand DEF Crash, Idle, deliveryVars
<1>2. /\ step'[w] = "idle" /\ run'[w] = NoEvent
      /\ \A v \in Workers : v # w => step'[v] = step[v] /\ run'[v] = run[v]
  BY <1>1 DEF PipelineInv, TypeOK
<1>3. CASE BetweenHalves(w)
  <2>1. Wrote(run[w]) /\ step[w] = "redis"
    BY <1>3 DEF BetweenHalves, IsLock, Wrote
  <2> QED BY <1>1, <1>2, <1>3, <2>1, HalfDone
<1>4. CASE ~BetweenHalves(w)
  <2>1. \A v \in Workers : (BetweenHalves(v)' <=> BetweenHalves(v)) /\ (BetweenHalves(v) => run'[v] = run[v])
    BY <1>2, <1>4 DEF BetweenHalves, IsLock
  <2>2. \A e \in Events : repeats[e] \in Nat /\ (repeats'[e] = repeats[e] \/ repeats'[e] = repeats[e] + 1)
    BY <1>1 DEF PipelineInv, TypeOK
  <2>3. \A e \in Events : Unfinished(e) => Unfinished(e)'
    BY <1>1, <2>2 DEF Unfinished, IsLock
  <2> QED BY <1>1, <1>2, <2>1, <2>3, LockStays
<1> QED BY <1>3, <1>4

\* Steps of the queue.
LEMMA QueueKeepsLock ==
    ASSUME PipelineInv, LockInv, NEW e \in Events,
           Stalled(e) \/ Forget(e) \/ \E w \in Workers : Take(w, e)
    PROVE  LockInv'
<1>1. /\ UNCHANGED walletVars
      /\ \A f \in Events : job'[f] = job[f] \/ job'[f] # "completed"
  BY DEF Stalled, Forget, Take, PipelineInv, TypeOK
<1>2. \A w \in Workers :
         \/ step'[w] = step[w] /\ run'[w] = run[w]
         \/ step[w] = "idle" /\ step'[w] = "handle"
  BY DEF Stalled, Forget, Take, PipelineInv, TypeOK
<1>3. \A w \in Workers : (BetweenHalves(w)' <=> BetweenHalves(w)) /\ (BetweenHalves(w) => run'[w] = run[w])
  BY <1>2 DEF BetweenHalves, IsLock
<1>4. \A f \in Events : Unfinished(f) => Unfinished(f)'
  BY <1>1 DEF Unfinished, IsLock, walletVars
<1> QED BY <1>1, <1>2, <1>3, <1>4, LockStays DEF walletVars

LEMMA LockKeeps ==
    ASSUME PipelineInv, LockInv, [Next]_vars
    PROVE  LockInv'
<1>1. ASSUME NEW d \in Deliveries, Controller(d) PROVE LockInv'
  BY <1>1, ControllerKeepsLock
<1>2. ASSUME NEW w \in Workers, Process(w) PROVE LockInv'
  BY <1>2, CommitKeepsLock, UpdateRedisKeepsLock, RedisFailsKeepsLock, ProcessKeepsLock,
     CompleteKeepsLock DEF Process
<1>3. ASSUME NEW w \in Workers, Crash(w) PROVE LockInv'
  BY <1>3, CrashKeepsLock
<1>4. ASSUME NEW w \in Workers, NEW e \in Events, Take(w, e) PROVE LockInv'
  BY <1>4, QueueKeepsLock
<1>5. ASSUME NEW e \in Events, Stalled(e) \/ Forget(e) PROVE LockInv'
  BY <1>5, QueueKeepsLock
<1>6. CASE UNCHANGED vars
  BY <1>6 DEF vars, LockInv, BetweenHalves, Unfinished, IsLock
<1> QED BY <1>1, <1>2, <1>3, <1>4, <1>5, <1>6 DEF Next

-----------------------------------------------------------------------------
(***************************************************************************)
(* The invariant, and what follows from it.                                *)
(***************************************************************************)
\* What the rows, the jobs, the deliveries and the workers are worth together.
THEOREM StripeInvariant == Spec => []IInv
<1>1. Init => IInv
  BY PipelineInit, LockInit DEF IInv
<1>2. IInv /\ [Next]_vars => IInv'
  BY PipelineKeeps, LockKeeps DEF IInv
<1> QED BY <1>1, <1>2, PTL DEF Spec

\* Rows, jobs, deliveries and workers are always well typed.
THEOREM StripeTypeCorrect == Spec => []TypeOK
<1>1. IInv => TypeOK
  BY DEF IInv, PipelineInv
<1> QED BY <1>1, StripeInvariant, PTL

\* What process marks as processed has its entry in the ledger.
THEOREM ProcessedIsWrittenAlways == Spec => []ProcessedIsWritten
<1>1. IInv => ProcessedIsWritten
  BY DEF IInv, PipelineInv
<1> QED BY <1>1, StripeInvariant, PTL

\* An event is written again only after an attempt that failed or died; no
\* number of duplicate deliveries does that.
THEOREM EntriesExplainedAlways == Spec => []EntriesExplained
<1>1. IInv => EntriesExplained
  BY DEF IInv, PipelineInv
<1> QED BY <1>1, StripeInvariant, PTL

\* The cached balance never holds a top-up that the ledger does not.
THEOREM CacheBehindLedgerAlways == Spec => []CacheBehindLedger
<1>1. IInv => CacheBehindLedger
  BY DEF IInv, PipelineInv
<1> QED BY <1>1, StripeInvariant, PTL

\* An acknowledged event is not lost before its job has failed for good.
THEOREM ReceivedIsKeptAlways == Spec => []ReceivedIsKept
<1>1. IInv => ReceivedIsKept
  BY DEF IInv, PipelineInv
<1> QED BY <1>1, StripeInvariant, PTL

\* Between locks, unlocks and their retries the two stores agree on the lock.
THEOREM LockFlagAgreesAlways == Spec => []LockFlagAgrees
<1>1. IInv => LockFlagAgrees
  BY DEF IInv, LockInv, LockFlagAgrees
<1> QED BY <1>1, StripeInvariant, PTL
=============================================================================
