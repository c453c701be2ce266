------------------------------ MODULE Dispatch ------------------------------
(***************************************************************************)
(* The delivery queue: the deliveries table, the worker pools that claim   *)
(* batches of due rows from it, send one request per claim and record the  *)
(* outcome together with the circuit breaker, the reapers that take back   *)
(* rows whose worker seems dead, and the operator who requeues rows.       *)
(*                                                                         *)
(* Several replicas of the gateway share one database; each runs a pool of *)
(* workers and a reaper.  Every statement or transaction on the database   *)
(* is one action, and so is every point where a worker waits for the       *)
(* network.  Time is discrete: a row keeps how long ago it was claimed and *)
(* how far off its next attempt is, a worker how long its current delivery *)
(* has taken; Tick advances them all, and waits for a worker that has      *)
(* used up its time.                                                       *)
(***************************************************************************)
EXTENDS Integers, FiniteSets, ServiceRow

CONSTANTS
  Deliveries,      \* ids of rows of the deliveries table
  Services,        \* services a delivery may go to
  ServiceOf,       \* the service_id of each delivery
  Replicas,        \* gateway processes
  Workers,         \* worker goroutines of all replicas
  ReplicaOf,       \* the process a worker runs in
  MaxAttempts,     \* max_attempts of the services
  ClaimBatchSize,  \* rows claimed at once
  DeliveryTime,    \* ticks deliver may take: rate limiter, request timeout, recording
  ReapAfter,       \* ticks after which a claim counts as abandoned
  MaxDelay,        \* longest backoff, in ticks
  Lag,             \* how far back overdue rows are still told apart
  Refusals,        \* whether some request cannot be built
  MaxFaults,       \* bound: crashes, shutdowns, database errors, refused requests
  MaxRequeues      \* bound: operator requeues

ASSUME DispatchAssumption ==
  /\ IsFiniteSet(Deliveries)
  /\ ServiceOf \in [Deliveries -> Services]
  /\ ReplicaOf \in [Workers -> Replicas]
  /\ MaxAttempts \in Nat \ {0}
  /\ ClaimBatchSize \in Nat \ {0}
  /\ DeliveryTime \in Nat \ {0}
  /\ ReapAfter \in Nat
  /\ MaxDelay \in Nat
  /\ Lag \in Nat
  /\ MaxFaults \in Nat
  /\ MaxRequeues \in Nat

ASSUME RefusalAssumption == Refusals \in BOOLEAN

\* What the comments at ReapAfter and ReapStuckDeliveries take for granted: no
\* live worker needs longer than ReapAfter.  A worker delivers its batch one
\* row after the other, so that is a condition on the whole batch.
BatchFits == ClaimBatchSize * DeliveryTime <= ReapAfter

VARIABLES
  status,    \* deliveries.status, with "unborn" and "gone" for rows not in the table
  attempts,  \* deliveries.attempt_count
  wait,      \* next_attempt_at - now of a pending row, never less than -Lag; else 0
  age,       \* now - claimed_at of an in_flight row, never more than ReapAfter + 1; else 0
  svc,       \* the services rows
  phase,     \* of each replica: "up", "stopping" once its context is cancelled, "down"
  stage,     \* where each worker is in claimAndDeliver
  batch,     \* claims of the worker's batch that deliver was not yet called for
  cur,       \* the claim deliver is working on
  result,    \* what became of its request
  done,      \* how many deliveries of the batch are behind the worker
  spent,     \* ticks since the claim or since the last of those ended
  sent,      \* history: <<delivery, attempt>> pairs handed to the HTTP client
  answered,  \* history: requests each service failed to accept, up to BreakerThreshold
  faults,    \* faults so far
  requeues   \* operator requeues so far

rowVars    == <<status, attempts, wait, age>>
workerVars == <<stage, batch, cur, result, done, spent>>
history    == <<sent, answered>>
vars == <<rowVars, svc, phase, workerVars, history, faults, requeues>>

Settled  == {"success", "failed", "dead"}
InTable  == {"pending", "in_flight"} \union Settled
Stages   == {"idle", "claimed", "next", "pacing", "sending", "recording"}
Results  == {"ok", "terminal", "retry"}
Claims   == [d : Deliveries, attempt : Nat]
NoClaim  == [d |-> "none", attempt |-> 0]
NoResult == "none"

On(r)      == {w \in Workers : ReplicaOf[w] = r}
Up(w)      == phase[ReplicaOf[w]] = "up"
Stopping(w) == phase[ReplicaOf[w]] = "stopping"
Working(w) == stage[w] \in {"pacing", "sending", "recording"}

\* The claims a worker still answers for.
Held(w) == batch[w] \union (IF Working(w) THEN {cur[w]} ELSE {})

Init ==
  /\ status   = [d \in Deliveries |-> "unborn"]
  /\ attempts = [d \in Deliveries |-> 0]
  /\ wait     = [d \in Deliveries |-> 0]
  /\ age      = [d \in Deliveries |-> 0]
  /\ svc      = [s \in Services |-> Verified(NewRow)]
  /\ phase    = [r \in Replicas |-> "up"]
  /\ stage    = [w \in Workers |-> "idle"]
  /\ batch    = [w \in Workers |-> {}]
  /\ cur      = [w \in Workers |-> NoClaim]
  /\ result   = [w \in Workers |-> NoResult]
  /\ done     = [w \in Workers |-> 0]
  /\ spent    = [w \in Workers |-> 0]
  /\ sent     = {}
  /\ answered = [s \in Services |-> 0]
  /\ faults   = 0
  /\ requeues = 0

Fault == faults < MaxFaults /\ faults' = faults + 1

\* The workers in W are back at their ticker, without claims.
Rest(W) ==
  /\ stage'  = [w \in Workers |-> IF w \in W THEN "idle" ELSE stage[w]]
  /\ batch'  = [w \in Workers |-> IF w \in W THEN {} ELSE batch[w]]
  /\ cur'    = [w \in Workers |-> IF w \in W THEN NoClaim ELSE cur[w]]
  /\ result' = [w \in Workers |-> IF w \in W THEN NoResult ELSE result[w]]
  /\ done'   = [w \in Workers |-> IF w \in W THEN 0 ELSE done[w]]
  /\ spent'  = [w \in Workers |-> IF w \in W THEN 0 ELSE spent[w]]

-----------------------------------------------------------------------------
(***************************************************************************)
(* Rows enter and leave the table from outside the dispatcher.             *)
(***************************************************************************)

\* InsertDeliveries: the planner gives a delivery its row.
Plan(d) ==
  /\ status[d] = "unborn"
  /\ status' = [status EXCEPT ![d] = "pending"]
  /\ UNCHANGED <<attempts, wait, age, svc, phase, workerVars, history, faults, requeues>>

\* A replay, a retention purge or a cascading DELETE takes rows away,
\* whatever their status.
Remove(D) ==
  /\ D # {} /\ \A d \in D : status[d] \in InTable
  /\ status' = [d \in Deliveries |-> IF d \in D THEN "gone" ELSE status[d]]
  /\ wait'   = [d \in Deliveries |-> IF d \in D THEN 0 ELSE wait[d]]
  /\ age'    = [d \in Deliveries |-> IF d \in D THEN 0 ELSE age[d]]
  /\ UNCHANGED <<attempts, svc, phase, workerVars, history, faults, requeues>>

\* RetryDelivery: the operator's button.  attempt_count stays.
Requeue(d) ==
  /\ requeues < MaxRequeues
  /\ status[d] \in Settled
  /\ status' = [status EXCEPT ![d] = "pending"]
  /\ requeues' = requeues + 1
  /\ UNCHANGED <<attempts, wait, age, svc, phase, workerVars, history, faults>>

-----------------------------------------------------------------------------
(***************************************************************************)
(* One worker: claimAndDeliver.                                            *)
(***************************************************************************)

\* (Faulty variant: rows that used up their attempts are passed over.)
DueWithAttempts ==
  {d \in Deliveries : status[d] = "pending" /\ wait[d] <= 0 /\ attempts[d] < MaxAttempts}

Due == {d \in Deliveries : status[d] = "pending" /\ wait[d] <= 0}

\* The sets the claiming SELECT may return: as many due rows as LIMIT
\* allows, the most overdue first.
Claimable ==
  {D \in SUBSET Due : /\ D # {} /\ Cardinality(D) <= ClaimBatchSize
                      /\ Cardinality(D) < ClaimBatchSize => D = Due
                      /\ \A d \in D, e \in Due \ D : wait[d] <= wait[e]}

\* (Faulty variant: the counter stops at max_attempts.)
CappedAttempt(d) == IF attempts[d] < MaxAttempts THEN attempts[d] + 1 ELSE attempts[d]

\* The attempt_count a claim writes and carries.
NextAttempt(d) == attempts[d] + 1

\* ClaimDeliveries, its first statement.
Claim(w) ==
  /\ Up(w) /\ stage[w] = "idle"
  /\ \E D \in Claimable :
       /\ status'   = [d \in Deliveries |-> IF d \in D THEN "in_flight" ELSE status[d]]
       /\ attempts' = [d \in Deliveries |-> IF d \in D THEN NextAttempt(d) ELSE attempts[d]]
       /\ wait'     = [d \in Deliveries |-> IF d \in D THEN 0 ELSE wait[d]]
       /\ age'      = [d \in Deliveries |-> IF d \in D THEN 0 ELSE age[d]]
       /\ batch'    = [batch EXCEPT ![w] = {[d |-> d, attempt |-> NextAttempt(d)] : d \in D}]
  /\ stage' = [stage EXCEPT ![w] = "claimed"]
  /\ UNCHANGED <<svc, phase, cur, result, done, spent, history, faults, requeues>>

\* Its second statement joins the claims with what the table holds now: rows
\* deleted since drop out, and attempt_count is read again.
Hydrate(w) ==
  /\ Up(w) /\ stage[w] = "claimed"
  /\ LET B == {[d |-> c.d, attempt |-> attempts[c.d]] :
                 c \in {b \in batch[w] : status[b.d] \in InTable}}
     IN \/ /\ B = {}
           /\ Rest({w})
        \/ /\ B # {}
           /\ batch' = [batch EXCEPT ![w] = B]
           /\ stage' = [stage EXCEPT ![w] = "next"]
           /\ UNCHANGED <<cur, result, done, spent>>
  /\ UNCHANGED <<rowVars, svc, phase, history, faults, requeues>>

\* The batch is forgotten and its rows stay in_flight.
Forget(w) == Rest({w}) /\ UNCHANGED <<rowVars, svc, phase, history, requeues>>

\* An error of either statement after the claim took effect.
ClaimError(w) == stage[w] = "claimed" /\ Forget(w) /\ Fault

\* A cancelled context: the second statement fails, the loop over the batch
\* stops, or the rate limiter gives up.
Abandon(w) ==
  /\ Stopping(w) /\ stage[w] \in {"claimed", "next", "pacing"}
  /\ Forget(w)
  /\ UNCHANGED faults

\* The next turn of the loop over the batch: deliver begins.
Deliver(w) ==
  /\ Up(w) /\ stage[w] = "next"
  /\ \E c \in batch[w] :
       /\ cur'   = [cur EXCEPT ![w] = c]
       /\ batch' = [batch EXCEPT ![w] = batch[w] \ {c}]
  /\ stage' = [stage EXCEPT ![w] = "pacing"]
  /\ UNCHANGED <<rowVars, svc, phase, result, done, spent, history, faults, requeues>>

Decide(w, res) ==
  /\ stage'  = [stage EXCEPT ![w] = "recording"]
  /\ result' = [result EXCEPT ![w] = res]
  /\ UNCHANGED <<rowVars, svc, phase, batch, cur, done, spent, sent, requeues>>

\* The link token cannot be decrypted or the request cannot be built.
Refuse(w) ==
  /\ Refusals /\ stage[w] = "pacing"
  /\ Decide(w, "terminal")
  /\ Fault
  /\ UNCHANGED answered

\* client.Do
Send(w) ==
  /\ Up(w) /\ stage[w] = "pacing"
  /\ stage' = [stage EXCEPT ![w] = "sending"]
  /\ sent'  = sent \union {<<cur[w].d, cur[w].attempt>>}
  /\ UNCHANGED <<rowVars, svc, phase, batch, cur, result, done, spent, answered, faults, requeues>>

\* The service answers, or the request fails or times out: Classify.
Answer(w, res) ==
  /\ stage[w] = "sending"
  /\ Decide(w, res)
  /\ LET s == ServiceOf[cur[w].d] IN
     answered' = [answered EXCEPT ![s] =
                    IF res # "ok" /\ @ < BreakerThreshold THEN @ + 1 ELSE @]
  /\ UNCHANGED faults

\* client.Do returns because the gateway cancelled it: a transport error.
Cancelled(w) ==
  /\ Stopping(w) /\ stage[w] \in {"pacing", "sending"}
  /\ Decide(w, "retry")
  /\ UNCHANGED <<answered, faults>>

EndDelivery(w) ==
  /\ \/ /\ batch[w] = {}
        /\ Rest({w})
     \/ /\ batch[w] # {}
        /\ stage'  = [stage EXCEPT ![w] = "next"]
        /\ cur'    = [cur EXCEPT ![w] = NoClaim]
        /\ result' = [result EXCEPT ![w] = NoResult]
        /\ done'   = [done EXCEPT ![w] = done[w] + 1]
        /\ spent'  = [spent EXCEPT ![w] = 0]
        /\ UNCHANGED batch
  /\ UNCHANGED <<phase, history, requeues>>

\* (Faulty variant: gives up one attempt early.)
HastyOutcome(c, res) ==
  IF res = "ok" THEN "success"
  ELSE IF res = "terminal" THEN "failed"
  ELSE IF c.attempt + 1 >= MaxAttempts THEN "dead" ELSE "pending"

\* The status CompleteDelivery writes for a claim.
Outcome(c, res) ==
  IF res = "ok" THEN "success"
  ELSE IF res = "terminal" THEN "failed"
  ELSE IF c.attempt >= MaxAttempts THEN "dead" ELSE "pending"

\* CompleteDelivery: WHERE id = $1, so any row still in the table is
\* overwritten; the breaker counts whether or not the row is there.
Record(w) ==
  /\ stage[w] = "recording"
  /\ LET d == cur[w].d
         s == ServiceOf[d]
         o == Outcome(cur[w], result[w])
     IN /\ IF status[d] \in InTable
           THEN /\ status' = [status EXCEPT ![d] = o]
                /\ age'    = [age EXCEPT ![d] = 0]
                /\ \E n \in IF o = "pending" THEN 0..MaxDelay ELSE {0} :
                     wait' = [wait EXCEPT ![d] = n]
           ELSE UNCHANGED <<status, age, wait>>
        /\ svc' = [svc EXCEPT ![s] = IF o = "success" THEN AfterSuccess(@)
                                                      ELSE AfterFailure(@)]
  /\ EndDelivery(w)
  /\ UNCHANGED <<attempts, faults>>

\* (Faulty variant: the breaker is counted in a transaction of its own.)
HalfRecord(w) ==
  /\ stage[w] = "recording"
  /\ svc' = [svc EXCEPT ![ServiceOf[cur[w].d]] = AfterFailure(@)]
  /\ Fault
  /\ UNCHANGED <<rowVars, phase, workerVars, history, requeues>>

\* The transaction fails or runs out of its 10 seconds: nothing is written.
RecordError(w) ==
  /\ stage[w] = "recording"
  /\ EndDelivery(w)
  /\ Fault
  /\ UNCHANGED <<rowVars, svc>>

-----------------------------------------------------------------------------
(***************************************************************************)
(* Reapers, processes and time.                                            *)
(***************************************************************************)

\* (Faulty variants: the lease ends a tick early; last attempts are left alone.)
HastyStuck == {d \in Deliveries : status[d] = "in_flight" /\ age[d] >= ReapAfter}
StuckUnlessLast ==
  {d \in Deliveries : status[d] = "in_flight" /\ age[d] > ReapAfter /\ attempts[d] < MaxAttempts}

Stuck == {d \in Deliveries : status[d] = "in_flight" /\ age[d] > ReapAfter}

\* ReapStuckDeliveries leaves next_attempt_at alone, which by now is long past.
Reap(r) ==
  /\ phase[r] = "up" /\ Stuck # {}
  /\ status' = [d \in Deliveries |-> IF d \in Stuck THEN "pending" ELSE status[d]]
  /\ wait'   = [d \in Deliveries |-> IF d \in Stuck THEN -Lag ELSE wait[d]]
  /\ age'    = [d \in Deliveries |-> IF d \in Stuck THEN 0 ELSE age[d]]
  /\ UNCHANGED <<attempts, svc, phase, workerVars, history, faults, requeues>>

\* SIGTERM: the context of the replica is cancelled.
Shutdown(r) ==
  /\ phase[r] = "up"
  /\ phase' = [phase EXCEPT ![r] = "stopping"]
  /\ Fault
  /\ UNCHANGED <<rowVars, svc, workerVars, history, requeues>>

\* The process ends and its workers with it.
Die(r) ==
  /\ phase' = [phase EXCEPT ![r] = "down"]
  /\ Rest(On(r))
  /\ UNCHANGED <<rowVars, svc, history, requeues>>

Crash(r) == phase[r] = "up" /\ Die(r) /\ Fault

\* main returns after the HTTP server stopped; it does not wait for workers.
Exit(r) == phase[r] = "stopping" /\ Die(r) /\ UNCHANGED faults

Restart(r) ==
  /\ phase[r] = "down"
  /\ phase' = [phase EXCEPT ![r] = "up"]
  /\ UNCHANGED <<rowVars, svc, workerVars, history, faults, requeues>>

Tick ==
  /\ \A w \in Workers : stage[w] # "idle" => spent[w] < DeliveryTime
  /\ wait'  = [d \in Deliveries |->
                 IF status[d] = "pending" /\ wait[d] > -Lag THEN wait[d] - 1 ELSE wait[d]]
  /\ age'   = [d \in Deliveries |->
                 IF status[d] = "in_flight" /\ age[d] <= ReapAfter THEN age[d] + 1 ELSE age[d]]
  /\ spent' = [w \in Workers |-> IF stage[w] # "idle" THEN spent[w] + 1 ELSE spent[w]]
  /\ UNCHANGED <<status, attempts, svc, phase, stage, batch, cur, result, done,
                 history, faults, requeues>>

-----------------------------------------------------------------------------
\* What a worker does when nothing goes wrong.
WorkerStep(w) ==
  \/ Claim(w) \/ Hydrate(w) \/ Deliver(w) \/ Send(w) \/ Record(w)
  \/ \E res \in Results : Answer(w, res)

\* What cancellation and errors make it do.
WorkerFault(w) == ClaimError(w) \/ Abandon(w) \/ Refuse(w) \/ Cancelled(w) \/ RecordError(w)

ReplicaStep(r) == Reap(r) \/ Shutdown(r) \/ Crash(r) \/ Exit(r) \/ Restart(r)

TableStep ==
  \/ \E d \in Deliveries : Plan(d) \/ Requeue(d)
  \/ \E D \in SUBSET Deliveries : Remove(D)

Next ==
  \/ TableStep
  \/ \E w \in Workers : WorkerStep(w) \/ WorkerFault(w)
  \/ \E r \in Replicas : ReplicaStep(r)
  \/ Tick

Spec == Init /\ [][Next]_vars

\* Workers run (their poll ticker and the timeouts see to it), reapers have a
\* ticker, a stopping process exits, a supervisor restarts it, time passes.
Fairness ==
  /\ \A w \in Workers : WF_vars(WorkerStep(w))
  /\ \A r \in Replicas : WF_vars(Reap(r)) /\ WF_vars(Exit(r)) /\ WF_vars(Restart(r))
  /\ WF_vars(Tick)

FairSpec == Spec /\ Fairness

\* The promise the queue is checked against.
Lifecycle == INSTANCE DeliveryLifecycle
LifecycleSpec == Lifecycle!Spec

-----------------------------------------------------------------------------
RowTypes ==
  /\ status   \in [Deliveries -> InTable \union {"unborn", "gone"}]
  /\ attempts \in [Deliveries -> Nat]
  /\ wait     \in [Deliveries -> -Lag..MaxDelay]
  /\ age      \in [Deliveries -> 0..(ReapAfter + 1)]

WorkerTypes ==
  /\ stage    \in [Workers -> Stages]
  /\ batch    \in [Workers -> SUBSET Claims]
  /\ cur      \in [Workers -> Claims \union {NoClaim}]
  /\ result   \in [Workers -> Results \union {NoResult}]
  /\ done     \in [Workers -> Nat]
  /\ spent    \in [Workers -> 0..DeliveryTime]
  /\ \A w \in Workers : /\ Working(w) => cur[w] \in Claims
                        /\ stage[w] = "recording" => result[w] \in Results

TypeOK ==
  /\ RowTypes
  /\ WorkerTypes
  /\ svc      \in [Services -> Row]
  /\ phase    \in [Replicas -> {"up", "stopping", "down"}]
  /\ sent     \in SUBSET (Deliveries \X Nat)
  /\ answered \in [Services -> 0..BreakerThreshold]
  /\ faults   \in 0..MaxFaults
  /\ requeues \in 0..MaxRequeues

(***************************************************************************)
(* No attempt is sent twice: a request carries the pair of headers         *)
(* X-Hookfan-Delivery-Id and X-Hookfan-Attempt, and however often workers  *)
(* crash, reapers take rows back and operators requeue them, no two        *)
(* requests carry the same pair.  (claim's attempt_count + 1 and the       *)
(* second read of it in the hydrating query.)                              *)
(***************************************************************************)
OncePerAttempt ==
  \A w \in Workers : stage[w] = "pacing" => <<cur[w].d, cur[w].attempt>> \notin sent

(***************************************************************************)
(* A claim is exclusive: as long as a live worker answers for a delivery   *)
(* of its batch, the row (unless deleted) is in_flight on that very        *)
(* attempt and no other worker answers for it.  This is the promise of     *)
(* the comment at ReapAfter, "a slow-but-alive delivery is never           *)
(* reclaimed underneath its worker".                                       *)
(***************************************************************************)
Exclusive ==
  \A w \in Workers : \A c \in Held(w) :
    /\ status[c.d] \in InTable => status[c.d] = "in_flight" /\ attempts[c.d] = c.attempt
    /\ \A v \in Workers : \A b \in Held(v) : b.d = c.d => v = w /\ b = c

(***************************************************************************)
(* The inductive strengthening of Exclusive and OncePerAttempt.            *)
(***************************************************************************)

\* The claims of a worker whose request is still ahead.
Waiting(w) == batch[w] \union (IF stage[w] = "pacing" THEN {cur[w]} ELSE {})

\* How long ago the worker's batch can have been claimed at most.
Term(w) == done[w] * DeliveryTime + spent[w]

\* A held claim is the open attempt of its row, and no older than its worker.
Lease ==
  \A w \in Workers : \A c \in Held(w) :
    /\ status[c.d] \in {"in_flight", "gone"}
    /\ c.attempt <= attempts[c.d]
    /\ status[c.d] = "in_flight" => attempts[c.d] = c.attempt /\ age[c.d] <= Term(w)

\* No row is held twice.
OneHolder ==
  \A w, v \in Workers : \A c \in Held(w), b \in Held(v) : b.d = c.d => v = w /\ b = c

\* What is behind a worker and what is ahead of it make up one batch.
Budget ==
  \A w \in Workers :
    /\ IsFiniteSet(batch[w])
    /\ done[w] + Cardinality(batch[w]) + (IF Working(w) THEN 1 ELSE 0) <= ClaimBatchSize
    /\ Working(w) => cur[w] \notin batch[w]
    /\ stage[w] = "idle" => batch[w] = {} /\ done[w] = 0

\* Requests were made for opened attempts only, and never for a waiting claim.
SentPast ==
  /\ \A p \in sent : p[2] <= attempts[p[1]]
  /\ \A w \in Workers : \A c \in Waiting(w) : <<c.d, c.attempt>> \notin sent

IInv == TypeOK /\ Lease /\ OneHolder /\ Budget /\ SentPast

(***************************************************************************)
(* The breaker trips on the evidence of the service only: a disabled       *)
(* service has failed BreakerThreshold requests that reached the client.   *)
(***************************************************************************)
TripEarned ==
  \A s \in Services : svc[s].status = "disabled" => answered[s] = BreakerThreshold

(***************************************************************************)
(* The breaker counts an attempt once, whatever became of its row: with    *)
(* rows deleted under their workers, outcomes that could not be written,   *)
(* batches lost and rows taken back, the failures of a service never       *)
(* exceed the attempts opened for it that no worker still has to report.   *)
(* (CompleteDelivery counts by service id, whether or not the row is       *)
(* there, in the transaction that may be rolled back.)                     *)
(***************************************************************************)
Opened(s) ==
  UNION {{[d |-> d, attempt |-> n] : n \in 1..attempts[d]} :
           d \in {e \in Deliveries : ServiceOf[e] = s}}

Unreported(s) == {c \in UNION {Held(w) : w \in Workers} : ServiceOf[c.d] = s}

CountedOnce ==
  \A s \in Services :
    svc[s].failures + Cardinality(Unreported(s)) <= Cardinality(Opened(s))

(***************************************************************************)
(* A row taken by a worker always comes back: reported, reclaimed or       *)
(* deleted, even if its worker crashed, lost its batch or could not write  *)
(* the outcome.  (reaper.)                                                 *)
(***************************************************************************)
NeverStuck == \A d \in Deliveries : status[d] = "in_flight" ~> status[d] # "in_flight"

(***************************************************************************)
(* Every planned delivery ends: while faults and requeues are finite, a    *)
(* delivery does not bounce between pending and in_flight for ever.        *)
(***************************************************************************)
EveryDeliveryEnds ==
  \A d \in Deliveries : status[d] = "pending" ~> status[d] \in Settled \union {"gone"}

=============================================================================
