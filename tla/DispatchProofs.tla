--------------------------- MODULE DispatchProofs ---------------------------
(***************************************************************************)
(* What holds of the delivery queue for all sets of deliveries, workers    *)
(* and replicas and all bounds.                                            *)
(***************************************************************************)
EXTENDS Dispatch, FiniteSetTheorems, TLAPS

USE DEF InTable, Settled

-----------------------------------------------------------------------------
(* The rows of the services table keep their type. *)
LEMMA RowType ==
  ASSUME NEW r \in Row
  PROVE  /\ AfterSuccess(r) \in Row
         /\ AfterFailure(r) \in Row
<1>1. AfterSuccess(r) \in Row
  BY DEF Row, AfterSuccess
<1>2. AfterFailure(r) \in Row
  <2> DEFINE n == r.failures + 1
  <2>1. n \in Nat
    BY DEF Row
  <2>2. [r EXCEPT !.failures = n] \in Row
    BY <2>1 DEF Row
  <2>3. [r EXCEPT !.failures = n, !.status = "disabled", !.tripped = TRUE] \in Row
    BY <2>1 DEF Row, Statuses
  <2> QED BY <2>2, <2>3 DEF AfterFailure
<1> QED BY <1>1, <1>2

(* A claim names a row of the table and one of its attempts. *)
LEMMA ClaimFields ==
  ASSUME NEW c \in Claims
  PROVE  c.d \in Deliveries /\ c.attempt \in Nat
BY DEF Claims

(* A claim is determined by its row and its attempt. *)
LEMMA ClaimEta ==
  ASSUME NEW c \in Claims
  PROVE  [d |-> c.d, attempt |-> c.attempt] = c
BY DEF Claims

(* Workers that return to their ticker keep the types of the worker state,  *)
(* and so does the end of a delivery.                                        *)
LEMMA RestType ==
  ASSUME NEW W, WorkerTypes, Rest(W)
  PROVE  WorkerTypes'
BY DispatchAssumption DEF WorkerTypes, Rest, Stages, Working

LEMMA EndDeliveryType ==
  ASSUME NEW w \in Workers, WorkerTypes, EndDelivery(w)
  PROVE  WorkerTypes'
<1>1. CASE Rest({w})
  BY <1>1, RestType
<1>2. CASE ~ Rest({w})
  BY <1>2, DispatchAssumption DEF EndDelivery, WorkerTypes, Stages, Working
<1> QED BY <1>1, <1>2

(***************************************************************************)
(* Every step keeps the types; the reasoning is action by action.          *)
(***************************************************************************)
LEMMA TypeStep ==
  ASSUME TypeOK, [Next]_vars
  PROVE  TypeOK'
<1> USE DispatchAssumption, ThresholdAssumption
<1> USE DEF TypeOK, vars, rowVars, workerVars, history
<1>a. ASSUME UNCHANGED workerVars PROVE WorkerTypes'
  BY <1>a DEF WorkerTypes, Working
<1>b. ASSUME UNCHANGED rowVars PROVE RowTypes'
  BY <1>b DEF RowTypes
<1>c. ASSUME NEW w \in Workers, Working(w)
      PROVE  cur[w].d \in Deliveries /\ cur[w].attempt \in Nat
  <2>1. cur[w] \in Claims
    BY <1>c DEF WorkerTypes
  <2> QED BY <2>1, ClaimFields
<1>1. ASSUME NEW d \in Deliveries, Plan(d) PROVE TypeOK'
  BY <1>1, <1>a DEF Plan, RowTypes
<1>2. ASSUME NEW D \in SUBSET Deliveries, Remove(D) PROVE TypeOK'
  BY <1>2, <1>a DEF Remove, RowTypes
<1>3. ASSUME NEW d \in Deliveries, Requeue(d) PROVE TypeOK'
  BY <1>3, <1>a DEF Requeue, RowTypes
<1>4. ASSUME NEW w \in Workers, Claim(w) PROVE TypeOK'
  <2>1. PICK D \in Claimable :
          /\ status'   = [d \in Deliveries |-> IF d \in D THEN "in_flight" ELSE status[d]]
          /\ attempts' = [d \in Deliveries |-> IF d \in D THEN NextAttempt(d) ELSE attempts[d]]
          /\ wait'     = [d \in Deliveries |-> IF d \in D THEN 0 ELSE wait[d]]
          /\ age'      = [d \in Deliveries |-> IF d \in D THEN 0 ELSE age[d]]
          /\ batch'    = [batch EXCEPT ![w] = {[d |-> d, attempt |-> NextAttempt(d)] : d \in D}]
    BY <1>4 DEF Claim
  <2>2. D \in SUBSET Deliveries
    BY <2>1 DEF Claimable, Due
  <2>3. {[d |-> d, attempt |-> NextAttempt(d)] : d \in D} \in SUBSET Claims
    BY <2>2 DEF Claims, NextAttempt, RowTypes
  <2>4. RowTypes'
    BY <2>1 DEF RowTypes, NextAttempt
  <2>5. WorkerTypes'
    BY <1>4, <2>1, <2>3 DEF Claim, WorkerTypes, Working, Stages
  <2> QED BY <1>4, <2>4, <2>5 DEF Claim
<1>5. ASSUME NEW w \in Workers, Hydrate(w) PROVE TypeOK'
  <2> DEFINE B == {[d |-> c.d, attempt |-> attempts[c.d]] :
                     c \in {b \in batch[w] : status[b.d] \in InTable}}
  <2>1. B \in SUBSET Claims
    BY DEF Claims, RowTypes, WorkerTypes
  <2>2. WorkerTypes'
    <3>1. CASE Rest({w})
      BY <3>1, RestType
    <3>2. CASE ~ Rest({w})
      <4>1. /\ batch' = [batch EXCEPT ![w] = B]
            /\ stage' = [stage EXCEPT ![w] = "next"]
            /\ UNCHANGED <<cur, result, done, spent>>
        BY <1>5, <3>2 DEF Hydrate
      <4> HIDE DEF B
      <4> QED BY <4>1, <2>1 DEF WorkerTypes, Working, Stages
    <3> QED BY <3>1, <3>2
  <2> QED BY <1>5, <1>b, <2>2 DEF Hydrate
<1>6. ASSUME NEW w \in Workers, ClaimError(w) \/ Abandon(w) PROVE TypeOK'
  BY <1>6, <1>b, RestType DEF ClaimError, Abandon, Forget, Fault
<1>7. ASSUME NEW w \in Workers, Deliver(w) PROVE TypeOK'
  <2>1. WorkerTypes'
    BY <1>7 DEF Deliver, WorkerTypes, Working, Stages
  <2> QED BY <1>7, <1>b, <2>1 DEF Deliver
<1>8. ASSUME NEW w \in Workers, NEW res \in Results, Working(w), Decide(w, res)
      PROVE  WorkerTypes'
  BY <1>8 DEF Decide, WorkerTypes, Working, Stages
<1>9. ASSUME NEW w \in Workers, Refuse(w) \/ Cancelled(w) PROVE TypeOK'
  <2>1. WorkerTypes'
    BY <1>8, <1>9 DEF Refuse, Cancelled, Results, Working
  <2> QED BY <1>9, <1>b, <2>1 DEF Refuse, Cancelled, Decide, Fault
<1>10. ASSUME NEW w \in Workers, Send(w) PROVE TypeOK'
  <2>1. WorkerTypes'
    BY <1>10 DEF Send, WorkerTypes, Working, Stages
  <2>2. Working(w)
    BY <1>10 DEF Send, Working
  <2> QED BY <1>10, <1>b, <1>c, <2>1, <2>2 DEF Send
<1>11. ASSUME NEW w \in Workers, NEW res \in Results, Answer(w, res) PROVE TypeOK'
  <2>1. WorkerTypes' /\ cur[w].d \in Deliveries
    BY <1>8, <1>11, <1>c DEF Answer, Working
  <2> QED BY <1>11, <1>b, <2>1 DEF Answer, Decide
<1>12. ASSUME NEW w \in Workers, Record(w) PROVE TypeOK'
  <2> DEFINE d == cur[w].d
             o == Outcome(cur[w], result[w])
  <2>1. d \in Deliveries /\ ServiceOf[d] \in Services
    BY <1>12, <1>c DEF Record, Working
  <2>2. o \in InTable
    BY <1>12 DEF Record, WorkerTypes, Results, Outcome
  <2>3. RowTypes'
    <3>1. CASE status[d] \in InTable
      <4>1. PICK n \in IF o = "pending" THEN 0..MaxDelay ELSE {0} :
              wait' = [wait EXCEPT ![d] = n]
        BY <1>12, <3>1 DEF Record
      <4>2. n \in -Lag..MaxDelay
        BY <4>1
      <4>3. /\ status' = [status EXCEPT ![d] = o]
            /\ age' = [age EXCEPT ![d] = 0]
            /\ attempts' = attempts
        BY <1>12, <3>1 DEF Record
      <4> HIDE DEF d, o
      <4> QED BY <4>1, <4>2, <4>3, <2>1, <2>2 DEF RowTypes
    <3>2. CASE status[d] \notin InTable
      BY <1>12, <3>2 DEF Record, RowTypes
    <3> QED BY <3>1, <3>2
  <2>4. WorkerTypes'
    BY <1>12, EndDeliveryType DEF Record
  <2>5. svc' \in [Services -> Row]
    <3>1. svc[ServiceOf[d]] \in Row
      BY <2>1
    <3> QED BY <1>12, <3>1, <2>1, RowType DEF Record
  <2> QED BY <1>12, <2>3, <2>4, <2>5 DEF Record, EndDelivery
<1>13. ASSUME NEW w \in Workers, RecordError(w) PROVE TypeOK'
  BY <1>13, <1>b, EndDeliveryType DEF RecordError, EndDelivery, Fault
<1>14. ASSUME NEW r \in Replicas, Reap(r) PROVE TypeOK'
  BY <1>14, <1>a DEF Reap, RowTypes
<1>15. ASSUME NEW r \in Replicas, Shutdown(r) \/ Restart(r) PROVE TypeOK'
  BY <1>15, <1>a, <1>b DEF Shutdown, Restart, Fault
<1>16. ASSUME NEW r \in Replicas, Crash(r) \/ Exit(r) PROVE TypeOK'
  BY <1>16, <1>b, RestType DEF Crash, Exit, Die, Fault
<1>17. CASE Tick
  <2>1. RowTypes'
    BY <1>17 DEF Tick, RowTypes
  <2>2. WorkerTypes'
    BY <1>17 DEF Tick, WorkerTypes, Working
  <2> QED BY <1>17, <2>1, <2>2 DEF Tick
<1>18. CASE UNCHANGED vars
  BY <1>18, <1>a, <1>b
<1> QED
  BY <1>1, <1>2, <1>3, <1>4, <1>5, <1>6, <1>7, <1>9, <1>10, <1>11, <1>12, <1>13,
     <1>14, <1>15, <1>16, <1>17, <1>18
     DEF Next, TableStep, WorkerStep, WorkerFault, ReplicaStep

(***************************************************************************)
(* The columns, the worker state and the counters keep their types and     *)
(* their bounds in every reachable state.                                  *)
(***************************************************************************)
THEOREM TypeCorrect == Spec => []TypeOK
<1>1. Init => TypeOK
  BY DispatchAssumption, ThresholdAssumption
     DEF Init, TypeOK, RowTypes, WorkerTypes, Working, Stages, Row, Verified, NewRow, Statuses
<1>2. TypeOK /\ [Next]_vars => TypeOK'
  BY TypeStep
<1> QED BY <1>1, <1>2, PTL DEF Spec

-----------------------------------------------------------------------------
(***************************************************************************)
(* Most steps only take claims away from workers, or touch rows nobody     *)
(* holds: they keep the parts of the invariant about claims.               *)
(***************************************************************************)
Claimwise == Lease /\ OneHolder /\ SentPast

(* A step that opens no attempt, sends nothing, and leaves workers at most what
   they held, keeps the parts of the invariant that are about claims. *)
LEMMA Frame ==
  ASSUME TypeOK, TypeOK', Claimwise, sent' = sent,
         \A d \in Deliveries : attempts'[d] = attempts[d],
         \A w \in Workers : Held(w)' \subseteq Held(w) /\ Waiting(w)' \subseteq Waiting(w),
         \A w \in Workers : \A c \in Held(w)' :
           /\ status'[c.d] \in {status[c.d], "gone"}
           /\ status'[c.d] = "in_flight" => age'[c.d] <= age[c.d]
           /\ Term(w) <= Term(w)'
  PROVE  Claimwise'
<1>1. \A w \in Workers : \A c \in Held(w) : c.d \in Deliveries
  <2>1. \A w \in Workers : Held(w) \subseteq Claims
    BY DEF TypeOK, WorkerTypes, Held
  <2> QED BY <2>1, ClaimFields
<1>2. \A w \in Workers : Term(w) \in Int /\ Term(w)' \in Int
  BY DispatchAssumption DEF TypeOK, WorkerTypes, Term
<1>3. \A d \in Deliveries : age[d] \in Int /\ age'[d] \in Int
  BY DispatchAssumption DEF TypeOK, RowTypes
<1>4. Lease'
  <2> SUFFICES ASSUME NEW w \in Workers, NEW c \in Held(w)'
               PROVE  /\ status'[c.d] \in {"in_flight", "gone"}
                      /\ c.attempt <= attempts'[c.d]
                      /\ status'[c.d] = "in_flight" =>
                           attempts'[c.d] = c.attempt /\ age'[c.d] <= Term(w)'
    BY DEF Lease
  <2>1. c \in Held(w) /\ c.d \in Deliveries
    BY <1>1
  <2>2. /\ status[c.d] \in {"in_flight", "gone"}
        /\ c.attempt <= attempts[c.d]
        /\ status[c.d] = "in_flight" => attempts[c.d] = c.attempt /\ age[c.d] <= Term(w)
    BY <2>1 DEF Claimwise, Lease
  <2> QED BY <2>1, <2>2, <1>2, <1>3
<1>5. OneHolder'
  BY DEF Claimwise, OneHolder
<1>6. SentPast'
  <2>1. \A p \in sent' : p[2] <= attempts'[p[1]]
    BY DEF Claimwise, SentPast, TypeOK
  <2>2. \A w \in Workers : \A c \in Waiting(w)' : <<c.d, c.attempt>> \notin sent'
    BY DEF Claimwise, SentPast
  <2> QED BY <2>1, <2>2 DEF SentPast
<1> QED BY <1>4, <1>5, <1>6 DEF Claimwise

(* In particular when no worker does anything. *)
LEMMA RowFrame ==
  ASSUME TypeOK, TypeOK', Claimwise, Budget, UNCHANGED <<workerVars, sent, attempts>>,
         \A w \in Workers : \A c \in Held(w) :
           /\ status'[c.d] \in {status[c.d], "gone"}
           /\ status'[c.d] = "in_flight" => age'[c.d] = age[c.d]
  PROVE  IInv'
<1>1. \A w \in Workers : /\ Held(w)' = Held(w) /\ Waiting(w)' = Waiting(w)
                         /\ Term(w)' = Term(w) /\ Term(w) \in Int
  BY DispatchAssumption
     DEF TypeOK, WorkerTypes, workerVars, Held, Waiting, Working, Term
<1>2. \A w \in Workers : \A c \in Held(w) : c.d \in Deliveries
  <2>1. \A w \in Workers : Held(w) \subseteq Claims
    BY DEF TypeOK, WorkerTypes, Held
  <2> QED BY <2>1, ClaimFields
<1>3. \A d \in Deliveries : age[d] \in Int
  BY DispatchAssumption DEF TypeOK, RowTypes
<1>4. Claimwise'
  BY <1>1, <1>2, <1>3, Frame
<1>5. Budget'
  BY DEF Budget, workerVars, Working
<1> QED BY <1>4, <1>5 DEF IInv, Claimwise


-----------------------------------------------------------------------------
(* A claimed batch has at most ClaimBatchSize claims. *)
LEMMA ClaimedBatch ==
  ASSUME NEW D \in Claimable
  PROVE  LET B == {[d |-> d, attempt |-> NextAttempt(d)] : d \in D}
         IN  IsFiniteSet(B) /\ Cardinality(B) <= ClaimBatchSize
<1> DEFINE B == {[d |-> d, attempt |-> NextAttempt(d)] : d \in D}
           f == [d \in D |-> [d |-> d, attempt |-> NextAttempt(d)]]
<1>1. D \in SUBSET Deliveries /\ Cardinality(D) <= ClaimBatchSize
  BY DEF Claimable, Due
<1>2. IsFiniteSet(D) /\ Cardinality(D) \in Nat
  BY <1>1, DispatchAssumption, FS_Subset, FS_CardinalityType
<1>3. f \in Surjection(D, B)
  BY DEF Surjection
<1>4. IsFiniteSet(B) /\ Cardinality(B) <= Cardinality(D)
  <2> HIDE DEF B, f
  <2> QED BY <1>2, <1>3, FS_Surjection
<1>5. Cardinality(B) \in Nat
  BY <1>4, FS_CardinalityType
<1> QED BY <1>1, <1>2, <1>4, <1>5, DispatchAssumption

(* The claims of a batch are taken out one by one, or dropped. *)
LEMMA SmallerBatch ==
  ASSUME NEW B, IsFiniteSet(B), NEW C \in SUBSET B
  PROVE  /\ IsFiniteSet(C) /\ Cardinality(C) \in Nat
         /\ Cardinality(B) \in Nat /\ Cardinality(C) <= Cardinality(B)
         /\ \A c \in B : C = B \ {c} => Cardinality(C) = Cardinality(B) - 1
BY FS_Subset, FS_CardinalityType, FS_RemoveElement

(* The empty batch is finite and of size zero. *)
LEMMA EmptyBatch == IsFiniteSet({}) /\ Cardinality({}) = 0
BY FS_EmptySet

(* Two facts of arithmetic the provers need spelled out. *)
LEMMA TermGrows ==
  ASSUME NEW n \in Nat, NEW k \in Nat, k <= DeliveryTime
  PROVE  n * DeliveryTime + k <= (n + 1) * DeliveryTime
BY DispatchAssumption

(* A worker with a claim left has not used up the time of a whole batch. *)
LEMMA TermBound ==
  ASSUME NEW n \in Nat, n + 1 <= ClaimBatchSize
  PROVE  (n + 1) * DeliveryTime <= ClaimBatchSize * DeliveryTime
<1>1. PICK k \in Nat : ClaimBatchSize = (n + 1) + k
  <2>1. ClaimBatchSize - (n + 1) \in Nat
    BY DispatchAssumption
  <2> QED BY <2>1, DispatchAssumption
<1>2. ClaimBatchSize * DeliveryTime = (n + 1) * DeliveryTime + k * DeliveryTime
  BY <1>1, DispatchAssumption
<1>3. k * DeliveryTime \in Nat /\ (n + 1) * DeliveryTime \in Nat
  BY DispatchAssumption
<1> QED BY <1>2, <1>3

-----------------------------------------------------------------------------
(***************************************************************************)
(* The invariant holds at first and is kept by every step, as long as a    *)
(* whole batch is done within the lease.                                   *)
(***************************************************************************)
LEMMA InvInit == Init => IInv
<1> SUFFICES ASSUME Init PROVE IInv
  OBVIOUS
<1>1. TypeOK
  BY DispatchAssumption, ThresholdAssumption
     DEF Init, TypeOK, RowTypes, WorkerTypes, Working, Stages, Row, Verified, NewRow, Statuses
<1>2. \A w \in Workers : Held(w) = {} /\ Waiting(w) = {}
  BY DEF Init, Held, Waiting, Working
<1>3. Lease /\ OneHolder
  BY <1>2 DEF Lease, OneHolder
<1>4. SentPast
  BY <1>2 DEF SentPast, Init
<1>5. Budget
  BY EmptyBatch, DispatchAssumption DEF Budget, Init, Working
<1> QED BY <1>1, <1>3, <1>4, <1>5 DEF IInv

(* A row old enough to be reaped is held by no worker. *)
LEMMA StuckUnheld ==
  ASSUME BatchFits, IInv, NEW w \in Workers, NEW c \in Held(w)
  PROVE  c.d \notin Stuck
<1>1. done[w] \in Nat /\ spent[w] \in Nat /\ spent[w] <= DeliveryTime
  BY DispatchAssumption DEF IInv, TypeOK, WorkerTypes
<1>2. done[w] + 1 <= ClaimBatchSize
  <2>1. Cardinality(batch[w]) \in Nat /\ (batch[w] # {} => Cardinality(batch[w]) # 0)
    BY FS_CardinalityType, FS_EmptySet DEF IInv, Budget
  <2>2. Working(w) \/ batch[w] # {}
    BY DEF Held
  <2> QED BY <1>1, <2>1, <2>2, DispatchAssumption DEF IInv, Budget
<1>3. Term(w) <= ReapAfter
  <2>1. Term(w) <= (done[w] + 1) * DeliveryTime
    BY <1>1, TermGrows DEF Term
  <2>2. (done[w] + 1) * DeliveryTime <= ClaimBatchSize * DeliveryTime
    BY <1>1, <1>2, TermBound
  <2>3. /\ Term(w) \in Int /\ (done[w] + 1) * DeliveryTime \in Int
        /\ ClaimBatchSize * DeliveryTime \in Int
    BY <1>1, DispatchAssumption DEF Term
  <2> QED BY <2>1, <2>2, <2>3, DispatchAssumption DEF BatchFits
<1>4. c.d \in Deliveries
  <2>1. Held(w) \subseteq Claims
    BY DEF IInv, TypeOK, WorkerTypes, Held
  <2> QED BY <2>1, ClaimFields
<1>5. status[c.d] = "in_flight" => age[c.d] <= Term(w)
  BY DEF IInv, Lease
<1>6. age[c.d] \in Int /\ Term(w) \in Int
  BY <1>1, <1>4, DispatchAssumption DEF IInv, TypeOK, RowTypes, Term
<1> QED BY <1>3, <1>5, <1>6, DispatchAssumption DEF Stuck

(* What the invariant says of a held claim's row. *)
LEMMA HeldRow ==
  ASSUME IInv, NEW w \in Workers, NEW c \in Held(w)
  PROVE  /\ c \in Claims /\ c.d \in Deliveries /\ c.attempt \in Nat
         /\ status[c.d] \in {"in_flight", "gone"}
<1>1. Held(w) \subseteq Claims
  BY DEF IInv, TypeOK, WorkerTypes, Held
<1>2. c.d \in Deliveries /\ c.attempt \in Nat
  BY <1>1, ClaimFields
<1> QED BY <1>1, <1>2 DEF IInv, Lease

(* Workers that drop what they hold keep the invariant. *)
LEMMA RestFrame ==
  ASSUME IInv, TypeOK', NEW W, Rest(W), UNCHANGED <<status, attempts, age, sent>>
  PROVE  IInv'
<1>1. \A w \in Workers : IF w \in W THEN Held(w)' = {} /\ Waiting(w)' = {}
                         ELSE /\ Held(w)' = Held(w) /\ Waiting(w)' = Waiting(w)
                              /\ Term(w)' = Term(w)
  BY DEF Rest, Held, Waiting, Working, Term
<1>2. \A w \in Workers : Term(w) \in Int
  BY DispatchAssumption DEF IInv, TypeOK, WorkerTypes, Term
<1>3. \A w \in Workers : \A c \in Held(w)' :
           /\ status'[c.d] \in {status[c.d], "gone"}
           /\ status'[c.d] = "in_flight" => age'[c.d] <= age[c.d]
           /\ Term(w) <= Term(w)'
  <2> SUFFICES ASSUME NEW w \in Workers, NEW c \in Held(w)'
               PROVE  age[c.d] <= age[c.d] /\ Term(w) <= Term(w)'
    OBVIOUS
  <2>1. c \in Held(w) /\ Term(w)' = Term(w)
    BY <1>1
  <2>2. age[c.d] \in Int
    BY <2>1, HeldRow, DispatchAssumption DEF IInv, TypeOK, RowTypes
  <2> QED BY <1>2, <2>1, <2>2
<1>4. Claimwise'
  BY <1>1, <1>3, Frame DEF IInv, Claimwise
<1>5. Budget'
  <2> SUFFICES ASSUME NEW w \in Workers
               PROVE  /\ IsFiniteSet(batch[w])'
                      /\ (done[w] + Cardinality(batch[w]) + (IF Working(w) THEN 1 ELSE 0)
                            <= ClaimBatchSize)'
                      /\ (Working(w) => cur[w] \notin batch[w])'
                      /\ (stage[w] = "idle" => batch[w] = {} /\ done[w] = 0)'
    BY DEF Budget
  <2>1. CASE w \in W
    BY <2>1, EmptyBatch, DispatchAssumption DEF Rest, Working
  <2>2. CASE w \notin W
    BY <2>2 DEF Rest, Working, IInv, Budget
  <2> QED BY <2>1, <2>2
<1> QED BY <1>4, <1>5 DEF IInv, Claimwise

(* The end of a delivery gives up the claim; whatever was written to its    *)
(* row is nobody else's business.                                           *)
LEMMA EndFrame ==
  ASSUME IInv, TypeOK', NEW w \in Workers, Working(w), EndDelivery(w),
         UNCHANGED <<attempts, sent>>,
         \A d \in Deliveries \ {cur[w].d} : status'[d] = status[d] /\ age'[d] = age[d]
  PROVE  IInv'
<1>0. /\ done[w] \in Nat /\ spent[w] \in Nat /\ spent[w] <= DeliveryTime
      /\ stage \in [Workers -> Stages] /\ batch \in [Workers -> SUBSET Claims]
      /\ cur \in [Workers -> Claims \union {NoClaim}]
      /\ done \in [Workers -> Nat] /\ spent \in [Workers -> 0..DeliveryTime]
  BY DispatchAssumption DEF IInv, TypeOK, WorkerTypes
<1>1. /\ Held(w)' = batch[w] /\ batch[w] \subseteq Held(w)
      /\ Waiting(w)' = batch[w] /\ batch[w] \subseteq Waiting(w)
      /\ batch[w] # {} => Term(w) <= Term(w)'
  <2>1. CASE batch[w] = {}
    BY <1>0, <2>1 DEF EndDelivery, Rest, Held, Waiting, Working
  <2>2. CASE batch[w] # {}
    <3>1. Term(w)' = (done[w] + 1) * DeliveryTime + 0
      BY <1>0, <2>2 DEF EndDelivery, Term
    <3>2. Term(w) <= (done[w] + 1) * DeliveryTime /\ (done[w] + 1) * DeliveryTime \in Int
      BY <1>0, TermGrows, DispatchAssumption DEF Term
    <3>3. Term(w) <= Term(w)'
      BY <3>1, <3>2
    <3> QED BY <1>0, <2>2, <3>3 DEF EndDelivery, Held, Waiting, Working
  <2> QED BY <2>1, <2>2
<1>2. \A v \in Workers \ {w} : /\ Held(v)' = Held(v) /\ Waiting(v)' = Waiting(v)
                               /\ Term(v)' = Term(v)
  <2>1. CASE batch[w] = {}
    BY <1>0, <2>1 DEF EndDelivery, Rest, Held, Waiting, Working, Term
  <2>2. CASE batch[w] # {}
    BY <1>0, <2>2 DEF EndDelivery, Held, Waiting, Working, Term
  <2> QED BY <2>1, <2>2
<1>3. \A v \in Workers : \A c \in Held(v)' : c.d \in Deliveries /\ c.d # cur[w].d
  <2> SUFFICES ASSUME NEW v \in Workers, NEW c \in Held(v)'
               PROVE  c.d \in Deliveries /\ c.d # cur[w].d
    OBVIOUS
  <2>1. c \in Held(v) /\ (v = w => c \in batch[w])
    BY <1>1, <1>2
  <2>2. cur[w] \in Held(w) /\ cur[w] \notin batch[w]
    BY DEF Held, IInv, Budget
  <2> QED BY <2>1, <2>2, HeldRow DEF IInv, OneHolder
<1>4. \A v \in Workers : Term(v) \in Int
  BY DispatchAssumption DEF IInv, TypeOK, WorkerTypes, Term
<1>5. \A d \in Deliveries : age[d] \in Int
  BY DispatchAssumption DEF IInv, TypeOK, RowTypes
<1>6. Claimwise'
  <2>1. \A v \in Workers : Held(v)' \subseteq Held(v) /\ Waiting(v)' \subseteq Waiting(v)
    BY <1>1, <1>2
  <2>2. \A v \in Workers : \A c \in Held(v)' : Term(v) <= Term(v)'
    BY <1>1, <1>2, <1>4
  <2>3. \A v \in Workers : \A c \in Held(v)' :
          status'[c.d] = status[c.d] /\ age'[c.d] <= age[c.d]
    BY <1>3, <1>5
  <2> QED BY <2>1, <2>2, <2>3, Frame DEF IInv, Claimwise
<1>7. Budget'
  <2> SUFFICES ASSUME NEW v \in Workers
               PROVE  /\ IsFiniteSet(batch[v])'
                      /\ (done[v] + Cardinality(batch[v]) + (IF Working(v) THEN 1 ELSE 0)
                            <= ClaimBatchSize)'
                      /\ (Working(v) => cur[v] \notin batch[v])'
                      /\ (stage[v] = "idle" => batch[v] = {} /\ done[v] = 0)'
    BY DEF Budget
  <2>1. CASE batch[w] = {} /\ v = w
    <3>1. batch'[w] = {} /\ done'[w] = 0 /\ stage'[w] = "idle"
      BY <1>0, <2>1 DEF EndDelivery, Rest
    <3> QED BY <2>1, <3>1, EmptyBatch, DispatchAssumption DEF Working
  <2>2. CASE batch[w] # {} /\ v = w
    <3>1. IsFiniteSet(batch[w]) /\ Cardinality(batch[w]) \in Nat
      BY FS_CardinalityType DEF IInv, Budget
    <3>2. done[w] + Cardinality(batch[w]) + 1 <= ClaimBatchSize
      BY DEF IInv, Budget
    <3>3. batch'[w] = batch[w] /\ done'[w] = done[w] + 1 /\ stage'[w] = "next"
      BY <1>0, <2>2 DEF EndDelivery
    <3> QED BY <1>0, <2>2, <3>1, <3>2, <3>3, DispatchAssumption DEF Working
  <2>3. CASE v # w
    <3>1. /\ batch'[v] = batch[v] /\ done'[v] = done[v] /\ cur'[v] = cur[v]
          /\ stage'[v] = stage[v]
      BY <1>0, <2>3 DEF EndDelivery, Rest
    <3> QED BY <3>1 DEF IInv, Budget, Working
  <2> QED BY <2>1, <2>2, <2>3
<1> QED BY <1>6, <1>7 DEF IInv, Claimwise

(* A claim opens a new attempt of rows that nobody holds. *)
LEMMA ClaimStep ==
  ASSUME IInv, TypeOK', NEW w \in Workers, Claim(w)
  PROVE  IInv'
<1>1. PICK D \in Claimable :
        /\ status'   = [d \in Deliveries |-> IF d \in D THEN "in_flight" ELSE status[d]]
        /\ attempts' = [d \in Deliveries |-> IF d \in D THEN NextAttempt(d) ELSE attempts[d]]
        /\ age'      = [d \in Deliveries |-> IF d \in D THEN 0 ELSE age[d]]
        /\ batch'    = [batch EXCEPT ![w] = {[d |-> d, attempt |-> NextAttempt(d)] : d \in D}]
  BY DEF Claim
<1> DEFINE B == {[d |-> d, attempt |-> NextAttempt(d)] : d \in D}
<1>2. D \in SUBSET Deliveries /\ \A d \in D : status[d] = "pending"
  BY DEF Claimable, Due
<1>3. /\ stage \in [Workers -> Stages] /\ batch \in [Workers -> SUBSET Claims]
      /\ done \in [Workers -> Nat] /\ spent \in [Workers -> Nat]
      /\ attempts \in [Deliveries -> Nat] /\ age \in [Deliveries -> Nat]
      /\ sent \subseteq Deliveries \X Nat
  BY DispatchAssumption DEF IInv, TypeOK, RowTypes, WorkerTypes
<1>4. /\ stage[w] = "idle" /\ batch[w] = {} /\ done[w] = 0
      /\ stage' = [stage EXCEPT ![w] = "claimed"]
      /\ UNCHANGED <<cur, done, spent, sent>>
  BY DEF Claim, IInv, Budget, history
<1>5. /\ batch'[w] = B /\ Held(w)' = B /\ Waiting(w)' = B
      /\ \A v \in Workers \ {w} : /\ Held(v)' = Held(v) /\ Waiting(v)' = Waiting(v)
                                  /\ batch'[v] = batch[v] /\ stage'[v] = stage[v]
  <2>1. batch'[w] = B /\ stage'[w] = "claimed"
    BY <1>1, <1>3, <1>4
  <2>2. Held(w)' = B /\ Waiting(w)' = B
    BY <2>1 DEF Held, Waiting, Working
  <2>3. \A v \in Workers \ {w} : batch'[v] = batch[v] /\ stage'[v] = stage[v] /\ cur'[v] = cur[v]
    BY <1>1, <1>3, <1>4
  <2> HIDE DEF B
  <2> QED BY <2>1, <2>2, <2>3 DEF Held, Waiting, Working
<1>6. \A v \in Workers \ {w} : \A c \in Held(v) :
        /\ c.d \in Deliveries /\ c.d \notin D
        /\ status'[c.d] = status[c.d] /\ attempts'[c.d] = attempts[c.d] /\ age'[c.d] = age[c.d]
  BY <1>1, <1>2, HeldRow
<1>7. \A v \in Workers : Term(v)' = Term(v) /\ Term(v) \in Nat
  BY <1>3, <1>4, DispatchAssumption DEF Term
<1>8. \A c \in B : /\ c.d \in D /\ c.attempt = attempts[c.d] + 1 /\ c.attempt \in Nat
                   /\ status'[c.d] = "in_flight" /\ attempts'[c.d] = c.attempt /\ age'[c.d] = 0
  BY <1>1, <1>2, <1>3 DEF NextAttempt
<1>9. Lease'
  <2> SUFFICES ASSUME NEW v \in Workers, NEW c \in Held(v)'
               PROVE  /\ status'[c.d] \in {"in_flight", "gone"}
                      /\ c.attempt <= attempts'[c.d]
                      /\ status'[c.d] = "in_flight" =>
                           attempts'[c.d] = c.attempt /\ age'[c.d] <= Term(v)'
    BY DEF Lease
  <2> HIDE DEF B
  <2>1. CASE v = w
    BY <2>1, <1>5, <1>7, <1>8
  <2>2. CASE v # w
    <3>1. c \in Held(v)
      BY <2>2, <1>5
    <3> QED BY <2>2, <3>1, <1>6, <1>7 DEF IInv, Lease
  <2> QED BY <2>1, <2>2
<1>10. OneHolder'
  <2> SUFFICES ASSUME NEW u \in Workers, NEW v \in Workers,
                      NEW c \in Held(u)', NEW b \in Held(v)', b.d = c.d
               PROVE  v = u /\ b = c
    BY DEF OneHolder
  <2>1. CASE u = w /\ v = w
    BY <2>1, <1>5
  <2> HIDE DEF B
  <2>2. CASE u # w /\ v # w
    BY <2>2, <1>5 DEF IInv, OneHolder
  <2>3. CASE u = w /\ v # w
    BY <2>3, <1>5, <1>6, <1>8
  <2>4. CASE u # w /\ v = w
    BY <2>4, <1>5, <1>6, <1>8
  <2> QED BY <2>1, <2>2, <2>3, <2>4
<1>11. Budget'
  <2> SUFFICES ASSUME NEW v \in Workers
               PROVE  /\ IsFiniteSet(batch[v])'
                      /\ (done[v] + Cardinality(batch[v]) + (IF Working(v) THEN 1 ELSE 0)
                            <= ClaimBatchSize)'
                      /\ (Working(v) => cur[v] \notin batch[v])'
                      /\ (stage[v] = "idle" => batch[v] = {} /\ done[v] = 0)'
    BY DEF Budget
  <2>1. IsFiniteSet(B) /\ Cardinality(B) <= ClaimBatchSize /\ Cardinality(B) \in Nat
    <3>1. IsFiniteSet(B) /\ Cardinality(B) <= ClaimBatchSize
      BY ClaimedBatch
    <3> HIDE DEF B
    <3> QED BY <3>1, FS_CardinalityType
  <2> HIDE DEF B
  <2>2. CASE v = w
    <3>1. batch'[v] = B /\ stage'[v] = "claimed" /\ done'[v] = 0
      BY <2>2, <1>3, <1>4, <1>5
    <3> QED BY <3>1, <2>1, DispatchAssumption DEF Working
  <2>3. CASE v # w
    BY <2>3, <1>4, <1>5 DEF IInv, Budget, Working
  <2> QED BY <2>2, <2>3
<1>12. SentPast'
  <2>1. \A p \in sent' : p[2] <= attempts'[p[1]]
    BY <1>1, <1>3, <1>4 DEF IInv, SentPast, NextAttempt
  <2>2. \A v \in Workers : \A c \in Waiting(v)' : <<c.d, c.attempt>> \notin sent'
    <3> SUFFICES ASSUME NEW v \in Workers, NEW c \in Waiting(v)', <<c.d, c.attempt>> \in sent'
                 PROVE  FALSE
      OBVIOUS
    <3> HIDE DEF B
    <3>1. CASE v = w
      <4>1. c.d \in D /\ c.attempt = attempts[c.d] + 1 /\ attempts[c.d] \in Nat
        BY <3>1, <1>2, <1>3, <1>5, <1>8
      <4>2. c.attempt <= attempts[c.d]
        BY <1>4 DEF IInv, SentPast
      <4> QED BY <4>1, <4>2
    <3>2. CASE v # w
      BY <3>2, <1>4, <1>5 DEF IInv, SentPast
    <3> QED BY <3>1, <3>2
  <2> QED BY <2>1, <2>2 DEF SentPast
<1> QED BY <1>9, <1>10, <1>11, <1>12 DEF IInv

(* One worker goes on with what it holds, or with less of it. *)
LEMMA WorkerFrame ==
  ASSUME IInv, TypeOK', NEW w \in Workers,
         UNCHANGED <<status, attempts, age, done, spent, sent>>,
         Held(w)' \subseteq Held(w), Waiting(w)' \subseteq Waiting(w),
         \A v \in Workers \ {w} : /\ stage'[v] = stage[v] /\ batch'[v] = batch[v]
                                  /\ cur'[v] = cur[v],
         IsFiniteSet(batch'[w]),
         Cardinality(batch'[w]) + (IF Working(w)' THEN 1 ELSE 0)
           <= Cardinality(batch[w]) + (IF Working(w) THEN 1 ELSE 0),
         Working(w)' => cur'[w] \notin batch'[w],
         stage'[w] # "idle"
  PROVE  IInv'
<1>1. \A v \in Workers : /\ Held(v)' \subseteq Held(v) /\ Waiting(v)' \subseteq Waiting(v)
                         /\ Term(v)' = Term(v) /\ Term(v) \in Int
  BY DispatchAssumption DEF IInv, TypeOK, WorkerTypes, Held, Waiting, Working, Term
<1>2. \A v \in Workers : \A c \in Held(v) : c.d \in Deliveries /\ age[c.d] \in Int
  BY HeldRow, DispatchAssumption DEF IInv, TypeOK, RowTypes
<1>3. Claimwise'
  BY <1>1, <1>2, Frame DEF IInv, Claimwise
<1>4. Budget'
  <2> SUFFICES ASSUME NEW v \in Workers
               PROVE  /\ IsFiniteSet(batch[v])'
                      /\ (done[v] + Cardinality(batch[v]) + (IF Working(v) THEN 1 ELSE 0)
                            <= ClaimBatchSize)'
                      /\ (Working(v) => cur[v] \notin batch[v])'
                      /\ (stage[v] = "idle" => batch[v] = {} /\ done[v] = 0)'
    BY DEF Budget
  <2>1. CASE v = w
    <3>1. /\ Cardinality(batch[w]) \in Nat /\ Cardinality(batch'[w]) \in Nat
          /\ done[w] \in Nat
      BY FS_CardinalityType DEF IInv, Budget, TypeOK, WorkerTypes
    <3>2. done[w] + Cardinality(batch[w]) + (IF Working(w) THEN 1 ELSE 0) <= ClaimBatchSize
      BY DEF IInv, Budget
    <3> QED BY <2>1, <3>1, <3>2, DispatchAssumption
  <2>2. CASE v # w
    BY <2>2 DEF IInv, Budget, Working
  <2> QED BY <2>1, <2>2
<1> QED BY <1>3, <1>4 DEF IInv, Claimwise

(* The hydrating query keeps the claims whose row is still there, on the attempt
   the row has. *)
LEMMA HydrateStep ==
  ASSUME IInv, TypeOK', NEW w \in Workers, Hydrate(w)
  PROVE  IInv'
<1> DEFINE B == {[d |-> c.d, attempt |-> attempts[c.d]] :
                   c \in {b \in batch[w] : status[b.d] \in InTable}}
<1>1. CASE Rest({w})
  BY <1>1, RestFrame DEF Hydrate, rowVars, history
<1>2. CASE ~ Rest({w})
  <2>1. /\ batch' = [batch EXCEPT ![w] = B] /\ stage' = [stage EXCEPT ![w] = "next"]
        /\ stage[w] = "claimed"
        /\ UNCHANGED <<cur, done, spent, status, attempts, age, sent>>
    BY <1>2 DEF Hydrate, rowVars, history
  <2>2. B \subseteq batch[w]
    <3> SUFFICES ASSUME NEW c \in batch[w], status[c.d] \in InTable
                 PROVE  [d |-> c.d, attempt |-> attempts[c.d]] = c
      OBVIOUS
    <3>1. c \in Held(w)
      BY DEF Held
    <3>2. attempts[c.d] = c.attempt
      BY <3>1, HeldRow DEF IInv, Lease
    <3> QED BY <3>1, <3>2, HeldRow, ClaimEta
  <2>3. /\ batch \in [Workers -> SUBSET Claims] /\ stage \in [Workers -> Stages]
        /\ IsFiniteSet(batch[w])
    BY DEF IInv, TypeOK, WorkerTypes, Budget
  <2> HIDE DEF B
  <2>4. /\ batch'[w] = B /\ stage'[w] = "next"
        /\ \A v \in Workers \ {w} : /\ stage'[v] = stage[v] /\ batch'[v] = batch[v]
                                    /\ cur'[v] = cur[v]
    BY <2>1, <2>3
  <2>5. IsFiniteSet(B) /\ Cardinality(B) <= Cardinality(batch[w])
    BY <2>2, <2>3, SmallerBatch
  <2>6. ~ Working(w) /\ ~ Working(w)'
    BY <2>1, <2>4 DEF Working
  <2>7. Held(w)' \subseteq Held(w) /\ Waiting(w)' \subseteq Waiting(w)
    BY <2>2, <2>4, <2>6 DEF Held, Waiting
  <2>8. Cardinality(B) \in Nat /\ Cardinality(batch[w]) \in Nat
    BY <2>2, <2>3, SmallerBatch
  <2> QED BY <2>1, <2>4, <2>5, <2>6, <2>7, <2>8, WorkerFrame
<1> QED BY <1>1, <1>2

(* The next turn of the loop takes one claim out of the batch and answers for it. *)
LEMMA DeliverStep ==
  ASSUME IInv, TypeOK', NEW w \in Workers, Deliver(w)
  PROVE  IInv'
<1>1. PICK c \in batch[w] : /\ cur' = [cur EXCEPT ![w] = c]
                            /\ batch' = [batch EXCEPT ![w] = batch[w] \ {c}]
  BY DEF Deliver
<1>2. /\ batch \in [Workers -> SUBSET Claims] /\ stage \in [Workers -> Stages]
      /\ cur \in [Workers -> Claims \union {NoClaim}]
      /\ IsFiniteSet(batch[w])
  BY DEF IInv, TypeOK, WorkerTypes, Budget
<1>3. /\ batch'[w] = batch[w] \ {c} /\ cur'[w] = c
      /\ stage[w] = "next" /\ stage'[w] = "pacing"
      /\ \A v \in Workers \ {w} : /\ stage'[v] = stage[v] /\ batch'[v] = batch[v]
                                  /\ cur'[v] = cur[v]
      /\ UNCHANGED <<status, attempts, age, done, spent, sent>>
  BY <1>1, <1>2 DEF Deliver, rowVars, history
<1>4. /\ IsFiniteSet(batch'[w]) /\ Cardinality(batch[w]) \in Nat
      /\ Cardinality(batch'[w]) = Cardinality(batch[w]) - 1
  BY <1>2, <1>3, SmallerBatch
<1>5. Working(w)' /\ ~ Working(w)
  BY <1>3 DEF Working
<1>6. Held(w)' \subseteq Held(w) /\ Waiting(w)' \subseteq Waiting(w)
  BY <1>3, <1>5 DEF Held, Waiting
<1>7. Cardinality(batch'[w]) + (IF Working(w)' THEN 1 ELSE 0)
        <= Cardinality(batch[w]) + (IF Working(w) THEN 1 ELSE 0)
  BY <1>4, <1>5
<1>8. Working(w)' => cur'[w] \notin batch'[w]
  BY <1>3
<1> QED BY <1>3, <1>4, <1>6, <1>7, <1>8, WorkerFrame

(* The outcome of a request is decided. *)
LEMMA DecideStep ==
  ASSUME IInv, TypeOK', NEW w \in Workers, NEW res, Working(w), Decide(w, res)
  PROVE  IInv'
<1>1. /\ stage \in [Workers -> Stages] /\ IsFiniteSet(batch[w])
      /\ Cardinality(batch[w]) \in Nat /\ cur[w] \notin batch[w]
  BY FS_CardinalityType DEF IInv, TypeOK, WorkerTypes, Budget
<1>2. /\ stage'[w] = "recording" /\ batch' = batch /\ cur' = cur
      /\ \A v \in Workers \ {w} : stage'[v] = stage[v]
      /\ UNCHANGED <<status, attempts, age, done, spent, sent>>
  BY <1>1 DEF Decide, rowVars
<1>3. Working(w)' /\ Held(w)' = Held(w) /\ Waiting(w)' \subseteq Waiting(w)
  BY <1>2 DEF Held, Waiting, Working
<1> QED BY <1>1, <1>2, <1>3, WorkerFrame

(* Handing a request to the client uses up the attempt. *)
LEMMA SendStep ==
  ASSUME IInv, TypeOK', NEW w \in Workers, Send(w)
  PROVE  IInv'
<1>1. /\ stage \in [Workers -> Stages] /\ Working(w)
      /\ cur[w] \in Held(w) /\ cur[w] \notin batch[w]
  BY DEF IInv, TypeOK, WorkerTypes, Budget, Send, Working, Held
<1>2. /\ stage[w] = "pacing" /\ stage'[w] = "sending"
      /\ \A v \in Workers \ {w} : stage'[v] = stage[v]
      /\ UNCHANGED <<status, attempts, age, batch, cur, done, spent>>
      /\ sent' = sent \union {<<cur[w].d, cur[w].attempt>>}
  BY <1>1 DEF Send, rowVars
<1>3. \A v \in Workers : /\ Held(v)' = Held(v) /\ Term(v)' = Term(v)
                         /\ (Working(v)' <=> Working(v))
                         /\ (stage'[v] = "idle" <=> stage[v] = "idle")
  BY <1>2 DEF Held, Working, Term
<1>4. /\ Waiting(w)' = Waiting(w) \ {cur[w]} /\ Waiting(w) = Held(w)
      /\ \A v \in Workers \ {w} : Waiting(v)' = Waiting(v) /\ Waiting(v) \subseteq Held(v)
  BY <1>1, <1>2 DEF Waiting, Held, Working
<1>5. Lease' /\ OneHolder'
  BY <1>2, <1>3 DEF IInv, Lease, OneHolder
<1>6. Budget'
  BY <1>2, <1>3 DEF IInv, Budget
<1>7. SentPast'
  <2>1. cur[w].attempt <= attempts[cur[w].d]
    BY <1>1 DEF IInv, Lease
  <2>2. \A v \in Workers : \A c \in Waiting(v)' : <<c.d, c.attempt>> \notin sent'
    <3> SUFFICES ASSUME NEW v \in Workers, NEW c \in Waiting(v)'
                 PROVE  <<c.d, c.attempt>> \notin sent'
      OBVIOUS
    <3>1. c \in Waiting(v) /\ c \in Held(v) /\ (v = w => c # cur[w])
      BY <1>4
    <3>2. c.d # cur[w].d
      BY <1>1, <3>1 DEF IInv, OneHolder
    <3>3. <<c.d, c.attempt>> \notin sent
      BY <3>1 DEF IInv, SentPast
    <3> QED BY <1>2, <3>2, <3>3
  <2> QED BY <1>2, <2>1, <2>2 DEF IInv, SentPast
<1> QED BY <1>5, <1>6, <1>7 DEF IInv

(* Time makes a claim and the worker that holds it older alike. *)
LEMMA TickStep ==
  ASSUME IInv, TypeOK', Tick
  PROVE  IInv'
<1>1. /\ stage' = stage /\ batch' = batch /\ cur' = cur /\ done' = done /\ sent' = sent
      /\ status' = status /\ attempts' = attempts
      /\ spent \in [Workers -> Nat] /\ done \in [Workers -> Nat] /\ age \in [Deliveries -> Nat]
  BY DispatchAssumption DEF Tick, history, IInv, TypeOK, RowTypes, WorkerTypes
<1>2. \A w \in Workers : Held(w)' = Held(w) /\ Waiting(w)' = Waiting(w)
  BY <1>1 DEF Held, Waiting, Working
<1>3. Lease'
  <2> SUFFICES ASSUME NEW w \in Workers, NEW c \in Held(w)
               PROVE  /\ status[c.d] \in {"in_flight", "gone"}
                      /\ c.attempt <= attempts[c.d]
                      /\ status[c.d] = "in_flight" =>
                           attempts[c.d] = c.attempt /\ age'[c.d] <= Term(w)'
    BY <1>1, <1>2 DEF Lease
  <2>1. stage[w] # "idle"
    BY DEF Held, Working, IInv, Budget
  <2>2. Term(w)' = Term(w) + 1
    BY <1>1, <2>1, DispatchAssumption DEF Tick, Term
  <2>3. c.d \in Deliveries
    BY HeldRow
  <2>4. age'[c.d] <= age[c.d] + 1
    BY <1>1, <2>3 DEF Tick
  <2>5. age'[c.d] \in Int /\ age[c.d] \in Int /\ Term(w) \in Int
    BY <1>1, <2>3, DispatchAssumption DEF Tick, Term
  <2> QED BY <2>2, <2>4, <2>5 DEF IInv, Lease
<1>4. OneHolder'
  BY <1>2 DEF IInv, OneHolder
<1>5. Budget'
  BY <1>1 DEF IInv, Budget, Working
<1>6. SentPast'
  BY <1>1, <1>2 DEF IInv, SentPast
<1> QED BY <1>3, <1>4, <1>5, <1>6 DEF IInv

(* Every step of every worker, replica and operator keeps the invariant. *)
LEMMA InvStep ==
  ASSUME BatchFits, IInv, [Next]_vars
  PROVE  IInv'
<1>1. TypeOK'
  BY TypeStep DEF IInv
<1> USE <1>1
<1> USE DEF rowVars, workerVars, history
<1>2. \A w \in Workers : \A c \in Held(w) :
        c.d \in Deliveries /\ status[c.d] \in {"in_flight", "gone"}
  BY HeldRow
<1>3. ASSUME UNCHANGED <<workerVars, sent, attempts>>,
             \A w \in Workers : \A c \in Held(w) :
               /\ status'[c.d] \in {status[c.d], "gone"}
               /\ status'[c.d] = "in_flight" => age'[c.d] = age[c.d]
      PROVE  IInv'
  BY <1>3, RowFrame DEF IInv, Claimwise
<1>4. ASSUME NEW d \in Deliveries, Plan(d) \/ Requeue(d) PROVE IInv'
  <2>1. \A w \in Workers : \A c \in Held(w) : status'[c.d] = status[c.d]
    BY <1>2, <1>4 DEF Plan, Requeue, IInv, TypeOK, RowTypes
  <2> QED BY <1>3, <1>4, <2>1 DEF Plan, Requeue
<1>5. ASSUME NEW D \in SUBSET Deliveries, Remove(D) PROVE IInv'
  <2>1. \A w \in Workers : \A c \in Held(w) :
          /\ status'[c.d] \in {status[c.d], "gone"}
          /\ status'[c.d] = "in_flight" => age'[c.d] = age[c.d]
    BY <1>2, <1>5 DEF Remove
  <2> QED BY <1>3, <1>5, <2>1 DEF Remove
<1>6. ASSUME NEW r \in Replicas, Reap(r) PROVE IInv'
  <2>1. \A w \in Workers : \A c \in Held(w) :
          status'[c.d] = status[c.d] /\ age'[c.d] = age[c.d]
    BY <1>2, <1>6, StuckUnheld DEF Reap
  <2> QED BY <1>3, <1>6, <2>1 DEF Reap
<1>7. ASSUME NEW r \in Replicas, Shutdown(r) \/ Restart(r) PROVE IInv'
  BY <1>3, <1>7 DEF Shutdown, Restart
<1>8. ASSUME NEW r \in Replicas, Crash(r) \/ Exit(r) PROVE IInv'
  BY <1>8, RestFrame DEF Crash, Exit, Die
<1>9. ASSUME NEW w \in Workers, ClaimError(w) \/ Abandon(w) PROVE IInv'
  BY <1>9, RestFrame DEF ClaimError, Abandon, Forget
<1>10. ASSUME NEW w \in Workers, Refuse(w) \/ Cancelled(w) PROVE IInv'
  BY <1>10, DecideStep DEF Refuse, Cancelled, Working
<1>11. ASSUME NEW w \in Workers, NEW res \in Results, Answer(w, res) PROVE IInv'
  BY <1>11, DecideStep DEF Answer, Working
<1>12. ASSUME NEW w \in Workers, Record(w) PROVE IInv'
  <2> DEFINE d == cur[w].d
  <2>1. Working(w) /\ EndDelivery(w) /\ attempts' = attempts /\ sent' = sent
    BY <1>12 DEF Record, EndDelivery, Working
  <2>2. \A e \in Deliveries \ {d} : status'[e] = status[e] /\ age'[e] = age[e]
    <3>1. CASE status[d] \in InTable
      BY <1>12, <3>1 DEF Record, IInv, TypeOK, RowTypes
    <3>2. CASE status[d] \notin InTable
      BY <1>12, <3>2 DEF Record
    <3> QED BY <3>1, <3>2
  <2> QED BY <2>1, <2>2, EndFrame
<1>13. ASSUME NEW w \in Workers, RecordError(w) PROVE IInv'
  BY <1>13, EndFrame DEF RecordError, EndDelivery, Working
<1>14. CASE UNCHANGED vars
  BY <1>3, <1>14 DEF vars
<1> QED
  BY <1>4, <1>5, <1>6, <1>7, <1>8, <1>9, <1>10, <1>11, <1>12, <1>13, <1>14,
     ClaimStep, HydrateStep, DeliverStep, SendStep, TickStep
     DEF Next, TableStep, WorkerStep, WorkerFault, ReplicaStep

(***************************************************************************)
(* The inductive invariant holds in every reachable state, for any number  *)
(* of rows, workers and replicas, provided a batch fits the lease.         *)
(***************************************************************************)
THEOREM InvHolds == BatchFits => (Spec => []IInv)
<1> SUFFICES ASSUME BatchFits PROVE Spec => []IInv
  OBVIOUS
<1>1. IInv /\ [Next]_vars => IInv'
  BY InvStep
<1> QED BY InvInit, <1>1, PTL DEF Spec

(***************************************************************************)
(* No two workers ever answer for one delivery, and the row stays open on  *)
(* the very attempt its worker is making, provided a batch fits the lease. *)
(***************************************************************************)
THEOREM ExclusiveHolds == BatchFits => (Spec => []Exclusive)
<1>1. IInv => Exclusive
  BY DEF IInv, Lease, OneHolder, Exclusive
<1> QED BY <1>1, InvHolds, PTL

(***************************************************************************)
(* No pair of delivery id and attempt number is sent twice, under the same *)
(* proviso.                                                                *)
(***************************************************************************)
THEOREM OncePerAttemptHolds == BatchFits => (Spec => []OncePerAttempt)
<1>1. IInv => OncePerAttempt
  BY DEF IInv, SentPast, Waiting, OncePerAttempt
<1> QED BY <1>1, InvHolds, PTL

-----------------------------------------------------------------------------
(* Every step moves each row along an edge of the lifecycle or leaves it alone. *)
LEMMA LifecycleStep ==
  ASSUME IInv, [Next]_vars
  PROVE  [Lifecycle!Next]_(Lifecycle!lifecycleVars)
<1> USE DEF rowVars, workerVars, history
<1> DEFINE L == [Lifecycle!Next]_(Lifecycle!lifecycleVars)
<1>1. /\ status \in [Deliveries -> InTable \union {"unborn", "gone"}]
      /\ attempts \in [Deliveries -> Nat] /\ requeues \in Nat
  BY DispatchAssumption DEF IInv, TypeOK, RowTypes
<1>2. ASSUME requeues' \in {requeues, requeues + 1},
             \A d \in Deliveries : Lifecycle!Move(d) \/ Lifecycle!Kept(d)
      PROVE  L
  BY <1>2 DEF Lifecycle!Next
<1>3. ASSUME UNCHANGED <<status, attempts, requeues>> PROVE L
  BY <1>3 DEF Lifecycle!lifecycleVars
<1>4. ASSUME NEW d \in Deliveries, Plan(d) PROVE L
  BY <1>1, <1>2, <1>4 DEF Plan, Lifecycle!Move, Lifecycle!Planned, Lifecycle!Kept
<1>5. ASSUME NEW d \in Deliveries, Requeue(d) PROVE L
  BY <1>1, <1>2, <1>5
     DEF Requeue, Lifecycle!Move, Lifecycle!Requeued, Lifecycle!Kept, Lifecycle!Final
<1>6. ASSUME NEW D \in SUBSET Deliveries, Remove(D) PROVE L
  BY <1>1, <1>2, <1>6
     DEF Remove, Lifecycle!Move, Lifecycle!Removed, Lifecycle!Kept, Lifecycle!Present,
         Lifecycle!Final
<1>7. ASSUME NEW w \in Workers, Claim(w) PROVE L
  <2>1. PICK D \in Claimable :
          /\ status'   = [d \in Deliveries |-> IF d \in D THEN "in_flight" ELSE status[d]]
          /\ attempts' = [d \in Deliveries |-> IF d \in D THEN NextAttempt(d) ELSE attempts[d]]
    BY <1>7 DEF Claim
  <2>2. \A d \in D : status[d] = "pending"
    BY DEF Claimable, Due
  <2>3. \A d \in Deliveries : Lifecycle!Move(d) \/ Lifecycle!Kept(d)
    BY <2>1, <2>2 DEF NextAttempt, Lifecycle!Move, Lifecycle!Claimed, Lifecycle!Kept
  <2> QED BY <1>2, <1>7, <2>3 DEF Claim
<1>8. ASSUME NEW r \in Replicas, Reap(r) PROVE L
  <2>1. \A d \in Deliveries : Lifecycle!Move(d) \/ Lifecycle!Kept(d)
    BY <1>8 DEF Reap, Stuck, Lifecycle!Move, Lifecycle!Returned, Lifecycle!Kept
  <2> QED BY <1>2, <1>8, <2>1 DEF Reap
<1>9. ASSUME NEW w \in Workers, Record(w) PROVE L
  <2> DEFINE d == cur[w].d
             o == Outcome(cur[w], result[w])
  <2>1. cur[w] \in Held(w) /\ cur[w].attempt \in Nat /\ d \in Deliveries
    <3>1. cur[w] \in Held(w)
      BY <1>9 DEF Record, Held, Working
    <3> QED BY <3>1, HeldRow
  <2>2. attempts' = attempts /\ requeues' = requeues
    BY <1>9 DEF Record, EndDelivery
  <2>3. CASE status[d] \in InTable
    <3>1. status[d] = "in_flight" /\ attempts[d] = cur[w].attempt
      BY <2>1, <2>3, HeldRow DEF IInv, Lease
    <3>2. status' = [status EXCEPT ![d] = o]
      BY <1>9, <2>3 DEF Record
    <3>3. o \in {"pending", "success", "failed", "dead"} /\ (o = "dead" => cur[w].attempt >= MaxAttempts)
      BY DEF Outcome
    <3>4. Lifecycle!Move(d)
      <4> HIDE DEF o
      <4>1. status'[d] = o
        BY <1>1, <2>1, <3>2
      <4> QED BY <2>1, <2>2, <3>1, <3>3, <4>1, DispatchAssumption
              DEF Lifecycle!Move, Lifecycle!Returned, Lifecycle!Closed, Lifecycle!Final
    <3>5. \A e \in Deliveries \ {d} : Lifecycle!Kept(e)
      BY <1>1, <2>2, <3>2 DEF Lifecycle!Kept
    <3> QED BY <1>2, <2>2, <3>4, <3>5
  <2>4. CASE status[d] \notin InTable
    BY <1>3, <1>9, <2>2, <2>4 DEF Record
  <2> QED BY <2>3, <2>4
<1>10. ASSUME NEW w \in Workers, RecordError(w) PROVE L
  BY <1>3, <1>10 DEF RecordError, EndDelivery
<1>11. ASSUME NEW w \in Workers,
              Hydrate(w) \/ Deliver(w) \/ Send(w) \/ ClaimError(w) \/ Abandon(w)
       PROVE  L
  BY <1>3, <1>11 DEF Hydrate, Deliver, Send, ClaimError, Abandon, Forget
<1>12. ASSUME NEW w \in Workers,
              Refuse(w) \/ Cancelled(w) \/ \E res \in Results : Answer(w, res)
       PROVE  L
  BY <1>3, <1>12 DEF Refuse, Cancelled, Answer, Decide
<1>13. ASSUME NEW r \in Replicas, Shutdown(r) \/ Crash(r) \/ Exit(r) \/ Restart(r) PROVE L
  BY <1>3, <1>13 DEF Shutdown, Crash, Exit, Restart, Die
<1>14. ASSUME Tick \/ UNCHANGED vars PROVE L
  BY <1>3, <1>14 DEF Tick, vars
<1> QED
  BY <1>4, <1>5, <1>6, <1>7, <1>8, <1>9, <1>10, <1>11, <1>12, <1>13, <1>14
     DEF Next, TableStep, WorkerStep, WorkerFault, ReplicaStep

(***************************************************************************)
(* The queue keeps the promise of DeliveryLifecycle: every row moves along *)
(* the legal edges only, dead means that max_attempts were opened, and a   *)
(* decided delivery is reopened by the operator only.                      *)
(***************************************************************************)
THEOREM LifecycleHolds == BatchFits => (Spec => LifecycleSpec)
<1>1. Init => Lifecycle!Init
  BY DEF Init, Lifecycle!Init
<1>2. IInv /\ [Next]_vars => [Lifecycle!Next]_(Lifecycle!lifecycleVars)
  BY LifecycleStep
<1> QED BY <1>1, <1>2, InvHolds, PTL DEF Spec, LifecycleSpec, Lifecycle!Spec

=============================================================================
