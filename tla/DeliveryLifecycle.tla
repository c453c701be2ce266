------------------------- MODULE DeliveryLifecycle --------------------------
(***************************************************************************)
(* What the delivery queue promises about one row of the deliveries table, *)
(* without workers, leases or time: the edges of the status column, and    *)
(* which of them move attempt_count.  A step may move several rows at      *)
(* once, each along an edge, because claims, reaps and deletes are batch   *)
(* statements.                                                             *)
(***************************************************************************)
EXTENDS Naturals

CONSTANTS Deliveries, MaxAttempts

VARIABLES status, attempts, requeues

lifecycleVars == <<status, attempts, requeues>>

Final   == {"success", "failed", "dead"}
Present == {"pending", "in_flight"} \union Final

Init ==
  /\ status   = [d \in Deliveries |-> "unborn"]
  /\ attempts = [d \in Deliveries |-> 0]
  /\ requeues = 0

\* The planner inserts the row.
Planned(d) ==
  /\ status[d] = "unborn" /\ status'[d] = "pending"
  /\ attempts'[d] = attempts[d]

\* A worker claims it, which opens the next attempt.
Claimed(d) ==
  /\ status[d] = "pending" /\ status'[d] = "in_flight"
  /\ attempts'[d] = attempts[d] + 1

\* The attempt failed and another is due later, or its worker was given up.
Returned(d) ==
  /\ status[d] = "in_flight" /\ status'[d] = "pending"
  /\ attempts'[d] = attempts[d]

\* The open attempt decides the delivery; dead needs max_attempts of them.
Closed(d) ==
  /\ status[d] = "in_flight" /\ status'[d] \in Final
  /\ status'[d] = "dead" => attempts[d] >= MaxAttempts
  /\ attempts'[d] = attempts[d]

\* Only an operator reopens a decided delivery.
Requeued(d) ==
  /\ status[d] \in Final /\ status'[d] = "pending"
  /\ attempts'[d] = attempts[d]
  /\ requeues' = requeues + 1

Removed(d) ==
  /\ status[d] \in Present /\ status'[d] = "gone"
  /\ attempts'[d] = attempts[d]

Kept(d) == status'[d] = status[d] /\ attempts'[d] = attempts[d]

Move(d) ==
  Planned(d) \/ Claimed(d) \/ Returned(d) \/ Closed(d) \/ Requeued(d) \/ Removed(d)

Next ==
  /\ requeues' \in {requeues, requeues + 1}
  /\ \A d \in Deliveries : Move(d) \/ Kept(d)

Spec == Init /\ [][Next]_lifecycleVars

=============================================================================
