------------------------------ MODULE Planner -------------------------------
(***************************************************************************)
(* From a webhook to its delivery set: the ingest handler stores each      *)
(* verified body once and wakes the planner; planners, one in each         *)
(* replica, claim batches of unplanned events and insert their deliveries  *)
(* in one transaction per batch; the operator replays events; the          *)
(* retention job purges them.                                              *)
(*                                                                         *)
(* PostgreSQL runs the transactions at READ COMMITTED: a statement sees    *)
(* what was committed before it began, waits for row locks, and SKIP       *)
(* LOCKED passes them over.  What a transaction has inserted or deleted    *)
(* and not yet committed is kept with the transaction.                     *)
(*                                                                         *)
(* One listener.  Which services the subscriptions in force select is the  *)
(* variable wanted; module Routing is about how they are selected.         *)
(***************************************************************************)
EXTENDS Naturals, FiniteSets

CONSTANTS
  Bodies,      \* webhook bodies; the dedupe key of an event is the hash of its body
  Services,    \* services the listener's subscriptions may select
  Planners,    \* planner goroutines, one in each replica
  Replays,     \* replay requests that may run at once
  BatchSize,   \* events claimed at once
  Overlap,     \* whether events are replayed that are not planned or already being replayed
  MaxEvents,   \* bound: events ever stored
  MaxReplays,  \* bound: replay requests
  MaxEdits,    \* bound: changes of subscriptions and services
  MaxFaults    \* bound: lost requests, aborted transactions, crashes

ASSUME PlannerAssumption ==
  /\ IsFiniteSet(Bodies)
  /\ BatchSize \in Nat \ {0}
  /\ Overlap \in BOOLEAN
  /\ {MaxEvents, MaxReplays, MaxEdits, MaxFaults} \subseteq Nat
  /\ "nobody" \notin Planners

VARIABLES
  web,      \* the provider's request with a body: "quiet", "sent", "stored", "acked"
  id,       \* events.id of the event with that body; 0 while there is none
  planned,  \* planned_at IS NOT NULL
  made,     \* deliveries: made[b][s] is the round the row was inserted in, 0 for no row
  owner,    \* the planner that holds the lock of the event row
  stage,    \* each planner: "waiting" in its select, "draining", "claimed", "planning"
  wake,     \* its wake channel, of capacity one
  batch,    \* the events it claimed
  view,     \* the services it read as wanted
  drafted,  \* the events of the batch it has inserted the deliveries of
  call,     \* each replay request: "idle", "begun", "deleted", "committed"
  target,   \* the id of the event it replays; 0 for none
  doomed,   \* the services whose delivery it has deleted and not committed
  existing, \* the services in their table
  wanted,   \* those the subscriptions in force select
  ids, asked, edits, faults,  \* stored events, replay requests, edits and faults so far
  round,    \* history: 1 + replays of the stored event
  basis     \* history: what was wanted when the event was last planned

table    == <<id, planned, made>>
planning == <<owner, stage, batch, view, drafted>>
replay   == <<call, target, doomed>>
history  == <<round, basis>>
counts   == <<ids, asked, edits, faults>>
config   == <<existing, wanted>>
vars == <<web, table, planning, wake, replay, config, counts, history>>

Nobody  == "nobody"
Stored  == {b \in Bodies : id[b] > 0}
Fan(b)  == {s \in Services : made[b][s] > 0}
Fault   == faults < MaxFaults /\ faults' = faults + 1

\* The event a replay is about, as long as it is in the table.
Of(r) == {b \in Stored : id[b] = target[r]}

\* The rows of b that some replay is deleting; whoever inserts them waits.
Doomed(b) == UNION {doomed[r] : r \in {q \in Replays : b \in Of(q)}}

Init ==
  /\ web = [b \in Bodies |-> "quiet"]
  /\ id = [b \in Bodies |-> 0]
  /\ planned = [b \in Bodies |-> FALSE]
  /\ made = [b \in Bodies |-> [s \in Services |-> 0]]
  /\ owner = [b \in Bodies |-> Nobody]
  /\ stage = [p \in Planners |-> "draining"]
  /\ wake = [p \in Planners |-> FALSE]
  /\ batch = [p \in Planners |-> {}]
  /\ view = [p \in Planners |-> {}]
  /\ drafted = [p \in Planners |-> {}]
  /\ call = [r \in Replays |-> "idle"]
  /\ target = [r \in Replays |-> 0]
  /\ doomed = [r \in Replays |-> {}]
  /\ existing = Services /\ wanted = Services
  /\ ids = 0 /\ asked = 0 /\ edits = 0 /\ faults = 0
  /\ round = [b \in Bodies |-> 1]
  /\ basis = [b \in Bodies |-> {}]

\* (Faulty variant: a planner that is busy is not notified.)
NotifyWaiting ==
  \E p \in Planners : wake' = [wake EXCEPT ![p] = @ \/ stage[p] = "waiting"]

\* NotifyEvent of the replica that serves the request: a full channel is left alone.
Notify == \E p \in Planners : wake' = [wake EXCEPT ![p] = TRUE]

-----------------------------------------------------------------------------
(***************************************************************************)
(* Ingest.  The provider sends a body until it gets a 200, and may send it *)
(* again after that.                                                       *)
(***************************************************************************)

Send(b) ==
  /\ web[b] \in {"quiet", "acked"}
  /\ web' = [web EXCEPT ![b] = "sent"]
  /\ UNCHANGED <<table, planning, wake, replay, config, counts, history>>

\* InsertEvent: the unique index on listener and dedupe key tells a
\* redelivery, which is acknowledged and otherwise ignored.
Insert(b) ==
  /\ web[b] = "sent"
  /\ \/ /\ b \notin Stored /\ ids < MaxEvents
        /\ web' = [web EXCEPT ![b] = "stored"]
        /\ ids' = ids + 1
        /\ id' = [id EXCEPT ![b] = ids + 1]
        /\ round' = [round EXCEPT ![b] = 1]
     \/ /\ b \in Stored
        /\ web' = [web EXCEPT ![b] = "acked"]
        /\ UNCHANGED <<ids, id, round>>
  /\ UNCHANGED <<planned, made, planning, wake, replay, config, asked, edits, faults, basis>>

\* The planner is woken, then the request answered.
Acknowledge(b) ==
  /\ web[b] = "stored"
  /\ web' = [web EXCEPT ![b] = "acked"]
  /\ Notify
  /\ UNCHANGED <<table, planning, replay, config, counts, history>>

\* The request, its answer or the process serving it is lost.
Lose(b) ==
  /\ web[b] \in {"sent", "stored"}
  /\ web' = [web EXCEPT ![b] = "quiet"]
  /\ Fault
  /\ UNCHANGED <<table, planning, wake, replay, config, ids, asked, edits, history>>

-----------------------------------------------------------------------------
(***************************************************************************)
(* One planner.                                                            *)
(***************************************************************************)

\* Its select: a notification, or the ticker.
WakeUp(p) ==
  /\ stage[p] = "waiting"
  /\ stage' = [stage EXCEPT ![p] = "draining"]
  /\ wake' \in {wake, [wake EXCEPT ![p] = FALSE]}
  /\ UNCHANGED <<web, table, owner, batch, view, drafted, replay, config, counts, history>>

\* The sets ClaimUnplannedEvents may return: the oldest rows nobody holds.
Unplanned == {b \in Stored : ~planned[b] /\ owner[b] = Nobody}
Claimable ==
  {B \in SUBSET Unplanned : /\ Cardinality(B) <= BatchSize
                            /\ Cardinality(B) < BatchSize => B = Unplanned
                            /\ \A b \in B, c \in Unplanned \ B : id[b] < id[c]}

\* (Faulty variant: the loop is left for good.)
LastBatch(n) == IF n < BatchSize THEN "returned" ELSE "draining"

\* Where a pass over n events leaves Run: a full batch may not have been all.
AfterBatch(n) == IF n < BatchSize THEN "waiting" ELSE "draining"

Claim(p) ==
  /\ stage[p] = "draining"
  /\ \E B \in Claimable :
       /\ batch' = [batch EXCEPT ![p] = B]
       /\ owner' = [b \in Bodies |-> IF b \in B THEN p ELSE owner[b]]
       /\ stage' = [stage EXCEPT ![p] = IF B = {} THEN AfterBatch(0) ELSE "claimed"]
  /\ UNCHANGED <<web, table, view, drafted, wake, replay, config, counts, history>>

\* loadSubscriptions, once for all events of a listener.
Load(p) ==
  /\ stage[p] = "claimed"
  /\ view' = [view EXCEPT ![p] = wanted]
  /\ stage' = [stage EXCEPT ![p] = "planning"]
  /\ UNCHANGED <<web, table, owner, batch, drafted, wake, replay, config, counts, history>>

\* The event whose turn it is in the planner's loop.
Turn(p) == {b \in batch[p] \ drafted[p] : \A c \in batch[p] \ drafted[p] : id[b] <= id[c]}

\* InsertDeliveries for it.  A row that a replay is deleting holds the INSERT
\* up until that replay has ended.
Draft(p, b) ==
  /\ stage[p] = "planning" /\ b \in Turn(p)
  /\ view[p] \subseteq existing
  /\ view[p] \intersect Doomed(b) = {}
  /\ drafted' = [drafted EXCEPT ![p] = drafted[p] \union {b}]
  /\ UNCHANGED <<web, table, owner, stage, batch, view, wake, replay, config, counts, history>>

\* The transaction ends, with the stage the loop in Run goes to.
Release(p, next) ==
  /\ owner' = [b \in Bodies |-> IF owner[b] = p THEN Nobody ELSE owner[b]]
  /\ stage' = [stage EXCEPT ![p] = next]
  /\ batch' = [batch EXCEPT ![p] = {}]
  /\ view' = [view EXCEPT ![p] = {}]
  /\ drafted' = [drafted EXCEPT ![p] = {}]

\* (Faulty variant: tried again with the subscriptions already loaded.)
RetryAsLoaded(p) ==
  /\ stage[p] = "planning" /\ Turn(p) # {} /\ ~(view[p] \subseteq existing)
  /\ drafted' = [drafted EXCEPT ![p] = {}]
  /\ UNCHANGED <<web, table, owner, stage, batch, view, wake, replay, config, counts, history>>

\* The INSERT names a service that was deleted after Load: the foreign key
\* refuses it, and with it the pass over the whole batch.
BrokenReference(p) ==
  /\ stage[p] = "planning" /\ Turn(p) # {} /\ ~(view[p] \subseteq existing)
  /\ Release(p, "waiting")
  /\ UNCHANGED <<web, table, wake, replay, config, counts, history>>

\* (Faulty variant: planned_at is not set.)
MarkNone(B) == planned

\* planned_at = now()
Mark(B) == [b \in Bodies |-> planned[b] \/ b \in B]

\* ON CONFLICT (event_id, service_id) DO NOTHING
Inserted(p) ==
  [b \in Bodies |-> [s \in Services |->
     IF b \in batch[p] /\ s \in view[p] /\ made[b][s] = 0 THEN round[b] ELSE made[b][s]]]

Commit(p) ==
  /\ stage[p] = "planning" /\ drafted[p] = batch[p]
  /\ made' = Inserted(p)
  /\ planned' = Mark(batch[p])
  /\ basis' = [b \in Bodies |-> IF b \in batch[p] THEN view[p] ELSE basis[b]]
  /\ Release(p, AfterBatch(Cardinality(batch[p])))
  /\ UNCHANGED <<web, id, wake, replay, config, counts, round>>

\* A statement fails and the pass ends, or the process is killed and starts anew.
Abort(p) ==
  /\ stage[p] \in {"claimed", "planning"}
  /\ \/ Release(p, "waiting") /\ UNCHANGED wake
     \/ Release(p, "draining") /\ wake' = [wake EXCEPT ![p] = FALSE]
  /\ Fault
  /\ UNCHANGED <<web, table, replay, config, ids, asked, edits, history>>

-----------------------------------------------------------------------------
(***************************************************************************)
(* Replay: POST /api/events/{id}/replay.                                   *)
(***************************************************************************)

\* The handler has read the event.  Without Overlap the operator replays
\* planned events, one request at a time for each.
Begin(r, b) ==
  /\ call[r] = "idle" /\ b \in Stored
  /\ asked < MaxReplays /\ asked' = asked + 1
  /\ Overlap \/ (planned[b] /\ \A q \in Replays : b \notin Of(q))
  /\ call' = [call EXCEPT ![r] = "begun"]
  /\ target' = [target EXCEPT ![r] = id[b]]
  /\ UNCHANGED <<web, table, planning, wake, doomed, config, ids, edits, faults, history>>

\* DELETE FROM deliveries: the committed rows, once no other replay holds them.
DeleteRows(r) ==
  /\ call[r] = "begun" /\ \A b \in Of(r) : Doomed(b) = {}
  /\ call' = [call EXCEPT ![r] = "deleted"]
  /\ doomed' = [doomed EXCEPT ![r] = UNION {Fan(b) : b \in Of(r)}]
  /\ UNCHANGED <<web, table, planning, wake, target, config, counts, history>>

\* (Faulty variant: the deliveries stay.)
KeepRows(r) == made

Removed(r) ==
  [b \in Bodies |-> [s \in Services |->
     IF b \in Of(r) /\ s \in doomed[r] THEN 0 ELSE made[b][s]]]

\* UPDATE events, which waits for a planner that holds the row, and COMMIT.
\* An event purged meanwhile is not there to be updated.
CommitReplay(r) ==
  /\ call[r] = "deleted" /\ \A b \in Of(r) : owner[b] = Nobody
  /\ made' = Removed(r)
  /\ planned' = [b \in Bodies |-> planned[b] /\ b \notin Of(r)]
  /\ round' = [b \in Bodies |-> IF b \in Of(r) THEN round[b] + 1 ELSE round[b]]
  /\ call' = [call EXCEPT ![r] = "committed"]
  /\ doomed' = [doomed EXCEPT ![r] = {}]
  /\ UNCHANGED <<web, id, planning, wake, target, config, counts, basis>>

Close(r) ==
  /\ call' = [call EXCEPT ![r] = "idle"]
  /\ target' = [target EXCEPT ![r] = 0]
  /\ doomed' = [doomed EXCEPT ![r] = {}]

Answer(r) ==
  /\ call[r] = "committed"
  /\ Close(r)
  /\ Notify
  /\ UNCHANGED <<web, table, planning, config, counts, history>>

AbortReplay(r) ==
  /\ call[r] \in {"begun", "deleted", "committed"}
  /\ Close(r)
  /\ Fault
  /\ UNCHANGED <<web, table, planning, wake, config, ids, asked, edits, history>>

\* The planner waits for the replay's rows, the replay for the planner's.
\* PostgreSQL notices and makes one of them fail.
Deadlocked(p, r) ==
  /\ call[r] = "deleted" /\ stage[p] = "planning"
  /\ Of(r) \intersect Turn(p) # {}
  /\ view[p] \intersect doomed[r] # {}

BreakDeadlock(p, r) ==
  /\ Deadlocked(p, r)
  /\ \/ Release(p, "waiting") /\ UNCHANGED replay
     \/ Close(r) /\ UNCHANGED planning
  /\ UNCHANGED <<web, table, wake, config, counts, history>>

-----------------------------------------------------------------------------
\* PurgeExpiredEvents: any events may have expired; their deliveries go by
\* cascade.  The statement waits for rows that planners or replays hold.
Purge(B) ==
  /\ B # {} /\ \A b \in B : owner[b] = Nobody /\ Doomed(b) = {}
  /\ id' = [b \in Bodies |-> IF b \in B THEN 0 ELSE id[b]]
  /\ planned' = [b \in Bodies |-> planned[b] /\ b \notin B]
  /\ made' = [b \in Bodies |-> IF b \in B THEN [s \in Services |-> 0] ELSE made[b]]
  /\ UNCHANGED <<web, planning, wake, replay, config, counts, history>>

\* Subscriptions and services are edited, verified, disabled.
Edit ==
  /\ edits < MaxEdits /\ edits' = edits + 1
  /\ wanted' \in SUBSET existing \ {wanted}
  /\ UNCHANGED <<web, table, planning, wake, replay, existing, ids, asked, faults, history>>

Withdrawn(s) == [b \in Bodies |-> [made[b] EXCEPT ![s] = 0]]

\* DeleteService: subscriptions and deliveries go by cascade.  It waits for
\* rows that a planner has inserted or a replay deleted and not committed.
DeleteService(s) ==
  /\ s \in existing
  /\ edits < MaxEdits /\ edits' = edits + 1
  /\ \A p \in Planners : drafted[p] # {} => s \notin view[p]
  /\ \A r \in Replays : s \notin doomed[r]
  /\ existing' = existing \ {s}
  /\ wanted' = wanted \ {s}
  /\ made' = Withdrawn(s)
  /\ UNCHANGED <<web, id, planned, planning, wake, replay, ids, asked, faults, history>>

-----------------------------------------------------------------------------
Ingest(b) == Insert(b) \/ Acknowledge(b)

Plan(p) ==
  \/ WakeUp(p) \/ Claim(p) \/ Load(p) \/ Commit(p) \/ BrokenReference(p)
  \/ \E b \in Bodies : Draft(p, b)

Replay(r) == DeleteRows(r) \/ CommitReplay(r) \/ Answer(r)

Next ==
  \/ \E b \in Bodies : Send(b) \/ Ingest(b) \/ Lose(b)
  \/ \E p \in Planners : Plan(p) \/ Abort(p)
  \/ \E r \in Replays : Replay(r) \/ AbortReplay(r)
  \/ \E r \in Replays, b \in Bodies : Begin(r, b)
  \/ \E p \in Planners, r \in Replays : BreakDeadlock(p, r)
  \/ \E B \in SUBSET Stored : Purge(B)
  \/ Edit
  \/ \E s \in Services : DeleteService(s)

Spec == Init /\ [][Next]_vars

\* The provider retries, requests are served, planners have a ticker, and the
\* database ends deadlocks; an UPDATE that waits for a row is next in line for it.
Fairness ==
  /\ \A b \in Bodies : WF_vars(Ingest(b)) /\ WF_vars(web[b] = "quiet" /\ Send(b))
  /\ \A p \in Planners : WF_vars(Plan(p))
  /\ \A r \in Replays : WF_vars(Replay(r)) /\ SF_vars(CommitReplay(r))
  /\ \A p \in Planners, r \in Replays : WF_vars(BreakDeadlock(p, r))

FairSpec == Spec /\ Fairness

\* The promise the tables are checked against.
Promise == INSTANCE FanOut WITH
  state <- [b \in Bodies |-> IF id[b] = 0 THEN "absent"
                             ELSE IF planned[b] THEN "planned" ELSE "stored"],
  fan   <- [b \in Bodies |-> Fan(b)]
PromiseSpec == Promise!Spec

-----------------------------------------------------------------------------
TypeOK ==
  /\ web \in [Bodies -> {"quiet", "sent", "stored", "acked"}]
  /\ id \in [Bodies -> 0..MaxEvents]
  /\ planned \in [Bodies -> BOOLEAN]
  /\ made \in [Bodies -> [Services -> Nat]]
  /\ owner \in [Bodies -> Planners \union {Nobody}]
  /\ stage \in [Planners -> {"waiting", "draining", "claimed", "planning"}]
  /\ wake \in [Planners -> BOOLEAN]
  /\ batch \in [Planners -> SUBSET Bodies] /\ drafted \in [Planners -> SUBSET Bodies]
  /\ view \in [Planners -> SUBSET Services]
  /\ call \in [Replays -> {"idle", "begun", "deleted", "committed"}]
  /\ target \in [Replays -> 0..MaxEvents]
  /\ doomed \in [Replays -> SUBSET Services]
  /\ existing \in SUBSET Services /\ wanted \in SUBSET existing
  /\ ids \in 0..MaxEvents /\ asked \in 0..MaxReplays /\ edits \in 0..MaxEdits /\ faults \in 0..MaxFaults
  /\ round \in [Bodies -> Nat]
  /\ basis \in [Bodies -> SUBSET Services]

(***************************************************************************)
(* An event is never half planned: once planned_at is set, its deliveries  *)
(* are those the subscriptions called for when it was last planned, no     *)
(* fewer and no others, less those of services deleted since.              *)
(* (InsertDeliveries, ReplayEvent, the cascade of DeleteService.)          *)
(***************************************************************************)
WholeSet == \A b \in Stored : planned[b] => Fan(b) = basis[b] \intersect existing

(***************************************************************************)
(* A replay takes effect: a planned event has no delivery from before its  *)
(* last replay.  ("Existing deliveries are removed first: without that ... *)
(* a replay would silently do nothing.")                                   *)
(***************************************************************************)
ReplayRebuilds ==
  \A b \in Stored : planned[b] => \A s \in Fan(b) : made[b][s] = round[b]

(***************************************************************************)
(* No wake-up is lost: unless something fails or a service is deleted,     *)
(* planners do not all wait while an event is unplanned and no             *)
(* notification is there or to come.                                       *)
(* (NotifyEvent's coalescing channel against the drain loop of Run.)       *)
(***************************************************************************)
WakeNotLost ==
  Unplanned # {} /\ faults = 0 /\ existing = Services =>
    \/ \E p \in Planners : stage[p] # "waiting" \/ wake[p]
    \/ \E b \in Bodies : web[b] = "stored"
    \/ \E r \in Replays : call[r] = "committed"

(***************************************************************************)
(* A stored event gets planned, unless it expires first, whatever is lost, *)
(* aborted, deadlocked or replayed on the way, and although a service that *)
(* is deleted between the load and the insert fails the batch it is in.    *)
(* (The planner's ticker, and loadSubscriptions anew in every pass.)       *)
(***************************************************************************)
EventIsPlanned == \A b \in Bodies : b \in Stored ~> (b \notin Stored \/ planned[b])

=============================================================================
