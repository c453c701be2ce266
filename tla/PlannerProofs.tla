--------------------------- MODULE PlannerProofs ----------------------------
(***************************************************************************)
(* Theorems about Planner, for any number of webhooks, services, planners  *)
(* and replays.  Where events are replayed one request at a time and only  *)
(* once they are planned (~Overlap), delivery sets are whole, replays take *)
(* effect, no wake-up is lost and the tables implement FanOut.             *)
(***************************************************************************)
EXTENDS Planner, FiniteSetTheorems, TLAPS

\* A row is locked by the planner that has claimed it.
Locks == \A b \in Bodies, p \in Planners : owner[b] = p <=> b \in batch[p]

\* A planner holds something when it has claimed, which is stored and not
\* planned; once it has inserted deliveries the services it read stay.
Claims ==
  \A p \in Planners :
    /\ drafted[p] \subseteq batch[p]
    /\ drafted[p] # {} => view[p] \subseteq existing
    /\ stage[p] \in {"claimed", "planning"} <=> batch[p] # {}
    /\ stage[p] # "planning" => drafted[p] = {}
    /\ \A b \in batch[p] : b \in Stored /\ ~planned[b]

\* An id is given once, and a replay knows only ids that were given.
Numbers ==
  /\ \A b \in Bodies : id[b] <= ids /\ round[b] > 0
  /\ \A r \in Replays : target[r] <= ids
  /\ \A b, c \in Stored : id[b] = id[c] => b = c
  /\ \A r \in Replays : call[r] = "idle" => target[r] = 0

\* An event that is not planned, or not there, has no deliveries.
Bare ==
  /\ \A b \in Bodies : b \notin Stored => ~planned[b]
  /\ \A b \in Bodies : ~planned[b] => Fan(b) = {}

\* No two replays are about one event; until a replay commits its event is
\* planned, and what it has deleted is all the event has.
Alone ==
  \A r \in Replays :
    /\ \A q \in Replays : q # r => Of(q) \intersect Of(r) = {}
    /\ \A b \in Of(r) :
         /\ call[r] \in {"begun", "deleted"} => planned[b]
         /\ call[r] = "deleted" => Fan(b) \subseteq doomed[r]

IInv ==
  /\ TypeOK /\ Locks /\ Claims /\ Numbers /\ Bare /\ Alone
  /\ WholeSet /\ ReplayRebuilds

\* A wake-up is there or to come, or a planner will look again by itself.
Awake(p) ==
  \/ stage[p] = "draining"
  \/ wake[p]
  \/ stage[p] \in {"claimed", "planning"} /\ Cardinality(batch[p]) = BatchSize

Wakes ==
  Unplanned # {} /\ faults = 0 /\ existing = Services =>
    \/ \E p \in Planners : Awake(p)
    \/ \E b \in Bodies : web[b] = "stored"
    \/ \E r \in Replays : call[r] = "committed"

-----------------------------------------------------------------------------
(* What counts as the program's data has its type when it starts. *)
LEMMA TypeInit == Init => TypeOK
BY PlannerAssumption DEF Init, TypeOK

(* Every step keeps the types. *)
LEMMA TypeStep == TypeOK /\ [Next]_vars => TypeOK'
<1> SUFFICES ASSUME TypeOK, [Next]_vars PROVE TypeOK'
  OBVIOUS
<1> USE DEF TypeOK, table, planning, replay, history, counts, config
<1>f. ASSUME Fault PROVE faults' \in 0..MaxFaults
  BY <1>f, PlannerAssumption DEF Fault
<1>n. ASSUME Notify PROVE wake' \in [Planners -> BOOLEAN]
  BY <1>n DEF Notify
<1>r. ASSUME NEW p \in Planners, NEW next \in {"waiting", "draining"}, Release(p, next)
      PROVE  /\ owner' \in [Bodies -> Planners \union {Nobody}]
             /\ stage' \in [Planners -> {"waiting", "draining", "claimed", "planning"}]
             /\ batch' \in [Planners -> SUBSET Bodies] /\ drafted' \in [Planners -> SUBSET Bodies]
             /\ view' \in [Planners -> SUBSET Services]
  BY <1>r DEF Release
<1>c. ASSUME NEW r \in Replays, Close(r)
      PROVE  /\ call' \in [Replays -> {"idle", "begun", "deleted", "committed"}]
             /\ target' \in [Replays -> 0..MaxEvents]
             /\ doomed' \in [Replays -> SUBSET Services]
  BY <1>c, PlannerAssumption DEF Close
<1>1. ASSUME NEW b \in Bodies, Send(b) PROVE TypeOK'
  BY <1>1 DEF Send
<1>2. ASSUME NEW b \in Bodies, Insert(b) PROVE TypeOK'
  <2>1. MaxEvents \in Nat
    BY PlannerAssumption
  <2>2. ids' \in 0..MaxEvents
    BY <1>2, <2>1 DEF Insert
  <2>3. CASE b \in Stored
    BY <1>2, <2>3 DEF Insert
  <2>4. CASE b \notin Stored
    <3>1. /\ web' = [web EXCEPT ![b] = "stored"]
          /\ id' = [id EXCEPT ![b] = ids + 1] /\ ids' = ids + 1
          /\ round' = [round EXCEPT ![b] = 1]
      BY <1>2, <2>4 DEF Insert
    <3>2. ids + 1 \in 0..MaxEvents
      BY <2>2, <3>1
    <3>3. id' \in [Bodies -> 0..MaxEvents]
      BY <3>1, <3>2
    <3>4. round' \in [Bodies -> Nat]
      BY <3>1, SMTT(30)
    <3>5. web' \in [Bodies -> {"quiet", "sent", "stored", "acked"}]
      BY <3>1
    <3> QED BY <1>2, <2>2, <3>3, <3>4, <3>5 DEF Insert
  <2> QED BY <2>3, <2>4
<1>3. ASSUME NEW b \in Bodies, Acknowledge(b) PROVE TypeOK'
  BY <1>3, <1>n DEF Acknowledge
<1>4. ASSUME NEW b \in Bodies, Lose(b) PROVE TypeOK'
  BY <1>4, <1>f DEF Lose
<1>5. ASSUME NEW p \in Planners, WakeUp(p) PROVE TypeOK'
  BY <1>5 DEF WakeUp
<1>6. ASSUME NEW p \in Planners, Claim(p) PROVE TypeOK'
  <2>1. PICK B \in Claimable :
          /\ batch' = [batch EXCEPT ![p] = B]
          /\ owner' = [b \in Bodies |-> IF b \in B THEN p ELSE owner[b]]
          /\ stage' = [stage EXCEPT ![p] = IF B = {} THEN AfterBatch(0) ELSE "claimed"]
    BY <1>6 DEF Claim
  <2>2. B \in SUBSET Bodies
    BY DEF Claimable, Unplanned, Stored
  <2> QED BY <1>6, <2>1, <2>2 DEF Claim, AfterBatch
<1>7. ASSUME NEW p \in Planners, Load(p) PROVE TypeOK'
  BY <1>7 DEF Load
<1>8. ASSUME NEW p \in Planners, NEW b \in Bodies, Draft(p, b) PROVE TypeOK'
  BY <1>8 DEF Draft
<1>9. ASSUME NEW p \in Planners, BrokenReference(p) PROVE TypeOK'
  BY <1>9, <1>r DEF BrokenReference
<1>10. ASSUME NEW p \in Planners, Commit(p) PROVE TypeOK'
  <2>1. AfterBatch(Cardinality(batch[p])) \in {"waiting", "draining"}
    BY DEF AfterBatch
  <2>2. made' \in [Bodies -> [Services -> Nat]]
    BY <1>10 DEF Commit, Inserted
  <2>3. planned' \in [Bodies -> BOOLEAN]
    BY <1>10, Zenon DEF Commit, Mark
  <2>4. basis' \in [Bodies -> SUBSET Services]
    BY <1>10 DEF Commit
  <2> QED BY <1>10, <1>r, <2>1, <2>2, <2>3, <2>4 DEF Commit
<1>11. ASSUME NEW p \in Planners, Abort(p) PROVE TypeOK'
  BY <1>11, <1>r, <1>f DEF Abort
<1>12. ASSUME NEW r \in Replays, NEW b \in Bodies, Begin(r, b) PROVE TypeOK'
  BY <1>12, PlannerAssumption DEF Begin
<1>13. ASSUME NEW r \in Replays, DeleteRows(r) PROVE TypeOK'
  <2>1. UNION {Fan(b) : b \in Of(r)} \in SUBSET Services
    BY DEF Fan
  <2> QED BY <1>13, <2>1 DEF DeleteRows
<1>14. ASSUME NEW r \in Replays, CommitReplay(r) PROVE TypeOK'
  <2>1. made' \in [Bodies -> [Services -> Nat]]
    BY <1>14 DEF CommitReplay, Removed
  <2>2. planned' \in [Bodies -> BOOLEAN]
    BY <1>14, Zenon DEF CommitReplay
  <2>3. round' \in [Bodies -> Nat]
    BY <1>14 DEF CommitReplay
  <2> QED BY <1>14, <2>1, <2>2, <2>3 DEF CommitReplay
<1>15. ASSUME NEW r \in Replays, Answer(r) PROVE TypeOK'
  BY <1>15, <1>c, <1>n DEF Answer
<1>16. ASSUME NEW r \in Replays, AbortReplay(r) PROVE TypeOK'
  BY <1>16, <1>c, <1>f DEF AbortReplay
<1>17. ASSUME NEW p \in Planners, NEW r \in Replays, BreakDeadlock(p, r) PROVE TypeOK'
  BY <1>17, <1>c, <1>r DEF BreakDeadlock
<1>18. ASSUME NEW B \in SUBSET Stored, Purge(B) PROVE TypeOK'
  <2>1. id' \in [Bodies -> 0..MaxEvents] /\ made' \in [Bodies -> [Services -> Nat]]
    BY <1>18, PlannerAssumption DEF Purge
  <2>2. planned' \in [Bodies -> BOOLEAN]
    BY <1>18, Zenon DEF Purge
  <2> QED BY <1>18, <2>1, <2>2 DEF Purge
<1>19. CASE Edit
  BY <1>19, PlannerAssumption DEF Edit
<1>20. ASSUME NEW s \in Services, DeleteService(s) PROVE TypeOK'
  <2>1. made' \in [Bodies -> [Services -> Nat]]
    BY <1>20 DEF DeleteService, Withdrawn
  <2> QED BY <1>20, <2>1, PlannerAssumption DEF DeleteService
<1>21. CASE UNCHANGED vars
  BY <1>21 DEF vars
<1> QED
  BY <1>1, <1>2, <1>3, <1>4, <1>5, <1>6, <1>7, <1>8, <1>9, <1>10, <1>11, <1>12, <1>13, <1>14,
     <1>15, <1>16, <1>17, <1>18, <1>19, <1>20, <1>21
     DEF Next, Ingest, Plan, Replay

(* Every variable has its type, in every state of every instance: ids,     *)
(* replays, edits and faults stay within their bounds.                     *)
THEOREM TypesHold == Spec => []TypeOK
BY TypeInit, TypeStep, PTL DEF Spec

-----------------------------------------------------------------------------
(* Replays are about stored events, of existing bodies. *)
LEMMA Subjects == Stored \subseteq Bodies /\ \A r \in Replays : Of(r) \subseteq Stored
BY DEF Stored, Of

(* The invariant holds when the program starts. *)
LEMMA IInvInit == Init => IInv
<1> SUFFICES ASSUME Init PROVE IInv
  OBVIOUS
<1>1. TypeOK
  BY TypeInit
<1>2. Stored = {} /\ (\A b \in Bodies : Fan(b) = {})
  BY DEF Init, Stored, Fan
<1>3. Locks /\ Claims
  BY PlannerAssumption DEF Init, Locks, Claims, Nobody
<1>4. Numbers /\ Bare
  BY <1>2 DEF Init, Numbers, Bare
<1>5. Alone /\ WholeSet /\ ReplayRebuilds
  BY <1>2 DEF Alone, WholeSet, ReplayRebuilds, Of
<1> QED BY <1>1, <1>3, <1>4, <1>5 DEF IInv

(* Steps that change neither the tables nor the transactions keep it. *)
LEMMA Frame ==
  ASSUME IInv, TypeOK',
         UNCHANGED <<id, planned, made, owner, stage, batch, view, drafted, call, target, doomed,
                     existing, ids, round, basis>>
  PROVE  IInv'
<1> USE DEF IInv
<1>1. Locks' /\ Claims'
  BY DEF Locks, Claims, Stored
<1>2. Numbers' /\ Bare'
  BY DEF Numbers, Bare, Stored, Fan
<1>3. Alone'
  BY DEF Alone, Of, Stored, Fan
<1>4. WholeSet' /\ ReplayRebuilds'
  BY DEF WholeSet, ReplayRebuilds, Stored, Fan
<1> QED BY <1>1, <1>2, <1>3, <1>4

(* So do a new event and its redelivery: the id is larger than any known. *)
LEMMA InsertKeeps ==
  ASSUME IInv, TypeOK', NEW b \in Bodies, Insert(b)
  PROVE  IInv'
<1>t. TypeOK
  BY DEF IInv
<1>0. UNCHANGED <<planned, made, owner, stage, batch, view, drafted, call, target, doomed, existing, basis>>
  BY DEF Insert, table, planning, replay, config
<1>1. CASE b \in Stored
  BY <1>0, <1>1, Frame DEF Insert
<1>2. CASE b \notin Stored
  <2>1. /\ ids' = ids + 1 /\ ids \in Nat
        /\ id' = [id EXCEPT ![b] = ids + 1]
        /\ round' = [round EXCEPT ![b] = 1]
    BY <1>2, <1>t, PlannerAssumption DEF Insert, TypeOK
  <2>2. /\ id \in [Bodies -> Nat] /\ round \in [Bodies -> Nat] /\ target \in [Replays -> Nat]
        /\ id[b] = 0 /\ ~planned[b] /\ Fan(b) = {}
    BY <1>2, <1>t, PlannerAssumption DEF TypeOK, Stored, IInv, Bare
  <2>3. Stored' = Stored \union {b}
    BY <2>1, <2>2 DEF Stored
  <2>4. \A c \in Bodies : Fan(c)' = Fan(c)
    BY <1>0 DEF Fan
  <2>5. \A r \in Replays : Of(r)' = Of(r)
    BY <1>0, <2>1, <2>2, <2>3 DEF Of, Stored, IInv, Numbers
  <2>6. Locks' /\ Claims'
    BY <1>0, <2>3 DEF IInv, Locks, Claims
  <2>7. Numbers'
    BY <1>0, <2>1, <2>2 DEF IInv, Numbers, Stored
  <2>8. Bare'
    BY <1>0, <2>3, <2>4 DEF IInv, Bare
  <2>9. Alone'
    BY <1>0, <2>4, <2>5, Subjects DEF IInv, Alone
  <2>10. WholeSet'
    BY <1>0, <2>2, <2>3, <2>4, Subjects DEF IInv, WholeSet
  <2>11. ReplayRebuilds'
    BY <1>0, <2>1, <2>2, <2>3, <2>4, Subjects DEF IInv, ReplayRebuilds
  <2> QED BY <2>6, <2>7, <2>8, <2>9, <2>10, <2>11 DEF IInv
<1> QED BY <1>1, <1>2

-----------------------------------------------------------------------------
(* Steps of a planner that leave the tables alone keep what is said of     *)
(* them.                                                                   *)
LEMMA TablesKept ==
  ASSUME IInv, UNCHANGED <<id, planned, made, call, target, doomed, existing, ids, round, basis>>
  PROVE  Numbers' /\ Bare' /\ Alone' /\ WholeSet' /\ ReplayRebuilds'
<1> USE DEF IInv
<1>2. Numbers' /\ Bare'
  BY DEF Numbers, Bare, Stored, Fan
<1>3. Alone'
  BY DEF Alone, Of, Stored, Fan
<1>4. WholeSet' /\ ReplayRebuilds'
  BY DEF WholeSet, ReplayRebuilds, Stored, Fan
<1> QED BY <1>2, <1>3, <1>4

(* A planner wakes up. *)
LEMMA WakeUpKeeps ==
  ASSUME IInv, TypeOK', NEW p \in Planners, WakeUp(p)
  PROVE  IInv'
<1>1. Locks'
  BY DEF IInv, Locks, WakeUp
<1>2. Claims'
  BY DEF IInv, TypeOK, Claims, WakeUp, Stored, table, config
<1>3. Numbers' /\ Bare' /\ Alone' /\ WholeSet' /\ ReplayRebuilds'
  BY TablesKept DEF WakeUp, table, replay, config, counts, history
<1> QED BY <1>1, <1>2, <1>3 DEF IInv

(* A planner claims what no one holds. *)
LEMMA ClaimKeeps ==
  ASSUME IInv, TypeOK', NEW p \in Planners, Claim(p)
  PROVE  IInv'
<1>t. TypeOK
  BY DEF IInv
<1>1. PICK B \in Claimable :
        /\ batch' = [batch EXCEPT ![p] = B]
        /\ owner' = [b \in Bodies |-> IF b \in B THEN p ELSE owner[b]]
        /\ stage' = [stage EXCEPT ![p] = IF B = {} THEN AfterBatch(0) ELSE "claimed"]
  BY DEF Claim
<1>2. stage[p] = "draining" /\ batch[p] = {} /\ drafted[p] = {}
  BY <1>t DEF Claim, IInv, Claims, TypeOK
<1>3. UNCHANGED <<id, planned, made, view, drafted, call, target, doomed, existing, ids, round, basis>>
  BY DEF Claim, table, replay, config, counts, history
<1>4. B \subseteq Unplanned
  BY DEF Claimable
<1>5. stage'[p] \in {"waiting", "draining"} <=> B = {}
  BY <1>1, <1>t DEF AfterBatch, TypeOK
<1>6. Locks'
  <2> SUFFICES ASSUME NEW b \in Bodies, NEW q \in Planners
               PROVE  owner'[b] = q <=> b \in batch'[q]
    BY DEF Locks
  <2>1. owner[b] = q <=> b \in batch[q]
    BY DEF IInv, Locks
  <2>2. b \in B => owner[b] = Nobody
    BY <1>4 DEF Unplanned
  <2>3. Nobody # q
    BY PlannerAssumption DEF Nobody
  <2>4. batch'[q] = IF q = p THEN B ELSE batch[q]
    BY <1>1, <1>t DEF TypeOK
  <2>5. owner'[b] = IF b \in B THEN p ELSE owner[b]
    BY <1>1
  <2> QED BY <1>2, <2>1, <2>2, <2>3, <2>4, <2>5
<1>7. Claims'
  <2> SUFFICES ASSUME NEW q \in Planners
               PROVE  /\ drafted'[q] \subseteq batch'[q]
                      /\ drafted'[q] # {} => view'[q] \subseteq existing'
                      /\ stage'[q] \in {"claimed", "planning"} <=> batch'[q] # {}
                      /\ stage'[q] # "planning" => drafted'[q] = {}
                      /\ \A b \in batch'[q] : b \in Stored' /\ ~planned'[b]
    BY DEF Claims
  <2>1. Stored' = Stored
    BY <1>3 DEF Stored
  <2>2. CASE q = p
    BY <1>1, <1>2, <1>3, <1>4, <1>5, <1>t, <2>1, <2>2 DEF TypeOK, Unplanned, AfterBatch
  <2>3. CASE q # p
    <3>1. batch'[q] = batch[q] /\ stage'[q] = stage[q]
      BY <1>1, <1>t, <2>3 DEF TypeOK
    <3> QED BY <1>3, <2>1, <3>1 DEF IInv, Claims
  <2> QED BY <2>2, <2>3
<1>8. Numbers' /\ Bare' /\ Alone' /\ WholeSet' /\ ReplayRebuilds'
  BY <1>3, TablesKept
<1> QED BY <1>6, <1>7, <1>8 DEF IInv

(* A planner reads the subscriptions. *)
LEMMA LoadKeeps ==
  ASSUME IInv, TypeOK', NEW p \in Planners, Load(p)
  PROVE  IInv'
<1>1. Locks'
  BY DEF IInv, Locks, Load
<1>2. Claims'
  <2>1. UNCHANGED <<id, planned, batch, drafted, existing>>
    BY DEF Load, table, config
  <2>2. /\ stage[p] = "claimed" /\ stage'[p] = "planning"
        /\ \A q \in Planners \ {p} : stage'[q] = stage[q] /\ view'[q] = view[q]
    BY DEF Load, IInv, TypeOK
  <2>3. drafted[p] = {} /\ batch[p] # {}
    BY <2>2 DEF IInv, Claims
  <2> QED BY <2>1, <2>2, <2>3 DEF IInv, Claims, Stored
<1>3. Numbers' /\ Bare' /\ Alone' /\ WholeSet' /\ ReplayRebuilds'
  BY TablesKept DEF Load, table, replay, config, counts, history
<1> QED BY <1>1, <1>2, <1>3 DEF IInv

(* A planner inserts the deliveries of one event. *)
LEMMA DraftKeeps ==
  ASSUME IInv, TypeOK', NEW p \in Planners, NEW b \in Bodies, Draft(p, b)
  PROVE  IInv'
<1>1. Locks'
  BY DEF IInv, Locks, Draft
<1>2. b \in batch[p]
  BY DEF Draft, Turn
<1>3. Claims'
  BY <1>2 DEF IInv, TypeOK, Claims, Draft, Stored, table, config
<1>4. Numbers' /\ Bare' /\ Alone' /\ WholeSet' /\ ReplayRebuilds'
  BY TablesKept DEF Draft, table, replay, config, counts, history
<1> QED BY <1>1, <1>3, <1>4 DEF IInv

(* The end of a planner's transaction leaves it nothing. *)
LEMMA ReleaseKeeps ==
  ASSUME IInv, NEW p \in Planners, NEW next \in {"waiting", "draining"}, Release(p, next)
  PROVE  /\ Locks'
         /\ \A q \in Planners :
              /\ q # p => /\ stage'[q] = stage[q] /\ batch'[q] = batch[q]
                          /\ view'[q] = view[q] /\ drafted'[q] = drafted[q]
              /\ q = p => stage'[q] = next /\ batch'[q] = {} /\ drafted'[q] = {}
<1>t. TypeOK
  BY DEF IInv
<1>1. \A q \in Planners :
        /\ q # p => /\ stage'[q] = stage[q] /\ batch'[q] = batch[q]
                    /\ view'[q] = view[q] /\ drafted'[q] = drafted[q]
        /\ q = p => stage'[q] = next /\ batch'[q] = {} /\ drafted'[q] = {}
  BY <1>t DEF Release, TypeOK
<1>2. Locks'
  <2> SUFFICES ASSUME NEW b \in Bodies, NEW q \in Planners
               PROVE  owner'[b] = q <=> b \in batch'[q]
    BY DEF Locks
  <2>1. owner[b] = q <=> b \in batch[q]
    BY DEF IInv, Locks
  <2>2. Nobody # q
    BY PlannerAssumption DEF Nobody
  <2>3. owner'[b] = IF owner[b] = p THEN Nobody ELSE owner[b]
    BY DEF Release
  <2> QED BY <1>1, <2>1, <2>2, <2>3
<1> QED BY <1>1, <1>2

(* A pass that fails leaves everything as it was. *)
LEMMA RollbackKeeps ==
  ASSUME IInv, TypeOK', NEW p \in Planners, NEW next \in {"waiting", "draining"}, Release(p, next),
         UNCHANGED <<id, planned, made, call, target, doomed, existing, ids, round, basis>>
  PROVE  IInv'
<1>1. Claims'
  BY ReleaseKeeps DEF IInv, Claims, Stored
<1>2. Numbers' /\ Bare' /\ Alone' /\ WholeSet' /\ ReplayRebuilds'
  BY TablesKept
<1> QED BY <1>1, <1>2, ReleaseKeeps DEF IInv

(* A batch is planned: its events had no deliveries, and are no replay's. *)
LEMMA CommitKeeps ==
  ASSUME IInv, TypeOK', NEW p \in Planners, Commit(p)
  PROVE  IInv'
<1>t. TypeOK
  BY DEF IInv
<1> DEFINE n == AfterBatch(Cardinality(batch[p]))
<1>n. n \in {"waiting", "draining"}
  BY DEF AfterBatch
<1>0. UNCHANGED <<id, call, target, doomed, existing, ids, round>> /\ Release(p, n)
  BY DEF Commit, replay, config, counts
<1>s. Stored' = Stored /\ \A r \in Replays : Of(r)' = Of(r)
  BY <1>0 DEF Stored, Of
<1>1. batch[p] # {} /\ drafted[p] = batch[p] /\ view[p] \subseteq existing /\ batch[p] \subseteq Stored
  BY <1>t DEF Commit, IInv, Claims, TypeOK
<1>2. \A b \in batch[p] : ~planned[b] /\ Fan(b) = {}
  BY <1>1, Subjects DEF IInv, Claims, Bare
<1>3. \A b \in Bodies :
        /\ planned'[b] = (planned[b] \/ b \in batch[p])
        /\ basis'[b] = IF b \in batch[p] THEN view[p] ELSE basis[b]
  BY Zenon DEF Commit, Mark
<1>4. \A b \in Bodies, s \in Services :
        made'[b][s] = IF b \in batch[p] /\ s \in view[p] /\ made[b][s] = 0 THEN round[b] ELSE made[b][s]
  BY DEF Commit, Inserted
<1>5. \A b \in Bodies : b \notin batch[p] => Fan(b)' = Fan(b)
  BY <1>4 DEF Fan
<1>6. \A b \in batch[p] : Fan(b)' = view[p] /\ \A s \in view[p] : made'[b][s] = round[b]
  <2> SUFFICES ASSUME NEW b \in batch[p]
               PROVE  Fan(b)' = view[p] /\ \A s \in view[p] : made'[b][s] = round[b]
    OBVIOUS
  <2>1. b \in Bodies /\ round[b] \in Nat /\ round[b] > 0 /\ view[p] \subseteq Services
    BY <1>1, <1>t, Subjects DEF IInv, Numbers, TypeOK
  <2>2. \A s \in Services : made[b][s] = 0
    BY <1>2, <1>t, <2>1 DEF Fan, TypeOK
  <2>3. \A s \in Services : made'[b][s] = IF s \in view[p] THEN round[b] ELSE 0
    BY <1>4, <2>1, <2>2
  <2> QED BY <2>1, <2>3 DEF Fan
<1>7. Locks' /\ Claims'
  <2>1. Locks'
    BY <1>0, <1>n, ReleaseKeeps
  <2>2. ASSUME NEW q \in Planners
        PROVE  /\ drafted'[q] \subseteq batch'[q]
               /\ drafted'[q] # {} => view'[q] \subseteq existing'
               /\ stage'[q] \in {"claimed", "planning"} <=> batch'[q] # {}
               /\ stage'[q] # "planning" => drafted'[q] = {}
               /\ \A b \in batch'[q] : b \in Stored' /\ ~planned'[b]
    <3>1. CASE q = p
      BY <1>0, <1>n, <3>1, ReleaseKeeps
    <3>2. CASE q # p
      <4>1. \A b \in batch[q] : b \in Bodies /\ b \notin batch[p]
        BY <3>2, <1>t DEF IInv, Locks, TypeOK
      <4>2. \A b \in batch[q] : b \in Stored /\ ~planned'[b]
        BY <4>1, <1>3 DEF IInv, Claims
      <4> QED BY <1>0, <1>n, <1>s, <3>2, <4>2, ReleaseKeeps DEF IInv, Claims
    <3> QED BY <3>1, <3>2
  <2> QED BY <2>1, <2>2 DEF Claims
<1>8. Numbers'
  BY <1>0, <1>s, Subjects DEF IInv, Numbers
<1>9. Bare'
  BY <1>1, <1>3, <1>5, <1>s, Subjects DEF IInv, Bare
<1>10. Alone'
  <2> SUFFICES ASSUME NEW r \in Replays
               PROVE  /\ \A q \in Replays : q # r => Of(q)' \intersect Of(r)' = {}
                      /\ \A b \in Of(r)' :
                           /\ call'[r] \in {"begun", "deleted"} => planned'[b]
                           /\ call'[r] = "deleted" => Fan(b)' \subseteq doomed'[r]
    BY DEF Alone
  <2>1. \A q \in Replays : q # r => Of(q)' \intersect Of(r)' = {}
    BY <1>s DEF IInv, Alone
  <2>2. ASSUME NEW b \in Of(r)
        PROVE  /\ call[r] \in {"begun", "deleted"} => planned'[b]
               /\ call[r] = "deleted" => Fan(b)' \subseteq doomed[r]
    <3>1. b \in Bodies
      BY Subjects
    <3>2. call[r] \in {"begun", "deleted"} => planned[b] /\ b \notin batch[p]
      BY <1>2 DEF IInv, Alone
    <3> QED BY <1>3, <1>5, <3>1, <3>2 DEF IInv, Alone
  <2> QED BY <1>0, <1>s, <2>1, <2>2
<1>11. WholeSet'
  <2> SUFFICES ASSUME NEW b \in Stored, planned'[b] PROVE Fan(b)' = basis'[b] \intersect existing
    BY <1>0, <1>s DEF WholeSet
  <2>1. CASE b \in batch[p]
    BY <1>1, <1>3, <1>6, <2>1, Subjects
  <2>2. CASE b \notin batch[p]
    BY <1>3, <1>5, <2>2, Subjects DEF IInv, WholeSet
  <2> QED BY <2>1, <2>2
<1>12. ReplayRebuilds'
  <2> SUFFICES ASSUME NEW b \in Stored, planned'[b], NEW s \in Fan(b)' PROVE made'[b][s] = round[b]
    BY <1>0, <1>s DEF ReplayRebuilds
  <2>1. CASE b \in batch[p]
    BY <1>6, <2>1
  <2>2. CASE b \notin batch[p]
    <3>1. s \in Fan(b) /\ s \in Services /\ b \in Bodies
      BY <1>5, <2>2, Subjects DEF Fan
    <3> QED BY <1>3, <1>4, <2>2, <3>1 DEF IInv, ReplayRebuilds
  <2> QED BY <2>1, <2>2
<1> QED BY <1>7, <1>8, <1>9, <1>10, <1>11, <1>12 DEF IInv

-----------------------------------------------------------------------------
(* Steps that change nothing but replays keep what is said of the rest. *)
LEMMA RequestsKept ==
  ASSUME IInv, UNCHANGED <<id, planned, made, owner, stage, batch, view, drafted, existing, round, basis>>
  PROVE  Locks' /\ Claims' /\ Bare' /\ WholeSet' /\ ReplayRebuilds'
<1> USE DEF IInv
<1>1. Locks' /\ Claims'
  BY DEF Locks, Claims, Stored
<1>2. Bare'
  BY DEF Bare, Stored, Fan
<1>3. WholeSet' /\ ReplayRebuilds'
  BY DEF WholeSet, ReplayRebuilds, Stored, Fan
<1> QED BY <1>1, <1>2, <1>3

(* Which event a replay is about depends on its target alone. *)
LEMMA SameSubject ==
  ASSUME UNCHANGED id, NEW r \in Replays, target'[r] = target[r]
  PROVE  Of(r)' = Of(r)
BY DEF Of, Stored

(* A replay begins, of a planned event that no other replay is about. *)
LEMMA BeginKeeps ==
  ASSUME ~Overlap, IInv, TypeOK', NEW r \in Replays, NEW b \in Bodies, Begin(r, b)
  PROVE  IInv'
<1>t. TypeOK
  BY DEF IInv
<1>0. UNCHANGED <<id, planned, made, owner, stage, batch, view, drafted, doomed, existing, ids, round, basis>>
  BY DEF Begin, table, planning, config, history
<1>1. /\ b \in Stored /\ planned[b] /\ call[r] = "idle"
      /\ \A q \in Replays : b \notin Of(q)
  BY DEF Begin
<1>2. /\ target'[r] = id[b] /\ call'[r] = "begun"
      /\ \A q \in Replays \ {r} : target'[q] = target[q] /\ call'[q] = call[q]
  BY <1>t DEF Begin, TypeOK
<1>3. Of(r)' = {b}
  BY <1>0, <1>1, <1>2, Subjects DEF Of, Stored, IInv, Numbers
<1>4. \A q \in Replays \ {r} : Of(q)' = Of(q)
  BY <1>0, <1>2, SameSubject
<1>5. Numbers'
  <2>1. Stored' = Stored
    BY <1>0 DEF Stored
  <2>2. id[b] <= ids
    BY DEF IInv, Numbers
  <2> QED BY <1>0, <1>2, <2>1, <2>2 DEF IInv, Numbers
<1>6. Alone'
  <2> SUFFICES ASSUME NEW q \in Replays
               PROVE  /\ \A o \in Replays : o # q => Of(o)' \intersect Of(q)' = {}
                      /\ \A c \in Of(q)' :
                           /\ call'[q] \in {"begun", "deleted"} => planned'[c]
                           /\ call'[q] = "deleted" => Fan(c)' \subseteq doomed'[q]
    BY DEF Alone
  <2>1. \A c \in Bodies : Fan(c)' = Fan(c)
    BY <1>0 DEF Fan
  <2>2. \A o \in Replays : o # q => Of(o)' \intersect Of(q)' = {}
    BY <1>1, <1>3, <1>4 DEF IInv, Alone
  <2>3. CASE q = r
    BY <1>0, <1>1, <1>2, <1>3, <2>2, <2>3
  <2>4. CASE q # r
    BY <1>0, <1>2, <1>4, <2>1, <2>2, <2>4, Subjects DEF IInv, Alone
  <2> QED BY <2>3, <2>4
<1> QED BY <1>0, <1>5, <1>6, RequestsKept DEF IInv

(* It deletes all the deliveries its event has. *)
LEMMA DeleteRowsKeeps ==
  ASSUME IInv, TypeOK', NEW r \in Replays, DeleteRows(r)
  PROVE  IInv'
<1>t. TypeOK
  BY DEF IInv
<1>0. UNCHANGED <<id, planned, made, owner, stage, batch, view, drafted, target, existing, ids, round, basis>>
  BY DEF DeleteRows, table, planning, config, counts, history
<1>1. /\ call[r] = "begun" /\ call'[r] = "deleted"
      /\ doomed'[r] = UNION {Fan(b) : b \in Of(r)}
      /\ \A q \in Replays \ {r} : doomed'[q] = doomed[q] /\ call'[q] = call[q]
  BY <1>t DEF DeleteRows, TypeOK
<1>2. \A q \in Replays : Of(q)' = Of(q)
  BY <1>0, SameSubject
<1>3. Numbers'
  BY <1>0, <1>1, <1>2, Subjects DEF IInv, Numbers, Stored
<1>4. Alone'
  <2>1. \A c \in Bodies : Fan(c)' = Fan(c)
    BY <1>0 DEF Fan
  <2>2. \A b \in Of(r) : Fan(b) \subseteq doomed'[r]
    BY <1>1
  <2> QED BY <1>0, <1>1, <1>2, <2>1, <2>2, Subjects DEF IInv, Alone
<1> QED BY <1>0, <1>3, <1>4, RequestsKept DEF IInv

(* A replay that ends is about nothing any more. *)
LEMMA CloseKeeps ==
  ASSUME IInv, TypeOK', NEW r \in Replays, Close(r),
         UNCHANGED <<id, planned, made, owner, stage, batch, view, drafted, existing, ids, round, basis>>
  PROVE  IInv'
<1>t. TypeOK
  BY DEF IInv
<1>1. /\ call'[r] = "idle" /\ target'[r] = 0
      /\ \A q \in Replays \ {r} : doomed'[q] = doomed[q] /\ call'[q] = call[q] /\ target'[q] = target[q]
  BY <1>t DEF Close, TypeOK
<1>2. \A q \in Replays \ {r} : Of(q)' = Of(q)
  BY <1>1, SameSubject
<1>3. Of(r)' = {}
  BY <1>1, <1>t, PlannerAssumption DEF Of, Stored, TypeOK
<1>4. Numbers'
  <2>1. 0 <= ids
    BY <1>t, PlannerAssumption DEF TypeOK
  <2>2. Stored' = Stored
    BY DEF Stored
  <2> QED BY <1>1, <2>1, <2>2 DEF IInv, Numbers
<1>5. Alone'
  <2>1. \A c \in Bodies : Fan(c)' = Fan(c)
    BY DEF Fan
  <2> QED BY <1>1, <1>2, <1>3, <2>1, Subjects DEF IInv, Alone
<1> QED BY <1>4, <1>5, RequestsKept DEF IInv

(* A replay commits: nothing of its event is left, which no planner holds  *)
(* and no other replay is about.                                           *)
LEMMA CommitReplayKeeps ==
  ASSUME IInv, TypeOK', NEW r \in Replays, CommitReplay(r)
  PROVE  IInv'
<1>t. TypeOK
  BY DEF IInv
<1>0. UNCHANGED <<id, owner, stage, batch, view, drafted, target, existing, ids, basis>>
  BY DEF CommitReplay, planning, config, counts
<1>1. /\ call[r] = "deleted" /\ call'[r] = "committed"
      /\ \A q \in Replays \ {r} : doomed'[q] = doomed[q] /\ call'[q] = call[q]
      /\ \A b \in Of(r) : owner[b] = Nobody
  BY <1>t DEF CommitReplay, TypeOK
<1>s. Stored' = Stored /\ \A q \in Replays : Of(q)' = Of(q)
  BY <1>0 DEF Stored, Of
<1>2. \A b \in Bodies : planned'[b] = (planned[b] /\ b \notin Of(r))
  BY Zenon DEF CommitReplay
<1>3. \A b \in Bodies : round'[b] = IF b \in Of(r) THEN round[b] + 1 ELSE round[b]
  BY DEF CommitReplay
<1>4. \A b \in Bodies, s \in Services :
        made'[b][s] = IF b \in Of(r) /\ s \in doomed[r] THEN 0 ELSE made[b][s]
  BY DEF CommitReplay, Removed
<1>5. \A b \in Bodies \ Of(r) : Fan(b)' = Fan(b)
  BY <1>4 DEF Fan
<1>6. \A b \in Of(r) : Fan(b)' = {}
  <2> SUFFICES ASSUME NEW b \in Of(r), NEW s \in Services PROVE ~(made'[b][s] > 0)
    BY DEF Fan
  <2>1. b \in Bodies /\ Fan(b) \subseteq doomed[r]
    BY <1>1, Subjects DEF IInv, Alone
  <2>2. CASE s \in doomed[r]
    BY <1>4, <2>1, <2>2
  <2>3. CASE s \notin doomed[r]
    BY <1>4, <2>1, <2>3 DEF Fan
  <2> QED BY <2>2, <2>3
<1>7. Locks' /\ Claims'
  <2>1. Locks'
    BY <1>0 DEF IInv, Locks
  <2>2. Claims'
    <3>1. \A p \in Planners : \A b \in batch[p] : b \in Bodies
      BY <1>t DEF TypeOK
    <3> QED BY <1>0, <1>s, <1>2, <3>1 DEF IInv, Claims
  <2> QED BY <2>1, <2>2
<1>8. Numbers'
  <2>1. \A b \in Bodies : id[b] <= ids /\ round'[b] > 0
    <3>1. \A b \in Bodies : id[b] <= ids /\ round[b] > 0 /\ round[b] \in Nat
      BY <1>t DEF IInv, Numbers, TypeOK
    <3> QED BY <1>3, <3>1
  <2>2. \A q \in Replays : target[q] <= ids /\ (call'[q] = "idle" => target[q] = 0)
    BY <1>1 DEF IInv, Numbers
  <2>3. \A b, c \in Stored : id[b] = id[c] => b = c
    BY DEF IInv, Numbers
  <2> QED BY <1>0, <1>s, <2>1, <2>2, <2>3 DEF Numbers
<1>9. Bare'
  BY <1>2, <1>5, <1>6, <1>s, Subjects DEF IInv, Bare
<1>10. Alone'
  <2> SUFFICES ASSUME NEW q \in Replays
               PROVE  /\ \A o \in Replays : o # q => Of(o)' \intersect Of(q)' = {}
                      /\ \A b \in Of(q)' :
                           /\ call'[q] \in {"begun", "deleted"} => planned'[b]
                           /\ call'[q] = "deleted" => Fan(b)' \subseteq doomed'[q]
    BY DEF Alone
  <2>1. \A o \in Replays : o # q => Of(o)' \intersect Of(q)' = {}
    BY <1>s DEF IInv, Alone
  <2>2. CASE q = r
    BY <1>1, <2>1, <2>2
  <2>3. CASE q # r
    <3>1. \A b \in Of(q) : b \in Bodies \ Of(r)
      BY <2>3, Subjects DEF IInv, Alone
    <3>2. \A b \in Of(q) : (planned'[b] <=> planned[b]) /\ Fan(b)' = Fan(b)
      BY <3>1, <1>2, <1>5
    <3> QED BY <1>1, <1>s, <2>1, <2>3, <3>2 DEF IInv, Alone
  <2> QED BY <2>2, <2>3
<1>11. WholeSet'
  BY <1>0, <1>2, <1>5, <1>s, Subjects DEF IInv, WholeSet
<1>12. ReplayRebuilds'
  <2> SUFFICES ASSUME NEW b \in Stored, planned'[b], NEW s \in Fan(b)' PROVE made'[b][s] = round'[b]
    BY <1>s DEF ReplayRebuilds
  <2>1. b \in Bodies \ Of(r) /\ planned[b] /\ s \in Fan(b) /\ s \in Services
    BY <1>2, <1>5, Subjects DEF Fan
  <2> QED BY <1>3, <1>4, <2>1 DEF IInv, ReplayRebuilds
<1> QED BY <1>7, <1>8, <1>9, <1>10, <1>11, <1>12 DEF IInv

-----------------------------------------------------------------------------
(* Events leave with everything that is said of them. *)
LEMMA PurgeKeeps ==
  ASSUME IInv, TypeOK', NEW B \in SUBSET Stored, Purge(B)
  PROVE  IInv'
<1>t. TypeOK
  BY DEF IInv
<1>0. UNCHANGED <<owner, stage, batch, view, drafted, call, target, doomed, existing, ids, round, basis>>
  BY DEF Purge, planning, replay, config, counts, history
<1>1. \A b \in Bodies : id'[b] = IF b \in B THEN 0 ELSE id[b]
  BY DEF Purge
<1>2. \A b \in Bodies : planned'[b] = (planned[b] /\ b \notin B)
  BY Zenon DEF Purge
<1>3. \A b \in Bodies : made'[b] = IF b \in B THEN [s \in Services |-> 0] ELSE made[b]
  BY DEF Purge
<1>4. Stored' = Stored \ B
  BY <1>1, <1>t, PlannerAssumption DEF Stored, TypeOK
<1>5. \A r \in Replays : Of(r)' = Of(r) \ B
  BY <1>0, <1>1, <1>4, Subjects DEF Of
<1>6. \A b \in Bodies : Fan(b)' = IF b \in B THEN {} ELSE Fan(b)
  BY <1>3 DEF Fan
<1>7. Locks' /\ Claims'
  <2>1. Locks'
    BY <1>0 DEF IInv, Locks
  <2>2. \A p \in Planners : \A b \in batch[p] : b \in Bodies /\ owner[b] = p /\ b \notin B
    <3> SUFFICES ASSUME NEW p \in Planners, NEW b \in batch[p]
                 PROVE  b \in Bodies /\ owner[b] = p /\ b \notin B
      OBVIOUS
    <3>1. b \in Bodies /\ owner[b] = p
      BY <1>t DEF IInv, Locks, TypeOK
    <3>2. p # Nobody
      BY PlannerAssumption DEF Nobody
    <3> QED BY <3>1, <3>2 DEF Purge
  <2>3. Claims'
    BY <1>0, <1>2, <1>4, <2>2 DEF IInv, Claims
  <2> QED BY <2>1, <2>3
<1>8. Numbers'
  <2>1. \A b \in Bodies : id'[b] <= ids /\ round[b] > 0
    <3>1. \A b \in Bodies : id[b] <= ids /\ round[b] > 0
      BY DEF IInv, Numbers
    <3>2. 0 <= ids
      BY <1>t, PlannerAssumption DEF TypeOK
    <3> QED BY <1>1, <3>1, <3>2
  <2>2. \A b, c \in Stored' : id'[b] = id'[c] => b = c
    BY <1>1, <1>4, Subjects DEF IInv, Numbers
  <2> QED BY <1>0, <2>1, <2>2 DEF IInv, Numbers
<1>9. Bare'
  BY <1>2, <1>4, <1>6 DEF IInv, Bare
<1>10. Alone'
  <2>1. \A q, r \in Replays : q # r => Of(q)' \intersect Of(r)' = {}
    BY <1>5 DEF IInv, Alone
  <2>2. ASSUME NEW r \in Replays, NEW b \in Of(r)'
        PROVE  /\ call[r] \in {"begun", "deleted"} => planned'[b]
               /\ call[r] = "deleted" => Fan(b)' \subseteq doomed[r]
    <3>1. b \in Of(r) /\ b \notin B /\ b \in Bodies
      BY <1>5, Subjects
    <3> QED BY <1>2, <1>6, <3>1 DEF IInv, Alone
  <2> QED BY <1>0, <2>1, <2>2 DEF Alone
<1>11. WholeSet'
  BY <1>0, <1>2, <1>4, <1>6, Subjects DEF IInv, WholeSet
<1>12. ReplayRebuilds'
  <2> SUFFICES ASSUME NEW b \in Stored', planned'[b], NEW s \in Fan(b)' PROVE made'[b][s] = round[b]
    BY <1>0 DEF ReplayRebuilds
  <2>1. b \in Bodies /\ b \in Stored /\ b \notin B /\ planned[b]
    BY <1>2, <1>4, Subjects
  <2>2. s \in Fan(b) /\ made'[b] = made[b]
    BY <1>3, <1>6, <2>1
  <2> QED BY <2>1, <2>2 DEF IInv, ReplayRebuilds
<1> QED BY <1>7, <1>8, <1>9, <1>10, <1>11, <1>12 DEF IInv

(* A deleted service leaves the delivery sets, and no set that a planner   *)
(* has begun to insert names it.                                           *)
LEMMA DeleteServiceKeeps ==
  ASSUME IInv, TypeOK', NEW s \in Services, DeleteService(s)
  PROVE  IInv'
<1>t. TypeOK
  BY DEF IInv
<1>0. UNCHANGED <<id, planned, owner, stage, batch, view, drafted, call, target, doomed, ids, round, basis>>
  BY DEF DeleteService, planning, replay, history
<1>1. /\ existing' = existing \ {s}
      /\ \A p \in Planners : drafted[p] # {} => s \notin view[p]
  BY DEF DeleteService
<1>2. \A b \in Bodies, u \in Services : made'[b][u] = IF u = s THEN 0 ELSE made[b][u]
  BY <1>t DEF DeleteService, Withdrawn, TypeOK
<1>3. \A b \in Bodies : Fan(b)' = Fan(b) \ {s}
  BY <1>2 DEF Fan
<1>s. Stored' = Stored /\ \A q \in Replays : Of(q)' = Of(q)
  BY <1>0 DEF Stored, Of
<1>4. Locks' /\ Claims'
  <2>1. Locks'
    BY <1>0 DEF IInv, Locks
  <2>2. Claims'
    BY <1>0, <1>1, <1>s DEF IInv, Claims
  <2> QED BY <2>1, <2>2
<1>5. Numbers'
  BY <1>0, <1>s DEF IInv, Numbers
<1>6. Bare'
  BY <1>0, <1>3, <1>s DEF IInv, Bare
<1>7. Alone'
  BY <1>0, <1>3, <1>s, Subjects DEF IInv, Alone
<1>8. WholeSet'
  BY <1>0, <1>1, <1>3, <1>s, Subjects DEF IInv, WholeSet
<1>9. ReplayRebuilds'
  <2> SUFFICES ASSUME NEW b \in Stored, planned[b], NEW u \in Fan(b)' PROVE made'[b][u] = round[b]
    BY <1>0, <1>s DEF ReplayRebuilds
  <2>1. b \in Bodies /\ u \in Fan(b) /\ u # s /\ u \in Services
    BY <1>3, Subjects DEF Fan
  <2> QED BY <1>2, <2>1 DEF IInv, ReplayRebuilds
<1> QED BY <1>4, <1>5, <1>6, <1>7, <1>8, <1>9 DEF IInv

-----------------------------------------------------------------------------
(* A planner and a replay never wait for each other: what one has claimed  *)
(* is unplanned, what the other deletes from is planned.                   *)
LEMMA NoDeadlock ==
  ASSUME IInv, NEW p \in Planners, NEW r \in Replays
  PROVE  ~BreakDeadlock(p, r)
<1> SUFFICES ASSUME Deadlocked(p, r) PROVE FALSE
  BY DEF BreakDeadlock
<1>1. PICK b \in Of(r) \intersect Turn(p) : call[r] = "deleted"
  BY DEF Deadlocked
<1>2. planned[b]
  BY <1>1 DEF IInv, Alone
<1>3. ~planned[b]
  BY DEF IInv, Claims, Turn
<1> QED BY <1>2, <1>3

(* Every step keeps the invariant. *)
LEMMA IInvStep ==
  ASSUME ~Overlap, IInv, [Next]_vars
  PROVE  IInv'
<1>t. TypeOK'
  BY TypeStep DEF IInv
<1> USE DEF table, planning, replay, history, counts, config
<1>1. ASSUME NEW b \in Bodies, Send(b) \/ Acknowledge(b) \/ Lose(b) PROVE IInv'
  BY <1>1, <1>t, Frame DEF Send, Acknowledge, Lose
<1>2. ASSUME NEW b \in Bodies, Insert(b) PROVE IInv'
  BY <1>2, <1>t, InsertKeeps
<1>3. ASSUME NEW p \in Planners, WakeUp(p) \/ Claim(p) \/ Load(p) \/ Commit(p) PROVE IInv'
  BY <1>3, <1>t, WakeUpKeeps, ClaimKeeps, LoadKeeps, CommitKeeps
<1>4. ASSUME NEW p \in Planners, NEW b \in Bodies, Draft(p, b) PROVE IInv'
  BY <1>4, <1>t, DraftKeeps
<1>5. ASSUME NEW p \in Planners, BrokenReference(p) \/ Abort(p) PROVE IInv'
  BY <1>5, <1>t, RollbackKeeps DEF BrokenReference, Abort
<1>6. ASSUME NEW r \in Replays, NEW b \in Bodies, Begin(r, b) PROVE IInv'
  BY <1>6, <1>t, BeginKeeps
<1>7. ASSUME NEW r \in Replays, DeleteRows(r) \/ CommitReplay(r) PROVE IInv'
  BY <1>7, <1>t, DeleteRowsKeeps, CommitReplayKeeps
<1>8. ASSUME NEW r \in Replays, Answer(r) \/ AbortReplay(r) PROVE IInv'
  BY <1>8, <1>t, CloseKeeps DEF Answer, AbortReplay
<1>9. ASSUME NEW B \in SUBSET Stored, Purge(B) PROVE IInv'
  BY <1>9, <1>t, PurgeKeeps
<1>10. ASSUME NEW s \in Services, DeleteService(s) PROVE IInv'
  BY <1>10, <1>t, DeleteServiceKeeps
<1>11. CASE Edit \/ UNCHANGED vars
  BY <1>11, <1>t, Frame DEF Edit, vars
<1> QED
  BY <1>1, <1>2, <1>3, <1>4, <1>5, <1>6, <1>7, <1>8, <1>9, <1>10, <1>11, NoDeadlock
     DEF Next, Ingest, Plan, Replay

(* The invariant holds in every reachable state. *)
LEMMA IInvHolds ==
  ASSUME ~Overlap
  PROVE  Spec => []IInv
<1>1. IInv /\ [Next]_vars => IInv'
  BY IInvStep
<1> QED BY IInvInit, <1>1, PTL DEF Spec

(* Where events are replayed once they are planned and one request at a    *)
(* time, an event is never half planned, with any number of planners that  *)
(* fail, services that leave and events that expire.                       *)
THEOREM DeliverySetsAreWhole ==
  ASSUME ~Overlap
  PROVE  Spec => []WholeSet
<1>1. IInv => WholeSet
  BY DEF IInv
<1> QED BY IInvHolds, <1>1, PTL

(* There a replay also takes effect: once its event is planned again, none *)
(* of its deliveries is from before.                                       *)
THEOREM ReplaysTakeEffect ==
  ASSUME ~Overlap
  PROVE  Spec => []ReplayRebuilds
<1>1. IInv => ReplayRebuilds
  BY DEF IInv
<1> QED BY IInvHolds, <1>1, PTL

-----------------------------------------------------------------------------
(* While a batch that was not full is planned, nothing it passed over is   *)
(* forgotten.                                                              *)
LEMMA ClaimWakes ==
  ASSUME IInv, NEW p \in Planners, Claim(p), Unplanned' # {}
  PROVE  Awake(p)'
<1>t. TypeOK
  BY DEF IInv
<1>1. PICK B \in Claimable :
        /\ batch' = [batch EXCEPT ![p] = B]
        /\ owner' = [b \in Bodies |-> IF b \in B THEN p ELSE owner[b]]
        /\ stage' = [stage EXCEPT ![p] = IF B = {} THEN AfterBatch(0) ELSE "claimed"]
  BY DEF Claim
<1>2. Stored' = Stored /\ planned' = planned
  BY DEF Claim, table, Stored
<1>3. p # Nobody
  BY PlannerAssumption DEF Nobody
<1>4. Unplanned' \subseteq Unplanned \ B
  BY <1>1, <1>2, <1>3 DEF Unplanned, Stored
<1>5. B # Unplanned
  BY <1>4
<1>6. /\ Cardinality(B) <= BatchSize /\ B \subseteq Bodies
      /\ ~(Cardinality(B) < BatchSize)
  BY <1>5 DEF Claimable, Unplanned, Stored
<1>7. IsFiniteSet(B)
  BY <1>6, PlannerAssumption, FS_Subset
<1>8. Cardinality(B) = BatchSize /\ BatchSize > 0
  BY <1>6, <1>7, PlannerAssumption, FS_CardinalityType
<1>9. B # {}
  BY <1>8, FS_EmptySet
<1> QED BY <1>1, <1>8, <1>9, <1>t DEF Awake, TypeOK

(* A notification is there or to come, or a planner looks by itself. *)
LEMMA WakesStep ==
  ASSUME ~Overlap, IInv, Wakes, [Next]_vars
  PROVE  Wakes'
<1>t. TypeOK /\ TypeOK'
  BY TypeStep DEF IInv
<1> DEFINE Due == \/ \E p \in Planners : Awake(p)
                  \/ \E b \in Bodies : web[b] = "stored"
                  \/ \E r \in Replays : call[r] = "committed"
<1> SUFFICES ASSUME Unplanned' # {}, faults' = 0, existing' = Services PROVE Due'
  BY DEF Wakes
<1> USE DEF table, planning, replay, history, counts, config
<1>f. ~Fault
  BY <1>t, PlannerAssumption DEF Fault, TypeOK
<1>n. Notify => Due'
  BY <1>t DEF Notify, Awake, TypeOK
<1>s. ASSUME Unplanned' \subseteq Unplanned, UNCHANGED <<faults, existing>> PROVE Due
  BY <1>s DEF Wakes
<1>u. ASSUME UNCHANGED <<id, planned, owner>> PROVE Unplanned' \subseteq Unplanned
  BY <1>u DEF Unplanned, Stored
<1>1. ASSUME NEW b \in Bodies, Send(b) PROVE Due'
  BY <1>1, <1>s, <1>u, <1>t DEF Send, Awake, TypeOK
<1>2. ASSUME NEW b \in Bodies, Insert(b) PROVE Due'
  <2>1. CASE b \in Stored
    BY <1>2, <1>s, <1>u, <1>t, <2>1 DEF Insert, Awake, TypeOK
  <2>2. CASE b \notin Stored
    BY <1>2, <1>t, <2>2 DEF Insert, TypeOK
  <2> QED BY <2>1, <2>2
<1>3. ASSUME NEW b \in Bodies, Acknowledge(b) \/ Lose(b) PROVE Due'
  BY <1>3, <1>n, <1>f DEF Acknowledge, Lose
<1>4. ASSUME NEW p \in Planners, WakeUp(p) PROVE Due'
  <2>1. stage'[p] = "draining"
    BY <1>4, <1>t DEF WakeUp, TypeOK
  <2> QED BY <2>1 DEF Awake
<1>5. ASSUME NEW p \in Planners, Claim(p) PROVE Due'
  BY <1>5, ClaimWakes
<1>6. ASSUME NEW p \in Planners, Load(p) PROVE Due'
  <2>1. Due
    BY <1>6, <1>s, <1>u DEF Load
  <2>2. \A q \in Planners : Awake(q) => Awake(q)'
    BY <1>6, <1>t DEF Load, Awake, TypeOK
  <2> QED BY <1>6, <2>1, <2>2 DEF Load
<1>7. ASSUME NEW p \in Planners, NEW b \in Bodies, Draft(p, b) PROVE Due'
  BY <1>7, <1>s, <1>u DEF Draft, Awake
<1>8. ASSUME NEW p \in Planners, BrokenReference(p) PROVE Due'
  BY <1>8, <1>t DEF BrokenReference, TypeOK
<1>9. ASSUME NEW p \in Planners, Commit(p) PROVE Due'
  <2> DEFINE n == AfterBatch(Cardinality(batch[p]))
  <2>1. Release(p, n) /\ n \in {"waiting", "draining"} /\ UNCHANGED <<id, web, wake, call, faults, existing>>
    BY <1>9 DEF Commit, AfterBatch
  <2>2. \A q \in Planners : /\ q # p => stage'[q] = stage[q] /\ batch'[q] = batch[q]
                            /\ q = p => stage'[q] = n
    BY <2>1, ReleaseKeeps
  <2>3. Unplanned' \subseteq Unplanned
    <3> SUFFICES ASSUME NEW b \in Unplanned' PROVE b \in Unplanned
      OBVIOUS
    <3>1. b \in Stored /\ b \in Bodies /\ ~planned'[b] /\ owner'[b] = Nobody
      BY <2>1 DEF Unplanned, Stored
    <3>2. ~planned[b] /\ b \notin batch[p]
      BY <1>9, <3>1, Zenon DEF Commit, Mark
    <3>3. owner[b] # p
      BY <3>1, <3>2 DEF IInv, Locks
    <3>4. owner'[b] = IF owner[b] = p THEN Nobody ELSE owner[b]
      BY <2>1, <3>1 DEF Release
    <3> QED BY <3>1, <3>2, <3>3, <3>4 DEF Unplanned
  <2>4. Due
    BY <1>s, <2>1, <2>3
  <2>5. stage[p] = "planning"
    BY <1>9 DEF Commit
  <2>6. \A q \in Planners : Awake(q) => Awake(q)'
    <3> SUFFICES ASSUME NEW q \in Planners, Awake(q) PROVE Awake(q)'
      OBVIOUS
    <3>1. CASE q # p
      BY <2>1, <2>2, <3>1 DEF Awake
    <3>2. CASE q = p /\ ~wake[p]
      <4>1. Cardinality(batch[p]) = BatchSize
        BY <2>5, <3>2 DEF Awake
      <4>2. n = "draining"
        BY <4>1, PlannerAssumption DEF AfterBatch
      <4> QED BY <2>2, <3>2, <4>2 DEF Awake
    <3>3. CASE q = p /\ wake[p]
      BY <2>1, <3>3 DEF Awake
    <3> QED BY <3>1, <3>2, <3>3
  <2> QED BY <2>1, <2>4, <2>6
<1>10. ASSUME NEW p \in Planners, Abort(p) PROVE Due'
  BY <1>10, <1>f DEF Abort
<1>11. ASSUME NEW r \in Replays, NEW b \in Bodies, Begin(r, b) PROVE Due'
  <2>1. Due
    BY <1>11, <1>s, <1>u DEF Begin
  <2>2. \A q \in Replays : call[q] = "committed" => call'[q] = "committed"
    BY <1>11, <1>t DEF Begin, TypeOK
  <2> QED BY <1>11, <2>1, <2>2 DEF Begin, Awake
<1>12. ASSUME NEW r \in Replays, DeleteRows(r) PROVE Due'
  <2>1. Due
    BY <1>12, <1>s, <1>u DEF DeleteRows
  <2>2. \A q \in Replays : call[q] = "committed" => call'[q] = "committed"
    BY <1>12, <1>t DEF DeleteRows, TypeOK
  <2> QED BY <1>12, <2>1, <2>2 DEF DeleteRows, Awake
<1>13. ASSUME NEW r \in Replays, CommitReplay(r) PROVE Due'
  BY <1>13, <1>t DEF CommitReplay, TypeOK
<1>14. ASSUME NEW r \in Replays, Answer(r) \/ AbortReplay(r) PROVE Due'
  BY <1>14, <1>n, <1>f DEF Answer, AbortReplay
<1>15. ASSUME NEW B \in SUBSET Stored, Purge(B) PROVE Due'
  <2>1. Unplanned' \subseteq Unplanned
    <3> SUFFICES ASSUME NEW b \in Unplanned' PROVE b \in Unplanned
      OBVIOUS
    <3>1. b \in Bodies /\ id'[b] > 0 /\ ~planned'[b] /\ owner[b] = Nobody
      BY <1>15 DEF Purge, Unplanned, Stored
    <3>2. b \notin B
      BY <1>15, <3>1 DEF Purge
    <3>3. ~planned[b]
      BY <1>15, <3>1, <3>2, Zenon DEF Purge
    <3>4. id[b] > 0
      BY <1>15, <3>1, <3>2 DEF Purge
    <3> QED BY <3>1, <3>3, <3>4 DEF Unplanned, Stored
  <2> QED BY <1>15, <1>s, <2>1 DEF Purge, Awake
<1>16. CASE Edit \/ UNCHANGED vars
  BY <1>16, <1>s, <1>u DEF Edit, vars, Awake
<1>17. ASSUME NEW s \in Services, DeleteService(s) PROVE Due'
  BY <1>17, <1>t DEF DeleteService, TypeOK
<1> QED
  BY <1>1, <1>2, <1>3, <1>4, <1>5, <1>6, <1>7, <1>8, <1>9, <1>10, <1>11, <1>12, <1>13, <1>14,
     <1>15, <1>16, <1>17, NoDeadlock
     DEF Next, Ingest, Plan, Replay

(* No wake-up is lost, however many planners share the channelled          *)
(* notifications and however small their batches are.                      *)
THEOREM NoWakeUpIsLost ==
  ASSUME ~Overlap
  PROVE  Spec => []WakeNotLost
<1>1. Init => Wakes
  BY DEF Init, Wakes, Unplanned, Stored
<1>2. IInv /\ Wakes /\ [Next]_vars => Wakes'
  BY WakesStep
<1>3. Wakes => WakeNotLost
  BY DEF Wakes, WakeNotLost, Awake
<1> QED BY IInvHolds, <1>1, <1>2, <1>3, PTL DEF Spec

-----------------------------------------------------------------------------
(* A step that leaves the tables alone is a stutter of the promise. *)
LEMMA TablesUntouched ==
  ASSUME UNCHANGED <<id, planned, made>>
  PROVE  UNCHANGED Promise!fanVars
BY DEF Promise!fanVars, Fan

(* A planner's commit gives the events of its batch their delivery sets. *)
LEMMA CommitPromised ==
  ASSUME IInv, NEW p \in Planners, Commit(p)
  PROVE  Promise!Next
<1>t. TypeOK
  BY DEF IInv
<1>1. \A b \in batch[p] : b \in Stored /\ ~planned[b]
  BY DEF IInv, Claims
<1>2. /\ id' = id
      /\ \A b \in Bodies : planned'[b] = (planned[b] \/ b \in batch[p])
  BY Zenon DEF Commit, Mark
<1>3. \A b \in Bodies \ batch[p] : Fan(b)' = Fan(b)
  BY DEF Commit, Inserted, Fan
<1>4. \A b \in Bodies : Fan(b)' \in SUBSET Services
  BY DEF Fan
<1> SUFFICES ASSUME NEW b \in Bodies PROVE Promise!Planned(b) \/ Promise!Kept(b)
  BY DEF Promise!Next
<1>5. CASE b \in batch[p]
  <2>1. id[b] # 0
    BY <1>1, <1>5 DEF Stored
  <2>2. id'[b] # 0
    BY <1>2, <2>1
  <2>3. ~planned[b] /\ planned'[b]
    BY <1>1, <1>2, <1>5, Zenon
  <2> QED BY <1>4, <2>1, <2>2, <2>3 DEF Promise!Planned
<1>6. CASE b \notin batch[p]
  BY <1>2, <1>3, <1>6 DEF Promise!Kept
<1> QED BY <1>5, <1>6

(* A replay's commit takes its event's delivery set away. *)
LEMMA ReplayPromised ==
  ASSUME IInv, NEW r \in Replays, CommitReplay(r)
  PROVE  Promise!Next
<1>t. TypeOK
  BY DEF IInv
<1>1. \A b \in Of(r) : b \in Stored /\ planned[b] /\ Fan(b) \subseteq doomed[r]
  BY Subjects DEF CommitReplay, IInv, Alone
<1>2. /\ id' = id
      /\ \A b \in Bodies : planned'[b] = (planned[b] /\ b \notin Of(r))
  BY Zenon DEF CommitReplay
<1>3. \A b \in Bodies, s \in Services :
        made'[b][s] = IF b \in Of(r) /\ s \in doomed[r] THEN 0 ELSE made[b][s]
  BY DEF CommitReplay, Removed
<1> SUFFICES ASSUME NEW b \in Bodies PROVE Promise!Replayed(b) \/ Promise!Kept(b)
  BY DEF Promise!Next
<1>4. CASE b \in Of(r)
  <2>1. Fan(b)' = {}
    <3> SUFFICES ASSUME NEW s \in Services PROVE ~(made'[b][s] > 0)
      BY DEF Fan
    <3>1. CASE s \in doomed[r]
      BY <1>3, <1>4, <3>1
    <3>2. CASE s \notin doomed[r]
      BY <1>1, <1>3, <1>4, <3>2 DEF Fan
    <3> QED BY <3>1, <3>2
  <2>2. id[b] # 0
    BY <1>1, <1>4 DEF Stored
  <2>3. id'[b] # 0
    BY <1>2, <2>2
  <2>4. planned[b] /\ ~planned'[b]
    BY <1>1, <1>2, <1>4, Zenon
  <2> QED BY <2>1, <2>2, <2>3, <2>4 DEF Promise!Replayed
<1>5. CASE b \notin Of(r)
  <2>1. Fan(b)' = Fan(b)
    BY <1>3, <1>5 DEF Fan
  <2> QED BY <1>2, <1>5, <2>1 DEF Promise!Kept
<1> QED BY <1>4, <1>5

(* The tables keep the promise: whatever planners, replays, the retention  *)
(* job and the operator do, an event gets its whole delivery set in one    *)
(* step, loses it in one step, and leaves with it.                         *)
THEOREM TablesImplementFanOut ==
  ASSUME ~Overlap
  PROVE  Spec => PromiseSpec
<1>1. Init => Promise!Init
  BY DEF Init, Promise!Init, Fan
<1>2. ASSUME IInv, [Next]_vars PROVE [Promise!Next]_(Promise!fanVars)
  <2> USE DEF table, planning, replay, history, counts, config
  <2>t. TypeOK
    BY <1>2 DEF IInv
  <2>1. ASSUME NEW b \in Bodies, Send(b) \/ Acknowledge(b) \/ Lose(b) PROVE UNCHANGED Promise!fanVars
    BY <2>1, TablesUntouched DEF Send, Acknowledge, Lose
  <2>2. ASSUME NEW b \in Bodies, Insert(b) PROVE [Promise!Next]_(Promise!fanVars)
    <3>1. CASE b \in Stored
      BY <2>2, <3>1, TablesUntouched DEF Insert
    <3>2. CASE b \notin Stored
      <4>1. id' = [id EXCEPT ![b] = ids + 1] /\ UNCHANGED <<planned, made>>
        BY <2>2, <3>2 DEF Insert
      <4>2. id[b] = 0 /\ ids + 1 # 0
        BY <2>t, <3>2, PlannerAssumption DEF TypeOK, Stored
      <4>3. ~planned[b] /\ Fan(b) = {}
        BY <1>2, <3>2 DEF IInv, Bare
      <4>4. \A c \in Bodies : Fan(c)' = Fan(c)
        BY <4>1 DEF Fan
      <4>5. Promise!Accepted(b)
        BY <2>t, <4>1, <4>2, <4>3, <4>4 DEF TypeOK, Promise!Accepted
      <4>6. \A c \in Bodies \ {b} : Promise!Kept(c)
        BY <2>t, <4>1, <4>4 DEF TypeOK, Promise!Kept
      <4> QED BY <4>5, <4>6 DEF Promise!Next
    <3> QED BY <3>1, <3>2
  <2>3. ASSUME NEW p \in Planners, WakeUp(p) \/ Claim(p) \/ Load(p) \/ BrokenReference(p) \/ Abort(p)
        PROVE  UNCHANGED Promise!fanVars
    BY <2>3, TablesUntouched DEF WakeUp, Claim, Load, BrokenReference, Abort
  <2>4. ASSUME NEW p \in Planners, NEW b \in Bodies, Draft(p, b) PROVE UNCHANGED Promise!fanVars
    BY <2>4, TablesUntouched DEF Draft
  <2>5. ASSUME NEW p \in Planners, Commit(p) PROVE Promise!Next
    BY <1>2, <2>5, CommitPromised
  <2>6. ASSUME NEW r \in Replays, DeleteRows(r) \/ Answer(r) \/ AbortReplay(r)
        PROVE  UNCHANGED Promise!fanVars
    BY <2>6, TablesUntouched DEF DeleteRows, Answer, AbortReplay
  <2>7. ASSUME NEW r \in Replays, CommitReplay(r) PROVE Promise!Next
    BY <1>2, <2>7, ReplayPromised
  <2>8. ASSUME NEW r \in Replays, NEW b \in Bodies, Begin(r, b) PROVE UNCHANGED Promise!fanVars
    BY <2>8, TablesUntouched DEF Begin
  <2>9. ASSUME NEW B \in SUBSET Stored, Purge(B) PROVE Promise!Next
    <3>1. \A b \in Bodies : /\ id'[b] = IF b \in B THEN 0 ELSE id[b]
                            /\ made'[b] = IF b \in B THEN [s \in Services |-> 0] ELSE made[b]
      BY <2>9 DEF Purge
    <3>2. \A b \in Bodies : planned'[b] = (planned[b] /\ b \notin B)
      BY <2>9, Zenon DEF Purge
    <3>3. \A b \in Bodies : Fan(b)' = IF b \in B THEN {} ELSE Fan(b)
      BY <3>1 DEF Fan
    <3> SUFFICES ASSUME NEW b \in Bodies PROVE Promise!Purged(b) \/ Promise!Kept(b)
      BY DEF Promise!Next
    <3>4. CASE b \in B
      BY <3>1, <3>3, <3>4 DEF Promise!Purged, Stored
    <3>5. CASE b \notin B
      BY <3>1, <3>2, <3>3, <3>5 DEF Promise!Kept
    <3> QED BY <3>4, <3>5
  <2>10. ASSUME NEW s \in Services, DeleteService(s) PROVE Promise!Next
    <3>1. UNCHANGED <<id, planned>>
      BY <2>10 DEF DeleteService
    <3>2. \A b \in Bodies, u \in Services : made'[b][u] = IF u = s THEN 0 ELSE made[b][u]
      BY <2>10, <2>t DEF DeleteService, Withdrawn, TypeOK
    <3>3. \A b \in Bodies : Fan(b)' = Fan(b) \ {s}
      BY <3>2 DEF Fan
    <3>4. Promise!Left(s)
      BY <3>1, <3>3 DEF Promise!Left
    <3> QED BY <3>4 DEF Promise!Next
  <2>11. CASE Edit \/ UNCHANGED vars
    BY <2>11, TablesUntouched DEF Edit, vars
  <2> QED
    BY <1>2, <2>1, <2>2, <2>3, <2>4, <2>5, <2>6, <2>7, <2>8, <2>9, <2>10, <2>11, NoDeadlock
       DEF Next, Ingest, Plan, Replay
<1>3. IInv /\ [Next]_vars => [Promise!Next]_(Promise!fanVars)
  BY <1>2
<1> QED BY <1>1, <1>3, IInvHolds, PTL DEF Spec, PromiseSpec, Promise!Spec

=============================================================================
