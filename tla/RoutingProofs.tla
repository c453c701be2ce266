---------------------------- MODULE RoutingProofs ----------------------------
(***************************************************************************)
(* Who gets an event, for any subscriptions, filters and payloads; and     *)
(* that updates which do not overlap leave valid filters behind.           *)
(***************************************************************************)
EXTENDS Routing, TLAPS

(* An update that was validated keeps a row a row. *)
LEMMA UpdatedRow ==
  ASSUME NEW r \in Row, NEW p \in Patches, p.type \in Types \union {Keep}
  PROVE  Updated(r, p) \in Row
<1>1. p.keys # Keep => p.keys \in KeySets
  BY DEF KeySets
<1>2. p.conds # Keep => p.conds \in CondSets
  BY DEF CondSets
<1>3. p.default \in BOOLEAN \union {Keep} /\ p.enabled \in BOOLEAN \union {Keep}
  BY RoutingAssumption
<1> QED BY <1>1, <1>2, <1>3 DEF Updated, Row

(* The initial tables, requests and planner have their types. *)
LEMMA TypeInit == Init => TypeOK
BY RoutingAssumption DEF Init, TypeOK, Ids

(* Every step of operator and planner keeps the types. *)
LEMMA TypeStep == TypeOK /\ [Next]_vars => TypeOK'
<1> SUFFICES ASSUME TypeOK, [Next]_vars PROVE TypeOK'
  OBVIOUS
<1> USE RoutingAssumption DEF TypeOK, table, api, plan
<1>1. ASSUME NEW f \in Filters, NEW s \in Services, NEW default \in BOOLEAN,
             NEW enabled \in BOOLEAN, Create(f, s, default, enabled)
      PROVE  TypeOK'
  <2>1. f.type \in Types
    BY <1>1 DEF Create, Valid, Types
  <2>2. f.keys \in KeySets /\ f.conds \in CondSets
    BY PlaceholderAssumption DEF KeySets, CondSets
  <2> DEFINE row == [service |-> s, type |-> f.type, keys |-> f.keys, conds |-> f.conds,
                     default |-> default, enabled |-> enabled]
  <2>3. row \in Row
    BY <2>1, <2>2 DEF Row
  <2>4. created' \in 0..MaxSubs /\ subs' = [subs EXCEPT ![created + 1] = row]
    BY <1>1 DEF Create
  <2> HIDE DEF row
  <2>5. subs' \in [Ids -> Row \union {NoSub}]
    BY <2>3, <2>4
  <2> QED BY <1>1, <2>4, <2>5 DEF Create
<1>2. ASSUME NEW q \in Requests, NEW k \in Ids, NEW p \in Patches, Validate(q, k, p)
      PROVE  TypeOK'
  <2>1. p.type \in Types \union {Keep}
    BY <1>2 DEF Validate, Valid, Merged, Types
  <2>2. [id |-> k, patch |-> p] \in Call
    BY <2>1 DEF Call
  <2> QED BY <1>2, <2>2 DEF Validate
<1>3. ASSUME NEW q \in Requests, Write(q) PROVE TypeOK'
  <2>1. call[q] \in Call
    BY <1>3 DEF Write
  <2>2. \A r \in Row : Updated(r, call[q].patch) \in Row
    BY <2>1, UpdatedRow DEF Call
  <2> QED BY <1>3, <2>1, <2>2 DEF Write
<1>4. ASSUME NEW q \in Requests, Abandon(q) PROVE TypeOK'
  BY <1>4 DEF Abandon
<1>5. ASSUME NEW k \in Ids, Delete(k) PROVE TypeOK'
  BY <1>5 DEF Delete
<1>6. ASSUME NEW s \in Services, Switch(s) PROVE TypeOK'
  BY <1>6 DEF Switch
<1>7. ASSUME NEW doc \in Payloads \union {Unparsed}, Load(doc) PROVE TypeOK'
  BY <1>7 DEF Load
<1>8. ASSUME NEW picked \in BOOLEAN, Turn(picked), picked => loaded[next] # NoSub
      PROVE  TypeOK'
  <2>1. CASE picked
    <3>1. loaded[next] \in Row
      BY <1>8, <2>1 DEF Turn
    <3>2. loaded[next].service \in Services
      BY <3>1 DEF Row
    <3>3. ids' \in Seq(Services)
      <4>1. ids' = Added(loaded[next].service)
        BY <1>8, <2>1 DEF Turn, AddMatch
      <4>2. Append(ids, loaded[next].service) \in Seq(Services)
        BY <3>2
      <4> QED BY <4>1, <4>2 DEF Added
    <3>4. by' \in [Services -> SUBSET Ids]
      BY <1>8, <2>1, <3>2 DEF Turn, AddMatch
    <3> QED BY <1>8, <3>3, <3>4 DEF Turn, Ids
  <2>2. CASE ~picked
    BY <1>8, <2>2 DEF Turn, Ids
  <2> QED BY <2>1, <2>2
<1>9. CASE MatchOne
  BY <1>8, <1>9 DEF MatchOne
<1>10. CASE FallbackOne
  BY <1>8, <1>10 DEF FallbackOne
<1>11. CASE MatchEnd \/ FallbackEnd
  BY <1>11 DEF MatchEnd, FallbackEnd
<1>12. CASE Inserted
  BY <1>12 DEF Inserted
<1>13. CASE UNCHANGED vars
  BY <1>13 DEF vars
<1> QED
  BY <1>1, <1>2, <1>3, <1>4, <1>5, <1>6, <1>7, <1>9, <1>10, <1>11, <1>12, <1>13
     DEF Next, Operator, Planning

(***************************************************************************)
(* Rows, requests and the planner's variables have their types in every    *)
(* reachable state.                                                        *)
(***************************************************************************)
THEOREM RoutingTypeCorrect == Spec => []TypeOK
BY TypeInit, TypeStep, PTL DEF Spec

-----------------------------------------------------------------------------
(***************************************************************************)
(* The loops of MatchAll: the result holds the subscriptions that were     *)
(* picked so far, and its list names their services once each.             *)
(***************************************************************************)
Collected(P) == \A s \in Services : by[s] = {k \in P : loaded[k].service = s}

Listed ==
  /\ \A s \in Services : by[s] # {} <=> \E i \in 1..Len(ids) : ids[i] = s
  /\ \A i, j \in 1..Len(ids) : ids[i] = ids[j] => i = j

LoopInv ==
  /\ TypeOK
  /\ Listed
  /\ stage = "idle" => ids = <<>> /\ next = 1
  /\ stage = "matching" => Collected({k \in Hits : k < next})
  /\ stage = "fallback" => Hits = {} /\ Collected({k \in Defaults : k < next})
  /\ stage = "done" => Collected(Reasons)

(* The planner starts with an empty result. *)
LEMMA LoopInit == Init => LoopInv
BY TypeInit DEF Init, LoopInv, Listed

(* One turn of either loop adds the subscription whose turn it is, or not. *)
LEMMA TurnStep ==
  ASSUME TypeOK, Listed, NEW P \in SUBSET Ids, NEW picked \in BOOLEAN,
         Turn(picked), picked <=> next \in P,
         \A k \in P : loaded[k] # NoSub,
         Collected({k \in P : k < next})
  PROVE  Listed' /\ Collected({k \in P : k < next})'
<1>1. next \in Ids /\ next' = next + 1 /\ loaded' = loaded
  BY DEF Turn, plan
<1>2. CASE ~picked
  <2>1. {k \in P : k < next'} = {k \in P : k < next}
    <3>1. \A k \in P : k < next' <=> k < next
      BY <1>1, <1>2 DEF Ids
    <3> QED BY <3>1
  <2> QED BY <1>1, <1>2, <2>1 DEF Turn, Listed, Collected
<1>3. CASE picked
  <2> DEFINE s0 == loaded[next].service
  <2>1. loaded[next] \in Row
    BY <1>1, <1>3 DEF TypeOK
  <2>2. s0 \in Services
    BY <2>1 DEF Row
  <2>3. ids' = Added(s0) /\ by' = [by EXCEPT ![s0] = @ \union {next}]
    BY <1>3 DEF Turn, AddMatch
  <2>4. {k \in P : k < next'} = {k \in P : k < next} \union {next}
    <3>1. \A k \in P : k < next' <=> k < next \/ k = next
      BY <1>1, <1>3 DEF Ids
    <3> QED BY <1>3, <3>1
  <2>5. by \in [Services -> SUBSET Ids] /\ ids \in Seq(Services)
    BY DEF TypeOK
  <2>6. by'[s0] = by[s0] \union {next} /\ \A s \in Services : s # s0 => by'[s] = by[s]
    BY <2>2, <2>3, <2>5
  <2>7. Collected({k \in P : k < next})'
    <3> SUFFICES ASSUME NEW s \in Services
                 PROVE  by'[s] = {k \in {k \in P : k < next'} : loaded'[k].service = s}
      BY DEF Collected
    <3>1. by[s] = {k \in {k \in P : k < next} : loaded[k].service = s}
      BY DEF Collected
    <3>2. CASE s = s0
      BY <1>1, <2>4, <2>6, <3>1, <3>2
    <3>3. CASE s # s0
      BY <1>1, <2>4, <2>6, <3>1, <3>3
    <3> QED BY <3>2, <3>3
  <2>8. CASE by[s0] = {}
    <3>1. ids' = Append(ids, s0)
      BY <2>3, <2>8 DEF Added
    <3>2. Len(ids') = Len(ids) + 1 /\ ids'[Len(ids) + 1] = s0
          /\ \A i \in 1..Len(ids) : ids'[i] = ids[i]
      BY <2>2, <2>5, <3>1
    <3>3. ~ \E i \in 1..Len(ids) : ids[i] = s0
      BY <2>2, <2>8 DEF Listed
    <3>4. Len(ids) \in Nat
      BY <2>5
    <3>5. ASSUME NEW s \in Services
          PROVE  by'[s] # {} <=> \E i \in 1..Len(ids') : ids'[i] = s
      <4>1. CASE s = s0
        <5>1. Len(ids) + 1 \in 1..Len(ids')
          BY <3>2, <3>4
        <5> QED BY <2>6, <3>2, <4>1, <5>1
      <4>2. CASE s # s0
        BY <2>6, <3>2, <3>4, <4>2 DEF Listed
      <4> QED BY <4>1, <4>2
    <3>6. \A i, j \in 1..Len(ids') : ids'[i] = ids'[j] => i = j
      BY <3>2, <3>3, <3>4 DEF Listed
    <3> QED BY <2>7, <3>5, <3>6 DEF Listed
  <2>9. CASE by[s0] # {}
    <3>1. ids' = ids
      BY <2>3, <2>9 DEF Added
    <3> QED BY <2>6, <2>7, <2>9, <3>1 DEF Listed
  <2> QED BY <2>8, <2>9
<1> QED BY <1>2, <1>3

(* Every step keeps the loop invariant; the operator does not touch the loops. *)
LEMMA LoopStep == LoopInv /\ [Next]_vars => LoopInv'
<1> SUFFICES ASSUME LoopInv, [Next]_vars PROVE LoopInv'
  OBVIOUS
<1>t. TypeOK /\ TypeOK' /\ Listed
  BY TypeStep DEF LoopInv
<1>h. Hits \in SUBSET Ids /\ Defaults \in SUBSET Ids
      /\ \A k \in Hits \union Defaults : loaded[k] \in Row /\ loaded[k].service \in Services
  BY <1>t DEF Hits, Defaults, TypeOK, Row
<1>1. CASE Operator \/ UNCHANGED vars
  <2>1. UNCHANGED plan
    BY <1>1 DEF Operator, Create, Validate, Write, Abandon, Delete, Switch, vars
  <2> QED BY <1>t, <2>1 DEF LoopInv, Listed, Collected, Hits, Defaults, Reasons, plan
<1>2. ASSUME NEW doc \in Payloads \union {Unparsed}, Load(doc) PROVE LoopInv'
  <2>1. next' = 1 /\ ids' = <<>> /\ ids = <<>> /\ by' = by /\ stage' = "matching"
    BY <1>2 DEF Load, LoopInv
  <2>2. \A s \in Services : by[s] = {}
    BY <1>t, <2>1 DEF Listed
  <2>3. {k \in Hits : k < next}' = {}
    BY <2>1 DEF Hits, Ids
  <2>4. Collected({k \in Hits : k < next})'
    BY <2>1, <2>2, <2>3 DEF Collected
  <2>5. Listed'
    BY <1>t, <2>1 DEF Listed
  <2> QED BY <1>t, <2>1, <2>4, <2>5 DEF LoopInv
<1>3. CASE MatchOne
  <2>1. stage = "matching" /\ stage' = stage /\ loaded' = loaded /\ event' = event
    BY <1>3 DEF MatchOne, Turn
  <2> DEFINE hit == loaded[next] # NoSub /\ Accepts(loaded[next], event)
  <2>p. PICK P \in SUBSET Ids : P = Hits
    BY <1>h
  <2>q. PICK picked \in BOOLEAN : picked <=> next \in P
    OBVIOUS
  <2>2. Turn(picked) /\ (picked <=> next \in P)
    <3>1. next \in P <=> hit
      BY <1>3, <2>p DEF MatchOne, Turn, Hits
    <3> QED BY <1>3, <2>q, <3>1 DEF MatchOne, Turn
  <2>3. Collected({k \in P : k < next})
    BY <2>1, <2>p DEF LoopInv
  <2>4. \A k \in P : loaded[k] # NoSub
    BY <2>p DEF Hits
  <2>5. Hits' = Hits
    BY <2>1 DEF Hits
  <2>6. Listed' /\ Collected({k \in P : k < next})'
    BY <1>t, <2>2, <2>3, <2>4, TurnStep
  <2>7. Collected({k \in Hits : k < next})'
    BY <2>p, <2>5, <2>6 DEF Collected
  <2> QED BY <1>t, <2>1, <2>6, <2>7 DEF LoopInv
<1>4. CASE FallbackOne
  <2>1. stage = "fallback" /\ stage' = stage /\ loaded' = loaded /\ event' = event
    BY <1>4 DEF FallbackOne, Turn
  <2> DEFINE hit == loaded[next] # NoSub /\ loaded[next].default
  <2>p. PICK P \in SUBSET Ids : P = Defaults
    BY <1>h
  <2>q. PICK picked \in BOOLEAN : picked <=> next \in P
    OBVIOUS
  <2>2. Turn(picked) /\ (picked <=> next \in P)
    <3>1. next \in P <=> hit
      BY <1>4, <2>p DEF FallbackOne, Turn, Defaults
    <3> QED BY <1>4, <2>q, <3>1 DEF FallbackOne, Turn
  <2>3. Collected({k \in P : k < next}) /\ Hits = {}
    BY <2>1, <2>p DEF LoopInv
  <2>4. \A k \in P : loaded[k] # NoSub
    BY <2>p DEF Defaults
  <2>5. Defaults' = Defaults /\ Hits' = Hits
    BY <2>1 DEF Defaults, Hits
  <2>6. Listed' /\ Collected({k \in P : k < next})'
    BY <1>t, <2>2, <2>3, <2>4, TurnStep
  <2>7. Collected({k \in Defaults : k < next})'
    BY <2>p, <2>5, <2>6 DEF Collected
  <2> QED BY <1>t, <2>1, <2>3, <2>5, <2>6, <2>7 DEF LoopInv
<1>5. CASE MatchEnd
  <2>1. stage = "matching" /\ UNCHANGED <<event, loaded, ids, by>> /\ Hits' = Hits
        /\ Defaults' = Defaults
    BY <1>5 DEF MatchEnd, Hits, Defaults
  <2>2. {k \in Hits : k < next} = Hits
    BY <1>5, <1>h, <1>t, RoutingAssumption DEF MatchEnd, TypeOK, Ids
  <2>3. Collected(Hits)
    BY <2>1, <2>2 DEF LoopInv
  <2>4. ids = <<>> <=> Hits = {}
    <3>1. \A s \in Services : by[s] = {k \in Hits : loaded[k].service = s}
      BY <2>3 DEF Collected
    <3>2. ASSUME ids = <<>> PROVE Hits = {}
      BY <1>t, <1>h, <3>1, <3>2 DEF Listed
    <3>3. ASSUME ids # <<>> PROVE Hits # {}
      <4>1. 1 \in 1..Len(ids) /\ ids[1] \in Services
        BY <1>t, <3>3 DEF TypeOK
      <4> QED BY <1>t, <3>1, <4>1 DEF Listed
    <3> QED BY <3>2, <3>3
  <2>5. Listed'
    BY <1>t, <2>1 DEF Listed
  <2>6. CASE NothingMatched /\ stage' = "fallback" /\ next' = 1
    <3>1. Hits' = {} /\ {k \in Defaults : k < next}' = {}
      <4>1. Hits = {} /\ next' = 1
        BY <2>4, <2>6 DEF NothingMatched
      <4>2. \A k \in Defaults' : ~(k < next')
        BY <1>h, <2>1, <4>1 DEF Ids
      <4> QED BY <2>1, <4>1, <4>2
    <3>2. \A s \in Services : by'[s] = {}
      BY <2>1, <2>3, <2>4, <2>6 DEF Collected, NothingMatched
    <3> QED BY <1>t, <2>5, <2>6, <3>1, <3>2 DEF LoopInv, Collected
  <2>7. CASE ~NothingMatched /\ stage' = "done"
    <3>1. Reasons' = Hits
      BY <2>1, <2>4, <2>7 DEF NothingMatched, Reasons
    <3> QED BY <1>t, <2>1, <2>3, <2>5, <2>7, <3>1 DEF LoopInv, Collected
  <2> QED BY <1>5, <2>6, <2>7 DEF MatchEnd
<1>6. CASE FallbackEnd
  <2>1. stage = "fallback" /\ stage' = "done" /\ UNCHANGED <<event, loaded, ids, by>>
        /\ Hits' = Hits /\ Defaults' = Defaults
    BY <1>6 DEF FallbackEnd, Hits, Defaults
  <2>2. {k \in Defaults : k < next} = Defaults
    BY <1>6, <1>h, <1>t, RoutingAssumption DEF FallbackEnd, TypeOK, Ids
  <2>3. Collected(Defaults) /\ Reasons' = Defaults
    BY <2>1, <2>2 DEF LoopInv, Reasons
  <2> QED BY <1>t, <2>1, <2>3 DEF LoopInv, Listed, Collected
<1>7. CASE Inserted
  <2>1. stage' = "idle" /\ next' = 1 /\ ids' = <<>> /\ \A s \in Services : by'[s] = {}
    BY <1>7 DEF Inserted
  <2> QED BY <1>t, <2>1 DEF LoopInv, Listed
<1> QED
  BY <1>1, <1>2, <1>3, <1>4, <1>5, <1>6, <1>7 DEF Next, Planning

(***************************************************************************)
(* The planner's pass ends with the services the subscriptions call for,   *)
(* for any number of subscriptions and any filters and payloads.           *)
(***************************************************************************)
THEOREM RecipientsHolds == Spec => []Recipients
<1>1. LoopInv => Recipients
  BY DEF LoopInv, Listed, Collected, Recipients
<1> QED BY LoopInit, LoopStep, <1>1, PTL DEF Spec

-----------------------------------------------------------------------------
(***************************************************************************)
(* Updates: while a validated patch waits for its UPDATE, nothing but a    *)
(* deletion has happened to its row, because no other update runs and ids  *)
(* are not given out twice.                                                *)
(***************************************************************************)
PatchInv ==
  /\ TypeOK
  /\ StoredIsValid
  /\ \A k \in Ids : subs[k] # NoSub => k <= created
  /\ \A q, r \in Requests : call[q] # NoSub /\ call[r] # NoSub => q = r
  /\ \A q \in Requests : call[q] # NoSub =>
       /\ call[q].id <= created
       /\ subs[call[q].id] # NoSub => Valid(Merged(subs[call[q].id], call[q].patch))

(* There are no rows and no requests yet. *)
LEMMA PatchInit == Init => PatchInv
<1> SUFFICES ASSUME Init PROVE PatchInv
  OBVIOUS
<1> QED BY TypeInit DEF Init, PatchInv, StoredIsValid

(* The UPDATE leaves the filter that was validated. *)
LEMMA UpdatedIsMerged ==
  ASSUME NEW row, NEW p
  PROVE  Valid(Updated(row, p)) <=> Valid(Merged(row, p))
BY DEF Valid, Updated, Merged

(* Every step keeps stored filters valid and validated patches fitting. *)
LEMMA PatchStep ==
  ASSUME ~Overlap PROVE PatchInv /\ [Next]_vars => PatchInv'
<1> SUFFICES ASSUME PatchInv, [Next]_vars PROVE PatchInv'
  OBVIOUS
<1>t. TypeOK /\ TypeOK'
  BY TypeStep DEF PatchInv
<1>c. \A q \in Requests : call[q] # NoSub => call[q].id \in Ids
  BY <1>t DEF TypeOK, Call
<1>n. created \in Nat /\ \A k \in Ids : k \in Nat
  BY <1>t, RoutingAssumption DEF TypeOK, Ids
<1>g. (\A k \in Ids : subs[k] # NoSub => k <= created)
      /\ \A q \in Requests : call[q] # NoSub => call[q].id <= created
  BY DEF PatchInv
<1>1. ASSUME NEW f \in Filters, NEW s \in Services, NEW default \in BOOLEAN,
             NEW enabled \in BOOLEAN, Create(f, s, default, enabled)
      PROVE  PatchInv'
  <2> DEFINE row == [service |-> s, type |-> f.type, keys |-> f.keys, conds |-> f.conds,
                     default |-> default, enabled |-> enabled]
  <2>1. Valid(row)
    BY <1>1 DEF Create, Valid
  <2>2. call' = call /\ created' = created + 1 /\ subs' = [subs EXCEPT ![created + 1] = row]
    BY <1>1 DEF Create, api
  <2> HIDE DEF row
  <2>3. \A k \in Ids : IF k = created + 1 THEN subs'[k] = row ELSE subs'[k] = subs[k]
    BY <1>t, <2>2 DEF TypeOK
  <2>4. StoredIsValid'
    BY <2>1, <2>3 DEF PatchInv, StoredIsValid
  <2>5. (\A k \in Ids : subs[k] # NoSub => k <= created)'
    <3> SUFFICES ASSUME NEW k \in Ids, subs'[k] # NoSub PROVE k <= created'
      OBVIOUS
    <3>1. k \in Nat /\ (k = created + 1 \/ k <= created)
      BY <1>g, <1>n, <2>3
    <3> QED BY <1>n, <2>2, <3>1
  <2>6. \A q \in Requests : call[q] # NoSub =>
          call[q].id <= created /\ subs'[call[q].id] = subs[call[q].id]
    <3> SUFFICES ASSUME NEW q \in Requests, call[q] # NoSub
                 PROVE  call[q].id <= created /\ subs'[call[q].id] = subs[call[q].id]
      OBVIOUS
    <3>1. call[q].id \in Ids /\ call[q].id \in Nat /\ call[q].id <= created
      BY <1>c, <1>g, <1>n
    <3>2. call[q].id # created + 1
      BY <1>n, <3>1
    <3> QED BY <2>3, <3>1, <3>2
  <2>7. \A q \in Requests : call'[q] # NoSub => call'[q].id <= created'
    BY <1>c, <1>n, <2>2, <2>6
  <2> QED BY <1>t, <2>2, <2>4, <2>5, <2>6, <2>7 DEF PatchInv
<1>2. ASSUME NEW q \in Requests, NEW k \in Ids, NEW p \in Patches, Validate(q, k, p)
      PROVE  PatchInv'
  <2>1. subs' = subs /\ created' = created /\ subs[k] # NoSub /\ Valid(Merged(subs[k], p))
    BY <1>2 DEF Validate, table
  <2>2. \A r \in Requests : call[r] = NoSub
    BY <1>2 DEF Validate
  <2>3. \A r \in Requests : call'[r] # NoSub => r = q /\ call'[r] = [id |-> k, patch |-> p]
    BY <1>2, <1>t, <2>2 DEF Validate, TypeOK
  <2>4. StoredIsValid'
    BY <2>1 DEF PatchInv, StoredIsValid
  <2> QED BY <1>t, <2>1, <2>3, <2>4 DEF PatchInv
<1>3. ASSUME NEW q \in Requests, Write(q) PROVE PatchInv'
  <2> DEFINE k == call[q].id
             p == call[q].patch
  <2>1. created' = created /\ call[q] # NoSub /\ k \in Ids
    BY <1>3, <1>c DEF Write
  <2>2. \A r \in Requests : call'[r] = NoSub
    BY <1>3, <1>t, <2>1 DEF Write, TypeOK, PatchInv
  <2>3. \A i \in Ids : i # k => subs'[i] = subs[i]
    BY <1>3, <1>t, <2>1 DEF Write, TypeOK
  <2>4. subs'[k] = IF subs[k] = NoSub THEN NoSub ELSE Updated(subs[k], p)
    BY <1>3, <1>t, <2>1 DEF Write, TypeOK
  <2>5. subs[k] # NoSub => Valid(Updated(subs[k], p))
    BY <2>1, UpdatedIsMerged DEF PatchInv
  <2>6. StoredIsValid'
    BY <2>3, <2>4, <2>5 DEF PatchInv, StoredIsValid
  <2>7. (\A i \in Ids : subs[i] # NoSub => i <= created)'
    BY <2>1, <2>3, <2>4 DEF PatchInv
  <2> QED BY <1>t, <2>2, <2>6, <2>7 DEF PatchInv
<1>4. ASSUME NEW q \in Requests, Abandon(q) PROVE PatchInv'
  <2>1. UNCHANGED <<subs, created>> /\ \A r \in Requests : call'[r] # NoSub => call'[r] = call[r]
    BY <1>4, <1>t DEF Abandon, table, TypeOK
  <2> QED BY <1>t, <2>1 DEF PatchInv, StoredIsValid
<1>5. ASSUME NEW k \in Ids, Delete(k) PROVE PatchInv'
  <2>1. UNCHANGED <<call, created>> /\ \A i \in Ids : subs'[i] # NoSub => subs'[i] = subs[i]
    BY <1>5, <1>t DEF Delete, api, TypeOK
  <2> QED BY <1>c, <1>t, <2>1 DEF PatchInv, StoredIsValid
<1>6. CASE (\E s \in Services : Switch(s)) \/ Planning \/ UNCHANGED vars
  <2>1. UNCHANGED <<subs, created, call>>
    BY <1>6 DEF Switch, Planning, Load, MatchOne, MatchEnd, FallbackOne, FallbackEnd, Turn,
                Inserted, table, api, vars
  <2> QED BY <1>t, <2>1 DEF PatchInv, StoredIsValid
<1> QED BY <1>1, <1>2, <1>3, <1>4, <1>5, <1>6 DEF Next, Operator

(***************************************************************************)
(* If updates of subscriptions do not overlap, every stored filter is one  *)
(* the API would accept, whatever columns the patches leave out.           *)
(***************************************************************************)
THEOREM StoredIsValidHolds ==
  ASSUME ~Overlap PROVE Spec => []StoredIsValid
<1>1. PatchInv /\ [Next]_vars => PatchInv'
  BY PatchStep
<1>2. PatchInv => StoredIsValid
  BY DEF PatchInv
<1> QED BY PatchInit, <1>1, <1>2, PTL DEF Spec

-----------------------------------------------------------------------------
(***************************************************************************)
(* The operators of a condition.                                           *)
(***************************************************************************)

(* What eq finds for a scalar is a scalar of the same text. *)
LEMMA EqualScalar ==
  ASSUME NEW v, NEW w, Scalar(w)
  PROVE  Equal(v, w) <=> Scalar(v) /\ v.text = w.text
BY DEF Equal, Scalar, Null

(* The operators fit together on whatever a payload holds at the path. *)
LEMMA OperatorsFit ==
  ASSUME NEW doc, doc # Unparsed,
         NEW c \in Conditions, WellFormed(c), Scalar(c.value)
  PROVE  LET eq == Holds(With(c, "eq", c.value), doc) IN
         /\ Holds(With(c, "neq", c.value), doc) <=> ~eq
         /\ Holds(With(c, "in", [kind |-> "array", items |-> {c.value}]), doc) <=> eq
         /\ eq => Holds(With(c, "contains", c.value), doc)
         /\ eq => ~Holds(With(c, "exists", False), doc)
<1> DEFINE found == doc[c.path]
           array == [kind |-> "array", items |-> {c.value}]
           met   == \E v \in found : Equal(v, c.value)
<1>1. c.path \in Paths
  BY DEF WellFormed
<1>2. Holds(With(c, "eq", c.value), doc) <=> met
  BY <1>1 DEF With, Holds, EqHolds
<1>3. Holds(With(c, "neq", c.value), doc) <=> ~met
  BY <1>1 DEF With, Holds, EqHolds, NeqHolds
<1>4. Holds(With(c, "in", array), doc) <=> met
  BY <1>1 DEF With, Holds
<1>5. met => Holds(With(c, "contains", c.value), doc)
  <2>1. met => \E v \in found : Part(c.value.text, v)
    BY EqualScalar, TextAssumption DEF Part
  <2> QED BY <1>1, <2>1 DEF With, Holds, ContainsHolds
<1>6. met => ~Holds(With(c, "exists", False), doc)
  BY <1>1 DEF With, Holds
<1> QED BY <1>2, <1>3, <1>4, <1>5, <1>6

(***************************************************************************)
(* The operators of a condition agree on every payload that parses: on     *)
(* absent fields, nulls, lists and several values alike.                   *)
(***************************************************************************)
THEOREM OperatorsAgreeHolds == Spec => []OperatorsAgree
<1>1. OperatorsAgree
  BY OperatorsFit DEF OperatorsAgree
<1> QED BY <1>1, PTL

=============================================================================
