------------------------------- MODULE Routing -------------------------------
(***************************************************************************)
(* Who gets an event: the subscriptions of one listener, as the operator   *)
(* creates, edits and deletes them, and the planner's pass over them for   *)
(* one event after the other.                                              *)
(*                                                                         *)
(* The planner loads the deliverable subscriptions in the order of their   *)
(* ids and matches on what it loaded: every subscription in turn, and if   *)
(* nothing matched the default ones in turn.  An update of a subscription  *)
(* is a SELECT, a validation of the merged row and an UPDATE of the        *)
(* supplied columns, with nothing that holds the row in between.           *)
(***************************************************************************)
EXTENDS Naturals, Sequences

CONSTANTS
  Services,    \* services of the subscriptions
  Paths,       \* JSONPath expressions that parse
  KeyPath,     \* the listener's routing key path
  Payloads,    \* bodies that parse: the set of values found at each path
  Substring,   \* pairs of texts of which the first occurs in the second
  Filters,     \* filters operators ask for: records with a type, keys and conditions
  Patches,     \* updates they ask for
  Requests,    \* update requests that may run at once
  Unparsed,    \* the payload that is not JSON, or is null
  Keep,        \* in place of a column: the update leaves it alone
  NoSub,       \* in place of a row: there is none
  Overlap,     \* whether updates of one subscription overlap
  MaxSubs,     \* bound: subscriptions ever created
  MaxPatches   \* bound: updates

Types == {"all", "routing_key_in", "jsonpath_match"}
Ops   == {"eq", "neq", "in", "exists", "contains"}

\* A JSON value is its kind and its canonical text; an array has items.
Null      == [kind |-> "null"]
False     == [kind |-> "boolean", text |-> "false"]
Scalar(v) == v.kind \in {"string", "number", "boolean"}

Ids == 1..MaxSubs

ASSUME RoutingAssumption ==
  /\ MaxSubs \in Nat /\ MaxPatches \in Nat
  /\ Overlap \in BOOLEAN
  /\ \A f \in Filters : f = [type |-> f.type, keys |-> f.keys, conds |-> f.conds]
  /\ \A p \in Patches :
       /\ p = [type |-> p.type, keys |-> p.keys, conds |-> p.conds,
               default |-> p.default, enabled |-> p.enabled]
       /\ p.default \in BOOLEAN \union {Keep} /\ p.enabled \in BOOLEAN \union {Keep}

VARIABLES
  subs,     \* the subscriptions table: a row or NoSub for each id
  created,  \* ids given out
  live,     \* services that are enabled and verified
  call,     \* each update request: the subscription and the patch it has validated, or NoSub
  patched,  \* updates so far
  stage,    \* of the planner: "idle", "matching", "fallback", "done"
  event,    \* its event: the routing keys and the payload
  loaded,   \* what it loaded: subs without the rows that are not deliverable
  next,     \* the id whose turn it is
  ids, by   \* the result: ServiceIDs, and the subscriptions that caused each

table == <<subs, created, live>>
api   == <<call, patched>>
plan  == <<stage, event, loaded, next, ids, by>>
vars  == <<table, api, plan>>

NoEvent == [keys |-> {}, doc |-> Unparsed]

Init ==
  /\ subs = [k \in Ids |-> NoSub] /\ created = 0 /\ live \in SUBSET Services
  /\ call = [q \in Requests |-> NoSub] /\ patched = 0
  /\ stage = "idle" /\ event = NoEvent
  /\ loaded = [k \in Ids |-> NoSub] /\ next = 1
  /\ ids = <<>> /\ by = [s \in Services |-> {}]

-----------------------------------------------------------------------------
(***************************************************************************)
(* Filters.                                                                *)
(***************************************************************************)

\* valuesEqual
Equal(v, w) ==
  \/ v = Null /\ w = Null
  \/ Scalar(v) /\ Scalar(w) /\ v.text = w.text

Member(t, v) == v.kind = "array" /\ \E x \in v.items : Scalar(x) /\ x.text = t
Part(t, v)   == Scalar(v) /\ <<t, v.text>> \in Substring

EqHolds(c, found) == \E v \in found : Equal(v, c.value)

\* (Faulty variant: a field that is absent is not "not equal".)
NeqIfPresent(c, found) == found # {} /\ ~EqHolds(c, found)

NeqHolds(c, found) == found = {} \/ ~EqHolds(c, found)

ContainsHolds(c, found) ==
  Scalar(c.value) /\ \E v \in found : Member(c.value.text, v) \/ Part(c.value.text, v)

\* evalCondition
Holds(c, doc) ==
  /\ doc # Unparsed /\ c.path \in Paths
  /\ LET found == doc[c.path] IN
     \/ c.op = "eq" /\ EqHolds(c, found)
     \/ c.op = "neq" /\ NeqHolds(c, found)
     \/ c.op = "in" /\ c.value.kind = "array" /\ \E v \in found, w \in c.value.items : Equal(v, w)
     \/ c.op = "exists" /\ (found = {} <=> c.value = False)
     \/ c.op = "contains" /\ ContainsHolds(c, found)

\* ParseConditions, for one of them
WellFormed(c) == c.path \in Paths /\ c.op \in Ops /\ (c.op = "in" => c.value.kind = "array")

\* validateFilter
Valid(f) ==
  \/ f.type = "all"
  \/ f.type = "routing_key_in" /\ f.keys # {}
  \/ f.type = "jsonpath_match" /\ f.conds # {} /\ \A c \in f.conds : WellFormed(c)

\* loadSubscriptions and Match: a filter with a malformed condition matches nothing.
Accepts(s, e) ==
  \/ s.type = "all"
  \/ s.type = "routing_key_in" /\ e.keys \intersect s.keys # {}
  \/ s.type = "jsonpath_match" /\ s.conds # {}
       /\ \A c \in s.conds : WellFormed(c) /\ Holds(c, e.doc)

\* ExtractRoutingKeys: the scalars at the listener's path.
Extracted(doc) == {v.text : v \in {w \in doc[KeyPath] : Scalar(w)}}

-----------------------------------------------------------------------------
(***************************************************************************)
(* The operator.                                                           *)
(***************************************************************************)

Create(f, s, default, enabled) ==
  /\ created < MaxSubs /\ Valid(f)
  /\ created' = created + 1
  /\ subs' = [subs EXCEPT ![created + 1] =
                [service |-> s, type |-> f.type, keys |-> f.keys, conds |-> f.conds,
                 default |-> default, enabled |-> enabled]]
  /\ UNCHANGED <<live, api, plan>>

\* (Faulty variant: the supplied columns are checked by themselves.)
PatchOnly(row, p) ==
  [type  |-> IF p.type  = Keep THEN "all" ELSE p.type,
   keys  |-> IF p.keys  = Keep THEN row.keys  ELSE p.keys,
   conds |-> IF p.conds = Keep THEN row.conds ELSE p.conds]

\* The filter a patch leads to.
Merged(row, p) ==
  [type  |-> IF p.type  = Keep THEN row.type  ELSE p.type,
   keys  |-> IF p.keys  = Keep THEN row.keys  ELSE p.keys,
   conds |-> IF p.conds = Keep THEN row.conds ELSE p.conds]

\* PATCH: the row is read and the merged filter validated.
Validate(q, k, p) ==
  /\ call[q] = NoSub /\ patched < MaxPatches
  /\ Overlap \/ \A r \in Requests : call[r] = NoSub
  /\ subs[k] # NoSub /\ Valid(Merged(subs[k], p))
  /\ call' = [call EXCEPT ![q] = [id |-> k, patch |-> p]]
  /\ patched' = patched + 1
  /\ UNCHANGED <<table, plan>>

\* (Faulty variant: the COALESCE of one column is missing.)
UpdatedBlindly(row, p) ==
  [service |-> row.service,
   type    |-> p.type,
   keys    |-> IF p.keys    = Keep THEN row.keys    ELSE p.keys,
   conds   |-> IF p.conds   = Keep THEN row.conds   ELSE p.conds,
   default |-> IF p.default = Keep THEN row.default ELSE p.default,
   enabled |-> IF p.enabled = Keep THEN row.enabled ELSE p.enabled]

\* UPDATE ... COALESCE, on whatever the row is by now.
Updated(row, p) ==
  [service |-> row.service,
   type    |-> IF p.type    = Keep THEN row.type    ELSE p.type,
   keys    |-> IF p.keys    = Keep THEN row.keys    ELSE p.keys,
   conds   |-> IF p.conds   = Keep THEN row.conds   ELSE p.conds,
   default |-> IF p.default = Keep THEN row.default ELSE p.default,
   enabled |-> IF p.enabled = Keep THEN row.enabled ELSE p.enabled]

Write(q) ==
  /\ call[q] # NoSub
  /\ LET k == call[q].id IN
     subs' = [subs EXCEPT ![k] = IF @ = NoSub THEN NoSub ELSE Updated(@, call[q].patch)]
  /\ call' = [call EXCEPT ![q] = NoSub]
  /\ UNCHANGED <<created, live, patched, plan>>

\* The request ends before its UPDATE.
Abandon(q) ==
  /\ call[q] # NoSub
  /\ call' = [call EXCEPT ![q] = NoSub]
  /\ UNCHANGED <<table, patched, plan>>

Delete(k) ==
  /\ subs[k] # NoSub
  /\ subs' = [subs EXCEPT ![k] = NoSub]
  /\ UNCHANGED <<created, live, api, plan>>

\* A service is verified, disabled or switched on or off.
Switch(s) ==
  /\ live' = IF s \in live THEN live \ {s} ELSE live \union {s}
  /\ UNCHANGED <<subs, created, api, plan>>

-----------------------------------------------------------------------------
(***************************************************************************)
(* The planner: planEvent.                                                 *)
(***************************************************************************)

\* SubscriptionsForPlanning
Deliverable(k) == subs[k] # NoSub /\ subs[k].enabled /\ subs[k].service \in live

Load(doc) ==
  /\ stage = "idle"
  /\ stage' = "matching"
  /\ event' = [keys |-> IF doc = Unparsed THEN {} ELSE Extracted(doc), doc |-> doc]
  /\ loaded' = [k \in Ids |-> IF Deliverable(k) THEN subs[k] ELSE NoSub]
  /\ UNCHANGED <<table, api, next, ids, by>>

\* (Faulty variant: a service gets a delivery for each of its subscriptions.)
AddEvery(s) == Append(ids, s)

\* addMatch: the services with the one of a subscription that matched.
Added(s) == IF by[s] = {} THEN Append(ids, s) ELSE ids

AddMatch(k) ==
  /\ ids' = Added(loaded[k].service)
  /\ by' = [by EXCEPT ![loaded[k].service] = @ \union {k}]

\* One turn of a loop of MatchAll: subscription next is added if it is picked.
Turn(picked) ==
  /\ next \in Ids /\ next' = next + 1
  /\ IF picked THEN AddMatch(next) ELSE UNCHANGED <<ids, by>>
  /\ UNCHANGED <<table, api, stage, event, loaded>>

MatchOne ==
  /\ stage = "matching"
  /\ Turn(loaded[next] # NoSub /\ Accepts(loaded[next], event))

\* (Faulty variant: the first loop is the last.)
NoFallback == FALSE

\* Whether the default subscriptions are called for; without any, the second
\* loop adds nothing.
NothingMatched == ids = <<>>

MatchEnd ==
  /\ stage = "matching" /\ next \notin Ids
  /\ \/ NothingMatched /\ stage' = "fallback" /\ next' = 1
     \/ ~NothingMatched /\ stage' = "done" /\ UNCHANGED next
  /\ UNCHANGED <<table, api, event, loaded, ids, by>>

FallbackOne ==
  /\ stage = "fallback"
  /\ Turn(loaded[next] # NoSub /\ loaded[next].default)

FallbackEnd ==
  /\ stage = "fallback" /\ next \notin Ids
  /\ stage' = "done"
  /\ UNCHANGED <<table, api, event, loaded, next, ids, by>>

\* The deliveries are inserted and the next event may come.
Inserted ==
  /\ stage = "done"
  /\ stage' = "idle" /\ event' = NoEvent
  /\ loaded' = [k \in Ids |-> NoSub] /\ next' = 1
  /\ ids' = <<>> /\ by' = [s \in Services |-> {}]
  /\ UNCHANGED <<table, api>>

-----------------------------------------------------------------------------
Operator ==
  \/ \E f \in Filters, s \in Services, default, enabled \in BOOLEAN : Create(f, s, default, enabled)
  \/ \E q \in Requests, k \in Ids, p \in Patches : Validate(q, k, p)
  \/ \E q \in Requests : Write(q) \/ Abandon(q)
  \/ \E k \in Ids : Delete(k)
  \/ \E s \in Services : Switch(s)

Planning ==
  \/ \E doc \in Payloads \union {Unparsed} : Load(doc)
  \/ MatchOne \/ MatchEnd \/ FallbackOne \/ FallbackEnd \/ Inserted

Next == Operator \/ Planning

Spec == Init /\ [][Next]_vars

-----------------------------------------------------------------------------
KeySets  == ({f.keys : f \in Filters} \union {p.keys : p \in Patches}) \ {Keep}
CondSets == ({f.conds : f \in Filters} \union {p.conds : p \in Patches}) \ {Keep}

Row == [service : Services, type : Types, keys : KeySets, conds : CondSets,
        default : BOOLEAN, enabled : BOOLEAN]

Call == [id : Ids, patch : {p \in Patches : p.type \in Types \union {Keep}}]

\* Placeholders are no values of the column they stand in.
ASSUME PlaceholderAssumption ==
  /\ NoSub \notin Row \union Call
  /\ \A f \in Filters : f.keys # Keep /\ f.conds # Keep

TypeOK ==
  /\ subs \in [Ids -> Row \union {NoSub}] /\ created \in 0..MaxSubs
  /\ live \in SUBSET Services
  /\ call \in [Requests -> Call \union {NoSub}]
  /\ patched \in 0..MaxPatches
  /\ stage \in {"idle", "matching", "fallback", "done"}
  /\ loaded \in [Ids -> Row \union {NoSub}]
  /\ next \in 1..(MaxSubs + 1)
  /\ ids \in Seq(Services)
  /\ by \in [Services -> SUBSET Ids]

Hits     == {k \in Ids : loaded[k] # NoSub /\ Accepts(loaded[k], event)}
Defaults == {k \in Ids : loaded[k] # NoSub /\ loaded[k].default}

(***************************************************************************)
(* Who gets the event, whatever order the subscriptions were made in: the  *)
(* services of all subscriptions that match, those of the default ones     *)
(* only if none does; nobody else and nobody missing, each service once,   *)
(* and each with the subscriptions that are the reason.  ("Deduplication   *)
(* is the important part", "Fail safe", MatchAll.)                         *)
(***************************************************************************)
Reasons == IF Hits # {} THEN Hits ELSE Defaults

Recipients ==
  stage = "done" =>
    /\ \A s \in Services : by[s] = {k \in Reasons : loaded[k].service = s}
    /\ \A s \in Services : by[s] # {} <=> \E i \in 1..Len(ids) : ids[i] = s
    /\ \A i, j \in 1..Len(ids) : ids[i] = ids[j] => i = j

(***************************************************************************)
(* What is stored is a filter that would be accepted, although an update   *)
(* supplies some of its columns only.  ("Validate against the resulting    *)
(* state, not just the supplied fields", subscriptions.go.)                *)
(***************************************************************************)
StoredIsValid == \A k \in Ids : subs[k] # NoSub => Valid(subs[k])

Conditions == UNION {f.conds : f \in Filters}

\* A text occurs in itself.
ASSUME TextAssumption ==
  \A c \in Conditions : Scalar(c.value) => <<c.value.text, c.value.text>> \in Substring

With(c, op, v) == [path |-> c.path, op |-> op, value |-> v]

(***************************************************************************)
(* The operators of a condition fit together on every payload that parses: *)
(* neq is the opposite of eq, exists false of exists, a list of one is eq, *)
(* and a text contains what it equals.  (evalCondition.)                   *)
(***************************************************************************)
OperatorsAgree ==
  event.doc # Unparsed =>
    \A c \in {d \in Conditions : WellFormed(d) /\ Scalar(d.value)} :
      LET eq == Holds(With(c, "eq", c.value), event.doc) IN
      /\ Holds(With(c, "neq", c.value), event.doc) <=> ~eq
      /\ Holds(With(c, "in", [kind |-> "array", items |-> {c.value}]), event.doc) <=> eq
      /\ eq => Holds(With(c, "contains", c.value), event.doc)
      /\ eq => ~Holds(With(c, "exists", False), event.doc)

=============================================================================
