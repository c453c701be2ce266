--------------------------- MODULE GatewayProofs ----------------------------
(***************************************************************************)
(* Theorems about the events table and its readers, the start of           *)
(* processes, the intake of webhooks and the retry policy, as the parts of *)
(* Gateway: for any number of jobs, processes, requests and attempts, any  *)
(* page size and any migrations.                                           *)
(***************************************************************************)
EXTENDS Gateway, FiniteSetTheorems, TLAPS

(* A step of the gateway is a step, or none, of each part. *)
LEMMA Parts ==
  ASSUME [GatewayNext]_allVars
  PROVE  /\ [Log!Next]_logVars /\ [Start!Next]_startVars /\ [Hook!Next]_hookVars
         /\ [Retry!Next]_retryVars /\ [Pace!Next]_paceVars
BY DEF GatewayNext, allVars, FeedStep, LogStep, StartStep, HookStep, PaceStep, RetryStep

-----------------------------------------------------------------------------
(***************************************************************************)
(* The start of processes.                                                 *)
(***************************************************************************)

\* The schema has what a process has seen to be applied, unless it was rolled
\* back underneath it.
Caught ==
  \A p \in Processes : p \notin under =>
    /\ process[p] \in {"opening", "serving"} => version >= Known[p]
    /\ process[p] = "migrating" /\ task[p] # "down" => version >= next[p] - 1

StartInv == Start!TypeOK /\ Caught

(* No process has been started at first. *)
LEMMA StartInit == GatewayInit => StartInv
BY GatewayAssumption
   DEF GatewayInit, StartInv, Caught, Start!Init, Start!TypeOK, Start!StartupAssumption

(* Every step of a process keeps the types. *)
LEMMA StartTypes ==
  ASSUME Start!TypeOK, [Start!Next]_startVars
  PROVE  Start!TypeOK'
<1>a. Known \in [Processes -> Nat \ {0}] /\ MaxFaults \in Nat
  BY GatewayAssumption DEF Start!StartupAssumption
<1> USE <1>a DEF Start!TypeOK, Start!Goes, Start!Unlock, Start!Quit, Start!Fault
<1>1. ASSUME NEW p \in Processes, NEW j \in {"serve", "up", "down"}, Start!Start(p, j)
      PROVE  Start!TypeOK'
  BY <1>1 DEF Start!Start
<1>2. ASSUME NEW p \in Processes, Start!Acquire(p) PROVE Start!TypeOK'
  BY <1>2 DEF Start!Acquire
<1>3. ASSUME NEW p \in Processes, Start!Inspect(p) PROVE Start!TypeOK'
  BY <1>3 DEF Start!Inspect
<1>4. ASSUME NEW p \in Processes, Start!Apply(p) PROVE Start!TypeOK'
  BY <1>4 DEF Start!Apply
<1>5. ASSUME NEW p \in Processes, Start!RollBack(p) PROVE Start!TypeOK'
  <2>1. next[p] \in 1..Known[p] /\ version = next[p]
    BY <1>5 DEF Start!RollBack
  <2>2. version - 1 \in Nat
    BY <2>1
  <2> QED BY <1>5, <2>2 DEF Start!RollBack
<1>6. ASSUME NEW p \in Processes, Start!Clash(p) PROVE Start!TypeOK'
  BY <1>6 DEF Start!Clash
<1>7. ASSUME NEW p \in Processes, Start!Migrated(p) PROVE Start!TypeOK'
  BY <1>7 DEF Start!Migrated
<1>8. ASSUME NEW p \in Processes, Start!Open(p) \/ Start!Exit(p) PROVE Start!TypeOK'
  BY <1>8 DEF Start!Open, Start!Exit
<1>9. ASSUME NEW p \in Processes, Start!Fail(p) PROVE Start!TypeOK'
  BY <1>9 DEF Start!Fail
<1>10. ASSUME NEW p \in Processes, Start!LoseLock(p) PROVE Start!TypeOK'
  BY <1>10 DEF Start!LoseLock
<1>11. CASE UNCHANGED startVars
  BY <1>11 DEF startVars
<1> QED
  BY <1>1, <1>2, <1>3, <1>4, <1>5, <1>6, <1>7, <1>8, <1>9, <1>10, <1>11
     DEF Start!Next, Start!Migrating

(* Only a rollback takes migrations away, and it marks whom it concerns. *)
LEMMA StartKept ==
  ASSUME StartInv, [Start!Next]_startVars
  PROVE  StartInv'
<1>t. Start!TypeOK /\ Start!TypeOK'
  BY StartTypes DEF StartInv
<1>a. Known \in [Processes -> Nat \ {0}]
  BY GatewayAssumption DEF Start!StartupAssumption
<1>c. Caught
  BY DEF StartInv
<1>10. ASSUME UNCHANGED startVars PROVE Caught'
  BY <1>10, <1>c DEF startVars, Caught
<1> USE <1>a, <1>t, <1>c DEF Start!TypeOK, Caught, Start!Goes, Start!Quit
<1>1. ASSUME NEW p \in Processes, NEW j \in {"serve", "up", "down"}, Start!Start(p, j)
      PROVE  Caught'
  BY <1>1 DEF Start!Start
<1>2. ASSUME NEW p \in Processes, Start!Acquire(p) PROVE Caught'
  BY <1>2 DEF Start!Acquire
<1>3. ASSUME NEW p \in Processes, Start!Inspect(p) PROVE Caught'
  BY <1>3 DEF Start!Inspect
<1>4. ASSUME NEW p \in Processes, Start!Apply(p) PROVE Caught'
  <2>1. version' = next[p] /\ version' = version + 1
    BY <1>4 DEF Start!Apply
  <2>2. UNCHANGED <<process, task, under>> /\ next' = [next EXCEPT ![p] = next[p] + 1]
    BY <1>4 DEF Start!Apply
  <2> QED BY <2>1, <2>2
<1>5. ASSUME NEW p \in Processes, Start!RollBack(p) PROVE Caught'
  BY <1>5 DEF Start!RollBack
<1>6. ASSUME NEW p \in Processes, Start!Clash(p) PROVE Caught'
  BY <1>6 DEF Start!Clash
<1>7. ASSUME NEW p \in Processes, Start!Migrated(p) PROVE Caught'
  BY <1>7 DEF Start!Migrated
<1>8. ASSUME NEW p \in Processes, Start!Open(p) \/ Start!Exit(p) PROVE Caught'
  BY <1>8 DEF Start!Open, Start!Exit
<1>9. ASSUME NEW p \in Processes, Start!Fail(p) \/ Start!LoseLock(p) PROVE Caught'
  BY <1>9 DEF Start!Fail, Start!LoseLock
<1> QED
  BY <1>1, <1>2, <1>3, <1>4, <1>5, <1>6, <1>7, <1>8, <1>9, <1>10
     DEF Start!Next, Start!Migrating, StartInv

(* Replicas of any number and any age, started in any order and dying      *)
(* anywhere, never serve against a schema older than their binary, unless  *)
(* it was rolled back under them.                                          *)
THEOREM SchemaIsUpToDate == GatewaySpec => []UpToDate
<1>1. StartInv /\ [GatewayNext]_allVars => StartInv'
  BY Parts, StartKept
<1>2. StartInv => UpToDate
  BY DEF StartInv, Caught, UpToDate, Start!UpToDate
<1> QED BY StartInit, <1>1, <1>2, PTL DEF GatewaySpec

-----------------------------------------------------------------------------
(***************************************************************************)
(* The intake of webhooks.                                                 *)
(***************************************************************************)

\* The row a request read was in force while it is served.
Witnessed ==
  \A r \in Requests : request[r] = "reading" =>
    /\ seen[r].lid # 0
    /\ \E w \in during[r] : w.mode = seen[r].mode /\ w.secret = seen[r].secret

HookInv == Hook!TypeOK /\ Witnessed /\ Authentic /\ DeafByPatch

(* There is no listener, event or request at first. *)
LEMMA HookInit == GatewayInit => HookInv
<1> SUFFICES ASSUME Hook!Init PROVE HookInv
  BY DEF GatewayInit
<1>1. Hook!TypeOK
  <2>1. 0 \in 0..MaxListeners /\ 0 \in 0..MaxPatches
    BY GatewayAssumption DEF Hook!IntakeAssumption
  <2>2. way \in Hook!Ways
    BY DEF Hook!Init, Hook!Ways, Hook!Modes
  <2>3. seen \in [Requests -> [lid : 0..lids, mode : Hook!Modes, secret : Secrets \union {None}]]
    BY DEF Hook!Init, Hook!Modes
  <2>4. /\ request \in [Requests -> {"idle", "reading"}]
        /\ during \in [Requests -> SUBSET Hook!Ways]
    BY DEF Hook!Init
  <2>5. lid \in 0..lids /\ stored = {}
    BY DEF Hook!Init
  <2>7. enabled \in BOOLEAN /\ switched \in BOOLEAN
    BY Zenon DEF Hook!Init
  <2>6. lids \in 0..MaxListeners /\ patches \in 0..MaxPatches
    BY <2>1 DEF Hook!Init
  <2> QED BY <2>2, <2>3, <2>4, <2>5, <2>6, <2>7 DEF Hook!TypeOK
<1>2. Witnessed /\ Authentic /\ DeafByPatch
  BY DEF Hook!Init, Witnessed, Authentic, Hook!Authentic, DeafByPatch, Hook!DeafByPatch
<1> QED BY <1>1, <1>2 DEF HookInv

(* Every step of an operator and of a request keeps the types. *)
LEMMA HookTypes ==
  ASSUME Hook!TypeOK, Witnessed, [Hook!Next]_hookVars
  PROVE  Hook!TypeOK'
<1>a. MaxListeners \in Nat /\ MaxPatches \in Nat
  BY GatewayAssumption DEF Hook!IntakeAssumption
<1> USE <1>a DEF Hook!TypeOK, Hook!row, Hook!Witness, Hook!Ways, Hook!Modes
<1> DEFINE Event(n) == [lid : 1..n, body : Bodies, key : Secrets \union {None}, during : SUBSET Hook!Ways]
<1>e. stored \subseteq Event(lids)
  OBVIOUS
<1>m. ASSUME NEW n \in Nat, NEW m \in Nat, n <= m PROVE Event(n) \subseteq Event(m)
  BY <1>m
<1>1. ASSUME NEW w \in Hook!Ways, NEW on \in BOOLEAN, Hook!Create(w, on) PROVE Hook!TypeOK'
  <2>1. lids' = lids + 1 /\ lids' \in 0..MaxListeners /\ lid' \in 0..lids'
    BY <1>1 DEF Hook!Create
  <2>2. stored' \subseteq Event(lids')
    <3>1. stored' = stored /\ lids \in Nat /\ lids' \in Nat /\ lids <= lids'
      BY <1>1, <2>1 DEF Hook!Create
    <3> QED BY <1>e, <1>m, <3>1
  <2>3. seen' \in [Requests -> [lid : 0..lids', mode : Hook!Modes, secret : Secrets \union {None}]]
    BY <1>1, <2>1 DEF Hook!Create
  <2>4. during' \in [Requests -> SUBSET Hook!Ways]
    BY <1>1 DEF Hook!Create
  <2> QED BY <1>1, <2>1, <2>2, <2>3, <2>4 DEF Hook!Create
<1>2. ASSUME NEW mode \in Hook!Modes \union {None}, NEW secret \in Secrets \union {None},
             NEW on \in BOOLEAN, Hook!Patch(mode, secret, on)
      PROVE  Hook!TypeOK'
  BY <1>2 DEF Hook!Patch, Hook!Patched
<1>3. CASE Hook!Delete
  <2>1. stored' \subseteq Event(lids) /\ lids' = lids
    BY <1>3, <1>e DEF Hook!Delete
  <2>2. way' \in Hook!Ways
    BY <1>3 DEF Hook!Delete
  <2>3. lid' \in 0..lids
    BY <1>3 DEF Hook!Delete
  <2> QED BY <1>3, <2>1, <2>2, <2>3 DEF Hook!Delete
<1>4. ASSUME NEW r \in Requests, Hook!LookUp(r) PROVE Hook!TypeOK'
  BY <1>4 DEF Hook!LookUp
<1>5. ASSUME NEW r \in Requests, Hook!Refuse(r) PROVE Hook!TypeOK'
  BY <1>5 DEF Hook!Refuse, Hook!Done
<1>6. ASSUME NEW r \in Requests, NEW b \in Bodies, NEW key \in Secrets \union {None},
             Hook!Accept(r, b, key)
      PROVE  Hook!TypeOK'
  <2>1. lid \in 1..lids
    <3>1. lid \in 0..lids /\ lid # 0
      BY <1>6 DEF Hook!Accept, Witnessed
    <3> QED BY <3>1
  <2>2. [lid |-> lid, body |-> b, key |-> key, during |-> during[r]] \in Event(lids)
    BY <2>1
  <2>3. stored' \subseteq Event(lids) /\ lids' = lids
    BY <1>6, <1>e, <2>2 DEF Hook!Accept, Hook!Done
  <2>4. /\ request' \in [Requests -> {"idle", "reading"}]
        /\ seen' \in [Requests -> [lid : 0..lids, mode : Hook!Modes, secret : Secrets \union {None}]]
        /\ during' \in [Requests -> SUBSET Hook!Ways]
    BY <1>6 DEF Hook!Accept, Hook!Done
  <2> QED BY <1>6, <2>3, <2>4 DEF Hook!Accept, Hook!Done
<1>7. ASSUME NEW e \in stored, Hook!Purge(e) PROVE Hook!TypeOK'
  BY <1>7 DEF Hook!Purge
<1>8. CASE UNCHANGED hookVars
  BY <1>8 DEF hookVars
<1> QED BY <1>1, <1>2, <1>3, <1>4, <1>5, <1>6, <1>7, <1>8 DEF Hook!Next

(* A request verifies as a row says that was in force after it began. *)
LEMMA HookKept ==
  ASSUME HookInv, [Hook!Next]_hookVars
  PROVE  HookInv'
<1>t. Hook!TypeOK /\ Hook!TypeOK'
  BY HookTypes DEF HookInv
<1> USE DEF Authentic, Hook!Authentic, DeafByPatch, Hook!DeafByPatch
<1>i. Witnessed /\ Authentic /\ DeafByPatch
  BY DEF HookInv
<1> DEFINE Rest == Witnessed /\ Authentic /\ DeafByPatch
<1>8. ASSUME UNCHANGED hookVars PROVE Rest'
  BY <1>8, <1>i DEF hookVars, Witnessed
<1>w. ASSUME NEW w, Hook!Witness(w), UNCHANGED <<request, seen>> PROVE Witnessed'
  BY <1>w, <1>i DEF Hook!Witness, Witnessed
<1>d. ASSUME NEW r \in Requests, Hook!Done(r) PROVE Witnessed'
  BY <1>d, <1>i, <1>t DEF Hook!Done, Witnessed, Hook!TypeOK
<1>1. ASSUME NEW w \in Hook!Ways, NEW on \in BOOLEAN, Hook!Create(w, on) PROVE Rest'
  BY <1>1, <1>i, <1>w DEF Hook!Create, Hook!ValidListener
<1>2. ASSUME NEW mode \in Hook!Modes \union {None}, NEW secret \in Secrets \union {None},
             NEW on \in BOOLEAN, Hook!Patch(mode, secret, on)
      PROVE  Rest'
  <2>1. Witnessed' /\ Authentic'
    BY <1>2, <1>i, <1>w DEF Hook!Patch
  <2>2. DeafByPatch'
    BY <1>2, <1>i DEF Hook!Patch, Hook!Patched
  <2> QED BY <2>1, <2>2
<1>3. ASSUME Hook!Delete PROVE Rest'
  <2>1. Witnessed'
    BY <1>3, <1>i DEF Hook!Delete, Witnessed
  <2>2. Authentic'
    BY <1>3, <1>i DEF Hook!Delete
  <2>3. DeafByPatch'
    BY <1>3 DEF Hook!Delete
  <2> QED BY <2>1, <2>2, <2>3
<1>4. ASSUME NEW r \in Requests, Hook!LookUp(r) PROVE Rest'
  <2>1. Witnessed'
    BY <1>4, <1>i, <1>t DEF Hook!LookUp, Witnessed, Hook!TypeOK
  <2>2. Authentic' /\ DeafByPatch'
    BY <1>4, <1>i DEF Hook!LookUp, Hook!row
  <2> QED BY <2>1, <2>2
<1>5. ASSUME NEW r \in Requests, Hook!Refuse(r) PROVE Rest'
  BY <1>5, <1>i, <1>d DEF Hook!Refuse, Hook!Done, Hook!row
<1>6. ASSUME NEW r \in Requests, NEW b \in Bodies, NEW key \in Secrets \union {None},
             Hook!Accept(r, b, key)
      PROVE  Rest'
  <2>1. Witnessed' /\ DeafByPatch'
    BY <1>6, <1>i, <1>d DEF Hook!Accept, Hook!Done, Hook!row
  <2>2. Authentic'
    <3>1. CASE UNCHANGED stored
      BY <1>i, <3>1
    <3>2. CASE stored' = stored \union {[lid |-> lid, body |-> b, key |-> key, during |-> during[r]]}
      <4>1. PICK w \in during[r] : w.mode = seen[r].mode /\ w.secret = seen[r].secret
        BY <1>6, <1>i DEF Hook!Accept, Witnessed
      <4>2. w.mode = "hmac_sha256" => w.secret # None /\ key = w.secret
        BY <1>6, <4>1 DEF Hook!Accept, Hook!Verifies
      <4> QED BY <1>i, <3>2, <4>1, <4>2
    <3> QED BY <1>6, <3>1, <3>2 DEF Hook!Accept
  <2> QED BY <2>1, <2>2
<1>7. ASSUME NEW e \in stored, Hook!Purge(e) PROVE Rest'
  BY <1>7, <1>i DEF Hook!Purge, Hook!row, Witnessed
<1> QED BY <1>t, <1>1, <1>2, <1>3, <1>4, <1>5, <1>6, <1>7, <1>8 DEF Hook!Next, HookInv

(* Whatever becomes of the listener while a webhook comes in, what is      *)
(* stored was signed as the listener asked at some moment meanwhile.       *)
THEOREM EventsAreAuthentic == GatewaySpec => []Authentic
<1>1. HookInv /\ [GatewayNext]_allVars => HookInv'
  BY Parts, HookKept
<1>2. HookInv => Authentic
  BY DEF HookInv
<1> QED BY HookInit, <1>1, <1>2, PTL DEF GatewaySpec

(* Only a patch of the mode makes a listener refuse everything for want of *)
(* a secret.                                                               *)
THEOREM DeafnessIsPatched == GatewaySpec => []DeafByPatch
<1>1. HookInv /\ [GatewayNext]_allVars => HookInv'
  BY Parts, HookKept
<1>2. HookInv => DeafByPatch
  BY DEF HookInv
<1> QED BY HookInit, <1>1, <1>2, PTL DEF GatewaySpec

-----------------------------------------------------------------------------
(***************************************************************************)
(* The events table and a walk through it.                                 *)
(***************************************************************************)

\* What a reader has seen is from its cursor upwards, and ids that are still
\* to come were not in the table when it began.
Walk ==
  /\ opening \intersect arriving = {}
  /\ reader = "idle" => cursor = 0 /\ listed = {} /\ opening = {}
  /\ reader = "walking" => cursor > 0 /\ \A i \in listed : i >= cursor

LogInv == Log!TypeOK /\ Walk /\ ListedOnce /\ NoneSkipped

(* There are no events and no pages at first. *)
LEMMA LogInit == GatewayInit => LogInv
<1> SUFFICES ASSUME Log!Init PROVE LogInv
  BY DEF GatewayInit
<1>1. MaxEvents \in Nat /\ MaxFaults \in Nat
  BY GatewayAssumption DEF Log!EventLogAssumption
<1>2. Log!TypeOK
  BY <1>1 DEF Log!Init, Log!TypeOK
<1>3. Walk /\ ListedOnce /\ NoneSkipped
  BY DEF Log!Init, Walk, ListedOnce, Log!ListedOnce, NoneSkipped, Log!NoneSkipped
<1> QED BY <1>2, <1>3 DEF LogInv

(* The cardinality EventLog uses is that of the library's theorems. *)
LEMMA SameCardinality == \A S : Log!Cardinality(S) = Cardinality(S)
BY DEF Log!Cardinality, Cardinality

(* A page holds the newest of the rows that are left. *)
LEMMA TopOfRows ==
  ASSUME Log!TypeOK, NEW n \in Nat
  PROVE  /\ Log!Top(n) \subseteq Log!Rows /\ Log!Rows \subseteq events
         /\ IsFiniteSet(Log!Rows)
         /\ \A i \in Log!Rows \ Log!Top(n), c \in Log!Top(n) : i < c
         /\ ~Log!MorePages(n) => Log!Rows \subseteq Log!Top(n)
<1>1. Log!Top(n) \subseteq Log!Rows /\ Log!Rows \subseteq events
  BY DEF Log!Top, Log!Rows
<1>2. last \in Nat /\ events \subseteq 1..last
  BY GatewayAssumption DEF Log!TypeOK, Log!EventLogAssumption
<1>3. IsFiniteSet(Log!Rows)
  <2>1. IsFiniteSet(1..last)
    BY <1>2, FS_Interval, 1 \in Int, last \in Int
  <2>2. Log!Rows \in SUBSET (1..last)
    BY <1>1, <1>2
  <2> QED BY <2>1, <2>2, FS_Subset
<1>n. \A i \in Log!Rows : i \in Nat
  BY <1>1, <1>2
<1> DEFINE Above(i) == {k \in Log!Rows : k > i}
<1>5. \A i \in Log!Rows : i \in Log!Top(n) <=> Cardinality(Above(i)) < n
  BY SameCardinality DEF Log!Top
<1>x. Log!Cardinality(Log!Rows) = Cardinality(Log!Rows)
  BY SameCardinality
<1>s. \A i : Above(i) \in SUBSET Log!Rows
  OBVIOUS
<1>a. \A i, c \in Log!Rows : c <= i => Above(i) \in SUBSET Above(c)
  BY <1>n
<1>b. \A i \in Log!Rows : i \notin Above(i)
  BY <1>n
<1> HIDE DEF Above
<1>4. \A i \in Log!Rows : IsFiniteSet(Above(i)) /\ Cardinality(Above(i)) \in Nat
  BY <1>3, <1>s, FS_Subset, FS_CardinalityType
<1>6. ASSUME NEW i \in Log!Rows \ Log!Top(n), NEW c \in Log!Top(n) PROVE i < c
  <2> SUFFICES ASSUME ~(i < c) PROVE FALSE
    OBVIOUS
  <2>1. i \in Log!Rows /\ c \in Log!Rows
    BY <1>1
  <2>2. c <= i
    BY <1>n, <2>1
  <2>3. Above(i) \in SUBSET Above(c)
    BY <1>a, <2>1, <2>2
  <2>4. Cardinality(Above(i)) <= Cardinality(Above(c))
    BY <1>4, <2>1, <2>3, FS_Subset
  <2>5. ~(Cardinality(Above(i)) < n) /\ Cardinality(Above(c)) < n
    BY <1>5, <2>1
  <2>6. Cardinality(Above(i)) \in Nat /\ Cardinality(Above(c)) \in Nat
    BY <1>4, <2>1
  <2> QED BY <2>4, <2>5, <2>6
<1>7. ASSUME ~Log!MorePages(n), NEW i \in Log!Rows PROVE i \in Log!Top(n)
  <2>1. Cardinality(Log!Rows) \in Nat
    BY <1>3, FS_CardinalityType
  <2>2. Cardinality(Log!Rows) <= n
    BY <1>7, <1>x, <2>1 DEF Log!MorePages
  <2>3. Above(i) # Log!Rows
    BY <1>b
  <2>4. /\ Cardinality(Above(i)) <= Cardinality(Log!Rows)
        /\ Cardinality(Log!Rows) # Cardinality(Above(i))
    BY <1>3, <1>s, <2>3, FS_Subset
  <2>5. Cardinality(Above(i)) \in Nat
    BY <1>4
  <2>6. Cardinality(Above(i)) < n
    BY <2>1, <2>2, <2>4, <2>5
  <2> QED BY <1>5, <2>6
<1> QED BY <1>1, <1>3, <1>6, <1>7

(* Page sizes are positive numbers. *)
LEMMA PageSizes ==
  ASSUME NEW limit \in Limits
  PROVE  Log!PageSize(limit) \in Nat
BY GatewayAssumption DEF Log!PageSize, Log!EventLogAssumption

(* A page that is turned lists what comes next, once. *)
LEMMA TurnedKeeps ==
  ASSUME LogInv, NEW n \in Nat, Log!Turned(n),
         NEW start \in SUBSET (1..last), opening' = start,
         start \intersect arriving = {},
         \A i \in start \intersect events : i \in listed \/ i \in Log!Rows,
         \A i \in listed, k \in Log!Rows : k < i
  PROVE  LogInv'
<1>t. Log!TypeOK /\ last \in Nat
  BY GatewayAssumption DEF LogInv, Log!TypeOK, Log!EventLogAssumption
<1>0. /\ UNCHANGED <<last, arriving, events, expired, job, chosen, failures>>
      /\ listed' = listed \union Log!Top(n)
      /\ repeated' = repeated \union (listed \intersect Log!Top(n))
  BY DEF Log!Turned, Log!table, Log!retention
<1>1. /\ Log!Top(n) \subseteq Log!Rows /\ Log!Rows \subseteq events /\ events \subseteq 1..last
      /\ \A i \in Log!Rows \ Log!Top(n), c \in Log!Top(n) : i < c
      /\ ~Log!MorePages(n) => Log!Rows \subseteq Log!Top(n)
  BY <1>t, TopOfRows DEF Log!TypeOK
<1>2. repeated' = {}
  <2>1. listed \intersect Log!Top(n) = {}
    <3> SUFFICES ASSUME NEW i \in listed, i \in Log!Top(n) PROVE FALSE
      OBVIOUS
    <3>1. i < i
      BY <1>1
    <3>2. i \in Nat
      BY <1>t DEF Log!TypeOK
    <3> QED BY <3>1, <3>2
  <2>2. repeated = {}
    BY DEF LogInv, ListedOnce, Log!ListedOnce
  <2> QED BY <1>0, <2>1, <2>2
<1>3. \/ /\ reader' = "walking" /\ cursor' \in Log!Top(n)
         /\ \A i \in Log!Top(n) : cursor' <= i
      \/ /\ reader' = "done" /\ cursor' = 0 /\ Log!Rows \subseteq Log!Top(n)
  BY <1>1 DEF Log!Turned, Log!CursorOf
<1>4. Log!TypeOK'
  <2>0. Log!Top(n) \subseteq 1..last
    BY <1>1
  <2>1. cursor' \in 0..last /\ reader' \in {"idle", "walking", "done"}
    BY <1>3, <1>t, <2>0
  <2>2. listed' \subseteq 1..last
    BY <1>0, <1>1, <1>t DEF Log!TypeOK
  <2> QED BY <1>0, <1>2, <1>t, <2>1, <2>2 DEF Log!TypeOK
<1>5. Walk'
  <2>1. reader' = "walking" => cursor' > 0 /\ \A i \in listed' : i >= cursor'
    <3> SUFFICES ASSUME reader' = "walking" PROVE cursor' > 0 /\ \A i \in listed' : i >= cursor'
      OBVIOUS
    <3>1. cursor' \in Log!Rows /\ cursor' \in 1..last /\ \A i \in Log!Top(n) : cursor' <= i
      BY <1>1, <1>3
    <3>2. \A i \in listed : cursor' < i /\ i \in 1..last
      BY <3>1, <1>t DEF Log!TypeOK
    <3> QED BY <1>0, <1>1, <1>t, <3>1, <3>2
  <2>2. reader' # "idle"
    BY <1>3
  <2> QED BY <1>0, <2>1, <2>2 DEF Walk
<1>6. NoneSkipped'
  <2> SUFFICES ASSUME NEW i \in start \intersect events
               PROVE  i \in listed' \/ (reader' = "walking" /\ i < cursor')
    BY <1>0 DEF NoneSkipped, Log!NoneSkipped
  <2>1. CASE i \in listed \/ i \in Log!Top(n)
    BY <1>0, <2>1
  <2>2. CASE i \in Log!Rows \ Log!Top(n)
    BY <1>1, <1>3, <2>2
  <2> QED BY <2>1, <2>2
<1> QED BY <1>2, <1>4, <1>5, <1>6 DEF LogInv, ListedOnce, Log!ListedOnce

(* Steps that leave reader and arrivals alone and add no event keep what   *)
(* is said of the walk.                                                    *)
LEMMA WalkKept ==
  ASSUME LogInv, UNCHANGED <<arriving, reader, cursor, listed, repeated, opening>>,
         events' \subseteq events
  PROVE  Walk' /\ ListedOnce' /\ NoneSkipped'
<1>1. Walk' /\ ListedOnce'
  BY DEF LogInv, Walk, ListedOnce, Log!ListedOnce
<1>2. NoneSkipped'
  BY DEF LogInv, NoneSkipped, Log!NoneSkipped
<1> QED BY <1>1, <1>2

(* Every step of the table, of retention and of the reader keeps it. *)
LEMMA LogKept ==
  ASSUME LogInv, [Log!Next]_logVars
  PROVE  LogInv'
<1>a. MaxEvents \in Nat /\ MaxFaults \in Nat
  BY GatewayAssumption DEF Log!EventLogAssumption
<1>t. Log!TypeOK /\ last \in Nat
  BY <1>a DEF LogInv, Log!TypeOK
<1> USE DEF Log!table, Log!walk, Log!retention, Log!Removed
<1>1. CASE Log!Allocate
  <2>1. /\ last' = last + 1 /\ last' \in 0..MaxEvents
        /\ arriving' = arriving \union {last + 1}
        /\ UNCHANGED <<events, expired, reader, cursor, listed, repeated, opening, job, chosen, failures>>
    BY <1>1, <1>a, <1>t DEF Log!Allocate
  <2>2. 1..last \subseteq 1..last' /\ 0..last \subseteq 0..last' /\ last + 1 \in 1..last' /\ last + 1 \notin 1..last
    BY <1>t, <2>1
  <2>3. Log!TypeOK'
    <3>1. arriving' \subseteq 1..last' /\ arriving' \intersect events' = {}
      BY <1>t, <2>1, <2>2 DEF Log!TypeOK
    <3>2. chosen' \in [Jobs -> SUBSET (1..last')]
      BY <1>t, <2>1, <2>2 DEF Log!TypeOK
    <3>3. cursor' \in 0..last' /\ events' \subseteq 1..last' /\ listed' \subseteq 1..last' /\ opening' \subseteq 1..last'
      BY <1>t, <2>1, <2>2 DEF Log!TypeOK
    <3> QED BY <1>t, <2>1, <3>1, <3>2, <3>3 DEF Log!TypeOK
  <2>4. Walk'
    <3>1. opening \intersect arriving' = {}
      BY <1>t, <2>1, <2>2 DEF LogInv, Log!TypeOK, Walk
    <3> QED BY <2>1, <3>1 DEF LogInv, Walk
  <2>5. ListedOnce' /\ NoneSkipped'
    BY <2>1 DEF LogInv, ListedOnce, Log!ListedOnce, NoneSkipped, Log!NoneSkipped
  <2> QED BY <2>3, <2>4, <2>5 DEF LogInv
<1>2. ASSUME NEW i \in Log!Ids, Log!Arrive(i) PROVE LogInv'
  <2>1. /\ i \in arriving /\ arriving' = arriving \ {i}
        /\ events' \in {events, events \union {i}}
        /\ UNCHANGED <<last, expired, reader, cursor, listed, repeated, opening, job, chosen, failures>>
    BY <1>2 DEF Log!Arrive
  <2>2. Log!TypeOK'
    BY <1>t, <2>1 DEF Log!TypeOK
  <2>3. i \notin opening
    BY <2>1 DEF LogInv, Walk
  <2>4. Walk' /\ ListedOnce'
    BY <2>1 DEF LogInv, Walk, ListedOnce, Log!ListedOnce
  <2>5. NoneSkipped'
    BY <2>1, <2>3 DEF LogInv, NoneSkipped, Log!NoneSkipped
  <2> QED BY <2>2, <2>4, <2>5 DEF LogInv
<1>3. ASSUME NEW i \in Log!Ids, Log!Expire(i) PROVE LogInv'
  <2>1. Log!TypeOK'
    BY <1>3, <1>t DEF Log!Expire, Log!TypeOK
  <2> QED BY <1>3, <2>1, WalkKept DEF Log!Expire, LogInv
<1>4. ASSUME NEW D \in SUBSET events, Log!Cascade(D) PROVE LogInv'
  <2>1. Log!TypeOK'
    BY <1>4, <1>t DEF Log!Cascade, Log!TypeOK
  <2> QED BY <1>4, <2>1, WalkKept DEF Log!Cascade, LogInv
<1>5. ASSUME NEW j \in Jobs, Log!Wake(j) PROVE LogInv'
  <2>1. Log!TypeOK'
    BY <1>5, <1>t DEF Log!Wake, Log!TypeOK
  <2> QED BY <1>5, <2>1, WalkKept DEF Log!Wake, LogInv
<1>6. ASSUME NEW j \in Jobs, Log!Choose(j) PROVE LogInv'
  <2>1. Log!Oldest \in SUBSET (1..last)
    BY <1>t DEF Log!Oldest, Log!TypeOK
  <2>2. Log!TypeOK'
    BY <1>6, <1>t, <2>1 DEF Log!Choose, Log!TypeOK
  <2> QED BY <1>6, <2>2, WalkKept DEF Log!Choose, LogInv
<1>7. ASSUME NEW j \in Jobs, Log!Delete(j) PROVE LogInv'
  <2>1. Log!AfterBatch(Log!Cardinality(chosen[j] \intersect events)) \in {"asleep", "purging"}
    BY DEF Log!AfterBatch
  <2>2. Log!TypeOK'
    BY <1>7, <1>t, <2>1 DEF Log!Delete, Log!TypeOK
  <2> QED BY <1>7, <2>2, WalkKept DEF Log!Delete, LogInv
<1>8. ASSUME NEW j \in Jobs, Log!PurgeError(j) PROVE LogInv'
  <2>1. Log!TypeOK'
    BY <1>8, <1>t, <1>a DEF Log!PurgeError, Log!TypeOK
  <2> QED BY <1>8, <2>1, WalkKept DEF Log!PurgeError, LogInv
<1>9. ASSUME NEW limit \in Limits, Log!FirstPage(limit) PROVE LogInv'
  <2>1. listed = {} /\ cursor = 0
    BY <1>9 DEF Log!FirstPage, LogInv, Walk
  <2>2. Log!Rows = events
    BY <2>1 DEF Log!Rows, Log!Below
  <2>3. events \in SUBSET (1..last) /\ events \intersect arriving = {}
    BY <1>t DEF Log!TypeOK
  <2>4. opening' = events /\ Log!Turned(Log!PageSize(limit))
    BY <1>9 DEF Log!FirstPage
  <2> QED BY <2>1, <2>2, <2>3, <2>4, PageSizes, TurnedKeeps
<1>10. ASSUME NEW limit \in Limits, Log!NextPage(limit) PROVE LogInv'
  <2>1. reader = "walking" /\ opening' = opening /\ Log!Turned(Log!PageSize(limit))
    BY <1>10 DEF Log!NextPage
  <2>2. cursor > 0 /\ \A i \in listed : i >= cursor
    BY <2>1 DEF LogInv, Walk
  <2>3. cursor \in Nat /\ opening \in SUBSET (1..last) /\ opening \intersect arriving = {}
    BY <1>t DEF LogInv, Walk, Log!TypeOK
  <2>4. Log!Rows = {i \in events : i < cursor}
    BY <2>2, <2>3 DEF Log!Rows, Log!Below
  <2>5. \A i \in opening \intersect events : i \in listed \/ i \in Log!Rows
    BY <2>1, <2>4 DEF LogInv, NoneSkipped, Log!NoneSkipped
  <2>6. \A i \in listed, k \in Log!Rows : k < i
    <3>1. \A i \in listed : i \in Nat
      BY <1>t DEF Log!TypeOK
    <3>2. \A k \in Log!Rows : k \in Nat /\ k < cursor
      BY <1>t, <2>4 DEF Log!TypeOK
    <3> QED BY <2>2, <2>3, <3>1, <3>2
  <2> QED BY <2>1, <2>3, <2>5, <2>6, PageSizes, TurnedKeeps
<1>11. CASE Log!Leave
  <2>1. Log!TypeOK'
    BY <1>11, <1>t DEF Log!Leave, Log!TypeOK
  <2>2. Walk' /\ ListedOnce' /\ NoneSkipped'
    BY <1>11 DEF Log!Leave, Walk, ListedOnce, Log!ListedOnce, NoneSkipped, Log!NoneSkipped
  <2> QED BY <2>1, <2>2 DEF LogInv
<1>12. CASE UNCHANGED logVars
  <2>1. Log!TypeOK'
    BY <1>12, <1>t DEF logVars, Log!TypeOK
  <2> QED BY <1>12, <2>1, WalkKept DEF logVars, LogInv
<1> QED
  BY <1>1, <1>2, <1>3, <1>4, <1>5, <1>6, <1>7, <1>8, <1>9, <1>10, <1>11, <1>12
     DEF Log!Next, Log!Retain, Log!Read

(* Pages of any sizes list no event twice, with any number of events that  *)
(* commit late, expire and are deleted between them.                       *)
THEOREM WalksListOnce == GatewaySpec => []ListedOnce
<1>1. LogInv /\ [GatewayNext]_allVars => LogInv'
  BY Parts, LogKept
<1>2. LogInv => ListedOnce
  BY DEF LogInv
<1> QED BY LogInit, <1>1, <1>2, PTL DEF GatewaySpec

(* Nor do they skip any that was there all the time. *)
THEOREM WalksSkipNone == GatewaySpec => []NoneSkipped
<1>1. LogInv /\ [GatewayNext]_allVars => LogInv'
  BY Parts, LogKept
<1>2. LogInv => NoneSkipped
  BY DEF LogInv
<1> QED BY LogInit, <1>1, <1>2, PTL DEF GatewaySpec

-----------------------------------------------------------------------------
(***************************************************************************)
(* The retry policy.                                                       *)
(***************************************************************************)

RetryInv ==
  /\ Retry!TypeOK /\ DelayBounded /\ PaceHonoured
  /\ status = "in_flight" => wait = 0
  /\ status = "pending" => attempt < MaxAttempts

(* What is assumed of the constants of the policy. *)
LEMMA RetryConstants ==
  /\ MaxAttempts \in Nat \ {0} /\ BackoffCap \in Nat /\ BackoffBase \in Nat
  /\ Second \in Nat \ {0} /\ Word \in Nat \ {0} /\ BackoffCap < Word
  /\ Asked \subseteq Int /\ Dates \subseteq Int /\ Codes \subseteq 100..599
BY GatewayAssumption DEF Retry!RetryAssumption

(* A delivery begins with no delay. *)
LEMMA RetryInit == GatewayInit => RetryInv
<1> SUFFICES ASSUME Retry!Init PROVE RetryInv
  BY DEF GatewayInit
<1>1. Retry!TypeOK
  BY RetryConstants DEF Retry!Init, Retry!TypeOK
<1>2. DelayBounded /\ PaceHonoured
  BY RetryConstants
     DEF Retry!Init, DelayBounded, Retry!DelayBounded, PaceHonoured, Retry!PaceHonoured, Retry!LeastOf
<1>3. attempt < MaxAttempts
  BY RetryConstants DEF Retry!Init
<1> QED BY <1>1, <1>2, <1>3 DEF RetryInv, Retry!Init

(* What fits the word is not changed by it. *)
LEMMA NoWrap ==
  ASSUME NEW n \in Int
  PROVE  /\ Retry!Wrapped(n) \in Int
         /\ n > 0 /\ n < Word => Retry!Wrapped(n) = n
<1> DEFINE d == 2 * Word
<1>1. d \in Nat /\ d > 0 /\ Word \in Nat
  BY RetryConstants
<1>2. (n + Word) % d \in 0..(d - 1)
  BY <1>1
<1>3. n > 0 /\ n < Word => (n + Word) % d = n + Word
  BY <1>1
<1> QED BY <1>1, <1>2, <1>3 DEF Retry!Wrapped

(* Whatever a header says, the hint is a number; and where it says more    *)
(* than nothing, and no more than fits the word, it is that, up to the cap. *)
LEMMA Hints ==
  ASSUME NEW code \in Codes, NEW h \in Retry!Headers
  PROVE  /\ Retry!Hint(code, h) \in Int
         /\ Retry!Request(code, h) \in Nat
         /\ Retry!Request(code, h) > 0 /\ Retry!Request(code, h) < Word =>
              Retry!Hint(code, h) = Retry!LeastOf(Retry!Request(code, h), BackoffCap)
<1>c. code \in Int /\ BackoffCap \in Nat /\ Second \in Nat \ {0}
  BY RetryConstants
<1>h. h.value \in Int
  <2>1. CASE h = Retry!NoHeader
    BY <2>1 DEF Retry!NoHeader
  <2>2. CASE h \in [kind : {"seconds"}, value : Asked] \/ h \in [kind : {"date"}, value : Dates]
    BY <2>2, RetryConstants
  <2> QED BY <2>1, <2>2 DEF Retry!Headers
<1>1. CASE h.value <= 0 \/ (code # 429 /\ code < 500)
  <2>1. Retry!Request(code, h) = 0 /\ Retry!Hint(code, h) = 0
    BY <1>1, <1>c, <1>h DEF Retry!Request, Retry!Hint, Retry!RetryAfter
  <2> QED BY <2>1
<1>2. CASE h.value > 0 /\ (code = 429 \/ code >= 500) /\ h.kind = "seconds"
  <2> DEFINE n == h.value * Second
  <2>1. n \in Int /\ n > 0
    BY <1>2, <1>c, <1>h
  <2>2. Retry!Request(code, h) = n /\ Retry!Hint(code, h) = Retry!LeastOf(Retry!Wrapped(n), BackoffCap)
    BY <1>2, <1>c, <1>h DEF Retry!Request, Retry!Hint, Retry!RetryAfter
  <2> HIDE DEF n
  <2>3. Retry!Wrapped(n) \in Int /\ (n < Word => Retry!Wrapped(n) = n)
    BY <2>1, NoWrap
  <2> QED BY <1>c, <2>1, <2>2, <2>3 DEF Retry!LeastOf
<1>3. CASE h.value > 0 /\ (code = 429 \/ code >= 500) /\ h.kind # "seconds"
  <2>1. Retry!Request(code, h) = h.value /\ Retry!Hint(code, h) = Retry!LeastOf(h.value, BackoffCap)
    BY <1>3, <1>c, <1>h DEF Retry!Request, Retry!Hint, Retry!RetryAfter
  <2> QED BY <1>3, <1>c, <1>h, <2>1 DEF Retry!LeastOf
<1> QED BY <1>1, <1>2, <1>3, <1>c, <1>h

(* A delay is not longer than the cap, and not shorter than what was asked *)
(* for.                                                                    *)
LEMMA DelayRange ==
  ASSUME NEW a, NEW hint \in Int, NEW d \in Retry!Delays(a, hint)
  PROVE  /\ d \in 0..BackoffCap
         /\ hint > 0 => d = Retry!LeastOf(hint, BackoffCap)
<1>1. CASE hint <= 0
  BY <1>1, RetryConstants DEF Retry!Delays, Retry!Backoff
<1>2. CASE hint > 0
  BY <1>2, RetryConstants DEF Retry!Delays, Retry!LeastOf
<1> QED BY <1>1, <1>2

(* A delay that has just been chosen, nothing of which is over. *)
LEMMA FreshDelay ==
  ASSUME NEW w \in 0..BackoffCap, NEW hint \in Int, NEW asked \in Nat,
         hint > 0 => w = Retry!LeastOf(hint, BackoffCap),
         asked > 0 /\ asked < Word => hint = Retry!LeastOf(asked, BackoffCap)
  PROVE  /\ w + 0 <= BackoffCap /\ w \in Nat
         /\ asked < Word => w + 0 >= Retry!LeastOf(asked, BackoffCap)
BY RetryConstants DEF Retry!LeastOf

(* The decision about the next attempt keeps the invariant. *)
LEMMA RetryDecided ==
  ASSUME RetryInv, NEW hint \in Int, NEW asked \in Nat, Retry!RetryOrDead(hint, asked),
         asked > 0 /\ asked < Word => hint = Retry!LeastOf(asked, BackoffCap)
  PROVE  RetryInv'
<1>t. Retry!TypeOK /\ BackoffCap \in Nat
  BY RetryConstants DEF RetryInv
<1> USE DEF DelayBounded, Retry!DelayBounded, PaceHonoured, Retry!PaceHonoured
<1>1. CASE Retry!Decided("dead")
  BY <1>1, <1>t DEF RetryInv, Retry!Decided, Retry!TypeOK
<1>2. CASE /\ status' = "pending" /\ wait' \in Retry!Delays(attempt, hint)
           /\ pace' = asked /\ rest' = 0 /\ UNCHANGED attempt /\ attempt < MaxAttempts
  <2>1. wait' \in 0..BackoffCap /\ (hint > 0 => wait' = Retry!LeastOf(hint, BackoffCap))
    BY <1>2, DelayRange
  <2>2. /\ wait' + 0 <= BackoffCap /\ wait' \in Nat
        /\ asked < Word => wait' + 0 >= Retry!LeastOf(asked, BackoffCap)
    BY <2>1, FreshDelay
  <2>3. DelayBounded' /\ PaceHonoured'
    BY <1>2, <2>1, <2>2
  <2>4. Retry!TypeOK'
    BY <1>2, <1>t, <2>2 DEF Retry!TypeOK
  <2>5. attempt < MaxAttempts
    BY <1>2
  <2> QED BY <1>2, <2>3, <2>4, <2>5 DEF RetryInv
<1> QED BY <1>1, <1>2 DEF Retry!RetryOrDead

(* Every attempt, answer and second keeps it. *)
LEMMA RetryKept ==
  ASSUME RetryInv, [Retry!Next]_retryVars
  PROVE  RetryInv'
<1>t. Retry!TypeOK /\ BackoffCap \in Nat /\ MaxAttempts \in Nat
  BY RetryConstants DEF RetryInv
<1> USE DEF DelayBounded, Retry!DelayBounded, PaceHonoured, Retry!PaceHonoured
<1>1. CASE Retry!Send
  BY <1>1, <1>t DEF RetryInv, Retry!Send, Retry!TypeOK
<1>2. CASE Retry!Unanswered
  BY <1>2, RetryDecided DEF Retry!Unanswered
<1>3. CASE Retry!Tick
  BY <1>3, <1>t DEF RetryInv, Retry!Tick, Retry!TypeOK
<1>4. ASSUME NEW code \in Codes, NEW h \in Retry!Headers, Retry!Answered(code, h) PROVE RetryInv'
  <2>1. CASE Retry!Decided("success") \/ Retry!Decided("failed")
    BY <2>1, <1>t DEF RetryInv, Retry!Decided, Retry!TypeOK
  <2>2. CASE Retry!RetryOrDead(Retry!Hint(code, h), Retry!Request(code, h))
    BY <2>2, Hints, RetryDecided
  <2> QED BY <1>4, <2>1, <2>2 DEF Retry!Answered
<1>5. CASE UNCHANGED retryVars
  BY <1>5 DEF RetryInv, Retry!TypeOK, retryVars
<1> QED BY <1>1, <1>2, <1>3, <1>4, <1>5 DEF Retry!Next

(* No delivery is put off for longer than the cap, whatever is asked for   *)
(* and whatever wraps.                                                     *)
THEOREM DelaysAreBounded == GatewaySpec => []DelayBounded
<1>1. RetryInv /\ [GatewayNext]_allVars => RetryInv'
  BY Parts, RetryKept
<1>2. RetryInv => DelayBounded
  BY DEF RetryInv
<1> QED BY RetryInit, <1>1, <1>2, PTL DEF GatewaySpec

(* A service is left alone for as long as it asks, up to the cap. *)
THEOREM PacesAreHonoured == GatewaySpec => []PaceHonoured
<1>1. RetryInv /\ [GatewayNext]_allVars => RetryInv'
  BY Parts, RetryKept
<1>2. RetryInv => PaceHonoured
  BY DEF RetryInv
<1> QED BY RetryInit, <1>1, <1>2, PTL DEF GatewaySpec

(***************************************************************************)
(* The policy keeps the promise of the delivery queue: every step it takes *)
(* is one of DeliveryLifecycle for a single row.                           *)
(***************************************************************************)
LEMMA PromiseStep ==
  ASSUME RetryInv, [Retry!Next]_retryVars
  PROVE  [Retry!Queue!Next]_<<status, attempt>>
<1>t. attempt \in Nat /\ MaxAttempts \in Nat
  BY RetryConstants DEF RetryInv, Retry!TypeOK
<1>1. ASSUME Retry!Queue!Move(0) PROVE Retry!Queue!Next
  BY <1>1 DEF Retry!Queue!Next
<1> USE DEF Retry!Queue!Move, Retry!Queue!Claimed, Retry!Queue!Returned, Retry!Queue!Closed,
            Retry!Queue!Final
<1>2. CASE Retry!Send
  BY <1>1, <1>2 DEF Retry!Send
<1>3. ASSUME status = "in_flight", NEW s \in {"success", "failed"}, Retry!Decided(s)
      PROVE  Retry!Queue!Next
  BY <1>1, <1>3 DEF Retry!Decided
<1>4. ASSUME status = "in_flight", NEW hint, NEW asked, Retry!RetryOrDead(hint, asked)
      PROVE  Retry!Queue!Next
  BY <1>1, <1>4, <1>t DEF Retry!RetryOrDead, Retry!Decided
<1>5. CASE Retry!Unanswered
  BY <1>4, <1>5 DEF Retry!Unanswered
<1>6. ASSUME NEW code \in Codes, NEW h \in Retry!Headers, Retry!Answered(code, h)
      PROVE  Retry!Queue!Next
  BY <1>3, <1>4, <1>6 DEF Retry!Answered
<1>7. CASE Retry!Tick \/ UNCHANGED retryVars
  BY <1>7 DEF Retry!Tick, retryVars
<1> QED BY <1>2, <1>5, <1>6, <1>7 DEF Retry!Next

(***************************************************************************)
(* Each request is one more attempt, a delivery is given up only after     *)
(* max_attempts of them, and a decided one stays decided.                  *)
(***************************************************************************)
THEOREM PolicyKeepsPromise == GatewaySpec => KeepsPromise
<1>1. RetryInv /\ [GatewayNext]_allVars => RetryInv'
  BY Parts, RetryKept
<1>2. RetryInv /\ [GatewayNext]_allVars => [Retry!Queue!Next]_<<status, attempt>>
  BY Parts, PromiseStep
<1>3. GatewaySpec => [][Retry!Queue!Next]_<<status, attempt>>
  BY RetryInit, <1>1, <1>2, PTL DEF GatewaySpec
<1> QED BY <1>3 DEF KeepsPromise, Retry!KeepsPromise

-----------------------------------------------------------------------------
(***************************************************************************)
(* The types of all parts.                                                 *)
(***************************************************************************)

(* What is assumed of the constants of the rate limiter. *)
LEMMA PaceConstants ==
  /\ Rates \subseteq Nat /\ MaxWait \in Nat /\ TicksPerSecond \in Nat \ {0}
  /\ MaxWait * TicksPerSecond \in Nat
  /\ Window \in Nat \ {0} /\ MaxEdits \in Nat
BY GatewayAssumption DEF Pace!SenderAssumption

(* The bucket is empty and nobody is at work. *)
LEMMA PaceInit == GatewayInit => Pace!TypeOK
<1> SUFFICES ASSUME Pace!Init PROVE Pace!TypeOK
  BY DEF GatewayInit
<1> DEFINE longest == MaxWait * TicksPerSecond
<1>1. longest \in Nat /\ 0 \in 0..MaxEdits
  BY PaceConstants
<1> HIDE DEF longest
<1>2. 0 \in 0..longest
  BY <1>1
<1>3. 0 <= Pace!Burst(0)
  BY PaceConstants DEF Pace!Burst
<1>4. delay \in [Workers -> 0..longest]
  BY <1>2 DEF Pace!Init
<1> QED BY <1>1, <1>3, <1>4, PaceConstants DEF Pace!Init, Pace!TypeOK, longest

(* What a full bucket holds is a number. *)
LEMMA BurstType ==
  ASSUME NEW rate \in Nat PROVE Pace!Burst(rate) \in Nat
BY PaceConstants DEF Pace!Burst

(* A limiter never holds more than its burst, new or old. *)
LEMMA Bucket ==
  ASSUME Pace!TypeOK, NEW rate \in Rates
  PROVE  /\ Pace!Filled(rate) \in Int /\ Pace!Filled(rate) <= Pace!Burst(rate)
         /\ Pace!Filled(rate) - TicksPerSecond \in Int
         /\ Pace!Filled(rate) - TicksPerSecond <= Pace!Burst(rate)
         /\ rate > 0 => Pace!Until(rate) \in Nat
<1>1. /\ rate \in Nat /\ tokens \in Int /\ tokens <= Pace!Burst(built)
      /\ Pace!Burst(rate) \in Nat /\ TicksPerSecond \in Nat
  BY PaceConstants, BurstType DEF Pace!TypeOK
<1>2. Pace!Filled(rate) \in Int /\ Pace!Filled(rate) <= Pace!Burst(rate)
  BY <1>1 DEF Pace!Filled
<1>3. /\ Pace!Filled(rate) - TicksPerSecond \in Int
      /\ Pace!Filled(rate) - TicksPerSecond <= Pace!Burst(rate)
  BY <1>1, <1>2
<1>4. ASSUME rate > 0 PROVE Pace!Until(rate) \in Nat
  <2> DEFINE owed == TicksPerSecond - Pace!Filled(rate)
  <2>1. owed \in Int
    BY <1>1, <1>2
  <2>2. Pace!Until(rate) = IF owed <= 0 THEN 0 ELSE (owed + (rate - 1)) \div rate
    BY DEF Pace!Until
  <2> HIDE DEF owed
  <2>3. ASSUME ~(owed <= 0) PROVE (owed + (rate - 1)) \div rate \in Nat
    BY <1>1, <1>4, <2>1, <2>3
  <2> QED BY <2>2, <2>3
<1> QED BY <1>2, <1>3, <1>4

(* The numbers of a tick. *)
LEMMA Refill ==
  ASSUME NEW t \in Int, NEW b \in Nat, NEW n \in Nat
  PROVE  Pace!LeastOf(t + b, n) \in Int /\ Pace!LeastOf(t + b, n) <= n
BY DEF Pace!LeastOf

(* Every step of a worker, an edit and a tick keep the types. *)
LEMMA PaceKept ==
  ASSUME Pace!TypeOK, [Pace!Next]_paceVars
  PROVE  Pace!TypeOK'
<1> DEFINE longest == MaxWait * TicksPerSecond
<1>c. Rates \subseteq Nat /\ longest \in Nat /\ MaxEdits \in Nat
  BY PaceConstants
<1>d. delay \in [Workers -> 0..longest]
  BY DEF Pace!TypeOK
<1>e. ASSUME delay' \in [Workers -> 0..longest],
             rps' \in Rates, built' \in Rates \union {0},
             tokens' \in Int, tokens' <= Pace!Burst(built'),
             worker' \in [Workers -> {"idle", "ready", "pacing", "sending"}],
             carried' \in [Workers -> Rates \union {0}],
             sends' \in [Pace!Past -> Nat], edits' \in 0..MaxEdits
      PROVE  Pace!TypeOK'
  BY <1>e DEF Pace!TypeOK, Pace!Burst, Pace!Past
<1>r. ASSUME NEW rate \in Rates, rate > 0, Pace!InReach(rate) PROVE Pace!Until(rate) \in 0..longest
  <2>1. Pace!Until(rate) \in Nat /\ Pace!Until(rate) <= longest
    BY <1>r, Bucket DEF Pace!InReach
  <2> HIDE DEF longest
  <2> QED BY <1>c, <2>1
<1> HIDE DEF longest
<1> USE DEF Pace!bucket, Pace!Goes
<1>t. /\ rps \in Rates /\ built \in Rates \union {0}
      /\ tokens \in Int /\ tokens <= Pace!Burst(built)
      /\ worker \in [Workers -> {"idle", "ready", "pacing", "sending"}]
      /\ carried \in [Workers -> Rates \union {0}]
      /\ sends \in [Pace!Past -> Nat] /\ edits \in 0..MaxEdits
  BY DEF Pace!TypeOK
<1>s. ASSUME NEW w \in Workers, Pace!Goes(w)
      PROVE  /\ worker' \in [Workers -> {"idle", "ready", "pacing", "sending"}]
             /\ sends' \in [Pace!Past -> Nat]
  BY <1>s, <1>t
<1>1. ASSUME NEW w \in Workers, Pace!Take(w) PROVE Pace!TypeOK'
  BY <1>1, <1>d, <1>e, <1>t DEF Pace!Take
<1>2. ASSUME NEW w \in Workers, Pace!PassUnlimited(w) \/ Pace!Release(w) PROVE Pace!TypeOK'
  BY <1>2, <1>d, <1>e, <1>s, <1>t DEF Pace!PassUnlimited, Pace!Release
<1>3. ASSUME NEW w \in Workers, Pace!Reserve(w) PROVE Pace!TypeOK'
  <2>1. carried[w] \in Rates /\ carried[w] > 0 /\ Pace!InReach(carried[w])
    BY <1>3, <1>c, <1>t DEF Pace!Reserve
  <2>2. built' = carried[w] /\ tokens' = Pace!Filled(carried[w]) - TicksPerSecond
    BY <1>3 DEF Pace!Reserve
  <2>3. built' \in Rates \union {0} /\ tokens' \in Int /\ tokens' <= Pace!Burst(built')
    BY <2>1, <2>2, Bucket
  <2>4. Pace!Until(carried[w]) \in 0..longest
    BY <2>1, <1>r
  <2>5. /\ worker' \in [Workers -> {"idle", "ready", "pacing", "sending"}]
        /\ sends' \in [Pace!Past -> Nat] /\ delay' \in [Workers -> 0..longest]
    BY <1>3, <1>d, <1>s, <1>t, <2>4 DEF Pace!Reserve
  <2> QED BY <1>3, <1>e, <1>t, <2>3, <2>5 DEF Pace!Reserve
<1>4. ASSUME NEW w \in Workers, Pace!SendAnyway(w) PROVE Pace!TypeOK'
  <2>1. carried[w] \in Rates
    BY <1>4, <1>c, <1>t DEF Pace!SendAnyway
  <2>2. built' \in Rates \union {0} /\ tokens' \in Int /\ tokens' <= Pace!Burst(built')
    BY <1>4, <2>1, Bucket DEF Pace!SendAnyway
  <2> QED BY <1>4, <1>d, <1>e, <1>s, <1>t, <2>2 DEF Pace!SendAnyway
<1>5. ASSUME NEW w \in Workers, Pace!Answer(w) PROVE Pace!TypeOK'
  BY <1>5, <1>d, <1>e, <1>t DEF Pace!Answer
<1>6. ASSUME NEW rate \in Rates, Pace!Edit(rate) PROVE Pace!TypeOK'
  BY <1>6, <1>c, <1>d, <1>e, <1>t DEF Pace!Edit
<1>7. CASE Pace!Tick
  <2>1. built \in Nat /\ Pace!Burst(built) \in Nat
    BY <1>c, <1>t, BurstType
  <2>2. built' = built /\ tokens' = Pace!LeastOf(tokens + built, Pace!Burst(built))
    BY <1>7 DEF Pace!Tick
  <2>3. tokens' \in Int /\ tokens' <= Pace!Burst(built')
    BY <1>t, <2>1, <2>2, Refill
  <2>4. delay' \in [Workers -> 0..longest]
    BY <1>7, <1>c, <1>d DEF Pace!Tick
  <2>5. sends' \in [Pace!Past -> Nat]
    BY <1>7, <1>t, PaceConstants DEF Pace!Tick, Pace!Past
  <2> QED BY <1>7, <1>e, <1>t, <2>2, <2>3, <2>4, <2>5 DEF Pace!Tick
<1>8. CASE UNCHANGED paceVars
  BY <1>8, <1>d, <1>e, <1>t DEF paceVars
<1> QED BY <1>1, <1>2, <1>3, <1>4, <1>5, <1>6, <1>7, <1>8 DEF Pace!Next, Pace!Deliver

(* Every variable of every part has its type. *)
THEOREM PartsTypesHold == GatewaySpec => []TypesOK
<1> DEFINE I == LogInv /\ StartInv /\ HookInv /\ Pace!TypeOK /\ RetryInv
<1>1. GatewayInit => I
  BY LogInit, StartInit, HookInit, PaceInit, RetryInit
<1>2. I /\ [GatewayNext]_allVars => I'
  BY Parts, LogKept, StartKept, HookKept, PaceKept, RetryKept
<1>3. I => TypesOK
  BY DEF TypesOK, LogInv, StartInv, HookInv, RetryInv
<1> QED BY <1>1, <1>2, <1>3, PTL DEF GatewaySpec

=============================================================================
