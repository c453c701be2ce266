------------------------- MODULE DispatchCountProofs -------------------------
(***************************************************************************)
(* What holds of the delivery queue even when a batch takes longer than    *)
(* its lease, so that a row may be claimed again while its first worker is *)
(* still busy with it: the circuit breaker counts no attempt twice, and a  *)
(* dead delivery has used up its attempts.                                 *)
(***************************************************************************)
EXTENDS DispatchProofs

-----------------------------------------------------------------------------
(***************************************************************************)
(* Counting: f reports and the open items H never exceed the items O.      *)
(***************************************************************************)
Within(f, H, O) ==
  IsFiniteSet(H) /\ IsFiniteSet(O) /\ f + Cardinality(H) <= Cardinality(O)

(* Dropping items, or reports, keeps the count. *)
LEMMA WithinLess ==
  ASSUME NEW f \in Nat, NEW g \in Nat, NEW H, NEW O, NEW G, Within(f, H, O),
         G \subseteq H, g <= f
  PROVE  Within(g, G, O)
<1>1. IsFiniteSet(G) /\ Cardinality(G) <= Cardinality(H)
  BY FS_Subset DEF Within
<1>2. Cardinality(G) \in Nat /\ Cardinality(H) \in Nat /\ Cardinality(O) \in Nat
  BY <1>1, FS_CardinalityType DEF Within
<1> QED BY <1>1, <1>2 DEF Within

(* An item may be reported when it is given up. *)
LEMMA WithinReport ==
  ASSUME NEW f \in Nat, NEW H, NEW O, NEW G, NEW x \in H, Within(f, H, O),
         G \subseteq H \ {x}
  PROVE  Within(f + 1, G, O)
<1>1. IsFiniteSet(H \ {x}) /\ Cardinality(H \ {x}) = Cardinality(H) - 1
  BY FS_RemoveElement DEF Within
<1>2. IsFiniteSet(G) /\ Cardinality(G) <= Cardinality(H \ {x})
  BY <1>1, FS_Subset
<1>3. Cardinality(G) \in Nat /\ Cardinality(H) \in Nat /\ Cardinality(O) \in Nat
  BY <1>2, FS_CardinalityType DEF Within
<1> QED BY <1>1, <1>2, <1>3 DEF Within

(* Items that turn into others, or fall together, are no more than before. *)
LEMMA WithinImage ==
  ASSUME NEW f \in Nat, NEW H, NEW O, NEW T, NEW F \in [H -> T], Within(f, H, O),
         NEW G, \A g \in G : \E h \in H : F[h] = g
  PROVE  Within(f, G, O)
<1> DEFINE R == {F[h] : h \in H}
<1>1. F \in Surjection(H, R)
  BY DEF Surjection
<1>2. G \subseteq R
  OBVIOUS
<1> HIDE DEF R
<1>3. IsFiniteSet(R) /\ Cardinality(R) <= Cardinality(H)
  BY <1>1, FS_Surjection DEF Within
<1>4. IsFiniteSet(G) /\ Cardinality(G) <= Cardinality(R)
  BY <1>2, <1>3, FS_Subset
<1>5. /\ Cardinality(G) \in Nat /\ Cardinality(R) \in Nat
      /\ Cardinality(H) \in Nat /\ Cardinality(O) \in Nat
  BY <1>3, <1>4, FS_CardinalityType DEF Within
<1> QED BY <1>3, <1>4, <1>5 DEF Within

(* A worker w opens the items N, and holds them. *)
LEMMA WithinOpen ==
  ASSUME NEW f \in Nat, NEW H, NEW O, NEW w, NEW N, IsFiniteSet(N), N \cap O = {},
         Within(f, H, O), NEW G, \A g \in G : g \in H \/ \E c \in N : g = <<w, c>>
  PROVE  Within(f, G, O \union N)
<1> DEFINE P == {<<w, c>> : c \in N}
           F == [c \in N |-> <<w, c>>]
<1>1. F \in Surjection(N, P)
  BY DEF Surjection
<1>2. G \subseteq H \union P
  OBVIOUS
<1> HIDE DEF P, F
<1>3. IsFiniteSet(P) /\ Cardinality(P) <= Cardinality(N)
  BY <1>1, FS_Surjection
<1>4. /\ IsFiniteSet(O \union N) /\ Cardinality(O \union N) = Cardinality(O) + Cardinality(N) - Cardinality(O \cap N)
      /\ Cardinality(O \cap N) = 0
  BY FS_Union, FS_EmptySet DEF Within
<1>5. /\ IsFiniteSet(H \union P)
      /\ Cardinality(H \union P) = Cardinality(H) + Cardinality(P) - Cardinality(H \cap P)
      /\ IsFiniteSet(H \cap P)
  BY <1>3, FS_Union, FS_Intersection DEF Within
<1>6. IsFiniteSet(G) /\ Cardinality(G) <= Cardinality(H \union P)
  BY <1>2, <1>5, FS_Subset
<1>7. /\ Cardinality(G) \in Nat /\ Cardinality(P) \in Nat /\ Cardinality(N) \in Nat
      /\ Cardinality(H) \in Nat /\ Cardinality(O) \in Nat /\ Cardinality(H \cap P) \in Nat
  BY <1>3, <1>5, <1>6, FS_CardinalityType DEF Within
<1>8. f + Cardinality(G) <= Cardinality(O \union N)
  <2>1. f + Cardinality(H) <= Cardinality(O)
    BY DEF Within
  <2>2. ASSUME NEW g \in Nat, NEW p \in Nat, NEW n \in Nat, NEW h \in Nat, NEW o \in Nat,
               NEW i \in Nat, NEW u, NEW v, u = h + p - i, v = o + n - 0, g <= u, p <= n,
               f + h <= o
        PROVE  f + g <= v
    BY <2>2
  <2> QED BY <1>3, <1>4, <1>5, <1>6, <1>7, <2>1, <2>2
<1> QED BY <1>4, <1>6, <1>8 DEF Within

-----------------------------------------------------------------------------
(***************************************************************************)
(* The invariant: the failures of a service and the claims its workers     *)
(* hold, counted per worker, are covered by the attempts opened for it.    *)
(***************************************************************************)
Holdings(s) ==
  {h \in Workers \X Claims : h[2] \in Held(h[1]) /\ ServiceOf[h[2].d] = s}

\* A resting worker holds nothing, and a claim is not in the batch any more
\* once deliver was called for it.
Tidy ==
  \A w \in Workers : /\ stage[w] = "idle" => batch[w] = {}
                     /\ Working(w) => cur[w] \notin batch[w]

Count == \A s \in Services : Within(svc[s].failures, Holdings(s), Opened(s))

\* A claim is held for an attempt that was opened.
HeldOpen == \A w \in Workers : \A c \in Held(w) : c.attempt <= attempts[c.d]

\* A row is given up (CompleteDelivery writes dead) only when max_attempts of its
\* attempts were opened, whichever worker's outcome comes last.
DeadIsSpent == \A d \in Deliveries : status[d] = "dead" => attempts[d] >= MaxAttempts

CountInv == TypeOK /\ Tidy /\ HeldOpen /\ Count /\ DeadIsSpent

\* The attempts 1, ..., A[d] of the rows d of a service, as claims.
AttemptsOf(A, s) ==
  UNION {{[d |-> d, attempt |-> n] : n \in 1..A[d]} :
           d \in {e \in Deliveries : ServiceOf[e] = s}}

(* Which claims those are. *)
LEMMA AttemptsOfClaims ==
  ASSUME NEW A \in [Deliveries -> Nat], NEW s, NEW c
  PROVE  c \in AttemptsOf(A, s) <=> /\ c \in Claims /\ ServiceOf[c.d] = s
                                   /\ 1 <= c.attempt /\ c.attempt <= A[c.d]
<1>1. ASSUME c \in AttemptsOf(A, s)
      PROVE  /\ c \in Claims /\ ServiceOf[c.d] = s
             /\ 1 <= c.attempt /\ c.attempt <= A[c.d]
  <2>1. PICK d \in Deliveries : /\ ServiceOf[d] = s
                               /\ c \in {[d |-> d, attempt |-> n] : n \in 1..A[d]}
    BY <1>1 DEF AttemptsOf
  <2>2. PICK n \in 1..A[d] : c = [d |-> d, attempt |-> n]
    BY <2>1
  <2>3. n \in Nat /\ 1 <= n /\ n <= A[d]
    BY <2>2
  <2> QED BY <2>1, <2>2, <2>3 DEF Claims
<1>2. ASSUME c \in Claims, ServiceOf[c.d] = s, 1 <= c.attempt, c.attempt <= A[c.d]
      PROVE  c \in AttemptsOf(A, s)
  <2>1. c.d \in Deliveries /\ c.attempt \in 1..A[c.d]
    BY <1>2, ClaimFields
  <2>2. c \in {[d |-> c.d, attempt |-> n] : n \in 1..A[c.d]}
    BY <1>2, <2>1, ClaimEta
  <2> QED BY <1>2, <2>1, <2>2 DEF AttemptsOf
<1> QED BY <1>1, <1>2

(* Workers hold claims on rows of the table. *)
LEMMA HeldClaims ==
  ASSUME TypeOK
  PROVE  /\ \A w \in Workers : Held(w) \subseteq Claims
         /\ \A s \in Services : svc[s].failures \in Nat
         /\ attempts \in [Deliveries -> Nat]
<1>1. \A w \in Workers : Held(w) \subseteq Claims
  BY DEF TypeOK, WorkerTypes, Held
<1>2. \A s \in Services : svc[s].failures \in Nat
  BY DEF TypeOK, Row
<1>3. attempts \in [Deliveries -> Nat]
  BY DEF TypeOK, RowTypes
<1> QED BY <1>1, <1>2, <1>3

(* A step that opens no attempt, reports none and leaves every worker at most
   what it held keeps the count. *)
LEMMA CountFrame ==
  ASSUME TypeOK, TypeOK', HeldOpen, Count, attempts' = attempts,
         \A w \in Workers : Held(w)' \subseteq Held(w),
         \A s \in Services : svc'[s].failures <= svc[s].failures
  PROVE  HeldOpen' /\ Count'
<1>0. HeldOpen'
  BY DEF HeldOpen
<1> SUFFICES ASSUME NEW s \in Services
             PROVE  Within(svc'[s].failures, Holdings(s)', Opened(s)')
  BY <1>0 DEF Count
<1>1. Opened(s)' = Opened(s)
  BY DEF Opened
<1>2. Holdings(s)' \subseteq Holdings(s)
  BY DEF Holdings
<1>3. svc[s].failures \in Nat /\ svc'[s].failures \in Nat
  BY DEF TypeOK, Row
<1>4. Within(svc[s].failures, Holdings(s), Opened(s))
  BY DEF Count
<1> HIDE DEF Holdings, Opened
<1> QED BY <1>1, <1>2, <1>3, <1>4, WithinLess

-----------------------------------------------------------------------------
(* What a worker holds when its current delivery is over. *)
LEMMA EndHeld ==
  ASSUME TypeOK, Tidy, NEW w \in Workers, Working(w), EndDelivery(w)
  PROVE  /\ Tidy'
         /\ Held(w)' \subseteq Held(w) \ {cur[w]}
         /\ \A v \in Workers \ {w} : Held(v)' \subseteq Held(v)
<1>1. stage \in [Workers -> Stages] /\ cur[w] \notin batch[w]
  BY DEF TypeOK, WorkerTypes, Tidy
<1>2. CASE batch[w] = {}
  <2>1. Rest({w})
    BY <1>2 DEF EndDelivery
  <2> QED BY <1>1, <2>1 DEF Rest, Held, Working, Tidy
<1>3. CASE batch[w] # {}
  <2>1. /\ stage' = [stage EXCEPT ![w] = "next"] /\ batch' = batch
        /\ cur' = [cur EXCEPT ![w] = NoClaim] /\ cur \in [Workers -> Claims \union {NoClaim}]
    BY <1>3 DEF EndDelivery, TypeOK, WorkerTypes
  <2> QED BY <1>1, <2>1 DEF Held, Working, Tidy
<1> QED BY <1>2, <1>3

(* Workers at rest hold nothing. *)
LEMMA RestHeld ==
  ASSUME Tidy, NEW W, Rest(W)
  PROVE  Tidy' /\ \A w \in Workers : Held(w)' \subseteq Held(w)
BY DEF Rest, Held, Working, Tidy

(* A batch is claimed: as many attempts are opened as claims are held. *)
LEMMA ClaimCount ==
  ASSUME CountInv, TypeOK', NEW w \in Workers, Claim(w)
  PROVE  Tidy' /\ HeldOpen' /\ Count'
<1>1. PICK D \in Claimable :
        /\ attempts' = [d \in Deliveries |-> IF d \in D THEN NextAttempt(d) ELSE attempts[d]]
        /\ batch'    = [batch EXCEPT ![w] = {[d |-> d, attempt |-> NextAttempt(d)] : d \in D}]
  BY DEF Claim
<1> DEFINE B == {[d |-> d, attempt |-> NextAttempt(d)] : d \in D}
           N(s) == {c \in B : ServiceOf[c.d] = s}
<1>2. /\ stage \in [Workers -> Stages] /\ batch \in [Workers -> SUBSET Claims]
      /\ attempts \in [Deliveries -> Nat] /\ attempts' \in [Deliveries -> Nat]
      /\ stage[w] = "idle" /\ batch[w] = {} /\ stage' = [stage EXCEPT ![w] = "claimed"]
      /\ cur' = cur /\ svc' = svc /\ D \subseteq Deliveries
  BY DEF Claim, CountInv, TypeOK, RowTypes, WorkerTypes, Tidy, Claimable, Due
<1>3. IsFiniteSet(B)
  BY ClaimedBatch
<1>4. \A c \in B : /\ c \in Claims /\ c.d \in D /\ c.attempt = attempts[c.d] + 1
  BY <1>2 DEF Claims, NextAttempt
<1>5. \A c \in Claims : c.d \in D /\ c.attempt = attempts[c.d] + 1 => c \in B
  BY ClaimEta DEF NextAttempt
<1>6. /\ batch'[w] = B /\ stage'[w] = "claimed"
      /\ \A v \in Workers \ {w} : batch'[v] = batch[v] /\ stage'[v] = stage[v]
  BY <1>1, <1>2
<1> HIDE DEF B
<1>7. Tidy'
  BY <1>2, <1>6 DEF CountInv, Tidy, Working
<1>8. Held(w)' = B /\ \A v \in Workers \ {w} : Held(v)' = Held(v)
  BY <1>2, <1>6 DEF Held, Working
<1>9. ASSUME NEW s \in Services
      PROVE  Within(svc'[s].failures, Holdings(s)', Opened(s)')
  <2>1. IsFiniteSet(N(s))
    BY <1>3, FS_Subset
  <2>0. Opened(s) = AttemptsOf(attempts, s) /\ Opened(s)' = AttemptsOf(attempts', s)
    BY DEF Opened, AttemptsOf
  <2>2. ASSUME NEW c PROVE c \in Opened(s)' <=> c \in Opened(s) \/ c \in N(s)
    <3>1. c \in Opened(s) <=> /\ c \in Claims /\ ServiceOf[c.d] = s
                             /\ 1 <= c.attempt /\ c.attempt <= attempts[c.d]
      BY <1>2, <2>0, AttemptsOfClaims
    <3>2. c \in Opened(s)' <=> /\ c \in Claims /\ ServiceOf[c.d] = s
                              /\ 1 <= c.attempt /\ c.attempt <= attempts'[c.d]
      BY <1>2, <2>0, AttemptsOfClaims
    <3>3. c \in Claims => c.d \in Deliveries /\ c.attempt \in Nat /\ attempts[c.d] \in Nat
      BY <1>2, ClaimFields
    <3>4. c \in Claims =>
            attempts'[c.d] = IF c.d \in D THEN attempts[c.d] + 1 ELSE attempts[c.d]
      BY <1>1, <3>3 DEF NextAttempt
    <3> QED BY <3>1, <3>2, <3>3, <3>4, <1>4, <1>5
  <2>3. Opened(s)' = Opened(s) \union N(s)
    BY <2>2
  <2>4. N(s) \cap Opened(s) = {}
    <3> SUFFICES ASSUME NEW c \in N(s), c \in Opened(s) PROVE FALSE
      OBVIOUS
    <3>1. c \in Claims /\ c.attempt = attempts[c.d] + 1 /\ c.attempt <= attempts[c.d]
      BY <1>2, <1>4, <2>0, AttemptsOfClaims
    <3>2. attempts[c.d] \in Nat
      BY <1>2, <3>1, ClaimFields
    <3> QED BY <3>1, <3>2
  <2>5. \A h \in Holdings(s)' : h \in Holdings(s) \/ \E c \in N(s) : h = <<w, c>>
    <3> SUFFICES ASSUME NEW h \in Holdings(s)', h \notin Holdings(s)
                 PROVE  \E c \in N(s) : h = <<w, c>>
      OBVIOUS
    <3>1. /\ h \in Workers \X Claims /\ h = <<h[1], h[2]>>
          /\ h[2] \in Held(h[1])' /\ ServiceOf[h[2].d] = s
      BY DEF Holdings
    <3>2. h[1] = w
      BY <1>8, <3>1 DEF Holdings
    <3> QED BY <1>8, <3>1, <3>2
  <2>6. Within(svc[s].failures, Holdings(s), Opened(s)) /\ svc[s].failures \in Nat
    BY HeldClaims DEF CountInv, Count
  <2> HIDE DEF N
  <2>7. Within(svc[s].failures, Holdings(s)', Opened(s) \union N(s))
    BY <2>1, <2>4, <2>5, <2>6, WithinOpen
  <2> QED BY <1>2, <2>3, <2>7
<1>10. HeldOpen'
  <2> SUFFICES ASSUME NEW v \in Workers, NEW c \in Held(v)'
               PROVE  c.attempt <= attempts'[c.d]
    BY DEF HeldOpen
  <2>1. CASE v = w
    <3>1. c.d \in D /\ c.d \in Deliveries /\ c.attempt = attempts[c.d] + 1
      BY <2>1, <1>2, <1>4, <1>8
    <3> QED BY <1>1, <1>2, <3>1 DEF NextAttempt
  <2>2. CASE v # w
    <3>1. c \in Claims /\ c.attempt <= attempts[c.d]
      BY <2>2, <1>8, HeldClaims DEF CountInv, HeldOpen
    <3>2. c.d \in Deliveries /\ c.attempt \in Nat /\ attempts[c.d] \in Nat
      BY <1>2, <3>1, ClaimFields
    <3> QED BY <1>1, <3>1, <3>2 DEF NextAttempt
  <2> QED BY <2>1, <2>2
<1> QED BY <1>7, <1>9, <1>10 DEF Count

(* The hydrating query may move a claim on to a later attempt of its row, but
   adds none. *)
LEMMA HydrateCount ==
  ASSUME CountInv, TypeOK', NEW w \in Workers, Hydrate(w)
  PROVE  Tidy' /\ HeldOpen' /\ Count'
<1> DEFINE re(c) == [d |-> c.d, attempt |-> attempts[c.d]]
           B == {re(c) : c \in {b \in batch[w] : status[b.d] \in InTable}}
<1>0. TypeOK /\ Tidy /\ HeldOpen /\ Count /\ attempts' = attempts /\ svc' = svc
  BY DEF CountInv, Hydrate, rowVars
<1>1. CASE Rest({w})
  <2>1. \A s \in Services : svc'[s].failures <= svc[s].failures
    BY <1>0, HeldClaims
  <2> QED BY <1>0, <1>1, <2>1, RestHeld, CountFrame
<1>2. CASE ~ Rest({w})
  <2>1. /\ batch' = [batch EXCEPT ![w] = B] /\ stage' = [stage EXCEPT ![w] = "next"]
        /\ stage[w] = "claimed" /\ cur' = cur
    BY <1>2 DEF Hydrate
  <2>2. /\ batch \in [Workers -> SUBSET Claims] /\ stage \in [Workers -> Stages]
        /\ attempts \in [Deliveries -> Nat]
    BY <1>0 DEF TypeOK, WorkerTypes, RowTypes
  <2>3. \A c \in Claims : re(c) \in Claims /\ re(c).d = c.d /\ re(c).attempt = attempts[c.d]
    BY <2>2 DEF Claims
  <2>4. \A b \in B : /\ b \in Claims /\ b.attempt = attempts[b.d]
                     /\ \E c \in batch[w] : b = re(c)
    BY <2>2, <2>3
  <2> HIDE DEF re, B
  <2>5. /\ batch'[w] = B /\ stage'[w] = "next"
        /\ \A v \in Workers \ {w} : batch'[v] = batch[v] /\ stage'[v] = stage[v]
    BY <2>1, <2>2
  <2>6. /\ Held(w)' = B /\ Held(w) = batch[w]
        /\ \A v \in Workers \ {w} : Held(v)' = Held(v)
    BY <2>1, <2>5 DEF Held, Working
  <2>7. Tidy'
    BY <1>0, <2>1, <2>5 DEF Tidy, Working
  <2>8. HeldOpen'
    <3> SUFFICES ASSUME NEW v \in Workers, NEW c \in Held(v)'
                 PROVE  c.attempt <= attempts[c.d]
      BY <1>0 DEF HeldOpen
    <3>1. CASE v = w
      <4>1. c.attempt = attempts[c.d] /\ attempts[c.d] \in Nat
        BY <2>2, <2>4, <2>6, <3>1, ClaimFields
      <4> QED BY <4>1
    <3>2. CASE v # w
      BY <1>0, <2>6, <3>2 DEF HeldOpen
    <3> QED BY <3>1, <3>2
  <2>9. ASSUME NEW s \in Services
        PROVE  Within(svc'[s].failures, Holdings(s)', Opened(s)')
    <3> DEFINE F == [h \in Holdings(s) |-> IF h[1] = w THEN <<w, re(h[2])>> ELSE h]
               T == Workers \X Claims
    <3>1. F \in [Holdings(s) -> T]
      BY <2>3 DEF Holdings
    <3>2. \A g \in Holdings(s)' : \E h \in Holdings(s) : F[h] = g
      <4> SUFFICES ASSUME NEW g \in Holdings(s)' PROVE \E h \in Holdings(s) : F[h] = g
        OBVIOUS
      <4>1. /\ g \in Workers \X Claims /\ g = <<g[1], g[2]>>
            /\ g[2] \in Held(g[1])' /\ ServiceOf[g[2].d] = s
        BY DEF Holdings
      <4>2. CASE g[1] = w
        <5>1. PICK c \in batch[w] : g[2] = re(c)
          BY <2>4, <2>6, <4>1, <4>2
        <5>2. c \in Claims /\ c.d = g[2].d
          BY <2>2, <2>3, <5>1
        <5>3. <<w, c>> \in Holdings(s)
          BY <2>6, <4>1, <5>2 DEF Holdings
        <5>4. F[<<w, c>>] = g
          BY <4>1, <4>2, <5>1, <5>3
        <5> QED BY <5>3, <5>4
      <4>3. CASE g[1] # w
        <5>1. g \in Holdings(s)
          BY <2>6, <4>1, <4>3 DEF Holdings
        <5> QED BY <4>3, <5>1
      <4> QED BY <4>2, <4>3
    <3>3. Within(svc[s].failures, Holdings(s), Opened(s)) /\ svc[s].failures \in Nat
      BY <1>0, HeldClaims DEF Count
    <3>4. Opened(s)' = Opened(s)
      BY <1>0 DEF Opened
    <3> HIDE DEF F, T
    <3> DEFINE G == Holdings(s)'
               H == Holdings(s)
               f == svc[s].failures
               O == Opened(s)
    <3>5. F \in [H -> T] /\ (\A g \in G : \E h \in H : F[h] = g) /\ Within(f, H, O) /\ f \in Nat
      BY <3>1, <3>2, <3>3
    <3> HIDE DEF G, H, f, O
    <3>6. Within(f, G, O)
      BY <3>5, WithinImage
    <3> QED BY <1>0, <3>4, <3>6 DEF G, f, O
  <2> QED BY <2>7, <2>8, <2>9 DEF Count
<1> QED BY <1>1, <1>2

(* What the breaker's two statements do to the counter. *)
LEMMA Failures ==
  ASSUME NEW r \in Row
  PROVE  AfterSuccess(r).failures = 0 /\ AfterFailure(r).failures = r.failures + 1
BY DEF Row, AfterSuccess, AfterFailure

(* Recording an outcome gives the claim up, and counts it at most once. *)
LEMMA RecordCount ==
  ASSUME CountInv, TypeOK', NEW w \in Workers, Record(w)
  PROVE  Tidy' /\ HeldOpen' /\ Count'
<1> DEFINE r == ServiceOf[cur[w].d]
           x == <<w, cur[w]>>
<1>0. TypeOK /\ Tidy /\ HeldOpen /\ Count /\ attempts' = attempts
  BY DEF CountInv, Record
<1>1. Working(w) /\ EndDelivery(w)
  BY DEF Record, Working
<1>2. /\ Tidy'
      /\ Held(w)' \subseteq Held(w) \ {cur[w]}
      /\ \A v \in Workers : Held(v)' \subseteq Held(v)
  BY <1>0, <1>1, EndHeld
<1>3. cur[w] \in Held(w) /\ cur[w] \in Claims /\ cur[w].d \in Deliveries
  BY <1>0, <1>1, ClaimFields DEF Held, TypeOK, WorkerTypes
<1>4. r \in Services /\ svc \in [Services -> Row]
  BY <1>0, <1>3, DispatchAssumption DEF TypeOK
<1>5. svc' \in {[svc EXCEPT ![r] = AfterSuccess(svc[r])], [svc EXCEPT ![r] = AfterFailure(svc[r])]}
  BY <1>4 DEF Record
<1>6. ASSUME NEW s \in Services
      PROVE  Within(svc'[s].failures, Holdings(s)', Opened(s)')
  <2>1. Opened(s)' = Opened(s)
    BY <1>0 DEF Opened
  <2>2. Within(svc[s].failures, Holdings(s), Opened(s)) /\ svc[s].failures \in Nat
    BY <1>0, HeldClaims DEF Count
  <2>3. Holdings(s)' \subseteq Holdings(s)
    BY <1>2 DEF Holdings
  <2>4. CASE s # r
    <3>1. svc'[s] = svc[s]
      BY <1>4, <1>5, <2>4
    <3> QED BY <2>1, <2>2, <2>3, <3>1, WithinLess
  <2>5. CASE s = r
    <3>1. x \in Holdings(s) /\ Holdings(s)' \subseteq Holdings(s) \ {x}
      BY <1>2, <1>3, <2>5 DEF Holdings
    <3>2. svc'[s].failures = 0 \/ svc'[s].failures = svc[s].failures + 1
      BY <1>4, <1>5, <2>5, Failures
    <3> HIDE DEF x, r
    <3>3. CASE svc'[s].failures = 0
      BY <2>1, <2>2, <2>3, <3>3, WithinLess
    <3>4. CASE svc'[s].failures = svc[s].failures + 1
      BY <2>1, <2>2, <3>1, <3>4, WithinReport
    <3> QED BY <3>2, <3>3, <3>4
  <2> QED BY <2>4, <2>5
<1>7. HeldOpen'
  BY <1>0, <1>2 DEF HeldOpen
<1> QED BY <1>2, <1>6, <1>7 DEF Count

-----------------------------------------------------------------------------
(* A delivery is given up only on its last attempt, and attempts are never taken
   back. *)
LEMMA SpentStep ==
  ASSUME CountInv, TypeOK', [Next]_vars
  PROVE  DeadIsSpent'
<1> USE DEF rowVars, workerVars, history
<1>1. /\ status \in [Deliveries -> InTable \union {"unborn", "gone"}]
      /\ attempts \in [Deliveries -> Nat]
  BY DEF CountInv, TypeOK, RowTypes
<1>2. ASSUME UNCHANGED <<status, attempts>> PROVE DeadIsSpent'
  BY <1>2 DEF CountInv, DeadIsSpent
<1>3. ASSUME attempts' = attempts, \A d \in Deliveries : status'[d] = "dead" => status[d] = "dead"
      PROVE  DeadIsSpent'
  BY <1>3 DEF CountInv, DeadIsSpent
<1>4. ASSUME TableStep PROVE DeadIsSpent'
  <2>1. attempts' = attempts /\ \A d \in Deliveries : status'[d] = "dead" => status[d] = "dead"
    BY <1>1, <1>4 DEF TableStep, Plan, Requeue, Remove
  <2> QED BY <1>3, <2>1
<1>5. ASSUME NEW r \in Replicas, Reap(r) PROVE DeadIsSpent'
  BY <1>3, <1>5 DEF Reap
<1>6. ASSUME NEW w \in Workers, Claim(w) PROVE DeadIsSpent'
  <2>1. PICK D \in Claimable :
          /\ status'   = [d \in Deliveries |-> IF d \in D THEN "in_flight" ELSE status[d]]
          /\ attempts' = [d \in Deliveries |-> IF d \in D THEN NextAttempt(d) ELSE attempts[d]]
    BY <1>6 DEF Claim
  <2> QED BY <2>1 DEF CountInv, DeadIsSpent
<1>7. ASSUME NEW w \in Workers, Record(w) PROVE DeadIsSpent'
  <2> DEFINE d == cur[w].d
             o == Outcome(cur[w], result[w])
  <2>1. attempts' = attempts
    BY <1>7 DEF Record
  <2>2. cur[w] \in Held(w) /\ cur[w] \in Claims
    BY <1>7 DEF Record, Held, Working, CountInv, TypeOK, WorkerTypes
  <2>3. d \in Deliveries /\ cur[w].attempt \in Nat /\ cur[w].attempt <= attempts[d]
    BY <2>2, ClaimFields DEF CountInv, HeldOpen
  <2>4. CASE status[d] \in InTable
    <3>1. status' = [status EXCEPT ![d] = o]
      BY <1>7, <2>4 DEF Record
    <3>2. o = "dead" => cur[w].attempt >= MaxAttempts
      BY DEF Outcome
    <3> HIDE DEF o, d
    <3>3. o = "dead" => attempts[d] >= MaxAttempts
      BY <1>1, <2>3, <3>2, DispatchAssumption DEF d
    <3> QED BY <1>1, <2>1, <2>3, <3>1, <3>3 DEF CountInv, DeadIsSpent
  <2>5. CASE status[d] \notin InTable
    BY <1>2, <1>7, <2>1, <2>5 DEF Record
  <2> QED BY <2>4, <2>5
<1>8. ASSUME NEW w \in Workers,
             Hydrate(w) \/ Deliver(w) \/ Send(w) \/ (\E res \in Results : Answer(w, res))
               \/ WorkerFault(w)
      PROVE  DeadIsSpent'
  BY <1>2, <1>8 DEF Hydrate, Deliver, Send, Answer, Decide, WorkerFault, ClaimError, Abandon,
                    Forget, Refuse, Cancelled, RecordError, EndDelivery
<1>9. ASSUME NEW r \in Replicas, Shutdown(r) \/ Crash(r) \/ Exit(r) \/ Restart(r)
      PROVE  DeadIsSpent'
  BY <1>2, <1>9 DEF Shutdown, Crash, Exit, Die, Restart
<1>10. ASSUME Tick \/ UNCHANGED vars PROVE DeadIsSpent'
  BY <1>2, <1>10 DEF Tick, vars
<1> QED
  BY <1>4, <1>5, <1>6, <1>7, <1>8, <1>9, <1>10
     DEF Next, WorkerStep, ReplicaStep

(* Every step keeps the invariant, however long batches take. *)
LEMMA CountStep ==
  ASSUME CountInv, [Next]_vars
  PROVE  CountInv'
<1>1. TypeOK'
  BY TypeStep DEF CountInv
<1>2. DeadIsSpent'
  BY <1>1, SpentStep
<1> USE <1>1 DEF rowVars, workerVars, history
<1>3. /\ TypeOK /\ Tidy /\ HeldOpen /\ Count
      /\ stage \in [Workers -> Stages] /\ batch \in [Workers -> SUBSET Claims]
      /\ cur \in [Workers -> Claims \union {NoClaim}]
      /\ \A s \in Services : svc[s].failures <= svc[s].failures
  BY HeldClaims DEF CountInv, TypeOK, WorkerTypes
<1> DEFINE Kept == Tidy' /\ HeldOpen' /\ Count'
<1>4. ASSUME UNCHANGED <<attempts, svc>>, Tidy',
             \A w \in Workers : Held(w)' \subseteq Held(w)
      PROVE  Kept
  BY <1>3, <1>4, CountFrame
<1>5. ASSUME UNCHANGED <<attempts, svc, stage, batch, cur>> PROVE Kept
  <2>1. Tidy' /\ \A w \in Workers : Held(w)' \subseteq Held(w)
    BY <1>3, <1>5 DEF Tidy, Working, Held
  <2> QED BY <1>4, <1>5, <2>1
<1>6. ASSUME NEW W, Rest(W), UNCHANGED <<attempts, svc>> PROVE Kept
  BY <1>3, <1>4, <1>6, RestHeld
<1>7. ASSUME TableStep PROVE Kept
  BY <1>5, <1>7 DEF TableStep, Plan, Requeue, Remove
<1>8. ASSUME NEW r \in Replicas, ReplicaStep(r) PROVE Kept
  BY <1>5, <1>6, <1>8 DEF ReplicaStep, Reap, Shutdown, Crash, Exit, Die, Restart
<1>9. ASSUME NEW w \in Workers, ClaimError(w) \/ Abandon(w) PROVE Kept
  BY <1>6, <1>9 DEF ClaimError, Abandon, Forget
<1>10. ASSUME NEW w \in Workers, Deliver(w) PROVE Kept
  <2>1. PICK c \in batch[w] : /\ cur' = [cur EXCEPT ![w] = c]
                             /\ batch' = [batch EXCEPT ![w] = batch[w] \ {c}]
    BY <1>10 DEF Deliver
  <2>2. /\ cur'[w] = c /\ batch'[w] = batch[w] \ {c} /\ stage'[w] = "pacing"
        /\ stage[w] = "next" /\ UNCHANGED <<attempts, svc>>
        /\ \A v \in Workers \ {w} : /\ cur'[v] = cur[v] /\ batch'[v] = batch[v]
                                    /\ stage'[v] = stage[v]
    BY <1>3, <1>10, <2>1 DEF Deliver
  <2>3. Tidy' /\ \A v \in Workers : Held(v)' \subseteq Held(v)
    BY <1>3, <2>2 DEF Tidy, Working, Held
  <2> QED BY <1>4, <2>2, <2>3
<1>11. ASSUME NEW w \in Workers, NEW k \in {"sending", "recording"}, Working(w),
              stage' = [stage EXCEPT ![w] = k], UNCHANGED <<attempts, svc, batch, cur>>
       PROVE  Kept
  <2>1. Tidy' /\ \A v \in Workers : Held(v)' \subseteq Held(v)
    BY <1>3, <1>11 DEF Tidy, Working, Held
  <2> QED BY <1>4, <1>11, <2>1
<1>12. ASSUME NEW w \in Workers,
              Refuse(w) \/ Send(w) \/ Cancelled(w) \/ \E res \in Results : Answer(w, res)
       PROVE  Kept
  BY <1>11, <1>12 DEF Refuse, Send, Cancelled, Answer, Decide, Working
<1>13. ASSUME NEW w \in Workers, RecordError(w) PROVE Kept
  <2>1. Working(w) /\ EndDelivery(w) /\ UNCHANGED <<attempts, svc>>
    BY <1>13 DEF RecordError, Working
  <2>2. Tidy' /\ \A v \in Workers : Held(v)' \subseteq Held(v)
    BY <1>3, <2>1, EndHeld
  <2> QED BY <1>4, <2>1, <2>2
<1>14. ASSUME Tick \/ UNCHANGED vars PROVE Kept
  BY <1>5, <1>14 DEF Tick, vars
<1>15. ASSUME NEW w \in Workers, Claim(w) \/ Hydrate(w) \/ Record(w) PROVE Kept
  BY <1>15, ClaimCount, HydrateCount, RecordCount
<1>16. Kept
  <2> HIDE DEF Kept
  <2> QED BY <1>7, <1>8, <1>9, <1>10, <1>12, <1>13, <1>14, <1>15
          DEF Next, WorkerStep, WorkerFault
<1> QED BY <1>2, <1>16 DEF CountInv

(* At first nothing is opened, held or counted. *)
LEMMA CountInit == Init => CountInv
<1> SUFFICES ASSUME Init PROVE CountInv
  OBVIOUS
<1>1. TypeOK
  BY InvInit DEF IInv
<1>2. \A w \in Workers : Held(w) = {} /\ batch[w] = {} /\ ~ Working(w)
  BY DEF Init, Held, Working
<1>3. ASSUME NEW s \in Services PROVE Within(svc[s].failures, Holdings(s), Opened(s))
  <2>1. Holdings(s) = {} /\ svc[s].failures = 0
    BY <1>2 DEF Holdings, Init, Verified
  <2>2. Opened(s) = {}
    <3> SUFFICES ASSUME NEW c \in Opened(s) PROVE FALSE
      OBVIOUS
    <3>1. PICK d \in Deliveries : c \in {[d |-> d, attempt |-> n] : n \in 1..attempts[d]}
      BY DEF Opened
    <3>2. attempts[d] = 0
      BY DEF Init
    <3> QED BY <3>1, <3>2
  <2> QED BY <2>1, <2>2, FS_EmptySet DEF Within
<1>4. Tidy /\ HeldOpen /\ DeadIsSpent
  BY <1>2 DEF Tidy, HeldOpen, DeadIsSpent, Init
<1> QED BY <1>1, <1>3, <1>4 DEF CountInv, Count

(* The claims still to be reported are no more than the claims held. *)
LEMMA CountedFact == CountInv => CountedOnce
<1> SUFFICES ASSUME CountInv, NEW s \in Services
             PROVE  svc[s].failures + Cardinality(Unreported(s)) <= Cardinality(Opened(s))
  BY DEF CountedOnce
<1> DEFINE F == [h \in Holdings(s) |-> h[2]]
<1>1. F \in [Holdings(s) -> Claims]
  BY DEF Holdings
<1>2. \A c \in Unreported(s) : \E h \in Holdings(s) : F[h] = c
  <2> SUFFICES ASSUME NEW c \in Unreported(s) PROVE \E h \in Holdings(s) : F[h] = c
    OBVIOUS
  <2>1. PICK w \in Workers : c \in Held(w) /\ ServiceOf[c.d] = s
    BY DEF Unreported
  <2>2. <<w, c>> \in Holdings(s)
    BY <2>1, HeldClaims DEF Holdings, CountInv
  <2> QED BY <2>2
<1>3. Within(svc[s].failures, Holdings(s), Opened(s)) /\ svc[s].failures \in Nat
  BY HeldClaims DEF CountInv, Count
<1> HIDE DEF F
<1>4. Within(svc[s].failures, Unreported(s), Opened(s))
  BY <1>1, <1>2, <1>3, WithinImage
<1> QED BY <1>4 DEF Within

(***************************************************************************)
(* The breaker counts an attempt once: the failures of a service and the   *)
(* attempts its workers still have to report are never more than the       *)
(* attempts opened for it, for any number of rows, workers and replicas,   *)
(* any faults, and however long a batch takes.                             *)
(***************************************************************************)
THEOREM CountedOnceHolds == Spec => []CountedOnce
<1>1. CountInv /\ [Next]_vars => CountInv'
  BY CountStep
<1> QED BY CountInit, CountedFact, <1>1, PTL DEF Spec

(***************************************************************************)
(* A delivery is given up only when max_attempts attempts were opened for  *)
(* it, even if the outcome that gives it up comes from a worker whose      *)
(* claim was taken away long ago.                                          *)
(***************************************************************************)
THEOREM DeadIsSpentHolds == Spec => []DeadIsSpent
<1>1. CountInv /\ [Next]_vars => CountInv'
  BY CountStep
<1>2. CountInv => DeadIsSpent
  BY DEF CountInv
<1> QED BY CountInit, <1>1, <1>2, PTL DEF Spec

-----------------------------------------------------------------------------
(***************************************************************************)
(* Why the breaker may trip without evidence (TripEarned): only because    *)
(* the gateway cancels requests itself, or refuses to build them, and      *)
(* counts that as failures of the service.                                 *)
(***************************************************************************)
Blameless == [][\A w \in Workers : ~ Cancelled(w) /\ ~ Refuse(w)]_vars

\* Workers about to report a failure of a service.
Blaming(s) ==
  {w \in Workers : stage[w] = "recording" /\ result[w] # "ok" /\ ServiceOf[cur[w].d] = s}

\* The failures counted and about to be counted are requests that failed.
Evidence(s) ==
  \/ answered[s] = BreakerThreshold
  \/ Within(svc[s].failures, Blaming(s), 1..answered[s])

EvidenceInv == TypeOK /\ TripEarned /\ \A s \in Services : Evidence(s)

(* One more request failed, and one more worker is about to report it. *)
LEMMA WithinBoth ==
  ASSUME NEW f \in Nat, NEW a \in Nat, NEW H, NEW x, NEW G, Within(f, H, 1..a), G \subseteq H \union {x}
  PROVE  Within(f, G, 1..(a + 1))
<1>1. /\ IsFiniteSet(H \union {x}) /\ Cardinality(H) \in Nat
      /\ Cardinality(H \union {x}) \in {Cardinality(H), Cardinality(H) + 1}
  BY FS_AddElement, FS_CardinalityType DEF Within
<1>2. IsFiniteSet(G) /\ Cardinality(G) <= Cardinality(H \union {x})
  BY <1>1, FS_Subset
<1>3. Cardinality(1..a) = a /\ Cardinality(1..(a + 1)) = a + 1 /\ IsFiniteSet(1..(a + 1))
  BY FS_Interval
<1>4. Cardinality(G) \in Nat
  BY <1>2, FS_CardinalityType
<1> QED BY <1>1, <1>2, <1>3, <1>4 DEF Within

(* A report of a failure that was answered trips the breaker on evidence only. *)
LEMMA WithinTrip ==
  ASSUME NEW f \in Nat, NEW a \in Nat, NEW H, NEW x \in H, Within(f, H, 1..a)
  PROVE  f + 1 <= a
<1>1. Cardinality(H) \in Nat /\ Cardinality(H) # 0
  BY FS_CardinalityType, FS_EmptySet DEF Within
<1>2. Cardinality(1..a) = a
  BY FS_Interval
<1> QED BY <1>1, <1>2 DEF Within

(* What the breaker's two statements do to the status. *)
LEMMA Trips ==
  ASSUME NEW r \in Row
  PROVE  /\ AfterSuccess(r).status = r.status
         /\ AfterFailure(r).status = "disabled" =>
              r.status = "disabled" \/ r.failures + 1 >= BreakerThreshold
BY DEF Row, AfterSuccess, AfterFailure

(* A step that adds no reports and no failures keeps the evidence. *)
LEMMA EvidenceFrame ==
  ASSUME EvidenceInv, TypeOK', UNCHANGED <<svc, answered>>,
         \A s \in Services : Blaming(s)' \subseteq Blaming(s)
  PROVE  EvidenceInv'
<1>1. TripEarned'
  BY DEF EvidenceInv, TripEarned
<1>2. ASSUME NEW s \in Services PROVE Evidence(s)'
  <2>1. CASE answered[s] = BreakerThreshold
    BY <2>1 DEF Evidence
  <2>2. CASE Within(svc[s].failures, Blaming(s), 1..answered[s])
    <3>1. svc[s].failures \in Nat
      BY HeldClaims DEF EvidenceInv
    <3>2. Within(svc[s].failures, Blaming(s)', 1..answered[s])
      BY <2>2, <3>1, WithinLess
    <3> QED BY <3>2 DEF Evidence
  <2> QED BY <2>1, <2>2 DEF EvidenceInv, Evidence
<1> QED BY <1>1, <1>2 DEF EvidenceInv

(* A request that fails is evidence. *)
LEMMA AnswerEvidence ==
  ASSUME EvidenceInv, TypeOK', NEW w \in Workers, NEW res \in Results, Answer(w, res)
  PROVE  EvidenceInv'
<1> DEFINE r == ServiceOf[cur[w].d]
<1>1. /\ stage[w] = "sending" /\ stage' = [stage EXCEPT ![w] = "recording"]
      /\ result' = [result EXCEPT ![w] = res] /\ cur' = cur /\ svc' = svc
      /\ stage \in [Workers -> Stages] /\ result \in [Workers -> Results \union {NoResult}]
  BY DEF Answer, Decide, EvidenceInv, TypeOK, WorkerTypes
<1>2. r \in Services
  <2>1. cur[w] \in Claims
    BY <1>1 DEF EvidenceInv, TypeOK, WorkerTypes, Working
  <2> QED BY <2>1, ClaimFields, DispatchAssumption
<1>3. /\ answered \in [Services -> 0..BreakerThreshold] /\ BreakerThreshold \in Nat
      /\ answered' = [answered EXCEPT ![r] =
                        IF res # "ok" /\ answered[r] < BreakerThreshold THEN answered[r] + 1
                                                                       ELSE answered[r]]
      /\ \A s \in Services : svc[s].failures \in Nat
  BY ThresholdAssumption, HeldClaims DEF Answer, EvidenceInv, TypeOK
<1> HIDE DEF r
<1>4. TripEarned'
  BY <1>1, <1>2, <1>3 DEF EvidenceInv, TripEarned
<1>5. ASSUME NEW s \in Services PROVE Evidence(s)'
  <2>1. /\ Blaming(s)' \subseteq Blaming(s) \union {w}
        /\ (s # r \/ res = "ok") => Blaming(s)' \subseteq Blaming(s)
    BY <1>1 DEF Blaming, r
  <2>2. CASE answered[s] = BreakerThreshold
    BY <1>2, <1>3, <2>2 DEF Evidence
  <2>3. CASE Within(svc[s].failures, Blaming(s), 1..answered[s]) /\ (s # r \/ res = "ok")
    <3>1. Within(svc[s].failures, Blaming(s)', 1..answered[s])
      BY <1>3, <2>1, <2>3, WithinLess
    <3>2. answered'[s] = answered[s]
      BY <1>2, <1>3, <2>3
    <3> QED BY <1>1, <3>1, <3>2 DEF Evidence
  <2>4. CASE /\ Within(svc[s].failures, Blaming(s), 1..answered[s])
             /\ s = r /\ res # "ok" /\ answered[s] # BreakerThreshold
    <3>1. answered'[s] = answered[s] + 1 /\ answered[s] \in Nat
      BY <1>3, <2>4
    <3>2. Within(svc[s].failures, Blaming(s)', 1..(answered[s] + 1))
      BY <1>3, <2>1, <2>4, <3>1, WithinBoth
    <3> QED BY <1>1, <3>1, <3>2 DEF Evidence
  <2> QED BY <2>2, <2>3, <2>4 DEF EvidenceInv, Evidence
<1> QED BY <1>4, <1>5 DEF EvidenceInv

(* A report adds to the counter what the worker had evidence for. *)
LEMMA RecordEvidence ==
  ASSUME EvidenceInv, TypeOK', NEW w \in Workers, Record(w)
  PROVE  EvidenceInv'
<1> DEFINE r == ServiceOf[cur[w].d]
<1>1. /\ stage[w] = "recording" /\ EndDelivery(w) /\ answered' = answered
      /\ stage \in [Workers -> Stages] /\ result \in [Workers -> Results \union {NoResult}]
  BY DEF Record, EndDelivery, history, EvidenceInv, TypeOK, WorkerTypes
<1>2. r \in Services /\ svc \in [Services -> Row]
  <2>1. cur[w] \in Claims
    BY <1>1 DEF EvidenceInv, TypeOK, WorkerTypes, Working
  <2> QED BY <2>1, ClaimFields, DispatchAssumption DEF EvidenceInv, TypeOK
<1>3. \A s \in Services : Blaming(s)' \subseteq Blaming(s) \ {w}
  <2>1. CASE batch[w] = {}
    BY <1>1, <2>1 DEF EndDelivery, Rest, Blaming
  <2>2. CASE batch[w] # {}
    <3>1. /\ stage' = [stage EXCEPT ![w] = "next"]
          /\ \A v \in Workers \ {w} : cur'[v] = cur[v] /\ result'[v] = result[v]
      BY <1>1, <2>2 DEF EndDelivery, EvidenceInv, TypeOK, WorkerTypes
    <3>2. stage'[w] # "recording" /\ \A v \in Workers \ {w} : stage'[v] = stage[v]
      BY <1>1, <3>1
    <3> QED BY <3>1, <3>2 DEF Blaming
  <2> QED BY <2>1, <2>2
<1>4. /\ svc' = [svc EXCEPT ![r] = IF result[w] = "ok" THEN AfterSuccess(svc[r])
                                                     ELSE AfterFailure(svc[r])]
      /\ result[w] # "ok" => w \in Blaming(r)
  BY <1>1, <1>2 DEF Record, Outcome, Blaming
<1>5. /\ answered \in [Services -> 0..BreakerThreshold] /\ BreakerThreshold \in Nat
      /\ \A s \in Services : svc[s].failures \in Nat
      /\ \A s \in Services : Evidence(s) /\ (svc[s].status = "disabled" => answered[s] = BreakerThreshold)
  BY ThresholdAssumption, HeldClaims DEF EvidenceInv, TypeOK, TripEarned
<1> HIDE DEF r
<1>6. ASSUME NEW s \in Services
      PROVE  Evidence(s)' /\ (svc'[s].status = "disabled" => answered[s] = BreakerThreshold)
  <2>1. CASE s # r \/ result[w] = "ok"
    <3>1. /\ svc'[s].failures <= svc[s].failures /\ svc'[s].failures \in Nat
          /\ svc'[s].status = svc[s].status
      BY <1>2, <1>4, <1>5, <2>1, Failures, Trips
    <3>2. CASE answered[s] = BreakerThreshold
      BY <1>1, <3>2 DEF Evidence
    <3>3. CASE Within(svc[s].failures, Blaming(s), 1..answered[s])
      <4>1. Blaming(s)' \subseteq Blaming(s)
        BY <1>3
      <4>2. Within(svc'[s].failures, Blaming(s)', 1..answered[s])
        BY <1>5, <3>1, <3>3, <4>1, WithinLess
      <4> QED BY <1>1, <1>5, <3>1, <4>2 DEF Evidence
    <3> QED BY <1>5, <3>1, <3>2, <3>3 DEF Evidence
  <2>2. CASE s = r /\ result[w] # "ok"
    <3>1. /\ svc'[s].failures = svc[s].failures + 1 /\ w \in Blaming(s)
          /\ svc'[s].status = "disabled" =>
               svc[s].status = "disabled" \/ svc[s].failures + 1 >= BreakerThreshold
      BY <1>2, <1>4, <2>2, Failures, Trips
    <3>2. CASE answered[s] = BreakerThreshold
      BY <1>1, <3>2 DEF Evidence
    <3>3. CASE Within(svc[s].failures, Blaming(s), 1..answered[s])
      <4>0. answered[s] \in Nat /\ answered[s] <= BreakerThreshold
        BY <1>5
      <4>1. Within(svc[s].failures + 1, Blaming(s)', 1..answered[s])
        BY <1>3, <1>5, <3>1, <3>3, WithinReport
      <4>2. svc[s].failures + 1 <= answered[s]
        BY <1>5, <3>1, <3>3, <4>0, WithinTrip
      <4> QED BY <1>1, <1>5, <3>1, <4>0, <4>1, <4>2 DEF Evidence
    <3> QED BY <1>5, <3>2, <3>3 DEF Evidence
  <2> QED BY <2>1, <2>2
<1> QED BY <1>1, <1>6 DEF EvidenceInv, TripEarned

(* Every other step but a cancellation or a refusal keeps the evidence. *)
LEMMA EvidenceStep ==
  ASSUME EvidenceInv, [Next]_vars, [\A w \in Workers : ~ Cancelled(w) /\ ~ Refuse(w)]_vars
  PROVE  EvidenceInv'
<1>1. TypeOK'
  BY TypeStep DEF EvidenceInv
<1> USE <1>1 DEF rowVars, workerVars, history
<1>2. stage \in [Workers -> Stages] /\ result \in [Workers -> Results \union {NoResult}]
  BY DEF EvidenceInv, TypeOK, WorkerTypes
<1>3. ASSUME UNCHANGED <<svc, answered>>, \A s \in Services : Blaming(s)' \subseteq Blaming(s)
      PROVE  EvidenceInv'
  BY <1>3, EvidenceFrame
<1>4. ASSUME UNCHANGED <<svc, answered, stage, cur, result>> PROVE EvidenceInv'
  BY <1>3, <1>4 DEF Blaming
<1>5. ASSUME NEW W, Rest(W), UNCHANGED <<svc, answered>> PROVE EvidenceInv'
  <2>1. \A s \in Services : Blaming(s)' \subseteq Blaming(s)
    BY <1>5 DEF Rest, Blaming
  <2> QED BY <1>3, <1>5, <2>1
<1>6. ASSUME NEW w \in Workers, NEW k \in Stages \ {"recording"}, stage' = [stage EXCEPT ![w] = k],
             \A v \in Workers \ {w} : cur'[v] = cur[v] /\ result'[v] = result[v],
             UNCHANGED <<svc, answered>>
      PROVE  EvidenceInv'
  <2>1. \A s \in Services : Blaming(s)' \subseteq Blaming(s)
    BY <1>2, <1>6 DEF Blaming
  <2> QED BY <1>3, <1>6, <2>1
<1>7. ASSUME TableStep PROVE EvidenceInv'
  BY <1>4, <1>7 DEF TableStep, Plan, Requeue, Remove
<1>8. ASSUME NEW r \in Replicas, ReplicaStep(r) PROVE EvidenceInv'
  BY <1>4, <1>5, <1>8 DEF ReplicaStep, Reap, Shutdown, Crash, Exit, Die, Restart
<1>9. ASSUME NEW w \in Workers, ClaimError(w) \/ Abandon(w) PROVE EvidenceInv'
  BY <1>5, <1>9 DEF ClaimError, Abandon, Forget
<1>10. ASSUME NEW w \in Workers, Claim(w) \/ Send(w) PROVE EvidenceInv'
  BY <1>6, <1>10 DEF Claim, Send, Stages
<1>11. ASSUME NEW w \in Workers, Hydrate(w) PROVE EvidenceInv'
  <2>1. CASE Rest({w})
    BY <1>5, <1>11, <2>1 DEF Hydrate
  <2>2. CASE ~ Rest({w})
    BY <1>6, <1>11, <2>2 DEF Hydrate, Stages
  <2> QED BY <2>1, <2>2
<1>12. ASSUME NEW w \in Workers, Deliver(w) PROVE EvidenceInv'
  <2>1. /\ stage' = [stage EXCEPT ![w] = "pacing"] /\ UNCHANGED <<svc, answered, result>>
        /\ \A v \in Workers \ {w} : cur'[v] = cur[v]
    BY <1>12 DEF Deliver, EvidenceInv, TypeOK, WorkerTypes
  <2> QED BY <1>6, <2>1 DEF Stages
<1>13. ASSUME NEW w \in Workers, RecordError(w) PROVE EvidenceInv'
  <2>1. UNCHANGED <<svc, answered>> /\ EndDelivery(w)
    BY <1>13 DEF RecordError, EndDelivery
  <2>2. CASE Rest({w})
    BY <1>5, <2>1, <2>2
  <2>3. CASE ~ Rest({w})
    <3>1. /\ stage' = [stage EXCEPT ![w] = "next"]
          /\ \A v \in Workers \ {w} : cur'[v] = cur[v] /\ result'[v] = result[v]
      BY <2>1, <2>3 DEF EndDelivery, EvidenceInv, TypeOK, WorkerTypes
    <3> QED BY <1>6, <2>1, <3>1 DEF Stages
  <2> QED BY <2>2, <2>3
<1>14. ASSUME Tick \/ UNCHANGED vars PROVE EvidenceInv'
  BY <1>4, <1>14 DEF Tick, vars
<1>15. ASSUME NEW w \in Workers, Refuse(w) \/ Cancelled(w) PROVE EvidenceInv'
  BY <1>14, <1>15
<1>16. ASSUME NEW w \in Workers, Record(w) \/ \E res \in Results : Answer(w, res)
       PROVE  EvidenceInv'
  BY <1>16, AnswerEvidence, RecordEvidence
<1> QED
  BY <1>7, <1>8, <1>9, <1>10, <1>11, <1>12, <1>13, <1>14, <1>15, <1>16
     DEF Next, WorkerStep, WorkerFault

(***************************************************************************)
(* A service is disabled only when BreakerThreshold requests failed that   *)
(* reached the client, as long as the gateway cancels no request and       *)
(* refuses to build none: workers may crash, time out, outlast their       *)
(* leases, fail to write and be shut down between requests.                *)
(***************************************************************************)
THEOREM TripEarnedUnlessCancelled == Spec /\ Blameless => []TripEarned
<1>1. Init => EvidenceInv
  <2> SUFFICES ASSUME Init PROVE EvidenceInv
    OBVIOUS
  <2>1. TypeOK
    BY InvInit DEF IInv
  <2>2. \A s \in Services : svc[s].failures = 0 /\ svc[s].status = "verified" /\ answered[s] = 0
    BY DEF Init, Verified
  <2>3. \A s \in Services : Blaming(s) = {}
    BY DEF Init, Blaming
  <2>4. Within(0, {}, 1..0)
    BY FS_EmptySet, FS_Interval DEF Within
  <2> QED BY <2>1, <2>2, <2>3, <2>4 DEF EvidenceInv, Evidence, TripEarned
<1>2. EvidenceInv /\ [Next]_vars /\ [\A w \in Workers : ~ Cancelled(w) /\ ~ Refuse(w)]_vars => EvidenceInv'
  BY EvidenceStep
<1>3. EvidenceInv => TripEarned
  BY DEF EvidenceInv
<1> QED BY <1>1, <1>2, <1>3, PTL DEF Spec, Blameless

=============================================================================
