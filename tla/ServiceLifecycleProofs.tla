----------------------- MODULE ServiceLifecycleProofs -----------------------
(***************************************************************************)
(* What holds of a service for every set of addresses, requests and        *)
(* deliveries and every threshold.                                         *)
(***************************************************************************)
EXTENDS ServiceLifecycle, TLAPS

(* The statements on the row keep its type. *)
LEMMA RowStatements ==
  ASSUME NEW r \in Row
  PROVE  /\ NewRow \in Row /\ Verified(r) \in Row /\ VerifyFailed(r) \in Row
         /\ UrlChanged(r) \in Row /\ BreakerReset(r) \in Row /\ TokenRotated(r) \in Row
         /\ AfterSuccess(r) \in Row /\ AfterFailure(r) \in Row
<1> USE DEF Row, Statuses
<1>1. NewRow \in Row /\ Verified(r) \in Row
  BY DEF NewRow, Verified
<1>2. VerifyFailed(r) \in Row /\ AfterSuccess(r) \in Row
  BY DEF VerifyFailed, AfterSuccess
<1>3. UrlChanged(r) \in Row /\ TokenRotated(r) \in Row
  BY DEF UrlChanged, TokenRotated
<1>4. BreakerReset(r) \in Row
  BY DEF BreakerReset
<1>5. AfterFailure(r) \in Row
  <2> DEFINE n == r.failures + 1
  <2>1. n \in Nat
    OBVIOUS
  <2>2. CASE n >= BreakerThreshold
    BY <2>1, <2>2 DEF AfterFailure
  <2>3. CASE ~(n >= BreakerThreshold)
    BY <2>1, <2>3 DEF AfterFailure
  <2> QED BY <2>2, <2>3
<1> QED BY <1>1, <1>2, <1>3, <1>4, <1>5

(* The initial row, requests and deliveries have their types. *)
LEMMA TypeInit == Init => TypeOK
BY RowStatements, LifecycleAssumption, ThresholdAssumption
   DEF Init, TypeOK, Pairs, NoPair, NoUrl, NewRow, Row, Statuses

(* Every step of operator, planner and workers keeps the types. *)
LEMMA TypeStep == TypeOK /\ [Next]_vars => TypeOK'
<1> SUFFICES ASSUME TypeOK, [Next]_vars PROVE TypeOK'
  OBVIOUS
<1> USE DEF TypeOK
<1>t. NoPair \in Pairs /\ (Target \in Pairs)
  BY LifecycleAssumption DEF Pairs, NoPair, Target, NoUrl
<1>1. CASE Create
  BY <1>1, RowStatements, LifecycleAssumption DEF Create, callVars, jobVars
<1>2. CASE RotateToken
  BY <1>2, RowStatements, LifecycleAssumption DEF RotateToken, Editing, callVars, jobVars
<1>3. CASE Delete
  BY <1>3 DEF Delete, Editing, callVars
<1>4. ASSUME NEW u \in Urls, NEW reset \in BOOLEAN, NEW on \in BOOLEAN, Update(u, reset, on)
      PROVE  TypeOK'
  <2>1. row' \in Row
    BY <1>4, RowStatements DEF Update
  <2> QED BY <1>4, <2>1 DEF Update, callVars, jobVars
<1>5. ASSUME NEW h \in Handshakes, Begin(h) PROVE TypeOK'
  BY <1>5, <1>t DEF Begin, serviceVars, jobVars
<1>6. ASSUME NEW h \in Handshakes, Echoed(h) PROVE TypeOK'
  BY <1>6 DEF Echoed, serviceVars, jobVars
<1>7. ASSUME NEW h \in Handshakes, Failed(h) PROVE TypeOK'
  BY <1>7 DEF Failed, serviceVars, jobVars
<1>8. ASSUME NEW h \in Handshakes, Conclude(h) PROVE TypeOK'
  <2>1. row' \in Row
    BY <1>8, RowStatements DEF Conclude
  <2> QED BY <1>8, <2>1, <1>t DEF Conclude, Finished, jobVars
<1>9. ASSUME NEW h \in Handshakes, Drop(h) PROVE TypeOK'
  BY <1>9, <1>t DEF Drop, Finished, serviceVars, jobVars
<1>10. ASSUME NEW j \in Jobs, Planned(j) PROVE TypeOK'
  BY <1>10 DEF Planned, serviceVars, callVars
<1>11. ASSUME NEW j \in Jobs, Claimed(j) \/ Hydrated(j) PROVE TypeOK'
  BY <1>11, <1>t DEF Claimed, Hydrated, serviceVars, callVars
<1>12. ASSUME NEW j \in Jobs, Success(j) PROVE TypeOK'
  <2>1. row' \in Row
    BY <1>12, RowStatements DEF Success
  <2> QED BY <1>12, <2>1, <1>t DEF Success, Reported, callVars
<1>13. ASSUME NEW j \in Jobs, Failure(j) PROVE TypeOK'
  <2>1. row' \in Row
    BY <1>13, RowStatements DEF Failure
  <2>2. \E next \in {"none", "queued"} : Reported(j, next)
    BY <1>13 DEF Failure
  <2> QED BY <2>1, <2>2, <1>t DEF Reported, callVars
<1>14. CASE UNCHANGED vars
  BY <1>14 DEF vars, serviceVars, callVars, jobVars
<1> QED
  BY <1>1, <1>2, <1>3, <1>4, <1>5, <1>6, <1>7, <1>8, <1>9, <1>10, <1>11, <1>12, <1>13, <1>14
     DEF Next, Operator, Verifying, Working

(***************************************************************************)
(* The columns of the row and the state of every request and delivery keep *)
(* their types.                                                            *)
(***************************************************************************)
THEOREM ServiceTypeCorrect == Spec => []TypeOK
BY TypeInit, TypeStep, PTL DEF Spec

-----------------------------------------------------------------------------
(* What each statement does to the columns the breaker is made of. *)

Armed(r) ==
  /\ r.status = "verified" => r.failures < BreakerThreshold /\ ~r.tripped /\ r.proved
  /\ r.status = "disabled" => r.tripped

LEMMA StatementsArmed ==
  ASSUME NEW r \in Row, Armed(r)
  PROVE  /\ Armed(NewRow) /\ Armed(Verified(r)) /\ Armed(VerifyFailed(r))
         /\ Armed(UrlChanged(r)) /\ Armed(BreakerReset(r)) /\ Armed(TokenRotated(r))
         /\ Armed(AfterSuccess(r)) /\ Armed(AfterFailure(r))
BY ThresholdAssumption
   DEF Armed, Row, Statuses, NewRow, Verified, VerifyFailed, UrlChanged, BreakerReset,
       TokenRotated, AfterSuccess, AfterFailure

(* The row changes by those statements only. *)
LEMMA ArmedStep == TypeOK /\ Armed(row) /\ [Next]_vars => Armed(row)'
<1> SUFFICES ASSUME TypeOK, Armed(row), [Next]_vars PROVE Armed(row')
  BY DEF Armed
<1>r. row \in Row
  BY DEF TypeOK
<1>1. CASE Create
  BY <1>1, <1>r, StatementsArmed DEF Create
<1>2. CASE RotateToken
  BY <1>2, <1>r, StatementsArmed DEF RotateToken
<1>3. ASSUME NEW u \in Urls, NEW reset \in BOOLEAN, NEW on \in BOOLEAN, Update(u, reset, on)
      PROVE  Armed(row')
  <2> DEFINE r == IF reset THEN BreakerReset(row) ELSE row
  <2>1. r \in Row /\ Armed(r)
    BY <1>r, StatementsArmed, RowStatements
  <2>2. Armed(UrlChanged(r))
    BY <2>1, StatementsArmed
  <2> QED BY <1>3, <2>1, <2>2 DEF Update
<1>4. ASSUME NEW h \in Handshakes, Conclude(h) PROVE Armed(row')
  BY <1>4, <1>r, StatementsArmed DEF Conclude
<1>5. ASSUME NEW j \in Jobs, Success(j) PROVE Armed(row')
  BY <1>5, <1>r, StatementsArmed DEF Success
<1>6. ASSUME NEW j \in Jobs, Failure(j) PROVE Armed(row')
  BY <1>6, <1>r, StatementsArmed DEF Failure
<1>7. ASSUME row' = row PROVE Armed(row')
  BY <1>7
<1>8. CASE Delete
  BY <1>8, <1>7 DEF Delete
<1>9. ASSUME NEW h \in Handshakes, Begin(h) \/ Echoed(h) \/ Failed(h) \/ Drop(h) PROVE Armed(row')
  BY <1>9, <1>7 DEF Begin, Echoed, Failed, Drop, serviceVars
<1>10. ASSUME NEW j \in Jobs, Planned(j) \/ Claimed(j) \/ Hydrated(j) PROVE Armed(row')
  BY <1>10, <1>7 DEF Planned, Claimed, Hydrated, serviceVars
<1>11. CASE UNCHANGED vars
  BY <1>11, <1>7 DEF vars, serviceVars
<1> QED
  BY <1>1, <1>2, <1>3, <1>4, <1>5, <1>6, <1>8, <1>9, <1>10, <1>11
     DEF Next, Operator, Verifying, Working

(***************************************************************************)
(* Whatever the API, the handshakes and the deliveries do to the row, and  *)
(* in whatever order, a verified service has an armed breaker and a        *)
(* disabled one its disabled_at.                                           *)
(***************************************************************************)
THEOREM BreakerArmedHolds == Spec => []BreakerArmed
<1>1. Init => Armed(row)
  BY DEF Init, Armed, NewRow
<1>2. Armed(row) => BreakerArmed
  BY DEF Armed, BreakerArmed
<1> QED BY <1>1, <1>2, TypeInit, TypeStep, ArmedStep, PTL DEF Spec

-----------------------------------------------------------------------------
(***************************************************************************)
(* Why overlap is the only way to a verification that proves nothing: as   *)
(* long as nobody edits the service during a handshake, the verdict still  *)
(* speaks of the row as it is.                                             *)
(***************************************************************************)
Vouched == TypeOK /\ Verdicts /\ VerifiedIsProven

(* At first nothing is verified and no request runs. *)
LEMMA VouchedInit == Init => Vouched
BY TypeInit DEF Init, Vouched, Verdicts, VerifiedIsProven, Live

(* Every step keeps verdicts and verification true of the row as it is. *)
LEMMA VouchedStep == ~Overlap /\ Vouched /\ [Next]_vars => Vouched'
<1> SUFFICES ASSUME ~Overlap, Vouched, [Next]_vars PROVE Vouched'
  OBVIOUS
<1>t. TypeOK /\ TypeOK' /\ row \in Row
  BY TypeStep DEF Vouched, TypeOK
<1> SUFFICES Verdicts' /\ VerifiedIsProven'
  BY <1>t DEF Vouched
<1>v. Verdicts /\ VerifiedIsProven
  BY DEF Vouched
(* Edits find no handshake under way. *)
<1>e. Editing => \A h \in Handshakes : call[h] = "idle"
  BY DEF Editing, Shaking
<1>1. CASE Create
  <2>1. \A h \in Handshakes : call'[h] = "idle"
    BY <1>1, <1>v DEF Create, callVars, Verdicts
  <2>2. row'.status = "pending"
    BY <1>1 DEF Create, NewRow
  <2> QED BY <2>1, <2>2 DEF Verdicts, VerifiedIsProven
<1>2. CASE RotateToken
  <2>1. \A h \in Handshakes : call'[h] = "idle"
    BY <1>2, <1>e DEF RotateToken, callVars
  <2>2. row'.status = "pending"
    BY <1>2, <1>t DEF RotateToken, TokenRotated, Row
  <2> QED BY <2>1, <2>2 DEF Verdicts, VerifiedIsProven
<1>3. CASE Delete
  <2>1. \A h \in Handshakes : call'[h] = "idle"
    BY <1>3, <1>e DEF Delete, callVars
  <2>2. ~Live'
    BY <1>3 DEF Delete, Live
  <2> QED BY <2>1, <2>2 DEF Verdicts, VerifiedIsProven
<1>4. ASSUME NEW u \in Urls, NEW reset \in BOOLEAN, NEW on \in BOOLEAN, Update(u, reset, on)
      PROVE  Verdicts' /\ VerifiedIsProven'
  <2>1. \A h \in Handshakes : call'[h] = "idle"
    BY <1>4, <1>e DEF Update, callVars
  <2>2. Verdicts'
    BY <2>1 DEF Verdicts
  <2> DEFINE r == IF reset THEN BreakerReset(row) ELSE row
  <2>3. r \in Row /\ (r.status = "verified" => row.status = "verified")
    BY <1>t, RowStatements DEF BreakerReset, Row
  <2>4. CASE u # url
    <3>1. row'.status = "pending"
      BY <1>4, <2>3, <2>4 DEF Update, UrlChanged, Row
    <3> QED BY <2>2, <3>1 DEF VerifiedIsProven
  <2>5. CASE u = url
    <3>1. row' = r /\ Target' = Target /\ proven' = proven /\ Live' = Live
      BY <1>4, <2>5 DEF Update, Target, Live
    <3> QED BY <2>2, <2>3, <3>1, <1>v DEF VerifiedIsProven
  <2> QED BY <2>4, <2>5
<1>5. ASSUME NEW h \in Handshakes, Begin(h) PROVE Verdicts' /\ VerifiedIsProven'
  BY <1>5, <1>v, <1>t DEF Begin, serviceVars, Verdicts, VerifiedIsProven, Live, Target, TypeOK
<1>6. ASSUME NEW h \in Handshakes, Echoed(h) PROVE Verdicts' /\ VerifiedIsProven'
  BY <1>6, <1>v, <1>t DEF Echoed, serviceVars, Verdicts, VerifiedIsProven, Live, Target, TypeOK
<1>7. ASSUME NEW h \in Handshakes, Failed(h) PROVE Verdicts' /\ VerifiedIsProven'
  BY <1>7, <1>v, <1>t DEF Failed, serviceVars, Verdicts, VerifiedIsProven, Live, Target, TypeOK
<1>8. ASSUME NEW h \in Handshakes, Finished(h), life' = life, url' = url, token' = token
      PROVE  Verdicts'
  BY <1>8, <1>v, <1>t DEF Finished, Verdicts, Live, Target, TypeOK
<1>9. ASSUME NEW h \in Handshakes, Conclude(h) PROVE Verdicts' /\ VerifiedIsProven'
  <2>1. Verdicts'
    BY <1>9, <1>8 DEF Conclude
  <2>2. proven' = proven /\ Live' = Live /\ Target' = Target
    BY <1>9 DEF Conclude, Finished, Live, Target
  <2>3. ASSUME Live, row'.status = "verified" PROVE Target \in proven
    <3>1. call[h] = "verified"
      BY <1>9, <2>3, <1>t DEF Conclude, VerifyFailed, Row
    <3> QED BY <3>1, <2>3, <1>v DEF Verdicts
  <2> QED BY <2>1, <2>2, <2>3 DEF VerifiedIsProven
<1>10. ASSUME NEW h \in Handshakes, Drop(h) PROVE Verdicts' /\ VerifiedIsProven'
  <2>1. Verdicts'
    BY <1>10, <1>8 DEF Drop, serviceVars
  <2> QED BY <2>1, <1>10, <1>v DEF Drop, Finished, serviceVars, VerifiedIsProven, Live, Target
(* Deliveries touch the row through the breaker only, which verifies nothing. *)
<1>11. ASSUME row'.status = "verified" => row.status = "verified",
              UNCHANGED <<life, url, token, call, seen, proven>>
       PROVE  Verdicts' /\ VerifiedIsProven'
  BY <1>11, <1>v DEF Verdicts, VerifiedIsProven, Live, Target
<1>12. ASSUME NEW j \in Jobs, Planned(j) \/ Claimed(j) \/ Hydrated(j)
       PROVE  Verdicts' /\ VerifiedIsProven'
  BY <1>12, <1>11 DEF Planned, Claimed, Hydrated, serviceVars, callVars
<1>13. ASSUME NEW j \in Jobs, Success(j) PROVE Verdicts' /\ VerifiedIsProven'
  <2>1. row'.status = "verified" => row.status = "verified"
    BY <1>13, <1>t DEF Success, AfterSuccess, Row
  <2> QED BY <1>13, <2>1, <1>11 DEF Success, Reported, callVars
<1>14. ASSUME NEW j \in Jobs, Failure(j) PROVE Verdicts' /\ VerifiedIsProven'
  <2>1. AfterFailure(row).status = "verified" => row.status = "verified"
    BY <1>t DEF AfterFailure, Row
  <2>2. row'.status = "verified" => row.status = "verified"
    BY <1>14, <2>1 DEF Failure
  <2>3. \E next \in {"none", "queued"} : Reported(j, next)
    BY <1>14 DEF Failure
  <2> QED BY <2>2, <2>3, <1>11 DEF Reported, callVars
<1>15. CASE UNCHANGED vars
  BY <1>15, <1>11 DEF vars, serviceVars, callVars
<1> QED
  BY <1>1, <1>2, <1>3, <1>4, <1>5, <1>6, <1>7, <1>9, <1>10, <1>12, <1>13, <1>14, <1>15
     DEF Next, Operator, Verifying, Working

(***************************************************************************)
(* A verified service has proven its token at its address, provided the    *)
(* operator never edits it while it is being verified.                     *)
(***************************************************************************)
THEOREM VerifiedIsProvenHolds == ~Overlap => (Spec => []VerifiedIsProven)
<1> SUFFICES ASSUME ~Overlap PROVE Spec => []VerifiedIsProven
  OBVIOUS
<1>1. Vouched => VerifiedIsProven
  BY DEF Vouched
<1>2. Vouched /\ [Next]_vars => Vouched'
  BY VouchedStep
<1> QED BY <1>1, <1>2, VouchedInit, PTL DEF Spec

-----------------------------------------------------------------------------
(***************************************************************************)
(* What needs no assumption about overlap: a verdict speaks of a handshake *)
(* that took place, and only a verdict verifies.                           *)
(***************************************************************************)
Answered == \A h \in Handshakes : call[h] = "verified" => seen[h] \in proven

AnsweredInv == TypeOK /\ Answered

VerdictStep ==
  row.status # "verified" /\ row'.status = "verified" =>
    /\ row'.failures = 0 /\ ~row'.tripped
    /\ \E h \in Handshakes :
         call[h] = "verified" /\ call'[h] = "idle" /\ seen[h] \in proven

(* The statements that are no verdict verify nothing. *)
LEMMA StatementsVerifyNothing ==
  ASSUME NEW r \in Row
  PROVE  /\ NewRow.status # "verified" /\ VerifyFailed(r).status # "verified"
         /\ UrlChanged(r).status # "verified" /\ TokenRotated(r).status # "verified"
         /\ BreakerReset(r).status # "verified" /\ AfterSuccess(r).status = r.status
         /\ AfterFailure(r).status \in {r.status, "disabled"}
<1>1. AfterFailure(r).status \in {r.status, "disabled"}
  BY DEF AfterFailure, Row
<1> QED
  BY <1>1 DEF Row, NewRow, VerifyFailed, UrlChanged, TokenRotated, BreakerReset, AfterSuccess

(* Handshakes are answered once and for all, and verify as they end. *)
LEMMA AnsweredStep == AnsweredInv /\ [Next]_vars => AnsweredInv' /\ VerdictStep
<1> SUFFICES ASSUME AnsweredInv, [Next]_vars PROVE Answered' /\ VerdictStep
  BY TypeStep DEF AnsweredInv
<1>t. row \in Row /\ call \in [Handshakes -> {"idle", "shaking", "verified", "failed"}]
      /\ seen \in [Handshakes -> Pairs] /\ Answered
  BY DEF AnsweredInv, TypeOK
<1>1. ASSUME UNCHANGED <<call, seen, proven>>, row'.status # "verified" \/ row'.status = row.status
      PROVE  Answered' /\ VerdictStep
  BY <1>1, <1>t DEF Answered, VerdictStep
<1>2. CASE Create \/ RotateToken
  BY <1>1, <1>2, <1>t, StatementsVerifyNothing DEF Create, RotateToken, callVars
<1>3. CASE Delete
  BY <1>1, <1>3 DEF Delete, callVars
<1>4. ASSUME NEW u \in Urls, NEW reset \in BOOLEAN, NEW on \in BOOLEAN, Update(u, reset, on)
      PROVE  Answered' /\ VerdictStep
  <2> DEFINE r == IF reset THEN BreakerReset(row) ELSE row
  <2>1. r \in Row /\ (r.status = row.status \/ r.status # "verified")
    BY <1>t, RowStatements, StatementsVerifyNothing
  <2>2. UrlChanged(r).status # "verified"
    BY <2>1, StatementsVerifyNothing
  <2>3. row' = IF u # url THEN UrlChanged(r) ELSE r
    BY <1>4 DEF Update
  <2>4. row'.status # "verified" \/ row'.status = row.status
    BY <2>1, <2>2, <2>3
  <2> QED BY <1>1, <1>4, <2>4 DEF Update, callVars
<1>5. ASSUME NEW h \in Handshakes, Begin(h) \/ Echoed(h) \/ Failed(h) PROVE Answered' /\ VerdictStep
  BY <1>5, <1>t DEF Begin, Echoed, Failed, serviceVars, Answered, VerdictStep
<1>6. ASSUME NEW h \in Handshakes, Finished(h) PROVE Answered'
  BY <1>6, <1>t DEF Finished, Answered
<1>7. ASSUME NEW h \in Handshakes, Conclude(h) PROVE VerdictStep
  <2>1. call'[h] = "idle"
    BY <1>7, <1>t DEF Conclude, Finished
  <2>2. CASE Live /\ call[h] = "verified"
    <3>1. row' = Verified(row)
      BY <1>7, <2>2 DEF Conclude
    <3>2. row'.failures = 0 /\ ~row'.tripped
      BY <3>1 DEF Verified
    <3> QED BY <1>t, <2>1, <2>2, <3>2 DEF Answered, VerdictStep
  <2>3. CASE ~(Live /\ call[h] = "verified")
    BY <1>7, <1>t, <2>3, StatementsVerifyNothing DEF Conclude, VerdictStep
  <2> QED BY <2>2, <2>3
<1>8. ASSUME NEW h \in Handshakes, Drop(h) PROVE Answered' /\ VerdictStep
  BY <1>6, <1>8 DEF Drop, serviceVars, VerdictStep
<1>9. ASSUME NEW h \in Handshakes, Conclude(h) PROVE Answered'
  BY <1>6, <1>9 DEF Conclude
<1>10. ASSUME NEW j \in Jobs, Working(j) PROVE Answered' /\ VerdictStep
  <2>1. CASE Planned(j) \/ Claimed(j) \/ Hydrated(j)
    BY <1>1, <2>1 DEF Planned, Claimed, Hydrated, serviceVars, callVars
  <2>2. CASE Success(j)
    BY <1>1, <1>t, <2>2, StatementsVerifyNothing DEF Success, Reported, callVars
  <2>3. CASE Failure(j)
    <3>1. \E next \in {"none", "queued"} : Reported(j, next)
      BY <2>3 DEF Failure
    <3>2. row' = row \/ row' = AfterFailure(row)
      BY <2>3 DEF Failure
    <3>3. row'.status = row.status \/ row'.status # "verified"
      BY <1>t, <3>2, StatementsVerifyNothing
    <3> QED BY <1>1, <3>1, <3>3 DEF Reported, callVars
  <2> QED BY <1>10, <2>1, <2>2, <2>3 DEF Working
<1>11. CASE UNCHANGED vars
  BY <1>1, <1>11 DEF vars, serviceVars, callVars
<1> QED
  BY <1>2, <1>3, <1>4, <1>5, <1>7, <1>8, <1>9, <1>10, <1>11 DEF Next, Operator, Verifying

(***************************************************************************)
(* Only the verdict of an answered handshake brings a service into         *)
(* fan-out, once per handshake and with a fresh breaker, also when edits   *)
(* and handshakes overlap.                                                 *)
(***************************************************************************)
THEOREM VerifiedByHandshakeHolds == Spec => VerifiedByHandshake
<1>1. Init => AnsweredInv
  BY TypeInit DEF Init, AnsweredInv, Answered
<1>2. AnsweredInv /\ [Next]_vars => AnsweredInv'
  BY AnsweredStep
<1>3. AnsweredInv /\ [Next]_vars => [VerdictStep]_vars
  BY AnsweredStep
<1>4. Spec => [][VerdictStep]_vars
  BY <1>1, <1>2, <1>3, PTL DEF Spec
<1> QED BY <1>4 DEF VerifiedByHandshake, VerdictStep

-----------------------------------------------------------------------------
(***************************************************************************)
(* Why a delivery may carry a token nobody has proven (OnlyProvenTargets): *)
(* besides overlap, only because the statement that reads the token does   *)
(* not ask whether the service is still verified.  That the UPDATE before  *)
(* it asked would not be enough: the token may be rotated between the two. *)
(***************************************************************************)
HydrationAsks == [][\A j \in Jobs : Hydrated(j) /\ Live => row.status = "verified"]_vars

AimedInv == Vouched /\ OnlyProvenTargets

(* What is proven stays proven. *)
LEMMA ProvenGrows == TypeOK /\ [Next]_vars => proven \subseteq proven'
<1> SUFFICES ASSUME TypeOK, [Next]_vars PROVE proven \subseteq proven'
  OBVIOUS
<1>1. CASE Operator
  BY <1>1 DEF Operator, Create, RotateToken, Delete, Update
<1>2. ASSUME NEW h \in Handshakes, Verifying(h) PROVE proven \subseteq proven'
  BY <1>2 DEF Verifying, Begin, Echoed, Failed, Conclude, Drop, Finished
<1>3. ASSUME NEW j \in Jobs, Working(j) PROVE proven \subseteq proven'
  BY <1>3 DEF Working, Planned, Claimed, Hydrated, Success, Failure, Reported
<1> QED BY <1>1, <1>2, <1>3 DEF Next, vars

(* A worker aims at what a verified service has proven. *)
LEMMA AimedStep ==
  ASSUME ~Overlap, AimedInv, [Next]_vars,
         [\A j \in Jobs : Hydrated(j) /\ Live => row.status = "verified"]_vars
  PROVE  AimedInv'
<1>1. Vouched' /\ TypeOK /\ VerifiedIsProven /\ OnlyProvenTargets
  BY VouchedStep DEF AimedInv, Vouched
<1>2. proven \subseteq proven'
  BY <1>1, ProvenGrows
<1>3. job \in [Jobs -> {"none", "queued", "claimed", "held"}] /\ aim \in [Jobs -> Pairs]
  BY <1>1 DEF TypeOK
<1>4. ASSUME aim' = aim, \A j \in Jobs : job'[j] = "held" => job[j] = "held"
      PROVE  OnlyProvenTargets'
  BY <1>1, <1>2, <1>4 DEF OnlyProvenTargets
<1>5. ASSUME NEW j \in Jobs, NEW next \in {"none", "queued"}, Reported(j, next)
      PROVE  OnlyProvenTargets'
  BY <1>1, <1>2, <1>3, <1>5 DEF OnlyProvenTargets, Reported
<1>6. ASSUME Operator PROVE OnlyProvenTargets'
  BY <1>3, <1>4, <1>6 DEF Operator, Create, RotateToken, Delete, Update, jobVars
<1>7. ASSUME NEW h \in Handshakes, Verifying(h) PROVE OnlyProvenTargets'
  BY <1>4, <1>7 DEF Verifying, Begin, Echoed, Failed, Conclude, Drop, Finished, jobVars
<1>8. ASSUME NEW j \in Jobs, Planned(j) \/ Claimed(j) PROVE OnlyProvenTargets'
  BY <1>3, <1>4, <1>8 DEF Planned, Claimed
<1>9. ASSUME NEW j \in Jobs, Hydrated(j) PROVE OnlyProvenTargets'
  <2>1. job[j] = "claimed"
    BY <1>9 DEF Hydrated
  <2>2. CASE Live
    <3>1. job' = [job EXCEPT ![j] = "held"] /\ aim' = [aim EXCEPT ![j] = Target]
      BY <1>9, <2>2 DEF Hydrated
    <3>2. job' # job
      BY <1>3, <2>1, <3>1
    <3>3. Target \in proven
      BY <1>1, <1>9, <2>2, <3>2 DEF VerifiedIsProven, vars, jobVars
    <3> QED BY <1>1, <1>2, <1>3, <3>1, <3>3 DEF OnlyProvenTargets
  <2>3. CASE ~Live
    BY <1>3, <1>4, <1>9, <2>3 DEF Hydrated
  <2> QED BY <2>2, <2>3
<1>10. ASSUME NEW j \in Jobs, Success(j) \/ Failure(j) PROVE OnlyProvenTargets'
  BY <1>5, <1>10 DEF Success, Failure
<1>11. ASSUME UNCHANGED vars PROVE OnlyProvenTargets'
  BY <1>4, <1>11 DEF vars, jobVars
<1> QED
  BY <1>1, <1>6, <1>7, <1>8, <1>9, <1>10, <1>11 DEF AimedInv, Next, Working

(***************************************************************************)
(* No delivery goes out with a token or to an address the service has not  *)
(* proven, provided nobody edits the service during a handshake and the    *)
(* hydrating query gives rows of verified services only.                   *)
(***************************************************************************)
THEOREM OnlyProvenWhenHydrationAsks ==
  ~Overlap => (Spec /\ HydrationAsks => []OnlyProvenTargets)
<1> SUFFICES ASSUME ~Overlap PROVE Spec /\ HydrationAsks => []OnlyProvenTargets
  OBVIOUS
<1>1. Init => AimedInv
  BY VouchedInit DEF Init, AimedInv, OnlyProvenTargets
<1>2. AimedInv /\ [Next]_vars
        /\ [\A j \in Jobs : Hydrated(j) /\ Live => row.status = "verified"]_vars => AimedInv'
  BY AimedStep
<1>3. AimedInv => OnlyProvenTargets
  BY DEF AimedInv
<1> QED BY <1>1, <1>2, <1>3, PTL DEF Spec, HydrationAsks

=============================================================================
