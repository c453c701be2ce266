-------------------------- MODULE ServiceLifecycle --------------------------
(***************************************************************************)
(* One service from its creation to its deletion: the operator edits it,   *)
(* rotates its link token and has it verified; the planner gives it        *)
(* deliveries while it is verified; workers deliver them and report to the *)
(* circuit breaker.                                                        *)
(*                                                                         *)
(* Each API request runs on its own goroutine and is one statement on the  *)
(* row, except Verify: it reads the row, talks to the service for as long  *)
(* as the handshake takes, and then writes the verdict.  A delivery is     *)
(* claimed by one statement, reads address and token with the next and     *)
(* reports later.  So both act on what the row said some time ago.         *)
(***************************************************************************)
EXTENDS ServiceRow, FiniteSets

CONSTANTS
  Urls,         \* addresses the operator may enter
  Handshakes,   \* Verify requests that may run at once
  Jobs,         \* deliveries of the service that may exist at once
  Overlap,      \* whether the operator edits the service while a Verify request runs
  MaxTokens,    \* bound: link tokens issued
  MaxFailures   \* bound: consecutive_failures

ASSUME LifecycleAssumption ==
  /\ Overlap \in BOOLEAN
  /\ MaxTokens \in Nat \ {0}
  /\ MaxFailures \in Nat

VARIABLES
  life,       \* "none", "live" and "gone": the service's row
  row,        \* its columns that decide about fan-out
  enabled,    \* services.enabled
  url, token, \* services.url and the version of services.link_token
  call,       \* each Verify request: "idle", "shaking", or the verdict it is to record
  seen,       \* the <<url, token>> it read
  job,        \* each delivery: "none", "queued", "claimed", "held" by a worker that read it
  aim,        \* the <<url, token>> its worker read
  proven      \* history: pairs some handshake succeeded with

serviceVars == <<life, row, enabled, url, token>>
callVars    == <<call, seen>>
jobVars     == <<job, aim>>
vars == <<serviceVars, callVars, jobVars, proven>>

NoUrl  == "none"
Pairs  == (Urls \union {NoUrl}) \X (0..MaxTokens)
NoPair == <<NoUrl, 0>>
Target == <<url, token>>
Live   == life = "live"
Shaking == {h \in Handshakes : call[h] # "idle"}

Init ==
  /\ life = "none" /\ row = NewRow /\ enabled = TRUE
  /\ url = NoUrl /\ token = 0
  /\ call = [h \in Handshakes |-> "idle"] /\ seen = [h \in Handshakes |-> NoPair]
  /\ job = [j \in Jobs |-> "none"] /\ aim = [j \in Jobs |-> NoPair]
  /\ proven = {}

-----------------------------------------------------------------------------
(***************************************************************************)
(* The operator's requests.                                                *)
(***************************************************************************)

\* The operator works on the service: with Overlap, also while it verifies.
Editing == Live /\ (Overlap \/ Shaking = {})

Create ==
  /\ life = "none" /\ life' = "live"
  /\ url' \in Urls /\ token' = 1
  /\ row' = NewRow /\ enabled' \in BOOLEAN
  /\ UNCHANGED <<callVars, jobVars, proven>>

\* PATCH.  A url equal to the stored one changes nothing.
Update(u, reset, on) ==
  /\ Editing
  /\ LET r == IF reset THEN BreakerReset(row) ELSE row
     IN row' = IF u # url THEN UrlChanged(r) ELSE r
  /\ url' = u /\ enabled' = on
  /\ UNCHANGED <<life, token, callVars, jobVars, proven>>

RotateToken ==
  /\ Editing /\ token < MaxTokens
  /\ token' = token + 1
  /\ row' = TokenRotated(row)
  /\ UNCHANGED <<life, enabled, url, callVars, jobVars, proven>>

\* The row goes and its deliveries with it; workers keep what they hold.
Delete ==
  /\ Editing /\ life' = "gone"
  /\ job' = [j \in Jobs |-> IF job[j] = "queued" THEN "none" ELSE job[j]]
  /\ UNCHANGED <<row, enabled, url, token, callVars, aim, proven>>

-----------------------------------------------------------------------------
(***************************************************************************)
(* Verify.                                                                 *)
(***************************************************************************)

Begin(h) ==
  /\ Live /\ call[h] = "idle"
  /\ call' = [call EXCEPT ![h] = "shaking"]
  /\ seen' = [seen EXCEPT ![h] = Target]
  /\ UNCHANGED <<serviceVars, jobVars, proven>>

\* The service echoes the challenge.
Echoed(h) ==
  /\ call[h] = "shaking"
  /\ call' = [call EXCEPT ![h] = "verified"]
  /\ proven' = proven \union {seen[h]}
  /\ UNCHANGED <<serviceVars, seen, jobVars>>

\* It does not, cannot be reached or takes too long.
Failed(h) ==
  /\ call[h] = "shaking"
  /\ call' = [call EXCEPT ![h] = "failed"]
  /\ UNCHANGED <<serviceVars, seen, jobVars, proven>>

Finished(h) ==
  /\ call' = [call EXCEPT ![h] = "idle"]
  /\ seen' = [seen EXCEPT ![h] = NoPair]
  /\ UNCHANGED <<jobVars, proven>>

\* MarkVerified and MarkVerifyFailed: WHERE id = $1, whatever the row has
\* become since it was read.
Conclude(h) ==
  /\ call[h] \in {"verified", "failed"}
  /\ row' = IF ~Live THEN row
            ELSE IF call[h] = "verified" THEN Verified(row) ELSE VerifyFailed(row)
  /\ Finished(h)
  /\ UNCHANGED <<life, enabled, url, token>>

\* The token cannot be decrypted, the client hangs up or the process ends.
Drop(h) == call[h] # "idle" /\ Finished(h) /\ UNCHANGED serviceVars

-----------------------------------------------------------------------------
(***************************************************************************)
(* Planner and workers.                                                    *)
(***************************************************************************)

Planned(j) ==
  /\ Live /\ enabled /\ row.status = "verified"
  /\ job[j] = "none" /\ job' = [job EXCEPT ![j] = "queued"]
  /\ UNCHANGED <<serviceVars, callVars, aim, proven>>

\* The UPDATE of ClaimDeliveries asks for due rows and not for the state of their
\* service.
Claimed(j) ==
  /\ job[j] = "queued" /\ job' = [job EXCEPT ![j] = "claimed"]
  /\ UNCHANGED <<serviceVars, callVars, aim, proven>>

\* Its second statement reads address and token, and finds nothing once the service
\* is gone.
Hydrated(j) ==
  /\ job[j] = "claimed"
  /\ \/ /\ Live
        /\ job' = [job EXCEPT ![j] = "held"] /\ aim' = [aim EXCEPT ![j] = Target]
     \/ /\ ~Live
        /\ job' = [job EXCEPT ![j] = "none"] /\ UNCHANGED aim
  /\ UNCHANGED <<serviceVars, callVars, proven>>

Reported(j, next) ==
  /\ job[j] = "held" /\ job' = [job EXCEPT ![j] = next]
  /\ aim' = [aim EXCEPT ![j] = NoPair]
  /\ UNCHANGED <<life, enabled, url, token, callVars, proven>>

Success(j) ==
  /\ Reported(j, "none")
  /\ row' = IF Live THEN AfterSuccess(row) ELSE row

\* Another attempt may follow.  A row that is gone makes the report fail.
Failure(j) ==
  /\ row.failures < MaxFailures
  /\ \/ /\ Live
        /\ \E next \in {"none", "queued"} : Reported(j, next)
        /\ row' = AfterFailure(row)
     \/ /\ ~Live
        /\ Reported(j, "none")
        /\ UNCHANGED row

-----------------------------------------------------------------------------
Operator ==
  \/ Create \/ RotateToken \/ Delete
  \/ \E u \in Urls, reset, on \in BOOLEAN : Update(u, reset, on)

Verifying(h) == Begin(h) \/ Echoed(h) \/ Failed(h) \/ Conclude(h) \/ Drop(h)

Working(j) == Planned(j) \/ Claimed(j) \/ Hydrated(j) \/ Success(j) \/ Failure(j)

Next ==
  \/ Operator
  \/ \E h \in Handshakes : Verifying(h)
  \/ \E j \in Jobs : Working(j)

Spec == Init /\ [][Next]_vars

\* Planner and workers go on; nobody has to edit or verify anything.
FairSpec == Spec /\ \A j \in Jobs : WF_vars(Working(j))

-----------------------------------------------------------------------------
TypeOK ==
  /\ life \in {"none", "live", "gone"}
  /\ row \in Row /\ enabled \in BOOLEAN
  /\ url \in Urls \union {NoUrl} /\ token \in 0..MaxTokens
  /\ call \in [Handshakes -> {"idle", "shaking", "verified", "failed"}]
  /\ seen \in [Handshakes -> Pairs]
  /\ job \in [Jobs -> {"none", "queued", "claimed", "held"}]
  /\ aim \in [Jobs -> Pairs]
  /\ proven \in SUBSET Pairs

(***************************************************************************)
(* A service that takes part in fan-out has an armed breaker: fewer        *)
(* failures than the threshold, no trip left over, a verification on       *)
(* record.  A disabled one says when it was disabled.  (The statements     *)
(* write the four columns in different combinations, and any may follow    *)
(* any other.)                                                             *)
(***************************************************************************)
BreakerArmed ==
  /\ row.status = "verified" =>
       row.failures < BreakerThreshold /\ ~row.tripped /\ row.proved
  /\ row.status = "disabled" => row.tripped

(***************************************************************************)
(* A verified service has proven the token it has at the address it has.   *)
(* ("Changing the URL invalidates a previous verification: the token was   *)
(* proven against the old address, not the new one.")                      *)
(***************************************************************************)
VerifiedIsProven == Live /\ row.status = "verified" => Target \in proven

\* What VerifiedIsProven rests on: verdicts speak of handshakes that took
\* place, and without overlap of the row as it is.
Verdicts ==
  \A h \in Handshakes :
    /\ call[h] = "verified" => seen[h] \in proven
    /\ call[h] # "idle" => life # "none"
    /\ call[h] # "idle" /\ Live => seen[h] = Target

(***************************************************************************)
(* Only a handshake brings a service into fan-out, and each at most once:  *)
(* what makes it verified is the verdict of a request the service answered *)
(* and that ends with it, and its breaker starts afresh.  No edit, reset   *)
(* or successful delivery does it, in whatever order they come and also    *)
(* when they overlap.  (MarkVerified is the one statement that may.)       *)
(***************************************************************************)
VerifiedByHandshake ==
  [][row.status # "verified" /\ row'.status = "verified" =>
       /\ row'.failures = 0 /\ ~row'.tripped
       /\ \E h \in Handshakes :
            call[h] = "verified" /\ call'[h] = "idle" /\ seen[h] \in proven]_vars

(***************************************************************************)
(* No delivery goes out with a token or to an address the service has not  *)
(* proven.  ("the new token has not been proven against the backend, and   *)
(* until it is, no events are delivered")                                  *)
(***************************************************************************)
OnlyProvenTargets == \A j \in Jobs : job[j] = "held" => aim[j] \in proven

(***************************************************************************)
(* A service that only fails is cut off: when from some time on nothing    *)
(* succeeds and the operator leaves the service alone, it does not stay in *)
(* fan-out.  (CompleteDelivery's counter and the planner's query.)         *)
(***************************************************************************)
Relief == Operator \/ (\E h \in Handshakes : Verifying(h)) \/ (\E j \in Jobs : Success(j))

CutOff == <>[][~Relief]_vars => <>[](~(Live /\ enabled /\ row.status = "verified"))

=============================================================================
