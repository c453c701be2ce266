----------------------------- MODULE ServiceRow -----------------------------
(***************************************************************************)
(* The part of a row of the services table that decides whether a service  *)
(* takes part in fan-out, and every UPDATE the store runs on it.  Each     *)
(* operator is one statement of internal/store: it takes the row before    *)
(* and returns the row after.  The modules that own a services variable    *)
(* apply them, so that the dispatcher and the API change the row in one    *)
(* and the same way.                                                       *)
(***************************************************************************)
EXTENDS Naturals

CONSTANT BreakerThreshold  \* consecutive failures that disable a service

ASSUME ThresholdAssumption == BreakerThreshold \in Nat \ {0}

Statuses == {"pending", "verified", "failed", "disabled"}

\* proved is verified_at IS NOT NULL; tripped is disabled_at IS NOT NULL.
Row == [status : Statuses, failures : Nat, proved : BOOLEAN, tripped : BOOLEAN]

NewRow == [status |-> "pending", failures |-> 0, proved |-> FALSE, tripped |-> FALSE]

-----------------------------------------------------------------------------
\* The breaker half of CompleteDelivery.

AfterSuccess(r) == [r EXCEPT !.failures = 0]

\* (Faulty variant: the counter is computed but never stored.)
LostFailure(r) ==
  IF r.failures + 1 >= BreakerThreshold
  THEN [r EXCEPT !.status = "disabled", !.tripped = TRUE]
  ELSE r

AfterFailure(r) ==
  LET n == r.failures + 1 IN
  IF n >= BreakerThreshold
  THEN [r EXCEPT !.failures = n, !.status = "disabled", !.tripped = TRUE]
  ELSE [r EXCEPT !.failures = n]

-----------------------------------------------------------------------------
\* The statements behind the API.

\* (Faulty variant: a verification outlives the address it was made for.)
UrlKept(r)      == [r EXCEPT !.proved = FALSE]

UrlChanged(r)   == [r EXCEPT !.status = "pending", !.proved = FALSE]

\* (Faulty variant: the reset puts a service that was disabled back to work.)
ResetToVerified(r) ==
  IF r.tripped THEN [r EXCEPT !.status = "verified", !.failures = 0, !.tripped = FALSE]
  ELSE [r EXCEPT !.status = "pending", !.failures = 0]

BreakerReset(r) == [r EXCEPT !.status = "pending", !.failures = 0, !.tripped = FALSE]

TokenRotated(r) == [r EXCEPT !.status = "pending", !.proved = FALSE]

\* (Faulty variant: the failure counter is not cleared.)
VerifiedOnly(r) == [r EXCEPT !.status = "verified", !.proved = TRUE, !.tripped = FALSE]

Verified(r)     == [status |-> "verified", failures |-> 0, proved |-> TRUE, tripped |-> FALSE]

\* (Faulty variant: a status the CHECK constraint does not list.)
VerifyRefused(r) == [r EXCEPT !.status = "refused"]

VerifyFailed(r) == [r EXCEPT !.status = "failed"]

=============================================================================
