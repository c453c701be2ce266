----------------------------- MODULE RetryPolicy ----------------------------
(***************************************************************************)
(* What becomes of a delivery after each answer of its service: Classify   *)
(* with the exponential backoff and the Retry-After header, over the whole *)
(* life of one delivery.                                                   *)
(*                                                                         *)
(* Durations are integers of a word that wraps, as time.Duration is; the   *)
(* floating-point product of the backoff cannot overflow.                  *)
(***************************************************************************)
EXTENDS Integers

CONSTANTS
  MaxAttempts,  \* max_attempts of the service
  Codes,        \* statuses a service may answer with
  Asked,        \* seconds a service may put into Retry-After
  Dates,        \* durations from now to the dates it may put there
  Second,       \* time.Second
  Word,         \* durations lie in -Word..(Word - 1)
  BackoffBase, BackoffCap

RetryAssumption ==
  /\ MaxAttempts \in Nat \ {0}
  /\ Codes \subseteq 100..599 /\ Asked \subseteq Int /\ Dates \subseteq Int
  /\ Second \in Nat \ {0} /\ BackoffBase \in Nat \ {0} /\ BackoffCap \in Nat
  /\ Word \in Nat /\ BackoffCap < Word

VARIABLES
  status,   \* "pending", "in_flight", "success", "failed", "dead"
  attempt,  \* attempt_count
  wait,     \* time until next_attempt_at
  pace,     \* history: how long the service asked to be left alone; 0 for not at all
  rest      \* history: how long it has been

vars == <<status, attempt, wait, pace, rest>>

LeastOf(a, b) == IF a < b THEN a ELSE b

-----------------------------------------------------------------------------
(***************************************************************************)
(* retry.go                                                                *)
(***************************************************************************)

Wrapped(n) == ((n + Word) % (2 * Word)) - Word

\* No header, or one that cannot be parsed.
NoHeader == [kind |-> "none", value |-> 0]

Headers ==
  {NoHeader} \union [kind : {"seconds"}, value : Asked] \union [kind : {"date"}, value : Dates]

\* parseRetryAfter: the product may wrap before it is capped.
RetryAfter(h) ==
  IF h.value <= 0 THEN 0
  ELSE IF h.kind = "seconds" THEN LeastOf(Wrapped(h.value * Second), BackoffCap)
  ELSE LeastOf(h.value, BackoffCap)

\* What the jitter is drawn below; the exponent is capped before the power is taken.
Ceiling(a) == LeastOf(BackoffBase * 2^LeastOf(a - 1, 30), BackoffCap)

\* Uniform over [0, ceiling), in whole units.
Backoff(a) == {d \in 0..BackoffCap : d = 0 \/ d < Ceiling(a)}

\* (Faulty variant: only zero is no hint.)
AnyHint(a, hint) == IF hint = 0 THEN Backoff(a) ELSE {LeastOf(hint, BackoffCap)}

\* The delays retryOrDead may choose; hint is 0 without a header.
Delays(a, hint) == IF hint <= 0 THEN Backoff(a) ELSE {LeastOf(hint, BackoffCap)}

\* (Faulty variant: only a service that says it is overloaded is listened to.)
TooManyOnly(code, h) == IF code = 429 THEN RetryAfter(h) ELSE 0

Hint(code, h) == IF code = 429 \/ code >= 500 THEN RetryAfter(h) ELSE 0

Success(code) == code \in 200..299

Terminal(code) == code \in 400..499 /\ code \notin {408, 429}

-----------------------------------------------------------------------------
Init ==
  /\ status = "pending" /\ attempt = 0 /\ wait = 0
  /\ pace = 0 /\ rest = 0

\* The claim and the request.
Send ==
  /\ status = "pending" /\ wait = 0
  /\ status' = "in_flight" /\ attempt' = attempt + 1
  /\ UNCHANGED <<wait, pace, rest>>

Decided(s) ==
  /\ status' = s /\ wait' = 0 /\ pace' = 0 /\ rest' = 0
  /\ UNCHANGED attempt

\* (Faulty variant: the attempt under way is counted as one to come.)
GivesUpEarly(hint, asked) ==
  \/ attempt + 1 >= MaxAttempts /\ Decided("dead")
  \/ /\ attempt + 1 < MaxAttempts
     /\ status' = "pending" /\ wait' \in Delays(attempt, hint)
     /\ pace' = asked /\ rest' = 0
     /\ UNCHANGED attempt

\* retryOrDead
RetryOrDead(hint, asked) ==
  \/ attempt >= MaxAttempts /\ Decided("dead")
  \/ /\ attempt < MaxAttempts
     /\ status' = "pending" /\ wait' \in Delays(attempt, hint)
     /\ pace' = asked /\ rest' = 0
     /\ UNCHANGED attempt

\* How long the answer asks for, whatever the code makes of it.
Request(code, h) ==
  IF (code # 429 /\ code < 500) \/ h.value <= 0 THEN 0
  ELSE IF h.kind = "seconds" THEN h.value * Second
  ELSE h.value

\* Classify and CompleteDelivery
Answered(code, h) ==
  /\ status = "in_flight"
  /\ \/ Success(code) /\ Decided("success")
     \/ Terminal(code) /\ Decided("failed")
     \/ ~Success(code) /\ ~Terminal(code) /\ RetryOrDead(Hint(code, h), Request(code, h))

\* A transport error.
Unanswered == status = "in_flight" /\ RetryOrDead(0, 0)

Tick ==
  /\ status = "pending" /\ wait > 0
  /\ wait' = wait - 1 /\ rest' = rest + 1
  /\ UNCHANGED <<status, attempt, pace>>

-----------------------------------------------------------------------------
Next ==
  \/ Send \/ Unanswered \/ Tick
  \/ \E code \in Codes, h \in Headers : Answered(code, h)

Spec == Init /\ [][Next]_vars

-----------------------------------------------------------------------------
TypeOK ==
  /\ status \in {"pending", "in_flight", "success", "failed", "dead"}
  /\ attempt \in 0..MaxAttempts
  /\ wait \in Nat /\ pace \in Nat /\ rest \in Nat

(***************************************************************************)
(* No delivery is put off for longer than the cap, nor into the past,      *)
(* whatever a service writes into Retry-After: products that wrap are      *)
(* negative, and then not taken for a hint, or short.  ("Absurd or         *)
(* unparseable values yield 0", at parseRetryAfter.)                       *)
(***************************************************************************)
DelayBounded == wait \in 0..BackoffCap /\ wait + rest <= BackoffCap

(***************************************************************************)
(* A service that says when to come back is left alone until then, up to   *)
(* the cap, if what it asked for fits the word.  ("The service told us its *)
(* own pace; prefer it over our backoff", at Classify.)                    *)
(***************************************************************************)
PaceHonoured ==
  status \in {"pending", "in_flight"} /\ pace < Word =>
    wait + rest >= LeastOf(pace, BackoffCap)

(***************************************************************************)
(* What the policy decides is what the delivery queue promises of a row    *)
(* (DeliveryLifecycle): each request is one more attempt, a delivery is    *)
(* given up only after max_attempts of them, and one that is decided stays *)
(* so.                                                                     *)
(***************************************************************************)
Queue ==
  INSTANCE DeliveryLifecycle
    WITH Deliveries <- {0}, status <- [d \in {0} |-> status],
         attempts <- [d \in {0} |-> attempt], requeues <- 0

KeepsPromise == [][Queue!Next]_<<status, attempt>>

=============================================================================
