------------------------------- MODULE Sender -------------------------------
(***************************************************************************)
(* The pace at which one process sends to one service: its workers share   *)
(* a token bucket, rebuilt when a claim carries another rate than the last *)
(* one did.                                                                *)
(*                                                                         *)
(* The bucket of golang.org/x/time/rate fills steadily, and may be asked   *)
(* for a token at any moment, when it holds a fraction of one.  So time    *)
(* goes in ticks, any number of them to a second, and tokens are counted   *)
(* in as many parts: a tick adds rps parts, and a request takes            *)
(* TicksPerSecond of them.  The bucket promises tokens it will only have   *)
(* later and tells how long to wait for them; it refuses at once when that *)
(* is longer than the caller will wait.                                    *)
(***************************************************************************)
EXTENDS Integers, FiniteSets

CONSTANTS
  Workers,   \* worker goroutines of the process
  Rates,     \* values of rate_limit_rps; 0 is unlimited
  MaxWait,   \* seconds deliver waits for a token
  TicksPerSecond,
  Window,    \* bound: ticks the history of sends goes back
  MaxSends,  \* bound: requests in a tick after which no claim is taken
  MaxEdits   \* bound: edits of the rate

SenderAssumption ==
  /\ IsFiniteSet(Workers) /\ Rates \subseteq Nat /\ MaxWait \in Nat
  /\ TicksPerSecond \in Nat \ {0}
  /\ Window \in Nat \ {0} /\ MaxSends \in Nat /\ MaxEdits \in Nat

VARIABLES
  rps,      \* rate_limit_rps of the service row
  built,    \* the rate the limiter was built with; 0 while there is none
  tokens,   \* its tokens, in parts; negative when they are promised
  stage,    \* each worker: "idle", "ready" to ask for a token, "pacing", "sending"
  carried,  \* the rate its claim carries
  wait,     \* ticks until its token is there
  sends,    \* history: requests let go in the last n ticks, for each n
  edits     \* edits of the rate so far

bucket == <<built, tokens>>
vars == <<rps, bucket, stage, carried, wait, sends, edits>>

Past == 1..Window

Init ==
  /\ rps \in Rates
  /\ built = 0 /\ tokens = 0
  /\ stage = [w \in Workers |-> "idle"]
  /\ carried = [w \in Workers |-> 0]
  /\ wait = [w \in Workers |-> 0]
  /\ sends = [n \in Past |-> 0]
  /\ edits = 0

\* The worker's next claim, with the rate its hydrating query read.
Take(w) ==
  /\ sends[1] < MaxSends
  /\ stage[w] = "idle" /\ stage' = [stage EXCEPT ![w] = "ready"]
  /\ carried' = [carried EXCEPT ![w] = rps]
  /\ UNCHANGED <<rps, bucket, wait, sends, edits>>

\* What a full bucket holds, in parts: rps tokens.
Burst(rate) == rate * TicksPerSecond

\* (Faulty variant: limiters are not kept.)
AlwaysNew(rate) == Burst(rate)

\* limiter: what the bucket for this rate holds; a new one is full.
Filled(rate) == IF built = rate THEN tokens ELSE Burst(rate)

\* Ticks until it will have a token for the next in line.
Until(rate) ==
  LET owed == TicksPerSecond - Filled(rate)
  IN IF owed <= 0 THEN 0 ELSE (owed + (rate - 1)) \div rate

\* It is no further off than the deadline of lim.Wait.
InReach(rate) == Until(rate) <= MaxWait * TicksPerSecond

\* client.Do
Goes(w) ==
  /\ stage' = [stage EXCEPT ![w] = "sending"]
  /\ sends' = [n \in Past |-> sends[n] + 1]

\* No limit: limiter is nil.
PassUnlimited(w) ==
  /\ stage[w] = "ready" /\ carried[w] = 0
  /\ Goes(w)
  /\ UNCHANGED <<rps, bucket, carried, wait, edits>>

\* lim.Wait takes a token, and returns at once or when it is there.
Reserve(w) ==
  /\ stage[w] = "ready" /\ carried[w] > 0 /\ InReach(carried[w])
  /\ built' = carried[w] /\ tokens' = Filled(carried[w]) - TicksPerSecond
  /\ \/ /\ Until(carried[w]) = 0
        /\ Goes(w) /\ UNCHANGED wait
     \/ /\ Until(carried[w]) > 0
        /\ stage' = [stage EXCEPT ![w] = "pacing"]
        /\ wait' = [wait EXCEPT ![w] = Until(carried[w])]
        /\ UNCHANGED sends
  /\ UNCHANGED <<rps, carried, edits>>

\* lim.Wait fails at once, its deadline being too near.  The error is logged and
\* the request sent.
SendAnyway(w) ==
  /\ stage[w] = "ready" /\ carried[w] > 0 /\ ~InReach(carried[w])
  /\ built' = carried[w] /\ tokens' = Filled(carried[w])
  /\ Goes(w)
  /\ UNCHANGED <<rps, carried, wait, edits>>

Release(w) ==
  /\ stage[w] = "pacing" /\ wait[w] = 0
  /\ Goes(w)
  /\ UNCHANGED <<rps, bucket, carried, wait, edits>>

Answer(w) ==
  /\ stage[w] = "sending" /\ stage' = [stage EXCEPT ![w] = "idle"]
  /\ carried' = [carried EXCEPT ![w] = 0]
  /\ UNCHANGED <<rps, bucket, wait, sends, edits>>

\* UpdateService
Edit(rate) ==
  /\ edits < MaxEdits /\ edits' = edits + 1
  /\ rate # rps /\ rps' = rate
  /\ UNCHANGED <<bucket, stage, carried, wait, sends>>

LeastOf(a, b) == IF a < b THEN a ELSE b

\* Timers fire on time.
Tick ==
  /\ \A w \in Workers : stage[w] = "pacing" => wait[w] > 0
  /\ tokens' = LeastOf(tokens + built, Burst(built))
  /\ wait' = [w \in Workers |-> IF wait[w] > 0 THEN wait[w] - 1 ELSE 0]
  /\ sends' = [n \in Past |-> IF n = 1 THEN 0 ELSE sends[n - 1]]
  /\ UNCHANGED <<rps, built, stage, carried, edits>>

-----------------------------------------------------------------------------
Deliver(w) == Take(w) \/ PassUnlimited(w) \/ Reserve(w) \/ SendAnyway(w) \/ Release(w) \/ Answer(w)

Next ==
  \/ \E w \in Workers : Deliver(w)
  \/ \E rate \in Rates : Edit(rate)
  \/ Tick

Spec == Init /\ [][Next]_vars

-----------------------------------------------------------------------------
TypeOK ==
  /\ rps \in Rates
  /\ built \in Rates \union {0} /\ tokens \in Int /\ tokens <= Burst(built)
  /\ stage \in [Workers -> {"idle", "ready", "pacing", "sending"}]
  /\ carried \in [Workers -> Rates \union {0}]
  /\ wait \in [Workers -> 0..MaxWait * TicksPerSecond]
  /\ sends \in [Past -> Nat]
  /\ edits \in 0..MaxEdits

\* Every worker can be promised a token within the time it will wait, of which a
\* little has passed when lim.Wait looks.
WaitsSuffice == Cardinality(Workers) < rps * MaxWait

(***************************************************************************)
(* A limited service is sent its burst and what accrues meanwhile, and     *)
(* never more, whenever one begins to count and however long: rps * (k+1)  *)
(* requests in k seconds (k * TicksPerSecond + 1 instants).  This holds    *)
(* whichever workers wait or come back at once - as long as the workers    *)
(* are few enough for lim.Wait never to refuse, and the rate stays what it *)
(* is.  ("a limited service is paced rather than hammered", at deliver;    *)
(* "Burst equal to the rate lets a quiet service absorb a small spike", at *)
(* limiter.)                                                               *)
(***************************************************************************)
Paced ==
  edits = 0 /\ rps > 0 /\ WaitsSuffice =>
    \A n \in Past : sends[n] * TicksPerSecond <= Burst(rps) + rps * (n - 1)

=============================================================================
