------------------------------- MODULE Gateway ------------------------------
(***************************************************************************)
(* The parts of the gateway that share no state with one another, side by  *)
(* side: the live feed (whose names this module extends), the events table *)
(* and its readers, the start of processes, the intake of webhooks, the    *)
(* pace of requests, and the retry policy.                                 *)
(*                                                                         *)
(* No step of one part reads or writes a variable of another, so the order *)
(* of steps of different parts is of no account: a behaviour is a          *)
(* behaviour of one part, chosen at the beginning, while the others stand  *)
(* still.  Properties are about one part each.                             *)
(***************************************************************************)
EXTENDS Broker

CONSTANTS
  Jobs, BatchSize, DefaultLimit, MaxLimit, Limits, MaxEvents,
  Processes, Known, MaxFaults,
  Secrets, Bodies, Requests, MaxListeners, MaxPatches, None,
  Workers, Rates, MaxWait, TicksPerSecond, Window, MaxSends, MaxEdits,
  MaxAttempts, Codes, Asked, Dates, Second, Word, BackoffBase, BackoffCap

VARIABLES
  part,  \* the part that moves
  last, arriving, events, expired, reader, cursor, job, chosen, failures,
  listed, repeated, opening,
  version, lock, process, task, next, faults, under,
  lid, way, enabled, stored, request, seen, lids, patches, switched, during,
  rps, built, tokens, worker, carried, delay, sends, edits,
  status, attempt, wait, pace, rest

Log == INSTANCE EventLog WITH faults <- failures

Start == INSTANCE Startup WITH stage <- process, job <- task

Hook == INSTANCE Intake WITH events <- stored, stage <- request

Pace == INSTANCE Sender WITH stage <- worker, wait <- delay

Retry == INSTANCE RetryPolicy

ASSUME GatewayAssumption ==
  /\ Log!EventLogAssumption /\ Start!StartupAssumption /\ Hook!IntakeAssumption
  /\ Pace!SenderAssumption /\ Retry!RetryAssumption

logVars ==
  <<last, arriving, events, expired, reader, cursor, job, chosen, failures,
    listed, repeated, opening>>
startVars == <<version, lock, process, task, next, faults, under>>
hookVars ==
  <<lid, way, enabled, stored, request, seen, lids, patches, switched, during>>
paceVars  == <<rps, built, tokens, worker, carried, delay, sends, edits>>
retryVars == <<status, attempt, wait, pace, rest>>

allVars == <<part, vars, logVars, startVars, hookVars, paceVars, retryVars>>

\* A step of one part, the others standing still.
FeedStep(A) ==
  /\ part = "feed" /\ A
  /\ UNCHANGED <<part, logVars, startVars, hookVars, paceVars, retryVars>>

LogStep(A) ==
  /\ part = "log" /\ A
  /\ UNCHANGED <<part, vars, startVars, hookVars, paceVars, retryVars>>

StartStep(A) ==
  /\ part = "start" /\ A
  /\ UNCHANGED <<part, vars, logVars, hookVars, paceVars, retryVars>>

HookStep(A) ==
  /\ part = "hook" /\ A
  /\ UNCHANGED <<part, vars, logVars, startVars, paceVars, retryVars>>

PaceStep(A) ==
  /\ part = "pace" /\ A
  /\ UNCHANGED <<part, vars, logVars, startVars, hookVars, retryVars>>

RetryStep(A) ==
  /\ part = "retry" /\ A
  /\ UNCHANGED <<part, vars, logVars, startVars, hookVars, paceVars>>

GatewayInit ==
  /\ part \in {"feed", "log", "start", "hook", "pace", "retry"}
  /\ Init /\ Log!Init /\ Start!Init /\ Hook!Init /\ Pace!Init /\ Retry!Init
  /\ part # "pace" => rps = 0

GatewayNext ==
  \/ FeedStep(Next)      \/ LogStep(Log!Next)   \/ StartStep(Start!Next)
  \/ HookStep(Hook!Next) \/ PaceStep(Pace!Next) \/ RetryStep(Retry!Next)

GatewaySpec == GatewayInit /\ [][GatewayNext]_allVars

\* The fairness of each part, while it is the one that moves: see Broker, EventLog
\* and Startup.
GatewayFairSpec ==
  /\ GatewaySpec
  /\ \A p \in Publishers :
       WF_vars(part = "feed" /\ (End(p) \/ \E c \in Clients : Offer(p, c)))
  /\ WF_vars(part = "feed" /\ ShutdownTimeout) /\ WF_vars(part = "feed" /\ CloseAll)
  /\ \A j \in Jobs : WF_logVars(part = "log" /\ Log!Retain(j))
  /\ \A p \in Processes :
       /\ WF_startVars(part = "start" /\ Start!Migrating(p))
       /\ SF_startVars(part = "start" /\ Start!Acquire(p))

-----------------------------------------------------------------------------
\* The types of all parts but the feed, whose invariant is TypeOK.
TypesOK ==
  Log!TypeOK /\ Start!TypeOK /\ Hook!TypeOK /\ Pace!TypeOK /\ Retry!TypeOK

\* A walk through the events lists none twice (EventLog).
ListedOnce == Log!ListedOnce

\* A walk through the events skips none (EventLog).
NoneSkipped == Log!NoneSkipped

\* Expired events are deleted (EventLog).
ExpiredLeave == Log!ExpiredLeave

\* Nobody serves against a schema older than its binary (Startup).
UpToDate == Start!UpToDate

\* Who waits for the advisory lock gets it (Startup).
LockComes == Start!LockComes

\* Events were verified as their listener asked while they came in (Intake).
Authentic == Hook!Authentic

\* Only a patch of the mode leaves a listener without the secret it needs (Intake).
DeafByPatch == Hook!DeafByPatch

\* A limited service is sent its burst and what accrues, and no more (Sender).
Paced == Pace!Paced

\* No delivery is put off for longer than the cap (RetryPolicy).
DelayBounded == Retry!DelayBounded

\* A service that says when to come back is left alone until then (RetryPolicy).
PaceHonoured == Retry!PaceHonoured

\* What the policy decides is what the delivery queue promises (RetryPolicy).
KeepsPromise == Retry!KeepsPromise

=============================================================================
