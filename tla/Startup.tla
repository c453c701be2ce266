------------------------------- MODULE Startup ------------------------------
(***************************************************************************)
(* How processes of the gateway come up: each starting replica, and each   *)
(* `hookfan migrate` an operator runs, takes an advisory lock on a         *)
(* connection of its own, lets goose compare the schema with the           *)
(* migrations in its binary and apply them one transaction at a time, and  *)
(* gives the lock back.  Replicas then open the connection pool and serve. *)
(*                                                                         *)
(* Binaries of different age may be started side by side.  The lock        *)
(* belongs to the connection: PostgreSQL frees it when that is lost, be it *)
(* with the process or under it.                                           *)
(***************************************************************************)
EXTENDS Naturals

CONSTANTS
  Processes,  \* processes that may be started
  Known,      \* the number of migrations in the binary of each
  MaxFaults   \* bound: crashes, signals, lost connections, errors

StartupAssumption == Known \in [Processes -> Nat \ {0}] /\ MaxFaults \in Nat

VARIABLES
  version,  \* migrations the schema has
  lock,     \* the process whose connection holds the advisory lock
  stage,    \* "off", "waiting" for the lock, "locked", "migrating", "opening", "serving"
  job,      \* what the process was started for: "serve", "up", "down"
  next,     \* the migration it is to apply next, or to roll back
  faults,   \* faults so far
  under     \* history: processes past the version check whose schema was rolled back

vars == <<version, lock, stage, job, next, faults, under>>

Nobody    == "nobody"
Goes(p, from, to) == stage[p] = from /\ stage' = [stage EXCEPT ![p] = to]
Fault     == faults < MaxFaults /\ faults' = faults + 1

Init ==
  /\ version = 0 /\ lock = Nobody
  /\ stage = [p \in Processes |-> "off"]
  /\ job = [p \in Processes |-> "serve"]
  /\ next = [p \in Processes |-> 0]
  /\ faults = 0 /\ under = {}

\* main: the server, or one of the migrate subcommands.
Start(p, j) ==
  /\ Goes(p, "off", "waiting")
  /\ job' = [job EXCEPT ![p] = j]
  /\ under' = under \ {p}
  /\ UNCHANGED <<version, lock, next, faults>>

\* (Faulty variant: who does not get the lock leaves the migrating to others.)
AcquireOrSkip(p) ==
  /\ \/ lock = Nobody /\ lock' = p /\ Goes(p, "waiting", "locked")
     \/ lock # Nobody /\ Goes(p, "waiting", "opening") /\ UNCHANGED lock
  /\ UNCHANGED <<version, job, next, faults, under>>

\* SELECT pg_advisory_lock
Acquire(p) ==
  /\ lock = Nobody /\ lock' = p
  /\ Goes(p, "waiting", "locked")
  /\ UNCHANGED <<version, job, next, faults, under>>

\* goose reads what is applied: Up starts after it, Down undoes the last.
Inspect(p) ==
  /\ Goes(p, "locked", "migrating")
  /\ next' = [next EXCEPT ![p] = IF job[p] = "down" THEN version ELSE version + 1]
  /\ UNCHANGED <<version, lock, job, faults, under>>

Upgrading(p) == stage[p] = "migrating" /\ job[p] # "down" /\ next[p] <= Known[p]
Downgrading(p) == stage[p] = "migrating" /\ job[p] = "down"

\* One migration and its entry in goose's table, in one transaction.
Apply(p) ==
  /\ Upgrading(p) /\ version = next[p] - 1
  /\ version' = next[p]
  /\ next' = [next EXCEPT ![p] = next[p] + 1]
  /\ UNCHANGED <<lock, stage, job, faults, under>>

\* The lock goes back, if the connection still has it.
Unlock(p) == lock' = IF lock = p THEN Nobody ELSE lock

\* The process is over.
Quit(p) ==
  /\ Unlock(p)
  /\ stage' = [stage EXCEPT ![p] = "off"]
  /\ UNCHANGED <<job, next>>

\* A rollback of the last migration, which the binary must have.
RollBack(p) ==
  /\ Downgrading(p) /\ next[p] \in 1..Known[p] /\ version = next[p]
  /\ version' = version - 1
  /\ under' = under \union {q \in Processes : stage[q] \in {"migrating", "opening", "serving"}}
  /\ Quit(p)
  /\ UNCHANGED faults

\* Somebody else has changed the schema meanwhile, or there is nothing to undo:
\* goose reports an error and the process ends.
Clash(p) ==
  /\ \/ Upgrading(p) /\ version # next[p] - 1
     \/ Downgrading(p) /\ ~(next[p] \in 1..Known[p] /\ version = next[p])
  /\ Quit(p)
  /\ UNCHANGED <<version, faults, under>>

\* Migrate returns: `hookfan migrate up` is done, a server goes on.
Migrated(p) ==
  /\ stage[p] = "migrating" /\ job[p] # "down" /\ next[p] > Known[p]
  /\ Unlock(p)
  /\ stage' = [stage EXCEPT ![p] = IF job[p] = "serve" THEN "opening" ELSE "off"]
  /\ UNCHANGED <<version, job, next, faults, under>>

\* store.New, the cipher, the handlers and the background goroutines.
Open(p) ==
  /\ Goes(p, "opening", "serving")
  /\ UNCHANGED <<version, lock, job, next, faults, under>>

\* (Faulty variant: the lock is held by a pooled connection that lives on.)
LockKept(p) ==
  /\ stage[p] # "off" /\ Fault
  /\ stage' = [stage EXCEPT ![p] = "off"]
  /\ UNCHANGED <<version, lock, job, next, under>>

\* A signal or an error on the way up, a crash at any time.
Fail(p) ==
  /\ stage[p] # "off" /\ Fault
  /\ Quit(p)
  /\ UNCHANGED <<version, under>>

\* A signal ends a server.
Exit(p) ==
  /\ Goes(p, "serving", "off")
  /\ UNCHANGED <<version, lock, job, next, faults, under>>

\* The connection that holds the lock is lost; goose has another and goes on.
LoseLock(p) ==
  /\ lock = p /\ Fault
  /\ lock' = Nobody
  /\ UNCHANGED <<version, stage, job, next, under>>

-----------------------------------------------------------------------------
Migrating(p) ==
  Inspect(p) \/ Apply(p) \/ RollBack(p) \/ Clash(p) \/ Migrated(p) \/ Open(p)

Next ==
  \E p \in Processes :
    \/ \E j \in {"serve", "up", "down"} : Start(p, j)
    \/ Acquire(p) \/ Migrating(p)
    \/ Exit(p) \/ Fail(p) \/ LoseLock(p)

Spec == Init /\ [][Next]_vars

\* A process that runs goes on, and PostgreSQL hands the lock to whoever waits for it.
Fairness ==
  \A p \in Processes : WF_vars(Migrating(p)) /\ SF_vars(Acquire(p))

FairSpec == Spec /\ Fairness

-----------------------------------------------------------------------------
TypeOK ==
  /\ version \in Nat
  /\ lock \in Processes \union {Nobody}
  /\ stage \in [Processes ->
                  {"off", "waiting", "locked", "migrating", "opening", "serving"}]
  /\ job \in [Processes -> {"serve", "up", "down"}]
  /\ next \in [Processes -> Nat]
  /\ faults \in 0..MaxFaults
  /\ under \in SUBSET Processes

(***************************************************************************)
(* Nobody serves against a schema older than its binary, however many      *)
(* replicas of whatever age start together, crash half way or lose the     *)
(* lock in the middle of migrating - unless an operator rolled the schema  *)
(* back underneath it, which nothing prevents.  ("they never start serving *)
(* against a half-migrated schema", at Migrate.)                           *)
(***************************************************************************)
UpToDate ==
  \A p \in Processes :
    stage[p] \in {"opening", "serving"} /\ p \notin under => version >= Known[p]

(***************************************************************************)
(* Nobody waits for the lock for ever, whatever became of its holders: it  *)
(* is freed on every way out of a migration, and by the end of a session.  *)
(***************************************************************************)
LockComes == \A p \in Processes : stage[p] = "waiting" ~> stage[p] # "waiting"

=============================================================================
