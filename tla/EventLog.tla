------------------------------ MODULE EventLog ------------------------------
(***************************************************************************)
(* The events table as an operator's dashboard reads it: webhooks add rows *)
(* whose ids were handed out before they are committed, the retention jobs *)
(* of all replicas delete expired rows in batches, the deletion of a       *)
(* listener takes its rows along, and meanwhile a reader walks through     *)
(* the table page by page, newest first, with a cursor.                    *)
(*                                                                         *)
(* A page is ordered by id, so the set of its ids says all about it.  Rows *)
(* that the reader's filter does not match are to it as if they were not   *)
(* there, and are left out.                                                *)
(***************************************************************************)
EXTENDS Naturals, FiniteSets

CONSTANTS
  Jobs,          \* retention jobs, one in each replica
  BatchSize,     \* rows one DELETE takes
  DefaultLimit,  \* DefaultEventLimit
  MaxLimit,      \* MaxEventLimit
  Limits,        \* the limits readers ask for; 0 is none
  MaxEvents,     \* bound: ids handed out
  MaxFaults      \* bound: DELETEs that fail

EventLogAssumption ==
  /\ BatchSize \in Nat \ {0}
  /\ MaxLimit \in Nat \ {0} /\ DefaultLimit \in 1..MaxLimit
  /\ Limits \subseteq Nat
  /\ MaxEvents \in Nat /\ MaxFaults \in Nat

VARIABLES
  last,      \* the last id handed out
  arriving,  \* ids whose INSERT is not committed
  events,    \* ids in the table
  expired,   \* ids in the table that are older than the retention period
  reader,    \* "idle", "walking", or "done" once has_more is false
  cursor,    \* next_cursor of the last page; 0 for none
  job,       \* each retention job: "asleep", "purging", "deleting" chosen rows
  chosen,    \* the ids its subquery selected
  faults,    \* failed DELETEs so far
  listed,    \* history: the ids on the pages of this walk
  repeated,  \* history: those that were on two of them
  opening    \* history: the events in the table when the walk began

table     == <<last, arriving, events, expired>>
walk      == <<reader, cursor, listed, repeated, opening>>
retention == <<job, chosen, faults>>
vars == <<table, walk, retention>>

Ids == 1..MaxEvents

Init ==
  /\ last = 0 /\ arriving = {} /\ events = {} /\ expired = {}
  /\ reader = "idle" /\ cursor = 0
  /\ job = [j \in Jobs |-> "asleep"] /\ chosen = [j \in Jobs |-> {}]
  /\ faults = 0
  /\ listed = {} /\ repeated = {} /\ opening = {}

-----------------------------------------------------------------------------
(***************************************************************************)
(* Rows come and go.                                                       *)
(***************************************************************************)

\* InsertEvent takes the next id of the sequence.
Allocate ==
  /\ last < MaxEvents /\ last' = last + 1
  /\ arriving' = arriving \union {last + 1}
  /\ UNCHANGED <<events, expired, walk, retention>>

\* It commits, in any order; or it was a duplicate, or failed, and the id is lost.
Arrive(i) ==
  /\ i \in arriving /\ arriving' = arriving \ {i}
  /\ events' \in {events, events \union {i}}
  /\ UNCHANGED <<last, expired, walk, retention>>

Expire(i) ==
  /\ i \in events \ expired /\ expired' = expired \union {i}
  /\ UNCHANGED <<last, arriving, events, walk, retention>>

Removed(D) == events' = events \ D /\ expired' = expired \ D

\* DeleteListener with its cascade.
Cascade(D) ==
  /\ D # {} /\ D \subseteq events
  /\ Removed(D)
  /\ UNCHANGED <<last, arriving, walk, retention>>

-----------------------------------------------------------------------------
(***************************************************************************)
(* The retention job: Run and purge.                                       *)
(***************************************************************************)

\* The ticker; the first pass waits for StartupDelay.
Wake(j) ==
  /\ job[j] = "asleep" /\ job' = [job EXCEPT ![j] = "purging"]
  /\ UNCHANGED <<table, walk, chosen, faults>>

\* The subquery of PurgeExpiredEvents: the lowest ids up to the batch size.
Oldest == {i \in expired : Cardinality({k \in expired : k < i}) < BatchSize}

Choose(j) ==
  /\ job[j] = "purging" /\ job' = [job EXCEPT ![j] = "deleting"]
  /\ chosen' = [chosen EXCEPT ![j] = Oldest]
  /\ UNCHANGED <<table, walk, faults>>

\* (Faulty variant: the first short batch ends the job.)
LastPass(n) == IF n < BatchSize THEN "returned" ELSE "purging"

\* Where a batch of n deleted rows leaves purge: a full one may not be the last.
AfterBatch(n) == IF n < BatchSize THEN "asleep" ELSE "purging"

\* The DELETE: rows another replica deleted in between do not count.
Delete(j) ==
  /\ job[j] = "deleting"
  /\ Removed(chosen[j])
  /\ job' = [job EXCEPT ![j] = AfterBatch(Cardinality(chosen[j] \intersect events))]
  /\ chosen' = [chosen EXCEPT ![j] = {}]
  /\ UNCHANGED <<last, arriving, walk, faults>>

PurgeError(j) ==
  /\ faults < MaxFaults /\ faults' = faults + 1
  /\ job[j] = "deleting" /\ job' = [job EXCEPT ![j] = "asleep"]
  /\ chosen' = [chosen EXCEPT ![j] = {}]
  /\ UNCHANGED <<table, walk>>

-----------------------------------------------------------------------------
(***************************************************************************)
(* The reader: GET /api/events, again and again.                           *)
(***************************************************************************)

\* (Faulty variant: the row at the cursor is on the next page again.)
AtOrBelow(i) == cursor = 0 \/ i <= cursor

\* WHERE id < cursor, if there is one.
Below(i) == cursor = 0 \/ i < cursor

PageSize(limit) ==
  IF limit = 0 THEN DefaultLimit ELSE IF limit > MaxLimit THEN MaxLimit ELSE limit

Rows == {i \in events : Below(i)}

\* The n newest of them.
Top(n) == {i \in Rows : Cardinality({k \in Rows : k > i}) < n}

\* (Faulty variant: the cursor is the extra row.)
CursorAtExtra(n) ==
  {c \in Rows \ Top(n) : \A i \in Rows \ Top(n) : c >= i}

\* The last row of the page.
CursorOf(n) == {c \in Top(n) : \A i \in Top(n) : c <= i}

\* One row more than the page holds tells whether there are more.
MorePages(n) == Cardinality(Rows) > n

Turned(n) ==
  /\ listed' = listed \union Top(n)
  /\ repeated' = repeated \union (listed \intersect Top(n))
  /\ \/ /\ MorePages(n)
        /\ reader' = "walking" /\ cursor' \in CursorOf(n)
     \/ /\ ~MorePages(n)
        /\ reader' = "done" /\ cursor' = 0
  /\ UNCHANGED <<table, retention>>

FirstPage(limit) ==
  /\ reader = "idle"
  /\ Turned(PageSize(limit))
  /\ opening' = events

NextPage(limit) ==
  /\ reader = "walking"
  /\ Turned(PageSize(limit))
  /\ UNCHANGED opening

\* The reader starts over, having seen everything or lost interest.
Leave ==
  /\ reader \in {"walking", "done"} /\ reader' = "idle"
  /\ cursor' = 0 /\ listed' = {} /\ repeated' = {} /\ opening' = {}
  /\ UNCHANGED <<table, retention>>

-----------------------------------------------------------------------------
Retain(j) == Wake(j) \/ Choose(j) \/ Delete(j)

Read == \E limit \in Limits : FirstPage(limit) \/ NextPage(limit)

Next ==
  \/ Allocate
  \/ \E i \in Ids : Arrive(i) \/ Expire(i)
  \/ \E D \in SUBSET events : Cascade(D)
  \/ \E j \in Jobs : Retain(j) \/ PurgeError(j)
  \/ Read
  \/ Leave

Spec == Init /\ [][Next]_vars

\* Retention jobs have a ticker.  A reader need not read on.
Fairness == \A j \in Jobs : WF_vars(Retain(j))

FairSpec == Spec /\ Fairness

-----------------------------------------------------------------------------
TypeOK ==
  /\ last \in 0..MaxEvents
  /\ arriving \subseteq 1..last /\ events \subseteq 1..last
  /\ arriving \intersect events = {} /\ expired \subseteq events
  /\ reader \in {"idle", "walking", "done"}
  /\ cursor \in 0..last
  /\ listed \subseteq 1..last /\ repeated \subseteq listed /\ opening \subseteq 1..last
  /\ job \in [Jobs -> {"asleep", "purging", "deleting"}]
  /\ chosen \in [Jobs -> SUBSET (1..last)]
  /\ faults \in 0..MaxFaults

(***************************************************************************)
(* A walk lists no event twice, whatever arrives, commits late, expires or *)
(* is deleted between its pages and however its page sizes vary.           *)
(* ("an offset-paginated list shifts under the reader - rows are skipped   *)
(* or repeated as new events land", at ListEvents.)                        *)
(***************************************************************************)
ListedOnce == repeated = {}

(***************************************************************************)
(* A walk skips no event: those there when it began and still in the table *)
(* are on its pages when has_more is false, and until then those from the  *)
(* cursor upwards are.                                                     *)
(***************************************************************************)
NoneSkipped ==
  \A i \in opening \intersect events :
    \/ i \in listed
    \/ reader = "walking" /\ i < cursor

(***************************************************************************)
(* The tables do not grow without bound: an expired event is deleted,      *)
(* although replicas race for the same rows, a batch that others emptied   *)
(* ends a pass early and a DELETE may fail.  (Run, purge.)                 *)
(***************************************************************************)
ExpiredLeave == \A i \in Ids : i \in expired ~> i \notin events

=============================================================================
