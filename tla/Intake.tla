------------------------------- MODULE Intake -------------------------------
(***************************************************************************)
(* Who may put events into the table: the row of a listener, created,      *)
(* patched and deleted by operators, and the requests to its hook.  A      *)
(* request reads the row first, then the body from a network that takes    *)
(* its time, verifies the signature as the row said and inserts.           *)
(*                                                                         *)
(* One slug.  A listener created anew under it gets another id.            *)
(***************************************************************************)
EXTENDS Naturals

CONSTANTS
  Secrets,       \* signing secrets
  Bodies,        \* webhook bodies
  Requests,      \* requests that may be served at once
  MaxListeners,  \* bound: listeners ever created
  MaxPatches     \* bound: patches

CONSTANT None    \* no secret, no signature, no change

IntakeAssumption ==
  None \notin Secrets /\ MaxListeners \in Nat /\ MaxPatches \in Nat

Modes == {"none", "hmac_sha256"}

\* verification_mode and secret: how requests are verified.
Ways == [mode : Modes, secret : Secrets \union {None}]

VARIABLES
  lid,      \* id of the listener with the slug; 0 for none
  way,      \* its verification_mode and secret
  enabled,  \* its flag
  events,   \* the events table
  stage,    \* each request: "idle" or "reading" its body
  seen,     \* the row it read: the listener's id and way
  lids,     \* listeners created so far
  patches,  \* patches so far
  switched, \* history: whether a patch has made the listener ask for signatures
  during    \* history: the ways in force since the request read the row

row  == <<lid, way, enabled>>
vars == <<row, events, stage, seen, lids, patches, switched, during>>

Init ==
  /\ lid = 0 /\ enabled = FALSE
  /\ way = [mode |-> "none", secret |-> None]
  /\ events = {}
  /\ stage = [r \in Requests |-> "idle"]
  /\ seen = [r \in Requests |-> [lid |-> 0, mode |-> "none", secret |-> None]]
  /\ lids = 0 /\ patches = 0 /\ switched = FALSE
  /\ during = [r \in Requests |-> {}]

\* The requests at work note how others will be verified from now on.
Witness(w) == during' = [r \in Requests |-> IF stage[r] = "idle" THEN {} ELSE during[r] \union {w}]

-----------------------------------------------------------------------------
(***************************************************************************)
(* The listeners API.                                                      *)
(***************************************************************************)

\* (Faulty variant: a secret is not asked for.)
AnyListener(w) == TRUE

\* validateListener
ValidListener(w) == w.mode = "hmac_sha256" => w.secret # None

\* The unique index on the slug refuses a second listener.
Create(w, on) ==
  /\ lid = 0 /\ lids < MaxListeners
  /\ ValidListener(w)
  /\ lids' = lids + 1 /\ lid' = lids + 1
  /\ way' = w /\ enabled' = on
  /\ switched' = FALSE
  /\ Witness(w)
  /\ UNCHANGED <<events, stage, seen, patches>>

\* UpdateListener: what the patch leaves out stays (COALESCE), an empty secret
\* is left out, and the row that results is not validated.
Patched(mode, secret) ==
  [mode   |-> IF mode = None THEN way.mode ELSE mode,
   secret |-> IF secret = None THEN way.secret ELSE secret]

Patch(mode, secret, on) ==
  /\ lid # 0
  /\ patches < MaxPatches /\ patches' = patches + 1
  /\ way' = Patched(mode, secret) /\ enabled' = on
  /\ switched' = (switched \/ mode = "hmac_sha256")
  /\ Witness(way')
  /\ UNCHANGED <<lid, events, stage, seen, lids>>

\* DeleteListener: its events go by cascade.
Delete ==
  /\ lid # 0 /\ lid' = 0
  /\ way' = [mode |-> "none", secret |-> None] /\ enabled' = FALSE
  /\ events' = {e \in events : e.lid # lid}
  /\ switched' = FALSE
  /\ UNCHANGED <<stage, seen, lids, patches, during>>

-----------------------------------------------------------------------------
(***************************************************************************)
(* Receive.                                                                *)
(***************************************************************************)

\* ListenerBySlug.  No row is answered 404, a disabled one 200, and nothing is stored.
LookUp(r) ==
  /\ stage[r] = "idle" /\ lid # 0 /\ enabled
  /\ stage' = [stage EXCEPT ![r] = "reading"]
  /\ seen' = [seen EXCEPT ![r] = [lid |-> lid, mode |-> way.mode, secret |-> way.secret]]
  /\ during' = [during EXCEPT ![r] = {way}]
  /\ UNCHANGED <<row, events, lids, patches, switched>>

\* (Faulty variant: a listener without a secret cannot verify, so it does not.)
VerifiesIfItCan(w, key) == w.mode = "none" \/ w.secret = None \/ key = w.secret

\* verify, as the row w asks for it, of a body signed with key.  A listener that
\* requires signatures and has no secret refuses everything with 500.
Verifies(w, key) == w.mode = "none" \/ (w.secret # None /\ key = w.secret)

Done(r) ==
  /\ stage' = [stage EXCEPT ![r] = "idle"]
  /\ seen' = [seen EXCEPT ![r] = [lid |-> 0, mode |-> "none", secret |-> None]]
  /\ during' = [during EXCEPT ![r] = {}]
  /\ UNCHANGED <<row, lids, patches, switched>>

\* The body cannot be read, is too large, is not verified or cannot be stored.
Refuse(r) == stage[r] = "reading" /\ Done(r) /\ UNCHANGED events

\* The body has arrived and is verified.  The foreign key holds while the
\* listener is there; a duplicate changes nothing.
Accept(r, b, key) ==
  /\ stage[r] = "reading"
  /\ Verifies(seen[r], key)
  /\ seen[r].lid = lid
  /\ \/ /\ \E e \in events : e.lid = lid /\ e.body = b
        /\ UNCHANGED events
     \/ /\ \A e \in events : e.lid = lid => e.body # b
        /\ events' = events \union
             {[lid |-> lid, body |-> b, key |-> key, during |-> during[r]]}
  /\ Done(r)

\* The retention job takes one.
Purge(e) ==
  /\ events' = events \ {e}
  /\ UNCHANGED <<row, stage, seen, lids, patches, switched, during>>

-----------------------------------------------------------------------------
Next ==
  \/ \E w \in Ways, on \in BOOLEAN : Create(w, on)
  \/ \E mode \in Modes \union {None}, secret \in Secrets \union {None}, on \in BOOLEAN :
       Patch(mode, secret, on)
  \/ Delete
  \/ \E r \in Requests : LookUp(r) \/ Refuse(r)
  \/ \E r \in Requests, b \in Bodies, key \in Secrets \union {None} : Accept(r, b, key)
  \/ \E e \in events : Purge(e)

Spec == Init /\ [][Next]_vars

-----------------------------------------------------------------------------
TypeOK ==
  /\ lid \in 0..lids /\ way \in Ways /\ enabled \in BOOLEAN
  /\ events \subseteq
       [lid : 1..lids, body : Bodies, key : Secrets \union {None}, during : SUBSET Ways]
  /\ stage \in [Requests -> {"idle", "reading"}]
  /\ seen \in [Requests -> [lid : 0..lids, mode : Modes, secret : Secrets \union {None}]]
  /\ lids \in 0..MaxListeners /\ patches \in 0..MaxPatches
  /\ switched \in BOOLEAN
  /\ during \in [Requests -> SUBSET Ways]

(***************************************************************************)
(* Every event came in the way its listener asked for at some moment while *)
(* the request was served: signed with the secret of that moment, or       *)
(* without a signature when none was required - through patches, rotated   *)
(* secrets and listeners created anew under the slug while bodies are      *)
(* read.  (Receive, verify.)                                               *)
(***************************************************************************)
Authentic ==
  \A e \in events : \E w \in e.during :
    w.mode = "hmac_sha256" => w.secret # None /\ e.key = w.secret

(***************************************************************************)
(* A listener that refuses every webhook for want of a secret was made so  *)
(* by a patch of its mode: neither creating one nor a series of other      *)
(* patches does that.  ("Without a secret, hmac_sha256 would reject every  *)
(* webhook at runtime, so the mismatch is caught at create time instead",  *)
(* at validateListener; Update has no such check.)                         *)
(***************************************************************************)
DeafByPatch ==
  lid # 0 /\ way.mode = "hmac_sha256" /\ way.secret = None => switched

=============================================================================
