------------------------------- MODULE FanOut -------------------------------
(***************************************************************************)
(* What the gateway promises about the events of a listener and their      *)
(* delivery sets, without transactions, locks and wake-ups: an event is    *)
(* stored without deliveries, gets its whole delivery set in one step,     *)
(* loses it in one step when it is replayed, and leaves with it.  Only a   *)
(* service that is deleted leaves a delivery set by itself.                *)
(***************************************************************************)
EXTENDS Naturals

CONSTANTS Bodies, Services

VARIABLES
  state,  \* of the event with this body: "absent", "stored", "planned"
  fan     \* the services that have a delivery of it

fanVars == <<state, fan>>

Init == state = [b \in Bodies |-> "absent"] /\ fan = [b \in Bodies |-> {}]

Accepted(b) == state[b] = "absent"  /\ state'[b] = "stored"  /\ fan'[b] = {}
Planned(b)  == state[b] = "stored"  /\ state'[b] = "planned" /\ fan'[b] \in SUBSET Services
Replayed(b) == state[b] = "planned" /\ state'[b] = "stored"  /\ fan'[b] = {}
Purged(b)   == state[b] # "absent"  /\ state'[b] = "absent"  /\ fan'[b] = {}
Kept(b)     == state'[b] = state[b] /\ fan'[b] = fan[b]

\* The deliveries to a service go with it.
Left(s) == state' = state /\ fan' = [b \in Bodies |-> fan[b] \ {s}]

Next ==
  \/ \A b \in Bodies : Accepted(b) \/ Planned(b) \/ Replayed(b) \/ Purged(b) \/ Kept(b)
  \/ \E s \in Services : Left(s)

Spec == Init /\ [][Next]_fanVars

=============================================================================
