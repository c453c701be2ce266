---------------------------- MODULE BrokerProofs -----------------------------
(***************************************************************************)
(* The live feed never panics and loses track of nobody, for any number of *)
(* clients and publishers and any size of the buffers.                     *)
(***************************************************************************)
EXTENDS Broker, TLAPS

(* The initial state and every step keep the types. *)
LEMMA TypeInit == Init => TypeOK
BY BrokerAssumption DEF Init, TypeOK

(* Every step keeps the types: buffers stay within their size. *)
LEMMA TypeStep == TypeOK /\ [Next]_vars => TypeOK'
<1> SUFFICES ASSUME TypeOK, [Next]_vars PROVE TypeOK'
  OBVIOUS
<1> USE BrokerAssumption DEF TypeOK
<1>1. ASSUME NEW p \in Publishers, Begin(p) PROVE TypeOK'
  BY <1>1 DEF Begin
<1>2. ASSUME NEW p \in Publishers, End(p) PROVE TypeOK'
  BY <1>2 DEF End
<1>3. ASSUME NEW p \in Publishers, NEW c \in Clients, Offer(p, c) PROVE TypeOK'
  <2>1. buffer' \in [Clients -> 0..BufferSize]
    BY <1>3 DEF Offer
  <2> QED BY <1>3, <2>1 DEF Offer
<1>4. ASSUME NEW c \in Clients, Connect(c) PROVE TypeOK'
  BY <1>4 DEF Connect, Goes
<1>5. ASSUME NEW c \in Clients, Subscribe(c) PROVE TypeOK'
  BY <1>5 DEF Subscribe, Goes
<1>6. ASSUME NEW c \in Clients, Take(c) PROVE TypeOK'
  <2>1. buffer' \in [Clients -> 0..BufferSize]
    BY <1>6 DEF Take
  <2> QED BY <1>6, <2>1 DEF Take, Goes
<1>7. ASSUME NEW c \in Clients, Written(c) \/ HangUp(c) \/ Drained(c) PROVE TypeOK'
  BY <1>7 DEF Written, HangUp, Drained, Goes
<1>8. ASSUME NEW c \in Clients, Unsubscribe(c) PROVE TypeOK'
  BY <1>8 DEF Unsubscribe, Goes
<1>9. CASE Stopping
  BY <1>9 DEF Stopping, Signal, ServeFailed, ShutdownDone, ShutdownTimeout, CloseAll, Moves
<1>10. CASE UNCHANGED vars
  BY <1>10 DEF vars
<1> QED
  BY <1>1, <1>2, <1>3, <1>4, <1>5, <1>6, <1>7, <1>8, <1>9, <1>10
     DEF Next, Publishing, Streaming

(***************************************************************************)
(* Handlers, buffers, channels and publishers have their types in every    *)
(* reachable state; in particular no buffer holds more than BufferSize.    *)
(***************************************************************************)
THEOREM BrokerTypeCorrect == Spec => []TypeOK
BY TypeInit, TypeStep, PTL DEF Spec

-----------------------------------------------------------------------------
(***************************************************************************)
(* Why no publisher meets a closed channel: what is left of its loop is in *)
(* the map as long as it holds the lock, and channels are closed as they   *)
(* leave the map.                                                          *)
(***************************************************************************)
Walks ==
  \A p \in Publishers : /\ todo[p] \subseteq subscribers
                        /\ pub[p] = "idle" => todo[p] = {}

Inv == TypeOK /\ NoPanic /\ NoLeak /\ Walks

(* Nobody is connected at first. *)
LEMMA InvInit == Init => Inv
BY TypeInit DEF Init, Inv, NoPanic, NoLeak, Walks, Attached

(* Every step keeps map, channels and loops in accord. *)
LEMMA InvStep == Inv /\ [Next]_vars => Inv'
<1> SUFFICES ASSUME Inv, [Next]_vars PROVE Inv'
  OBVIOUS
<1>t. TypeOK /\ TypeOK'
  BY TypeStep DEF Inv
<1> USE <1>t DEF Inv, NoPanic, NoLeak, Walks, Attached
<1>1. ASSUME NEW p \in Publishers, Begin(p) PROVE Inv'
  BY <1>1 DEF Begin, TypeOK
<1>2. ASSUME NEW p \in Publishers, End(p) PROVE Inv'
  BY <1>2 DEF End, TypeOK
<1>3. ASSUME NEW p \in Publishers, NEW c \in Clients, Offer(p, c) PROVE Inv'
  BY <1>3 DEF Offer, TypeOK
<1>4. ASSUME NEW c \in Clients, Connect(c) PROVE Inv'
  BY <1>4 DEF Connect, Goes, TypeOK
<1>5. ASSUME NEW c \in Clients, Subscribe(c) PROVE Inv'
  <2>1. \A p \in Publishers : todo[p] = {} /\ todo'[p] = {}
    BY <1>5 DEF Subscribe, Unread
  <2>2. Attached' = Attached \union {c}
    BY <1>5 DEF Subscribe, Goes, TypeOK
  <2>3. NoPanic'
    BY <1>5, <2>1 DEF Subscribe
  <2>4. NoLeak'
    BY <1>5, <2>2 DEF Subscribe
  <2>5. Walks'
    BY <1>5, <2>1 DEF Subscribe
  <2> QED BY <2>3, <2>4, <2>5
<1>6. ASSUME NEW c \in Clients, Take(c) \/ Written(c) \/ HangUp(c) \/ Drained(c)
      PROVE  Inv'
  <2>1. Attached' = Attached /\ UNCHANGED <<subscribers, closed, todo, pub, server>>
    BY <1>6 DEF Take, Written, HangUp, Drained, Goes, TypeOK
  <2> QED BY <2>1
<1>7. ASSUME NEW c \in Clients, Unsubscribe(c) PROVE Inv'
  <2>1. \A p \in Publishers : todo[p] = {} /\ todo'[p] = {}
    BY <1>7 DEF Unsubscribe, Unread
  <2>2. Attached' = Attached \ {c}
    BY <1>7 DEF Unsubscribe, Goes, TypeOK
  <2>3. NoPanic'
    BY <1>7, <2>1 DEF Unsubscribe
  <2>4. NoLeak'
    BY <1>7, <2>2 DEF Unsubscribe
  <2>5. Walks'
    BY <1>7, <2>1 DEF Unsubscribe
  <2> QED BY <2>3, <2>4, <2>5
<1>8. CASE Signal \/ ServeFailed \/ ShutdownDone \/ ShutdownTimeout
  BY <1>8 DEF Signal, ServeFailed, ShutdownDone, ShutdownTimeout, Moves, TypeOK
<1>9. CASE CloseAll
  <2>1. \A p \in Publishers : todo[p] = {} /\ todo'[p] = {}
    BY <1>9 DEF CloseAll, Unread
  <2> QED BY <1>9, <2>1 DEF CloseAll, Moves
<1>10. CASE UNCHANGED vars
  BY <1>10 DEF vars
<1> QED
  BY <1>1, <1>2, <1>3, <1>4, <1>5, <1>6, <1>7, <1>8, <1>9, <1>10
     DEF Next, Publishing, Streaming, Stopping

(***************************************************************************)
(* No message is sent on a closed channel and none is closed twice,        *)
(* whatever publishers, handlers and the stopping process do.              *)
(***************************************************************************)
THEOREM NoPanicHolds == Spec => []NoPanic
<1>1. Inv => NoPanic
  BY DEF Inv
<1> QED BY InvInit, InvStep, <1>1, PTL DEF Spec

(***************************************************************************)
(* The map holds the open streams and only those.                          *)
(***************************************************************************)
THEOREM NoLeakHolds == Spec => []NoLeak
<1>1. Inv => NoLeak
  BY DEF Inv
<1> QED BY InvInit, InvStep, <1>1, PTL DEF Spec

=============================================================================
