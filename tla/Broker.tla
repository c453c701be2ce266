------------------------------- MODULE Broker --------------------------------
(***************************************************************************)
(* The live feed: publishers (the ingest handler and the workers) hand     *)
(* messages to the buffered channel of every connected dashboard; one      *)
(* handler for each stream takes them out and writes them to its client;   *)
(* the process stops underneath all of them.                               *)
(*                                                                         *)
(* The map of subscribers is guarded by a sync.RWMutex.  Subscribing,      *)
(* unsubscribing and Close hold it for writing and do nothing that blocks, *)
(* so each is one step, taken while nobody reads; Publish holds it for     *)
(* reading over one step for each subscriber.  Of messages only their      *)
(* number in a buffer matters.                                             *)
(***************************************************************************)
EXTENDS Naturals

CONSTANTS
  Clients,     \* streams that may be open at once
  Publishers,  \* goroutines that publish
  BufferSize   \* subscriberBuffer

ASSUME BrokerAssumption == BufferSize \in Nat \ {0}

VARIABLES
  handler,     \* each Stream: "off", "opening" and "leaving" (at the lock), "streaming", "writing"
  subscribers, \* the map's keys
  buffer,      \* messages in each channel
  closed,      \* channels that are closed
  pub,         \* each publisher: "idle" or "sending", which holds the read lock
  todo,        \* the subscribers its loop has still to come to
  server       \* "serving", "draining" in Shutdown, "drained" or "cut" as run returns, "exited"

vars == <<handler, subscribers, buffer, closed, pub, todo, server>>

Init ==
  /\ handler = [c \in Clients |-> "off"]
  /\ subscribers = {}
  /\ buffer = [c \in Clients |-> 0]
  /\ closed = {}
  /\ pub = [p \in Publishers |-> "idle"]
  /\ todo = [p \in Publishers |-> {}]
  /\ server = "serving"

\* Nobody holds the lock for reading, so it can be had for writing.
Unread == \A p \in Publishers : pub[p] = "idle"

\* Somebody waits for it: a handler to enter or leave the map, or Close.
Wanted ==
  \/ \E c \in Clients : handler[c] \in {"opening", "leaving"}
  \/ server \in {"drained", "cut"}

Goes(c, from, to) == handler[c] = from /\ handler' = [handler EXCEPT ![c] = to]

-----------------------------------------------------------------------------
(***************************************************************************)
(* Publish.                                                                *)
(***************************************************************************)

\* RLock, which a waiting Lock holds back.
Begin(p) ==
  /\ pub[p] = "idle" /\ ~Wanted
  /\ pub' = [pub EXCEPT ![p] = "sending"]
  /\ todo' = [todo EXCEPT ![p] = subscribers]
  /\ UNCHANGED <<handler, subscribers, buffer, closed, server>>

\* (Faulty variant: waits for room in the buffer.)
WaitForRoom(p, c) ==
  /\ pub[p] = "sending" /\ c \in todo[p]
  /\ todo' = [todo EXCEPT ![p] = todo[p] \ {c}]
  /\ buffer[c] < BufferSize /\ buffer' = [buffer EXCEPT ![c] = buffer[c] + 1]
  /\ UNCHANGED <<handler, subscribers, closed, pub, server>>

\* (Faulty variant: one message more than the buffer holds.)
OfferMore(p, c) ==
  /\ pub[p] = "sending" /\ c \in todo[p]
  /\ todo' = [todo EXCEPT ![p] = todo[p] \ {c}]
  /\ \/ buffer[c] <= BufferSize /\ buffer' = [buffer EXCEPT ![c] = buffer[c] + 1]
     \/ buffer[c] > BufferSize /\ UNCHANGED buffer
  /\ UNCHANGED <<handler, subscribers, closed, pub, server>>

\* The map is walked in any order; a full buffer drops the message.
Offer(p, c) ==
  /\ pub[p] = "sending" /\ c \in todo[p]
  /\ todo' = [todo EXCEPT ![p] = todo[p] \ {c}]
  /\ \/ buffer[c] < BufferSize /\ buffer' = [buffer EXCEPT ![c] = buffer[c] + 1]
     \/ buffer[c] = BufferSize /\ UNCHANGED buffer
  /\ UNCHANGED <<handler, subscribers, closed, pub, server>>

End(p) ==
  /\ pub[p] = "sending" /\ todo[p] = {}
  /\ pub' = [pub EXCEPT ![p] = "idle"]
  /\ UNCHANGED <<handler, subscribers, buffer, closed, todo, server>>

-----------------------------------------------------------------------------
(***************************************************************************)
(* Stream.                                                                 *)
(***************************************************************************)

Connect(c) ==
  /\ server = "serving" /\ Goes(c, "off", "opening")
  /\ UNCHANGED <<subscribers, buffer, closed, pub, todo, server>>

\* A new channel is made and entered into the map.
Subscribe(c) ==
  /\ Unread /\ Goes(c, "opening", "streaming")
  /\ subscribers' = subscribers \union {c}
  /\ buffer' = [buffer EXCEPT ![c] = 0]
  /\ closed' = closed \ {c}
  /\ UNCHANGED <<pub, todo, server>>

\* A message is taken out, or the keep-alive ticker fires.
Take(c) ==
  /\ Goes(c, "streaming", "writing")
  /\ \/ buffer[c] > 0 /\ buffer' = [buffer EXCEPT ![c] = buffer[c] - 1]
     \/ UNCHANGED buffer
  /\ UNCHANGED <<subscribers, closed, pub, todo, server>>

Written(c) ==
  /\ Goes(c, "writing", "streaming")
  /\ UNCHANGED <<subscribers, buffer, closed, pub, todo, server>>

\* The client hangs up or srv.Close hangs up on it: the request's context ends,
\* or a write fails.
HangUp(c) ==
  /\ Goes(c, "streaming", "leaving") \/ Goes(c, "writing", "leaving")
  /\ UNCHANGED <<subscribers, buffer, closed, pub, todo, server>>

\* The channel is closed and drained.
Drained(c) ==
  /\ c \in closed /\ buffer[c] = 0
  /\ Goes(c, "streaming", "leaving")
  /\ UNCHANGED <<subscribers, buffer, closed, pub, todo, server>>

\* (Faulty variant: the lock is forgotten.)
UnsubscribeAtOnce(c) ==
  /\ Goes(c, "leaving", "off")
  /\ subscribers' = subscribers \ {c}
  /\ closed' = closed \union (subscribers \intersect {c})
  /\ UNCHANGED <<buffer, pub, todo, server>>

\* (Faulty variant: only the channel is closed.)
UnsubscribeHalf(c) ==
  /\ Unread /\ Goes(c, "leaving", "off")
  /\ closed' = closed \union (subscribers \intersect {c})
  /\ UNCHANGED <<subscribers, buffer, pub, todo, server>>

\* The deferred unsubscribe: close is called on a channel still in the map only.
Unsubscribe(c) ==
  /\ Unread /\ Goes(c, "leaving", "off")
  /\ subscribers' = subscribers \ {c}
  /\ closed' = closed \union (subscribers \intersect {c})
  /\ UNCHANGED <<buffer, pub, todo, server>>

-----------------------------------------------------------------------------
(***************************************************************************)
(* run: a signal, srv.Shutdown, and the deferred broker.Close.             *)
(***************************************************************************)

Moves(from, to) == server = from /\ server' = to

Signal ==
  /\ Moves("serving", "draining")
  /\ UNCHANGED <<handler, subscribers, buffer, closed, pub, todo>>

\* Shutdown returns once no request is being served.
ShutdownDone ==
  /\ Moves("draining", "drained")
  /\ \A c \in Clients : handler[c] = "off"
  /\ UNCHANGED <<handler, subscribers, buffer, closed, pub, todo>>

\* (Faulty variant: Shutdown is given no deadline.)
NoTimeout == FALSE /\ UNCHANGED vars

\* The listener fails: run returns at once.
ServeFailed ==
  /\ Moves("serving", "cut")
  /\ UNCHANGED <<handler, subscribers, buffer, closed, pub, todo>>

\* SHUTDOWN_TIMEOUT is over: srv.Close.
ShutdownTimeout ==
  /\ Moves("draining", "cut")
  /\ UNCHANGED <<handler, subscribers, buffer, closed, pub, todo>>

\* Close
CloseAll ==
  /\ Moves("drained", "exited") \/ Moves("cut", "exited")
  /\ Unread
  /\ closed' = closed \union subscribers
  /\ subscribers' = {}
  /\ UNCHANGED <<handler, buffer, pub, todo>>

-----------------------------------------------------------------------------
Publishing(p) == Begin(p) \/ End(p) \/ \E c \in Clients : Offer(p, c)

Streaming(c) ==
  \/ Connect(c) \/ Subscribe(c) \/ Take(c) \/ Written(c)
  \/ HangUp(c) \/ Drained(c) \/ Unsubscribe(c)

Stopping == Signal \/ ServeFailed \/ ShutdownDone \/ ShutdownTimeout \/ CloseAll

Next ==
  \/ \E p \in Publishers : Publishing(p)
  \/ \E c \in Clients : Streaming(c)
  \/ Stopping

Spec == Init /\ [][Next]_vars

\* Publishers run on, the deadline of Shutdown expires, and Close gets the lock
\* when it is free.  No client has to read.
FairSpec ==
  /\ Spec
  /\ \A p \in Publishers : WF_vars(End(p) \/ \E c \in Clients : Offer(p, c))
  /\ WF_vars(ShutdownTimeout) /\ WF_vars(CloseAll)

-----------------------------------------------------------------------------
TypeOK ==
  /\ handler \in [Clients -> {"off", "opening", "streaming", "writing", "leaving"}]
  /\ subscribers \in SUBSET Clients
  /\ buffer \in [Clients -> 0..BufferSize]
  /\ closed \in SUBSET Clients
  /\ pub \in [Publishers -> {"idle", "sending"}]
  /\ todo \in [Publishers -> SUBSET Clients]
  /\ server \in {"serving", "draining", "drained", "cut", "exited"}

(***************************************************************************)
(* The process does not panic: no publisher comes to a closed channel,     *)
(* although its loop goes on while handlers leave and the broker closes,   *)
(* and no channel is closed twice, by its handler and by Close.            *)
(***************************************************************************)
NoPanic ==
  /\ \A p \in Publishers : todo[p] \intersect closed = {}
  /\ subscribers \intersect closed = {}

(***************************************************************************)
(* The map holds the open streams: nobody who is gone, and until the       *)
(* process exits everybody who is there, so that Subscribers counts right  *)
(* and no stream is open that gets nothing.                                *)
(***************************************************************************)
Attached == {c \in Clients : handler[c] \in {"streaming", "writing", "leaving"}}

NoLeak ==
  /\ subscribers \subseteq Attached
  /\ server # "exited" => subscribers = Attached

(***************************************************************************)
(* Publishing never blocks: whatever the clients do or leave undone, the   *)
(* publisher gets to the end of its loop.  ("a browser on a slow           *)
(* connection must not be able to stall the ingest path")                  *)
(***************************************************************************)
PublishEnds == \A p \in Publishers : pub[p] = "sending" ~> pub[p] = "idle"

(***************************************************************************)
(* A process told to stop exits, whatever streams are open.                *)
(***************************************************************************)
StopEnds == server = "draining" ~> server = "exited"

=============================================================================
