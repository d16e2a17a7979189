------------------------------ MODULE EventBus ------------------------------
(***************************************************************************)
(* The metadata events of the HTTP API: addSubscriber, removeSubscriber    *)
(* and publishEvent of internal/httpapi/server.go, called by the handlers  *)
(* after they have answered, and handleEventsStream, the reader.           *)
(*                                                                         *)
(* Unlike the log broker, publishEvent sends while it holds the mutex, and *)
(* removeSubscriber closes the channel while it holds it.  An event is     *)
(* <<h, k>>, the k-th event of handler goroutine h.                        *)
(***************************************************************************)
EXTENDS Naturals, Sequences

CONSTANTS Handlers,   \* goroutines of requests that change something
          EventSubs,  \* subscriptions, one per request for the stream
          BusCap,     \* capacity of a subscriber's channel, 16 in the code
          MaxEvents,  \* bound: events a handler publishes
          NoHandler   \* nobody holds the mutex

ASSUME BusBounds ==
  /\ BusCap \in Nat \ {0}
  /\ MaxEvents \in Nat
  /\ NoHandler \notin Handlers

VARIABLES mu,      \* the publisher that holds s.mu
          events,  \* how many events each handler has published
          rest,    \* subscribers the publisher still has to serve
          stream,  \* where each subscription stands
          queue,   \* its channel
          forwarded  \* what its handler has forwarded to the client

busVars == <<mu, events, rest, stream, queue, forwarded>>

Events == Handlers \X (1 .. MaxEvents)

BusTypeOK ==
  /\ mu \in Handlers \cup {NoHandler}
  /\ events \in [Handlers -> 0 .. MaxEvents]
  /\ rest \in [Handlers -> SUBSET EventSubs]
  /\ stream \in [EventSubs -> {"out", "in", "left", "gone"}]
  /\ queue \in [EventSubs -> Seq(Events)]
  /\ forwarded \in [EventSubs -> Seq(Events)]

BusInit ==
  /\ mu = NoHandler
  /\ events = [h \in Handlers |-> 0]
  /\ rest = [h \in Handlers |-> {}]
  /\ stream = [c \in EventSubs |-> "out"]
  /\ queue = [c \in EventSubs |-> <<>>]
  /\ forwarded = [c \in EventSubs |-> <<>>]

-----------------------------------------------------------------------------
(* s.subscribers: a subscription stays in the map until removeSubscriber   *)
(* takes it out, after its handler has left the loop.                      *)
Subscribed == {c \in EventSubs : stream[c] \in {"in", "left"}}

MuFree == mu = NoHandler

(* A publisher that does not wait for another one. *)
PublishUnlocked(h) ==
  /\ events[h] < MaxEvents
  /\ rest[h] = {}
  /\ mu' = h
  /\ events' = [events EXCEPT ![h] = @ + 1]
  /\ rest' = [rest EXCEPT ![h] = Subscribed]
  /\ UNCHANGED <<stream, queue, forwarded>>

(* publishEvent takes the mutex. *)
PublishLock(h) ==
  /\ MuFree
  /\ events[h] < MaxEvents
  /\ mu' = h
  /\ events' = [events EXCEPT ![h] = @ + 1]
  /\ rest' = [rest EXCEPT ![h] = Subscribed]
  /\ UNCHANGED <<stream, queue, forwarded>>

(* One send of the loop; a full channel loses the event. *)
PublishSend(h, c) ==
  /\ c \in rest[h]
  /\ rest' = [rest EXCEPT ![h] = @ \ {c}]
  /\ queue' = IF Len(queue[c]) < BusCap
              THEN [queue EXCEPT ![c] = Append(@, <<h, events[h]>>)]
              ELSE queue
  /\ UNCHANGED <<mu, events, stream, forwarded>>

(* The deferred unlock. *)
PublishUnlock(h) ==
  /\ mu = h
  /\ rest[h] = {}
  /\ mu' = NoHandler
  /\ UNCHANGED <<events, rest, stream, queue, forwarded>>

AddSubscriber(c) ==
  /\ MuFree
  /\ stream[c] = "out"
  /\ stream' = [stream EXCEPT ![c] = "in"]
  /\ UNCHANGED <<mu, events, rest, queue, forwarded>>

(* A handler that drains its channel after the client has gone. *)
ForwardUntilClosed(c) ==
  /\ stream[c] \in {"in", "left"}
  /\ queue[c] # <<>>
  /\ forwarded' = [forwarded EXCEPT ![c] = Append(@, Head(queue[c]))]
  /\ queue' = [queue EXCEPT ![c] = Tail(@)]
  /\ UNCHANGED <<mu, events, rest, stream>>

(* handleEventsStream: an event goes from the channel to the client. *)
Forward(c) ==
  /\ stream[c] = "in"
  /\ queue[c] # <<>>
  /\ forwarded' = [forwarded EXCEPT ![c] = Append(@, Head(queue[c]))]
  /\ queue' = [queue EXCEPT ![c] = Tail(@)]
  /\ UNCHANGED <<mu, events, rest, stream>>

(* The client is gone: the handler leaves its loop. *)
Disconnect(c) ==
  /\ stream[c] = "in"
  /\ stream' = [stream EXCEPT ![c] = "left"]
  /\ UNCHANGED <<mu, events, rest, queue, forwarded>>

(* The deferred removeSubscriber. *)
RemoveSubscriber(c) ==
  /\ MuFree
  /\ stream[c] = "left"
  /\ stream' = [stream EXCEPT ![c] = "gone"]
  /\ UNCHANGED <<mu, events, rest, queue, forwarded>>

BusNext ==
  \/ \E h \in Handlers : PublishLock(h) \/ PublishUnlock(h)
  \/ \E h \in Handlers, c \in EventSubs : PublishSend(h, c)
  \/ \E c \in EventSubs : \/ AddSubscriber(c) \/ Forward(c)
                          \/ Disconnect(c) \/ RemoveSubscriber(c)

BusSpec == BusInit /\ [][BusNext]_busVars

-----------------------------------------------------------------------------
(* The bus is a fan-out of the events the handlers have published. *)
BusFan == INSTANCE FanOut WITH
  Items <- Events,
  Members <- EventSubs,
  published <- {e \in Events : e[2] <= events[e[1]]},
  member <- [c \in EventSubs |-> IF stream[c] = "left" THEN "gone" ELSE stream[c]],
  received <- forwarded

BusIsFanOut == BusFan!FanSpec

(* All clients agree on the order of events: of two events that two        *)
(* clients have both been sent, neither sees in the one order what the     *)
(* other sees in the other, however many handlers publish at a time and    *)
(* whatever was dropped for either (the mutex of server.go:888-895 covers  *)
(* the whole round of sends).  No send meets a closed channel either.      *)
Before(s, e, f) ==
  \E i, j \in DOMAIN s : i < j /\ s[i] = e /\ s[j] = f

ClientsAgreeOnOrder ==
  /\ \A c, d \in EventSubs : \A i, j \in DOMAIN forwarded[c] :
       i < j => ~Before(forwarded[d], forwarded[c][j], forwarded[c][i])
  /\ \A h \in Handlers : \A c \in rest[h] : stream[c] # "gone"
=============================================================================
