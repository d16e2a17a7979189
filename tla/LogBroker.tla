----------------------------- MODULE LogBroker -----------------------------
(***************************************************************************)
(* The core log: logBroker of internal/service/native/log_stream.go and    *)
(* its readers, the handlers of GET /api/logs/stream (httpapi/server.go).  *)
(*                                                                         *)
(* Every goroutine that logs is a writer: AppLog from the lifecycle calls  *)
(* and the watchdog, xrayLogHandler from the goroutines of the core.  A    *)
(* line is <<w, k>>, the k-th line of writer w; its text does not matter.  *)
(* dispatch works in two parts: under the lock it puts the line in the     *)
(* ring and copies the set of subscribers; after the unlock it sends to    *)
(* each of them without waiting.  subscribe registers the channel and      *)
(* copies the ring under the lock, and leaves it to a goroutine to send    *)
(* that history, without waiting either.  cancel removes the channel under *)
(* the lock and closes it after the unlock: a send that comes later finds  *)
(* a closed channel, which is a panic and ends the process.                *)
(***************************************************************************)
EXTENDS Naturals, Sequences, FiniteSets

CONSTANTS Writers,   \* goroutines that log
          LogSubs,   \* subscriptions, one per request for the stream
          RingSize,  \* logBufSize, 2000 in the code
          LogCap,    \* capacity of a subscriber's channel, 64 in the code
          MaxLines   \* bound: lines logged by all writers

ASSUME LogBounds ==
  /\ IsFiniteSet(Writers)
  /\ RingSize \in Nat \ {0}
  /\ LogCap \in Nat \ {0}
  /\ MaxLines \in Nat

VARIABLES ring,     \* the recent lines, oldest first
          lines,    \* how many lines each writer has dispatched
          to,       \* the sends the dispatch of each writer still has to do
          sub,      \* where each subscription stands
          chan,     \* its channel
          history,  \* what its history goroutine still has to send
          seen,     \* what its handler has written to the client
          since,    \* how many lines of each writer were older than it
          panicked  \* a send hit a closed channel

logVars == <<ring, lines, to, sub, chan, history, seen, since, panicked>>

Lines == Writers \X (1 .. MaxLines)

SubStates == {"out", "in", "leaving", "gone"}

LogTypeOK ==
  /\ ring \in Seq(Lines)
  /\ lines \in [Writers -> 0 .. MaxLines]
  /\ to \in [Writers -> SUBSET (LogSubs \X Lines)]
  /\ sub \in [LogSubs -> SubStates]
  /\ chan \in [LogSubs -> Seq(Lines)]
  /\ history \in [LogSubs -> Seq(Lines)]
  /\ seen \in [LogSubs -> Seq(Lines)]
  /\ since \in [LogSubs -> [Writers -> 0 .. MaxLines]]
  /\ panicked \in BOOLEAN

LogInit ==
  /\ ring = <<>>
  /\ lines = [w \in Writers |-> 0]
  /\ to = [w \in Writers |-> {}]
  /\ sub = [c \in LogSubs |-> "out"]
  /\ chan = [c \in LogSubs |-> <<>>]
  /\ history = [c \in LogSubs |-> <<>>]
  /\ seen = [c \in LogSubs |-> <<>>]
  /\ since = [c \in LogSubs |-> [w \in Writers |-> 0]]
  /\ panicked = FALSE

-----------------------------------------------------------------------------
(* The lines dispatched so far. *)
Logged == {l \in Lines : l[2] <= lines[l[1]]}

(* The subscribers a dispatch or a clear finds in b.subs. *)
Registered == {c \in LogSubs : sub[c] = "in"}

(* The ring after one more line. *)
Push(l) == Append(IF Len(ring) >= RingSize THEN Tail(ring) ELSE ring, l)

(* The select with a default: send if there is room, else drop; a closed   *)
(* channel panics whether there is room or not.  Nobody reads the channel  *)
(* of a subscriber that left: what it holds is not kept.                   *)
Put(c, l) ==
  /\ panicked' = (sub[c] = "gone")
  /\ chan' = IF sub[c] = "in" /\ Len(chan[c]) < LogCap
             THEN [chan EXCEPT ![c] = Append(@, l)]
             ELSE chan

(* A dispatch that hands its sends to a goroutine and returns. *)
DispatchAndForget(w) ==
  /\ ~panicked
  /\ Cardinality(Logged) < MaxLines
  /\ lines' = [lines EXCEPT ![w] = @ + 1]
  /\ ring' = Push(<<w, lines[w] + 1>>)
  /\ to' = [to EXCEPT ![w] = @ \cup (Registered \X {<<w, lines[w] + 1>>})]
  /\ UNCHANGED <<sub, chan, history, seen, since, panicked>>

(* dispatch up to the unlock. *)
Dispatch(w) ==
  /\ ~panicked
  /\ to[w] = {}
  /\ Cardinality(Logged) < MaxLines
  /\ lines' = [lines EXCEPT ![w] = @ + 1]
  /\ ring' = Push(<<w, lines[w] + 1>>)
  /\ to' = [to EXCEPT ![w] = @ \cup (Registered \X {<<w, lines[w] + 1>>})]
  /\ UNCHANGED <<sub, chan, history, seen, since, panicked>>

(* dispatch after the unlock: one send, in the order of a map. *)
SendLive(w, c, l) ==
  /\ ~panicked
  /\ <<c, l>> \in to[w]
  /\ Put(c, l)
  /\ to' = [to EXCEPT ![w] = @ \ {<<c, l>>}]
  /\ UNCHANGED <<ring, lines, sub, history, seen, since>>

(* A subscription that unlocks between the two. *)
SubscribeInTwoSteps(c) ==
  /\ ~panicked
  /\ \/ /\ sub[c] = "out"
        /\ sub' = [sub EXCEPT ![c] = "in"]
        /\ UNCHANGED history
     \/ /\ sub[c] = "in" /\ history[c] = <<>>
        /\ history' = [history EXCEPT ![c] = ring]
        /\ UNCHANGED sub
  /\ since' = [since EXCEPT ![c] = lines]
  /\ UNCHANGED <<ring, lines, to, chan, seen, panicked>>

(* subscribe: registration and copy of the ring under one lock. *)
Subscribe(c) ==
  /\ ~panicked
  /\ sub[c] = "out"
  /\ sub' = [sub EXCEPT ![c] = "in"]
  /\ history' = [history EXCEPT ![c] = ring]
  /\ since' = [since EXCEPT ![c] = lines]
  /\ UNCHANGED <<ring, lines, to, chan, seen, panicked>>

(* The history goroutine: it runs on after a cancel. *)
SendHistory(c) ==
  /\ ~panicked
  /\ history[c] # <<>>
  /\ Put(c, Head(history[c]))
  /\ history' = [history EXCEPT ![c] = Tail(@)]
  /\ UNCHANGED <<ring, lines, to, sub, seen, since>>

(* handleLogsStream: a line goes from the channel to the client. *)
Receive(c) ==
  /\ ~panicked
  /\ sub[c] = "in"
  /\ chan[c] # <<>>
  /\ seen' = [seen EXCEPT ![c] = Append(@, Head(chan[c]))]
  /\ chan' = [chan EXCEPT ![c] = Tail(@)]
  /\ UNCHANGED <<ring, lines, to, sub, history, since, panicked>>

(* The client is gone: cancel up to the unlock. *)
CancelDelete(c) ==
  /\ ~panicked
  /\ sub[c] = "in"
  /\ sub' = [sub EXCEPT ![c] = "leaving"]
  /\ chan' = [chan EXCEPT ![c] = <<>>]
  /\ UNCHANGED <<ring, lines, to, history, seen, since, panicked>>

(* cancel after the unlock: close. *)
CancelClose(c) ==
  /\ ~panicked
  /\ sub[c] = "leaving"
  /\ sub' = [sub EXCEPT ![c] = "gone"]
  /\ UNCHANGED <<ring, lines, to, chan, history, seen, since, panicked>>

(* clear, called by every start of the core once it is committed. *)
Clear ==
  /\ ~panicked
  /\ ring # <<>>
  /\ ring' = <<>>
  /\ UNCHANGED <<lines, to, sub, chan, history, seen, since, panicked>>

LogNext ==
  \/ \E w \in Writers : Dispatch(w)
  \/ \E w \in Writers, c \in LogSubs, l \in Lines : SendLive(w, c, l)
  \/ \E c \in LogSubs : \/ Subscribe(c) \/ SendHistory(c) \/ Receive(c)
                        \/ CancelDelete(c) \/ CancelClose(c)
  \/ Clear

LogSpec == LogInit /\ [][LogNext]_logVars

-----------------------------------------------------------------------------
(* The broker is a fan-out: the history goroutine and a dispatch that      *)
(* overlap never hand a client the same line twice, because registration   *)
(* and copy of the ring are one critical section (log_stream.go:66-73),    *)
(* and a handler that has left its loop writes nothing any more.           *)
LogFan == INSTANCE FanOut WITH
  Items <- Lines,
  Members <- LogSubs,
  published <- Logged,
  member <- [c \in LogSubs |-> IF sub[c] = "leaving" THEN "gone" ELSE sub[c]],
  received <- seen

LogIsFanOut == LogFan!FanSpec

(* Two lines of one writer that are both newer than the subscription reach *)
(* the client in the order in which they were logged, whatever the history *)
(* goroutine and the other writers put between them: dispatch serves all   *)
(* its subscribers before it returns (log_stream.go:54-59).                *)
Live(c, l) == l[2] > since[c][l[1]]

LiveLinesInOrder ==
  \A c \in LogSubs : \A i, j \in DOMAIN seen[c] :
    LET a == seen[c][i]
        b == seen[c][j]
    IN  (i < j /\ a[1] = b[1] /\ Live(c, a) /\ Live(c, b)) => a[2] < b[2]
=============================================================================
