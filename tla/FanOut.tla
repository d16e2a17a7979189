------------------------------- MODULE FanOut -------------------------------
(***************************************************************************)
(* What a stream of the backend promises to its subscribers, whatever its  *)
(* locks and buffers: an item that was published reaches each subscriber   *)
(* at most once, a subscriber gets nothing that was not published, and it  *)
(* gets nothing before it joined or after it left.  Items may be dropped   *)
(* and, for want of a stronger promise, may arrive in any order.           *)
(*                                                                         *)
(* LogBroker (core log) and EventBus (metadata events) implement it.       *)
(***************************************************************************)
EXTENDS Naturals, Sequences

CONSTANTS Items,    \* what can be published, each once
          Members   \* subscriptions, each used once

VARIABLES published,  \* the items published so far
          member,     \* where each subscription stands: "out", "in", "gone"
          received    \* what each subscription has received, in order

fanVars == <<published, member, received>>

Got(m) == {received[m][i] : i \in DOMAIN received[m]}

FanInit ==
  /\ published = {}
  /\ member = [m \in Members |-> "out"]
  /\ received = [m \in Members |-> <<>>]

Publish ==
  /\ published' # published
  /\ published \subseteq published' /\ published' \subseteq Items
  /\ UNCHANGED <<member, received>>

Join(m) ==
  /\ member[m] = "out"
  /\ member' = [member EXCEPT ![m] = "in"]
  /\ UNCHANGED <<published, received>>

Deliver(m) ==
  /\ member[m] = "in"
  /\ \E i \in published \ Got(m) : received' = [received EXCEPT ![m] = Append(@, i)]
  /\ UNCHANGED <<published, member>>

Leave(m) ==
  /\ member[m] = "in"
  /\ member' = [member EXCEPT ![m] = "gone"]
  /\ UNCHANGED <<published, received>>

FanNext ==
  \/ Publish
  \/ \E m \in Members : Join(m) \/ Deliver(m) \/ Leave(m)

FanSpec == FanInit /\ [][FanNext]_fanVars
=============================================================================
