--------------------------- MODULE EventDelivery ----------------------------
(***************************************************************************)
(* What an event bus promises its products, whatever drains it: an         *)
(* accepted event reaches every handler subscribed to it at least once     *)
(* before it counts as published.  It may be parked instead, and it may be *)
(* taken up again after that, so handlers can see it more than once, but   *)
(* nothing that was accepted or delivered is ever forgotten.               *)
(***************************************************************************)
EXTENDS Integers

CONSTANTS Events, Names, NoName, Handlers, Subscriptions

VARIABLES
  phase,      \* what the outbox says of each event
  name,       \* the name it was published under
  delivered   \* <<event, handler>>: completed at least once

vars == <<phase, name, delivered>>

Init ==
  /\ phase = [e \in Events |-> "absent"]
  /\ name = [e \in Events |-> NoName]
  /\ delivered = {}

DeliveredToAll(e) == \A h \in Subscriptions[name[e]] : <<e, h>> \in delivered

Accepts(e, n) ==
  /\ phase[e] = "absent"
  /\ phase' = [phase EXCEPT ![e] = "pending"]
  /\ name' = [name EXCEPT ![e] = n]

Completes(e, h) ==
  /\ phase[e] # "absent"
  /\ h \in Subscriptions[name[e]]
  /\ delivered' = delivered \cup {<<e, h>>}

Accept(e, n) == Accepts(e, n) /\ UNCHANGED delivered

Deliver(e, h) == Completes(e, h) /\ UNCHANGED <<phase, name>>

(* A handler may have an event of its own accepted, and complete with that. *)
Reply(e, h) == Completes(e, h) /\ \E d \in Events, n \in Names : Accepts(d, n)

(* Publishing needs every handler; parking and retrying need no reason here. *)
Settle(e, outcome) ==
  /\ phase[e] # "absent"
  /\ outcome = "published" => DeliveredToAll(e)
  /\ phase' = [phase EXCEPT ![e] = outcome]
  /\ UNCHANGED <<name, delivered>>

Next ==
  \E e \in Events :
    \/ \E n \in Names : Accept(e, n)
    \/ \E h \in Handlers : Deliver(e, h) \/ Reply(e, h)
    \/ \E outcome \in {"published", "failed", "pending"} : Settle(e, outcome)

Spec == Init /\ [][Next]_vars
=============================================================================
