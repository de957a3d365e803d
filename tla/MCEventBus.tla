----------------------------- MODULE MCEventBus -----------------------------
(* Small instances of EventBus for TLC.                                     *)
EXTENDS EventBus, TLC

CONSTANTS a, b, h1, h2, r1, r2, scheduled, created, w1, w2

(* meet.room.scheduled has two subscribers, calendar.event.created one.     *)
TestSubscriptions == [n \in Names |-> IF n = scheduled THEN {h1, h2} ELSE {h1}]

SameHost == [r \in Relays |-> a]
TwoHosts == (r1 :> a) @@ (r2 :> b)
=============================================================================
