--------------------------- MODULE MCProductFlow ----------------------------
(* Small instances of ProductFlow for TLC; requests are interchangeable.    *)
EXTENDS ProductFlow, TLC

CONSTANTS a, b, r1, r2, q1, q2

Sym      == Permutations(Requests)
OneHost  == [r \in Relays |-> a]
TwoHosts == (r1 :> a) @@ (r2 :> b)
=============================================================================
