----------------------------- MODULE MCSessions -----------------------------
(* Small instances of Sessions for TLC.                                     *)
EXTENDS Sessions, TLC

CONSTANTS u1, u2, c1, c2

(* Users differ in nothing, nor do calls.                                   *)
Interchangeable == Permutations(Users) \cup Permutations(Calls)
=============================================================================
