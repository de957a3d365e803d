----------------------------- MODULE MCPipeline -----------------------------
(* Model values of Pipeline for TLC; its calls are interchangeable.         *)
EXTENDS Pipeline, TLC

CONSTANTS c1, c2

Sym == Permutations(Calls)
=============================================================================
