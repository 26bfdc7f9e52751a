--------------------------- MODULE MCPluginEngine ---------------------------
(***************************************************************************)
(* Values for the constants of PluginEngine.  k1 admits one call at a time *)
(* and k2 two; the runs choose which of them the breaker may disable.      *)
(***************************************************************************)
EXTENDS PluginEngine, TLC

CONSTANTS k1, k2

MCLimit   == (k1 :> 1) @@ (k2 :> 2)
MCLimitOf == [k \in Pkg |-> MCLimit[k]]

\* Threads are interchangeable in the invariants.
ThreadSymmetry == Permutations(Thread)
=============================================================================
