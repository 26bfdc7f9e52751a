------------------------------ MODULE MCAuditLog ------------------------------
(***************************************************************************)
(* An engine with two threads and an operator's command on one audit log.  *)
(***************************************************************************)
EXTENDS AuditLog, TLC

CONSTANTS engine, cli, a, b, c

MCProcOf == (a :> engine) @@ (b :> engine) @@ (c :> cli)

\* The engine's two threads are interchangeable.
MCSymmetry == Permutations({a, b})
=============================================================================
