--------------------------- MODULE MCSandboxChannel ---------------------------
(***************************************************************************)
(* Two threads, one of which may stop the sandbox under the other's call.  *)
(***************************************************************************)
EXTENDS SandboxChannel, TLC
=============================================================================
