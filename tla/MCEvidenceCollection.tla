------------------------- MODULE MCEvidenceCollection -------------------------
(***************************************************************************)
(* Two commits and one command that dies: enough for a file of the first   *)
(* commit to meet a collection of the second.                              *)
(***************************************************************************)
EXTENDS EvidenceCollection
=============================================================================
