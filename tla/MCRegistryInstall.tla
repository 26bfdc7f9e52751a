--------------------------- MODULE MCRegistryInstall ---------------------------
(***************************************************************************)
(* A release and its pre-release, signed with one key.                     *)
(***************************************************************************)
EXTENDS RegistryInstall, TLC

CONSTANTS k1, rc, final

RC          == [core |-> 1, pre |-> 1]
Final       == [core |-> 1, pre |-> 0]
MCVersion   == {RC, Final}
MCVersionOf == (rc :> RC) @@ (final :> Final)
MCSignedBy  == [c \in Content |-> k1]
Symmetry    == Permutations(Installer) \cup Permutations(Admin)
=============================================================================
