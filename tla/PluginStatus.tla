---------------------------- MODULE PluginStatus ----------------------------
(***************************************************************************)
(* The statuses of an installed plugin (models.py, PluginStatus) and the   *)
(* table of the transitions between them (loader.py).                      *)
(***************************************************************************)

Status == {"discovered", "verified", "installed", "configured",
           "pending_approval", "permission_pending", "enabled", "running",
           "suspended", "disabled", "quarantined", "revoked", "uninstalled"}

\* The statuses that only an approval or an enable leads to.
Active == {"enabled", "running", "suspended"}

\* Statuses that a grant or an enable refuses.
Condemned == {"revoked", "quarantined", "uninstalled"}

\* ALLOWED_STATUS_TRANSITIONS.
Reviewable == {"enabled", "disabled", "quarantined", "revoked", "uninstalled"}

AllowedTransitions ==
  [s \in Status |->
     CASE s = "discovered"         -> {"verified", "uninstalled"}
       [] s = "verified"           -> {"installed", "revoked", "uninstalled"}
       [] s = "installed"          -> Reviewable \cup {"configured", "pending_approval", "permission_pending"}
       [] s = "configured"         -> Reviewable \cup {"pending_approval", "permission_pending"}
       [] s = "pending_approval"   -> Reviewable \cup {"permission_pending"}
       [] s = "permission_pending" -> Reviewable \cup {"pending_approval"}
       [] s = "enabled"            -> (Reviewable \ {"enabled"}) \cup {"running", "suspended"}
       [] s = "running"            -> Reviewable \cup {"suspended"}
       [] s = "suspended"          -> Reviewable
       [] s = "disabled"           -> Reviewable \ {"disabled"}
       [] s = "quarantined"        -> {"revoked", "uninstalled"}
       [] s = "revoked"            -> {"uninstalled"}
       [] s = "uninstalled"        -> {}]

\* The check at the head of transition_status: the same status is accepted.
CanTransition(from, to) == to = from \/ to \in AllowedTransitions[from]

=============================================================================
