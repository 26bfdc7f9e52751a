-------------------------- MODULE PluginLifecycle --------------------------
(***************************************************************************)
(* What the engine promises about one plugin to a caller who is alone: it  *)
(* is registered with the gateway only from an enabled status, and no stop *)
(* status is reached while it is registered.                               *)
(***************************************************************************)
EXTENDS PluginStatus

VARIABLES status, registered

lifecycle == <<status, registered>>

\* The statuses disable, quarantine and revoke lead to.
StopStatus == {"disabled", "quarantined", "revoked"}

Init ==
  /\ status \in {"pending_approval", "enabled"}
  /\ registered = FALSE

\* start_plugin.
Activate ==
  /\ status = "enabled"
  /\ registered' = TRUE
  /\ UNCHANGED status

\* stop_plugin.
Deactivate ==
  /\ registered' = FALSE
  /\ UNCHANGED status

\* A stop status is for a plugin that is not registered; an enable is for any
\* plugin whose status the transition table and the grant allow it.
Move(s) ==
  /\ s \in AllowedTransitions[status]
  /\ s \in StopStatus => ~registered
  /\ s = "enabled" => status \notin Condemned
  /\ s \in StopStatus \cup {"enabled"}
  /\ status' = s
  /\ UNCHANGED registered

\* An upgrade asks for a new review.
Review ==
  /\ status # "revoked"
  /\ status' = "pending_approval"
  /\ UNCHANGED registered

Next == Activate \/ Deactivate \/ Review \/ \E s \in Status : Move(s)

Spec == Init /\ [][Next]_lifecycle

=============================================================================
