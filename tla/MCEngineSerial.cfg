SPECIFICATION Spec
CONSTANTS
  None = None
  k1 = k1
  k2 = k2
  Thread = {a}
  Ops = {"start", "stop", "tool", "provider", "middleware", "publish", "disable", "quarantine", "revoke", "enable", "install", "discover"}
  Pkg = {k1, k2}
  Limit <- MCLimitOf
  Trips = {k1}
  Threshold = 2
  Entries = 2
  Box = {1, 2, 3}
  FailBound = 3
INVARIANTS
  BlockedIsUnregistered
  GatewayFollowsEngine
  BreakerTrips
PROPERTIES
  Implements
