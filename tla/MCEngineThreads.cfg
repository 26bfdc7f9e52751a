SPECIFICATION FairSpec
CONSTANTS
  None = None
  k1 = k1
  k2 = k2
  Thread = {a, b}
  Ops = {"tool", "publish", "quarantine", "enable"}
  Pkg = {k1}
  Limit <- MCLimitOf
  Trips = {k1}
  Threshold = 1
  Entries = 1
  Box = {1, 2}
  FailBound = 1
INVARIANTS
  TypeOK
  NoPermitLost
  GatewayDenies
PROPERTIES
  QuarantineTakesHold
