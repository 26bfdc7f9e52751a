SPECIFICATION Spec
CONSTANTS
  Missing = Missing
  Commits = 2
  Crashes = 1
  Scans = {"none", "pip", "sca", "unknown", "fixture"}
PROPERTIES
  StaleDrillIsNotPass
CHECK_DEADLOCK FALSE
