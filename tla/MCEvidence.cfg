SPECIFICATION Spec
CONSTANTS
  Missing = Missing
  Commits = 2
  Crashes = 1
  Scans = {"none", "pip", "sca", "unknown", "fixture"}
INVARIANTS
  TypeOK
  CollectorNeverApproves
  IndexAgreesWithGate
  ApprovalIsSound
  FullGoNeedsEvidence
CHECK_DEADLOCK FALSE
