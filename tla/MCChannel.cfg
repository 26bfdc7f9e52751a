SPECIFICATION FairSpec
CONSTANTS
  Thread = {a, b}
  Calls = 3
  MaxConcurrency = 1
  Transports = {"pipe", "stdio"}
  Troubles = {"unsent", "big", "bad", "dies"}
INVARIANTS
  TypeOK
  AnswersMatch
  QuietBetweenCalls
PROPERTIES
  RepliesReachTheirCall
  CallsReturnOrAsk
CHECK_DEADLOCK FALSE
