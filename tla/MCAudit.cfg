SPECIFICATION Spec
CONSTANTS
  engine = engine
  cli = cli
  a = a
  b = b
  c = c
  Proc = {engine, cli}
  Thread = {a, b, c}
  ProcOf <- MCProcOf
  Records = 3
  Interval = 2
  Readers = 1
  Crashes = 1
  Changes = 1
SYMMETRY MCSymmetry
INVARIANTS
  TypeOK
  CleanLogVerifies
  SealedPrefixKept
