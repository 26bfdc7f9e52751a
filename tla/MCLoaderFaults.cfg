SPECIFICATION Spec
CONSTANTS
  None = None
  p1 = p1
  p2 = p2
  p3 = p3
  t1 = t1
  t2 = t2
  compute = compute
  write = write
  writeAny = writeAny
  Version <- MCVersion
  PkgVersion <- MCPkgVersionOf
  Declares <- MCDeclaresOf
  DeclName <- MCDeclNameOf
  Pkg = {p1, p2, p3}
  ThirdParty = {p1, p2, p3}
  Decl = {compute, write, writeAny}
  Proc = {proc1}
  Revocable = {"2"}
  Targets = {"disabled", "quarantined", "running"}
  Reviewers = {"system"}
  Grants = {{compute}, {compute, write}, {compute, writeAny}}
  Installers = {proc1}
  Faults = {"rename", "copy", "prepare", "crash"}
INVARIANTS
  ActiveIsReviewed
  GrantsWithinApproval
  StoppedStaysStopped
  SealMatchesTree
