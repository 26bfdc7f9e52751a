SPECIFICATION Spec
CONSTANTS
  None = None
  p1 = p1
  p2 = p2
  p3 = p3
  t1 = t1
  t2 = t2
  compute = compute
  write = write
  writeAny = writeAny
  Version <- MCVersion
  PkgVersion <- MCPkgVersionOf
  Declares <- MCDeclaresOf
  DeclName <- MCDeclNameOf
  Pkg = {p1, p2}
  ThirdParty = {p1, p2}
  Decl = {compute, write}
  Proc = {proc1, proc2}
  Revocable = {}
  Targets = {"quarantined"}
  Reviewers = {"system"}
  Grants = {{compute}}
  Installers = {proc1}
  Faults = {}
INVARIANTS
  ActiveIsReviewed
  GrantsWithinApproval
