SPECIFICATION Spec
CONSTANTS
  None = None
  p1 = p1
  p2 = p2
  p3 = p3
  t1 = t1
  t2 = t2
  compute = compute
  write = write
  writeAny = writeAny
  Version <- MCVersion
  PkgVersion <- MCPkgVersionOf
  Declares <- MCDeclaresOf
  DeclName <- MCDeclNameOf
  Pkg = {p1, p2, p3, t1}
  ThirdParty = {p1, p2, p3}
  Decl = {compute, write, writeAny}
  Proc = {proc1}
  Revocable = {"1", "2"}
  Targets = {"disabled", "quarantined", "suspended", "running", "uninstalled"}
  Reviewers = {"system", "admin"}
  Grants = {{}, {compute}, {compute, write}, {compute, writeAny}}
  Installers = {proc1}
  Faults = {}
INVARIANTS
  TypeOK
  RestartAgrees
  RevokedVersionStaysOut
PROPERTIES
  RevokedIsFinal
