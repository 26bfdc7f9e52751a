SPECIFICATION Spec
CONSTANTS
  h1 = h1
  h2 = h2
  Thread = {a, b}
  Host = {h1, h2}
  Addr = {"public", "private"}
  Private = {"private"}
  Plain = {"fs.write"}
  Targets <- MCTargets
  Declared <- MCDeclared
  Grants <- MCGrants
INVARIANTS
  TypeOK
  ConnectsAsVetted
  RebindingSeenAlone
  ResolverComesBack
  StopReachesRequests
SYMMETRY ThreadSymmetry
