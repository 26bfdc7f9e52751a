SPECIFICATION Spec
CONSTANTS
  k1 = k1
  rc = rc
  final = final
  Installer = {i, j}
  Admin = {a, b}
  Key = {k1}
  Version <- MCVersion
  Content = {rc, final}
  VersionOf <- MCVersionOf
  SignedBy <- MCSignedBy
  Edits = 4
  Asking = {TRUE, FALSE}
INVARIANTS
  TypeOK
PROPERTIES
  InstalledWasVetted
  RevokedKeyStaysOut
  NoDowngrade
SYMMETRY
  Symmetry
CHECK_DEADLOCK FALSE
