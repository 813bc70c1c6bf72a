SPECIFICATION Spec
CONSTANTS
  k1 = k1
  k2 = k2
  a1 = a1
  a2 = a2
  KeyIds = {k1, k2}
  Admins = {a1, a2}
  Expiries = {1}
  NoTime = NoTime
  MaxRevision = 4
  MaxTime = 1
  HandEdits = TRUE
CHECK_DEADLOCK FALSE
INVARIANTS
  TypeOK
  RevocationIsFinal
  RotatedSecretStaysOut
  SuccessReplacesWhatItRead
PROPERTY
  ImplementsLifecycle
