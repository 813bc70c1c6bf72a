SPECIFICATION Spec
CONSTANTS
  k1 = k1
  k2 = k2
  k3 = k3
  r1 = r1
  r2 = r2
  kidA = kidA
  kidB = kidB
  Requests = {r1, r2}
  Keys = {k1, k2, k3}
  KidOf <- SharedKid
  KeySets <- Rotations
  NoKey = NoKey
  Tokens <- SomeTokens
  NoToken = NoToken
  Ages = {0, 3}
  DefaultTTL = 1
  MaxTTL = 2
  FetchTimeout = 1
  Skew = 0
  MaxTime = 3
  MaxRotations = 2
SYMMETRY Symmetry
INVARIANTS
  TypeOK
PROPERTIES
  AdmissionsAreCurrent
  RefusedOnlyForCause
