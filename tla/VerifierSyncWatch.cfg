SPECIFICATION SyncSpec
CONSTANTS
  k1 = k1
  k2 = k2
  a1 = a1
  a2 = a2
  r1 = r1
  r2 = r2
  KeyIds = {k1, k2}
  Admins = {a1}
  Expiries = {1}
  NoTime = NoTime
  MaxRevision = 3
  MaxTime = 0
  HandEdits = TRUE
  Replicas = {r1, r2}
  Host <- OneAdminPod
  Static <- Rollout
INVARIANTS
  SyncTypeOK
  WatchStateMatchesBucket
  NoAmbiguousId
  PassiveRevocationRejects
