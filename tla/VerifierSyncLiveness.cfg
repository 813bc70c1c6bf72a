SPECIFICATION FairSyncSpec
CONSTANTS
  k1 = k1
  k2 = k2
  a1 = a1
  a2 = a2
  r1 = r1
  r2 = r2
  KeyIds = {k1}
  Admins = {a1}
  Host <- OneAdminPod
  Static <- NoStatic
  Replicas = {r1, r2}
  Expiries = {1}
  NoTime = NoTime
  MaxRevision = 3
  MaxTime = 0
  HandEdits = FALSE
PROPERTY
  RevocationReachesReadyReplicas
