SPECIFICATION FairSpec
CONSTANTS
  p1 = p1
  p2 = p2
  lookup = lookup
  mutation = mutation
  Pods = {p1, p2}
  MaxFaults = 1
  MaxEdits = 1
  Requests = {lookup, mutation}
  ListenerOf <- OneOfEach
INVARIANTS
  TypeOK
  VouchedStreamIsSafe
  HandlersKeepResources
PROPERTIES
  NoLoserFails
  PodsComeUp
