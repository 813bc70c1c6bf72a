SPECIFICATION Spec
CONSTANTS
  q1 = q1
  q2 = q2
  Requests = {q1, q2}
  AllowPrivateIPs = FALSE
  MaxGeneration = 2
INVARIANTS
  TypeOK
  AnswersAreAudited
  EventNamesGenerationUsed
  NothingAboutRefusedTargets
  MetricsAgree
SYMMETRY Symmetry
CHECK_DEADLOCK FALSE
