SPECIFICATION FairSpec
CONSTANTS
  city = city
  asn = asn
  j1 = j1
  j2 = j2
  h1 = h1
  h2 = h2
  Editions = {city, asn}
  EditionOrder <- CityThenASN
  Jobs = {j1,j2}
  Handlers = {h1}
  Retained = 2
  ClockStepsBack = FALSE
  MaxReleases = 3
  MaxAttempts = 2
  MaxFaults = 1
INVARIANTS
  TypeOK
  RecentCurrentIsComplete
  DiskUseIsBounded
  AnswersFromOneGeneration
  LookupsUseOpenReaders
  OnlyServedReadersOpen
PROPERTY
  ActiveGenerationIsServed
