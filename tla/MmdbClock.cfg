SPECIFICATION Spec
CONSTANTS
  city = city
  asn = asn
  j1 = j1
  j2 = j2
  h1 = h1
  h2 = h2
  Editions = {city, asn}
  EditionOrder <- CityThenASN
  Jobs = {j1}
  Handlers = {h1}
  Retained = 3
  ClockStepsBack = TRUE
  MaxReleases = 4
  MaxAttempts = 2
  MaxFaults = 0
INVARIANT
  CurrentIsComplete
