SPECIFICATION FairSpec
CONSTANTS
  e1 = e1
  e2 = e2
  e3 = e3
  e4 = e4
  Events = {e1, e2, e3}
  StreamCapacity = 2
  BatchSize = 2
  ChanCapacity = 1
  MaxAckPending = 2
  MaxFaults = 1
CHECK_DEADLOCK FALSE
INVARIANTS
  TypeOK
  AnsweredIsKept
  OnlyWrittenIsAcked
  OneRowUnlessFault
PROPERTIES
  ImplementsDelivery
  EventuallyPersisted
  StreamDrains
