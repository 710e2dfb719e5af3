SPECIFICATION FairSpec
CONSTANTS
  Consumers = {c1, c2, c3}
  MaxConsumers = 3
  MaxFrames = 4
  MemoryFails = TRUE
INVARIANTS
  TypeOK
  RefCounts
  SleepersHaveNothing
PROPERTIES
  HeldStoreStays
  ImplementsLog
  EveryFrameDelivered
