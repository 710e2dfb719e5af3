SPECIFICATION Spec
CONSTANTS
  Decoders = {d1}
  Chunks = 4
  MaxAreas = 2
  Sizes = {1, 2, 3, 5}
INVARIANTS
  TypeOK
  PoolTidy
  BuffersOwned
  BlocksCounted
CHECK_DEADLOCK FALSE
