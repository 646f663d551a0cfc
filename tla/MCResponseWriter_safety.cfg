SPECIFICATION Spec
CHECK_DEADLOCK FALSE
CONSTANTS
  Lengths = {0, 1, 3, 4}
  Chunks = {1, 2}
  Limits <- SomeLimits
  Thresholds <- SomeThresholds
  Statuses = {"ok", "cacheable", "uncacheable"}
  Faults = {"origin", "client", "temp"}
INVARIANTS
  TypeOK
  ClientWhole
  BufferBounded
  StoredWhole
  StoredAllowed
