SPECIFICATION Spec
CHECK_DEADLOCK FALSE
CONSTANTS
  Lengths = {3}
  Chunks = {1}
  Limits <- NoLimit
  Thresholds <- OneThreshold
  Statuses = {"ok"}
  Faults = {"client"}
INVARIANTS
  StoredComplete
