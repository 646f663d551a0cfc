SPECIFICATION Spec
CONSTANTS
  None = None
  Evictor = Evictor
  Keys = {k1}
  Readers = {r1}
  Streams = {x1}
  Sizes = {1}
  Configs <- OnlyUnlimited
  Faults = {}
  MaxWrites = 2
  MaxRestarts = 0
INVARIANTS
  StreamOneWrite
