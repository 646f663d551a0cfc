SPECIFICATION Spec
CONSTANTS
  None = None
  Clients = {c1}
  Configs <- Sites
  MaxVersion = 1
  MaxRequests = 3
INVARIANTS
  TierInvisible
  NotModifiedIsSame
  ResumeJoinsOne
  ClientCanRead
  PartialOnlyUnfilled
