SPECIFICATION FairSpec
CONSTANTS
  Peer = {p1, p2}
  Client = {c1, c2}
  Uid = {u1, u2}
  None = None
  Validity = 2
  RefreshInterval = 1
  Synchronous = TRUE
  MaxLatency = 0
  MaxMissed = 0
  CanRestart = {p1, p2}
  CanCrash = {c1}
  MaxStrays = 2
  MaxFailures = 1
CONSTRAINT BoundedTogether
PROPERTIES OverlapResolved LeaseFreed 
