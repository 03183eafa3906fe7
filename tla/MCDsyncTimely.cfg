SPECIFICATION Spec
CONSTANTS
  Peer = {p1, p2, p3}
  Client = {c1, c2}
  Uid = {u1, u2}
  None = None
  Validity = 6
  RefreshInterval = 3
  Synchronous = TRUE
  MaxLatency = 1
  MaxMissed = 0
  CanRestart = {}
  CanCrash = {c1, c2}
  MaxStrays = 3
  MaxFailures = 1
SYMMETRY Symmetry
CONSTRAINT Bounded
INVARIANTS HeldLeaseLive MutualExclusion NoSpuriousLoss
PROPERTIES LeaseIsolation
