SPECIFICATION GetSpec
CONSTANTS
  Disk = {d1, d2, d3, d4}
  Parity = 1
  None = None
  w0 = w0
  w1 = w1
  w2 = w2
  x1 = x1
  Write = {w0, w1, w2}
  Versioned = {}
  Inline = {w2}
  Delete = {x1}
  Batch = {}
  Scenario <- GetScenarios
SYMMETRY Symmetry
INVARIANTS GetFresh FailsOnlyIfChanged
