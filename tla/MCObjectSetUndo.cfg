SPECIFICATION Spec
CONSTANTS
  Disk = {d1, d2, d3, d4}
  Parity = 1
  None = None
  w0 = w0
  w1 = w1
  w2 = w2
  v0 = v0
  v1 = v1
  x1 = x1
  b1 = b1
  Write = {w0, w1, w2, v0, v1}
  Versioned = {v0, v1}
  Inline = {w2}
  Delete = {x1}
  Batch = {b1}
  Scenario <- UndoScenario
SYMMETRY Symmetry
INVARIANT AckedReadable
