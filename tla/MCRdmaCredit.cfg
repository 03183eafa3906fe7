SPECIFICATION RdmaSpec
CONSTANTS
  a = a
  b = b
  c1 = c1
  c2 = c2
  c3 = c3
  Node = {a, b}
  Client = {a}
  Call = {c1, c2, c3}
  Caller <- MCCaller
  Callee <- MCCallee
  Setting <- MCSetting
CHECK_DEADLOCK FALSE
INVARIANTS CreditConserved 
PROPERTIES CallsReturn
