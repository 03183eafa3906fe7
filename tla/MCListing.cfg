SPECIFICATION Spec
CONSTANTS
  r1 = r1
  r2 = r2
  Disk = {d1, d2, d3, d4}
  Contract = {c1, c2, c3}
  Tag = {NotFound, IoError, Refused}
  Noise = {Refused}
  Etag = {e1, e3}
  Pending = Pending
  c1 = c1
  c2 = c2
  c3 = c3
  e1 = e1
  e3 = e3
  Parity = 1
  etag <- MCEtag
  parity <- MCParity
  Empty <- MCEmpty
  EcD = 2
  EcP = 1
  Unit = 2
  EcJob <- MCEcJob
  EcFaults = 2
  Calls = {r1, r2}
  RpcJob <- MCRpcJob
  NoErr = NoErr
  XlInfo <- MCXlInfo
  XlWrites = 3
  XlMinors = {2}
  NoData = NoData
  NoFile = NoFile
  SLASH = 2
  ListSets = {"s1", "s2"}
  SetDisks = {"d1", "d2", "d3"}
  Place <- MCPlace
  ListJob <- MCPairs
  ListFaults = 0
CHECK_DEADLOCK FALSE
INVARIANT ListsEveryKey
