SPECIFICATION VTSpec
CONSTANTS
  d1 = d1
  d2 = d2
  None = None
  Freed = Freed
  Displays = {d1, d2}
  Config = {d1, d2}
  Command = {}
  Local = {d1, d2}
  Reserve = {}
  TerminateServer = {d1}
  VTWaiters = {d1, d2}
  ServerAttempts = 1
  StartAttempts = 1
  ConsoleTTYs = FALSE
  Xdmcp = FALSE
  Kdmrc = {{d1, d2}}
  Forces = {}
  LastVT = 2
  Gettys = {1}
  ServerVTs <- ServerVTsValue
  ReqVT <- ReqVTValue
CONSTRAINT Bound
INVARIANTS
  VTInv
  OneDisplayPerVT
  IInv
  NoDanglingStart
  TriesBounded
PROPERTIES
  ServerKeepsVT
  SeatsKept
  NoProcessLost
