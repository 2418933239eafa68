SPECIFICATION XSpec
CONSTANTS
  d1 = d1
  d2 = d2
  d3 = d3
  c1 = c1
  c2 = c2
  None = None
  Displays = {d1, d2, d3}
  Config = {}
  Command = {d1}
  Local = {}
  Reserve = {}
  TerminateServer = {}
  VTWaiters = {}
  ServerAttempts = 1
  StartAttempts = 1
  ConsoleTTYs = FALSE
  Xdmcp = TRUE
  Kdmrc = {{}}
  Forces = {}
  Clients = {c1, c2}
  Namesake <- NamesakeValue
  MaxId = 3
SYMMETRY Alike
CONSTRAINT Bound
INVARIANTS
  XInv
  OneSessionAnswers
PROPERTIES
  DuplicatesIgnored
  NoProcessLost
  RemovalIsFinal
