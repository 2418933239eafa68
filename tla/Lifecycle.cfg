SPECIFICATION Spec
CONSTANTS
  d1 = d1
  d2 = d2
  d3 = d3
  None = None
  Displays = {d1, d2, d3}
  Config = {d1}
  Command = {d2}
  Local = {d1}
  Reserve = {d1}
  TerminateServer = {}
  VTWaiters = {}
  ServerAttempts = 2
  StartAttempts = 1
  ConsoleTTYs = FALSE
  Xdmcp = TRUE
  Kdmrc = {{}, {d1}}
  Forces = {"cancel", "force"}
CONSTRAINT Bound
INVARIANTS
  StatusMatchesProcesses
  TriesBounded
  NoOrphans
PROPERTIES
  RemovalIsFinal
