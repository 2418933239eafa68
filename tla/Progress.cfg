SPECIFICATION FairSpec
CONSTANTS
  d1 = d1
  None = None
  Displays = {d1}
  Config = {d1}
  Command = {}
  Local = {d1}
  Reserve = {}
  TerminateServer = {}
  VTWaiters = {}
  ServerAttempts = 1
  StartAttempts = 1
  ConsoleTTYs = TRUE
  Xdmcp = FALSE
  Kdmrc = {{}, {d1}}
  Forces = {"cancel"}
INVARIANTS
  TypeOK
  StatusMatchesProcesses
  NoOrphans
PROPERTIES
  RemovalIsFinal
  TransientStatesEnd
  StoppingEnds
