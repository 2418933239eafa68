SPECIFICATION FairSpec
CONSTANTS
  d1 = d1
  None = None
  Displays = {d1}
  Config = {d1}
  Command = {}
  Local = {d1}
  Reserve = {d1}
  TerminateServer = {}
  VTWaiters = {}
  ServerAttempts = 2
  StartAttempts = 1
  ConsoleTTYs = FALSE
  Xdmcp = FALSE
  Kdmrc = {{d1}}
  Forces = {"force"}
PROPERTIES
  ForcedShutdownEnds
