SPECIFICATION FairSpec
CONSTANTS
  d1 = d1
  None = None
  Displays = {d1}
  Config = {d1}
  Command = {}
  Local = {d1}
  Reserve = {}
  TerminateServer = {}
  VTWaiters = {}
  ServerAttempts = 2
  StartAttempts = 1
  ConsoleTTYs = FALSE
  Xdmcp = FALSE
  Kdmrc = {{d1}}
  Forces = {}
PROPERTIES
  PhoenixRises
