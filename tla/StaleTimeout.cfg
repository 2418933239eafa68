SPECIFICATION Spec
CONSTANTS
  d1 = d1
  d2 = d2
  None = None
  Displays = {d1, d2}
  Config = {d1, d2}
  Command = {}
  Local = {d1, d2}
  Reserve = {}
  TerminateServer = {}
  VTWaiters = {}
  ServerAttempts = 1
  StartAttempts = 1
  ConsoleTTYs = FALSE
  Xdmcp = FALSE
  Kdmrc = {{d1, d2}}
  Forces = {}
INVARIANTS
  TimeoutHasServer
