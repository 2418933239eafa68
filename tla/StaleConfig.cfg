SPECIFICATION Spec
CONSTANTS
  d1 = d1
  f1 = f1
  f2 = f2
  any = any
  None = None
  Displays = {d1}
  Interfaces = {any}
  AccessFiles = {f1, f2}
  Texts <- TextsValue
  Accesses = {{}, {any}}
  EditsAnytime = FALSE
  ReaderFails = FALSE
  ConsoleTTYs = FALSE
  MaxTime = 2
PROPERTIES
  HangupRereads
