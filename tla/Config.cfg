SPECIFICATION MCSpec
CONSTANTS
  d1 = d1
  f1 = f1
  f2 = f2
  any = any
  None = None
  Displays = {d1}
  Interfaces = {any}
  AccessFiles = {f1, f2}
  Texts <- TextsValue
  Accesses = {{}, {any}}
  EditsAnytime = TRUE
  ReaderFails = TRUE
  ConsoleTTYs = TRUE
  MaxTime = 2
INVARIANTS
  ConfigInv
  AccessTimeIsHonest
  ListedStays
  RunningIsConfigured
PROPERTIES
  ReaderIsClosed
  AccessFollows
