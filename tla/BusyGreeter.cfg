SPECIFICATION CSpec
CONSTANTS
  Configs <- ConfigsValue
  PipeSize = 2
  Hosts = {"h1"}
  Statuses = {"idle"}
  Ids = {"a1"}
  Clicks = 1
CHECK_DEADLOCK FALSE
INVARIANTS
  BusyIsLeftAlone
