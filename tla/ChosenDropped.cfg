SPECIFICATION CFairSpec
CONSTANTS
  Configs <- ConfigsValue
  PipeSize = 3
  Hosts = {"h1", "h2"}
  Statuses = {"idle"}
  Ids = {"a1"}
  Clicks = 1
CONSTRAINT OnlyDropped
CHECK_DEADLOCK FALSE
PROPERTIES
  DroppedNotChosen
