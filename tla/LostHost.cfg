SPECIFICATION CFairSpec
CONSTANTS
  Configs <- ConfigsValue
  PipeSize = 3
  Hosts = {"h1"}
  Statuses = {"idle"}
  Ids = {"a1"}
  Clicks = 1
CONSTRAINT Kept
PROPERTIES
  RespondingHostsStay
