SPECIFICATION CFairSpec
CONSTANTS
  Configs <- ConfigsValue
  PipeSize = 3
  Hosts = {"h1", "h2"}
  Statuses = {"idle", "busy"}
  Ids = {"a1", "a2"}
  Clicks = 1
CONSTRAINT Kept
INVARIANTS
  DTypeOK
  InStep
  NoStandstill
  VerifiedStarts
  MenuFollows
PROPERTIES
  LoginsAreAnswered
  GreeterMakesWay
  ChosenWasShown
