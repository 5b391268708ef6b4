CONSTANTS
  Parts = {"loop", "presence", "billing", "life", "update"}
  Seed = 2
  MaxBackoff = 5
  RetryAfters = {0, 1}
  Old = {"s1", "s2"}
  MaxFails = 3
  MaxCrashes = 1
  MaxPid = 4
  MaxCommands = 5
  LifeHazards = {}
  MaxVersion = 2
  MaxRuns = 3
  Escalate = 2
  UpdateHazards = {}
  ActiveCadence = 1
  IdleCadence = 6
  Ttl = 7
  DeepTtl = 10
  DeepAfter = 4
  CloudCaps = {0, 6, 10}
  BeatHints = {0, 8}
  PresenceHazards = {}
SPECIFICATION HostSpec
INVARIANT TypesOK NudgeNotLost LineageMarkerHonest PresenceKept  OneStore  BothOrNeither RunsWhatIsInstalled 
PROPERTY EverythingShipped 
CHECK_DEADLOCK FALSE
