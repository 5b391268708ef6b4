CONSTANTS
  Parts = {"writer", "turns", "worked", "walk", "history", "sources"}
  HookKinds = {"start", "prompt", "pre", "post", "end"}
  MaxClock = 3
  MaxEvents = 3
  QueueCap = 2
  ReplayWindow = 3
  Worked = {"s", "t"}
  WorkKinds = {"prompt"}
  WorkHazards = {}
  Project <- OwnProject
  DayLen = 3
  IdleTime = 1
  MaxToolSpan = 3
  KeepDays = 1
  VacuumEvery = 2
  MaxLogged = 3
  MaxTime = 6
  Agents = {"a"}
  Manuals = {"m"}
  Idle = 2
  AgentIdle = 1
  MaxSpan = 3
  Coalesce = 2
  MaxCrashes = 1
  Hazards = {}
  Prologue = 2
  MaxLines = 3
  MaxGens = 2
  TurnHazards = {}
  MaxCommits = 5
  Old = 2
  BackfillLimit = 1
  CaptureLimit = 2
  MaxWalkCrashes = 1
  MaxCheckouts = 2
  WalkHazards = {}
  MaxHistory = 4
  HistoryBackfill = 1
  Texts = {"a", "b"}
  Workers = {"s"}
  MaxReindexes = 1
  ReindexHazards = {}
  Units = {"u", "v"}
  MaxTreeSteps = 4
  MaxStamps = 2
  SourceHazards = {}
SPECIFICATION RecordSpec
INVARIANT TypesOK    DropsOnlyBehindStored NoTurnSkipped SweepKeepsAll CaptureComplete  
PROPERTY RemovedWasGone
CHECK_DEADLOCK FALSE
