CONSTANTS
  Idle = 2
  ChunkEvents = 2
  MaxTime = 5
  MaxEvents = 4
  Hazards = {}
SPECIFICATION Spec
INVARIANTS TypeOK EveryMinuteSent BilledAsReported
PROPERTY RebuildsOnlySplitGaps
