CONSTANTS
  Channels = {"knowledge"}
  Lanes = {"event", "guard", "decision"}
  ChunkCap <- MCChunkCap
  WindowCap <- MCWindowCap
  Ops = {}
  MaxKey = 2
  MaxGen = 0
  MaxEpoch = 2
  Hazards = {}
SPECIFICATION LiveSpec
INVARIANT CursorSound
PROPERTIES EventuallyDrained ResetRecovered
