CONSTANTS
  Channels = {"attestation", "knowledge"}
  Lanes = {"event", "guard", "decision"}
  ChunkCap <- MCChunkCap
  WindowCap <- MCWindowCap
  Ops = {"resync"}
  MaxKey = 2
  MaxGen = 0
  MaxEpoch = 1
  Hazards = {}
SPECIFICATION Spec
INVARIANT CursorSound
