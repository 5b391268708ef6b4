CONSTANTS
  Channels = {"attestation", "knowledge"}
  Lanes = {"event", "guard"}
  ChunkCap <- MCChunkCap
  WindowCap <- MCWindowCap
  Ops = {}
  MaxKey = 2
  MaxGen = 0
  MaxEpoch = 2
  Hazards = {}
SPECIFICATION Spec
INVARIANT CursorSound
