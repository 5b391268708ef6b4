CONSTANTS
  Channels = {"attestation"}
  Lanes = {"event", "token"}
  ChunkCap <- MCChunkCap
  WindowCap <- MCWindowCap
  Ops = {"resync", "nuke", "prune", "compact"}
  MaxKey = 2
  MaxGen = 1
  MaxEpoch = 2
  Hazards = {}
SPECIFICATION Spec
INVARIANTS TypeOK CursorSound ResyncHonoured
PROPERTIES CompactionKeepsUnsynced ImplementsDelivery
