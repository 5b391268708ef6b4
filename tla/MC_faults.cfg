CONSTANTS
  Channels = {"attestation"}
  Lanes = {"event"}
  ChunkCap <- MCChunkCap
  WindowCap <- MCWindowCap
  Ops = {"compact", "nuke", "prune"}
  MaxKey = 3
  MaxGen = 1
  MaxEpoch = 2
  Hazards = {"command_race", "unordered_ids", "crash_mid_reset", "garbled_ack", "stale_sweep"}
SPECIFICATION LiveSpec
PROPERTY EventuallyDrained
