CONSTANTS
  Runs = {r1}
  MaxKey = 3
  Hazards = {}
SPECIFICATION LiveSpec
INVARIANTS TypeOK NeverBricked
PROPERTY DaemonSelfHeals
