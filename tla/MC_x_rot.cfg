CONSTANTS
  Runs = {r1}
  MaxKey = 2
  Hazards = {"recovery"}
SPECIFICATION Spec
INVARIANT NeverBricked
