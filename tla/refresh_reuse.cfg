SPECIFICATION Spec
CONSTANTS
  Devices = {desk, web}
  Browsers = {web}
  Requests = {r1, r2}
  MaxTokens = 3
  MaxRevocations = 2
INVARIANTS
  OnlyConsumedTokenRevokes
CHECK_DEADLOCK FALSE
