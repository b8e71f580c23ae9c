SPECIFICATION Spec
CONSTANTS
  Req = {r1}
  Allocated = 1
  Faults = {}
INVARIANTS NoUseAfterFree
CHECK_DEADLOCK FALSE
