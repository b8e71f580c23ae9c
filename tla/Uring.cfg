SPECIFICATION FairSpec
CONSTANTS
  Req = {r1, r2, r3}
  Batch = 2
  QueueSize = 2
  Delta = TRUE
  Faults = {"stat", "map", "image", "delta", "ring", "submit", "read"}
  MaxOpens = 2
INVARIANTS TypeOK TouchedOnce SuccessIsData NoneLost Descriptors RingRoom
PROPERTY ReadAnswered
CHECK_DEADLOCK FALSE
