SPECIFICATION FairSpec
CONSTANTS
  Req = {r1, r2}
  Allocated = 2
  Faults <- AllFaults
INVARIANTS TypeOK AnsweredOnce Released StatusExact
PROPERTIES EventuallyAnswered EventuallyMapped
CHECK_DEADLOCK FALSE
