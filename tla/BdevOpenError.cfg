SPECIFICATION FairSpec
CONSTANTS
  Inst = {i1}
  Name = {n1, n2}
  BaseBdev = {b1, b2}
  Faults = {"open"}
  MaxChannels = 2
PROPERTIES
  CreateAnswered
CHECK_DEADLOCK FALSE
