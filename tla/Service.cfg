SPECIFICATION MCSpec
CONSTANTS
  Inst = {i1, i2}
  Name = {n1, n2}
  BaseBdev = {b1}
  Faults <- FaultKind
  MaxChannels = 2
  Dev = i1
  SnapReq = {r1}
  Allocated = 1
  SnapFaults = {"bs", "setro", "copysync", "copy", "path"}
INVARIANTS AnswerOnce HeadWhole ChannelsSafe
PROPERTIES ImplementsSnapshot ServiceCreateEnds ServiceFailureReleases ServiceDeleteReleases
CHECK_DEADLOCK FALSE
