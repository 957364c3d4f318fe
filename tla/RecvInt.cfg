SPECIFICATION GpSpec
CONSTANTS
  Conns = {c1}
  MaxHandles = 1
  FirstCap = 1
  MaxMsgs = 1
  Timeouts = {1, 2}
  IntMax = 1
  MaxWait = 4
  GpFailures = {}
CHECK_DEADLOCK FALSE
INVARIANT RecvInTime
