SPECIFICATION Spec
CONSTANTS
  MaxMsg = 3
  DataLens = {2}
  CloseLens = {0, 2}
  PingLens = {1}
  SendLens = {2}
  RecvTimeouts = {1}
  SendPatience = 0
  Faults = {"eintr"}
  CloseInside = FALSE
  MaxFrames = 2
  MaxInFlight = 2
  MaxSends = 0
INVARIANTS
  StaysUsable
