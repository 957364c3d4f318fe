SPECIFICATION Spec
CONSTANTS
  MaxMsg = 3
  DataLens = {2}
  CloseLens = {0, 2}
  PingLens = {1}
  SendLens = {2}
  RecvTimeouts = {0}
  SendPatience = 0
  Faults = {}
  CloseInside = TRUE
  MaxFrames = 2
  MaxInFlight = 2
  MaxSends = 0
INVARIANTS
  CloseCodeFaithful
