SPECIFICATION FairSpec
CONSTANTS
  MaxMsg = 3
  DataLens = {2}
  CloseLens = {0}
  PingLens = {1}
  SendLens = {}
  RecvTimeouts = {1}
  SendPatience = 0
  Faults = {}
  CloseInside = FALSE
  MaxFrames = 1
  MaxInFlight = 1
  MaxSends = 0
PROPERTY RecvReturns
