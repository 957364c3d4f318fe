SPECIFICATION FairSpec
CONSTANTS
  MaxMsg = 4
  DataLens = {0, 2}
  CloseLens = {0, 3}
  PingLens = {1}
  SendLens = {2}
  RecvTimeouts = {1}
  SendPatience = 0
  Faults = {"drop"}
  CloseInside = FALSE
  MaxFrames = 3
  MaxInFlight = 1
  MaxSends = 1
INVARIANTS
  TypeOK
  MessagesFaithful
  CloseCodeFaithful
  LimitExact
  StaysUsable
  OutputWellFormed
PROPERTIES
  EndIsFinal
  StreamSpec
  CallsReturn
  EventuallyDelivered
