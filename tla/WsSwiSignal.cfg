SPECIFICATION WsSpec
CONSTANTS
  WsHandles = {h1, h2}
  WsAddrs = {a1, a2}
  WsConns = {c1, c2}
  Timeouts = {0, 1, 2, 3, 4, 5}
  Slice = 2
  MaxMsgs = 2
  Handlers = {"return", "throw", "close", "recv"}
  WsFailures = {"memory", "link"}
SYMMETRY Symmetry
CHECK_DEADLOCK FALSE
INVARIANT CloseDetected
