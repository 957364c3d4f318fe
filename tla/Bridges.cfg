SPECIFICATION BridgeSpec
CONSTANTS
  Threads = {t1, t2}
  Handles = {h1, h2}
  Conns = {c1, c2}
  Addrs = {a1, a2}
  Results = {r1, r2}
  MaxRows = 2
  MaxOpen = 2
  Shared = FALSE
  Failures = {"memory", "server"}
  WsHandles = {h1, h2}
  WsAddrs = {a1, a2}
  WsConns = {c1, c2}
  Timeouts = {0, 1, 2, 3, 4, 5}
  Slice = 2
  MaxMsgs = 2
  Handlers = {"return", "throw", "close", "recv"}
  WsFailures = {"memory", "link"}
  PgConns = {d1, d2, d3}
  MaxHandles = 3
  FirstCap = 1
  PgMaxRows = 3
  PgMaxOpen = 2
  PgFailures = {"memory", "server"}
SYMMETRY Symmetry
CHECK_DEADLOCK FALSE
INVARIANTS
  WaitsExactly
  SignalsHandled
  NoMessageLost
  HandlesSafe
  NoFreedUse
  NothingLost
  NoDangling
  PgTypeOK
  WithinTable
  HandlesExact
PROPERTIES
  ContractKept
  ContractSpec
  PgContractSpec
