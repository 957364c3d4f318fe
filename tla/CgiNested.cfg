SPECIFICATION LibSpec
CONSTANTS
  Conns = {c1, c2}
  MaxHandles = 2
  FirstCap = 1
  MaxMsgs = 2
  Timeouts = {0, 1, 2, 3}
  IntMax = 1
  MaxWait = 4
  GpFailures = {"memory", "link", "pings"}
  Parsers = {"swi_get", "gp_get", "swi_ws", "gp_ws"}
  Lists <- MCLists
  Tails = {"nil", "partial"}
  MaxKv = 1
  OptFailures = {"memory", "transport"}
  RxBridges = {"swi", "gp"}
  RxKinds = {"atom", "codes", "list", "other"}
  MaxGroups = 2
  RxFailures = {"memory", "syntax", "regexec", "raise"}
  PaBridges = {"swi", "gp"}
  Logins <- MCLogins
  ParamLists <- MCParamLists
  Queries = {"text", "number", "nil", "list", "other"}
  ParamLimit = 2
  PaFailures = {"memory"}
  Callers = {p1, p2}
  Names = {n1, n2}
  MaxOthers = 2
  Pages <- MCPages
  MaxCalls = 2
  Requests <- MCRequests
  Sources = {"GET", "absent", "exact", "short", "long"}
  MaxInput = 7
  Corpora <- MCCorpora
  JsIntMax = 100
  Threads = {t1, t2}
  Handles = {h1, h2}
  GetRequests <- MCFetches
  GetFirstCap = 1
  MaxRedirs = 1
  MaxLines = 2
  Chunks = {1, 2}
  MaxBytes = 3
  GetFailures = {"memory", "link", "key"}
CHECK_DEADLOCK FALSE
INVARIANT OuterTemplateWhole
