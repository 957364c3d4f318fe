SPECIFICATION GnuSpec
CONSTANTS
  Parsers = {"gp_ws"}
  Lists <- ManyTexts
  Tails = {"nil"}
  MaxKv = 1
  OptFailures = {}
  PaBridges = {"gp"}
  Logins = {}
  ParamLists <- TextThenOther
  Queries = {"text"}
  ParamLimit = 2
  PaFailures = {}
  RxBridges = {"gp"}
  RxKinds = {"list"}
  MaxGroups = 0
  RxFailures = {}
CHECK_DEADLOCK FALSE
INVARIANT GnuMemoryExact
