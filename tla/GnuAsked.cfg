SPECIFICATION GnuSpec
CONSTANTS
  Parsers = {"gp_get"}
  Lists <- TwoParams
  Tails = {"nil"}
  MaxKv = 1
  OptFailures = {}
  PaBridges = {"gp"}
  Logins <- OtherUser
  ParamLists = {}
  Queries = {}
  ParamLimit = 0
  PaFailures = {}
  RxBridges = {"gp"}
  RxKinds = {"atom"}
  MaxGroups = 0
  RxFailures = {}
CHECK_DEADLOCK FALSE
INVARIANT GnuAsAsked
