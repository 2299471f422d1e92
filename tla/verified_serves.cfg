\* Signatures the critic tells apart and the repository does not.
SPECIFICATION Spec
CHECK_DEADLOCK FALSE
CONSTANTS
  RawSegments <- MCRawSegments
  Empty = ""
  BeforeQuery <- MCIdentity
  Unquote <- MCIdentity
  ParamName <- MCParamName
  NoName = ""
  Projects = {"live", "other"}
  Methods = {"GET"}
  Statuses = {200, 201, 409}
  DelayModes = {"fixed", "random"}
  Values <- MCValues
  None <- VNone
  SubstringOf = {}
  FloatOfText <- NoFields
  BadPatterns = {"["}
  PatternHits = {}
  Keys = {"k1", "k2"}
  Live = "live"
  Lives <- MCLives
  EndpointRequests <- MCEndpointRequests
  RuleRequests <- MCRuleRequests
  Scenarios <- MCScenarios
  MaxEndpoints = 2
  MaxRules = 0
INVARIANTS VerifiedServes
