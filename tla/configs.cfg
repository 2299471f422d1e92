\* Every configuration of up to two endpoints, two rules and a scenario.
SPECIFICATION Spec
CHECK_DEADLOCK FALSE
CONSTANTS
  RawSegments <- MCRawSegments
  Empty = ""
  BeforeQuery <- MCIdentity
  Unquote <- MCIdentity
  ParamName <- MCParamName
  NoName = ""
  Projects = {"live", "other"}
  Methods = {"GET"}
  Statuses = {200, 201, 409}
  DelayModes = {"fixed", "random"}
  Values <- MCValues
  None <- VNone
  SubstringOf = {}
  FloatOfText <- NoFields
  BadPatterns = {"["}
  PatternHits = {}
  Keys = {"k1", "k2"}
  Live = "live"
  Lives <- MCLives
  EndpointRequests <- MCEndpointRequests
  RuleRequests <- MCRuleRequests
  Scenarios <- MCScenarios
  MaxEndpoints = 2
  MaxRules = 2
INVARIANTS CommitIdempotent CommitSound CreatedAsSimulated CommittedAsSimulated
