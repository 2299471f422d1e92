\* A text that mentions one endpoint twice.
SPECIFICATION Spec
CHECK_DEADLOCK FALSE
CONSTANTS
  RawSegments <- MCRawSegments
  Empty = ""
  BeforeQuery <- MCBeforeQuery
  Unquote <- MCUnquote
  ParamName <- MCParamName
  NoName = ""
  Projects = {"demo"}
  Methods = {"GET", "POST"}
  Statuses <- MCStatuses
  DelayModes = {"fixed", "random"}
  Values <- MCValues
  None <- VNone
  SubstringOf = {}
  FloatOfText <- NoFields
  BadPatterns = {"["}
  PatternHits = {}
  Keys = {"endpoint_1", "endpoint_2", "endpoint_3"}
  Sample <- MCSample
  PayoutSegments <- MCPayoutSegments
  KeyOf <- MCKeyOf
  Project = "demo"
  Mentions <- PlainMentions
  Queries <- MCValues
  MaxMentions = 2
INVARIANTS OfflineUsable
