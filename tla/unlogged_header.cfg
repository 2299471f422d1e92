\* A delivered path parameter outside latin-1 against the seed endpoint that
\* echoes it in a header.
SPECIFICATION Spec
CHECK_DEADLOCK FALSE
CONSTANTS
  RawSegments <- MCRawSegments
  Empty = ""
  BeforeQuery <- MCBeforeQuery
  Unquote <- MCUnquote
  ParamName <- MCParamName
  NoName = ""
  Projects <- SeedProjects
  Methods <- MCMethods
  Statuses <- MCStatuses
  DelayModes <- MCDelayModes
  Values <- MCValues
  None <- VNone
  SubstringOf = {}
  FloatOfText <- NoFields
  BadPatterns = {"["}
  PatternHits = {}
  Seed <- MCSeed
  SeedIds <- SeedFresh
  Requests = {r1}
  r1 = r1
  Contexts <- ExoticContexts
  EndpointPosts <- NoPosts
  RulePosts <- NoPosts
  MaxEndpoints = 5
  MaxRules = 1
  MaxClock = 0
  MaxRestarts = 0
INVARIANTS EveryResolvedCallIsLogged
