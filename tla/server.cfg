\* The whole process against one mock call: a task that is committed to any
\* project, again or after its endpoints were created by hand, other creations, and
\* a restart after which clients go on with the identifiers of the old process.
SPECIFICATION ProcessSpec
CHECK_DEADLOCK FALSE
CONSTANTS
  RawSegments <- MCRawSegments
  Empty = ""
  BeforeQuery <- MCBeforeQuery
  Unquote <- MCUnquote
  ParamName <- MCParamName
  NoName = ""
  Projects <- SeedProjects
  Methods <- MCMethods
  Statuses <- MCStatuses
  DelayModes <- MCDelayModes
  Values <- MCValues
  None <- VNone
  SubstringOf = {}
  FloatOfText <- NoFields
  BadPatterns = {"["}
  PatternHits = {}
  Seed <- MCSeed
  SeedIds <- SeedFresh
  Keys = {"export", "cards", "refunds"}
  Tasks = {t1}
  t1 = t1
  Results <- MCResults
  Requests = {r1}
  r1 = r1
  Contexts <- CommittingContexts
  EndpointPosts <- CommittingEndpointPosts
  RulePosts <- CommittingRulePosts
  MaxEndpoints = 7
  MaxRules = 2
  MaxClock = 0
  MaxRestarts = 1
INVARIANTS TypeOK ConfigIntegrity UniqueSignature ServedByOwnEndpoint AnsweredAsOfBodyRead
  CheckExplained CommitTouchesOwn CommitComplete
PROPERTIES RoutingStable RulesStable
