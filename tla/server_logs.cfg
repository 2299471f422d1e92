\* Three calls against a fixed configuration and a restart: entries are saved in
\* every order, with equal and different timestamps, for every call that got its
\* response and once, under fairness of the event loop only.
SPECIFICATION FairSpec
CHECK_DEADLOCK FALSE
CONSTANTS
  RawSegments <- MCRawSegments
  Empty = ""
  BeforeQuery <- MCBeforeQuery
  Unquote <- MCUnquote
  ParamName <- MCParamName
  NoName = ""
  Projects <- SeedProjects
  Methods <- MCMethods
  Statuses <- MCStatuses
  DelayModes <- MCDelayModes
  Values <- MCValues
  None <- VNone
  SubstringOf = {}
  FloatOfText <- NoFields
  BadPatterns = {"["}
  PatternHits = {}
  Seed <- MCSeed
  SeedIds <- SeedFresh
  Requests = {r1, r2, r3}
  r3 = r3
  r1 = r1
  r2 = r2
  Contexts <- LogContexts
  EndpointPosts <- NoPosts
  RulePosts <- NoPosts
  MaxEndpoints = 5
  MaxRules = 1
  MaxClock = 1
  MaxRestarts = 1
INVARIANTS LoggedOnce RecentFirst
PROPERTIES ImplementsMockService
