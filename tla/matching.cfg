\* Every table of up to two endpoints with templates of up to two segments and
\* every request of up to three; lists of up to two rules over every operator
\* and eight kinds of values.
SPECIFICATION Spec
CHECK_DEADLOCK FALSE
CONSTANTS
  RawSegments <- MCRaw
  Empty = ""
  BeforeQuery <- MCBeforeQuery
  Unquote <- MCUnquote
  ParamName <- MCParamName
  NoName = ""
  Templates <- MCTemplates
  RequestPaths <- MCRequestPaths
  Operators <- MCOperators
  MaxTable = 2
  MaxPath = 2
  Values <- MCValues
  None <- VNone
  SubstringOf <- MCSubstringOf
  FloatOfText <- MCFloatOfText
  BadPatterns = {"["}
  PatternHits <- MCPatternHits
  MaxRules = 2
INVARIANTS ParamsRebuildRequest MostStaticWins TwinsNeverRouted FirstMatchDecides
  MissingFieldNeverRaises GtLtConsistent
