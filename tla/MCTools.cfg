SPECIFICATION Spec
CONSTANTS
  c1 = c1
  c2 = c2
  Calls = {c1, c2}
  Requests <- MCRequests
  Cases <- MCCases
  Names <- MCNames
  Paths <- MCPaths
  Expansion <- ExpandBraces
  MatchesAny <- MatchAnyGlob
  ReadMaxBytes = 3
  DefaultReadLines = 2
  MaxResults = 2
  MaxListDepth = 3
  MaxGlobPatterns = 6
  MaxInt = 99
  MaxFaults = 1
  MaxChanges = 1
INVARIANTS
  TypeOK
  ReadShowsWindow
  ExpandsAsMeant
  AnswerComplete
PROPERTIES
  QuietWriteExact
SYMMETRY SlotsAlike
CHECK_DEADLOCK FALSE
