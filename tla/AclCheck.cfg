SPECIFICATION Spec
CONSTANTS
  Lower <- MCLower
  Numeric = {"7"}
  Malformed = {"", "-a"}
  Glob <- MCGlob
  Starred = {"*", "*a"}
  MaxLabels = 3
  W4 = 2
  W6 = 4
  MappedHi <- MCMappedHi
  NonPublic <- MCNonPublic
  MaxPort = 500
  DefaultName <- MCDefaultName
  NoRule = NoRule
  Unset = Unset
  NotFinite = NotFinite
  Levels <- MCLevels
  DefaultClientLimits <- MCDefaultLimits
  DefaultTotalConnections = 9
  Cases <- MCCases
  Answers <- MCAnswers
CHECK_DEADLOCK FALSE
INVARIANTS
  DecisionExact
  AddrsAreChecked
  OnlyAllowedNamesLookedUp
  RuleMostSpecific
  LimitsInherited
