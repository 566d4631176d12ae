SPECIFICATION SweepSpec
CONSTANTS
  MaxInt = 9
  Zero = Zero
  Invalid = Invalid
  Cases <- MCCases
CHECK_DEADLOCK FALSE
INVARIANTS VersionsAreOrdered MatchesSchema
