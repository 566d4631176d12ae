SPECIFICATION Spec
CONSTANTS
  Names <- MCNames
  Inputs <- MCInputs
INVARIANTS
  RecordsFindable
  RatingsAreFair
  LocalMatchSound
