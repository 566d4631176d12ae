SPECIFICATION Spec
CONSTANTS
  a = a
  b = b
  c = c
  NRefs = 3
  BatchLimit = 2
  Concurrency = 2
  Ids <- MCIds
  Matches <- MCMatches
  Poster = Poster
  None = None
INVARIANTS
  AllOrNothing
  BlameIsGenuine
PROPERTIES
  NoRequestAfterFailure
  Implements
