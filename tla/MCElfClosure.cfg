SPECIFICATION Spec
CONSTANTS
  Scans <- MCScans
  Order <- MCOrder
  Sonames <- MCSonames
  Dirs <- MCDirs
  DefaultDirs <- MCDefaultDirs
  At <- MCAt
  Elf <- MCElf
  InPath <- MCInPath
  WaitsFor <- MCWaitsFor
  Loads <- MCLoads
  PluginsOf <- MCPluginsOf
  Mentions <- MCMentions
  Answers <- MCAnswers
  Packages <- MCPackages
  Symbols <- MCSymbols
  None = None
INVARIANTS
  UnreachableIsUnloadable
  AbsenceIsComplete
  ThreatsAreSaid
PROPERTIES
  BuildEnds
