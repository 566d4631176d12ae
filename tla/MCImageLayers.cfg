SPECIFICATION Spec
CONSTANTS
  usr = usr
  lib = lib
  so = so
  old = old
  new = new
  huge = huge
  Nothing = Nothing
  Names = {usr, lib, so}
  MaxSymlinkHops = 3
  Layers <- MCLayers
  MaxLayers = 3
  SizeOf <- MCSizeOf
  MaxImageBytes = 5
  RootTrees <- MCRootTrees
  DeniedSets <- MCDeniedSets
  Bases <- MCBases
  MaxWalks = 2
  MaxImageWalks = 1
INVARIANTS
  ResolvesPlainly
  ImageIsUnion
  SkippedIsNoted
CHECK_DEADLOCK FALSE
