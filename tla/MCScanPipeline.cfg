SPECIFICATION Spec
CONSTANTS
  Configs <- MCConfigs
  Ids <- MCIds
  Ecosystems <- MCEcosystems
  Hubs <- MCHubs
  AnalyzersOf <- MCAnalyzersOf
  SourceFirst = 1
  Reports <- MCReports
  Rating <- MCRating
  VendorRating <- MCVendorRating
  HasFix <- MCHasFix
  HubSays <- MCHubSays
  FeedSays <- MCFeedSays
INVARIANTS
  TreesReleased
  NoFalseClean
  WithheldJustly
  ReportIsHonest
