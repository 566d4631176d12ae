SPECIFICATION Spec
CONSTANTS
  NoPurl = NoPurl
  NoHome = NoHome
  Outside = Outside
  BadIndex = BadIndex
  Locations <- MCLocations
  Products <- MCProducts
  Home <- MCHome
  Scans <- MCScans
  Hubs <- MCHubs
  Settings <- MCSettings
  Published <- MCPublished
  HubTime <- MCHubTime
  MaxRuns = 2
CHECK_DEADLOCK FALSE
PROPERTIES PublishedIsKept NeverOverrules RoundTrip IndexBacked
