SPECIFICATION FeedSpec
CONSTANTS
  CVEs <- MCCVEs
  Refs <- MCRefs
  OSRefs <- MCOSRefs
  HubSpoke <- MCHubSpoke
  Bundle <- MCBundle
  MaxParallel = 2
  Distros <- MCDistros
  Products <- MCProducts
  Published <- MCPublished
  Listed <- MCListed
  IndexKinds <- MCIndexKinds
  Lists <- MCLists
  Row <- MCRow
INVARIANTS
  BundleNotSuppressed
