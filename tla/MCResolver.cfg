SPECIFICATION Spec
CONSTANTS
  Components <- MCComponents
  Keys <- MCKeys
  KeyOf <- MCKeyOf
  Names <- MCNames
  Advisories <- MCAdvisories
  NamesOf <- MCNamesOf
  HasEcosystem <- MCHasEcosystem
  Listing <- MCListing
  Inventories <- MCInventories
INVARIANTS
  CacheFaithful
  AsOfConservative
PROPERTIES
  EveryComponentPaired
