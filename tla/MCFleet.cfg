CONSTANTS
  Unset = Unset
  NoAssertion = NoAssertion
  NoList = NoList
  NoBundle = NoBundle
  Invocations <- MCInvocations
  Outcomes <- MCOutcomes
SPECIFICATION Spec
INVARIANTS ScannedAsAsked ExitIsHonest TableAccounts BundleHeldThenReleased ReportsAgree
