\* Three calls of init_harness.py and pipeline.py, which may stop anywhere.
CONSTANTS
  HARNESSES <- MCHarnesses
  Kind <- MCKind
  Own <- MCOwn
  Matches <- MCMatches
  Templates <- MCTemplates
  SeedDirs <- MCSeedDirs
  Sharedirs <- MCSharedirs
  Requests <- MCRequests
  Missing = {"sharedir", "KAFL_CONFIG_FILE"}
  MaxCalls = 3
SPECIFICATION Spec
INVARIANTS TypeOK ScheduledComplete AllSetUp OneSpoiledPerCall FreshScheduled BuiltFor
CHECK_DEADLOCK FALSE
