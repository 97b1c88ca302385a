SPECIFICATION DataSpec
CONSTANTS
  MaxVersion = 3
  MaxChoices = 2
  MaxCalls = 2
  MaxSyncs = 2
  MaxFaults = 1
INVARIANT SavedOnItsWay
PROPERTIES SavedIsShown PolledCatchesUp SeenSyncIsShown SyncNeverStuck
