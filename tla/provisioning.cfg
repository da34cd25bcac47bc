CONSTANTS
  MaxForms = 2
  MAX_RETRY = 2
  MaxCuts = 2
SPECIFICATION FairSpec
INVARIANTS TypeOK RoverHasStation GivenUpIsFinal NeverStranded SameServer
PROPERTIES StoreSpec GivesUpOnlyAfterRetries BootEnds SavedIsUsed LinkReturnsOrGivesUp
CHECK_DEADLOCK FALSE
