SPECIFICATION FairSpec
CONSTANTS
  Keys = {1, 2, 3, 4, 5, 6, 7}
  InsertAfterDelete = FALSE
  MaxDeletions = 2
INVARIANTS NothingLost WellFormed WorkBounded
PROPERTIES ImplementsDictionary CallsReturn
CHECK_DEADLOCK FALSE
