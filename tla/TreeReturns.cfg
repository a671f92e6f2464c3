SPECIFICATION CallsSpec
CONSTANTS
  Keys = {1, 2, 3, 4, 5, 6, 7, 8, 9}
  InsertAfterDelete = TRUE
  MaxDeletions = 4
INVARIANTS DeletedStayGone
CHECK_DEADLOCK FALSE
