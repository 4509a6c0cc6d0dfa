\* A client that keeps syncing, and the ids that other users' rows take.
SPECIFICATION FairFeedSpec
CONSTANTS
  Syncs = {y1}
  PageLimit = 2
  MaxId = 3
PROPERTY CatchesUp
CHECK_DEADLOCK FALSE
