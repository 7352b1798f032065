\* A batch of two blend requests
SPECIFICATION Spec
CONSTANTS
    Batches <- MCTwo
    Seps <- MCSeps
    Quarters <- MCQuarters
    MaxMerged = 0
INVARIANTS RequestBoundariesAgree
CHECK_DEADLOCK FALSE
