\* Batches of one and two blend requests
SPECIFICATION Spec
CONSTANTS
    Batches <- MCOneOrTwo
    Seps <- MCSeps
    Quarters <- MCQuarters
    MaxMerged = 2
INVARIANTS TypeOK CutsAtSeparators CollectsQuestions ScoresAligned RecomputesOwn OneRequestServed
CHECK_DEADLOCK FALSE
