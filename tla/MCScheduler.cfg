CONSTANTS
    a = a  b = b  c = c  x = x  y = y  z = z  None = None
    Reqs <- MCReqs
    Prompt <- MCPrompt
    Output <- MCOutput
    MayStop <- MCMayStop
    MayAbort <- MCMayAbort
    Size = 9
    MaxRunning = 3
    ChunkSize = 2
    Ratios <- MCRatios
    InitRatio = 7
    RetractSteps = 2
    FlushAnytime = FALSE
    Modes <- MCModes
SPECIFICATION FairSpec
INVARIANTS TypeOK BatchReadsOwnKV TreeHoldsItsKeys SlotsDisjoint LocksAreHeld
    NeverDies OneResultDue ResultsInOrder
PROPERTY EveryRequestEnds
