CONSTANTS
    a = a  b = b  c = c  x = x  y = y  z = z  None = None
    Reqs <- RingReqs
    Prompt <- RingPrompt
    Output <- RingOutput
    MayStop = {}
    MayAbort = {}
    Size = 14
    MaxRunning = 2
    ChunkSize = 1
    Ratios <- MCRatios
    InitRatio = 7
    RetractSteps = 2
    FlushAnytime = FALSE
    Modes <- RingModes
SPECIFICATION Spec
INVARIANT FuturesResolve
