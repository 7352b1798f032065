CONSTANTS
    a = a  b = b  c = c  x = x  y = y  z = z  None = None
    Reqs <- RingReqs
    Prompt <- RingPrompt
    Output <- RingOutput
    MayStop = {}
    MayAbort = {}
    Size = 14
    MaxRunning = 2
    ChunkSize = 4
    Ratios <- MCRatios
    InitRatio = 7
    RetractSteps = 2
    FlushAnytime = TRUE
    Modes <- RingModes
SPECIFICATION Spec
PROPERTY FlushSparesRequests
