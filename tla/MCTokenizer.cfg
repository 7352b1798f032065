SPECIFICATION FairSpec
CONSTANTS
    r1 = r1
    r2 = r2
    Reqs <- MCReqs
    Streams <- MCStreams
    Leavers <- MCStreams
    Aborted = {}
    u1 = u1
    u2 = u2
    Updates <- MCUpdates
    Aborting <- MCAborting
    MaxPauses = 1
    MaxOutputs = 1
    MaxRetracts = 1
INVARIANTS TypeOK LockExcludes UpdateMeetsAbandoned AbortFindsState
PROPERTIES EverythingEnds
CHECK_DEADLOCK FALSE
