\* Two baselines over the same caches, runs killed anywhere
SPECIFICATION FairSpec
CONSTANTS
    ours = ours
    prophetkv = prophetkv
    NumSamples = 2
    Baselines = {ours, prophetkv}
    ChunkBlocks = 2
    Blocks <- MCBlocks
    BlockBytes <- MCBlockBytes
    Crashes = TRUE
    MaxRuns = 4
    None = None
INVARIANTS TypeOK SkippedIsLoadable ServesOwnBaseline
PROPERTIES ImplementsStore RunSucceeds
CHECK_DEADLOCK FALSE
