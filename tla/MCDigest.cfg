\* Every ranking, sink count and ratio of the prompts of MCPrompts
SPECIFICATION Spec
CONSTANTS
    Prompts <- MCPrompts
    MaxScore = 1
    Sinks = {0, 1, 4}
    Quarters = {0, 1, 2, 3, 4}
INVARIANTS DigestRowsAreContext SameOffsetInChunk BestTokensKept SpansCover
CHECK_DEADLOCK FALSE
