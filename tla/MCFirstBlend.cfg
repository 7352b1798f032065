\* DO_BLEND without a QCOMPUTE
SPECIFICATION FairSpec
CONSTANTS
    NumLayers = 3
    Samples = {a}
    None = None
    Critical = {1}
    Start = 0
    Reqs = {1}
    IOErrors = FALSE
    Clients = {c1}
    Styles = {"DO_BLEND", "DO_BLEND_FINISH"}
    Sources = {"query"}
    Deviations = {"skip_query"}
CHECK_DEADLOCK FALSE
PROPERTIES FirstBlendEnds
