\* One client in the order of blend/sglang_blend_ssd.py
SPECIFICATION FairSpec
CONSTANTS
    NumLayers = 3
    Samples = {a, b}
    None = None
    Critical = {0, 1}
    Start = 0
    Reqs = {1, 2, 3, 4}
    IOErrors = TRUE
    Clients = {c1}
    Styles = {"KVCOMPUTE", "QCOMPUTE", "DO_BLEND", "DO_BLEND_FINISH"}
    Sources = {"query", "none", "chunk"}
    Deviations = {}
INVARIANTS TypeOK ReadsOwnKV SavedCachePure NoStrayLoader
PROPERTIES ErrorSticks ComputeEnds BlendEnds
CHECK_DEADLOCK FALSE
