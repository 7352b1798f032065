\* The runner's protocol
SPECIFICATION Spec
CONSTANTS
    NumLayers = 3
    Samples = {a}
    None = None
    Critical = {1}
    Start = 0
    Reqs = {1, 2, 3}
    IOErrors = FALSE
    Clients = {c1}
    Styles = {"KVCOMPUTE", "QCOMPUTE", "DO_BLEND", "DO_BLEND_FINISH"}
    Sources = {"query"}
    Deviations = {}
CHECK_DEADLOCK FALSE
PROPERTIES OnlyStaleEventsCleared
