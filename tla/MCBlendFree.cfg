\* Two clients that keep to no order, and a scheduler that retracts
SPECIFICATION Spec
CONSTANTS
    NumLayers = 3
    Samples = {a}
    None = None
    Critical = {1}
    Start = 1
    Reqs = {1, 2, 3}
    IOErrors = FALSE
    Clients = {c1, c2}
    Styles = {"KVCOMPUTE", "QCOMPUTE", "DO_BLEND", "DO_BLEND_FINISH"}
    Sources = {"query"}
    Deviations = {"skip_query", "abandon", "zero_ratio", "retract"}
INVARIANTS BlendedNeverReused
CHECK_DEADLOCK FALSE
SYMMETRY ClientSymmetry
