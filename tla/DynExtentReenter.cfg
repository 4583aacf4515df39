\* A clause of guard calls a continuation captured inside a dynamic-wind of
\* the body: the capture, the wind and the guard are four activations when the
\* program raises.
SPECIFICATION Spec
CONSTANTS
    Operations = {"call/cc", "guard", "dynamic-wind", "raise"}
    ReentryEscapes = FALSE
    ClausesReenter = TRUE
    MaxDepth = 5
INVARIANTS
    ExtentNeverCorrupted
