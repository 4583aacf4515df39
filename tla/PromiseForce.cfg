\* Thunks that force the promise being forced, and escape.
SPECIFICATION Spec
CONSTANTS
    Promise = {p1, p2, p3}
    Value = {v1, v2}
    MaxDepth = 3
SYMMETRY Symmetry
INVARIANTS
    Inv
    OrderlyChainsAgree
PROPERTIES
    DoneIsFinal
