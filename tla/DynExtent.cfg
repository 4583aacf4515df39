\* Every operation, nested in each other, in thunks, handlers and clauses.
SPECIFICATION FairSpec
CONSTANTS
    Operations = {"call/cc", "dynamic-wind", "parameterize", "with-exception-handler", "guard", "raise", "raise-continuable", "%%fatal-error"}
    ReentryEscapes = FALSE
    ClausesReenter = FALSE
    MaxDepth = 4
INVARIANTS
    Inv
    StateMatchesExtent
    HandlersOutOfTheWay
PROPERTIES
    UncaughtEnds
