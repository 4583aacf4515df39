\* One-cell heaps, all types of cells: growth, exhaustion, sharing, cycles and
\* destructive updates, cells reused with another type, the symbol table and
\* vectors whose elements are only in their array.
SPECIFICATION Spec
CONSTANTS
    HeapSize = 1
    HeapAllocThreshold = 1
    NHeapsMax = 2
    NHeapsInit = 1
    StackGrowsDown = TRUE
    Types = {"cons", "string", "symbol", "vector"}
    Var = {}
    NoVar = NoVar
    NBuckets = 1
    AskProtectedp = FALSE
    NSlots = 1
    MaxGates = 1
    MaxProtected = 1
    MaxVector = 1
INVARIANTS
    NoDangling
    MarkExact
PROPERTIES
    AllocReturns
    LiveNeverReclaimed
