\* Two global variables registered in any order, nested gates and left-over
\* stack words, collections with free cells left.
SPECIFICATION Spec
CONSTANTS
    HeapSize = 1
    HeapAllocThreshold = 1
    NHeapsMax = 2
    NHeapsInit = 1
    StackGrowsDown = TRUE
    Types = {"string"}
    Var = {v1, v2}
    NoVar = NoVar
    NBuckets = 0
    AskProtectedp = TRUE
    NSlots = 2
    MaxGates = 2
    MaxProtected = 2
    MaxVector = 0
INVARIANTS
    Inv
PROPERTIES
    ProtectionKept
