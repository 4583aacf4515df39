SPECIFICATION Spec
CONSTANTS
    FirstAtoms <- MCFirstAtoms
    FirstCells <- MCFirstCells
    Atoms <- MCAtoms
    Octets <- MCOctets
    Strings <- MCStrings
    Texts <- MCTexts
    Formats <- MCFormats
    MaxCells = 3
    MaxOthers = 1
    MaxApart = 1
    MaxIndex = 1
    SeenSize = 2
    SymbolBufSize = 4
INVARIANTS PredicatesExact ObjectsReadBack LabelsWhereNeeded FormatComposes ReadsStandAlone
PROPERTY OnlyMutatorsMutate
CONSTRAINT Explored
