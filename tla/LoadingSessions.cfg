SPECIFICATION Spec
CONSTANTS
    LibPath <- MCLibPath
    Disk <- MCDisk
    Boot <- MCBoot
    Commands <- MCCommands
    MaxCommands = 2
    MaxEdits = 1
    Faulty <- MCFaulty
    Mistaken <- MCMistaken
    OwnFile <- MCOwnFile
    Requirements <- MCRequirements
INVARIANTS
    Inv
    LibrariesWhole
    ReadInItsCodec
    ModulesWhole
PROPERTIES
    ErrorsHaveCauses
    LoadsEnd
CHECK_DEADLOCK FALSE
