CONSTANTS
    Alphabet <- MCAlphabet
    MaxLen <- MCMaxLen
VIEW view
CONSTRAINT Bounded
SPECIFICATION Spec
INVARIANTS
    BuffersSound
    ComparisonsExact
PROPERTY
    Refines
