\* An ordinary name, an auxiliary keyword and two libraries: the shared value
\* cells implement separate namespaces.
SPECIFICATION Spec
CONSTANTS
    Symbol = {car, else}
    Library = {A, B}
    Value = {v1, v2}
    Builtin = Builtin
    Unbound = Unbound
    None = None
    AuxiliarySyntax = {else}
    RedefinesAuxiliary = FALSE
SYMMETRY Symmetry
INVARIANTS
    Inv
PROPERTIES
    SeparateNamespaces
