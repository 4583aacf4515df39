SPECIFICATION Spec
CONSTANTS
  IntBits = 8
  IntMax = 127
  MaxArgs = 3
  Operands <- MCOperands
  Widths = {0, 4}
INVARIANTS
  ResultsExact
  DivisionExact
  Inv
