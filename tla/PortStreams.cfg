SPECIFICATION Spec
CONSTANTS
  Inputs <- MCInputs
  Chars <- MCChars
  MaxWrites = 2
  Texts <- MCTexts
  Lengths = {0, 2}
  ClosesFail = FALSE
INVARIANTS Inv
PROPERTIES DeliversStream GathersStream WrittenReadBack
