\* Limbs of 2 bits; operands read from strings with leading zeros.
CONSTANTS
  W = 2
  KaratsubaCut = 1
  ToomCut = 2
  Digits = 2
  Inputs <- MCPaddedInputs
SPECIFICATION Spec
INVARIANT AddSubCorrect
