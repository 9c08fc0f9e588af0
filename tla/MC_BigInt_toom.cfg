\* Limbs of 2 bits; big_toom_cook splits once both operands have three or
\* more limbs; operands of one to three limbs of either sign.
CONSTANTS
  W = 2
  KaratsubaCut = 1
  ToomCut = 2
  Digits = 2
  Inputs <- MCInputs
SPECIFICATION Spec
INVARIANT ToomCookCorrect
