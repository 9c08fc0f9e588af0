\* Limbs of 2 bits; big_karatsuba recurses once both operands have two or
\* more limbs; operands of one to three limbs of either sign.
CONSTANTS
  W = 2
  KaratsubaCut = 1
  ToomCut = 2
  Digits = 2
  Inputs <- MCInputs
SPECIFICATION Spec
INVARIANT TypeOK
INVARIANT AddSubCorrect
INVARIANT ProductCorrect
INVARIANT ReadStringCorrect
