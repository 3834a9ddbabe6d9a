CONSTANTS
  Message = {m1, m2}
  MaxSteps = 2
  MaxDepth = 2
SPECIFICATION Spec
PROPERTY DisposalStartsNoTurn
