CONSTANTS
  Message = {m1, m2, m3}
  MaxSteps = 3
  MaxDepth = 2
SYMMETRY Symmetry
SPECIFICATION Spec
INVARIANT StoppingOwesNothing
