CONSTANTS
  Xs = {0, 1, 4}
  Ys = {0, 1, 3}
  FillValues = {5, 7}
  MaxPoints = 3
  NEAREST = NEAREST
  LINEAR = LINEAR
INIT Init
NEXT Next
INVARIANT EvalAtKnot
CHECK_DEADLOCK FALSE
