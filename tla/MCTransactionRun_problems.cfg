SPECIFICATION Spec
CONSTANTS
  Process = {p1}
  Package = {a}
  Worlds <- ProblemsWorld
  Nobody = Nobody
INVARIANT DoneMeansDone
SYMMETRY Symmetry
CHECK_DEADLOCK FALSE
