SPECIFICATION Spec
CONSTANTS
  Process = {p1, p2}
  Package = {a, b}
  Worlds <- BothWorlds
  Nobody = Nobody
INVARIANT TypeOK
INVARIANT DoneUnlessProblems
INVARIANT PlanStillApplies
INVARIANT VersionIsAccountedFor
PROPERTY BlameIsTrue
SYMMETRY Symmetry
CHECK_DEADLOCK FALSE
