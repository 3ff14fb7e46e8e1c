SPECIFICATION Spec
CONSTANTS
  Session = {s1, s2}
  Pkg = {p, q}
  Worlds <- BothWorlds
  Nobody = Nobody
INVARIANT TypeOK
PROPERTY ForgottenOnlyWithoutInstall
PROPERTY OrphanOnlyWithReason
PROPERTY DeletedOnlyAfterRun
PROPERTY TestedFilesKept
SYMMETRY PkgSymmetry
