SPECIFICATION Spec
CONSTANTS
  Topics = {"shell"}
  Member = {p1, p2}
  Alike = {p1}
  Group = {A, B}
  Env = {E}
  CompsData <- MCCompsData
  CompsSeeds <- MCCompsSeeds
  MaxRequests = 2
  Mod = {m, n}
  Profile = {p1, p2}
  Pkg = {x1, x2, x3}
  Streams <- MCStreams
  Default <- MCDefault
  Contents <- MCContents
  DefaultProfiles <- MCDefaultProfiles
  Artifacts <- MCArtifacts
  StreamRequires <- MCStreamRequires
  FailSafes <- MCFailSafes
  NonModular = {x2}
  Arguments <- MCArguments
  Name = {foo, bar, baz}
  Repo = {r1, r2}
  Content <- MCContent
  Obsoletes <- MCObsoletes
  Requires <- MCRequires
  Conflicts <- MCConflicts
  Secure <- MCSecure
  Protected = {}
  Seeds <- MCSeeds
  MaxCommands = 2
  MaxRuns = 2
  foo = foo
  bar = bar
  baz = baz
  p1 = p1
  p2 = p2
  x1 = x1
  x2 = x2
  x3 = x3
  m = m
  n = n
  A = A
  B = B
  E = E
  r1 = r1
  r2 = r2
PROPERTY RunsTheResolution
CHECK_DEADLOCK FALSE
