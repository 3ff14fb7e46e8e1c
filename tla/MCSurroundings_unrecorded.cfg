SPECIFICATION Spec
CONSTANTS
  Topics = {"command"}
  Process = {p1}
  Repo = {r1, r2}
  ExpiryWorlds <- MCExpiryWorlds
  Nobody = "nobody"
  Name = {foo, bar, baz}
  Id = {g}
  Requires <- MCRequires
  Obsoletes <- MCObsoletes
  Offers <- MCOffers
  Seeds <- MCSeeds
  MaxOrdinary = 2
  MaxLog = 4
  MaxOther = 1
  Key = {k1, k2, k1old}
  SignedPkg = {p1, p2, p3}
  Email = {me, us}
  KeyId <- MCKeyId
  Owner <- MCOwner
  Outdated = {k1old}
  From <- MCFrom
  Signers <- MCSigners
  Damaged = {}
  GpgKey <- MCGpgKey
  Checked = {r1, r2}
  MaxRuns = 2
  Update = {p1, p2}
  Emitters <- MCEmitters
  Alias = {"a", "b"}
  AliasOption = {"o"}
  Escaped <- MCEscaped
  Bare <- MCBare
  AliasWord = {"i"}
  Values <- MCValues
  DropIns <- MCDropIns
  AliasLines <- MCCommands
  MaxChanges = 2
  MaxSteps = 12
  Plugin = {k1, k2}
  CommandLines <- MCCommandLines
  Disks <- MCDisks
  Hooks <- MCHooks
  Install = {p1}
  Erase = {p2}
  Considered <- MCConsidered
  Listed = {p1, p2}
  Evr = {1, 2, 3}
  Systems <- MCSystems
  ListsAsked <- MCAsked
  Nevra = {p1, p2, p3}
  Transactions <- MCTransactions
  r1 = r1
  r2 = r2
  r3 = r3
  foo = foo
  bar = bar
  baz = baz
  g = g
  p1 = p1
  p2 = p2
  p3 = p3
  k1 = k1
  k2 = k2
  k1old = k1old
  me = me
  us = us
INVARIANT ZeroMeansDone
CHECK_DEADLOCK FALSE
