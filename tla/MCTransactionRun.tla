---------------------------- MODULE MCTransactionRun ----------------------------
(* Small instances of TransactionRun.                                      *)
EXTENDS TransactionRun, TLC

\* Processes are interchangeable, and so are packages.
ProcessSymmetry == Permutations(Process)
PackageSymmetry == Permutations(Package)
Symmetry == ProcessSymmetry \cup PackageSymmetry

\* Processes that are killed and interfere with each other; and one that others
\* than dnf interfere with.
CrashWorld == [features |-> {"failure", "crash", "global", "test"},
               processes |-> Process, packages |-> Package,
               records |-> 2, version |-> 3]
OutsideWorlds(features) ==
  {[features |-> features, processes |-> {x}, packages |-> {k}, records |-> 3, version |-> 4] :
     x \in Process, k \in Package}
BothWorlds == {CrashWorld} \cup OutsideWorlds({"failure", "problems", "outside", "norecord"})

ProblemsWorld == OutsideWorlds({"problems"})
==============================================================================
