---------------------------- MODULE MCPackageCache ----------------------------
(* Small instances of PackageCache.                                        *)
EXTENDS PackageCache, TLC

\* Package files are interchangeable.
PkgSymmetry == Permutations(Pkg)

\* One session with every package, and all of them with one package.
OneSession(s) ==
  [features |-> {"crash", "keepcache", "erase", "clean", "plain"},
   sessions |-> {s}, pkgs |-> Pkg]
OnePackage(p) ==
  [features |-> {"crash", "erase", "clean", "plain"}, sessions |-> Session, pkgs |-> {p}]
BothWorlds == {OneSession(CHOOSE s \in Session : TRUE)} \cup {OnePackage(p) : p \in Pkg}
==============================================================================
