--------------------------- MODULE MCPackageDownload ---------------------------
(* Small instances of PackageDownload.                                     *)
EXTENDS PackageDownload, TLC

\* Packages are interchangeable.
PackageSymmetry == Permutations(Package)
==============================================================================
