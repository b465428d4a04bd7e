------------------------------ MODULE MCHistory ------------------------------
(* Names, versions and builds are only compared with each other.           *)
EXTENDS History, TLC

Interchangeable == Permutations(PackageNames) \cup Permutations(Versions) \cup Permutations(Builds)
=============================================================================
