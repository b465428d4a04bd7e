---------------------------- MODULE MCSubdirIndex -----------------------------
(* The commands of two processes over the package caches.                 *)
EXTENDS SubdirIndex, TLC
ProcSymmetry == Permutations(Procs)
=============================================================================
