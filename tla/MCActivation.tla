----------------------------- MODULE MCActivation -----------------------------
(* Four environments, which are interchangeable, and one variable that     *)
(* each of them may set.                                                   *)
EXTENDS Activation, TLC

Interchangeable == Permutations(Envs)
=============================================================================
