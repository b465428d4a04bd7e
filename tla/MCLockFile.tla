----------------------------- MODULE MCLockFile ------------------------------
(***************************************************************************)
(* Small instances of LockFile: one thread in each process, or two threads *)
(* in the first one.                                                       *)
(***************************************************************************)
EXTENDS LockFile, TLC

CONSTANTS p1, p2, t1, t2, t3, i1, i2, i3

TwoProcesses == (t1 :> p1) @@ (t2 :> p2)
TwoAndOne == (t1 :> p1) @@ (t2 :> p1) @@ (t3 :> p2)
=============================================================================
