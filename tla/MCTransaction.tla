---------------------------- MODULE MCTransaction ----------------------------
(***************************************************************************)
(* Small instances of Transaction: package a is updated from a1 to a2,     *)
(* which share a path, b is added; c, from PyPI, is to be removed, and d,  *)
(* which pip provides too, is to be installed.                             *)
(***************************************************************************)
EXTENDS Transaction, TLC

CONSTANTS a1, a2, b, c, d, na, nb, nc, nd, x, y, z, w, v, u, k

MCPackages == {a1, a2, b, c, d}
MCPaths == {x, y, z, w, v, u, k}
MCPathsOf == (a1 :> {x, y}) @@ (a2 :> {x, z}) @@ (b :> {w}) @@ (c :> {v}) @@ (d :> {u})
MCPycOf == (a1 :> {k}) @@ (a2 :> {k}) @@ (b :> {}) @@ (c :> {}) @@ (d :> {})
MCNames == {na, nb, nc, nd}
MCNameOf == (a1 :> na) @@ (a2 :> na) @@ (b :> nb) @@ (c :> nc) @@ (d :> nd)

UpdateA == <<a1>>
RemoveC == <<a1, c>>
OnlyA == <<a2>>
WithB == <<b, a2, d>>
=============================================================================
