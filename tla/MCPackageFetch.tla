---------------------------- MODULE MCPackageFetch ----------------------------
(***************************************************************************)
(* Small instances of PackageFetch: package p has a checksum, q has none;  *)
(* the first of the three caches is read-only, as a shared one may be.     *)
(***************************************************************************)
EXTENDS PackageFetch

CONSTANTS p, q

MCPackages == {p, q}
MCWritable == {2, 3}

Nothing == <<"absent", "absent", "none">>
Archive == <<"good", "absent", "none">>
Unpackaged == <<"absent", "whole", "ours">>
Outdated == <<"wrong", "stale", "stale">>

MCBefore ==
    [x \in (1..3) \X {p, q} |->
       CASE x = <<1, p>> -> {Nothing, Outdated}
         [] x = <<1, q>> -> {Nothing, Archive, Unpackaged}
         [] x = <<2, p>> -> {Nothing, Outdated}
         [] x = <<2, q>> -> {Nothing}
         [] x = <<3, p>> -> {Nothing, Archive}
         [] x = <<3, q>> -> {Nothing, Archive}]
=============================================================================
