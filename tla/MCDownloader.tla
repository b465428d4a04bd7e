---------------------------- MODULE MCDownloader ----------------------------
(***************************************************************************)
(* Small instances of Downloader: r1 may use an HTTP mirror and an OCI     *)
(* registry (two or one transfers, depending on the cached token), r2 only *)
(* the HTTP mirror, which is thus shared.                                  *)
(***************************************************************************)
EXTENDS Downloader, TLC

CONSTANTS r1, r2, http, oci

MCRequests == {r1, r2}
MCMirrors == {http, oci}
MCMirrorsOf == (r1 :> <<http, oci>>) @@ (r2 :> <<http>>)
MCStepCounts == (http :> {1}) @@ (oci :> {1, 2})
=============================================================================
