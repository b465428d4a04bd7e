----------------------------- MODULE PackageStore -----------------------------
(***************************************************************************)
(* What a transaction counts on when it fetches packages: the set of       *)
(* packages that can be linked from a package cache only grows, whatever   *)
(* fails or is killed meanwhile, and a fetch that says it succeeded leaves *)
(* every package linkable, but for those whose extraction went wrong       *)
(* without being noticed.                                                  *)
(***************************************************************************)
CONSTANT Packages

VARIABLES
    ready,     \* the packages with an extracted directory some cache accepts
    doubtful,  \* those whose last extraction went wrong unnoticed
    answer     \* of the fetch: "none" while it goes on, "success" or "failure"

Init == ready \in SUBSET Packages /\ doubtful = {} /\ answer = "none"

Extract(p) == ready' = ready \cup {p} /\ UNCHANGED <<doubtful, answer>>

Doubt(p) == doubtful' = doubtful \cup {p} /\ UNCHANGED <<ready, answer>>

(* What was left there is cleared; it was not linkable.                    *)
Clear(p) == p \notin ready /\ doubtful' = doubtful \ {p} /\ UNCHANGED <<ready, answer>>

Succeed ==
    /\ answer = "none" /\ ready \cup doubtful = Packages /\ answer' = "success"
    /\ UNCHANGED <<ready, doubtful>>

Fail == answer = "none" /\ answer' = "failure" /\ UNCHANGED <<ready, doubtful>>

(* A command that starts over, the previous one having ended or been killed. *)
StartOver == answer' = "none" /\ UNCHANGED <<ready, doubtful>>

Next == (\E p \in Packages : Extract(p) \/ Doubt(p) \/ Clear(p)) \/ Succeed \/ Fail \/ StartOver

Spec == Init /\ [][Next]_<<ready, doubtful, answer>>
=============================================================================
