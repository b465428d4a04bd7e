------------------------------- MODULE EnvStack -------------------------------
(***************************************************************************)
(* What activation promises: the environments that were activated form a   *)
(* stack, each on top of the one before or in its place.                   *)
(***************************************************************************)
EXTENDS Naturals, Sequences

CONSTANTS Envs, MaxDepth
VARIABLE stack

Depth == Len(stack)
Init == stack = <<>>

(* The environment below the top comes back; only a first one is never on  *)
(* top of another.                                                         *)
Pop == Depth > 0 /\ stack' = SubSeq(stack, 1, Depth - 1)
Push(e, stacked) ==
    /\ Depth < MaxDepth
    /\ Depth > 0 => stack[Depth].env # e
    /\ Depth > 1 => stack[Depth - 1].env # e
    /\ stacked => Depth > 0
    /\ stack' = Append(stack, [env |-> e, stacked |-> stacked])

Next == Pop \/ \E e \in Envs, stacked \in BOOLEAN : Push(e, stacked)
Spec == Init /\ [][Next]_stack
=============================================================================
