----------------------------- MODULE MCLifecycle ----------------------------
(* Instances of Lifecycle for TLC. *)
EXTENDS Lifecycle, TLC

CONSTANTS i1, e1, e2, v1, v2

OneInvoice == {i1}
TwoEmitters == {e1, e2}
TwoOperators == {v1, v2}

Dates == [i \in Invoices |-> 1]

RequestSymmetry == Permutations(Emitters) \cup Permutations(Operators)
=============================================================================
