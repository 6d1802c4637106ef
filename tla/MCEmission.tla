----------------------------- MODULE MCEmission -----------------------------
(* Instances of Emission for TLC. *)
EXTENDS EmissionRecord, TLC

CONSTANTS i1, e1, e2

OneInvoice == {i1}
TwoEmitters == {e1, e2}

Dates == [i \in Invoices |-> 1]

\* Sound for safety only: not used where liveness is checked.
EmitterSymmetry == Permutations(Emitters)
=============================================================================
