----------------------------- MODULE MCBatches ------------------------------
(* Three scenes explored by one run, each with its own bounds and for its    *)
(* own question; scene is chosen in the initial state and never changes.     *)
(*   race   one invoice, two requests that reserve up to two packages        *)
(*   pair   two invoices, two requests, one package; a single emission of   *)
(*          the second invoice never gets through to the SIAT                *)
(*   group  four invoices, the third a note, one request, no package         *)
(*          reserved; the first and the third may be emitted one by one      *)
(* The constants of Batches are the largest any scene needs; what a scene    *)
(* leaves out stays in its initial state.                                    *)
EXTENDS Batches, TLC

CONSTANTS r1, r2, r3

FourInvoices == 1..4
ThreeRequests == {r1, r2, r3}
Sectors == <<1, 1, 24, 1>>
NoteSectors == {24}
TicketSectors == {30}
RequestSymmetry == Permutations({r1, r2})

VARIABLE scene

scvars == <<bvars, scene>>

Scenes ==
    [race  |-> [invoices |-> 1..1, singles |-> {1}, online |-> {1},
                requests |-> {r1, r2}, cufds |-> 2, packages |-> 2],
     pair  |-> [invoices |-> 1..2, singles |-> {1, 2}, online |-> {1},
                requests |-> {r1, r2}, cufds |-> 1, packages |-> 1],
     group |-> [invoices |-> 1..4, singles |-> {1, 3}, online |-> {1, 3},
                requests |-> {r3}, cufds |-> 1, packages |-> 0]]

SceneInit == Init /\ scene \in DOMAIN Scenes

\* The steps of Next that stay within the bounds of the scene.
SceneNext ==
    LET bounds == Scenes[scene] IN
    /\ UNCHANGED scene
    /\ \/ \E r \in bounds.requests : Request(r)
       \/ \E i \in bounds.singles :
             Single(i) /\ (EmissionDispatches(i) => i \in bounds.online)
       \/ \E p \in DOMAIN pkgs : ReceiveLot(p) \/ ValidateLot(p)
       \/ RenewCufd
    /\ \A r \in bounds.requests : DOMAIN req'[r].docs \subseteq bounds.invoices
    /\ cufd' <= bounds.cufds /\ Len(pkgs') <= bounds.packages

SceneSpec == SceneInit /\ [][SceneNext]_scvars
=============================================================================
