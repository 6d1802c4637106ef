---------------------------- MODULE MCOperations ----------------------------
(* Operations with two requests, replicas, processes, edits and downloads, one *)
(* invoice with two registrations, and the bodies of DraftBodies.              *)
EXTENDS Operations, DraftBodies

CONSTANTS c1, s1, s2

TwoCallers == {Scheduler, c1}
TwoCreators == {c1, s1}
SaleCufs == {"cuf1", "cuf2"}
Span == [from |-> 1, to |-> 3]
Asked == {[from |-> 1, to |-> 2]}
SomeOfEachKind == <<"tipoHabitacion", "productosServicios", "fechaHora">>
=============================================================================
