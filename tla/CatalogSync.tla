----------------------------- MODULE CatalogSync -----------------------------
(***************************************************************************)
(* The SIAT catalogues of one company: every point of sale can download     *)
(* them (usecase/siat_sync.go, adapters/siat/sync), the company keeps the   *)
(* latest (catalog_version_store.go, sin_product_repo.go), and each point   *)
(* of sale keeps what became of its own download (catalog_sync_repo.go),    *)
(* which decides whether it may draw up invoices.  One operation stands for *)
(* each way an answer is stored; a catalogue is with rows or without.  The  *)
(* versions of a catalogue are never changed, so of them only the latest    *)
(* and whether there was one with rows are kept.                            *)
(***************************************************************************)
EXTENDS Naturals, Sequences

CONSTANTS Points, Syncs,
          Order,        \* the operations of a whole download
          MaxFaults

CatalogAssumption ==
    /\ MaxFaults \in Nat /\ Order # << >>
    /\ Order \in Seq({"actividades", "productosServicios", "tipoHabitacion", "fechaHora"})
    /\ \E k \in DOMAIN Order : Order[k] \in {"actividades", "productosServicios"}

VARIABLES catalog,   \* catalog[op]: the latest content, and whether it ever had rows
          state,     \* state[p][op]: status and age of the download
          cuis,      \* cuis[p]: whether the point of sale has one
          sync,      \* sync[s]: place, point of sale, operations left, answer
          lapses

yvars == <<catalog, state, cuis, sync, lapses>>

Ops == {Order[k] : k \in DOMAIN Order}
\* Of the seven operations that an invoice needs, those that stand for them.
Critical == Ops \cap {"actividades", "productosServicios"}
\* Kept as versions; products have a table, and fechaHora stores nothing.
Versioned == Ops \cap {"actividades", "tipoHabitacion"}

NoState == [status |-> "none", fresh |-> FALSE]
NoSync == [pc |-> "idle", at |-> 0, left |-> << >>, answer |-> "none", all |-> FALSE]

Init ==
    /\ catalog = [op \in Ops |-> [now |-> "empty", ever |-> FALSE]]
    /\ state = [p \in Points |-> [op \in Ops |-> NoState]]
    /\ cuis = [p \in Points |-> FALSE]
    /\ sync = [s \in Syncs |-> NoSync]
    /\ lapses = 0

Lapse == lapses < MaxFaults /\ lapses' = lapses + 1

-----------------------------------------------------------------------------
(* What the SIAT may answer, by kind of operation; a refusal is an error. *)

ParametricAnswers == {"rows", "empty", "error"}
ListAnswers == {"rows", "empty", "error"}
ServiceAnswers == {"empty", "error"}

Answers(op) == CASE op = "tipoHabitacion" -> ParametricAnswers
                 [] op = "fechaHora" -> ServiceAnswers
                 [] OTHER -> ListAnswers

\* An answer without rows is EMPTY for an operation invoices depend on.
SuccessAlways(op, answer) == IF answer \in Answers(op) THEN "SUCCESS" ELSE "EMPTY"
SyncStatus(op, answer) == IF op \in Critical /\ answer = "empty" THEN "EMPTY" ELSE "SUCCESS"

-----------------------------------------------------------------------------
(* Sincronizar: one operation, or all in order. *)

ObtainCuis(p) ==
    /\ ~cuis[p] /\ cuis' = [cuis EXCEPT ![p] = TRUE]
    /\ UNCHANGED <<catalog, state, sync, lapses>>

Sincronizar(s, p) ==
    /\ sync[s].pc = "idle" /\ cuis[p]
    /\ \/ sync' = [sync EXCEPT ![s] = [pc |-> "ask", at |-> p, left |-> Order,
                                       answer |-> "none", all |-> TRUE]]
       \/ \E op \in Ops : sync' = [sync EXCEPT ![s] = [pc |-> "ask", at |-> p, left |-> <<op>>,
                                                       answer |-> "none", all |-> FALSE]]
    /\ UNCHANGED <<catalog, state, cuis, lapses>>

Op(s) == Head(sync[s].left)

Synchronize(s) ==
    /\ sync[s].pc = "ask"
    /\ \E answer \in Answers(Op(s)) :
          sync' = [sync EXCEPT ![s].answer = answer,
                               ![s].pc = IF answer = "error" THEN "state" ELSE "rows"]
    /\ UNCHANGED <<catalog, state, cuis, lapses>>

\* replaceVersionedCatalog appends a version under the lock of its catalogue;
\* the products of the company are replaced in place.
Appended(op, content) ==
    [catalog EXCEPT ![op] = [now |-> content, ever |-> @.ever \/ content = "rows"]]
ReplacedProducts(content) == Appended("productosServicios", content)

StoreRows(s) ==
    LET op == Op(s) IN
    /\ sync[s].pc = "rows"
    /\ CASE op \in Versioned -> catalog' = Appended(op, sync[s].answer)
         [] op = "productosServicios" -> catalog' = ReplacedProducts(sync[s].answer)
         [] OTHER -> UNCHANGED catalog
    /\ sync' = [sync EXCEPT ![s].pc = "state"]
    /\ UNCHANGED <<state, cuis, lapses>>

\* The rows could not be stored.
StoreFails(s) ==
    /\ sync[s].pc = "rows" /\ Op(s) # "fechaHora" /\ Lapse
    /\ sync' = [sync EXCEPT ![s].pc = "state", ![s].answer = "error"]
    /\ UNCHANGED <<catalog, state, cuis>>

\* Upsert of the download's state; a run over all operations goes on.
DownloadedAnyway(op, answer) == [status |-> SyncStatus(op, answer), fresh |-> TRUE]
Downloaded(op, answer) ==
    [status |-> IF answer = "error" THEN "FAILED" ELSE SyncStatus(op, answer), fresh |-> TRUE]

Advance(s) ==
    LET left == sync[s].left IN
    sync' = [sync EXCEPT ![s] = IF Len(left) > 1
                                THEN [@ EXCEPT !.pc = "ask", !.left = Tail(left)] ELSE NoSync]

SaveSyncState(s) ==
    /\ sync[s].pc = "state"
    /\ state' = [state EXCEPT ![sync[s].at][Op(s)] = Downloaded(Op(s), sync[s].answer)]
    /\ Advance(s)
    /\ UNCHANGED <<catalog, cuis, lapses>>

\* A failure to save the state is ignored or returned; the rows stay.
StateLost(s) ==
    /\ sync[s].pc = "state" /\ Lapse
    /\ Advance(s)
    /\ UNCHANGED <<catalog, state, cuis>>

SyncDies(s) ==
    /\ sync[s].pc # "idle" /\ Lapse
    /\ sync' = [sync EXCEPT ![s] = NoSync]
    /\ UNCHANGED <<catalog, state, cuis>>

\* Twenty-four hours after a download that readiness reads.
Age(p, op) ==
    /\ op \in Critical /\ state[p][op].fresh
    /\ state' = [state EXCEPT ![p][op].fresh = FALSE]
    /\ UNCHANGED <<catalog, cuis, sync, lapses>>

-----------------------------------------------------------------------------
SyncStep(s) == Synchronize(s) \/ StoreRows(s) \/ StoreFails(s) \/ SaveSyncState(s)
               \/ StateLost(s) \/ SyncDies(s)

Next ==
    \/ \E p \in Points : ObtainCuis(p) \/ \E op \in Ops : Age(p, op)
    \/ \E s \in Syncs : SyncStep(s) \/ \E p \in Points : Sincronizar(s, p)

Spec == Init /\ [][Next]_yvars

-----------------------------------------------------------------------------
\* CatalogReadiness, and ensureCatalogReadiness before an invoice is drawn up.
Ready(p) == \A op \in Critical : state[p][op].status = "SUCCESS" /\ state[p][op].fresh

\* What a listing reads: the latest version, or the table.
Latest(op) == catalog[op].now

TypeOK ==
    /\ catalog \in [Ops -> [now : {"rows", "empty"}, ever : BOOLEAN]]
    /\ state \in [Points -> [Ops -> [status : {"none", "SUCCESS", "EMPTY", "FAILED"},
                                     fresh : BOOLEAN]]]
    /\ cuis \in [Points -> BOOLEAN]
    /\ lapses \in 0..MaxFaults

\* A point of sale that may draw up invoices has a CUIS, and its company's
\* catalogues were stored with rows, wherever downloads failed or died.
ReadyWasStored ==
    \A p \in DOMAIN state : Ready(p) => cuis[p] /\ \A op \in Critical : catalog[op].ever

\* While nothing fails and one point of sale downloads at a time, what its
\* readiness says of a catalogue is true of the latest one.
ReadyIsCurrent ==
    \A p \in DOMAIN state, op \in Critical :
        (lapses = 0 /\ \A s \in DOMAIN sync : sync[s].pc = "idle" \/ Op(s) # op)
            => (state[p][op].status = "SUCCESS" => Latest(op) = "rows")
=============================================================================
