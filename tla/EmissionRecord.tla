--------------------------- MODULE EmissionRecord ---------------------------
(***************************************************************************)
(* The refinement of FiscalRecord, and of InvoiceLedger, by Emission: the   *)
(* record is what the database holds of the invoices, the verdict what the  *)
(* SIAT holds; the XML files, the events, the CUFDs, the state of the       *)
(* emissions and the requests in flight are hidden.                        *)
(***************************************************************************)
EXTENDS Emission

Record == INSTANCE FiscalRecord WITH
    Codes <- Cufs,
    NoCode <- NoCuf,
    status <- [i \in Invoices |-> row[i].status],
    code <- [i \in Invoices |-> row[i].cuf],
    verdict <- siat,
    mails <- queued

(***************************************************************************)
(* Whatever the emissions, the reaper, the crashes and the SIAT interleave, *)
(* a reader of the database sees each invoice taken, given back, and settled *)
(* in one step with a code of its own, a verdict given of that very code    *)
(* and its mail queued: the two tables TransitionStatus and                 *)
(* StorePreparedEmission write never show a half-settled invoice.           *)
(***************************************************************************)
ImplementsRecord == Record!Spec

-----------------------------------------------------------------------------
\* The fiscal codes of an invoice are those computed from its own data.
Ledger == INSTANCE InvoiceLedger WITH
    Codes <- Cufs,
    CodesOf <- [i \in Invoices |-> {c \in Cufs : c.inv = i}],
    NoCode <- NoCuf,
    status <- [i \in Invoices |-> row[i].status],
    code <- [i \in Invoices |-> row[i].cuf],
    verdict <- siat

(***************************************************************************)
(* The same database read over the whole life of the invoices, operators'   *)
(* requests included: every row moves along the table of allowedTransitions,*)
(* keeps its code outside an emission, and repeats a decision the SIAT had  *)
(* taken about that code.                                                  *)
(***************************************************************************)
ImplementsLedger == Ledger!Spec
=============================================================================
