------------------------------ MODULE Lifecycle -----------------------------
(***************************************************************************)
(* The life of an invoice after (and during) its emission: an operator     *)
(* verifies its state at the SIAT, annuls it, or reverts the annulment,    *)
(* while emissions and the reaper of module Emission keep running.          *)
(*                                                                         *)
(* Each operation reads the invoice, calls the SIAT, and then applies a    *)
(* conditional change to the row it read: three steps, with anything in    *)
(* between.                                                                *)
(***************************************************************************)
EXTENDS EmissionRecord

CONSTANTS Operators  \* requests that may run an operation at the same time

VARIABLES
    motivo,  \* invoices with motivo_anulacion and fecha_anulacion stored
    op       \* local state of each running operation

lvars == <<vars, motivo, op>>

Kinds == {"verify", "annul", "revert"}

NoOp == [pc |-> "idle", kind |-> "verify", inv |-> NoInvoice,
         status |-> "PENDING", cuf |-> NoCuf, estado |-> "none"]

OpAt(v, pc) == op[v].pc = pc
EndOp(v) == op' = [op EXCEPT ![v] = NoOp]

-----------------------------------------------------------------------------
\* An operation needs a fiscal code; annulling needs an ACCEPTED invoice and
\* reverting a CANCELLED one.
AdmissibleUnsent(kind, i) ==
    /\ kind = "annul" => row[i].status = "ACCEPTED"
    /\ kind = "revert" => row[i].status = "CANCELLED"
Admissible(kind, i) ==
    /\ row[i].cuf # NoCuf
    /\ kind = "annul" => row[i].status = "ACCEPTED"
    /\ kind = "revert" => row[i].status = "CANCELLED"

Read(v, kind, i) ==
    /\ OpAt(v, "idle")
    /\ Admissible(kind, i)
    /\ op' = [op EXCEPT ![v] = [NoOp EXCEPT !.pc = "call", !.kind = kind, !.inv = i,
                                            !.status = row[i].status, !.cuf = row[i].cuf]]
    /\ UNCHANGED <<vars, motivo>>

\* The states in which the SIAT takes the request and the state it leaves.
SiatTakes(kind) == IF kind = "annul" THEN {"accepted", "reverted"} ELSE {"annulled"}
SiatLeaves(kind) == IF kind = "annul" THEN "annulled" ELSE "reverted"

Consult(v) ==
    /\ OpAt(v, "call") /\ op[v].kind = "verify"
    /\ op' = [op EXCEPT ![v].pc = "apply", ![v].estado = siat[op[v].cuf]]
    /\ UNCHANGED <<vars, motivo>>

\* The SIAT annuls or reverts; the answer may be lost on its way back.
Request(v) ==
    LET kind == op[v].kind IN
    /\ OpAt(v, "call") /\ kind # "verify"
    /\ siat[op[v].cuf] \in SiatTakes(kind)
    /\ siat' = [siat EXCEPT ![op[v].cuf] = SiatLeaves(kind)]
    /\ \/ op' = [op EXCEPT ![v].pc = "apply", ![v].estado = SiatLeaves(kind)]
       \/ EndOp(v)
    /\ UNCHANGED <<database, file, attempt, net, motivo>>

\* The status the operation wants, and the reason it gives.
Target(v) ==
    CASE op[v].kind = "annul"  -> {"CANCELLED"}
      [] op[v].kind = "revert" -> {"ACCEPTED"}
      [] OTHER                 -> SiatEstadoToDomain(op[v].estado) \ {op[v].status}

OpReason(kind) ==
    CASE kind = "annul"  -> "CANCELLATION"
      [] kind = "revert" -> "CANCELLATION_REVERT"
      [] OTHER           -> "SIAT_RECONCILIATION"

\* Annul stores the reason and date, RevertAnnul clears them.
MotivoAfter(kind, i) ==
    CASE kind = "annul"  -> motivo \cup {i}
      [] kind = "revert" -> motivo \ {i}
      [] OTHER           -> motivo

Apply(v) ==
    LET i == op[v].inv
        kind == op[v].kind
    IN
    /\ OpAt(v, "apply")
    /\ \E to \in Target(v) :
          /\ Applies(i, op[v].status, to, OpReason(kind))
          /\ TransitionStatus(i, to, row[i])
    /\ motivo' = MotivoAfter(kind, i)
    /\ EndOp(v)
    /\ UNCHANGED <<file, events, cufd, attempt, net, siat>>

\* The SIAT refuses or cannot be reached, the status changed meanwhile, the
\* change is not permitted, nothing is to be changed, the update fails, or
\* the process dies.
GiveUp(v) ==
    /\ ~OpAt(v, "idle")
    /\ EndOp(v)
    /\ UNCHANGED <<vars, motivo>>

-----------------------------------------------------------------------------
LInit == Init /\ motivo = {} /\ op = [v \in Operators |-> NoOp]

Operator(v) ==
    \/ \E kind \in Kinds, i \in Invoices : Read(v, kind, i)
    \/ Consult(v) \/ Request(v) \/ Apply(v) \/ GiveUp(v)

LNext ==
    \/ Next /\ UNCHANGED <<motivo, op>>
    \/ \E v \in Operators : Operator(v)

LSpec == LInit /\ [][LNext]_lvars

-----------------------------------------------------------------------------
(* Properties. *)

(***************************************************************************)
(* Types; a running operation holds a fiscal code, of the invoice it read. *)
(***************************************************************************)
LTypeOK ==
    /\ TypeOK
    /\ motivo \subseteq Invoices
    /\ op \in [Operators -> [pc : {"idle", "call", "apply"}, kind : Kinds,
                             inv : Invoices \cup {NoInvoice}, status : Statuses,
                             cuf : CufOrNone, estado : SiatStates]]
    /\ \A v \in Operators : op[v].pc # "idle" =>
          op[v].cuf \in Cufs /\ op[v].cuf.inv = op[v].inv

(***************************************************************************)
(* The reason and date of the annulment are stored only for an invoice     *)
(* that is annulled: an ACCEPTED invoice has them cleared.                  *)
(***************************************************************************)
AcceptedHasNoMotivo == \A i \in motivo : row[i].status # "ACCEPTED"

(***************************************************************************)
(* A settled row is what the SIAT decided about its code, and the XML      *)
(* stored for the invoice is that code's, also across verifications and    *)
(* annulments.                                                             *)
(***************************************************************************)
SettledIsBacked == FinalDocumentStored /\ OutcomeMatchesSiat

(***************************************************************************)
(* Whatever an operator and an emission do at once, a rejected invoice     *)
(* stays rejected and an annulled one is only ever reinstated.             *)
(***************************************************************************)
VerdictsOnlyAdvance ==
    [][\A i \in Invoices :
          /\ row[i].status = "REJECTED" => row'[i].status = "REJECTED"
          /\ row[i].status = "ACCEPTED" => row'[i].status \in {"ACCEPTED", "CANCELLED"}
          /\ row[i].status = "CANCELLED" => row'[i].status \in {"CANCELLED", "ACCEPTED"}]_lvars
=============================================================================
