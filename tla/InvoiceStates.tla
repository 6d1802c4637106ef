--------------------------- MODULE InvoiceStates ---------------------------
(***************************************************************************)
(* The vocabulary shared by every module about an invoice: its statuses,   *)
(* the reasons of a status change, the table of the changes the domain     *)
(* permits (InvoiceStateMachine), and how the codes the tax office (SIAT)  *)
(* answers with are read as statuses.                                      *)
(***************************************************************************)

Statuses == {"PENDING", "SENDING", "SENT", "ACCEPTED", "REJECTED",
             "OBSERVED", "OFFLINE", "CANCELLED"}

\* Statuses that no longer belong to a running emission.
Settled == {"ACCEPTED", "OBSERVED", "REJECTED", "OFFLINE", "CANCELLED"}

\* What the SIAT holds about a fiscal code: nothing yet, or the verdict of the
\* reception, later possibly annulled and reverted.
SiatStates == {"none", "accepted", "observed", "rejected", "annulled", "reverted"}

-----------------------------------------------------------------------------
Verdict(reason) == {reason, "SIAT_RECONCILIATION"}

AllowedTransitions ==
    ({"PENDING"} \X {"SENDING"} \X {"EMISSION_START"})
    \cup ({"SENDING"} \X {"PENDING"} \X {"TRANSPORT_FAILURE", "STALE_RECOVERY"})
    \cup ({"SENDING"} \X {"OFFLINE"} \X {"CONTINGENCY"})
    \cup ({"SENDING", "OFFLINE"} \X {"SENT"} \X {"BATCH_RESERVED"})
    \cup ({"SENDING", "OBSERVED", "SENT"} \X {"ACCEPTED"} \X Verdict("SIAT_ACCEPTED"))
    \cup ({"SENDING", "SENT"} \X {"OBSERVED"} \X Verdict("SIAT_OBSERVED"))
    \cup ({"SENDING", "OBSERVED", "SENT"} \X {"REJECTED"} \X Verdict("SIAT_REJECTED"))
    \cup ({"ACCEPTED"} \X {"CANCELLED"} \X Verdict("CANCELLATION"))
    \cup ({"CANCELLED"} \X {"ACCEPTED"} \X Verdict("CANCELLATION_REVERT"))

CanTransition(from, to, reason) == <<from, to, reason>> \in AllowedTransitions

-----------------------------------------------------------------------------
\* The status and the reason an emission ends with, from the SIAT's verdict.
\* A document annulled or reverted later was accepted when it was received.
OutcomeIgnoringObserved(verdict) ==
    IF verdict = "rejected" THEN "REJECTED" ELSE "ACCEPTED"
EmissionOutcome(verdict) ==
    CASE verdict = "rejected" -> "REJECTED"
      [] verdict = "observed" -> "OBSERVED"
      [] OTHER                -> "ACCEPTED"

OutcomeReason(status) ==
    CASE status = "REJECTED" -> "SIAT_REJECTED"
      [] status = "OBSERVED" -> "SIAT_OBSERVED"
      [] OTHER               -> "SIAT_ACCEPTED"

\* The status a verification answer stands for; a document the SIAT does not
\* know answers with a code outside the table.
ObservedAsAccepted(estado) ==
    CASE estado \in {"accepted", "reverted", "observed"} -> {"ACCEPTED"}
      [] estado = "rejected"                             -> {"REJECTED"}
      [] estado = "annulled"                             -> {"CANCELLED"}
      [] OTHER                                           -> {}
SiatEstadoToDomain(estado) ==
    CASE estado \in {"accepted", "reverted"} -> {"ACCEPTED"}
      [] estado = "observed"                 -> {"OBSERVED"}
      [] estado = "rejected"                 -> {"REJECTED"}
      [] estado = "annulled"                 -> {"CANCELLED"}
      [] OTHER                               -> {}
=============================================================================
