---------------------------- MODULE InvoiceLedger ---------------------------
(***************************************************************************)
(* What the database says of every invoice for as long as it lives,         *)
(* whichever way it goes: emitted alone, in a mass emission or in a package  *)
(* of offline invoices, verified, annulled or reinstated.  An invoice moves  *)
(* along the table of permitted changes only; its fiscal code is one of its  *)
(* own and changes only in the hands of an emission; and it says ACCEPTED,   *)
(* OBSERVED, REJECTED or CANCELLED only when the SIAT's decision about that  *)
(* very code lets it.  One step may move many invoices: a batch is reserved  *)
(* and settled in one transaction.                                          *)
(*                                                                         *)
(* Emission, Lifecycle and Batches implement this specification; requests,  *)
(* files, packages, retries and crashes are theirs.                         *)
(***************************************************************************)
EXTENDS InvoiceStates

CONSTANTS Invoices,
          Codes,
          CodesOf,  \* the codes an invoice may be sent under
          NoCode

VARIABLES
    status,   \* of each invoice
    code,     \* the fiscal code each invoice has, or NoCode
    verdict   \* what the SIAT has decided about each code
gvars == <<status, code, verdict>>

Init ==
    /\ status = [i \in Invoices |-> "PENDING"]
    /\ code = [i \in Invoices |-> NoCode]
    /\ verdict = [c \in Codes |-> "none"]

-----------------------------------------------------------------------------
\* The statuses that repeat a decision of the SIAT, and what lets them: an
\* annulled or reinstated document was accepted, and an operator's request may
\* be recorded after the next one was decided.
Decided == {"ACCEPTED", "OBSERVED", "REJECTED", "CANCELLED"}

Justifies(v, to) ==
    \/ to = "ACCEPTED" /\ v \in {"accepted", "annulled", "reverted"}
    \/ to = "OBSERVED" /\ v # "none"
    \/ to = "REJECTED" /\ v = "rejected"
    \/ to = "CANCELLED" /\ v \in {"annulled", "reverted"}

Permitted(from, to) == \E t \in AllowedTransitions : t[1] = from /\ t[2] = to

Rests(i) == status'[i] = status[i] /\ code'[i] = code[i]

\* An emission reserves a code, or forgets it to go offline.
Recodes(i) ==
    /\ status[i] = "SENDING" /\ status'[i] = "SENDING"
    /\ code'[i] \in CodesOf[i] \cup {NoCode}

\* The code may change with the status when an emission begins or ends, but
\* not when it gives the invoice back.
Moves(i) ==
    /\ Permitted(status[i], status'[i])
    /\ \/ code'[i] = code[i]
       \/ /\ "SENDING" \in {status[i], status'[i]} /\ status'[i] # "PENDING"
          /\ code'[i] \in CodesOf[i]
    /\ status'[i] \notin {"PENDING", "SENDING"} => code'[i] \in CodesOf[i]
    /\ status'[i] \in Decided => Justifies(verdict[code'[i]], status'[i])

\* The SIAT decides about a code, once more about an observed one, and takes
\* back what it accepted as often as it is asked to.
Decisions ==
    ({"none", "observed"} \X {"accepted", "observed", "rejected"})
    \cup ({"accepted", "reverted"} \X {"annulled"}) \cup {<<"annulled", "reverted">>}

Next ==
    /\ DOMAIN status' = Invoices /\ DOMAIN code' = Invoices /\ DOMAIN verdict' = Codes
    /\ \A i \in Invoices : Rests(i) \/ Recodes(i) \/ Moves(i)
    /\ \A c \in Codes : verdict'[c] = verdict[c] \/ <<verdict[c], verdict'[c]>> \in Decisions

Spec == Init /\ [][Next]_gvars
=============================================================================
