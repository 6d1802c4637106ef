---------------------------- MODULE FiscalRecord ----------------------------
(***************************************************************************)
(* What the emission of invoices promises to everyone else: an invoice is  *)
(* drafted, taken by an emission, and either given back or settled, in one  *)
(* step, with a fiscal code of its own, the verdict the SIAT has given of   *)
(* that very code, and the mail of an invoice that was taken.  How many     *)
(* requests, files, retries and crashes that takes is left to Emission,     *)
(* which implements this specification.                                     *)
(***************************************************************************)
EXTENDS InvoiceStates

CONSTANTS Invoices,
          Codes,    \* records that name the invoice (inv) and the emission type
          NoCode

VARIABLES
    status,   \* of each invoice
    code,     \* the fiscal code each invoice has, or NoCode
    verdict,  \* what the SIAT has decided about each code
    mails     \* the invoices whose mail is to be sent
rvars == <<status, code, verdict, mails>>

Init ==
    /\ status = [i \in Invoices |-> "PENDING"]
    /\ code = [i \in Invoices |-> NoCode]
    /\ verdict = [c \in Codes |-> "none"]
    /\ mails = {}

Take(i) ==
    /\ status[i] = "PENDING"
    /\ status' = [status EXCEPT ![i] = "SENDING"]
    /\ UNCHANGED <<code, verdict, mails>>

GiveBack(i) ==
    /\ status[i] = "SENDING"
    /\ status' = [status EXCEPT ![i] = "PENDING"]
    /\ UNCHANGED <<code, verdict, mails>>

\* The code an invoice is sent under is one of its own, or forgotten.
Reserve(i) ==
    /\ status[i] = "SENDING"
    /\ \E c \in Codes \cup {NoCode} :
          /\ c # NoCode => c.inv = i
          /\ code' = [code EXCEPT ![i] = c]
    /\ UNCHANGED <<status, verdict, mails>>

\* What a verdict, given once or twice, lets the invoice be settled with: an
\* observation the SIAT has resolved since may still be recorded.
Backs(v, to) ==
    CASE to = "REJECTED" -> v = "rejected"
      [] to = "ACCEPTED" -> v = "accepted"
      [] to = "OBSERVED" -> v # "none"
      [] OTHER           -> FALSE

Settle(i) ==
    /\ status[i] = "SENDING"
    /\ \E c \in Codes, to \in {"ACCEPTED", "OBSERVED", "REJECTED"} :
          /\ c.inv = i /\ Backs(verdict[c], to)
          /\ status' = [status EXCEPT ![i] = to]
          /\ code' = [code EXCEPT ![i] = c]
          /\ mails' = IF to = "REJECTED" THEN mails ELSE mails \cup {i}
    /\ UNCHANGED verdict

GoOffline(i) ==
    /\ status[i] = "SENDING"
    /\ \E c \in Codes :
          /\ c.inv = i /\ c.type = "OFFLINE"
          /\ code' = [code EXCEPT ![i] = c]
    /\ status' = [status EXCEPT ![i] = "OFFLINE"]
    /\ UNCHANGED <<verdict, mails>>

\* The SIAT decides about a code, and once more about one it had observed.
Decide(c) ==
    /\ verdict[c] \in {"none", "observed"}
    /\ \E v \in {"accepted", "observed", "rejected"} : verdict' = [verdict EXCEPT ![c] = v]
    /\ UNCHANGED <<status, code, mails>>

Next ==
    \/ \E i \in Invoices :
          Take(i) \/ GiveBack(i) \/ Reserve(i) \/ Settle(i) \/ GoOffline(i)
    \/ \E c \in Codes : Decide(c)

Spec == Init /\ [][Next]_rvars
=============================================================================
