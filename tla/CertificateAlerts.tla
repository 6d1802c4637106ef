-------------------------- MODULE CertificateAlerts --------------------------
(***************************************************************************)
(* The alerts about one active certificate that comes to its end: every     *)
(* replica runs RunCertificateCheck, which claims the alert of a threshold, *)
(* calls the company's webhook and marks the row (usecase/maintenance.go,   *)
(* maintenance_repo.go, adapters/notification/webhook.go).  A stage counts  *)
(* the thresholds passed: 0 none, 1 to 3 the 30, 15 and 7 days, 4 the end.  *)
(* A run ends within JobTimeout, minutes where a claim is kept for an hour, *)
(* so a claim is old only when the run that made it is over.                *)
(***************************************************************************)
EXTENDS Naturals

CONSTANTS Replicas, MaxStage, MaxFaults

AlertsAssumption == MaxStage \in 1..4 /\ MaxFaults \in Nat

VARIABLES stage, status,
          note,    \* note[t]: row of a threshold's alert, and whether its claim is old
          check,   \* check[r]: place of a replica's run, the stage it read
          sent,    \* sent[t]: times the webhook took the alert
          late     \* faults so far

avars == <<stage, status, note, check, sent, late>>

Thresholds == 1..3
NoNote == [status |-> "none", old |-> FALSE]
NoCheck == [pc |-> "idle", at |-> 0]

Init ==
    /\ stage = 0 /\ status = "ACTIVE"
    /\ note = [t \in Thresholds |-> NoNote]
    /\ check = [r \in Replicas |-> NoCheck]
    /\ sent = [t \in Thresholds |-> 0]
    /\ late = 0

Fault == late < MaxFaults /\ late' = late + 1
Ends(r) == check' = [check EXCEPT ![r] = NoCheck]

\* The next threshold is passed.
Approach ==
    /\ stage < MaxStage /\ stage' = stage + 1
    /\ UNCHANGED <<status, note, check, sent, late>>

\* ListCertificatesDue.
ListDue(r) ==
    /\ check[r].pc = "idle" /\ status = "ACTIVE" /\ stage > 0
    /\ check' = [check EXCEPT ![r] = [pc |-> IF stage = 4 THEN "expire" ELSE "claim",
                                      at |-> stage]]
    /\ UNCHANGED <<stage, status, note, sent, late>>

\* MarkCertificateExpired, of a row that is still ACTIVE.
MarkExpired(r) ==
    /\ check[r].pc = "expire"
    /\ status' = "EXPIRED" /\ Ends(r)
    /\ UNCHANGED <<stage, note, sent, late>>

\* ClaimCertificateNotification inserts the row, or takes over one that is not
\* SENT and whose last claim is old.
ClaimableSent(t) == note[t].status = "none" \/ note[t].old
Claimable(t) == \/ note[t].status = "none"
                \/ note[t].status \in {"PENDING", "FAILED"} /\ note[t].old

Claim(r) ==
    LET t == check[r].at IN
    /\ check[r].pc = "claim"
    /\ IF Claimable(t)
       THEN /\ note' = [note EXCEPT ![t] = [status |-> "PENDING", old |-> FALSE]]
            /\ check' = [check EXCEPT ![r].pc = "notify"]
       ELSE Ends(r) /\ UNCHANGED note
    /\ UNCHANGED <<stage, status, sent, late>>

\* The webhook takes the alert; or does not; or its answer is lost.
Notify(r) ==
    /\ check[r].pc = "notify"
    /\ \/ /\ sent' = [sent EXCEPT ![check[r].at] = @ + 1]
          /\ check' = [check EXCEPT ![r].pc = "sent"] /\ UNCHANGED late
       \/ /\ Fault
          /\ sent' = [sent EXCEPT ![check[r].at] = @ + 1]
          /\ check' = [check EXCEPT ![r].pc = "failed"]
       \/ /\ Fault
          /\ check' = [check EXCEPT ![r].pc = "failed"] /\ UNCHANGED sent
    /\ UNCHANGED <<stage, status, note>>

\* The marks match the row by certificate and threshold alone.
Mark(r) ==
    /\ check[r].pc \in {"sent", "failed"}
    /\ note' = [note EXCEPT ![check[r].at].status = IF check[r].pc = "sent"
                                                    THEN "SENT" ELSE "FAILED"]
    /\ Ends(r)
    /\ UNCHANGED <<stage, status, sent, late>>

\* A run is cut off: its context ends, the database fails or the process dies.
CutOff(r) ==
    /\ check[r].pc # "idle" /\ Fault /\ Ends(r)
    /\ UNCHANGED <<stage, status, note, sent>>

\* The hour of a claim is over, and with it the run that made it.
Age(t) ==
    /\ note[t].status # "none" /\ ~note[t].old
    /\ \A r \in Replicas : check[r].pc \in {"notify", "sent", "failed"} => check[r].at # t
    /\ note' = [note EXCEPT ![t].old = TRUE]
    /\ UNCHANGED <<stage, status, check, sent, late>>

-----------------------------------------------------------------------------
RunCertificateCheck(r) == ListDue(r) \/ MarkExpired(r) \/ Claim(r) \/ Notify(r) \/ Mark(r)

Next ==
    \/ Approach
    \/ \E t \in Thresholds : Age(t)
    \/ \E r \in Replicas : RunCertificateCheck(r) \/ CutOff(r)

Spec == Init /\ [][Next]_avars

-----------------------------------------------------------------------------
TypeOK ==
    /\ stage \in 0..MaxStage /\ status \in {"ACTIVE", "EXPIRED"}
    /\ note \in [Thresholds -> [status : {"none", "PENDING", "SENT", "FAILED"}, old : BOOLEAN]]
    /\ check \in [Replicas -> [pc : {"idle", "expire", "claim", "notify", "sent", "failed"},
                               at : 0..MaxStage]]
    /\ sent \in [Thresholds -> 0..MaxFaults + 1] /\ late \in 0..MaxFaults

\* "alerta unica por los umbrales": one alert per threshold but for those that
\* a fault repeats, although the marks are unfenced and replicas run at once.
AlertOnce ==
    \A t \in DOMAIN sent :
        /\ sent[t] <= 1 + late
        /\ note[t].status = "SENT" => sent[t] >= 1

\* A threshold that stays the current one is alerted in the end.
Alerted ==
    \A t \in Thresholds : stage = t ~> note[t].status = "SENT" \/ stage > t
=============================================================================
