----------------------------- MODULE InvoiceMail -----------------------------
(***************************************************************************)
(* The delivery of invoice mails: rows of invoice_email_notifications,      *)
(* dispatchers that publish each as a Cloud Tasks task, and workers that    *)
(* the tasks call, which read the invoice and send the mail by SMTP.        *)
(*                                                                         *)
(* Dispatchers and workers take rows with locks that time out; either may   *)
(* die between two calls.  Cloud Tasks is external: it keeps a task until   *)
(* the worker answers 200 or until MaxTries answers were failures, which    *)
(* the deployed queue sets to 12 (--max-attempts); it may deliver a task    *)
(* again while an earlier delivery runs, and its answer to CreateTask may   *)
(* be lost.                                                                *)
(***************************************************************************)
EXTENDS Naturals

CONSTANTS
    Notes,        \* notifications, all of one invoice
    Dispatchers,  \* dispatcher processes
    Workers,      \* deliveries the email worker runs at once
    None,
    SlowDispatch, \* a dispatcher may outlive PublishLockTimeout
    SlowDelivery, \* a delivery may outlive DeliveryLockTimeout
    MaxTries,     \* Cloud Tasks max-attempts
    MaxFaults     \* bound: failures, deaths and tries that come too early

MailAssumption ==
    /\ None \notin Notes \cup Dispatchers \cup Workers
                   \cup {"PENDING", "PUBLISHING", "ENQUEUED", "SENDING", "SENT"}
                   \cup {"live", "done", "dropped"}
    /\ {SlowDispatch, SlowDelivery} \subseteq BOOLEAN
    /\ MaxTries \in Nat \ {0} /\ MaxFaults \in Nat

VARIABLES
    status,    \* status of each row
    lockedBy,  \* dispatcher or worker that set locked_at last
    task,      \* the Cloud Tasks task of each row
    tries,     \* failed answers to each task
    sendable,  \* the invoice is ACCEPTED or OBSERVED
    disp,      \* the batch each dispatcher runs
    work,      \* the delivery each worker runs
    mailed,    \* mails the SMTP server took for each row, up to two
    faults     \* failures so far

mvars == <<status, lockedBy, task, tries, sendable, disp, work, mailed, faults>>

Statuses == {"PENDING", "PUBLISHING", "ENQUEUED", "SENDING", "SENT"}
Resting == [pc |-> "idle", left |-> {}, cur |-> None]
Free == [pc |-> "idle", cur |-> None]

Faulty == faults < MaxFaults /\ faults' = faults + 1
Sound == UNCHANGED faults

SetStatus(n, s) == status' = [status EXCEPT ![n] = s]

-----------------------------------------------------------------------------
(* Rows.  A row is queued with the accepted status of its invoice, or by    *)
(* QueueDelivery for an accepted invoice.  The invoice may be annulled and  *)
(* its annulment reversed.                                                  *)

Queue(n) ==
    /\ status[n] = None /\ sendable
    /\ SetStatus(n, "PENDING")
    /\ UNCHANGED <<lockedBy, task, tries, sendable, disp, work, mailed, faults>>

AnnulOrReverse ==
    /\ sendable' = ~sendable
    /\ Faulty
    /\ UNCHANGED <<status, lockedBy, task, tries, disp, work, mailed>>

-----------------------------------------------------------------------------
(* Dispatchers. *)

\* Dispatcher d runs a batch that still holds n.
Handles(d, n) == n = disp[d].cur \/ n \in disp[d].left

\* locked_at has timed out: its holder ended without a mark, or is slow.
PublishStale(n) ==
    SlowDispatch \/ \A d \in Dispatchers : ~Handles(d, n)

Claimable(n) ==
    \/ status[n] = "PENDING"
    \/ status[n] = "PUBLISHING" /\ PublishStale(n)

\* ClaimPending takes every due row, up to the batch size.
ClaimPending(d) ==
    /\ disp[d] = Resting
    /\ \E batch \in SUBSET {n \in Notes : Claimable(n)} \ {{}} :
          /\ status' = [n \in Notes |-> IF n \in batch THEN "PUBLISHING" ELSE status[n]]
          /\ lockedBy' = [n \in Notes |-> IF n \in batch THEN d ELSE lockedBy[n]]
          /\ disp' = [disp EXCEPT ![d] = [pc |-> "next", left |-> batch, cur |-> None]]
    /\ UNCHANGED <<task, tries, sendable, work, mailed, faults>>

\* The task name is derived from the row: a second CreateTask finds the first.
TaskMade(n) == IF task[n] = None THEN "live" ELSE task[n]

\* Publish: created, ALREADY_EXISTS, refused, or created and not answered.
Publish(d) ==
    /\ disp[d].pc = "next"
    /\ \E n \in disp[d].left :
          LET To(pc) == disp' = [disp EXCEPT ![d] =
                            [pc |-> pc, left |-> disp[d].left \ {n}, cur |-> n]]
          IN  \/ To("enqueued") /\ task' = [task EXCEPT ![n] = TaskMade(n)] /\ Sound
              \/ To("failed") /\ Faulty /\ UNCHANGED task
              \/ To("failed") /\ Faulty /\ task' = [task EXCEPT ![n] = TaskMade(n)]
    /\ UNCHANGED <<status, lockedBy, tries, sendable, work, mailed>>

\* updateClaimed: only a row still claimed by this dispatcher is changed.
Unfenced(d, n) == TRUE
StillClaimed(d, n) == status[n] = "PUBLISHING" /\ lockedBy[n] = d

NextRowKept(d) == disp' = [disp EXCEPT ![d].pc =
    IF disp[d].left = {} THEN "idle" ELSE "next"]
NextRow(d) == disp' = [disp EXCEPT ![d] =
    IF disp[d].left = {} THEN Resting ELSE [disp[d] EXCEPT !.pc = "next", !.cur = None]]

MarkRow(d, pc, s) ==
    /\ disp[d].pc = pc
    /\ LET n == disp[d].cur IN
          IF StillClaimed(d, n)
          THEN SetStatus(n, s) /\ lockedBy' = [lockedBy EXCEPT ![n] = None]
          ELSE UNCHANGED <<status, lockedBy>>
    /\ NextRow(d)
    /\ UNCHANGED <<task, tries, sendable, work, mailed, faults>>

MarkEnqueued(d) == MarkRow(d, "enqueued", "ENQUEUED")
MarkPublishFailed(d) == MarkRow(d, "failed", "PENDING")

DispatcherDies(d) ==
    /\ disp[d] # Resting
    /\ disp' = [disp EXCEPT ![d] = Resting]
    /\ Faulty
    /\ UNCHANGED <<status, lockedBy, task, tries, sendable, work, mailed>>

-----------------------------------------------------------------------------
(* Workers.  A failed answer leaves the task to be tried again, unless it   *)
(* was the last try; the answer of a delivery whose task is gone counts no  *)
(* more.                                                                   *)

Answer200(n) ==
    /\ task' = [task EXCEPT ![n] = IF @ = "live" THEN "done" ELSE @]
    /\ UNCHANGED tries

Answer500(n) ==
    IF task[n] = "live"
    THEN /\ tries' = [tries EXCEPT ![n] = @ + 1]
         /\ task' = [task EXCEPT ![n] = IF tries[n] + 1 >= MaxTries THEN "dropped" ELSE @]
    ELSE UNCHANGED <<task, tries>>

Ends(w) == work' = [work EXCEPT ![w] = Free]
Holds(w, n) == work[w].cur = n

DeliveryStale(n) ==
    SlowDelivery \/ \A w \in Workers : ~Holds(w, n)

DeliverableBusy(n) == status[n] \in {"ENQUEUED", "SENDING"}
DeliverableLost(n) == status[n] = "ENQUEUED"
Deliverable(n) ==
    \/ status[n] = "ENQUEUED"
    \/ status[n] = "SENDING" /\ DeliveryStale(n)

\* Process: ClaimDelivery takes the row ...
ClaimDelivery(w, n) ==
    /\ work[w] = Free /\ task[n] = "live"
    /\ Deliverable(n)
    /\ SetStatus(n, "SENDING")
    /\ lockedBy' = [lockedBy EXCEPT ![n] = w]
    /\ work' = [work EXCEPT ![w] = [pc |-> "claimed", cur |-> n]]
    /\ UNCHANGED <<task, tries, sendable, disp, mailed, faults>>

\* ... or answers at once: 200 if it was sent, 500 if the try comes too early:
\* before MarkEnqueued, while another delivery runs, or while the lock of a dead
\* one has not timed out.
NotClaimed(w, n) ==
    /\ work[w] = Free /\ task[n] = "live"
    /\ \/ status[n] = "SENT" /\ Answer200(n) /\ Sound
       \/ /\ status[n] = "SENDING" \/ ~Deliverable(n)
          /\ status[n] # "SENT"
          /\ Answer500(n) /\ Faulty
    /\ UNCHANGED <<status, lockedBy, sendable, disp, work, mailed>>

Step(w, pc) == work' = [work EXCEPT ![w].pc = pc]
More(k) == IF k < 2 THEN k + 1 ELSE k

\* GetByID, the PDF and the XML; only ACCEPTED and OBSERVED are sent.
ReadInvoice(w) ==
    /\ work[w].pc = "claimed"
    /\ \/ sendable /\ Step(w, "ready") /\ Sound
       \/ ~sendable /\ Step(w, "failed") /\ Sound
       \/ Step(w, "failed") /\ Faulty
    /\ UNCHANGED <<status, lockedBy, task, tries, sendable, disp, mailed>>

SendMailIgnored(w) ==
    /\ work[w].pc = "ready"
    /\ Step(w, "sent")
    /\ UNCHANGED <<status, lockedBy, task, tries, sendable, disp, mailed, faults>>

\* Send: the server takes the mail or not; after it did, Quit may still fail.
SendMail(w) ==
    /\ work[w].pc = "ready"
    /\ LET Taken == mailed' = [mailed EXCEPT ![work[w].cur] = More(@)]
       IN  \/ Taken /\ Step(w, "sent") /\ Sound
           \/ Taken /\ Step(w, "failed") /\ Faulty
           \/ Step(w, "failed") /\ Faulty /\ UNCHANGED mailed
    /\ UNCHANGED <<status, lockedBy, task, tries, sendable, disp>>

\* MarkSent and MarkDeliveryFailed look at the status, not at the holder.
\* The 200 that follows MarkSent may be lost.
MarkableAny(n) == TRUE
Markable(n) == status[n] = "SENDING"

MarkSent(w) ==
    /\ work[w].pc = "sent"
    /\ LET n == work[w].cur IN
          IF Markable(n)
          THEN /\ SetStatus(n, "SENT")
               /\ lockedBy' = [lockedBy EXCEPT ![n] = None]
               /\ \/ Answer200(n) /\ Sound
                  \/ Answer500(n) /\ Faulty
          ELSE UNCHANGED <<status, lockedBy>> /\ Answer500(n) /\ Sound
    /\ Ends(w)
    /\ UNCHANGED <<sendable, disp, mailed>>

MarkDeliveryFailed(w) ==
    /\ work[w].pc = "failed"
    /\ LET n == work[w].cur IN
          /\ IF Markable(n)
             THEN SetStatus(n, "ENQUEUED") /\ lockedBy' = [lockedBy EXCEPT ![n] = None]
             ELSE UNCHANGED <<status, lockedBy>>
          /\ Answer500(n)
    /\ Ends(w)
    /\ UNCHANGED <<sendable, disp, mailed, faults>>

\* The delivery dies, or its last mark or answer is lost.
DeliveryDies(w) ==
    /\ work[w] # Free
    /\ Answer500(work[w].cur)
    /\ Ends(w)
    /\ Faulty
    /\ UNCHANGED <<status, lockedBy, sendable, disp, mailed>>

-----------------------------------------------------------------------------
Init ==
    /\ status = [n \in Notes |-> None]
    /\ lockedBy = [n \in Notes |-> None]
    /\ task = [n \in Notes |-> None]
    /\ tries = [n \in Notes |-> 0]
    /\ sendable = TRUE
    /\ disp = [d \in Dispatchers |-> Resting]
    /\ work = [w \in Workers |-> Free]
    /\ mailed = [n \in Notes |-> 0]
    /\ faults = 0

Dispatch(d) ==
    ClaimPending(d) \/ Publish(d) \/ MarkEnqueued(d) \/ MarkPublishFailed(d)

Deliver(w) ==
    \/ \E n \in Notes : ClaimDelivery(w, n) \/ NotClaimed(w, n)
    \/ ReadInvoice(w) \/ SendMail(w) \/ MarkSent(w) \/ MarkDeliveryFailed(w)

Next ==
    \/ \E n \in Notes : Queue(n)
    \/ AnnulOrReverse
    \/ \E d \in Dispatchers : Dispatch(d) \/ DispatcherDies(d)
    \/ \E w \in Workers : Deliver(w) \/ DeliveryDies(w)

Spec == Init /\ [][Next]_mvars

\* Cloud Scheduler starts the dispatcher again and again, Cloud Tasks tries a
\* task as long as it keeps it.
FairSpec ==
    /\ Spec
    /\ \A d \in Dispatchers : WF_mvars(Dispatch(d))
    /\ \A w \in Workers : WF_mvars(Deliver(w))

-----------------------------------------------------------------------------
(* Properties. *)

\* Types; a lock is held by a dispatcher or a worker.
TypeOK ==
    /\ status \in [Notes -> Statuses \cup {None}]
    /\ lockedBy \in [Notes -> Dispatchers \cup Workers \cup {None}]
    /\ task \in [Notes -> {None, "live", "done", "dropped"}]
    /\ tries \in [Notes -> 0 .. MaxTries]
    /\ sendable \in BOOLEAN
    /\ DOMAIN disp = Dispatchers /\ DOMAIN work = Workers
    /\ \A d \in Dispatchers :
          /\ disp[d].pc \in {"idle", "next", "enqueued", "failed"}
          /\ disp[d].left \subseteq Notes
          /\ disp[d].cur \in Notes \cup {None}
          /\ disp[d].pc \in {"enqueued", "failed"} <=> disp[d].cur \in Notes
    /\ \A w \in Workers :
          /\ work[w].pc \in {"idle", "claimed", "ready", "sent", "failed"}
          /\ work[w].cur \in Notes \cup {None}
          /\ work[w].pc # "idle" <=> work[w].cur \in Notes
    /\ mailed \in [Notes -> 0 .. 2]
    /\ faults \in 0 .. MaxFaults

\* A row is SENT only after the mail server took its mail.
SentWasMailed == \A n \in Notes : status[n] = "SENT" => mailed[n] > 0

\* The queue gave up on row n.
GivenUp(n) == task[n] = "dropped" /\ tries[n] = MaxTries

\* What the rows hand over is never lost but by the queue's own limit: once a row
\* is ENQUEUED its task is tried until it is SENT, whoever died or was slow, or
\* until MaxTries answers have failed.
HandOffHolds ==
    \A n \in DOMAIN status :
        status[n] \in {"ENQUEUED", "SENDING"} => task[n] = "live" \/ GivenUp(n)

\* A customer gets one mail per row while nothing fails and no lock is outlived.
OneMailUnlessFault ==
    faults = 0 => \A n \in DOMAIN status : mailed[n] < 2

\* While no delivery outlives its lock, the claim of a running one is ended by
\* nobody else: marks carry no holder, so this rests on the lock timeout.
OnlyHolderReleases ==
    [][\A w \in Workers, n \in Notes :
          Holds(w, n) /\ lockedBy[n] = w /\ (lockedBy'[n] # w) => work'[w] = Free]_mvars

\* A row never goes back: not to the dispatchers once its task is theirs to
\* forget, and SENT is final, whatever late mark arrives.
NeverBack ==
    [][\A n \in DOMAIN status :
          /\ status[n] \in {"ENQUEUED", "SENDING", "SENT"} =>
                status'[n] \notin {"PENDING", "PUBLISHING"}
          /\ status[n] = "SENT" => status'[n] = "SENT"]_mvars

\* Every row of an invoice that stays valid is sent in the end, or given up.
Delivered ==
    \A n \in Notes : status[n] = "PENDING" ~> (status[n] = "SENT" \/ ~sendable \/ GivenUp(n))
=============================================================================
