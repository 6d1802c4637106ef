------------------------------ MODULE Delivery ------------------------------
(* What surrounds the emission of an invoice: its requests' way through the  *)
(* queue, its stored documents and its mails.  The components share no state *)
(* here, so one specification runs them in scenes of their own: scene says   *)
(* which of them moves, and the others stay in their initial states.         *)
(*   store   InvoiceFiles: one caller, a store that puts an object at once   *)
(*   local   InvoiceFiles: one caller, the local store                       *)
(*   slow    InvoiceMail: one row, locks that may be outlived                *)
(*   timely  InvoiceMail: one row, locks that are kept to                    *)
(*   batch   InvoiceMail: any rows and one dispatcher, locks kept to         *)
(*   queue   EmissionQueue: locks that may be outlived                       *)
(*   drains  EmissionQueue: locks that are kept to                           *)
(*   worker  EmissionWorker: the jobs of one tenant                          *)
(* The constants and variables of EmissionQueue itself are those of queue.   *)
EXTENDS EmissionQueue

CONSTANTS
    Keys, Contents, Callers, Saver,                     \* InvoiceFiles
    Notes, Note, MailDispatchers, Publisher, Workers,   \* InvoiceMail
    MailTries, MaxMailFaults, MaxBatchFaults,
    Jobs, Threshold, Cooldown, Rate, Burst, MaxTime     \* EmissionWorker

VARIABLES scene,
    object, meta, row, call,
    status, lockedBy, task, tries, sendable, mdisp, work, mailed, mfaults,
    now, circuit, bucket, pc, probe, debt, watch

Store == INSTANCE InvoiceFiles WITH LocalStore <- FALSE
Local == INSTANCE InvoiceFiles WITH LocalStore <- TRUE

Late == INSTANCE InvoiceMail WITH
    Dispatchers <- MailDispatchers, SlowDispatch <- TRUE, SlowDelivery <- TRUE,
    MaxTries <- MailTries, MaxFaults <- MaxMailFaults, disp <- mdisp, faults <- mfaults
Timely == INSTANCE InvoiceMail WITH
    Dispatchers <- MailDispatchers, SlowDispatch <- FALSE, SlowDelivery <- FALSE,
    MaxTries <- MailTries, MaxFaults <- MaxMailFaults, disp <- mdisp, faults <- mfaults

Drains == INSTANCE EmissionQueue WITH Slow <- FALSE
Worker == INSTANCE EmissionWorker

ASSUME DeliveryAssumption ==
    /\ Store!FilesAssumption /\ Local!FilesAssumption /\ Saver \in Callers
    /\ Late!MailAssumption /\ Timely!MailAssumption
    /\ Note \in Notes /\ Publisher \in MailDispatchers /\ MaxBatchFaults \in Nat
    /\ QueueAssumption /\ Worker!WorkerAssumption

files == <<object, meta, row, call>>
mails == <<status, lockedBy, task, tries, sendable, mdisp, work, mailed, mfaults>>
admission == <<now, circuit, bucket, pc, probe, debt, watch>>

\* The components a scene does not use are in their initial states.
DeliveryInit ==
    /\ scene \in {"store", "local", "slow", "timely", "batch", "queue", "drains", "worker"}
    /\ Store!Init /\ Late!Init /\ Init /\ Worker!Init

OneSaver == \A c \in Callers \ {Saver} : call'[c].pc = "idle"
OneNote == \A n \in Notes \ {Note} : status'[n] = None
OnePublisher ==
    /\ \A d \in MailDispatchers \ {Publisher} : mdisp'[d].pc = "idle"
    /\ mfaults' <= MaxBatchFaults

DeliveryNext ==
    \/ scene = "store" /\ Store!Next /\ OneSaver /\ UNCHANGED <<scene, mails, qvars, admission>>
    \/ scene = "local" /\ Local!Next /\ OneSaver /\ UNCHANGED <<scene, mails, qvars, admission>>
    \/ scene = "slow" /\ Late!Next /\ OneNote /\ UNCHANGED <<scene, files, qvars, admission>>
    \/ /\ scene \in {"timely", "batch"} /\ Timely!Next
       /\ scene = "timely" => OneNote
       /\ scene = "batch" => OnePublisher
       /\ UNCHANGED <<scene, files, qvars, admission>>
    \/ scene = "queue" /\ Next /\ UNCHANGED <<scene, files, mails, admission>>
    \/ scene = "drains" /\ Drains!Next /\ UNCHANGED <<scene, files, mails, admission>>
    \/ scene = "worker" /\ Worker!Next /\ UNCHANGED <<scene, files, mails, qvars>>

\* Cloud Scheduler starts the dispatcher again and again, Cloud Tasks tries a task
\* as long as it keeps it; the outbox dispatcher polls, River's workers take every job in the end, and
\* a direct emission ends or is reaped.
DeliverySpec ==
    /\ DeliveryInit
    /\ [][DeliveryNext]_<<scene, files, mails, qvars, admission>>
    /\ \A d \in MailDispatchers : WF_mails(scene = "timely" /\ Timely!Dispatch(d))
    /\ \A w \in Workers : WF_mails(scene = "timely" /\ Timely!Deliver(w))
    /\ \A d \in Dispatchers : WF_qvars(scene = "drains" /\ Drains!DispatchStep(d))
    /\ WF_qvars(scene = "drains" /\ Drains!JobStep)
    /\ WF_qvars(scene = "drains" /\ Drains!DirectEnds)

-----------------------------------------------------------------------------
\* Types of the components.
DeliveryTypeOK == Store!TypeOK /\ Late!TypeOK /\ TypeOK /\ Worker!TypeOK

\* The metadata never lists a document the store does not hold: the object is
\* written before its row and removed after it, wherever SaveWithStatus or
\* RemoveCreated dies.  In the local store the object may be of another digest.
RowHasObject ==
    /\ scene = "store" => Store!RowHasObject
    /\ scene = "local" => Local!RowHasKey

\* What the outbox hands to Cloud Tasks is carried until it is SENT or the queue
\* gave up on it after MailTries failed answers, even when locks are outlived and
\* marks come late; and it is mailed once while nothing fails and locks are kept.
MailHandOff ==
    /\ Late!HandOffHolds
    /\ scene # "slow" => Timely!OneMailUnlessFault

\* A dispatcher or worker that outlived its lock takes nothing back: no mail row
\* returns to the dispatchers or leaves SENT, no published request is requeued.
LateMarksTakeNothingBack == Late!NeverBack /\ PublishedStays

\* Every mail of an invoice that stays valid is sent in the end, or was tried
\* MailTries times by the queue without an answer of success; every emission
\* request reaches River, and the job it got comes to an end.
WorkDrains ==
    /\ (scene = "timely" /\ status[Note] = "PENDING")
          ~> (status[Note] = "SENT" \/ ~sendable \/ Timely!GivenUp(Note))
    /\ \A e \in Events :
          (scene = "drains" /\ event[e].status = "PENDING") ~> event[e].status = "PUBLISHED"
    /\ (scene = "drains" /\ job.state = "available")
          ~> job.state \in {"completed", "cancelled", "discarded"}

\* The half-open probes of a tenant: a cooldown apart unless one was released, one
\* at a time unless another job's late result cut in, and never waited for once
\* they ended other than by a panic; and a tenant's jobs send no more than the
\* bucket's burst beyond the rate.
AdmissionHolds ==
    /\ Worker!ProbesSpaced
    /\ [](Worker!SoleProbe /\ Worker!ProbeHasOwner /\ Worker!WindowBound)
=============================================================================
