--------------------------- MODULE EmissionQueue ---------------------------
(***************************************************************************)
(* Requested emissions of one invoice (internal/emissionqueue, outbox_repo): *)
(* a transactional outbox whose events a dispatcher turns into River jobs,  *)
(* and the job's worker, which runs ProcessEmission (module Emission has    *)
(* its steps; here it is a claim, and a settlement or a rollback).          *)
(* River is external: one job row per invoice while one is not cancelled or *)
(* discarded, retries up to MaxAttempts, the rescue of jobs whose process   *)
(* died.  Only the invoice, the claims and the job's state are kept: CUFD,  *)
(* payloads, delays and metrics are left out.                               *)
(***************************************************************************)
EXTENDS Naturals

CONSTANTS Events,       \* rows the outbox may hold
          Dispatchers, None,
          MaxAttempts,  \* River's attempts of one job
          Slow,         \* whether a dispatcher may outlive its lock
          MaxFaults     \* bound on lost calls, deaths and rollbacks

QueueAssumption ==
    /\ None \notin Dispatchers
    /\ MaxAttempts \in Nat \ {0} /\ MaxFaults \in Nat /\ Slow \in BOOLEAN

VARIABLES invoice,   \* "PENDING", "SENDING" or "SETTLED"
          event,     \* event[e].status and .by, the dispatcher that claimed it
          disp,      \* disp[d]: claimed events left, the one in hand, its outcome
          job,       \* the invoice's newest River row: state, attempts, claimed
          requested, \* events whose job insertion River confirmed or may have made
          faults

qvars == <<invoice, event, disp, job, requested, faults>>

Live == {"PENDING", "PROCESSING"}
\* River's default states of a unique job: all but cancelled and discarded.
Occupied == {"available", "running", "retryable", "scheduled", "completed"}
JobStates == Occupied \cup {"none", "cancelled", "discarded"}

NoWork == [todo |-> {}, at |-> None, outcome |-> "none"]
NoJob == [state |-> "none", attempt |-> 0, holds |-> FALSE]

Init ==
    /\ invoice = "PENDING"
    /\ event = [e \in Events |-> [status |-> "none", by |-> None]]
    /\ disp = [d \in Dispatchers |-> NoWork]
    /\ job = NoJob
    /\ requested = {}
    /\ faults = 0

Fault == faults < MaxFaults /\ faults' = faults + 1

-----------------------------------------------------------------------------
(* The outbox. *)

\* EnqueueInvoiceEmission, one transaction on the locked invoice: it repeats an
\* outstanding event and inserts a new one otherwise.
EnqueueInvoiceEmission(e) ==
    /\ invoice = "PENDING"
    /\ \A f \in Events : event[f].status \notin Live
    /\ event[e].status = "none"
    /\ event' = [event EXCEPT ![e].status = "PENDING"]
    /\ UNCHANGED <<invoice, disp, job, requested, faults>>

Idle(d) == disp[d].todo = {} /\ disp[d].at = None
Handles(d, e) == e \in disp[d].todo \/ disp[d].at = e

\* A claim is stale once its lock timeout is over; a timely dispatcher is done
\* by then, or dead.
LockStale(e) ==
    /\ event[e].status = "PROCESSING"
    /\ Slow \/ \A d \in Dispatchers : ~Handles(d, e)

ClaimableNew(e) == event[e].status = "PENDING"
Claimable(e) == event[e].status = "PENDING" \/ LockStale(e)

\* The batch is what other dispatchers have not locked (SKIP LOCKED, LIMIT).
ClaimPending(d) ==
    /\ Idle(d)
    /\ \E batch \in SUBSET {e \in Events : Claimable(e)} :
          /\ batch # {}
          /\ event' = [e \in Events |-> IF e \in batch
                                        THEN [status |-> "PROCESSING", by |-> d]
                                        ELSE event[e]]
          /\ disp' = [disp EXCEPT ![d].todo = batch]
    /\ UNCHANGED <<invoice, job, requested, faults>>

Take(d) ==
    /\ disp[d].at = None
    /\ \E e \in disp[d].todo :
          disp' = [disp EXCEPT ![d] = [todo |-> @.todo \ {e}, at |-> e, outcome |-> "none"]]
    /\ UNCHANGED <<invoice, event, job, requested, faults>>

\* River inserts a row, or finds one that occupies the invoice.
Insert == job' = IF job.state \in Occupied
                 THEN job ELSE [state |-> "available", attempt |-> 0, holds |-> FALSE]

\* RiverPublisher.Publish: Insert may fail, with or without its effect.
Publish(d) ==
    LET e == disp[d].at IN
    /\ e # None /\ disp[d].outcome = "none"
    /\ \/ /\ Insert
          /\ requested' = requested \cup {e}
          /\ disp' = [disp EXCEPT ![d].outcome = "published"]
          /\ UNCHANGED faults
       \/ /\ Fault
          /\ Insert /\ requested' = requested \cup {e}
          /\ disp' = [disp EXCEPT ![d].outcome = "failed"]
       \/ /\ Fault
          /\ UNCHANGED <<job, requested>>
          /\ disp' = [disp EXCEPT ![d].outcome = "failed"]
    /\ UNCHANGED <<invoice, event>>

\* MarkPublished and MarkFailed match the claim they were made under, and the
\* index of outstanding events allows one per invoice.
HeldOrDone(e, d) == event[e].status # "none" /\ d \in Dispatchers
StillClaimed(e, d) == event[e].status = "PROCESSING" /\ event[e].by = d

OthersDone(e) == \A f \in Events \ {e} : event[f].status \notin Live

MarkedPublished(outcome) == [status |-> IF outcome \in {"published", "failed"}
                                        THEN "PUBLISHED" ELSE "PENDING", by |-> None]
MarkedAs(outcome) == [status |-> IF outcome = "published" THEN "PUBLISHED" ELSE "PENDING",
                      by |-> None]

Mark(d) ==
    LET e == disp[d].at IN
    /\ e # None /\ disp[d].outcome # "none"
    /\ event' = IF StillClaimed(e, d) /\ OthersDone(e)
                THEN [event EXCEPT ![e] = MarkedAs(disp[d].outcome)]
                ELSE event
    /\ disp' = [disp EXCEPT ![d].at = None, ![d].outcome = "none"]
    /\ UNCHANGED <<invoice, job, requested, faults>>

\* The mark is an error of the database: the event waits for its lock to end.
MarkLost(d) ==
    /\ disp[d].at # None /\ disp[d].outcome # "none"
    /\ Fault
    /\ disp' = [disp EXCEPT ![d].at = None, ![d].outcome = "none"]
    /\ UNCHANGED <<invoice, event, job, requested>>

DispatcherDies(d) ==
    /\ ~Idle(d)
    /\ Fault
    /\ disp' = [disp EXCEPT ![d] = NoWork]
    /\ UNCHANGED <<invoice, event, job, requested>>

-----------------------------------------------------------------------------
(* The worker. *)

\* Work: ProcessEmission claims a PENDING invoice; one that another emission
\* holds snoozes the job (an attempt that does not count), a settled one
\* cancels it.
StartJob ==
    /\ job.state \in {"available", "retryable", "scheduled"}
    /\ \/ /\ invoice = "PENDING"
          /\ invoice' = "SENDING"
          /\ job' = [state |-> "running", attempt |-> job.attempt + 1, holds |-> TRUE]
       \/ /\ invoice = "SENDING"
          /\ job' = [job EXCEPT !.state = "scheduled"]
          /\ UNCHANGED invoice
       \/ /\ invoice = "SETTLED"
          /\ job' = [job EXCEPT !.state = "cancelled"]
          /\ UNCHANGED invoice
    /\ UNCHANGED <<event, disp, requested, faults>>

\* The emission ends: a verdict settles the invoice, a failure rolls it back.
EmissionEnds ==
    /\ job.holds
    /\ \/ invoice' = "SETTLED" /\ UNCHANGED faults
       \/ invoice' = "PENDING" /\ Fault
    /\ job' = [job EXCEPT !.holds = FALSE]
    /\ UNCHANGED <<event, disp, requested>>

\* River records the result only afterwards: completed for a success, cancelled
\* for a refusal by the SIAT, and for a failure a retry or, after the last
\* attempt, discarded.
AfterFailure == IF job.attempt < MaxAttempts THEN "retryable" ELSE "discarded"

RecordResult ==
    /\ job.state = "running" /\ ~job.holds
    /\ \E state \in IF invoice = "SETTLED" THEN {"completed", "cancelled"} ELSE {AfterFailure} :
          job' = [job EXCEPT !.state = state]
    /\ UNCHANGED <<invoice, event, disp, requested, faults>>

\* The worker's process dies: River rescues the job, the reaper the invoice.
WorkerDies ==
    /\ job.state = "running"
    /\ Fault
    /\ job' = [job EXCEPT !.state = AfterFailure, !.holds = FALSE]
    /\ UNCHANGED <<invoice, event, disp, requested>>

\* Emit, the synchronous emission of a request, beside the queue.
EmitDirectly ==
    /\ invoice = "PENDING" /\ invoice' = "SENDING"
    /\ UNCHANGED <<event, disp, job, requested, faults>>

\* ... and its end, or the reaper's for an emission that nobody runs.
DirectEnds ==
    /\ invoice = "SENDING" /\ ~job.holds
    /\ \/ invoice' = "SETTLED" /\ UNCHANGED faults
       \/ invoice' = "PENDING" /\ Fault
    /\ UNCHANGED <<event, disp, job, requested>>

-----------------------------------------------------------------------------
DispatchStep(d) == ClaimPending(d) \/ Take(d) \/ Publish(d) \/ Mark(d)
JobStep == StartJob \/ EmissionEnds \/ RecordResult

Next ==
    \/ \E e \in Events : EnqueueInvoiceEmission(e)
    \/ \E d \in Dispatchers : DispatchStep(d) \/ MarkLost(d) \/ DispatcherDies(d)
    \/ JobStep \/ WorkerDies
    \/ EmitDirectly \/ DirectEnds

Spec == Init /\ [][Next]_qvars

-----------------------------------------------------------------------------
TypeOK ==
    /\ invoice \in {"PENDING", "SENDING", "SETTLED"}
    /\ event \in [Events -> [status : {"none", "PENDING", "PROCESSING", "PUBLISHED"},
                             by : Dispatchers \cup {None}]]
    /\ disp \in [Dispatchers -> [todo : SUBSET Events, at : Events \cup {None},
                                 outcome : {"none", "published", "failed"}]]
    /\ job \in [state : JobStates, attempt : 0..MaxAttempts, holds : BOOLEAN]
    /\ requested \in SUBSET Events
    /\ faults \in 0..MaxFaults

\* An event counts as published only after River holds its job: dying between
\* the two calls of DispatchOnce repeats the job, it never loses it.
PublishedWasRequested ==
    \A e \in DOMAIN event : event[e].status = "PUBLISHED" => e \in requested

\* A dispatcher that outlived its lock never brings a published event back.
PublishedStays ==
    [][\A e \in DOMAIN event :
          event[e].status = "PUBLISHED" => event'[e].status = "PUBLISHED"]_qvars

\* A requested emission reaches River, and the job it got there comes to an
\* end, after any bounded number of faults.
RequestsArePublished ==
    \A e \in Events : event[e].status = "PENDING" ~> event[e].status = "PUBLISHED"

JobsEnd == job.state = "available" ~> job.state \in {"completed", "cancelled", "discarded"}
=============================================================================
