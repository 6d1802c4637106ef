--------------------------- MODULE DeliveryProofs ---------------------------
(***************************************************************************)
(* What surrounds the emission of an invoice, for any numbers of keys,      *)
(* callers, rows, dispatchers, workers, requests and jobs: the outbox never *)
(* counts as published an emission River was not asked to run; the files    *)
(* table never lists what the store does not hold; a row handed to Cloud    *)
(* Tasks is carried until it is SENT or given up, and mailed once while     *)
(* nothing fails; the circuit and the bucket of a tenant keep their bounds, *)
(* and its probes their distance.  Each                                     *)
(* component has an inductive invariant of its own, and a step of Delivery  *)
(* is a step of one component that leaves the others alone.                 *)
(***************************************************************************)
EXTENDS Delivery, Integers, TLAPS

-----------------------------------------------------------------------------
(* The outbox. *)

\* The rows and the dispatchers, as far as the argument needs them.
ShapeOK ==
    /\ event \in [Events -> [status : {"none", "PENDING", "PROCESSING", "PUBLISHED"},
                             by : Dispatchers \cup {None}]]
    /\ disp \in [Dispatchers -> [todo : SUBSET Events, at : Events \cup {None},
                                 outcome : {"none", "published", "failed"}]]

\* A dispatcher that holds the outcome "published" has handed its event to River.
HandedOver ==
    \A d \in Dispatchers : disp[d].outcome = "published" => disp[d].at \in requested

OutboxInv == ShapeOK /\ HandedOver /\ PublishedWasRequested

\* Initially the outbox is empty.
LEMMA OutboxInit == Init => OutboxInv
  BY DEF Init, OutboxInv, ShapeOK, HandedOver, PublishedWasRequested, NoWork

\* A step that leaves the outbox and its dispatchers alone, and forgets no request.
LEMMA ElsewhereStep ==
    ASSUME OutboxInv, event' = event, disp' = disp, requested' = requested
    PROVE  OutboxInv'
  BY DEF OutboxInv, ShapeOK, HandedOver, PublishedWasRequested

\* One event changes to a status other than published, or with its request made.
LEMMA EventStep ==
    ASSUME OutboxInv, NEW e \in Events,
           NEW w \in [status : {"none", "PENDING", "PROCESSING", "PUBLISHED"},
                      by : Dispatchers \cup {None}],
           event' = [event EXCEPT ![e] = w],
           requested' = requested, w.status = "PUBLISHED" => e \in requested
    PROVE  /\ event' \in [Events -> [status : {"none", "PENDING", "PROCESSING", "PUBLISHED"},
                                    by : Dispatchers \cup {None}]]
           /\ PublishedWasRequested'
  BY DEF OutboxInv, ShapeOK, PublishedWasRequested

\* One dispatcher changes, and says "published" only of a request that was made.
LEMMA DispatcherStep ==
    ASSUME OutboxInv, NEW d \in Dispatchers,
           NEW w \in [todo : SUBSET Events, at : Events \cup {None},
                      outcome : {"none", "published", "failed"}],
           disp' = [disp EXCEPT ![d] = w],
           requested \subseteq requested', w.outcome = "published" => w.at \in requested'
    PROVE  /\ disp' \in [Dispatchers -> [todo : SUBSET Events, at : Events \cup {None},
                                        outcome : {"none", "published", "failed"}]]
           /\ HandedOver'
  BY DEF OutboxInv, ShapeOK, HandedOver

\* A claimed batch is in process, by its dispatcher.
LEMMA ClaimStep ==
    ASSUME OutboxInv, NEW d \in Dispatchers, ClaimPending(d)
    PROVE  OutboxInv'
  <1>1. PICK batch \in SUBSET Events :
           /\ event' = [e \in Events |-> IF e \in batch
                                         THEN [status |-> "PROCESSING", by |-> d]
                                         ELSE event[e]]
           /\ disp' = [disp EXCEPT ![d].todo = batch]
           /\ requested' = requested
    BY DEF ClaimPending
  <1>2. ShapeOK'
    BY <1>1 DEF OutboxInv, ShapeOK
  <1>3. HandedOver'
    BY <1>1 DEF OutboxInv, ShapeOK, HandedOver
  <1>4. PublishedWasRequested'
    BY <1>1 DEF OutboxInv, ShapeOK, PublishedWasRequested
  <1> QED
    BY <1>2, <1>3, <1>4 DEF OutboxInv

\* A dispatcher takes an event in hand, or puts it down.
LEMMA HandStep ==
    ASSUME OutboxInv, NEW d \in Dispatchers,
           Take(d) \/ MarkLost(d) \/ DispatcherDies(d)
    PROVE  OutboxInv'
  <1>1. event' = event /\ requested' = requested
    BY DEF Take, MarkLost, DispatcherDies
  <1>2. PICK w : /\ w \in [todo : SUBSET Events, at : Events \cup {None},
                          outcome : {"none", "published", "failed"}]
                 /\ disp' = [disp EXCEPT ![d] = w]
                 /\ w.outcome = "none"
    <2>1. CASE Take(d)
      <3>1. PICK x \in disp[d].todo :
               disp' = [disp EXCEPT ![d] = [todo |-> disp[d].todo \ {x}, at |-> x,
                                            outcome |-> "none"]]
        BY <2>1 DEF Take
      <3>2. disp[d].todo \subseteq Events
        BY DEF OutboxInv, ShapeOK
      <3> DEFINE w == [todo |-> disp[d].todo \ {x}, at |-> x, outcome |-> "none"]
      <3>3. /\ w \in [todo : SUBSET Events, at : Events \cup {None},
                      outcome : {"none", "published", "failed"}]
            /\ disp' = [disp EXCEPT ![d] = w] /\ w.outcome = "none"
        BY <3>1, <3>2
      <3> HIDE DEF w
      <3> QED
        BY <3>3
    <2>2. CASE MarkLost(d)
      <3>1. PICK w : w = [disp[d] EXCEPT !.at = None, !.outcome = "none"]
        OBVIOUS
      <3> QED
        BY <2>2, <3>1 DEF MarkLost, OutboxInv, ShapeOK
    <2>3. CASE DispatcherDies(d)
      <3>1. NoWork.outcome = "none" /\ NoWork \in [todo : SUBSET Events, at : Events \cup {None},
                                                   outcome : {"none", "published", "failed"}]
        BY DEF NoWork
      <3> QED
        BY <2>3, <3>1 DEF DispatcherDies
    <2> QED
      BY <2>1, <2>2, <2>3
  <1>3. ShapeOK' /\ HandedOver'
    BY <1>1, <1>2, DispatcherStep DEF OutboxInv, ShapeOK
  <1>4. PublishedWasRequested'
    BY <1>1 DEF OutboxInv, PublishedWasRequested
  <1> QED
    BY <1>3, <1>4 DEF OutboxInv

\* A publication counts as one only with the request made.
LEMMA PublishStep ==
    ASSUME OutboxInv, NEW d \in Dispatchers, Publish(d)
    PROVE  OutboxInv'
  <1>1. disp[d].at \in Events /\ event' = event
    BY DEF Publish, OutboxInv, ShapeOK
  <1>2. PICK o \in {"published", "failed"} :
           /\ disp' = [disp EXCEPT ![d].outcome = o]
           /\ requested' = requested \cup {disp[d].at} \/ (requested' = requested /\ o = "failed")
    BY DEF Publish
  <1>3. PICK w : w = [disp[d] EXCEPT !.outcome = o]
    OBVIOUS
  <1>4. /\ w \in [todo : SUBSET Events, at : Events \cup {None},
                  outcome : {"none", "published", "failed"}]
        /\ disp' = [disp EXCEPT ![d] = w]
        /\ w.outcome = o /\ w.at = disp[d].at
    BY <1>2, <1>3 DEF OutboxInv, ShapeOK
  <1>5. requested \subseteq requested' /\ (o = "published" => w.at \in requested')
    BY <1>2, <1>4
  <1>6. ShapeOK' /\ HandedOver'
    BY <1>1, <1>4, <1>5, DispatcherStep DEF OutboxInv, ShapeOK
  <1>7. PublishedWasRequested'
    BY <1>1, <1>5 DEF OutboxInv, PublishedWasRequested
  <1> QED
    BY <1>6, <1>7 DEF OutboxInv

\* A mark records what the dispatcher that still claims the event saw.
LEMMA MarkStep ==
    ASSUME OutboxInv, NEW d \in Dispatchers, Mark(d)
    PROVE  OutboxInv'
  <1>1. /\ disp[d].at \in Events \cup {None} /\ disp[d].at # None
        /\ disp[d].outcome = "published" => disp[d].at \in requested
        /\ requested' = requested
    BY DEF Mark, OutboxInv, ShapeOK, HandedOver
  <1>2. PICK w : w = [disp[d] EXCEPT !.at = None, !.outcome = "none"]
    OBVIOUS
  <1>3. /\ w \in [todo : SUBSET Events, at : Events \cup {None},
                  outcome : {"none", "published", "failed"}]
        /\ disp' = [disp EXCEPT ![d] = w] /\ w.outcome = "none"
    BY <1>2 DEF Mark, OutboxInv, ShapeOK
  <1>4. HandedOver' /\ disp' \in [Dispatchers -> [todo : SUBSET Events, at : Events \cup {None},
                                                 outcome : {"none", "published", "failed"}]]
    BY <1>1, <1>3, DispatcherStep
  <1>5. CASE event' = event
    BY <1>1, <1>4, <1>5 DEF OutboxInv, ShapeOK, PublishedWasRequested
  <1>6. CASE event' = [event EXCEPT ![disp[d].at] = MarkedAs(disp[d].outcome)]
    <2>1. /\ MarkedAs(disp[d].outcome) \in [status : {"PENDING", "PUBLISHED"}, by : {None}]
          /\ MarkedAs(disp[d].outcome).status = "PUBLISHED" => disp[d].outcome = "published"
      BY DEF MarkedAs
    <2>2. /\ event' \in [Events -> [status : {"none", "PENDING", "PROCESSING", "PUBLISHED"},
                                    by : Dispatchers \cup {None}]]
          /\ PublishedWasRequested'
      BY <1>1, <1>6, <2>1, EventStep
    <2> QED
      BY <1>4, <2>2 DEF OutboxInv, ShapeOK
  <1> QED
    BY <1>5, <1>6 DEF Mark

\* The invariant is inductive.
LEMMA OutboxStep == OutboxInv /\ [Next]_qvars => OutboxInv'
  <1> SUFFICES ASSUME OutboxInv, [Next]_qvars PROVE OutboxInv'
    OBVIOUS
  <1>1. ASSUME NEW e \in Events, EnqueueInvoiceEmission(e)
        PROVE  OutboxInv'
    <2>0. PICK w : w = [event[e] EXCEPT !.status = "PENDING"]
      OBVIOUS
    <2>1. /\ event' = [event EXCEPT ![e] = w] /\ w.status = "PENDING"
          /\ w \in [status : {"none", "PENDING", "PROCESSING", "PUBLISHED"},
                     by : Dispatchers \cup {None}]
          /\ disp' = disp /\ requested' = requested
      BY <1>1, <2>0 DEF EnqueueInvoiceEmission, OutboxInv, ShapeOK
    <2>2. /\ event' \in [Events -> [status : {"none", "PENDING", "PROCESSING", "PUBLISHED"},
                                    by : Dispatchers \cup {None}]]
          /\ PublishedWasRequested'
      BY <2>1, EventStep
    <2> QED
      BY <2>1, <2>2 DEF OutboxInv, ShapeOK, HandedOver
  <1>2. ASSUME NEW d \in Dispatchers, DispatchStep(d) \/ MarkLost(d) \/ DispatcherDies(d)
        PROVE  OutboxInv'
    BY <1>2, ClaimStep, HandStep, PublishStep, MarkStep DEF DispatchStep
  <1>3. CASE JobStep \/ WorkerDies \/ EmitDirectly \/ DirectEnds
    BY <1>3, ElsewhereStep
    DEF JobStep, StartJob, EmissionEnds, RecordResult, WorkerDies, EmitDirectly, DirectEnds
  <1>4. CASE UNCHANGED qvars
    BY <1>4, ElsewhereStep DEF qvars
  <1> QED
    BY <1>1, <1>2, <1>3, <1>4 DEF Next

(***************************************************************************)
(* An event counts as published only after River was asked for its job,    *)
(* wherever a dispatcher dies and however late it marks.                    *)
(***************************************************************************)
THEOREM NoPhantomPublication == Spec => []PublishedWasRequested
  <1>1. OutboxInv => PublishedWasRequested
    BY DEF OutboxInv
  <1> QED
    BY <1>1, OutboxInit, OutboxStep, PTL DEF Spec

\* What a step may do to a published event: nothing.
LEMMA PublishedKept ==
    ASSUME OutboxInv, [Next]_qvars, NEW e \in Events, event[e].status = "PUBLISHED"
    PROVE  event'[e].status = "PUBLISHED"
  <1>1. ASSUME NEW f \in Events, EnqueueInvoiceEmission(f)
        PROVE  event'[e] = event[e]
    BY <1>1 DEF EnqueueInvoiceEmission, OutboxInv, ShapeOK
  <1>2. ASSUME NEW d \in Dispatchers, ClaimPending(d)
        PROVE  event'[e] = event[e]
    <2>1. ~Claimable(e)
      BY DEF Claimable, LockStale
    <2> QED
      BY <1>2, <2>1 DEF ClaimPending
  <1>3. ASSUME NEW d \in Dispatchers, Mark(d)
        PROVE  event'[e] = event[e]
    BY <1>3 DEF Mark, StillClaimed, OutboxInv, ShapeOK
  <1>4. ASSUME NEW d \in Dispatchers, Take(d) \/ Publish(d) \/ MarkLost(d) \/ DispatcherDies(d)
        PROVE  event' = event
    BY <1>4 DEF Take, Publish, MarkLost, DispatcherDies
  <1>5. CASE JobStep \/ WorkerDies \/ EmitDirectly \/ DirectEnds \/ UNCHANGED qvars
    BY <1>5
    DEF JobStep, StartJob, EmissionEnds, RecordResult, WorkerDies, EmitDirectly, DirectEnds, qvars
  <1> QED
    BY <1>1, <1>2, <1>3, <1>4, <1>5 DEF Next, DispatchStep

(***************************************************************************)
(* A dispatcher that outlived its lock never brings a published event back. *)
(***************************************************************************)
THEOREM PublishedIsFinal == Spec => PublishedStays
  <1>1. OutboxInv /\ [Next]_qvars =>
          [\A e \in DOMAIN event :
              event[e].status = "PUBLISHED" => event'[e].status = "PUBLISHED"]_qvars
    BY PublishedKept DEF OutboxInv, ShapeOK
  <1> QED
    BY <1>1, OutboxInit, OutboxStep, PTL DEF Spec, PublishedStays
-----------------------------------------------------------------------------
(* The job of the invoice. *)

\* A job that waits to be run has attempts left.
JobInv ==
    /\ invoice \in {"PENDING", "SENDING", "SETTLED"}
    /\ job \in [state : JobStates, attempt : 0..MaxAttempts, holds : BOOLEAN]
    /\ job.state \in {"available", "retryable", "scheduled"} => job.attempt < MaxAttempts
    /\ requested \in SUBSET Events
    /\ faults \in 0..MaxFaults

\* With the shape of the outbox these are the types.
LEMMA QueueTyped == OutboxInv /\ JobInv => TypeOK
  BY DEF OutboxInv, ShapeOK, JobInv, TypeOK

\* Initially there is no job.
LEMMA JobInit ==
    ASSUME QueueAssumption, Init PROVE JobInv
  BY DEF QueueAssumption, Init, JobInv, NoJob, JobStates, Occupied

\* A fault keeps within its bound.
LEMMA FaultStep ==
    ASSUME QueueAssumption, JobInv, Fault PROVE faults' \in 0..MaxFaults
  BY DEF QueueAssumption, JobInv, Fault

\* An inserted job has every attempt left.
LEMMA InsertStep ==
    ASSUME QueueAssumption, JobInv, Insert
    PROVE  /\ job' \in [state : JobStates, attempt : 0..MaxAttempts, holds : BOOLEAN]
           /\ job'.state \in {"available", "retryable", "scheduled"}
                => job'.attempt < MaxAttempts
  BY DEF QueueAssumption, JobInv, Insert, JobStates, Occupied

\* The job is started, snoozed or cancelled.
LEMMA StartStep ==
    ASSUME QueueAssumption, JobInv, StartJob PROVE JobInv'
  <1>1. CASE job' = [state |-> "running", attempt |-> job.attempt + 1, holds |-> TRUE]
    BY <1>1 DEF QueueAssumption, JobInv, StartJob, JobStates, Occupied
  <1>2. CASE job' = [job EXCEPT !.state = "scheduled"]
    BY <1>2 DEF QueueAssumption, JobInv, StartJob, JobStates, Occupied
  <1>3. CASE job' = [job EXCEPT !.state = "cancelled"]
    BY <1>3 DEF QueueAssumption, JobInv, StartJob, JobStates, Occupied
  <1> QED
    BY <1>1, <1>2, <1>3 DEF StartJob

\* The emission ends, its result is recorded, or its process dies.
LEMMA EndStep ==
    ASSUME QueueAssumption, JobInv, EmissionEnds \/ RecordResult \/ WorkerDies
    PROVE  JobInv'
  <1>1. CASE EmissionEnds
    <2>1. /\ job' = [job EXCEPT !.holds = FALSE] /\ requested' = requested
          /\ invoice' \in {"PENDING", "SENDING", "SETTLED"}
          /\ faults' \in 0..MaxFaults
      BY <1>1, FaultStep DEF EmissionEnds, JobInv
    <2> QED
      BY <2>1 DEF JobInv
  <1>2. CASE RecordResult
    <2>1. PICK s \in {"completed", "cancelled", AfterFailure} :
             /\ job' = [job EXCEPT !.state = s] /\ UNCHANGED <<invoice, requested, faults>>
      BY <1>2 DEF RecordResult
    <2>2. s \in JobStates /\ (s = "retryable" => job.attempt < MaxAttempts)
          /\ s \notin {"available", "scheduled"}
      BY DEF AfterFailure, JobStates, Occupied
    <2> QED
      BY <2>1, <2>2 DEF JobInv
  <1>3. CASE WorkerDies
    <2>1. PICK s : s = AfterFailure
      OBVIOUS
    <2>2. s \in JobStates /\ (s = "retryable" => job.attempt < MaxAttempts)
          /\ s \notin {"available", "scheduled"}
      BY <2>1 DEF AfterFailure, JobStates, Occupied
    <2>3. PICK a : a = [job EXCEPT !.state = s]
      OBVIOUS
    <2>4. a \in [state : JobStates, attempt : 0..MaxAttempts, holds : BOOLEAN]
          /\ a.state = s /\ a.attempt = job.attempt
      BY <2>2, <2>3 DEF JobInv
    <2>5. job' = [a EXCEPT !.holds = FALSE]
      BY <1>3, <2>1, <2>3 DEF WorkerDies, JobInv
    <2>6. faults' \in 0..MaxFaults /\ UNCHANGED <<invoice, requested>>
      BY <1>3, FaultStep DEF WorkerDies
    <2> QED
      BY <2>2, <2>4, <2>5, <2>6 DEF JobInv
  <1> QED
    BY <1>1, <1>2, <1>3

\* The steps of the outbox: only a publication makes a job.
LEMMA OutboxJobStep ==
    ASSUME QueueAssumption, OutboxInv, JobInv, NEW d \in Dispatchers,
           DispatchStep(d) \/ MarkLost(d) \/ DispatcherDies(d)
    PROVE  JobInv'
  <1>1. CASE Publish(d)
    <2>1. disp[d].at \in Events /\ invoice' = invoice
      BY <1>1 DEF Publish, OutboxInv, ShapeOK
    <2>2. requested' \in SUBSET Events
      BY <1>1, <2>1 DEF Publish, JobInv
    <2>3. faults' \in 0..MaxFaults
      BY <1>1, FaultStep DEF Publish, JobInv
    <2>4. Insert \/ job' = job
      BY <1>1 DEF Publish
    <2> QED
      BY <2>1, <2>2, <2>3, <2>4, InsertStep DEF JobInv
  <1>2. CASE MarkLost(d) \/ DispatcherDies(d)
    BY <1>2, FaultStep DEF MarkLost, DispatcherDies, JobInv
  <1>3. CASE ClaimPending(d) \/ Take(d) \/ Mark(d)
    BY <1>3 DEF ClaimPending, Take, Mark, JobInv
  <1> QED
    BY <1>1, <1>2, <1>3 DEF DispatchStep

\* The job's invariant is inductive beside the outbox's.
LEMMA JobKept ==
    ASSUME QueueAssumption, OutboxInv, JobInv, [Next]_qvars PROVE JobInv'
  <1>1. CASE JobStep \/ WorkerDies
    BY <1>1, StartStep, EndStep DEF JobStep
  <1>2. CASE EmitDirectly \/ DirectEnds
    BY <1>2, FaultStep DEF EmitDirectly, DirectEnds, JobInv
  <1>3. ASSUME NEW e \in Events, EnqueueInvoiceEmission(e) PROVE JobInv'
    BY <1>3 DEF EnqueueInvoiceEmission, JobInv
  <1>4. CASE UNCHANGED qvars
    BY <1>4 DEF qvars, JobInv
  <1> QED
    BY <1>1, <1>2, <1>3, <1>4, OutboxJobStep DEF Next

\* A claim under locks that are kept to is one that any dispatcher may make.
LEMMA DrainsClaims ==
    ASSUME QueueAssumption, NEW d \in Dispatchers, Drains!ClaimPending(d)
    PROVE  ClaimPending(d)
  <1>1. ASSUME NEW e \in Events, Drains!Claimable(e) PROVE Claimable(e)
    BY <1>1 DEF Drains!Claimable, Drains!LockStale, Drains!Handles,
                Claimable, LockStale, Handles
  <1> QED
    BY <1>1 DEF Drains!ClaimPending, ClaimPending, Drains!Idle, Idle

\* A dispatcher that keeps to its lock does what a slow one may do.
LEMMA DrainsIsNext ==
    ASSUME QueueAssumption, Drains!Next PROVE Next
  <1>1. ASSUME NEW e \in Events, Drains!EnqueueInvoiceEmission(e)
        PROVE  EnqueueInvoiceEmission(e)
    BY <1>1 DEF Drains!EnqueueInvoiceEmission, EnqueueInvoiceEmission, Drains!Live, Live
  <1>2. ASSUME NEW d \in Dispatchers, Drains!Take(d) PROVE Take(d)
    BY <1>2 DEF Drains!Take, Take
  <1>3. ASSUME NEW d \in Dispatchers, Drains!Publish(d) PROVE Publish(d)
    BY <1>3 DEF Drains!Publish, Publish, Drains!Insert, Insert, Drains!Occupied, Occupied,
                Drains!Fault, Fault
  <1>4. ASSUME NEW d \in Dispatchers, Drains!Mark(d) \/ Drains!MarkLost(d)
        PROVE  Mark(d) \/ MarkLost(d)
    BY <1>4 DEF Drains!Mark, Mark, Drains!StillClaimed, StillClaimed, Drains!OthersDone,
                OthersDone, Drains!Live, Live, Drains!MarkedAs, MarkedAs, Drains!MarkLost,
                MarkLost, Drains!Fault, Fault
  <1>5. ASSUME NEW d \in Dispatchers, Drains!DispatcherDies(d) PROVE DispatcherDies(d)
    BY <1>5 DEF Drains!DispatcherDies, DispatcherDies, Drains!Idle, Idle, Drains!Fault, Fault,
                Drains!NoWork, NoWork
  <1>6. ASSUME Drains!JobStep \/ Drains!WorkerDies PROVE JobStep \/ WorkerDies
    BY <1>6 DEF Drains!JobStep, JobStep, Drains!StartJob, StartJob, Drains!EmissionEnds,
                EmissionEnds, Drains!RecordResult, RecordResult, Drains!AfterFailure, AfterFailure,
                Drains!WorkerDies, WorkerDies, Drains!Fault, Fault
  <1>7. ASSUME Drains!EmitDirectly \/ Drains!DirectEnds PROVE EmitDirectly \/ DirectEnds
    BY <1>7 DEF Drains!EmitDirectly, EmitDirectly, Drains!DirectEnds, DirectEnds, Drains!Fault,
                Fault
  <1> QED
    BY <1>1, <1>2, <1>3, <1>4, <1>5, <1>6, <1>7, DrainsClaims
    DEF Drains!Next, Drains!DispatchStep, Next, DispatchStep
-----------------------------------------------------------------------------
(* The stored documents.  Both stores have the types; what a row lists is   *)
(* argued for one caller over a store that puts an object at once.          *)

Calls == [pc : Store!PCs, key : Keys \cup {None}, sha : Contents \cup {None}]

\* Contents and keys are where they belong; a call past its first step has both.
FileTypes ==
    /\ object \in [Keys -> Contents \cup {None}]
    /\ meta \in [Keys -> Contents \cup {None}]
    /\ row \in Store!Rows \cup {Store!NoRow}
    /\ call \in [Callers -> Calls]
    /\ \A c \in Callers :
          call[c] = Store!Idle
            \/ (call[c].pc # "idle" /\ call[c].key \in Keys /\ call[c].sha \in Contents)

\* They are the types the specification states.
LEMMA FilesTyped == FileTypes => Store!TypeOK
  BY DEF FileTypes, Calls, Store!TypeOK, Store!Key, Store!Sha, Store!Rows, Store!NoRow

\* Initially nothing is stored and nobody calls.
LEMMA FilesInit == Store!Init => FileTypes
  BY DEF Store!Init, FileTypes, Calls, Store!Idle, Store!PCs

\* What a call may turn into: nothing, or the same document at another step.
Follows(c) ==
    \/ call' = [call EXCEPT ![c] = Store!Idle]
    \/ \E k \in Keys, s \in Contents, at \in Store!PCs \ {"idle"} :
          call' = [call EXCEPT ![c] = [pc |-> at, key |-> k, sha |-> s]]

\* Going to a step keeps the document.
LEMMA GotoFollows ==
    ASSUME FileTypes, NEW c \in Callers, call[c].pc # "idle",
           NEW at \in Store!PCs \ {"idle"}, Store!Goto(c, at)
    PROVE  /\ call' = [call EXCEPT ![c] = [pc |-> at, key |-> call[c].key, sha |-> call[c].sha]]
           /\ Follows(c)
  <1>1. /\ call[c] \in Calls /\ call[c].key \in Keys /\ call[c].sha \in Contents
    BY DEF FileTypes, Store!Idle
  <1>2. [call[c] EXCEPT !.pc = at] = [pc |-> at, key |-> call[c].key, sha |-> call[c].sha]
    BY <1>1 DEF Calls
  <1>3. call' = [call EXCEPT ![c] = [call[c] EXCEPT !.pc = at]]
    BY DEF Store!Goto
  <1> QED
    BY <1>1, <1>2, <1>3 DEF Follows

\* Calls that follow one another keep their types.
LEMMA CallTypes ==
    ASSUME FileTypes, NEW c \in Callers, Follows(c)
    PROVE  /\ call' \in [Callers -> Calls]
           /\ \A x \in Callers :
                 call'[x] = Store!Idle
                   \/ (call'[x].pc # "idle" /\ call'[x].key \in Keys /\ call'[x].sha \in Contents)
  <1>1. Store!Idle \in Calls
    BY DEF Store!Idle, Calls, Store!PCs
  <1>2. CASE call' = [call EXCEPT ![c] = Store!Idle]
    BY <1>1, <1>2 DEF FileTypes
  <1>3. ASSUME NEW k \in Keys, NEW s \in Contents, NEW at \in Store!PCs \ {"idle"},
               call' = [call EXCEPT ![c] = [pc |-> at, key |-> k, sha |-> s]]
        PROVE  /\ call' \in [Callers -> Calls]
               /\ \A x \in Callers :
                     call'[x] = Store!Idle
                       \/ (call'[x].pc # "idle" /\ call'[x].key \in Keys
                             /\ call'[x].sha \in Contents)
    BY <1>3 DEF FileTypes, Calls
  <1> QED
    BY <1>2, <1>3 DEF Follows
\* The local store's operators that a step of SaveWithStatus shares with the others.
LEMMA GotoIsGoto ==
    ASSUME NEW c \in Callers, NEW at
    PROVE  Local!Goto(c, at) <=> Store!Goto(c, at)
  BY DEF Local!Goto, Store!Goto

\* What the stores hold has its types when one key is written.
LEMMA WrittenTypes ==
    ASSUME FileTypes, NEW k \in Keys, NEW x \in Contents \cup {None}
    PROVE  /\ Store!Written(k, x) => object' \in [Keys -> Contents \cup {None}]
           /\ Local!Written(k, x) => object' \in [Keys -> Contents \cup {None}]
           /\ meta' = [meta EXCEPT ![k] = x] => meta' \in [Keys -> Contents \cup {None}]
  BY DEF FileTypes, Store!Written, Local!Written

\* A step of one caller, over either store.
LEMMA FileTypesStep ==
    ASSUME FileTypes, NEW c \in Callers,
           \/ Store!SaveSteps(c) \/ Store!RemoveSteps(c) \/ Store!Interrupted(c)
           \/ Local!SaveSteps(c) \/ Local!RemoveSteps(c) \/ Local!Interrupted(c)
    PROVE  /\ Follows(c) /\ FileTypes'
  <1>0. /\ call[c].pc # "idle" => call[c].key \in Keys /\ call[c].sha \in Contents
        /\ row # Store!NoRow => row.key \in Keys /\ row.sha \in Contents
        /\ {"put", "meta", "create", "undo", "stat", "find", "adopt",
             "held", "row", "object", "meta2"} = Store!PCs \ {"idle"}
    BY DEF FileTypes, Store!Idle, Store!Rows, Store!PCs
  <1> DEFINE Stored == /\ object' \in [Keys -> Contents \cup {None}]
                      /\ meta' \in [Keys -> Contents \cup {None}]
                      /\ row' \in Store!Rows \cup {Store!NoRow}
  <1>1. ASSUME NEW k \in Keys, NEW s \in Contents, Store!Save(c, k, s) \/ Local!Save(c, k, s)
        PROVE  Follows(c) /\ Stored
    BY <1>0, <1>1 DEF FileTypes, Follows, Store!Save, Local!Save
  <1>2. ASSUME Store!Put(c) \/ Local!Put(c) PROVE Follows(c) /\ Stored
    <2>1. call[c].pc # "idle" /\ UNCHANGED <<meta, row>>
      BY <1>2 DEF Store!Put, Local!Put, Store!At, Local!At
    <2>2. Follows(c)
      BY <1>0, <1>2, <2>1, GotoFollows, GotoIsGoto
      DEF Store!Put, Local!Put, Store!AfterPut, Local!AfterPut
    <2>3. Store!Written(call[c].key, call[c].sha) \/ Local!Written(call[c].key, call[c].sha)
      BY <1>2 DEF Store!Put, Local!Put, Store!Key, Local!Key, Store!Sha, Local!Sha
    <2> QED
      BY <1>0, <2>1, <2>2, <2>3, WrittenTypes DEF FileTypes
  <1>3. ASSUME Store!PutMeta(c) \/ Local!PutMeta(c) PROVE Follows(c) /\ Stored
    <2>1. call[c].pc # "idle" /\ UNCHANGED row
      BY <1>3 DEF Store!PutMeta, Local!PutMeta, Store!At, Local!At
    <2>2. \/ Store!Goto(c, "create") \/ call' = [call EXCEPT ![c] = Store!Idle]
      BY <1>3, GotoIsGoto
      DEF Store!PutMeta, Local!PutMeta, Store!Return, Local!Return, Store!Idle, Local!Idle
    <2>3. Follows(c)
      BY <1>0, <2>1, <2>2, GotoFollows DEF Follows
    <2>4. /\ object' = object \/ Store!Written(call[c].key, None)
                             \/ Local!Written(call[c].key, None)
          /\ meta' = meta \/ meta' = [meta EXCEPT ![call[c].key] = call[c].sha]
      BY <1>3 DEF Store!PutMeta, Local!PutMeta, Store!Key, Local!Key, Store!Sha, Local!Sha
    <2>5. None \in Contents \cup {None} /\ call[c].sha \in Contents \cup {None}
      BY <1>0, <2>1
    <2> QED
      BY <1>0, <2>1, <2>3, <2>4, <2>5, WrittenTypes DEF FileTypes
  <1>4. ASSUME \/ Store!PutFails(c) \/ Local!PutFails(c) \/ Store!CreateFails(c)
               \/ Local!CreateFails(c) \/ Store!Exists(c) \/ Local!Exists(c)
               \/ Store!Stat(c) \/ Local!Stat(c) \/ Store!FindFile(c) \/ Local!FindFile(c)
               \/ Store!Interrupted(c) \/ Local!Interrupted(c)
               \/ Store!Commit(c) \/ Local!Commit(c)
               \/ Store!Compensate(c) \/ Local!Compensate(c)
        PROVE  Follows(c) /\ Stored
    <2>1. call[c].pc # "idle" /\ UNCHANGED <<object, meta, row>>
      BY <1>4
      DEF Store!PutFails, Local!PutFails, Store!CreateFails, Local!CreateFails,
          Store!Exists, Local!Exists, Store!Stat, Local!Stat, Store!FindFile,
          Local!FindFile, Store!Interrupted, Local!Interrupted, Store!Commit,
          Local!Commit, Store!Compensate, Local!Compensate, Store!At, Local!At
    <2>2. \/ call' = [call EXCEPT ![c] = Store!Idle]
          \/ \E at \in Store!PCs \ {"idle"} : Store!Goto(c, at)
      BY <1>0, <1>4, GotoIsGoto
      DEF Store!PutFails, Local!PutFails, Store!CreateFails, Local!CreateFails,
          Store!Exists, Local!Exists, Store!Stat, Local!Stat, Store!FindFile,
          Local!FindFile, Store!Interrupted, Local!Interrupted, Store!Commit,
          Local!Commit, Store!Compensate, Local!Compensate, Store!Return, Local!Return,
          Store!Idle, Local!Idle
    <2>3. Follows(c)
      BY <2>1, <2>2, GotoFollows DEF Follows
    <2> QED
      BY <2>1, <2>3 DEF FileTypes
  <1>5. ASSUME Store!CreateFile(c) \/ Local!CreateFile(c) PROVE Follows(c) /\ Stored
    <2>1. /\ call[c].pc # "idle" /\ UNCHANGED <<object, meta>>
          /\ row' = [key |-> call[c].key, sha |-> call[c].sha] /\ Store!Goto(c, "held")
      BY <1>5, GotoIsGoto DEF Store!CreateFile, Local!CreateFile, Store!At, Local!At, Store!Key, Local!Key,
          Store!Sha, Local!Sha
    <2>2. Follows(c)
      BY <1>0, <2>1, GotoFollows
    <2> QED
      BY <1>0, <2>1, <2>2 DEF FileTypes, Store!Rows
  <1>6. ASSUME \/ Store!Undo(c) \/ Local!Undo(c)
               \/ Store!DeleteObject(c) \/ Local!DeleteObject(c)
        PROVE  Follows(c) /\ Stored
    <2>1. /\ call[c].pc # "idle" /\ UNCHANGED <<meta, row>>
          /\ \/ Store!Written(call[c].key, None) \/ Local!Written(call[c].key, None)
             \/ object' = object
      BY <1>6
      DEF Store!Undo, Local!Undo, Store!DeleteObject, Local!DeleteObject,
          Store!RemoveObject, Local!RemoveObject, Store!At, Local!At, Store!Key,
          Local!Key, Store!Written, Local!Written
    <2>2. call' = [call EXCEPT ![c] = Store!Idle] \/ Store!Goto(c, "meta2")
      BY <1>6, GotoIsGoto
      DEF Store!Undo, Local!Undo, Store!DeleteObject, Local!DeleteObject,
          Store!RemoveObject, Local!RemoveObject, Store!Return, Local!Return,
          Store!Idle, Local!Idle
    <2>3. Follows(c)
      BY <1>0, <2>1, <2>2, GotoFollows DEF Follows
    <2>4. None \in Contents \cup {None}
      OBVIOUS
    <2> QED
      BY <1>0, <2>1, <2>3, <2>4, WrittenTypes DEF FileTypes
  <1>7. ASSUME Store!Adopt(c) \/ Local!Adopt(c) PROVE Follows(c) /\ Stored
    <2>1. /\ call[c].pc # "idle" /\ UNCHANGED <<object, meta>>
          /\ row' = [key |-> call[c].key, sha |-> call[c].sha] \/ row' = row
          /\ call' = [call EXCEPT ![c] = Store!Idle]
      BY <1>7
      DEF Store!Adopt, Local!Adopt, Store!At, Local!At, Store!Key, Local!Key,
          Store!Sha, Local!Sha, Store!Return, Local!Return, Store!Idle, Local!Idle
    <2> QED
      BY <1>0, <2>1 DEF FileTypes, Follows, Store!Rows
  <1>8. ASSUME Store!Discard(c) \/ Local!Discard(c) PROVE Follows(c) /\ Stored
    <2>1. /\ row # Store!NoRow /\ UNCHANGED <<object, meta, row>>
          /\ call' = [call EXCEPT ![c] = [pc |-> "row", key |-> row.key, sha |-> row.sha]]
      BY <1>8 DEF Store!Discard, Local!Discard, Store!NoRow, Local!NoRow
    <2> QED
      BY <1>0, <2>1 DEF FileTypes, Follows
  <1>9. ASSUME Store!DeleteFile(c) \/ Local!DeleteFile(c) PROVE Follows(c) /\ Stored
    <2>1. /\ call[c].pc # "idle" /\ UNCHANGED <<object, meta>>
          /\ row' \in {row, Store!NoRow} /\ Store!Goto(c, "object")
      BY <1>9, GotoIsGoto
      DEF Store!DeleteFile, Local!DeleteFile, Store!At, Local!At, Store!Without,
          Local!Without, Store!NoRow, Local!NoRow
    <2>2. Follows(c)
      BY <1>0, <2>1, GotoFollows
    <2> QED
      BY <2>1, <2>2 DEF FileTypes
  <1>10. ASSUME Store!DeleteMeta(c) \/ Local!DeleteMeta(c) PROVE Follows(c) /\ Stored
    <2>1. /\ call[c].pc # "idle" /\ UNCHANGED <<object, row>>
          /\ meta' = [meta EXCEPT ![call[c].key] = None]
          /\ call' = [call EXCEPT ![c] = Store!Idle]
      BY <1>10
      DEF Store!DeleteMeta, Local!DeleteMeta, Store!At, Local!At, Store!Key, Local!Key,
          Store!Return, Local!Return, Store!Idle, Local!Idle
    <2>2. None \in Contents \cup {None}
      OBVIOUS
    <2> QED
      BY <1>0, <2>1, <2>2, WrittenTypes DEF FileTypes, Follows
  <1>11. Follows(c) /\ Stored
    BY <1>1, <1>2, <1>3, <1>4, <1>5, <1>6, <1>7, <1>8, <1>9, <1>10
    DEF Store!SaveSteps, Local!SaveSteps, Store!RemoveSteps, Local!RemoveSteps
  <1> QED
    BY <1>11, CallTypes DEF FileTypes
\* One caller over a store that puts an object at once: what it wrote or found
\* is stored, and what it is about to remove is not listed.
SaverInv ==
    /\ \A c \in Callers \ {Saver} : call[c].pc = "idle"
    /\ call[Saver].pc \notin {"meta", "meta2"}
    /\ Store!RowHasObject
    /\ row # Store!NoRow /\ call[Saver].pc \in {"create", "undo", "object"}
         => row.key # call[Saver].key
    /\ call[Saver].pc \in {"create", "find", "adopt"}
         => object[call[Saver].key] = call[Saver].sha

\* Initially nothing is listed and nobody calls.
LEMMA SaverInit == Saver \in Callers /\ Store!Init => SaverInv
  BY DEF Store!Init, SaverInv, Store!RowHasObject, Store!Idle

\* A step is the saver's: another caller's would show.
LEMMA SaverMoves ==
    ASSUME FileTypes, SaverInv, OneSaver, NEW c \in Callers,
           Store!SaveSteps(c) \/ Store!RemoveSteps(c) \/ Store!Interrupted(c)
    PROVE  c = Saver
  <1> SUFFICES ASSUME c # Saver PROVE FALSE
    OBVIOUS
  <1>1. call[c].pc = "idle" /\ call'[c].pc = "idle" /\ c \in DOMAIN call
    BY DEF SaverInv, OneSaver, FileTypes
  <1>2. ASSUME NEW k \in Keys, NEW s \in Contents, Store!Save(c, k, s) PROVE FALSE
    BY <1>1, <1>2 DEF Store!Save
  <1>3. ~Store!Discard(c)
    BY <1>1 DEF Store!Discard
  <1> QED
    BY <1>1, <1>2, <1>3
    DEF Store!SaveSteps, Store!RemoveSteps, Store!Interrupted, Store!At, Store!Put,
        Store!PutMeta, Store!PutFails, Store!CreateFile, Store!CreateFails, Store!Undo,
        Store!Exists, Store!Stat, Store!FindFile, Store!Adopt, Store!Commit,
        Store!Compensate, Store!DeleteFile, Store!DeleteObject, Store!DeleteMeta

\* Each step of the saver keeps what the files table lists stored.
LEMMA SaverStep ==
    ASSUME Store!FilesAssumption, FileTypes, SaverInv, OneSaver, Saver \in Callers,
           Store!SaveSteps(Saver) \/ Store!RemoveSteps(Saver) \/ Store!Interrupted(Saver)
    PROVE  SaverInv'
  <1> DEFINE at == call[Saver].pc
             k == call[Saver].key
             s == call[Saver].sha
  <1>0. /\ at # "idle" => k \in Keys /\ s \in Contents
        /\ row # Store!NoRow => row.key \in Keys /\ row.sha \in Contents
        /\ None \notin Keys /\ None \notin Contents /\ DOMAIN object = Keys
        /\ Saver \in DOMAIN call
    BY DEF FileTypes, Store!Idle, Store!Rows, Store!FilesAssumption
  <1>1. \A c \in Callers \ {Saver} : call'[c].pc = "idle"
    BY DEF OneSaver
  <1>2. ASSUME NEW x \in Keys, NEW y \in Contents, Store!Save(Saver, x, y)
        PROVE  SaverInv'
    <2>1. call'[Saver] = [pc |-> "put", key |-> x, sha |-> y] /\ UNCHANGED <<object, row>>
      BY <1>0, <1>2 DEF Store!Save
    <2> QED
      BY <1>1, <2>1 DEF SaverInv, Store!RowHasObject
  <1>3. ASSUME Store!Put(Saver) PROVE SaverInv'
    <2>1. /\ at = "put" /\ object[k] = None /\ object' = [object EXCEPT ![k] = s]
          /\ Store!Goto(Saver, "create") /\ row' = row
      BY <1>3 DEF Store!Put, Store!At, Store!Key, Store!Sha, Store!MayPut, Store!Written,
                  Store!AfterPut
    <2>2. call'[Saver] = [pc |-> "create", key |-> k, sha |-> s]
      BY <1>0, <2>1, GotoFollows DEF Store!PCs
    <2>3. object' = [object EXCEPT ![k] = s] /\ k \in Keys /\ s \in Contents
      BY <1>0, <2>1
    <2>4. row # Store!NoRow => row.key # k
      BY <1>0, <2>1 DEF SaverInv, Store!RowHasObject
    <2> QED
      BY <1>0, <1>1, <2>1, <2>2, <2>3, <2>4 DEF SaverInv, Store!RowHasObject
  <1>4. ASSUME Store!PutMeta(Saver) \/ Store!DeleteMeta(Saver) PROVE SaverInv'
    BY <1>4 DEF SaverInv, Store!PutMeta, Store!DeleteMeta, Store!At
  <1>5. ASSUME NEW to \in Store!PCs \ {"idle"}, Store!Goto(Saver, to), at # "idle",
               UNCHANGED <<object, row>>, to \notin {"meta", "meta2"},
               to \in {"create", "undo", "object"} /\ row # Store!NoRow => row.key # k,
               to \in {"create", "find", "adopt"} => object[k] = s
        PROVE  SaverInv'
    <2>1. call'[Saver] = [pc |-> to, key |-> k, sha |-> s]
      BY <1>0, <1>5, GotoFollows
    <2> QED
      BY <1>1, <1>5, <2>1 DEF SaverInv, Store!RowHasObject
  <1>6. ASSUME call' = [call EXCEPT ![Saver] = Store!Idle], UNCHANGED <<object, row>>
        PROVE  SaverInv'
    <2>1. call'[Saver].pc = "idle"
      BY <1>0, <1>6 DEF Store!Idle
    <2> QED
      BY <1>1, <1>6, <2>1 DEF SaverInv, Store!RowHasObject
  <1>7. ASSUME \/ Store!PutFails(Saver) \/ Store!Interrupted(Saver) \/ Store!Commit(Saver)
        PROVE  SaverInv'
    BY <1>6, <1>7 DEF Store!PutFails, Store!Interrupted, Store!Commit, Store!Return
  <1>8. ASSUME Store!CreateFails(Saver) PROVE SaverInv'
    BY <1>5, <1>8 DEF SaverInv, Store!CreateFails, Store!At, Store!PCs
  <1>9. ASSUME Store!Exists(Saver) \/ Store!Compensate(Saver) PROVE SaverInv'
    BY <1>5, <1>9 DEF Store!Exists, Store!Compensate, Store!At, Store!PCs
  <1>10. ASSUME Store!Stat(Saver) PROVE SaverInv'
    <2>1. CASE Store!SameDigest(Saver)
      <3>1. object[k] = s
        BY <2>1 DEF Store!SameDigest, Store!Digest, Store!Key, Store!Sha
      <3> QED
        BY <1>5, <1>10, <2>1, <3>1 DEF Store!Stat, Store!At, Store!PCs
    <2>2. CASE ~Store!SameDigest(Saver)
      BY <1>6, <1>10, <2>2 DEF Store!Stat, Store!Return
    <2> QED
      BY <2>1, <2>2
  <1>11. ASSUME Store!FindFile(Saver) PROVE SaverInv'
    <2>1. object[k] = s
      BY <1>11 DEF SaverInv, Store!FindFile, Store!At
    <2> QED
      BY <1>5, <1>6, <1>11, <2>1 DEF Store!FindFile, Store!At, Store!PCs, Store!Return
  <1>12. ASSUME Store!CreateFile(Saver) PROVE SaverInv'
    <2>1. /\ at = "create" /\ object' = object /\ row' = [key |-> k, sha |-> s]
          /\ Store!Goto(Saver, "held") /\ object[k] = s
      BY <1>12 DEF SaverInv, Store!CreateFile, Store!At, Store!Key, Store!Sha
    <2>2. call'[Saver].pc = "held"
      BY <1>0, <2>1, GotoFollows DEF Store!PCs
    <2> QED
      BY <1>1, <2>1, <2>2 DEF SaverInv, Store!RowHasObject
  <1>13. ASSUME Store!Adopt(Saver) PROVE SaverInv'
    <2>1. /\ object' = object /\ row' \in {row, [key |-> k, sha |-> s]} /\ object[k] = s
          /\ call'[Saver].pc = "idle"
      BY <1>0, <1>13
      DEF SaverInv, Store!Adopt, Store!At, Store!Key, Store!Sha, Store!Return, Store!Idle
    <2> QED
      BY <1>1, <2>1 DEF SaverInv, Store!RowHasObject
  <1>14. ASSUME Store!Undo(Saver) \/ Store!DeleteObject(Saver) PROVE SaverInv'
    <2>1. /\ at \in {"undo", "object"} /\ row' = row
          /\ object' \in {object, [object EXCEPT ![k] = None]}
          /\ call'[Saver].pc = "idle"
      BY <1>0, <1>14
      DEF Store!Undo, Store!DeleteObject, Store!RemoveObject, Store!At, Store!Key,
          Store!Written, Store!Return, Store!Idle
    <2>2. row # Store!NoRow => row.key # k
      BY <2>1 DEF SaverInv
    <2>3. row # Store!NoRow => object'[row.key] = object[row.key]
      BY <1>0, <2>1, <2>2
    <2> QED
      BY <1>1, <2>1, <2>3 DEF SaverInv, Store!RowHasObject
  <1>15. ASSUME Store!Discard(Saver) PROVE SaverInv'
    <2>1. call'[Saver].pc = "row" /\ UNCHANGED <<object, row>>
      BY <1>0, <1>15 DEF Store!Discard
    <2> QED
      BY <1>1, <2>1 DEF SaverInv, Store!RowHasObject
  <1>16. ASSUME Store!DeleteFile(Saver) PROVE SaverInv'
    <2>1. /\ at = "row" /\ object' = object /\ Store!Goto(Saver, "object")
          /\ row' = Store!NoRow \/ (row' = row /\ row.key # k)
      BY <1>16 DEF Store!DeleteFile, Store!At, Store!Key, Store!Without
    <2>2. call'[Saver] = [pc |-> "object", key |-> k, sha |-> s]
      BY <1>0, <2>1, GotoFollows DEF Store!PCs
    <2> QED
      BY <1>1, <2>1, <2>2 DEF SaverInv, Store!RowHasObject
  <1> QED
    BY <1>2, <1>3, <1>4, <1>7, <1>8, <1>9, <1>10, <1>11, <1>12, <1>13, <1>14, <1>15, <1>16
    DEF Store!SaveSteps, Store!RemoveSteps

\* One caller over the local store: the key of the row holds an object, and so
\* do the keys it has written or found; what it may yet remove is not listed.
LinkInv ==
    /\ \A c \in Callers \ {Saver} : call[c].pc = "idle"
    /\ Local!RowHasKey
    /\ row # Store!NoRow /\ call[Saver].pc \in {"meta", "create", "undo", "object"}
         => row.key # call[Saver].key
    /\ call[Saver].pc \in {"meta", "create", "find", "adopt"}
         => object[call[Saver].key] # None

\* Initially nothing is listed and nobody calls.
LEMMA LinkInit == Saver \in Callers /\ Store!Init => LinkInv
  BY DEF Store!Init, LinkInv, Local!RowHasKey, Store!Idle, Store!NoRow, Local!NoRow

\* A step is the saver's: another caller's would show.
LEMMA LinkMoves ==
    ASSUME FileTypes, LinkInv, OneSaver, NEW c \in Callers,
           Local!SaveSteps(c) \/ Local!RemoveSteps(c) \/ Local!Interrupted(c)
    PROVE  c = Saver
  <1> SUFFICES ASSUME c # Saver PROVE FALSE
    OBVIOUS
  <1>1. call[c].pc = "idle" /\ call'[c].pc = "idle" /\ c \in DOMAIN call
    BY DEF LinkInv, OneSaver, FileTypes
  <1>2. ASSUME NEW k \in Keys, NEW s \in Contents, Local!Save(c, k, s) PROVE FALSE
    BY <1>1, <1>2 DEF Local!Save
  <1>3. ~Local!Discard(c)
    BY <1>1 DEF Local!Discard
  <1> QED
    BY <1>1, <1>2, <1>3
    DEF Local!SaveSteps, Local!RemoveSteps, Local!Interrupted, Local!At, Local!Put,
        Local!PutMeta, Local!PutFails, Local!CreateFile, Local!CreateFails, Local!Undo,
        Local!Exists, Local!Stat, Local!FindFile, Local!Adopt, Local!Commit,
        Local!Compensate, Local!DeleteFile, Local!DeleteObject, Local!DeleteMeta

\* Each step of the saver keeps an object under the key the files table lists.
LEMMA LinkStep ==
    ASSUME Store!FilesAssumption, FileTypes, LinkInv, OneSaver, Saver \in Callers,
           Local!SaveSteps(Saver) \/ Local!RemoveSteps(Saver) \/ Local!Interrupted(Saver)
    PROVE  LinkInv'
  <1> DEFINE at == call[Saver].pc
             k == call[Saver].key
             s == call[Saver].sha
  <1>0. /\ at # "idle" => k \in Keys /\ s \in Contents
        /\ row # Store!NoRow => row.key \in Keys
        /\ None \notin Keys /\ None \notin Contents /\ DOMAIN object = Keys
        /\ Saver \in DOMAIN call /\ Local!NoRow = Store!NoRow
    BY DEF FileTypes, Store!Idle, Store!Rows, Store!FilesAssumption, Store!NoRow, Local!NoRow
  <1>1. \A c \in Callers \ {Saver} : call'[c].pc = "idle"
    BY DEF OneSaver
  <1>2. ASSUME NEW x \in Keys, NEW y \in Contents, Local!Save(Saver, x, y)
        PROVE  LinkInv'
    <2>1. call'[Saver] = [pc |-> "put", key |-> x, sha |-> y] /\ UNCHANGED <<object, row>>
      BY <1>0, <1>2 DEF Local!Save
    <2> QED
      BY <1>1, <2>1 DEF LinkInv, Local!RowHasKey
  <1>3. ASSUME NEW to \in Store!PCs \ {"idle"}, Store!Goto(Saver, to), at # "idle", row' = row,
               \/ object' = object
               \/ /\ object' \in {[object EXCEPT ![k] = s], [object EXCEPT ![k] = None]}
                  /\ row # Store!NoRow => row.key # k,
               to \in {"meta", "create", "undo", "object"} /\ row # Store!NoRow => row.key # k,
               to \in {"meta", "create", "find", "adopt"} => object'[k] # None
        PROVE  LinkInv'
    <2>1. call'[Saver] = [pc |-> to, key |-> k, sha |-> s]
      BY <1>0, <1>3, GotoFollows
    <2>2. Local!RowHasKey'
      BY <1>0, <1>3 DEF LinkInv, Local!RowHasKey
    <2> QED
      BY <1>1, <1>3, <2>1, <2>2 DEF LinkInv
  <1>4. ASSUME call' = [call EXCEPT ![Saver] = Store!Idle], row' = row,
               \/ object' = object
               \/ /\ at # "idle" /\ object' = [object EXCEPT ![k] = None]
                  /\ row # Store!NoRow => row.key # k
        PROVE  LinkInv'
    <2>1. call'[Saver].pc = "idle"
      BY <1>0, <1>4 DEF Store!Idle
    <2>2. Local!RowHasKey'
      BY <1>0, <1>4 DEF LinkInv, Local!RowHasKey
    <2> QED
      BY <1>1, <2>1, <2>2 DEF LinkInv
  <1>5. ASSUME Local!Put(Saver) PROVE LinkInv'
    <2>1. /\ at = "put" /\ object[k] = None /\ object' = [object EXCEPT ![k] = s]
          /\ Store!Goto(Saver, "meta") /\ row' = row
      BY <1>5, GotoIsGoto
      DEF Local!Put, Local!At, Local!Key, Local!Sha, Local!MayPut, Local!Written, Local!AfterPut
    <2>2. row # Store!NoRow => row.key # k
      BY <1>0, <2>1 DEF LinkInv, Local!RowHasKey
    <2>3. object'[k] # None
      BY <1>0, <2>1
    <2> QED
      BY <1>3, <2>1, <2>2, <2>3 DEF Store!PCs
  <1>6. ASSUME Local!PutMeta(Saver) PROVE LinkInv'
    <2>1. /\ at = "meta" /\ row' = row
          /\ \/ Store!Goto(Saver, "create") /\ object' = object
             \/ /\ object' = [object EXCEPT ![k] = None]
                /\ call' = [call EXCEPT ![Saver] = Store!Idle]
      BY <1>6, GotoIsGoto
      DEF Local!PutMeta, Local!At, Local!Key, Local!Written, Local!Return, Local!Idle, Store!Idle
    <2>2. (row # Store!NoRow => row.key # k) /\ object[k] # None
      BY <2>1 DEF LinkInv
    <2> QED
      BY <1>3, <1>4, <2>1, <2>2 DEF Store!PCs
  <1>7. ASSUME \/ Local!PutFails(Saver) \/ Local!Interrupted(Saver) \/ Local!Commit(Saver)
               \/ Local!DeleteMeta(Saver)
        PROVE  LinkInv'
    BY <1>4, <1>7 DEF Local!PutFails, Local!Interrupted, Local!Commit, Local!DeleteMeta,
                      Local!Return, Local!Idle, Store!Idle
  <1>8. ASSUME \/ Local!CreateFails(Saver) \/ Local!Exists(Saver) \/ Local!Compensate(Saver)
        PROVE  LinkInv'
    <2>1. PICK to \in {"undo", "stat", "row"} :
             /\ Store!Goto(Saver, to) /\ at # "idle" /\ UNCHANGED <<object, row>>
             /\ to = "undo" => at = "create"
      BY <1>8, GotoIsGoto DEF Local!CreateFails, Local!Exists, Local!Compensate, Local!At
    <2>2. to = "undo" /\ row # Store!NoRow => row.key # k
      BY <2>1 DEF LinkInv
    <2> QED
      BY <1>3, <2>1, <2>2 DEF Store!PCs
  <1>9. ASSUME Local!Stat(Saver) \/ Local!FindFile(Saver) PROVE LinkInv'
    <2>1. /\ at # "idle" /\ UNCHANGED <<object, row>>
          /\ \/ call' = [call EXCEPT ![Saver] = Store!Idle]
             \/ /\ Store!Goto(Saver, "find") \/ Store!Goto(Saver, "adopt")
                /\ object[k] # None
      BY <1>9, GotoIsGoto
      DEF LinkInv, Local!Stat, Local!FindFile, Local!SameDigest, Local!At, Local!Key,
          Local!Return, Local!Idle, Store!Idle
    <2> QED
      BY <1>3, <1>4, <2>1 DEF Store!PCs
  <1>10. ASSUME Local!CreateFile(Saver) \/ Local!Adopt(Saver) PROVE LinkInv'
    <2>1. /\ at \in {"create", "adopt"} /\ object' = object
          /\ row' \in {row, [key |-> k, sha |-> s]}
          /\ Store!Goto(Saver, "held") \/ call' = [call EXCEPT ![Saver] = Store!Idle]
      BY <1>10, GotoIsGoto
      DEF Local!CreateFile, Local!Adopt, Local!At, Local!Key, Local!Sha, Local!Return,
          Local!Idle, Store!Idle
    <2>2. call'[Saver].pc \in {"held", "idle"}
      BY <1>0, <2>1, GotoFollows DEF Store!PCs, Store!Idle
    <2>3. object[k] # None
      BY <2>1 DEF LinkInv
    <2> QED
      BY <1>0, <1>1, <2>1, <2>2, <2>3 DEF LinkInv, Local!RowHasKey
  <1>11. ASSUME Local!Undo(Saver) \/ Local!DeleteObject(Saver) PROVE LinkInv'
    <2>1. /\ at \in {"undo", "object"} /\ row' = row
          /\ \/ object' = [object EXCEPT ![k] = None] /\ Store!Goto(Saver, "meta2")
             \/ object' = object /\ call' = [call EXCEPT ![Saver] = Store!Idle]
      BY <1>11, GotoIsGoto
      DEF Local!Undo, Local!DeleteObject, Local!RemoveObject, Local!At, Local!Key,
          Local!Written, Local!Return, Local!Idle, Store!Idle
    <2>2. row # Store!NoRow => row.key # k
      BY <2>1 DEF LinkInv
    <2> QED
      BY <1>3, <1>4, <2>1, <2>2 DEF Store!PCs
  <1>12. ASSUME Local!Discard(Saver) PROVE LinkInv'
    <2>1. call'[Saver].pc = "row" /\ UNCHANGED <<object, row>>
      BY <1>0, <1>12 DEF Local!Discard
    <2> QED
      BY <1>1, <2>1 DEF LinkInv, Local!RowHasKey
  <1>13. ASSUME Local!DeleteFile(Saver) PROVE LinkInv'
    <2>1. /\ at = "row" /\ object' = object /\ Store!Goto(Saver, "object")
          /\ row' = Store!NoRow \/ (row' = row /\ row.key # k)
      BY <1>0, <1>13, GotoIsGoto DEF Local!DeleteFile, Local!At, Local!Key, Local!Without
    <2>2. call'[Saver] = [pc |-> "object", key |-> k, sha |-> s]
      BY <1>0, <2>1, GotoFollows DEF Store!PCs
    <2> QED
      BY <1>0, <1>1, <2>1, <2>2 DEF LinkInv, Local!RowHasKey
  <1> QED
    BY <1>2, <1>5, <1>6, <1>7, <1>8, <1>9, <1>10, <1>11, <1>12, <1>13
    DEF Local!SaveSteps, Local!RemoveSteps
-----------------------------------------------------------------------------
(* The mails.  What keeps to its locks does what a slow one may do, so types *)
(* and hand-off are argued for Late.                                         *)

\* A batch holds a row at the steps that mark it, a delivery until it ends.
MailTypes ==
    /\ status \in [Notes -> Late!Statuses \cup {None}]
    /\ lockedBy \in [Notes -> MailDispatchers \cup Workers \cup {None}]
    /\ task \in [Notes -> {None, "live", "done", "dropped"}]
    /\ tries \in [Notes -> 0 .. MailTries]
    /\ sendable \in BOOLEAN
    /\ mdisp \in [MailDispatchers -> [pc : {"idle", "next", "enqueued", "failed"},
                                      left : SUBSET Notes, cur : Notes \cup {None}]]
    /\ \A d \in MailDispatchers :
          mdisp[d].pc \in {"enqueued", "failed"} <=> mdisp[d].cur \in Notes
    /\ work \in [Workers -> [pc : {"idle", "claimed", "ready", "sent", "failed"},
                             cur : Notes \cup {None}]]
    /\ \A w \in Workers : work[w].pc # "idle" <=> work[w].cur \in Notes
    /\ mailed \in [Notes -> 0 .. 2]
    /\ mfaults \in 0 .. MaxMailFaults

\* They are the types the specification states.
LEMMA MailTyped == MailTypes => Late!TypeOK
  BY DEF MailTypes, Late!TypeOK

\* The queue gives a task up with its last try, and not before.
TriesInv ==
    \A n \in Notes :
        /\ task[n] \in {None, "live"} => tries[n] < MailTries
        /\ task[n] = "dropped" => tries[n] = MailTries

\* A task is done only when its row is SENT, and is there for every row that a
\* dispatcher has published and every row handed over, until it is given up.
HandInv ==
    /\ TriesInv
    /\ \A n \in Notes : task[n] = "done" => status[n] = "SENT"
    /\ \A d \in MailDispatchers : mdisp[d].pc = "enqueued" => task[mdisp[d].cur] # None
    /\ \A n \in Notes :
          status[n] \in {"ENQUEUED", "SENDING"} => task[n] \in {"live", "dropped"}

\* It is what the run states of rows handed over.
LEMMA HandedOff == MailTypes /\ HandInv => Late!HandOffHolds
  BY DEF MailTypes, HandInv, TriesInv, Late!HandOffHolds, Late!GivenUp

\* Initially no row is queued.
LEMMA MailInit == Late!MailAssumption /\ Late!Init => MailTypes /\ HandInv
  BY DEF Late!MailAssumption, Late!Init, MailTypes, HandInv, TriesInv, Late!Resting,
         Late!Free

\* A failed answer leaves a task live or, with the last try, gives it up.
LEMMA FailedAnswer ==
    ASSUME Late!MailAssumption, MailTypes, HandInv, NEW n \in Notes, Late!Answer500(n)
    PROVE  /\ task' \in [Notes -> {None, "live", "done", "dropped"}]
           /\ tries' \in [Notes -> 0 .. MailTries] /\ TriesInv'
           /\ \A m \in Notes : task'[m] = task[m]
                 \/ (task[m] = "live" /\ task'[m] \in {"live", "dropped"})
  <1>1. CASE task[n] = "live"
    <2>1. /\ tries' = [tries EXCEPT ![n] = tries[n] + 1]
          /\ task' = [task EXCEPT ![n] = IF tries[n] + 1 >= MailTries THEN "dropped"
                                                                    ELSE task[n]]
      BY <1>1 DEF Late!Answer500
    <2>2. tries[n] \in Nat /\ tries[n] < MailTries /\ MailTries \in Nat
      BY <1>1 DEF MailTypes, HandInv, TriesInv, Late!MailAssumption
    <2>3. tries' \in [Notes -> 0 .. MailTries]
      BY <2>1, <2>2 DEF MailTypes
    <2>4. /\ \A m \in Notes \ {n} : task'[m] = task[m] /\ tries'[m] = tries[m]
          /\ tries'[n] = tries[n] + 1
          /\ task'[n] = IF tries[n] + 1 >= MailTries THEN "dropped" ELSE "live"
      BY <1>1, <2>1 DEF MailTypes
    <2>5. "live" # None /\ "dropped" # None
      BY DEF Late!MailAssumption
    <2>6. TriesInv'
      BY <2>2, <2>4, <2>5 DEF HandInv, TriesInv
    <2>7. task' \in [Notes -> {None, "live", "done", "dropped"}]
      BY <1>1, <2>1 DEF MailTypes
    <2> QED
      BY <1>1, <2>3, <2>4, <2>6, <2>7
  <1>2. CASE task[n] # "live"
    BY <1>2 DEF Late!Answer500, MailTypes, HandInv, TriesInv
  <1> QED
    BY <1>1, <1>2

\* The answer 200 ends a live task.
LEMMA GoodAnswer ==
    ASSUME Late!MailAssumption, MailTypes, HandInv, NEW n \in Notes, Late!Answer200(n)
    PROVE  /\ task' \in [Notes -> {None, "live", "done", "dropped"}]
           /\ tries' \in [Notes -> 0 .. MailTries] /\ TriesInv'
           /\ \A m \in Notes : task'[m] = task[m]
                 \/ (m = n /\ task[m] = "live" /\ task'[m] = "done")
  <1>1. /\ tries' = tries
        /\ task' = [task EXCEPT ![n] = IF task[n] = "live" THEN "done" ELSE task[n]]
    BY DEF Late!Answer200
  <1>2. "done" # None
    BY DEF Late!MailAssumption
  <1>3. \A m \in Notes : task'[m] = task[m]
           \/ (m = n /\ task[m] = "live" /\ task'[m] = "done")
    BY <1>1 DEF MailTypes
  <1> QED
    BY <1>1, <1>2, <1>3 DEF MailTypes, HandInv, TriesInv

\* A fault keeps within its bound.
LEMMA MailFault ==
    ASSUME MailTypes, Late!MailAssumption, Late!Faulty \/ Late!Sound
    PROVE  mfaults' \in 0 .. MaxMailFaults
  BY DEF MailTypes, Late!MailAssumption, Late!Faulty, Late!Sound

\* A batch of rows that are the dispatchers' is claimed.
LEMMA MailClaimStep ==
    ASSUME Late!MailAssumption, MailTypes, HandInv, NEW d \in MailDispatchers,
           Late!ClaimPending(d)
    PROVE  MailTypes' /\ HandInv'
  <1>1. PICK batch \in SUBSET {n \in Notes : Late!Claimable(n)} :
           /\ status' = [n \in Notes |-> IF n \in batch THEN "PUBLISHING" ELSE status[n]]
           /\ lockedBy' = [n \in Notes |-> IF n \in batch THEN d ELSE lockedBy[n]]
           /\ mdisp' = [mdisp EXCEPT ![d] = [pc |-> "next", left |-> batch, cur |-> None]]
    BY DEF Late!ClaimPending
  <1>2. UNCHANGED <<task, tries, sendable, work, mailed, mfaults>>
    BY DEF Late!ClaimPending
  <1>3. /\ batch \subseteq Notes /\ None \notin Notes
        /\ \A n \in batch : status[n] \in {"PENDING", "PUBLISHING"}
    BY DEF Late!Claimable, Late!MailAssumption
  <1>4. MailTypes'
    BY <1>1, <1>2, <1>3 DEF MailTypes, Late!Statuses
  <1>5. HandInv'
    BY <1>1, <1>2, <1>3 DEF MailTypes, HandInv, TriesInv
  <1> QED
    BY <1>4, <1>5

\* Publishing makes the task of the row in hand, or fails.
LEMMA MailPublishStep ==
    ASSUME Late!MailAssumption, MailTypes, HandInv, NEW d \in MailDispatchers,
           Late!Publish(d)
    PROVE  MailTypes' /\ HandInv'
  <1>1. PICK n \in mdisp[d].left, to \in {"enqueued", "failed"} :
           /\ mdisp' = [mdisp EXCEPT ![d] = [pc |-> to, left |-> mdisp[d].left \ {n}, cur |-> n]]
           /\ task' = [task EXCEPT ![n] = Late!TaskMade(n)] \/ (task' = task /\ to = "failed")
    BY DEF Late!Publish
  <1>2. UNCHANGED <<status, lockedBy, tries, sendable, work, mailed>>
        /\ mfaults' \in 0 .. MaxMailFaults
    BY MailFault DEF Late!Publish
  <1>3. n \in Notes /\ mdisp[d].left \ {n} \in SUBSET Notes
    BY DEF MailTypes
  <1>4. /\ task' \in [Notes -> {None, "live", "done", "dropped"}]
        /\ \A m \in Notes : task'[m] = "done" => task[m] = "done"
        /\ \A m \in Notes : task'[m] = task[m] \/ (task[m] = None /\ task'[m] = "live")
        /\ to = "enqueued" => task'[n] # None
    BY <1>1, <1>3 DEF MailTypes, Late!TaskMade, Late!MailAssumption
  <1>5. MailTypes'
    <2>1. mdisp' \in [MailDispatchers -> [pc : {"idle", "next", "enqueued", "failed"},
                                         left : SUBSET Notes, cur : Notes \cup {None}]]
      BY <1>1, <1>3 DEF MailTypes
    <2>2. \A x \in MailDispatchers :
             mdisp'[x].pc \in {"enqueued", "failed"} <=> mdisp'[x].cur \in Notes
      BY <1>1, <1>3 DEF MailTypes
    <2> QED
      BY <1>2, <1>4, <2>1, <2>2 DEF MailTypes
  <1>6. HandInv'
    <2>1. \A x \in MailDispatchers : mdisp'[x].pc = "enqueued" => task'[mdisp'[x].cur] # None
      BY <1>1, <1>3, <1>4 DEF MailTypes, HandInv
    <2>2. None # "live" /\ None # "dropped"
      BY DEF Late!MailAssumption
    <2>3. TriesInv'
      BY <1>2, <1>4, <2>2 DEF HandInv, TriesInv
    <2> QED
      BY <1>2, <1>4, <2>1, <2>2, <2>3 DEF HandInv
  <1> QED
    BY <1>5, <1>6

\* The next row of a batch, or its end.
LEMMA NextRowStep ==
    ASSUME Late!MailAssumption, MailTypes, NEW d \in MailDispatchers,
           Late!NextRow(d) \/ mdisp' = [mdisp EXCEPT ![d] = Late!Resting]
    PROVE  /\ mdisp' \in [MailDispatchers -> [pc : {"idle", "next", "enqueued", "failed"},
                                              left : SUBSET Notes, cur : Notes \cup {None}]]
           /\ \A x \in MailDispatchers :
                 mdisp'[x].pc \in {"enqueued", "failed"} <=> mdisp'[x].cur \in Notes
           /\ mdisp'[d].pc \in {"idle", "next"}
           /\ \A x \in MailDispatchers \ {d} : mdisp'[x] = mdisp[x]
  <1>1. PICK v : v = [mdisp[d] EXCEPT !.pc = "next"]
    OBVIOUS
  <1>2. v = [pc |-> "next", left |-> mdisp[d].left, cur |-> mdisp[d].cur]
    BY <1>1 DEF MailTypes
  <1>3. PICK u : u = [v EXCEPT !.cur = None]
    OBVIOUS
  <1>4. u = [pc |-> "next", left |-> mdisp[d].left, cur |-> None]
    BY <1>2, <1>3
  <1>5. u = [mdisp[d] EXCEPT !.pc = "next", !.cur = None]
    BY <1>1, <1>3
  <1>6. \/ mdisp' = [mdisp EXCEPT ![d] = [pc |-> "next", left |-> mdisp[d].left, cur |-> None]]
        \/ mdisp' = [mdisp EXCEPT ![d] = [pc |-> "idle", left |-> {}, cur |-> None]]
    BY <1>4, <1>5 DEF Late!NextRow, Late!Resting
  <1>7. None \notin Notes /\ mdisp[d].left \in SUBSET Notes
    BY DEF Late!MailAssumption, MailTypes
  <1>8. PICK r \in [pc : {"idle", "next"}, left : SUBSET Notes, cur : {None}] :
           mdisp' = [mdisp EXCEPT ![d] = r]
    BY <1>6, <1>7
  <1>9. r.pc \notin {"enqueued", "failed"} /\ r.cur = None
        /\ r \in [pc : {"idle", "next", "enqueued", "failed"}, left : SUBSET Notes,
                  cur : Notes \cup {None}]
    OBVIOUS
  <1> QED
    BY <1>7, <1>8, <1>9 DEF MailTypes

\* A mark: the row, if it is still claimed, and the next one.
LEMMA MailMarkStep ==
    ASSUME Late!MailAssumption, MailTypes, HandInv, NEW d \in MailDispatchers,
           Late!MarkEnqueued(d) \/ Late!MarkPublishFailed(d)
    PROVE  MailTypes' /\ HandInv'
  <1>1. PICK to \in {"ENQUEUED", "PENDING"} :
           /\ to = "ENQUEUED" => mdisp[d].pc = "enqueued"
           /\ mdisp[d].pc \in {"enqueued", "failed"}
           /\ \/ /\ status[mdisp[d].cur] = "PUBLISHING"
                 /\ status' = [status EXCEPT ![mdisp[d].cur] = to]
                 /\ lockedBy' = [lockedBy EXCEPT ![mdisp[d].cur] = None]
              \/ UNCHANGED <<status, lockedBy>>
    BY DEF Late!MarkEnqueued, Late!MarkPublishFailed, Late!MarkRow, Late!StillClaimed,
           Late!SetStatus
  <1>2. UNCHANGED <<task, tries, sendable, work, mailed, mfaults>> /\ Late!NextRow(d)
    BY DEF Late!MarkEnqueued, Late!MarkPublishFailed, Late!MarkRow
  <1>3. /\ mdisp[d].cur \in Notes
        /\ to = "ENQUEUED" => task[mdisp[d].cur] # None
    BY <1>1 DEF MailTypes, HandInv
  <1>4. MailTypes'
    <2>1. status' \in [Notes -> Late!Statuses \cup {None}]
      BY <1>1, <1>3 DEF MailTypes, Late!Statuses
    <2>2. lockedBy' \in [Notes -> MailDispatchers \cup Workers \cup {None}]
      BY <1>1, <1>3 DEF MailTypes
    <2> QED
      BY <1>2, <2>1, <2>2, NextRowStep DEF MailTypes
  <1>5. HandInv'
    <2>1. \A x \in MailDispatchers : mdisp'[x].pc = "enqueued" => task'[mdisp'[x].cur] # None
      BY <1>2, NextRowStep DEF HandInv
    <2>2. \A n \in Notes : task[n] = "done" => status'[n] = "SENT"
      BY <1>1, <1>3 DEF HandInv, MailTypes
    <2>3. \A n \in Notes :
             status'[n] \in {"ENQUEUED", "SENDING"} => task[n] \in {"live", "dropped"}
      BY <1>1, <1>3 DEF HandInv, MailTypes
    <2> QED
      BY <1>2, <2>1, <2>2, <2>3 DEF HandInv, TriesInv
  <1> QED
    BY <1>4, <1>5
\* A delivery that goes on, and one that ends.
LEMMA WorkStep ==
    ASSUME Late!MailAssumption, MailTypes, NEW w \in Workers,
           \/ Late!Ends(w)
           \/ \E to \in {"ready", "sent", "failed"} :
                 work[w].pc # "idle" /\ Late!Step(w, to)
           \/ \E n \in Notes : work' = [work EXCEPT ![w] = [pc |-> "claimed", cur |-> n]]
    PROVE  /\ work' \in [Workers -> [pc : {"idle", "claimed", "ready", "sent", "failed"},
                                     cur : Notes \cup {None}]]
           /\ \A x \in Workers : work'[x].pc # "idle" <=> work'[x].cur \in Notes
  <1>1. None \notin Notes
    BY DEF Late!MailAssumption
  <1>2. CASE Late!Ends(w)
    BY <1>1, <1>2 DEF MailTypes, Late!Ends, Late!Free
  <1>3. ASSUME NEW to \in {"ready", "sent", "failed"}, work[w].pc # "idle", Late!Step(w, to)
        PROVE  /\ work' \in [Workers -> [pc : {"idle", "claimed", "ready", "sent", "failed"},
                                         cur : Notes \cup {None}]]
               /\ \A x \in Workers : work'[x].pc # "idle" <=> work'[x].cur \in Notes
    BY <1>3 DEF MailTypes, Late!Step
  <1>4. ASSUME NEW n \in Notes, work' = [work EXCEPT ![w] = [pc |-> "claimed", cur |-> n]]
        PROVE  /\ work' \in [Workers -> [pc : {"idle", "claimed", "ready", "sent", "failed"},
                                         cur : Notes \cup {None}]]
               /\ \A x \in Workers : work'[x].pc # "idle" <=> work'[x].cur \in Notes
    BY <1>4 DEF MailTypes
  <1> QED
    BY <1>2, <1>3, <1>4

\* A row is claimed for delivery, or its task is answered at once.
LEMMA MailDeliverStep ==
    ASSUME Late!MailAssumption, MailTypes, HandInv, NEW w \in Workers, NEW n \in Notes,
           Late!ClaimDelivery(w, n) \/ Late!NotClaimed(w, n)
    PROVE  MailTypes' /\ HandInv'
  <1>1. CASE Late!ClaimDelivery(w, n)
    <2>1. /\ task[n] = "live" /\ status' = [status EXCEPT ![n] = "SENDING"]
          /\ status[n] \in {"ENQUEUED", "SENDING"}
          /\ lockedBy' = [lockedBy EXCEPT ![n] = w]
          /\ work' = [work EXCEPT ![w] = [pc |-> "claimed", cur |-> n]]
          /\ UNCHANGED <<task, tries, sendable, mdisp, mailed, mfaults>>
      BY <1>1 DEF Late!ClaimDelivery, Late!SetStatus, Late!Deliverable
    <2>2. MailTypes'
      BY <2>1, WorkStep DEF MailTypes, Late!Statuses
    <2>3. HandInv'
      BY <2>1 DEF MailTypes, HandInv, TriesInv
    <2> QED
      BY <2>2, <2>3
  <1>2. CASE Late!NotClaimed(w, n)
    <2>1. /\ UNCHANGED <<status, lockedBy, sendable, mdisp, work, mailed>>
          /\ (status[n] = "SENT" /\ Late!Answer200(n)) \/ Late!Answer500(n)
      BY <1>2 DEF Late!NotClaimed
    <2>2. mfaults' \in 0 .. MaxMailFaults
      BY <1>2, MailFault DEF Late!NotClaimed
    <2>3. "done" # None /\ "live" # None /\ "dropped" # None
      BY DEF Late!MailAssumption
    <2>4. MailTypes'
      BY <2>1, <2>2, FailedAnswer, GoodAnswer DEF MailTypes
    <2>5. HandInv'
      <3>1. /\ TriesInv'
            /\ \A m \in Notes :
                  \/ task'[m] = task[m]
                  \/ task[m] = "live" /\ task'[m] \in {"live", "dropped"}
                  \/ status[m] = "SENT" /\ task[m] = "live" /\ task'[m] = "done"
        BY <2>1, FailedAnswer, GoodAnswer
      <3>2. \A d \in MailDispatchers : mdisp[d].pc = "enqueued" => mdisp[d].cur \in Notes
        BY DEF MailTypes
      <3> QED
        BY <2>1, <2>3, <3>1, <3>2 DEF HandInv
    <2> QED
      BY <2>4, <2>5
  <1> QED
    BY <1>1, <1>2

\* A delivery reads the invoice and sends the mail.
LEMMA MailSendStep ==
    ASSUME Late!MailAssumption, MailTypes, HandInv, NEW w \in Workers,
           Late!ReadInvoice(w) \/ Late!SendMail(w)
    PROVE  MailTypes' /\ HandInv'
  <1>1. PICK to \in {"ready", "sent", "failed"} : work[w].pc # "idle" /\ Late!Step(w, to)
    BY DEF Late!ReadInvoice, Late!SendMail
  <1>2. UNCHANGED <<status, lockedBy, task, tries, sendable, mdisp>>
        /\ mfaults' \in 0 .. MaxMailFaults
    BY MailFault DEF Late!ReadInvoice, Late!SendMail
  <1>3. work[w].cur \in Notes
    BY <1>1 DEF MailTypes
  <1>4. mailed' \in [Notes -> 0 .. 2]
    <2>1. PICK k : k = Late!More(mailed[work[w].cur])
      OBVIOUS
    <2>2. k \in 0 .. 2
      BY <1>3, <2>1 DEF MailTypes, Late!More
    <2>3. mailed' = mailed \/ mailed' = [mailed EXCEPT ![work[w].cur] = k]
      BY <2>1 DEF Late!ReadInvoice, Late!SendMail
    <2> QED
      BY <1>3, <2>2, <2>3 DEF MailTypes
  <1>5. MailTypes'
    BY <1>1, <1>2, <1>4, WorkStep DEF MailTypes
  <1> QED
    BY <1>2, <1>5 DEF HandInv, TriesInv

\* A delivery marks its row, which another may have taken meanwhile, or dies.
LEMMA MailEndStep ==
    ASSUME Late!MailAssumption, MailTypes, HandInv, NEW w \in Workers,
           Late!MarkSent(w) \/ Late!MarkDeliveryFailed(w) \/ Late!DeliveryDies(w)
    PROVE  MailTypes' /\ HandInv'
  <1>1. /\ work[w].cur \in Notes /\ Late!Ends(w)
        /\ UNCHANGED <<sendable, mdisp, mailed>>
    <2>1. ASSUME Late!DeliveryDies(w) PROVE work[w].pc # "idle"
      BY <2>1 DEF MailTypes, Late!MailAssumption, Late!DeliveryDies, Late!Free
    <2> QED
      BY <2>1 DEF MailTypes, Late!MarkSent, Late!MarkDeliveryFailed, Late!DeliveryDies
  <1>2. mfaults' \in 0 .. MaxMailFaults
    BY MailFault DEF MailTypes, Late!MarkSent, Late!MarkDeliveryFailed, Late!DeliveryDies
  <1>3. \/ UNCHANGED <<status, lockedBy>> /\ Late!Answer500(work[w].cur)
        \/ /\ status[work[w].cur] = "SENDING"
           /\ lockedBy' = [lockedBy EXCEPT ![work[w].cur] = None]
           /\ \/ /\ status' = [status EXCEPT ![work[w].cur] = "SENT"]
                 /\ Late!Answer200(work[w].cur) \/ Late!Answer500(work[w].cur)
              \/ /\ status' = [status EXCEPT ![work[w].cur] = "ENQUEUED"]
                 /\ Late!Answer500(work[w].cur)
    BY DEF Late!MarkSent, Late!MarkDeliveryFailed, Late!DeliveryDies, Late!Markable,
           Late!SetStatus
  <1>4. /\ task' \in [Notes -> {None, "live", "done", "dropped"}]
        /\ tries' \in [Notes -> 0 .. MailTries] /\ TriesInv'
        /\ \A m \in Notes :
              \/ task'[m] = task[m]
              \/ task[m] = "live" /\ task'[m] \in {"live", "dropped"}
              \/ status'[m] = "SENT" /\ task[m] = "live" /\ task'[m] = "done"
    <2>1. CASE Late!Answer500(work[w].cur)
      BY <1>1, <2>1, FailedAnswer
    <2>2. CASE /\ status' = [status EXCEPT ![work[w].cur] = "SENT"]
               /\ Late!Answer200(work[w].cur)
      <3>1. status'[work[w].cur] = "SENT"
        BY <1>1, <2>2 DEF MailTypes
      <3> QED
        BY <1>1, <2>2, <3>1, GoodAnswer
    <2> QED
      BY <1>3, <2>1, <2>2
  <1>5. MailTypes'
    <2>1. /\ work' \in [Workers -> [pc : {"idle", "claimed", "ready", "sent", "failed"},
                                    cur : Notes \cup {None}]]
          /\ \A x \in Workers : work'[x].pc # "idle" <=> work'[x].cur \in Notes
      BY <1>1, WorkStep
    <2>2. /\ status' \in [Notes -> Late!Statuses \cup {None}]
          /\ lockedBy' \in [Notes -> MailDispatchers \cup Workers \cup {None}]
      BY <1>1, <1>3 DEF MailTypes, Late!Statuses
    <2> QED
      BY <1>1, <1>2, <1>4, <2>1, <2>2 DEF MailTypes
  <1>6. HandInv'
    <2>1. None # "done" /\ None # "live" /\ None # "dropped"
      BY DEF Late!MailAssumption
    <2>2. \A x \in Notes :
             \/ status'[x] = status[x]
             \/ status[x] = "SENDING" /\ status'[x] \in {"SENT", "ENQUEUED"}
      BY <1>1, <1>3 DEF MailTypes
    <2>3. \A x \in Notes : task'[x] = "done" => status'[x] = "SENT"
      BY <1>4, <2>2 DEF HandInv
    <2>4. \A d \in MailDispatchers : mdisp'[d].pc = "enqueued" => task'[mdisp'[d].cur] # None
      <3>1. \A d \in MailDispatchers : mdisp[d].pc = "enqueued" => mdisp[d].cur \in Notes
        BY DEF MailTypes
      <3> QED
        BY <1>1, <1>4, <2>1, <3>1 DEF HandInv
    <2>5. \A x \in Notes :
             status'[x] \in {"ENQUEUED", "SENDING"} => task'[x] \in {"live", "dropped"}
      BY <1>4, <2>2 DEF HandInv
    <2> QED
      BY <1>4, <2>3, <2>4, <2>5 DEF HandInv
  <1> QED
    BY <1>5, <1>6

\* Types and hand-off are inductive, with locks that may be outlived.
LEMMA MailStep ==
    ASSUME Late!MailAssumption, MailTypes, HandInv, Late!Next
    PROVE  MailTypes' /\ HandInv'
  <1>1. ASSUME NEW n \in Notes, Late!Queue(n) PROVE MailTypes' /\ HandInv'
    <2>1. /\ status[n] = None /\ status' = [status EXCEPT ![n] = "PENDING"]
          /\ UNCHANGED <<lockedBy, task, tries, sendable, mdisp, work, mailed, mfaults>>
      BY <1>1 DEF Late!Queue, Late!SetStatus
    <2>2. None # "SENT"
      BY DEF Late!MailAssumption
    <2> QED
      BY <2>1, <2>2 DEF MailTypes, HandInv, TriesInv, Late!Statuses
  <1>2. ASSUME Late!AnnulOrReverse PROVE MailTypes' /\ HandInv'
    BY <1>2, MailFault DEF Late!AnnulOrReverse, MailTypes, HandInv, TriesInv
  <1>3. ASSUME NEW d \in MailDispatchers, Late!DispatcherDies(d) PROVE MailTypes' /\ HandInv'
    <2>1. /\ mdisp' = [mdisp EXCEPT ![d] = Late!Resting]
          /\ UNCHANGED <<status, lockedBy, task, tries, sendable, work, mailed>>
          /\ mfaults' \in 0 .. MaxMailFaults
      BY <1>3, MailFault DEF Late!DispatcherDies
    <2>2. MailTypes'
      BY <2>1, NextRowStep DEF MailTypes
    <2>3. HandInv'
      <3>1. /\ mdisp'[d].pc \in {"idle", "next"}
            /\ \A x \in MailDispatchers \ {d} : mdisp'[x] = mdisp[x]
        BY <2>1, NextRowStep
      <3> QED
        BY <2>1, <3>1 DEF HandInv, TriesInv
    <2> QED
      BY <2>2, <2>3
  <1> QED
    BY <1>1, <1>2, <1>3, MailClaimStep, MailPublishStep, MailMarkStep, MailDeliverStep,
       MailSendStep, MailEndStep
    DEF Late!Next, Late!Dispatch, Late!Deliver
\* Who keeps to its locks claims only what a slow process may claim.
LEMMA TimelyClaims ==
    ASSUME NEW n \in Notes
    PROVE  /\ Timely!Claimable(n) => Late!Claimable(n)
           /\ Timely!Deliverable(n) => Late!Deliverable(n)
  BY DEF Timely!Claimable, Late!Claimable, Timely!PublishStale, Late!PublishStale,
          Timely!Handles, Late!Handles, Timely!Deliverable, Late!Deliverable,
          Timely!DeliveryStale, Late!DeliveryStale, Timely!Holds, Late!Holds

\* A try that comes too early for them comes too early for it as well.
LEMMA TimelyNotClaimed ==
    ASSUME NEW w \in Workers, NEW n \in Notes, Timely!NotClaimed(w, n)
    PROVE  Late!NotClaimed(w, n)
  <1>1. ~Timely!Deliverable(n) /\ status[n] # "SENDING" => ~Late!Deliverable(n)
    BY DEF Timely!Deliverable, Late!Deliverable
  <1> QED
    BY <1>1
    DEF Timely!NotClaimed, Late!NotClaimed, Timely!Answer200, Late!Answer200,
        Timely!Answer500, Late!Answer500, Timely!Free, Late!Free, Timely!Sound,
        Late!Sound, Timely!Faulty, Late!Faulty

\* The steps that keep to their locks are steps of the slow ones.
LEMMA TimelyIsLate ==
    ASSUME Timely!Next
    PROVE  Late!Next
  <1>1. ASSUME NEW n \in Notes, Timely!Queue(n) PROVE Late!Queue(n)
    BY <1>1 DEF Timely!Queue, Late!Queue, Timely!SetStatus, Late!SetStatus
  <1>2. ASSUME Timely!AnnulOrReverse PROVE Late!AnnulOrReverse
    BY <1>2 DEF Timely!AnnulOrReverse, Late!AnnulOrReverse, Timely!Faulty, Late!Faulty
  <1>3. ASSUME NEW d \in MailDispatchers, Timely!ClaimPending(d) PROVE Late!ClaimPending(d)
    BY <1>3, TimelyClaims DEF Timely!ClaimPending, Late!ClaimPending, Timely!Resting, Late!Resting
  <1>4. ASSUME NEW d \in MailDispatchers, Timely!Publish(d) PROVE Late!Publish(d)
    BY <1>4 DEF Timely!Publish, Late!Publish, Timely!TaskMade, Late!TaskMade, Timely!Sound,
          Late!Sound, Timely!Faulty, Late!Faulty
  <1>5. ASSUME NEW d \in MailDispatchers, Timely!MarkEnqueued(d) \/ Timely!MarkPublishFailed(d)
        PROVE  Late!MarkEnqueued(d) \/ Late!MarkPublishFailed(d)
    BY <1>5
    DEF Timely!MarkEnqueued, Late!MarkEnqueued, Timely!MarkPublishFailed,
          Late!MarkPublishFailed, Timely!MarkRow, Late!MarkRow, Timely!StillClaimed,
          Late!StillClaimed, Timely!SetStatus, Late!SetStatus, Timely!NextRow,
          Late!NextRow, Timely!Resting, Late!Resting
  <1>6. ASSUME NEW d \in MailDispatchers, Timely!DispatcherDies(d) PROVE Late!DispatcherDies(d)
    BY <1>6 DEF Timely!DispatcherDies, Late!DispatcherDies, Timely!Resting, Late!Resting,
          Timely!Faulty, Late!Faulty
  <1>7. ASSUME NEW w \in Workers, NEW n \in Notes, Timely!ClaimDelivery(w, n)
        PROVE  Late!ClaimDelivery(w, n)
    BY <1>7, TimelyClaims DEF Timely!ClaimDelivery, Late!ClaimDelivery, Timely!Free, Late!Free,
          Timely!SetStatus, Late!SetStatus
  <1>8. ASSUME NEW w \in Workers, Timely!ReadInvoice(w) PROVE Late!ReadInvoice(w)
    BY <1>8 DEF Timely!ReadInvoice, Late!ReadInvoice, Timely!Step, Late!Step, Timely!Sound,
          Late!Sound, Timely!Faulty, Late!Faulty
  <1>9. ASSUME NEW w \in Workers, Timely!SendMail(w) PROVE Late!SendMail(w)
    BY <1>9 DEF Timely!SendMail, Late!SendMail, Timely!Step, Late!Step, Timely!Sound,
          Late!Sound, Timely!Faulty, Late!Faulty, Timely!More, Late!More
  <1>10. ASSUME NEW w \in Workers, Timely!MarkSent(w) \/ Timely!MarkDeliveryFailed(w)
         PROVE  Late!MarkSent(w) \/ Late!MarkDeliveryFailed(w)
    BY <1>10
    DEF Timely!MarkSent, Late!MarkSent, Timely!MarkDeliveryFailed,
          Late!MarkDeliveryFailed, Timely!Markable, Late!Markable, Timely!SetStatus,
          Late!SetStatus, Timely!Answer200, Late!Answer200, Timely!Answer500,
          Late!Answer500, Timely!Ends, Late!Ends, Timely!Free, Late!Free, Timely!Sound,
          Late!Sound, Timely!Faulty, Late!Faulty
  <1>11. ASSUME NEW w \in Workers, Timely!DeliveryDies(w) PROVE Late!DeliveryDies(w)
    BY <1>11 DEF Timely!DeliveryDies, Late!DeliveryDies, Timely!Free, Late!Free, Timely!Ends,
          Late!Ends, Timely!Answer500, Late!Answer500, Timely!Faulty, Late!Faulty
  <1> QED
    BY <1>1, <1>2, <1>3, <1>4, <1>5, <1>6, <1>7, <1>8, <1>9, <1>10, <1>11, TimelyNotClaimed
    DEF Timely!Next, Late!Next, Timely!Dispatch, Late!Dispatch, Timely!Deliver,
          Late!Deliver
\* While locks are kept to, a delivery has its row to itself; while nothing
\* failed, a row that was mailed is SENT or about to be.
OneInv ==
    /\ \A w \in Workers : work[w].pc # "idle" => status[work[w].cur] = "SENDING"
    /\ \A w, v \in Workers :
          work[w].pc # "idle" /\ work[v].pc # "idle" /\ w # v => work[w].cur # work[v].cur
    /\ mfaults = 0 =>
          \A n \in Notes : mailed[n] # 0 =>
             /\ mailed[n] = 1
             /\ \/ status[n] = "SENT"
                \/ \E w \in Workers : work[w].pc = "sent" /\ work[w].cur = n

\* It is what the run states of rows mailed twice.
LEMMA OneMailed == MailTypes /\ OneInv => Timely!OneMailUnlessFault
  <1> SUFFICES ASSUME MailTypes, OneInv, mfaults = 0, NEW n \in DOMAIN status
               PROVE  mailed[n] < 2
    BY DEF Timely!OneMailUnlessFault
  <1>1. n \in Notes /\ mailed[n] \in 0 .. 2
    BY DEF MailTypes
  <1> QED
    BY <1>1 DEF OneInv

\* Initially nobody delivers and nothing was mailed.
LEMMA OneInit == Late!Init => OneInv
  BY DEF Late!Init, OneInv, Late!Free

\* A step that leaves the rows that are delivered or SENT to those who have them.
LEMMA OneElsewhere ==
    ASSUME MailTypes, OneInv, work' = work, mailed' = mailed, mfaults' = 0 => mfaults = 0,
           \A n \in Notes : status[n] \in {"SENDING", "SENT"} => status'[n] = status[n]
    PROVE  OneInv'
  BY DEF MailTypes, OneInv

\* No fault is forgotten.
LEMMA FaultsKept ==
    ASSUME MailTypes, Timely!Faulty \/ Timely!Sound
    PROVE  mfaults' = 0 => mfaults = 0
  BY DEF MailTypes, Timely!Faulty, Timely!Sound

\* The dispatchers leave them.
LEMMA OneDispatchStep ==
    ASSUME MailTypes, OneInv, NEW d \in MailDispatchers,
           Timely!Dispatch(d) \/ Timely!DispatcherDies(d)
    PROVE  OneInv'
  <1>1. CASE Timely!ClaimPending(d)
    <2>1. PICK batch \in SUBSET {n \in Notes : Timely!Claimable(n)} :
             status' = [n \in Notes |-> IF n \in batch THEN "PUBLISHING" ELSE status[n]]
      BY <1>1 DEF Timely!ClaimPending
    <2>2. \A n \in batch : status[n] \in {"PENDING", "PUBLISHING"}
      BY DEF Timely!Claimable
    <2> QED
      BY <1>1, <2>1, <2>2, OneElsewhere DEF Timely!ClaimPending
  <1>2. CASE Timely!Publish(d)
    BY <1>2, FaultsKept, OneElsewhere DEF Timely!Publish
  <1>3. CASE Timely!MarkEnqueued(d) \/ Timely!MarkPublishFailed(d)
    <2>1. /\ UNCHANGED <<work, mailed, mfaults>>
          /\ \/ status' = status
             \/ /\ status[mdisp[d].cur] = "PUBLISHING"
                /\ \E x \in {"ENQUEUED", "PENDING"} :
                      status' = [status EXCEPT ![mdisp[d].cur] = x]
      BY <1>3
      DEF Timely!MarkEnqueued, Timely!MarkPublishFailed, Timely!MarkRow,
          Timely!StillClaimed, Timely!SetStatus
    <2>2. \A n \in Notes : status[n] \in {"SENDING", "SENT"} => status'[n] = status[n]
      BY <2>1 DEF MailTypes
    <2> QED
      BY <2>1, <2>2, OneElsewhere
  <1>4. CASE Timely!DispatcherDies(d)
    BY <1>4, FaultsKept, OneElsewhere DEF Timely!DispatcherDies
  <1> QED
    BY <1>1, <1>2, <1>3, <1>4 DEF Timely!Dispatch

\* A row is claimed for delivery only when nobody has it.
LEMMA OneClaimStep ==
    ASSUME Late!MailAssumption, MailTypes, OneInv, NEW w \in Workers, NEW n \in Notes,
           Timely!ClaimDelivery(w, n)
    PROVE  OneInv'
  <1>1. /\ status' = [status EXCEPT ![n] = "SENDING"]
        /\ work' = [work EXCEPT ![w] = [pc |-> "claimed", cur |-> n]]
        /\ UNCHANGED <<mailed, mfaults>> /\ work[w].pc = "idle"
        /\ status[n] \in {"ENQUEUED", "SENDING"}
    BY DEF Timely!ClaimDelivery, Timely!SetStatus, Timely!Free, Timely!Deliverable
  <1>2. \A v \in Workers : work[v].pc # "idle" => work[v].cur # n
    <2>1. CASE status[n] = "ENQUEUED"
      BY <2>1 DEF OneInv
    <2>2. CASE status[n] = "SENDING"
      BY <2>2 DEF Timely!ClaimDelivery, Timely!Deliverable, Timely!DeliveryStale, Timely!Holds
    <2> QED
      BY <1>1, <2>1, <2>2
  <1>3. \A v \in Workers : work[v].pc # "idle" => work[v].cur \in Notes
    BY DEF MailTypes
  <1>4. \A v \in Workers \ {w} : work'[v] = work[v]
    BY <1>1 DEF MailTypes
  <1>5. work'[w].pc = "claimed" /\ work'[w].cur = n
    BY <1>1 DEF MailTypes
  <1>6. /\ status'[n] = "SENDING"
        /\ \A m \in Notes \ {n} : status'[m] = status[m]
    BY <1>1 DEF MailTypes
  <1>7. \A v \in Workers : work'[v].pc # "idle" => status'[work'[v].cur] = "SENDING"
    BY <1>2, <1>3, <1>4, <1>5, <1>6 DEF OneInv
  <1>8. \A u, v \in Workers :
           work'[u].pc # "idle" /\ work'[v].pc # "idle" /\ u # v => work'[u].cur # work'[v].cur
    BY <1>2, <1>4, <1>5 DEF OneInv
  <1>9. ASSUME mfaults' = 0, NEW m \in Notes, mailed'[m] # 0
        PROVE  /\ mailed'[m] = 1
               /\ \/ status'[m] = "SENT"
                  \/ \E v \in Workers : work'[v].pc = "sent" /\ work'[v].cur = m
    <2>1. /\ mailed[m] = 1
          /\ \/ status[m] = "SENT"
             \/ \E v \in Workers : work[v].pc = "sent" /\ work[v].cur = m
      BY <1>1, <1>9 DEF OneInv
    <2>2. CASE status[m] = "SENT"
      BY <1>1, <1>6, <2>1, <2>2
    <2>3. ASSUME NEW v \in Workers, work[v].pc = "sent" /\ work[v].cur = m
          PROVE  \E x \in Workers : work'[x].pc = "sent" /\ work'[x].cur = m
      BY <1>1, <1>4, <2>3
    <2> QED
      BY <1>1, <2>1, <2>2, <2>3
  <1> QED
    BY <1>7, <1>8, <1>9 DEF OneInv

\* A delivery that goes on to a step, and mails its row at most while none did.
LEMMA OneGoesOn ==
    ASSUME MailTypes, OneInv, NEW w \in Workers, NEW to \in {"ready", "sent", "failed"},
           work[w].pc \in {"claimed", "ready"}, Timely!Step(w, to), status' = status,
           mfaults' = 0 => mfaults = 0,
           mfaults' = 0 =>
              \/ mailed' = mailed
              \/ to = "sent" /\ mailed' = [mailed EXCEPT ![work[w].cur] = Timely!More(@)]
    PROVE  OneInv'
  <1>1. /\ \A v \in Workers : work'[v].cur = work[v].cur
        /\ \A v \in Workers : work'[v].pc = "idle" <=> work[v].pc = "idle"
        /\ \A v \in Workers \ {w} : work'[v] = work[v]
        /\ work'[w].pc = to
    BY DEF MailTypes, Timely!Step
  <1>2. work[w].cur \in Notes /\ status[work[w].cur] = "SENDING"
    BY DEF MailTypes, OneInv
  <1>3. ASSUME mfaults = 0 PROVE mailed[work[w].cur] = 0
    <2>1. \A v \in Workers : work[v].pc = "sent" => work[v].cur # work[w].cur
      BY DEF OneInv
    <2> QED
      BY <1>2, <1>3, <2>1 DEF OneInv
  <1>4. ASSUME mfaults' = 0, NEW m \in Notes, mailed'[m] # 0
        PROVE  /\ mailed'[m] = 1
               /\ \/ status'[m] = "SENT"
                  \/ \E v \in Workers : work'[v].pc = "sent" /\ work'[v].cur = m
    <2>1. mfaults = 0
      BY <1>4
    <2>2. CASE mailed'[m] = mailed[m]
      <3>1. /\ mailed[m] = 1
            /\ \/ status[m] = "SENT"
               \/ \E v \in Workers : work[v].pc = "sent" /\ work[v].cur = m
        BY <1>4, <2>1, <2>2 DEF OneInv
      <3>2. ASSUME NEW v \in Workers, work[v].pc = "sent" /\ work[v].cur = m
            PROVE  \E x \in Workers : work'[x].pc = "sent" /\ work'[x].cur = m
        BY <1>1, <3>2
      <3> QED
        BY <2>2, <3>1, <3>2
    <2>3. CASE mailed'[m] # mailed[m]
      <3>1. /\ to = "sent" /\ m = work[w].cur /\ mailed'[m] = Timely!More(mailed[m])
        BY <1>2, <1>4, <2>3 DEF MailTypes
      <3>2. mailed'[m] = 1
        BY <1>3, <2>1, <3>1 DEF Timely!More
      <3> QED
        BY <1>1, <3>1, <3>2
    <2> QED
      BY <2>2, <2>3
  <1> QED
    BY <1>1, <1>4 DEF OneInv

\* A delivery ends: it marks its row, which is still its own, or dies.
LEMMA OneEnds ==
    ASSUME Late!MailAssumption, MailTypes, OneInv, NEW w \in Workers, work[w].pc # "idle",
           Timely!Ends(w), mailed' = mailed, mfaults' = 0 => mfaults = 0,
           \/ status' = [status EXCEPT ![work[w].cur] = "SENT"]
           \/ /\ status' \in {status, [status EXCEPT ![work[w].cur] = "ENQUEUED"]}
              /\ mfaults' = 0 => work[w].pc # "sent"
    PROVE  OneInv'
  <1>1. /\ \A v \in Workers \ {w} : work'[v] = work[v]
        /\ work'[w].pc = "idle"
    BY DEF MailTypes, Timely!Ends, Timely!Free
  <1>2. /\ work[w].cur \in Notes
        /\ \A v \in Workers \ {w} : work[v].pc # "idle" => work[v].cur # work[w].cur
    BY DEF MailTypes, OneInv
  <1>3. \A m \in Notes \ {work[w].cur} : status'[m] = status[m]
    BY <1>2 DEF MailTypes
  <1>4. \A v \in Workers : work[v].pc # "idle" => work[v].cur \in Notes
    BY DEF MailTypes
  <1>5. \A v \in Workers : work'[v].pc # "idle" => status'[work'[v].cur] = "SENDING"
    BY <1>1, <1>2, <1>3, <1>4 DEF OneInv
  <1>6. \A u, v \in Workers :
           work'[u].pc # "idle" /\ work'[v].pc # "idle" /\ u # v => work'[u].cur # work'[v].cur
    BY <1>1 DEF OneInv
  <1>7. ASSUME mfaults' = 0, NEW m \in Notes, mailed'[m] # 0
        PROVE  /\ mailed'[m] = 1
               /\ \/ status'[m] = "SENT"
                  \/ \E v \in Workers : work'[v].pc = "sent" /\ work'[v].cur = m
    <2>1. /\ mailed[m] = 1
          /\ \/ status[m] = "SENT"
             \/ \E v \in Workers : work[v].pc = "sent" /\ work[v].cur = m
      BY <1>7 DEF OneInv
    <2>2. CASE m = work[w].cur
      <3>1. status[m] = "SENDING"
        BY <2>2 DEF OneInv
      <3>2. PICK v \in Workers : work[v].pc = "sent" /\ work[v].cur = m
        BY <2>1, <3>1
      <3>3. v = w /\ work[w].pc = "sent"
        BY <1>2, <2>2, <3>2
      <3>4. status' = [status EXCEPT ![work[w].cur] = "SENT"]
        BY <1>7, <3>3
      <3>5. status'[m] = "SENT"
        BY <1>2, <2>2, <3>4 DEF MailTypes
      <3> QED
        BY <2>1, <3>5
    <2>3. CASE m # work[w].cur
      <3>1. ASSUME NEW v \in Workers, work[v].pc = "sent" /\ work[v].cur = m
            PROVE  \E x \in Workers : work'[x].pc = "sent" /\ work'[x].cur = m
        BY <1>1, <2>3, <3>1
      <3> QED
        BY <1>3, <2>1, <2>3, <3>1
    <2> QED
      BY <2>2, <2>3
  <1> QED
    BY <1>5, <1>6, <1>7 DEF OneInv

\* The deliveries' steps.
LEMMA OneDeliverStep ==
    ASSUME Late!MailAssumption, MailTypes, OneInv, NEW w \in Workers,
           Timely!Deliver(w) \/ Timely!DeliveryDies(w)
    PROVE  OneInv'
  <1>1. ASSUME NEW n \in Notes, Timely!NotClaimed(w, n) PROVE OneInv'
    BY <1>1, FaultsKept, OneElsewhere DEF Timely!NotClaimed
  <1>2. CASE Timely!ReadInvoice(w)
    <2>1. PICK to \in {"ready", "failed"} : Timely!Step(w, to)
      BY <1>2 DEF Timely!ReadInvoice
    <2>2. /\ work[w].pc = "claimed" /\ UNCHANGED <<status, mailed>>
          /\ mfaults' = 0 => mfaults = 0
      BY <1>2, FaultsKept DEF Timely!ReadInvoice
    <2> QED
      BY <2>1, <2>2, OneGoesOn
  <1>3. CASE Timely!SendMail(w)
    <2>1. PICK to \in {"sent", "failed"} :
             /\ Timely!Step(w, to)
             /\ to = "failed" => Timely!Faulty
             /\ to = "sent" => mailed' = [mailed EXCEPT ![work[w].cur] = Timely!More(@)]
      BY <1>3 DEF Timely!SendMail
    <2>2. Timely!Faulty => mfaults' # 0
      BY DEF MailTypes, Timely!Faulty
    <2>3. /\ work[w].pc = "ready" /\ status' = status
          /\ mfaults' = 0 => mfaults = 0
      BY <1>3, FaultsKept DEF Timely!SendMail
    <2> QED
      BY <2>1, <2>2, <2>3, OneGoesOn
  <1>4. CASE Timely!MarkSent(w)
    <2>1. status[work[w].cur] = "SENDING"
      BY <1>4 DEF OneInv, Timely!MarkSent
    <2>2. /\ status' = [status EXCEPT ![work[w].cur] = "SENT"]
          /\ Timely!Ends(w) /\ mailed' = mailed /\ (Timely!Faulty \/ Timely!Sound)
          /\ work[w].pc # "idle"
      BY <1>4, <2>1 DEF Timely!MarkSent, Timely!Markable, Timely!SetStatus
    <2> QED
      BY <2>2, FaultsKept, OneEnds
  <1>5. CASE Timely!MarkDeliveryFailed(w)
    <2>1. /\ status' \in {status, [status EXCEPT ![work[w].cur] = "ENQUEUED"]}
          /\ Timely!Ends(w) /\ mailed' = mailed /\ mfaults' = mfaults
          /\ work[w].pc = "failed"
      BY <1>5 DEF Timely!MarkDeliveryFailed, Timely!Markable, Timely!SetStatus
    <2> QED
      BY <2>1, OneEnds
  <1>6. CASE Timely!DeliveryDies(w)
    <2>1. /\ status' = status /\ Timely!Ends(w) /\ mailed' = mailed /\ mfaults' # 0
      BY <1>6 DEF MailTypes, Timely!DeliveryDies, Timely!Faulty
    <2>2. work[w].pc # "idle"
      BY <1>6 DEF MailTypes, Late!MailAssumption, Timely!DeliveryDies, Timely!Free
    <2> QED
      BY <2>1, <2>2, OneEnds
  <1> QED
    BY <1>1, <1>2, <1>3, <1>4, <1>5, <1>6, OneClaimStep DEF Timely!Deliver

\* It is inductive while locks are kept to.
LEMMA OneStep ==
    ASSUME Late!MailAssumption, MailTypes, OneInv, Timely!Next
    PROVE  OneInv'
  <1>1. ASSUME NEW n \in Notes, Timely!Queue(n) PROVE OneInv'
    <2>1. /\ status[n] = None /\ status' = [status EXCEPT ![n] = "PENDING"]
          /\ UNCHANGED <<work, mailed, mfaults>>
      BY <1>1 DEF Timely!Queue, Timely!SetStatus
    <2>2. None \notin {"SENDING", "SENT"}
      BY DEF Late!MailAssumption
    <2>3. \A m \in Notes : status[m] \in {"SENDING", "SENT"} => status'[m] = status[m]
      BY <2>1, <2>2 DEF MailTypes
    <2> QED
      BY <2>1, <2>3, OneElsewhere
  <1>2. ASSUME Timely!AnnulOrReverse PROVE OneInv'
    BY <1>2, FaultsKept, OneElsewhere DEF Timely!AnnulOrReverse
  <1> QED
    BY <1>1, <1>2, OneDispatchStep, OneDeliverStep DEF Timely!Next
\* No step of a mail process takes a row back.
LEMMA NeverBackStep ==
    ASSUME Late!MailAssumption, MailTypes, Late!Next, NEW n \in Notes
    PROVE  /\ status[n] \in {"ENQUEUED", "SENDING", "SENT"} =>
                status'[n] \notin {"PENDING", "PUBLISHING"}
           /\ status[n] = "SENT" => status'[n] = "SENT"
  <1> DEFINE Kept == /\ status[n] \in {"ENQUEUED", "SENDING", "SENT"} =>
                          status'[n] \notin {"PENDING", "PUBLISHING"}
                     /\ status[n] = "SENT" => status'[n] = "SENT"
  <1>1. ASSUME status' = status PROVE Kept
    BY <1>1
  <1>2. ASSUME NEW m \in Notes, status[m] \in {None, "PENDING", "PUBLISHING"},
               NEW x \in Late!Statuses, status' = [status EXCEPT ![m] = x]
        PROVE  Kept
    BY <1>2 DEF MailTypes, Late!MailAssumption
  <1>3. ASSUME NEW m \in Notes, status[m] \in {"ENQUEUED", "SENDING"},
               NEW x \in {"ENQUEUED", "SENDING", "SENT"}, status' = [status EXCEPT ![m] = x]
        PROVE  Kept
    BY <1>3 DEF MailTypes
  <1>4. ASSUME NEW m \in Notes, Late!Queue(m) PROVE Kept
    BY <1>2, <1>4 DEF Late!Queue, Late!SetStatus, Late!Statuses
  <1>5. ASSUME NEW d \in MailDispatchers, Late!ClaimPending(d) PROVE Kept
    <2>1. PICK batch \in SUBSET {m \in Notes : Late!Claimable(m)} :
             status' = [m \in Notes |-> IF m \in batch THEN "PUBLISHING" ELSE status[m]]
      BY <1>5 DEF Late!ClaimPending
    <2>2. n \in batch => status[n] \in {"PENDING", "PUBLISHING"}
      BY DEF Late!Claimable
    <2> QED
      BY <2>1, <2>2
  <1>6. ASSUME NEW d \in MailDispatchers, Late!MarkEnqueued(d) \/ Late!MarkPublishFailed(d)
        PROVE  Kept
    <2>1. mdisp[d].cur \in Notes
      BY <1>6 DEF MailTypes, Late!MarkEnqueued, Late!MarkPublishFailed, Late!MarkRow
    <2> QED
      BY <1>1, <1>2, <1>6, <2>1
      DEF Late!MarkEnqueued, Late!MarkPublishFailed, Late!MarkRow, Late!StillClaimed,
          Late!SetStatus, Late!Statuses
  <1>7. ASSUME NEW w \in Workers, NEW m \in Notes, Late!ClaimDelivery(w, m) PROVE Kept
    BY <1>3, <1>7 DEF Late!ClaimDelivery, Late!Deliverable, Late!SetStatus
  <1>8. ASSUME NEW w \in Workers, Late!MarkSent(w) \/ Late!MarkDeliveryFailed(w) PROVE Kept
    <2>1. work[w].cur \in Notes
      BY <1>8 DEF MailTypes, Late!MarkSent, Late!MarkDeliveryFailed
    <2> QED
      BY <1>1, <1>3, <1>8, <2>1
      DEF Late!MarkSent, Late!MarkDeliveryFailed, Late!Markable, Late!SetStatus
  <1> QED
    BY <1>1, <1>4, <1>5, <1>6, <1>7, <1>8
    DEF Late!Next, Late!Dispatch, Late!Deliver, Late!AnnulOrReverse, Late!Publish,
        Late!DispatcherDies, Late!NotClaimed, Late!ReadInvoice, Late!SendMail,
        Late!DeliveryDies

-----------------------------------------------------------------------------
(* The admission of a tenant's jobs. *)

\* The tokens the bucket would have now.
Tokens == Worker!Smaller(Burst, bucket.tokens + (now - bucket.last) * Rate)

\* The probes: one runs at a time, and the circuit waits for it, while no other
\* job reported; the circuit does not open again before the last one's cooldown
\* has passed, unless AbortProbe released it.
ProbeInv ==
    /\ \A j \in probe : pc[j] # "waiting"
    /\ Worker!ProbeHasOwner
    /\ Worker!SoleProbe
    /\ ~watch.stray /\ probe # {} => circuit.halfOpen
    /\ watch.due <= now + Cooldown
    /\ circuit.openedUntil = 0 \/ circuit.halfOpen \/ watch.due <= circuit.openedUntil

\* What was sent beyond the rate and the tokens left make no more than a burst.
AdmissionInv ==
    /\ Worker!TypeOK
    /\ ProbeInv
    /\ bucket.last <= now
    /\ debt + Tokens <= Burst

\* It is what the run states of each state of the admission.
LEMMA Admitted ==
    Worker!WorkerAssumption /\ AdmissionInv =>
        Worker!SoleProbe /\ Worker!ProbeHasOwner /\ Worker!WindowBound
  <1> SUFFICES ASSUME Worker!WorkerAssumption, AdmissionInv
               PROVE  Worker!SoleProbe /\ Worker!ProbeHasOwner /\ Worker!WindowBound
    OBVIOUS
  <1>1. Worker!SoleProbe /\ Worker!ProbeHasOwner
    BY DEF AdmissionInv, ProbeInv
  <1>2. (now - bucket.last) * Rate \in Nat
    <2>1. now - bucket.last \in Nat /\ Rate \in Nat
      BY DEF AdmissionInv, Worker!TypeOK, Worker!WorkerAssumption
    <2> QED
      BY <2>1
  <1>3. Tokens >= 0
    <2>1. PICK g : g = (now - bucket.last) * Rate
      OBVIOUS
    <2> QED
      BY <1>2, <2>1 DEF AdmissionInv, Tokens, Worker!TypeOK, Worker!WorkerAssumption,
         Worker!Smaller
  <1>4. Tokens \in Int
    <2>1. PICK g : g = (now - bucket.last) * Rate
      OBVIOUS
    <2> QED
      BY <1>2, <2>1 DEF AdmissionInv, Tokens, Worker!TypeOK, Worker!WorkerAssumption,
         Worker!Smaller
  <1>5. Worker!WindowBound
    BY <1>3, <1>4 DEF AdmissionInv, Worker!TypeOK, Worker!WorkerAssumption, Worker!WindowBound
  <1> QED
    BY <1>1, <1>5

\* Initially the bucket is full and the circuit closed.
LEMMA AdmissionInit == Worker!WorkerAssumption /\ Worker!Init => AdmissionInv
  <1> SUFFICES ASSUME Worker!WorkerAssumption, Worker!Init PROVE AdmissionInv
    OBVIOUS
  <1>1. (now - bucket.last) * Rate = 0
    BY DEF Worker!Init, Worker!WorkerAssumption
  <1>2. Tokens = Burst
    BY <1>1 DEF Worker!Init, Worker!WorkerAssumption, Tokens, Worker!Smaller
  <1> QED
    BY <1>2
    DEF Worker!Init, Worker!WorkerAssumption, AdmissionInv, Worker!TypeOK, Worker!Closed,
        ProbeInv, Worker!ProbeHasOwner, Worker!SoleProbe

\* Time pays off what was sent beyond the rate as fast as it fills the bucket.
LEMMA TickStep ==
    ASSUME Worker!WorkerAssumption, AdmissionInv, Worker!Tick
    PROVE  AdmissionInv'
  <1>1. /\ now' = now + 1 /\ now \in Nat /\ now + 1 <= MaxTime
        /\ debt' = IF debt > Rate THEN debt - Rate ELSE 0
        /\ UNCHANGED <<circuit, bucket, pc, probe, watch>>
        /\ debt \in Nat /\ Rate \in Nat /\ Burst \in Nat /\ MaxTime \in Nat
        /\ bucket.tokens \in Nat /\ bucket.last \in Nat
    BY DEF AdmissionInv, Worker!Tick, Worker!TypeOK, Worker!WorkerAssumption
  <1>2. PICK g : g = (now - bucket.last) * Rate
    OBVIOUS
  <1>3. g \in Int
    BY <1>1, <1>2
  <1>4. (now' - bucket'.last) * Rate = g + Rate
    <2>1. ((now + 1) - bucket.last) * Rate = (now - bucket.last) * Rate + Rate
      BY <1>1
    <2> QED
      BY <1>1, <1>2, <2>1
  <1>5. Tokens' <= Tokens + Rate /\ Tokens' <= Burst /\ Tokens' \in Int /\ Tokens \in Int
    BY <1>1, <1>2, <1>3, <1>4 DEF Tokens, Worker!Smaller
  <1>6. debt' + Tokens' <= Burst
    <2>1. PICK t, u : t = Tokens /\ u = Tokens'
      OBVIOUS
    <2>2. debt + t <= Burst
      BY <2>1 DEF AdmissionInv
    <2>3. u <= t + Rate /\ u <= Burst /\ u \in Int /\ t \in Int
      BY <1>5, <2>1
    <2>4. debt' + u <= Burst
      BY <1>1, <2>2, <2>3
    <2> QED
      BY <2>1, <2>4
  <1>7. Worker!TypeOK'
    BY <1>1 DEF AdmissionInv, Worker!TypeOK
  <1>8. ProbeInv'
    <2>1. watch.due \in Nat /\ Cooldown \in Nat
      BY DEF AdmissionInv, Worker!TypeOK, Worker!WorkerAssumption
    <2> QED
      BY <1>1, <2>1 DEF AdmissionInv, ProbeInv, Worker!ProbeHasOwner, Worker!SoleProbe
  <1> QED
    BY <1>1, <1>6, <1>7, <1>8 DEF AdmissionInv

\* A step that leaves the clock, the bucket and the debt alone.
LEMMA CircuitStep ==
    ASSUME Worker!WorkerAssumption, AdmissionInv,
           UNCHANGED <<now, bucket, debt>>, Worker!TypeOK', ProbeInv'
    PROVE  AdmissionInv'
  BY DEF AdmissionInv, Tokens

\* The circuit admits a job, as the probe if it is half open.
LEMMA AllowStep ==
    ASSUME Worker!WorkerAssumption, AdmissionInv, NEW j \in Jobs, Worker!Allow(j)
    PROVE  AdmissionInv'
  <1>0. Worker!TypeOK /\ ProbeInv /\ Cooldown \in Nat
    BY DEF AdmissionInv, Worker!WorkerAssumption
  <1>1. pc' = [pc EXCEPT ![j] = "allowed"] /\ UNCHANGED <<now, bucket, debt>>
    BY DEF Worker!Allow
  <1>2. pc' \in [Jobs -> {"waiting", "allowed", "processing"}]
        /\ \A i \in Jobs : pc'[i] = IF i = j THEN "allowed" ELSE pc[i]
    BY <1>0, <1>1 DEF Worker!TypeOK
  <1>3. CASE UNCHANGED <<circuit, probe, watch>>
    <2>1. Worker!TypeOK'
      BY <1>0, <1>1, <1>2, <1>3 DEF Worker!TypeOK
    <2>2. \A i \in probe : i \in Jobs
      BY <1>0 DEF Worker!TypeOK
    <2>3. \A i \in probe : pc'[i] # "waiting"
      BY <1>0, <1>2, <2>2 DEF ProbeInv
    <2>4. ProbeInv'
      BY <1>0, <1>1, <1>3, <2>3 DEF ProbeInv, Worker!ProbeHasOwner, Worker!SoleProbe
    <2> QED
      BY <1>1, <2>1, <2>4, CircuitStep
  <1>4. CASE /\ ~circuit.halfOpen /\ circuit' = [circuit EXCEPT !.halfOpen = TRUE]
             /\ probe' = probe \cup {j}
             /\ watch' = [watch EXCEPT !.due = now + Cooldown, !.lost = FALSE]
    <2>1. /\ circuit' \in [failures : 0..Threshold, openedUntil : 0..MaxTime + Cooldown,
                            halfOpen : BOOLEAN]
          /\ circuit'.halfOpen
      BY <1>0, <1>4 DEF Worker!TypeOK
    <2>2. /\ watch' \in [due : 0..MaxTime + Cooldown, stray : BOOLEAN, lost : BOOLEAN]
          /\ watch'.due = now + Cooldown /\ watch'.stray = watch.stray
      <3>1. now + Cooldown \in 0..MaxTime + Cooldown
        BY <1>0 DEF Worker!TypeOK, Worker!WorkerAssumption
      <3> QED
        BY <1>0, <1>4, <3>1 DEF Worker!TypeOK
    <2>3. Worker!TypeOK'
      BY <1>0, <1>1, <1>2, <1>4, <2>1, <2>2 DEF Worker!TypeOK
    <2>4. \A i \in probe' : pc'[i] # "waiting"
      <3>1. \A i \in probe : i \in Jobs /\ pc[i] # "waiting"
        BY <1>0 DEF Worker!TypeOK, ProbeInv
      <3> QED
        BY <1>2, <1>4, <3>1
    <2>5. ~watch.stray => probe = {}
      BY <1>0, <1>4 DEF ProbeInv
    <2>6. Worker!SoleProbe'
      BY <1>4, <2>2, <2>5 DEF Worker!SoleProbe
    <2>7. now' = now /\ now \in Nat
      BY <1>0, <1>1 DEF Worker!TypeOK
    <2>8. watch'.due <= now' + Cooldown
      BY <1>0, <2>2, <2>7
    <2>9. ProbeInv'
      BY <1>4, <2>1, <2>4, <2>6, <2>8 DEF ProbeInv, Worker!ProbeHasOwner
    <2> QED
      BY <1>1, <2>3, <2>9, CircuitStep
  <1> QED
    BY <1>3, <1>4 DEF Worker!Allow

\* A job that leaves and told the breaker: the circuit waits for no probe.
LEMMA LeavesStep ==
    ASSUME Worker!WorkerAssumption, Worker!TypeOK, ProbeInv, NEW j \in Jobs,
           Worker!Leaves(j), now' = now, ~circuit'.halfOpen,
           watch'.stray = Worker!Stray(j), watch'.due <= now + Cooldown,
           circuit'.openedUntil = 0 \/ watch'.due <= circuit'.openedUntil
    PROVE  ProbeInv'
  <1>1. probe' = probe \ {j} /\ pc' = [pc EXCEPT ![j] = "waiting"]
    BY DEF Worker!Leaves
  <1>2. \A i \in probe' : pc'[i] # "waiting"
    BY <1>1 DEF Worker!TypeOK, ProbeInv
  <1>3. ~watch'.stray => probe' = {}
    <2>1. ASSUME ~watch'.stray, probe' # {} PROVE FALSE
      <3>1. ~watch.stray /\ j \in probe
        BY <1>1, <2>1 DEF Worker!Stray
      <3>2. \A i \in probe : i = j
        BY <3>1 DEF ProbeInv, Worker!SoleProbe
      <3> QED
        BY <1>1, <2>1, <3>2
    <2> QED
      BY <2>1
  <1> QED
    BY <1>2, <1>3 DEF ProbeInv, Worker!ProbeHasOwner, Worker!SoleProbe

\* What is remembered of the probes keeps its types.
LEMMA WatchTypes ==
    ASSUME Worker!WorkerAssumption, Worker!TypeOK, NEW j \in Jobs
    PROVE  /\ Worker!Released(j) =>
                /\ watch' \in [due : 0..MaxTime + Cooldown, stray : BOOLEAN, lost : BOOLEAN]
                /\ watch'.stray = Worker!Stray(j)
                /\ watch'.due = IF circuit.halfOpen THEN 0 ELSE watch.due
           /\ Worker!Reported(j) =>
                /\ watch' \in [due : 0..MaxTime + Cooldown, stray : BOOLEAN, lost : BOOLEAN]
                /\ watch'.stray = Worker!Stray(j)
                /\ watch'.due = watch.due
  <1>1. Worker!Stray(j) \in BOOLEAN
    BY DEF Worker!Stray
  <1>2. PICK b \in BOOLEAN : b = Worker!Stray(j)
    BY <1>1
  <1>3. watch.due \in 0..MaxTime + Cooldown
        /\ watch \in [due : 0..MaxTime + Cooldown, stray : BOOLEAN, lost : BOOLEAN]
    BY DEF Worker!TypeOK
  <1>4. PICK d : d = IF circuit.halfOpen THEN 0 ELSE watch.due
    OBVIOUS
  <1>5. ASSUME Worker!Released(j)
        PROVE  /\ watch' \in [due : 0..MaxTime + Cooldown, stray : BOOLEAN, lost : BOOLEAN]
               /\ watch'.stray = b /\ watch'.due = d
    <2>1. watch' = [watch EXCEPT !.due = d, !.stray = b]
      BY <1>2, <1>4, <1>5 DEF Worker!Released
    <2>2. d \in 0..MaxTime + Cooldown
      BY <1>3, <1>4 DEF Worker!WorkerAssumption
    <2> QED
      BY <1>3, <2>1, <2>2
  <1>6. ASSUME Worker!Reported(j)
        PROVE  /\ watch' \in [due : 0..MaxTime + Cooldown, stray : BOOLEAN, lost : BOOLEAN]
               /\ watch'.stray = b /\ watch'.due = watch.due
    <2>1. watch' = [watch EXCEPT !.stray = b]
      BY <1>2, <1>6 DEF Worker!Reported
    <2> QED
      BY <1>3, <2>1
  <1> QED
    BY <1>2, <1>4, <1>5, <1>6

\* AbortProbe releases the circuit, whoever calls it.
LEMMA AbortStep ==
    ASSUME Worker!WorkerAssumption, Worker!TypeOK, ProbeInv, NEW j \in Jobs,
           Worker!Leaves(j), now' = now, circuit' = Worker!AbortProbe, Worker!Released(j)
    PROVE  /\ ProbeInv'
           /\ watch' \in [due : 0..MaxTime + Cooldown, stray : BOOLEAN, lost : BOOLEAN]
           /\ circuit' \in [failures : 0..Threshold, openedUntil : 0..MaxTime + Cooldown,
                             halfOpen : BOOLEAN]
  <1>1. /\ circuit' \in [failures : 0..Threshold, openedUntil : 0..MaxTime + Cooldown,
                          halfOpen : BOOLEAN]
        /\ ~circuit'.halfOpen /\ circuit'.openedUntil = circuit.openedUntil
    BY DEF Worker!AbortProbe, Worker!TypeOK
  <1>2. /\ watch' \in [due : 0..MaxTime + Cooldown, stray : BOOLEAN, lost : BOOLEAN]
        /\ watch'.stray = Worker!Stray(j)
        /\ watch'.due = IF circuit.halfOpen THEN 0 ELSE watch.due
    BY WatchTypes
  <1>3. watch'.due <= now + Cooldown
    BY <1>2 DEF ProbeInv, Worker!TypeOK, Worker!WorkerAssumption
  <1>4. circuit'.openedUntil = 0 \/ watch'.due <= circuit'.openedUntil
    BY <1>1, <1>2 DEF ProbeInv, Worker!TypeOK
  <1> QED
    BY <1>1, <1>2, <1>3, <1>4, LeavesStep

\* What a job finds in the bucket: the tokens of now.
LEMMA CreditedTokens ==
    ASSUME Worker!WorkerAssumption, AdmissionInv
    PROVE  /\ Worker!Credited = [tokens |-> Tokens, last |-> now]
           /\ Tokens \in 0 .. Burst
  <1>1. PICK g : g = (now - bucket.last) * Rate
    OBVIOUS
  <1>2. g \in Nat
    <2>1. now - bucket.last \in Nat /\ Rate \in Nat
      BY DEF AdmissionInv, Worker!TypeOK, Worker!WorkerAssumption
    <2> QED
      BY <1>1, <2>1
  <1>3. Tokens \in 0 .. Burst
    BY <1>1, <1>2 DEF Tokens, AdmissionInv, Worker!TypeOK, Worker!WorkerAssumption, Worker!Smaller
  <1> QED
    BY <1>3 DEF Worker!Credited, Tokens

\* A token is taken, and is owed.
LEMMA AcquireStep ==
    ASSUME Worker!WorkerAssumption, AdmissionInv, NEW j \in Jobs, Worker!Acquire(j)
    PROVE  AdmissionInv'
  <1>1. PICK t : t = Tokens
    OBVIOUS
  <1>2. /\ t \in 1 .. Burst /\ bucket' = [tokens |-> t - 1, last |-> now]
    BY <1>1, CreditedTokens DEF Worker!Acquire
  <1>3. /\ pc[j] = "allowed" /\ pc' = [pc EXCEPT ![j] = "processing"]
        /\ debt' = debt + 1 /\ UNCHANGED <<now, circuit, probe, watch>>
    BY DEF Worker!Acquire
  <1>4. Worker!TypeOK'
    BY <1>2, <1>3 DEF AdmissionInv, Worker!TypeOK, Worker!WorkerAssumption
  <1>5. Tokens' = t - 1
    <2>1. (now' - bucket'.last) * Rate = 0
      BY <1>2, <1>3 DEF AdmissionInv, Worker!TypeOK, Worker!WorkerAssumption
    <2> QED
      BY <1>2, <2>1 DEF Tokens, Worker!Smaller, Worker!WorkerAssumption
  <1>6. debt' + Tokens' <= Burst
    BY <1>1, <1>2, <1>3, <1>5 DEF AdmissionInv, Worker!TypeOK, Worker!WorkerAssumption
  <1>7. bucket'.last <= now'
    BY <1>2, <1>3 DEF AdmissionInv, Worker!TypeOK
  <1>8. ProbeInv'
    <2>1. \A i \in probe' : pc'[i] # "waiting"
      BY <1>3 DEF AdmissionInv, ProbeInv, Worker!TypeOK
    <2> QED
      BY <1>3, <2>1 DEF AdmissionInv, ProbeInv, Worker!ProbeHasOwner, Worker!SoleProbe
  <1> QED
    BY <1>4, <1>6, <1>7, <1>8 DEF AdmissionInv

\* A job is sent back for want of a token, and with it the probe.
LEMMA RateLimitedStep ==
    ASSUME Worker!WorkerAssumption, AdmissionInv, NEW j \in Jobs, Worker!RateLimited(j)
    PROVE  AdmissionInv'
  <1>1. PICK t : t = Tokens
    OBVIOUS
  <1>2. /\ t \in 0 .. Burst /\ bucket' = [tokens |-> t, last |-> now]
    BY <1>1, CreditedTokens DEF Worker!RateLimited
  <1>3. /\ Worker!Leaves(j) /\ circuit' = Worker!AbortProbe /\ Worker!Released(j)
        /\ UNCHANGED <<now, debt>> /\ Worker!TypeOK /\ ProbeInv
    BY DEF Worker!RateLimited, AdmissionInv
  <1>4. Worker!TypeOK' /\ ProbeInv'
    <2>1. /\ probe' \in SUBSET Jobs
          /\ pc' \in [Jobs -> {"waiting", "allowed", "processing"}]
      BY <1>3 DEF Worker!Leaves, Worker!TypeOK
    <2>2. bucket' \in [tokens : 0..Burst, last : 0..MaxTime]
      BY <1>2, <1>3 DEF Worker!TypeOK
    <2> QED
      BY <1>3, <2>1, <2>2, AbortStep DEF Worker!TypeOK
  <1>5. Tokens' = t
    <2>1. (now' - bucket'.last) * Rate = 0
      BY <1>2, <1>3 DEF AdmissionInv, Worker!TypeOK, Worker!WorkerAssumption
    <2> QED
      BY <1>2, <2>1 DEF Tokens, Worker!Smaller, Worker!WorkerAssumption
  <1>6. debt' + Tokens' <= Burst /\ bucket'.last <= now'
    BY <1>1, <1>2, <1>3, <1>5 DEF AdmissionInv, Worker!TypeOK, Worker!WorkerAssumption
  <1> QED
    BY <1>4, <1>6 DEF AdmissionInv

\* What a failure leaves of the circuit: opened anew, or as it was.
LEMMA FailureOpens ==
    ASSUME Worker!WorkerAssumption, Worker!TypeOK, circuit' = Worker!Failure
    PROVE  /\ circuit' \in [failures : 0..Threshold, openedUntil : 0..MaxTime + Cooldown,
                             halfOpen : BOOLEAN]
           /\ ~circuit'.halfOpen
           /\ \/ circuit'.openedUntil = now + Cooldown
              \/ ~circuit.halfOpen /\ circuit'.openedUntil = circuit.openedUntil
  <1>1. PICK k : k = IF circuit.failures < Threshold THEN circuit.failures + 1 ELSE Threshold
    OBVIOUS
  <1>2. k \in 0 .. Threshold
    BY <1>1 DEF Worker!TypeOK, Worker!WorkerAssumption
  <1>3. circuit' = IF circuit.halfOpen \/ k = Threshold
                   THEN [failures |-> k, openedUntil |-> now + Cooldown, halfOpen |-> FALSE]
                   ELSE [circuit EXCEPT !.failures = k]
    BY <1>1 DEF Worker!Failure
  <1>4. now + Cooldown \in 0 .. MaxTime + Cooldown
    BY DEF Worker!TypeOK, Worker!WorkerAssumption
  <1>5. CASE circuit' = [failures |-> k, openedUntil |-> now + Cooldown, halfOpen |-> FALSE]
    BY <1>2, <1>4, <1>5
  <1>6. CASE ~circuit.halfOpen /\ circuit' = [circuit EXCEPT !.failures = k]
    BY <1>2, <1>6 DEF Worker!TypeOK
  <1> QED
    BY <1>3, <1>5, <1>6

\* Whatever a job reports, no probe is left to wait for.
LEMMA ProcessStep ==
    ASSUME Worker!WorkerAssumption, AdmissionInv, NEW j \in Jobs, Worker!Process(j)
    PROVE  AdmissionInv'
  <1>1. /\ Worker!Leaves(j) /\ UNCHANGED <<now, bucket, debt>>
        /\ \/ circuit' \in {Worker!Success, Worker!Failure} /\ Worker!Reported(j)
           \/ circuit' = Worker!AbortProbe /\ Worker!Released(j)
    BY DEF Worker!Process
  <1>2. Worker!TypeOK /\ ProbeInv
    BY DEF AdmissionInv
  <1>3. /\ circuit' \in [failures : 0..Threshold, openedUntil : 0..MaxTime + Cooldown,
                          halfOpen : BOOLEAN]
        /\ watch' \in [due : 0..MaxTime + Cooldown, stray : BOOLEAN, lost : BOOLEAN]
        /\ ProbeInv'
    <2>1. CASE circuit' = Worker!AbortProbe /\ Worker!Released(j)
      BY <1>1, <1>2, <2>1, AbortStep
    <2>2. ASSUME Worker!Reported(j)
          PROVE  /\ watch' \in [due : 0..MaxTime + Cooldown, stray : BOOLEAN, lost : BOOLEAN]
                 /\ watch'.stray = Worker!Stray(j) /\ watch'.due = watch.due
                 /\ watch'.due <= now + Cooldown
      BY <1>2, <2>2, WatchTypes DEF ProbeInv
    <2>3. CASE circuit' = Worker!Success /\ Worker!Reported(j)
      <3>1. /\ circuit' \in [failures : 0..Threshold, openedUntil : 0..MaxTime + Cooldown,
                              halfOpen : BOOLEAN]
            /\ ~circuit'.halfOpen /\ circuit'.openedUntil = 0
        BY <2>3 DEF Worker!Success, Worker!Closed, Worker!WorkerAssumption
      <3> QED
        BY <1>1, <1>2, <2>2, <2>3, <3>1, LeavesStep
    <2>4. CASE circuit' = Worker!Failure /\ Worker!Reported(j)
      <3>1. circuit'.openedUntil = 0 \/ watch'.due <= circuit'.openedUntil
        BY <1>2, <2>2, <2>4, FailureOpens DEF ProbeInv
      <3> QED
        BY <1>1, <1>2, <2>2, <2>4, <3>1, FailureOpens, LeavesStep
    <2> QED
      BY <1>1, <2>1, <2>3, <2>4
  <1>4. Worker!TypeOK'
    <2>1. /\ probe' \in SUBSET Jobs
          /\ pc' \in [Jobs -> {"waiting", "allowed", "processing"}]
      BY <1>1, <1>2 DEF Worker!Leaves, Worker!TypeOK
    <2> QED
      BY <1>1, <1>2, <1>3, <2>1 DEF Worker!TypeOK
  <1> QED
    BY <1>1, <1>3, <1>4, CircuitStep

\* A job that panics leaves the circuit as it is.
LEMMA PanicsStep ==
    ASSUME Worker!WorkerAssumption, AdmissionInv, NEW j \in Jobs, Worker!Panics(j)
    PROVE  AdmissionInv'
  <1>1. /\ probe' = probe \ {j} /\ pc' = [pc EXCEPT ![j] = "waiting"]
        /\ UNCHANGED <<now, circuit, bucket, debt>>
    BY DEF Worker!Panics, Worker!Leaves
  <1>2. Worker!TypeOK /\ ProbeInv
    BY DEF AdmissionInv
  <1>3. PICK b \in BOOLEAN, l \in BOOLEAN :
           /\ b = (watch.stray /\ probe \ {j} # {}) /\ l = (watch.lost \/ j \in probe)
    OBVIOUS
  <1>4. watch' = [watch EXCEPT !.stray = b, !.lost = l]
    BY <1>3 DEF Worker!Panics
  <1>5. /\ watch' \in [due : 0..MaxTime + Cooldown, stray : BOOLEAN, lost : BOOLEAN]
        /\ watch'.due = watch.due /\ watch'.stray = b /\ watch'.lost = l
    BY <1>2, <1>4 DEF Worker!TypeOK
  <1>6. Worker!TypeOK'
    <2>1. /\ probe' \in SUBSET Jobs
          /\ pc' \in [Jobs -> {"waiting", "allowed", "processing"}]
      BY <1>1, <1>2 DEF Worker!TypeOK
    <2> QED
      BY <1>1, <1>2, <1>5, <2>1 DEF Worker!TypeOK
  <1>7. ProbeInv'
    <2>1. \A i \in probe' : pc'[i] # "waiting"
      BY <1>1, <1>2 DEF Worker!TypeOK, ProbeInv
    <2>2. Worker!ProbeHasOwner'
      BY <1>1, <1>2, <1>3, <1>5 DEF ProbeInv, Worker!ProbeHasOwner
    <2>3. ~watch'.stray /\ probe' # {} => ~watch.stray
      BY <1>1, <1>3, <1>5
    <2>4. Worker!SoleProbe'
      BY <1>1, <1>2, <2>3 DEF ProbeInv, Worker!SoleProbe
    <2> QED
      BY <1>1, <1>2, <1>5, <2>1, <2>2, <2>3, <2>4 DEF ProbeInv
  <1> QED
    BY <1>1, <1>6, <1>7, CircuitStep

\* It is inductive.
LEMMA AdmissionStep ==
    ASSUME Worker!WorkerAssumption, AdmissionInv, Worker!Next
    PROVE  AdmissionInv'
  BY TickStep, AllowStep, AcquireStep, RateLimitedStep, ProcessStep, PanicsStep
  DEF Worker!Next, Worker!Work
-----------------------------------------------------------------------------
(* Delivery: its components side by side. *)

dvars == <<scene, files, mails, qvars, admission>>

DeliveryInv ==
    /\ FileTypes /\ (scene = "store" => SaverInv) /\ (scene = "local" => LinkInv)
    /\ MailTypes /\ HandInv /\ (scene # "slow" => OneInv)
    /\ OutboxInv /\ JobInv
    /\ AdmissionInv

\* The initial states satisfy it.
LEMMA DeliveryInitInv == DeliveryInit => DeliveryInv
  <1> SUFFICES ASSUME DeliveryInit PROVE DeliveryInv
    OBVIOUS
  <1>1. Saver \in Callers /\ Late!MailAssumption /\ QueueAssumption /\ Worker!WorkerAssumption
    BY DeliveryAssumption
  <1>2. Store!Init /\ Late!Init /\ Init /\ Worker!Init
    BY DEF DeliveryInit
  <1> QED
    BY <1>1, <1>2, FilesInit, SaverInit, LinkInit, MailInit, OneInit, OutboxInit, JobInit, AdmissionInit
    DEF DeliveryInv

\* What a step of another component leaves alone.
LEMMA FilesStay ==
    ASSUME UNCHANGED files
    PROVE  (FileTypes => FileTypes') /\ (SaverInv => SaverInv') /\ (LinkInv => LinkInv')
  BY DEF files, FileTypes, SaverInv, Store!RowHasObject, LinkInv, Local!RowHasKey

\* The same of the mails.
LEMMA MailsStay ==
    ASSUME UNCHANGED mails
    PROVE  (MailTypes => MailTypes') /\ (HandInv => HandInv') /\ (OneInv => OneInv')
  BY DEF mails, MailTypes, HandInv, TriesInv, OneInv

\* The same of the queue.
LEMMA QueueStays ==
    ASSUME QueueAssumption, OutboxInv, JobInv, UNCHANGED qvars PROVE OutboxInv' /\ JobInv'
  BY OutboxStep, JobKept

\* The same of the admission.
LEMMA AdmissionStays ==
    ASSUME UNCHANGED admission, AdmissionInv PROVE AdmissionInv'
  BY DEF admission, AdmissionInv, ProbeInv, Worker!TypeOK, Worker!ProbeHasOwner, Worker!SoleProbe,
         Tokens

\* Which component moves, as a slow one of its kind may.
LEMMA WhoMoves ==
    ASSUME [DeliveryNext]_dvars
    PROVE  /\ scene' = scene
           /\ \/ /\ UNCHANGED <<mails, qvars, admission>>
                 /\ \/ scene = "store" /\ Store!Next /\ OneSaver
                    \/ scene = "local" /\ Local!Next /\ OneSaver
              \/ /\ UNCHANGED <<files, qvars, admission>>
                 /\ \/ scene = "slow" /\ Late!Next
                    \/ scene # "slow" /\ Timely!Next
              \/ UNCHANGED <<files, mails, admission>> /\ Next
              \/ UNCHANGED <<files, mails, qvars>> /\ Worker!Next
              \/ UNCHANGED <<files, mails, qvars, admission>>
  <1>1. QueueAssumption
    BY DeliveryAssumption
  <1> QED
    BY <1>1, DrainsIsNext DEF DeliveryNext, dvars

\* Every step preserves it.
LEMMA DeliveryStep == DeliveryInv /\ [DeliveryNext]_dvars => DeliveryInv'
  <1> SUFFICES ASSUME DeliveryInv, [DeliveryNext]_dvars PROVE DeliveryInv'
    OBVIOUS
  <1>0. /\ Store!FilesAssumption /\ Saver \in Callers /\ Late!MailAssumption
        /\ QueueAssumption /\ Worker!WorkerAssumption
    BY DeliveryAssumption
  <1>1. scene' = scene
    BY WhoMoves
  <1>2. ASSUME UNCHANGED files
        PROVE  FileTypes' /\ (scene' = "store" => SaverInv') /\ (scene' = "local" => LinkInv')
    BY <1>1, <1>2, FilesStay DEF DeliveryInv
  <1>3. ASSUME UNCHANGED mails
        PROVE  MailTypes' /\ HandInv' /\ (scene' # "slow" => OneInv')
    BY <1>1, <1>3, MailsStay DEF DeliveryInv
  <1>4. ASSUME UNCHANGED qvars PROVE OutboxInv' /\ JobInv'
    BY <1>0, <1>4, QueueStays DEF DeliveryInv
  <1>5. ASSUME UNCHANGED admission PROVE AdmissionInv'
    BY <1>5, AdmissionStays DEF DeliveryInv
  <1>6. ASSUME scene = "store", Store!Next, OneSaver
        PROVE  FileTypes' /\ (scene' = "store" => SaverInv') /\ (scene' = "local" => LinkInv')
    <2>1. PICK c \in Callers : Store!SaveSteps(c) \/ Store!RemoveSteps(c) \/ Store!Interrupted(c)
      BY <1>6 DEF Store!Next
    <2>2. FileTypes'
      BY <2>1, FileTypesStep DEF DeliveryInv
    <2>3. c = Saver
      BY <1>6, <2>1, SaverMoves DEF DeliveryInv
    <2> QED
      BY <1>0, <1>1, <1>6, <2>1, <2>2, <2>3, SaverStep DEF DeliveryInv
  <1>7. ASSUME scene = "local", Local!Next, OneSaver
        PROVE  FileTypes' /\ (scene' = "store" => SaverInv') /\ (scene' = "local" => LinkInv')
    <2>1. PICK c \in Callers : Local!SaveSteps(c) \/ Local!RemoveSteps(c) \/ Local!Interrupted(c)
      BY <1>7 DEF Local!Next
    <2>2. FileTypes'
      BY <2>1, FileTypesStep DEF DeliveryInv
    <2>3. c = Saver
      BY <1>7, <2>1, LinkMoves DEF DeliveryInv
    <2> QED
      BY <1>0, <1>1, <1>7, <2>1, <2>2, <2>3, LinkStep DEF DeliveryInv
  <1>8. ASSUME scene = "slow", Late!Next
        PROVE  MailTypes' /\ HandInv' /\ (scene' # "slow" => OneInv')
    BY <1>0, <1>1, <1>8, MailStep DEF DeliveryInv
  <1>9. ASSUME scene # "slow", Timely!Next
        PROVE  MailTypes' /\ HandInv' /\ (scene' # "slow" => OneInv')
    <2>1. OneInv'
      BY <1>0, <1>9, OneStep DEF DeliveryInv
    <2> QED
      BY <1>0, <1>9, <2>1, TimelyIsLate, MailStep, MailsStay DEF DeliveryInv
  <1>10. ASSUME Next PROVE OutboxInv' /\ JobInv'
    BY <1>0, <1>10, OutboxStep, JobKept DEF DeliveryInv
  <1>11. ASSUME Worker!Next PROVE AdmissionInv'
    BY <1>0, <1>11, AdmissionStep DEF DeliveryInv
  <1> QED
    BY <1>2, <1>3, <1>4, <1>5, <1>6, <1>7, <1>8, <1>9, <1>10, <1>11, WhoMoves DEF DeliveryInv

\* The invariant holds.
LEMMA DeliveryInvariant == DeliverySpec => []DeliveryInv
  BY DeliveryInitInv, DeliveryStep, PTL DEF DeliverySpec, dvars

(***************************************************************************)
(* Every component keeps its types.                                         *)
(***************************************************************************)
THEOREM DeliveryIsTyped == DeliverySpec => []DeliveryTypeOK
  <1>1. DeliveryInv => DeliveryTypeOK
    BY FilesTyped, MailTyped, QueueTyped DEF DeliveryInv, DeliveryTypeOK, AdmissionInv
  <1> QED
    BY <1>1, DeliveryInvariant, PTL

(***************************************************************************)
(* Wherever SaveWithStatus or RemoveCreated dies, the files table never     *)
(* lists a document the store does not hold; of the local store, a key      *)
(* under which it holds none.                                               *)
(***************************************************************************)
THEOREM ListedIsStored == DeliverySpec => []RowHasObject
  <1>1. DeliveryInv => RowHasObject
    BY DEF DeliveryInv, SaverInv, LinkInv, RowHasObject
  <1> QED
    BY <1>1, DeliveryInvariant, PTL

(***************************************************************************)
(* A row handed to Cloud Tasks has a task until it is SENT, whoever dies or *)
(* outlives a lock, unless the queue has counted all the failed answers it  *)
(* grants, whatever their number; while nothing fails and locks are kept    *)
(* to, it is mailed once.                                                   *)
(***************************************************************************)
THEOREM MailsAreHandedOff == DeliverySpec => []MailHandOff
  <1>1. DeliveryInv => MailHandOff
    BY OneMailed, HandedOff DEF DeliveryInv, MailHandOff
  <1> QED
    BY <1>1, DeliveryInvariant, PTL

(***************************************************************************)
(* However late a mark comes, no mail row returns to the dispatchers or     *)
(* leaves SENT, and no published request is requeued.                       *)
(***************************************************************************)
THEOREM LateMarksAreFenced == DeliverySpec => LateMarksTakeNothingBack
  <1>1. DeliveryInv /\ [DeliveryNext]_dvars =>
          [\A n \in DOMAIN status :
             /\ status[n] \in {"ENQUEUED", "SENDING", "SENT"} =>
                   status'[n] \notin {"PENDING", "PUBLISHING"}
             /\ status[n] = "SENT" => status'[n] = "SENT"]_(Late!mvars)
    <2> SUFFICES ASSUME DeliveryInv, [DeliveryNext]_dvars, NEW n \in DOMAIN status
                 PROVE  /\ status[n] \in {"ENQUEUED", "SENDING", "SENT"} =>
                              status'[n] \notin {"PENDING", "PUBLISHING"}
                        /\ status[n] = "SENT" => status'[n] = "SENT"
      OBVIOUS
    <2>1. n \in Notes /\ Late!MailAssumption
      BY DeliveryAssumption DEF DeliveryInv, MailTypes
    <2>2. CASE Late!Next
      BY <2>1, <2>2, NeverBackStep DEF DeliveryInv
    <2>3. CASE UNCHANGED mails
      BY <2>3 DEF mails
    <2> QED
      BY <2>2, <2>3, WhoMoves, TimelyIsLate
  <1>2. DeliveryInv /\ [DeliveryNext]_dvars =>
          [\A e \in DOMAIN event :
              event[e].status = "PUBLISHED" => event'[e].status = "PUBLISHED"]_qvars
    <2> SUFFICES ASSUME DeliveryInv, [DeliveryNext]_dvars, NEW e \in DOMAIN event,
                        event[e].status = "PUBLISHED"
                 PROVE  event'[e].status = "PUBLISHED"
      OBVIOUS
    <2>1. e \in Events /\ [Next]_qvars
      BY WhoMoves DEF DeliveryInv, OutboxInv, ShapeOK
    <2> QED
      BY <2>1, PublishedKept DEF DeliveryInv
  <1> QED
    BY <1>1, <1>2, DeliveryInvariant, PTL
    DEF DeliverySpec, LateMarksTakeNothingBack, Late!NeverBack, PublishedStays, dvars

(***************************************************************************)
(* Half-open probes of a tenant are a cooldown apart unless one was          *)
(* released, one at a time unless another job's late result cut in, and     *)
(* never waited for once they ended other than by a panic; in any window of *)
(* time its jobs send at most the burst beyond the rate.                    *)
(***************************************************************************)
THEOREM AdmissionIsBounded == DeliverySpec => AdmissionHolds
  <1>1. DeliveryInv => Worker!SoleProbe /\ Worker!ProbeHasOwner /\ Worker!WindowBound
    BY Admitted, DeliveryAssumption DEF DeliveryInv
  <1>2. DeliveryInv /\ [DeliveryNext]_dvars =>
          [probe' \ probe # {} => now >= watch.due]_(Worker!wvars)
    <2> SUFFICES ASSUME DeliveryInv, [DeliveryNext]_dvars, probe' \ probe # {}
                 PROVE  now >= watch.due
      OBVIOUS
    <2>1. Worker!Next
      BY WhoMoves DEF admission
    <2>2. PICK j \in Jobs : Worker!Allow(j) /\ probe' # probe
      BY <2>1
      DEF Worker!Next, Worker!Work, Worker!Tick, Worker!Acquire, Worker!RateLimited,
          Worker!Process, Worker!Panics, Worker!Leaves, Worker!Allow
    <2>3. Worker!HalfOpenDue /\ ~circuit.halfOpen
      BY <2>2 DEF Worker!Allow
    <2>4. watch.due <= circuit.openedUntil
      BY <2>3 DEF DeliveryInv, AdmissionInv, ProbeInv, Worker!HalfOpenDue
    <2> QED
      BY <2>3, <2>4 DEF DeliveryInv, AdmissionInv, Worker!TypeOK, Worker!HalfOpenDue
  <1> QED
    BY <1>1, <1>2, DeliveryInvariant, PTL
    DEF DeliverySpec, AdmissionHolds, Worker!ProbesSpaced, dvars
=============================================================================
