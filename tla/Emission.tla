------------------------------ MODULE Emission ------------------------------
(***************************************************************************)
(* The emission of invoices: ProcessEmission with its staged pipeline      *)
(* (prepare, save the signed XML, reserve the fiscal code, dispatch) and    *)
(* its offline contingency, run by concurrent requests ("emitters") over    *)
(* the invoice rows, the invoice_files rows and the SIAT, together with the *)
(* stale emission reaper, the renewal of CUFDs and process crashes.         *)
(*                                                                         *)
(* Every step of an emitter between two calls to the database, the object  *)
(* store or the SIAT is one action.  A fiscal code (CUF) is the record of   *)
(* the data it is computed from; the signed XML, its hash and the archive   *)
(* are functions of it and are named by it.                                 *)
(***************************************************************************)
EXTENDS InvoiceStates, Integers, Sequences, FiniteSets

CONSTANTS
    Invoices,        \* invoices of one point of sale
    Emitters,        \* requests that may run ProcessEmission at the same time
    NoInvoice, NoCuf,
    MaxCufd,         \* bound: CUFDs the point of sale goes through
    MaxEvents,       \* bound: local contingency events
    IssueDate,       \* issue date of each invoice, the start of its event
    OfflineCapable,  \* the SIAT adapter can prepare offline documents and the
                     \* contingency repository is configured
    SlowAttempts     \* an emission may outlive the reaper's ten minutes

ASSUME NullAssumption == NoInvoice \notin Invoices
ASSUME BoundAssumption == MaxCufd \in Nat \ {0} /\ MaxEvents \in Nat
ASSUME DateAssumption == IssueDate \in [Invoices -> Nat]
ASSUME ModeAssumption == OfflineCapable \in BOOLEAN /\ SlowAttempts \in BOOLEAN

EmissionTypes == {"ONLINE", "OFFLINE"}
Cufs == [inv : Invoices, type : EmissionTypes, cufd : 1..MaxCufd]
CufOrNone == Cufs \cup {NoCuf}

ASSUME NoCufAssumption == NoCuf \notin Cufs

VARIABLES
    row,      \* invoices: status, fiscal code and contingency event (0: none)
    file,     \* invoice_files: the code the XML of the invoice is stored under
    queued,   \* invoice_email_notifications: invoices with an automatic mail
    events,   \* contingency_events of the point of sale, in creation order
    cufd,     \* the CUFD in force
    attempt,  \* local state of each running emission
    net,      \* codes ever dispatched to the SIAT
    siat      \* what the SIAT holds about each code

database == <<row, queued, events, cufd>>
vars == <<row, file, queued, events, cufd, attempt, net, siat>>

-----------------------------------------------------------------------------
(* The state of an emission. *)

Idle == [pc |-> "idle", inv |-> NoInvoice, doc |-> NoCuf, created |-> FALSE,
         outcome |-> "none", event |-> 0]

Steps == {"claim", "prepare", "save", "store", "unsave", "dispatch", "await",
          "xml", "persist", "discard", "clear", "event", "newEvent",
          "offlineFile", "offline", "rollback"}

\* Emissions past the claim: they believe they own the SENDING invoice.
Holds(e, i) == attempt[e].inv = i /\ attempt[e].pc \notin {"idle", "claim"}

At(e, pc) == attempt[e].pc = pc
Goto(e, pc) == attempt' = [attempt EXCEPT ![e].pc = pc]
Finish(e) == attempt' = [attempt EXCEPT ![e] = Idle]
Inv(e) == attempt[e].inv
Doc(e) == attempt[e].doc

(***************************************************************************)
(* TransitionStatus: a conditional UPDATE that applies only if the row     *)
(* still has the status the caller read; a change to ACCEPTED or OBSERVED  *)
(* queues the automatic mail in the same transaction.                      *)
(***************************************************************************)
AppliesBlindly(i, from, to, reason) == CanTransition(from, to, reason)
Applies(i, from, to, reason) ==
    row[i].status = from /\ CanTransition(from, to, reason)

QueuedIfAccepted(i, to) == IF to = "ACCEPTED" THEN queued \cup {i} ELSE queued
QueuedWith(i, to) == IF to \in {"ACCEPTED", "OBSERVED"} THEN queued \cup {i} ELSE queued

TransitionStatus(i, to, fields) ==
    /\ row' = [row EXCEPT ![i] = [fields EXCEPT !.status = to]]
    /\ queued' = QueuedWith(i, to)

(***************************************************************************)
(* SaveWithStatus: one XML per invoice, under a key that holds the code.   *)
(* The file row after a successful save; no result when another code's     *)
(* document is stored.                                                     *)
(***************************************************************************)
SaveReusesAny(stored, doc) == {IF stored = NoCuf THEN doc ELSE stored}
SaveOverwrites(stored, doc) == {doc}
SaveResults(stored, doc) == IF stored \in {NoCuf, doc} THEN {doc} ELSE {}

-----------------------------------------------------------------------------
(* ProcessEmission up to the dispatch. *)

\* The invoice is read while PENDING; its reserved document, if any, is reused.
Start(e, i) ==
    /\ At(e, "idle")
    /\ row[i].status = "PENDING"
    /\ attempt' = [attempt EXCEPT ![e] =
                     [Idle EXCEPT !.pc = "claim", !.inv = i, !.doc = row[i].cuf]]
    /\ UNCHANGED <<database, file, net, siat>>

\* ClaimForEmission; a claim that fails or loses ends the request.
ClaimableTwice(i) == row[i].status \in {"PENDING", "SENDING"}
Claimable(i) == Applies(i, "PENDING", "SENDING", "EMISSION_START")

Claim(e) ==
    /\ At(e, "claim")
    /\ Claimable(Inv(e))
    /\ TransitionStatus(Inv(e), "SENDING", row[Inv(e)])
    /\ Goto(e, "prepare")
    /\ UNCHANGED <<file, events, cufd, net, siat>>

ClaimFails(e) ==
    /\ At(e, "claim")
    /\ Finish(e)
    /\ UNCHANGED <<database, file, net, siat>>

\* Without a reserved document a new one is built for the CUFD in force.
Prepared(e) == IF Doc(e) = NoCuf
               THEN [inv |-> Inv(e), type |-> "ONLINE", cufd |-> cufd]
               ELSE Doc(e)

Prepare(e) ==
    /\ At(e, "prepare")
    /\ attempt' = [attempt EXCEPT ![e].pc = "save", ![e].doc = Prepared(e)]
    /\ UNCHANGED <<database, file, net, siat>>

Save(e) ==
    /\ At(e, "save")
    /\ \E saved \in SaveResults(file[Inv(e)], Doc(e)) :
          /\ file' = [file EXCEPT ![Inv(e)] = saved]
          /\ attempt' = [attempt EXCEPT ![e].pc = "store",
                                        ![e].created = file[Inv(e)] = NoCuf]
    /\ UNCHANGED <<database, net, siat>>

\* StorePreparedEmission: reserves the code while the row is SENDING.
Reservable(i) == row[i].status = "SENDING"

Store(e) ==
    /\ At(e, "store")
    /\ Reservable(Inv(e))
    /\ row' = [row EXCEPT ![Inv(e)].cuf = Doc(e)]
    /\ Goto(e, "dispatch")
    /\ UNCHANGED <<file, queued, events, cufd, net, siat>>

\* A failed reservation compensates the XML, if this emission created it.
CompensatesAny(e) == TRUE
Compensates(e) == attempt[e].created

StoreFails(e) ==
    /\ At(e, "store")
    /\ Goto(e, IF Compensates(e) THEN "unsave" ELSE "rollback")
    /\ UNCHANGED <<database, file, net, siat>>

\* RemoveCreated deletes the row of this very document.
Without(stored, doc) == IF stored = doc THEN NoCuf ELSE stored

Unsave(e) ==
    /\ At(e, "unsave")
    /\ file' = [file EXCEPT ![Inv(e)] = Without(file[Inv(e)], Doc(e))]
    /\ Goto(e, "rollback")
    /\ UNCHANGED <<database, net, siat>>

Dispatch(e) ==
    /\ At(e, "dispatch")
    /\ net' = net \cup {Doc(e)}
    /\ Goto(e, "await")
    /\ UNCHANGED <<database, file, siat>>

\* Any call of these stages that fails, and a cancelled request, roll back.
FailingSteps == {"prepare", "save", "unsave", "dispatch", "await"}

Fail(e) ==
    /\ attempt[e].pc \in FailingSteps
    /\ Goto(e, "rollback")
    /\ UNCHANGED <<database, file, net, siat>>

\* The conditional return to PENDING; if the update fails the row is left.
Rollback(e) ==
    /\ At(e, "rollback")
    /\ Applies(Inv(e), "SENDING", "PENDING", "TRANSPORT_FAILURE")
    /\ TransitionStatus(Inv(e), "PENDING", row[Inv(e)])
    /\ Finish(e)
    /\ UNCHANGED <<file, events, cufd, net, siat>>

RollbackFails(e) ==
    /\ At(e, "rollback")
    /\ Finish(e)
    /\ UNCHANGED <<database, file, net, siat>>

-----------------------------------------------------------------------------
(* The SIAT's answer. *)

Answered(e) ==
    /\ At(e, "await")
    /\ siat[Doc(e)] # "none"
    /\ attempt' = [attempt EXCEPT ![e].pc = "xml",
                                  ![e].outcome = EmissionOutcome(siat[Doc(e)])]
    /\ UNCHANGED <<database, file, net, siat>>

\* persistSignedXML; an error leaves the invoice SENDING.
SaveSigned(e) ==
    /\ At(e, "xml")
    /\ \E saved \in SaveResults(file[Inv(e)], Doc(e)) :
          file' = [file EXCEPT ![Inv(e)] = saved]
    /\ Goto(e, "persist")
    /\ UNCHANGED <<database, net, siat>>

Persist(e) ==
    LET status == attempt[e].outcome IN
    /\ At(e, "persist")
    /\ Applies(Inv(e), "SENDING", status, OutcomeReason(status))
    /\ TransitionStatus(Inv(e), status, [row[Inv(e)] EXCEPT !.cuf = Doc(e)])
    /\ Finish(e)
    /\ UNCHANGED <<file, events, cufd, net, siat>>

\* Three failed updates, or a status that changed: the answer is dropped.
AnswerDropped(e) ==
    /\ attempt[e].pc \in {"xml", "persist"}
    /\ Finish(e)
    /\ UNCHANGED <<database, file, net, siat>>

-----------------------------------------------------------------------------
(* processOfflineContingency, after a connectivity error of the dispatch. *)

ConnectivityLost(e) ==
    /\ At(e, "await")
    /\ OfflineCapable
    /\ Goto(e, "discard")
    /\ UNCHANGED <<database, file, net, siat>>

\* discardOnlinePreparation, first half: whatever XML is stored is removed.
\* RemoveCreated may fail after it deleted the file row.
Discard(e) ==
    /\ At(e, "discard")
    /\ file' = [file EXCEPT ![Inv(e)] = NoCuf]
    /\ \E next \in {"clear", "rollback"} : Goto(e, next)
    /\ UNCHANGED <<database, net, siat>>

\* Second half: the reserved code is cleared, still only while SENDING.
Clear(e) ==
    /\ At(e, "clear")
    /\ Reservable(Inv(e))
    /\ row' = [row EXCEPT ![Inv(e)].cuf = NoCuf]
    /\ Goto(e, "event")
    /\ UNCHANGED <<file, queued, events, cufd, net, siat>>

\* GetLatestByPointOfSale: the latest start, then the latest created.
IsLatest(k) ==
    /\ k \in 1..Len(events)
    /\ \A j \in 1..Len(events) :
          \/ events[j].start < events[k].start
          \/ events[j].start = events[k].start /\ j <= k

\* openConnectivityContingency after PrepareOffline: the latest event is joined
\* if it is open; the check and the creation are two separate calls.
JoinEvent(e) ==
    /\ At(e, "event")
    /\ \E k \in 1..Len(events) :
          /\ IsLatest(k) /\ events[k].open
          /\ attempt' = [attempt EXCEPT ![e].pc = "offlineFile", ![e].event = k]
    /\ UNCHANGED <<database, file, net, siat>>

NeedsEvent(e) ==
    /\ At(e, "event")
    /\ \A k \in 1..Len(events) : IsLatest(k) => ~events[k].open
    /\ Goto(e, "newEvent")
    /\ UNCHANGED <<database, file, net, siat>>

NextEventSkipping == Len(events) + 2
NextEvent == Len(events) + 1

CreateEvent(e) ==
    /\ At(e, "newEvent")
    /\ Len(events) < MaxEvents
    /\ events' = Append(events, [start |-> IssueDate[Inv(e)], open |-> TRUE])
    /\ attempt' = [attempt EXCEPT ![e].pc = "offlineFile",
                                  ![e].event = NextEvent]
    /\ UNCHANGED <<row, file, queued, cufd, net, siat>>

\* The offline document of the same invoice under the same CUFD.
OfflineDoc(doc) == [doc EXCEPT !.type = "OFFLINE"]

SaveOffline(e) ==
    /\ At(e, "offlineFile")
    /\ \E saved \in SaveResults(file[Inv(e)], OfflineDoc(Doc(e))) :
          file' = [file EXCEPT ![Inv(e)] = saved]
    /\ Goto(e, "offline")
    /\ UNCHANGED <<database, net, siat>>

ToOffline(e) ==
    /\ At(e, "offline")
    /\ Applies(Inv(e), "SENDING", "OFFLINE", "CONTINGENCY")
    /\ TransitionStatus(Inv(e), "OFFLINE",
                        [row[Inv(e)] EXCEPT !.cuf = OfflineDoc(Doc(e)),
                                            !.event = attempt[e].event])
    /\ Finish(e)
    /\ UNCHANGED <<file, events, cufd, net, siat>>

\* Any call of the contingency that fails rolls the invoice back.
ContingencySteps == {"discard", "clear", "event", "newEvent", "offlineFile", "offline"}

ContingencyFails(e) ==
    /\ attempt[e].pc \in ContingencySteps
    /\ Goto(e, "rollback")
    /\ UNCHANGED <<database, file, net, siat>>

-----------------------------------------------------------------------------
(* The rest of the system. *)

\* The process of the request dies, or the request is killed, at any point.
Crash(e) ==
    /\ ~At(e, "idle")
    /\ Finish(e)
    /\ UNCHANGED <<database, file, net, siat>>

\* ReleaseStaleSending: an invoice SENDING for ten minutes.
StaleAtOnce(i) == row[i].status = "SENDING"
StaleUnprepared(i) ==
    /\ row[i].status = "SENDING" /\ row[i].cuf = NoCuf
    /\ SlowAttempts \/ \A e \in Emitters : ~Holds(e, i)
Stale(i) ==
    /\ row[i].status = "SENDING"
    /\ SlowAttempts \/ \A e \in Emitters : ~Holds(e, i)

Reap(i) ==
    /\ Stale(i)
    /\ row' = [row EXCEPT ![i].status = "PENDING"]
    /\ UNCHANGED <<file, queued, events, cufd, attempt, net, siat>>

\* EnsureCufd obtains a new CUFD when the one in force has expired.
RenewCufd ==
    /\ cufd < MaxCufd
    /\ cufd' = cufd + 1
    /\ UNCHANGED <<row, file, queued, events, attempt, net, siat>>

\* RegistrarEventoSignificativo: once the SIAT took the registration, the open
\* event read before the call is dated and closed; without one, the registered
\* event is recorded, already closed.
Starts == {IssueDate[i] : i \in Invoices}
Registered(start) == [start |-> start, open |-> FALSE]

CloseEvent(k, start) ==
    /\ k \in 1..Len(events) /\ events[k].open
    /\ events' = [events EXCEPT ![k] = Registered(start)]
    /\ UNCHANGED <<row, file, queued, cufd, attempt, net, siat>>

RecordEvent(start) ==
    /\ Len(events) < MaxEvents
    /\ events' = Append(events, Registered(start))
    /\ UNCHANGED <<row, file, queued, cufd, attempt, net, siat>>

\* The SIAT decides about a document it received, once: a repeated reception of
\* the same code changes nothing.
Receive(c) ==
    /\ c \in net /\ siat[c] = "none"
    /\ \E verdict \in {"accepted", "observed", "rejected"} :
          siat' = [siat EXCEPT ![c] = verdict]
    /\ UNCHANGED <<database, file, attempt, net>>

\* An observed document is validated or rejected later.
Review(c) ==
    /\ siat[c] = "observed"
    /\ \E verdict \in {"accepted", "rejected"} : siat' = [siat EXCEPT ![c] = verdict]
    /\ UNCHANGED <<database, file, attempt, net>>

-----------------------------------------------------------------------------
Init ==
    /\ row = [i \in Invoices |-> [status |-> "PENDING", cuf |-> NoCuf, event |-> 0]]
    /\ file = [i \in Invoices |-> NoCuf]
    /\ queued = {}
    /\ events = << >>
    /\ cufd = 1
    /\ attempt = [e \in Emitters |-> Idle]
    /\ net = {}
    /\ siat = [c \in Cufs |-> "none"]

Online(e) ==
    \/ Claim(e) \/ ClaimFails(e) \/ Prepare(e) \/ Save(e) \/ Store(e)
    \/ StoreFails(e) \/ Unsave(e) \/ Dispatch(e) \/ Fail(e)
    \/ Rollback(e) \/ RollbackFails(e)
    \/ Answered(e) \/ SaveSigned(e) \/ Persist(e) \/ AnswerDropped(e)

Contingency(e) ==
    \/ ConnectivityLost(e) \/ Discard(e) \/ Clear(e) \/ JoinEvent(e)
    \/ NeedsEvent(e) \/ CreateEvent(e) \/ SaveOffline(e) \/ ToOffline(e)
    \/ ContingencyFails(e)

Emitter(e) == Online(e) \/ Contingency(e)

Environment ==
    \/ RenewCufd
    \/ \E start \in Starts :
          RecordEvent(start) \/ \E k \in 1..MaxEvents : CloseEvent(k, start)
    \/ \E c \in Cufs : Receive(c) \/ Review(c)

Next ==
    \/ \E e \in Emitters : Emitter(e) \/ Crash(e) \/ \E i \in Invoices : Start(e, i)
    \/ \E i \in Invoices : Reap(i)
    \/ Environment

Spec == Init /\ [][Next]_vars

\* The reaper's ticker fires for the life of the server, and a pass that fails is
\* followed by another.
ReaperTicks == \A i \in Invoices : WF_vars(Reap(i))

\* A request never stops between two calls unless it crashes, because every call
\* it makes has a timeout.
Fairness == ReaperTicks /\ \A e \in Emitters : WF_vars(Emitter(e))

FairSpec == Spec /\ Fairness

-----------------------------------------------------------------------------
(* Properties. *)

AttemptType == [pc : Steps \cup {"idle"}, inv : Invoices \cup {NoInvoice},
                doc : CufOrNone, created : BOOLEAN,
                outcome : Statuses \cup {"none"}, event : 0..MaxEvents]

(***************************************************************************)
(* Types, with the foreign key contingency_event_id: the event named by an *)
(* invoice, or about to be, exists.                                        *)
(***************************************************************************)
TypeOK ==
    /\ row \in [Invoices -> [status : Statuses, cuf : CufOrNone, event : 0..MaxEvents]]
    /\ file \in [Invoices -> CufOrNone]
    /\ queued \subseteq Invoices
    /\ events \in Seq([start : Nat, open : BOOLEAN]) /\ Len(events) <= MaxEvents
    /\ cufd \in 1..MaxCufd
    /\ attempt \in [Emitters -> AttemptType]
    /\ net \subseteq Cufs
    /\ siat \in [Cufs -> SiatStates]
    /\ \A i \in Invoices : row[i].event <= Len(events)
    /\ \A e \in Emitters : attempt[e].event <= Len(events)

(***************************************************************************)
(* The claim PENDING -> SENDING excludes concurrent emissions of one       *)
(* invoice, and whoever holds it finds the invoice SENDING.                *)
(***************************************************************************)
ExclusiveAttempt ==
    \A i \in Invoices : \A e, f \in Emitters :
        Holds(e, i) =>
            /\ row[i].status = "SENDING"
            /\ Holds(f, i) => e = f

(***************************************************************************)
(* When a document is handed to the SIAT its code is reserved in the row   *)
(* and its signed XML is stored ("adapters cannot contact SIAT until both   *)
(* storage writes pass"), and this stays so while the answer is awaited.   *)
(***************************************************************************)
DispatchedIsDurable ==
    \A e \in Emitters : attempt[e].pc \in {"dispatch", "await"} =>
        /\ row[Inv(e)].status = "SENDING"
        /\ row[Inv(e)].cuf = Doc(e)
        /\ file[Inv(e)] = Doc(e)

(***************************************************************************)
(* A settled invoice has a fiscal code, and the XML stored for it is the   *)
(* XML of that code.                                                       *)
(***************************************************************************)
FinalDocumentStored ==
    \A i \in Invoices : row[i].status \in Settled =>
        row[i].cuf # NoCuf /\ file[i] = row[i].cuf

(***************************************************************************)
(* The status of an invoice never runs ahead of the SIAT: what the row     *)
(* says of its code is something the SIAT has decided about that code.     *)
(***************************************************************************)
OutcomeMatchesSiat ==
    \A i \in Invoices :
        /\ row[i].status = "ACCEPTED" =>
              row[i].cuf # NoCuf /\ siat[row[i].cuf] \in {"accepted", "annulled", "reverted"}
        /\ row[i].status = "OBSERVED" =>
              row[i].cuf # NoCuf /\ siat[row[i].cuf] # "none"
        /\ row[i].status = "REJECTED" =>
              row[i].cuf # NoCuf /\ siat[row[i].cuf] = "rejected"
        /\ row[i].status = "CANCELLED" =>
              row[i].cuf # NoCuf /\ siat[row[i].cuf] \in {"annulled", "reverted"}

(***************************************************************************)
(* However often an invoice is sent, it is sent under one fiscal code ("a   *)
(* retry reuses its signed XML and its original CUFD"): the SIAT never      *)
(* receives two different documents for one sale.                          *)
(***************************************************************************)
ResendKeepsIdentity ==
    \A c, d \in net : c.inv = d.inv => c = d

(***************************************************************************)
(* A PENDING invoice nobody is emitting can be emitted: the document the   *)
(* next emission will save is not shut out by a stored XML of another code.*)
(***************************************************************************)
ReleasedCanBeReemitted ==
    \A i \in Invoices :
        row[i].status = "PENDING" /\ (\A e \in Emitters : Inv(e) # i) =>
            SaveResults(file[i], IF row[i].cuf = NoCuf
                                 THEN [inv |-> i, type |-> "ONLINE", cufd |-> cufd]
                                 ELSE row[i].cuf) # {}

(***************************************************************************)
(* Every invoice the SIAT took (accepted or observed) has its automatic    *)
(* mail queued, by the very step that settled it.                          *)
(***************************************************************************)
TakenHasMail ==
    \A i \in Invoices : row[i].status \in {"ACCEPTED", "OBSERVED"} => i \in queued

(***************************************************************************)
(* No late rollback, reaper pass or claim reopens a settled invoice.       *)
(***************************************************************************)
SettledNeverReopens ==
    [][\A i \in Invoices : row[i].status \in Settled => row'[i].status \in Settled]_vars

(***************************************************************************)
(* The fiscal code and the stored XML of a settled invoice never change.   *)
(***************************************************************************)
SettledIsFrozen ==
    [][\A i \in Invoices : row[i].status \in Settled =>
          row'[i].cuf = row[i].cuf /\ file'[i] = file[i]]_vars

(***************************************************************************)
(* A stored XML is removed only under the SENDING claim of its invoice     *)
(* ("the atomic SENDING claim owns this operation").                       *)
(***************************************************************************)
RemovalOwnedBySending ==
    [][\A i \in Invoices : file[i] # NoCuf /\ file'[i] = NoCuf =>
          row[i].status = "SENDING"]_vars

(***************************************************************************)
(* No invoice stays SENDING forever, whatever crashes or failed updates.   *)
(***************************************************************************)
SendingResolves ==
    \A i \in Invoices : row[i].status = "SENDING" ~> row[i].status # "SENDING"
=============================================================================
