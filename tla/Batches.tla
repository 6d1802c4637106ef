------------------------------- MODULE Batches ------------------------------
(***************************************************************************)
(* Mass emission (MASIVA) and packages of offline invoices (PAQUETE):      *)
(* requests that select invoices, group them into batches, store their     *)
(* documents, reserve them in a package, send it and record the answer,    *)
(* and requests that validate a package later, beside single emissions,    *)
(* the reaper and individual reconciliations of the same invoices.          *)
(*                                                                         *)
(* Invoices are numbered as invoice_number numbers them.  A fiscal code is  *)
(* the kind of emission and the CUFD it is computed from; an offline code   *)
(* implies the contingency event, which is taken as registered and closed.  *)
(***************************************************************************)
EXTENDS InvoiceStates, Integers, Sequences, FiniteSets, SequencesExt

CONSTANTS
    Invoices,     \* invoices of one point of sale, 1..n
    Requests,     \* concurrent EnviarMasiva, EnviarPaquete, Validar requests
    Sector,       \* what must agree in a batch: sector, type, modality, layout
    Adjustments,  \* sectors of adjustment notes, which no lot carries
    AirTickets,   \* sectors of air tickets, which only a mass emission carries
    Limit,        \* most invoices in one batch
    NoCuf,
    MaxCufd,      \* bound: CUFDs the point of sale goes through
    MaxPackages   \* bound: packages ever reserved

ASSUME InvoicesAssumption == Invoices \subseteq Nat /\ IsFiniteSet(Invoices)
ASSUME BatchBoundAssumption ==
    /\ Limit \in Nat \ {0} /\ MaxCufd \in Nat \ {0} /\ MaxPackages \in Nat

Codes == [type : {"ONLINE", "OFFLINE", "MASIVA"}, cufd : 1..MaxCufd]

ASSUME NoCodeAssumption == NoCuf \notin Codes

BatchKinds == {"MASIVA", "PAQUETE"}
PackageStatuses == {"SENDING", "UNKNOWN", "PENDING_VALIDATION", "ACCEPTED", "REJECTED"}
FinalPackage == {"ACCEPTED", "REJECTED"}
LotStates == {"none", "pending", "observed", "validated", "rejected"}

VARIABLES
    row,       \* invoices: status, reserved code, siat_reception_code stored
    file,      \* invoice_files: the code the XML of the invoice is stored under
    pkgs,      \* sent_packages with their sent_package_invoices, in order
    req,       \* local state of each request
    emitting,  \* invoices a single emission holds (module Emission)
    cufd,      \* the CUFD in force
    lot,       \* what the SIAT holds about each package
    siat       \* what the SIAT holds about each invoice's codes

bvars == <<row, file, pkgs, req, emitting, cufd, lot, siat>>

-----------------------------------------------------------------------------
NoAnswer == [status |-> "UNKNOWN", received |-> FALSE, to |-> {}]

NoRequest == [pc |-> "idle", kind |-> "MASIVA", todo |-> << >>, docs |-> << >>,
              saved |-> 0, made |-> {}, pkg |-> 0, answer |-> NoAnswer]

RAt(r, pc) == req[r].pc = pc
Batch(r) == Head(req[r].todo)
Members(p) == ToSet(pkgs[p].ids)
Live(p) == pkgs[p].status # "REJECTED"

\* The membership test of ReserveBatch, of the reaper and of the database
\* trigger: packages that are not rejected.
Reserved(i) == \E p \in DOMAIN pkgs : Live(p) /\ i \in Members(p)

\* The request goes on with its next batch, or ends.
NextBatchUnchecked(r) ==
    req' = [req EXCEPT ![r] = [NoRequest EXCEPT !.pc = "save", !.kind = req[r].kind,
                                 !.todo = Tail(req[r].todo), !.docs = req[r].docs]]
NextBatch(r) ==
    req' = [req EXCEPT ![r] =
              IF Len(@.todo) <= 1 THEN NoRequest
              ELSE [NoRequest EXCEPT !.pc = "save", !.kind = req[r].kind,
                                     !.todo = Tail(req[r].todo), !.docs = req[r].docs]]

-----------------------------------------------------------------------------
(* Selection and grouping. *)

\* selectBatchInvoices, with the document check of prepareInvoiceBatches.
Eligible(kind, i) ==
    /\ ~row[i].received
    /\ \/ kind = "MASIVA" /\ row[i].status = "PENDING" /\ row[i].cuf = NoCuf
       \/ /\ kind = "PAQUETE" /\ row[i].status = "OFFLINE"
          /\ row[i].cuf # NoCuf /\ file[i] = row[i].cuf

\* A mass emission builds new documents under the current CUFD; a package
\* carries the documents its invoices were issued with.
DocumentOf(kind, i) ==
    IF kind = "MASIVA" THEN [type |-> "MASIVA", cufd |-> cufd] ELSE row[i].cuf

(***************************************************************************)
(* prepareInvoiceBatches: in the order of the invoice numbers, each invoice *)
(* joins the last batch of its group (sector data and CUFD) or, if there is *)
(* none or it is full, starts a new one.                                   *)
(***************************************************************************)
SameGroup(docs, i, j) == Sector[i] = Sector[j] /\ docs[i].cufd = docs[j].cufd

JoinAnyGroup(docs, batches, i) ==
    IF batches = << >> \/ Len(batches[Len(batches)]) = Limit
    THEN Append(batches, <<i>>)
    ELSE [batches EXCEPT ![Len(batches)] = Append(@, i)]

JoinGroup(docs, batches, i) ==
    LET mine == {b \in DOMAIN batches : SameGroup(docs, batches[b][1], i)}
        last == CHOOSE b \in mine : \A c \in mine : c <= b
    IN IF mine = {} \/ Len(batches[last]) = Limit
       THEN Append(batches, <<i>>)
       ELSE [batches EXCEPT ![last] = Append(@, i)]

\* The invoices in the order of their numbers, which divides them into lots.
InvoiceOrder(ids) ==
    CHOOSE s \in SetToSeqs(ids) : \A j, k \in DOMAIN s : j < k => s[j] < s[k]

GroupIntoBatches(docs, ids) ==
    FoldLeft(LAMBDA batches, i : JoinGroup(docs, batches, i), << >>,
             InvoiceOrder(ids))

(***************************************************************************)
(* The adapter accepts a lot or refuses it: a lot has at most Limit         *)
(* documents of its sector; those of a mass emission are built under the    *)
(* lot's own CUFD, those of a package are stored offline documents.  The    *)
(* SIAT takes notes in no lot, and air tickets in no package.               *)
(***************************************************************************)
LotDocument(kind, doc) ==
    IF kind = "MASIVA" THEN doc.cufd = cufd ELSE doc.type = "OFFLINE"

WithinLimit(ids) == Len(ids) \in 1..Limit

\* validarIdentidadLote.
LotIsUniform(kind, docs, ids) ==
    /\ WithinLimit(ids) /\ IsInjective(ids)
    /\ \A i \in ToSet(ids) : Sector[i] = Sector[ids[1]] /\ LotDocument(kind, docs[i])

Refuses(kind, i) ==
    \/ Sector[i] \in Adjustments
    \/ kind = "PAQUETE" /\ Sector[i] \in AirTickets

LotIsValid(kind, docs, ids) ==
    LotIsUniform(kind, docs, ids) /\ ~Refuses(kind, ids[1])

\* prepareBatchPayloads prepares every lot before anything is reserved; one that
\* is refused ends the request.
AllPrepared(kind, docs, batches) ==
    \A b \in DOMAIN batches : LotIsValid(kind, docs, batches[b])

Documents(kind, ids) == [i \in ids |-> DocumentOf(kind, i)]

Select(r, kind, ids) ==
    LET docs == Documents(kind, ids)
        batches == GroupIntoBatches(docs, ids)
    IN
    /\ RAt(r, "idle")
    /\ ids # {} /\ \A i \in ids : Eligible(kind, i)
    /\ AllPrepared(kind, docs, batches)
    /\ req' = [req EXCEPT ![r] = [NoRequest EXCEPT !.pc = "save", !.kind = kind,
                                    !.todo = batches, !.docs = docs]]
    /\ UNCHANGED <<row, file, pkgs, emitting, cufd, lot, siat>>

-----------------------------------------------------------------------------
(* Documents, before anything is reserved. *)

\* SaveWithStatus: one XML per invoice, under a key that holds the code.
Stored(i, doc) == IF file[i] \in {NoCuf, doc} THEN {doc} ELSE {}

SaveDocument(r) ==
    LET i == Batch(r)[req[r].saved + 1] IN
    /\ RAt(r, "save")
    /\ \E doc \in Stored(i, req[r].docs[i]) : file' = [file EXCEPT ![i] = doc]
    /\ req' = [req EXCEPT ![r].saved = @ + 1,
                          ![r].made = IF file[i] = NoCuf THEN @ \cup {i} ELSE @,
                          ![r].pc = IF req[r].saved + 1 = Len(Batch(r)) THEN "reserve" ELSE @]
    /\ UNCHANGED <<row, pkgs, emitting, cufd, lot, siat>>

\* A save or the reservation fails; a cancelled request skips its batches.
GiveUpBatch(r) ==
    /\ req[r].pc \in {"save", "reserve"}
    /\ req' = [req EXCEPT ![r].pc = "clean"]
    /\ UNCHANGED <<row, file, pkgs, emitting, cufd, lot, siat>>

\* cleanupBatchDocuments: removes what this batch created, file by file; a
\* removal that fails is logged.
Cleanup(r) ==
    /\ RAt(r, "clean")
    /\ \/ /\ req[r].made = {}
          /\ NextBatch(r)
          /\ UNCHANGED file
       \/ \E i \in req[r].made :
             /\ req' = [req EXCEPT ![r].made = @ \ {i}]
             /\ \/ file' = [file EXCEPT ![i] = IF @ = req[r].docs[i] THEN NoCuf ELSE @]
                \/ UNCHANGED file
    /\ UNCHANGED <<row, pkgs, emitting, cufd, lot, siat>>

-----------------------------------------------------------------------------
(***************************************************************************)
(* ReserveBatch: one transaction that locks the invoices, checks that each *)
(* is still as it was selected and in no live package, and writes the      *)
(* package, its members and, for a mass emission, SENDING and the codes.    *)
(***************************************************************************)
Available(kind, doc, i) ==
    /\ ~row[i].received
    /\ \/ kind = "MASIVA" /\ row[i].status = "PENDING" /\ row[i].cuf = NoCuf
       \/ kind = "PAQUETE" /\ row[i].status = "OFFLINE" /\ row[i].cuf = doc

ReservableByStatus(r) ==
    \A i \in ToSet(Batch(r)) : Available(req[r].kind, req[r].docs[i], i)

Reservable(r) ==
    \A i \in ToSet(Batch(r)) :
        Available(req[r].kind, req[r].docs[i], i) /\ ~Reserved(i)
ReservedRow(kind, doc, fields) ==
    IF kind = "MASIVA" THEN [fields EXCEPT !.status = "SENDING", !.cuf = doc]
    ELSE fields

ReserveBatch(r) ==
    LET kind == req[r].kind
        ids == ToSet(Batch(r))
    IN
    /\ RAt(r, "reserve")
    /\ Len(pkgs) < MaxPackages
    /\ Reservable(r)
    /\ pkgs' = Append(pkgs, [kind |-> kind, ids |-> Batch(r), docs |-> req[r].docs,
                             status |-> "SENDING", received |-> FALSE, sent |-> FALSE])
    /\ row' = [i \in Invoices |-> IF i \in ids
                                  THEN ReservedRow(kind, req[r].docs[i], row[i])
                                  ELSE row[i]]
    /\ req' = [req EXCEPT ![r].pc = "send", ![r].pkg = Len(pkgs) + 1, ![r].made = {}]
    /\ UNCHANGED <<file, emitting, cufd, lot, siat>>

\* SendBulk, SendPackage.
SendBatch(r) ==
    /\ RAt(r, "send")
    /\ pkgs' = [pkgs EXCEPT ![req[r].pkg].sent = TRUE]
    /\ req' = [req EXCEPT ![r].pc = "await"]
    /\ UNCHANGED <<row, file, emitting, cufd, lot, siat>>

-----------------------------------------------------------------------------
(* Answers. *)

(***************************************************************************)
(* How an answer to the sending is read: a reception code with "transaccion" *)
(* is PENDING_VALIDATION, or ACCEPTED with code 908; 902 is REJECTED; any    *)
(* other answer is UNKNOWN, whether or not it holds a reception code.       *)
(***************************************************************************)
SendingAnswers(state) ==
    LET pending == [status |-> "PENDING_VALIDATION", received |-> TRUE, to |-> {"SENT"}]
        unclear == [NoAnswer EXCEPT !.received = TRUE]
    IN CASE state \in {"pending", "observed"} -> {pending, unclear}
         [] state = "validated" -> {[status |-> "ACCEPTED", received |-> TRUE, to |-> {"ACCEPTED"}]}
         [] state = "rejected"  -> {pending} \cup
               {[status |-> "REJECTED", received |-> rec, to |-> {"REJECTED"}] : rec \in BOOLEAN}
         [] OTHER -> {}

\* No answer arrives: the batch may have been received all the same.
Answer(r) ==
    /\ RAt(r, "await")
    /\ \E answer \in SendingAnswers(lot[req[r].pkg]) \cup {NoAnswer} :
          req' = [req EXCEPT ![r].pc = "update", ![r].answer = answer]
    /\ UNCHANGED <<row, file, pkgs, emitting, cufd, lot, siat>>

\* validateInvoiceBatch reads the package, which needs a reception code ...
ReadPackage(r, p) ==
    /\ RAt(r, "idle")
    /\ p \in DOMAIN pkgs /\ pkgs[p].received
    /\ req' = [req EXCEPT ![r].pc = "consult", ![r].pkg = p,
                          ![r].answer = [NoAnswer EXCEPT !.status = pkgs[p].status,
                                                         !.received = TRUE]]
    /\ UNCHANGED <<row, file, pkgs, emitting, cufd, lot, siat>>

\* ... and asks: 908 accepts, 902 rejects unless the package was read ACCEPTED,
\* anything else keeps the status that was read.
ObservedIsValidated(state, read) ==
    CASE state \in {"validated", "observed"} ->
            [read EXCEPT !.status = "ACCEPTED", !.to = {"ACCEPTED"}]
      [] state = "rejected" /\ read.status # "ACCEPTED" ->
            [read EXCEPT !.status = "REJECTED", !.to = {"REJECTED"}]
      [] OTHER -> read

ValidationAnswer(state, read) ==
    CASE state = "validated" ->
            [read EXCEPT !.status = "ACCEPTED", !.to = {"ACCEPTED"}]
      [] state = "rejected" /\ read.status # "ACCEPTED" ->
            [read EXCEPT !.status = "REJECTED", !.to = {"REJECTED"}]
      [] OTHER -> read

Consult(r) ==
    /\ RAt(r, "consult")
    /\ req' = [req EXCEPT ![r].pc = "update",
                          ![r].answer = ValidationAnswer(lot[req[r].pkg], @)]
    /\ UNCHANGED <<row, file, pkgs, emitting, cufd, lot, siat>>

-----------------------------------------------------------------------------
(***************************************************************************)
(* UpdateBatch: one transaction.  The reception code is immutable, a final *)
(* status only repeats itself, a status never goes back a stage, and every *)
(* member still SENDING, SENT or OFFLINE takes the answer's status through  *)
(* the table of permitted transitions, or the whole update fails.           *)
(***************************************************************************)
Stage(status) ==
    CASE status = "SENDING" -> 0
      [] status = "UNKNOWN" -> 1
      [] status = "PENDING_VALIDATION" -> 3
      [] OTHER -> 4

Open == {"SENDING", "SENT", "OFFLINE"}

BatchReason(to) ==
    CASE to = "SENT"     -> "BATCH_RESERVED"
      [] to = "ACCEPTED" -> "SIAT_ACCEPTED"
      [] OTHER           -> "SIAT_REJECTED"

Repeats(p, answer) == pkgs[p].status \in FinalPackage /\ answer.status = pkgs[p].status

AdvancesFreely(p, answer) == pkgs[p].received => answer.received

Advances(p, answer) ==
    /\ pkgs[p].received => answer.received
    /\ \/ Repeats(p, answer)
       \/ /\ pkgs[p].status \notin FinalPackage
          /\ Stage(pkgs[p].status) <= Stage(answer.status)

MembersPermit(p, answer) ==
    \A i \in Members(p), to \in answer.to :
        row[i].status \in Open \ {to} => CanTransition(row[i].status, to, BatchReason(to))

\* Members that reached a verdict of their own meanwhile are left alone.
SettlesSendingOnly(p, answer, i) ==
    answer.to # {} /\ i \in Members(p) /\ row[i].status = "SENDING"

Settles(p, answer, i) == answer.to # {} /\ i \in Members(p) /\ row[i].status \in Open

UpdateBatch(r) ==
    LET p == req[r].pkg
        answer == req[r].answer
    IN
    /\ RAt(r, "update")
    /\ Advances(p, answer)
    /\ IF Repeats(p, answer)
       THEN UNCHANGED <<row, pkgs>>
       ELSE /\ MembersPermit(p, answer)
            /\ pkgs' = [pkgs EXCEPT ![p].status = answer.status, ![p].received = answer.received]
            /\ row' = [i \in Invoices |->
                         IF Settles(p, answer, i)
                         THEN [row[i] EXCEPT !.status = CHOOSE to \in answer.to : TRUE,
                                             !.received = @ \/ answer.received]
                         ELSE row[i]]
    /\ NextBatch(r)
    /\ UNCHANGED <<file, emitting, cufd, lot, siat>>

\* The update is refused or fails: the answer is lost, the reservation stays.
UpdateFails(r) ==
    /\ req[r].pc \in {"update", "consult"}
    /\ NextBatch(r)
    /\ UNCHANGED <<row, file, pkgs, emitting, cufd, lot, siat>>

Crash(r) ==
    /\ ~RAt(r, "idle")
    /\ req' = [req EXCEPT ![r] = NoRequest]
    /\ UNCHANGED <<row, file, pkgs, emitting, cufd, lot, siat>>

-----------------------------------------------------------------------------
(* Single emissions, the reaper and individual reconciliations. *)

\* ProcessEmission claims a pending invoice (module Emission has its steps); it
\* leaves air tickets to the mass emission.
EmissionClaims(i) ==
    /\ row[i].status = "PENDING" /\ Sector[i] \notin AirTickets
    /\ row' = [row EXCEPT ![i].status = "SENDING"]
    /\ emitting' = emitting \cup {i}
    /\ UNCHANGED <<file, pkgs, req, cufd, lot, siat>>

OwnDocument(i) == IF row[i].cuf = NoCuf THEN [type |-> "ONLINE", cufd |-> cufd] ELSE row[i].cuf

Emitted(i) == i \in emitting /\ row[i].status = "SENDING"

\* Its XML is saved and its code reserved.
EmissionReserves(i) ==
    /\ Emitted(i)
    /\ \E doc \in Stored(i, OwnDocument(i)) :
          /\ file' = [file EXCEPT ![i] = doc]
          /\ row' = [row EXCEPT ![i].cuf = doc]
    /\ UNCHANGED <<pkgs, req, emitting, cufd, lot, siat>>

\* It is dispatched under the reserved code; the SIAT decides about it once.
EmissionDispatches(i) ==
    /\ i \in emitting /\ row[i].cuf # NoCuf /\ siat[<<i, row[i].cuf>>] = "none"
    /\ \E verdict \in {"accepted", "rejected"} :
          siat' = [siat EXCEPT ![<<i, row[i].cuf>>] = verdict]
    /\ UNCHANGED <<row, file, pkgs, req, emitting, cufd, lot>>

\* It ends with the SIAT's verdict, with a return to PENDING, or offline.
EmissionAnswered(i) ==
    /\ Emitted(i) /\ row[i].cuf # NoCuf /\ siat[<<i, row[i].cuf>>] # "none"
    /\ row' = [row EXCEPT ![i].status = EmissionOutcome(siat[<<i, row[i].cuf>>]),
                          ![i].received = TRUE]
    /\ emitting' = emitting \ {i}
    /\ UNCHANGED <<file, pkgs, req, cufd, lot, siat>>

EmissionRollsBack(i) ==
    /\ Emitted(i)
    /\ row' = [row EXCEPT ![i].status = "PENDING"]
    /\ emitting' = emitting \ {i}
    /\ UNCHANGED <<file, pkgs, req, cufd, lot, siat>>

EmissionGoesOffline(i) ==
    LET doc == [type |-> "OFFLINE", cufd |-> row[i].cuf.cufd] IN
    /\ Emitted(i) /\ row[i].cuf # NoCuf
    /\ row' = [row EXCEPT ![i].status = "OFFLINE", ![i].cuf = doc]
    /\ file' = [file EXCEPT ![i] = doc]
    /\ emitting' = emitting \ {i}
    /\ UNCHANGED <<pkgs, req, cufd, lot, siat>>

EmissionDies(i) ==
    /\ i \in emitting
    /\ emitting' = emitting \ {i}
    /\ UNCHANGED <<row, file, pkgs, req, cufd, lot, siat>>

\* ReleaseStaleSending leaves the invoices of a live package alone.
StaleBatchToo(i) == row[i].status = "SENDING" /\ i \notin emitting
Stale(i) == row[i].status = "SENDING" /\ i \notin emitting /\ ~Reserved(i)

Reap(i) ==
    /\ Stale(i)
    /\ row' = [row EXCEPT ![i].status = "PENDING"]
    /\ UNCHANGED <<file, pkgs, req, emitting, cufd, lot, siat>>

\* VerifyStatus asks for the invoice's own code; an unknown code changes nothing.
Reconcile(i) ==
    /\ row[i].cuf # NoCuf /\ i \notin emitting
    /\ \E estado \in SiatEstadoToDomain(siat[<<i, row[i].cuf>>]) :
          /\ CanTransition(row[i].status, estado, "SIAT_RECONCILIATION")
          /\ row' = [row EXCEPT ![i].status = estado]
    /\ UNCHANGED <<file, pkgs, req, emitting, cufd, lot, siat>>

RenewCufd ==
    /\ cufd < MaxCufd
    /\ cufd' = cufd + 1
    /\ UNCHANGED <<row, file, pkgs, req, emitting, lot, siat>>

-----------------------------------------------------------------------------
(* The SIAT. *)

\* The documents a package carries: the codes its members were reserved with.
Carries(p, i, c) == i \in Members(p) /\ c = pkgs[p].docs[i]

\* One verdict per code, decided when the lot is.
Judge(p, verdict) ==
    siat' = [k \in DOMAIN siat |->
               IF Carries(p, k[1], k[2]) /\ siat[k] = "none" THEN verdict[k[1]] ELSE siat[k]]

\* A lot is received at most once, and answered at once or left for validation.
ReceiveLot(p) ==
    /\ p \in DOMAIN pkgs /\ pkgs[p].sent /\ lot[p] = "none"
    /\ \E state \in {"pending", "validated", "rejected"} :
          /\ lot' = [lot EXCEPT ![p] = state]
          /\ CASE state = "validated" -> Judge(p, [i \in Members(p) |-> "accepted"])
               [] state = "rejected"  -> Judge(p, [i \in Members(p) |-> "rejected"])
               [] OTHER               -> UNCHANGED siat
    /\ UNCHANGED <<row, file, pkgs, req, emitting, cufd>>

\* Validation: all accepted, all rejected, or observed, invoice by invoice.
ValidateLot(p) ==
    /\ lot[p] = "pending"
    /\ \E verdict \in [Members(p) -> {"accepted", "rejected"}] :
          /\ Judge(p, verdict)
          /\ \E state \in {"validated", "rejected", "observed"} :
                /\ state = "validated" => \A i \in Members(p) : verdict[i] = "accepted"
                /\ state = "rejected" => \A i \in Members(p) : verdict[i] = "rejected"
                /\ state = "observed" => \E i \in Members(p) : verdict[i] = "rejected"
                /\ lot' = [lot EXCEPT ![p] = state]
    /\ UNCHANGED <<row, file, pkgs, req, emitting, cufd>>

-----------------------------------------------------------------------------
Init ==
    /\ row = [i \in Invoices |-> [status |-> "PENDING", cuf |-> NoCuf, received |-> FALSE]]
    /\ file = [i \in Invoices |-> NoCuf]
    /\ pkgs = << >>
    /\ req = [r \in Requests |-> NoRequest]
    /\ emitting = {}
    /\ cufd = 1
    /\ lot = [p \in 1..MaxPackages |-> "none"]
    /\ siat = [k \in Invoices \X Codes |-> "none"]

Request(r) ==
    \/ \E kind \in BatchKinds, ids \in SUBSET Invoices : Select(r, kind, ids)
    \/ SaveDocument(r) \/ GiveUpBatch(r) \/ Cleanup(r) \/ ReserveBatch(r)
    \/ SendBatch(r) \/ Answer(r)
    \/ \E p \in 1..MaxPackages : ReadPackage(r, p)
    \/ Consult(r) \/ UpdateBatch(r) \/ UpdateFails(r) \/ Crash(r)

Single(i) ==
    \/ EmissionClaims(i) \/ EmissionReserves(i) \/ EmissionDispatches(i)
    \/ EmissionAnswered(i) \/ EmissionRollsBack(i) \/ EmissionGoesOffline(i)
    \/ EmissionDies(i) \/ Reap(i) \/ Reconcile(i)

Next ==
    \/ \E r \in Requests : Request(r)
    \/ \E i \in Invoices : Single(i)
    \/ \E p \in 1..MaxPackages : ReceiveLot(p) \/ ValidateLot(p)
    \/ RenewCufd

Spec == Init /\ [][Next]_bvars

-----------------------------------------------------------------------------
(* Properties. *)

\* Types: the stored rows, the packages and the state of the requests.
TypeOK ==
    /\ row \in [Invoices -> [status : Statuses, cuf : Codes \cup {NoCuf}, received : BOOLEAN]]
    /\ file \in [Invoices -> Codes \cup {NoCuf}]
    /\ Len(pkgs) <= MaxPackages
    /\ \A p \in DOMAIN pkgs :
          /\ pkgs[p].kind \in BatchKinds /\ pkgs[p].status \in PackageStatuses
          /\ pkgs[p].ids # << >> /\ Members(p) \subseteq DOMAIN pkgs[p].docs
          /\ DOMAIN pkgs[p].docs \subseteq Invoices
    /\ \A r \in Requests :
          /\ req[r].pc \in {"idle", "save", "reserve", "clean", "send", "await",
                            "consult", "update"}
          /\ req[r].pc \in {"send", "await", "consult", "update"} => req[r].pkg \in DOMAIN pkgs
          /\ req[r].pc \in {"save", "reserve", "clean"} => req[r].todo # << >>
    /\ emitting \subseteq Invoices /\ cufd \in 1..MaxCufd
    /\ lot \in [1..MaxPackages -> LotStates]
    /\ siat \in [Invoices \X Codes -> {"none", "accepted", "rejected"}]

\* An invoice is in at most one package that is not rejected, whatever
\* requests selected it at the same time (ReserveBatch, sent_package_repo.go).
OneLivePackage ==
    \A p, q \in DOMAIN pkgs :
        p # q /\ Live(p) /\ Live(q) => Members(p) \cap Members(q) = {}

\* No single emission holds an invoice that is reserved in a package: the
\* reaper never frees a reserved one, nor does ReserveBatch take one in flight.
PackagedNotEmitted == \A i \in emitting : ~Reserved(i)

\* One package or one emission at a time holds an invoice.
HeldOnce == OneLivePackage /\ PackagedNotEmitted

\* Of one group, only the last lot has room left.
FullButLast(docs, batches) ==
    \A b, c \in DOMAIN batches :
        b < c /\ SameGroup(docs, batches[b][1], batches[c][1]) => Len(batches[b]) = Limit

\* Any selection is divided into uniform lots within the limit, as few as that
\* takes, which between them hold every selected invoice once; and the request
\* is refused for exactly one reason: it selects a document its kind of lot does
\* not carry, whatever lot that document ends up in (prepareInvoiceBatches,
\* prepareBatchPayloads and the adapter's checks of a lot).
SelectionIsSendable ==
    \A kind \in BatchKinds, ids \in SUBSET DOMAIN row :
        (\A i \in ids : Eligible(kind, i)) =>
        LET docs == Documents(kind, ids)
            batches == GroupIntoBatches(docs, ids)
        IN /\ \A b \in DOMAIN batches : LotIsUniform(kind, docs, batches[b])
           /\ FullButLast(docs, batches)
           /\ \A i \in ids :
                 Cardinality({b \in DOMAIN batches : i \in ToSet(batches[b])}) = 1
           /\ AllPrepared(kind, docs, batches) <=> \A i \in ids : ~Refuses(kind, i)

\* A taken or refused invoice has that very verdict from the SIAT under the
\* code it is stored with, whichever path brought it.
StatusBackedBySiat ==
    \A i \in DOMAIN row :
        /\ row[i].status = "ACCEPTED" => siat[<<i, row[i].cuf>>] = "accepted"
        /\ row[i].status = "REJECTED" => siat[<<i, row[i].cuf>>] = "rejected"

\* A package with a final status has settled every member with it
\* (UpdateBatch is one transaction).
FinalPackageSettles ==
    \A p \in DOMAIN pkgs : pkgs[p].status \in FinalPackage =>
        \A i \in Members(p) : row[i].status = pkgs[p].status

\* What a batch settles is what the SIAT answered, for every member.
VerdictsAreBacked == StatusBackedBySiat /\ FinalPackageSettles

\* The invoices of a live package keep the codes they were reserved with.
MembersKeepCodes ==
    \A p \in DOMAIN pkgs : Live(p) => \A i \in Members(p) : row[i].cuf = pkgs[p].docs[i]

\* Late answers never take a package back: not a stage, not out of a final
\* status, and a reception code is never lost (validateBatchStatus).
PackageAdvances ==
    [][\A p \in DOMAIN pkgs :
          /\ Stage(pkgs[p].status) <= Stage(pkgs'[p].status)
          /\ pkgs[p].status \in FinalPackage => pkgs'[p].status = pkgs[p].status
          /\ pkgs[p].received => pkgs'[p].received]_bvars

\* "Se persiste junto a la reserva para conciliar incluso un envio sin
\* respuesta": the signed XML of a reserved invoice stays stored ...
ReservedIsStored ==
    \A p \in DOMAIN pkgs : Live(p) =>
        \A i \in Members(p) : file[i] = pkgs[p].docs[i]

\* ... and an invoice whose package nobody works on can be reconciled with the
\* verdict the SIAT holds.
ReservedIsReconcilable ==
    \A p \in DOMAIN pkgs : \A i \in Members(p) :
        /\ Live(p) /\ row[i].status \in Open
        /\ \A r \in DOMAIN req : req[r].pkg # p
        => \A to \in SiatEstadoToDomain(siat[<<i, pkgs[p].docs[i]>>]) :
              CanTransition(row[i].status, to, "SIAT_RECONCILIATION")

\* A code is one of an invoice and of the reservation that computed it.
Ledger == INSTANCE InvoiceLedger WITH
    Codes <- Invoices \X Codes,
    CodesOf <- [i \in Invoices |-> {i} \X Codes],
    NoCode <- NoCuf,
    status <- [i \in Invoices |-> row[i].status],
    code <- [i \in Invoices |-> IF row[i].cuf = NoCuf THEN NoCuf ELSE <<i, row[i].cuf>>],
    verdict <- siat

(***************************************************************************)
(* Reserved and settled by the lot, raced by single emissions, the reaper   *)
(* and reconciliations, every invoice still moves along the table of        *)
(* allowedTransitions, keeps its code outside an emission, and says only    *)
(* what the SIAT has decided about that very code.                         *)
(***************************************************************************)
ImplementsLedger == Ledger!Spec
=============================================================================
