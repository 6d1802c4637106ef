# Supay: a TLA+ model of the fiscal back end

Supay issues electronic invoices for Bolivian companies: it stores invoices in
PostgreSQL, signs them as XML, stores the XML in an object store, sends them to
the tax office's web service (the SIAT), and keeps what the SIAT answered. An
invoice is known to the SIAT by its fiscal code (CUF), which is computed from
the invoice, the kind of emission (online or offline) and the daily code of the
point of sale (CUFD). This directory models the parts of `backend/internal` in
which several actors meet on one invoice, checks them with TLC and proves the
main results with TLAPS.

Paths below are relative to `src/backend/internal/` unless they start with
`backend/`.

## 1. Inventory

| component | state | operations | meets | correct when |
|---|---|---|---|---|
| invoice state machine (`domain/invoice_state.go`) | the table of permitted transitions | `CanTransition` | every writer of a status | no settled invoice reopens |
| drafts and notes (`usecase/invoice_usecase.go`, `invoice_simplifier.go`, `invoice_ajuste.go`, `domain/fiscal/`) | invoices, the row of `invoice_sequences` | simplify, fill in, check, number, insert | the corrected sale, the company's modality | dense numbers; one amount everywhere; a draft can be issued |
| emission (`usecase/emission*.go`) | row of the invoice, local state of the request | `ProcessEmission`: read, claim, prepare, save XML, reserve code, dispatch, persist the answer, roll back | SIAT, object store, reaper, other emissions, verification | one emission at a time; durable before dispatch; one code per sale; the row says what the SIAT decided |
| offline contingency (`usecase/emission_contingency.go`) | contingency events | discard the online document, open or join an event, save the offline document | emission, events, files | either OFFLINE with its document and event, or PENDING and emittable again |
| invoice files (`usecase/invoice_files.go`, `adapters/storage/`) | `invoice_files`, one row per invoice and kind, and objects | `SaveWithStatus`, `RemoveCreated` | emission, batches, mail | the stored XML is the XML of the invoice's code; no row without its object |
| reaper (`app/reaper.go`) | none of its own | `ReleaseStaleSending` every 5 minutes for rows SENDING for 10 | emission, batches | no invoice is SENDING forever; a live emission and a live package are left alone |
| verification, annulment, reversal (`usecase/invoice_status.go`) | status, reason and date of annulment | `VerifyStatus`, `Annul`, `RevertAnnul` | SIAT, emission, each other | verdicts only advance; a settled document is frozen |
| contingency events (`usecase/siat_events.go`, `repository/postgres/contingency_event_repo.go`) | events of a point of sale | open, join, register and close | contingency, packages | a synced event is one the SIAT registered, once, with a sound window |
| batches (`usecase/siat_batch*.go`, `repository/postgres/sent_package_repo.go`) | packages, their invoices | select, group, store, reserve, send, validate | rows, reaper, SIAT, single emissions | an invoice is in at most one live package; a lost answer keeps the reservation |
| mail (`invoiceemail/`, `invoice_email_notification_repo.go`) | notification rows | queue with the status, claim, publish, deliver, mark | status transactions, Cloud Tasks | a mail for every invoice the SIAT took; claims are exclusive |
| emission queue (`emissionqueue/`, `outbox_repo.go`) | outbox rows, jobs | enqueue, claim, publish, mark, work | emission, River | every event reaches River, and its job ends |
| circuit breaker, rate limiter (`emissionqueue/circuit_breaker.go`, `limiter.go`) | per tenant | allow, success, failure, abort | worker | probes of an open circuit are a cooldown apart, and one at a time; no window exceeds the burst |
| credentials (`usecase/credentials.go`) | CUIS, CUFD rows | ensure, refresh, renew | emission, batches, scheduler, edits | one CUFD in force |
| certificates (`usecase/certificate_usecase.go`, `adapters/siat/provider.go`) | rows, P12 files, cached clients | create, update, revoke, build and cache a client | emissions, other processes | one active certificate, its file present; a replaced one is not used for ever |
| certificate alerts (`usecase/maintenance.go`, `maintenance_repo.go`) | notification rows | expire, claim, call the webhook, mark | other replicas | each threshold alerted once |
| catalogues (`usecase/siat_sync.go`, `adapters/siat/sync`) | versions, sync state | download, replace, record | drafts | a point of sale that may draft has its catalogues |
| SIAT adapter (`adapters/siat/`) | none | what each call carries | all of the above | one document, one service, one amount |
| customers, companies, branches, points of sale | rows | CRUD | credentials, drafts | partly modelled: the edits that race credentials, the customer a draft inserts |
| HTTP, authentication, API keys; PDF, storage drivers, crypto, configuration | - | - | - | not modelled (section 6) |

What is hard here: every operation is a sequence of calls to the database, the
object store and the SIAT, with nothing held between them except the `SENDING`
status; any call can fail, lose its answer or be cut by a crash; the CUFD
changes daily, so rebuilding a document gives it another code; and the reaper,
the verification and a second request reach the same row in between. The
hazards, each at its line, are in `PROJECT.json`.

## 2. Modules

| module | models | notes |
|---|---|---|
| `InvoiceStates` | statuses, transition table, the mappings of the SIAT's codes (`emissionOutcome`, `siatEstadoToDomain`) | operators, used by every module about invoices |
| `FiscalRecord` | what emission promises: an invoice is taken, given back, or settled in one step | abstract |
| `InvoiceLedger` | what the database says of every invoice for life: moves of the transition table, a code of its own, verdicts the SIAT gave | abstract; implemented by `Emission`, `Lifecycle` and `Batches` |
| `Emission` | emission, contingency, reaper, files as one step | the core, below |
| `EmissionRecord` | `Emission` implements `FiscalRecord` and `InvoiceLedger` | the refinement mappings |
| `Lifecycle` | `VerifyStatus`, `Annul`, `RevertAnnul` beside emissions | extends `EmissionRecord` |
| `Batches` | mass emission, offline packages, their validation | with single emissions, reaper and reconciliations in short form |
| `ContingencyEvents` | events of a point of sale, time in ticks | several emissions and two registrations at once |
| `InvoiceFiles` | `SaveWithStatus`, `RemoveCreated`, one call at a time | object, local digest file and row apart |
| `InvoiceMail` | claims, Cloud Tasks, deliveries | lock timeouts, deaths, retries, lost answers |
| `EmissionQueue` | outbox, dispatchers, River job of one invoice | `ProcessEmission` reduced to claim and result |
| `EmissionWorker` | breaker and limiter of one tenant | time in ticks |
| `Credentials` | CUIS and CUFDs of one point of sale | callers, scheduler, edits, ageing |
| `Certificates` | rows, P12 files, cached clients | several processes |
| `CertificateAlerts` | the alerts of one certificate | several replicas |
| `CatalogSync` | downloads of the catalogues and the readiness of a point of sale | |
| `Sectors`, `DraftRequests` | the catalogue of sectors, amounts, the simplifier, the copying of notes, the checks of `Create` | operators |
| `Drafts` | concurrent creations at one point of sale | numbering under the locked row |
| `Documents` | what each call about a document carries, and to which service; the amounts calculated at each stage | every sector, either modality; extends `Drafts` for the way from a request to a draft |
| `DraftBodies` | the requests and sales tried with them | inputs |
| `Delivery` | files, mails, outbox and worker side by side | composes `InvoiceFiles`, `InvoiceMail`, `EmissionQueue`, `EmissionWorker` |
| `Operations` | what the emissions of a company rest on | composes `Credentials`, `ContingencyEvents`, `Certificates`, `CertificateAlerts`, `CatalogSync`, `Drafts`, `Documents` |
| `MCEmission`, `MCLifecycle`, `MCBatches`, `MCOperations` | constants, bounds and fairness for TLC | |
| `EmissionProofs`, `EmissionDocumentProofs`, `LifecycleProofs` | theorems about `Emission`, `EmissionRecord`, `Lifecycle` | each extends the one before; the refinements of `FiscalRecord` and `InvoiceLedger` |
| `BatchGroupingProofs`, `BatchesProofs` | theorems about `Batches`: what a grouping is; the invariants; the ledger | |
| `DocumentsProofs`, `OperationsProofs` | theorems about `Drafts` and `Documents`; about `Operations` | |
| `DeliveryProofs` | theorems about `EmissionQueue` and `Delivery` | |

### The core

Each action of `Emission` is what a request does between two calls that another
actor can observe:

| actions | code |
|---|---|
| `Start`, `Claim`, `ClaimFails` | the read and guards of `ProcessEmission`; `ClaimForEmission` |
| `Prepare`, `Save`, `Store`, `StoreFails`, `Unsave`, `Dispatch` | the stages of `dispatchInvoiceEmission`, with the compensation of a failed reservation |
| `Fail`, `Rollback`, `RollbackFails` | error returns and the `rollback` closure |
| `Answered`, `SaveSigned`, `Persist`, `AnswerDropped` | the answer, `persistSignedXML`, `persistResultadoConReintentos` |
| `ConnectivityLost`, `Discard`, `Clear`, `JoinEvent`, `NeedsEvent`, `CreateEvent`, `SaveOffline`, `ToOffline`, `ContingencyFails` | `processOfflineContingency`, `discardOnlinePreparation`, `openConnectivityContingency` |
| `Crash` | the process dies, at any step |
| `Reap`, `RenewCufd`, `CloseEvent`, `RecordEvent` | reaper, `EnsureCufd`, `RegistrarEventoSignificativo` |
| `Receive`, `Review` | the SIAT (external) |

| variable | code |
|---|---|
| `row` | `invoices`: status, reserved code (`cuf`, `archivo`, `hash_archivo`, `cufd_id` move together), `contingency_event_id` |
| `file` | the `xml` row of `invoice_files`: the code in its storage key |
| `queued` | `invoice_email_notifications` written with the status |
| `events`, `cufd` | `contingency_events`; the active CUFD |
| `attempt` | the local variables of each running `ProcessEmission` |
| `net`, `siat` | the codes handed to the SIAT, and its verdicts |

A fiscal code is the record `[inv, type, cufd]` it is computed from, so "the
same document" is "the same code": signed bytes, hashes and archives are
functions of it. `Start` keeps the document it read, as the code does: the claim
does not read the row again. `Lifecycle` adds operators that run each operation
as read, call, apply, and the stored reason of the annulment (`motivo`).

### The refinements

`FiscalRecord` has four variables and six actions: what a reader of the
database may rely on. `EmissionRecord` maps the status and code columns, the
SIAT's verdicts and the queued mails to them, and hides files, events, CUFDs and
requests. `Persist` is one `Settle` (status, code and mail in the transaction of
`TransitionStatus`); `Store`, `Clear` and the like are `Reserve`; `Reap` and
`Rollback` are `GiveBack`; everything else is a stutter. A version of `Persist`
that queued the mail of accepted invoices only is caught here.

`InvoiceLedger` says less of an emission and more of everything else: three
variables (status and code of each invoice, verdict of each code) and one step in
which any number of rows move. Each row rests, exchanges its code under the
SENDING claim, or moves along the table of `InvoiceStateMachine`; a status that
repeats a verdict (ACCEPTED, OBSERVED, REJECTED, CANCELLED) must be one the
SIAT's decision about that very code lets it have. It takes no notice of who
writes, so three specifications implement it: the emission, the emission with
the operators' requests beside it (the same mapping), and the batches, which
reserve and settle many rows in one transaction. A `Persist` that forgot the
status it had read, or (in the proof) an `UpdateBatch` that settled also the
members an individual verification had settled before, is caught here.

### How the others correspond to the code

* `Batches`: `Select` is `selectBatchInvoices` with `prepareInvoiceBatches` and
  `prepareBatchPayloads`; `SaveDocument`, `GiveUpBatch`, `Cleanup` the documents
  and `cleanupBatchDocuments`; `ReserveBatch` and `UpdateBatch` are one
  transaction each; `Answer`, `ReadPackage`, `Consult` the ways an answer is
  read. `EmissionClaims` ... `EmissionDies`, `Reap` and `Reconcile` are the other
  writers of the same rows, in fewer steps than in their own modules.
* `InvoiceFiles` takes apart the save and removal that `Emission` does in one
  step. `InvoiceMail` and `EmissionQueue` treat Cloud Tasks and River as
  external: what they keep, retry and lose is stated at the head of the module.
* `Documents` records every call made for a document with the service that
  received it, and calculates its amounts at each of the places where the code
  does. `Drafts` uses the same operators (`Sectors`, `DraftRequests`) for what
  two concurrent requests leave.

Abstractions to keep in mind. In `Emission`, saving is one step on the file row.
`CloseEvent` closes any open event, for the one read before the call to the SIAT
need not be the latest any more. Drafts are taken without a fiscal code of their
own (a client may send one). The PDF is generated after the result is stored and
changes none of these variables. The adapter is the staged one the server builds
(`ports.FiscalEmissionPipeline`), not the older single call. `Batches` takes the
event of a package as registered and closed; `ContingencyEvents` has the rest of
that story.

## 3. Runs

| run | checks | shows |
|---|---|---|
| `emission` | `TypeOK`, `ExclusiveAttempt`, `DispatchedIsDurable`, `FinalDocumentStored`, `RemovalOwnedBySending`, `SendingResolves` | emission with contingency, crashes, failures and the reaper, as long as no emission outlives the reaper's ten minutes |
| `emission_slow` | `OutcomeMatchesSiat`, `ImplementsRecord`, `ImplementsLedger` | what still holds when one does: the abstract record, which reopens no settled invoice, and the ledger |
| `lifecycle` | `LTypeOK`, `SettledIsBacked`, `ResendKeepsIdentity`, `SettledIsFrozen`, `ImplementsLedger` | two operators beside two emitters, without contingency |
| `batches` | `TypeOK`, `HeldOnce`, `MembersKeepCodes`, `VerdictsAreBacked`, `SelectionIsSendable`, `PackageAdvances` | concurrent batch requests beside single emissions, reaper and reconciliations |
| `delivery` | `DeliveryTypeOK`, `RowHasObject`, `MailHandOff`, `LateMarksTakeNothingBack`, `PublishedWasRequested`, `WorkDrains`, `AdmissionHolds` | files, mails, the queue and its worker |
| `operations` | `OperationsTypeOK`, `OneActive`, `RefStored`, `CredentialsRecover`, `AlertOnce`, `SyncedIsRegistered`, `ReadyWasStored`, `RoutesAgree`, `AmountsAgree`, `DraftHasRoute`, `DenseNumbers`, `NoteMatchesReference` | credentials, certificates, alerts, events, catalogues, drafts and documents |
| `emission_resend` | `ResendKeepsIdentity` is violated | a failed contingency forgets a code that was dispatched |
| `emission_release` | `ReleasedCanBeReemitted` is violated | a crash between save and reservation, then a new CUFD: every later save is refused |
| `lifecycle_removal` | `RemovalOwnedBySending` is violated | the contingency removes the XML of an invoice a verification had settled |
| `lifecycle_motivo` | `AcceptedHasNoMotivo` is violated | a reconciliation reinstates the invoice and keeps the reason of its annulment |
| `batches_stored` | `ReservedIsStored` is violated | a request that loses the reservation removes the XML that the winner reserved and sends |
| `drafts_full_return` | `PreviewedIsCreatable` is violated | a note that omits its lines is previewed, simplified, and then refused |

`CHECK_DEADLOCK FALSE` throughout: a settled invoice, a drained queue or a bound
that is spent with no operation left is a legitimate end.

### Scenes and bounds

Components that share no state are explored side by side in one run. `Delivery`
and `Operations` compose them: the variable `scene`, chosen in the initial state
and never changed, says which component moves and under which restriction
(attempts that keep to their locks, one editor at a time, one download), and the
others stay in their initial state. So a run explores the sum of its scenes, not
their product, a property of a component is checked in the scenes that use it,
and scenes that differ by a restriction share one instance. The scenes of
`batches` are restrictions of its one specification by guards, with constants as
large as the largest scene needs.

* `emission`, `emission_slow`, `lifecycle`: one invoice, two emitters (two
  operators). The guarded resources (row, file, claim) are per invoice, and what
  two invoices share (events, CUFD) is only read or appended to, so one invoice
  reaches every interleaving on a row; the proofs cover any number.
  `MaxCufd = 2` is one renewal, enough to give a rebuilt document another code.
* `batches`: `race` (one invoice, two requests, two packages, two CUFDs) lets a
  rejected package be followed by another; `pair` (two invoices, one package)
  lets selections overlap in part and members differ in verdict, and a single
  emission of the second invoice only goes offline, fails or dies; `group` (four
  invoices of sectors 1, 1, 24, 1, lots of two, one request) fills a lot and
  opens the next of its group, with a note among the selected
  (743,618 states together).
* `delivery`: `store` and `local` (one caller, `local` over the store with a
  digest file beside the object); `slow` and `timely` (one mail, two dispatchers
  and two workers, locks outlived or not) and `batch` (two mails claimed at
  once), with three tries of a task, few enough to spend them all within the five
  failures of `slow`; `queue` and `drains` (two requests of one invoice, two dispatchers,
  locks outlived or not, two attempts); `worker` (three jobs, enough for a late
  result beside a probe, threshold and burst of two, seven ticks, panics at any
  time): 236,407 states.
* `operations`: `codes` (a request beside the scheduler and edits, one renewal of
  the CUIS and of the CUFD), `window` (one invoice, two registrations, two
  events), `signing` (two processes, one edit at a time) and `edits` (two at
  once), `alerts` (two replicas, all four stages, one fault), `download` and
  `twice` (one or two downloads), `routes` (every sector and layout of the
  catalogue, each modality), `drafting` (two requests at one point of sale):
  913,813 states.

`MaxFaults` bounds the failures, deaths and lost answers of a component in one
behaviour; the values let each kind of fault meet another.

`SlowAttempts`. The HTTP server writes its answer within 60 seconds and the SIAT
client gives up after 45 (`app/http.go:60`, `config/config.go:198`); Cloud Run
cuts a request at 120 seconds (`backend/PLAN_FIXES_4_CRITICOS_CLOUDRUN.md:76`).
So an emission normally ends long before the reaper's ten minutes, and
`SlowAttempts = FALSE` says so: the reaper takes only invoices nobody is
emitting. No code enforces it, though (a suspended instance resumes where it
stopped), and `SlowAttempts = TRUE` drops the assumption. Then exclusion fails by
design, and with it `FinalDocumentStored`: the slow emission's failed
reservation removes an XML that the newer emission, under the same code, is
about to settle with. What must survive is in `emission_slow`. `Slow`,
`SlowDispatch` and `SlowDelivery` are the same switch for the locks of the
outbox and of the mails.

`OfflineCapable` is whether the adapter prepares offline documents and the
contingency repository is configured, the two early returns of
`processOfflineContingency`. `lifecycle` runs with it off, because on, the two
findings about the contingency break three of its properties.

Symmetry is used in runs without liveness only.

### Fairness

* `SendingResolves`: weak fairness of each emission's own steps, because every
  call it makes has a timeout and its error path continues the request; weak
  fairness of the reaper for each invoice, because its ticker fires for the life
  of the server and a pass takes every stale row. Neither the SIAT, a renewal nor
  a new request is assumed to happen. A crash ends an emission; the reaper does
  the rest.
* `WorkDrains`: Cloud Scheduler calls the mail dispatcher again and again and
  Cloud Tasks tries a task again as long as it keeps it; the outbox
  dispatcher polls, River works every job until it ends, and a direct emission
  ends or is reaped. Cloud Tasks gives a task up after `MailTries` failed answers
  (12 in the deployed queue, `backend/docs/invoice-email-cloud.md:50`), so the
  property promises a mail that is sent, or that was tried that often, or whose
  invoice was annulled meanwhile. Only with locks that are kept to: outlived ones may starve
  each other.
* `CredentialsRecover`: the scheduler runs every hour and its calls end; a
  client being built is built or fails, and a cache entry ends after ten
  minutes. `AlertOnce` needs no fairness.

## 4. Proofs

`tlapm` checks these for all values of the constants that satisfy the
assumptions of the modules. Every safety invariant and action property that a
passing run checks is stated by one of them, and so are both refinements.
`SettledNeverReopens`, `VerdictsOnlyAdvance`, `TakenHasMail`, `PublishedStays` and
the ledger of `Batches` are stated by theorems only: the first two also follow
from the refinements, and TLC agrees with the last on the instance of `batches`,
but takes half as long again to check it.

| module | theorem | statement |
|---|---|---|
| `EmissionProofs` | `TypeCorrect` | `Spec => []TypeOK` |
| | `NeverReopened` | `Spec => SettledNeverReopens` |
| | `NeverAheadOfSiat` | `Spec => []OutcomeMatchesSiat` |
| | `ClaimExcludes` | `~SlowAttempts => (Spec => []ExclusiveAttempt)` |
| `EmissionDocumentProofs` | `SettledIsStored` | `~SlowAttempts => (Spec => []FinalDocumentStored)` |
| | `DurableBeforeDispatch` | `~SlowAttempts => (Spec => []DispatchedIsDurable)` |
| | `RemovalUnderClaim` | `~SlowAttempts => (Spec => RemovalOwnedBySending)` |
| | `OneCodePerInvoice` | `~SlowAttempts /\ ~OfflineCapable => (Spec => []ResendKeepsIdentity)` |
| | `RecordImplemented` | `Spec => ImplementsRecord` |
| | `MailIsQueued` | `Spec => []TakenHasMail` |
| | `LedgerImplemented` | `Spec => ImplementsLedger` |
| `LifecycleProofs` | `LifecycleTypes` | `LSpec => []LTypeOK` |
| | `VerdictsAdvance` | `LSpec => VerdictsOnlyAdvance` |
| | `SettledStaysBacked` | `~SlowAttempts /\ ~OfflineCapable => (LSpec => []SettledIsBacked)` |
| | `OneCodeForLife` | `~SlowAttempts /\ ~OfflineCapable => (LSpec => []ResendKeepsIdentity)` |
| | `SettledStaysFrozen` | `~SlowAttempts /\ ~OfflineCapable => (LSpec => SettledIsFrozen)` |
| | `LifeImplementsLedger` | `~SlowAttempts /\ ~OfflineCapable => (LSpec => ImplementsLedger)` |
| `BatchesProofs` | `BatchesAreTyped` | `Spec => []TypeOK` |
| | `OneHolder` | `Spec => []HeldOnce` |
| | `PackagesAdvance` | `Spec => PackageAdvances` |
| | `BatchVerdicts` | `Spec => []VerdictsAreBacked` |
| | `ReservedCodesStay` | `Spec => []MembersKeepCodes` |
| | `SelectionsAreSendable` | `Spec => []SelectionIsSendable` |
| | `BatchesImplementLedger` | `Spec => ImplementsLedger` |
| `DeliveryProofs` | `NoPhantomPublication` | `Spec => []PublishedWasRequested` (`EmissionQueue`) |
| | `PublishedIsFinal` | `Spec => PublishedStays` (`EmissionQueue`) |
| | `DeliveryIsTyped` | `DeliverySpec => []DeliveryTypeOK` |
| | `ListedIsStored` | `DeliverySpec => []RowHasObject` |
| | `MailsAreHandedOff` | `DeliverySpec => []MailHandOff` |
| | `LateMarksAreFenced` | `DeliverySpec => LateMarksTakeNothingBack` |
| | `AdmissionIsBounded` | `DeliverySpec => AdmissionHolds` |
| `OperationsProofs` | `OperationsAreTyped` | `OperationsSpec => []OperationsTypeOK` |
| | `OneOfEach` | `OperationsSpec => []OneActive` |
| | `RowsHaveFiles` | `OperationsSpec => []RefStored` |
| | `AlertedOnce` | `OperationsSpec => []AlertOnce` |
| | `EventsAreRegistered` | `OperationsSpec => []SyncedIsRegistered` |
| | `ReadinessIsEarned` | `OperationsSpec => []ReadyWasStored` |
| | `NumbersAreDense` | `OperationsSpec => []DenseNumbers` |
| | `NotesAreOfTheirSale` | `OperationsSpec => []NoteMatchesReference` |
| | `CallsFollowTheDraft` | `OperationsSpec => []RoutesAgree` |
| | `AmountsAreOne` | `OperationsSpec => []AmountsAgree` |
| | `DraftsAreNotStuck` | `OperationsSpec => []DraftHasRoute` |

**Assumptions.** Bounds and dates are numbers, null values lie outside their
sets, and the actors a restricted scene names belong to the set of actors.
`Batches` takes the selection from a finite set of numbered invoices, for the
code sorts the ids. `DraftsAssumption` and `DocumentsAssumption` say that a
request and a sale have their fields and that amounts are whole thousandths or
cents; nothing is assumed of what the requests ask for. The compositions have
one named assumption each (`DeliveryAssumption`, `OperationsAssumption`), the
conjunction of their components'. TLC evaluates all of them in the runs.

**Emission.** `TypeOK` alone is not inductive: a step that uses an emission's
document must know that it is a code, so `TypeInv` adds `BoundDocs` (past the
preparation the document is a fiscal code, and a running emission has an
invoice). Frame lemmas (`RowFrame`, `FileFrame`, `SiatFrame`, `OwnSteps`) say
once which actions change which variable, and every later proof splits on those
few. `NeverReopened` is then the transition table: from a settled status every
permitted edge in use leads to a settled status. `NeverAheadOfSiat` is
strengthened with what an emission carries between the answer and the update
(`VerdictInv`): the outcome it holds is backed by the SIAT's verdict, and
verdicts only advance. `ClaimExcludes` (`HeldTaken`) needs only that a new holder
appears by a claim of a PENDING row, and that SENDING is left by the holder or,
when nobody holds it, by the reaper. Given exclusion, the row and the file of an
invoice are private to its holder (`HolderUndisturbed`), and `StoringInv` says
what each step of the holder knows of them: after `Save` the file is its
document, after `Store` so is the row, up to the discard. A compensation is then
one of the holder, which is `RemovalUnderClaim`. `OneCodePerInvoice` strengthens
to `IdentityInv`: the row of a dispatched code still holds that code, the XML of
a reserved code is the stored one, and an XML is only compensated before any code
was reserved; then a second code has no stored XML to be saved beside. It needs
the contingency switched off, for `emission_resend` shows that it fails with it.

**Refinement.** Every step maps to a step of `FiscalRecord` or a stutter, under
`TypeInv`, `VerdictInv`, `OwnInv` (the codes in a row and in the hands of an
emission are codes of that very invoice) and `SiatInv` (nothing is annulled while
invoices are only emitted). `MailIsQueued` is an invariant of the abstract record
carried back through the mapping.

**The ledger.** `LedgerImplemented` has no hypothesis: slow emissions and the
contingency break exclusion, not the ledger. `RowMoves` sorts what a step does to
a row into four cases (kept, recoded under the claim, taken or given back, ended
with the outcome an emission carried), `RowsApart` that no step writes a row and
a verdict at once, so `VerdictInv` justifies what an ended row says. In
`Lifecycle` a step of the emission is that same step, and a step of an operator
moves one row by an edge of the table while keeping its code (`ApplyMoves`), to a
status `OpBacked` backs, or makes the SIAT decide (`RequestDecides`). Its two
hypotheses are those of `LifeInv`, from which `OpBacked` comes, and TLC finds a
counterexample without either (section 5). In `Batches` many rows move at once:
`ReserveMoves` and `UpdateMoves` say of each member that its edge is permitted
(the guard `MembersPermit` was evaluated for it in the same transaction) and its
code the one reserved, and `LotsJudged` with `AnswersBacked`, in `BatchInv`, that
the SIAT judged that very code.

**Lifecycle.** `LInv` adds to the invariants of the emission that a running
operation holds a code of the invoice it read. The transition table then gives
`VerdictsAdvance`: only a reinstatement leaves CANCELLED, and nothing leaves
REJECTED, whichever of the actors writes. The other three are the emission's
arguments again with operators beside it. `LifeInv` joins `HeldTaken`,
`StoringInv`, `IdentityInv` and `VerdictInv` with `OpBacked` (the code a running
operation asked about is still its invoice's, and what it may write is backed by
the SIAT's verdict, although another may have annulled or reinstated it since)
and with the fact that without contingency no row is OFFLINE. The two hypotheses
are those of the run `lifecycle`; `lifecycle_removal` and `emission_resend` show
that they are needed.

**Batches.** `HeldOnce` is not inductive: a claim takes any PENDING row, and a
reservation any row its guard admits. `HoldInv` adds that a row in a live package
is never PENDING (`ReservedTaken`) and that a row an emission holds is SENDING
(`EmittedSending`), which needs in turn that no answer ever carries PENDING and
that a request past its reservation names an existing package. The same invariant
supports `PackagesAdvance`. `BatchInv` adds `BatchTypes` and `BackInv`: no two
packages, not even a rejected one, share an invoice (`Apart`), a member's row
holds the code its package reserved (`MemberRows`), the SIAT judges the codes of
packages by the lot (`LotsJudged`), and an answer in the hands of a request is
its lot's verdict (`AnswersBacked`). `SelectionsAreSendable` rests on
`BatchGroupingProofs`, which proves for every selection and every limit that the
groups of `prepareInvoiceBatches` are uniform lots within the limit, all but the
last of a group full, that hold each selected invoice once; so the adapter
accepts them all precisely when nothing it refuses was selected. The code's loop is a fold over the sorted ids; what it
leaves at each id is proved by the least counterexample (a non-empty set of
naturals has a least element, from the library's well-foundedness of `<`), which
stands in for the induction the prover cannot instantiate.

**Delivery.** One invariant per component, with no state in common. *Files*
(`SaverInv` and, for the local store, `LinkInv`; one caller): what the call wrote
or found is stored, and what it may have to remove is not the listed one; over the
local store that is said of the key only, not of the digest (section 5).
*Mails*: `HandInv` says that a task is done only when its row is SENT, that what a
dispatcher has published has a task, and that a row handed over has a live one or
one given up after `MailTries` failed answers (`TriesInv`);
`OneInv`, with locks that are kept to, that each delivery has its row to itself
and, while nothing failed, that a mailed row is SENT or about to be. *Queue*:
`OutboxInv` adds that a dispatcher about to mark an event published has handed it
to River, `JobInv` that a waiting job has attempts left. *Admission*
(`AdmissionInv`): what was sent beyond the rate and the tokens the bucket would
have now do not exceed the burst, and (`ProbeInv`) a probe runs only while the
circuit is half-open, unless a stray result reopened or closed it meanwhile, and
the circuit opens again no earlier than a cooldown after the last probe. Keeping to
locks is a restriction of the other behaviours (`DrainsIsNext`, `TimelyIsLate`),
so one invariant serves both scenes.

**Operations.** `OperationsInv` is the conjunction of the components'
invariants; a step of one component leaves the others' variables alone.
*Credentials* (`CodesInv`): one stored CUFD is active, and a code on its way to
the database is one the SIAT issued. *Events* (`EventsInv`): a registration about
to be stored is the SIAT's, with its window, and no other event or request has
it. *Certificates*: `SigningInv` gives one active certificate with any number of
editors; `RefInv`, with one, that the file an edit may have to remove is in no
row. *Alerts* (`AlertInv`): the claim of a threshold is held by one replica, and
fresh while it works (`ClaimHeld`), and what was sent is paid for by the row, the
replica or a fault (`Paid`). *Catalogues*: `ReadyInv` says that a download about to
report rows has stored them; `CurrentInv`, with one download and nothing lapsed,
that the recorded state is that of the stored rows. *Drafts*: `NumberInv` adds
that the sequence row is locked by exactly the request about to insert, which
carries the last number taken (`LockOK`), so an undone transaction gives back the
last number and no other; `NoteInv` adds that a note past its checks has the CUF
and the lines of the sale as it was then read.

**Documents.** `RouteInv` keeps with the document what its draft's checks
established (`RowSound`) and what every XML and call carries (`XmlOK`,
`CallRouted`). It rests on three groups of lemmas. *The catalogue*, block by
block: a code and a layout name one profile (`CatalogoDistinct`), and the
adjustments are the profiles with lines that `documentoAjuste` receives and that
either modality admits (`CatalogoRegular`). *Amounts*: rounding gives whole cents
and twice is once (`Rounded`), sums of lines with the same amounts are the same
(`SameSums`, `SumaInt`, for any number of lines, by the least counterexample),
and the base of the tax lies between zero and a total that the gift card does not
exceed (`BaseBounds`). *From the request to the row*: what the copying of a
note's lines, the simplifier, the normalisation and the columns leave of the
amounts, the data and the codes (`Autofilled`, `SimplifiedComplete`, `Drafted`,
`DraftSound`, `PromiseKept`). Then `AmountsAreOne` follows because each stage
calculates from lines with the same amounts as the draft's, in sector 1 because
the builder normalises what is normalised already; and `DraftsAreNotStuck`
because every check of the emission or the lot is one the draft passed, or does
not depend on what has changed since.

The invariants of the emission were found with TLC on the instances above before
they were proved; those of the other modules were written from the failed steps
of a first proof. The parts named `...OK` only state the shape of the variables.
Two things were found false by a proof that failed and were corrected from the
source: `TotalAdmitido` had lost the check that discount and gift card are not
negative (`domain/fiscal/totales.go:25`), and the note clause of `AmountsAgree`
spoke also of notes whose sale has no lines (section 5).

Only model-checked: the liveness properties (`SendingResolves`, `WorkDrains`,
`CredentialsRecover`), for liveness under fairness is out of the prover's reach,
and the violations of section 5.

## 5. What the code does not promise

Met while modelling. The first six are findings, each with a run; the rest are
consequences of the code that no document of the repository excludes, or for
which no run is kept.

* the findings: `emission_resend`, `emission_release`, `lifecycle_removal`,
  `lifecycle_motivo`, `batches_stored`, `drafts_full_return` (section 3);
* an offline invoice whose package got an immediate 908 or 902, or a lost answer,
  cannot be reconciled by itself: OFFLINE has no transition to a verdict
  (`ReservedIsReconcilable` in `Batches`);
* `TransitionStatus` compares the status a verification read, not the code it
  asked about (`invoice_repo.go:212`). When the contingency clears the row between
  the question and the update, an accepted verification settles an invoice that
  has no code any more; when an emission that outlived the reaper has reserved
  another code in between, it settles that one. So `ImplementsLedger` holds in
  `Lifecycle` with `~OfflineCapable` and `~SlowAttempts` only;
* a slow `Annul`, overtaken by a verification and a reversal, cancels an invoice
  the SIAT holds as valid, until the next verification;
* two processes that save and remove one document concurrently can leave a row
  whose object is gone (`invoice_files.go:91`): `RowHasObject` holds with one
  caller at a time, which is what exclusion gives an emission;
* "exactly one half-open probe" (`emissionqueue/circuit_breaker.go:14`, asserted
  for calls in order in `limiter_test.go:86`) fails when a job admitted before the
  circuit opened reports its result after the pause, beside the probe: `Success`,
  `Failure` and `AbortProbe` act on the tenant's state whoever calls them, so a
  second probe can start before the first ends.
  What holds is `AdmissionHolds`: two probes start a cooldown apart unless the
  first was aborted (`ProbesSpaced`), and two run at once only after such a stray
  result (`SoleProbe`);
* a panic in `ProcessEmission`, which River recovers, reports no result
  (`emissionqueue/worker.go:84` releases nothing when it unwinds): when the job
  was the probe, the circuit stays half-open and refuses the tenant until the
  process restarts, or a late result arrives. `ProbeHasOwner` has that exception;
* Cloud Tasks drops the task of a mail after 12 failed answers
  (`backend/docs/invoice-email-cloud.md:50`), and its row stays ENQUEUED or
  SENDING: `ClaimPending` takes PENDING rows and overdue PUBLISHING ones only
  (`repository/postgres/invoice_email_notification_repo.go`), so nothing but a
  hand edit sends that mail, although the document speaks of delivery "al menos
  una vez" (`:118`). `MailHandOff` and `WorkDrains` have that exception;
* one adjustment note among the pending or the offline invoices refuses the whole
  batch request (`adapters/siat/masiva.go:353`, `paquetes.go:130`), for
  `selectBatchInvoices` does not look at the sector; a request that names its
  invoices can leave it out;
* the row of a document in the local store can list another digest than the
  object's: a removal cut between the object and its `.meta` file leaves the
  digest behind, a put of other bytes cut at the same place an object that it does
  not describe, and a later save of the first bytes adopts the two;
* an emission requested while the job row of a final failed attempt still exists
  is deduplicated against it and lost;
* two emissions that open an event at once open two, of which one is closed; an
  invoice linked after the end of an event was computed lies outside its window;
  a package of an older event cannot be sent once there is a newer one;
* saving a whole point-of-sale row read earlier revives a deleted one or brings
  back a replaced CUIS (`point_of_sale_repo.go:121`); saving a whole certificate
  row revives a revoked one, or restores a deleted file of a concurrent edit;
  invalidating a cached client reaches its own process only;
* two downloads at once can leave a point of sale ready over an empty catalogue,
  for readiness is kept per point of sale and catalogues per company;
* returned quantities and amounts are not checked against the original, and a
  corrected sale may change its CUF after the note was drafted; offline notes can
  never be packaged, and sector 33 can neither go offline nor in bulk;
* a note drafted by the complete route without naming its sector does not copy
  its sale; when that sale has no lines (an air ticket), the XML numbers the
  note's lines as if they were alone;
* Verify and Annul always use the online emission code, and the single path takes
  the point of sale's code from another column than the bulk path.

## 6. Not modelled

HTTP routing, authentication and API keys are stateless per request, but for the
limit on the number of keys, which counts before it inserts and so may be
exceeded by concurrent creations. PDF rendering, object store drivers (beyond the
two steps of the local one), encryption, configuration and observability are I/O
without interaction. Customers, companies, branches and points of sale are CRUD
on single rows except where they meet credentials and drafts. Of the SIAT
adapter the generated builders, the signing and the SOAP encoding are left out;
of the batches, purchases and the archive format. Next worth doing: several
callers in `InvoiceFiles` with a compensation that checks the row, and a
version of the theorems about `Lifecycle` whose hypotheses speak of the invoice
concerned instead of every emission.
