------------------------------ MODULE Operations ------------------------------
(* What a company's emissions rest on: the credentials of a point of sale,    *)
(* its contingency events, the company's certificates, their alerts, its      *)
(* catalogues, and its drafts.  The components share no state here, so one    *)
(* specification runs them in scenes of their own: scene says which of them   *)
(* moves, and the others stay in their initial states.                        *)
(*   codes    Credentials: requests beside the scheduler, one point of sale   *)
(*   window   ContingencyEvents: invoices and registrations                   *)
(*   signing  Certificates: one edit at a time                                *)
(*   edits    Certificates: any edits at once, while no client is built       *)
(*   alerts   CertificateAlerts: several replicas                             *)
(*   download CatalogSync: one download at a time                             *)
(*   twice    CatalogSync: any downloads at once, without failures            *)
(*   routes   Documents: one document, its amounts and calls                  *)
(*   drafting Drafts: requests at one point of sale                           *)
(* Documents and Drafts are extended, for both read one catalogue; the others *)
(* are instances.                                                             *)
EXTENDS Documents

CONSTANTS
    Callers, Scheduler, Editing, MaxCuis, MaxCufd,                  \* Credentials
    Invoices, Registrars, Before, Window, Valid, Given, MaxTime, MaxEvents,
                                                                    \* ContingencyEvents
    Editors, Editor, Processes, MaxCerts, MaxPuts, MaxEdits,        \* Certificates
    Replicas, MaxStage,                                             \* CertificateAlerts
    Point, Syncs, Downloader, Order,                                \* CatalogSync
    MaxFaults   \* bound on the faults of a component

VARIABLES scene,
    pos, cufds, siat, call, faults,
    now, events, issued, emit, link, reg, codes,
    cert, stored, puts, edit, cache, build, edits, cfaults,
    stage, status, note, check, sent, late,
    catalog, state, cuis, sync, lapses

Codes == INSTANCE Credentials
Events == INSTANCE ContingencyEvents
Signing == INSTANCE Certificates WITH faults <- cfaults
Alerts == INSTANCE CertificateAlerts
Download == INSTANCE CatalogSync WITH Points <- {Point}

ASSUME OperationsAssumption ==
    /\ Codes!CredentialsAssumption /\ Events!EventsAssumption
    /\ Signing!CertificatesAssumption /\ Editor \in Editors
    /\ Alerts!AlertsAssumption
    /\ Download!CatalogAssumption /\ Downloader \in Syncs
    /\ DraftsAssumption /\ DocumentsAssumption

credentials == <<pos, cufds, siat, call, faults>>
contingency == <<now, events, issued, emit, link, reg, codes>>
certificates == <<cert, stored, puts, edit, cache, build, edits, cfaults>>
alerts == <<stage, status, note, check, sent, late>>
catalogs == <<catalog, state, cuis, sync, lapses>>

\* The components a scene does not use are in their initial states.
OperationsInit ==
    /\ scene \in {"codes", "window", "signing", "edits", "alerts", "download", "twice",
                 "routes", "drafting"}
    /\ Codes!Init /\ Events!Init /\ Signing!Init /\ Alerts!Init /\ Download!Init
    /\ DocumentInit /\ (scene # "routes" => modalidad = Electronica)
    /\ Init /\ (scene # "drafting" => ref.cuf = NoCuf)

OneEditor == \A e \in Editors \ {Editor} : edit'[e].pc = "idle"
NoClients == UNCHANGED <<cache, build, cfaults>> /\ puts' <= 1
OneDownload == \A s \in Syncs \ {Downloader} : sync'[s].pc = "idle"

Only(a, b, c, d) == UNCHANGED <<scene, a, b, c, d, dvars, vars>>
Operations == <<credentials, contingency, certificates, alerts, catalogs>>

OperationsNext ==
    \/ scene = "codes" /\ Codes!Next /\ Only(contingency, certificates, alerts, catalogs)
    \/ /\ scene = "window" /\ Events!Next
       /\ Only(credentials, certificates, alerts, catalogs)
    \/ /\ scene \in {"signing", "edits"} /\ Signing!Next
       /\ scene = "signing" => OneEditor
       /\ scene = "edits" => NoClients
       /\ Only(credentials, contingency, alerts, catalogs)
    \/ /\ scene = "alerts" /\ Alerts!Next
       /\ Only(credentials, contingency, certificates, catalogs)
    \/ /\ scene \in {"download", "twice"} /\ Download!Next
       /\ scene = "download" => OneDownload
       /\ scene = "twice" => UNCHANGED lapses
       /\ Only(credentials, contingency, certificates, alerts)
    \/ scene = "routes" /\ DocumentNext /\ UNCHANGED <<scene, Operations, vars>>
    \/ scene = "drafting" /\ Next /\ UNCHANGED <<scene, Operations, dvars>>

\* The scheduler renews every hour and its calls end; the providers' builds end
\* and their cache entries lapse.
OperationsSpec ==
    /\ OperationsInit
    /\ [][OperationsNext]_<<scene, Operations, dvars, vars>>
    /\ WF_credentials(scene = "codes" /\ Codes!Begin(Scheduler, "renew"))
    /\ \A c \in Callers : WF_credentials(scene = "codes" /\ Codes!Step(c))
    /\ \A p \in Processes :
          /\ WF_certificates(scene = "signing" /\ Signing!LoadP12(p))
          /\ WF_certificates(scene = "signing" /\ Signing!StoreClient(p))
          /\ WF_certificates(scene = "signing" /\ Signing!Expire(p))

-----------------------------------------------------------------------------
\* Types of the components.
OperationsTypeOK ==
    /\ Codes!TypeOK /\ Events!TypeOK /\ Signing!TypeOK /\ Alerts!TypeOK
    /\ Download!TypeOK /\ DocumentTypeOK /\ TypeOK

\* However requests, edits and the scheduler interleave, a point of sale has one
\* active CUFD and a company signs with one certificate.
OneActive == Codes!OneActiveCufd /\ Signing!OneActiveCertificate

\* The scheduler brings an active point of sale back to a CUFD in force.
CufdRecovers == scene = "codes" => Codes!CufdRecovers

\* One edit at a time never leaves a certificate whose file is gone.
RefStored == scene = "signing" => Signing!RefStored

\* No process signs for ever with a replaced or revoked certificate.
StaleEnds ==
    \A p \in Processes :
        <>[](scene = "signing" /\ cache[p].held => Signing!Current(p))

\* The credentials and the certificate in use become the ones in force again.
CredentialsRecover == CufdRecovers /\ StaleEnds

\* A threshold is alerted once but for the alerts a fault repeats.
AlertOnce == Alerts!AlertOnce

\* A synced event is one the SIAT registered, with its window, once.
SyncedIsRegistered == Events!SyncedIsRegistered /\ Events!WindowIsSound

\* A point of sale that may draw up invoices has a CUIS, and catalogues its
\* company stored with rows; with one download at a time they are the latest.
ReadyWasStored ==
    /\ Download!ReadyWasStored
    /\ scene = "download" => Download!ReadyIsCurrent
=============================================================================
