---------------------------- MODULE Certificates ----------------------------
(***************************************************************************)
(* The signing certificates of one company: their rows, their encrypted P12 *)
(* files, and the SIAT clients that every process builds from the active    *)
(* one and caches (usecase/certificate_usecase.go, certificate_repo.go,     *)
(* storage/cert_storage.go, adapters/siat/provider.go).  An edit drops the  *)
(* client of its own process only; elsewhere the ten minutes of the cache   *)
(* end it.  Files are numbered as they are put, 0 is none; passwords,       *)
(* tokens, names and the encryption are left out.                           *)
(***************************************************************************)
EXTENDS Naturals

CONSTANTS Editors, Processes, Idle,
          MaxCerts, MaxPuts, MaxEdits, MaxFaults

CertificatesAssumption ==
    /\ Idle \notin Processes
    /\ MaxCerts \in Nat /\ MaxPuts \in Nat /\ MaxEdits \in Nat /\ MaxFaults \in Nat

VARIABLES cert,    \* cert[id]: status and ref of a row
          stored,  \* files in the store
          puts,    \* files ever put
          edit,    \* edit[e]: place, process, copy of the row, old and new file
          cache,   \* cache[p]: the client a process holds, by row and file
          build,   \* build[p]: the client a process is building
          edits, faults

cvars == <<cert, stored, puts, edit, cache, build, edits, faults>>

Ids == 1..MaxCerts
Statuses == {"none", "ACTIVE", "EXPIRED", "REVOKED"}
NoEdit == [pc |-> "idle", at |-> Idle, creates |-> FALSE, id |-> 0, status |-> "none",
           ref |-> 0, old |-> 0, new |-> 0]
NoClient == [held |-> FALSE, id |-> 0, ref |-> 0]
NoBuild == [pc |-> "idle", id |-> 0, ref |-> 0]

Init ==
    /\ cert = [id \in Ids |-> [status |-> "none", ref |-> 0]]
    /\ stored = {} /\ puts = 0
    /\ edit = [e \in Editors |-> NoEdit]
    /\ cache = [p \in Processes |-> NoClient]
    /\ build = [p \in Processes |-> NoBuild]
    /\ edits = 0 /\ faults = 0

Fault == faults < MaxFaults /\ faults' = faults + 1
Active == {id \in DOMAIN cert : cert[id].status = "ACTIVE"}

-----------------------------------------------------------------------------
(* CertificateUsecase. *)

\* Writing an ACTIVE row expires the others in its transaction.
NoneExpired(id) == [j \in Ids |-> IF j = id THEN cert[id] ELSE cert[j]]
OthersExpired(id) ==
    [j \in Ids |-> IF j # id /\ cert[j].status = "ACTIVE"
                   THEN [cert[j] EXCEPT !.status = "EXPIRED"] ELSE cert[j]]

Starts(e) == edit[e].pc = "idle" /\ edits < MaxEdits /\ edits' = edits + 1

\* Create inserts the row before there is a file ...
Create(e, p) ==
    /\ Starts(e)
    /\ \E id \in Ids :
          /\ \A j \in Ids : cert[j].status = "none" <=> j >= id
          /\ cert' = [OthersExpired(id) EXCEPT ![id] = [status |-> "ACTIVE", ref |-> 0]]
          /\ edit' = [edit EXCEPT ![e] = [NoEdit EXCEPT !.pc = "put", !.at = p, !.creates = TRUE,
                                                        !.id = id, !.status = "ACTIVE"]]
    /\ UNCHANGED <<stored, puts, cache, build, faults>>

\* ... Update reads it, to write the copy back with or without a new file.
Update(e, p) ==
    /\ Starts(e)
    /\ \E id \in Ids, withFile \in BOOLEAN :
          /\ cert[id].status # "none"
          /\ edit' = [edit EXCEPT ![e] =
                [NoEdit EXCEPT !.pc = IF withFile THEN "put" ELSE "save", !.at = p, !.id = id,
                               !.status = cert[id].status, !.ref = cert[id].ref,
                               !.old = cert[id].ref]]
    /\ UNCHANGED <<cert, stored, puts, cache, build, faults>>

Put(e) ==
    /\ edit[e].pc = "put" /\ puts < MaxPuts
    /\ puts' = puts + 1 /\ stored' = stored \cup {puts + 1}
    /\ edit' = [edit EXCEPT ![e].ref = puts + 1, ![e].new = puts + 1, ![e].pc = "save"]
    /\ UNCHANGED <<cert, cache, build, edits, faults>>

\* Replaced is the file an update leaves behind.
NewFile(e) == edit[e].ref
Replaced(e) == edit[e].old

Save(e) ==
    LET id == edit[e].id
        row == [status |-> edit[e].status, ref |-> edit[e].ref]
    IN
    /\ edit[e].pc = "save"
    /\ cert' = [(IF row.status = "ACTIVE" THEN OthersExpired(id) ELSE cert) EXCEPT ![id] = row]
    /\ edit' = [edit EXCEPT ![e].pc = IF edit[e].new # 0 /\ edit[e].old # 0
                                      THEN "clean" ELSE "drop"]
    /\ UNCHANGED <<stored, puts, cache, build, edits, faults>>

\* A row that could not be written leaves an update's new file behind.
SaveFails(e) ==
    /\ edit[e].pc = "save" /\ Fault
    /\ edit' = [edit EXCEPT ![e] = IF edit[e].new # 0 /\ ~edit[e].creates
                                   THEN [@ EXCEPT !.pc = "undo"] ELSE NoEdit]
    /\ UNCHANGED <<cert, stored, puts, cache, build, edits>>

Undo(e) ==
    /\ edit[e].pc = "undo"
    /\ stored' = stored \ {edit[e].new}
    /\ edit' = [edit EXCEPT ![e] = NoEdit]
    /\ UNCHANGED <<cert, puts, cache, build, edits, faults>>

Clean(e) ==
    /\ edit[e].pc = "clean"
    /\ stored' = stored \ {Replaced(e)}
    /\ edit' = [edit EXCEPT ![e].pc = "drop"]
    /\ UNCHANGED <<cert, puts, cache, build, edits, faults>>

\* Delete revokes the row and keeps the file.
Delete(e, p) ==
    /\ Starts(e)
    /\ \E id \in Ids :
          /\ cert[id].status # "none"
          /\ cert' = [cert EXCEPT ![id].status = "REVOKED"]
    /\ edit' = [edit EXCEPT ![e] = [NoEdit EXCEPT !.pc = "drop", !.at = p]]
    /\ UNCHANGED <<stored, puts, cache, build, faults>>

\* Every edit ends by dropping the client of its process.
Invalidate(e) ==
    /\ edit[e].pc = "drop"
    /\ cache' = [cache EXCEPT ![edit[e].at] = NoClient]
    /\ edit' = [edit EXCEPT ![e] = NoEdit]
    /\ UNCHANGED <<cert, stored, puts, build, edits, faults>>

\* The store or the database fails, or the process dies.
EditDies(e) ==
    /\ edit[e].pc # "idle" /\ Fault
    /\ edit' = [edit EXCEPT ![e] = NoEdit]
    /\ UNCHANGED <<cert, stored, puts, cache, build, edits>>

\* RunCertificateCheck, for a certificate past its date.
MarkCertificateExpired ==
    /\ \E id \in Active : cert' = [cert EXCEPT ![id].status = "EXPIRED"]
    /\ UNCHANGED <<stored, puts, edit, cache, build, edits, faults>>

-----------------------------------------------------------------------------
(* The provider of SIAT clients.  One build at a time (singleflight). *)

GetForCompany(p) ==
    /\ ~cache[p].held /\ build[p].pc = "idle"
    /\ \E id \in IF Active = {} THEN {0} ELSE Active :
          build' = [build EXCEPT ![p] = [pc |-> "load", id |-> id,
                                         ref |-> IF id = 0 THEN 0 ELSE cert[id].ref]]
    /\ UNCHANGED <<cert, stored, puts, edit, cache, edits, faults>>

\* A file that cannot be read leaves the client without a certificate.
LoadP12(p) ==
    /\ build[p].pc = "load"
    /\ \/ /\ build' = [build EXCEPT ![p].pc = "store",
                                    ![p].ref = IF @ \in stored THEN @ ELSE 0]
          /\ UNCHANGED faults
       \/ /\ Fault
          /\ build' = [build EXCEPT ![p].pc = "store", ![p].ref = 0]
    /\ UNCHANGED <<cert, stored, puts, edit, cache, edits>>

StoreClient(p) ==
    /\ build[p].pc = "store"
    /\ cache' = [cache EXCEPT ![p] = [held |-> TRUE, id |-> build[p].id, ref |-> build[p].ref]]
    /\ build' = [build EXCEPT ![p] = NoBuild]
    /\ UNCHANGED <<cert, stored, puts, edit, edits, faults>>

\* The company's settings do not give a client.
BuildFails(p) ==
    /\ build[p].pc = "load" /\ Fault
    /\ build' = [build EXCEPT ![p] = NoBuild]
    /\ UNCHANGED <<cert, stored, puts, edit, cache, edits>>

\* The ten minutes of an entry end.
LapsesEmpty(p) == cache[p].held /\ cache[p].id = 0
Lapses(p) == cache[p].held

Expire(p) ==
    /\ Lapses(p)
    /\ cache' = [cache EXCEPT ![p] = NoClient]
    /\ UNCHANGED <<cert, stored, puts, edit, build, edits, faults>>

-----------------------------------------------------------------------------
ProviderStep(p) == LoadP12(p) \/ StoreClient(p) \/ Expire(p)

Next ==
    \/ \E e \in Editors :
          \/ \E p \in Processes : Create(e, p) \/ Update(e, p) \/ Delete(e, p)
          \/ Put(e) \/ Save(e) \/ SaveFails(e) \/ Undo(e) \/ Clean(e) \/ Invalidate(e)
          \/ EditDies(e)
    \/ MarkCertificateExpired
    \/ \E p \in Processes : GetForCompany(p) \/ BuildFails(p) \/ ProviderStep(p)

Spec == Init /\ [][Next]_cvars

-----------------------------------------------------------------------------
TypeOK ==
    /\ cert \in [Ids -> [status : Statuses, ref : 0..MaxPuts]]
    /\ puts \in 0..MaxPuts /\ stored \in SUBSET (1..MaxPuts)
    /\ edit \in [Editors -> [pc : {"idle", "put", "save", "clean", "undo", "drop"},
                             at : Processes \cup {Idle}, creates : BOOLEAN, id : 0..MaxCerts,
                             status : Statuses,
                             ref : 0..MaxPuts, old : 0..MaxPuts, new : 0..MaxPuts]]
    /\ cache \in [Processes -> [held : BOOLEAN, id : 0..MaxCerts, ref : 0..MaxPuts]]
    /\ build \in [Processes -> [pc : {"idle", "load", "store"}, id : 0..MaxCerts,
                                ref : 0..MaxPuts]]
    /\ edits \in 0..MaxEdits /\ faults \in 0..MaxFaults

\* However edits interleave, and although they write back old copies, a
\* company signs with at most one certificate.
OneActiveCertificate == \A j, k \in Active : j = k

\* One edit at a time never leaves a row whose file is gone, wherever it dies:
\* the new file is put before the row names it, the old one removed after.
RefStored == \A id \in DOMAIN cert : cert[id].ref # 0 => cert[id].ref \in stored

\* A process may go on signing with a replaced or revoked certificate, but not
\* for ever: in the end every cached client is that of the active row.
Current(p) == IF Active = {} THEN cache[p].id = 0
              ELSE cache[p].id \in Active /\ cache[p].ref = cert[cache[p].id].ref
StaleEnds == \A p \in Processes : <>[](cache[p].held => Current(p))
=============================================================================
