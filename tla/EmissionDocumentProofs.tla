----------------------- MODULE EmissionDocumentProofs -----------------------
(***************************************************************************)
(* Theorems about the document of an invoice and about its record: that    *)
(* what is dispatched and what is settled is stored, that an invoice keeps *)
(* one fiscal code, and that Emission implements FiscalRecord, for any     *)
(* number of invoices, emitters, CUFDs and events.                         *)
(***************************************************************************)
EXTENDS EmissionProofs, EmissionRecord

-----------------------------------------------------------------------------
(* Exclusion makes the row and the file of an invoice private to the       *)
(* emission that holds it.                                                 *)

\* A stored file is changed only by the emission that holds its invoice.
LEMMA FileOwner ==
    ASSUME TypeInv, [Next]_vars, NEW i \in Invoices, file'[i] # file[i]
    PROVE  \E e \in Emitters :
              /\ Save(e) \/ Unsave(e) \/ SaveSigned(e) \/ Discard(e) \/ SaveOffline(e)
              /\ Inv(e) = i /\ Holds(e, i) /\ attempt'[e].pc # attempt[e].pc
  <1>1. PICK e \in Emitters :
           Save(e) \/ Unsave(e) \/ SaveSigned(e) \/ Discard(e) \/ SaveOffline(e)
    BY FileFrame
  <1>2. Inv(e) = i
    BY <1>1 DEF Save, Unsave, SaveSigned, Discard, SaveOffline, TypeInv, TypeOK
  <1>3. Holds(e, i) /\ attempt'[e].pc # attempt[e].pc
    BY <1>1, <1>2 DEF Save, Unsave, SaveSigned, Discard, SaveOffline, Holds, At, Inv, Goto,
                      TypeInv, TypeOK, AttemptType
  <1> QED
    BY <1>1, <1>2, <1>3

\* A reserved code is changed only by the emission that holds its invoice.
LEMMA CodeOwner ==
    ASSUME TypeInv, [Next]_vars, NEW i \in Invoices, row'[i].cuf # row[i].cuf
    PROVE  \E e \in Emitters :
              /\ Store(e) \/ Persist(e) \/ Clear(e) \/ ToOffline(e)
              /\ Inv(e) = i /\ Holds(e, i) /\ attempt'[e].pc # attempt[e].pc
  <1> USE DEF TypeInv, TypeOK
  <1>1. ASSUME NEW e \in Emitters, Claim(e) \/ Rollback(e)
        PROVE  row'[i].cuf = row[i].cuf
    <2>1. PICK to : row' = [row EXCEPT ![Inv(e)] = [row[Inv(e)] EXCEPT !.status = to]]
      BY <1>1 DEF Claim, Rollback, TransitionStatus
    <2> QED
      BY <2>1
  <1>2. ASSUME NEW j \in Invoices, Reap(j)
        PROVE  row'[i].cuf = row[i].cuf
    BY <1>2 DEF Reap
  <1>3. PICK e \in Emitters : Store(e) \/ Persist(e) \/ Clear(e) \/ ToOffline(e)
    BY <1>1, <1>2, RowFrame
  <1>4. Inv(e) = i
    BY <1>3 DEF Store, Persist, Clear, ToOffline, TransitionStatus
  <1>5. Holds(e, i) /\ attempt'[e].pc # attempt[e].pc
    BY <1>3, <1>4 DEF Store, Persist, Clear, ToOffline, Holds, At, Inv, Goto, Finish, Idle,
                      AttemptType
  <1> QED
    BY <1>3, <1>4, <1>5

\* While an emission holds an invoice and does not move, nobody touches them.
LEMMA HolderUndisturbed ==
    ASSUME TypeInv, HeldTaken, [Next]_vars,
           NEW e \in Emitters, NEW i \in Invoices, Holds(e, i), attempt'[e] = attempt[e]
    PROVE  file'[i] = file[i] /\ row'[i].cuf = row[i].cuf
  BY FileOwner, CodeOwner DEF HeldTaken

-----------------------------------------------------------------------------
(* What is stored. *)

\* Between its own steps an emission finds the XML and the code it wrote.
Stored(e) ==
    /\ attempt[e].pc \in {"store", "dispatch", "await", "xml", "persist"} =>
          file[Inv(e)] = Doc(e)
    /\ attempt[e].pc \in {"dispatch", "await", "xml", "persist"} =>
          row[Inv(e)].cuf = Doc(e)
    /\ attempt[e].pc = "offline" => file[Inv(e)] = OfflineDoc(Doc(e))

StoringInv == \A e \in Emitters : Stored(e)
StoredInv == StoringInv /\ FinalDocumentStored

\* An emission's own step leaves stored what the next one relies on.
LEMMA StoredOwnStep ==
    ASSUME TypeInv, StoringInv, NEW e \in Emitters, Emitter(e)
    PROVE  Stored(e)'
  <1>0. /\ attempt[e].pc # "idle" => Inv(e) \in Invoices
        /\ Stored(e)
    BY DEF TypeInv, BoundDocs, StoringInv, Stored, Inv
  <1> USE <1>0 DEF TypeInv, TypeOK, AttemptType, At, Goto, Finish, Idle, Inv, Doc, Stored, database
  <1>1. CASE Save(e)
    BY <1>1, SaveResult DEF Save
  <1>2. CASE Store(e)
    BY <1>2 DEF Store
  <1>3. CASE SaveSigned(e)
    BY <1>3, SaveResult DEF SaveSigned
  <1>4. CASE SaveOffline(e)
    BY <1>4, SaveResult DEF SaveOffline
  <1>5. CASE Dispatch(e) \/ Answered(e)
    <2>1. CASE Dispatch(e)
      BY <2>1 DEF Dispatch
    <2>2. CASE Answered(e)
      BY <2>2 DEF Answered
    <2> QED
      BY <1>5, <2>1, <2>2
  <1>6. ASSUME Online(e) \/ Contingency(e),
               ~Save(e), ~Store(e), ~SaveSigned(e), ~SaveOffline(e), ~Dispatch(e), ~Answered(e)
        PROVE  attempt'[e].pc \notin
                  {"store", "dispatch", "await", "xml", "persist", "offline"}
    BY <1>6
    DEF Online, Claim, ClaimFails, Prepare, StoreFails, Unsave, Fail, Rollback, RollbackFails,
        Persist, AnswerDropped, Contingency, ConnectivityLost, Discard, Clear, JoinEvent,
        NeedsEvent, CreateEvent, ToOffline, ContingencyFails
  <1> QED
    BY <1>1, <1>2, <1>3, <1>4, <1>5, <1>6 DEF Emitter

\* An emission finds what it stored, under every step, if it holds its invoice alone.
LEMMA StoringStep == TypeInv /\ HeldTaken /\ StoringInv /\ [Next]_vars => StoringInv'
  <1> SUFFICES ASSUME TypeInv, HeldTaken, StoringInv, [Next]_vars, NEW e \in Emitters
               PROVE  Stored(e)'
    BY DEF StoringInv, Stored
  <1>1. CASE Emitter(e)
    BY <1>1, StoredOwnStep
  <1>2. CASE Crash(e) \/ \E i \in Invoices : Start(e, i)
    BY <1>2, FreshStep DEF Stored
  <1>3. CASE attempt'[e] = attempt[e] /\ attempt[e].pc \in {"idle", "claim"}
    BY <1>3 DEF Stored
  <1>4. CASE attempt'[e] = attempt[e] /\ attempt[e].pc \notin {"idle", "claim"}
    <2>1. Inv(e) \in Invoices /\ Holds(e, Inv(e)) /\ Stored(e)
      BY <1>4 DEF TypeInv, BoundDocs, Holds, Inv, StoringInv, Stored
    <2>2. file'[Inv(e)] = file[Inv(e)] /\ row'[Inv(e)].cuf = row[Inv(e)].cuf
      BY <1>4, <2>1, HolderUndisturbed
    <2> QED
      BY <1>4, <2>1, <2>2 DEF Stored, Inv, Doc
  <1> QED
    BY <1>1, <1>2, <1>3, <1>4, OwnSteps

\* What is stored stays so under every step, given exclusion.
LEMMA StoredStep ==
    TypeInv /\ ExclusiveAttempt /\ StoredInv /\ [Next]_vars => StoredInv'
  <1> SUFFICES ASSUME TypeInv, ExclusiveAttempt, StoredInv, [Next]_vars
               PROVE  StoredInv'
    OBVIOUS
  <1>1. StoringInv'
    BY StoringStep DEF ExclusiveAttempt, HeldTaken, StoredInv
  <1>2. ASSUME NEW i \in Invoices, row'[i].status \in Settled
        PROVE  row'[i].cuf # NoCuf /\ file'[i] = row'[i].cuf
    <2>1. CASE row[i].status \in Settled
      <3>1. row'[i] = row[i]
        BY <2>1, RowStep DEF Settled
      <3>2. file'[i] = file[i]
        BY <2>1, FileOwner DEF ExclusiveAttempt, Settled
      <3> QED
        BY <2>1, <3>1, <3>2 DEF StoredInv, FinalDocumentStored
    <2>2. ASSUME NEW e \in Emitters, Persist(e), row[i].status \notin Settled
          PROVE  row'[i].cuf # NoCuf /\ file'[i] = row'[i].cuf
      <3>1. Inv(e) = i /\ row'[i].cuf = Doc(e) /\ file' = file
        BY <1>2, <2>2 DEF Persist, TransitionStatus, TypeInv, TypeOK
      <3>2. Doc(e) \in Cufs /\ file[i] = Doc(e)
        BY <2>2, <3>1 DEF Persist, At, Doc, TypeInv, BoundDocs, Bound, Steps, StoredInv, StoringInv, Stored
      <3> QED
        BY <3>1, <3>2, NoCufAssumption
    <2>3. ASSUME NEW e \in Emitters, ToOffline(e), row[i].status \notin Settled
          PROVE  row'[i].cuf # NoCuf /\ file'[i] = row'[i].cuf
      <3>1. Inv(e) = i /\ row'[i].cuf = OfflineDoc(Doc(e)) /\ file' = file
        BY <1>2, <2>3 DEF ToOffline, TransitionStatus, TypeInv, TypeOK
      <3>2. Doc(e) \in Cufs /\ file[i] = OfflineDoc(Doc(e))
        BY <2>3, <3>1 DEF ToOffline, At, Doc, TypeInv, BoundDocs, Bound, Steps, StoredInv, StoringInv, Stored
      <3> QED
        BY <3>1, <3>2, OfflineDocType, NoCufAssumption
    <2>4. ASSUME NEW e \in Emitters, Claim(e) \/ Store(e) \/ Rollback(e) \/ Clear(e),
                 row[i].status \notin Settled
          PROVE  FALSE
      <3>1. row'[i] = row[i] \/ row'[i].status \in {"SENDING", "PENDING"}
        <4>1. CASE Store(e) \/ Clear(e)
          BY <4>1 DEF Store, Clear, Reservable, TypeInv, TypeOK
        <4>2. CASE Claim(e) \/ Rollback(e)
          BY <4>2 DEF Claim, Rollback, TransitionStatus, TypeInv, TypeOK
        <4> QED
          BY <2>4, <4>1, <4>2
      <3> QED
        BY <1>2, <2>4, <3>1 DEF Settled
    <2>5. ASSUME NEW j \in Invoices, Reap(j), row[i].status \notin Settled
          PROVE  FALSE
      BY <1>2, <2>5 DEF Reap, TypeInv, TypeOK, Settled
    <2> QED
      BY <1>2, <2>1, <2>2, <2>3, <2>4, <2>5, RowFrame
  <1> QED
    BY <1>1, <1>2 DEF StoredInv, FinalDocumentStored

\* Initially nobody relies on a stored document.
LEMMA StoredInit == Init => StoredInv
  BY DEF Init, StoredInv, StoringInv, Stored, FinalDocumentStored, Idle, Settled

\* The storage invariant holds when no emission is slow.
LEMMA StoredInvariance ==
    ASSUME ~SlowAttempts
    PROVE  Spec => []StoredInv
  <1>1. Spec => []TypeInv /\ []ExclusiveAttempt
    BY TypeInvariance, ClaimExcludes
  <1> QED
    BY <1>1, StoredInit, StoredStep, PTL DEF Spec

(***************************************************************************)
(* A settled invoice has a fiscal code and the XML of that code, if        *)
(* emissions end within the reaper's patience.                             *)
(***************************************************************************)
THEOREM SettledIsStored ==
    ASSUME ~SlowAttempts
    PROVE  Spec => []FinalDocumentStored
  <1>1. StoredInv => FinalDocumentStored
    BY DEF StoredInv
  <1> QED
    BY <1>1, StoredInvariance, PTL

(***************************************************************************)
(* Nothing reaches the SIAT before its code is reserved and its XML stored,*)
(* and both stay so while the answer is awaited.                           *)
(***************************************************************************)
THEOREM DurableBeforeDispatch ==
    ASSUME ~SlowAttempts
    PROVE  Spec => []DispatchedIsDurable
  <1>1. TypeInv /\ ExclusiveAttempt /\ StoredInv => DispatchedIsDurable
    <2> SUFFICES ASSUME TypeInv, ExclusiveAttempt, StoredInv,
                        NEW e \in Emitters, attempt[e].pc \in {"dispatch", "await"}
                 PROVE  /\ row[Inv(e)].status = "SENDING"
                        /\ row[Inv(e)].cuf = Doc(e)
                        /\ file[Inv(e)] = Doc(e)
      BY DEF DispatchedIsDurable
    <2>1. Inv(e) \in Invoices /\ Holds(e, Inv(e))
      BY DEF TypeInv, BoundDocs, Holds, Inv
    <2> QED
      BY <2>1 DEF ExclusiveAttempt, StoredInv, StoringInv, Stored
  <1> QED
    BY <1>1, TypeInvariance, ClaimExcludes, StoredInvariance, PTL

(***************************************************************************)
(* A stored XML is removed only under the SENDING claim of its invoice, by  *)
(* a compensation or by the discard of an online preparation, as long as no *)
(* operator settles the invoice meanwhile.                                  *)
(***************************************************************************)
THEOREM RemovalUnderClaim ==
    ASSUME ~SlowAttempts
    PROVE  Spec => RemovalOwnedBySending
  <1>1. TypeInv /\ ExclusiveAttempt /\ [Next]_vars =>
          [\A i \in Invoices : file[i] # NoCuf /\ file'[i] = NoCuf =>
              row[i].status = "SENDING"]_vars
    BY FileOwner DEF ExclusiveAttempt
  <1> QED
    BY <1>1, TypeInvariance, ClaimExcludes, PTL DEF Spec, RemovalOwnedBySending

-----------------------------------------------------------------------------
(* One fiscal code per invoice, where no contingency replaces it. *)

\* An XML is compensated only before any code was reserved for the invoice.
Fresh(e) ==
    (attempt[e].pc = "store" /\ attempt[e].created) \/ attempt[e].pc = "unsave" =>
        row[Inv(e)].cuf = NoCuf

\* A reserved code is a code of the invoice, and its XML is the stored one.
Coded(i) ==
    row[i].cuf # NoCuf => row[i].cuf.inv = i /\ file[i] = row[i].cuf

IdentityInv ==
    /\ \A e \in Emitters :
          /\ attempt[e].pc \notin ContingencySteps
          /\ Doc(e) # NoCuf => Doc(e).inv = Inv(e)
          /\ Fresh(e)
    /\ \A i \in Invoices : Coded(i)
    /\ \A c \in net : row[c.inv].cuf = c

\* Only a dispatch hands a code to the SIAT.
LEMMA NetFrame ==
    ASSUME [Next]_vars
    PROVE  net' = net \/ \E e \in Emitters : Dispatch(e)
  <1>1. ASSUME NEW e \in Emitters, Online(e)
        PROVE  net' = net \/ Dispatch(e)
    BY <1>1 DEF Online, Claim, ClaimFails, Prepare, Save, Store, StoreFails, Unsave, Fail,
                Rollback, RollbackFails, Answered, SaveSigned, Persist, AnswerDropped
  <1>2. ASSUME NEW e \in Emitters, Contingency(e)
        PROVE  net' = net
    BY <1>2 DEF Contingency, ConnectivityLost, Discard, Clear, JoinEvent, NeedsEvent,
                CreateEvent, SaveOffline, ToOffline, ContingencyFails
  <1>3. ASSUME \/ \E e \in Emitters : Crash(e) \/ \E i \in Invoices : Start(e, i)
               \/ \E i \in Invoices : Reap(i)
        PROVE  net' = net
    BY <1>3 DEF Crash, Start, Reap
  <1> QED
    BY <1>1, <1>2, <1>3
    DEF Next, Emitter, Environment, RenewCufd, RecordEvent, CloseEvent, Receive, Review, vars

\* The emission's own step.
LEMMA IdentityOwnStep ==
    ASSUME ~OfflineCapable, TypeInv, StoringInv, IdentityInv, NEW e \in Emitters, Emitter(e)
    PROVE  /\ attempt'[e].pc \notin ContingencySteps
           /\ Doc(e)' # NoCuf => Doc(e)'.inv = Inv(e)'
           /\ Fresh(e)'
  <1>0. /\ attempt[e].pc # "idle" => Inv(e) \in Invoices /\ Coded(Inv(e))
        /\ attempt[e].pc \notin ContingencySteps
        /\ Doc(e) # NoCuf => Doc(e).inv = Inv(e)
        /\ Fresh(e)
    BY DEF TypeInv, BoundDocs, IdentityInv, Inv
  <1> USE <1>0 DEF TypeInv, TypeOK, AttemptType, At, Goto, Finish, Idle, Inv, Doc,
                   ContingencySteps, database
  <1>1. CASE Prepare(e)
    BY <1>1 DEF Prepare, Prepared, Fresh
  <1>2. CASE Save(e)
    <2>1. /\ attempt'[e].pc = "store" /\ attempt'[e].doc = attempt[e].doc
          /\ attempt'[e].inv = attempt[e].inv /\ row' = row
          /\ Inv(e) \in Invoices
      BY <1>2 DEF Save
    <2>2. attempt'[e].created = (file[Inv(e)] = NoCuf)
      BY <1>2 DEF Save
    <2>3. attempt'[e].created => row[Inv(e)].cuf = NoCuf
      <3>1. file[Inv(e)] = NoCuf => row[Inv(e)].cuf = NoCuf
        BY <2>1, <1>2 DEF Save, Coded
      <3> QED
        BY <2>2, <3>1, Zenon
    <2> QED
      BY <2>1, <2>3 DEF Fresh
  <1>3. CASE StoreFails(e)
    BY <1>3 DEF StoreFails, Compensates, Fresh
  <1>4. ASSUME Contingency(e) PROVE FALSE
    BY <1>4 DEF Contingency, ConnectivityLost, Discard, Clear, JoinEvent, NeedsEvent,
                CreateEvent, SaveOffline, ToOffline, ContingencyFails
  <1>5. ASSUME Online(e), ~Prepare(e), ~Save(e), ~StoreFails(e)
        PROVE  /\ attempt'[e].pc \notin ContingencySteps \cup {"store", "unsave"}
               /\ \/ attempt'[e].doc = NoCuf
                  \/ /\ attempt'[e].doc = attempt[e].doc
                     /\ attempt'[e].inv = attempt[e].inv
    BY <1>5
    DEF Online, Claim, ClaimFails, Store, Unsave, Dispatch, Fail, Rollback, RollbackFails,
        Answered, SaveSigned, Persist, AnswerDropped
  <1> QED
    BY <1>1, <1>2, <1>3, <1>4, <1>5 DEF Emitter, Fresh

\* Without contingency a reserved code is never replaced.
LEMMA CodeKept ==
    ASSUME ~OfflineCapable, TypeInv, StoringInv, IdentityInv, [Next]_vars,
           NEW i \in Invoices, row[i].cuf # NoCuf
    PROVE  row'[i].cuf = row[i].cuf
  <1>1. SUFFICES ASSUME row'[i].cuf # row[i].cuf PROVE FALSE
    OBVIOUS
  <1>2. PICK e \in Emitters :
           (Store(e) \/ Persist(e) \/ Clear(e) \/ ToOffline(e)) /\ Inv(e) = i
    BY <1>1, CodeOwner
  <1>3. CASE Store(e)
    BY <1>1, <1>2, <1>3
    DEF Store, At, StoringInv, Stored, IdentityInv, Coded, TypeInv, TypeOK
  <1>4. CASE Persist(e)
    BY <1>1, <1>2, <1>4
    DEF Persist, TransitionStatus, At, StoringInv, Stored, TypeInv, TypeOK
  <1>5. CASE Clear(e) \/ ToOffline(e)
    BY <1>5 DEF Clear, ToOffline, At, IdentityInv, ContingencySteps
  <1> QED
    BY <1>2, <1>3, <1>4, <1>5

\* A reserved code stays a code of its invoice, with its XML stored.
LEMMA CodedStep ==
    ASSUME ~OfflineCapable, TypeInv, StoringInv, IdentityInv, [Next]_vars,
           NEW i \in Invoices
    PROVE  Coded(i)'
  <1>0. Coded(i)
    BY DEF IdentityInv
  <1>1. CASE row'[i].cuf = row[i].cuf /\ file'[i] = file[i]
    BY <1>0, <1>1 DEF Coded
  <1>2. CASE row'[i].cuf # row[i].cuf
    <2>1. PICK e \in Emitters :
             (Store(e) \/ Persist(e) \/ Clear(e) \/ ToOffline(e)) /\ Inv(e) = i
      BY <1>2, CodeOwner
    <2>2. CASE Store(e)
      <3>1. row'[i].cuf = Doc(e) /\ file'[i] = file[i] /\ file[i] = Doc(e)
        BY <2>1, <2>2 DEF Store, At, StoringInv, Stored, TypeInv, TypeOK
      <3> QED
        BY <2>1, <3>1 DEF Coded, IdentityInv
    <2>3. CASE Persist(e)
      BY <1>2, <2>1, <2>3
      DEF Persist, TransitionStatus, At, StoringInv, Stored, TypeInv, TypeOK
    <2>4. CASE Clear(e) \/ ToOffline(e)
      BY <2>4 DEF Clear, ToOffline, At, IdentityInv, ContingencySteps
    <2> QED
      BY <2>1, <2>2, <2>3, <2>4
  <1>3. CASE row'[i].cuf = row[i].cuf /\ file'[i] # file[i]
    <2>1. PICK e \in Emitters :
             /\ Save(e) \/ Unsave(e) \/ SaveSigned(e) \/ Discard(e) \/ SaveOffline(e)
             /\ Inv(e) = i
      BY <1>3, FileOwner
    <2>2. CASE Save(e) \/ SaveSigned(e)
      <3>1. file[i] = NoCuf
        BY <1>3, <2>1, <2>2, SaveResult DEF Save, SaveSigned, TypeInv, TypeOK
      <3> QED
        BY <1>0, <1>3, <3>1 DEF Coded
    <2>3. CASE Unsave(e)
      BY <1>3, <2>1, <2>3 DEF Unsave, At, IdentityInv, Fresh, Coded
    <2>4. CASE Discard(e) \/ SaveOffline(e)
      BY <2>4 DEF Discard, SaveOffline, At, IdentityInv, ContingencySteps
    <2> QED
      BY <2>1, <2>2, <2>3, <2>4
  <1> QED
    BY <1>1, <1>2, <1>3

\* The identity invariant is inductive, given exclusion and storage.
LEMMA IdentityStep ==
    ASSUME ~OfflineCapable
    PROVE  /\ TypeInv /\ HeldTaken /\ StoringInv /\ IdentityInv /\ [Next]_vars
           => IdentityInv'
  <1> SUFFICES ASSUME TypeInv, HeldTaken, StoringInv, IdentityInv, [Next]_vars
               PROVE  IdentityInv'
    OBVIOUS
  <1>1. ASSUME NEW e \in Emitters
        PROVE  /\ attempt'[e].pc \notin ContingencySteps
               /\ Doc(e)' # NoCuf => Doc(e)'.inv = Inv(e)'
               /\ Fresh(e)'
    <2>1. CASE Emitter(e)
      BY <2>1, IdentityOwnStep
    <2>2. CASE Crash(e)
      BY <2>2 DEF Crash, Finish, Idle, TypeInv, TypeOK, Doc, Fresh, ContingencySteps
    <2>3. ASSUME NEW i \in Invoices, Start(e, i)
          PROVE  /\ attempt'[e].pc = "claim" /\ Doc(e)' = row[i].cuf /\ Inv(e)' = i
      <3>1. attempt'[e] = [Idle EXCEPT !.pc = "claim", !.inv = i, !.doc = row[i].cuf]
        BY <2>3 DEF Start, TypeInv, TypeOK
      <3> QED
        BY <3>1 DEF Idle, Doc, Inv
    <2>4. CASE \E i \in Invoices : Start(e, i)
      BY <2>3, <2>4 DEF IdentityInv, Coded, Fresh, ContingencySteps
    <2>5. CASE attempt'[e] = attempt[e]
      <3>1. CASE attempt[e].pc \in {"idle", "claim"}
        BY <2>5, <3>1 DEF IdentityInv, Fresh, Doc, Inv
      <3>2. CASE attempt[e].pc \notin {"idle", "claim"}
        <4>1. Inv(e) \in Invoices /\ Holds(e, Inv(e))
          BY <3>2 DEF TypeInv, BoundDocs, Holds, Inv
        <4>2. row'[Inv(e)].cuf = row[Inv(e)].cuf
          BY <2>5, <4>1, HolderUndisturbed
        <4> QED
          BY <2>5, <4>2 DEF IdentityInv, Fresh, Doc, Inv
      <3> QED
        BY <3>1, <3>2
    <2> QED
      BY <2>1, <2>2, <2>4, <2>5, OwnSteps
  <1>2. ASSUME NEW c \in net'
        PROVE  row'[c.inv].cuf = c
    <2>1. CASE c \in net
      <3>1. c \in Cufs /\ c.inv \in Invoices /\ row[c.inv].cuf = c /\ c # NoCuf
        BY <2>1, NoCufAssumption DEF IdentityInv, TypeInv, TypeOK, Cufs
      <3> QED
        BY <3>1, CodeKept
    <2>2. CASE c \notin net
      <3>1. PICK e \in Emitters : Dispatch(e)
        BY <1>2, <2>2, NetFrame
      <3>2. c = Doc(e) /\ row' = row /\ row[Inv(e)].cuf = Doc(e) /\ Doc(e) \in Cufs
        BY <1>2, <2>2, <3>1
        DEF Dispatch, At, Doc, database, StoringInv, Stored, TypeInv, BoundDocs, Bound, Steps
      <3>3. c.inv = Inv(e)
        BY <3>2, NoCufAssumption DEF IdentityInv
      <3> QED
        BY <3>2, <3>3
    <2> QED
      BY <2>1, <2>2
  <1> QED
    BY <1>1, <1>2, CodedStep DEF IdentityInv

\* Initially no code was dispatched.
LEMMA IdentityInit == Init => IdentityInv
  BY DEF Init, IdentityInv, Fresh, Coded, Idle, Doc, Inv, ContingencySteps

(***************************************************************************)
(* However often an invoice is sent, the SIAT receives one fiscal code, if  *)
(* there is no offline contingency and emissions end within the reaper's    *)
(* patience.                                                               *)
(***************************************************************************)
THEOREM OneCodePerInvoice ==
    ASSUME ~SlowAttempts, ~OfflineCapable
    PROVE  Spec => []ResendKeepsIdentity
  <1>1. IdentityInv => ResendKeepsIdentity
    BY DEF IdentityInv, ResendKeepsIdentity
  <1>2. Spec => []TypeInv /\ []ExclusiveAttempt /\ []StoredInv
    BY TypeInvariance, ClaimExcludes, StoredInvariance
  <1>3. TypeInv /\ ExclusiveAttempt /\ StoredInv /\ IdentityInv /\ [Next]_vars => IdentityInv'
    BY IdentityStep DEF ExclusiveAttempt, HeldTaken, StoredInv
  <1> QED
    BY <1>1, <1>2, <1>3, IdentityInit, PTL DEF Spec

-----------------------------------------------------------------------------
(* Fiscal codes stay with their invoice: the one an emission carries is of  *)
(* the invoice it emits, because it was read from its row or built for it.  *)

OwnCode(i, c) == c # NoCuf => c.inv = i

OwnInv ==
    /\ \A i \in Invoices : OwnCode(i, row[i].cuf)
    /\ \A e \in Emitters : attempt[e].pc # "idle" => OwnCode(Inv(e), Doc(e))

\* The SIAT annuls nothing while invoices are only emitted.
SiatInv == \A c \in Cufs : siat[c] \in {"none", "accepted", "observed", "rejected"}

\* Initially there are no codes and no verdicts.
LEMMA OwnInit == Init => OwnInv /\ SiatInv
  BY DEF Init, OwnInv, OwnCode, Idle, SiatInv

\* A running emission keeps its invoice; its document changes when it prepares.
LEMMA CarriedStep ==
    ASSUME TypeInv, [Next]_vars, NEW e \in Emitters, attempt'[e].pc # "idle"
    PROVE  \/ \E i \in Invoices : /\ attempt'[e].inv = i /\ attempt'[e].doc = row[i].cuf
           \/ /\ attempt[e].pc # "idle" /\ attempt'[e].inv = attempt[e].inv
              /\ attempt'[e].doc \in {attempt[e].doc, Prepared(e)}
  <1> USE DEF TypeInv, TypeOK, AttemptType, At, Goto, Finish, Idle
  <1>1. CASE Online(e)
    BY <1>1 DEF Online, Claim, ClaimFails, Prepare, Save, Store, StoreFails, Unsave, Dispatch,
                Fail, FailingSteps, Rollback, RollbackFails, Answered, SaveSigned, Persist,
                AnswerDropped
  <1>2. CASE Contingency(e)
    BY <1>2 DEF Contingency, ConnectivityLost, Discard, Clear, JoinEvent, NeedsEvent,
                CreateEvent, SaveOffline, ToOffline, ContingencyFails, ContingencySteps
  <1>3. CASE Crash(e)
    BY <1>3 DEF Crash
  <1>4. CASE \E i \in Invoices : Start(e, i)
    BY <1>4 DEF Start
  <1>5. CASE attempt'[e] = attempt[e]
    BY <1>5
  <1> QED
    BY <1>1, <1>2, <1>3, <1>4, <1>5, OwnSteps DEF Emitter

\* The code an invoice gets is the one the emission that holds it carries.
LEMMA GivenCode ==
    ASSUME TypeInv, OwnInv, [Next]_vars, NEW i \in Invoices
    PROVE  OwnCode(i, row'[i].cuf)
  <1>1. CASE row'[i].cuf = row[i].cuf
    BY <1>1 DEF OwnInv, OwnCode
  <1>2. CASE row'[i].cuf # row[i].cuf
    <2>1. PICK e \in Emitters :
             /\ Store(e) \/ Persist(e) \/ Clear(e) \/ ToOffline(e)
             /\ Inv(e) = i /\ Holds(e, i)
      BY <1>2, CodeOwner
    <2>2. OwnCode(i, Doc(e)) /\ (Doc(e) \in Cufs \/ Clear(e))
      BY <2>1 DEF OwnInv, Holds, Store, Persist, ToOffline, At, Doc, TypeInv, BoundDocs,
                  Bound, Steps
    <2>3. row'[i].cuf \in {Doc(e), NoCuf} \/ (ToOffline(e) /\ row'[i].cuf = OfflineDoc(Doc(e)))
      <3>1. i \in DOMAIN row /\ DOMAIN row[i] = {"status", "cuf", "event"}
        BY DEF TypeInv, TypeOK
      <3>2. CASE Store(e) \/ Clear(e)
        BY <2>1, <3>1, <3>2 DEF Store, Clear
      <3>3. CASE Persist(e) \/ ToOffline(e)
        BY <2>1, <3>1, <3>3 DEF Persist, ToOffline, TransitionStatus
      <3> QED
        BY <2>1, <3>2, <3>3
    <2>4. CASE ToOffline(e) /\ row'[i].cuf = OfflineDoc(Doc(e))
      <3>1. Doc(e) \in Cufs
        BY <2>4 DEF ToOffline, At, Doc, TypeInv, BoundDocs, Bound, Steps
      <3>2. Doc(e).inv = i
        BY <3>1, <2>2, NoCufAssumption DEF OwnCode
      <3> QED
        BY <3>1, <3>2, <2>4, OfflineDocType DEF OwnCode
    <2> QED
      BY <2>2, <2>3, <2>4 DEF OwnCode
  <1> QED
    BY <1>1, <1>2

\* Ownership of codes is inductive, given the types.
LEMMA OwnStep == TypeInv /\ OwnInv /\ [Next]_vars => OwnInv'
  <1> SUFFICES ASSUME TypeInv, OwnInv, [Next]_vars PROVE OwnInv'
    OBVIOUS
  <1>1. ASSUME NEW e \in Emitters, attempt'[e].pc # "idle"
        PROVE  OwnCode(attempt'[e].inv, attempt'[e].doc)
    <2>1. CASE \E i \in Invoices : attempt'[e].inv = i /\ attempt'[e].doc = row[i].cuf
      BY <2>1 DEF OwnInv
    <2>2. CASE /\ attempt[e].pc # "idle" /\ attempt'[e].inv = attempt[e].inv
               /\ attempt'[e].doc \in {attempt[e].doc, Prepared(e)}
      <3>1. OwnCode(Inv(e), Doc(e))
        BY <2>2 DEF OwnInv
      <3>2. OwnCode(Inv(e), Prepared(e))
        BY <3>1 DEF Prepared, OwnCode
      <3> QED
        BY <2>2, <3>1, <3>2 DEF Inv, Doc
    <2> QED
      BY <1>1, <2>1, <2>2, CarriedStep
  <1> QED
    BY <1>1, GivenCode DEF OwnInv, Inv, Doc

\* No step of the SIAT annuls.
LEMMA SiatStep == TypeInv /\ SiatInv /\ [Next]_vars => SiatInv'
  <1> SUFFICES ASSUME TypeInv, SiatInv, [Next]_vars PROVE SiatInv'
    OBVIOUS
  <1>1. ASSUME NEW c \in Cufs, Receive(c) \/ Review(c)
        PROVE  SiatInv'
    BY <1>1 DEF Receive, Review, SiatInv, TypeInv, TypeOK
  <1> QED
    BY <1>1, SiatFrame DEF SiatInv

-----------------------------------------------------------------------------
(* The rows as a record sees them. *)

StatusOf == [i \in Invoices |-> row[i].status]
CodeOf == [i \in Invoices |-> row[i].cuf]

\* One row changes: so do its status and its code in the record.
LEMMA RowChange ==
    ASSUME TypeInv, NEW i \in Invoices, NEW r, row' = [row EXCEPT ![i] = r]
    PROVE  /\ StatusOf' = [StatusOf EXCEPT ![i] = r.status]
           /\ CodeOf' = [CodeOf EXCEPT ![i] = r.cuf]
  BY DEF StatusOf, CodeOf, TypeInv, TypeOK

\* A step that changes neither the rows, the mails nor the verdicts is hidden.
LEMMA HiddenStep ==
    ASSUME row' = row, queued' = queued, siat' = siat
    PROVE  UNCHANGED Record!rvars
  BY DEF Record!rvars

\* A transition that leaves the code alone: what the record shows of it.
LEMMA StatusChange ==
    ASSUME TypeInv, NEW i \in Invoices, NEW to, TransitionStatus(i, to, row[i])
    PROVE  /\ StatusOf' = [StatusOf EXCEPT ![i] = to] /\ CodeOf' = CodeOf
           /\ to \notin {"ACCEPTED", "OBSERVED"} => queued' = queued
  <1>1. PICK r : r = [row[i] EXCEPT !.status = to]
    OBVIOUS
  <1>2. r.status = to /\ r.cuf = row[i].cuf /\ row' = [row EXCEPT ![i] = r]
    BY <1>1 DEF TransitionStatus, TypeInv, TypeOK
  <1>3. [CodeOf EXCEPT ![i] = row[i].cuf] = CodeOf
    BY DEF CodeOf
  <1>4. /\ StatusOf' = [StatusOf EXCEPT ![i] = r.status]
        /\ CodeOf' = [CodeOf EXCEPT ![i] = r.cuf]
    BY <1>2, RowChange
  <1> QED
    BY <1>2, <1>3, <1>4 DEF TransitionStatus, QueuedWith

\* A reservation that leaves the status alone.
LEMMA CodeChange ==
    ASSUME TypeInv, NEW i \in Invoices, NEW c, row' = [row EXCEPT ![i].cuf = c]
    PROVE  StatusOf' = StatusOf /\ CodeOf' = [CodeOf EXCEPT ![i] = c]
  <1>1. PICK r : r = [row[i] EXCEPT !.cuf = c]
    OBVIOUS
  <1>2. r.status = row[i].status /\ r.cuf = c /\ row' = [row EXCEPT ![i] = r]
    BY <1>1 DEF TypeInv, TypeOK
  <1>3. [StatusOf EXCEPT ![i] = row[i].status] = StatusOf
    BY DEF StatusOf
  <1>4. /\ StatusOf' = [StatusOf EXCEPT ![i] = r.status]
        /\ CodeOf' = [CodeOf EXCEPT ![i] = r.cuf]
    BY <1>2, RowChange
  <1> QED
    BY <1>2, <1>3, <1>4

-----------------------------------------------------------------------------
(* Each step of an emission that the record shows is a step of the record. *)

\* A claim takes the invoice.
LEMMA ClaimTakes ==
    ASSUME TypeInv, NEW e \in Emitters, Claim(e)
    PROVE  \E i \in Invoices : Record!Take(i)
  <1>1. Inv(e) \in Invoices /\ row[Inv(e)].status = "PENDING"
    BY DEF Claim, Claimable, Applies, At, Inv, TypeInv, BoundDocs
  <1>2. TransitionStatus(Inv(e), "SENDING", row[Inv(e)]) /\ siat' = siat
    BY DEF Claim
  <1>3. PICK i \in Invoices : i = Inv(e)
    BY <1>1
  <1>4. Record!Take(i)
    BY <1>1, <1>2, <1>3, StatusChange DEF Record!Take, StatusOf, CodeOf
  <1> QED
    BY <1>4

\* A rollback gives it back.
LEMMA RollbackGivesBack ==
    ASSUME TypeInv, NEW e \in Emitters, Rollback(e)
    PROVE  \E i \in Invoices : Record!GiveBack(i)
  <1>1. Inv(e) \in Invoices /\ row[Inv(e)].status = "SENDING"
    BY DEF Rollback, Applies, At, Inv, TypeInv, BoundDocs
  <1>2. TransitionStatus(Inv(e), "PENDING", row[Inv(e)]) /\ siat' = siat
    BY DEF Rollback
  <1>3. PICK i \in Invoices : i = Inv(e)
    BY <1>1
  <1>4. Record!GiveBack(i)
    BY <1>1, <1>2, <1>3, StatusChange DEF Record!GiveBack, StatusOf, CodeOf
  <1> QED
    BY <1>4

\* So does the reaper.
LEMMA ReapGivesBack ==
    ASSUME TypeInv, NEW i \in Invoices, Reap(i)
    PROVE  Record!GiveBack(i)
  <1>1. row[i].status = "SENDING"
    BY DEF Reap, Stale
  <1>2. PICK r : r = [row[i] EXCEPT !.status = "PENDING"]
    OBVIOUS
  <1>3. r.status = "PENDING" /\ r.cuf = row[i].cuf /\ row' = [row EXCEPT ![i] = r]
    BY <1>2 DEF Reap, TypeInv, TypeOK
  <1>4. [CodeOf EXCEPT ![i] = row[i].cuf] = CodeOf
    BY DEF CodeOf
  <1>5. queued' = queued /\ siat' = siat
    BY DEF Reap
  <1>6. /\ StatusOf' = [StatusOf EXCEPT ![i] = r.status]
        /\ CodeOf' = [CodeOf EXCEPT ![i] = r.cuf]
    BY <1>3, RowChange
  <1> QED
    BY <1>1, <1>3, <1>4, <1>5, <1>6 DEF Record!GiveBack, StatusOf, CodeOf

\* A reservation, and a cleared one, reserve in the record.
LEMMA StoreReserves ==
    ASSUME TypeInv, OwnInv, NEW e \in Emitters, Store(e) \/ Clear(e)
    PROVE  \E i \in Invoices : Record!Reserve(i)
  <1>1. Inv(e) \in Invoices /\ row[Inv(e)].status = "SENDING"
    BY DEF Store, Clear, Reservable, At, Inv, TypeInv, BoundDocs
  <1>2. PICK c \in CufOrNone : /\ row' = [row EXCEPT ![Inv(e)].cuf = c]
                               /\ OwnCode(Inv(e), c)
    <2>1. CASE Store(e)
      BY <2>1 DEF Store, At, Doc, TypeInv, TypeOK, AttemptType, OwnInv
    <2>2. CASE Clear(e)
      BY <2>2 DEF Clear, OwnCode, CufOrNone
    <2> QED
      BY <2>1, <2>2
  <1>3. queued' = queued /\ siat' = siat
    BY DEF Store, Clear
  <1>4. StatusOf' = StatusOf /\ CodeOf' = [CodeOf EXCEPT ![Inv(e)] = c]
    BY <1>1, <1>2, CodeChange
  <1>5. PICK i \in Invoices : i = Inv(e)
    BY <1>1
  <1>6. Record!Reserve(i)
    BY <1>1, <1>2, <1>3, <1>4, <1>5 DEF Record!Reserve, StatusOf, CodeOf, OwnCode, CufOrNone
  <1> QED
    BY <1>6

\* An answer settles the invoice with a verdict of the code it was sent under.
LEMMA PersistSettles ==
    ASSUME TypeInv, OwnInv, SiatInv, VerdictInv, NEW e \in Emitters, Persist(e)
    PROVE  \E i \in Invoices : Record!Settle(i)
  <1> DEFINE i == Inv(e)
             c == Doc(e)
             to == attempt[e].outcome
  <1>1. i \in Invoices /\ c \in Cufs /\ row[i].status = "SENDING"
    BY DEF Persist, Applies, At, Inv, Doc, TypeInv, BoundDocs, Bound, Steps
  <1>2. c.inv = i
    BY <1>1, NoCufAssumption DEF Persist, At, OwnInv, OwnCode
  <1>3. Backed(to, siat[c])
    BY DEF Persist, At, VerdictInv, Answering, Doc
  <1>4. /\ to \in {"ACCEPTED", "OBSERVED", "REJECTED"}
        /\ Record!Backs(siat[c], to)
    BY <1>1, <1>3 DEF Backed, SiatInv, Record!Backs
  <1>5. PICK r : r = [row[i] EXCEPT !.cuf = c, !.status = to]
    OBVIOUS
  <1>6. /\ r.status = to /\ r.cuf = c
        /\ row' = [row EXCEPT ![i] = r] /\ queued' = QueuedWith(i, to)
        /\ siat' = siat
    BY <1>1, <1>5 DEF Persist, TransitionStatus, TypeInv, TypeOK
  <1>7. StatusOf' = [StatusOf EXCEPT ![i] = r.status] /\ CodeOf' = [CodeOf EXCEPT ![i] = r.cuf]
    BY <1>1, <1>6, RowChange
  <1>8. queued' = IF to = "REJECTED" THEN queued ELSE queued \cup {i}
    BY <1>4, <1>6 DEF QueuedWith
  <1> HIDE DEF i, c, to
  <1>9. PICK j \in Invoices : j = i
    BY <1>1
  <1>10. Record!Settle(j)
    BY <1>1, <1>2, <1>4, <1>6, <1>7, <1>8, <1>9 DEF Record!Settle, StatusOf, CodeOf
  <1> QED
    BY <1>10

\* The contingency settles it offline, under an offline code of its own.
LEMMA OfflineGoesOffline ==
    ASSUME TypeInv, OwnInv, NEW e \in Emitters, ToOffline(e)
    PROVE  \E i \in Invoices : Record!GoOffline(i)
  <1> DEFINE i == Inv(e)
             c == OfflineDoc(Doc(e))
  <1>1. i \in Invoices /\ Doc(e) \in Cufs /\ row[i].status = "SENDING"
    BY DEF ToOffline, Applies, At, Inv, Doc, TypeInv, BoundDocs, Bound, Steps
  <1>2. Doc(e).inv = i
    BY <1>1, NoCufAssumption DEF ToOffline, At, OwnInv, OwnCode
  <1>3. c \in Cufs /\ c.inv = i /\ c.type = "OFFLINE"
    BY <1>1, <1>2, OfflineDocType DEF OfflineDoc, Cufs
  <1>4. PICK r : r = [row[i] EXCEPT !.cuf = c, !.event = attempt[e].event, !.status = "OFFLINE"]
    OBVIOUS
  <1>5. /\ r.status = "OFFLINE" /\ r.cuf = c
        /\ row' = [row EXCEPT ![i] = r] /\ queued' = queued
        /\ siat' = siat
    BY <1>1, <1>4 DEF ToOffline, TransitionStatus, QueuedWith, TypeInv, TypeOK
  <1>6. StatusOf' = [StatusOf EXCEPT ![i] = r.status] /\ CodeOf' = [CodeOf EXCEPT ![i] = r.cuf]
    BY <1>1, <1>5, RowChange
  <1> HIDE DEF i, c
  <1>7. PICK j \in Invoices : j = i
    BY <1>1
  <1>8. Record!GoOffline(j)
    BY <1>1, <1>3, <1>5, <1>6, <1>7 DEF Record!GoOffline, StatusOf, CodeOf
  <1> QED
    BY <1>8

\* A reception or a review is a decision.
LEMMA SiatDecides ==
    ASSUME NEW c \in Cufs, Receive(c) \/ Review(c)
    PROVE  Record!Decide(c)
  BY DEF Receive, Review, database, Record!Decide

\* The mails change only with the rows.
LEMMA MailFrame ==
    ASSUME [Next]_vars
    PROVE  \/ queued' = queued
           \/ \E e \in Emitters : Claim(e) \/ Rollback(e) \/ Persist(e) \/ ToOffline(e)
  <1> USE DEF database
  <1>1. ASSUME NEW e \in Emitters, Online(e)
        PROVE  queued' = queued \/ Claim(e) \/ Rollback(e) \/ Persist(e)
    BY <1>1 DEF Online, ClaimFails, Prepare, Save, Store, StoreFails, Unsave, Dispatch, Fail,
                RollbackFails, Answered, SaveSigned, AnswerDropped
  <1>2. ASSUME NEW e \in Emitters, Contingency(e)
        PROVE  queued' = queued \/ ToOffline(e)
    BY <1>2 DEF Contingency, ConnectivityLost, Discard, Clear, JoinEvent, NeedsEvent,
                CreateEvent, SaveOffline, ContingencyFails
  <1>3. ASSUME \/ \E e \in Emitters : Crash(e) \/ \E i \in Invoices : Start(e, i)
               \/ \E i \in Invoices : Reap(i)
        PROVE  queued' = queued
    BY <1>3 DEF Crash, Start, Reap
  <1> QED
    BY <1>1, <1>2, <1>3 DEF Next, Emitter, Environment, RenewCufd, RecordEvent, CloseEvent,
                           Receive, Review, vars

\* Every step of Emission is a step of the record, or none.
LEMMA RecordStep ==
    TypeInv /\ VerdictInv /\ OwnInv /\ SiatInv /\ [Next]_vars
        => [Record!Next]_(Record!rvars)
  <1> SUFFICES ASSUME TypeInv, VerdictInv, OwnInv, SiatInv, [Next]_vars
               PROVE  Record!Next \/ UNCHANGED Record!rvars
    OBVIOUS
  <1>1. ASSUME NEW e \in Emitters,
               Claim(e) \/ Store(e) \/ Rollback(e) \/ Persist(e) \/ Clear(e) \/ ToOffline(e)
        PROVE  Record!Next
    <2>1. \E i \in Invoices : \/ Record!Take(i) \/ Record!GiveBack(i) \/ Record!Reserve(i)
                             \/ Record!Settle(i) \/ Record!GoOffline(i)
      <3>1. CASE Claim(e)
        BY <3>1, ClaimTakes
      <3>2. CASE Store(e) \/ Clear(e)
        BY <3>2, StoreReserves
      <3>3. CASE Rollback(e)
        BY <3>3, RollbackGivesBack
      <3>4. CASE Persist(e)
        BY <3>4, PersistSettles
      <3>5. CASE ToOffline(e)
        BY <3>5, OfflineGoesOffline
      <3> QED
        BY <1>1, <3>1, <3>2, <3>3, <3>4, <3>5
    <2> QED
      BY <2>1 DEF Record!Next
  <1>2. ASSUME NEW i \in Invoices, Reap(i)
        PROVE  Record!Next
    BY <1>2, ReapGivesBack DEF Record!Next
  <1>3. ASSUME NEW c \in Cufs, Receive(c) \/ Review(c)
        PROVE  Record!Next
    BY <1>3, SiatDecides DEF Record!Next
  <1>4. CASE row' = row /\ queued' = queued /\ siat' = siat
    BY <1>4, HiddenStep
  <1> QED
    BY <1>1, <1>2, <1>3, <1>4, RowFrame, MailFrame, SiatFrame

\* What the steps of the record rely on, in every reachable state.
LEMMA RecordInvariance ==
    Spec => [](TypeInv /\ VerdictInv /\ OwnInv /\ SiatInv)
  BY TypeInvariance, VerdictInit, VerdictStep, OwnInit, OwnStep, SiatStep, PTL DEF Spec

(***************************************************************************)
(* What the database shows of the invoices is a behaviour of FiscalRecord,  *)
(* however the emissions, the reaper and the crashes interleave: nobody     *)
(* sees an invoice settled without its code, its verdict and its mail.      *)
(***************************************************************************)
THEOREM RecordImplemented == Spec => ImplementsRecord
  <1>1. Init => Record!Init
    BY DEF Init, Record!Init
  <1> QED
    BY <1>1, RecordStep, RecordInvariance, PTL DEF Spec, ImplementsRecord, Record!Spec

-----------------------------------------------------------------------------
(* The mail of an invoice that was taken follows from the record alone. *)

\* No step of the record takes an invoice without its mail, or withdraws a mail.
LEMMA RecordMail ==
    ASSUME TakenHasMail, [Record!Next]_(Record!rvars)
    PROVE  TakenHasMail'
  <1> SUFFICES ASSUME NEW i \in Invoices, row'[i].status \in {"ACCEPTED", "OBSERVED"}
               PROVE  i \in queued'
    BY DEF TakenHasMail
  <1>0. StatusOf[i] = row[i].status /\ StatusOf'[i] = row'[i].status
    BY DEF StatusOf
  <1>1. CASE UNCHANGED Record!rvars
    <2>1. StatusOf' = StatusOf /\ queued' = queued
      BY <1>1 DEF Record!rvars, StatusOf
    <2> QED
      BY <1>0, <2>1 DEF TakenHasMail
  <1>2. ASSUME NEW j \in Invoices, NEW to,
               StatusOf' = [StatusOf EXCEPT ![j] = to],
               \/ to \notin {"ACCEPTED", "OBSERVED"} /\ queued' = queued
               \/ queued' = queued \cup {j}
        PROVE  i \in queued'
    BY <1>0, <1>2 DEF TakenHasMail, StatusOf
  <1>3. ASSUME NEW j \in Invoices, Record!Take(j) \/ Record!GiveBack(j) \/ Record!GoOffline(j)
        PROVE  i \in queued'
    <2>1. /\ \E to \in {"SENDING", "PENDING", "OFFLINE"} : StatusOf' = [StatusOf EXCEPT ![j] = to]
          /\ queued' = queued
      BY <1>3 DEF Record!Take, Record!GiveBack, Record!GoOffline, StatusOf
    <2> QED
      BY <2>1, <1>2
  <1>4. ASSUME NEW j \in Invoices, Record!Settle(j)
        PROVE  i \in queued'
    <2>1. PICK to \in {"ACCEPTED", "OBSERVED", "REJECTED"} :
             /\ StatusOf' = [StatusOf EXCEPT ![j] = to]
             /\ queued' = IF to = "REJECTED" THEN queued ELSE queued \cup {j}
      BY <1>4 DEF Record!Settle, StatusOf
    <2> QED
      BY <2>1, <1>2
  <1>5. ASSUME \/ \E j \in Invoices : Record!Reserve(j)
               \/ \E c \in Cufs : Record!Decide(c)
        PROVE  i \in queued'
    <2>1. StatusOf' = StatusOf /\ queued' = queued
      BY <1>5 DEF Record!Reserve, Record!Decide, StatusOf
    <2> QED
      BY <1>0, <2>1 DEF TakenHasMail
  <1> QED
    BY <1>1, <1>3, <1>4, <1>5 DEF Record!Next

(***************************************************************************)
(* Every invoice the SIAT took has its automatic mail queued, by the very   *)
(* step that settled it.                                                    *)
(***************************************************************************)
THEOREM MailIsQueued == Spec => []TakenHasMail
  <1>1. Init => TakenHasMail
    BY DEF Init, TakenHasMail
  <1>2. TypeInv /\ VerdictInv /\ OwnInv /\ SiatInv /\ TakenHasMail /\ [Next]_vars => TakenHasMail'
    BY RecordStep, RecordMail
  <1> QED
    BY <1>1, <1>2, RecordInvariance, PTL DEF Spec

-----------------------------------------------------------------------------
(* The rows as the ledger of every invoice's whole life sees them.          *)

\* What one step may do to one row: nothing, reserve or forget a code, take or
\* give back the invoice under the code it has, or settle it under one.
Kept(i) == row'[i].status = row[i].status /\ row'[i].cuf = row[i].cuf
Recoded(i) == row[i].status = "SENDING" /\ row'[i].status = "SENDING"
Passed(i) ==
    /\ <<row[i].status, row'[i].status>> \in {<<"PENDING", "SENDING">>, <<"SENDING", "PENDING">>}
    /\ row'[i].cuf = row[i].cuf
Ended(i) ==
    /\ row[i].status = "SENDING" /\ row'[i].status \in Settled \ {"CANCELLED"}
    /\ row'[i].cuf \in Cufs

\* No step of the emissions does anything else.
LEMMA RowMoves ==
    ASSUME TypeInv, VerdictInv, [Next]_vars, NEW i \in Invoices
    PROVE  Kept(i) \/ Recoded(i) \/ Passed(i) \/ Ended(i)
  <1> USE DEF TypeInv, TypeOK
  <1>1. ASSUME NEW e \in Emitters, Claim(e) \/ Rollback(e)
        PROVE  Kept(i) \/ Passed(i)
    <2>1. PICK to : /\ row' = [row EXCEPT ![Inv(e)] = [row[Inv(e)] EXCEPT !.status = to]]
                    /\ <<row[Inv(e)].status, to>> \in {<<"PENDING", "SENDING">>, <<"SENDING", "PENDING">>}
      BY <1>1 DEF Claim, Rollback, TransitionStatus, Claimable, Applies
    <2>2. CASE Inv(e) = i
      BY <2>1, <2>2 DEF Passed
    <2>3. CASE Inv(e) # i
      BY <2>1, <2>3 DEF Kept
    <2> QED
      BY <2>2, <2>3
  <1>2. ASSUME NEW e \in Emitters, Store(e) \/ Clear(e)
        PROVE  Kept(i) \/ Recoded(i)
    <2>1. /\ \E c : row' = [row EXCEPT ![Inv(e)].cuf = c]
          /\ row[Inv(e)].status = "SENDING"
      BY <1>2 DEF Store, Clear, Reservable
    <2> QED
      BY <2>1 DEF Kept, Recoded
  <1>3. ASSUME NEW e \in Emitters, Persist(e)
        PROVE  Kept(i) \/ Ended(i)
    <2>1. /\ row[Inv(e)].status = "SENDING" /\ Doc(e) \in Cufs
          /\ CanTransition("SENDING", attempt[e].outcome, OutcomeReason(attempt[e].outcome))
          /\ row' = [row EXCEPT ![Inv(e)] =
                        [row[Inv(e)] EXCEPT !.cuf = Doc(e), !.status = attempt[e].outcome]]
      BY <1>3 DEF Persist, TransitionStatus, Applies, At, Doc, VerdictInv, Answering
    <2>2. attempt[e].outcome \in Settled \ {"CANCELLED"}
      BY <1>3, <2>1 DEF Persist, At, VerdictInv, Answering, Backed, CanTransition,
                        AllowedTransitions, Verdict, Settled
    <2>3. CASE Inv(e) = i
      BY <2>1, <2>2, <2>3 DEF Ended
    <2>4. CASE Inv(e) # i
      BY <2>1, <2>4 DEF Kept
    <2> QED
      BY <2>3, <2>4
  <1>4. ASSUME NEW e \in Emitters, ToOffline(e)
        PROVE  Kept(i) \/ Ended(i)
    <2>1. Doc(e) \in Cufs
      BY <1>4 DEF ToOffline, At, Doc, BoundDocs, Bound, Steps
    <2>2. OfflineDoc(Doc(e)) \in Cufs
      BY <2>1, OfflineDocType
    <2>3. /\ row[Inv(e)].status = "SENDING"
          /\ row' = [row EXCEPT ![Inv(e)] =
                        [row[Inv(e)] EXCEPT !.cuf = OfflineDoc(Doc(e)),
                                            !.event = attempt[e].event, !.status = "OFFLINE"]]
      BY <1>4 DEF ToOffline, TransitionStatus, Applies
    <2>4. CASE Inv(e) = i
      BY <2>2, <2>3, <2>4 DEF Ended, Settled
    <2>5. CASE Inv(e) # i
      BY <2>3, <2>5 DEF Kept
    <2> QED
      BY <2>4, <2>5
  <1>5. ASSUME NEW j \in Invoices, Reap(j)
        PROVE  Kept(i) \/ Passed(i)
    BY <1>5 DEF Reap, Stale, Kept, Passed
  <1>6. CASE row' = row
    BY <1>6 DEF Kept
  <1> QED
    BY <1>1, <1>2, <1>3, <1>4, <1>5, <1>6, RowFrame

\* Nothing is decided in the step that changes a row.
LEMMA RowsApart ==
    ASSUME [Next]_vars
    PROVE  row' = row \/ siat' = siat
  BY SiatFrame DEF Receive, Review, database

\* What InvoiceStateMachine lets through, the table of the ledger permits.
LEMMA LedgerTable ==
    \A from, to, reason : CanTransition(from, to, reason) => Ledger!Permitted(from, to)
  <1>1. Ledger!AllowedTransitions = AllowedTransitions
    BY DEF Ledger!AllowedTransitions, AllowedTransitions, Ledger!Verdict, Verdict
  <1> QED
    BY <1>1 DEF CanTransition, Ledger!Permitted

\* An emission takes the invoice, gives it back, or settles it.
LEMMA EmissionTable ==
    /\ Ledger!Permitted("PENDING", "SENDING") /\ Ledger!Permitted("SENDING", "PENDING")
    /\ \A to \in Settled \ {"CANCELLED"} : Ledger!Permitted("SENDING", to)
  <1>1. /\ CanTransition("PENDING", "SENDING", "EMISSION_START")
        /\ CanTransition("SENDING", "PENDING", "STALE_RECOVERY")
        /\ CanTransition("SENDING", "OFFLINE", "CONTINGENCY")
        /\ \A to \in {"ACCEPTED", "OBSERVED", "REJECTED"} :
              CanTransition("SENDING", to, "SIAT_RECONCILIATION")
    BY DEF CanTransition, AllowedTransitions, Verdict
  <1> QED
    BY <1>1, LedgerTable DEF Settled

\* So every row moves as the ledger lets it.
LEMMA LedgerRow ==
    ASSUME TypeInv, VerdictInv, OwnInv, [Next]_vars, NEW i \in Invoices
    PROVE  Ledger!Rests(i) \/ Ledger!Recodes(i) \/ Ledger!Moves(i)
  <1>1. TypeInv' /\ VerdictInv' /\ OwnCode(i, row'[i].cuf)
    BY StepType, VerdictStep, GivenCode
  <1>2. row'[i].cuf # NoCuf => row'[i].cuf \in {c \in Cufs : c.inv = i}
    BY <1>1 DEF OwnCode, TypeInv, TypeOK, CufOrNone
  <1>3. CASE Kept(i)
    BY <1>3 DEF Kept, Ledger!Rests
  <1>4. CASE Recoded(i)
    BY <1>2, <1>4 DEF Recoded, Ledger!Recodes
  <1>5. CASE Passed(i)
    <2>1. Ledger!Permitted(row[i].status, row'[i].status)
      BY <1>5, EmissionTable DEF Passed
    <2> QED
      BY <1>5, <2>1 DEF Passed, Ledger!Moves, Ledger!Decided
  <1>6. CASE Ended(i)
    <2>1. siat' = siat
      BY <1>6, RowsApart DEF Ended, Settled
    <2>2. row'[i].status \in Ledger!Decided => Ledger!Justifies(siat[row'[i].cuf], row'[i].status)
      BY <1>1, <2>1 DEF VerdictInv, Backed, Ledger!Decided, Ledger!Justifies
    <2>3. Ledger!Permitted("SENDING", row'[i].status)
      BY <1>6, EmissionTable DEF Ended
    <2> QED
      BY <1>2, <1>6, <2>2, <2>3, NoCufAssumption DEF Ended, Settled, Ledger!Moves
  <1> QED
    BY <1>3, <1>4, <1>5, <1>6, RowMoves

\* And the SIAT decides as the ledger lets it.
LEMMA LedgerVerdict ==
    ASSUME TypeInv, [Next]_vars, NEW c \in Cufs
    PROVE  siat'[c] = siat[c] \/ <<siat[c], siat'[c]>> \in Ledger!Decisions
  <1>1. CASE siat' = siat
    BY <1>1
  <1>2. ASSUME NEW d \in Cufs, Receive(d) \/ Review(d)
        PROVE  siat'[c] = siat[c] \/ <<siat[c], siat'[c]>> \in Ledger!Decisions
    BY <1>2 DEF Receive, Review, Ledger!Decisions, TypeInv, TypeOK
  <1> QED
    BY <1>1, <1>2, SiatFrame

\* Every step of the emissions is a step of the ledger.
LEMMA LedgerStep ==
    TypeInv /\ VerdictInv /\ OwnInv /\ [Next]_vars => Ledger!Next
  <1> SUFFICES ASSUME TypeInv, VerdictInv, OwnInv, [Next]_vars PROVE Ledger!Next
    OBVIOUS
  <1>1. DOMAIN siat' = Cufs
    BY StepType DEF TypeInv, TypeOK
  <1> QED
    BY <1>1, LedgerRow, LedgerVerdict DEF Ledger!Next

(***************************************************************************)
(* Whatever the emissions, the reaper, slow requests, contingencies and     *)
(* crashes interleave, the rows are a behaviour of the ledger: the table of *)
(* allowedTransitions, one's own code, and a decision of the SIAT behind    *)
(* every status that repeats one.                                          *)
(***************************************************************************)
THEOREM LedgerImplemented == Spec => ImplementsLedger
  <1>1. Init => Ledger!Init
    BY DEF Init, Ledger!Init
  <1> QED
    BY <1>1, LedgerStep, RecordInvariance, PTL DEF Spec, ImplementsLedger, Ledger!Spec
=============================================================================
