--------------------------- MODULE EmissionProofs ---------------------------
(***************************************************************************)
(* Theorems about Emission for any number of invoices, emitters, CUFDs and *)
(* events.                                                                 *)
(***************************************************************************)
EXTENDS Emission, SequenceTheorems, TLAPS

-----------------------------------------------------------------------------
(* Types.  A step that uses the document of an emission needs to know it is *)
(* a fiscal code: the strengthening of TypeOK says in which steps it is.    *)

Bound == Steps \ {"claim", "prepare", "rollback"}

BoundDocs ==
    \A e \in Emitters :
        /\ attempt[e].pc # "idle" => attempt[e].inv \in Invoices
        /\ attempt[e].pc \in Bound => attempt[e].doc \in Cufs

TypeInv == TypeOK /\ BoundDocs

\* EmissionOutcome yields one of the three statuses an emission settles with.
LEMMA OutcomeStatus ==
    \A verdict : EmissionOutcome(verdict) \in {"ACCEPTED", "OBSERVED", "REJECTED"}
  BY DEF EmissionOutcome

\* A permitted transition leads to a known status.
LEMMA TransitionStatuses ==
    \A from, to, reason : CanTransition(from, to, reason) =>
        from \in Statuses /\ to \in Statuses
  BY DEF CanTransition, AllowedTransitions, Verdict, Statuses

\* The offline document of a fiscal code is a fiscal code of the same invoice.
LEMMA OfflineDocType ==
    \A doc \in Cufs : OfflineDoc(doc) \in Cufs /\ OfflineDoc(doc).inv = doc.inv
  BY DEF OfflineDoc, Cufs, EmissionTypes

\* A document is saved as itself or not at all.
LEMMA SaveResult ==
    \A stored, doc : \A saved \in SaveResults(stored, doc) :
        saved = doc /\ stored \in {NoCuf, doc}
  BY DEF SaveResults

\* The idle state, and an emission moved to another step, are typed.
LEMMA IdleType == Idle \in AttemptType
  BY BoundAssumption DEF Idle, AttemptType, CufOrNone, Steps

\* What an emission's step must leave true of the emissions alone.
AttemptsOK ==
    /\ attempt \in [Emitters -> AttemptType]
    /\ BoundDocs
    /\ \A e \in Emitters : attempt[e].event <= Len(events)

\* Giving an emission another typed state.
LEMMA SetType ==
    ASSUME AttemptsOK, Len(events) \in Nat, Len(events') \in Nat,
           Len(events) <= Len(events'),
           NEW e \in Emitters, NEW a \in AttemptType,
           attempt' = [attempt EXCEPT ![e] = a],
           a.pc # "idle" => a.inv \in Invoices,
           a.pc \in Bound => a.doc \in Cufs,
           a.event <= Len(events')
    PROVE  AttemptsOK'
  <1>1. \A f \in Emitters : attempt'[f] = IF f = e THEN a ELSE attempt[f]
    BY DEF AttemptsOK
  <1>2. attempt' \in [Emitters -> AttemptType]
    BY DEF AttemptsOK
  <1>3. BoundDocs'
    BY <1>1 DEF AttemptsOK, BoundDocs
  <1>4. \A f \in Emitters : attempt[f].event \in Nat
    BY BoundAssumption DEF AttemptsOK, AttemptType
  <1> QED
    BY <1>1, <1>2, <1>3, <1>4 DEF AttemptsOK

\* Moving an emission to another step, its data unchanged.
LEMMA MoveType ==
    ASSUME AttemptsOK, events' = events,
           NEW e \in Emitters, NEW pc \in Steps, Goto(e, pc),
           Inv(e) \in Invoices, pc \in Bound => Doc(e) \in Cufs
    PROVE  AttemptsOK'
  BY DEF AttemptsOK, BoundDocs, Bound, Goto, Inv, Doc, AttemptType, Steps

\* An emission that ends is idle, which is typed.
LEMMA FinishType ==
    ASSUME AttemptsOK, events' = events, events \in Seq([start : Nat, open : BOOLEAN]),
           NEW e \in Emitters, Finish(e)
    PROVE  AttemptsOK'
  <1>1. 0 <= Len(events)
    OBVIOUS
  <1>2. /\ Idle.pc = "idle" /\ Idle.event = 0
        /\ \A f \in Emitters : attempt'[f] = IF f = e THEN Idle ELSE attempt[f]
    BY DEF AttemptsOK, Finish, Idle
  <1>3. attempt' \in [Emitters -> AttemptType]
    BY IdleType DEF AttemptsOK, Finish
  <1> QED
    BY <1>1, <1>2, <1>3 DEF AttemptsOK, BoundDocs, Bound, Steps

\* The initial state is typed.
LEMMA InitType == Init => TypeInv
  <1> SUFFICES ASSUME Init PROVE TypeInv
    OBVIOUS
  <1>1. TypeOK
    BY BoundAssumption
    DEF Init, TypeOK, AttemptType, Idle, CufOrNone, Statuses, SiatStates, Steps
  <1>2. BoundDocs
    BY DEF Init, BoundDocs, Bound, Idle, Steps
  <1> QED
    BY <1>1, <1>2 DEF TypeInv

\* The part of TypeOK that is not about the emissions.
DataOK ==
    /\ row \in [Invoices -> [status : Statuses, cuf : CufOrNone, event : 0..MaxEvents]]
    /\ file \in [Invoices -> CufOrNone]
    /\ queued \subseteq Invoices
    /\ events \in Seq([start : Nat, open : BOOLEAN]) /\ Len(events) <= MaxEvents
    /\ cufd \in 1..MaxCufd
    /\ net \subseteq Cufs
    /\ siat \in [Cufs -> SiatStates]
    /\ \A i \in Invoices : row[i].event <= Len(events)

\* The type invariant, split into shared data and emissions.
LEMMA TypeParts == TypeInv <=> DataOK /\ AttemptsOK
  BY DEF TypeInv, TypeOK, DataOK, AttemptsOK

\* Changing the status of an invoice, and queueing its mail, keeps the rows typed.
LEMMA TransitionType ==
    ASSUME DataOK, NEW i \in Invoices, NEW to \in Statuses,
           TransitionStatus(i, to, row[i]), UNCHANGED <<file, events, cufd, net, siat>>
    PROVE  DataOK'
  BY DEF DataOK, TransitionStatus, QueuedWith

\* A step of ProcessEmission keeps the types.
LEMMA OnlineType ==
    ASSUME DataOK, AttemptsOK, NEW e \in Emitters, Online(e)
    PROVE  DataOK' /\ AttemptsOK'
  <1>0. /\ attempt[e].pc # "idle" => Inv(e) \in Invoices
        /\ attempt[e].pc \in Bound => Doc(e) \in Cufs
    BY DEF AttemptsOK, BoundDocs, Inv, Doc
  <1> USE <1>0 DEF At, database, Bound, Steps
  <1>1. CASE Claim(e)
    <2>1. Inv(e) \in Invoices /\ "SENDING" \in Statuses /\ AttemptsOK'
      BY <1>1, MoveType DEF Claim, Statuses
    <2> QED
      BY <1>1, <2>1, TransitionType DEF Claim
  <1>2. CASE ClaimFails(e)
    BY <1>2, FinishType DEF ClaimFails, DataOK
  <1>3. CASE Prepare(e)
    <2>1. Inv(e) \in Invoices
      BY <1>3 DEF Prepare
    <2>2. [inv |-> Inv(e), type |-> "ONLINE", cufd |-> cufd] \in Cufs
      BY <2>1 DEF Cufs, EmissionTypes, DataOK
    <2>3. Doc(e) \in CufOrNone
      BY DEF AttemptsOK, AttemptType, Doc
    <2>4. Prepared(e) \in Cufs
      BY <2>2, <2>3 DEF Prepared, CufOrNone
    <2> DEFINE a == [attempt[e] EXCEPT !.pc = "save", !.doc = Prepared(e)]
    <2>5. /\ a \in AttemptType /\ attempt' = [attempt EXCEPT ![e] = a]
          /\ a.pc = "save" /\ a.inv = Inv(e) /\ a.doc = Prepared(e)
          /\ a.event = attempt[e].event
      BY <1>3, <2>4 DEF Prepare, AttemptsOK, AttemptType, Inv, CufOrNone
    <2> HIDE DEF a
    <2>6. /\ Len(events) \in Nat /\ Len(events') \in Nat /\ Len(events) <= Len(events')
          /\ attempt[e].event <= Len(events) /\ events' = events
      BY <1>3 DEF Prepare, DataOK, AttemptsOK
    <2>8. a.inv \in Invoices /\ a.doc \in Cufs /\ a.event <= Len(events')
      BY <2>1, <2>4, <2>5, <2>6
    <2>7. AttemptsOK'
      BY <2>5, <2>6, <2>8, SetType
    <2> QED
      BY <1>3, <2>7 DEF Prepare, DataOK
  <1>4. CASE Save(e)
    <2>0. PICK saved \in SaveResults(file[Inv(e)], Doc(e)) :
             file' = [file EXCEPT ![Inv(e)] = saved]
      BY <1>4 DEF Save
    <2>6. saved = Doc(e)
      BY <2>0, SaveResult
    <2>1. file' = [file EXCEPT ![Inv(e)] = Doc(e)]
      BY <2>0, <2>6
    <2>2. PICK flag \in BOOLEAN :
             attempt' = [attempt EXCEPT ![e].pc = "store", ![e].created = flag]
      BY <1>4 DEF Save
    <2> DEFINE a == [attempt[e] EXCEPT !.pc = "store", !.created = flag]
    <2>3. /\ a \in AttemptType /\ attempt' = [attempt EXCEPT ![e] = a]
          /\ a.pc = "store" /\ a.inv = Inv(e) /\ a.doc = Doc(e)
          /\ a.event = attempt[e].event
      BY <2>2 DEF AttemptsOK, AttemptType, Inv, Doc
    <2> HIDE DEF a
    <2>5. /\ Len(events) \in Nat /\ Len(events') \in Nat /\ Len(events) <= Len(events')
          /\ attempt[e].event <= Len(events) /\ events' = events
      BY <1>4 DEF Save, DataOK, AttemptsOK
    <2>4. AttemptsOK'
      BY <1>4, <2>3, <2>5, SetType DEF Save
    <2> QED
      BY <1>4, <2>1, <2>4 DEF Save, DataOK, CufOrNone
  <1>5. CASE Store(e)
    <2>1. AttemptsOK'
      BY <1>5, MoveType DEF Store
    <2> QED
      BY <1>5, <2>1 DEF Store, DataOK, CufOrNone
  <1>6. CASE StoreFails(e)
    BY <1>6, MoveType DEF StoreFails, DataOK
  <1>7. CASE Unsave(e)
    <2>1. AttemptsOK'
      BY <1>7, MoveType DEF Unsave
    <2> QED
      BY <1>7, <2>1 DEF Unsave, Without, DataOK, CufOrNone
  <1>8. CASE Dispatch(e)
    BY <1>8, MoveType DEF Dispatch, DataOK
  <1>9. CASE Fail(e)
    BY <1>9, MoveType DEF Fail, FailingSteps, DataOK
  <1>10. CASE Rollback(e)
    <2>1. Inv(e) \in Invoices /\ "PENDING" \in Statuses /\ AttemptsOK'
      BY <1>10, FinishType DEF Rollback, Statuses, DataOK
    <2> QED
      BY <1>10, <2>1, TransitionType DEF Rollback
  <1>11. CASE RollbackFails(e)
    BY <1>11, FinishType DEF RollbackFails, DataOK
  <1>12. CASE Answered(e)
    <2> DEFINE status == EmissionOutcome(siat[Doc(e)])
    <2>0. status \in Statuses
      BY OutcomeStatus DEF Statuses
    <2> DEFINE a == [attempt[e] EXCEPT !.pc = "xml", !.outcome = status]
    <2>1. attempt' = [attempt EXCEPT ![e].pc = "xml", ![e].outcome = status]
      BY <1>12 DEF Answered
    <2> HIDE DEF status
    <2>2. /\ a \in AttemptType /\ attempt' = [attempt EXCEPT ![e] = a]
          /\ a.pc = "xml" /\ a.inv = Inv(e) /\ a.doc = Doc(e)
          /\ a.event = attempt[e].event
      BY <2>0, <2>1 DEF AttemptsOK, AttemptType, Inv, Doc
    <2> HIDE DEF a
    <2>3. /\ Len(events) \in Nat /\ Len(events') \in Nat /\ Len(events) <= Len(events')
          /\ attempt[e].event <= Len(events) /\ events' = events
      BY <1>12 DEF Answered, DataOK, AttemptsOK
    <2>4. AttemptsOK'
      BY <1>12, <2>2, <2>3, SetType DEF Answered
    <2> QED
      BY <1>12, <2>4 DEF Answered, DataOK
  <1>13. CASE SaveSigned(e)
    <2>1. PICK saved \in SaveResults(file[Inv(e)], Doc(e)) :
             file' = [file EXCEPT ![Inv(e)] = saved]
      BY <1>13 DEF SaveSigned
    <2>2. AttemptsOK'
      BY <1>13, MoveType DEF SaveSigned
    <2> QED
      BY <1>13, <2>1, <2>2, SaveResult DEF SaveSigned, DataOK, CufOrNone
  <1>14. CASE Persist(e)
    <2>1. AttemptsOK' /\ attempt[e].outcome \in Statuses
      BY <1>14, FinishType, TransitionStatuses DEF Persist, Applies, DataOK
    <2> QED
      BY <1>14, <2>1 DEF Persist, TransitionStatus, QueuedWith, DataOK, CufOrNone
  <1>15. CASE AnswerDropped(e)
    BY <1>15, FinishType DEF AnswerDropped, DataOK
  <1> QED
    BY <1>1, <1>2, <1>3, <1>4, <1>5, <1>6, <1>7, <1>8, <1>9, <1>10, <1>11,
       <1>12, <1>13, <1>14, <1>15
    DEF Online

\* A step of the offline contingency keeps the types.
LEMMA ContingencyType ==
    ASSUME DataOK, AttemptsOK, NEW e \in Emitters, Contingency(e)
    PROVE  DataOK' /\ AttemptsOK'
  <1>0. /\ attempt[e].pc # "idle" => Inv(e) \in Invoices
        /\ attempt[e].pc \in Bound => Doc(e) \in Cufs
    BY DEF AttemptsOK, BoundDocs, Inv, Doc
  <1> USE <1>0 DEF At, database, Bound, Steps
  <1>1. CASE ConnectivityLost(e)
    BY <1>1, MoveType DEF ConnectivityLost, DataOK
  <1>2. CASE Discard(e)
    <2>1. AttemptsOK'
      BY <1>2, MoveType DEF Discard
    <2> QED
      BY <1>2, <2>1 DEF Discard, DataOK, CufOrNone
  <1>3. CASE Clear(e)
    <2>1. AttemptsOK'
      BY <1>3, MoveType DEF Clear
    <2> QED
      BY <1>3, <2>1 DEF Clear, DataOK, CufOrNone
  <1>4. CASE JoinEvent(e)
    <2>1. PICK k \in 1..Len(events) :
             attempt' = [attempt EXCEPT ![e].pc = "offlineFile", ![e].event = k]
      BY <1>4 DEF JoinEvent
    <2>2. k \in 0..MaxEvents /\ k <= Len(events)
      BY <2>1, BoundAssumption DEF DataOK
    <2> DEFINE a == [attempt[e] EXCEPT !.pc = "offlineFile", !.event = k]
    <2>3. /\ a \in AttemptType /\ attempt' = [attempt EXCEPT ![e] = a]
          /\ a.pc = "offlineFile" /\ a.inv = Inv(e) /\ a.doc = Doc(e) /\ a.event = k
      BY <2>1, <2>2 DEF AttemptsOK, AttemptType, Inv, Doc
    <2> HIDE DEF a
    <2>5. /\ Len(events) \in Nat /\ Len(events') \in Nat /\ Len(events) <= Len(events')
          /\ attempt[e].event <= Len(events) /\ events' = events
      BY <1>4 DEF JoinEvent, DataOK, AttemptsOK
    <2>4. AttemptsOK'
      BY <1>4, <2>2, <2>3, <2>5, SetType DEF JoinEvent
    <2> QED
      BY <1>4, <2>4 DEF JoinEvent, DataOK
  <1>5. CASE NeedsEvent(e)
    BY <1>5, MoveType DEF NeedsEvent, DataOK
  <1>6. CASE CreateEvent(e)
    <2>1. /\ IssueDate[Inv(e)] \in Nat
          /\ NextEvent \in 0..MaxEvents /\ NextEvent = Len(events) + 1
      BY <1>6, DateAssumption, BoundAssumption DEF CreateEvent, NextEvent, DataOK
    <2>2. /\ events' \in Seq([start : Nat, open : BOOLEAN])
          /\ Len(events') = Len(events) + 1
      BY <1>6, <2>1 DEF CreateEvent, DataOK
    <2> DEFINE a == [attempt[e] EXCEPT !.pc = "offlineFile", !.event = NextEvent]
    <2>5. /\ a \in AttemptType /\ attempt' = [attempt EXCEPT ![e] = a]
          /\ a.pc = "offlineFile" /\ a.inv = Inv(e) /\ a.doc = Doc(e)
          /\ a.event = NextEvent
      BY <1>6, <2>1 DEF CreateEvent, AttemptsOK, AttemptType, Inv, Doc
    <2> HIDE DEF a
    <2>6. /\ Len(events) \in Nat /\ Len(events') \in Nat /\ Len(events) <= Len(events')
          /\ attempt[e].event <= Len(events)
      BY <2>2 DEF DataOK, AttemptsOK
    <2>7. a.inv \in Invoices /\ a.doc \in Cufs /\ a.event <= Len(events')
      BY <1>6, <2>1, <2>2, <2>5, <2>6 DEF CreateEvent
    <2>3. AttemptsOK'
      BY <2>2, <2>5, <2>6, <2>7, SetType
    <2>4. DataOK'
      BY <1>6, <2>1, <2>2 DEF CreateEvent, DataOK
    <2> QED
      BY <2>3, <2>4
  <1>7. CASE SaveOffline(e)
    <2>1. PICK saved \in SaveResults(file[Inv(e)], OfflineDoc(Doc(e))) :
             file' = [file EXCEPT ![Inv(e)] = saved]
      BY <1>7 DEF SaveOffline
    <2>2. AttemptsOK'
      BY <1>7, MoveType DEF SaveOffline
    <2> QED
      BY <1>7, <2>1, <2>2, SaveResult, OfflineDocType DEF SaveOffline, DataOK, CufOrNone
  <1>8. CASE ToOffline(e)
    <2>1. AttemptsOK' /\ OfflineDoc(Doc(e)) \in Cufs
      BY <1>8, FinishType, OfflineDocType DEF ToOffline, DataOK
    <2>2. attempt[e].event \in 0..MaxEvents /\ attempt[e].event <= Len(events)
      BY DEF AttemptsOK, AttemptType
    <2> QED
      BY <1>8, <2>1, <2>2
      DEF ToOffline, TransitionStatus, QueuedWith, DataOK, CufOrNone, Statuses
  <1>9. CASE ContingencyFails(e)
    BY <1>9, MoveType DEF ContingencyFails, ContingencySteps, DataOK
  <1> QED
    BY <1>1, <1>2, <1>3, <1>4, <1>5, <1>6, <1>7, <1>8, <1>9 DEF Contingency

\* A step of a crash, the reaper or the environment keeps the types.
LEMMA RestType ==
    ASSUME DataOK, AttemptsOK,
           \/ \E e \in Emitters : Crash(e) \/ \E i \in Invoices : Start(e, i)
           \/ \E i \in Invoices : Reap(i)
           \/ Environment
           \/ UNCHANGED vars
    PROVE  DataOK' /\ AttemptsOK'
  <1> USE DEF database
  <1>1. ASSUME NEW e \in Emitters, Crash(e)
        PROVE  DataOK' /\ AttemptsOK'
    BY <1>1, FinishType DEF Crash, DataOK
  <1>2. ASSUME NEW e \in Emitters, NEW i \in Invoices, Start(e, i)
        PROVE  DataOK' /\ AttemptsOK'
    <2> DEFINE begun == [Idle EXCEPT !.pc = "claim", !.inv = i, !.doc = row[i].cuf]
    <2>1. begun \in AttemptType /\ begun.pc = "claim" /\ begun.inv = i /\ begun.event = 0
      <3>1. row[i].cuf \in CufOrNone
        BY DEF DataOK
      <3> QED
        BY <3>1, IdleType DEF Idle, AttemptType, Steps
    <2>2. attempt' = [attempt EXCEPT ![e] = begun]
      BY <1>2 DEF Start
    <2> HIDE DEF begun
    <2>4. Len(events) \in Nat /\ Len(events') = Len(events) /\ 0 <= Len(events)
      <3>1. events \in Seq([start : Nat, open : BOOLEAN])
        BY DEF DataOK
      <3>2. events' = events
        BY <1>2 DEF Start
      <3> QED
        BY <3>1, <3>2
    <2>5. begun.pc \notin Bound /\ begun.event <= Len(events') /\ Len(events') \in Nat
          /\ Len(events) <= Len(events')
      BY <2>1, <2>4 DEF Bound
    <2>3. AttemptsOK'
      BY <2>1, <2>2, <2>4, <2>5, SetType
    <2> QED
      BY <1>2, <2>3 DEF Start, DataOK
  <1>3. ASSUME NEW i \in Invoices, Reap(i)
        PROVE  DataOK' /\ AttemptsOK'
    BY <1>3 DEF Reap, DataOK, AttemptsOK, BoundDocs, Statuses
  <1>4. CASE RenewCufd
    BY <1>4, BoundAssumption DEF RenewCufd, DataOK, AttemptsOK, BoundDocs
  <1>5. ASSUME NEW start \in Starts,
               RecordEvent(start) \/ \E k \in 1..MaxEvents : CloseEvent(k, start)
        PROVE  DataOK' /\ AttemptsOK'
    <2>1. Registered(start) \in [start : Nat, open : BOOLEAN]
      BY DateAssumption DEF Registered, Starts
    <2>2. /\ events \in Seq([start : Nat, open : BOOLEAN])
          /\ Len(events) \in Nat /\ Len(events) <= MaxEvents
      BY DEF DataOK
    <2>3. /\ events' \in Seq([start : Nat, open : BOOLEAN])
          /\ Len(events) <= Len(events') /\ Len(events') <= MaxEvents
      <3>1. CASE RecordEvent(start)
        BY <3>1, <2>1, <2>2, BoundAssumption DEF RecordEvent
      <3>2. ASSUME NEW k \in 1..MaxEvents, CloseEvent(k, start)
            PROVE  /\ events' \in Seq([start : Nat, open : BOOLEAN])
                   /\ Len(events') = Len(events)
        <4>1. k \in 1..Len(events) /\ events' = [events EXCEPT ![k] = Registered(start)]
          BY <3>2 DEF CloseEvent
        <4> QED
          BY <4>1, <2>1, <2>2
      <3> QED
        BY <1>5, <3>1, <3>2, <2>2
    <2>4. UNCHANGED <<row, file, queued, cufd, attempt, net, siat>>
      BY <1>5 DEF RecordEvent, CloseEvent
    <2>5. Len(events') \in Nat
      BY <2>3
    <2>6. /\ \A i \in Invoices : row[i].event \in Nat /\ row[i].event <= Len(events')
          /\ \A e \in Emitters : attempt[e].event \in Nat /\ attempt[e].event <= Len(events')
      BY <2>2, <2>3, <2>5, BoundAssumption DEF DataOK, AttemptsOK, AttemptType
    <2> QED
      BY <2>3, <2>4, <2>6 DEF DataOK, AttemptsOK, BoundDocs
  <1>6. ASSUME NEW c \in Cufs, Receive(c) \/ Review(c)
        PROVE  DataOK' /\ AttemptsOK'
    BY <1>6 DEF Receive, Review, DataOK, AttemptsOK, BoundDocs, SiatStates
  <1>7. CASE UNCHANGED vars
    BY <1>7 DEF vars, DataOK, AttemptsOK, BoundDocs
  <1>8. CASE Environment
    BY <1>4, <1>5, <1>6, <1>8 DEF Environment
  <1> QED
    BY <1>1, <1>2, <1>3, <1>7, <1>8

\* The type invariant is inductive.
LEMMA StepType == TypeInv /\ [Next]_vars => TypeInv'
  <1> SUFFICES ASSUME TypeInv, [Next]_vars PROVE TypeInv'
    OBVIOUS
  <1>1. DataOK /\ AttemptsOK
    BY TypeParts
  <1>2. DataOK' /\ AttemptsOK'
    BY <1>1, OnlineType, ContingencyType, RestType DEF Next, Emitter
  <1> QED
    BY <1>2 DEF TypeInv, TypeOK, DataOK, AttemptsOK

(***************************************************************************)
(* Every reachable state is well typed, and every event an invoice names   *)
(* exists.                                                                 *)
(***************************************************************************)
THEOREM TypeCorrect == Spec => []TypeOK
  <1>1. TypeInv => TypeOK
    BY DEF TypeInv
  <1> QED
    BY <1>1, InitType, StepType, PTL DEF Spec

\* The strengthened type invariant, for the theorems below.
LEMMA TypeInvariance == Spec => []TypeInv
  BY InitType, StepType, PTL DEF Spec

-----------------------------------------------------------------------------
(* Frames: which actions can touch which variable.  The proofs below look   *)
(* only at those.                                                           *)

\* Only a step of an emission changes the emissions.
LEMMA EmissionStep ==
    ASSUME [Next]_vars, NEW e \in Emitters
    PROVE  \/ attempt' = attempt
           \/ \E f \in Emitters : Emitter(f) \/ Crash(f) \/ \E i \in Invoices : Start(f, i)
  BY DEF Next, vars, Environment, Reap, RenewCufd, RecordEvent, CloseEvent, Receive, Review

\* The steps that may change the invoice rows.
LEMMA RowFrame ==
    ASSUME [Next]_vars
    PROVE  \/ row' = row
           \/ \E e \in Emitters : \/ Claim(e) \/ Store(e) \/ Rollback(e) \/ Persist(e)
                                \/ Clear(e) \/ ToOffline(e)
           \/ \E i \in Invoices : Reap(i)
  <1> USE DEF database
  <1>1. ASSUME NEW e \in Emitters, Online(e)
        PROVE  row' = row \/ Claim(e) \/ Store(e) \/ Rollback(e) \/ Persist(e)
    BY <1>1 DEF Online, ClaimFails, Prepare, Save, StoreFails, Unsave, Dispatch, Fail,
                RollbackFails, Answered, SaveSigned, AnswerDropped
  <1>2. ASSUME NEW e \in Emitters, Contingency(e)
        PROVE  row' = row \/ Clear(e) \/ ToOffline(e)
    BY <1>2 DEF Contingency, ConnectivityLost, Discard, JoinEvent, NeedsEvent,
                CreateEvent, SaveOffline, ContingencyFails
  <1>3. ASSUME Environment \/ UNCHANGED vars
        PROVE  row' = row
    BY <1>3 DEF Environment, RenewCufd, RecordEvent, CloseEvent, Receive, Review, vars
  <1>4. ASSUME NEW e \in Emitters, Crash(e) \/ \E i \in Invoices : Start(e, i)
        PROVE  row' = row
    BY <1>4 DEF Crash, Start
  <1> QED
    BY <1>1, <1>2, <1>3, <1>4 DEF Next, Emitter

\* The steps that may change the stored files.
LEMMA FileFrame ==
    ASSUME [Next]_vars
    PROVE  \/ file' = file
           \/ \E e \in Emitters : \/ Save(e) \/ Unsave(e) \/ SaveSigned(e)
                                \/ Discard(e) \/ SaveOffline(e)
  <1>1. ASSUME NEW e \in Emitters, Online(e)
        PROVE  file' = file \/ Save(e) \/ Unsave(e) \/ SaveSigned(e)
    BY <1>1 DEF Online, Claim, ClaimFails, Prepare, Store, StoreFails, Dispatch, Fail,
                Rollback, RollbackFails, Answered, Persist, AnswerDropped
  <1>2. ASSUME NEW e \in Emitters, Contingency(e)
        PROVE  file' = file \/ Discard(e) \/ SaveOffline(e)
    BY <1>2 DEF Contingency, ConnectivityLost, Clear, JoinEvent, NeedsEvent,
                CreateEvent, ToOffline, ContingencyFails
  <1>3. ASSUME Environment \/ UNCHANGED vars \/ \E i \in Invoices : Reap(i)
        PROVE  file' = file
    BY <1>3 DEF Environment, RenewCufd, RecordEvent, CloseEvent, Receive, Review, vars, Reap
  <1>4. ASSUME NEW e \in Emitters, Crash(e) \/ \E i \in Invoices : Start(e, i)
        PROVE  file' = file
    BY <1>4 DEF Crash, Start
  <1> QED
    BY <1>1, <1>2, <1>3, <1>4 DEF Next, Emitter

\* The steps that may change what the SIAT holds.
LEMMA SiatFrame ==
    ASSUME [Next]_vars
    PROVE  siat' = siat \/ \E c \in Cufs : Receive(c) \/ Review(c)
  <1>1. ASSUME NEW e \in Emitters, Online(e)
        PROVE  siat' = siat
    BY <1>1 DEF Online, Claim, ClaimFails, Prepare, Save, Store, StoreFails, Unsave, Dispatch,
                Fail, Rollback, RollbackFails, Answered, SaveSigned, Persist, AnswerDropped
  <1>2. ASSUME NEW e \in Emitters, Contingency(e)
        PROVE  siat' = siat
    BY <1>2 DEF Contingency, ConnectivityLost, Discard, Clear, JoinEvent, NeedsEvent,
                CreateEvent, SaveOffline, ToOffline, ContingencyFails
  <1>3. ASSUME \/ \E e \in Emitters : Crash(e) \/ \E i \in Invoices : Start(e, i)
               \/ \E i \in Invoices : Reap(i)
        PROVE  siat' = siat
    BY <1>3 DEF Crash, Start, Reap
  <1> QED
    BY <1>1, <1>2, <1>3 DEF Next, Emitter, Environment, RenewCufd, RecordEvent, CloseEvent, vars

\* An emission is moved by its own steps only.
LEMMA OwnSteps ==
    ASSUME TypeInv, [Next]_vars, NEW e \in Emitters
    PROVE  \/ attempt'[e] = attempt[e]
           \/ Emitter(e) \/ Crash(e) \/ \E i \in Invoices : Start(e, i)
  <1> USE DEF TypeInv, TypeOK, Goto, Finish
  <1>1. ASSUME NEW f \in Emitters, f # e, Online(f)
        PROVE  attempt'[e] = attempt[e]
    BY <1>1 DEF Online, Claim, ClaimFails, Prepare, Save, Store, StoreFails, Unsave, Dispatch,
                Fail, Rollback, RollbackFails, Answered, SaveSigned, Persist, AnswerDropped
  <1>2. ASSUME NEW f \in Emitters, f # e, Contingency(f)
        PROVE  attempt'[e] = attempt[e]
    BY <1>2 DEF Contingency, ConnectivityLost, Discard, Clear, JoinEvent, NeedsEvent,
                CreateEvent, SaveOffline, ToOffline, ContingencyFails
  <1>3. ASSUME NEW f \in Emitters, f # e, Crash(f) \/ \E i \in Invoices : Start(f, i)
        PROVE  attempt'[e] = attempt[e]
    BY <1>3 DEF Crash, Start
  <1> QED
    BY <1>1, <1>2, <1>3, EmissionStep DEF Emitter

\* A crash, a start, and the end of a request leave an emission before its claim.
LEMMA FreshStep ==
    ASSUME TypeInv, NEW e \in Emitters,
           Crash(e) \/ (\E i \in Invoices : Start(e, i)) \/ Finish(e)
    PROVE  attempt'[e].pc \in {"idle", "claim"}
  <1>1. CASE Crash(e) \/ Finish(e)
    BY <1>1 DEF Crash, Finish, Idle, TypeInv, TypeOK
  <1>2. ASSUME NEW i \in Invoices, Start(e, i)
        PROVE  attempt'[e].pc = "claim"
    <2>1. attempt'[e] = [Idle EXCEPT !.pc = "claim", !.inv = i, !.doc = row[i].cuf]
      BY <1>2 DEF Start, TypeInv, TypeOK
    <2> QED
      BY <2>1 DEF Idle
  <1> QED
    BY <1>1, <1>2

-----------------------------------------------------------------------------
(* The status of an invoice and the SIAT. *)

\* A row is only changed while it is PENDING or SENDING.
LEMMA RowStep ==
    ASSUME TypeInv, [Next]_vars, NEW i \in Invoices
    PROVE  \/ row'[i] = row[i]
           \/ /\ row[i].status \in {"PENDING", "SENDING"}
              /\ row'[i].status \in {"PENDING", "SENDING", "OFFLINE"}
           \/ /\ row[i].status = "SENDING"
              /\ \E e \in Emitters : Persist(e) /\ Inv(e) = i
  <1> USE DEF TypeInv, TypeOK
  <1>1. ASSUME NEW e \in Emitters, Claim(e) \/ Rollback(e) \/ ToOffline(e),
               row'[i] # row[i]
        PROVE  /\ row[i].status \in {"PENDING", "SENDING"}
               /\ row'[i].status \in {"PENDING", "SENDING", "OFFLINE"}
    BY <1>1 DEF Claim, Rollback, ToOffline, TransitionStatus, Claimable, Applies
  <1>2. ASSUME NEW e \in Emitters, Store(e) \/ Clear(e), row'[i] # row[i]
        PROVE  row[i].status = "SENDING" /\ row'[i].status = "SENDING"
    BY <1>2 DEF Store, Clear, Reservable
  <1>3. ASSUME NEW e \in Emitters, Persist(e), row'[i] # row[i]
        PROVE  row[i].status = "SENDING" /\ Inv(e) = i
    BY <1>3 DEF Persist, TransitionStatus, Applies
  <1>4. ASSUME NEW j \in Invoices, Reap(j), row'[i] # row[i]
        PROVE  row[i].status = "SENDING" /\ row'[i].status = "PENDING"
    BY <1>4 DEF Reap, Stale
  <1> QED
    BY <1>1, <1>2, <1>3, <1>4, RowFrame

(***************************************************************************)
(* No late rollback, reaper pass or claim reopens a settled invoice, even  *)
(* if emissions outlive the reaper's patience.                             *)
(***************************************************************************)
THEOREM NeverReopened == Spec => SettledNeverReopens
  <1>1. TypeInv /\ [Next]_vars =>
          [\A i \in Invoices : row[i].status \in Settled => row'[i].status \in Settled]_vars
    BY RowStep DEF Settled
  <1> QED
    BY <1>1, TypeInvariance, PTL DEF Spec, SettledNeverReopens

\* A status that the SIAT's state of the code justifies.
Backed(status, estado) ==
    \/ status = "ACCEPTED" /\ estado \in {"accepted", "annulled", "reverted"}
    \/ status = "OBSERVED" /\ estado # "none"
    \/ status = "REJECTED" /\ estado = "rejected"
    \/ status = "CANCELLED" /\ estado \in {"annulled", "reverted"}

Answering(e) == attempt[e].pc \in {"xml", "persist"}

\* OutcomeMatchesSiat, and the same of the answers on their way to the row.
VerdictInv ==
    /\ \A i \in Invoices :
          row[i].status \in {"ACCEPTED", "OBSERVED", "REJECTED", "CANCELLED"} =>
             row[i].cuf \in Cufs /\ Backed(row[i].status, siat[row[i].cuf])
    /\ \A e \in Emitters : Answering(e) =>
          attempt[e].doc \in Cufs /\ Backed(attempt[e].outcome, siat[attempt[e].doc])

\* The outcome of an emission is backed by the state it was derived from.
LEMMA OutcomeBacked ==
    \A estado \in SiatStates \ {"none"} : Backed(EmissionOutcome(estado), estado)
  BY DEF SiatStates, EmissionOutcome, Backed

\* What backs a status keeps backing it whatever the SIAT decides next.
LEMMA SiatAdvances ==
    ASSUME TypeInv, [Next]_vars, NEW c \in Cufs, NEW status, Backed(status, siat[c])
    PROVE  Backed(status, siat'[c])
  <1>1. CASE siat' = siat
    BY <1>1
  <1>2. ASSUME NEW d \in Cufs, Receive(d)
        PROVE  siat'[c] = siat[c] \/ siat[c] = "none"
    BY <1>2 DEF Receive, TypeInv, TypeOK
  <1>3. ASSUME NEW d \in Cufs, Review(d)
        PROVE  siat'[c] = siat[c] \/ (siat[c] = "observed" /\ siat'[c] \in {"accepted", "rejected"})
    BY <1>3 DEF Review, TypeInv, TypeOK
  <1>4. siat[c] # "none"
    BY DEF Backed
  <1> QED
    BY <1>1, <1>2, <1>3, <1>4, SiatFrame DEF Backed

\* Initially nothing was answered and nothing is settled.
LEMMA VerdictInit == Init => VerdictInv
  BY DEF Init, VerdictInv, Answering, Idle

\* An answer comes from the SIAT, or was there before.
LEMMA AnswerStep ==
    ASSUME TypeInv, [Next]_vars, NEW e \in Emitters, Answering(e)'
    PROVE  \/ Answered(e)
           \/ /\ Answering(e)
              /\ attempt'[e].doc = attempt[e].doc
              /\ attempt'[e].outcome = attempt[e].outcome
  <1> USE DEF TypeInv, TypeOK, AttemptType, Answering, At, Goto, Finish, Idle
  <1>1. CASE Online(e)
    <2>1. CASE SaveSigned(e)
      BY <2>1 DEF SaveSigned
    <2> QED
      BY <1>1, <2>1
      DEF Online, Claim, ClaimFails, Prepare, Save, Store, StoreFails, Unsave, Dispatch,
          Fail, Rollback, RollbackFails, Persist, AnswerDropped
  <1>2. CASE Contingency(e)
    BY <1>2 DEF Contingency, ConnectivityLost, Discard, Clear, JoinEvent, NeedsEvent,
                CreateEvent, SaveOffline, ToOffline, ContingencyFails
  <1>3. CASE Crash(e) \/ \E i \in Invoices : Start(e, i)
    BY <1>3, FreshStep
  <1>4. CASE attempt'[e] = attempt[e]
    BY <1>4
  <1> QED
    BY <1>1, <1>2, <1>3, <1>4, OwnSteps DEF Emitter

\* The backing of statuses and carried outcomes is inductive, given the types.
LEMMA VerdictStep == TypeInv /\ VerdictInv /\ [Next]_vars => VerdictInv'
  <1> SUFFICES ASSUME TypeInv, VerdictInv, [Next]_vars PROVE VerdictInv'
    OBVIOUS
  <1>1. ASSUME NEW i \in Invoices
        PROVE  row'[i].status \in {"ACCEPTED", "OBSERVED", "REJECTED", "CANCELLED"} =>
                  row'[i].cuf \in Cufs /\ Backed(row'[i].status, siat'[row'[i].cuf])
    <2>1. CASE row'[i] = row[i]
      BY <2>1, SiatAdvances DEF VerdictInv
    <2>2. CASE row'[i].status \in {"PENDING", "SENDING", "OFFLINE"}
      BY <2>2
    <2>3. ASSUME NEW e \in Emitters, Persist(e), Inv(e) = i
          PROVE  /\ row'[i].status = attempt[e].outcome
                 /\ row'[i].cuf = attempt[e].doc
                 /\ Answering(e)
      BY <2>3 DEF Persist, TransitionStatus, Answering, At, Doc, TypeInv, TypeOK
    <2>4. CASE \E e \in Emitters : Persist(e) /\ Inv(e) = i
      <3>1. PICK e \in Emitters : Persist(e) /\ Inv(e) = i
        BY <2>4
      <3>2. attempt[e].doc \in Cufs /\ Backed(attempt[e].outcome, siat[attempt[e].doc])
        BY <3>1, <2>3 DEF VerdictInv
      <3>3. Backed(attempt[e].outcome, siat'[attempt[e].doc])
        BY <3>2, SiatAdvances
      <3> QED
        BY <3>1, <3>2, <3>3, <2>3 DEF Backed
    <2> QED
      BY <2>1, <2>2, <2>4, RowStep
  <1>2. ASSUME NEW e \in Emitters, Answering(e)'
        PROVE  /\ attempt'[e].doc \in Cufs
               /\ Backed(attempt'[e].outcome, siat'[attempt'[e].doc])
    <2>1. CASE Answered(e)
      <3>1. attempt[e].doc \in Cufs
        BY <2>1 DEF Answered, At, TypeInv, BoundDocs, Bound, Steps
      <3>2. /\ attempt'[e].doc = attempt[e].doc
            /\ attempt'[e].outcome = EmissionOutcome(siat[attempt[e].doc])
            /\ siat[attempt[e].doc] \in SiatStates \ {"none"}
            /\ siat' = siat
        BY <2>1, <3>1 DEF Answered, Doc, TypeInv, TypeOK, AttemptType
      <3> QED
        BY <3>1, <3>2, OutcomeBacked
    <2>2. CASE /\ Answering(e)
               /\ attempt'[e].doc = attempt[e].doc
               /\ attempt'[e].outcome = attempt[e].outcome
      BY <2>2, SiatAdvances DEF VerdictInv
    <2> QED
      BY <1>2, <2>1, <2>2, AnswerStep
  <1> QED
    BY <1>1, <1>2 DEF VerdictInv

(***************************************************************************)
(* The status of an invoice never runs ahead of the SIAT, for any number of *)
(* emissions, however late their answers are applied.                       *)
(***************************************************************************)
THEOREM NeverAheadOfSiat == Spec => []OutcomeMatchesSiat
  <1>1. VerdictInv => OutcomeMatchesSiat
    BY NoCufAssumption DEF VerdictInv, OutcomeMatchesSiat, Backed
  <1>2. Spec => []VerdictInv
    BY VerdictInit, VerdictStep, TypeInvariance, PTL DEF Spec
  <1> QED
    BY <1>1, <1>2, PTL

-----------------------------------------------------------------------------
(* Exclusion, when no emission outlives the reaper's patience. *)

\* An emission past the claim was already, or is claiming.
LEMMA HoldStep ==
    ASSUME TypeInv, [Next]_vars, NEW e \in Emitters, NEW i \in Invoices, Holds(e, i)'
    PROVE  (Claim(e) /\ Inv(e) = i) \/ Holds(e, i)
  <1> USE DEF TypeInv, TypeOK, AttemptType, Holds, At, Goto, Finish, Idle, Inv
  <1>1. CASE Online(e)
    <2>1. CASE Claim(e)
      BY <2>1 DEF Claim
    <2> QED
      BY <1>1, <2>1
      DEF Online, ClaimFails, Prepare, Save, Store, StoreFails, Unsave, Dispatch,
          Fail, FailingSteps, Rollback, RollbackFails, Answered, SaveSigned, Persist, AnswerDropped
  <1>2. CASE Contingency(e)
    BY <1>2 DEF Contingency, ConnectivityLost, Discard, Clear, JoinEvent, NeedsEvent,
                CreateEvent, SaveOffline, ToOffline, ContingencyFails, ContingencySteps
  <1>3. CASE Crash(e) \/ \E j \in Invoices : Start(e, j)
    BY <1>3, FreshStep
  <1>4. CASE attempt'[e] = attempt[e]
    BY <1>4
  <1> QED
    BY <1>1, <1>2, <1>3, <1>4, OwnSteps DEF Emitter

\* Only the reaper, or an emission that ends with it, takes a row out of SENDING.
LEMMA LeavesSending ==
    ASSUME TypeInv, [Next]_vars, NEW i \in Invoices,
           row[i].status = "SENDING", row'[i].status # "SENDING"
    PROVE  \/ Reap(i)
           \/ \E e \in Emitters : Holds(e, i) /\ ~Holds(e, i)'
  <1> USE DEF TypeInv, TypeOK
  <1>1. ASSUME NEW e \in Emitters, Rollback(e) \/ Persist(e) \/ ToOffline(e), row'[i] # row[i]
        PROVE  Holds(e, i) /\ ~Holds(e, i)'
    <2>1. Inv(e) = i /\ attempt[e].pc \in {"rollback", "persist", "offline"}
      BY <1>1 DEF Rollback, Persist, ToOffline, TransitionStatus, At
    <2>2. Finish(e)
      BY <1>1 DEF Rollback, Persist, ToOffline
    <2> QED
      BY <2>1, <2>2 DEF Holds, Inv, Finish, Idle
  <1>2. ASSUME NEW e \in Emitters, Store(e) \/ Clear(e) \/ Claim(e)
        PROVE  row'[i].status = "SENDING"
    <2>1. CASE Store(e) \/ Clear(e)
      <3>1. PICK code : row' = [row EXCEPT ![Inv(e)].cuf = code]
        BY <2>1 DEF Store, Clear
      <3> QED
        BY <3>1
    <2>2. CASE Claim(e)
      BY <2>2 DEF Claim, TransitionStatus
    <2> QED
      BY <1>2, <2>1, <2>2
  <1>3. ASSUME NEW j \in Invoices, Reap(j)
        PROVE  i = j
    BY <1>3 DEF Reap
  <1> QED
    BY <1>1, <1>2, <1>3, RowFrame

\* Who holds an invoice holds it alone, and nobody starts another emission of it.
\* (Operations on the invoice may settle it meanwhile: module Lifecycle.)
HeldTaken ==
    \A i \in Invoices : \A e, f \in Emitters :
        Holds(e, i) =>
            /\ row[i].status # "PENDING"
            /\ Holds(f, i) => e = f

\* A claim finds its invoice held by nobody, and holds it alone.
LEMMA ClaimAlone ==
    ASSUME TypeInv, HeldTaken, NEW f \in Emitters, Claim(f), NEW i, Inv(f) = i, i \in Invoices
    PROVE  row'[i].status = "SENDING" /\ \A g \in Emitters : Holds(g, i)' => g = f
  <1>1. /\ row[i].status = "PENDING" /\ row'[i].status = "SENDING"
        /\ \A g \in Emitters : g # f => attempt'[g] = attempt[g]
    BY DEF Claim, Claimable, Applies, TransitionStatus, Goto, TypeInv, TypeOK
  <1>2. \A g \in Emitters : ~Holds(g, i)
    BY <1>1 DEF HeldTaken
  <1> QED
    BY <1>1, <1>2 DEF Holds

\* This is inductive, given the types.
LEMMA HeldTakenStep ==
    ASSUME ~SlowAttempts
    PROVE  TypeInv /\ HeldTaken /\ [Next]_vars => HeldTaken'
  <1> SUFFICES ASSUME TypeInv, HeldTaken, [Next]_vars,
                      NEW i \in Invoices, NEW e \in Emitters, Holds(e, i)'
               PROVE  /\ row'[i].status # "PENDING"
                      /\ \A f \in Emitters : Holds(f, i)' => e = f
    BY DEF HeldTaken, Holds
  <1>1. CASE \E f \in Emitters : Claim(f) /\ Inv(f) = i
    BY <1>1, ClaimAlone
  <1>2. CASE ~\E f \in Emitters : Claim(f) /\ Inv(f) = i
    <2>1. \A f \in Emitters : Holds(f, i)' => Holds(f, i)
      BY <1>2, HoldStep
    <2>2. row[i].status # "PENDING" /\ \A f \in Emitters : Holds(f, i)' => e = f
      BY <2>1 DEF HeldTaken
    <2>3. CASE row[i].status = "SENDING"
      <3>1. ~Reap(i)
        BY <2>1 DEF Reap, Stale
      <3> QED
        BY <2>1, <2>2, <2>3, <3>1, LeavesSending DEF HeldTaken
    <2>4. CASE row[i].status # "SENDING"
      BY <2>2, <2>4, RowStep
    <2> QED
      BY <2>2, <2>3, <2>4
  <1> QED
    BY <1>1, <1>2

\* Exclusion is inductive, given the types.
LEMMA ExclusiveStep ==
    ASSUME ~SlowAttempts
    PROVE  TypeInv /\ ExclusiveAttempt /\ [Next]_vars => ExclusiveAttempt'
  <1> SUFFICES ASSUME TypeInv, ExclusiveAttempt, [Next]_vars,
                      NEW i \in Invoices, NEW e \in Emitters, Holds(e, i)'
               PROVE  /\ row'[i].status = "SENDING"
                      /\ \A f \in Emitters : Holds(f, i)' => e = f
    BY DEF ExclusiveAttempt, Holds
  <1>1. HeldTaken
    BY DEF ExclusiveAttempt, HeldTaken
  <1>2. CASE \E f \in Emitters : Claim(f) /\ Inv(f) = i
    BY <1>1, <1>2, ClaimAlone
  <1>3. CASE ~\E f \in Emitters : Claim(f) /\ Inv(f) = i
    <2>1. \A f \in Emitters : Holds(f, i)' => Holds(f, i)
      BY <1>3, HoldStep
    <2>2. row[i].status = "SENDING" /\ \A f \in Emitters : Holds(f, i)' => e = f
      BY <2>1 DEF ExclusiveAttempt
    <2>3. ~Reap(i)
      BY <2>1 DEF Reap, Stale
    <2>4. row'[i].status = "SENDING"
      BY <2>1, <2>2, <2>3, LeavesSending DEF ExclusiveAttempt
    <2> QED
      BY <2>2, <2>4
  <1> QED
    BY <1>2, <1>3

(***************************************************************************)
(* The claim excludes: at most one emission of an invoice is past it, and  *)
(* it finds the invoice SENDING, if emissions end within the reaper's      *)
(* patience.                                                               *)
(***************************************************************************)
THEOREM ClaimExcludes ==
    ASSUME ~SlowAttempts
    PROVE  Spec => []ExclusiveAttempt
  <1>1. Init => ExclusiveAttempt
    BY DEF Init, ExclusiveAttempt, Holds, Idle
  <1>2. TypeInv /\ ExclusiveAttempt /\ [Next]_vars => ExclusiveAttempt'
    BY ExclusiveStep
  <1> QED
    BY <1>1, <1>2, TypeInvariance, PTL DEF Spec
=============================================================================
