--------------------------- MODULE LifecycleProofs ---------------------------
(***************************************************************************)
(* Verifications, annulments and reversals race each other, emissions and  *)
(* the reaper: what holds for any number of them.                          *)
(***************************************************************************)
EXTENDS Lifecycle, EmissionDocumentProofs

\* A running operation holds a fiscal code of the invoice it read.
OpType == [pc : {"idle", "call", "apply"}, kind : Kinds, inv : Invoices \cup {NoInvoice},
           status : Statuses, cuf : CufOrNone, estado : SiatStates]

OpInv ==
    /\ motivo \subseteq Invoices
    /\ op \in [Operators -> OpType]
    /\ \A v \in Operators : op[v].pc # "idle" =>
          op[v].cuf \in Cufs /\ op[v].cuf.inv = op[v].inv

LInv == TypeInv /\ OwnInv /\ OpInv

\* Initially no operation runs.
LEMMA LifecycleInit == LInit => LInv
  <1> SUFFICES ASSUME LInit PROVE LInv
    OBVIOUS
  <1>1. TypeInv /\ OwnInv
    BY InitType, OwnInit DEF LInit
  <1>2. NoOp \in OpType /\ NoOp.pc = "idle"
    BY DEF NoOp, OpType, Kinds, Statuses, CufOrNone, SiatStates
  <1>3. OpInv
    BY <1>2 DEF LInit, OpInv
  <1> QED
    BY <1>1, <1>3 DEF LInv

\* The invoice of a running operation is an invoice.
LEMMA OpInvoice ==
    ASSUME OpInv, NEW v \in Operators, op[v].pc # "idle"
    PROVE  op[v].inv \in Invoices
  BY DEF OpInv, Cufs

\* An operation that goes on, or ends, keeps the operations typed.
LEMMA OpMoves ==
    ASSUME OpInv, NEW v \in Operators, NEW a \in OpType, op' = [op EXCEPT ![v] = a],
           a.pc # "idle" => a.cuf \in Cufs /\ a.cuf.inv = a.inv,
           motivo' \subseteq Invoices
    PROVE  OpInv'
  BY DEF OpInv

\* An operation that ends leaves the others typed.
LEMMA OpEnds ==
    ASSUME OpInv, NEW v \in Operators, EndOp(v), motivo' \subseteq Invoices
    PROVE  OpInv'
  <1>1. NoOp \in OpType /\ NoOp.pc = "idle"
    BY DEF NoOp, OpType, Kinds, Statuses, CufOrNone, SiatStates
  <1> QED
    BY <1>1, OpMoves DEF EndOp

\* The steps of an operation but the one that writes the row.
LEMMA OperatorStep ==
    ASSUME LInv, NEW v \in Operators,
           \/ \E kind \in Kinds, i \in Invoices : Read(v, kind, i)
           \/ Consult(v) \/ Request(v) \/ GiveUp(v)
    PROVE  LInv' /\ row' = row
  <1>1. CASE \E kind \in Kinds, i \in Invoices : Read(v, kind, i)
    <2>1. PICK kind \in Kinds, i \in Invoices : Read(v, kind, i)
      BY <1>1
    <2>2. PICK a : a = [NoOp EXCEPT !.pc = "call", !.kind = kind, !.inv = i,
                                    !.status = row[i].status, !.cuf = row[i].cuf]
      OBVIOUS
    <2>3. row[i].cuf \in Cufs /\ row[i].cuf.inv = i /\ row[i].status \in Statuses
      BY <2>1 DEF Read, Admissible, LInv, OwnInv, OwnCode, TypeInv, TypeOK, CufOrNone
    <2>4. a \in OpType /\ a.cuf \in Cufs /\ a.cuf.inv = a.inv
      BY <2>2, <2>3 DEF NoOp, OpType, CufOrNone, SiatStates
    <2>5. op' = [op EXCEPT ![v] = a] /\ UNCHANGED <<vars, motivo>>
      BY <2>1, <2>2 DEF Read
    <2>6. OpInv'
      BY <2>4, <2>5, OpMoves DEF LInv, OpInv
    <2>7. TypeInv' /\ OwnInv' /\ row' = row
      BY <2>5, StepType, OwnStep DEF LInv, vars
    <2> QED
      BY <2>6, <2>7 DEF LInv
  <1>2. CASE Consult(v)
    <2>1. op[v].cuf \in Cufs /\ op[v].cuf.inv = op[v].inv /\ UNCHANGED <<vars, motivo>>
      BY <1>2 DEF Consult, OpAt, LInv, OpInv
    <2>2. siat[op[v].cuf] \in SiatStates
      BY <2>1 DEF LInv, TypeInv, TypeOK
    <2>3. PICK a : a = [op[v] EXCEPT !.pc = "apply", !.estado = siat[op[v].cuf]]
      OBVIOUS
    <2>4. /\ a \in OpType /\ a.cuf = op[v].cuf /\ a.inv = op[v].inv
          /\ op' = [op EXCEPT ![v] = a]
      BY <1>2, <2>2, <2>3 DEF Consult, LInv, OpInv, OpType
    <2>5. OpInv'
      BY <2>1, <2>4, OpMoves DEF LInv, OpInv
    <2>6. TypeInv' /\ OwnInv' /\ row' = row
      BY <2>1, StepType, OwnStep DEF LInv, vars
    <2> QED
      BY <2>5, <2>6 DEF LInv
  <1>3. CASE Request(v)
    <2>1. /\ op[v].cuf \in Cufs /\ op[v].cuf.inv = op[v].inv
          /\ UNCHANGED <<row, queued, events, cufd, file, attempt, net, motivo>>
      BY <1>3 DEF Request, OpAt, LInv, OpInv, database
    <2>2. PICK estado \in SiatStates :
             /\ siat' = [siat EXCEPT ![op[v].cuf] = estado]
             /\ op' = [op EXCEPT ![v].pc = "apply", ![v].estado = estado] \/ EndOp(v)
      BY <1>3 DEF Request, SiatLeaves, SiatStates
    <2>3. TypeInv' /\ OwnInv'
      BY <2>1, <2>2 DEF LInv, TypeInv, TypeOK, BoundDocs, OwnInv, Inv, Doc
    <2>4. OpInv'
      <3>1. CASE EndOp(v)
        BY <2>1, <3>1, OpEnds DEF LInv, OpInv
      <3>2. CASE op' = [op EXCEPT ![v].pc = "apply", ![v].estado = estado]
        <4>1. PICK a : a = [op[v] EXCEPT !.pc = "apply", !.estado = estado]
          OBVIOUS
        <4>2. /\ a \in OpType /\ a.cuf = op[v].cuf /\ a.inv = op[v].inv
              /\ op' = [op EXCEPT ![v] = a]
          BY <3>2, <4>1 DEF LInv, OpInv, OpType
        <4> QED
          BY <2>1, <4>2, OpMoves DEF LInv, OpInv
      <3> QED
        BY <2>2, <3>1, <3>2
    <2> QED
      BY <2>1, <2>3, <2>4 DEF LInv
  <1>4. CASE GiveUp(v)
    <2>1. TypeInv' /\ OwnInv' /\ row' = row
      BY <1>4, StepType, OwnStep DEF GiveUp, LInv, vars
    <2>2. OpInv'
      BY <1>4, OpEnds DEF GiveUp, LInv, OpInv
    <2> QED
      BY <2>1, <2>2 DEF LInv
  <1> QED
    BY <1>1, <1>2, <1>3, <1>4

\* The step that writes it: one row, one permitted transition, its code kept.
LEMMA ApplyWrites ==
    ASSUME LInv, NEW v \in Operators, Apply(v)
    PROVE  \E i \in Invoices, to \in Statuses :
              /\ CanTransition(row[i].status, to, OpReason(op[v].kind))
              /\ TransitionStatus(i, to, row[i])
              /\ UNCHANGED <<file, events, cufd, attempt, net, siat>>
  <1>1. op[v].inv \in Invoices
    BY OpInvoice DEF Apply, OpAt, LInv
  <1>2. PICK to \in Target(v) : /\ Applies(op[v].inv, op[v].status, to, OpReason(op[v].kind))
                               /\ TransitionStatus(op[v].inv, to, row[op[v].inv])
    BY DEF Apply
  <1>3. PICK i \in Invoices : i = op[v].inv
    BY <1>1
  <1>4. CanTransition(row[i].status, to, OpReason(op[v].kind)) /\ TransitionStatus(i, to, row[i])
    BY <1>2, <1>3 DEF Applies
  <1>5. to \in Statuses
    BY <1>4, TransitionStatuses
  <1> QED
    BY <1>4, <1>5 DEF Apply

\* So the invariant survives it.
LEMMA ApplyStep ==
    ASSUME LInv, NEW v \in Operators, Apply(v)
    PROVE  LInv'
  <1>1. PICK i \in Invoices, to \in Statuses :
           /\ TransitionStatus(i, to, row[i])
           /\ UNCHANGED <<file, events, cufd, attempt, net, siat>>
    BY ApplyWrites
  <1>2. DataOK /\ AttemptsOK
    BY TypeParts DEF LInv
  <1>3. DataOK' /\ AttemptsOK'
    BY <1>1, <1>2, TransitionType DEF AttemptsOK, BoundDocs
  <1>4. TypeInv'
    BY <1>3 DEF TypeInv, TypeOK, DataOK, AttemptsOK
  <1>5. \A j \in Invoices : row'[j].cuf = row[j].cuf
    BY <1>1 DEF TransitionStatus, LInv, TypeInv, TypeOK
  <1>6. OwnInv'
    BY <1>1, <1>5 DEF LInv, OwnInv, Inv, Doc
  <1>7. motivo' \subseteq Invoices
    <2>1. op[v].inv \in Invoices /\ motivo \subseteq Invoices
      BY OpInvoice DEF Apply, OpAt, LInv, OpInv
    <2> QED
      BY <2>1 DEF Apply, MotivoAfter
  <1>8. OpInv'
    BY <1>7, OpEnds DEF Apply, LInv
  <1> QED
    BY <1>4, <1>6, <1>8 DEF LInv

\* The invariant is inductive.
LEMMA LifecycleStep == LInv /\ [LNext]_lvars => LInv'
  <1> SUFFICES ASSUME LInv, [LNext]_lvars PROVE LInv'
    OBVIOUS
  <1>1. CASE [Next]_vars /\ UNCHANGED <<motivo, op>>
    BY <1>1, StepType, OwnStep DEF LInv, OpInv
  <1>2. ASSUME NEW v \in Operators, Operator(v)
        PROVE  LInv'
    BY <1>2, OperatorStep, ApplyStep DEF Operator
  <1> QED
    BY <1>1, <1>2 DEF LNext, lvars

(***************************************************************************)
(* Every reachable state is well typed, and a running operation holds a    *)
(* fiscal code of the invoice it read.                                     *)
(***************************************************************************)
THEOREM LifecycleTypes == LSpec => []LTypeOK
  <1>1. LInv => LTypeOK
    BY DEF LInv, TypeInv, OpInv, OpType, LTypeOK
  <1> QED
    BY <1>1, LifecycleInit, LifecycleStep, PTL DEF LSpec

\* A rejected invoice goes nowhere; an accepted one can only be annulled, and an
\* annulled one only reinstated, whatever the reason.
LEMMA VerdictTable ==
    \A from, to, reason : CanTransition(from, to, reason) =>
        /\ from # "REJECTED"
        /\ from = "ACCEPTED" => to = "CANCELLED"
        /\ from = "CANCELLED" => to = "ACCEPTED"
  BY DEF CanTransition, AllowedTransitions, Verdict

\* What one step may do to a verdict.
LEMMA VerdictKept ==
    ASSUME LInv, [LNext]_lvars, NEW i \in Invoices
    PROVE  /\ row[i].status = "REJECTED" => row'[i].status = "REJECTED"
           /\ row[i].status = "ACCEPTED" => row'[i].status \in {"ACCEPTED", "CANCELLED"}
           /\ row[i].status = "CANCELLED" => row'[i].status \in {"CANCELLED", "ACCEPTED"}
  <1>1. CASE [Next]_vars
    BY <1>1, RowStep DEF LInv
  <1>2. ASSUME NEW v \in Operators, Apply(v)
        PROVE  \/ row'[i].status = row[i].status
               \/ \E reason : CanTransition(row[i].status, row'[i].status, reason)
    <2>1. PICK j \in Invoices, to \in Statuses :
             /\ CanTransition(row[j].status, to, OpReason(op[v].kind))
             /\ TransitionStatus(j, to, row[j])
      BY <1>2, ApplyWrites
    <2>2. row'[i].status = IF i = j THEN to ELSE row[i].status
      BY <2>1 DEF TransitionStatus, LInv, TypeInv, TypeOK
    <2> QED
      BY <2>1, <2>2
  <1>3. ASSUME NEW v \in Operators, Operator(v), ~Apply(v)
        PROVE  row' = row
    BY <1>3, OperatorStep DEF Operator
  <1> QED
    BY <1>1, <1>2, <1>3, VerdictTable DEF LNext, lvars

(***************************************************************************)
(* Whatever operators and emissions do at once, a rejected invoice stays    *)
(* rejected and an annulled one is only ever reinstated.                    *)
(***************************************************************************)
THEOREM VerdictsAdvance == LSpec => VerdictsOnlyAdvance
  <1>1. LInv /\ [LNext]_lvars =>
          [\A i \in Invoices :
              /\ row[i].status = "REJECTED" => row'[i].status = "REJECTED"
              /\ row[i].status = "ACCEPTED" => row'[i].status \in {"ACCEPTED", "CANCELLED"}
              /\ row[i].status = "CANCELLED" => row'[i].status \in {"CANCELLED", "ACCEPTED"}]_lvars
    BY VerdictKept
  <1> QED
    BY <1>1, LifecycleInit, LifecycleStep, PTL DEF LSpec, VerdictsOnlyAdvance

-----------------------------------------------------------------------------
(* What is settled stays backed by the SIAT and by the stored XML, where    *)
(* emissions end within the reaper's patience and no contingency replaces a *)
(* code.  Without the second an operator's verification can settle the      *)
(* invoice whose online preparation is being discarded.                     *)

\* What an operation may write is backed by the SIAT, and the code it asked about
\* is still the code of its invoice.
OpBacked(v) ==
    op[v].pc # "idle" =>
        /\ row[op[v].inv].cuf = op[v].cuf
        /\ op[v].pc = "apply" => \A to \in Target(v) : Backed(to, siat[op[v].cuf])

LifeInv ==
    /\ HeldTaken /\ StoringInv /\ IdentityInv /\ VerdictInv
    /\ \A i \in Invoices : row[i].status # "OFFLINE"
    /\ \A v \in Operators : OpBacked(v)

\* Initially there is nothing to back.
LEMMA LifeInit == LInit => LifeInv
  <1> SUFFICES ASSUME LInit PROVE LifeInv
    OBVIOUS
  <1>1. IdentityInv /\ VerdictInv /\ StoringInv
    BY IdentityInit, VerdictInit, StoredInit DEF LInit, StoredInv
  <1>2. HeldTaken /\ \A i \in Invoices : row[i].status # "OFFLINE"
    BY DEF LInit, Init, HeldTaken, Holds, Idle
  <1>3. \A v \in Operators : OpBacked(v)
    BY DEF LInit, OpBacked, NoOp
  <1> QED
    BY <1>1, <1>2, <1>3 DEF LifeInv

\* Without contingency no invoice goes offline.
LEMMA NoneOffline ==
    ASSUME TypeInv, IdentityInv, VerdictInv, [Next]_vars,
           NEW i \in Invoices, row[i].status # "OFFLINE"
    PROVE  row'[i].status # "OFFLINE"
  <1> USE DEF TypeInv, TypeOK
  <1>1. ASSUME NEW e \in Emitters, Claim(e) \/ Rollback(e)
        PROVE  row'[i].status # "OFFLINE"
    BY <1>1 DEF Claim, Rollback, TransitionStatus
  <1>2. ASSUME NEW e \in Emitters, Store(e)
        PROVE  row'[i].status # "OFFLINE"
    BY <1>2 DEF Store
  <1>3. ASSUME NEW e \in Emitters, Clear(e) \/ ToOffline(e)
        PROVE  FALSE
    BY <1>3 DEF Clear, ToOffline, At, IdentityInv, ContingencySteps
  <1>4. ASSUME NEW e \in Emitters, Persist(e)
        PROVE  row'[i].status # "OFFLINE"
    <2>1. attempt[e].outcome # "OFFLINE"
      BY <1>4 DEF Persist, At, VerdictInv, Answering, Backed
    <2> QED
      BY <1>4, <2>1 DEF Persist, TransitionStatus
  <1>5. ASSUME NEW j \in Invoices, Reap(j)
        PROVE  row'[i].status # "OFFLINE"
    BY <1>5 DEF Reap
  <1> QED
    BY <1>1, <1>2, <1>3, <1>4, <1>5, RowFrame

\* A running operation has a fiscal code of an invoice.
LEMMA OpRuns ==
    ASSUME OpInv, NEW v \in Operators, op[v].pc # "idle"
    PROVE  /\ op[v].inv \in Invoices /\ op[v].cuf \in Cufs /\ op[v].cuf # NoCuf
           /\ op[v] \in OpType
  BY NoCufAssumption DEF OpInv, Cufs

\* A step of module Emission leaves an operation backed: the code it asked about is
\* never replaced, and the SIAT only advances.
LEMMA OpUndisturbed ==
    ASSUME ~OfflineCapable, LInv, LifeInv, [Next]_vars, op' = op, NEW v \in Operators
    PROVE  OpBacked(v)'
  <1> SUFFICES ASSUME op[v].pc # "idle"
               PROVE  /\ row'[op[v].inv].cuf = op[v].cuf
                      /\ op[v].pc = "apply" =>
                            \A to \in Target(v) : Backed(to, siat'[op[v].cuf])
    BY DEF OpBacked, Target
  <1>1. /\ op[v].inv \in Invoices /\ op[v].cuf \in Cufs /\ op[v].cuf # NoCuf
        /\ row[op[v].inv].cuf = op[v].cuf
        /\ op[v].pc = "apply" => \A to \in Target(v) : Backed(to, siat[op[v].cuf])
    BY OpRuns DEF LInv, LifeInv, OpBacked
  <1>2. row'[op[v].inv].cuf = op[v].cuf
    BY <1>1, CodeKept DEF LInv, LifeInv
  <1> QED
    BY <1>1, <1>2, SiatAdvances DEF LInv

\* The steps of module Emission.
LEMMA LifeEmissionStep ==
    ASSUME ~SlowAttempts, ~OfflineCapable, LInv, LifeInv, [Next]_vars, op' = op
    PROVE  LifeInv'
  <1>1. HeldTaken' /\ StoringInv' /\ IdentityInv' /\ VerdictInv'
    BY HeldTakenStep, StoringStep, IdentityStep, VerdictStep DEF LInv, LifeInv
  <1>2. \A i \in Invoices : row'[i].status # "OFFLINE"
    BY NoneOffline DEF LInv, LifeInv
  <1>3. \A v \in Operators : OpBacked(v)'
    BY OpUndisturbed
  <1> QED
    BY <1>1, <1>2, <1>3 DEF LifeInv

\* An annulment or a reversal takes away no backing.
LEMMA RequestBacks ==
    ASSUME LInv, NEW v \in Operators, Request(v), NEW c \in Cufs, NEW status,
           Backed(status, siat[c])
    PROVE  Backed(status, siat'[c])
  <1>1. /\ siat[op[v].cuf] \in SiatTakes(op[v].kind)
        /\ siat' = [siat EXCEPT ![op[v].cuf] = SiatLeaves(op[v].kind)]
    BY DEF Request
  <1>2. CASE c # op[v].cuf
    BY <1>1, <1>2 DEF LInv, TypeInv, TypeOK
  <1>3. CASE c = op[v].cuf
    <2>1. \/ siat[c] \in {"accepted", "reverted"} /\ siat'[c] = "annulled"
          \/ siat[c] = "annulled" /\ siat'[c] = "reverted"
      BY <1>1, <1>3 DEF SiatTakes, SiatLeaves, LInv, TypeInv, TypeOK
    <2> QED
      BY <2>1 DEF Backed
  <1> QED
    BY <1>2, <1>3

\* What a verification answers backs the status read from it.
LEMMA EstadoBacks ==
    \A estado : \A to \in SiatEstadoToDomain(estado) : Backed(to, estado)
  BY DEF SiatEstadoToDomain, Backed

\* The steps of an operation but the one that writes the row.
LEMMA OperatorFrame ==
    ASSUME LInv, NEW v \in Operators,
           \/ \E kind \in Kinds, i \in Invoices : Read(v, kind, i)
           \/ Consult(v) \/ Request(v) \/ GiveUp(v)
    PROVE  /\ UNCHANGED <<row, file, attempt, net>>
           /\ \A c \in Cufs : \A status : Backed(status, siat[c]) => Backed(status, siat'[c])
           /\ \A w \in Operators : w # v => op'[w] = op[w]
  <1>1. CASE Request(v)
    <2>1. \A c \in Cufs : \A status : Backed(status, siat[c]) => Backed(status, siat'[c])
      BY <1>1, RequestBacks
    <2> QED
      BY <1>1, <2>1 DEF Request, EndOp, database, LInv, OpInv
  <1>2. CASE ~Request(v)
    BY <1>2 DEF Read, Consult, GiveUp, EndOp, vars, database, LInv, OpInv
  <1> QED
    BY <1>1, <1>2

\* The operation that moves stays backed.
LEMMA OpMoveBacked ==
    ASSUME LInv, LifeInv, NEW v \in Operators,
           \/ \E kind \in Kinds, i \in Invoices : Read(v, kind, i)
           \/ Consult(v) \/ Request(v) \/ GiveUp(v)
    PROVE  OpBacked(v)'
  <1>1. CASE \E kind \in Kinds, i \in Invoices : Read(v, kind, i)
    <2>1. PICK kind \in Kinds, i \in Invoices : Read(v, kind, i)
      BY <1>1
    <2>2. op'[v] = [NoOp EXCEPT !.pc = "call", !.kind = kind, !.inv = i,
                                !.status = row[i].status, !.cuf = row[i].cuf]
      BY <2>1 DEF Read, LInv, OpInv
    <2>3. op'[v].pc = "call" /\ op'[v].inv = i /\ op'[v].cuf = row[i].cuf
      BY <2>2 DEF NoOp
    <2>4. row' = row
      BY <2>1 DEF Read, vars
    <2> QED
      BY <2>3, <2>4 DEF OpBacked
  <1>2. CASE EndOp(v)
    BY <1>2 DEF EndOp, NoOp, OpBacked, LInv, OpInv
  <1>3. CASE Consult(v)
    <2>1. /\ row' = row /\ siat' = siat
          /\ op[v].pc # "idle" /\ op[v].kind = "verify"
      BY <1>3 DEF Consult, OpAt, vars
    <2>2. /\ op'[v].inv = op[v].inv /\ op'[v].cuf = op[v].cuf
          /\ op'[v].kind = "verify" /\ op'[v].estado = siat[op[v].cuf]
      BY <1>3, <2>1, OpRuns DEF Consult, LInv, OpInv, OpType
    <2>3. row[op[v].inv].cuf = op[v].cuf
      BY <2>1 DEF LifeInv, OpBacked
    <2>4. \A to \in Target(v)' : Backed(to, siat[op[v].cuf])
      BY <2>2, EstadoBacks DEF Target
    <2> QED
      BY <2>1, <2>2, <2>3, <2>4 DEF OpBacked
  <1>4. CASE Request(v) /\ ~EndOp(v)
    <2>1. /\ row' = row /\ op[v].pc # "idle" /\ op[v].kind \in {"annul", "revert"}
          /\ siat'[op[v].cuf] = SiatLeaves(op[v].kind)
      <3>1. op[v].pc # "idle" /\ row' = row
        BY <1>4 DEF Request, OpAt, database
      <3>2. op[v].cuf \in Cufs /\ op[v].kind \in Kinds
        BY <3>1, OpRuns DEF LInv, OpType
      <3> QED
        BY <1>4, <3>1, <3>2 DEF Request, Kinds, LInv, TypeInv, TypeOK
    <2>2. /\ op'[v].inv = op[v].inv /\ op'[v].cuf = op[v].cuf /\ op'[v].kind = op[v].kind
      BY <1>4, <2>1, OpRuns DEF Request, LInv, OpInv, OpType
    <2>3. row[op[v].inv].cuf = op[v].cuf
      BY <2>1 DEF LifeInv, OpBacked
    <2>4. \A to \in Target(v)' : Backed(to, siat'[op[v].cuf])
      BY <2>1, <2>2 DEF Target, Backed, SiatLeaves
    <2> QED
      BY <2>1, <2>2, <2>3, <2>4 DEF OpBacked
  <1> QED
    BY <1>1, <1>2, <1>3, <1>4 DEF GiveUp

\* So these steps keep everything backed.
LEMMA LifeOperatorStep ==
    ASSUME LInv, LifeInv, NEW v \in Operators,
           \/ \E kind \in Kinds, i \in Invoices : Read(v, kind, i)
           \/ Consult(v) \/ Request(v) \/ GiveUp(v)
    PROVE  LifeInv'
  <1>0. /\ row' = row /\ file' = file /\ attempt' = attempt /\ net' = net
        /\ \A c \in Cufs : \A status : Backed(status, siat[c]) => Backed(status, siat'[c])
        /\ \A w \in Operators : w # v => op'[w] = op[w]
    BY OperatorFrame
  <1>1. HeldTaken' /\ StoringInv' /\ IdentityInv'
    BY <1>0 DEF LifeInv, HeldTaken, Holds, StoringInv, Stored, IdentityInv, Fresh, Coded, Inv, Doc
  <1>2. VerdictInv'
    BY <1>0 DEF LifeInv, VerdictInv, Answering
  <1>3. ASSUME NEW w \in Operators, w # v, op[w].pc # "idle"
        PROVE  OpBacked(w)'
    <2>1. op[w].cuf \in Cufs /\ op'[w] = op[w] /\ OpBacked(w)
      BY <1>0, <1>3, OpRuns DEF LInv, LifeInv
    <2>2. Target(w)' = Target(w)
      BY <2>1 DEF Target
    <2> QED
      BY <1>0, <1>3, <2>1, <2>2 DEF OpBacked
  <1>4. ASSUME NEW w \in Operators, w # v, op[w].pc = "idle"
        PROVE  OpBacked(w)'
    BY <1>0, <1>4 DEF OpBacked
  <1>5. OpBacked(v)'
    BY OpMoveBacked
  <1>6. \A i \in Invoices : row'[i].status # "OFFLINE"
    BY <1>0 DEF LifeInv
  <1> QED
    BY <1>1, <1>2, <1>3, <1>4, <1>5, <1>6 DEF LifeInv

\* An operation writes one of these.
LEMMA OpStatuses ==
    \A from, to, kind : CanTransition(from, to, OpReason(kind)) =>
        to \in {"ACCEPTED", "OBSERVED", "REJECTED", "CANCELLED"}
  BY DEF CanTransition, AllowedTransitions, Verdict, OpReason

\* The write itself: a backed status, under the code that backs it.
LEMMA ApplyBacked ==
    ASSUME LInv, LifeInv, NEW v \in Operators, Apply(v)
    PROVE  \E i \in Invoices, to \in {"ACCEPTED", "OBSERVED", "REJECTED", "CANCELLED"} :
              /\ row' = [row EXCEPT ![i] = [row[i] EXCEPT !.status = to]]
              /\ row[i].cuf \in Cufs /\ Backed(to, siat[row[i].cuf])
  <1>1. PICK to \in Target(v) : /\ Applies(op[v].inv, op[v].status, to, OpReason(op[v].kind))
                               /\ TransitionStatus(op[v].inv, to, row[op[v].inv])
    BY DEF Apply
  <1>2. /\ op[v].inv \in Invoices /\ op[v].cuf \in Cufs
        /\ row[op[v].inv].cuf = op[v].cuf /\ Backed(to, siat[op[v].cuf])
    BY OpRuns DEF Apply, OpAt, LInv, LifeInv, OpBacked
  <1>3. to \in {"ACCEPTED", "OBSERVED", "REJECTED", "CANCELLED"}
    BY <1>1, OpStatuses DEF Applies
  <1>4. PICK i \in Invoices : i = op[v].inv
    BY <1>2
  <1> QED
    BY <1>1, <1>2, <1>3, <1>4 DEF TransitionStatus

\* So it keeps everything backed.
LEMMA LifeApplyStep ==
    ASSUME LInv, LifeInv, NEW v \in Operators, Apply(v)
    PROVE  LifeInv'
  <1>1. PICK i \in Invoices, to \in {"ACCEPTED", "OBSERVED", "REJECTED", "CANCELLED"} :
           /\ row' = [row EXCEPT ![i] = [row[i] EXCEPT !.status = to]]
           /\ row[i].cuf \in Cufs /\ Backed(to, siat[row[i].cuf])
    BY ApplyBacked
  <1>2. /\ file' = file /\ attempt' = attempt /\ net' = net /\ siat' = siat
        /\ op' = [op EXCEPT ![v] = NoOp]
    BY DEF Apply, EndOp
  <1>3. \A j \in Invoices : /\ row'[j].cuf = row[j].cuf
                            /\ row'[j].status = IF j = i THEN to ELSE row[j].status
    BY <1>1 DEF LInv, TypeInv, TypeOK
  <1>4. HeldTaken'
    BY <1>2, <1>3 DEF LifeInv, HeldTaken, Holds
  <1>5. StoringInv' /\ IdentityInv'
    <2>1. \A e \in Emitters : /\ attempt[e].pc # "idle" => attempt[e].inv \in Invoices
      BY DEF LInv, TypeInv, BoundDocs
    <2>2. \A c \in net : c.inv \in Invoices
      BY DEF LInv, TypeInv, TypeOK, Cufs
    <2>3. StoringInv'
      BY <1>2, <1>3, <2>1 DEF LifeInv, StoringInv, Stored, Inv, Doc
    <2>4. IdentityInv'
      BY <1>2, <1>3, <2>1, <2>2 DEF LifeInv, IdentityInv, Fresh, Coded, Inv, Doc
    <2> QED
      BY <2>3, <2>4
  <1>6. VerdictInv'
    <2>1. ASSUME NEW j \in Invoices,
                 row'[j].status \in {"ACCEPTED", "OBSERVED", "REJECTED", "CANCELLED"}
          PROVE  row'[j].cuf \in Cufs /\ Backed(row'[j].status, siat'[row'[j].cuf])
      <3>1. CASE j = i
        BY <1>1, <1>2, <1>3, <3>1
      <3>2. CASE j # i
        BY <1>2, <1>3, <2>1, <3>2 DEF LifeInv, VerdictInv
      <3> QED
        BY <3>1, <3>2
    <2> QED
      BY <1>2, <2>1 DEF LifeInv, VerdictInv, Answering
  <1>7. ASSUME NEW w \in Operators
        PROVE  OpBacked(w)'
    <2>1. CASE w = v
      BY <1>2, <2>1 DEF OpBacked, NoOp, LInv, OpInv
    <2>2. CASE w # v
      <3>1. op'[w] = op[w] /\ OpBacked(w)
        BY <1>2, <2>2 DEF LInv, OpInv, LifeInv
      <3>2. op[w].pc # "idle" => op[w].inv \in Invoices
        BY OpRuns DEF LInv
      <3>3. Target(w)' = Target(w)
        BY <3>1 DEF Target
      <3> QED
        BY <1>2, <1>3, <3>1, <3>2, <3>3 DEF OpBacked
    <2> QED
      BY <2>1, <2>2
  <1>8. \A j \in Invoices : row'[j].status # "OFFLINE"
    BY <1>3 DEF LifeInv
  <1> QED
    BY <1>4, <1>5, <1>6, <1>7, <1>8 DEF LifeInv

\* The invariant is inductive.
LEMMA LifeStep ==
    ASSUME ~SlowAttempts, ~OfflineCapable
    PROVE  LInv /\ LifeInv /\ [LNext]_lvars => LifeInv'
  <1> SUFFICES ASSUME LInv, LifeInv, [LNext]_lvars PROVE LifeInv'
    OBVIOUS
  <1>1. CASE [Next]_vars /\ UNCHANGED <<motivo, op>>
    BY <1>1, LifeEmissionStep
  <1>2. ASSUME NEW v \in Operators, Operator(v)
        PROVE  LifeInv'
    BY <1>2, LifeOperatorStep, LifeApplyStep DEF Operator
  <1> QED
    BY <1>1, <1>2 DEF LNext, lvars

\* It holds in every reachable state.
LEMMA LifeInvariance ==
    ASSUME ~SlowAttempts, ~OfflineCapable
    PROVE  LSpec => [](LInv /\ LifeInv)
  BY LifecycleInit, LifecycleStep, LifeInit, LifeStep, PTL DEF LSpec

(***************************************************************************)
(* However verifications, annulments, reversals and emissions interleave,   *)
(* a settled invoice is what the SIAT decided about its code and the XML of *)
(* that code is stored.                                                     *)
(***************************************************************************)
THEOREM SettledStaysBacked ==
    ASSUME ~SlowAttempts, ~OfflineCapable
    PROVE  LSpec => []SettledIsBacked
  <1>1. LInv /\ LifeInv => SettledIsBacked
    <2> SUFFICES ASSUME LInv, LifeInv PROVE SettledIsBacked
      OBVIOUS
    <2>1. OutcomeMatchesSiat
      BY NoCufAssumption DEF LifeInv, VerdictInv, OutcomeMatchesSiat, Backed
    <2>2. FinalDocumentStored
      <3> SUFFICES ASSUME NEW i \in Invoices, row[i].status \in Settled
                   PROVE  row[i].cuf # NoCuf /\ file[i] = row[i].cuf
        BY DEF FinalDocumentStored
      <3>1. row[i].cuf \in Cufs
        BY DEF LifeInv, VerdictInv, Settled
      <3> QED
        BY <3>1, NoCufAssumption DEF LifeInv, IdentityInv, Coded
    <2> QED
      BY <2>1, <2>2 DEF SettledIsBacked
  <1> QED
    BY <1>1, LifeInvariance, PTL

(***************************************************************************)
(* Nor does an operation make an emission send a second code: the SIAT      *)
(* receives one fiscal code per invoice, over its whole life.               *)
(***************************************************************************)
THEOREM OneCodeForLife ==
    ASSUME ~SlowAttempts, ~OfflineCapable
    PROVE  LSpec => []ResendKeepsIdentity
  <1>1. LifeInv => ResendKeepsIdentity
    BY DEF LifeInv, IdentityInv, ResendKeepsIdentity
  <1> QED
    BY <1>1, LifeInvariance, PTL

\* No step removes or replaces the XML of a reserved code.
LEMMA CodedFileKept ==
    ASSUME ~OfflineCapable, TypeInv, StoringInv, IdentityInv, [Next]_vars,
           NEW i \in Invoices, row[i].cuf # NoCuf
    PROVE  file'[i] = file[i]
  <1>1. Coded(i) /\ Coded(i)' /\ row'[i].cuf = row[i].cuf
    BY CodedStep, CodeKept DEF IdentityInv
  <1> QED
    BY <1>1 DEF Coded

(***************************************************************************)
(* The fiscal code and the stored XML of a settled invoice never change,    *)
(* whatever operators and late emissions do.                                *)
(***************************************************************************)
THEOREM SettledStaysFrozen ==
    ASSUME ~SlowAttempts, ~OfflineCapable
    PROVE  LSpec => SettledIsFrozen
  <1>1. ASSUME LInv, LifeInv, [LNext]_lvars, NEW i \in Invoices, row[i].status \in Settled
        PROVE  row'[i].cuf = row[i].cuf /\ file'[i] = file[i]
    <2>1. row[i].cuf # NoCuf
      BY <1>1, NoCufAssumption DEF LifeInv, VerdictInv, Settled
    <2>2. CASE [Next]_vars
      BY <1>1, <2>1, <2>2, CodeKept, CodedFileKept DEF LInv, LifeInv
    <2>3. ASSUME NEW v \in Operators, Apply(v)
          PROVE  row'[i].cuf = row[i].cuf /\ file'[i] = file[i]
      <3>1. PICK j \in Invoices : \E to : row' = [row EXCEPT ![j] = [row[j] EXCEPT !.status = to]]
        BY <1>1, <2>3, ApplyBacked
      <3>2. file' = file
        BY <2>3 DEF Apply
      <3> QED
        BY <1>1, <3>1, <3>2 DEF LInv, TypeInv, TypeOK
    <2>4. ASSUME NEW v \in Operators, Operator(v), ~Apply(v)
          PROVE  row' = row /\ file' = file
      BY <1>1, <2>4, OperatorFrame DEF Operator
    <2> QED
      BY <1>1, <2>2, <2>3, <2>4 DEF LNext, lvars
  <1>2. LInv /\ LifeInv /\ [LNext]_lvars =>
          [\A i \in Invoices : row[i].status \in Settled =>
              row'[i].cuf = row[i].cuf /\ file'[i] = file[i]]_vars
    BY <1>1
  <1> QED
    BY <1>2, LifeInvariance, PTL DEF LSpec, SettledIsFrozen

-----------------------------------------------------------------------------
(* The whole life of an invoice as the ledger sees it.                      *)

\* An annulment or a reversal is a decision of the SIAT about one code.
LEMMA RequestDecides ==
    ASSUME LInv, NEW v \in Operators, Request(v), NEW c \in Cufs
    PROVE  siat'[c] = siat[c] \/ <<siat[c], siat'[c]>> \in Ledger!Decisions
  <1>1. /\ siat[op[v].cuf] \in SiatTakes(op[v].kind)
        /\ siat' = [siat EXCEPT ![op[v].cuf] = SiatLeaves(op[v].kind)]
    BY DEF Request
  <1>2. CASE c # op[v].cuf
    BY <1>1, <1>2 DEF LInv, TypeInv, TypeOK
  <1>3. CASE c = op[v].cuf
    BY <1>1, <1>3 DEF SiatTakes, SiatLeaves, Ledger!Decisions, LInv, TypeInv, TypeOK
  <1> QED
    BY <1>2, <1>3

\* What an operation writes is a move of the ledger: the code stays, it is one of
\* the invoice's own, and the SIAT's decision about it lets the new status.
LEMMA ApplyMoves ==
    ASSUME LInv, LifeInv, NEW v \in Operators, Apply(v), NEW i \in Invoices
    PROVE  Ledger!Rests(i) \/ Ledger!Moves(i)
  <1>1. PICK j \in Invoices, to \in Statuses :
           /\ CanTransition(row[j].status, to, OpReason(op[v].kind))
           /\ TransitionStatus(j, to, row[j])
    BY ApplyWrites
  <1>2. PICK k \in Invoices, st \in Ledger!Decided :
           /\ row' = [row EXCEPT ![k] = [row[k] EXCEPT !.status = st]]
           /\ row[k].cuf \in Cufs /\ Backed(st, siat[row[k].cuf])
    BY ApplyBacked DEF Ledger!Decided
  <1>3. CASE i # j \/ i # k
    <2>1. row'[i] = row[i]
      BY <1>1, <1>2, <1>3 DEF TransitionStatus, LInv, TypeInv, TypeOK
    <2> QED
      BY <2>1 DEF Ledger!Rests
  <1>4. CASE i = j /\ i = k
    <2>1. /\ row'[i].status = st /\ row'[i].status = to /\ row'[i].cuf = row[i].cuf
          /\ row[i].cuf \in Cufs /\ Backed(st, siat[row[i].cuf])
      BY <1>1, <1>2, <1>4 DEF TransitionStatus, LInv, TypeInv, TypeOK
    <2>2. Ledger!Permitted(row[i].status, row'[i].status)
      BY <1>1, <1>4, <2>1, LedgerTable
    <2>3. row[i].cuf.inv = i
      BY <2>1, NoCufAssumption DEF LInv, OwnInv, OwnCode
    <2>4. Ledger!Justifies(siat[row'[i].cuf], row'[i].status)
      BY <2>1 DEF Backed, Ledger!Justifies
    <2> QED
      BY <2>1, <2>2, <2>3, <2>4 DEF Ledger!Moves
  <1> QED
    BY <1>3, <1>4

\* Every step, of whoever, is a step of the ledger.
LEMMA LifeLedgerStep ==
    LInv /\ LifeInv /\ [LNext]_lvars => Ledger!Next
  <1> SUFFICES ASSUME LInv, LifeInv, [LNext]_lvars PROVE Ledger!Next
    OBVIOUS
  <1>1. CASE [Next]_vars
    BY <1>1, LedgerStep DEF LInv, LifeInv
  <1>2. ASSUME NEW v \in Operators, Operator(v)
        PROVE  Ledger!Next
    <2>1. DOMAIN siat' = Cufs
      BY LifecycleStep DEF LInv, TypeInv, TypeOK
    <2>2. CASE Apply(v)
      <3>1. siat' = siat
        BY <2>2 DEF Apply
      <3> QED
        BY <2>1, <2>2, <3>1, ApplyMoves DEF Ledger!Next
    <2>3. CASE ~Apply(v)
      <3>1. row' = row
        BY <1>2, <2>3, OperatorFrame DEF Operator
      <3>2. \A i \in Invoices : Ledger!Rests(i)
        BY <3>1 DEF Ledger!Rests
      <3>3. siat' = siat \/ Request(v)
        BY <1>2, <2>3 DEF Operator, Read, Consult, GiveUp, vars
      <3>4. \A c \in Cufs : siat'[c] = siat[c] \/ <<siat[c], siat'[c]>> \in Ledger!Decisions
        BY <3>3, RequestDecides
      <3> QED
        BY <2>1, <3>2, <3>4 DEF Ledger!Next
    <2> QED
      BY <2>2, <2>3
  <1> QED
    BY <1>1, <1>2 DEF LNext, lvars

(***************************************************************************)
(* Emitted, verified, annulled and reinstated by any number of requests at  *)
(* once, the invoices are a behaviour of the ledger: an operator's late     *)
(* write never leaves the table, changes a code, or says what the SIAT did  *)
(* not decide.                                                             *)
(***************************************************************************)
THEOREM LifeImplementsLedger ==
    ASSUME ~SlowAttempts, ~OfflineCapable
    PROVE  LSpec => ImplementsLedger
  <1>1. LInit => Ledger!Init
    BY DEF LInit, Init, Ledger!Init
  <1> QED
    BY <1>1, LifeLedgerStep, LifeInvariance, PTL DEF LSpec, ImplementsLedger, Ledger!Spec
=============================================================================
