-------------------------- MODULE OperationsProofs --------------------------
(***************************************************************************)
(* What a company's emissions rest on, for any number of requests, editors, *)
(* replicas, points of sale and downloads: a point of sale has one active   *)
(* CUFD and a company one active certificate, no row names a file that is   *)
(* gone, a synced event is the SIAT's, readiness speaks of stored rows, an  *)
(* alert is not repeated.  One section per component; the last puts their   *)
(* invariants together with those of DocumentsProofs.                       *)
(***************************************************************************)
EXTENDS DocumentsProofs

\* What is assumed of the constants, by component.
LEMMA CodesAssumption == Codes!CredentialsAssumption
  BY OperationsAssumption

\* The same of the windows of the events.
LEMMA WindowAssumption == Events!EventsAssumption
  BY OperationsAssumption

\* The same of the bounds on certificates.
LEMMA SigningAssumption == Signing!CertificatesAssumption
  BY OperationsAssumption

\* The same of the alerts.
LEMMA AlertingAssumption == Alerts!AlertsAssumption
  BY OperationsAssumption

\* The same of the operations of a download.
LEMMA DownloadAssumption == Download!CatalogAssumption
  BY OperationsAssumption

-----------------------------------------------------------------------------
(* Credentials: one active CUFD. *)

CallType == [op : Codes!Ops \cup {"none"},
             pc : {"idle", "look", "cuis", "save", "cufd", "store"},
             cuis : 0..MaxCuis, active : BOOLEAN, looked : BOOLEAN,
             renewed : BOOLEAN, again : BOOLEAN, got : 0..MaxCufd]

\* At most one stored code is active, stored codes and those on their way to the
\* database were issued by the SIAT.
CodesInv ==
    /\ Codes!TypeOK
    /\ \A j, k \in 1..MaxCufd : cufds[j].active /\ cufds[k].active => j = k
    /\ \A k \in 1..MaxCufd : cufds[k].stored => k <= siat.cufd
    /\ \A c \in Callers : call[c].pc = "store" => call[c].got <= siat.cufd

\* A step of a caller that leaves the codes alone.
LEMMA CallMoves ==
    ASSUME CodesInv, NEW c \in Callers, NEW a \in CallType, call' = [call EXCEPT ![c] = a],
           a.pc # "store", cufds' = cufds, faults' \in 0..MaxFaults,
           pos' \in [active : BOOLEAN, cuis : 0..MaxCuis],
           siat' \in [cuis : 0..MaxCuis, age : {"fresh", "due"}, cufd : 0..MaxCufd],
           siat'.cufd = siat.cufd
    PROVE  CodesInv'
  <1>1. \A d \in Callers : call'[d] = IF d = c THEN a ELSE call[d]
    BY DEF CodesInv, Codes!TypeOK
  <1>2. Codes!TypeOK'
    BY DEF CodesInv, Codes!TypeOK, CallType
  <1> QED
    BY <1>1, <1>2 DEF CodesInv

\* The caller that is done.
LEMMA NoCallType == Codes!NoCall \in CallType /\ Codes!NoCall.pc = "idle" /\ Codes!NoCall.got = 0
  BY CodesAssumption DEF Codes!CredentialsAssumption, Codes!NoCall, CallType

\* Initially nothing is stored.
LEMMA CodesInit == Codes!Init => CodesInv
  <1> SUFFICES ASSUME Codes!Init PROVE CodesInv
    OBVIOUS
  <1>1. Codes!TypeOK
    BY CodesAssumption, NoCallType
       DEF Codes!CredentialsAssumption, Codes!Init, Codes!TypeOK, Codes!NoCufd, CallType
  <1>2. \A k \in 1..MaxCufd : ~cufds[k].active /\ ~cufds[k].stored
    BY DEF Codes!Init, Codes!NoCufd
  <1>3. \A c \in Callers : call[c].pc = "idle"
    BY NoCallType DEF Codes!Init
  <1> QED
    BY <1>1, <1>2, <1>3 DEF CodesInv

\* An operation begins, or looks for a CUFD in force.
LEMMA CodesBegin ==
    ASSUME CodesInv, NEW c \in Callers, NEW op \in Codes!Ops, Codes!Begin(c, op)
    PROVE  CodesInv'
  <1>1. PICK pc \in {"save", "cuis", "cufd", "look"} : pc = Codes!Start(op, pos.cuis)
    BY DEF Codes!Start, Codes!Ops
  <1>2. PICK renewed \in BOOLEAN : renewed = (op = "renew" /\ Codes!CuisNeedsRenewal(pos.cuis))
    BY Zenon
  <1>3. PICK n \in 0..MaxCuis : n = pos.cuis
    BY DEF CodesInv, Codes!TypeOK
  <1>4. PICK a : a = [Codes!NoCall EXCEPT !.op = op, !.pc = pc, !.cuis = n, !.active = TRUE,
                                    !.renewed = renewed]
    OBVIOUS
  <1>5. a \in CallType /\ a.pc # "store"
    BY <1>4, NoCallType DEF CallType
  <1>6. call' = [call EXCEPT ![c] = a] /\ UNCHANGED <<pos, cufds, siat, faults>>
    BY <1>1, <1>2, <1>3, <1>4, Zenon DEF Codes!Begin
  <1> QED
    BY <1>5, <1>6, CallMoves DEF CodesInv, Codes!TypeOK

\* What it finds is handed out, or a new one is asked for.
LEMMA CodesLook ==
    ASSUME CodesInv, NEW c \in Callers, Codes!Look(c)
    PROVE  CodesInv'
  <1>0. call[c] \in CallType /\ UNCHANGED <<pos, cufds, siat, faults>>
    BY DEF CodesInv, Codes!TypeOK, CallType, Codes!Look
  <1>1. ASSUME NEW k \in DOMAIN cufds, call' = [call EXCEPT ![c] = [Codes!NoCall EXCEPT !.got = k]]
        PROVE  CodesInv'
    <2>1. PICK a : a = [Codes!NoCall EXCEPT !.got = k]
      OBVIOUS
    <2>2. k \in 0..MaxCufd
      BY <1>1, CodesAssumption DEF Codes!CredentialsAssumption, CodesInv, Codes!TypeOK
    <2>3. a \in CallType /\ a.pc # "store"
      BY <2>1, <2>2, NoCallType DEF CallType
    <2> QED
      BY <1>0, <1>1, <2>1, <2>3, CallMoves DEF CodesInv, Codes!TypeOK
  <1>2. ASSUME NEW ask \in {"cuis", "cufd"}, NEW again \in BOOLEAN,
               call' = [call EXCEPT ![c].pc = ask, ![c].looked = TRUE, ![c].again = again]
        PROVE  CodesInv'
    <2>1. PICK a : a = [call[c] EXCEPT !.pc = ask, !.looked = TRUE, !.again = again]
      OBVIOUS
    <2>2. a \in CallType /\ a.pc # "store" /\ call' = [call EXCEPT ![c] = a]
      BY <1>0, <1>2, <2>1 DEF CallType, CodesInv, Codes!TypeOK
    <2> QED
      BY <1>0, <2>2, CallMoves DEF CodesInv, Codes!TypeOK
  <1>3. \/ \E k \in DOMAIN cufds : call' = [call EXCEPT ![c] = [Codes!NoCall EXCEPT !.got = k]]
        \/ \E ask \in {"cuis", "cufd"}, again \in BOOLEAN :
              call' = [call EXCEPT ![c].pc = ask, ![c].looked = TRUE, ![c].again = again]
    BY DEF Codes!Look
  <1> QED
    BY <1>1, <1>2, <1>3

\* What the SIAT issues is issued before it is stored.
LEMMA CodesRequest ==
    ASSUME CodesInv, NEW c \in Callers, Codes!RequestCuis(c) \/ Codes!RequestCufd(c) \/ Codes!Refused(c)
    PROVE  CodesInv'
  <1>0. call[c] \in CallType /\ siat \in [cuis : 0..MaxCuis, age : {"fresh", "due"}, cufd : 0..MaxCufd]
    BY DEF CodesInv, Codes!TypeOK, CallType
  <1>1. CASE Codes!RequestCuis(c)
    <2>1. PICK code \in 1..MaxCuis :
             /\ siat' = [siat EXCEPT !.cuis = code,
                                     !.age = IF code = siat.cuis THEN @ ELSE "fresh"]
             /\ call' = [call EXCEPT ![c].cuis = code, ![c].pc = "save"]
             /\ UNCHANGED <<pos, cufds, faults>>
      BY <1>1 DEF Codes!RequestCuis
    <2>2. PICK a : a = [call[c] EXCEPT !.cuis = code, !.pc = "save"]
      OBVIOUS
    <2>3. code \in 0..MaxCuis
      BY CodesAssumption DEF Codes!CredentialsAssumption
    <2>4. a \in CallType /\ a.pc # "store" /\ call' = [call EXCEPT ![c] = a]
      BY <1>0, <2>1, <2>2, <2>3 DEF CallType, CodesInv, Codes!TypeOK
    <2>5. /\ siat' \in [cuis : 0..MaxCuis, age : {"fresh", "due"}, cufd : 0..MaxCufd]
          /\ siat'.cufd = siat.cufd
      BY <1>0, <2>1, <2>3
    <2>6. faults' \in 0..MaxFaults /\ pos' \in [active : BOOLEAN, cuis : 0..MaxCuis] /\ cufds' = cufds
      BY <2>1 DEF CodesInv, Codes!TypeOK
    <2> QED
      BY <2>4, <2>5, <2>6, CallMoves
  <1>2. CASE Codes!RequestCufd(c)
    <2>1. PICK n \in 1..MaxCufd : n = siat.cufd + 1
      BY <1>0, <1>2, CodesAssumption DEF Codes!RequestCufd, Codes!CredentialsAssumption
    <2>2. /\ siat' = [siat EXCEPT !.cufd = n]
          /\ call' = [call EXCEPT ![c].got = n, ![c].pc = "store"]
          /\ UNCHANGED <<pos, cufds, faults>>
      BY <1>2, <2>1 DEF Codes!RequestCufd
    <2>3. PICK a : a = [call[c] EXCEPT !.got = n, !.pc = "store"]
      OBVIOUS
    <2>4. n \in 0..MaxCufd
      OBVIOUS
    <2>5. a \in CallType /\ a.got = n /\ call' = [call EXCEPT ![c] = a]
      BY <1>0, <2>2, <2>3, <2>4 DEF CallType, CodesInv, Codes!TypeOK
    <2>6. /\ siat' \in [cuis : 0..MaxCuis, age : {"fresh", "due"}, cufd : 0..MaxCufd]
          /\ siat'.cufd = n
      BY <1>0, <2>2, <2>4
    <2>7. Codes!TypeOK'
      <3>1. call' \in [Callers -> CallType]
        BY <2>5 DEF CodesInv, Codes!TypeOK, CallType
      <3> QED
        BY <2>2, <2>6, <3>1 DEF CodesInv, Codes!TypeOK, CallType
    <2>8. \A d \in Callers : call'[d] = IF d = c THEN a ELSE call[d]
      BY <2>5 DEF CodesInv, Codes!TypeOK
    <2>9. \A d \in Callers : call'[d].pc = "store" => call'[d].got <= siat'.cufd
      <3>1. \A d \in Callers : call[d].got \in Int
        BY DEF CodesInv, Codes!TypeOK
      <3> QED
        BY <1>0, <2>1, <2>5, <2>6, <2>8, <3>1 DEF CodesInv
    <2>10. \A k \in 1..MaxCufd : cufds'[k].stored => k <= siat'.cufd
      BY <1>0, <2>1, <2>2, <2>6 DEF CodesInv
    <2> QED
      BY <2>2, <2>7, <2>9, <2>10 DEF CodesInv
  <1>3. CASE Codes!Refused(c)
    BY <1>3, NoCallType, CallMoves DEF Codes!Refused, CodesInv, Codes!TypeOK
  <1> QED
    BY <1>1, <1>2, <1>3

\* The row of the point of sale is written.
LEMMA CodesSave ==
    ASSUME CodesInv, NEW c \in Callers, Codes!SavePos(c) \/ Codes!DeletePos(c)
    PROVE  CodesInv'
  <1>0. call[c] \in CallType /\ UNCHANGED <<cufds, siat, faults>>
    BY DEF CodesInv, Codes!TypeOK, CallType, Codes!SavePos, Codes!DeletePos
  <1>1. pos' \in [active : BOOLEAN, cuis : 0..MaxCuis]
    <2>1. CASE Codes!SavePos(c)
      <3>1. call[c].active \in BOOLEAN /\ call[c].cuis \in 0..MaxCuis
        BY <1>0 DEF CallType
      <3> QED
        BY <2>1, <3>1 DEF Codes!SavePos
    <2>2. CASE Codes!DeletePos(c)
      BY <2>2 DEF Codes!DeletePos, CodesInv, Codes!TypeOK
    <2> QED
      BY <2>1, <2>2
  <1>2. \/ call' = [call EXCEPT ![c] = Codes!NoCall]
        \/ call' = [call EXCEPT ![c].pc = Codes!AfterSave(c)]
    BY DEF Codes!SavePos, Codes!DeletePos
  <1>3. CASE call' = [call EXCEPT ![c] = Codes!NoCall]
    BY <1>0, <1>1, <1>3, NoCallType, CallMoves DEF CodesInv, Codes!TypeOK
  <1>4. CASE call' = [call EXCEPT ![c].pc = Codes!AfterSave(c)]
    <2>1. PICK pc \in {"idle", "cufd", "look"} : pc = Codes!AfterSave(c)
      BY DEF Codes!AfterSave
    <2>2. PICK a : a = [call[c] EXCEPT !.pc = pc]
      OBVIOUS
    <2>3. a \in CallType /\ a.pc # "store" /\ call' = [call EXCEPT ![c] = a]
      BY <1>0, <1>4, <2>1, <2>2 DEF CallType, CodesInv, Codes!TypeOK
    <2> QED
      BY <1>0, <1>1, <2>3, CallMoves DEF CodesInv, Codes!TypeOK
  <1> QED
    BY <1>2, <1>3, <1>4

\* A stored code becomes the only active one.
LEMMA CodesStore ==
    ASSUME CodesInv, NEW c \in Callers, Codes!StoreCufd(c)
    PROVE  CodesInv'
  <1>0. /\ call[c] \in CallType /\ call[c].pc = "store" /\ call[c].got <= siat.cufd
        /\ UNCHANGED <<pos, siat, faults>>
        /\ call[c].got \in Int /\ siat.cufd \in Int
    BY DEF CodesInv, Codes!TypeOK, CallType, Codes!StoreCufd, Codes!At
  <1>1. PICK a \in CallType : a.pc # "store" /\ call' = [call EXCEPT ![c] = a]
    <2>1. CASE Codes!Return(c)
      <3>1. [Codes!NoCall EXCEPT !.got = call[c].got] \in CallType
        BY <1>0, NoCallType DEF CallType
      <3>2. [Codes!NoCall EXCEPT !.got = call[c].got].pc = "idle"
        BY NoCallType DEF CallType
      <3> QED
        BY <2>1, <3>1, <3>2 DEF Codes!Return
    <2>2. CASE call' = [call EXCEPT ![c].pc = "cufd", ![c].again = TRUE]
      <3>1. PICK a : a = [call[c] EXCEPT !.pc = "cufd", !.again = TRUE]
        OBVIOUS
      <3>2. a \in CallType /\ a.pc = "cufd" /\ call' = [call EXCEPT ![c] = a]
        BY <1>0, <2>2, <3>1 DEF CallType, CodesInv, Codes!TypeOK
      <3> QED
        BY <3>2
    <2> QED
      BY <2>1, <2>2 DEF Codes!StoreCufd
  <1>2. \A d \in Callers : call'[d] = IF d = c THEN a ELSE call[d]
    BY <1>1 DEF CodesInv, Codes!TypeOK
  <1>3. cufds' = [j \in 1..MaxCufd |-> [cufds[j] EXCEPT !.stored = @ \/ j = call[c].got,
                                                       !.active = j = call[c].got]]
    BY DEF Codes!StoreCufd, Codes!WithOneActive, CodesInv, Codes!TypeOK
  <1>4. \A j \in 1..MaxCufd :
           /\ cufds'[j].stored <=> cufds[j].stored \/ j = call[c].got
           /\ cufds'[j].active <=> j = call[c].got
           /\ cufds'[j].age = cufds[j].age
           /\ cufds'[j] \in [stored : BOOLEAN, active : BOOLEAN, age : {"fresh", "due", "expired"}]
    <2> SUFFICES ASSUME NEW j \in 1..MaxCufd
                 PROVE  /\ cufds'[j].stored <=> cufds[j].stored \/ j = call[c].got
                        /\ cufds'[j].active <=> j = call[c].got
                        /\ cufds'[j].age = cufds[j].age
                        /\ cufds'[j] \in [stored : BOOLEAN, active : BOOLEAN,
                                          age : {"fresh", "due", "expired"}]
      OBVIOUS
    <2>1. cufds[j] \in [stored : BOOLEAN, active : BOOLEAN, age : {"fresh", "due", "expired"}]
      BY DEF CodesInv, Codes!TypeOK
    <2>2. cufds'[j] = [cufds[j] EXCEPT !.stored = @ \/ j = call[c].got,
                                       !.active = j = call[c].got]
      BY <1>3
    <2> QED
      BY <2>1, <2>2
  <1>5. Codes!TypeOK'
    BY <1>0, <1>1, <1>3, <1>4 DEF CodesInv, Codes!TypeOK, CallType
  <1>6. \A k \in 1..MaxCufd : cufds'[k].stored => k <= siat'.cufd
    BY <1>0, <1>4 DEF CodesInv
  <1> QED
    BY <1>0, <1>1, <1>2, <1>4, <1>5, <1>6 DEF CodesInv

\* Time, and failures.
LEMMA CodesRest ==
    ASSUME CodesInv,
           \/ \E c \in Callers : Codes!Fail(c)
           \/ Codes!AgeCuis \/ \E k \in 1..MaxCufd : Codes!AgeCufd(k)
    PROVE  CodesInv'
  <1>1. ASSUME NEW c \in Callers, Codes!Fail(c)
        PROVE  CodesInv'
    <2>1. faults' \in 0..MaxFaults
      BY <1>1, CodesAssumption
         DEF Codes!Fail, CodesInv, Codes!TypeOK, Codes!CredentialsAssumption
    <2> QED
      BY <1>1, <2>1, NoCallType, CallMoves DEF Codes!Fail, CodesInv, Codes!TypeOK
  <1>2. CASE Codes!AgeCuis
    BY <1>2 DEF Codes!AgeCuis, CodesInv, Codes!TypeOK
  <1>3. ASSUME NEW k \in 1..MaxCufd, Codes!AgeCufd(k)
        PROVE  CodesInv'
    <2>1. PICK age \in {"due", "expired"} : cufds' = [cufds EXCEPT ![k].age = age]
      BY <1>3 DEF Codes!AgeCufd
    <2>2. \A j \in 1..MaxCufd : cufds'[j].active = cufds[j].active /\ cufds'[j].stored = cufds[j].stored
      BY <2>1 DEF CodesInv, Codes!TypeOK
    <2>3. Codes!TypeOK'
      BY <1>3, <2>1 DEF Codes!AgeCufd, CodesInv, Codes!TypeOK
    <2> QED
      BY <1>3, <2>2, <2>3 DEF Codes!AgeCufd, CodesInv
  <1> QED
    BY <1>1, <1>2, <1>3

\* The invariant of the codes is inductive.
LEMMA CodesStep == CodesInv /\ [Codes!Next]_(Codes!crvars) => CodesInv'
  <1> SUFFICES ASSUME CodesInv, [Codes!Next]_(Codes!crvars) PROVE CodesInv'
    OBVIOUS
  <1>1. CASE UNCHANGED Codes!crvars
    BY <1>1 DEF Codes!crvars, CodesInv, Codes!TypeOK
  <1>2. CASE Codes!Next
    BY <1>2, CodesBegin, CodesLook, CodesRequest, CodesSave, CodesStore, CodesRest
       DEF Codes!Next, Codes!Step
  <1> QED
    BY <1>1, <1>2

\* So the active rows are one at most.
LEMMA CodesOneActive == CodesInv => Codes!TypeOK /\ Codes!OneActiveCufd
  BY DEF CodesInv, Codes!TypeOK, Codes!ActiveRows, Codes!OneActiveCufd

-----------------------------------------------------------------------------
(* ContingencyEvents: registrations and their windows. *)

EventType == [start : Int, end : Int, synced : BOOLEAN, code : 0..MaxEvents]
EmitType == [pc : {"none", "open", "link", "offline"}, at : 0..MaxEvents]
RegType == [pc : {"idle", "ask", "persist"}, pending : 0..MaxEvents,
            from : Int, to : Int, code : 0..MaxEvents, default : BOOLEAN]
SpanType == [from : Int, to : Int]

EventTypes ==
    /\ now \in Nat /\ Valid.from <= now
    /\ events \in Seq(EventType) /\ Len(events) <= MaxEvents
    /\ issued \in [Invoices -> Int]
    /\ emit \in [Invoices -> EmitType]
    /\ \A i \in Invoices : emit[i].pc = "link" => emit[i].at <= Len(events)
    /\ link \in [Invoices -> 0..Len(events)]
    /\ reg \in [Registrars -> RegType]
    /\ \A r \in Registrars : reg[r].pending <= Len(events)
    /\ codes \in Seq(SpanType) /\ Len(codes) <= MaxEvents

\* A registration about to be stored is the SIAT's, with its window, and nobody
\* else's: no event has it, and no other request.
Registers(r) ==
    reg[r].pc = "persist" =>
        /\ reg[r].code \in 1..Len(codes)
        /\ codes[reg[r].code] = [from |-> reg[r].from, to |-> reg[r].to]
        /\ \A e \in 1..Len(events) : events[e].code # reg[r].code
        /\ \A q \in Registrars : reg[q].pc = "persist" /\ q # r => reg[q].code # reg[r].code
SyncedEvent(e) ==
    IF events[e].synced
    THEN /\ events[e].code \in 1..Len(codes)
         /\ [from |-> events[e].start, to |-> events[e].end] = codes[events[e].code]
         /\ \A f \in 1..Len(events) : f # e => events[f].code # events[e].code
    ELSE events[e].code = 0
EventsInv ==
    /\ EventTypes /\ Events!WindowIsSound
    /\ \A r \in Registrars : Registers(r)
    /\ \A e \in 1..Len(events) : SyncedEvent(e)

\* The assumption, spelt out.
LEMMA EventsBounds ==
    /\ Before \in Nat /\ Window \in Nat /\ Before < Window
    /\ Valid.from \in Nat /\ Valid.to \in Nat /\ Valid.from < Valid.to
    /\ \A w \in Given : w.from \in Nat /\ w.to \in Nat /\ w.from < w.to
    /\ MaxEvents \in Nat
  BY WindowAssumption DEF Events!EventsAssumption

\* No registration.
LEMMA NoRegType == Events!NoReg \in RegType /\ Events!NoReg.pc = "idle" /\ Events!NoReg.pending = 0
  BY EventsBounds DEF Events!NoReg, RegType

\* Initially nothing happened.
LEMMA EventsInit == Events!Init => EventsInv
  <1> SUFFICES ASSUME Events!Init PROVE EventsInv
    OBVIOUS
  <1>1. /\ now = Valid.from /\ events = << >> /\ codes = << >>
        /\ issued = [i \in Invoices |-> Events!None]
        /\ emit = [i \in Invoices |-> [pc |-> "none", at |-> 0]]
        /\ link = [i \in Invoices |-> 0] /\ reg = [r \in Registrars |-> Events!NoReg]
    BY DEF Events!Init
  <1>2. events \in Seq(EventType) /\ codes \in Seq(SpanType) /\ Len(events) = 0 /\ Len(codes) = 0
    BY <1>1
  <1>3. EventTypes /\ \A r \in Registrars : reg[r].pc = "idle"
    BY <1>1, <1>2, EventsBounds, NoRegType DEF EventTypes, EmitType, Events!None
  <1> QED
    BY <1>1, <1>2, <1>3 DEF EventsInv, Events!WindowIsSound, Registers

\* A step of the invoices or of time.
LEMMA EventsKept ==
    ASSUME EventsInv, EventTypes', UNCHANGED <<events, reg, codes>>
    PROVE  EventsInv'
  BY DEF EventsInv, Events!WindowIsSound, Registers, SyncedEvent

\* The open event that a request finds.
LEMMA FoundEvent ==
    ASSUME EventTypes, Events!OpenLatest # {}
    PROVE  \E e \in 1..Len(events) :
              /\ e = CHOOSE d \in Events!OpenLatest : TRUE
              /\ e \in 0..MaxEvents /\ events[e] \in EventType
  <1>1. PICK e : e = CHOOSE d \in Events!OpenLatest : TRUE
    OBVIOUS
  <1>2. e \in Events!OpenLatest
    BY <1>1
  <1>3. e \in DOMAIN events /\ Len(events) \in Nat /\ DOMAIN events = 1..Len(events)
    BY <1>2 DEF Events!OpenLatest, Events!Latest, EventTypes
  <1>4. events[e] \in EventType /\ e \in 0..MaxEvents
    BY <1>3, EventsBounds DEF EventTypes
  <1> QED
    BY <1>1, <1>3, <1>4

\* The steps of an invoice that leave the events alone.
LEMMA EventsInvoice ==
    ASSUME EventsInv, NEW i \in Invoices,
           Events!CreateInvoice(i) \/ Events!FindEvent(i) \/ Events!GoOffline(i)
    PROVE  EventsInv'
  <1>0. EventTypes /\ emit[i] \in EmitType /\ UNCHANGED <<now, events, reg, codes>>
    BY DEF EventsInv, EventTypes, Events!CreateInvoice, Events!FindEvent, Events!GoOffline
  <1>1. CASE Events!CreateInvoice(i)
    BY <1>0, <1>1, EventsKept DEF Events!CreateInvoice, EventTypes
  <1>2. CASE Events!FindEvent(i)
    <2>1. PICK a \in EmitType :
             emit' = [emit EXCEPT ![i] = a] /\ (a.pc = "link" => a.at <= Len(events))
      <3>1. CASE Events!OpenLatest = {}
        <4>1. [pc |-> "open", at |-> 0] \in EmitType
          BY EventsBounds DEF EmitType
        <4>2. emit' = [emit EXCEPT ![i] = [pc |-> "open", at |-> 0]]
          BY <1>2, <3>1 DEF Events!FindEvent
        <4> QED
          BY <4>1, <4>2
      <3>2. CASE Events!OpenLatest # {}
        <4>1. PICK e \in 1..Len(events) :
                 e = (CHOOSE d \in Events!OpenLatest : TRUE) /\ e \in 0..MaxEvents
          BY <1>0, <3>2, FoundEvent
        <4>2. emit' = [emit EXCEPT ![i] = [pc |-> "link", at |-> e]]
          BY <1>2, <3>2, <4>1 DEF Events!FindEvent
        <4>3. PICK a : a = [pc |-> "link", at |-> e]
          OBVIOUS
        <4>4. a \in EmitType /\ a.at = e
          BY <4>1, <4>3 DEF EmitType
        <4>5. e <= Len(events)
          BY <1>0, <4>1 DEF EventTypes
        <4> QED
          BY <4>2, <4>3, <4>4, <4>5
      <3> QED
        BY <3>1, <3>2
    <2>2. UNCHANGED <<issued, link>>
      BY <1>2 DEF Events!FindEvent
    <2> QED
      BY <1>0, <2>1, <2>2, EventsKept DEF EventTypes
  <1>3. CASE Events!GoOffline(i)
    <2>1. emit[i].pc = "link" /\ emit[i].at \in 0..Len(events)
      BY <1>0, <1>3 DEF Events!GoOffline, EventTypes, EmitType
    <2>2. PICK a : a = [emit[i] EXCEPT !.pc = "offline"]
      OBVIOUS
    <2>3. a \in EmitType /\ a.pc = "offline"
      BY <1>0, <2>2 DEF EmitType
    <2>4. emit' = [emit EXCEPT ![i] = a]
      BY <1>3, <2>2 DEF Events!GoOffline
    <2>5. link' \in [Invoices -> 0..Len(events)] /\ UNCHANGED issued
      BY <1>0, <1>3, <2>1 DEF Events!GoOffline, EventTypes
    <2> QED
      BY <1>0, <2>3, <2>4, <2>5, EventsKept DEF EventTypes
  <1> QED
    BY <1>1, <1>2, <1>3

\* Another event, appended.
LEMMA EventAppended ==
    ASSUME EventsInv, NEW d \in EventType, events' = Append(events, d), Len(events) < MaxEvents
    PROVE  /\ events' \in Seq(EventType) /\ Len(events') = Len(events) + 1
           /\ Len(events') <= MaxEvents /\ Len(events) \in Nat
           /\ \A e \in 1..Len(events) : events'[e] = events[e]
           /\ events'[Len(events) + 1] = d
  <1>1. events \in Seq(EventType) /\ Len(events) \in Nat
    BY DEF EventsInv, EventTypes
  <1> QED
    BY <1>1, AppendProperties, EventsBounds

\* A local event, for an invoice that found none.
LEMMA EventsOpen ==
    ASSUME EventsInv, NEW i \in Invoices, Events!OpenEvent(i)
    PROVE  EventsInv'
  <1>0. EventTypes /\ emit[i] \in EmitType /\ UNCHANGED <<now, issued, link, reg, codes>>
    BY DEF EventsInv, EventTypes, Events!OpenEvent
  <1>1. PICK d : d = [start |-> issued[i], end |-> Events!None, synced |-> FALSE, code |-> 0]
    OBVIOUS
  <1>2. issued[i] \in Int /\ Events!None \in Int /\ 0 \in 0..MaxEvents
    BY <1>0, EventsBounds DEF EventTypes, Events!None
  <1>3. d \in EventType /\ ~d.synced /\ d.code = 0
    BY <1>1, <1>2 DEF EventType
  <1>4. events' = Append(events, d) /\ Len(events) < MaxEvents
    BY <1>1 DEF Events!OpenEvent
  <1>5. /\ events' \in Seq(EventType) /\ Len(events') = Len(events) + 1
        /\ Len(events') <= MaxEvents /\ Len(events) \in Nat
        /\ \A e \in 1..Len(events) : events'[e] = events[e]
        /\ events'[Len(events) + 1] = d
    BY <1>3, <1>4, EventAppended
  <1>6. Len(events) + 1 \in 0..MaxEvents
    BY <1>5, EventsBounds
  <1>7. [pc |-> "link", at |-> Len(events) + 1] \in EmitType
    BY <1>6 DEF EmitType
  <1>8. EventTypes'
    <2>1. PICK a : a = [pc |-> "link", at |-> Len(events) + 1]
      OBVIOUS
    <2>2. a \in EmitType /\ a.at = Len(events')
      BY <1>5, <1>7, <2>1
    <2>3. emit' = [emit EXCEPT ![i] = a]
      BY <2>1 DEF Events!OpenEvent
    <2>4. /\ emit' \in [Invoices -> EmitType]
          /\ \A j \in Invoices : emit'[j] = IF j = i THEN a ELSE emit[j]
      BY <1>0, <2>2, <2>3 DEF EventTypes
    <2>5. \A j \in Invoices : emit'[j].pc = "link" => emit'[j].at <= Len(events')
      <3> SUFFICES ASSUME NEW j \in Invoices, emit'[j].pc = "link"
                   PROVE  emit'[j].at <= Len(events')
        OBVIOUS
      <3>1. CASE j = i
        BY <1>5, <2>2, <2>4, <3>1
      <3>2. CASE j # i
        <4>1. emit[j] \in EmitType /\ emit'[j] = emit[j] /\ emit[j].at <= Len(events)
          BY <1>0, <2>4, <3>2 DEF EventTypes
        <4>2. emit[j].at \in Nat
          BY <4>1 DEF EmitType
        <4> QED
          BY <1>5, <4>1, <4>2
      <3> QED
        BY <3>1, <3>2
    <2>6. link' \in [Invoices -> 0..Len(events')]
      BY <1>0, <1>5 DEF EventTypes
    <2>7. \A r \in Registrars : reg'[r].pending <= Len(events')
      BY <1>0, <1>5 DEF EventTypes, RegType
    <2> QED
      BY <1>0, <1>5, <2>4, <2>5, <2>6, <2>7 DEF EventTypes
  <1>9. ASSUME NEW r \in Registrars PROVE Registers(r)'
    BY <1>0, <1>3, <1>5 DEF EventsInv, Registers
  <1>10. ASSUME NEW e \in 1..Len(events') PROVE SyncedEvent(e)'
    <2>1. CASE e = Len(events) + 1
      BY <1>3, <1>5, <2>1 DEF SyncedEvent
    <2>2. CASE e \in 1..Len(events)
      <3>1. SyncedEvent(e) /\ events'[e] = events[e] /\ codes' = codes
        BY <1>0, <1>5, <2>2 DEF EventsInv
      <3>2. codes \in Seq(SpanType) /\ Len(codes) \in Nat
        BY <1>0 DEF EventTypes
      <3>3. \A f \in 1..Len(events') : f = Len(events) + 1 \/ f \in 1..Len(events)
        BY <1>5
      <3>4. events[e].synced => events[e].code # 0
        BY <3>1, <3>2 DEF SyncedEvent
      <3> QED
        BY <1>3, <1>5, <3>1, <3>3, <3>4 DEF SyncedEvent
    <2> QED
      BY <1>5, <2>1, <2>2
  <1> QED
    BY <1>0, <1>8, <1>9, <1>10 DEF EventsInv, Events!WindowIsSound

\* The default window is an interval of the CUFD's span.
LEMMA DefaultWindow ==
    ASSUME NEW t \in Nat, t = now, Valid.from <= t, t <= Valid.to
    PROVE  /\ Events!Holgada.from \in Int /\ Events!Holgada.to \in Int
           /\ Events!Holgada.from < Events!Holgada.to
           /\ Valid.from <= Events!Holgada.from /\ Events!Holgada.to <= Valid.to
  BY EventsBounds DEF Events!Holgada

\* What a request asks for.
LEMMA EventsRead ==
    ASSUME EventsInv, NEW r \in Registrars, Events!ReadEvent(r)
    PROVE  EventsInv'
  <1>0. EventTypes /\ UNCHANGED <<now, events, issued, emit, link, codes>> /\ now <= Valid.to
    BY DEF EventsInv, Events!ReadEvent
  <1> DEFINE found == CHOOSE e \in Events!OpenLatest : TRUE
  <1>1. PICK given \in BOOLEAN,
             w \in Given \cup {Events!Holgada} \cup {Events!Completed(e) : e \in Events!OpenLatest} :
          /\ given => w \in Given
          /\ ~given => w = IF Events!OpenLatest = {} THEN Events!Holgada ELSE Events!Completed(found)
          /\ reg' = [reg EXCEPT ![r] =
                [pc |-> "ask", from |-> w.from, to |-> w.to, code |-> 0,
                 default |-> ~given /\ Events!OpenLatest = {},
                 pending |-> IF Events!OpenLatest = {} THEN 0 ELSE found]]
    BY DEF Events!ReadEvent
  <1>2. PICK pending \in 0..Len(events) : pending = IF Events!OpenLatest = {} THEN 0 ELSE found
    <2>1. Len(events) \in Nat
      BY <1>0 DEF EventTypes
    <2>2. CASE Events!OpenLatest = {}
      BY <2>1, <2>2
    <2>3. CASE Events!OpenLatest # {}
      BY <1>0, <2>1, <2>3, FoundEvent
    <2> QED
      BY <2>2, <2>3
  <1>3. PICK default \in BOOLEAN : default = (~given /\ Events!OpenLatest = {})
    BY Zenon
  <1>4. /\ w.from \in Int /\ w.to \in Int /\ w.from < w.to
        /\ default => Valid.from <= w.from /\ w.to <= Valid.to
    <2>1. CASE given
      <3>1. w \in Given /\ ~default
        BY <1>1, <1>3, <2>1
      <3> QED
        BY <3>1, EventsBounds
    <2>2. CASE ~given /\ Events!OpenLatest = {}
      BY <1>0, <1>1, <2>2, DefaultWindow DEF EventTypes
    <2>3. CASE ~given /\ Events!OpenLatest # {}
      <3>1. PICK e \in 1..Len(events) : e = found /\ events[e] \in EventType
        BY <1>0, <2>3, FoundEvent
      <3>2. events[e].start \in Int
        BY <3>1 DEF EventType
      <3>3. w = Events!Completed(e)
        BY <1>1, <2>3, <3>1
      <3> QED
        BY <1>0, <1>3, <2>3, <3>2, <3>3 DEF Events!Completed, Events!LaterThan, EventTypes
    <2> QED
      BY <2>1, <2>2, <2>3
  <1>5. PICK from \in Int, to \in Int : from = w.from /\ to = w.to
    BY <1>4
  <1>6. PICK a : a = [pc |-> "ask", from |-> from, to |-> to, code |-> 0,
                      default |-> default, pending |-> pending]
    OBVIOUS
  <1>7. pending \in 0..MaxEvents /\ 0 \in 0..MaxEvents
    BY <1>0, EventsBounds DEF EventTypes
  <1>8. /\ a \in RegType /\ a.pc = "ask" /\ a.from < a.to /\ a.pending <= Len(events)
        /\ a.default => Valid.from <= a.from /\ a.to <= Valid.to
    BY <1>4, <1>5, <1>6, <1>7, <1>0 DEF RegType, EventTypes
  <1>9. reg' = [reg EXCEPT ![r] = a]
    BY <1>1, <1>2, <1>3, <1>5, <1>6, Zenon
  <1>10. reg'[r] = a /\ reg' \in [Registrars -> RegType]
         /\ \A q \in Registrars : q # r => reg'[q] = reg[q]
    BY <1>0, <1>8, <1>9 DEF EventTypes
  <1>11. EventTypes'
    BY <1>0, <1>8, <1>10 DEF EventTypes
  <1>12. Events!WindowIsSound'
    BY <1>8, <1>10 DEF EventsInv, Events!WindowIsSound, EventTypes
  <1>13. \A q \in Registrars : Registers(q)'
    <2>1. reg'[r].pc # "persist" /\ \A q \in Registrars : q # r => reg'[q] = reg[q] /\ Registers(q)
      BY <1>8, <1>10 DEF EventsInv
    <2>2. ASSUME NEW q \in Registrars, q # r PROVE Registers(q)'
      <3>1. reg'[q] = reg[q] /\ Registers(q)
        BY <2>1, <2>2
      <3>2. \A p \in Registrars : reg'[p].pc = "persist" => reg'[p] = reg[p]
        BY <2>1
      <3> QED
        BY <1>0, <3>1, <3>2 DEF Registers
    <2> QED
      BY <2>1, <2>2 DEF Registers
  <1>14. \A e \in 1..Len(events) : SyncedEvent(e)'
    BY <1>0 DEF EventsInv, SyncedEvent
  <1> QED
    BY <1>0, <1>11, <1>12, <1>13, <1>14 DEF EventsInv

\* The SIAT gives every event a code of its own.
LEMMA EventsRegister ==
    ASSUME EventsInv, NEW r \in Registrars, Events!Register(r)
    PROVE  EventsInv'
  <1>0. /\ EventTypes /\ UNCHANGED <<now, events, issued, emit, link>> /\ reg[r].pc = "ask"
        /\ reg[r] \in RegType /\ reg[r].pending <= Len(events) /\ Len(events) \in Nat
        /\ codes \in Seq(SpanType) /\ Len(codes) \in Nat
    BY DEF EventsInv, Events!Register, EventTypes
  <1>1. CASE reg' = [reg EXCEPT ![r] = Events!NoReg] /\ UNCHANGED codes
    <2>1. /\ reg'[r] = Events!NoReg /\ reg' \in [Registrars -> RegType]
          /\ \A q \in Registrars : q # r => reg'[q] = reg[q]
      BY <1>0, <1>1, NoRegType DEF EventTypes
    <2>2. EventTypes' /\ Events!WindowIsSound'
      BY <1>0, <1>1, <2>1, NoRegType DEF EventsInv, EventTypes, Events!WindowIsSound
    <2>3. \A q \in Registrars : Registers(q)'
      BY <1>0, <1>1, <2>1, NoRegType DEF EventsInv, Registers
    <2> QED
      BY <1>0, <1>1, <2>2, <2>3 DEF EventsInv, SyncedEvent
  <1>2. CASE /\ Len(codes) < MaxEvents
             /\ codes' = Append(codes, [from |-> reg[r].from, to |-> reg[r].to])
             /\ reg' = [reg EXCEPT ![r].pc = "persist", ![r].code = Len(codes) + 1]
    <2>1. PICK n \in 1..MaxEvents : n = Len(codes) + 1
      BY <1>0, <1>2, EventsBounds
    <2>2. [from |-> reg[r].from, to |-> reg[r].to] \in SpanType
      BY <1>0 DEF RegType, SpanType
    <2>3. /\ codes' \in Seq(SpanType) /\ Len(codes') = n
          /\ \A k \in 1..Len(codes) : codes'[k] = codes[k]
          /\ codes'[n] = [from |-> reg[r].from, to |-> reg[r].to]
      BY <1>0, <1>2, <2>1, <2>2, AppendProperties
    <2>4. PICK a : a = [reg[r] EXCEPT !.pc = "persist", !.code = n]
      OBVIOUS
    <2>5. n \in 0..MaxEvents
      OBVIOUS
    <2>6. /\ a \in RegType /\ a.pc = "persist" /\ a.code = n /\ a.pending = reg[r].pending
          /\ a.from = reg[r].from /\ a.to = reg[r].to
      BY <1>0, <2>4, <2>5 DEF RegType
    <2>7. reg' = [reg EXCEPT ![r] = a]
      BY <1>0, <1>2, <2>1, <2>4
    <2>8. reg'[r] = a /\ reg' \in [Registrars -> RegType]
          /\ \A q \in Registrars : q # r => reg'[q] = reg[q]
      BY <1>0, <2>6, <2>7 DEF EventTypes
    <2>9. EventTypes'
      <3>1. \A q \in Registrars : reg'[q].pending <= Len(events')
        BY <1>0, <2>6, <2>8 DEF EventTypes
      <3>2. Len(codes') <= MaxEvents
        BY <2>1, <2>3
      <3> QED
        BY <1>0, <2>3, <2>8, <3>1, <3>2 DEF EventTypes
    <2>10. Events!WindowIsSound'
      BY <2>6, <2>8 DEF EventsInv, Events!WindowIsSound, EventTypes
    <2>11. \A e \in 1..Len(events) : events[e].code # n
      <3>1. \A e \in 1..Len(events) : events[e].code = 0 \/ events[e].code \in 1..Len(codes)
        BY DEF EventsInv, SyncedEvent
      <3> QED
        BY <1>0, <2>1, <3>1
    <2>12. \A q \in Registrars : reg[q].pc = "persist" => reg[q].code \in 1..Len(codes) /\ reg[q].code # n
      <3>1. \A q \in Registrars : reg[q].pc = "persist" => reg[q].code \in 1..Len(codes)
        BY DEF EventsInv, Registers
      <3> QED
        BY <1>0, <2>1, <3>1
    <2>13. ASSUME NEW q \in Registrars PROVE Registers(q)'
      <3>1. CASE q = r
        BY <1>0, <2>1, <2>3, <2>6, <2>8, <2>11, <2>12, <3>1 DEF Registers
      <3>2. CASE q # r
        <4>1. reg'[q] = reg[q] /\ Registers(q) /\ reg[r].pc # "persist"
          BY <1>0, <2>8, <3>2 DEF EventsInv
        <4>2. \A p \in Registrars : p # q /\ reg'[p].pc = "persist" =>
                 (p = r /\ reg'[p].code = n) \/ (p # r /\ reg'[p] = reg[p])
          BY <2>6, <2>8
        <4>3. reg[q].pc = "persist" => reg[q].code # n /\ codes'[reg[q].code] = codes[reg[q].code]
          BY <2>3, <2>12
        <4>4. reg[q].pc = "persist" => reg[q].code \in 1..Len(codes')
          BY <1>0, <2>1, <2>3, <2>12
        <4> QED
          BY <1>0, <4>1, <4>2, <4>3, <4>4 DEF Registers
      <3> QED
        BY <3>1, <3>2
    <2>14. \A e \in 1..Len(events) : SyncedEvent(e)'
      BY <1>0, <2>1, <2>3 DEF EventsInv, SyncedEvent
    <2> QED
      BY <1>0, <2>9, <2>10, <2>13, <2>14 DEF EventsInv
  <1> QED
    BY <1>1, <1>2 DEF Events!Register

\* The registration is stored once, or lost.
LEMMA EventsPersist ==
    ASSUME EventsInv, NEW r \in Registrars, Events!Persist(r)
    PROVE  EventsInv'
  <1>0. /\ EventTypes /\ UNCHANGED <<now, issued, emit, link, codes>> /\ reg[r].pc = "persist"
        /\ reg[r] \in RegType /\ reg[r].pending <= Len(events) /\ Len(events) \in Nat
        /\ events \in Seq(EventType) /\ reg' = [reg EXCEPT ![r] = Events!NoReg] /\ Registers(r)
    BY DEF EventsInv, Events!Persist, EventTypes
  <1>1. /\ reg'[r] = Events!NoReg /\ reg' \in [Registrars -> RegType]
        /\ \A q \in Registrars : q # r => reg'[q] = reg[q]
    BY <1>0, NoRegType DEF EventTypes
  <1>2. PICK d : d = Events!Registered(r)
    OBVIOUS
  <1>3. /\ d \in EventType /\ d.synced /\ d.code = reg[r].code /\ d.start = reg[r].from
        /\ d.end = reg[r].to
    BY <1>0, <1>2 DEF Events!Registered, EventType, RegType
  <1>4. /\ d.code \in 1..Len(codes) /\ codes[d.code] = [from |-> d.start, to |-> d.end]
        /\ \A e \in 1..Len(events) : events[e].code # d.code
        /\ \A q \in Registrars : reg[q].pc = "persist" /\ q # r => reg[q].code # d.code
    BY <1>0, <1>3 DEF Registers
  <1>5. Events!WindowIsSound'
    BY <1>0, <1>1, NoRegType DEF EventsInv, Events!WindowIsSound, EventTypes
  <1>6. ASSUME NEW k \in Nat, k # 0, k <= Len(events'), events' \in Seq(EventType),
               Len(events') \in Nat, Len(events) <= Len(events'), Len(events') <= MaxEvents,
               \A e \in 1..Len(events') : e # k => e \in 1..Len(events) /\ events'[e] = events[e],
               events'[k] = d
        PROVE  EventsInv'
    <2>1. EventTypes'
      <3>1. link' \in [Invoices -> 0..Len(events')]
        BY <1>0, <1>6 DEF EventTypes
      <3>2. \A q \in Registrars : reg'[q].pending <= Len(events')
        BY <1>0, <1>1, <1>6, NoRegType DEF EventTypes, RegType
      <3>3. \A i \in Invoices : emit'[i].pc = "link" => emit'[i].at <= Len(events')
        BY <1>0, <1>6 DEF EventTypes, EmitType
      <3> QED
        BY <1>0, <1>1, <1>6, <3>1, <3>2, <3>3 DEF EventTypes
    <2>2. \A q \in Registrars : Registers(q)'
      BY <1>0, <1>1, <1>4, <1>6, NoRegType DEF EventsInv, Registers
    <2>3. ASSUME NEW e \in 1..Len(events') PROVE SyncedEvent(e)'
      <3>1. CASE e = k
        BY <1>0, <1>3, <1>4, <1>6, <3>1 DEF SyncedEvent
      <3>2. CASE e # k
        <4>1. e \in 1..Len(events) /\ events'[e] = events[e] /\ SyncedEvent(e) /\ codes' = codes
          BY <1>0, <1>6, <3>2 DEF EventsInv
        <4>2. \A f \in 1..Len(events') :
                 \/ f = k /\ events'[f].code = d.code
                 \/ f \in 1..Len(events) /\ events'[f] = events[f]
          BY <1>6
        <4> QED
          BY <1>4, <4>1, <4>2 DEF SyncedEvent
      <3> QED
        BY <3>1, <3>2
    <2> QED
      BY <1>5, <2>1, <2>2, <2>3 DEF EventsInv
  <1>7. CASE reg[r].pending # 0 /\ events' = [events EXCEPT ![reg[r].pending] = d]
    <2>1. reg[r].pending \in 1..Len(events) /\ reg[r].pending \in Nat
      BY <1>0, <1>7 DEF RegType
    <2>2. /\ events' \in Seq(EventType) /\ Len(events') = Len(events)
          /\ \A e \in 1..Len(events) : e # reg[r].pending => events'[e] = events[e]
          /\ events'[reg[r].pending] = d
      BY <1>0, <1>3, <1>7, <2>1, ExceptSeq
    <2>3. Len(events') \in Nat /\ Len(events') <= MaxEvents /\ reg[r].pending <= Len(events')
      BY <1>0, <2>2 DEF EventTypes
    <2>4. \A e \in 1..Len(events') : e # reg[r].pending => e \in 1..Len(events) /\ events'[e] = events[e]
      BY <2>2
    <2>5. Len(events) <= Len(events')
      BY <1>0, <2>2
    <2> QED
      BY <1>6, <1>7, <2>1, <2>2, <2>3, <2>4, <2>5
  <1>8. CASE events' = Append(events, d) /\ Len(events) < MaxEvents
    <2>1. /\ events' \in Seq(EventType) /\ Len(events') = Len(events) + 1
          /\ Len(events') <= MaxEvents
          /\ \A e \in 1..Len(events) : events'[e] = events[e]
          /\ events'[Len(events) + 1] = d
      BY <1>3, <1>8, EventAppended
    <2>2. Len(events) + 1 \in Nat /\ Len(events) + 1 # 0 /\ Len(events') \in Nat
      BY <1>0, <2>1
    <2>3. \A e \in 1..Len(events') : e # Len(events) + 1 => e \in 1..Len(events) /\ events'[e] = events[e]
      BY <1>0, <2>1
    <2> QED
      BY <1>0, <1>6, <2>1, <2>2, <2>3
  <1>9. CASE UNCHANGED events
    <2>1. EventTypes'
      BY <1>0, <1>1, <1>9, NoRegType DEF EventTypes
    <2>2. \A q \in Registrars : Registers(q)'
      BY <1>0, <1>1, <1>9, NoRegType DEF EventsInv, Registers
    <2>3. \A e \in 1..Len(events) : SyncedEvent(e)'
      BY <1>0, <1>9 DEF EventsInv, SyncedEvent
    <2> QED
      BY <1>5, <1>9, <2>1, <2>2, <2>3 DEF EventsInv
  <1> QED
    BY <1>2, <1>7, <1>8, <1>9 DEF Events!Persist

\* No step makes an event of a registration the SIAT did not give it.
LEMMA EventsStep == EventsInv /\ [Events!Next]_(Events!evars) => EventsInv'
  <1> SUFFICES ASSUME EventsInv, [Events!Next]_(Events!evars) PROVE EventsInv'
    OBVIOUS
  <1>1. CASE Events!Tick
    BY <1>1, EventsBounds, EventsKept DEF EventsInv, EventTypes, Events!Tick
  <1>2. CASE UNCHANGED Events!evars
    BY <1>2, EventsKept DEF EventsInv, EventTypes, Events!evars
  <1> QED
    BY <1>1, <1>2, EventsInvoice, EventsOpen, EventsRead, EventsRegister, EventsPersist
       DEF Events!Next

\* What the properties say.
LEMMA EventsSound == EventsInv => Events!TypeOK /\ Events!SyncedIsRegistered /\ Events!WindowIsSound
  <1> SUFFICES ASSUME EventsInv PROVE Events!TypeOK /\ Events!SyncedIsRegistered
    BY DEF EventsInv
  <1>1. events \in Seq(EventType) /\ Len(events) \in Nat /\ DOMAIN events = 1..Len(events)
        /\ DOMAIN codes = 1..Len(codes)
    BY DEF EventsInv, EventTypes
  <1>2. Events!SyncedIsRegistered
    BY <1>1 DEF EventsInv, SyncedEvent, Events!SyncedIsRegistered
  <1>3. ASSUME NEW r \in Registrars
        PROVE  reg[r] \in [pc : {"idle", "ask", "persist"}, pending : 0..Len(events),
                           from : Int, to : Int, code : 0..MaxEvents, default : BOOLEAN]
    BY <1>1 DEF EventsInv, EventTypes, RegType
  <1>4. Events!TypeOK
    BY <1>1, <1>3
       DEF EventsInv, EventTypes, Events!TypeOK, EventType, EmitType, RegType, SpanType
  <1> QED
    BY <1>2, <1>4

-----------------------------------------------------------------------------
(* Certificates: one active certificate. *)

RowType == [status : Signing!Statuses, ref : 0..MaxPuts]
EditType == [pc : {"idle", "put", "save", "clean", "undo", "drop"},
             at : Processes \cup {Idle}, creates : BOOLEAN, id : 0..MaxCerts,
             status : Signing!Statuses, ref : 0..MaxPuts, old : 0..MaxPuts, new : 0..MaxPuts]
ClientType == [held : BOOLEAN, id : 0..MaxCerts, ref : 0..MaxPuts]
BuildType == [pc : {"idle", "load", "store"}, id : 0..MaxCerts, ref : 0..MaxPuts]

\* At most one row is active.
SigningInv ==
    /\ Signing!TypeOK
    /\ \A j, k \in Signing!Ids : cert[j].status = "ACTIVE" /\ cert[k].status = "ACTIVE" => j = k

\* Nothing is held, built or edited.
LEMMA SigningNothing ==
    /\ Signing!NoEdit \in EditType /\ Signing!NoClient \in ClientType /\ Signing!NoBuild \in BuildType
    /\ Signing!NoEdit.pc = "idle" /\ Signing!NoEdit.ref = 0 /\ Signing!NoEdit.new = 0
  BY SigningAssumption
     DEF Signing!CertificatesAssumption, Signing!NoEdit, Signing!NoClient, Signing!NoBuild,
         EditType, ClientType, BuildType,
               Signing!Statuses

\* Initially there is no certificate.
LEMMA SigningInit == Signing!Init => SigningInv
  <1> SUFFICES ASSUME Signing!Init PROVE SigningInv
    OBVIOUS
  <1>1. /\ edit \in [Editors -> EditType] /\ cache \in [Processes -> ClientType]
        /\ build \in [Processes -> BuildType]
    BY SigningNothing DEF Signing!Init
  <1>2. cert \in [Signing!Ids -> RowType] /\ \A k \in Signing!Ids : cert[k].status # "ACTIVE"
    BY SigningAssumption
       DEF Signing!CertificatesAssumption, Signing!Init, RowType, Signing!Statuses
  <1>3. puts \in 0..MaxPuts /\ edits \in 0..MaxEdits /\ cfaults \in 0..MaxFaults /\ stored = {}
    BY SigningAssumption DEF Signing!CertificatesAssumption, Signing!Init
  <1> QED
    BY <1>1, <1>2, <1>3 DEF SigningInv, Signing!TypeOK, EditType, ClientType, BuildType, RowType

\* The types by name.
LEMMA SigningTypes ==
    Signing!TypeOK <=>
        /\ cert \in [Signing!Ids -> RowType] /\ puts \in 0..MaxPuts
        /\ stored \in SUBSET (1..MaxPuts)
        /\ edit \in [Editors -> EditType] /\ cache \in [Processes -> ClientType]
        /\ build \in [Processes -> BuildType]
        /\ edits \in 0..MaxEdits /\ cfaults \in 0..MaxFaults
  BY DEF Signing!TypeOK, EditType, ClientType, BuildType, RowType

\* And of the next state.
LEMMA SigningTyped ==
    ASSUME cert' \in [Signing!Ids -> RowType], puts' \in 0..MaxPuts, stored' \in SUBSET (1..MaxPuts),
           edit' \in [Editors -> EditType], cache' \in [Processes -> ClientType],
           build' \in [Processes -> BuildType],
           edits' \in 0..MaxEdits, cfaults' \in 0..MaxFaults
    PROVE  Signing!TypeOK'
  BY DEF Signing!TypeOK, EditType, ClientType, BuildType, RowType

\* A step of an editor that leaves the rows alone.
LEMMA EditMoves ==
    ASSUME SigningInv, NEW e \in Editors, NEW a \in EditType, edit' = [edit EXCEPT ![e] = a],
           cert' = cert, puts' \in 0..MaxPuts, stored' \in SUBSET (1..MaxPuts),
           edits' \in 0..MaxEdits, cfaults' \in 0..MaxFaults,
           cache' \in [Processes -> ClientType], build' = build
    PROVE  SigningInv'
  <1>1. edit' \in [Editors -> EditType]
    BY SigningTypes DEF SigningInv
  <1> QED
    BY <1>1, SigningTypes, SigningTyped DEF SigningInv

\* A write of a row, which is the only active one or takes no row's place.
LEMMA RowWritten ==
    ASSUME SigningInv, NEW id, NEW a \in RowType,
           \/ cert' = [Signing!OthersExpired(id) EXCEPT ![id] = a]
           \/ a.status # "ACTIVE" /\ cert' = [cert EXCEPT ![id] = a],
           edit' \in [Editors -> EditType], puts' = puts, stored' = stored,
           edits' \in 0..MaxEdits, cfaults' \in 0..MaxFaults, cache' = cache, build' = build
    PROVE  SigningInv'
  <1>1. cert \in [Signing!Ids -> RowType]
    BY SigningTypes DEF SigningInv
  <1>2. CASE cert' = [Signing!OthersExpired(id) EXCEPT ![id] = a]
    <2>0. PICK f : f = Signing!OthersExpired(id)
      OBVIOUS
    <2>1. /\ DOMAIN f = Signing!Ids /\ f = [j \in DOMAIN f |-> f[j]]
          /\ \A j \in Signing!Ids : f[j] \in RowType /\ (j # id => f[j].status # "ACTIVE")
      BY <1>1, <2>0 DEF Signing!OthersExpired, RowType, Signing!Statuses
    <2>2. f \in [Signing!Ids -> RowType]
      BY <2>1
    <2>3. cert' \in [Signing!Ids -> RowType] /\ \A j \in Signing!Ids : j # id => cert'[j].status # "ACTIVE"
      BY <1>2, <2>0, <2>1, <2>2
    <2> QED
      BY <2>3, SigningTypes, SigningTyped DEF SigningInv
  <1>3. CASE a.status # "ACTIVE" /\ cert' = [cert EXCEPT ![id] = a]
    <2>1. cert' \in [Signing!Ids -> RowType]
      BY <1>1, <1>3
    <2>2. \A j \in Signing!Ids : cert'[j].status = "ACTIVE" => cert[j].status = "ACTIVE"
      BY <1>1, <1>3
    <2> QED
      BY <2>1, <2>2, SigningTypes, SigningTyped DEF SigningInv
  <1> QED
    BY <1>2, <1>3

\* Edits begin.
LEMMA SigningCreate ==
    ASSUME SigningInv, NEW e \in Editors, NEW p \in Processes, Signing!Create(e, p)
    PROVE  SigningInv'
  <1>1. PICK id \in Signing!Ids :
           /\ cert' = [Signing!OthersExpired(id) EXCEPT ![id] = [status |-> "ACTIVE", ref |-> 0]]
           /\ edit' = [edit EXCEPT ![e] = [Signing!NoEdit EXCEPT !.pc = "put", !.at = p, !.creates = TRUE,
                                                         !.id = id, !.status = "ACTIVE"]]
           /\ UNCHANGED <<stored, puts, cache, build, cfaults>>
    BY DEF Signing!Create
  <1>2. PICK a : a = [Signing!NoEdit EXCEPT !.pc = "put", !.at = p, !.creates = TRUE, !.id = id,
                                    !.status = "ACTIVE"]
    OBVIOUS
  <1>3. id \in 0..MaxCerts
    BY SigningAssumption DEF Signing!CertificatesAssumption, Signing!Ids
  <1>4. a \in EditType
    BY <1>2, <1>3, SigningNothing DEF EditType, Signing!Statuses
  <1>5. edit' \in [Editors -> EditType]
    BY <1>1, <1>2, <1>4, SigningTypes DEF SigningInv
  <1>6. PICK row : row = [status |-> "ACTIVE", ref |-> 0]
    OBVIOUS
  <1>7. row \in RowType
    BY <1>6, SigningAssumption DEF Signing!CertificatesAssumption, RowType, Signing!Statuses
  <1>8. edits' \in 0..MaxEdits /\ cfaults' \in 0..MaxFaults
    BY <1>1, SigningAssumption, SigningTypes
       DEF SigningInv, Signing!Create, Signing!Starts, Signing!CertificatesAssumption
  <1>9. cert' = [Signing!OthersExpired(id) EXCEPT ![id] = row]
    BY <1>1, <1>6
  <1> QED
    BY <1>1, <1>5, <1>7, <1>8, <1>9, RowWritten

\* An update takes a copy of the row.
LEMMA SigningUpdate ==
    ASSUME SigningInv, NEW e \in Editors, NEW p \in Processes, Signing!Update(e, p)
    PROVE  SigningInv'
  <1>1. PICK id \in Signing!Ids, withFile \in BOOLEAN :
           /\ edit' = [edit EXCEPT ![e] =
                [Signing!NoEdit EXCEPT !.pc = IF withFile THEN "put" ELSE "save", !.at = p, !.id = id,
                               !.status = cert[id].status, !.ref = cert[id].ref,
                               !.old = cert[id].ref]]
           /\ UNCHANGED <<cert, stored, puts, cache, build, cfaults>>
    BY DEF Signing!Update
  <1>2. cert[id] \in RowType
    BY SigningTypes DEF SigningInv
  <1>3. PICK st \in Signing!Statuses, f \in 0..MaxPuts, pc \in {"put", "save"} :
           st = cert[id].status /\ f = cert[id].ref /\ pc = (IF withFile THEN "put" ELSE "save")
    BY <1>2 DEF RowType
  <1>4. PICK a : a = [Signing!NoEdit EXCEPT !.pc = pc, !.at = p, !.id = id, !.status = st,
                                    !.ref = f, !.old = f]
    OBVIOUS
  <1>5. id \in 0..MaxCerts
    BY SigningAssumption DEF Signing!CertificatesAssumption, Signing!Ids
  <1>6. a \in EditType
    BY <1>3, <1>4, <1>5, SigningNothing DEF EditType
  <1>7. edit' = [edit EXCEPT ![e] = a]
    BY <1>1, <1>3, <1>4, Zenon
  <1>8. edits' \in 0..MaxEdits /\ cfaults' \in 0..MaxFaults /\ puts' \in 0..MaxPuts
        /\ stored' \in SUBSET (1..MaxPuts) /\ cache' \in [Processes -> ClientType]
    BY <1>1, SigningAssumption, SigningTypes
       DEF SigningInv, Signing!Update, Signing!Starts, Signing!CertificatesAssumption
  <1> QED
    BY <1>1, <1>6, <1>7, <1>8, EditMoves

\* A deletion revokes the row.
LEMMA SigningDelete ==
    ASSUME SigningInv, NEW e \in Editors, NEW p \in Processes, Signing!Delete(e, p)
    PROVE  SigningInv'
  <1>1. PICK id \in Signing!Ids :
           /\ cert' = [cert EXCEPT ![id].status = "REVOKED"]
           /\ edit' = [edit EXCEPT ![e] = [Signing!NoEdit EXCEPT !.pc = "drop", !.at = p]]
           /\ UNCHANGED <<stored, puts, cache, build, cfaults>>
    BY DEF Signing!Delete
  <1>2. PICK a : a = [Signing!NoEdit EXCEPT !.pc = "drop", !.at = p]
    OBVIOUS
  <1>4. a \in EditType
    BY <1>2, SigningNothing DEF EditType
  <1>5. edit' \in [Editors -> EditType]
    BY <1>1, <1>2, <1>4, SigningTypes DEF SigningInv
  <1>6. PICK row : row = [cert[id] EXCEPT !.status = "REVOKED"]
    OBVIOUS
  <1>7. cert[id] \in RowType
    BY SigningTypes DEF SigningInv
  <1>8. row \in RowType /\ row.status # "ACTIVE"
    BY <1>6, <1>7 DEF RowType, Signing!Statuses
  <1>9. edits' \in 0..MaxEdits /\ cfaults' \in 0..MaxFaults
    BY <1>1, SigningAssumption, SigningTypes
       DEF SigningInv, Signing!Delete, Signing!Starts, Signing!CertificatesAssumption
  <1>10. cert' = [cert EXCEPT ![id] = row]
    BY <1>1, <1>6
  <1> QED
    BY <1>1, <1>5, <1>8, <1>9, <1>10, RowWritten

\* Edits go on.
LEMMA SigningGoesOn ==
    ASSUME SigningInv, NEW e \in Editors,
           \/ Signing!Put(e) \/ Signing!SaveFails(e) \/ Signing!Undo(e)
           \/ Signing!Clean(e) \/ Signing!Invalidate(e) \/ Signing!EditDies(e)
    PROVE  SigningInv'
  <1>0. edit[e] \in EditType /\ cert \in [Signing!Ids -> RowType] /\ puts \in 0..MaxPuts
        /\ stored \in SUBSET (1..MaxPuts) /\ edits \in 0..MaxEdits /\ cfaults \in 0..MaxFaults
        /\ cache \in [Processes -> ClientType]
    BY SigningTypes DEF SigningInv
  <1>1. CASE Signing!Put(e)
    <2>1. PICK n \in 1..MaxPuts : n = puts + 1
      BY <1>0, <1>1, SigningAssumption DEF Signing!Put, Signing!CertificatesAssumption
    <2>2. PICK a : a = [edit[e] EXCEPT !.ref = n, !.new = n, !.pc = "save"]
      OBVIOUS
    <2>3. n \in 0..MaxPuts
      OBVIOUS
    <2>4. a \in EditType
      BY <1>0, <2>2, <2>3 DEF EditType
    <2>5. edit' = [edit EXCEPT ![e] = a]
      BY <1>1, <2>1, <2>2 DEF Signing!Put
    <2>6. puts' = n /\ stored' = stored \cup {n} /\ UNCHANGED <<cert, cache, build, edits, cfaults>>
      BY <1>1, <2>1 DEF Signing!Put
    <2> QED
      BY <1>0, <2>3, <2>4, <2>5, <2>6, EditMoves
  <1>2. CASE Signing!SaveFails(e)
    <2>1. PICK a \in {Signing!NoEdit, [edit[e] EXCEPT !.pc = "undo"]} : edit' = [edit EXCEPT ![e] = a]
      BY <1>2 DEF Signing!SaveFails
    <2>2. a \in EditType
      BY <1>0, <2>1, SigningNothing DEF EditType
    <2>3. cfaults' \in 0..MaxFaults /\ UNCHANGED <<cert, stored, puts, cache, build, edits>>
      BY <1>0, <1>2, SigningAssumption
         DEF Signing!SaveFails, Signing!Fault, Signing!CertificatesAssumption
    <2> QED
      BY <1>0, <2>1, <2>2, <2>3, EditMoves
  <1>3. CASE Signing!Undo(e)
    BY <1>0, <1>3, SigningNothing, EditMoves DEF Signing!Undo
  <1>4. CASE Signing!Clean(e)
    <2>1. PICK a : a = [edit[e] EXCEPT !.pc = "drop"]
      OBVIOUS
    <2>2. a \in EditType /\ edit' = [edit EXCEPT ![e] = a]
      BY <1>0, <1>4, <2>1 DEF EditType, Signing!Clean
    <2>3. stored' \in SUBSET (1..MaxPuts) /\ UNCHANGED <<cert, puts, cache, build, edits, cfaults>>
      BY <1>0, <1>4 DEF Signing!Clean
    <2> QED
      BY <1>0, <2>2, <2>3, EditMoves
  <1>5. CASE Signing!Invalidate(e)
    <2>1. cache' \in [Processes -> ClientType]
      BY <1>0, <1>5, SigningNothing DEF Signing!Invalidate
    <2> QED
      BY <1>0, <1>5, <2>1, SigningNothing, EditMoves DEF Signing!Invalidate
  <1>6. CASE Signing!EditDies(e)
    <2>1. cfaults' \in 0..MaxFaults
      BY <1>0, <1>6, SigningAssumption
         DEF Signing!EditDies, Signing!Fault, Signing!CertificatesAssumption
    <2> QED
      BY <1>0, <1>6, <2>1, SigningNothing, EditMoves DEF Signing!EditDies
  <1> QED
    BY <1>1, <1>2, <1>3, <1>4, <1>5, <1>6

\* A row written back as ACTIVE expires the others.
LEMMA SigningSave ==
    ASSUME SigningInv, NEW e \in Editors, Signing!Save(e)
    PROVE  SigningInv'
  <1>0. edit[e] \in EditType
    BY SigningTypes DEF SigningInv
  <1>1. PICK row : row = [status |-> edit[e].status, ref |-> edit[e].ref]
    OBVIOUS
  <1>2. row \in RowType /\ row.status = edit[e].status
    BY <1>0, <1>1 DEF EditType, RowType
  <1>3. \/ cert' = [Signing!OthersExpired(edit[e].id) EXCEPT ![edit[e].id] = row]
        \/ row.status # "ACTIVE" /\ cert' = [cert EXCEPT ![edit[e].id] = row]
    BY <1>1 DEF Signing!Save
  <1>4. PICK pc \in {"clean", "drop"} : edit' = [edit EXCEPT ![e].pc = pc]
    BY DEF Signing!Save
  <1>5. PICK a : a = [edit[e] EXCEPT !.pc = pc]
    OBVIOUS
  <1>6. a \in EditType /\ edit' = [edit EXCEPT ![e] = a]
    BY <1>0, <1>4, <1>5 DEF EditType
  <1>7. edit' \in [Editors -> EditType] /\ edits' \in 0..MaxEdits /\ cfaults' \in 0..MaxFaults
        /\ UNCHANGED <<stored, puts, cache, build>>
    BY <1>6, SigningTypes DEF SigningInv, Signing!Save
  <1> QED
    BY <1>2, <1>3, <1>7, RowWritten

\* The monitor and the provider.
LEMMA SigningProvider ==
    ASSUME SigningInv,
           \/ Signing!MarkCertificateExpired
           \/ \E p \in Processes :
                 Signing!GetForCompany(p) \/ Signing!BuildFails(p) \/ Signing!ProviderStep(p)
    PROVE  SigningInv'
  <1>0. /\ cert \in [Signing!Ids -> RowType] /\ puts \in 0..MaxPuts /\ stored \in SUBSET (1..MaxPuts)
        /\ edit \in [Editors -> EditType] /\ cache \in [Processes -> ClientType]
        /\ build \in [Processes -> BuildType]
        /\ edits \in 0..MaxEdits /\ cfaults \in 0..MaxFaults
    BY SigningTypes DEF SigningInv
  <1>1. CASE Signing!MarkCertificateExpired
    <2>1. PICK id \in Signing!Ids : cert' = [cert EXCEPT ![id].status = "EXPIRED"]
      BY <1>0, <1>1 DEF Signing!MarkCertificateExpired, Signing!Active
    <2>2. PICK row : row = [cert[id] EXCEPT !.status = "EXPIRED"]
      OBVIOUS
    <2>3. row \in RowType /\ row.status # "ACTIVE" /\ cert' = [cert EXCEPT ![id] = row]
      BY <1>0, <2>1, <2>2 DEF RowType, Signing!Statuses
    <2> QED
      BY <1>0, <1>1, <2>3, RowWritten DEF Signing!MarkCertificateExpired
  <1>2. ASSUME NEW p \in Processes,
               Signing!GetForCompany(p) \/ Signing!BuildFails(p) \/ Signing!LoadP12(p)
        PROVE  SigningInv'
    <2>1. PICK a \in BuildType : build' = [build EXCEPT ![p] = a]
      <3>1. CASE Signing!GetForCompany(p)
        <4>1. PICK id \in IF Signing!Active = {} THEN {0} ELSE Signing!Active :
                 build' = [build EXCEPT ![p] = [pc |-> "load", id |-> id,
                                         ref |-> IF id = 0 THEN 0 ELSE cert[id].ref]]
          BY <3>1 DEF Signing!GetForCompany
        <4>2. id = 0 \/ (id \in Signing!Ids /\ cert[id] \in RowType)
          BY <1>0, <4>1 DEF Signing!Active
        <4>3. PICK f \in 0..MaxPuts : f = IF id = 0 THEN 0 ELSE cert[id].ref
          BY <4>2, SigningAssumption DEF Signing!CertificatesAssumption, RowType
        <4>4. id \in 0..MaxCerts
          BY <4>2, SigningAssumption DEF Signing!CertificatesAssumption, Signing!Ids
        <4>5. [pc |-> "load", id |-> id, ref |-> f] \in BuildType
          BY <4>4 DEF BuildType
        <4> QED
          BY <4>1, <4>3, <4>5, Zenon
      <3>2. CASE Signing!BuildFails(p)
        BY <3>2, SigningNothing DEF Signing!BuildFails
      <3>3. CASE Signing!LoadP12(p)
        <4>1. PICK f \in {build[p].ref, 0} :
                 build' = [build EXCEPT ![p].pc = "store", ![p].ref = f]
          BY <3>3 DEF Signing!LoadP12
        <4>2. PICK a : a = [build[p] EXCEPT !.pc = "store", !.ref = f]
          OBVIOUS
        <4>3. build[p] \in BuildType
          BY <1>0
        <4>4. f \in 0..MaxPuts
          BY <4>1, <4>3, SigningAssumption DEF Signing!CertificatesAssumption, BuildType
        <4>5. a \in BuildType
          BY <4>2, <4>3, <4>4 DEF BuildType
        <4> QED
          BY <1>0, <4>1, <4>2, <4>5
      <3> QED
        BY <1>2, <3>1, <3>2, <3>3
    <2>2. /\ cfaults' \in 0..MaxFaults /\ UNCHANGED <<cert, stored, puts, edit, cache, edits>>
      BY <1>0, <1>2, SigningAssumption
         DEF Signing!GetForCompany, Signing!BuildFails, Signing!LoadP12, Signing!Fault,
             Signing!CertificatesAssumption
    <2> QED
      BY <1>0, <2>1, <2>2, SigningTypes, SigningTyped DEF SigningInv
  <1>3. ASSUME NEW p \in Processes, Signing!StoreClient(p) \/ Signing!Expire(p)
        PROVE  SigningInv'
    <2>1. build[p] \in BuildType
      BY <1>0
    <2>2. PICK id \in 0..MaxCerts, f \in 0..MaxPuts : id = build[p].id /\ f = build[p].ref
      BY <2>1 DEF BuildType
    <2>3. [held |-> TRUE, id |-> id, ref |-> f] \in ClientType
      BY DEF ClientType
    <2>4. cache' \in [Processes -> ClientType]
      BY <1>0, <1>3, <2>2, <2>3, SigningNothing DEF Signing!StoreClient, Signing!Expire
    <2>5. build' \in [Processes -> BuildType]
      BY <1>0, <1>3, SigningNothing DEF Signing!StoreClient, Signing!Expire
    <2>6. UNCHANGED <<cert, stored, puts, edit, edits, cfaults>>
      BY <1>3 DEF Signing!StoreClient, Signing!Expire
    <2> QED
      BY <1>0, <2>4, <2>5, <2>6, SigningTypes, SigningTyped DEF SigningInv
  <1> QED
    BY <1>1, <1>2, <1>3 DEF Signing!ProviderStep

\* One active certificate at a time, whichever edits interleave.
LEMMA SigningStep == SigningInv /\ [Signing!Next]_(Signing!cvars) => SigningInv'
  <1> SUFFICES ASSUME SigningInv, [Signing!Next]_(Signing!cvars) PROVE SigningInv'
    OBVIOUS
  <1>1. CASE Signing!Next
    BY <1>1, SigningCreate, SigningUpdate, SigningDelete, SigningGoesOn, SigningSave,
       SigningProvider DEF Signing!Next
  <1>2. CASE UNCHANGED Signing!cvars
    BY <1>2, SigningTypes, SigningTyped DEF SigningInv, Signing!cvars
  <1> QED
    BY <1>1, <1>2

\* What the property says.
LEMMA SigningOneActive == SigningInv => Signing!TypeOK /\ Signing!OneActiveCertificate
  BY SigningTypes DEF SigningInv, Signing!Active, Signing!OneActiveCertificate

-----------------------------------------------------------------------------
(* One edit at a time: no row without its file. *)

\* An edit about to write a row knows its file, and the file an update put, or
\* is about to remove, is in no row.
EditKnows(e) ==
    /\ edit[e].pc \in {"put", "save"} =>
          edit[e].id \in Signing!Ids /\ cert[edit[e].id].ref = edit[e].old
    /\ edit[e].pc = "put" => edit[e].ref = edit[e].old
    /\ edit[e].pc = "save" =>
          \/ edit[e].new = 0 /\ edit[e].ref = edit[e].old
          \/ /\ edit[e].new # 0 /\ edit[e].ref = edit[e].new /\ edit[e].new \in stored
             /\ \A j \in Signing!Ids : cert[j].ref # edit[e].new
    /\ edit[e].pc = "undo" => \A j \in Signing!Ids : cert[j].ref # edit[e].new
    /\ edit[e].pc = "clean" => \A j \in Signing!Ids : cert[j].ref # edit[e].old

\* Files are numbered as they are put, and no two rows share one.
RefInv ==
    /\ SigningInv /\ Signing!RefStored
    /\ \A f \in stored : f <= puts
    /\ \A j, k \in Signing!Ids : j # k /\ cert[j].ref # 0 => cert[j].ref # cert[k].ref
    /\ \A e \in Editors : EditKnows(e) /\ (e # Editor => edit[e].pc = "idle")

\* Initially no row has a file.
LEMMA RefInit == Signing!Init => RefInv
  <1> SUFFICES ASSUME Signing!Init PROVE RefInv
    OBVIOUS
  <1>1. SigningInv /\ stored = {} /\ \A j \in Signing!Ids : cert[j].ref = 0
    BY SigningInit DEF Signing!Init
  <1>2. \A e \in Editors : edit[e].pc = "idle"
    BY SigningNothing DEF Signing!Init
  <1>3. DOMAIN cert = Signing!Ids
    BY DEF Signing!Init
  <1> QED
    BY <1>1, <1>2, <1>3 DEF RefInv, Signing!RefStored, EditKnows

\* While one edits, the others know what they must.
LEMMA OthersIdle ==
    ASSUME OneEditor, NEW e \in Editors, e = Editor, EditKnows(e)'
    PROVE  \A f \in Editors : EditKnows(f)' /\ (f # Editor => edit'[f].pc = "idle")
  BY DEF OneEditor, EditKnows

\* A step that moves one edit and no file or row.
LEMMA RefKept ==
    ASSUME RefInv, SigningInv', NEW e \in Editors, e = Editor, OneEditor,
           \A j \in Signing!Ids : cert'[j].ref = cert[j].ref, puts' = puts,
           stored' = stored, EditKnows(e)'
    PROVE  RefInv'
  <1>1. DOMAIN cert = Signing!Ids /\ DOMAIN cert' = Signing!Ids
    BY SigningTypes DEF RefInv, SigningInv, Signing!TypeOK
  <1>2. Signing!RefStored'
    BY <1>1 DEF RefInv, Signing!RefStored
  <1> QED
    BY <1>2, OthersIdle DEF RefInv

\* The steps of the editor.
LEMMA RefEdit ==
    ASSUME RefInv, SigningInv', NEW e \in Editors, e = Editor, OneEditor,
           \/ \E p \in Processes : Signing!Create(e, p) \/ Signing!Update(e, p) \/ Signing!Delete(e, p)
           \/ Signing!Put(e) \/ Signing!Save(e) \/ Signing!SaveFails(e) \/ Signing!Undo(e)
           \/ Signing!Clean(e) \/ Signing!Invalidate(e)
           \/ Signing!EditDies(e)
    PROVE  RefInv'
  <1>0. /\ edit \in [Editors -> EditType] /\ edit[e] \in EditType /\ puts \in Nat
        /\ cert \in [Signing!Ids -> RowType] /\ DOMAIN cert' = Signing!Ids /\ EditKnows(e)
        /\ \A f \in stored : f \in Nat
    BY SigningTypes, SigningAssumption
       DEF RefInv, SigningInv, Signing!TypeOK, Signing!CertificatesAssumption
  <1>1. ASSUME NEW p \in Processes, Signing!Create(e, p) PROVE RefInv'
    <2>1. PICK id \in Signing!Ids :
             /\ \A j \in Signing!Ids : cert[j].status = "none" <=> j >= id
             /\ cert' = [Signing!OthersExpired(id) EXCEPT ![id] = [status |-> "ACTIVE", ref |-> 0]]
             /\ edit' = [edit EXCEPT ![e] = [Signing!NoEdit EXCEPT !.pc = "put", !.at = p, !.creates = TRUE,
                                                           !.id = id, !.status = "ACTIVE"]]
             /\ UNCHANGED <<stored, puts>>
      BY <1>1 DEF Signing!Create
    <2>2. \A j \in Signing!Ids : cert'[j].ref = IF j = id THEN 0 ELSE cert[j].ref
      BY <1>0, <2>1 DEF Signing!OthersExpired, RowType
    <2>3. /\ edit'[e].pc = "put" /\ edit'[e].id = id /\ edit'[e].ref = 0 /\ edit'[e].old = 0
      BY <1>0, <2>1 DEF Signing!NoEdit
    <2>4. EditKnows(e)'
      BY <2>2, <2>3 DEF EditKnows
    <2>5. Signing!RefStored'
      BY <1>0, <2>1, <2>2 DEF RefInv, Signing!RefStored
    <2> QED
      BY <2>1, <2>2, <2>4, <2>5, OthersIdle DEF RefInv
  <1>2. ASSUME NEW p \in Processes, Signing!Update(e, p) PROVE RefInv'
    <2>1. PICK id \in Signing!Ids, pc \in {"put", "save"} :
             edit' = [edit EXCEPT ![e] =
                [Signing!NoEdit EXCEPT !.pc = pc, !.at = p, !.id = id,
                               !.status = cert[id].status, !.ref = cert[id].ref,
                               !.old = cert[id].ref]]
      BY <1>2 DEF Signing!Update
    <2>2. /\ edit'[e].pc = pc /\ edit'[e].id = id /\ edit'[e].ref = cert[id].ref
          /\ edit'[e].old = cert[id].ref /\ edit'[e].new = 0
      BY <1>0, <2>1 DEF Signing!NoEdit
    <2>3. UNCHANGED <<cert, stored, puts>>
      BY <1>2 DEF Signing!Update
    <2>4. EditKnows(e)'
      BY <2>2, <2>3 DEF EditKnows
    <2> QED
      BY <2>3, <2>4, RefKept
  <1>3. ASSUME NEW p \in Processes, Signing!Delete(e, p) PROVE RefInv'
    <2>1. /\ \A j \in Signing!Ids : cert'[j].ref = cert[j].ref
          /\ edit'[e].pc = "drop" /\ UNCHANGED <<stored, puts>>
      <3>1. PICK id \in Signing!Ids : cert' = [cert EXCEPT ![id].status = "REVOKED"]
        BY <1>3 DEF Signing!Delete
      <3>2. \A j \in Signing!Ids : cert'[j].ref = cert[j].ref
        BY <1>0, <3>1 DEF RowType
      <3>3. edit'[e].pc = "drop" /\ UNCHANGED <<stored, puts>>
        BY <1>0, <1>3 DEF Signing!Delete, Signing!NoEdit
      <3> QED
        BY <3>2, <3>3
    <2>2. EditKnows(e)'
      BY <2>1 DEF EditKnows
    <2> QED
      BY <2>1, <2>2, RefKept
  <1>4. CASE Signing!Put(e)
    <2>1. /\ edit[e].pc = "put" /\ puts' = puts + 1 /\ stored' = stored \cup {puts + 1}
          /\ edit'[e].pc = "save" /\ edit'[e].id = edit[e].id /\ edit'[e].old = edit[e].old
          /\ edit'[e].ref = puts + 1 /\ edit'[e].new = puts + 1 /\ cert' = cert
      BY <1>0, <1>4 DEF Signing!Put, EditType
    <2>2. \A j \in Signing!Ids : cert[j].ref = 0 \/ (cert[j].ref \in stored /\ cert[j].ref <= puts)
      BY <1>0 DEF RefInv, Signing!RefStored
    <2>3. puts + 1 # 0 /\ \A j \in Signing!Ids : cert[j].ref # puts + 1
      BY <1>0, <2>2
    <2>4. EditKnows(e)'
      BY <1>0, <2>1, <2>3 DEF EditKnows
    <2>5. Signing!RefStored' /\ \A f \in stored' : f <= puts'
      BY <1>0, <2>1 DEF RefInv, Signing!RefStored
    <2> QED
      BY <2>1, <2>4, <2>5, OthersIdle DEF RefInv
  <1>5. CASE Signing!Save(e)
    <2> DEFINE id == edit[e].id
    <2>1. /\ edit[e].pc = "save" /\ id \in Signing!Ids /\ cert[id].ref = edit[e].old
          /\ UNCHANGED <<stored, puts>>
      BY <1>0, <1>5 DEF Signing!Save, EditKnows
    <2>2. \A j \in Signing!Ids : cert'[j].ref = IF j = id THEN edit[e].ref ELSE cert[j].ref
      BY <1>0, <1>5, <2>1 DEF Signing!Save, Signing!OthersExpired, RowType
    <2>3. /\ edit'[e].pc = IF edit[e].new # 0 /\ edit[e].old # 0 THEN "clean" ELSE "drop"
          /\ edit'[e].old = edit[e].old
      BY <1>0, <1>5 DEF Signing!Save, EditType
    <2>4. EditKnows(e)'
      BY <1>0, <2>1, <2>2, <2>3 DEF EditKnows, RefInv
    <2>5. Signing!RefStored'
      BY <1>0, <2>1, <2>2 DEF RefInv, Signing!RefStored, EditKnows
    <2>6. \A j, k \in Signing!Ids : j # k /\ cert'[j].ref # 0 => cert'[j].ref # cert'[k].ref
      BY <1>0, <2>1, <2>2 DEF RefInv, EditKnows
    <2> QED
      BY <2>1, <2>4, <2>5, <2>6, OthersIdle DEF RefInv
  <1>6. CASE Signing!SaveFails(e)
    <2>1. /\ edit[e].pc = "save" /\ UNCHANGED <<cert, stored, puts>>
          /\ \/ edit'[e].pc = "idle"
             \/ edit[e].new # 0 /\ edit'[e].pc = "undo" /\ edit'[e].new = edit[e].new
      BY <1>0, <1>6, SigningNothing DEF Signing!SaveFails, EditType
    <2>2. EditKnows(e)'
      BY <1>0, <2>1 DEF EditKnows
    <2> QED
      BY <2>1, <2>2, RefKept
  <1>7. ASSUME NEW f, (Signing!Undo(e) /\ f = edit[e].new) \/ (Signing!Clean(e) /\ f = edit[e].old)
        PROVE  RefInv'
    <2>1. \A j \in Signing!Ids : cert[j].ref # f
      BY <1>0, <1>7 DEF Signing!Undo, Signing!Clean, EditKnows
    <2>2. stored' = stored \ {f} /\ UNCHANGED <<cert, puts>> /\ edit'[e].pc \in {"idle", "drop"}
      BY <1>0, <1>7, SigningNothing DEF Signing!Undo, Signing!Clean, Signing!Replaced, EditType
    <2>3. Signing!RefStored' /\ EditKnows(e)'
      BY <1>0, <2>1, <2>2 DEF RefInv, Signing!RefStored, EditKnows
    <2> QED
      BY <2>2, <2>3, OthersIdle DEF RefInv
  <1>8. CASE Signing!Invalidate(e) \/ Signing!EditDies(e)
    <2>1. edit'[e].pc = "idle" /\ UNCHANGED <<cert, stored, puts>>
      BY <1>0, <1>8, SigningNothing DEF Signing!Invalidate, Signing!EditDies
    <2>2. EditKnows(e)'
      BY <2>1 DEF EditKnows
    <2> QED
      BY <2>1, <2>2, RefKept
  <1>9. CASE Signing!Undo(e)
    <2>1. Signing!Undo(e) /\ edit[e].new = edit[e].new
      BY <1>9
    <2> QED
      BY <1>7, <2>1, Zenon
  <1>10. CASE Signing!Clean(e)
    <2>1. Signing!Clean(e) /\ edit[e].old = edit[e].old
      BY <1>10
    <2> QED
      BY <1>7, <2>1, Zenon
  <1> QED
    BY <1>1, <1>2, <1>3, <1>4, <1>5, <1>6, <1>8, <1>9, <1>10

\* With one editor a row's file is in the store, wherever an edit dies.
LEMMA RefStep ==
    ASSUME RefInv, [Signing!Next]_(Signing!cvars), OneEditor
    PROVE  RefInv'
  <1>0. /\ SigningInv' /\ cert \in [Signing!Ids -> RowType] /\ DOMAIN cert' = Signing!Ids
        /\ edit \in [Editors -> EditType] /\ Editor \in Editors
    BY SigningStep, SigningTypes, OperationsAssumption DEF RefInv, SigningInv, Signing!TypeOK
  <1>1. ASSUME NEW e \in Editors,
               \/ \E p \in Processes :
                     Signing!Create(e, p) \/ Signing!Update(e, p) \/ Signing!Delete(e, p)
               \/ Signing!Put(e) \/ Signing!Save(e) \/ Signing!SaveFails(e) \/ Signing!Undo(e)
               \/ Signing!Clean(e) \/ Signing!Invalidate(e) \/ Signing!EditDies(e)
        PROVE  RefInv'
    <2>1. CASE e = Editor
      BY <1>0, <1>1, <2>1, RefEdit
    <2>2. CASE e # Editor
      <3>1. edit[e].pc = "idle" /\ edit'[e].pc = "idle"
        BY <2>2 DEF RefInv, OneEditor
      <3>2. PICK p \in Processes :
               Signing!Create(e, p) \/ Signing!Update(e, p) \/ Signing!Delete(e, p)
        BY <1>1, <3>1 DEF Signing!Put, Signing!Save, Signing!SaveFails, Signing!Undo,
                          Signing!Clean, Signing!Invalidate, Signing!EditDies
      <3>3. edit'[e].pc \in {"put", "save", "drop"}
        <4>1. CASE Signing!Create(e, p)
          BY <1>0, <4>1 DEF Signing!Create, Signing!NoEdit
        <4>2. CASE Signing!Update(e, p)
          <5>1. PICK id \in Signing!Ids, pc \in {"put", "save"} :
                   edit' = [edit EXCEPT ![e] =
                      [Signing!NoEdit EXCEPT !.pc = pc, !.at = p, !.id = id,
                                             !.status = cert[id].status, !.ref = cert[id].ref,
                                             !.old = cert[id].ref]]
            BY <4>2 DEF Signing!Update
          <5> QED
            BY <1>0, <5>1 DEF Signing!NoEdit
        <4>3. CASE Signing!Delete(e, p)
          BY <1>0, <4>3 DEF Signing!Delete, Signing!NoEdit
        <4> QED
          BY <3>2, <4>1, <4>2, <4>3
      <3> QED
        BY <3>1, <3>3
    <2> QED
      BY <2>1, <2>2
  <1>2. ASSUME UNCHANGED <<stored, puts, edit>>, \A j \in Signing!Ids : cert'[j].ref = cert[j].ref
        PROVE  RefInv'
    <2>1. EditKnows(Editor)'
      BY <1>0, <1>2 DEF RefInv, EditKnows
    <2> QED
      BY <1>0, <1>2, <2>1, RefKept
  <1>3. CASE Signing!MarkCertificateExpired
    BY <1>0, <1>2, <1>3 DEF Signing!MarkCertificateExpired, RowType
  <1>4. CASE \E p \in Processes :
                Signing!GetForCompany(p) \/ Signing!BuildFails(p) \/ Signing!ProviderStep(p)
    BY <1>2, <1>4 DEF Signing!GetForCompany, Signing!BuildFails, Signing!ProviderStep,
                      Signing!LoadP12, Signing!StoreClient, Signing!Expire
  <1>5. CASE UNCHANGED Signing!cvars
    BY <1>2, <1>5 DEF Signing!cvars
  <1> QED
    BY <1>1, <1>3, <1>4, <1>5 DEF Signing!Next

\* And where nothing happens to the certificates.
LEMMA RefStay == RefInv /\ UNCHANGED Signing!cvars => RefInv'
  <1> SUFFICES ASSUME RefInv, UNCHANGED Signing!cvars PROVE RefInv'
    OBVIOUS
  <1>1. SigningInv'
    BY SigningStep DEF RefInv
  <1> QED
    BY <1>1 DEF RefInv, Signing!RefStored, EditKnows, Signing!cvars, Signing!Ids

-----------------------------------------------------------------------------
(* CertificateAlerts: one alert per threshold.                              *)

\* The variables, as far as the argument needs them.
ShapeOK ==
    /\ stage \in 0..4 /\ late \in Nat
    /\ note \in [Alerts!Thresholds -> [status : {"none", "PENDING", "SENT", "FAILED"}, old : BOOLEAN]]
    /\ check \in [Replicas -> [pc : {"idle", "expire", "claim", "notify", "sent", "failed"},
                               at : 0..4]]
    /\ sent \in [Alerts!Thresholds -> Nat]
    /\ \A r \in Replicas : check[r].pc \in {"claim", "notify", "sent", "failed"} =>
          check[r].at \in Alerts!Thresholds

\* The replica that holds the claim of a threshold, and one whose alert is out.
Alerting(r, t) == check[r].pc \in {"notify", "sent", "failed"} /\ check[r].at = t
Told(r, t) == check[r].pc = "sent" /\ check[r].at = t

\* A claim is held by one replica, and is fresh while it works.
ClaimHeld ==
    \A t \in Alerts!Thresholds : \A r \in Replicas : Alerting(r, t) =>
        /\ note[t].status = "PENDING" /\ ~note[t].old
        /\ \A s \in Replicas : Alerting(s, t) => s = r

\* The alert of a threshold is paid for by its row, its replica, or a fault.
Paid ==
    \A t \in Alerts!Thresholds :
        /\ sent[t] <= 1 + late
        /\ note[t].status = "SENT" \/ (\E r \in Replicas : Told(r, t)) => sent[t] >= 1
        /\ note[t].status # "SENT" /\ (\A r \in Replicas : ~Told(r, t)) => sent[t] <= late

AlertInv == ShapeOK /\ ClaimHeld /\ Paid

\* Initially nothing was alerted.
LEMMA AlertInit == Alerts!Init => AlertInv
  BY DEF Alerts!Init, AlertInv, ShapeOK, ClaimHeld, Paid, Alerting, Told, Alerts!NoNote,
         Alerts!NoCheck, Alerts!Thresholds

\* The numbers of the thresholds and of the stages.
LEMMA ThresholdNumbers == Alerts!Thresholds = {1, 2, 3} /\ 0..4 = {0, 1, 2, 3, 4}
  BY DEF Alerts!Thresholds

\* A replica's run moves on without holding a claim before or after.
LEMMA IdleMove ==
    ASSUME AlertInv, NEW r \in Replicas,
           NEW a \in [pc : {"idle", "expire", "claim"}, at : 0..4],
           a.pc = "claim" => a.at \in Alerts!Thresholds,
           check' = [check EXCEPT ![r] = a], check[r].pc \in {"idle", "expire", "claim"},
           UNCHANGED <<stage, note, sent, late>>
    PROVE  AlertInv'
  <1>1. \A s \in Replicas : check'[s] = IF s = r THEN a ELSE check[s]
    BY DEF AlertInv, ShapeOK
  <1>2. \A s \in Replicas, t \in Alerts!Thresholds :
           /\ Alerting(s, t)' <=> Alerting(s, t)
           /\ Told(s, t)' <=> Told(s, t)
    BY <1>1 DEF Alerting, Told
  <1>3. ShapeOK'
    BY <1>1 DEF AlertInv, ShapeOK
  <1>4. ClaimHeld'
    BY <1>2 DEF AlertInv, ClaimHeld
  <1>5. Paid'
    BY <1>2 DEF AlertInv, Paid
  <1> QED
    BY <1>3, <1>4, <1>5 DEF AlertInv

\* A claim is given only when nobody works on the threshold.
LEMMA ClaimStep ==
    ASSUME AlertInv, NEW r \in Replicas, Alerts!Claim(r)
    PROVE  AlertInv'
  <1> DEFINE t == check[r].at
  <1>0. t \in Alerts!Thresholds /\ check[r].pc = "claim"
    BY DEF Alerts!Claim, AlertInv, ShapeOK
  <1>1. CASE ~Alerts!Claimable(t)
    <2>1. /\ check' = [check EXCEPT ![r] = Alerts!NoCheck]
          /\ UNCHANGED <<stage, note, sent, late>>
      BY <1>1 DEF Alerts!Claim, Alerts!Ends
    <2>2. Alerts!NoCheck \in [pc : {"idle", "expire", "claim"}, at : 0..4] /\ Alerts!NoCheck.pc = "idle"
      BY DEF Alerts!NoCheck
    <2> QED
      BY <1>0, <2>1, <2>2, IdleMove
  <1>2. CASE Alerts!Claimable(t)
    <2>1. /\ note' = [note EXCEPT ![t] = [status |-> "PENDING", old |-> FALSE]]
          /\ check' = [check EXCEPT ![r].pc = "notify"]
          /\ UNCHANGED <<stage, sent, late>>
      BY <1>2 DEF Alerts!Claim
    <2>2. (\A s \in Replicas : ~Alerting(s, t)) /\ note[t].status # "SENT"
      BY <1>0, <1>2 DEF Alerts!Claimable, AlertInv, ClaimHeld
    <2>3. \A s \in Replicas, u \in Alerts!Thresholds :
             /\ Alerting(s, u)' <=> Alerting(s, u) \/ (s = r /\ u = t)
             /\ Told(s, u)' <=> Told(s, u)
      BY <1>0, <2>1 DEF Alerting, Told, AlertInv, ShapeOK
    <2>4. \A u \in Alerts!Thresholds :
             note'[u] = IF u = t THEN [status |-> "PENDING", old |-> FALSE] ELSE note[u]
      BY <2>1 DEF AlertInv, ShapeOK
    <2>5. ShapeOK'
      BY <1>0, <2>1 DEF AlertInv, ShapeOK
    <2> HIDE DEF t
    <2>6. ClaimHeld'
      BY <2>2, <2>3, <2>4 DEF AlertInv, ClaimHeld
    <2>7. Paid'
      BY <2>1, <2>2, <2>3, <2>4 DEF AlertInv, Paid
    <2> QED
      BY <2>5, <2>6, <2>7 DEF AlertInv
  <1> QED
    BY <1>1, <1>2

\* The webhook takes the alert, or a fault is spent.
LEMMA NotifyStep ==
    ASSUME AlertInv, NEW r \in Replicas, Alerts!Notify(r)
    PROVE  AlertInv'
  <1> DEFINE t == check[r].at
  <1>0. t \in Alerts!Thresholds /\ check[r].pc = "notify" /\ Alerting(r, t)
    BY DEF Alerts!Notify, AlertInv, ShapeOK, Alerting
  <1>1. PICK pc \in {"sent", "failed"} :
           /\ check' = [check EXCEPT ![r].pc = pc]
           /\ UNCHANGED <<stage, note>>
           /\ \/ pc = "sent" /\ sent' = [sent EXCEPT ![t] = sent[t] + 1] /\ late' = late
              \/ /\ pc = "failed" /\ late' = late + 1
                 /\ sent' = [sent EXCEPT ![t] = sent[t] + 1] \/ sent' = sent
    BY DEF Alerts!Notify, Alerts!Fault
  <1>2. ShapeOK'
    BY <1>0, <1>1 DEF AlertInv, ShapeOK
  <1>3. \A s \in Replicas, u \in Alerts!Thresholds :
           /\ Alerting(s, u)' <=> Alerting(s, u)
           /\ Told(s, u)' <=> Told(s, u) \/ (s = r /\ u = t /\ pc = "sent")
    BY <1>0, <1>1 DEF Alerting, Told, AlertInv, ShapeOK
  <1>4. \A s \in Replicas : ~Told(s, t)
    BY <1>0 DEF AlertInv, ClaimHeld, Alerting, Told
  <1>5. note[t].status # "SENT"
    BY <1>0 DEF AlertInv, ClaimHeld
  <1>6. late \in Nat /\ late' \in Nat /\ \A u \in Alerts!Thresholds : sent[u] \in Nat /\ sent'[u] \in Nat
    BY <1>2 DEF AlertInv, ShapeOK
  <1>7. /\ late <= late' /\ late' <= late + 1
        /\ \A u \in Alerts!Thresholds : u # t => sent'[u] = sent[u]
        /\ pc = "sent" => sent'[t] = sent[t] + 1 /\ late' = late
        /\ pc = "failed" => sent'[t] <= sent[t] + 1 /\ sent'[t] >= sent[t] /\ late' = late + 1
    BY <1>0, <1>1, <1>6 DEF AlertInv, ShapeOK
  <1>8. ClaimHeld'
    BY <1>1, <1>3 DEF AlertInv, ClaimHeld
  <1> HIDE DEF t
  <1>9. Paid'
    <2>1. sent[t] <= late
      BY <1>0, <1>4, <1>5 DEF AlertInv, Paid
    <2>2. ASSUME NEW u \in Alerts!Thresholds
          PROVE  /\ sent'[u] <= 1 + late'
                 /\ note'[u].status = "SENT" \/ (\E s \in Replicas : Told(s, u)') => sent'[u] >= 1
                 /\ note'[u].status # "SENT" /\ (\A s \in Replicas : ~Told(s, u)') => sent'[u] <= late'
      <3>1. note'[u] = note[u]
        BY <1>1
      <3>2. CASE u # t
        BY <1>3, <1>6, <1>7, <3>1, <3>2 DEF AlertInv, Paid
      <3>3. CASE u = t /\ pc = "sent"
        BY <1>0, <1>3, <1>5, <1>6, <1>7, <2>1, <3>1, <3>3
      <3>4. CASE u = t /\ pc = "failed"
        BY <1>3, <1>4, <1>5, <1>6, <1>7, <2>1, <3>1, <3>4
      <3> QED
        BY <3>2, <3>3, <3>4
    <2> QED
      BY <2>2 DEF Paid
  <1> QED
    BY <1>2, <1>8, <1>9 DEF AlertInv

\* The mark ends the run that holds the claim.
LEMMA MarkStep ==
    ASSUME AlertInv, NEW r \in Replicas, Alerts!Mark(r)
    PROVE  AlertInv'
  <1> DEFINE t == check[r].at
  <1>0. t \in Alerts!Thresholds /\ check[r].pc \in {"sent", "failed"} /\ Alerting(r, t)
    BY DEF Alerts!Mark, AlertInv, ShapeOK, Alerting
  <1>1. PICK s \in {"SENT", "FAILED"} :
           /\ s = "SENT" <=> check[r].pc = "sent"
           /\ note' = [note EXCEPT ![t].status = s]
           /\ check' = [check EXCEPT ![r] = Alerts!NoCheck]
           /\ UNCHANGED <<stage, sent, late>>
    BY <1>0 DEF Alerts!Mark, Alerts!Ends
  <1>2. ShapeOK'
    BY <1>0, <1>1 DEF AlertInv, ShapeOK, Alerts!NoCheck
  <1>3. \A q \in Replicas, u \in Alerts!Thresholds :
           /\ Alerting(q, u)' <=> Alerting(q, u) /\ q # r
           /\ Told(q, u)' <=> Told(q, u) /\ q # r
    BY <1>0, <1>1 DEF Alerting, Told, AlertInv, ShapeOK, Alerts!NoCheck
  <1>9. \A q \in Replicas, u \in Alerts!Thresholds :
           /\ Told(q, u) => Alerting(q, u)
           /\ Told(r, u) <=> check[r].pc = "sent" /\ u = t
    BY DEF Alerting, Told
  <1>10. /\ \A q \in Replicas : Alerting(q, t) => q = r
         /\ note[t].status = "PENDING"
    BY <1>0 DEF AlertInv, ClaimHeld
  <1>4. \A u \in Alerts!Thresholds :
           /\ u # t => ~Told(r, u)
           /\ u = t => \A q \in Replicas : ~Told(q, u)'
    BY <1>0, <1>3, <1>9, <1>10
  <1>5. /\ \A u \in Alerts!Thresholds : u # t => note'[u] = note[u]
        /\ note'[t].status = s
    BY <1>0, <1>1 DEF AlertInv, ShapeOK
  <1> HIDE DEF t
  <1>6. ClaimHeld'
    BY <1>3, <1>5, <1>10 DEF AlertInv, ClaimHeld
  <1>7. Paid'
    <2>1. ASSUME NEW u \in Alerts!Thresholds
          PROVE  /\ sent'[u] <= 1 + late'
                 /\ note'[u].status = "SENT" \/ (\E q \in Replicas : Told(q, u)') => sent'[u] >= 1
                 /\ note'[u].status # "SENT" /\ (\A q \in Replicas : ~Told(q, u)') => sent'[u] <= late'
      <3>1. CASE u # t
        <4>1. \A q \in Replicas : Told(q, u)' <=> Told(q, u)
          BY <1>3, <1>4, <3>1
        <4> QED
          BY <1>1, <1>5, <3>1, <4>1 DEF AlertInv, Paid
      <3>2. CASE u = t
        <4>1. /\ sent[u] <= 1 + late
              /\ check[r].pc = "sent" => sent[u] >= 1
              /\ check[r].pc # "sent" => sent[u] <= late
          <5>1. check[r].pc # "sent" => \A q \in Replicas : ~Told(q, u)
            BY <1>9, <1>10, <3>2
          <5>2. check[r].pc = "sent" => Told(r, u)
            BY <1>9, <3>2
          <5>3. note[u].status # "SENT"
            BY <1>10, <3>2
          <5> QED
            BY <5>1, <5>2, <5>3 DEF AlertInv, Paid
        <4> QED
          BY <1>1, <1>4, <1>5, <3>2, <4>1
      <3> QED
        BY <3>1, <3>2
    <2> QED
      BY <2>1 DEF Paid
  <1> QED
    BY <1>2, <1>6, <1>7 DEF AlertInv

\* A run that is cut off spends a fault, which pays for its alert.
LEMMA CutOffStep ==
    ASSUME AlertInv, NEW r \in Replicas, Alerts!CutOff(r)
    PROVE  AlertInv'
  <1>1. /\ check' = [check EXCEPT ![r] = Alerts!NoCheck] /\ late' = late + 1
        /\ UNCHANGED <<stage, note, sent>>
    BY DEF Alerts!CutOff, Alerts!Fault, Alerts!Ends
  <1>2. ShapeOK'
    BY <1>1 DEF AlertInv, ShapeOK, Alerts!NoCheck
  <1>3. \A q \in Replicas, u \in Alerts!Thresholds :
           /\ Alerting(q, u)' <=> Alerting(q, u) /\ q # r
           /\ Told(q, u)' <=> Told(q, u) /\ q # r
    BY <1>1 DEF Alerting, Told, AlertInv, ShapeOK, Alerts!NoCheck
  <1>4. ClaimHeld'
    BY <1>1, <1>3 DEF AlertInv, ClaimHeld
  <1>5. Paid'
    BY <1>1, <1>3 DEF AlertInv, Paid, ShapeOK
  <1> QED
    BY <1>2, <1>4, <1>5 DEF AlertInv

\* A claim ages only when nobody works on it.
LEMMA AgeStep ==
    ASSUME AlertInv, NEW t \in Alerts!Thresholds, Alerts!Age(t)
    PROVE  AlertInv'
  <1>1. /\ note' = [note EXCEPT ![t].old = TRUE]
        /\ UNCHANGED <<stage, check, sent, late>>
        /\ \A r \in Replicas : ~Alerting(r, t)
    BY DEF Alerts!Age, Alerting
  <1>2. ShapeOK'
    BY <1>1 DEF AlertInv, ShapeOK
  <1>3. \A q \in Replicas, u \in Alerts!Thresholds :
           /\ Alerting(q, u)' <=> Alerting(q, u)
           /\ Told(q, u)' <=> Told(q, u)
    BY <1>1 DEF Alerting, Told
  <1>4. \A u \in Alerts!Thresholds : note'[u].status = note[u].status /\ (u # t => note'[u] = note[u])
    BY <1>1 DEF AlertInv, ShapeOK
  <1>5. ClaimHeld'
    BY <1>1, <1>3, <1>4 DEF AlertInv, ClaimHeld
  <1>6. Paid'
    BY <1>1, <1>3, <1>4 DEF AlertInv, Paid
  <1> QED
    BY <1>2, <1>5, <1>6 DEF AlertInv

\* The invariant is inductive.
LEMMA AlertStep ==
    AlertInv /\ [Alerts!Next]_(Alerts!avars) => AlertInv'
  <1> SUFFICES ASSUME AlertInv, [Alerts!Next]_(Alerts!avars) PROVE AlertInv'
    OBVIOUS
  <1>1. CASE Alerts!Approach
    <2>1. stage' \in 0..4 /\ UNCHANGED <<note, check, sent, late>>
      BY <1>1, AlertingAssumption
         DEF Alerts!Approach, Alerts!AlertsAssumption, AlertInv, ShapeOK
    <2> QED
      BY <2>1 DEF AlertInv, ShapeOK, ClaimHeld, Paid, Alerting, Told
  <1>2. ASSUME NEW r \in Replicas, Alerts!ListDue(r) \/ Alerts!MarkExpired(r)
        PROVE  AlertInv'
    <2>1. CASE Alerts!ListDue(r)
      <3> DEFINE a == [pc |-> IF stage = 4 THEN "expire" ELSE "claim", at |-> stage]
      <3>1. /\ a \in [pc : {"idle", "expire", "claim"}, at : 0..4]
            /\ a.pc = "claim" => a.at \in Alerts!Thresholds
        BY <2>1, ThresholdNumbers DEF Alerts!ListDue, AlertInv, ShapeOK
      <3>2. /\ check' = [check EXCEPT ![r] = a] /\ check[r].pc = "idle"
            /\ UNCHANGED <<stage, note, sent, late>>
        BY <2>1 DEF Alerts!ListDue
      <3> HIDE DEF a
      <3> QED
        BY <3>1, <3>2, IdleMove
    <2>2. CASE Alerts!MarkExpired(r)
      <3>1. Alerts!NoCheck \in [pc : {"idle", "expire", "claim"}, at : 0..4] /\ Alerts!NoCheck.pc = "idle"
        BY DEF Alerts!NoCheck
      <3> QED
        BY <2>2, <3>1, IdleMove DEF Alerts!MarkExpired, Alerts!Ends
    <2> QED
      BY <1>2, <2>1, <2>2
  <1>3. ASSUME NEW r \in Replicas, Alerts!Claim(r) \/ Alerts!Notify(r) \/ Alerts!Mark(r) \/ Alerts!CutOff(r)
        PROVE  AlertInv'
    BY <1>3, ClaimStep, NotifyStep, MarkStep, CutOffStep
  <1>4. ASSUME NEW t \in Alerts!Thresholds, Alerts!Age(t)
        PROVE  AlertInv'
    BY <1>4, AgeStep
  <1>5. CASE UNCHANGED Alerts!avars
    BY <1>5 DEF Alerts!avars, AlertInv, ShapeOK, ClaimHeld, Paid, Alerting, Told
  <1> QED
    BY <1>1, <1>2, <1>3, <1>4, <1>5 DEF Alerts!Next, Alerts!RunCertificateCheck

\* The bounds of the stages and of the faults.
AlertTypes ==
    /\ stage \in 0..MaxStage /\ status \in {"ACTIVE", "EXPIRED"} /\ late \in 0..MaxFaults
    /\ \A r \in Replicas : check[r].at \in 0..MaxStage

\* They hold at the start.
LEMMA AlertTypesInit == Alerts!Init => AlertTypes
  BY AlertingAssumption
     DEF Alerts!Init, AlertTypes, Alerts!NoCheck, Alerts!AlertsAssumption

\* Every step keeps them.
LEMMA AlertTypesStep == AlertInv /\ AlertTypes /\ [Alerts!Next]_(Alerts!avars) => AlertTypes'
  <1> SUFFICES ASSUME AlertInv, AlertTypes, [Alerts!Next]_(Alerts!avars) PROVE AlertTypes'
    OBVIOUS
  <1>0. /\ check \in [Replicas -> [pc : {"idle", "expire", "claim", "notify", "sent", "failed"},
                                   at : 0..4]]
        /\ MaxStage \in Nat /\ MaxFaults \in Nat /\ Alerts!NoCheck.at = 0
    BY AlertingAssumption DEF AlertInv, ShapeOK, Alerts!AlertsAssumption, Alerts!NoCheck
  <1>1. CASE Alerts!Approach
    BY <1>0, <1>1 DEF Alerts!Approach, AlertTypes
  <1>2. ASSUME NEW t \in Alerts!Thresholds, Alerts!Age(t)
        PROVE  AlertTypes'
    BY <1>2 DEF Alerts!Age, AlertTypes
  <1>3. ASSUME NEW r \in Replicas, Alerts!RunCertificateCheck(r) \/ Alerts!CutOff(r)
        PROVE  AlertTypes'
    <2>1. late' \in 0..MaxFaults /\ stage' = stage /\ status' \in {"ACTIVE", "EXPIRED"}
      BY <1>0, <1>3
         DEF Alerts!RunCertificateCheck, Alerts!CutOff, Alerts!ListDue, Alerts!MarkExpired,
             Alerts!Claim, Alerts!Notify, Alerts!Mark, Alerts!Fault, AlertTypes
    <2>2. \A s \in Replicas \ {r} : check'[s] = check[s]
      BY <1>0, <1>3
         DEF Alerts!RunCertificateCheck, Alerts!CutOff, Alerts!ListDue, Alerts!MarkExpired,
             Alerts!Claim, Alerts!Notify, Alerts!Mark, Alerts!Ends
    <2>3. check'[r].at \in {0, stage, check[r].at}
      <3>1. CASE Alerts!ListDue(r)
        BY <1>0, <3>1 DEF Alerts!ListDue
      <3>2. CASE Alerts!Claim(r)
        BY <1>0, <3>2 DEF Alerts!Claim, Alerts!Ends
      <3>3. CASE Alerts!Notify(r)
        BY <1>0, <3>3 DEF Alerts!Notify
      <3>4. CASE Alerts!MarkExpired(r) \/ Alerts!Mark(r) \/ Alerts!CutOff(r)
        BY <1>0, <3>4 DEF Alerts!MarkExpired, Alerts!Mark, Alerts!CutOff, Alerts!Ends
      <3> QED
        BY <1>3, <3>1, <3>2, <3>3, <3>4 DEF Alerts!RunCertificateCheck
    <2> QED
      BY <1>0, <2>1, <2>2, <2>3 DEF AlertTypes
  <1>4. CASE UNCHANGED Alerts!avars
    BY <1>4 DEF Alerts!avars, AlertTypes
  <1> QED
    BY <1>1, <1>2, <1>3, <1>4 DEF Alerts!Next

\* With the invariant of the alerts they give the types.
LEMMA AlertsTyped == AlertInv /\ AlertTypes => Alerts!TypeOK
  <1> SUFFICES ASSUME AlertInv, AlertTypes PROVE Alerts!TypeOK
    OBVIOUS
  <1>1. MaxFaults \in Nat
    BY AlertingAssumption DEF Alerts!AlertsAssumption
  <1>2. sent \in [Alerts!Thresholds -> 0..MaxFaults + 1]
    BY <1>1 DEF AlertInv, ShapeOK, Paid, AlertTypes
  <1>3. check \in [Replicas -> [pc : {"idle", "expire", "claim", "notify", "sent", "failed"},
                                at : 0..MaxStage]]
    BY DEF AlertInv, ShapeOK, AlertTypes
  <1> QED
    BY <1>2, <1>3 DEF Alerts!TypeOK, AlertInv, ShapeOK, AlertTypes

-----------------------------------------------------------------------------
(* CatalogSync: readiness. *)

SyncType == [pc : {"idle", "ask", "rows", "state"}, at : {Point} \cup {0}, left : Seq(Download!Ops),
             answer : {"none", "rows", "empty", "error"}, all : BOOLEAN]

\* A running download is of a point of sale with a CUIS; past its call it holds an
\* answer of its operation, and past the rows, an answer with rows was stored.
SyncKnows(s) ==
    /\ sync[s].pc # "idle" => sync[s].at \in {Point} /\ cuis[sync[s].at] /\ sync[s].left # << >>
    /\ sync[s].pc \in {"rows", "state"} => sync[s].answer \in Download!Answers(Download!Op(s))
    /\ sync[s].pc = "rows" => sync[s].answer # "error"
    /\ sync[s].pc = "state" /\ Download!Op(s) \in Download!Critical /\ sync[s].answer = "rows" =>
          catalog[Download!Op(s)].ever

ReadyInv ==
    /\ Download!TypeOK /\ sync \in [Syncs -> SyncType]
    /\ \A s \in Syncs : SyncKnows(s)
    /\ \A p \in {Point}, op \in Download!Critical :
          state[p][op].status = "SUCCESS" => cuis[p] /\ catalog[op].ever

\* No download.
LEMMA NoSyncType == Download!NoSync \in SyncType /\ Download!NoSync.pc = "idle"
  BY DEF Download!NoSync, SyncType

\* The operations of a download are operations.
LEMMA OrderOfOps ==
    /\ Order \in Seq(Download!Ops) /\ Order # << >>
    /\ \A op \in Download!Ops : <<op>> \in Seq(Download!Ops)
  <1>1. /\ Order \in Seq({"actividades", "productosServicios", "tipoHabitacion", "fechaHora"})
        /\ Order # << >>
    BY DownloadAssumption DEF Download!CatalogAssumption
  <1>2. /\ DOMAIN Order = 1..Len(Order) /\ Len(Order) \in Nat
        /\ \A k \in DOMAIN Order : Order[k] \in Download!Ops
    BY <1>1 DEF Download!Ops
  <1>3. Order \in [1..Len(Order) -> Download!Ops]
    BY <1>1, <1>2
  <1> QED
    BY <1>1, <1>2, <1>3, SeqDef

\* Initially nothing was downloaded.
LEMMA ReadyInit == Download!Init => ReadyInv
  <1> SUFFICES ASSUME Download!Init PROVE ReadyInv
    OBVIOUS
  <1>1. sync \in [Syncs -> SyncType] /\ \A s \in Syncs : sync[s].pc = "idle"
    BY NoSyncType DEF Download!Init
  <1>2. catalog \in [Download!Ops -> [now : {"rows", "empty"}, ever : BOOLEAN]]
        /\ cuis \in [{Point} -> BOOLEAN] /\ lapses \in 0..MaxFaults
    BY DownloadAssumption DEF Download!CatalogAssumption, Download!Init
  <1>3. Download!NoState \in [status : {"none", "SUCCESS", "EMPTY", "FAILED"}, fresh : BOOLEAN]
        /\ Download!NoState.status = "none"
    BY DEF Download!NoState
  <1>4. state \in [{Point} -> [Download!Ops -> [status : {"none", "SUCCESS", "EMPTY", "FAILED"},
                                     fresh : BOOLEAN]]]
    BY <1>3 DEF Download!Init
  <1>5. \A p \in {Point}, op \in Download!Critical : state[p][op].status = "none"
    BY <1>3 DEF Download!Init, Download!Critical
  <1> QED
    BY <1>1, <1>2, <1>4, <1>5 DEF ReadyInv, Download!TypeOK, SyncKnows

\* A step that changes one download, and no row or state.
LEMMA SyncMoves ==
    ASSUME ReadyInv, NEW s \in Syncs, NEW a \in SyncType, sync' = [sync EXCEPT ![s] = a],
           UNCHANGED <<catalog, state, cuis>>, lapses' \in 0..MaxFaults,
           SyncKnows(s)'
    PROVE  ReadyInv'
  <1>1. sync' \in [Syncs -> SyncType] /\ \A t \in Syncs : t # s => sync'[t] = sync[t]
    BY DEF ReadyInv
  <1>2. Download!TypeOK'
    BY DEF ReadyInv, Download!TypeOK
  <1>3. \A t \in Syncs : SyncKnows(t)'
    BY <1>1 DEF ReadyInv, SyncKnows, Download!Op
  <1> QED
    BY <1>1, <1>2, <1>3 DEF ReadyInv

\* A lapse is counted.
LEMMA LapseCounts == ReadyInv /\ Download!Lapse => lapses' \in 0..MaxFaults /\ lapses' # 0
  BY DownloadAssumption
     DEF ReadyInv, Download!TypeOK, Download!Lapse, Download!CatalogAssumption

\* Where a download goes on.
LEMMA AdvanceTo ==
    ASSUME ReadyInv, NEW s \in Syncs, sync[s].pc # "idle", Download!Advance(s)
    PROVE  \E a \in SyncType :
              /\ sync' = [sync EXCEPT ![s] = a]
              /\ a.pc \in {"idle", "ask"}
              /\ a.pc # "idle" => a.at = sync[s].at /\ a.left # << >>
  <1>1. sync[s] \in SyncType
    BY DEF ReadyInv
  <1>2. CASE Len(sync[s].left) > 1
    <2>1. PICK rest : rest = Tail(sync[s].left)
      OBVIOUS
    <2>2. rest \in Seq(Download!Ops) /\ rest # << >>
      <3>1. sync[s].left \in Seq(Download!Ops) /\ sync[s].left # << >>
        BY <1>1, <1>2 DEF SyncType
      <3>2. Tail(sync[s].left) \in Seq(Download!Ops) /\ Len(Tail(sync[s].left)) = Len(sync[s].left) - 1
        BY <3>1, HeadTailProperties
      <3>3. Len(rest) # 0
        BY <1>2, <2>1, <3>1, <3>2
      <3> QED
        BY <2>1, <3>2, <3>3, EmptySeq
    <2>3. PICK a : a = [sync[s] EXCEPT !.pc = "ask", !.left = rest]
      OBVIOUS
    <2>4. a \in SyncType /\ a.pc = "ask" /\ a.at = sync[s].at /\ a.left = rest
      BY <1>1, <2>2, <2>3 DEF SyncType
    <2>5. sync' = [sync EXCEPT ![s] = a]
      <3>1. PICK v : v = IF Len(sync[s].left) > 1
                         THEN [sync[s] EXCEPT !.pc = "ask", !.left = Tail(sync[s].left)]
                         ELSE Download!NoSync
        OBVIOUS
      <3>2. sync' = [sync EXCEPT ![s] = v]
        BY <3>1, Zenon DEF Download!Advance
      <3>3. v = a
        BY <1>2, <2>1, <2>3, <3>1
      <3> QED
        BY <3>2, <3>3
    <2> QED
      BY <2>2, <2>4, <2>5
  <1>3. CASE ~(Len(sync[s].left) > 1)
    BY <1>3, NoSyncType DEF Download!Advance
  <1> QED
    BY <1>2, <1>3

\* A download begins, and is answered.
LEMMA ReadyBegins ==
    ASSUME ReadyInv, NEW s \in Syncs,
           Download!Synchronize(s) \/ \E p \in {Point} : Download!Sincronizar(s, p)
    PROVE  ReadyInv'
  <1>0. sync[s] \in SyncType /\ sync \in [Syncs -> SyncType] /\ lapses \in 0..MaxFaults
    BY DEF ReadyInv, Download!TypeOK
  <1>1. CASE Download!Synchronize(s)
    <2>1. PICK answer \in Download!Answers(Download!Op(s)), pc \in {"state", "rows"} :
             /\ sync' = [sync EXCEPT ![s].answer = answer, ![s].pc = pc]
             /\ answer = "error" <=> pc = "state"
             /\ sync[s].pc = "ask" /\ UNCHANGED <<catalog, state, cuis, lapses>>
      BY <1>1 DEF Download!Synchronize
    <2>2. answer \in {"none", "rows", "empty", "error"}
      BY DEF Download!Answers, Download!ParametricAnswers, Download!ListAnswers,
             Download!ServiceAnswers
    <2>3. PICK a : a = [sync[s] EXCEPT !.answer = answer, !.pc = pc]
      OBVIOUS
    <2>4. /\ a \in SyncType /\ a.pc = pc /\ a.answer = answer /\ a.left = sync[s].left
          /\ a.at = sync[s].at
      BY <1>0, <2>2, <2>3 DEF SyncType
    <2>5. sync' = [sync EXCEPT ![s] = a] /\ sync'[s] = a
      BY <1>0, <2>1, <2>3
    <2>6. SyncKnows(s)'
      BY <2>1, <2>4, <2>5 DEF ReadyInv, SyncKnows, Download!Op
    <2> QED
      BY <1>0, <2>1, <2>4, <2>5, <2>6, SyncMoves
  <1>2. ASSUME NEW p \in {Point}, Download!Sincronizar(s, p) PROVE ReadyInv'
    <2>1. PICK left \in Seq(Download!Ops), all \in BOOLEAN :
             /\ sync' = [sync EXCEPT ![s] = [pc |-> "ask", at |-> p, left |-> left,
                                             answer |-> "none", all |-> all]]
             /\ left # << >>
      <3>1. CASE sync' = [sync EXCEPT ![s] = [pc |-> "ask", at |-> p, left |-> Order,
                                              answer |-> "none", all |-> TRUE]]
        BY <3>1, OrderOfOps
      <3>2. ASSUME NEW op \in Download!Ops,
                   sync' = [sync EXCEPT ![s] = [pc |-> "ask", at |-> p, left |-> <<op>>,
                                                answer |-> "none", all |-> FALSE]]
            PROVE  \E left \in Seq(Download!Ops), all \in BOOLEAN :
             /\ sync' = [sync EXCEPT ![s] = [pc |-> "ask", at |-> p, left |-> left,
                                             answer |-> "none", all |-> all]]
             /\ left # << >>
        <4>1. <<op>> \in Seq(Download!Ops) /\ <<op>> # << >>
          OBVIOUS
        <4> QED
          BY <3>2, <4>1
      <3> QED
        BY <1>2, <3>1, <3>2 DEF Download!Sincronizar
    <2>2. PICK a : a = [pc |-> "ask", at |-> p, left |-> left, answer |-> "none", all |-> all]
      OBVIOUS
    <2>3. a \in SyncType /\ a.pc = "ask" /\ a.at = p /\ a.left = left
      BY <2>2 DEF SyncType
    <2>4. sync' = [sync EXCEPT ![s] = a] /\ sync'[s] = a
      BY <1>0, <2>1, <2>2
    <2>5. cuis[p] /\ UNCHANGED <<catalog, state, cuis, lapses>>
      BY <1>2 DEF Download!Sincronizar
    <2>6. SyncKnows(s)'
      BY <2>1, <2>3, <2>4, <2>5 DEF SyncKnows
    <2> QED
      BY <1>0, <2>3, <2>4, <2>5, <2>6, SyncMoves
  <1> QED
    BY <1>1, <1>2

\* What StoreRows leaves of a catalogue.
LEMMA RowsStored ==
    ASSUME ReadyInv, NEW s \in Syncs, Download!StoreRows(s)
    PROVE  /\ catalog' \in [Download!Ops -> [now : {"rows", "empty"}, ever : BOOLEAN]]
           /\ \A op \in Download!Ops : catalog[op].ever => catalog'[op].ever
           /\ \A op \in Download!Ops : op # Download!Op(s) => catalog'[op] = catalog[op]
           /\ Download!Op(s) \in Download!Critical =>
                 /\ catalog'[Download!Op(s)].now = sync[s].answer
                 /\ sync[s].answer = "rows" => catalog'[Download!Op(s)].ever
  <1>0. /\ sync[s] \in SyncType /\ catalog \in [Download!Ops -> [now : {"rows", "empty"}, ever : BOOLEAN]]
        /\ sync[s].pc = "rows" /\ sync[s].left # << >>
    BY DEF ReadyInv, Download!TypeOK, Download!StoreRows, SyncKnows
  <1>1. Download!Op(s) \in Download!Ops
    BY <1>0 DEF SyncType, Download!Op
  <1>2. sync[s].answer \in {"rows", "empty"}
    BY <1>0
       DEF ReadyInv, SyncKnows, SyncType, Download!Answers, Download!ParametricAnswers,
           Download!ListAnswers,
                Download!ServiceAnswers
  <1>3. CASE catalog' = Download!Appended(Download!Op(s), sync[s].answer)
    BY <1>0, <1>1, <1>2, <1>3 DEF Download!Appended
  <1>4. CASE catalog' = catalog /\ Download!Op(s) \notin Download!Critical
    BY <1>0, <1>4
  <1>5. \/ catalog' = Download!Appended(Download!Op(s), sync[s].answer)
        \/ catalog' = catalog /\ Download!Op(s) \notin Download!Critical
    <2>1. CASE Download!Op(s) \in Download!Versioned \/ Download!Op(s) = "productosServicios"
      BY <2>1 DEF Download!StoreRows, Download!Versioned, Download!ReplacedProducts
    <2>2. CASE Download!Op(s) \notin Download!Versioned /\ Download!Op(s) # "productosServicios"
      BY <1>1, <2>2 DEF Download!StoreRows, Download!Versioned, Download!Critical
    <2> QED
      BY <2>1, <2>2
  <1> QED
    BY <1>3, <1>4, <1>5

\* Rows are stored before the state says so.
LEMMA ReadyStores ==
    ASSUME ReadyInv, NEW s \in Syncs, Download!StoreRows(s)
    PROVE  ReadyInv'
  <1>1. /\ sync[s] \in SyncType /\ sync[s].pc = "rows" /\ SyncKnows(s)
        /\ UNCHANGED <<state, cuis, lapses>> /\ sync' = [sync EXCEPT ![s].pc = "state"]
    BY DEF ReadyInv, Download!StoreRows
  <1>2. PICK a : a = [sync[s] EXCEPT !.pc = "state"]
    OBVIOUS
  <1>3. /\ a \in SyncType /\ a.pc = "state" /\ a.left = sync[s].left /\ a.at = sync[s].at
        /\ a.answer = sync[s].answer
    BY <1>1, <1>2 DEF SyncType
  <1>4. sync' = [sync EXCEPT ![s] = a]
    BY <1>1, <1>2
  <1>5. /\ sync' \in [Syncs -> SyncType] /\ sync'[s] = a
        /\ \A t \in Syncs : t # s => sync'[t] = sync[t]
    BY <1>3, <1>4 DEF ReadyInv
  <1>6. Download!TypeOK' /\ \A op \in Download!Critical : catalog[op].ever => catalog'[op].ever
    BY <1>1, RowsStored DEF ReadyInv, Download!TypeOK, Download!Critical
  <1>7. SyncKnows(s)'
    BY <1>1, <1>3, <1>5, RowsStored DEF SyncKnows, Download!Op
  <1>8. \A t \in Syncs : SyncKnows(t)'
    BY <1>1, <1>5, <1>6, <1>7 DEF ReadyInv, SyncKnows, Download!Op
  <1>9. \A p \in {Point}, op \in Download!Critical :
           state'[p][op].status = "SUCCESS" => cuis'[p] /\ catalog'[op].ever
    BY <1>1, <1>6 DEF ReadyInv
  <1> QED
    BY <1>5, <1>6, <1>8, <1>9 DEF ReadyInv

\* The state of the download.
LEMMA StateSaved ==
    ASSUME ReadyInv, NEW s \in Syncs, Download!SaveSyncState(s)
    PROVE  /\ state' \in [{Point} -> [Download!Ops -> [status : {"none", "SUCCESS", "EMPTY", "FAILED"},
                                            fresh : BOOLEAN]]]
           /\ Download!Op(s) \in Download!Ops /\ sync[s].at \in {Point}
           /\ \A p \in {Point}, op \in Download!Ops :
                 p # sync[s].at \/ op # Download!Op(s) => state'[p][op] = state[p][op]
           /\ Download!Op(s) \in Download!Critical /\ state'[sync[s].at][Download!Op(s)].status = "SUCCESS"
                => sync[s].answer = "rows"
  <1>0. /\ sync[s] \in SyncType /\ sync[s].pc = "state" /\ sync[s].left # << >>
        /\ sync[s].at \in {Point} /\ sync[s].answer \in Download!Answers(Download!Op(s))
        /\ state \in [{Point} -> [Download!Ops -> [status : {"none", "SUCCESS", "EMPTY", "FAILED"},
                                         fresh : BOOLEAN]]]
    BY DEF ReadyInv, Download!TypeOK, Download!SaveSyncState, SyncKnows
  <1>1. Download!Op(s) \in Download!Ops
    BY <1>0 DEF SyncType, Download!Op
  <1>2. PICK d : d = Download!Downloaded(Download!Op(s), sync[s].answer)
    OBVIOUS
  <1>3. d \in [status : {"none", "SUCCESS", "EMPTY", "FAILED"}, fresh : BOOLEAN]
    BY <1>2 DEF Download!Downloaded, Download!SyncStatus
  <1>4. Download!Op(s) \in Download!Critical /\ d.status = "SUCCESS" => sync[s].answer = "rows"
    BY <1>0, <1>2
       DEF Download!Downloaded, Download!SyncStatus, Download!Answers,
           Download!ParametricAnswers, Download!ListAnswers,
                      Download!ServiceAnswers
  <1>5. state' = [state EXCEPT ![sync[s].at][Download!Op(s)] = d]
    BY <1>2 DEF Download!SaveSyncState
  <1>6. state'[sync[s].at] = [state[sync[s].at] EXCEPT ![Download!Op(s)] = d]
    BY <1>0, <1>5
  <1>7. state'[sync[s].at][Download!Op(s)] = d
    BY <1>0, <1>1, <1>6
  <1>8. state' \in [{Point} -> [Download!Ops -> [status : {"none", "SUCCESS", "EMPTY", "FAILED"},
                                      fresh : BOOLEAN]]]
    <2>1. [state[sync[s].at] EXCEPT ![Download!Op(s)] = d]
             \in [Download!Ops -> [status : {"none", "SUCCESS", "EMPTY", "FAILED"}, fresh : BOOLEAN]]
      BY <1>0, <1>3
    <2> QED
      BY <1>0, <1>5, <2>1
  <1>9. \A p \in {Point}, op \in Download!Ops :
           p # sync[s].at \/ op # Download!Op(s) => state'[p][op] = state[p][op]
    BY <1>0, <1>5, <1>6
  <1> QED
    BY <1>0, <1>1, <1>4, <1>7, <1>8, <1>9

\* The state is saved with what the download found.
LEMMA ReadySaves ==
    ASSUME ReadyInv, NEW s \in Syncs, Download!SaveSyncState(s)
    PROVE  ReadyInv'
  <1>0. sync[s].pc = "state" /\ Download!Advance(s) /\ UNCHANGED <<catalog, cuis, lapses>> /\ SyncKnows(s)
    BY DEF ReadyInv, Download!SaveSyncState
  <1>1. PICK a \in SyncType :
              /\ sync' = [sync EXCEPT ![s] = a]
              /\ a.pc \in {"idle", "ask"}
              /\ a.pc # "idle" => a.at = sync[s].at /\ a.left # << >>
    BY <1>0, AdvanceTo
  <1>2. /\ sync' \in [Syncs -> SyncType] /\ sync'[s] = a
        /\ \A t \in Syncs : t # s => sync'[t] = sync[t]
    BY <1>1 DEF ReadyInv
  <1>3. \A t \in Syncs : SyncKnows(t)'
    BY <1>0, <1>1, <1>2 DEF ReadyInv, SyncKnows, Download!Op
  <1>4. Download!TypeOK'
    BY <1>0, StateSaved DEF ReadyInv, Download!TypeOK
  <1>5. \A p \in {Point}, op \in Download!Critical :
           state'[p][op].status = "SUCCESS" => cuis'[p] /\ catalog'[op].ever
    <2> SUFFICES ASSUME NEW p \in {Point}, NEW op \in Download!Critical,
                        state'[p][op].status = "SUCCESS"
                 PROVE  cuis[p] /\ catalog[op].ever
      BY <1>0
    <2>1. op \in Download!Ops
      BY DEF Download!Critical
    <2>2. CASE p # sync[s].at \/ op # Download!Op(s)
      BY <2>1, <2>2, StateSaved DEF ReadyInv
    <2>3. CASE p = sync[s].at /\ op = Download!Op(s)
      BY <1>0, <2>3, StateSaved DEF SyncKnows
    <2> QED
      BY <2>2, <2>3
  <1> QED
    BY <1>2, <1>3, <1>4, <1>5 DEF ReadyInv

\* A download that fails says nothing.
LEMMA ReadyLapses ==
    ASSUME ReadyInv, NEW s \in Syncs,
           Download!StoreFails(s) \/ Download!StateLost(s) \/ Download!SyncDies(s)
    PROVE  ReadyInv'
  <1>0. Download!Lapse /\ lapses' \in 0..MaxFaults /\ UNCHANGED <<catalog, state, cuis>> /\ SyncKnows(s)
        /\ sync[s] \in SyncType /\ sync \in [Syncs -> SyncType]
    BY LapseCounts DEF ReadyInv, Download!StoreFails, Download!StateLost, Download!SyncDies
  <1>1. CASE Download!StoreFails(s)
    <2>1. PICK a : a = [sync[s] EXCEPT !.pc = "state", !.answer = "error"]
      OBVIOUS
    <2>2. /\ a \in SyncType /\ a.pc = "state" /\ a.answer = "error" /\ a.left = sync[s].left
          /\ a.at = sync[s].at
      BY <1>0, <2>1 DEF SyncType
    <2>3. sync' = [sync EXCEPT ![s] = a] /\ sync'[s] = a /\ sync[s].pc = "rows"
      BY <1>0, <1>1, <2>1 DEF Download!StoreFails
    <2>4. "error" \in Download!Answers(Download!Op(s))
      BY DEF Download!Answers, Download!ParametricAnswers, Download!ListAnswers,
             Download!ServiceAnswers
    <2>5. SyncKnows(s)'
      BY <1>0, <2>2, <2>3, <2>4 DEF SyncKnows, Download!Op
    <2> QED
      BY <1>0, <2>2, <2>3, <2>5, SyncMoves
  <1>2. CASE Download!StateLost(s)
    <2>1. PICK a \in SyncType :
              /\ sync' = [sync EXCEPT ![s] = a]
              /\ a.pc \in {"idle", "ask"}
              /\ a.pc # "idle" => a.at = sync[s].at /\ a.left # << >>
      BY <1>2, AdvanceTo DEF Download!StateLost
    <2>2. sync'[s] = a /\ sync[s].pc = "state"
      BY <1>0, <1>2, <2>1 DEF Download!StateLost
    <2>3. SyncKnows(s)'
      BY <1>0, <2>1, <2>2 DEF SyncKnows
    <2> QED
      BY <1>0, <2>1, <2>3, SyncMoves
  <1>3. CASE Download!SyncDies(s)
    <2>1. sync' = [sync EXCEPT ![s] = Download!NoSync] /\ sync'[s] = Download!NoSync
      BY <1>0, <1>3 DEF Download!SyncDies
    <2>2. SyncKnows(s)'
      BY <2>1, NoSyncType DEF SyncKnows
    <2> QED
      BY <1>0, <2>1, <2>2, NoSyncType, SyncMoves
  <1> QED
    BY <1>1, <1>2, <1>3

\* Readiness ages, and is only said of a point of sale with a CUIS and stored rows.
LEMMA ReadyStep == ReadyInv /\ [Download!Next]_(Download!yvars) => ReadyInv'
  <1> SUFFICES ASSUME ReadyInv, [Download!Next]_(Download!yvars) PROVE ReadyInv'
    OBVIOUS
  <1>1. ASSUME NEW p \in {Point}, Download!ObtainCuis(p) PROVE ReadyInv'
    <2>1. cuis' \in [{Point} -> BOOLEAN] /\ \A q \in {Point} : cuis[q] => cuis'[q]
      BY <1>1 DEF ReadyInv, Download!TypeOK, Download!ObtainCuis
    <2>2. UNCHANGED <<catalog, state, sync, lapses>>
      BY <1>1 DEF Download!ObtainCuis
    <2> QED
      BY <2>1, <2>2 DEF ReadyInv, Download!TypeOK, SyncKnows, SyncType, Download!Op
  <1>2. ASSUME NEW p \in {Point}, NEW op \in Download!Ops, Download!Age(p, op) PROVE ReadyInv'
    <2>1. PICK d : d = [state[p][op] EXCEPT !.fresh = FALSE]
      OBVIOUS
    <2>2. d \in [status : {"none", "SUCCESS", "EMPTY", "FAILED"}, fresh : BOOLEAN]
          /\ d.status = state[p][op].status
      <3>1. state[p][op] \in [status : {"none", "SUCCESS", "EMPTY", "FAILED"}, fresh : BOOLEAN]
        BY DEF ReadyInv, Download!TypeOK
      <3> QED
        BY <2>1, <3>1
    <2>3. state' = [state EXCEPT ![p][op] = d] /\ UNCHANGED <<catalog, cuis, sync, lapses>>
      BY <1>2, <2>1 DEF Download!Age
    <2>4. [state[p] EXCEPT ![op] = d]
             \in [Download!Ops -> [status : {"none", "SUCCESS", "EMPTY", "FAILED"}, fresh : BOOLEAN]]
          /\ \A o \in Download!Ops : [state[p] EXCEPT ![op] = d][o].status = state[p][o].status
      BY <2>2 DEF ReadyInv, Download!TypeOK
    <2>5. state' = [state EXCEPT ![p] = [state[p] EXCEPT ![op] = d]]
      BY <2>3
    <2>6. /\ state' \in [{Point} -> [Download!Ops -> [status : {"none", "SUCCESS", "EMPTY", "FAILED"},
                                            fresh : BOOLEAN]]]
          /\ \A q \in {Point}, o \in Download!Ops : state'[q][o].status = state[q][o].status
      BY <2>4, <2>5 DEF ReadyInv, Download!TypeOK
    <2> QED
      BY <2>3, <2>6
         DEF ReadyInv, Download!TypeOK, SyncKnows, SyncType, Download!Op, Download!Critical
  <1>3. CASE UNCHANGED Download!yvars
    BY <1>3 DEF ReadyInv, Download!TypeOK, SyncKnows, SyncType, Download!Op, Download!yvars
  <1> QED
    BY <1>1, <1>2, <1>3, ReadyBegins, ReadyStores, ReadySaves, ReadyLapses
       DEF Download!Next, Download!SyncStep

\* A download of everything stores a catalogue that invoices need.
LEMMA SomeCritical == Download!Critical # {}
  BY DownloadAssumption DEF Download!CatalogAssumption, Download!Critical, Download!Ops

\* What the property says.
LEMMA ReadyStored == ReadyInv => Download!TypeOK /\ Download!ReadyWasStored
  BY SomeCritical DEF ReadyInv, Download!ReadyWasStored, Download!Ready, Download!TypeOK

(* One download at a time. *)

\* While nothing lapsed, a catalogue is as the state says, but for the operation
\* whose rows are just stored; there, as the answer says.
CurrentInv ==
    /\ ReadyInv
    /\ \A s \in Syncs :
          sync[s].pc = "state" /\ Download!Op(s) \in Download!Critical /\ sync[s].answer = "rows" =>
          catalog[Download!Op(s)].now = "rows"
    /\ lapses = 0 =>
          \A p \in {Point}, op \in Download!Critical :
              \/ state[p][op].status = "SUCCESS" => catalog[op].now = "rows"
              \/ \E s \in Syncs : sync[s].pc = "state" /\ Download!Op(s) = op
    /\ \A s \in Syncs : s # Downloader => sync[s].pc = "idle"

\* Initially no state says anything.
LEMMA CurrentInit == Download!Init => CurrentInv
  <1> SUFFICES ASSUME Download!Init PROVE CurrentInv
    OBVIOUS
  <1>1. ReadyInv /\ \A s \in Syncs : sync[s].pc = "idle"
    BY ReadyInit, NoSyncType DEF Download!Init
  <1>2. \A p \in {Point}, op \in Download!Critical : state[p][op].status = "none"
    BY DEF Download!Init, Download!NoState, Download!Critical
  <1> QED
    BY <1>1, <1>2 DEF CurrentInv

\* One point of sale downloads, one operation after another.
LEMMA CurrentStep ==
    ASSUME CurrentInv, [Download!Next]_(Download!yvars), OneDownload
    PROVE  CurrentInv'
  <1> DEFINE a == Point
             b == Downloader
  <1>0. /\ ReadyInv /\ ReadyInv' /\ sync \in [Syncs -> SyncType] /\ lapses \in Nat
        /\ state \in [{Point} -> [Download!Ops -> [status : {"none", "SUCCESS", "EMPTY", "FAILED"},
                                         fresh : BOOLEAN]]]
        /\ {Point} = {a} /\ b \in Syncs /\ sync[b] \in SyncType
        /\ \A s \in Syncs : s # b => sync[s].pc = "idle" /\ sync'[s].pc = "idle"
    BY ReadyStep, OperationsAssumption DEF CurrentInv, ReadyInv, Download!TypeOK, OneDownload
  <1> HIDE DEF a, b
  <1>1. CASE Download!StoreRows(b)
    <2>1. /\ sync'[b].pc = "state" /\ Download!Op(b)' = Download!Op(b) /\ sync'[b].answer = sync[b].answer
          /\ sync[b].pc = "rows" /\ UNCHANGED <<state, lapses>>
      BY <1>0, <1>1 DEF Download!StoreRows, Download!Op, SyncType
    <2>2. \A op \in Download!Critical : op # Download!Op(b) => catalog'[op] = catalog[op]
      BY <1>0, <1>1, RowsStored DEF Download!Critical
    <2>3. Download!Op(b) \in Download!Critical /\ sync[b].answer = "rows"
             => catalog'[Download!Op(b)].now = "rows"
      BY <1>0, <1>1, RowsStored
    <2> QED
      BY <1>0, <2>1, <2>2, <2>3 DEF CurrentInv
  <1>2. CASE Download!SaveSyncState(b)
    <2>1. /\ sync[b].pc = "state" /\ Download!Advance(b) /\ UNCHANGED <<catalog, cuis, lapses>>
          /\ sync[b].at = a
      BY <1>0, <1>2 DEF Download!SaveSyncState, ReadyInv, SyncKnows
    <2>2. PICK x \in SyncType : sync' = [sync EXCEPT ![b] = x] /\ x.pc \in {"idle", "ask"}
      BY <1>0, <2>1, AdvanceTo
    <2>3. sync'[b].pc # "state"
      BY <1>0, <2>2
    <2>4. \A op \in Download!Critical : op # Download!Op(b) => state'[a][op] = state[a][op]
      BY <1>0, <1>2, StateSaved DEF Download!Critical
    <2>5. Download!Op(b) \in Download!Critical /\ state'[a][Download!Op(b)].status = "SUCCESS"
             => sync[b].answer = "rows"
      BY <1>0, <1>2, <2>1, StateSaved
    <2>6. Download!Op(b) \in Download!Critical /\ state'[a][Download!Op(b)].status = "SUCCESS"
             => catalog[Download!Op(b)].now = "rows"
      BY <1>0, <2>1, <2>5 DEF CurrentInv
    <2>7. lapses = 0 => \A op \in Download!Critical : op # Download!Op(b) =>
             (state[a][op].status = "SUCCESS" => catalog[op].now = "rows")
      BY <1>0 DEF CurrentInv
    <2>8. lapses = 0 => \A op \in Download!Critical :
             state'[a][op].status = "SUCCESS" => catalog[op].now = "rows"
      BY <2>4, <2>6, <2>7
    <2> QED
      BY <1>0, <2>1, <2>3, <2>8 DEF CurrentInv
  <1>3. ASSUME Download!Lapse, UNCHANGED catalog,
               sync'[b].pc \in {"idle", "ask"} \/ sync'[b].answer = "error"
        PROVE  CurrentInv'
    <2>1. lapses' # 0
      BY <1>0, <1>3 DEF Download!Lapse
    <2>2. \A s \in Syncs : sync'[s].pc = "state" => sync'[s].answer = "error"
      BY <1>0, <1>3
    <2>3. \A s \in Syncs : s # Downloader => sync'[s].pc = "idle"
      BY DEF OneDownload
    <2> QED
      BY <1>0, <2>1, <2>2, <2>3 DEF CurrentInv
  <1>4. CASE Download!StoreFails(b)
    BY <1>0, <1>3, <1>4 DEF Download!StoreFails, SyncType
  <1>5. CASE Download!StateLost(b)
    <2>1. PICK x \in SyncType : sync' = [sync EXCEPT ![b] = x] /\ x.pc \in {"idle", "ask"}
      BY <1>0, <1>5, AdvanceTo DEF Download!StateLost
    <2> QED
      BY <1>0, <1>3, <1>5, <2>1 DEF Download!StateLost
  <1>6. CASE Download!SyncDies(b)
    BY <1>0, <1>3, <1>6, NoSyncType DEF Download!SyncDies
  <1>7. ASSUME UNCHANGED <<catalog, lapses>>, sync[b].pc # "state",
               sync'[b].pc = "state" => sync'[b].answer = "error",
               \A op \in Download!Ops : state'[a][op].status = state[a][op].status
        PROVE  CurrentInv'
    <2>1. \A s \in Syncs : sync[s].pc # "state" /\ (sync'[s].pc = "state" => sync'[s].answer = "error")
      BY <1>0, <1>7
    <2>2. \A s \in Syncs : s # Downloader => sync'[s].pc = "idle"
      BY DEF OneDownload
    <2>3. lapses = 0 => \A op \in Download!Critical :
             state'[a][op].status = "SUCCESS" => catalog[op].now = "rows"
      <3>1. \A op \in Download!Critical : state'[a][op].status = state[a][op].status
        BY <1>7 DEF Download!Critical
      <3>2. lapses = 0 => \A op \in Download!Critical :
               state[a][op].status = "SUCCESS" => catalog[op].now = "rows"
        BY <1>0, <2>1 DEF CurrentInv
      <3> QED
        BY <3>1, <3>2
    <2> QED
      BY <1>0, <1>7, <2>1, <2>2, <2>3 DEF CurrentInv
  <1>8. ASSUME UNCHANGED <<catalog, lapses, sync>>,
               \A op \in Download!Ops : state'[a][op].status = state[a][op].status
        PROVE  CurrentInv'
    <2>1. \A op \in Download!Critical : state'[a][op].status = state[a][op].status
      BY <1>8 DEF Download!Critical
    <2>2. \A s \in Syncs : Download!Op(s)' = Download!Op(s)
      BY <1>8 DEF Download!Op
    <2>3. \A s \in Syncs :
             sync'[s].pc = "state" /\ Download!Op(s)' \in Download!Critical /\ sync'[s].answer = "rows"
                 => catalog'[Download!Op(s)'].now = "rows"
      BY <1>8, <2>2 DEF CurrentInv, Download!Critical
    <2>4. lapses' = 0 => \A p \in {Point}, op \in Download!Critical :
              \/ state'[p][op].status = "SUCCESS" => catalog'[op].now = "rows"
              \/ \E s \in Syncs : sync'[s].pc = "state" /\ Download!Op(s)' = op
      <3>1. lapses = 0 => \A op \in Download!Critical :
                \/ state[a][op].status = "SUCCESS" => catalog[op].now = "rows"
                \/ \E s \in Syncs : sync[s].pc = "state" /\ Download!Op(s) = op
        BY <1>0 DEF CurrentInv
      <3>2. lapses' = 0 => \A op \in Download!Critical :
                \/ state'[a][op].status = "SUCCESS" => catalog'[op].now = "rows"
                \/ \E s \in Syncs : sync'[s].pc = "state" /\ Download!Op(s)' = op
        BY <1>8, <2>1, <2>2, <3>1
      <3> QED
        BY <1>0, <3>2
    <2>5. Download!Critical' = Download!Critical /\ \A s \in Syncs : s # Downloader => sync'[s].pc = "idle"
      BY <1>8 DEF Download!Critical, CurrentInv
    <2>6. ReadyInv'
      BY <1>0
    <2> QED
      BY <2>3, <2>4, <2>5, <2>6 DEF CurrentInv
  <1>9. CASE Download!Synchronize(b) \/ \E p \in {Point} : Download!Sincronizar(b, p)
    <2>1. sync[b].pc # "state" /\ UNCHANGED <<catalog, lapses, state>>
      BY <1>9 DEF Download!Synchronize, Download!Sincronizar
    <2>2. sync'[b].pc = "state" => sync'[b].answer = "error"
      <3>1. CASE Download!Synchronize(b)
        BY <1>0, <3>1 DEF Download!Synchronize, SyncType
      <3>2. CASE \E p \in {Point} : Download!Sincronizar(b, p)
        BY <1>0, <3>2 DEF Download!Sincronizar
      <3> QED
        BY <1>9, <3>1, <3>2
    <2> QED
      BY <1>7, <2>1, <2>2
  <1>10. CASE \E p \in {Point} : Download!ObtainCuis(p)
    BY <1>8, <1>10 DEF Download!ObtainCuis
  <1>11. CASE \E p \in {Point}, op \in Download!Ops : Download!Age(p, op)
    <2>1. PICK op \in Download!Ops : Download!Age(a, op)
      BY <1>0, <1>11
    <2>2. \A o \in Download!Ops : state'[a][o].status = state[a][o].status
      BY <1>0, <2>1 DEF Download!Age
    <2> QED
      BY <1>8, <2>1, <2>2 DEF Download!Age
  <1>12. CASE UNCHANGED Download!yvars
    BY <1>8, <1>12 DEF Download!yvars
  <1>13. ASSUME NEW s \in Syncs,
                Download!SyncStep(s) \/ \E p \in {Point} : Download!Sincronizar(s, p)
         PROVE  s = b
    <2> SUFFICES ASSUME s # b PROVE FALSE
      OBVIOUS
    <2>1. sync[s].pc = "idle" /\ sync'[s].pc = "idle" /\ sync \in [Syncs -> SyncType]
      BY <1>0
    <2>2. PICK p \in {Point} : Download!Sincronizar(s, p)
      BY <1>13, <2>1 DEF Download!SyncStep, Download!Synchronize, Download!StoreRows,
                         Download!StoreFails, Download!SaveSyncState, Download!StateLost,
                         Download!SyncDies
    <2>3. sync'[s].pc = "ask"
      BY <2>1, <2>2 DEF Download!Sincronizar
    <2> QED
      BY <2>1, <2>3
  <1> QED
    BY <1>1, <1>2, <1>4, <1>5, <1>6, <1>9, <1>10, <1>11, <1>12, <1>13
       DEF Download!Next, Download!SyncStep

\* And where nothing happens to the catalogues.
LEMMA CurrentStay == CurrentInv /\ UNCHANGED Download!yvars => CurrentInv'
  <1> SUFFICES ASSUME CurrentInv, UNCHANGED Download!yvars PROVE CurrentInv'
    OBVIOUS
  <1>1. ReadyInv'
    BY ReadyStep DEF CurrentInv
  <1> QED
    BY <1>1 DEF CurrentInv, Download!yvars, Download!Op, Download!Critical

\* What the property says.
LEMMA CurrentReady == CurrentInv => Download!ReadyIsCurrent
  BY DEF CurrentInv, ReadyInv, Download!TypeOK, Download!ReadyIsCurrent, Download!Latest

-----------------------------------------------------------------------------
(* The components together. *)

ovars == <<scene, Operations, dvars, vars>>

\* With one editor, or one download at a time, more is known.
OperationsInv ==
    /\ CodesInv /\ EventsInv /\ SigningInv /\ AlertInv /\ AlertTypes /\ ReadyInv
    /\ NumberInv /\ NoteInv /\ RouteInv
    /\ scene = "signing" => RefInv
    /\ scene = "download" => CurrentInv

\* Every component begins in its initial states.
LEMMA OperationsStart == OperationsInit => OperationsInv
  BY CodesInit, EventsInit, SigningInit, AlertInit, AlertTypesInit, ReadyInit, NumberInit,
     NoteInit, RouteInit, RefInit, CurrentInit
     DEF OperationsInit, OperationsInv

\* A step is a step of one component, which the others do not see.
LEMMA OneComponent ==
    ASSUME [OperationsNext]_ovars
    PROVE  /\ [Codes!Next]_(Codes!crvars) /\ [Events!Next]_(Events!evars)
           /\ [Signing!Next]_(Signing!cvars) /\ [Alerts!Next]_(Alerts!avars)
           /\ [Download!Next]_(Download!yvars) /\ [DocumentNext]_dvars /\ [Next]_vars
           /\ scene' = scene
           /\ scene = "signing" => OneEditor \/ UNCHANGED Signing!cvars
           /\ scene = "download" => OneDownload \/ UNCHANGED Download!yvars
  <1>1. /\ UNCHANGED credentials <=> UNCHANGED Codes!crvars
        /\ UNCHANGED contingency <=> UNCHANGED Events!evars
        /\ UNCHANGED certificates <=> UNCHANGED Signing!cvars
        /\ UNCHANGED alerts <=> UNCHANGED Alerts!avars
        /\ UNCHANGED catalogs <=> UNCHANGED Download!yvars
    BY DEF credentials, contingency, certificates, alerts, catalogs, Codes!crvars,
           Events!evars, Signing!cvars, Alerts!avars, Download!yvars, dvars
  <1>2. CASE UNCHANGED ovars
    BY <1>1, <1>2 DEF ovars, Operations
  <1>3. CASE OperationsNext
    BY <1>1, <1>3 DEF OperationsNext, Only, Operations
  <1> QED
    BY <1>2, <1>3

\* The invariant is inductive.
LEMMA OperationsStep == OperationsInv /\ [OperationsNext]_ovars => OperationsInv'
  <1> SUFFICES ASSUME OperationsInv, [OperationsNext]_ovars PROVE OperationsInv'
    OBVIOUS
  <1>1. /\ CodesInv' /\ EventsInv' /\ SigningInv' /\ AlertInv' /\ AlertTypes' /\ ReadyInv'
        /\ NumberInv' /\ NoteInv' /\ RouteInv'
        /\ scene' = scene
    BY OneComponent, CodesStep, EventsStep, SigningStep, AlertStep, AlertTypesStep, ReadyStep,
       NumberStep, NoteStep, RouteStep
       DEF OperationsInv
  <1>2. scene = "signing" => RefInv'
    <2>1. CASE OneEditor
      BY <2>1, OneComponent, RefStep DEF OperationsInv
    <2>2. CASE UNCHANGED Signing!cvars
      BY <2>2, RefStay DEF OperationsInv
    <2> QED
      BY <2>1, <2>2, OneComponent
  <1>3. scene = "download" => CurrentInv'
    <2>1. CASE OneDownload
      BY <2>1, OneComponent, CurrentStep DEF OperationsInv
    <2>2. CASE UNCHANGED Download!yvars
      BY <2>2, CurrentStay DEF OperationsInv
    <2> QED
      BY <2>1, <2>2, OneComponent
  <1> QED
    BY <1>1, <1>2, <1>3 DEF OperationsInv

\* It holds of every behaviour.
LEMMA OperationsAlways == OperationsSpec => []OperationsInv
  BY OperationsStart, OperationsStep, PTL DEF OperationsSpec, ovars

(***************************************************************************)
(* However requests, edits and the scheduler interleave, and although edits *)
(* write back the rows they copied, a point of sale has at most one active  *)
(* CUFD, each one issued by the SIAT, and a company signs with at most one  *)
(* certificate.                                                             *)
(***************************************************************************)
THEOREM OneOfEach == OperationsSpec => []OneActive
  <1>1. OperationsInv => OneActive
    BY CodesOneActive, SigningOneActive DEF OperationsInv, OneActive
  <1> QED
    BY <1>1, OperationsAlways, PTL

(***************************************************************************)
(* With one edit at a time no row of a certificate names a file that is     *)
(* gone, wherever an edit fails or dies: the new file is put before the row *)
(* names it, and the old one is removed after.                              *)
(***************************************************************************)
THEOREM RowsHaveFiles == OperationsSpec => []RefStored
  <1>1. OperationsInv => RefStored
    BY DEF OperationsInv, RefInv, RefStored
  <1> QED
    BY <1>1, OperationsAlways, PTL

(***************************************************************************)
(* The webhook takes the alert of a threshold once, but for the alerts that *)
(* faults repeat, and a threshold marked SENT was alerted.                  *)
(***************************************************************************)
THEOREM AlertedOnce == OperationsSpec => []AlertOnce
  <1>1. OperationsInv => AlertOnce
    BY DEF OperationsInv, AlertInv, Paid, ShapeOK, AlertOnce, Alerts!AlertOnce
  <1> QED
    BY <1>1, OperationsAlways, PTL

(***************************************************************************)
(* A synced event carries a code of the SIAT and the window registered with *)
(* it, no two share one, and what is asked of the SIAT is an interval that  *)
(* stays in the CUFD's span when its dates are the default ones.            *)
(***************************************************************************)
THEOREM EventsAreRegistered == OperationsSpec => []SyncedIsRegistered
  <1>1. OperationsInv => SyncedIsRegistered
    BY EventsSound DEF OperationsInv, SyncedIsRegistered
  <1> QED
    BY <1>1, OperationsAlways, PTL

(***************************************************************************)
(* A point of sale that may draw up invoices has a CUIS, and catalogues     *)
(* that were stored with rows, wherever downloads fail or die; with one     *)
(* download at a time, and while nothing fails, they are the latest.        *)
(***************************************************************************)
THEOREM ReadinessIsEarned == OperationsSpec => []ReadyWasStored
  <1>1. OperationsInv => ReadyWasStored
    BY ReadyStored, CurrentReady DEF OperationsInv, ReadyWasStored
  <1> QED
    BY <1>1, OperationsAlways, PTL

(***************************************************************************)
(* Whatever requests run, fail or are undone, the drafts of a point of sale *)
(* are numbered 1, 2, 3, ... with neither a gap nor a number used twice.    *)
(***************************************************************************)
THEOREM NumbersAreDense == OperationsSpec => []DenseNumbers
  <1>1. OperationsInv => DenseNumbers
    BY DEF OperationsInv, NumberInv
  <1> QED
    BY <1>1, OperationsAlways, PTL

(***************************************************************************)
(* A note that names its sector carries the CUF its sale had when the       *)
(* creation checked it, and lines of the sale, although a simplified one    *)
(* copied them from an earlier reading.                                     *)
(***************************************************************************)
THEOREM NotesAreOfTheirSale == OperationsSpec => []NoteMatchesReference
  <1>1. OperationsInv => NoteMatchesReference
    BY NotesMatch DEF OperationsInv
  <1> QED
    BY <1>1, OperationsAlways, PTL

(***************************************************************************)
(* The emission, the package or lot, the verification, the annulment and    *)
(* its reversal of a document go to one service with the sector, type and   *)
(* modality of its draft, whatever the modality of the company becomes.     *)
(***************************************************************************)
THEOREM CallsFollowTheDraft == OperationsSpec => []RoutesAgree
  <1>1. OperationsInv => RoutesAgree
    BY RouteAgrees DEF OperationsInv
  <1> QED
    BY <1>1, OperationsAlways, PTL

(***************************************************************************)
(* The preview, the draft, the emission, the bulk lot and its builder agree *)
(* on the amounts, whose base of the tax is between zero and the total; and *)
(* the XML numbers its lines without gaps, those of the sale first.         *)
(***************************************************************************)
THEOREM AmountsAreOne == OperationsSpec => []AmountsAgree
  <1>1. OperationsInv => AmountsAgree
    BY AmountsFollow DEF OperationsInv
  <1> QED
    BY <1>1, OperationsAlways, PTL

(***************************************************************************)
(* A draft whose checks passed is not stuck: the checks of the emission or  *)
(* of the lot pass too, although the modality of the company may change in  *)
(* between, and what was issued offline passes those of a package.          *)
(***************************************************************************)
THEOREM DraftsAreNotStuck == OperationsSpec => []DraftHasRoute
  <1>1. OperationsInv => DraftHasRoute
    BY RouteExists DEF OperationsInv
  <1> QED
    BY <1>1, OperationsAlways, PTL

(***************************************************************************)
(* Every component stays in its types and its bounds.                       *)
(***************************************************************************)
THEOREM OperationsAreTyped == OperationsSpec => []OperationsTypeOK
  <1>1. OperationsInv => OperationsTypeOK
    BY CodesOneActive, EventsSound, SigningOneActive, AlertsTyped, ReadyStored, RouteTypes,
       NotesMatch DEF OperationsInv, OperationsTypeOK
  <1> QED
    BY <1>1, OperationsAlways, PTL
=============================================================================
