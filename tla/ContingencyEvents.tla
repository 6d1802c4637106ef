-------------------------- MODULE ContingencyEvents --------------------------
(***************************************************************************)
(* The significant events of one point of sale: emissions that lose the     *)
(* connection open a local event or join the open one, a request registers  *)
(* an event with the SIAT and closes the local one, and a package sends the *)
(* invoices of the latest closed event (usecase/emission_contingency.go,    *)
(* siat_events.go, siat_batch_selection.go, contingency_event_repo.go).     *)
(* Time is counted in ticks; Before and Window are the ten minutes and the  *)
(* two hours of the default window, Valid the span of the CUFD in force.    *)
(* Motives, descriptions and identities are left out.                       *)
(***************************************************************************)
EXTENDS Integers, Sequences, FiniteSets

CONSTANTS Invoices, Registrars,
          Before, Window, Valid,
          Given,        \* windows that a request with dates may ask for
          MaxTime, MaxEvents

EventsAssumption ==
    /\ Before \in Nat /\ Window \in Nat /\ Before < Window
    /\ Valid \in [from : Nat, to : Nat] /\ Valid.from < Valid.to
    /\ Given \subseteq {w \in [from : Nat, to : Nat] : w.from < w.to}
    /\ MaxTime \in Nat /\ MaxEvents \in Nat

VARIABLES now,
          events,  \* rows in order of creation: start, end, synced, code
          issued,  \* issue date of an invoice, None before it is created
          emit,    \* emit[i]: where its contingency is, and the event it found
          link,    \* event of an OFFLINE invoice, 0 otherwise
          reg,     \* reg[r]: place, pending event, window and code
          codes    \* events the SIAT registered: code to window

evars == <<now, events, issued, emit, link, reg, codes>>

None == -1
NoReg == [pc |-> "idle", pending |-> 0, from |-> 0, to |-> 0, code |-> 0,
          default |-> FALSE]

Init ==
    /\ now = Valid.from
    /\ events = << >>
    /\ issued = [i \in Invoices |-> None]
    /\ emit = [i \in Invoices |-> [pc |-> "none", at |-> 0]]
    /\ link = [i \in Invoices |-> 0]
    /\ reg = [r \in Registrars |-> NoReg]
    /\ codes = << >>

\* GetLatestByPointOfSale: by start date, then by creation.
Newer(d, e) ==
    \/ events[d].start > events[e].start
    \/ (events[d].start = events[e].start /\ d >= e)
Latest == {d \in DOMAIN events : \A e \in DOMAIN events : Newer(d, e)}
IsOpen(e) == ~events[e].synced /\ events[e].end = None
OpenLatest == {e \in Latest : IsOpen(e)}

-----------------------------------------------------------------------------
(* Emissions. *)

Tick ==
    /\ now < MaxTime /\ now' = now + 1
    /\ UNCHANGED <<events, issued, emit, link, reg, codes>>

CreateInvoice(i) ==
    /\ issued[i] = None
    /\ issued' = [issued EXCEPT ![i] = now]
    /\ UNCHANGED <<now, events, emit, link, reg, codes>>

\* openConnectivityContingency reads the latest event and joins it if open ...
FindEvent(i) ==
    /\ issued[i] # None /\ emit[i].pc = "none"
    /\ emit' = [emit EXCEPT ![i] = IF OpenLatest = {}
                                   THEN [pc |-> "open", at |-> 0]
                                   ELSE [pc |-> "link", at |-> CHOOSE e \in OpenLatest : TRUE]]
    /\ UNCHANGED <<now, events, issued, link, reg, codes>>

\* ... or creates one that starts with the invoice.
OpenEvent(i) ==
    /\ emit[i].pc = "open" /\ Len(events) < MaxEvents
    /\ events' = Append(events, [start |-> issued[i], end |-> None,
                                 synced |-> FALSE, code |-> 0])
    /\ emit' = [emit EXCEPT ![i] = [pc |-> "link", at |-> Len(events) + 1]]
    /\ UNCHANGED <<now, issued, link, reg, codes>>

\* The invoice turns OFFLINE with its event.
GoOffline(i) ==
    /\ emit[i].pc = "link"
    /\ link' = [link EXCEPT ![i] = emit[i].at]
    /\ emit' = [emit EXCEPT ![i].pc = "offline"]
    /\ UNCHANGED <<now, events, issued, reg, codes>>

-----------------------------------------------------------------------------
(* RegistrarEventoSignificativo. *)

\* A request without dates completes the open event, up to now ...
LaterThan(a, start) == IF a > start THEN a ELSE start + 1
CompletedAtNow(e) == [from |-> events[e].start, to |-> now]
Completed(e) == [from |-> events[e].start, to |-> LaterThan(now, events[e].start)]

\* ... or, without one, takes the default window, moved into the CUFD's span.
HolgadaUnclamped == [from |-> now - Before, to |-> now - Before + Window]
Holgada ==
    LET to == now - Before + Window
        from == IF to > Valid.to THEN Valid.to - Window ELSE now - Before
    IN [from |-> IF from < Valid.from THEN Valid.from ELSE from,
        to |-> IF to > Valid.to THEN Valid.to ELSE to]

\* (With dates it must put the first before the second.)
ReadEvent(r) ==
    /\ reg[r].pc = "idle" /\ now <= Valid.to
    /\ \E given \in BOOLEAN, w \in Given \cup {Holgada} \cup {Completed(e) : e \in OpenLatest} :
          /\ given => w \in Given
          /\ ~given => w = IF OpenLatest = {} THEN Holgada
                           ELSE Completed(CHOOSE e \in OpenLatest : TRUE)
          /\ reg' = [reg EXCEPT ![r] =
                [pc |-> "ask", from |-> w.from, to |-> w.to, code |-> 0,
                 default |-> ~given /\ OpenLatest = {},
                 pending |-> IF OpenLatest = {} THEN 0 ELSE CHOOSE e \in OpenLatest : TRUE]]
    /\ UNCHANGED <<now, events, issued, emit, link, codes>>

\* The SIAT registers the event, or the call fails.
Register(r) ==
    /\ reg[r].pc = "ask"
    /\ \/ /\ Len(codes) < MaxEvents
          /\ codes' = Append(codes, [from |-> reg[r].from, to |-> reg[r].to])
          /\ reg' = [reg EXCEPT ![r].pc = "persist", ![r].code = Len(codes) + 1]
       \/ /\ reg' = [reg EXCEPT ![r] = NoReg]
          /\ UNCHANGED codes
    /\ UNCHANGED <<now, events, issued, emit, link>>

Registered(r) == [start |-> reg[r].from, end |-> reg[r].to, synced |-> TRUE,
                  code |-> reg[r].code]

\* It is stored in the event that was open when the request began, or in a new
\* one; a failure to store it is only logged.
Persist(r) ==
    /\ reg[r].pc = "persist"
    /\ \/ /\ reg[r].pending # 0
          /\ events' = [events EXCEPT ![reg[r].pending] = Registered(r)]
       \/ /\ reg[r].pending = 0 /\ Len(events) < MaxEvents
          /\ events' = Append(events, Registered(r))
       \/ UNCHANGED events
    /\ reg' = [reg EXCEPT ![r] = NoReg]
    /\ UNCHANGED <<now, issued, emit, link, codes>>

-----------------------------------------------------------------------------
Next ==
    \/ Tick
    \/ \E i \in Invoices : CreateInvoice(i) \/ FindEvent(i) \/ OpenEvent(i) \/ GoOffline(i)
    \/ \E r \in Registrars : ReadEvent(r) \/ Register(r) \/ Persist(r)

Spec == Init /\ [][Next]_evars

-----------------------------------------------------------------------------
\* batchEvent and selectBatchInvoices: what a package accepts of its event.
Sendable(e) == {i \in Invoices : /\ link[i] = e
                                 /\ issued[i] >= events[e].start
                                 /\ issued[i] <= events[e].end}

TypeOK ==
    /\ now \in Nat
    /\ events \in Seq([start : Int, end : Int, synced : BOOLEAN, code : 0..MaxEvents])
    /\ issued \in [Invoices -> Int]
    /\ emit \in [Invoices -> [pc : {"none", "open", "link", "offline"}, at : 0..MaxEvents]]
    /\ link \in [Invoices -> 0..Len(events)]
    /\ reg \in [Registrars -> [pc : {"idle", "ask", "persist"}, pending : 0..Len(events),
                               from : Int, to : Int, code : 0..MaxEvents,
                               default : BOOLEAN]]
    /\ codes \in Seq([from : Int, to : Int])

\* What is asked of the SIAT is an interval, and the default window lies in the
\* CUFD's span, however close to its ends the request comes.
WindowIsSound ==
    \A r \in DOMAIN reg : reg[r].pc = "ask" =>
        /\ reg[r].from < reg[r].to
        /\ reg[r].default => Valid.from <= reg[r].from /\ reg[r].to <= Valid.to

\* A synced event is one the SIAT registered, with that window, and no two
\* events share a registration: what batchEvent sends packages with.
SyncedIsRegistered ==
    \A e \in DOMAIN events : events[e].synced =>
        /\ events[e].code \in DOMAIN codes
        /\ [from |-> events[e].start, to |-> events[e].end] = codes[events[e].code]
        /\ \A f \in DOMAIN events \ {e} : events[f].code # events[e].code

\* "El inicio debe abarcar las facturas offline ya vinculadas al evento": the
\* open event, completed without dates, covers the invoices linked to it.
OpenCoversLinked ==
    \A e \in DOMAIN events, i \in Invoices :
        link[i] = e /\ IsOpen(e) => issued[i] >= events[e].start
=============================================================================
