-------------------------------- MODULE Drafts --------------------------------
(***************************************************************************)
(* The creation of drafts at one point of sale (InvoiceUsecase.Create and   *)
(* PostgresInvoiceRepository.Create).  Each request runs in its own         *)
(* goroutine; the number comes from the row of invoice_sequences, locked    *)
(* from its UPDATE to the end of the transaction that inserts the invoice.  *)
(* The public route simplifies the request first (DraftRequests), so it     *)
(* reads the referenced sale twice; emission may change that sale's CUF     *)
(* and the company its modality in between.                                 *)
(*                                                                         *)
(* Which point of sale, credentials and catalogues a draft needs is in      *)
(* Credentials and CatalogSync (ReadyWasStored).                            *)
(***************************************************************************)
EXTENDS DraftRequests

CONSTANTS
    Creators,   \* the requests in progress at once
    Idle,       \* the lock's holder when it is free
    Bodies,     \* what a client may send
    Sale,       \* the lines of the sale its notes correct
    Cufs,       \* the CUFs that sale may have
    Actividad,  \* the sector of the company's activity
    MaxDrafts,  \* bound on the drafts created
    MaxChanges  \* bound on the changes to the sale and the company

DraftsAssumption ==
    /\ Idle \notin Creators /\ NoCuf \notin Cufs /\ MaxDrafts \in Nat /\ Actividad \in Nat
    /\ LineasCompletas(Sale)
    /\ \A body \in Bodies : SolicitudCompleta(body)

VARIABLES
    company,    \* its modality and the rows of customers with the receiver's data
    ref,        \* the referenced sale
    siguiente,  \* invoice_sequences.next_number, as its transaction sees it
    lock,       \* who holds the row
    facturas,   \* invoices: the committed rows
    alta,       \* each creator's step and its copies of what it has read
    seen        \* the bodies that were simplified and then refused while the sale
                \* and the company stayed as they are, and the changes so far
vars == <<company, ref, siguiente, lock, facturas, alta, seen>>

SinAlta == [paso |-> "idle"]
Venta(cuf) == [cuf |-> cuf, items |-> Sale]

Init ==
    /\ company = [modalidad |-> Electronica, customers |-> 0]
    /\ ref \in {Venta(cuf) : cuf \in Cufs \cup {NoCuf}}
    /\ siguiente = 1
    /\ lock = Idle
    /\ facturas = {}
    /\ alta = [c \in Creators |-> SinAlta]
    /\ seen = [refused |-> {}, changes |-> 0]

Simplified(body) == Simplify(body, ref, Actividad, company.modalidad)
Set(c, a) == alta' = [alta EXCEPT ![c] = a]

-----------------------------------------------------------------------------
(* Requests *)

\* The preview only answers what Simplify gives.
PreviewSimplified(body) == Simplified(body) # {}

\* vigente: nothing the request was simplified from has changed since.
CreateSimplified(c) ==
    /\ alta[c].paso = "idle" /\ Cardinality(facturas) < MaxDrafts
    /\ \E body \in Bodies : \E s \in Simplified(body) :
          Set(c, [paso |-> "validar", request |-> s, modalidad |-> company.modalidad,
                  simplified |-> TRUE, vigente |-> TRUE, body |-> body])
    /\ UNCHANGED <<company, ref, siguiente, lock, facturas, seen>>

\* The complete route; sector 0 here skips what is copied to a note.
Create(c) ==
    /\ alta[c].paso = "idle" /\ Cardinality(facturas) < MaxDrafts
    /\ \E body \in Bodies :
          Set(c, [paso |-> "validar", request |-> body, modalidad |-> company.modalidad,
                  simplified |-> FALSE, vigente |-> TRUE, body |-> body])
    /\ UNCHANGED <<company, ref, siguiente, lock, facturas, seen>>

\* The receiver of these requests is one and the same.
ClienteConocido == company.customers > 0

\* The checks of Create, up to the customer it found or has to insert.
Validar(c) ==
    LET a == alta[c]
        borradores == BorradorDe(a.request, ref, Actividad, a.modalidad)
    IN /\ a.paso = "validar"
       /\ IF borradores = {}
          THEN /\ Set(c, SinAlta)
               /\ seen' = IF a.simplified /\ a.vigente
                          THEN [seen EXCEPT !.refused = @ \cup {a.body}] ELSE seen
          ELSE /\ \E b \in borradores :
                     Set(c, [paso |-> IF ClienteConocido THEN "numerar" ELSE "cliente",
                             row |-> b, cufLeido |-> ref.cuf, explicito |-> a.request.sector > 0])
               /\ UNCHANGED seen
       /\ UNCHANGED <<company, ref, siguiente, lock, facturas>>

\* In a transaction of its own: it stays when the invoice is not inserted.
InsertarCliente(c) ==
    /\ alta[c].paso = "cliente"
    /\ company' = [company EXCEPT !.customers = @ + 1]
    /\ Set(c, [alta[c] EXCEPT !.paso = "numerar"])
    /\ UNCHANGED <<ref, siguiente, lock, facturas, seen>>

\* UPDATE invoice_sequences ... RETURNING next_number - 1.
TomarNumero(c) ==
    /\ alta[c].paso = "numerar" /\ lock = Idle
    /\ lock' = c
    /\ siguiente' = siguiente + 1
    /\ Set(c, [paso |-> "insertar", row |-> alta[c].row, numero |-> siguiente,
               cufLeido |-> alta[c].cufLeido, explicito |-> alta[c].explicito])
    /\ UNCHANGED <<company, ref, facturas, seen>>

Insertar(c) ==
    /\ alta[c].paso = "insertar"
    /\ facturas' = facturas \cup
           {[numero |-> alta[c].numero, row |-> alta[c].row,
             cufLeido |-> alta[c].cufLeido, explicito |-> alta[c].explicito]}
    /\ lock' = Idle
    /\ Set(c, SinAlta)
    /\ UNCHANGED <<company, ref, siguiente, seen>>

\* The transaction is undone: an insert refused, a lost connection, a dead process.
\* The number would be spent.
NumeroGastado(c) == siguiente
Restaurado(c) == alta[c].numero
Deshacer(c) ==
    /\ alta[c].paso = "insertar"
    /\ siguiente' = Restaurado(c)
    /\ lock' = Idle
    /\ Set(c, SinAlta)
    /\ UNCHANGED <<company, ref, facturas, seen>>

\* A request that ends before its transaction leaves what it inserted.
Abandonar(c) ==
    /\ alta[c].paso \in {"cliente", "numerar"}
    /\ Set(c, SinAlta)
    /\ UNCHANGED <<company, ref, siguiente, lock, facturas, seen>>

-----------------------------------------------------------------------------
(* What the requests have read may change. *)

Cambio ==
    /\ seen.changes < MaxChanges
    /\ seen' = [refused |-> {}, changes |-> seen.changes + 1]
    /\ alta' = [c \in Creators |->
           IF alta[c].paso = "validar" THEN [alta[c] EXCEPT !.vigente = FALSE] ELSE alta[c]]
\* Emission gives the sale a CUF, and until the SIAT accepts it may give another.
RefCambia ==
    /\ \E cuf \in Cufs \ {ref.cuf} : ref' = Venta(cuf)
    /\ Cambio
    /\ UNCHANGED <<company, siguiente, lock, facturas>>
ModalidadCambia ==
    /\ company' = [company EXCEPT !.modalidad =
           IF @ = Electronica THEN Computarizada ELSE Electronica]
    /\ Cambio
    /\ UNCHANGED <<ref, siguiente, lock, facturas>>

Next ==
    \/ RefCambia \/ ModalidadCambia
    \/ \E c \in Creators :
          \/ CreateSimplified(c) \/ Create(c) \/ Validar(c) \/ InsertarCliente(c)
          \/ TomarNumero(c) \/ Insertar(c) \/ Deshacer(c) \/ Abandonar(c)

Spec == Init /\ [][Next]_vars

-----------------------------------------------------------------------------
(* Properties *)

Pasos == {"idle", "validar", "cliente", "numerar", "insertar"}
TypeOK ==
    /\ company.modalidad \in {Electronica, Computarizada} /\ company.customers \in Nat
    /\ ref.cuf \in Cufs \cup {NoCuf}
    /\ siguiente \in Nat \ {0}
    /\ lock \in Creators \cup {Idle}
    /\ \A f \in facturas : f.numero \in Nat \ {0}
    /\ \A c \in Creators : alta[c].paso \in Pasos

\* However requests interleave, fail and are undone, the drafts of a point of
\* sale are numbered 1, 2, 3, ... with neither a gap nor a number used twice.
DenseNumbers ==
    LET enCurso == IF lock = Idle THEN 0 ELSE 1 IN
    /\ {f.numero : f \in facturas} = 1..(siguiente - 1 - enCurso)
    /\ \A f, g \in facturas : f.numero = g.numero => f = g

\* A note carries the CUF its sale had when the creation checked it, and its
\* lines are lines of the sale, although the public route copied them from an
\* earlier reading; notes of the complete route that name no sector copy
\* nothing and are not covered.
NoteMatchesReference ==
    \A f \in facturas : esSectorAjuste(f.row.sector) /\ f.explicito =>
        /\ f.row.cuf = f.cufLeido
        /\ \A k \in DOMAIN f.row.items :
               \E o \in DOMAIN Sale : Sale[o].code = f.row.items[k].code

\* One request serves the preview, the creation and the emission (api-v1.md), and
\* "En ajustes se pueden omitir `items` para copiar las lineas originales": what
\* the preview accepts, the creation accepts while nothing has changed.
PreviewedIsCreatable == \A body \in seen.refused : ~PreviewSimplified(body)
=============================================================================
