------------------------------ MODULE Documents ------------------------------
(***************************************************************************)
(* A document on its way to the SIAT: drafted, emitted by itself, prepared  *)
(* offline and sent in a package, or sent in bulk; then verified, annulled  *)
(* and reverted.  What varies is the sector, the modality of the company,   *)
(* which may change at any time, and the amounts, which the draft, the      *)
(* emission and the SIAT adapter each calculate again.                      *)
(*                                                                         *)
(* Emission, Batches and Lifecycle model when these calls are made and what *)
(* their answers do; this module models what the calls carry.  A call is    *)
(* recorded with the service that received it.                              *)
(***************************************************************************)
EXTENDS Drafts

CONSTANTS
    DocumentBodies,  \* the requests a client may send
    Sales            \* the sales a note may correct

DocumentsAssumption ==
    /\ \A body \in DocumentBodies : SolicitudCompleta(body)
    /\ \A sale \in Sales : LineasCompletas(sale.items)

VARIABLES
    modalidad,  \* the company's modality
    doc,        \* the document: its stage, its row and the XML it keeps
    promesa,    \* what the preview of its request promised, if it has one
    llamadas    \* the calls made for it
dvars == <<modalidad, doc, promesa, llamadas>>

EmisionOnline == 1
EmisionPaqueteOffline == 2
EmisionMasiva == 3
Emitidas == {"SENT", "PACKAGED", "BULK"}

SinDocumento == [stage |-> "none"]

DocumentInit ==
    /\ modalidad \in {Electronica, Computarizada}
    /\ doc = SinDocumento
    /\ promesa = {}
    /\ llamadas = {}

-----------------------------------------------------------------------------
(* The draft.  The columns keep discounts in cents. *)

Persistido(b) ==
    [b EXCEPT !.items = [k \in DOMAIN b.items |->
        [b.items[k] EXCEPT !.descuento = 10 * Centavos(@)]]]

Nuevo(b, sale) ==
    [stage |-> "PENDING", row |-> Persistido(b), xml |-> {},
     sale |-> sale.items,               \* of the invoice it references
     exacto |-> Persistido(b) = b]      \* the columns keep its amounts

SinVenta == [cuf |-> NoCuf, items |-> << >>]
VentasDe(body) == IF body.referencia THEN Sales ELSE {SinVenta}

\* The public route: previewed and created from the same simplified request.
DraftSimplified ==
    /\ doc.stage = "none"
    /\ \E body \in DocumentBodies : \E sale \in VentasDe(body) :
       \E s \in Simplify(body, sale, Actividad, modalidad) :
       \E b \in BorradorDe(s, sale, Actividad, modalidad) :
          /\ doc' = Nuevo(b, sale)
          /\ promesa' = {Previsto(s)}
    /\ UNCHANGED <<modalidad, llamadas>>

\* The complete route takes the modality of the request.
DraftComplete ==
    /\ doc.stage = "none"
    /\ \E body \in DocumentBodies, m \in {Electronica, Computarizada} :
       \E sale \in VentasDe(body) : \E b \in BorradorDe(body, sale, Actividad, m) :
          doc' = Nuevo(b, sale)
    /\ UNCHANGED <<modalidad, promesa, llamadas>>

CambiarModalidad ==
    /\ modalidad' = IF modalidad = Electronica THEN Computarizada ELSE Electronica
    /\ UNCHANGED <<doc, promesa, llamadas>>

-----------------------------------------------------------------------------
(* The XML and the calls. *)

Row == doc.row
PerfilDoc == CHOOSE p \in PerfilSectorLayout(Row.sector, Row.layout) : TRUE

\* Notes that list the lines of their sale load them again from it.
LineasOriginales(p) ==
    IF EsAjuste(p) /\ ("par" \in p.rasgos \/ p.codigo \in {24, 29}) THEN doc.sale ELSE << >>
\* The lines that go with the note's own profile must carry its data; the
\* original lines of sector 29 have a builder without it.
OriginalesValidos(p) ==
    p.codigo # 29 =>
        \A k \in DOMAIN LineasOriginales(p) :
            ValidarDatosDetalle(p,
                cloneItemsFromReferencia(p, LineasOriginales(p))[k].datos)

\* The emission calculates the lines again from the stored row; a ticket
\* without lines keeps its subtotal.
SubtotalEmision ==
    IF Row.sector = 30 /\ Row.items = << >> THEN Row.subtotal ELSE SumaSubtotales(Row.items)
TotalEmision == TotalDocumento(SubtotalEmision, Row.descuento)
\* A batch sends the stored total, except that the builder of sector 1
\* calculates it again.
TotalLote ==
    IF Row.sector = 1 /\ Row.items # << >>
    THEN TotalDocumento(SumaSubtotales(Normalizados(PerfilDoc, Row.items)), Row.descuento)
    ELSE Row.total

XmlDe(p, total, emision, originales) ==
    [sector |-> p.codigo, tipo |-> Row.tipo, modalidad |-> Row.modalidad,
     emision |-> emision, total |-> total,
     base |-> MontoTotalSujetoIva(p, total, Row.gift),
     lineas |-> LineasXML(p, Len(originales), Len(Row.items))]

\* A call goes to the service its profile and the modality it carries name.
LlamadaCon(op, p, m, xml) ==
    [op |-> op, servicio |-> Servicio(p, m), sector |-> p.codigo, tipo |-> Row.tipo,
     modalidad |-> m, xml |-> xml]
Registrar(op, xml) ==
    llamadas' = llamadas \cup {LlamadaCon(op, PerfilDoc, Row.modalidad, xml)}

\* SolicitudFactura.validate and the checks of buildFacturaSDK.
AdaptadorAdmite(p) ==
    /\ ValidarModalidad(p, Row.modalidad)
    /\ HasBuilder(p) \/ Row.archivo
    /\ ConDetalle(p) /\ HasBuilder(p) => Row.items # << >>
    /\ ValidarDatosSector(p, Row.datos)
    /\ \A k \in DOMAIN Row.items : ValidarDatosDetalle(p, Row.items[k].datos)
    /\ OriginalesValidos(p)

\* Emit refuses an air ticket and checks the modality the company has now.
Emitible ==
    LET p == PerfilDoc IN
    /\ AdmiteIndividual(p)
    /\ ValidarModalidad(p, modalidad)
    /\ TotalAdmitido(SubtotalEmision, Row.descuento, Row.gift)
    /\ \A k \in DOMAIN Row.items : CalcularSubtotal(Row.items[k]) >= 0
    /\ AdaptadorAdmite(p)
XmlIndividual(emision) ==
    XmlDe(PerfilDoc, TotalEmision, emision, LineasOriginales(PerfilDoc))

\* One emission: accepted, or refused and PENDING again.
Emitir ==
    /\ doc.stage = "PENDING"
    /\ Emitible
    /\ Registrar("recepcion", {XmlIndividual(EmisionOnline)})
    /\ \/ doc' = [doc EXCEPT !.stage = "SENT", !.xml = {XmlIndividual(EmisionOnline)}]
       \/ UNCHANGED doc
    /\ UNCHANGED <<modalidad, promesa>>

\* Without connection the document is built again with offline emission; an
\* external one has no XML to keep and stays PENDING.
PrepararFacturaOffline ==
    /\ doc.stage = "PENDING"
    /\ Emitible /\ HasBuilder(PerfilDoc)
    /\ Registrar("recepcion", {XmlIndividual(EmisionOnline)})
    /\ doc' = [doc EXCEPT !.stage = "OFFLINE",
                          !.xml = {XmlIndividual(EmisionPaqueteOffline)}]
    /\ UNCHANGED <<modalidad, promesa>>

\* A package sends the stored XML, whose CUF must be the one its row gives.
validarXMLPersistido(p, xml) ==
    /\ xml.sector = p.codigo /\ xml.tipo = Row.tipo /\ xml.modalidad = Row.modalidad
    /\ xml.emision = EmisionPaqueteOffline
Empaquetable ==
    LET p == PerfilDoc IN
    /\ ValidarModalidad(p, Row.modalidad)
    /\ AdmitePaquete(p)
    /\ doc.xml # {} /\ \A xml \in doc.xml : validarXMLPersistido(p, xml)
EnviarPaqueteFactura ==
    /\ doc.stage = "OFFLINE"
    /\ Empaquetable
    /\ Registrar("paquete", doc.xml)
    /\ \/ doc' = [doc EXCEPT !.stage = "PACKAGED"]
       \/ UNCHANGED doc
    /\ UNCHANGED <<modalidad, promesa>>

\* A bulk lot builds every XML; lots of external documents have no archive.
Masiva ==
    LET p == PerfilDoc IN
    /\ AdmiteMasiva(p) /\ HasBuilder(p)
    /\ AdaptadorAdmite(p)
XmlMasiva == XmlDe(PerfilDoc, TotalLote, EmisionMasiva, << >>)
EnviarMasivaFacturas ==
    /\ doc.stage = "PENDING"
    /\ Masiva
    /\ Registrar("masiva", {XmlMasiva})
    /\ \/ doc' = [doc EXCEPT !.stage = "BULK", !.xml = {XmlMasiva}]
       \/ UNCHANGED doc
    /\ UNCHANGED <<modalidad, promesa>>

-----------------------------------------------------------------------------
(* Verification, annulment and its reversal identify the document.  Each is  *)
(* sent where the emission went: buildSolicitudDocumento carries the row's   *)
(* modality, sector and type.                                                *)

ModalidadDeLaEmpresa == modalidad
ModalidadSolicitud == Row.modalidad
SolicitarDocumento(op) ==
    llamadas' = llamadas \cup {LlamadaCon(op, PerfilDoc, ModalidadSolicitud, {})}

VerificarEstado ==
    /\ doc.stage \in Emitidas \cup {"CANCELLED"}
    /\ SolicitarDocumento("verificacion")
    /\ UNCHANGED <<modalidad, doc, promesa>>
AnularFactura ==
    /\ doc.stage \in Emitidas
    /\ SolicitarDocumento("anulacion")
    /\ doc' = [doc EXCEPT !.stage = "CANCELLED"]
    /\ UNCHANGED <<modalidad, promesa>>
RevertirAnulacion ==
    /\ doc.stage = "CANCELLED"
    /\ SolicitarDocumento("reversion")
    /\ doc' = [doc EXCEPT !.stage = "SENT"]
    /\ UNCHANGED <<modalidad, promesa>>

DocumentNext ==
    \/ DraftSimplified \/ DraftComplete \/ CambiarModalidad
    \/ Emitir \/ PrepararFacturaOffline \/ EnviarPaqueteFactura \/ EnviarMasivaFacturas
    \/ VerificarEstado \/ AnularFactura \/ RevertirAnulacion

DocumentSpec == DocumentInit /\ [][DocumentNext]_dvars

-----------------------------------------------------------------------------
(* Properties *)

DocumentTypeOK ==
    /\ modalidad \in {Electronica, Computarizada}
    /\ doc.stage \in {"none", "PENDING", "OFFLINE", "CANCELLED"} \cup Emitidas
    /\ doc.stage # "none" =>
           /\ PerfilSectorLayout(Row.sector, Row.layout) # {}
           /\ Row.modalidad \in {Electronica, Computarizada}
           /\ \A x, y \in doc.xml : x = y
    /\ \A c \in llamadas :
           c.op \in {"recepcion", "paquete", "masiva", "verificacion", "anulacion",
                     "reversion"}

\* The SIAT finds a document where it was received: whatever happens to the
\* company in between, all the calls made for it go to one service with one
\* sector, type and modality, those of its draft; an adjustment to
\* documentoAjuste and no other document there.
RoutesAgree ==
    \A c \in llamadas :
        /\ <<c.sector, c.tipo, c.modalidad>> = <<Row.sector, Row.tipo, Row.modalidad>>
        /\ \A d \in llamadas : d.servicio = c.servicio
        /\ c.servicio = "documentoAjuste" <=> esSectorAjuste(c.sector)
        /\ \A xml \in c.xml : <<xml.sector, xml.tipo, xml.modalidad>> =
                                   <<c.sector, c.tipo, c.modalidad>>

\* The amounts calculated by the preview, the draft, the emission, the bulk lot
\* and the builder of sector 1 agree, with the header's discount applied once,
\* provided the columns keep the discounts of the lines exactly.  The lines of
\* every XML are numbered without gaps, and those of a note are the sale's
\* followed by its own.
AmountsAgree ==
    /\ \A v \in promesa : v.subtotal = Row.subtotal /\ v.total = Row.total
    /\ \A c \in llamadas : \A xml \in c.xml :
           /\ doc.exacto => xml.total = Row.total /\ xml.base <= Row.total
           /\ xml.total >= 0 /\ xml.base >= 0
           /\ \A k \in DOMAIN xml.lineas : xml.lineas[k][1] = k
           /\ Row.sector \in {24, 47, 48} /\ doc.sale # << >> =>
                  /\ Len(xml.lineas) = Len(doc.sale) + Len(Row.items)
                  /\ \A k \in DOMAIN xml.lineas :
                         xml.lineas[k][2] = IF k <= Len(doc.sale) THEN 1 ELSE 2

\* A draft that was accepted can be issued, by itself or in bulk, whatever the
\* modality of the company has become; and what was issued offline can be
\* packaged.  Notes are the exceptions: one whose sale lacks the data its own
\* lines need, or with a discount below the cent, may never be built, and one
\* issued offline is never packaged.
DraftHasRoute ==
    /\ /\ doc.stage = "PENDING" /\ HasBuilder(PerfilDoc)
       /\ EsAjuste(PerfilDoc) => doc.exacto /\ OriginalesValidos(PerfilDoc)
       => Emitible \/ Masiva
    /\ doc.stage = "OFFLINE" /\ ~EsAjuste(PerfilDoc) => Empaquetable
=============================================================================
