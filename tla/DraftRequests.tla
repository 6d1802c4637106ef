---------------------------- MODULE DraftRequests ----------------------------
(***************************************************************************)
(* From a request to a draft: InvoiceRequestSimplifier.Simplify (the public *)
(* request), autofillDocumentoAjusteDescuento (what a note copies from the  *)
(* sale it corrects) and the checks of InvoiceUsecase.Create.  Operators    *)
(* only; an operator that may refuse returns a set, empty when it does.     *)
(*                                                                         *)
(* A request has                                                            *)
(*   sector, layout, tipo   what it asks for, 0 when it leaves it to Supay  *)
(*   nota                   invoice_type is credit_note or debit_note (an   *)
(*                          education is a request that names sector 11)    *)
(*   referencia             it names the invoice it corrects                *)
(*   mismo                  its receiver is that invoice's                  *)
(*   cuf                    the CUF in its sector data, NoCuf when absent   *)
(*   items, total           lines, and the total sent without lines         *)
(*   datos                  the rest of its sector data (see Sectors)       *)
(*   descuento, gift        the amounts of the header, in thousandths       *)
(*   archivo                it brings its own XML, hash and CUF             *)
(* and a line has code and sku, fiscal (description and SIN codes present), *)
(* datos, and the three amounts of Sectors.                                 *)
(***************************************************************************)
EXTENDS Sectors

NoCuf == "sin_cuf"
NoCode == ""
SinTotal == -1

\* A line and a request have their fields, and amounts in thousandths or cents.
LineaCompleta(it) ==
    /\ {"code", "sku", "fiscal", "datos", "cantidad", "precio", "descuento"} \subseteq DOMAIN it
    /\ it.cantidad \in Int /\ it.precio \in Int /\ it.descuento \in Int
LineasCompletas(items) ==
    /\ items \in Seq({items[k] : k \in DOMAIN items})
    /\ \A k \in DOMAIN items : LineaCompleta(items[k])
SolicitudCompleta(r) ==
    /\ {"sector", "layout", "tipo", "nota", "referencia", "mismo", "cuf", "items", "total",
        "datos", "descuento", "gift", "archivo"} \subseteq DOMAIN r
    /\ r.sector \in Int /\ r.total \in Int /\ r.descuento \in Int /\ r.gift \in Int
    /\ LineasCompletas(r.items)

-----------------------------------------------------------------------------
(* Notes: what autofillDocumentoAjusteDescuento completes. *)

\* The clone sets code and leaves sku empty; of the line's data only the keys
\* the note's profile requires are kept.
cloneItemsFromReferencia(p, items) ==
    [k \in DOMAIN items |->
        [items[k] EXCEPT !.sku = NoCode,
            !.datos = [c \in DOMAIN items[k].datos \cap p.camposDetalle |->
                           items[k].datos[c]]]]

CodigoItem(it) == IF it.code # NoCode THEN it.code ELSE it.sku
\* Any line would be taken for one of the sale.
PerteneceSiempre(it, originals) == TRUE
Pertenece(it, originals) == \E o \in DOMAIN originals : originals[o].code = CodigoItem(it)
hydrateAdjustmentItems(items) ==
    [k \in DOMAIN items |->
        [items[k] EXCEPT !.code = CodigoItem(items[k]), !.sku = CodigoItem(items[k]),
                         !.fiscal = TRUE]]

\* The header fields of the note, taken from the sale; sector 29 reconciles
\* instead of returning.
buildDatosSectorNotaDescuento(r, ref) ==
    LET puestos == IF r.sector = 29
                   THEN {"numero_autorizacion_cuf", "fecha_emision_factura",
                         "monto_total_original", "monto_total_conciliado"}
                   ELSE NotaCampos
        quitados == IF r.sector = 29
                    THEN {"monto_total_devuelto", "monto_efectivo_credito_debito"} ELSE {}
        claves == (DOMAIN r.datos \cup puestos) \ quitados
    IN [r EXCEPT !.cuf = ref.cuf,
            !.datos = [k \in claves |-> IF k \in puestos THEN "ok" ELSE r.datos[k]]]

autofillDocumentoAjusteDescuento(r, ref) ==
    IF ~r.referencia \/ ~esSectorAjuste(r.sector) THEN {r}
    ELSE IF ref.cuf = NoCuf \/ r.cuf \notin {NoCuf, ref.cuf} THEN {}
    ELSE IF r.items = << >>
    THEN {buildDatosSectorNotaDescuento(
              [r EXCEPT !.items = cloneItemsFromReferencia(p, ref.items)], ref) :
          p \in PerfilSectorLayout(r.sector, r.layout)}
    ELSE IF \A k \in DOMAIN r.items : Pertenece(r.items[k], ref.items)
    THEN {buildDatosSectorNotaDescuento(
              [r EXCEPT !.items = hydrateAdjustmentItems(r.items)], ref)}
    ELSE {}

-----------------------------------------------------------------------------
(* The sector, the checks both routes share, and the amounts. *)

\* actividad is the sector the catalogue gives the company's activity.
resolveInvoiceSector(r, actividad) ==
    IF r.sector > 0 THEN r.sector ELSE IF r.nota THEN 24 ELSE actividad

SubtotalDe(r, items) == IF r.total # SinTotal THEN r.total ELSE SumaSubtotales(items)
Normalizados(p, items) ==
    [k \in DOMAIN items |-> NormalizarImportesItem(p.codigo, items[k])]

\* A total replaces the lines only where the document may have none.
TotalCoherente(p, r) ==
    /\ r.total # SinTotal => ~ConDetalle(p) /\ r.items = << >> /\ r.total >= 0
    /\ r.total = SinTotal => ConDetalle(p) \/ r.items # << >>
ImportesAdmitidos(p, r) ==
    TotalAdmitido(SubtotalDe(r, Normalizados(p, r.items)), r.descuento, r.gift)

-----------------------------------------------------------------------------
(* Simplify: the request the preview shows and the creation continues with. *)

ItemSimplificable(it, copiado) ==
    /\ it.sku # NoCode
    /\ it.cantidad > 0 /\ it.precio >= 0 /\ it.descuento >= 0
    /\ 1000 * it.descuento <= it.cantidad * it.precio
    /\ it.fiscal \/ copiado

\* A note without a sector is a sector 24, before its sale is looked at.
SectorDeNota(r) == IF r.sector = 0 /\ r.nota THEN 24 ELSE r.sector

ConSector(r, sector) == [r EXCEPT !.sector = sector]
\* The line's code becomes its sku.
Solicitud(p, t) ==
    [t EXCEPT !.datos = PrepararDatosSector(p, @),
              !.items = [k \in DOMAIN t.items |->
                  [Normalizados(p, t.items)[k] EXCEPT !.code = t.items[k].sku]]]

\* The modality is the company's.
Simplify(r, ref, actividad, modalidad) ==
    LET s == ConSector(r, SectorDeNota(r))
        copiado == esSectorAjuste(s.sector) /\ s.referencia
        Resuelto(t) == ConSector(t, resolveInvoiceSector(t, actividad))
        Admite(p, t) ==
            /\ ValidarModalidad(p, modalidad) /\ HasBuilder(p)
            /\ DetalleUnico(p) => Len(t.items) = 1
            /\ ConDetalle(p) => t.items # << >>
            /\ TotalCoherente(p, t)
            /\ EsAjuste(p) <=> t.referencia
            /\ t.nota => EsAjuste(p)
            /\ ValidarDatosSector(p, t.datos)
            /\ \A k \in DOMAIN t.items : ValidarDatosDetalle(p, t.items[k].datos)
            /\ ImportesAdmitidos(p, t)
    IN IF \/ s.items = << >> /\ ~s.referencia /\ s.total = SinTotal
          \/ \E k \in DOMAIN s.items : ~ItemSimplificable(s.items[k], copiado)
       THEN {}
       ELSE UNION {{Solicitud(p, Resuelto(t)) :
                       p \in {q \in PerfilSectorLayout(Resuelto(t).sector, t.layout) :
                                  Admite(q, Resuelto(t))}} :
                   t \in {u \in autofillDocumentoAjusteDescuento(s, ref) :
                              u.referencia /\ esSectorAjuste(u.sector) => u.mismo}}

\* The amounts a preview promises.
Previsto(r) ==
    LET p == CHOOSE q \in PerfilSectorLayout(r.sector, r.layout) : TRUE
        subtotal == SubtotalDe(r, Normalizados(p, r.items))
    IN [sector |-> p.codigo, subtotal |-> subtotal,
        total |-> TotalDocumento(subtotal, r.descuento)]

-----------------------------------------------------------------------------
(* Create: the checks in front of the transaction, and the draft they leave. *)

\* The sector data of the lines would not be validated.
ItemSinDatosAdmitido(p, it) ==
    /\ CodigoItem(it) # NoCode /\ it.fiscal
    /\ it.cantidad > 0 /\ it.precio >= 0 /\ it.descuento >= 0
    /\ CalcularSubtotal(it) >= 0
ItemAdmitido(p, it) ==
    /\ CodigoItem(it) # NoCode /\ it.fiscal
    /\ it.cantidad > 0 /\ it.precio >= 0 /\ it.descuento >= 0
    /\ ValidarDatosDetalle(p, it.datos)
    /\ CalcularSubtotal(it) >= 0

Borrador(p, r, modalidad) ==
    LET items == [k \in DOMAIN r.items |->
                     [Normalizados(p, r.items)[k] EXCEPT !.code = CodigoItem(r.items[k])]]
        subtotal == SubtotalDe(r, items)
    IN [sector |-> p.codigo, layout |-> r.layout, modalidad |-> modalidad,
        tipo |-> TipoDocumentoResuelto(p, r.tipo), items |-> items,
        datos |-> PrepararDatosSector(p, r.datos), cuf |-> r.cuf,
        descuento |-> r.descuento, gift |-> r.gift, archivo |-> r.archivo,
        subtotal |-> subtotal, total |-> TotalDocumento(subtotal, r.descuento)]

BorradorDe(r, ref, actividad, modalidad) ==
    LET Admite(p, t) ==
            /\ t.items # << >> \/ t.sector = 30
            /\ ValidarModalidad(p, modalidad)
            /\ TotalCoherente(p, t)
            /\ DetalleUnico(p) => Len(t.items) = 1
            /\ HasBuilder(p) \/ t.archivo
            /\ ValidarDatosSector(p, t.datos)
            /\ EsAjuste(p) => t.referencia /\ t.mismo /\ ref.cuf # NoCuf
            /\ \A k \in DOMAIN t.items : ItemAdmitido(p, Normalizados(p, t.items)[k])
            /\ ImportesAdmitidos(p, t)
    IN UNION {{Borrador(p, t, modalidad) :
                  p \in {q \in PerfilSectorLayout(resolveInvoiceSector(t, actividad),
                                                  t.layout) : Admite(q, t)}} :
              t \in autofillDocumentoAjusteDescuento(r, ref)}
=============================================================================
