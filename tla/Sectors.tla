------------------------------- MODULE Sectors -------------------------------
(***************************************************************************)
(* The document sectors of the SIAT and the rules that depend on them:      *)
(* domain/fiscal/sectores.go and its catalogue, the amounts of totales.go,  *)
(* the service each sector is sent to (adapters/siat/fachadas.go) and the   *)
(* lines of the XML (document_builder.go).  Operators only: Drafts and      *)
(* Documents use them.                                                      *)
(*                                                                         *)
(* Of a profile's fields only the required ones are listed; of the optional *)
(* ones, whether it declares the two that change the amounts.  Quantities,  *)
(* prices and discounts of a line count thousandths, totals count cents.    *)
(***************************************************************************)
EXTENDS Integers, Sequences, FiniteSets

NoLayout == ""
Electronica == 1
Computarizada == 2

Perfil(codigo, layout, tipo, fachada, rasgos, campos, camposDetalle) ==
    [codigo |-> codigo, layout |-> layout, tipo |-> tipo, fachada |-> fachada,
     rasgos |-> rasgos, campos |-> campos, camposDetalle |-> camposDetalle]

\* Required fields that several sectors share.
NotaCampos == {"numero_autorizacion_cuf", "fecha_emision_factura",
               "monto_total_original", "monto_total_devuelto",
               "monto_efectivo_credito_debito"}
ExportacionCampos == {"codigo_pais", "direccion_comprador", "incoterm",
                      "incoterm_detalle", "lugar_destino", "monto_detalle",
                      "puerto_destino", "total_gastos_nacionales_fob"}
MineralCampos == {"concentrado_granel", "direccion_comprador",
                  "gastos_realizacion", "kilos_netos_humedos",
                  "kilos_netos_secos", "numero_lote", "origen"}
MineralDetalle == {"cantidad_extraccion", "codigo_nandina",
                   "descripcion_leyes", "unidad_medida_extraccion"}
ClinicaDetalle == {"nit_documento_medico", "nombre_apellido_medico",
                   "nro_quirofano_sala_operaciones"}

Sectores1a5 == {
    Perfil(1, NoLayout, 1, "compraVenta", {"descuento", "gift"}, {}, {}),
    Perfil(2, NoLayout, 1, "porModalidad", {"descuento"},
        {"periodo_facturado"}, {}),
    Perfil(3, NoLayout, 2, "porModalidad", {"descuento"},
        ExportacionCampos, {"codigo_nandina"}),
    Perfil(4, NoLayout, 2, "porModalidad", {},
        {"codigo_pais", "puerto_destino"}, {"codigo_nandina"}),
    Perfil(5, NoLayout, 2, "porModalidad", {"descuento", "gift"}, {}, {})}

Sectores6a11 == {
    Perfil(6, NoLayout, 2, "porModalidad", {"descuento", "gift"}, {}, {}),
    Perfil(7, NoLayout, 2, "porModalidad", {"descuento", "gift"}, {}, {}),
    Perfil(8, NoLayout, 2, "porModalidad", {"ivaCero", "descuento", "gift"},
        {}, {}),
    Perfil(9, NoLayout, 2, "porModalidad", {"descuento"}, {}, {}),
    Perfil(10, NoLayout, 2, "porModalidad", {"descuento", "gift"}, {}, {}),
    Perfil(11, NoLayout, 1, "porModalidad", {"descuento", "gift"},
        {"nombre_estudiante", "periodo_facturado"}, {})}

Sectores12a16 == {
    Perfil(12, NoLayout, 1, "porModalidad", {"descuento"}, {"placa_vehiculo"}, {}),
    Perfil(13, NoLayout, 1, "servicioBasico", {"descuento"}, {}, {}),
    Perfil(14, NoLayout, 1, "porModalidad", {"descuento"}, {}, {"marca_ice"}),
    Perfil(15, NoLayout, 1, "entidadFinanciera", {"descuento"}, {}, {}),
    Perfil(16, NoLayout, 1, "porModalidad", {"descuento", "gift"}, {}, {})}

Sectores17a20 == {
    Perfil(17, NoLayout, 1, "porModalidad", {"descuento", "gift"},
        {}, ClinicaDetalle),
    Perfil(18, NoLayout, 1, "porModalidad", {"descuento"},
        {"monto_total_ij", "monto_total_sujeto_ipj"}, {}),
    Perfil(19, NoLayout, 1, "porModalidad", {"descuento"}, {}, {}),
    Perfil(20, NoLayout, 2, "porModalidad", {"descuento"},
        MineralCampos \cup {"incoterm", "pais_destino", "puerto_destino",
        "tipo_cambio_anb"}, MineralDetalle)}

Sectores21a24 == {
    Perfil(21, NoLayout, 1, "porModalidad", {"descuento", "gift"},
        MineralCampos \cup {"incoterm", "iva", "sub_total", "tipo_cambio_anb"},
        MineralDetalle),
    Perfil(22, NoLayout, 1, "telecomunicaciones", {"descuento", "gift"}, {}, {}),
    Perfil(23, NoLayout, 1, "porModalidad", {"unico"}, {}, {}),
    Perfil(24, "nota", 3, "documentoAjuste", {}, NotaCampos, {}),
    Perfil(24, "notaFiscal", 3, "documentoAjuste", {}, NotaCampos, {})}

Sectores28a34 == {
    Perfil(28, NoLayout, 2, "porModalidad", {"descuento"},
        {"codigo_pais", "direccion_comprador", "lugar_destino"}, {}),
    Perfil(29, NoLayout, 3, "documentoAjuste", {},
        {"numero_autorizacion_cuf", "fecha_emision_factura",
        "monto_total_original", "monto_total_conciliado"}, {"monto_conciliado",
        "monto_final", "monto_original"}),
    Perfil(30, NoLayout, 2, "boletoAereo", {"sinDetalle"},
        {"nombre_pasajero", "numero_documento_pasajero"}, {}),
    Perfil(31, NoLayout, 1, "porModalidad", {"descuento", "gift"},
        {"placa_vehiculo"}, {}),
    Perfil(33, NoLayout, 2, "porModalidad", {"sinDetalle", "sinBuilder"}, {}, {}),
    Perfil(34, NoLayout, 1, "porModalidad", {"descuento", "gift"},
        {"ajuste_afectacion_iva"}, {})}

Sectores35a40 == {
    Perfil(35, NoLayout, 1, "compraVenta", {"descuento", "gift"}, {}, {}),
    Perfil(36, NoLayout, 2, "porModalidad", {"unico"}, {}, {}),
    Perfil(37, NoLayout, 1, "porModalidad", {"descuento"}, {"placa_vehiculo"}, {}),
    Perfil(38, NoLayout, 1, "porModalidad", {"descuento"}, {}, {}),
    Perfil(39, NoLayout, 1, "porModalidad", {"descuento"}, {}, {}),
    Perfil(40, NoLayout, 2, "servicioBasico", {"descuento"}, {}, {})}

Sectores41a45 == {
    Perfil(41, NoLayout, 1, "compraVenta", {"descuento", "gift"}, {}, {}),
    Perfil(42, NoLayout, 2, "porModalidad", {"descuento"},
        {"periodo_facturado"}, {}),
    Perfil(43, NoLayout, 2, "porModalidad", {"descuento"},
        ExportacionCampos, {"codigo_nandina"}),
    Perfil(44, NoLayout, 1, "porModalidad", {"descuento"},
        {}, {"cantidad_litros"}),
    Perfil(45, NoLayout, 2, "porModalidad", {"descuento"},
        ExportacionCampos, {"codigo_nandina"})}

Sectores46a50 == {
    Perfil(46, NoLayout, 2, "porModalidad", {"descuento", "gift"},
        {"nombre_estudiante", "periodo_facturado"}, {}),
    Perfil(47, NoLayout, 3, "documentoAjuste", {"par", "descuento"},
        NotaCampos, {}),
    Perfil(48, NoLayout, 3, "documentoAjuste", {"par", "descuento"},
        NotaCampos, {"marca_ice"}),
    Perfil(49, NoLayout, 2, "telecomunicaciones", {"descuento", "gift"}, {}, {}),
    Perfil(50, NoLayout, 2, "porModalidad", {"descuento", "gift"},
        {}, ClinicaDetalle)}

Sectores51a55 == {
    Perfil(51, NoLayout, 1, "porModalidad", {"descuento"}, {}, {}),
    Perfil(52, NoLayout, 2, "porModalidad", {"electronica", "descuento", "gift"},
        MineralCampos \cup {"iva", "sub_total"}, MineralDetalle),
    Perfil(53, NoLayout, 1, "porModalidad", {"descuento"},
        {}, {"cantidad_litros"}),
    Perfil(54, NoLayout, 2, "porModalidad", {"descuento"}, {}, {}),
    Perfil(55, NoLayout, 1, "porModalidad", {"descuento"}, {"placa_vehiculo"}, {})}

CatalogoSectores ==
    UNION {Sectores1a5, Sectores6a11, Sectores12a16, Sectores17a20, Sectores21a24,
           Sectores28a34, Sectores35a40, Sectores41a45, Sectores46a50, Sectores51a55}

-----------------------------------------------------------------------------
(* Looking up a profile and what follows from it. *)

\* The profile of a sector, as a set: empty when the code or the layout is not
\* registered.  Without a code the sector is the sale; sector 24 has no profile
\* without a layout.
PerfilSectorLayout(codigo, layout) ==
    {p \in CatalogoSectores :
        p.layout = layout /\ p.codigo = IF codigo <= 0 THEN 1 ELSE codigo}

ConDetalle(p) == "sinDetalle" \notin p.rasgos
DetalleUnico(p) == "unico" \in p.rasgos
HasBuilder(p) == "sinBuilder" \notin p.rasgos
\* The profiles of an adjustment are those its service receives.
EsAjuste(p) == p.fachada = "documentoAjuste"
esSectorAjuste(codigo) == codigo \in {24, 29, 47, 48}

ValidarModalidad(p, modalidad) ==
    /\ modalidad \in {Electronica, Computarizada}
    /\ "electronica" \in p.rasgos => modalidad = Electronica

TipoDocumentoResuelto(p, tipo) == IF tipo > 0 THEN tipo ELSE p.tipo

\* datos maps the keys of the sector's data to "ok", "vacio" (null or blank)
\* or "malo" (another type); the key "ajena" stands for any the profile does
\* not declare.
ValidarCampos(requeridos, ajenos, datos) ==
    /\ \A k \in DOMAIN datos : datos[k] # "malo"
    /\ \A k \in requeridos : k \in DOMAIN datos /\ datos[k] = "ok"
    /\ ajenos \cap DOMAIN datos = {}
ValidarDatosDetalle(p, datos) == ValidarCampos(p.camposDetalle, {"ajena"}, datos)
SinDeclarar(p) ==
    {"ajena"}
    \cup (IF "descuento" \in p.rasgos THEN {} ELSE {"descuento_adicional"})
    \cup (IF "gift" \in p.rasgos THEN {} ELSE {"monto_gift_card"})
ValidarDatosSector(p, datos) == ValidarCampos(p.campos, SinDeclarar(p), datos)
\* A note without its own discount has zero, so that the XML carries it.
PrepararDatosSector(p, datos) ==
    IF EsAjuste(p) /\ p.codigo # 29 /\ "monto_descuento_credito_debito" \notin DOMAIN datos
    THEN [k \in DOMAIN datos \cup {"monto_descuento_credito_debito"} |->
             IF k \in DOMAIN datos THEN datos[k] ELSE "ok"]
    ELSE datos

-----------------------------------------------------------------------------
(* Where the documents of a sector go. *)

Servicio(p, modalidad) ==
    IF p.fachada # "porModalidad" THEN p.fachada
    ELSE IF modalidad = Computarizada THEN "computarizada" ELSE "electronica"

\* An air ticket is received only in bulk, and an adjustment only by itself.
AdmiteIndividual(p) == p.fachada # "boletoAereo"
AdmitePaquete(p) == p.fachada # "boletoAereo" /\ ~EsAjuste(p)
AdmiteMasiva(p) == ~EsAjuste(p)

-----------------------------------------------------------------------------
(* Amounts: round2 rounds halves away from zero. *)

Redondear(x, unidad) ==
    IF x >= 0 THEN (2 * x + unidad) \div (2 * unidad)
              ELSE -((unidad - 2 * x) \div (2 * unidad))
\* Thousandths to cents.
Centavos(milesimos) == Redondear(milesimos, 10)

\* Sector 1 calculates with the discount the SDK will send.
NormalizarImportesItem(codigo, it) ==
    IF codigo = 1 THEN [it EXCEPT !.descuento = 10 * Centavos(it.descuento)] ELSE it

CalcularSubtotal(it) ==
    Redondear(it.cantidad * it.precio - 1000 * it.descuento, 10000)

Suma(importes) ==
    LET suma[n \in 0..Len(importes)] ==
            IF n = 0 THEN 0 ELSE suma[n - 1] + importes[n]
    IN suma[Len(importes)]
SumaSubtotales(items) == Suma([k \in DOMAIN items |-> CalcularSubtotal(items[k])])

\* The header discount is applied once, to the sum of the lines; the gift card
\* does not lower the total, only the base of the tax.
TotalDocumento(subtotal, descuento) == subtotal - Centavos(descuento)
TotalAdmitido(subtotal, descuento, gift) ==
    /\ descuento >= 0 /\ gift >= 0
    /\ TotalDocumento(subtotal, descuento) >= 0
    /\ Centavos(gift) <= TotalDocumento(subtotal, descuento)
MontoTotalSujetoIva(p, total, gift) ==
    IF "ivaCero" \in p.rasgos THEN 0 ELSE Centavos(10 * total - gift)

-----------------------------------------------------------------------------
(* The lines of the XML: number and transaction (1 original, 2 returned).  *)

Correlativas(n) == [k \in 1..n |-> <<k, k>>]
Pares(n) == [k \in 1..2 * n |-> <<k, IF k % 2 = 1 THEN 1 ELSE 2>>]
ConstruirDetalles(p, n) ==
    CASE ~ConDetalle(p) \/ n = 0 -> << >>
      [] DetalleUnico(p) -> <<<<1, 1>>>>
      [] "par" \in p.rasgos -> Pares(n)
      [] OTHER -> Correlativas(n)

\* A note lists the lines of the sale it corrects and then its own; sector 29
\* keeps them in two lists.
LineasXML(p, originales, n) ==
    IF ("par" \in p.rasgos \/ p.codigo = 24) /\ originales > 0
    THEN [k \in 1..originales + n |-> <<k, IF k <= originales THEN 1 ELSE 2>>]
    ELSE ConstruirDetalles(p, n)
=============================================================================
