----------------------------- MODULE DraftBodies -----------------------------
(* The requests and sales the checks of Documents and Drafts try: a request   *)
(* for every sector and layout of the catalogue with the data its profile     *)
(* declares, and the requests in which amounts, data or lines are unusual.    *)
EXTENDS DraftRequests, TLC

Linea(sku, p) ==
    [code |-> NoCode, sku |-> sku, fiscal |-> TRUE,
     cantidad |-> 2000, precio |-> 10000, descuento |-> 0,
     datos |-> [k \in p.camposDetalle |-> "ok"]]
Cuerpo(p) ==
    [sector |-> p.codigo, layout |-> p.layout, tipo |-> 0,
     nota |-> EsAjuste(p), referencia |-> EsAjuste(p), mismo |-> TRUE, cuf |-> NoCuf,
     items |-> IF ConDetalle(p) THEN <<Linea("a", p)>> ELSE << >>,
     total |-> IF ConDetalle(p) THEN SinTotal ELSE 1000,
     datos |-> [k \in p.campos |-> "ok"], descuento |-> 0, gift |-> 0,
     archivo |-> ~HasBuilder(p)]
Del(sector) == Cuerpo(CHOOSE p \in CatalogoSectores : p.codigo = sector)

\* A price and a discount below the cent, and a header with a discount and a
\* gift card.
ConDescuentos(b) ==
    [b EXCEPT !.items = <<[@[1] EXCEPT !.precio = 10005, !.descuento = 5]>>,
              !.descuento = 1005, !.gift = 500,
              !.datos = ("descuento_adicional" :> "ok") @@ ("monto_gift_card" :> "ok") @@ @]
SinDatosDetalle(b) == [b EXCEPT !.items = <<[@[1] EXCEPT !.datos = << >>]>>]
SinItems(b) == [b EXCEPT !.items = << >>]
SinSector(b) == [b EXCEPT !.sector = 0]

TodosLosCuerpos ==
    {Cuerpo(p) : p \in CatalogoSectores} \cup
    {ConDescuentos(Del(1)), ConDescuentos(Del(8)), SinDatosDetalle(Del(52)),
     SinDatosDetalle(Del(48)), SinItems(Del(47)), SinSector(Del(24)), SinSector(Del(1)),
     [Del(33) EXCEPT !.items = <<Linea("a", [camposDetalle |-> {}])>>]}

\* A sale, a note of one line of its sale, one of a line it does not have, and
\* one that copies every line.
ConcurrentBodies ==
    {Del(1), Del(47), [Del(47) EXCEPT !.items[1].sku = "z"], SinItems(Del(47))}

LineaVendida(sku, datos) ==
    [Linea(sku, [camposDetalle |-> {}]) EXCEPT !.code = sku, !.datos = datos]
VentaDe(datos) ==
    [cuf |-> "cuf1", items |-> <<LineaVendida("a", datos), LineaVendida("b", datos)>>]
TodasLasVentas == {VentaDe("marca_ice" :> "ok"), VentaDe(<< >>)}
LineasDeVenta == <<LineaVendida("a", << >>), LineaVendida("b", << >>)>>
=============================================================================
