--------------------------- MODULE DocumentsProofs ---------------------------
(***************************************************************************)
(* Drafts and their documents, for any number of requests: the numbers are  *)
(* dense, a note is of its sale, all the calls made for a document go where *)
(* its row says, the amounts calculated at each stage are one, and a draft  *)
(* has a way out.  Three invariants, which OperationsProofs puts together   *)
(* with those of the other components.  They rest on what the catalogue's   *)
(* profiles have in common, on what rounding and adding up preserve, and on *)
(* what the way from a request to a draft leaves of it, in that order.      *)
(***************************************************************************)
EXTENDS Operations, SequenceTheorems, NaturalsInduction, WellFoundedInduction, TLAPS

\* What is assumed of the requests, the sale and the bounds.
LEMMA DraftingAssumption == DraftsAssumption
  BY OperationsAssumption

-----------------------------------------------------------------------------
(* Drafts: dense numbers.                                                   *)

\* Every request has a step.
AltasOK ==
    /\ alta = [c \in Creators |-> alta[c]]
    /\ \A c \in Creators : "paso" \in DOMAIN alta[c]

\* The row of invoice_sequences is locked by the request about to insert, which
\* carries the last number taken.
LockOK ==
    /\ siguiente \in Nat \ {0}
    /\ lock \in Creators \cup {Idle}
    /\ \A c \in Creators : alta[c].paso = "insertar" <=> lock = c
    /\ \A c \in Creators : lock = c => siguiente > 1 /\ alta[c].numero = siguiente - 1

NumberInv == AltasOK /\ LockOK /\ DenseNumbers

\* Initially nothing is numbered and nobody holds the row.
LEMMA NumberInit ==
    Init => NumberInv
  <1> SUFFICES ASSUME Init PROVE NumberInv
    OBVIOUS
  <1>1. AltasOK
    BY DEF Init, AltasOK, SinAlta
  <1>2. LockOK
    BY DraftingAssumption DEF Init, LockOK, SinAlta, DraftsAssumption
  <1>3. {f.numero : f \in facturas} = {} /\ 1..(siguiente - 1 - 0) = {}
    BY DEF Init
  <1>4. DenseNumbers
    BY <1>3 DEF Init, DenseNumbers
  <1> QED
    BY <1>1, <1>2, <1>4 DEF NumberInv

\* A step of one request outside the transaction leaves the numbering alone.
LEMMA OutsideStep ==
    ASSUME NumberInv, NEW c \in Creators, NEW a,
           Set(c, a), "paso" \in DOMAIN a, a.paso # "insertar",
           alta[c].paso # "insertar", UNCHANGED <<siguiente, lock, facturas>>
    PROVE  NumberInv'
  <1>1. \A d \in Creators : alta'[d] = IF d = c THEN a ELSE alta[d]
    BY DEF NumberInv, AltasOK, Set
  <1>2. AltasOK'
    BY <1>1 DEF NumberInv, AltasOK, Set
  <1>3. LockOK'
    BY <1>1 DEF NumberInv, LockOK
  <1>4. DenseNumbers'
    BY DEF NumberInv, DenseNumbers
  <1> QED
    BY <1>2, <1>3, <1>4 DEF NumberInv

\* What a request has read may change: the numbering does not.
LEMMA ChangeStep ==
    ASSUME NumberInv, Cambio, UNCHANGED <<siguiente, lock, facturas>>
    PROVE  NumberInv'
  <1>1. \A c \in Creators :
           /\ DOMAIN alta'[c] = DOMAIN alta[c]
           /\ alta'[c].paso = alta[c].paso
           /\ alta[c].paso # "validar" => alta'[c] = alta[c]
    BY DEF Cambio, NumberInv, AltasOK
  <1>2. AltasOK'
    BY <1>1 DEF NumberInv, AltasOK, Cambio
  <1>3. LockOK'
    BY <1>1 DEF NumberInv, LockOK
  <1>4. DenseNumbers'
    BY DEF NumberInv, DenseNumbers
  <1> QED
    BY <1>2, <1>3, <1>4 DEF NumberInv

\* Taking a number locks the row.
LEMMA TakeNumber ==
    ASSUME NumberInv, NEW c \in Creators, TomarNumero(c)
    PROVE  NumberInv'
  <1> DEFINE a == [paso |-> "insertar", row |-> alta[c].row, numero |-> siguiente,
                   cufLeido |-> alta[c].cufLeido, explicito |-> alta[c].explicito]
  <1>1. \A d \in Creators : alta'[d] = IF d = c THEN a ELSE alta[d]
    BY DEF NumberInv, AltasOK, TomarNumero, Set
  <1>2. a.paso = "insertar" /\ a.numero = siguiente /\ "paso" \in DOMAIN a
    OBVIOUS
  <1>3. AltasOK'
    BY <1>1, <1>2 DEF NumberInv, AltasOK, TomarNumero, Set
  <1> HIDE DEF a
  <1>4. LockOK'
    BY <1>1, <1>2, DraftingAssumption DEF NumberInv, LockOK, TomarNumero, DraftsAssumption
  <1>5. DenseNumbers'
    <2>1. siguiente' - 1 - 1 = siguiente - 1 - 0 /\ lock = Idle /\ lock' # Idle
      BY DraftingAssumption DEF NumberInv, LockOK, TomarNumero, DraftsAssumption
    <2> QED
      BY <2>1 DEF NumberInv, DenseNumbers, TomarNumero
  <1> QED
    BY <1>3, <1>4, <1>5 DEF NumberInv

\* The insertion commits the number taken.
LEMMA InsertNumber ==
    ASSUME NumberInv, NEW c \in Creators, Insertar(c)
    PROVE  NumberInv'
  <1>1. /\ lock = c /\ lock # Idle /\ lock' = Idle
        /\ siguiente' = siguiente /\ siguiente \in Nat /\ siguiente > 1
        /\ alta[c].numero = siguiente - 1
    BY DraftingAssumption DEF NumberInv, LockOK, Insertar, DraftsAssumption
  <1>2. \A d \in Creators : alta'[d] = IF d = c THEN SinAlta ELSE alta[d]
    BY DEF NumberInv, AltasOK, Insertar, Set
  <1>3. SinAlta.paso = "idle" /\ "paso" \in DOMAIN SinAlta
    BY DEF SinAlta
  <1>4. AltasOK'
    BY <1>2, <1>3 DEF NumberInv, AltasOK, Insertar, Set
  <1>5. LockOK'
    BY <1>1, <1>2, <1>3, DraftingAssumption DEF NumberInv, LockOK, DraftsAssumption
  <1> DEFINE f == [numero |-> alta[c].numero, row |-> alta[c].row,
                   cufLeido |-> alta[c].cufLeido, explicito |-> alta[c].explicito]
  <1>6. facturas' = facturas \cup {f} /\ f.numero = siguiente - 1
    BY <1>1 DEF Insertar
  <1> HIDE DEF f
  <1>7. /\ {g.numero : g \in facturas} = 1..(siguiente - 2)
        /\ \A g, h \in facturas : g.numero = h.numero => g = h
    BY <1>1 DEF NumberInv, DenseNumbers
  <1>8. {g.numero : g \in facturas'} = 1..(siguiente - 1)
    <2>1. {g.numero : g \in facturas'} = {g.numero : g \in facturas} \cup {siguiente - 1}
      BY <1>6
    <2> QED
      BY <2>1, <1>1, <1>7
  <1>9. \A g, h \in facturas' : g.numero = h.numero => g = h
    <2>1. \A g \in facturas : g.numero # siguiente - 1
      <3>1. \A g \in facturas : g.numero \in 1..(siguiente - 2)
        BY <1>7
      <3> QED
        BY <3>1, <1>1
    <2> QED
      BY <2>1, <1>6, <1>7
  <1>10. DenseNumbers'
    <2>1. siguiente' - 1 - 0 = siguiente - 1
      BY <1>1
    <2> QED
      BY <2>1, <1>1, <1>8, <1>9 DEF DenseNumbers
  <1> QED
    BY <1>4, <1>5, <1>10 DEF NumberInv

\* Undoing the transaction gives the number back.
LEMMA GiveNumberBack ==
    ASSUME NumberInv, NEW c \in Creators, Deshacer(c)
    PROVE  NumberInv'
  <1>1. /\ lock = c /\ lock # Idle /\ lock' = Idle
        /\ siguiente' = siguiente - 1 /\ siguiente \in Nat /\ siguiente > 1
    BY DraftingAssumption DEF NumberInv, LockOK, Deshacer, Restaurado, DraftsAssumption
  <1>2. \A d \in Creators : alta'[d] = IF d = c THEN SinAlta ELSE alta[d]
    BY DEF NumberInv, AltasOK, Deshacer, Set
  <1>3. SinAlta.paso = "idle" /\ "paso" \in DOMAIN SinAlta
    BY DEF SinAlta
  <1>4. AltasOK'
    BY <1>2, <1>3 DEF NumberInv, AltasOK, Deshacer, Set
  <1>5. LockOK'
    BY <1>1, <1>2, <1>3, DraftingAssumption DEF NumberInv, LockOK, DraftsAssumption
  <1>6. DenseNumbers'
    <2>1. siguiente' - 1 - 0 = siguiente - 1 - 1
      BY <1>1
    <2> QED
      BY <2>1, <1>1 DEF NumberInv, DenseNumbers, Deshacer
  <1> QED
    BY <1>4, <1>5, <1>6 DEF NumberInv

\* The invariant is inductive.
LEMMA NumberStep ==
    NumberInv /\ [Next]_vars => NumberInv'
  <1> SUFFICES ASSUME NumberInv, [Next]_vars PROVE NumberInv'
    OBVIOUS
  <1>1. CASE RefCambia \/ ModalidadCambia
    BY <1>1, ChangeStep DEF RefCambia, ModalidadCambia
  <1>2. ASSUME NEW c \in Creators,
               CreateSimplified(c) \/ Create(c) \/ Validar(c) \/ InsertarCliente(c) \/ Abandonar(c)
        PROVE  NumberInv'
    <2>1. SinAlta.paso = "idle" /\ "paso" \in DOMAIN SinAlta
      BY DEF SinAlta
    <2>2. CASE CreateSimplified(c)
      <3>1. PICK body \in Bodies : \E s \in Simplified(body) :
              Set(c, [paso |-> "validar", request |-> s, modalidad |-> company.modalidad,
                      simplified |-> TRUE, vigente |-> TRUE, body |-> body])
        BY <2>2 DEF CreateSimplified
      <3> QED
        BY <2>2, <3>1, OutsideStep DEF CreateSimplified
    <2>3. CASE Create(c)
      <3>1. PICK body \in Bodies :
              Set(c, [paso |-> "validar", request |-> body, modalidad |-> company.modalidad,
                      simplified |-> FALSE, vigente |-> TRUE, body |-> body])
        BY <2>3 DEF Create
      <3> QED
        BY <2>3, <3>1, OutsideStep DEF Create
    <2>4. CASE Validar(c)
      <3>1. alta[c].paso = "validar" /\ UNCHANGED <<siguiente, lock, facturas>>
        BY <2>4 DEF Validar
      <3>2. \/ Set(c, SinAlta)
            \/ \E b, cuf, x : \E paso \in {"numerar", "cliente"} :
                  Set(c, [paso |-> paso, row |-> b, cufLeido |-> cuf, explicito |-> x])
        BY <2>4 DEF Validar
      <3> QED
        BY <2>1, <3>1, <3>2, OutsideStep
    <2>5. CASE InsertarCliente(c)
      <3>1. /\ [alta[c] EXCEPT !.paso = "numerar"].paso = "numerar"
            /\ "paso" \in DOMAIN [alta[c] EXCEPT !.paso = "numerar"]
        BY DEF NumberInv, AltasOK
      <3> QED
        BY <2>5, <3>1, OutsideStep DEF InsertarCliente
    <2>6. CASE Abandonar(c)
      BY <2>1, <2>6, OutsideStep DEF Abandonar
    <2> QED
      BY <1>2, <2>2, <2>3, <2>4, <2>5, <2>6
  <1>3. ASSUME NEW c \in Creators, TomarNumero(c) \/ Insertar(c) \/ Deshacer(c)
        PROVE  NumberInv'
    BY <1>3, TakeNumber, InsertNumber, GiveNumberBack
  <1>4. CASE UNCHANGED vars
    BY <1>4 DEF vars, NumberInv, AltasOK, LockOK, DenseNumbers
  <1> QED
    BY <1>1, <1>2, <1>3, <1>4 DEF Next

-----------------------------------------------------------------------------
(* Sectors: what the profiles of the catalogue have in common.              *)

\* A profile has a code, the adjustments are those their service receives, and
\* they have lines; so do all but the air tickets and the external documents.
Regular(p) ==
    /\ p.codigo \in 1..55
    /\ p.fachada = "documentoAjuste" <=> p.codigo \in {24, 29, 47, 48}
    /\ p.codigo = 30 => "sinDetalle" \in p.rasgos
    /\ p.codigo \in {24, 29, 47, 48} => {"electronica", "sinDetalle"} \cap p.rasgos = {}
    /\ p.codigo \in {47, 48} => "par" \in p.rasgos

\* The catalogue, block by block.
LEMMA CatalogoRegular == \A p \in CatalogoSectores : Regular(p)
  <1>1. \A p \in Sectores1a5 : Regular(p)
    BY DEF Sectores1a5, Perfil, Regular
  <1>2. \A p \in Sectores6a11 : Regular(p)
    BY DEF Sectores6a11, Perfil, Regular
  <1>3. \A p \in Sectores12a16 : Regular(p)
    BY DEF Sectores12a16, Perfil, Regular
  <1>4. \A p \in Sectores17a20 : Regular(p)
    BY DEF Sectores17a20, Perfil, Regular
  <1>5. \A p \in Sectores21a24 : Regular(p)
    BY DEF Sectores21a24, Perfil, Regular
  <1>6. \A p \in Sectores28a34 : Regular(p)
    BY DEF Sectores28a34, Perfil, Regular
  <1>7. \A p \in Sectores35a40 : Regular(p)
    BY DEF Sectores35a40, Perfil, Regular
  <1>8. \A p \in Sectores41a45 : Regular(p)
    BY DEF Sectores41a45, Perfil, Regular
  <1>9. \A p \in Sectores46a50 : Regular(p)
    BY DEF Sectores46a50, Perfil, Regular
  <1>10. \A p \in Sectores51a55 : Regular(p)
    BY DEF Sectores51a55, Perfil, Regular
  <1> QED
    BY <1>1, <1>2, <1>3, <1>4, <1>5, <1>6, <1>7, <1>8, <1>9, <1>10 DEF CatalogoSectores

\* A code and a layout name one profile: in a block of the catalogue ...
OneProfile(S, first, last) ==
    /\ \A p \in S : p.codigo \in first..last
    /\ \A p, q \in S : p.codigo = q.codigo /\ p.layout = q.layout => p = q

\* ... and in all of it, for the blocks divide the codes.
LEMMA CatalogoDistinct ==
    \A p, q \in CatalogoSectores : p.codigo = q.codigo /\ p.layout = q.layout => p = q
  <1>1. OneProfile(Sectores1a5, 1, 5)
    BY DEF Sectores1a5, Perfil, NoLayout, OneProfile
  <1>2. OneProfile(Sectores6a11, 6, 11)
    BY DEF Sectores6a11, Perfil, NoLayout, OneProfile
  <1>3. OneProfile(Sectores12a16, 12, 16)
    BY DEF Sectores12a16, Perfil, NoLayout, OneProfile
  <1>4. OneProfile(Sectores17a20, 17, 20)
    BY DEF Sectores17a20, Perfil, NoLayout, OneProfile
  <1>5. OneProfile(Sectores21a24, 21, 24)
    BY DEF Sectores21a24, Perfil, NoLayout, OneProfile
  <1>6. OneProfile(Sectores28a34, 28, 34)
    BY DEF Sectores28a34, Perfil, NoLayout, OneProfile
  <1>7. OneProfile(Sectores35a40, 35, 40)
    BY DEF Sectores35a40, Perfil, NoLayout, OneProfile
  <1>8. OneProfile(Sectores41a45, 41, 45)
    BY DEF Sectores41a45, Perfil, NoLayout, OneProfile
  <1>9. OneProfile(Sectores46a50, 46, 50)
    BY DEF Sectores46a50, Perfil, NoLayout, OneProfile
  <1>10. OneProfile(Sectores51a55, 51, 55)
    BY DEF Sectores51a55, Perfil, NoLayout, OneProfile
  <1> QED
    BY <1>1, <1>2, <1>3, <1>4, <1>5, <1>6, <1>7, <1>8, <1>9, <1>10 DEF CatalogoSectores, OneProfile

-----------------------------------------------------------------------------
(* Amounts: what is rounded and what is added up.                           *)

\* Rounding gives whole cents, twice is once, and what was not negative stays
\* so.
LEMMA Rounded ==
    /\ \A x \in Int : Redondear(x, 10) \in Int /\ Redondear(x, 10000) \in Int
    /\ \A c \in Int : Centavos(10 * c) = c
  <1>1. ASSUME NEW x \in Int, NEW u \in {10, 10000} PROVE Redondear(x, u) \in Int
    <2>1. PICK y : y = 2 * x + u /\ y \in Int
      OBVIOUS
    <2>2. PICK z : z = u - 2 * x /\ z \in Int
      OBVIOUS
    <2>3. 2 * u \in Nat \ {0}
      OBVIOUS
    <2>4. y \div (2 * u) \in Int /\ z \div (2 * u) \in Int
      BY <2>1, <2>2, <2>3
    <2> QED
      BY <2>1, <2>2, <2>4 DEF Redondear
  <1>2. ASSUME NEW c \in Int PROVE Centavos(10 * c) = c
    <2>1. CASE 10 * c >= 0
      <3>1. Centavos(10 * c) = (20 * c + 10) \div 20
        BY <2>1 DEF Centavos, Redondear
      <3> QED
        BY <3>1
    <2>2. CASE ~(10 * c >= 0)
      <3>1. Centavos(10 * c) = -((10 - 20 * c) \div 20)
        BY <2>2 DEF Centavos, Redondear
      <3>2. (10 - 20 * c) \div 20 = -c
        OBVIOUS
      <3> QED
        BY <3>1, <3>2
    <2> QED
      BY <2>1, <2>2
  <1> QED
    BY <1>1, <1>2

\* The base of the tax lies between zero and the total the gift card does not
\* exceed.
LEMMA BaseBounds ==
    ASSUME NEW total \in Int, total >= 0, NEW gift \in Int, gift >= 0,
           Centavos(gift) <= total, NEW p
    PROVE  0 <= MontoTotalSujetoIva(p, total, gift) /\ MontoTotalSujetoIva(p, total, gift) <= total
  <1>1. (2 * gift + 10) \div 20 <= total
    BY DEF Centavos, Redondear
  <1>2. gift < 10 * total + 5
    BY <1>1
  <1>3. CASE 10 * total - gift >= 0
    <2>1. Centavos(10 * total - gift) = (2 * (10 * total - gift) + 10) \div 20
      BY <1>3 DEF Centavos, Redondear
    <2> QED
      BY <1>3, <2>1 DEF MontoTotalSujetoIva
  <1>4. CASE ~(10 * total - gift >= 0)
    <2>1. Centavos(10 * total - gift) = -((10 - 2 * (10 * total - gift)) \div 20)
      BY <1>4 DEF Centavos, Redondear
    <2>2. (10 - 2 * (10 * total - gift)) \div 20 = 0
      BY <1>2, <1>4
    <2> QED
      BY <2>1, <2>2 DEF MontoTotalSujetoIva
  <1> QED
    BY <1>3, <1>4

\* A set of natural numbers that is not empty has a least element.
LEMMA LeastNatural ==
    ASSUME NEW T, T \subseteq Nat, T # {}
    PROVE  \E m \in T : \A n \in T : m <= n
  <1> DEFINE R == {s \in Nat \X Nat : s[1] < s[2]}
  <1>1. IsWellFoundedOn(R, Nat)
    BY NatLessThanWellFounded DEF OpToRel
  <1> HIDE DEF R
  <1>2. PICK m \in T : \A n \in T : ~(<<n, m>> \in R)
    BY <1>1, WFMin
  <1>3. \A n \in T : m \in Nat /\ n \in Nat /\ (<<n, m>> \in R <=> n < m)
    BY DEF R
  <1>4. \A n \in T : m \in Nat /\ n \in Nat /\ ~(n < m)
    BY <1>2, <1>3, Zenon
  <1> QED
    BY <1>4

\* What holds at 0 and passes from a number to the next holds up to any bound.
LEMMA UpTo ==
    ASSUME NEW n \in Nat, NEW T, 0 \in T, \A k \in 0..n : k < n /\ k \in T => k + 1 \in T
    PROVE  n \in T
  <1> SUFFICES ASSUME n \notin T PROVE FALSE
    OBVIOUS
  <1> DEFINE Out == {k \in 0..n : k \notin T}
  <1>1. Out \subseteq Nat /\ n \in Out
    OBVIOUS
  <1>2. PICK m \in Out : \A k \in Out : m <= k
    BY <1>1, LeastNatural
  <1>3. m \in 1..n /\ m - 1 \in 0..n /\ m - 1 < n /\ m - 1 \notin Out
    BY <1>2
  <1>4. m - 1 \in T
    BY <1>3
  <1>5. (m - 1) + 1 \in T
    BY <1>3, <1>4
  <1> QED
    BY <1>2, <1>3, <1>5

\* A sum of whole amounts is one.
LEMMA SumaInt ==
    ASSUME NEW importes \in Seq(Int)
    PROVE  Suma(importes) \in Int
  <1> DEFINE n == Len(importes)
             Parcial(g, k) == IF k = 0 THEN 0 ELSE g[k - 1] + importes[k]
             Good == {k \in 0..n : \E g : \A j \in 0..k : g[j] = Parcial(g, j)}
             f == CHOOSE g : g = [k \in 0..n |-> Parcial(g, k)]
  <1>1. n \in Nat /\ \A k \in 1..n : importes[k] \in Int
    OBVIOUS
  <1>2. 0 \in Good
    <2>1. PICK g : g = [k \in {0} |-> 0]
      OBVIOUS
    <2>2. \A j \in 0..0 : g[j] = Parcial(g, j)
      BY <2>1
    <2> QED
      BY <1>1, <2>2
  <1>3. ASSUME NEW k \in 0..n, k < n, k \in Good PROVE k + 1 \in Good
    <2>1. PICK g : \A j \in 0..k : g[j] = Parcial(g, j)
      BY <1>3
    <2>2. PICK h : h = [j \in 0..(k + 1) |-> IF j = k + 1 THEN g[k] + importes[k + 1] ELSE g[j]]
      OBVIOUS
    <2>3. ASSUME NEW j \in 0..(k + 1) PROVE h[j] = Parcial(h, j)
      <3>1. CASE j = k + 1
        BY <3>1, <2>2
      <3>2. CASE j # k + 1
        <4>1. j \in 0..k /\ h[j] = g[j] /\ (j # 0 => h[j - 1] = g[j - 1])
          BY <3>2, <2>2
        <4> QED
          BY <2>1, <4>1
      <3> QED
        BY <3>1, <3>2
    <2> QED
      BY <1>1, <1>3, <2>3
  <1>4. n \in Good
    <2> HIDE DEF Good
    <2> QED
      BY <1>1, <1>2, <1>3, UpTo
  <1>5. PICK g : \A j \in 0..n : g[j] = Parcial(g, j)
    BY <1>4
  <1>6. PICK h : h = [j \in 0..n |-> g[j]]
    OBVIOUS
  <1>7. h = [k \in 0..n |-> Parcial(h, k)]
    <2>1. \A k \in 0..n : h[k] = g[k] /\ (k # 0 => h[k - 1] = g[k - 1])
      BY <1>1, <1>6
    <2>2. \A k \in 0..n : g[k] = Parcial(h, k)
      BY <1>5, <2>1
    <2> QED
      BY <1>6, <2>2
  <1>8. f = [k \in 0..n |-> Parcial(f, k)]
    BY <1>7
  <1>9. Suma(importes) = f[n]
    BY Zenon DEF Suma
  <1> HIDE DEF f
  <1> DEFINE T == {k \in 0..n : f[k] \in Int}
  <1>10. 0 \in T
    BY <1>1, <1>8
  <1>11. \A k \in 0..n : k < n /\ k \in T => k + 1 \in T
    BY <1>1, <1>8
  <1>12. n \in T
    <2> HIDE DEF T
    <2> QED
      BY <1>1, <1>10, <1>11, UpTo
  <1> QED
    BY <1>9, <1>12

\* The subtotal of a line with whole amounts is one.
LEMMA SubtotalInt ==
    ASSUME NEW it, LineaCompleta(it)
    PROVE  CalcularSubtotal(it) \in Int
  <1>1. it.cantidad * it.precio \in Int /\ 1000 * it.descuento \in Int
    BY DEF LineaCompleta
  <1>2. PICK x \in Int : x = it.cantidad * it.precio - 1000 * it.descuento
    BY <1>1
  <1> QED
    BY <1>2, Rounded DEF CalcularSubtotal

\* Lists of lines: the positions are those up to the length, and a list that is
\* rewritten line by line keeps them.
LEMMA Lines ==
    ASSUME NEW items, LineasCompletas(items)
    PROVE  /\ Len(items) \in Nat /\ DOMAIN items = 1..Len(items)
           /\ items = << >> <=> DOMAIN items = {}
           /\ SumaSubtotales(items) \in Int
  <1>1. Len(items) \in Nat /\ DOMAIN items = 1..Len(items) /\ (items = << >> <=> DOMAIN items = {})
    BY DEF LineasCompletas
  <1>2. [k \in DOMAIN items |-> CalcularSubtotal(items[k])] \in Seq(Int)
    BY <1>1, SubtotalInt, SeqDef DEF LineasCompletas
  <1> QED
    BY <1>1, <1>2, SumaInt DEF SumaSubtotales

\* The same.
LEMMA LinesRewritten ==
    ASSUME NEW items, LineasCompletas(items), NEW lines,
           lines = [k \in DOMAIN items |-> lines[k]],
           \A k \in DOMAIN items : LineaCompleta(lines[k])
    PROVE  /\ LineasCompletas(lines) /\ Len(lines) = Len(items)
           /\ DOMAIN lines = DOMAIN items
           /\ lines = << >> <=> items = << >>
  <1>1. Len(items) \in Nat /\ DOMAIN items = 1..Len(items) /\ DOMAIN lines = DOMAIN items
    BY Lines
  <1>2. lines \in Seq({lines[k] : k \in DOMAIN lines})
    BY <1>1, SeqDef
  <1>3. LineasCompletas(lines)
    BY <1>1, <1>2 DEF LineasCompletas
  <1>4. Len(lines) \in Nat /\ DOMAIN lines = 1..Len(lines)
    BY <1>3, Lines
  <1>5. Len(lines) = Len(items)
    BY <1>1, <1>4
  <1> QED
    BY <1>1, <1>3, <1>5, Lines

\* Lines with the same amounts.
SameAmounts(xs, ys) ==
    /\ DOMAIN xs = DOMAIN ys
    /\ \A k \in DOMAIN xs :
          /\ xs[k].cantidad = ys[k].cantidad /\ xs[k].precio = ys[k].precio
          /\ xs[k].descuento = ys[k].descuento

\* They add up to the same.
LEMMA SameSums ==
    ASSUME NEW xs, NEW ys, SameAmounts(xs, ys)
    PROVE  /\ \A k \in DOMAIN xs : CalcularSubtotal(xs[k]) = CalcularSubtotal(ys[k])
           /\ SumaSubtotales(xs) = SumaSubtotales(ys)
  <1>1. \A k \in DOMAIN xs : CalcularSubtotal(xs[k]) = CalcularSubtotal(ys[k])
    BY DEF SameAmounts, CalcularSubtotal
  <1>2. [k \in DOMAIN xs |-> CalcularSubtotal(xs[k])] = [k \in DOMAIN ys |-> CalcularSubtotal(ys[k])]
    BY <1>1 DEF SameAmounts
  <1> QED
    BY <1>1, <1>2 DEF SumaSubtotales

\* Normalised lines are complete, with the same data and names; they depend on
\* the sector and the amounts only.
LEMMA Normalised ==
    ASSUME NEW p, NEW items, LineasCompletas(items)
    PROVE  /\ LineasCompletas(Normalizados(p, items))
           /\ DOMAIN Normalizados(p, items) = DOMAIN items
           /\ \A k \in DOMAIN items :
                 LET it == Normalizados(p, items)[k] IN
                 /\ DOMAIN it = DOMAIN items[k]
                 /\ it.code = items[k].code /\ it.sku = items[k].sku
                 /\ it.fiscal = items[k].fiscal /\ it.datos = items[k].datos
                 /\ it.cantidad = items[k].cantidad /\ it.precio = items[k].precio
                 /\ it.descuento = IF p.codigo = 1 THEN 10 * Centavos(items[k].descuento)
                                                   ELSE items[k].descuento
  <1>1. PICK lines : lines = Normalizados(p, items)
    OBVIOUS
  <1>2. lines = [k \in DOMAIN items |-> NormalizarImportesItem(p.codigo, items[k])]
    BY <1>1 DEF Normalizados
  <1>3. ASSUME NEW k \in DOMAIN items
        PROVE  /\ DOMAIN lines[k] = DOMAIN items[k]
               /\ lines[k].code = items[k].code /\ lines[k].sku = items[k].sku
               /\ lines[k].fiscal = items[k].fiscal /\ lines[k].datos = items[k].datos
               /\ lines[k].cantidad = items[k].cantidad /\ lines[k].precio = items[k].precio
               /\ lines[k].descuento = IF p.codigo = 1 THEN 10 * Centavos(items[k].descuento)
                                                       ELSE items[k].descuento
               /\ LineaCompleta(lines[k])
    <2>1. LineaCompleta(items[k])
      BY DEF LineasCompletas
    <2>2. PICK d : d = 10 * Centavos(items[k].descuento) /\ d \in Int
      BY <2>1, Rounded DEF LineaCompleta, Centavos
    <2>3. lines[k] = IF p.codigo = 1 THEN [items[k] EXCEPT !.descuento = d] ELSE items[k]
      BY <1>2, <2>2 DEF NormalizarImportesItem
    <2> QED
      BY <2>1, <2>2, <2>3 DEF LineaCompleta
  <1>4. LineasCompletas(lines)
    BY <1>2, <1>3, LinesRewritten
  <1> QED
    BY <1>1, <1>2, <1>3, <1>4

-----------------------------------------------------------------------------
(* Drafts: what a note has of its sale.                                     *)

\* A note that names its sector carries the CUF read with it, and lines of the
\* sale.
NoteOK(x) ==
    esSectorAjuste(x.row.sector) /\ x.explicito =>
        /\ x.row.cuf = x.cufLeido
        /\ \A k \in DOMAIN x.row.items :
               \E o \in DOMAIN Sale : Sale[o].code = x.row.items[k].code

\* The sale keeps its lines; a request waiting for its checks is complete, and
\* past them its note is right.
NoteInv ==
    /\ ref = [cuf |-> ref.cuf, items |-> Sale] /\ ref.cuf \in Cufs \cup {NoCuf}
    /\ company = [modalidad |-> company.modalidad, customers |-> company.customers]
    /\ company.modalidad \in {Electronica, Computarizada} /\ company.customers \in Nat
    /\ \A c \in Creators :
          /\ alta[c].paso \in Pasos
          /\ alta[c].paso = "validar" => SolicitudCompleta(alta[c].request)
          /\ alta[c].paso \in {"cliente", "numerar", "insertar"} => NoteOK(alta[c])
    /\ \A f \in facturas : NoteOK(f)

\* Initially no request is waiting and no note is drafted.
LEMMA NoteInit == Init => NoteInv
  <1> SUFFICES ASSUME Init PROVE NoteInv
    OBVIOUS
  <1>1. PICK cuf \in Cufs \cup {NoCuf} : ref = [cuf |-> cuf, items |-> Sale]
    BY DEF Init, Venta
  <1>2. \A c \in Creators : alta[c].paso = "idle"
    BY DEF Init, SinAlta
  <1>3. company = [modalidad |-> Electronica, customers |-> 0] /\ facturas = {}
    BY DEF Init
  <1> QED
    BY <1>1, <1>2, <1>3 DEF NoteInv, Pasos

\* The lines a note copies from its sale, or names, have codes of the sale.
OfSale(items, sale) ==
    \A k \in DOMAIN items : \E o \in DOMAIN sale : sale[o].code = CodigoItem(items[k])

\* A line copied from the sale has its code.
LEMMA ClonedLines ==
    ASSUME NEW p, NEW items, LineasCompletas(items)
    PROVE  /\ OfSale(cloneItemsFromReferencia(p, items), items)
           /\ LineasCompletas(cloneItemsFromReferencia(p, items))
  <1>1. PICK lines : lines = cloneItemsFromReferencia(p, items)
    OBVIOUS
  <1>2. ASSUME NEW k \in DOMAIN items
        PROVE  LineaCompleta(lines[k]) /\ CodigoItem(lines[k]) = items[k].code
    <2>1. LineaCompleta(items[k])
      BY DEF LineasCompletas
    <2>2. PICK datos : lines[k] = [items[k] EXCEPT !.sku = NoCode, !.datos = datos]
      BY <1>1 DEF cloneItemsFromReferencia
    <2>3. /\ DOMAIN lines[k] = DOMAIN items[k] /\ lines[k].code = items[k].code
          /\ lines[k].sku = NoCode /\ lines[k].cantidad = items[k].cantidad
          /\ lines[k].precio = items[k].precio /\ lines[k].descuento = items[k].descuento
      BY <2>1, <2>2 DEF LineaCompleta
    <2> QED
      BY <2>1, <2>3 DEF LineaCompleta, CodigoItem
  <1>3. lines = [k \in DOMAIN items |-> lines[k]]
    BY <1>1 DEF cloneItemsFromReferencia
  <1> QED
    BY <1>1, <1>2, <1>3, LinesRewritten DEF OfSale

\* A line that names one of the sale keeps the name, and its amounts.
LEMMA HydratedLines ==
    ASSUME NEW items, NEW sale, LineasCompletas(items),
           \A k \in DOMAIN items : Pertenece(items[k], sale)
    PROVE  /\ OfSale(hydrateAdjustmentItems(items), sale)
           /\ LineasCompletas(hydrateAdjustmentItems(items))
           /\ SameAmounts(hydrateAdjustmentItems(items), items)
  <1>1. PICK lines : lines = hydrateAdjustmentItems(items)
    OBVIOUS
  <1>2. ASSUME NEW k \in DOMAIN items
        PROVE  /\ LineaCompleta(lines[k]) /\ CodigoItem(lines[k]) = CodigoItem(items[k])
               /\ lines[k].cantidad = items[k].cantidad
               /\ lines[k].precio = items[k].precio /\ lines[k].descuento = items[k].descuento
    <2>1. LineaCompleta(items[k])
      BY DEF LineasCompletas
    <2>2. PICK code : code = CodigoItem(items[k])
      OBVIOUS
    <2>3. lines[k] = [items[k] EXCEPT !.code = code, !.sku = code, !.fiscal = TRUE]
      BY <1>1, <2>2 DEF hydrateAdjustmentItems
    <2>4. /\ DOMAIN lines[k] = DOMAIN items[k] /\ lines[k].code = code
          /\ lines[k].sku = code /\ lines[k].cantidad = items[k].cantidad
          /\ lines[k].precio = items[k].precio /\ lines[k].descuento = items[k].descuento
      BY <2>1, <2>3 DEF LineaCompleta
    <2> QED
      BY <2>1, <2>2, <2>4 DEF LineaCompleta, CodigoItem
  <1>3. lines = [k \in DOMAIN items |-> lines[k]]
    BY <1>1 DEF hydrateAdjustmentItems
  <1>4. LineasCompletas(lines) /\ DOMAIN lines = DOMAIN items
    BY <1>2, <1>3, LinesRewritten
  <1>5. OfSale(lines, sale)
    BY <1>2, <1>4 DEF OfSale, Pertenece
  <1> QED
    BY <1>1, <1>2, <1>4, <1>5 DEF SameAmounts

\* The fields that nothing on the way from a request to a draft rewrites.
SameHeader(t, r) ==
    /\ t.layout = r.layout /\ t.tipo = r.tipo /\ t.nota = r.nota
    /\ t.referencia = r.referencia /\ t.mismo = r.mismo /\ t.total = r.total
    /\ t.descuento = r.descuento /\ t.gift = r.gift /\ t.archivo = r.archivo

\* What autofillDocumentoAjusteDescuento gives is complete, and of the same
\* sector and header; for a note it has the CUF and the lines of the sale, and
\* if the request had lines, their amounts.
LEMMA Autofilled ==
    ASSUME NEW r, SolicitudCompleta(r), NEW sale, LineasCompletas(sale.items),
           NEW t \in autofillDocumentoAjusteDescuento(r, sale)
    PROVE  /\ SolicitudCompleta(t) /\ t.sector = r.sector /\ SameHeader(t, r)
           /\ r.referencia /\ esSectorAjuste(r.sector) =>
                  t.cuf = sale.cuf /\ OfSale(t.items, sale.items)
           /\ r.items # << >> => SameAmounts(t.items, r.items)
           /\ ~(r.referencia /\ esSectorAjuste(r.sector)) => t = r
  <1>1. ASSUME NEW items, LineasCompletas(items), OfSale(items, sale.items),
               t = buildDatosSectorNotaDescuento([r EXCEPT !.items = items], sale)
        PROVE  /\ SolicitudCompleta(t) /\ t.sector = r.sector /\ SameHeader(t, r)
               /\ t.cuf = sale.cuf /\ t.items = items
    <2>1. PICK s : s = [r EXCEPT !.items = items]
      OBVIOUS
    <2>2. /\ DOMAIN s = DOMAIN r /\ s.items = items /\ s.sector = r.sector
          /\ SameHeader(s, r)
      BY <2>1 DEF SolicitudCompleta, SameHeader
    <2>3. PICK datos : t = [s EXCEPT !.cuf = sale.cuf, !.datos = datos]
      BY <1>1, <2>1 DEF buildDatosSectorNotaDescuento
    <2>4. /\ DOMAIN t = DOMAIN r /\ t.cuf = sale.cuf /\ t.items = items
          /\ t.sector = r.sector /\ SameHeader(t, r)
      BY <2>2, <2>3 DEF SolicitudCompleta, SameHeader
    <2> QED
      BY <1>1, <2>4 DEF SolicitudCompleta, SameHeader
  <1>2. CASE ~(r.referencia /\ esSectorAjuste(r.sector))
    <2>1. t = r
      BY <1>2 DEF autofillDocumentoAjusteDescuento
    <2> QED
      BY <1>2, <2>1 DEF SameHeader, SameAmounts
  <1>3. CASE r.referencia /\ esSectorAjuste(r.sector)
    <2>1. CASE r.items = << >>
      <3>1. PICK p : t = buildDatosSectorNotaDescuento(
                             [r EXCEPT !.items = cloneItemsFromReferencia(p, sale.items)], sale)
        BY <1>3, <2>1, Zenon DEF autofillDocumentoAjusteDescuento
      <3>2. PICK lines : lines = cloneItemsFromReferencia(p, sale.items)
        OBVIOUS
      <3>3. LineasCompletas(lines) /\ OfSale(lines, sale.items)
        BY <3>2, ClonedLines
      <3>4. t = buildDatosSectorNotaDescuento([r EXCEPT !.items = lines], sale)
        BY <3>1, <3>2, Zenon
      <3>5. /\ SolicitudCompleta(t) /\ t.sector = r.sector /\ SameHeader(t, r)
            /\ t.cuf = sale.cuf /\ t.items = lines
        BY <1>1, <3>3, <3>4
      <3> QED
        BY <1>3, <2>1, <3>3, <3>5
    <2>2. CASE r.items # << >>
      <3>1. /\ \A k \in DOMAIN r.items : Pertenece(r.items[k], sale.items)
            /\ t = buildDatosSectorNotaDescuento(
                       [r EXCEPT !.items = hydrateAdjustmentItems(r.items)], sale)
        BY <1>3, <2>2 DEF autofillDocumentoAjusteDescuento
      <3>2. PICK lines : lines = hydrateAdjustmentItems(r.items)
        OBVIOUS
      <3>3. LineasCompletas(r.items)
        BY DEF SolicitudCompleta
      <3>4. /\ LineasCompletas(lines) /\ OfSale(lines, sale.items)
            /\ SameAmounts(lines, r.items)
        BY <3>1, <3>2, <3>3, HydratedLines
      <3>5. t = buildDatosSectorNotaDescuento([r EXCEPT !.items = lines], sale)
        BY <3>1, <3>2, Zenon
      <3>6. /\ SolicitudCompleta(t) /\ t.sector = r.sector /\ SameHeader(t, r)
            /\ t.cuf = sale.cuf /\ t.items = lines
        BY <1>1, <3>4, <3>5
      <3> QED
        BY <1>3, <3>4, <3>6
    <2> QED
      BY <2>1, <2>2
  <1> QED
    BY <1>2, <1>3

\* A simplified request is complete; it has the sector of a profile, whose
\* adjustments refer to a sale and have lines.
LEMMA SimplifiedComplete ==
    ASSUME NEW r, SolicitudCompleta(r), NEW sale, NEW m, LineasCompletas(sale.items),
           NEW s \in Simplify(r, sale, Actividad, m)
    PROVE  /\ SolicitudCompleta(s)
           /\ resolveInvoiceSector(s, Actividad) = s.sector
           /\ \E p \in PerfilSectorLayout(s.sector, s.layout) : ConDetalle(p) => s.items # << >>
  <1>1. PICK q : q = ConSector(r, SectorDeNota(r))
    OBVIOUS
  <1>2. SolicitudCompleta(q) /\ q.nota = r.nota /\ q.sector = SectorDeNota(r)
    <2>1. SectorDeNota(r) \in Int
      BY DEF SectorDeNota, SolicitudCompleta
    <2>2. /\ DOMAIN q = DOMAIN r /\ q.sector = SectorDeNota(r) /\ q.items = r.items
          /\ SameHeader(q, r)
      BY <1>1 DEF SolicitudCompleta, ConSector, SameHeader
    <2> QED
      BY <2>1, <2>2 DEF SolicitudCompleta, SameHeader
  <1>3. PICK t, p :
            /\ t \in autofillDocumentoAjusteDescuento(q, sale)
            /\ LET u == ConSector(t, resolveInvoiceSector(t, Actividad)) IN
               /\ p \in PerfilSectorLayout(u.sector, u.layout)
               /\ ConDetalle(p) => u.items # << >>
               /\ s = Solicitud(p, u)
    <2>1. PICK t, p :
              /\ t \in autofillDocumentoAjusteDescuento(q, sale)
              /\ LET u == ConSector(t, resolveInvoiceSector(t, Actividad)) IN
                 /\ p \in PerfilSectorLayout(u.sector, t.layout)
                 /\ ConDetalle(p) => u.items # << >>
                 /\ s = Solicitud(p, u)
      BY <1>1, Zenon DEF Simplify
    <2>2. SolicitudCompleta(t)
      BY <1>2, <2>1, Autofilled
    <2>3. ConSector(t, resolveInvoiceSector(t, Actividad)).layout = t.layout
      BY <2>2 DEF ConSector, SolicitudCompleta
    <2> QED
      BY <2>1, <2>3
  <1>4. SolicitudCompleta(t) /\ t.nota = q.nota /\ t.sector = q.sector
    BY <1>2, <1>3, Autofilled DEF SameHeader
  <1>5. PICK u : u = ConSector(t, resolveInvoiceSector(t, Actividad))
    OBVIOUS
  <1>6. /\ DOMAIN u = DOMAIN t /\ u.items = t.items /\ SameHeader(u, t)
        /\ u.sector = resolveInvoiceSector(t, Actividad)
    BY <1>4, <1>5 DEF SolicitudCompleta, ConSector, SameHeader
  <1>7. u.sector \in Int
    BY <1>4, <1>6, DraftingAssumption DEF resolveInvoiceSector, SolicitudCompleta, DraftsAssumption
  <1>8. PICK lines, norm : /\ norm = Normalizados(p, u.items)
                           /\ lines = [k \in DOMAIN u.items |->
                                          [norm[k] EXCEPT !.code = u.items[k].sku]]
    OBVIOUS
  <1>9. PICK datos : s = [u EXCEPT !.datos = datos, !.items = lines]
    BY <1>3, <1>5, <1>8, Zenon DEF Solicitud
  <1>10. DOMAIN s = DOMAIN u /\ s.sector = u.sector /\ s.items = lines /\ SameHeader(s, u)
    BY <1>4, <1>6, <1>9 DEF SolicitudCompleta, SameHeader
  <1>11. LineasCompletas(lines) /\ (lines = << >> <=> u.items = << >>)
    <2>1. LineasCompletas(u.items)
      BY <1>4, <1>6 DEF SolicitudCompleta
    <2>2. LineasCompletas(norm) /\ DOMAIN norm = DOMAIN u.items
      BY <1>8, <2>1, Normalised
    <2>3. \A k \in DOMAIN u.items : LineaCompleta(norm[k]) => LineaCompleta(lines[k])
      BY <1>8 DEF LineaCompleta
    <2>4. \A k \in DOMAIN u.items : LineaCompleta(lines[k])
      BY <2>2, <2>3 DEF LineasCompletas
    <2>5. lines = [k \in DOMAIN u.items |-> lines[k]]
      BY <1>8
    <2> QED
      BY <2>1, <2>4, <2>5, LinesRewritten
  <1>12. SolicitudCompleta(s)
    BY <1>4, <1>6, <1>7, <1>10, <1>11 DEF SolicitudCompleta, SameHeader
  <1>13. resolveInvoiceSector(s, Actividad) = s.sector
    BY <1>2, <1>4, <1>6, <1>7, <1>10, DraftingAssumption
       DEF resolveInvoiceSector, SameHeader, SectorDeNota, DraftsAssumption, SolicitudCompleta
  <1>14. s.layout = u.layout
    BY <1>10 DEF SameHeader
  <1> QED
    BY <1>3, <1>5, <1>10, <1>11, <1>12, <1>13, <1>14

\* A draft, the completed request it was made of and its profile: the columns
\* come from the request, the lines are the normalised ones, under their codes.
DraftOf(b, t, p, m) ==
    /\ "items" \in DOMAIN b /\ b.sector = p.codigo /\ b.layout = t.layout /\ b.modalidad = m
    /\ b.datos = PrepararDatosSector(p, t.datos) /\ b.cuf = t.cuf /\ b.archivo = t.archivo
    /\ b.descuento = t.descuento /\ b.gift = t.gift
    /\ b.subtotal = SubtotalDe(t, b.items) /\ b.total = TotalDocumento(b.subtotal, b.descuento)
    /\ LineasCompletas(b.items) /\ SameAmounts(b.items, Normalizados(p, t.items))
    /\ DOMAIN b.items = DOMAIN t.items
    /\ \A k \in DOMAIN t.items :
          b.items[k].code = CodigoItem(t.items[k]) /\ b.items[k].datos = t.items[k].datos

\* What the checks of the creation left true of the request.
Admitted(t, p, m) ==
    /\ p \in PerfilSectorLayout(resolveInvoiceSector(t, Actividad), t.layout)
    /\ t.items # << >> \/ t.sector = 30
    /\ ValidarModalidad(p, m) /\ TotalCoherente(p, t) /\ (HasBuilder(p) \/ t.archivo)
    /\ ValidarDatosSector(p, t.datos)
    /\ EsAjuste(p) => t.referencia
    /\ \A k \in DOMAIN t.items : ItemAdmitido(p, Normalizados(p, t.items)[k])
    /\ ImportesAdmitidos(p, t)

\* Every draft is one of a completed request the checks admitted.
LEMMA Drafted ==
    ASSUME NEW r, SolicitudCompleta(r), NEW sale, LineasCompletas(sale.items), NEW m,
           NEW b \in BorradorDe(r, sale, Actividad, m)
    PROVE  \E t, p :
              /\ t \in autofillDocumentoAjusteDescuento(r, sale)
              /\ SolicitudCompleta(t) /\ Admitted(t, p, m) /\ DraftOf(b, t, p, m)
  <1>1. PICK t, p :
            /\ t \in autofillDocumentoAjusteDescuento(r, sale)
            /\ Admitted(t, p, m) /\ b = Borrador(p, t, m)
    BY Zenon DEF BorradorDe, Admitted
  <1>2. SolicitudCompleta(t)
    BY <1>1, Autofilled
  <1>3. PICK items, norm :
            /\ norm = Normalizados(p, t.items)
            /\ items = [k \in DOMAIN t.items |-> [norm[k] EXCEPT !.code = CodigoItem(t.items[k])]]
    OBVIOUS
  <1>4. /\ "items" \in DOMAIN b /\ b.sector = p.codigo /\ b.layout = t.layout /\ b.modalidad = m
        /\ b.datos = PrepararDatosSector(p, t.datos) /\ b.cuf = t.cuf /\ b.archivo = t.archivo
        /\ b.descuento = t.descuento /\ b.gift = t.gift /\ b.items = items
        /\ b.subtotal = SubtotalDe(t, items)
        /\ b.total = TotalDocumento(b.subtotal, b.descuento)
    <2>1. PICK datos, tipo, subtotal, total :
             /\ datos = PrepararDatosSector(p, t.datos) /\ tipo = TipoDocumentoResuelto(p, t.tipo)
             /\ subtotal = SubtotalDe(t, items) /\ total = TotalDocumento(subtotal, t.descuento)
      OBVIOUS
    <2>2. b = [sector |-> p.codigo, layout |-> t.layout, modalidad |-> m, tipo |-> tipo,
               items |-> items, datos |-> datos, cuf |-> t.cuf, descuento |-> t.descuento,
               gift |-> t.gift, archivo |-> t.archivo, subtotal |-> subtotal, total |-> total]
      BY <1>1, <1>3, <2>1, Zenon DEF Borrador
    <2> QED
      BY <2>1, <2>2
  <1>5. LineasCompletas(t.items)
    BY <1>2 DEF SolicitudCompleta
  <1>6. LineasCompletas(norm) /\ DOMAIN norm = DOMAIN t.items
    BY <1>3, <1>5, Normalised
  <1>7. ASSUME NEW k \in DOMAIN t.items
        PROVE  /\ LineaCompleta(items[k]) /\ items[k].code = CodigoItem(t.items[k])
               /\ items[k].datos = t.items[k].datos
               /\ items[k].cantidad = norm[k].cantidad /\ items[k].precio = norm[k].precio
               /\ items[k].descuento = norm[k].descuento
    <2>1. LineaCompleta(norm[k]) /\ norm[k].datos = t.items[k].datos
      <3>1. LineaCompleta(norm[k])
        BY <1>6 DEF LineasCompletas
      <3> QED
        BY <1>3, <1>5, <3>1, Normalised
    <2>2. PICK code : code = CodigoItem(t.items[k])
      OBVIOUS
    <2>3. items[k] = [norm[k] EXCEPT !.code = code]
      BY <1>3, <2>2
    <2> QED
      BY <2>1, <2>2, <2>3 DEF LineaCompleta
  <1>8. LineasCompletas(items) /\ DOMAIN items = DOMAIN t.items
    <2>1. items = [k \in DOMAIN t.items |-> items[k]]
      BY <1>3
    <2> QED
      BY <1>5, <1>7, <2>1, LinesRewritten
  <1>9. SameAmounts(items, norm)
    BY <1>6, <1>7, <1>8 DEF SameAmounts
  <1> QED
    BY <1>1, <1>2, <1>3, <1>4, <1>7, <1>8, <1>9 DEF DraftOf

\* The draft of a note that names its sector has the CUF and the lines of the
\* sale its checks read.
LEMMA DraftedNote ==
    ASSUME NEW r, SolicitudCompleta(r), NEW sale, NEW m, LineasCompletas(sale.items),
           NEW b \in BorradorDe(r, sale, Actividad, m), esSectorAjuste(b.sector), r.sector > 0
    PROVE  /\ b.cuf = sale.cuf
           /\ \A k \in DOMAIN b.items : \E o \in DOMAIN sale.items :
                  sale.items[o].code = b.items[k].code
  <1>1. PICK t, p :
            /\ t \in autofillDocumentoAjusteDescuento(r, sale)
            /\ SolicitudCompleta(t) /\ Admitted(t, p, m) /\ DraftOf(b, t, p, m)
    BY Drafted
  <1>2. t.sector = r.sector /\ t.referencia = r.referencia
    BY <1>1, Autofilled DEF SameHeader
  <1>3. p \in CatalogoSectores /\ p.codigo = r.sector
    BY <1>1, <1>2 DEF Admitted, PerfilSectorLayout, resolveInvoiceSector, SolicitudCompleta
  <1>4. EsAjuste(p) /\ esSectorAjuste(r.sector)
    BY <1>1, <1>3, CatalogoRegular DEF DraftOf, Regular, EsAjuste, esSectorAjuste
  <1>5. t.cuf = sale.cuf /\ OfSale(t.items, sale.items)
    BY <1>1, <1>2, <1>4, Autofilled DEF Admitted
  <1> QED
    BY <1>1, <1>5 DEF DraftOf, OfSale

\* What an action leaves for its request to carry.
LEMMA RequestMoves ==
    ASSUME NoteInv, NumberInv, NEW c \in Creators, NEW a, Set(c, a), a.paso \in Pasos,
           a.paso = "validar" => SolicitudCompleta(a.request),
           a.paso \in {"cliente", "numerar", "insertar"} => NoteOK(a),
           ref' = ref,
           company' = [modalidad |-> company.modalidad, customers |-> company'.customers],
           company'.customers \in Nat,
           \A f \in facturas' : f \in facturas \/ NoteOK(f)
    PROVE  NoteInv'
  <1>1. \A d \in Creators : alta'[d] = IF d = c THEN a ELSE alta[d]
    BY DEF NumberInv, AltasOK, Set
  <1>2. PICK k : k = company'.customers
    OBVIOUS
  <1>3. company' = [modalidad |-> company.modalidad, customers |-> k] /\ k \in Nat
    BY <1>2
  <1>4. company'.modalidad = company.modalidad
    BY <1>3
  <1>5. \A d \in Creators :
           /\ alta'[d].paso \in Pasos
           /\ alta'[d].paso = "validar" => SolicitudCompleta(alta'[d].request)
           /\ alta'[d].paso \in {"cliente", "numerar", "insertar"} => NoteOK(alta'[d])
    BY <1>1 DEF NoteInv
  <1>6. \A f \in facturas' : NoteOK(f)
    BY DEF NoteInv
  <1> QED
    BY <1>4, <1>5, <1>6 DEF NoteInv

\* The sale keeps its lines and the company its fields when they change.
LEMMA ReadingsChange ==
    ASSUME NoteInv, NumberInv, Cambio, facturas' = facturas,
           ref' = [cuf |-> ref'.cuf, items |-> Sale], ref'.cuf \in Cufs \cup {NoCuf},
           company' = [modalidad |-> company'.modalidad, customers |-> company'.customers],
           company'.modalidad \in {Electronica, Computarizada}, company'.customers \in Nat
    PROVE  NoteInv'
  <1>1. \A c \in Creators :
           /\ alta'[c].paso = alta[c].paso
           /\ alta[c].paso = "validar" => alta'[c].request = alta[c].request
           /\ alta[c].paso # "validar" => alta'[c] = alta[c]
    BY DEF Cambio, NumberInv, AltasOK
  <1> QED
    BY <1>1 DEF NoteInv

\* Every step keeps what the notes have of their sale.
LEMMA NoteStep == NumberInv /\ NoteInv /\ [Next]_vars => NoteInv'
  <1> SUFFICES ASSUME NumberInv, NoteInv, [Next]_vars PROVE NoteInv'
    OBVIOUS
  <1>0. /\ SinAlta.paso = "idle" /\ Pasos = {"idle", "validar", "cliente", "numerar", "insertar"}
        /\ company = [modalidad |-> company.modalidad, customers |-> company.customers]
        /\ company.customers \in Nat
    BY DEF SinAlta, Pasos, NoteInv
  <1>1. CASE RefCambia
    <2>1. PICK cuf \in Cufs : ref' = [cuf |-> cuf, items |-> Sale]
      BY <1>1 DEF RefCambia, Venta
    <2>2. Cambio /\ UNCHANGED <<company, facturas>>
      BY <1>1 DEF RefCambia
    <2> QED
      BY <2>1, <2>2, ReadingsChange DEF NoteInv
  <1>2. CASE ModalidadCambia
    <2>1. PICK m \in {Electronica, Computarizada} : company' = [company EXCEPT !.modalidad = m]
      BY <1>2 DEF ModalidadCambia
    <2>2. PICK k : k = company.customers
      OBVIOUS
    <2>3. company' = [modalidad |-> m, customers |-> k] /\ k \in Nat
      BY <1>0, <2>1, <2>2
    <2>4. Cambio /\ UNCHANGED <<ref, facturas>>
      BY <1>2 DEF ModalidadCambia
    <2> QED
      BY <2>3, <2>4, ReadingsChange DEF NoteInv
  <1>3. ASSUME NEW c \in Creators, CreateSimplified(c) PROVE NoteInv'
    <2>1. PICK body \in Bodies : \E s \in Simplified(body) :
            Set(c, [paso |-> "validar", request |-> s, modalidad |-> company.modalidad,
                    simplified |-> TRUE, vigente |-> TRUE, body |-> body])
      BY <1>3 DEF CreateSimplified
    <2>2. PICK s \in Simplify(body, ref, Actividad, company.modalidad) :
            Set(c, [paso |-> "validar", request |-> s, modalidad |-> company.modalidad,
                    simplified |-> TRUE, vigente |-> TRUE, body |-> body])
      BY <2>1 DEF Simplified
    <2>3. PICK sale : sale = ref /\ sale.items = Sale
      BY DEF NoteInv
    <2>4. SolicitudCompleta(s)
      BY <2>2, <2>3, DraftingAssumption, SimplifiedComplete DEF DraftsAssumption
    <2>5. UNCHANGED <<company, ref, facturas>>
      BY <1>3 DEF CreateSimplified
    <2> QED
      BY <1>0, <2>2, <2>4, <2>5, RequestMoves
  <1>4. ASSUME NEW c \in Creators, Create(c) PROVE NoteInv'
    <2>1. PICK body \in Bodies :
            Set(c, [paso |-> "validar", request |-> body, modalidad |-> company.modalidad,
                    simplified |-> FALSE, vigente |-> TRUE, body |-> body])
      BY <1>4 DEF Create
    <2>2. SolicitudCompleta(body)
      BY DraftingAssumption DEF DraftsAssumption
    <2>3. UNCHANGED <<company, ref, facturas>>
      BY <1>4 DEF Create
    <2> QED
      BY <1>0, <2>1, <2>2, <2>3, RequestMoves
  <1>5. ASSUME NEW c \in Creators, Validar(c) PROVE NoteInv'
    <2>1. UNCHANGED <<company, ref, facturas>> /\ alta[c].paso = "validar"
      BY <1>5 DEF Validar
    <2>2. CASE Set(c, SinAlta)
      BY <1>0, <2>1, <2>2, RequestMoves
    <2>3. CASE ~Set(c, SinAlta)
      <3>1. PICK sale : sale = ref /\ sale.items = Sale
        BY DEF NoteInv
      <3>2. PICK r, m : r = alta[c].request /\ m = alta[c].modalidad /\ SolicitudCompleta(r)
        BY <2>1 DEF NoteInv
      <3>3. PICK b \in BorradorDe(r, sale, Actividad, m), paso \in {"numerar", "cliente"} :
                Set(c, [paso |-> paso, row |-> b, cufLeido |-> sale.cuf,
                        explicito |-> r.sector > 0])
        BY <1>5, <2>3, <3>1, <3>2 DEF Validar
      <3>4. PICK a : a = [paso |-> paso, row |-> b, cufLeido |-> sale.cuf,
                          explicito |-> r.sector > 0]
        OBVIOUS
      <3>5. /\ a.paso = paso /\ a.row = b /\ a.cufLeido = sale.cuf
            /\ a.explicito <=> r.sector > 0
        BY <3>4
      <3>6. esSectorAjuste(b.sector) /\ r.sector > 0 =>
                /\ b.cuf = sale.cuf
                /\ \A k \in DOMAIN b.items : \E o \in DOMAIN sale.items :
                       sale.items[o].code = b.items[k].code
        BY <3>1, <3>2, <3>3, DraftingAssumption, DraftedNote DEF DraftsAssumption
      <3>7. NoteOK(a)
        BY <3>1, <3>5, <3>6 DEF NoteOK
      <3> QED
        BY <1>0, <2>1, <3>3, <3>4, <3>5, <3>7, RequestMoves
    <2> QED
      BY <2>2, <2>3
  <1>6. ASSUME NEW c \in Creators, InsertarCliente(c) PROVE NoteInv'
    <2>1. /\ alta[c].paso = "cliente" /\ UNCHANGED <<ref, facturas>>
          /\ Set(c, [alta[c] EXCEPT !.paso = "numerar"])
          /\ company' = [company EXCEPT !.customers = company.customers + 1]
      BY <1>6 DEF InsertarCliente
    <2>2. PICK a, old : a = [old EXCEPT !.paso = "numerar"] /\ old = alta[c]
      OBVIOUS
    <2>3. a.paso = "numerar" /\ a.row = old.row /\ a.cufLeido = old.cufLeido
          /\ a.explicito = old.explicito
      BY <2>2 DEF NumberInv, AltasOK
    <2>4. NoteOK(a)
      BY <2>1, <2>2, <2>3 DEF NoteInv, NoteOK
    <2>5. PICK m, k : m = company.modalidad /\ k = company.customers /\ k \in Nat
      BY <1>0
    <2>6. company' = [modalidad |-> m, customers |-> k + 1]
      BY <1>0, <2>1, <2>5
    <2>7. company'.customers = k + 1 /\ k + 1 \in Nat
      BY <2>5, <2>6
    <2>8. /\ company' = [modalidad |-> company.modalidad, customers |-> company'.customers]
          /\ company'.customers \in Nat
      BY <2>5, <2>6, <2>7
    <2>9. Set(c, a) /\ ref' = ref /\ facturas' = facturas
      BY <2>1, <2>2
    <2>10. a.paso \in Pasos /\ a.paso # "validar"
      BY <1>0, <2>3
    <2> QED
      BY <2>4, <2>8, <2>9, <2>10, RequestMoves
  <1>7. ASSUME NEW c \in Creators, TomarNumero(c) PROVE NoteInv'
    <2>1. PICK a : a = [paso |-> "insertar", row |-> alta[c].row, numero |-> siguiente,
                        cufLeido |-> alta[c].cufLeido, explicito |-> alta[c].explicito]
      OBVIOUS
    <2>2. /\ a.paso = "insertar" /\ a.row = alta[c].row /\ a.cufLeido = alta[c].cufLeido
          /\ a.explicito = alta[c].explicito
      BY <2>1
    <2>3. alta[c].paso = "numerar" /\ Set(c, a) /\ UNCHANGED <<company, ref, facturas>>
      BY <1>7, <2>1 DEF TomarNumero
    <2>4. NoteOK(a)
      BY <2>2, <2>3 DEF NoteInv, NoteOK
    <2> QED
      BY <1>0, <2>2, <2>3, <2>4, RequestMoves
  <1>8. ASSUME NEW c \in Creators, Insertar(c) PROVE NoteInv'
    <2>1. PICK f : f = [numero |-> alta[c].numero, row |-> alta[c].row,
                        cufLeido |-> alta[c].cufLeido, explicito |-> alta[c].explicito]
      OBVIOUS
    <2>2. /\ f.row = alta[c].row /\ f.cufLeido = alta[c].cufLeido
          /\ f.explicito = alta[c].explicito
      BY <2>1
    <2>3. /\ alta[c].paso = "insertar" /\ Set(c, SinAlta) /\ UNCHANGED <<company, ref>>
          /\ facturas' = facturas \cup {f}
      BY <1>8, <2>1 DEF Insertar
    <2>4. NoteOK(f)
      BY <2>2, <2>3 DEF NoteInv, NoteOK
    <2> QED
      BY <1>0, <2>3, <2>4, RequestMoves
  <1>9. ASSUME NEW c \in Creators, Deshacer(c) \/ Abandonar(c) PROVE NoteInv'
    <2>1. Set(c, SinAlta) /\ UNCHANGED <<company, ref, facturas>>
      BY <1>9 DEF Deshacer, Abandonar
    <2> QED
      BY <1>0, <2>1, RequestMoves
  <1>10. CASE UNCHANGED vars
    BY <1>10 DEF vars, NoteInv
  <1> QED
    BY <1>1, <1>2, <1>3, <1>4, <1>5, <1>6, <1>7, <1>8, <1>9, <1>10 DEF Next

\* So the notes match, and the types hold.
LEMMA NotesMatch == NumberInv /\ NoteInv => NoteMatchesReference /\ TypeOK
  <1> SUFFICES ASSUME NumberInv, NoteInv PROVE NoteMatchesReference /\ TypeOK
    OBVIOUS
  <1>1. NoteMatchesReference
    BY DEF NoteMatchesReference, NoteInv, NoteOK
  <1>2. \A f \in facturas : f.numero \in Nat \ {0}
    <2>1. PICK n \in Nat : {f.numero : f \in facturas} = 1..n \/ {f.numero : f \in facturas} = {}
      BY DEF NumberInv, LockOK, DenseNumbers
    <2> QED
      BY <2>1
  <1> QED
    BY <1>1, <1>2 DEF TypeOK, NoteInv, NumberInv, LockOK

-----------------------------------------------------------------------------
(* Documents: where the calls made for a document go.                       *)

\* The columns of a row that say where it goes are those of a profile of the
\* catalogue, in a modality the company may have.
RowRouted(row) ==
    /\ \E p \in CatalogoSectores : p.codigo = row.sector /\ p.layout = row.layout
    /\ row.modalidad \in {Electronica, Computarizada}

\* The profile of a row.
PerfilDe(row) == CHOOSE p \in PerfilSectorLayout(row.sector, row.layout) : TRUE

\* The catalogue has one for its code and layout.
LEMMA ProfileOf ==
    ASSUME NEW sector, NEW layout, NEW p \in CatalogoSectores,
           p.codigo = sector, p.layout = layout
    PROVE  PerfilSectorLayout(sector, layout) = {p}
  <1>1. sector \in 1..55
    BY CatalogoRegular DEF Regular
  <1>2. PerfilSectorLayout(sector, layout)
            = {q \in CatalogoSectores : q.layout = layout /\ q.codigo = sector}
    BY <1>1 DEF PerfilSectorLayout
  <1>3. \A q \in CatalogoSectores : q.layout = layout /\ q.codigo = sector => q = p
    BY CatalogoDistinct
  <1> QED
    BY <1>2, <1>3

\* What the draft's checks leave true of a stored row: its profile admits it,
\* its amounts are whole, and, when the columns keep them exactly, they are
\* what the emission will calculate from its lines.
RowSound(row, exact) ==
    LET p == PerfilDe(row) IN
    /\ ValidarModalidad(p, row.modalidad)
    /\ HasBuilder(p) \/ row.archivo
    /\ ConDetalle(p) => row.items # << >>
    /\ ValidarDatosSector(p, row.datos)
    /\ LineasCompletas(row.items)
    /\ \A k \in DOMAIN row.items :
          /\ ValidarDatosDetalle(p, row.items[k].datos)
          /\ row.items[k].descuento = 10 * Centavos(row.items[k].descuento)
          /\ exact => CalcularSubtotal(row.items[k]) >= 0
    /\ row.subtotal \in Int /\ row.descuento \in Int /\ row.gift \in Int
    /\ row.total = TotalDocumento(row.subtotal, row.descuento)
    /\ TotalAdmitido(row.subtotal, row.descuento, row.gift)
    /\ exact \/ row.sector = 1 =>
          row.subtotal = SumaSubtotales(row.items) \/ (row.sector = 30 /\ row.items = << >>)

\* Sector data that is admitted still is once the note's own discount is added.
LEMMA DataPrepared ==
    ASSUME NEW p, NEW datos, ValidarDatosSector(p, datos)
    PROVE  ValidarDatosSector(p, PrepararDatosSector(p, datos))
  <1> DEFINE key == "monto_descuento_credito_debito"
  <1>1. CASE PrepararDatosSector(p, datos) = datos
    BY <1>1
  <1>2. CASE PrepararDatosSector(p, datos) # datos
    <2>1. PICK more : /\ more = PrepararDatosSector(p, datos) /\ key \notin DOMAIN datos
                      /\ more = [k \in DOMAIN datos \cup {key} |->
                                    IF k \in DOMAIN datos THEN datos[k] ELSE "ok"]
      BY <1>2 DEF PrepararDatosSector
    <2>2. /\ DOMAIN more = DOMAIN datos \cup {key} /\ more[key] = "ok"
          /\ \A k \in DOMAIN datos : more[k] = datos[k]
      BY <2>1
    <2>3. key \notin SinDeclarar(p)
      BY DEF SinDeclarar
    <2> QED
      BY <2>1, <2>2, <2>3 DEF ValidarDatosSector, ValidarCampos
  <1> QED
    BY <1>1, <1>2

\* A request that becomes a draft leaves a sound row, of a profile of its sector
\* and layout.
LEMMA DraftSound ==
    ASSUME NEW r, SolicitudCompleta(r), NEW sale, LineasCompletas(sale.items), NEW m,
           NEW b \in BorradorDe(r, sale, Actividad, m)
    PROVE  RowRouted(Persistido(b)) /\ RowSound(Persistido(b), Persistido(b) = b)
  <1>1. PICK t, p :
            /\ t \in autofillDocumentoAjusteDescuento(r, sale)
            /\ SolicitudCompleta(t) /\ Admitted(t, p, m) /\ DraftOf(b, t, p, m)
    BY Drafted
  <1>2. p \in CatalogoSectores /\ p.codigo = b.sector /\ p.layout = b.layout
    BY <1>1 DEF Admitted, DraftOf, PerfilSectorLayout
  <1>3. PICK row, lines :
            /\ row = Persistido(b)
            /\ lines = [k \in DOMAIN b.items |->
                           [b.items[k] EXCEPT !.descuento = 10 * Centavos(b.items[k].descuento)]]
            /\ row = [b EXCEPT !.items = lines]
    BY Zenon DEF Persistido
  <1>4. /\ row.items = lines /\ row.sector = b.sector /\ row.layout = b.layout
        /\ row.modalidad = b.modalidad /\ row.datos = b.datos /\ row.archivo = b.archivo
        /\ row.subtotal = b.subtotal /\ row.total = b.total /\ row.descuento = b.descuento
        /\ row.gift = b.gift
    BY <1>1, <1>3 DEF DraftOf
  <1>5. ASSUME NEW k \in DOMAIN b.items
        PROVE  /\ LineaCompleta(lines[k]) /\ lines[k].datos = b.items[k].datos
               /\ lines[k].cantidad = b.items[k].cantidad /\ lines[k].precio = b.items[k].precio
               /\ lines[k].descuento = 10 * Centavos(b.items[k].descuento)
               /\ lines[k].descuento = 10 * Centavos(lines[k].descuento)
    <2>1. LineaCompleta(b.items[k])
      BY <1>1 DEF DraftOf, LineasCompletas
    <2>2. PICK c \in Int : c = Centavos(b.items[k].descuento)
      BY <2>1, Rounded DEF LineaCompleta, Centavos
    <2>3. lines[k] = [b.items[k] EXCEPT !.descuento = 10 * c]
      BY <1>3, <2>2
    <2>4. 10 * c \in Int /\ Centavos(10 * c) = c
      BY Rounded
    <2> QED
      BY <2>1, <2>2, <2>3, <2>4 DEF LineaCompleta
  <1>6. LineasCompletas(b.items) /\ LineasCompletas(t.items) /\ DOMAIN b.items = DOMAIN t.items
    BY <1>1 DEF DraftOf, SolicitudCompleta
  <1>7. /\ LineasCompletas(lines) /\ DOMAIN lines = DOMAIN b.items
        /\ lines = << >> <=> t.items = << >>
    <2>1. lines = [k \in DOMAIN b.items |-> lines[k]]
      BY <1>3
    <2> QED
      BY <1>5, <1>6, <2>1, LinesRewritten, Lines
  <1>8. PerfilDe(row) = p
    BY <1>2, <1>4, ProfileOf DEF PerfilDe
  <1>9. t.items = << >> => /\ b.sector = 30 /\ ~ConDetalle(p) /\ t.total # SinTotal
    <2>1. SUFFICES ASSUME t.items = << >> PROVE b.sector = 30 /\ ~ConDetalle(p) /\ t.total # SinTotal
      OBVIOUS
    <2>2. t.sector = 30
      BY <1>1, <2>1 DEF Admitted
    <2>3. p.codigo = 30
      BY <1>1, <2>2 DEF Admitted, resolveInvoiceSector, PerfilSectorLayout
    <2>4. ~ConDetalle(p)
      BY <1>2, <2>3, CatalogoRegular DEF Regular, ConDetalle
    <2> QED
      BY <1>1, <1>2, <2>1, <2>3, <2>4 DEF Admitted, TotalCoherente
  <1>10. t.items # << >> => t.total = SinTotal
    BY <1>1 DEF Admitted, TotalCoherente
  <1>11. /\ b.subtotal = SubtotalDe(t, b.items) /\ b.subtotal \in Int
         /\ b.subtotal = SubtotalDe(t, Normalizados(p, t.items))
    <2>1. b.subtotal = SubtotalDe(t, b.items)
      BY <1>1 DEF DraftOf
    <2>2. SumaSubtotales(b.items) \in Int /\ t.total \in Int
      BY <1>1, <1>6, Lines DEF SolicitudCompleta
    <2>3. SumaSubtotales(b.items) = SumaSubtotales(Normalizados(p, t.items))
      BY <1>1, SameSums DEF DraftOf
    <2> QED
      BY <2>1, <2>2, <2>3 DEF SubtotalDe
  <1>12. b.descuento \in Int /\ b.gift \in Int /\ TotalAdmitido(b.subtotal, b.descuento, b.gift)
    BY <1>1, <1>11 DEF DraftOf, Admitted, ImportesAdmitidos, SolicitudCompleta
  <1>13. ASSUME NEW k \in DOMAIN t.items
         PROVE  /\ ValidarDatosDetalle(p, t.items[k].datos)
                /\ CalcularSubtotal(b.items[k]) >= 0
    <2>1. ItemAdmitido(p, Normalizados(p, t.items)[k])
      BY <1>1 DEF Admitted
    <2>2. Normalizados(p, t.items)[k].datos = t.items[k].datos
      BY <1>6, Normalised
    <2>3. CalcularSubtotal(b.items[k]) = CalcularSubtotal(Normalizados(p, t.items)[k])
      BY <1>1, <1>6, SameSums DEF DraftOf
    <2> QED
      BY <2>1, <2>2, <2>3 DEF ItemAdmitido
  <1>14. b.sector = 1 => SameAmounts(lines, b.items)
    <2>1. ASSUME b.sector = 1, NEW k \in DOMAIN b.items
          PROVE  b.items[k].descuento = 10 * Centavos(b.items[k].descuento)
      <3>0. k \in DOMAIN t.items /\ LineaCompleta(t.items[k]) /\ p.codigo = 1
        BY <1>2, <1>6, <2>1 DEF LineasCompletas
      <3>1. b.items[k].descuento = 10 * Centavos(t.items[k].descuento)
        <4>1. Normalizados(p, t.items)[k].descuento = 10 * Centavos(t.items[k].descuento)
          BY <1>6, <3>0, Normalised
        <4>2. b.items[k].descuento = Normalizados(p, t.items)[k].descuento
          BY <1>1, <2>1 DEF DraftOf, SameAmounts
        <4> QED
          BY <4>1, <4>2
      <3>2. Centavos(t.items[k].descuento) \in Int
        BY <3>0, Rounded DEF LineaCompleta, Centavos
      <3>3. PICK c \in Int : c = Centavos(t.items[k].descuento)
        BY <3>2
      <3> QED
        BY <3>1, <3>3, Rounded
    <2> QED
      BY <1>5, <1>7, <2>1 DEF SameAmounts
  <1>15. row = b \/ b.sector = 1 =>
             \/ row.subtotal = SumaSubtotales(row.items)
             \/ (row.sector = 30 /\ row.items = << >>)
    <2>1. SUFFICES ASSUME row = b \/ b.sector = 1, lines # << >>
                   PROVE  row.subtotal = SumaSubtotales(row.items)
      BY <1>4, <1>7, <1>9
    <2>2. b.subtotal = SumaSubtotales(b.items)
      BY <1>7, <1>10, <1>11, <2>1 DEF SubtotalDe
    <2>3. CASE row = b
      BY <2>2, <2>3
    <2>4. CASE b.sector = 1
      BY <1>4, <1>14, <2>2, <2>4, SameSums
    <2> QED
      BY <2>1, <2>3, <2>4
  <1>16. /\ ValidarModalidad(p, row.modalidad) /\ (HasBuilder(p) \/ row.archivo)
         /\ ConDetalle(p) => row.items # << >>
         /\ ValidarDatosSector(p, row.datos)
    BY <1>1, <1>4, <1>7, <1>9, DataPrepared DEF Admitted, DraftOf
  <1>17. ASSUME NEW k \in DOMAIN row.items
         PROVE  /\ ValidarDatosDetalle(p, row.items[k].datos)
                /\ row.items[k].descuento = 10 * Centavos(row.items[k].descuento)
                /\ row = b => CalcularSubtotal(row.items[k]) >= 0
    <2>1. k \in DOMAIN b.items /\ k \in DOMAIN t.items /\ b.items[k].datos = t.items[k].datos
      BY <1>1, <1>4, <1>6, <1>7 DEF DraftOf
    <2> QED
      BY <1>4, <1>5, <1>13, <2>1
  <1>18. row.total = TotalDocumento(row.subtotal, row.descuento)
    BY <1>1, <1>4 DEF DraftOf
  <1>19. RowSound(row, row = b)
    BY <1>4, <1>7, <1>8, <1>11, <1>12, <1>15, <1>16, <1>17, <1>18 DEF RowSound
  <1>20. RowRouted(row)
    BY <1>2, <1>4, <1>16 DEF RowRouted, ValidarModalidad, Electronica, Computarizada
  <1> QED
    BY <1>3, <1>19, <1>20

\* What the preview promised of a simplified request is what its draft costs.
LEMMA PromiseKept ==
    ASSUME NEW r, SolicitudCompleta(r), NEW sale, LineasCompletas(sale.items), NEW m,
           NEW s \in Simplify(r, sale, Actividad, m), NEW b \in BorradorDe(s, sale, Actividad, m)
    PROVE  Previsto(s).subtotal = b.subtotal /\ Previsto(s).total = b.total
  <1>1. /\ SolicitudCompleta(s) /\ resolveInvoiceSector(s, Actividad) = s.sector
        /\ \E p \in PerfilSectorLayout(s.sector, s.layout) : ConDetalle(p) => s.items # << >>
    BY SimplifiedComplete
  <1>2. PICK t, p :
            /\ t \in autofillDocumentoAjusteDescuento(s, sale)
            /\ SolicitudCompleta(t) /\ Admitted(t, p, m) /\ DraftOf(b, t, p, m)
    BY <1>1, Drafted
  <1>3. t.sector = s.sector /\ SameHeader(t, s)
    BY <1>1, <1>2, Autofilled
  <1>4. p \in PerfilSectorLayout(s.sector, s.layout)
    BY <1>1, <1>2, <1>3 DEF Admitted, resolveInvoiceSector, SameHeader
  <1>5. \A q \in PerfilSectorLayout(s.sector, s.layout) : q = p
    BY <1>4, CatalogoDistinct DEF PerfilSectorLayout
  <1>6. SameAmounts(t.items, s.items)
    <2>1. CASE s.items # << >>
      BY <1>1, <1>2, <2>1, Autofilled
    <2>2. CASE s.items = << >>
      <3>1. ~ConDetalle(p)
        BY <1>1, <1>5, <2>2
      <3>2. p \in CatalogoSectores /\ (esSectorAjuste(s.sector) => p.codigo = s.sector)
        BY <1>4 DEF PerfilSectorLayout, esSectorAjuste
      <3>3. ~esSectorAjuste(s.sector)
        BY <3>1, <3>2, CatalogoRegular DEF Regular, ConDetalle, esSectorAjuste
      <3>4. t = s
        BY <1>1, <1>2, <3>3, Autofilled
      <3> QED
        BY <3>4 DEF SameAmounts
    <2> QED
      BY <2>1, <2>2
  <1>7. LineasCompletas(s.items) /\ LineasCompletas(t.items)
    BY <1>1, <1>2 DEF SolicitudCompleta
  <1>8. PICK ns, nt : ns = Normalizados(p, s.items) /\ nt = Normalizados(p, t.items)
    OBVIOUS
  <1>9. SameAmounts(nt, ns)
    BY <1>6, <1>7, <1>8, Normalised DEF SameAmounts
  <1>10. SameAmounts(b.items, ns)
    BY <1>2, <1>8, <1>9 DEF SameAmounts, DraftOf
  <1>11. b.subtotal = SubtotalDe(s, ns)
    BY <1>2, <1>3, <1>10, SameSums DEF DraftOf, SubtotalDe, SameHeader
  <1>12. PICK q : q = CHOOSE x \in PerfilSectorLayout(s.sector, s.layout) : TRUE
    OBVIOUS
  <1>13. q = p
    BY <1>4, <1>5, <1>12
  <1>14. PICK subtotal, total : /\ subtotal = SubtotalDe(s, ns)
                                /\ total = TotalDocumento(subtotal, s.descuento)
    OBVIOUS
  <1>15. Previsto(s) = [sector |-> p.codigo, subtotal |-> subtotal, total |-> total]
    BY <1>8, <1>12, <1>13, <1>14, Zenon DEF Previsto
  <1> QED
    BY <1>2, <1>3, <1>11, <1>14, <1>15 DEF DraftOf, SameHeader

\* What an XML or a call carries is what the row says.
Carries(x, row) ==
    x.sector = row.sector /\ x.tipo = row.tipo /\ x.modalidad = row.modalidad

\* The first lines are o of the sale, and then come n of the note's own.
SaleThenOwn(lines, o, n) ==
    /\ Len(lines) = o + n
    /\ \A k \in DOMAIN lines : lines[k][2] = IF k <= o THEN 1 ELSE 2

\* The amounts and the lines of an XML built from a row and the sale it corrects.
XmlSound(x, row, sale, exact) ==
    /\ exact => x.total = row.total /\ x.base <= row.total
    /\ x.total >= 0 /\ x.base >= 0
    /\ \A k \in DOMAIN x.lineas : x.lineas[k][1] = k
    /\ row.sector \in {24, 47, 48} /\ sale # << >> =>
          SaleThenOwn(x.lineas, Len(sale), Len(row.items))

\* An XML of the document.
XmlOK(x) == Carries(x, doc.row) /\ XmlSound(x, doc.row, doc.sale, doc.exacto)

\* A call goes to the service of the row's profile, with the row's identity.
CallRouted(c) ==
    /\ c.op \in {"recepcion", "paquete", "masiva", "verificacion", "anulacion", "reversion"}
    /\ Carries(c, doc.row)
    /\ c.servicio = Servicio(PerfilDoc, doc.row.modalidad)
    /\ \A xml \in c.xml : XmlOK(xml)

\* What the preview promised is what the row costs.
PromiseOK(v, row) == v.subtotal = row.subtotal /\ v.total = row.total

\* Nothing is promised of, or called for, a document that has not been drafted;
\* a drafted one has a sound row, at most one XML, built from it, and so are its
\* calls; and one issued offline keeps an XML that may go into a package.
RouteInv ==
    /\ modalidad \in {Electronica, Computarizada}
    /\ doc.stage \in {"none", "PENDING", "OFFLINE", "CANCELLED"} \cup Emitidas
    /\ doc.stage = "none" => llamadas = {} /\ promesa = {}
    /\ doc.stage # "none" =>
           /\ doc = [stage |-> doc.stage, row |-> doc.row, xml |-> doc.xml,
                     sale |-> doc.sale, exacto |-> doc.exacto]
           /\ RowRouted(doc.row) /\ RowSound(doc.row, doc.exacto)
           /\ LineasCompletas(doc.sale)
           /\ \A v \in promesa : PromiseOK(v, doc.row)
           /\ \A x, y \in doc.xml : x = y
           /\ \A x \in doc.xml : XmlOK(x)
           /\ \A c \in llamadas : CallRouted(c)
    /\ doc.stage = "OFFLINE" =>
           /\ AdmiteIndividual(PerfilDoc)
           /\ doc.xml # {} /\ \A x \in doc.xml : x.emision = EmisionPaqueteOffline

\* Initially there is no document.
LEMMA RouteInit == DocumentInit => RouteInv
  BY DEF DocumentInit, RouteInv, SinDocumento, Electronica, Computarizada

\* The profile of a routed row is of the catalogue and has the row's sector.
LEMMA RowProfile ==
    ASSUME RowRouted(doc.row)
    PROVE  /\ PerfilDoc \in CatalogoSectores
           /\ PerfilDoc.codigo = doc.row.sector
           /\ PerfilSectorLayout(doc.row.sector, doc.row.layout) # {}
  <1> DEFINE S == PerfilSectorLayout(doc.row.sector, doc.row.layout)
  <1>1. PICK p \in CatalogoSectores : p.codigo = doc.row.sector /\ p.layout = doc.row.layout
    BY DEF RowRouted
  <1>2. doc.row.sector \in 1..55
    BY <1>1, CatalogoRegular DEF Regular
  <1>3. S = {q \in CatalogoSectores : q.layout = doc.row.layout /\ q.codigo = doc.row.sector}
    BY <1>2 DEF PerfilSectorLayout
  <1>4. p \in S
    BY <1>1, <1>3
  <1>5. PerfilDoc \in S
    BY <1>4, Zenon DEF PerfilDoc, Row
  <1> QED
    BY <1>3, <1>4, <1>5

\* What is assumed of the documents' requests and sales.
LEMMA DocumentingAssumption == DocumentsAssumption
  BY OperationsAssumption

\* The sale a document starts from, or its absence, has complete lines.
LEMMA SaleLines ==
    ASSUME NEW body, NEW sale \in VentasDe(body)
    PROVE  LineasCompletas(sale.items)
  <1>1. CASE sale \in Sales
    BY <1>1, DocumentingAssumption DEF DocumentsAssumption
  <1>2. CASE sale = SinVenta
    <2>1. sale.items = << >>
      BY <1>2 DEF SinVenta
    <2>2. << >> \in Seq({}) /\ DOMAIN << >> = {}
      OBVIOUS
    <2> QED
      BY <2>1, <2>2 DEF LineasCompletas
  <1> QED
    BY <1>1, <1>2 DEF VentasDe

\* A new draft carries nothing yet.
LEMMA NewDraft ==
    ASSUME RouteInv, doc.stage = "none", UNCHANGED <<modalidad, llamadas>>,
           NEW b, NEW sale, doc' = Nuevo(b, sale), LineasCompletas(sale.items),
           RowRouted(Persistido(b)), RowSound(Persistido(b), Persistido(b) = b),
           \A v \in promesa' : v.subtotal = b.subtotal /\ v.total = b.total
    PROVE  RouteInv'
  <1>1. PICK row, lines, kept : /\ row = Persistido(b) /\ lines = sale.items
                                /\ kept = (Persistido(b) = b)
    OBVIOUS
  <1>2. doc' = [stage |-> "PENDING", row |-> row, xml |-> {}, sale |-> lines, exacto |-> kept]
    BY <1>1, Zenon DEF Nuevo
  <1>3. /\ doc'.stage = "PENDING" /\ doc'.row = row /\ doc'.xml = {} /\ doc'.sale = lines
        /\ doc'.exacto = kept
    BY <1>2
  <1>4. llamadas' = {} /\ modalidad' \in {Electronica, Computarizada}
    BY DEF RouteInv
  <1>5. row.subtotal = b.subtotal /\ row.total = b.total
    BY <1>1 DEF Persistido
  <1>6. \A v \in promesa' : PromiseOK(v, doc'.row)
    BY <1>3, <1>5 DEF PromiseOK
  <1>7. RowRouted(doc'.row) /\ LineasCompletas(doc'.sale)
    BY <1>1, <1>3
  <1>8. RowSound(doc'.row, doc'.exacto)
    <2>1. RowSound(row, kept)
      BY <1>1, Zenon
    <2> QED
      BY <1>3, <2>1
  <1>9. doc'.stage # "none" /\ doc'.stage # "OFFLINE"
    BY <1>3
  <1>10. doc' = [stage |-> doc'.stage, row |-> doc'.row, xml |-> doc'.xml,
                 sale |-> doc'.sale, exacto |-> doc'.exacto]
    BY <1>2, <1>3
  <1> QED
    BY <1>3, <1>4, <1>6, <1>7, <1>8, <1>9, <1>10 DEF RouteInv

\* The lines of an XML are numbered without gaps; those of a note are the
\* sale's followed by its own.
LEMMA LinesNumbered ==
    ASSUME NEW p, NEW o \in Nat, NEW n \in Nat, NEW lines, lines = LineasXML(p, o, n)
    PROVE  /\ \A k \in DOMAIN lines : lines[k][1] = k
           /\ ("par" \in p.rasgos \/ p.codigo = 24) /\ o > 0 => SaleThenOwn(lines, o, n)
  <1>1. CASE ("par" \in p.rasgos \/ p.codigo = 24) /\ o > 0
    <2>1. lines = [k \in 1..o + n |-> <<k, IF k <= o THEN 1 ELSE 2>>]
      BY <1>1 DEF LineasXML
    <2>2. /\ DOMAIN lines = 1..o + n
          /\ \A k \in 1..o + n : lines[k][1] = k /\ lines[k][2] = IF k <= o THEN 1 ELSE 2
      BY <2>1
    <2>3. Len(lines) = o + n
      BY <2>1
    <2> QED
      BY <2>2, <2>3 DEF SaleThenOwn
  <1>2. CASE ~(("par" \in p.rasgos \/ p.codigo = 24) /\ o > 0)
    <2>1. lines = ConstruirDetalles(p, n)
      BY <1>2 DEF LineasXML
    <2>2. lines = << >> \/ lines = <<<<1, 1>>>> \/ lines = Pares(n) \/ lines = Correlativas(n)
      BY <2>1 DEF ConstruirDetalles
    <2>3. \A k \in DOMAIN lines : lines[k][1] = k
      <3>1. CASE lines = << >> \/ lines = <<<<1, 1>>>>
        BY <3>1
      <3>2. CASE lines = Pares(n)
        BY <3>2 DEF Pares
      <3>3. CASE lines = Correlativas(n)
        BY <3>3 DEF Correlativas
      <3> QED
        BY <2>2, <3>1, <3>2, <3>3
    <2> QED
      BY <1>2, <2>3
  <1> QED
    BY <1>1, <1>2

\* The XML built from a row carries its identity.
LEMMA XmlFields ==
    ASSUME RowRouted(doc.row), NEW total, NEW emision, NEW originales
    PROVE  LET x == XmlDe(PerfilDoc, total, emision, originales) IN
           /\ Carries(x, doc.row) /\ x.emision = emision /\ x.total = total
           /\ x.base = MontoTotalSujetoIva(PerfilDoc, total, doc.row.gift)
           /\ x.lineas = LineasXML(PerfilDoc, Len(originales), Len(doc.row.items))
  <1>1. PerfilDoc.codigo = doc.row.sector
    BY RowProfile
  <1>2. PICK base, lineas : /\ base = MontoTotalSujetoIva(PerfilDoc, total, doc.row.gift)
                            /\ lineas = LineasXML(PerfilDoc, Len(originales), Len(doc.row.items))
    OBVIOUS
  <1>3. PICK x : /\ x = XmlDe(PerfilDoc, total, emision, originales)
                 /\ x = [sector |-> PerfilDoc.codigo, tipo |-> doc.row.tipo,
                         modalidad |-> doc.row.modalidad, emision |-> emision,
                         total |-> total, base |-> base, lineas |-> lineas]
    BY <1>2, Zenon DEF XmlDe, Row
  <1>4. /\ Carries(x, doc.row) /\ x.emision = emision /\ x.total = total /\ x.base = base
        /\ x.lineas = lineas
    BY <1>1, <1>3 DEF Carries
  <1> QED
    BY <1>2, <1>3, <1>4

\* The XML of a document emitted by itself has the row's amounts: the checks
\* admitted those the emission calculates, and when the columns are exact they
\* are the draft's.
LEMMA IndividualXml ==
    ASSUME RouteInv, doc.stage # "none", Emitible, NEW emision
    PROVE  XmlOK(XmlIndividual(emision)) /\ XmlIndividual(emision).emision = emision
  <1>1. PICK p, row, x, originales :
            /\ p = PerfilDoc /\ row = doc.row /\ x = XmlIndividual(emision)
            /\ originales = LineasOriginales(p)
    OBVIOUS
  <1>2. RowRouted(row) /\ RowSound(row, doc.exacto) /\ p = PerfilDe(row)
    BY <1>1 DEF RouteInv, PerfilDoc, PerfilDe, Row
  <1>3. /\ Carries(x, row) /\ x.emision = emision /\ x.total = TotalEmision
        /\ x.base = MontoTotalSujetoIva(p, TotalEmision, row.gift)
        /\ x.lineas = LineasXML(p, Len(originales), Len(row.items))
    BY <1>1, <1>2, XmlFields DEF XmlIndividual
  <1>4. LineasCompletas(row.items) /\ row.descuento \in Int /\ row.gift \in Int /\ row.subtotal \in Int
    BY <1>2 DEF RowSound
  <1>5. SubtotalEmision \in Int
    BY <1>1, <1>4, Lines DEF SubtotalEmision, Row
  <1>6. Centavos(row.descuento) \in Int
    BY <1>4, Rounded DEF Centavos
  <1>7. /\ TotalEmision \in Int /\ TotalEmision >= 0 /\ row.gift >= 0
        /\ Centavos(row.gift) <= TotalEmision
    <2>1. TotalAdmitido(SubtotalEmision, row.descuento, row.gift)
      BY <1>1 DEF Emitible, Row
    <2>2. TotalEmision = TotalDocumento(SubtotalEmision, row.descuento)
      BY <1>1 DEF TotalEmision, Row
    <2> QED
      BY <1>5, <1>6, <2>1, <2>2 DEF TotalAdmitido, TotalDocumento
  <1>8. 0 <= x.base /\ x.base <= TotalEmision
    BY <1>3, <1>4, <1>7, BaseBounds
  <1>9. doc.exacto => TotalEmision = row.total
    <2>1. SUFFICES ASSUME doc.exacto PROVE TotalEmision = row.total
      OBVIOUS
    <2>2. \/ row.subtotal = SumaSubtotales(row.items)
          \/ (row.sector = 30 /\ row.items = << >>)
      BY <1>2, <2>1 DEF RowSound
    <2>3. ~(row.sector = 30 /\ row.items = << >>) => SubtotalEmision = SumaSubtotales(row.items)
      BY <1>1 DEF SubtotalEmision, Row
    <2>4. (row.sector = 30 /\ row.items = << >>) => SubtotalEmision = row.subtotal
      BY <1>1 DEF SubtotalEmision, Row
    <2>5. SubtotalEmision = row.subtotal
      BY <2>2, <2>3, <2>4
    <2>6. row.total = TotalDocumento(row.subtotal, row.descuento)
      BY <1>2 DEF RowSound
    <2> QED
      BY <1>1, <2>5, <2>6 DEF TotalEmision, Row
  <1>10. LineasCompletas(doc.sale) /\ Len(originales) \in Nat /\ Len(row.items) \in Nat
    <2>1. LineasCompletas(doc.sale)
      BY DEF RouteInv
    <2>2. originales = doc.sale \/ originales = << >>
      BY <1>1 DEF LineasOriginales
    <2>3. Len(<< >>) \in Nat
      OBVIOUS
    <2> QED
      BY <1>4, <2>1, <2>2, <2>3, Lines
  <1>11. row.sector \in {24, 47, 48} /\ doc.sale # << >> =>
             /\ "par" \in p.rasgos \/ p.codigo = 24
             /\ originales = doc.sale /\ Len(originales) > 0
    <2>1. SUFFICES ASSUME row.sector \in {24, 47, 48}, doc.sale # << >>
                   PROVE  /\ "par" \in p.rasgos \/ p.codigo = 24
                          /\ originales = doc.sale /\ Len(originales) > 0
      OBVIOUS
    <2>2. Regular(p) /\ p.codigo = row.sector
      BY <1>1, <1>2, RowProfile, CatalogoRegular
    <2>3. EsAjuste(p) /\ ("par" \in p.rasgos \/ p.codigo = 24)
      BY <2>1, <2>2 DEF Regular, EsAjuste
    <2>4. originales = doc.sale
      BY <1>1, <2>3 DEF LineasOriginales
    <2>5. Len(doc.sale) \in Nat /\ Len(doc.sale) # 0
      BY <1>10, <2>1, Lines
    <2> QED
      BY <2>3, <2>4, <2>5
  <1>12. /\ \A k \in DOMAIN x.lineas : x.lineas[k][1] = k
         /\ row.sector \in {24, 47, 48} /\ doc.sale # << >> =>
               SaleThenOwn(x.lineas, Len(doc.sale), Len(row.items))
    <2>1. PICK o, n, lines :
              /\ o \in Nat /\ n \in Nat
              /\ o = Len(originales) /\ n = Len(row.items) /\ lines = LineasXML(p, o, n)
      BY <1>10
    <2>2. x.lineas = lines
      BY <1>3, <2>1
    <2>3. \A k \in DOMAIN lines : lines[k][1] = k
      BY <2>1, LinesNumbered, Zenon
    <2>5. ("par" \in p.rasgos \/ p.codigo = 24) /\ o > 0 => SaleThenOwn(lines, o, n)
      BY <2>1, LinesNumbered, Zenon
    <2>4. row.sector \in {24, 47, 48} /\ doc.sale # << >> =>
              ("par" \in p.rasgos \/ p.codigo = 24) /\ o > 0 /\ o = Len(doc.sale)
      BY <1>11, <2>1
    <2> QED
      BY <2>1, <2>2, <2>3, <2>4, <2>5
  <1>13. XmlSound(x, row, doc.sale, doc.exacto)
    BY <1>3, <1>7, <1>8, <1>9, <1>12 DEF XmlSound
  <1> QED
    BY <1>1, <1>3, <1>13 DEF XmlOK

\* The XML of a bulk lot has the row's amounts, whether it takes the stored total
\* or, in sector 1, calculates it again from lines normalised already.
LEMMA BulkXml ==
    ASSUME RouteInv, doc.stage # "none", Masiva
    PROVE  XmlOK(XmlMasiva)
  <1>1. PICK p, row, x : p = PerfilDoc /\ row = doc.row /\ x = XmlMasiva
    OBVIOUS
  <1>2. RowRouted(row) /\ RowSound(row, doc.exacto) /\ p = PerfilDe(row)
    BY <1>1 DEF RouteInv, PerfilDoc, PerfilDe, Row
  <1>3. Regular(p) /\ p.codigo = row.sector /\ ~EsAjuste(p)
    BY <1>1, <1>2, RowProfile, CatalogoRegular DEF Masiva, AdmiteMasiva
  <1>4. /\ Carries(x, row) /\ x.total = TotalLote
        /\ x.base = MontoTotalSujetoIva(p, TotalLote, row.gift)
        /\ x.lineas = LineasXML(p, Len(<< >>), Len(row.items))
    BY <1>1, <1>2, XmlFields DEF XmlMasiva
  <1>5. /\ LineasCompletas(row.items) /\ row.descuento \in Int /\ row.gift \in Int
        /\ row.subtotal \in Int /\ row.total = TotalDocumento(row.subtotal, row.descuento)
        /\ TotalAdmitido(row.subtotal, row.descuento, row.gift)
    BY <1>2 DEF RowSound
  <1>6. TotalLote = row.total
    <2>1. CASE row.sector = 1 /\ row.items # << >>
      <3>1. PICK norm : norm = Normalizados(p, row.items)
        OBVIOUS
      <3>2. SameAmounts(norm, row.items)
        <4>1. \A k \in DOMAIN row.items : row.items[k].descuento = 10 * Centavos(row.items[k].descuento)
          BY <1>2 DEF RowSound
        <4> QED
          BY <1>3, <1>5, <2>1, <3>1, <4>1, Normalised DEF SameAmounts
      <3>3. row.subtotal = SumaSubtotales(row.items)
        BY <1>2, <2>1 DEF RowSound
      <3>4. SumaSubtotales(norm) = row.subtotal
        BY <3>2, <3>3, SameSums
      <3>5. TotalLote = TotalDocumento(SumaSubtotales(norm), row.descuento)
        BY <1>1, <2>1, <3>1 DEF TotalLote, Row
      <3> QED
        BY <1>5, <3>4, <3>5
    <2>2. CASE ~(row.sector = 1 /\ row.items # << >>)
      BY <1>1, <2>2 DEF TotalLote, Row
    <2> QED
      BY <2>1, <2>2
  <1>7. row.total \in Int /\ row.total >= 0 /\ row.gift >= 0 /\ Centavos(row.gift) <= row.total
    <2>1. Centavos(row.descuento) \in Int
      BY <1>5, Rounded DEF Centavos
    <2> QED
      BY <1>5, <2>1 DEF TotalAdmitido, TotalDocumento
  <1>8. 0 <= x.base /\ x.base <= row.total
    BY <1>4, <1>5, <1>6, <1>7, BaseBounds
  <1>9. \A k \in DOMAIN x.lineas : x.lineas[k][1] = k
    <2>1. Len(<< >>) \in Nat /\ Len(row.items) \in Nat
      BY <1>5, Lines
    <2> QED
      <3>1. PICK o, n, lines :
                /\ o \in Nat /\ n \in Nat
                /\ o = Len(<< >>) /\ n = Len(row.items) /\ lines = LineasXML(p, o, n)
        BY <2>1
      <3>2. x.lineas = lines
        BY <1>4, <3>1
      <3> QED
        <4>1. \A k \in DOMAIN lines : lines[k][1] = k
          BY <3>1, LinesNumbered, Zenon
        <4> QED
          BY <3>2, <4>1
  <1>10. row.sector \notin {24, 47, 48}
    BY <1>3 DEF Regular, EsAjuste
  <1>11. XmlSound(x, row, doc.sale, doc.exacto)
    BY <1>4, <1>6, <1>7, <1>8, <1>9, <1>10 DEF XmlSound
  <1> QED
    BY <1>1, <1>4, <1>11 DEF XmlOK

\* So does the call.
LEMMA CallCarries ==
    ASSUME RowRouted(doc.row), NEW xmls, \A x \in xmls : XmlOK(x),
           NEW op \in {"recepcion", "paquete", "masiva", "verificacion", "anulacion",
                       "reversion"}
    PROVE  CallRouted(LlamadaCon(op, PerfilDoc, doc.row.modalidad, xmls))
  <1>1. PerfilDoc.codigo = doc.row.sector
    BY RowProfile
  <1>0. PICK c : c = LlamadaCon(op, PerfilDoc, doc.row.modalidad, xmls)
    OBVIOUS
  <1>2. /\ c.op = op /\ c.sector = doc.row.sector /\ c.tipo = doc.row.tipo
        /\ c.modalidad = doc.row.modalidad /\ c.xml = xmls
        /\ c.servicio = Servicio(PerfilDoc, doc.row.modalidad)
    BY <1>0, <1>1 DEF LlamadaCon, Row
  <1>3. CallRouted(c)
    BY <1>2 DEF CallRouted, Carries
  <1> QED
    BY <1>0, <1>3

\* The updates of a drafted document, as records.
LEMMA DocUpdates ==
    ASSUME RouteInv, doc.stage # "none", NEW s, NEW kept
    PROVE  /\ doc = [stage |-> doc.stage, row |-> doc.row, xml |-> doc.xml,
                     sale |-> doc.sale, exacto |-> doc.exacto]
           /\ [doc EXCEPT !.stage = s] =
                 [stage |-> s, row |-> doc.row, xml |-> doc.xml, sale |-> doc.sale,
                  exacto |-> doc.exacto]
           /\ [doc EXCEPT !.stage = s, !.xml = kept] =
                 [stage |-> s, row |-> doc.row, xml |-> kept, sale |-> doc.sale,
                  exacto |-> doc.exacto]
  <1>1. PICK d, a, row, x, lines, exact :
            /\ d = doc /\ a = doc.stage /\ row = doc.row /\ x = doc.xml
            /\ lines = doc.sale /\ exact = doc.exacto
    OBVIOUS
  <1>2. d = [stage |-> a, row |-> row, xml |-> x, sale |-> lines, exacto |-> exact]
    BY <1>1, Zenon DEF RouteInv
  <1>3. PICK e : e = [d EXCEPT !.stage = s]
    OBVIOUS
  <1>4. e = [stage |-> s, row |-> row, xml |-> x, sale |-> lines, exacto |-> exact]
    BY <1>2, <1>3
  <1>5. [e EXCEPT !.xml = kept]
        = [stage |-> s, row |-> row, xml |-> kept, sale |-> lines, exacto |-> exact]
    BY <1>4
  <1>6. [d EXCEPT !.stage = s, !.xml = kept] = [e EXCEPT !.xml = kept]
    BY <1>2, <1>3
  <1>7. [d EXCEPT !.stage = s, !.xml = kept]
        = [stage |-> s, row |-> row, xml |-> kept, sale |-> lines, exacto |-> exact]
    BY <1>5, <1>6
  <1> QED
    BY <1>1, <1>2, <1>3, <1>4, <1>7, Zenon

\* A call, and a change of the stage or of the XML, keep the invariant when the
\* new XML carries the row's identity.
LEMMA CallMade ==
    ASSUME RouteInv, doc.stage # "none", modalidad' = modalidad,
           NEW op \in {"recepcion", "paquete", "masiva", "verificacion", "anulacion",
                       "reversion"},
           promesa' = promesa, NEW xmls, \A x \in xmls : XmlOK(x),
           llamadas' = llamadas \cup
               {LlamadaCon(op, PerfilDoc, doc.row.modalidad, xmls)},
           NEW s \in {"PENDING", "OFFLINE", "CANCELLED"} \cup Emitidas,
           NEW kept, \A x \in kept : XmlOK(x), \A x, y \in kept : x = y,
           s = "OFFLINE" => /\ AdmiteIndividual(PerfilDoc)
                            /\ kept # {} /\ \A x \in kept : x.emision = EmisionPaqueteOffline,
           doc' = [stage |-> s, row |-> doc.row, xml |-> kept, sale |-> doc.sale,
                   exacto |-> doc.exacto]
    PROVE  RouteInv'
  <1>1. PICK row, lines, exact : row = doc.row /\ lines = doc.sale /\ exact = doc.exacto
    OBVIOUS
  <1>3. doc' = [stage |-> s, row |-> row, xml |-> kept, sale |-> lines, exacto |-> exact]
    BY <1>1, Zenon
  <1>4. /\ doc'.stage = s /\ doc'.row = row /\ doc'.xml = kept /\ doc'.sale = lines
        /\ doc'.exacto = exact /\ s # "none"
    <2>1. PICK d : d = [stage |-> s, row |-> row, xml |-> kept, sale |-> lines, exacto |-> exact]
      OBVIOUS
    <2>2. d.stage = s /\ d.row = row /\ d.xml = kept /\ d.sale = lines /\ d.exacto = exact
      BY <2>1
    <2>3. doc' = d
      BY <1>3, <2>1, Zenon
    <2> QED
      BY <2>2, <2>3 DEF Emitidas
  <1>5. CallRouted(LlamadaCon(op, PerfilDoc, doc.row.modalidad, xmls))
    BY CallCarries DEF RouteInv
  <1>6. \A c \in llamadas' : CallRouted(c)
    BY <1>5 DEF RouteInv
  <1>7. PerfilDoc' = PerfilDoc
    BY <1>1, <1>4 DEF PerfilDoc, Row
  <1>8. \A x : XmlOK(x) => XmlOK(x)'
    BY <1>1, <1>4 DEF XmlOK
  <1>9. \A c \in llamadas' : CallRouted(c)'
    BY <1>1, <1>4, <1>6, <1>7, <1>8 DEF CallRouted
  <1>10. /\ RowRouted(doc'.row) /\ RowSound(doc'.row, doc'.exacto) /\ LineasCompletas(doc'.sale)
         /\ \A v \in promesa' : PromiseOK(v, doc'.row)
    BY <1>1, <1>4 DEF RouteInv
  <1>11. \A x \in doc'.xml : XmlOK(x)'
    BY <1>4, <1>8
  <1>12. doc'.stage = "OFFLINE" =>
            /\ AdmiteIndividual(PerfilDoc')
            /\ doc'.xml # {} /\ \A x \in doc'.xml : x.emision = EmisionPaqueteOffline
    BY <1>4, <1>7
  <1>13. doc' = [stage |-> doc'.stage, row |-> doc'.row, xml |-> doc'.xml,
                 sale |-> doc'.sale, exacto |-> doc'.exacto]
    BY <1>3, <1>4
  <1> QED
    BY <1>4, <1>9, <1>10, <1>11, <1>12, <1>13 DEF RouteInv

\* Every step keeps what a document and its calls carry.
LEMMA RouteStep == RouteInv /\ [DocumentNext]_dvars => RouteInv'
  <1> SUFFICES ASSUME RouteInv, [DocumentNext]_dvars PROVE RouteInv'
    OBVIOUS
  <1> DEFINE Kept(xml) == (\A x \in xml : XmlOK(x)) /\ (\A x, y \in xml : x = y)
  <1>1. /\ doc.stage # "none" => Kept(doc.xml)
        /\ doc.stage = "OFFLINE" =>
               /\ AdmiteIndividual(PerfilDoc)
               /\ doc.xml # {} /\ \A x \in doc.xml : x.emision = EmisionPaqueteOffline
    BY DEF RouteInv
  <1>2. ASSUME Emitible, doc.stage # "none", NEW e
        PROVE  /\ Kept({XmlIndividual(e)})
               /\ \A x \in {XmlIndividual(e)} : x.emision = e
    BY <1>2, IndividualXml
  <1>3. CASE UNCHANGED dvars
    <2>1. /\ modalidad' = modalidad /\ doc' = doc /\ llamadas' = llamadas /\ promesa' = promesa
      BY <1>3 DEF dvars
    <2>2. PerfilDoc' = PerfilDoc
      BY <2>1 DEF PerfilDoc, Row
    <2> QED
      BY <2>1, <2>2 DEF RouteInv, CallRouted, XmlOK
  <1>4. CASE CambiarModalidad
    <2>1. /\ doc' = doc /\ llamadas' = llamadas /\ promesa' = promesa
          /\ modalidad' \in {Electronica, Computarizada}
      BY <1>4 DEF CambiarModalidad, Electronica, Computarizada
    <2>2. PerfilDoc' = PerfilDoc
      BY <2>1 DEF PerfilDoc, Row
    <2> QED
      BY <2>1, <2>2 DEF RouteInv, CallRouted, XmlOK
  <1>5. CASE DraftSimplified
    <2>1. PICK body, sale, s, b :
              /\ body \in DocumentBodies /\ sale \in VentasDe(body)
              /\ s \in Simplify(body, sale, Actividad, modalidad)
              /\ b \in BorradorDe(s, sale, Actividad, modalidad)
              /\ doc' = Nuevo(b, sale) /\ promesa' = {Previsto(s)}
      BY <1>5, Zenon DEF DraftSimplified
    <2>2. doc.stage = "none" /\ UNCHANGED <<modalidad, llamadas>>
      BY <1>5 DEF DraftSimplified
    <2>3. SolicitudCompleta(body) /\ LineasCompletas(sale.items)
      BY <2>1, SaleLines, DocumentingAssumption DEF DocumentsAssumption
    <2>4. PICK m : m = modalidad
      OBVIOUS
    <2>5. s \in Simplify(body, sale, Actividad, m) /\ b \in BorradorDe(s, sale, Actividad, m)
      BY <2>1, <2>4
    <2>6. SolicitudCompleta(s)
      BY <2>3, <2>5, SimplifiedComplete
    <2>7. RowRouted(Persistido(b)) /\ RowSound(Persistido(b), Persistido(b) = b)
      BY <2>3, <2>5, <2>6, DraftSound
    <2>8. Previsto(s).subtotal = b.subtotal /\ Previsto(s).total = b.total
      BY <2>3, <2>5, PromiseKept
    <2> QED
      BY <2>1, <2>2, <2>3, <2>7, <2>8, NewDraft
  <1>6. CASE DraftComplete
    <2>1. PICK body, m, sale, b :
              /\ body \in DocumentBodies /\ sale \in VentasDe(body)
              /\ b \in BorradorDe(body, sale, Actividad, m) /\ doc' = Nuevo(b, sale)
      BY <1>6, Zenon DEF DraftComplete
    <2>2. doc.stage = "none" /\ UNCHANGED <<modalidad, promesa, llamadas>>
      BY <1>6 DEF DraftComplete
    <2>3. SolicitudCompleta(body) /\ LineasCompletas(sale.items)
      BY <2>1, SaleLines, DocumentingAssumption DEF DocumentsAssumption
    <2>4. RowRouted(Persistido(b)) /\ RowSound(Persistido(b), Persistido(b) = b)
      BY <2>1, <2>3, DraftSound
    <2>5. promesa' = {}
      BY <2>2 DEF RouteInv
    <2> QED
      BY <2>1, <2>2, <2>3, <2>4, <2>5, NewDraft
  <1>7. CASE Emitir
    <2> DEFINE xml == {XmlIndividual(EmisionOnline)}
    <2>2. doc.stage = "PENDING" /\ UNCHANGED <<modalidad, promesa>> /\ Emitible
      BY <1>7 DEF Emitir
    <2>1. Kept(xml)
      BY <1>2, <2>2
    <2>3. llamadas' = llamadas \cup
              {LlamadaCon("recepcion", PerfilDoc, doc.row.modalidad, xml)}
      BY <1>7 DEF Emitir, Registrar, Row
    <2>6. doc' = [doc EXCEPT !.stage = "SENT", !.xml = xml] \/ UNCHANGED doc
      BY <1>7 DEF Emitir
    <2> HIDE DEF xml
    <2>4. CASE doc' = [doc EXCEPT !.stage = "SENT", !.xml = xml]
      <3>1. doc' = [stage |-> "SENT", row |-> doc.row, xml |-> xml, sale |-> doc.sale,
                    exacto |-> doc.exacto]
        BY <2>2, <2>4, DocUpdates
      <3>2. "SENT" \in Emitidas
        BY DEF Emitidas
      <3> QED
        BY <2>1, <2>2, <2>3, <3>1, <3>2, CallMade
    <2>5. CASE UNCHANGED doc
      <3>1. doc' = [stage |-> "PENDING", row |-> doc.row, xml |-> doc.xml, sale |-> doc.sale,
                    exacto |-> doc.exacto]
        BY <2>2, <2>5, DocUpdates
      <3>2. Kept(doc.xml) /\ promesa' = promesa /\ modalidad' = modalidad
        BY <1>1, <2>2
      <3> QED
        BY <2>1, <2>2, <2>3, <2>5, <3>1, <3>2, CallMade
    <2> QED
      BY <2>4, <2>5, <2>6, Zenon
  <1>8. CASE PrepararFacturaOffline
    <2> DEFINE first == {XmlIndividual(EmisionOnline)}
               kept == {XmlIndividual(EmisionPaqueteOffline)}
    <2>2. doc.stage = "PENDING" /\ UNCHANGED <<modalidad, promesa>> /\ Emitible
      BY <1>8 DEF PrepararFacturaOffline
    <2>1. /\ Kept(first) /\ Kept(kept)
          /\ kept # {} /\ \A x \in kept : x.emision = EmisionPaqueteOffline
      BY <1>2, <2>2
    <2>5. AdmiteIndividual(PerfilDoc)
      BY <2>2 DEF Emitible
    <2>3. llamadas' = llamadas \cup
              {LlamadaCon("recepcion", PerfilDoc, doc.row.modalidad, first)}
      BY <1>8 DEF PrepararFacturaOffline, Registrar, Row
    <2>4. doc' = [doc EXCEPT !.stage = "OFFLINE", !.xml = kept]
      BY <1>8 DEF PrepararFacturaOffline
    <2> HIDE DEF first, kept
    <2>6. doc' = [stage |-> "OFFLINE", row |-> doc.row, xml |-> kept, sale |-> doc.sale,
                  exacto |-> doc.exacto]
      BY <2>2, <2>4, DocUpdates
    <2> QED
      BY <2>1, <2>2, <2>3, <2>5, <2>6, CallMade
  <1>9. CASE EnviarPaqueteFactura
    <2>1. doc.stage = "OFFLINE" /\ UNCHANGED <<modalidad, promesa>>
      BY <1>9 DEF EnviarPaqueteFactura
    <2>2. llamadas' = llamadas \cup
              {LlamadaCon("paquete", PerfilDoc, doc.row.modalidad, doc.xml)}
      BY <1>9 DEF EnviarPaqueteFactura, Registrar, Row
    <2>3. CASE doc' = [doc EXCEPT !.stage = "PACKAGED"]
      <3>1. doc' = [stage |-> "PACKAGED", row |-> doc.row, xml |-> doc.xml, sale |-> doc.sale,
                    exacto |-> doc.exacto]
        BY <2>1, <2>3, DocUpdates
      <3>2. "PACKAGED" \in Emitidas
        BY DEF Emitidas
      <3>3. Kept(doc.xml) /\ promesa' = promesa /\ modalidad' = modalidad
        BY <1>1, <2>1
      <3> QED
        BY <2>1, <2>2, <3>1, <3>2, <3>3, CallMade
    <2>4. CASE UNCHANGED doc
      BY <1>1, <2>1, <2>2, <2>4, DocUpdates, CallMade
    <2> QED
      BY <1>9, <2>3, <2>4 DEF EnviarPaqueteFactura
  <1>10. CASE EnviarMasivaFacturas
    <2> DEFINE xml == {XmlMasiva}
    <2>2. doc.stage = "PENDING" /\ UNCHANGED <<modalidad, promesa>> /\ Masiva
      BY <1>10 DEF EnviarMasivaFacturas
    <2>1. Kept(xml)
      BY <2>2, BulkXml
    <2>3. llamadas' = llamadas \cup
              {LlamadaCon("masiva", PerfilDoc, doc.row.modalidad, xml)}
      BY <1>10 DEF EnviarMasivaFacturas, Registrar, Row
    <2>4. doc' = [doc EXCEPT !.stage = "BULK", !.xml = xml] \/ UNCHANGED doc
      BY <1>10 DEF EnviarMasivaFacturas
    <2> HIDE DEF xml
    <2>5. CASE doc' = [doc EXCEPT !.stage = "BULK", !.xml = xml]
      <3>1. doc' = [stage |-> "BULK", row |-> doc.row, xml |-> xml, sale |-> doc.sale,
                    exacto |-> doc.exacto]
        BY <2>2, <2>5, DocUpdates
      <3>2. "BULK" \in Emitidas
        BY DEF Emitidas
      <3> QED
        BY <2>1, <2>2, <2>3, <3>1, <3>2, CallMade
    <2>6. CASE UNCHANGED doc
      <3>1. doc' = [stage |-> "PENDING", row |-> doc.row, xml |-> doc.xml, sale |-> doc.sale,
                    exacto |-> doc.exacto]
        BY <2>2, <2>6, DocUpdates
      <3>2. Kept(doc.xml) /\ promesa' = promesa /\ modalidad' = modalidad
        BY <1>1, <2>2
      <3> QED
        BY <2>1, <2>2, <2>3, <2>6, <3>1, <3>2, CallMade
    <2> QED
      BY <2>4, <2>5, <2>6
  <1>11. ASSUME NEW op \in {"verificacion", "anulacion", "reversion"},
                SolicitarDocumento(op), doc.stage # "none"
         PROVE  llamadas' = llamadas \cup
                    {LlamadaCon(op, PerfilDoc, doc.row.modalidad, {})}
    BY <1>11 DEF SolicitarDocumento, ModalidadSolicitud, Row
  <1>12. CASE VerificarEstado
    <2>1. /\ doc.stage # "none" /\ UNCHANGED <<modalidad, doc, promesa>>
          /\ SolicitarDocumento("verificacion")
      BY <1>12 DEF VerificarEstado, Emitidas
    <2>2. llamadas' = llamadas \cup
              {LlamadaCon("verificacion", PerfilDoc, doc.row.modalidad, {})}
      BY <1>11, <2>1
    <2>3. \A x \in {} : XmlOK(x)
      OBVIOUS
    <2>4. PICK s : s = doc.stage /\ s \in {"PENDING", "OFFLINE", "CANCELLED"} \cup Emitidas
      BY <2>1 DEF RouteInv
    <2>5. doc' = [stage |-> s, row |-> doc.row, xml |-> doc.xml, sale |-> doc.sale,
                  exacto |-> doc.exacto]
      BY <2>1, <2>4, DocUpdates
    <2> QED
      BY <1>1, <2>1, <2>2, <2>3, <2>4, <2>5, CallMade
  <1>13. CASE AnularFactura
    <2>1. /\ doc.stage # "none" /\ UNCHANGED <<modalidad, promesa>>
          /\ SolicitarDocumento("anulacion")
          /\ doc' = [doc EXCEPT !.stage = "CANCELLED"]
      BY <1>13 DEF AnularFactura, Emitidas
    <2>2. llamadas' = llamadas \cup
              {LlamadaCon("anulacion", PerfilDoc, doc.row.modalidad, {})}
      BY <1>11, <2>1
    <2>3. \A x \in {} : XmlOK(x)
      OBVIOUS
    <2>4. PICK s : s = "CANCELLED" /\ s \in {"PENDING", "OFFLINE", "CANCELLED"} \cup Emitidas
      BY DEF Emitidas
    <2>5. doc' = [stage |-> s, row |-> doc.row, xml |-> doc.xml, sale |-> doc.sale,
                  exacto |-> doc.exacto]
      BY <2>1, <2>4, DocUpdates
    <2>6. doc.stage # "none" /\ modalidad' = modalidad /\ promesa' = promesa /\ s # "OFFLINE"
      BY <2>1, <2>4
    <2> QED
      BY <1>1, <2>2, <2>3, <2>4, <2>5, <2>6, CallMade
  <1>14. CASE RevertirAnulacion
    <2>1. /\ doc.stage # "none" /\ UNCHANGED <<modalidad, promesa>>
          /\ SolicitarDocumento("reversion")
          /\ doc' = [doc EXCEPT !.stage = "SENT"]
      BY <1>14 DEF RevertirAnulacion
    <2>2. llamadas' = llamadas \cup
              {LlamadaCon("reversion", PerfilDoc, doc.row.modalidad, {})}
      BY <1>11, <2>1
    <2>3. \A x \in {} : XmlOK(x)
      OBVIOUS
    <2>4. PICK s : s = "SENT" /\ s \in {"PENDING", "OFFLINE", "CANCELLED"} \cup Emitidas
      BY DEF Emitidas
    <2>5. doc' = [stage |-> s, row |-> doc.row, xml |-> doc.xml, sale |-> doc.sale,
                  exacto |-> doc.exacto]
      BY <2>1, <2>4, DocUpdates
    <2>6. doc.stage # "none" /\ modalidad' = modalidad /\ promesa' = promesa /\ s # "OFFLINE"
      BY <2>1, <2>4
    <2> QED
      BY <1>1, <2>2, <2>3, <2>4, <2>5, <2>6, CallMade
  <1> QED
    BY <1>3, <1>4, <1>5, <1>6, <1>7, <1>8, <1>9, <1>10, <1>12, <1>13, <1>14
       DEF DocumentNext

\* So the calls agree, and the document is of its type.
LEMMA RouteAgrees == RouteInv => RoutesAgree
  <1> SUFFICES ASSUME RouteInv, NEW c \in llamadas
               PROVE  /\ Carries(c, doc.row)
                      /\ \A d \in llamadas : d.servicio = c.servicio
                      /\ c.servicio = "documentoAjuste" <=> esSectorAjuste(c.sector)
                      /\ \A xml \in c.xml : Carries(xml, c)
    BY DEF RoutesAgree, Carries, Row
  <1>1. doc.stage # "none" /\ RowRouted(doc.row) /\ \A d \in llamadas : CallRouted(d)
    BY DEF RouteInv
  <1>2. PICK p : p = PerfilDoc
    OBVIOUS
  <1>3. Regular(p) /\ p.codigo = c.sector
    BY <1>1, <1>2, RowProfile, CatalogoRegular DEF CallRouted, Carries
  <1>4. c.servicio = Servicio(p, doc.row.modalidad)
    BY <1>1, <1>2 DEF CallRouted
  <1>5. c.servicio = "documentoAjuste" <=> p.fachada = "documentoAjuste"
    BY <1>4 DEF Servicio
  <1> QED
    BY <1>1, <1>3, <1>5 DEF CallRouted, XmlOK, Carries, Regular, esSectorAjuste

\* The amounts agree.
LEMMA AmountsFollow == RouteInv => AmountsAgree
  <1> SUFFICES ASSUME RouteInv PROVE AmountsAgree
    OBVIOUS
  <1>1. CASE doc.stage = "none"
    BY <1>1 DEF RouteInv, AmountsAgree
  <1>2. CASE doc.stage # "none"
    <2>1. \A v \in promesa : v.subtotal = Row.subtotal /\ v.total = Row.total
      BY <1>2 DEF RouteInv, PromiseOK, Row
    <2>2. \A c \in llamadas : \A xml \in c.xml : XmlSound(xml, doc.row, doc.sale, doc.exacto)
      BY <1>2 DEF RouteInv, CallRouted, XmlOK
    <2>3. ASSUME NEW x, XmlSound(x, doc.row, doc.sale, doc.exacto)
          PROVE  /\ doc.exacto => x.total = Row.total /\ x.base <= Row.total
                 /\ x.total >= 0 /\ x.base >= 0
                 /\ \A k \in DOMAIN x.lineas : x.lineas[k][1] = k
                 /\ Row.sector \in {24, 47, 48} /\ doc.sale # << >> =>
                       /\ Len(x.lineas) = Len(doc.sale) + Len(Row.items)
                       /\ \A k \in DOMAIN x.lineas :
                              x.lineas[k][2] = IF k <= Len(doc.sale) THEN 1 ELSE 2
      BY <2>3 DEF XmlSound, SaleThenOwn, Row
    <2> QED
      BY <2>1, <2>2, <2>3 DEF AmountsAgree
  <1> QED
    BY <1>1, <1>2

\* And a draft has its route: a note by itself, the rest in bulk, and from
\* offline in a package.
LEMMA RouteExists == RouteInv => DraftHasRoute
  <1> SUFFICES ASSUME RouteInv PROVE DraftHasRoute
    OBVIOUS
  <1>1. doc.stage # "none" =>
           /\ RowRouted(doc.row) /\ RowSound(doc.row, doc.exacto)
           /\ PerfilDoc = PerfilDe(doc.row) /\ Regular(PerfilDoc)
           /\ PerfilDoc.codigo = doc.row.sector
    BY RowProfile, CatalogoRegular DEF RouteInv, PerfilDoc, PerfilDe, Row
  <1>2. ASSUME doc.stage = "PENDING", HasBuilder(PerfilDoc),
               EsAjuste(PerfilDoc) => doc.exacto /\ OriginalesValidos(PerfilDoc)
        PROVE  Emitible \/ Masiva
    <2>1. PICK p, row : p = PerfilDoc /\ row = doc.row
      OBVIOUS
    <2>2. RowSound(row, doc.exacto) /\ p = PerfilDe(row) /\ Regular(p) /\ p.codigo = row.sector
      BY <1>1, <1>2, <2>1
    <2>3. OriginalesValidos(p)
      <3>1. CASE EsAjuste(p)
        BY <1>2, <2>1, <3>1
      <3>2. CASE ~EsAjuste(p)
        <4>1. LineasOriginales(p) = << >>
          BY <3>2 DEF LineasOriginales
        <4>2. DOMAIN LineasOriginales(p) = {}
          BY <4>1
        <4> QED
          BY <4>2, Zenon DEF OriginalesValidos
      <3> QED
        BY <3>1, <3>2
    <2>4. AdaptadorAdmite(p)
      BY <1>2, <2>1, <2>2, <2>3 DEF RowSound, AdaptadorAdmite, Row
    <2>5. CASE ~EsAjuste(p)
      BY <1>2, <2>1, <2>4, <2>5 DEF Masiva, AdmiteMasiva
    <2>6. CASE EsAjuste(p)
      <3>1. AdmiteIndividual(p)
        BY <2>6 DEF EsAjuste, AdmiteIndividual
      <3>2. ValidarModalidad(p, modalidad)
        BY <2>2, <2>6 DEF Regular, EsAjuste, ValidarModalidad, RouteInv
      <3>3. SubtotalEmision = row.subtotal
        BY <1>2, <2>1, <2>2, <2>6 DEF SubtotalEmision, Row, RowSound, Regular, EsAjuste
      <3>4. TotalAdmitido(SubtotalEmision, row.descuento, row.gift)
        BY <2>2, <3>3 DEF RowSound
      <3>5. \A k \in DOMAIN row.items : CalcularSubtotal(row.items[k]) >= 0
        BY <1>2, <2>1, <2>2, <2>6 DEF RowSound
      <3> QED
        BY <2>1, <2>4, <3>1, <3>2, <3>4, <3>5 DEF Emitible, Row
    <2> QED
      BY <2>5, <2>6
  <1>3. ASSUME doc.stage = "OFFLINE", ~EsAjuste(PerfilDoc)
        PROVE  Empaquetable
    <2>1. PICK p, row : p = PerfilDoc /\ row = doc.row
      OBVIOUS
    <2>2. ValidarModalidad(p, row.modalidad) /\ p.codigo = row.sector
      BY <1>1, <1>3, <2>1 DEF RowSound
    <2>3. AdmitePaquete(p)
      BY <1>3, <2>1 DEF RouteInv, AdmiteIndividual, AdmitePaquete
    <2>4. doc.xml # {} /\ \A x \in doc.xml : validarXMLPersistido(p, x)
      BY <1>3, <2>1, <2>2 DEF RouteInv, XmlOK, Carries, validarXMLPersistido, Row
    <2> QED
      BY <2>1, <2>2, <2>3, <2>4 DEF Empaquetable, Row
  <1> QED
    BY <1>2, <1>3 DEF DraftHasRoute

\* The types hold of a document that went through these steps.
LEMMA RouteTypes == RouteInv => DocumentTypeOK
  BY RowProfile DEF RouteInv, DocumentTypeOK, RowRouted, CallRouted, Row,
     Electronica, Computarizada
=============================================================================
