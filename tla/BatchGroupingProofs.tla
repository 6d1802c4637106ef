------------------------- MODULE BatchGroupingProofs -------------------------
(***************************************************************************)
(* prepareInvoiceBatches, for every selection of invoices and every limit:  *)
(* its groups are uniform lots, full but for the last one of a group, and   *)
(* hold each invoice once.                                                 *)
(***************************************************************************)
EXTENDS Batches, FiniteSetTheorems, WellFoundedInduction, SequenceTheorems, TLAPS

-----------------------------------------------------------------------------
(* Natural numbers. *)

\* A set of natural numbers that is not empty has a least element.
LEMMA LeastNatural ==
    ASSUME NEW T, T \subseteq Nat, T # {}
    PROVE  \E m \in T : \A n \in T : m <= n
  <1> DEFINE R == {s \in Nat \X Nat : s[1] < s[2]}
  <1>1. IsWellFoundedOn(R, Nat)
    BY NatLessThanWellFounded DEF OpToRel
  <1> HIDE DEF R
  <1>2. PICK m \in T : \A n \in T : ~(<<n, m>> \in R)
    BY <1>1, WFMin
  <1>3. \A n \in T : m \in Nat /\ n \in Nat /\ (<<n, m>> \in R <=> n < m)
    BY DEF R
  <1>4. \A n \in T : m \in Nat /\ n \in Nat /\ ~(n < m)
    BY <1>2, <1>3, Zenon
  <1> QED
    BY <1>4

\* A position up to the next one is one of those so far, or the next one.
LEMMA OneMore == \A n \in Nat : 1..(n + 1) = (1..n) \cup {n + 1}
  OBVIOUS

\* What holds at 0 and passes from a number to the next holds up to any bound.
LEMMA UpTo ==
    ASSUME NEW n \in Nat, NEW T, 0 \in T, \A k \in 0..n : k < n /\ k \in T => k + 1 \in T
    PROVE  n \in T
  <1> SUFFICES ASSUME n \notin T PROVE FALSE
    OBVIOUS
  <1> DEFINE Out == {k \in 0..n : k \notin T}
  <1>1. Out \subseteq Nat /\ n \in Out
    OBVIOUS
  <1>2. PICK m \in Out : \A k \in Out : m <= k
    BY <1>1, LeastNatural
  <1>3. m \in 1..n /\ m - 1 \in 0..n /\ m - 1 < n /\ m - 1 \notin Out
    BY <1>2
  <1>4. m - 1 \in T
    BY <1>3
  <1>5. (m - 1) + 1 \in T
    BY <1>3, <1>4
  <1> QED
    BY <1>2, <1>3, <1>5

\* The greatest element of a set of positions.
LEMMA GreatestPosition ==
    ASSUME NEW n \in Nat, NEW T, T \subseteq 1..n, T # {}
    PROVE  Max(T) \in T /\ \A k \in T : k <= Max(T)
  <1> DEFINE U == {n - k : k \in T}
  <1>1. U \subseteq Nat /\ U # {}
    <2>1. \A k \in T : k \in 1..n /\ n - k \in Nat
      OBVIOUS
    <2>2. PICK k \in T : TRUE
      OBVIOUS
    <2>3. n - k \in U
      OBVIOUS
    <2> QED
      BY <2>1, <2>3
  <1>2. PICK m \in U : \A u \in U : m <= u
    BY <1>1, LeastNatural
  <1>3. PICK x \in T : m = n - x
    BY <1>2
  <1>4. \A k \in T : x >= k
    BY <1>2, <1>3
  <1>5. \E y \in T : \A k \in T : y >= k
    BY <1>4
  <1>6. Max(T) \in T /\ \A k \in T : Max(T) >= k
    BY <1>5, Zenon DEF Max
  <1> QED
    BY <1>6

-----------------------------------------------------------------------------
(* The order of the invoice numbers. *)

\* A number's rank among the selected ones counts those up to it.
Rank(ids, i) == Cardinality({j \in ids : j <= i})

\* Ranks are positions, and grow with the numbers.
LEMMA RankGrows ==
    ASSUME NEW ids, ids \subseteq Nat, IsFiniteSet(ids)
    PROVE  /\ \A i \in ids : Rank(ids, i) \in 1..Cardinality(ids)
           /\ \A i, j \in ids : i < j => Rank(ids, i) < Rank(ids, j)
  <1> DEFINE Upto(i) == {j \in ids : j <= i}
  <1>1. Cardinality(ids) \in Nat
    BY FS_CardinalityType
  <1>2. \A i \in ids : /\ IsFiniteSet(Upto(i)) /\ Cardinality(Upto(i)) \in Nat
                       /\ Cardinality(Upto(i)) <= Cardinality(ids)
    <2>1. ASSUME NEW i \in ids
          PROVE  IsFiniteSet(Upto(i)) /\ Cardinality(Upto(i)) <= Cardinality(ids)
      <3>1. Upto(i) \in SUBSET ids
        OBVIOUS
      <3> HIDE DEF Upto
      <3> QED
        BY <3>1, FS_Subset
    <2> HIDE DEF Upto
    <2> QED
      BY <2>1, FS_CardinalityType
  <1>3. \A i \in ids : i \in Upto(i)
    OBVIOUS
  <1>4. \A i, j \in ids : i < j => Upto(i) \in SUBSET Upto(j) /\ Upto(i) # Upto(j)
    <2> SUFFICES ASSUME NEW i \in ids, NEW j \in ids, i < j
                 PROVE  Upto(i) \in SUBSET Upto(j) /\ j \in Upto(j) /\ j \notin Upto(i)
      OBVIOUS
    <2>1. i \in Nat /\ j \in Nat /\ \A k \in ids : k \in Nat
      OBVIOUS
    <2>2. \A k \in ids : k <= i => k <= j
      BY <2>1
    <2>3. j \in Upto(j) /\ j \notin Upto(i)
      BY <2>1
    <2> QED
      BY <2>2, <2>3
  <1>5. \A i \in ids : Rank(ids, i) = Cardinality(Upto(i))
    BY DEF Rank
  <1> HIDE DEF Upto
  <1>6. ASSUME NEW i \in ids PROVE Rank(ids, i) \in 1..Cardinality(ids)
    <2>1. Cardinality(Upto(i)) # 0
      BY <1>2, <1>3, FS_EmptySet
    <2> QED
      BY <1>1, <1>2, <1>5, <2>1
  <1>7. ASSUME NEW i \in ids, NEW j \in ids, i < j PROVE Rank(ids, i) < Rank(ids, j)
    <2>1. /\ Cardinality(Upto(i)) <= Cardinality(Upto(j))
          /\ Cardinality(Upto(j)) = Cardinality(Upto(i)) => Upto(j) = Upto(i)
      BY <1>2, <1>4, <1>7, FS_Subset
    <2> QED
      BY <1>2, <1>4, <1>5, <1>7, <2>1
  <1> QED
    BY <1>6, <1>7

\* The ordered selection is a sequence of every selected invoice, once.
LEMMA OrderOfSelection ==
    ASSUME NEW ids, ids \subseteq Nat, IsFiniteSet(ids)
    PROVE  /\ Cardinality(ids) \in Nat
           /\ InvoiceOrder(ids) \in [1..Cardinality(ids) -> ids]
           /\ \A j, k \in 1..Cardinality(ids) :
                 j # k => InvoiceOrder(ids)[j] # InvoiceOrder(ids)[k]
           /\ \A i \in ids : \E k \in 1..Cardinality(ids) : InvoiceOrder(ids)[k] = i
  <1> DEFINE n == Cardinality(ids)
             rank == [i \in ids |-> Rank(ids, i)]
             s == [k \in 1..n |-> CHOOSE i \in ids : rank[i] = k]
             Ordered(t) == \A j, k \in DOMAIN t : j < k => t[j] < t[k]
  <1>1. n \in Nat /\ IsFiniteSet(1..n) /\ Cardinality(1..n) = n
    BY FS_CardinalityType, FS_Interval
  <1>2. \A i \in ids : rank[i] \in 1..n
    BY RankGrows
  <1>3. \A i, j \in ids : i < j => rank[i] < rank[j]
    BY RankGrows
  <1>4. rank \in Injection(ids, 1..n)
    <2>1. rank \in [ids -> 1..n]
      BY <1>2
    <2>2. ASSUME NEW i \in ids, NEW j \in ids, i # j PROVE rank[i] # rank[j]
      <3>1. i \in Nat /\ j \in Nat /\ (i < j \/ j < i)
        BY <2>2
      <3> HIDE DEF rank, n
      <3> QED
        BY <1>1, <1>2, <1>3, <3>1
    <2> HIDE DEF rank
    <2> QED
      BY <2>1, <2>2 DEF Injection, IsInjective
  <1>5. rank \in Surjection(ids, 1..n)
    <2> HIDE DEF rank
    <2> QED
      BY <1>1, <1>4, FS_Injection
  <1>6. \A k \in 1..n : s[k] \in ids /\ rank[s[k]] = k
    <2> HIDE DEF rank
    <2>1. \A k \in 1..n : \E i \in ids : rank[i] = k
      BY <1>5 DEF Surjection
    <2> QED
      BY <2>1
  <1>7. s \in [1..n -> ids] /\ DOMAIN s = 1..n
    BY <1>6
  <1> HIDE DEF rank, s
  <1>8. ASSUME NEW j \in 1..n, NEW k \in 1..n, j < k PROVE s[j] < s[k] /\ s[j] # s[k]
    <2>1. s[j] \in Nat /\ s[k] \in Nat
      BY <1>6
    <2>2. j \in Nat /\ k \in Nat
      BY <1>1
    <2>3. ~(s[k] < s[j]) /\ s[j] # s[k]
      BY <1>3, <1>6, <1>8, <2>1, <2>2
    <2> QED
      BY <2>1, <2>3
  <1>9. s \in SetToSeqs(ids) /\ Ordered(s)
    <2>1. ASSUME NEW j \in 1..n, NEW k \in 1..n, j # k PROVE s[j] # s[k]
      <3>1. j < k \/ k < j
        BY <1>1, <2>1
      <3> QED
        BY <1>8, <3>1
    <2> QED
      BY <1>7, <1>8, <2>1 DEF SetToSeqs
  <1>10. InvoiceOrder(ids) \in SetToSeqs(ids)
    BY <1>9, Zenon DEF InvoiceOrder
  <1> DEFINE t == InvoiceOrder(ids)
  <1> HIDE DEF t
  <1>11. t \in [1..n -> ids] /\ \A j, k \in 1..n : j # k => t[j] # t[k]
    BY <1>10, Zenon DEF SetToSeqs, t
  <1>12. t \in Injection(1..n, ids)
    BY <1>11 DEF Injection, IsInjective
  <1>13. t \in Surjection(1..n, ids)
    BY <1>1, <1>12, FS_Injection
  <1> QED
    BY <1>1, <1>11, <1>13 DEF Surjection, t

-----------------------------------------------------------------------------
(* The loop over the selection. *)

\* What the fold does with a set of positions: the greatest one comes last.
Joined(docs, s, g, t) ==
    IF t = {} THEN << >> ELSE JoinGroup(docs, g[t \ {Max(t)}], s[Max(t)])

\* A function that satisfies the fold's recursion exists.
LEMMA FoldIsDefined ==
    ASSUME NEW docs, NEW s, NEW n \in Nat
    PROVE  \E g : g = [t \in SUBSET (1..n) |-> Joined(docs, s, g, t)]
  <1> DEFINE Good == {k \in 0..n :
                        \E g : \A t \in SUBSET (1..k) : g[t] = Joined(docs, s, g, t)}
  <1>1. 0 \in Good
    <2> DEFINE g == [t \in {{}} |-> << >>]
    <2>1. \A t \in SUBSET (1..0) : t = {} /\ g[t] = << >>
      OBVIOUS
    <2>2. \A t \in SUBSET (1..0) : g[t] = Joined(docs, s, g, t)
      BY <2>1 DEF Joined
    <2> HIDE DEF g
    <2> QED
      BY <2>2
  <1>2. ASSUME NEW k \in 0..n, k < n, k \in Good PROVE k + 1 \in Good
    <2>1. PICK g : \A t \in SUBSET (1..k) : g[t] = Joined(docs, s, g, t)
      BY <1>2
    <2> DEFINE h == [t \in SUBSET (1..k + 1) |-> Joined(docs, s, g, t)]
    <2>2. ASSUME NEW t \in SUBSET (1..k + 1) PROVE h[t] = Joined(docs, s, h, t)
      <3>1. h[t] = Joined(docs, s, g, t)
        OBVIOUS
      <3>2. CASE t = {}
        BY <3>1, <3>2 DEF Joined
      <3>3. CASE t # {}
        <4> DEFINE m == Max(t)
                   u == t \ {m}
        <4>1. m \in t /\ \A x \in t : x <= m
          <5>1. k + 1 \in Nat /\ t \subseteq 1..(k + 1)
            OBVIOUS
          <5> QED
            BY <3>3, <5>1, GreatestPosition, Zenon
        <4> HIDE DEF m
        <4>2. u \in SUBSET (1..k)
          <5> SUFFICES ASSUME NEW x \in u PROVE x \in 1..k
            OBVIOUS
          <5>1. x \in 1..k + 1 /\ m \in 1..k + 1 /\ x <= m /\ x # m
            BY <4>1
          <5> QED
            BY <5>1
        <4>3. u \in SUBSET (1..k + 1)
          OBVIOUS
        <4> HIDE DEF u
        <4>4. h[u] = g[u]
          BY <2>1, <4>2, <4>3
        <4> QED
          BY <3>1, <3>3, <4>4 DEF Joined, m, u
      <3> QED
        BY <3>2, <3>3
    <2> HIDE DEF h
    <2>3. \E f : \A t \in SUBSET (1..k + 1) : f[t] = Joined(docs, s, f, t)
      BY <2>2
    <2>4. k + 1 \in 0..n
      BY <1>2
    <2> QED
      BY <2>3, <2>4
  <1> HIDE DEF Good
  <1>3. n \in Good
    BY <1>1, <1>2, UpTo
  <1>4. PICK g : \A t \in SUBSET (1..n) : g[t] = Joined(docs, s, g, t)
    BY <1>3 DEF Good
  <1> DEFINE f == [t \in SUBSET (1..n) |-> g[t]]
  <1>5. ASSUME NEW t \in SUBSET (1..n) PROVE f[t] = Joined(docs, s, f, t)
    <2>1. t \ {Max(t)} \in SUBSET (1..n)
      OBVIOUS
    <2>2. f[t \ {Max(t)}] = g[t \ {Max(t)}] /\ f[t] = g[t]
      BY <2>1
    <2> QED
      BY <1>4, <2>2 DEF Joined
  <1>6. f = [t \in SUBSET (1..n) |-> f[t]]
    OBVIOUS
  <1> HIDE DEF f
  <1>7. f = [t \in SUBSET (1..n) |-> Joined(docs, s, f, t)]
    BY <1>5, <1>6
  <1> QED
    BY <1>7

\* The groups come from joining the ordered invoices one after the other.
LEMMA OneAfterTheOther ==
    ASSUME NEW docs, NEW ids, ids \subseteq Nat, IsFiniteSet(ids)
    PROVE  \E g : /\ g[0] = << >>
                  /\ \A k \in 1..Cardinality(ids) :
                        g[k] = JoinGroup(docs, g[k - 1], InvoiceOrder(ids)[k])
                  /\ GroupIntoBatches(docs, ids) = g[Cardinality(ids)]
  <1> DEFINE s == InvoiceOrder(ids)
             n == Cardinality(ids)
             it == CHOOSE g : g = [t \in SUBSET DOMAIN s |-> Joined(docs, s, g, t)]
  <1>1. GroupIntoBatches(docs, ids) = it[DOMAIN s]
    BY Zenon DEF GroupIntoBatches, FoldLeft, MapThenFoldSet, Joined
  <1>2. n \in Nat /\ DOMAIN s = 1..n
    BY OrderOfSelection
  <1> HIDE DEF s, n
  <1>3. it = [t \in SUBSET (1..n) |-> Joined(docs, s, it, t)]
    BY <1>2, FoldIsDefined
  <1> HIDE DEF it
  <1>4. \A t \in SUBSET (1..n) : it[t] = Joined(docs, s, it, t)
    BY <1>3
  <1> DEFINE g == [k \in 0..n |-> it[1..k]]
  <1>5. g[0] = << >>
    <2>1. 1..0 \in SUBSET (1..n) /\ 1..0 = {} /\ 0 \in 0..n
      BY <1>2
    <2> QED
      BY <1>4, <2>1 DEF Joined
  <1>6. ASSUME NEW k \in 1..n PROVE g[k] = JoinGroup(docs, g[k - 1], s[k])
    <2>1. /\ 1..k \in SUBSET (1..n) /\ 1..k # {} /\ k \in 0..n /\ k - 1 \in 0..n
          /\ k \in Nat /\ k \in 1..k
      BY <1>2
    <2>2. Max(1..k) \in 1..k /\ k <= Max(1..k)
      BY <2>1, GreatestPosition
    <2>3. Max(1..k) = k /\ (1..k) \ {k} = 1..(k - 1)
      BY <2>1, <2>2
    <2> QED
      BY <1>4, <2>1, <2>3 DEF Joined
  <1>7. GroupIntoBatches(docs, ids) = g[n]
    BY <1>1, <1>2
  <1> HIDE DEF g
  <1> QED
    BY <1>5, <1>6, <1>7 DEF s, n

-----------------------------------------------------------------------------
(* What the loop maintains. *)

\* A lot: within the limit, no invoice twice, all of one group.
IsLot(docs, lotOf) ==
    /\ Len(lotOf) \in 1..Limit
    /\ \A u, v \in DOMAIN lotOf : u # v => lotOf[u] # lotOf[v]
    /\ \A u \in DOMAIN lotOf : SameGroup(docs, lotOf[u], lotOf[1])

\* The batches hold the invoices done so far, each in one of them.
IsGrouping(docs, done, batches) ==
    /\ batches \in Seq(Seq(done))
    /\ \A x \in DOMAIN batches : IsLot(docs, batches[x])
    /\ \A i \in done : \E x \in DOMAIN batches : \E u \in DOMAIN batches[x] : batches[x][u] = i
    /\ \A x, y \in DOMAIN batches : x # y =>
          \A u \in DOMAIN batches[x], v \in DOMAIN batches[y] : batches[x][u] # batches[y][v]
    /\ FullButLast(docs, batches)

\* A lot of one invoice ...
LEMMA LotStarts ==
    ASSUME NEW docs, NEW i, Limit \in Nat \ {0}
    PROVE  IsLot(docs, <<i>>)
  BY DEF IsLot, SameGroup

\* ... and a lot that one more joins.
LEMMA LotGrows ==
    ASSUME NEW docs, NEW done, NEW i, i \notin done, NEW l \in Seq(done),
           IsLot(docs, l), Len(l) # Limit, SameGroup(docs, l[1], i), Limit \in Nat \ {0}
    PROVE  /\ Append(l, i) \in Seq(done \cup {i}) /\ IsLot(docs, Append(l, i))
           /\ DOMAIN Append(l, i) = DOMAIN l \cup {Len(l) + 1}
           /\ Append(l, i)[Len(l) + 1] = i
           /\ \A u \in DOMAIN l : Append(l, i)[u] = l[u]
  <1> DEFINE a == Append(l, i)
  <1>1. l \in Seq(done \cup {i}) /\ i \in done \cup {i}
    OBVIOUS
  <1>2. /\ a \in Seq(done \cup {i}) /\ Len(a) = Len(l) + 1
        /\ \A u \in 1..Len(l) : a[u] = l[u]
        /\ a[Len(l) + 1] = i
    BY <1>1, AppendProperties
  <1>3. DOMAIN a = 1..(Len(l) + 1) /\ DOMAIN l = 1..Len(l) /\ Len(l) \in Nat
    BY <1>2
  <1>4. \A u \in 1..Len(l) : l[u] \in done
    OBVIOUS
  <1>5. Len(l) \in 1..Limit /\ Len(l) < Limit
    BY DEF IsLot
  <1> HIDE DEF a
  <1>6. Len(a) \in 1..Limit
    BY <1>2, <1>5
  <1>7. /\ \A u, v \in 1..Len(l) : u # v => l[u] # l[v]
        /\ \A u \in 1..Len(l) : SameGroup(docs, l[u], l[1])
    BY <1>3 DEF IsLot
  <1>8. DOMAIN a = (1..Len(l)) \cup {Len(l) + 1}
    BY <1>3, OneMore
  <1>9. ASSUME NEW u \in DOMAIN a, NEW v \in DOMAIN a, u # v PROVE a[u] # a[v]
    BY <1>2, <1>4, <1>7, <1>8, <1>9
  <1>10. ASSUME NEW u \in DOMAIN a PROVE SameGroup(docs, a[u], a[1])
    <2>1. a[1] = l[1]
      BY <1>2, <1>5
    <2> QED
      BY <1>2, <1>7, <1>8, <2>1 DEF SameGroup
  <1>11. IsLot(docs, a)
    BY <1>6, <1>9, <1>10 DEF IsLot
  <1> QED
    BY <1>2, <1>3, <1>8, <1>11 DEF a

\* An invoice that starts a batch, every one of its group being full.
LEMMA NewBatch ==
    ASSUME NEW docs, NEW done, NEW i, i \notin done, Limit \in Nat \ {0},
           NEW b, IsGrouping(docs, done, b),
           \A x \in DOMAIN b : SameGroup(docs, b[x][1], i) => Len(b[x]) = Limit
    PROVE  IsGrouping(docs, done \cup {i}, Append(b, <<i>>))
  <1> DEFINE c == Append(b, <<i>>)
             more == done \cup {i}
  <1>1. <<i>> \in Seq(more) /\ IsLot(docs, <<i>>)
    BY LotStarts
  <1>2. b \in Seq(Seq(more))
    BY DEF IsGrouping
  <1>3. /\ c \in Seq(Seq(more)) /\ Len(c) = Len(b) + 1
        /\ \A x \in 1..Len(b) : c[x] = b[x]
        /\ c[Len(b) + 1] = <<i>>
    BY <1>1, <1>2, AppendProperties
  <1>4. DOMAIN c = 1..(Len(b) + 1) /\ DOMAIN b = 1..Len(b) /\ Len(b) \in Nat
    BY <1>2, <1>3
  <1>5. \A x \in DOMAIN c : (x \in DOMAIN b /\ c[x] = b[x]) \/ (c[x] = <<i>> /\ x = Len(b) + 1)
    <2> HIDE DEF c
    <2>1. \A x \in DOMAIN c : x \in DOMAIN b \/ x = Len(b) + 1
      BY <1>4, OneMore, Zenon
    <2> QED
      BY <1>3, <1>4, <2>1, Zenon
  <1>6. \A x \in DOMAIN b : x \in DOMAIN c /\ c[x] = b[x]
    BY <1>3, <1>4
  <1>7. Len(b) + 1 \in DOMAIN c
    BY <1>4
  <1>8. DOMAIN <<i>> = {1} /\ <<i>>[1] = i
    OBVIOUS
  <1>9. \A x \in DOMAIN b : \A u \in DOMAIN b[x] : b[x][u] \in done
    BY DEF IsGrouping
  <1> HIDE DEF c
  <1>10. \A x \in DOMAIN c : IsLot(docs, c[x])
    BY <1>1, <1>5 DEF IsGrouping
  <1>11. ASSUME NEW j \in more
         PROVE  \E x \in DOMAIN c : \E u \in DOMAIN c[x] : c[x][u] = j
    <2>1. CASE j = i
      BY <1>3, <1>7, <1>8, <2>1
    <2>2. CASE j \in done
      BY <1>6, <2>2 DEF IsGrouping
    <2> QED
      BY <2>1, <2>2
  <1>12. ASSUME NEW x \in DOMAIN c, NEW y \in DOMAIN c, x # y,
                NEW u \in DOMAIN c[x], NEW v \in DOMAIN c[y]
         PROVE  c[x][u] # c[y][v]
    <2>1. CASE x \in DOMAIN b /\ y \in DOMAIN b
      BY <1>6, <1>12, <2>1 DEF IsGrouping
    <2>2. CASE x \in DOMAIN b /\ y = Len(b) + 1
      BY <1>3, <1>6, <1>8, <1>9, <2>2
    <2>3. CASE y \in DOMAIN b /\ x = Len(b) + 1
      BY <1>3, <1>6, <1>8, <1>9, <2>3
    <2> QED
      BY <1>5, <1>12, <2>1, <2>2, <2>3
  <1>13. ASSUME NEW x \in DOMAIN c, NEW y \in DOMAIN c, x < y,
                SameGroup(docs, c[x][1], c[y][1])
         PROVE  Len(c[x]) = Limit
    <2>1. x \in DOMAIN b /\ c[x] = b[x]
      <3>1. x \in 1..(Len(b) + 1) /\ y \in 1..(Len(b) + 1) /\ Len(b) \in Nat
        BY <1>3, <1>4
      <3>2. x # Len(b) + 1
        BY <1>13, <3>1
      <3> QED
        BY <1>5, <3>2
    <2>2. CASE y \in DOMAIN b
      BY <1>6, <1>13, <2>1, <2>2 DEF IsGrouping, FullButLast
    <2>3. CASE y = Len(b) + 1
      <3>1. c[y][1] = i
        BY <1>3, <1>8, <2>3
      <3> QED
        BY <1>13, <2>1, <3>1
    <2> QED
      BY <1>5, <2>2, <2>3
  <1> QED
    BY <1>3, <1>10, <1>11, <1>12, <1>13 DEF IsGrouping, FullButLast, c

\* An invoice that joins the last batch of its group, which has room.
LEMMA JoinedBatch ==
    ASSUME NEW docs, NEW done, NEW i, i \notin done, Limit \in Nat \ {0},
           NEW b, IsGrouping(docs, done, b), NEW l \in DOMAIN b,
           Len(b[l]) # Limit, SameGroup(docs, b[l][1], i),
           \A x \in DOMAIN b : SameGroup(docs, b[x][1], i) => x <= l
    PROVE  IsGrouping(docs, done \cup {i}, [b EXCEPT ![l] = Append(@, i)])
  <1> DEFINE p == Append(b[l], i)
             c == [b EXCEPT ![l] = p]
             more == done \cup {i}
  <1>1. b[l] \in Seq(done) /\ IsLot(docs, b[l])
    BY DEF IsGrouping
  <1>2. /\ p \in Seq(more) /\ IsLot(docs, p)
        /\ DOMAIN p = DOMAIN b[l] \cup {Len(b[l]) + 1}
        /\ p[Len(b[l]) + 1] = i
        /\ \A u \in DOMAIN b[l] : p[u] = b[l][u]
    <2> DEFINE q == b[l]
    <2>1. q \in Seq(done) /\ IsLot(docs, q) /\ Len(q) # Limit /\ SameGroup(docs, q[1], i)
      BY <1>1
    <2> HIDE DEF q
    <2>2. /\ Append(q, i) \in Seq(more) /\ IsLot(docs, Append(q, i))
          /\ DOMAIN Append(q, i) = DOMAIN q \cup {Len(q) + 1}
          /\ Append(q, i)[Len(q) + 1] = i
          /\ \A u \in DOMAIN q : Append(q, i)[u] = q[u]
      BY ONLY i \notin done, Limit \in Nat \ {0}, <2>1, LotGrows
    <2> QED
      BY <2>2, Zenon DEF q
  <1>3. \A u \in DOMAIN p : (u \in DOMAIN b[l] /\ p[u] = b[l][u]) \/ p[u] = i
    BY <1>2, Zenon
  <1>4. DOMAIN b[l] \subseteq DOMAIN p /\ Len(b[l]) + 1 \in DOMAIN p
    BY <1>2, Zenon
  <1>5. b \in Seq(Seq(more))
    BY DEF IsGrouping
  <1>6. \A x \in DOMAIN b : \A u \in DOMAIN b[x] : b[x][u] \in done
    BY DEF IsGrouping
  <1> HIDE DEF p
  <1>8. /\ c \in Seq(Seq(more)) /\ DOMAIN c = DOMAIN b
        /\ c[l] = p /\ \A x \in DOMAIN b : x # l => c[x] = b[x]
    BY <1>2, <1>5
  <1> HIDE DEF c
  <1>9. \A x \in DOMAIN c : IsLot(docs, c[x])
    BY <1>2, <1>8 DEF IsGrouping
  <1>10. ASSUME NEW j \in more
         PROVE  \E x \in DOMAIN c : \E u \in DOMAIN c[x] : c[x][u] = j
    <2>1. CASE j = i
      BY <1>2, <1>4, <1>8, <2>1
    <2>2. CASE j \in done
      <3>1. PICK x \in DOMAIN b : \E u \in DOMAIN b[x] : b[x][u] = j
        BY <2>2 DEF IsGrouping
      <3>2. PICK u \in DOMAIN b[x] : b[x][u] = j
        BY <3>1
      <3>3. u \in DOMAIN c[x] /\ c[x][u] = j
        BY <1>2, <1>4, <1>8, <3>2
      <3> QED
        BY <1>8, <3>3
    <2> QED
      BY <2>1, <2>2
  <1>11. \A x \in DOMAIN c : \A u \in DOMAIN c[x] :
            (u \in DOMAIN b[x] /\ c[x][u] = b[x][u]) \/ (x = l /\ c[x][u] = i)
    <2> SUFFICES ASSUME NEW x \in DOMAIN c, NEW u \in DOMAIN c[x]
                 PROVE  (u \in DOMAIN b[x] /\ c[x][u] = b[x][u]) \/ (x = l /\ c[x][u] = i)
      OBVIOUS
    <2>1. CASE x = l
      BY <1>3, <1>8, <2>1, Zenon
    <2>2. CASE x # l
      BY <1>8, <2>2, Zenon
    <2> QED
      BY <2>1, <2>2
  <1>12. ASSUME NEW x \in DOMAIN c, NEW y \in DOMAIN c, x # y,
                NEW u \in DOMAIN c[x], NEW v \in DOMAIN c[y]
         PROVE  c[x][u] # c[y][v]
    <2>1. CASE u \in DOMAIN b[x] /\ c[x][u] = b[x][u] /\ v \in DOMAIN b[y] /\ c[y][v] = b[y][v]
      BY <1>8, <1>12, <2>1 DEF IsGrouping
    <2>2. CASE x = l /\ c[x][u] = i
      <3>1. v \in DOMAIN b[y] /\ c[y][v] = b[y][v]
        BY <1>11, <1>12, <2>2
      <3> QED
        BY <1>6, <1>8, <2>2, <3>1
    <2>3. CASE y = l /\ c[y][v] = i
      <3>1. u \in DOMAIN b[x] /\ c[x][u] = b[x][u]
        BY <1>11, <1>12, <2>3
      <3> QED
        BY <1>6, <1>8, <2>3, <3>1
    <2> QED
      BY <1>11, <1>12, <2>1, <2>2, <2>3
  <1>13. ASSUME NEW x \in DOMAIN c, NEW y \in DOMAIN c, x < y,
                SameGroup(docs, c[x][1], c[y][1])
         PROVE  Len(c[x]) = Limit
    <2>1. 1 \in DOMAIN b[l]
      BY <1>1 DEF IsLot
    <2>2. c[x][1] = b[x][1] /\ c[y][1] = b[y][1]
      <3>1. p[1] = b[l][1]
        BY <1>2, <2>1, Zenon
      <3>2. \A z \in DOMAIN b : c[z][1] = b[z][1]
        BY <1>8, <3>1, Zenon
      <3> QED
        BY <1>8, <3>2, Zenon
    <2>3. Len(b[x]) = Limit
      BY <1>8, <1>13, <2>2 DEF IsGrouping, FullButLast
    <2>4. x # l
      BY <2>3
    <2> QED
      BY <1>8, <2>3, <2>4
  <1> QED
    BY <1>8, <1>9, <1>10, <1>12, <1>13 DEF IsGrouping, FullButLast, c, p

\* Either way the invoice is in one of the batches, and the rest stays.
LEMMA JoinKeepsGrouping ==
    ASSUME NEW docs, NEW done, NEW i, i \notin done, Limit \in Nat \ {0},
           NEW b, IsGrouping(docs, done, b)
    PROVE  IsGrouping(docs, done \cup {i}, JoinGroup(docs, b, i))
  <1> DEFINE mine == {x \in DOMAIN b : SameGroup(docs, b[x][1], i)}
             last == CHOOSE x \in mine : \A y \in mine : y <= x
  <1>1. JoinGroup(docs, b, i) =
            IF mine = {} \/ Len(b[last]) = Limit THEN Append(b, <<i>>)
            ELSE [b EXCEPT ![last] = Append(@, i)]
    BY DEF JoinGroup
  <1>2. mine # {} => last \in mine /\ \A y \in mine : y <= last
    <2>1. b \in Seq(Seq(done))
      BY DEF IsGrouping
    <2>2. mine \subseteq 1..Len(b) /\ Len(b) \in Nat
      BY <2>1
    <2> HIDE DEF mine
    <2>3. mine # {} => \E x \in mine : \A y \in mine : y <= x
      BY <2>2, GreatestPosition
    <2> QED
      BY <2>3
  <1>3. mine # {} => last \in DOMAIN b /\ SameGroup(docs, b[last][1], i)
    BY <1>2
  <1>6. \A x \in DOMAIN b : SameGroup(docs, b[x][1], i) => x \in mine
    OBVIOUS
  <1> HIDE DEF mine, last
  <1>4. CASE mine = {} \/ Len(b[last]) = Limit
    <2>1. ASSUME NEW x \in DOMAIN b, SameGroup(docs, b[x][1], i) PROVE Len(b[x]) = Limit
      <3>1. x \in mine /\ mine # {} /\ x <= last
        BY <1>2, <1>6, <2>1
      <3>2. SameGroup(docs, b[x][1], b[last][1])
        BY <1>3, <2>1, <3>1 DEF SameGroup
      <3>3. x \in Nat /\ last \in Nat
        <4>1. b \in Seq(Seq(done))
          BY DEF IsGrouping
        <4> QED
          BY <1>3, <3>1, <4>1
      <3>4. CASE x = last
        BY <1>4, <3>1, <3>4
      <3>5. CASE x < last
        BY <1>3, <3>1, <3>2, <3>5 DEF IsGrouping, FullButLast
      <3> QED
        BY <3>1, <3>3, <3>4, <3>5
    <2> QED
      BY <1>1, <1>4, <2>1, NewBatch
  <1>5. CASE mine # {} /\ Len(b[last]) # Limit
    BY <1>1, <1>2, <1>3, <1>5, <1>6, JoinedBatch
  <1> QED
    BY <1>4, <1>5

\* The batches of a selection are a grouping of it.
LEMMA SelectionIsGrouped ==
    ASSUME NEW docs, NEW ids, ids \subseteq Nat, IsFiniteSet(ids), Limit \in Nat \ {0}
    PROVE  IsGrouping(docs, ids, GroupIntoBatches(docs, ids))
  <1> DEFINE s == InvoiceOrder(ids)
             n == Cardinality(ids)
             Done(k) == {s[j] : j \in 1..k}
  <1>1. /\ n \in Nat /\ s \in [1..n -> ids]
        /\ \A j, k \in 1..n : j # k => s[j] # s[k]
        /\ \A i \in ids : \E k \in 1..n : s[k] = i
    BY OrderOfSelection
  <1>2. PICK g : /\ g[0] = << >>
                 /\ \A k \in 1..n : g[k] = JoinGroup(docs, g[k - 1], s[k])
                 /\ GroupIntoBatches(docs, ids) = g[n]
    BY OneAfterTheOther
  <1> HIDE DEF s, n
  <1> DEFINE T == {k \in 0..n : IsGrouping(docs, Done(k), g[k])}
  <1>3. 0 \in T
    <2>1. Done(0) = {}
      OBVIOUS
    <2>2. << >> \in Seq(Seq({})) /\ DOMAIN << >> = {}
      OBVIOUS
    <2>3. IsGrouping(docs, {}, << >>)
      BY <2>2 DEF IsGrouping, FullButLast
    <2> QED
      BY <1>1, <1>2, <2>1, <2>3
  <1>4. ASSUME NEW k \in 0..n, k < n, k \in T PROVE k + 1 \in T
    <2>1. /\ k + 1 \in 1..n /\ k + 1 \in 0..n /\ (k + 1) - 1 = k /\ k \in Nat
          /\ \A j \in 1..k : j \in 1..n /\ j # k + 1
      BY <1>1, <1>4
    <2>2. g[k + 1] = JoinGroup(docs, g[k], s[k + 1])
      BY <1>2, <2>1
    <2>3. s[k + 1] \notin Done(k)
      BY <1>1, <2>1
    <2>4. Done(k + 1) = Done(k) \cup {s[k + 1]}
      BY <2>1, OneMore
    <2>5. IsGrouping(docs, Done(k), g[k])
      BY <1>4
    <2> HIDE DEF Done
    <2>6. IsGrouping(docs, Done(k + 1), g[k + 1])
      BY <2>2, <2>3, <2>4, <2>5, JoinKeepsGrouping
    <2> QED
      BY <2>1, <2>6
  <1> HIDE DEF T
  <1>5. n \in T
    BY <1>1, <1>3, <1>4, UpTo
  <1>6. Done(n) = ids
    <2>1. \A i \in ids : \E j \in 1..n : s[j] = i
      BY <1>1
    <2>2. \A j \in 1..n : s[j] \in ids
      BY <1>1
    <2> QED
      BY <2>1, <2>2
  <1> HIDE DEF Done
  <1> QED
    BY <1>2, <1>5, <1>6 DEF T

\* A lot of the selection's documents is uniform.
LEMMA LotOfSelection ==
    ASSUME NEW kind, NEW docs, NEW done, NEW l \in Seq(done), IsLot(docs, l),
           \A i \in done : LotDocument(kind, docs[i])
    PROVE  LotIsUniform(kind, docs, l)
  <1>1. DOMAIN l = 1..Len(l) /\ \A u \in DOMAIN l : l[u] \in done
    OBVIOUS
  <1>2. IsInjective(l)
    BY DEF IsLot, IsInjective
  <1>3. \A i \in ToSet(l) : Sector[i] = Sector[l[1]] /\ LotDocument(kind, docs[i])
    BY <1>1 DEF ToSet, IsLot, SameGroup
  <1> QED
    BY <1>2, <1>3 DEF IsLot, LotIsUniform, WithinLimit

\* Every invoice of a grouping is in one batch.
LEMMA InOneBatch ==
    ASSUME NEW docs, NEW done, NEW b, IsGrouping(docs, done, b), NEW i \in done
    PROVE  Cardinality({x \in DOMAIN b : i \in ToSet(b[x])}) = 1
  <1>1. PICK x \in DOMAIN b : \E u \in DOMAIN b[x] : b[x][u] = i
    BY DEF IsGrouping
  <1>2. ASSUME NEW y \in DOMAIN b, i \in ToSet(b[y]) PROVE y = x
    BY <1>1, <1>2 DEF IsGrouping, ToSet
  <1>3. {y \in DOMAIN b : i \in ToSet(b[y])} = {x}
    BY <1>1, <1>2 DEF ToSet
  <1> QED
    BY <1>3, FS_Singleton
=============================================================================
