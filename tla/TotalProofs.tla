----------------------------- MODULE TotalProofs -----------------------------
(***************************************************************************)
(* Facts about sums.  Units(f) splits into the block of one argument and    *)
(* the rest, so a change at one argument changes the sum by the difference. *)
(***************************************************************************)
EXTENDS Totals, FiniteSetTheorems, TLAPS

Rest(f, a) == UNION {{b} \X (1..f[b]) : b \in DOMAIN f \ {a}}

\* The block of one argument counts its value.
LEMMA BlockCounts ==
  ASSUME NEW a, NEW n \in Nat
  PROVE  IsFiniteSet({a} \X (1..n)) /\ Cardinality({a} \X (1..n)) = n
<1>1. IsFiniteSet(1..n) /\ Cardinality(1..n) = n
  BY FS_Interval
<1>2. IsFiniteSet({a}) /\ Cardinality({a}) = 1
  BY FS_Singleton
<1> QED BY <1>1, <1>2, FS_Product

\* A sum is one value plus the sum of the others.
LEMMA UnitsSplit ==
  ASSUME NEW f, NEW a \in DOMAIN f, f[a] \in Nat
  PROVE  /\ IsFiniteSet(Units(f)) <=> IsFiniteSet(Rest(f, a))
         /\ IsFiniteSet(Rest(f, a)) => Total(f) = Cardinality(Rest(f, a)) + f[a]
<1> DEFINE block == {a} \X (1..f[a])
<1>1. Units(f) = Rest(f, a) \union block
  BY DEF Units, Rest
<1>2. Rest(f, a) \cap block = {}
  BY DEF Rest
<1>3. IsFiniteSet(block) /\ Cardinality(block) = f[a]
  BY BlockCounts
<1>4. ASSUME IsFiniteSet(Rest(f, a))
      PROVE  IsFiniteSet(Units(f)) /\ Total(f) = Cardinality(Rest(f, a)) + f[a]
  <2>1. /\ IsFiniteSet(Rest(f, a) \union block)
        /\ Cardinality(Rest(f, a) \union block)
             = Cardinality(Rest(f, a)) + Cardinality(block) - Cardinality(Rest(f, a) \cap block)
    BY <1>3, <1>4, FS_Union
  <2>2. Cardinality(Rest(f, a)) \in Nat
    BY <1>4, FS_CardinalityType
  <2>3. IsFiniteSet(Units(f))
    BY <2>1, <1>1
  <2>4. Cardinality(Rest(f, a) \cap block) = 0
    BY <1>2, FS_EmptySet
  <2>5. Total(f) = Cardinality(Rest(f, a) \union block)
    BY <1>1 DEF Total
  <2> HIDE DEF block
  <2>6. Total(f) = Cardinality(Rest(f, a)) + f[a]
    BY <2>1, <2>2, <2>4, <2>5, <1>3
  <2> QED BY <2>3, <2>6
<1>5. ASSUME IsFiniteSet(Units(f)) PROVE IsFiniteSet(Rest(f, a))
  BY <1>1, <1>5, FS_Subset
<1> QED BY <1>4, <1>5

\* Counted sums are natural numbers, and no value exceeds its sum.
LEMMA TotalBounds ==
  ASSUME NEW f, IsFiniteSet(Units(f))
  PROVE  /\ Total(f) \in Nat
         /\ \A a \in DOMAIN f : f[a] \in Nat => f[a] <= Total(f)
<1>1. Total(f) \in Nat
  BY FS_CardinalityType DEF Total
<1>2. ASSUME NEW a \in DOMAIN f, f[a] \in Nat PROVE f[a] <= Total(f)
  <2>1. IsFiniteSet(Rest(f, a)) /\ Total(f) = Cardinality(Rest(f, a)) + f[a]
    BY <1>2, UnitsSplit
  <2>2. Cardinality(Rest(f, a)) \in Nat
    BY <2>1, FS_CardinalityType
  <2> QED BY <1>2, <2>1, <2>2
<1> QED BY <1>1, <1>2

\* Changing one value changes the sum by as much.
LEMMA TotalUpdate ==
  ASSUME NEW f, NEW g, NEW a \in DOMAIN f, f[a] \in Nat, g[a] \in Nat,
         DOMAIN g = DOMAIN f, \A b \in DOMAIN f \ {a} : g[b] = f[b],
         IsFiniteSet(Units(f))
  PROVE  IsFiniteSet(Units(g)) /\ Total(g) = Total(f) - f[a] + g[a]
<1>1. Rest(g, a) = Rest(f, a)
  BY DEF Rest
<1>2. IsFiniteSet(Rest(f, a)) /\ Total(f) = Cardinality(Rest(f, a)) + f[a]
  BY UnitsSplit
<1>3. IsFiniteSet(Units(g)) /\ Total(g) = Cardinality(Rest(f, a)) + g[a]
  BY <1>1, <1>2, UnitsSplit
<1>4. Cardinality(Rest(f, a)) \in Nat
  BY <1>2, FS_CardinalityType
<1> QED BY <1>2, <1>3, <1>4

\* A new argument adds its value.
LEMMA TotalExtend ==
  ASSUME NEW f, NEW g, NEW a, a \notin DOMAIN f, g[a] \in Nat,
         DOMAIN g = DOMAIN f \union {a}, \A b \in DOMAIN f : g[b] = f[b],
         IsFiniteSet(Units(f))
  PROVE  IsFiniteSet(Units(g)) /\ Total(g) = Total(f) + g[a]
<1>1. Rest(g, a) = Units(f)
  <2>1. DOMAIN g \ {a} = DOMAIN f
    OBVIOUS
  <2> QED BY <2>1 DEF Rest, Units
<1> QED BY <1>1, UnitsSplit DEF Total

\* A sum over a finite set is a natural number.
LEMMA TotalFinite ==
  ASSUME NEW D, IsFiniteSet(D), NEW f \in [D -> Nat]
  PROVE  IsFiniteSet(Units(f)) /\ Total(f) \in Nat
<1> DEFINE blocks == {{a} \X (1..f[a]) : a \in D}
           block == [a \in D |-> {a} \X (1..f[a])]
<1>1. block \in Surjection(D, blocks)
  BY DEF Surjection
<1>2. IsFiniteSet(blocks)
  BY <1>1, FS_Surjection
<1>3. \A b \in blocks : IsFiniteSet(b)
  <2>1. ASSUME NEW a \in D PROVE IsFiniteSet({a} \X (1..f[a]))
    BY BlockCounts
  <2> QED BY <2>1
<1>4. Units(f) = UNION blocks
  BY DEF Units
<1> HIDE DEF blocks, block
<1>5. IsFiniteSet(Units(f))
  BY <1>2, <1>3, <1>4, FS_UNION
<1> QED BY <1>5, TotalBounds

\* A sum of larger values, or of more of them, is larger.
LEMMA TotalMonotone ==
  ASSUME NEW f, NEW g, DOMAIN f \subseteq DOMAIN g, IsFiniteSet(Units(g)),
         \A a \in DOMAIN f : f[a] \in Nat /\ g[a] \in Nat /\ f[a] <= g[a]
  PROVE  IsFiniteSet(Units(f)) /\ Total(f) <= Total(g)
<1>1. \A a \in DOMAIN f : 1..f[a] \subseteq 1..g[a]
  OBVIOUS
<1>2. Units(f) \subseteq Units(g)
  BY <1>1 DEF Units
<1> QED BY <1>2, FS_Subset DEF Total

\* Nothing sums to 0.
LEMMA TotalOfNone ==
  ASSUME NEW f, \A a \in DOMAIN f : f[a] = 0
  PROVE  IsFiniteSet(Units(f)) /\ Total(f) = 0
<1>1. \A a \in DOMAIN f : 1..f[a] = {}
  OBVIOUS
<1>2. Units(f) = {}
  BY <1>1 DEF Units
<1> QED BY <1>2, FS_EmptySet DEF Total

------------------------------------------------------------------------------
(* Sums of a part of a function's values. *)

Part(f, S) == [a \in S |-> f[a]]

\* One argument's share of it.
InPart(f, S, a) == IF a \in S THEN f[a] ELSE 0

\* What is left out counts as 0.
LEMMA PartWhole ==
  ASSUME NEW D, NEW f \in [D -> Nat], NEW S \in SUBSET D
  PROVE  Total(Part(f, S)) = Total([a \in D |-> IF a \in S THEN f[a] ELSE 0])
<1> DEFINE g == [a \in D |-> IF a \in S THEN f[a] ELSE 0]
<1>1. \A a \in S : {a} \X (1..Part(f, S)[a]) = {a} \X (1..g[a])
  BY DEF Part
<1>2. \A a \in D \ S : {a} \X (1..g[a]) = {}
  <2>1. ASSUME NEW a \in D \ S PROVE 1..g[a] = {}
    OBVIOUS
  <2> QED BY <2>1
<1>3. DOMAIN Part(f, S) = S /\ DOMAIN g = D
  BY DEF Part
<1> HIDE DEF g
<1>4. Units(Part(f, S)) = Units(g)
  BY <1>1, <1>2, <1>3 DEF Units
<1> QED BY <1>4 DEF Total, g

\* A part's sum is a natural number, no larger than that of a larger part.
LEMMA PartBounds ==
  ASSUME NEW D, IsFiniteSet(D), NEW f \in [D -> Nat], NEW S \in SUBSET D, NEW T \in SUBSET S
  PROVE  /\ IsFiniteSet(Units(Part(f, S))) /\ Total(Part(f, S)) \in Nat
         /\ Total(Part(f, T)) \in Nat /\ Total(Part(f, T)) <= Total(Part(f, S))
<1>1. Part(f, S) \in [S -> Nat] /\ Part(f, T) \in [T -> Nat] /\ IsFiniteSet(S) /\ IsFiniteSet(T)
  BY FS_Subset DEF Part
<1>2. /\ IsFiniteSet(Units(Part(f, S))) /\ Total(Part(f, S)) \in Nat
      /\ Total(Part(f, T)) \in Nat
  BY <1>1, TotalFinite
<1>3. \A a \in T : Part(f, T)[a] \in Nat /\ Part(f, S)[a] \in Nat /\ Part(f, T)[a] <= Part(f, S)[a]
  BY DEF Part
<1> QED BY <1>1, <1>2, <1>3, TotalMonotone

\* The sums of disjoint parts add up.
LEMMA PartUnion ==
  ASSUME NEW D, IsFiniteSet(D), NEW f \in [D -> Nat], NEW S \in SUBSET D, NEW T \in SUBSET D, S \cap T = {}
  PROVE  Total(Part(f, S \cup T)) = Total(Part(f, S)) + Total(Part(f, T))
<1>1. /\ IsFiniteSet(Units(Part(f, S))) /\ Total(Part(f, S)) \in Nat
      /\ IsFiniteSet(Units(Part(f, T))) /\ Total(Part(f, T)) \in Nat
  BY PartBounds
<1>2. Units(Part(f, S \cup T)) = Units(Part(f, S)) \cup Units(Part(f, T))
  BY DEF Units, Part
<1>3. Units(Part(f, S)) \cap Units(Part(f, T)) = {}
  BY DEF Units, Part
<1>4. Cardinality(Units(Part(f, S)) \cap Units(Part(f, T))) = 0
  BY <1>3, FS_EmptySet
<1>5. Cardinality(Units(Part(f, S)) \cup Units(Part(f, T)))
        = Cardinality(Units(Part(f, S))) + Cardinality(Units(Part(f, T)))
            - Cardinality(Units(Part(f, S)) \cap Units(Part(f, T)))
  BY <1>1, FS_Union
<1>6. /\ Total(Part(f, S \cup T)) = Cardinality(Units(Part(f, S)) \cup Units(Part(f, T)))
      /\ Total(Part(f, S)) = Cardinality(Units(Part(f, S)))
      /\ Total(Part(f, T)) = Cardinality(Units(Part(f, T)))
  BY <1>2 DEF Total
<1> QED BY <1>1, <1>4, <1>5, <1>6

\* Part T of g is part S of f but for what they hold of a.
OneApart(D, f, S, g, T, a) ==
  /\ f \in [D -> Nat] /\ g \in [D -> Nat] /\ S \subseteq D /\ T \subseteq D /\ a \in D
  /\ \A b \in D \ {a} : g[b] = f[b] /\ (b \in T <=> b \in S)

\* One argument changes its value, or joins or leaves the part.
LEMMA PartUpdate ==
  ASSUME NEW D, IsFiniteSet(D), NEW f, NEW g, NEW S, NEW T, NEW a, OneApart(D, f, S, g, T, a)
  PROVE  Total(Part(g, T)) = Total(Part(f, S)) - InPart(f, S, a) + InPart(g, T, a)
<1> DEFINE F == [b \in D |-> IF b \in S THEN f[b] ELSE 0]
           G == [b \in D |-> IF b \in T THEN g[b] ELSE 0]
<1>1. F \in [D -> Nat] /\ G \in [D -> Nat]
  BY DEF OneApart
<1>2. a \in D /\ \A b \in D \ {a} : G[b] = F[b]
  BY DEF OneApart
<1>3. F[a] = InPart(f, S, a) /\ G[a] = InPart(g, T, a)
  BY <1>2 DEF InPart
<1>4. Total(Part(f, S)) = Total(F) /\ Total(Part(g, T)) = Total(G)
  BY PartWhole DEF OneApart
<1> HIDE DEF F, G
<1>5. IsFiniteSet(Units(F))
  BY <1>1, TotalFinite
<1>6. F[a] \in Nat /\ G[a] \in Nat /\ DOMAIN F = D /\ DOMAIN G = D
  BY <1>1, <1>2
<1>7. Total(G) = Total(F) - F[a] + G[a]
  BY <1>2, <1>5, <1>6, TotalUpdate
<1> QED BY <1>3, <1>4, <1>7

------------------------------------------------------------------------------
(* Multiples and rounded shares. *)

\* The cells of a table with k columns, numbered row by row.
LEMMA CellsApart ==
  ASSUME NEW k \in Nat \ {0}, NEW i \in Nat, NEW j \in Nat, NEW m \in 1..k, NEW n \in 1..k,
         i * k + m = j * k + n
  PROVE  i = j /\ m = n
<1>0. ASSUME NEW a \in Nat, NEW b \in Nat, a < b PROVE a * k + k <= b * k
  <2>1. PICK d \in Nat : b = a + 1 + d
    <3>1. b - a - 1 \in Nat /\ b = a + 1 + (b - a - 1)
      BY <1>0
    <3> QED BY <3>1
  <2>2. b * k = a * k + k + d * k /\ d * k \in Nat
    BY <2>1
  <2>3. a * k \in Nat
    OBVIOUS
  <2> QED BY <2>2, <2>3
<1>1. i * k \in Nat /\ j * k \in Nat
  OBVIOUS
<1>2. ~(i < j)
  BY <1>0, <1>1
<1>3. ~(j < i)
  BY <1>0, <1>1
<1>4. i = j
  BY <1>2, <1>3
<1> QED BY <1>1, <1>4

LEMMA CellReached ==
  ASSUME NEW k \in Nat \ {0}, NEW r \in Nat, NEW x \in Nat, 1 <= x, x <= r * k
  PROVE  \E i \in Nat, m \in 1..k : i < r /\ x = i * k + m
<1>1. PICK y \in Nat : y = x - 1
  OBVIOUS
<1>2. PICK i \in Nat : i = y \div k
  <2>1. y \div k \in Nat
    BY <1>1
  <2> QED BY <2>1
<1>3. k * i <= y /\ y < k * (i + 1)
  BY <1>1, <1>2
<1>4. k * i = i * k /\ k * (i + 1) = i * k + k /\ i * k \in Nat /\ r * k \in Nat
  OBVIOUS
<1>5. PICK m \in 1..k : x = i * k + m
  <2>1. x - i * k \in 1..k /\ x = i * k + (x - i * k)
    BY <1>1, <1>3, <1>4
  <2> QED BY <2>1
<1>6. i < r
  <2>1. ASSUME r <= i PROVE r * k <= i * k
    <3>1. PICK d \in Nat : i = r + d
      <4>1. i - r \in Nat /\ i = r + (i - r)
        BY <2>1
      <4> QED BY <4>1
    <3>2. i * k = r * k + d * k /\ d * k \in Nat
      BY <3>1
    <3> QED BY <1>4, <3>2
  <2> QED BY <1>4, <1>5, <2>1
<1> QED BY <1>5, <1>6

LEMMA UnitsAre ==
  ASSUME NEW f, NEW u
  PROVE  u \in Units(f) <=> \E a \in DOMAIN f : \E i \in 1..f[a] : u = <<a, i>>
  BY DEF Units

\* k times every value, k times the sum: each unit gives k.
LEMMA TotalScale ==
  ASSUME NEW D, IsFiniteSet(D), NEW f \in [D -> Nat], NEW k \in Nat
  PROVE  Total([a \in D |-> k * f[a]]) = k * Total(f)
<1> DEFINE g == [a \in D |-> k * f[a]]
<1>1. IsFiniteSet(Units(f)) /\ Total(f) \in Nat
  BY TotalFinite
<1>2. CASE k = 0
  <2>1. \A a \in D : k * f[a] = 0
    BY <1>2
  <2>2. Total(g) = 0
    BY <2>1, TotalOfNone
  <2> QED BY <1>1, <1>2, <2>2
<1>3. CASE k # 0
  <2> DEFINE table == Units(f) \X (1..k)
             place == [c \in table |-> <<c[1][1], (c[1][2] - 1) * k + c[2]>>]
  <2>k. k \in Nat \ {0}
    BY <1>3
  <2>1. IsFiniteSet(1..k) /\ Cardinality(1..k) = k
    BY FS_Interval
  <2>2. IsFiniteSet(table) /\ Cardinality(table) = Cardinality(Units(f)) * k
    BY <1>1, <2>1, FS_Product
  <2>3. ASSUME NEW c \in table
        PROVE  /\ \E a \in D, i \in Nat, m \in 1..k : c = <<<<a, i + 1>>, m>> /\ i < f[a] /\ place[c] = <<a, i * k + m>>
               /\ place[c] \in Units(g)
    <3>1. PICK u \in Units(f), m \in 1..k : c = <<u, m>>
      OBVIOUS
    <3>2. PICK a \in D : \E i \in 1..f[a] : u = <<a, i>>
      BY UnitsAre
    <3>3. PICK j \in 1..f[a] : u = <<a, j>>
      BY <3>2
    <3>4. PICK i \in Nat : j = i + 1 /\ i < f[a]
      <4>1. f[a] \in Nat
        OBVIOUS
      <4>2. j - 1 \in Nat /\ j = (j - 1) + 1 /\ j - 1 < f[a]
        BY <4>1
      <4> QED BY <4>2
    <3>5. c = <<<<a, i + 1>>, m>>
      BY <3>1, <3>3, <3>4
    <3>6. place[c] = <<a, (i + 1 - 1) * k + m>>
      BY <3>5
    <3>7. i + 1 - 1 = i
      OBVIOUS
    <3>8. place[c] = <<a, i * k + m>>
      BY <3>6, <3>7
    <3>9. i * k + m \in 1..g[a]
      <4>1. PICK d \in Nat : f[a] = i + 1 + d
        <5>1. f[a] \in Nat /\ f[a] - i - 1 \in Nat /\ f[a] = i + 1 + (f[a] - i - 1)
          BY <3>4
        <5> QED BY <5>1
      <4>2. k * f[a] = i * k + k + d * k /\ d * k \in Nat /\ i * k \in Nat
        BY <4>1
      <4> QED BY <4>2
    <3>10. place[c] \in Units(g)
      BY <3>8, <3>9, UnitsAre
    <3> QED BY <3>4, <3>5, <3>8, <3>10
  <2>4. \A c, e \in table : place[c] = place[e] => c = e
    <3> SUFFICES ASSUME NEW c \in table, NEW e \in table, place[c] = place[e] PROVE c = e
      OBVIOUS
    <3> HIDE DEF place, table
    <3>1. PICK a \in D, i \in Nat, m \in 1..k : c = <<<<a, i + 1>>, m>> /\ place[c] = <<a, i * k + m>>
      BY <2>3
    <3>2. PICK b \in D, j \in Nat, n \in 1..k : e = <<<<b, j + 1>>, n>> /\ place[e] = <<b, j * k + n>>
      BY <2>3
    <3>3. a = b /\ i * k + m = j * k + n
      BY <3>1, <3>2
    <3>4. i = j /\ m = n
      BY <2>k, <3>3, CellsApart
    <3> QED BY <3>1, <3>2, <3>3, <3>4
  <2>5. \A t \in Units(g) : \E c \in table : place[c] = t
    <3> SUFFICES ASSUME NEW t \in Units(g) PROVE \E c \in table : place[c] = t
      OBVIOUS
    <3>1. PICK a \in D : \E x \in 1..g[a] : t = <<a, x>>
      BY UnitsAre
    <3>2. PICK x \in 1..(k * f[a]) : t = <<a, x>>
      BY <3>1
    <3>3. f[a] \in Nat /\ k * f[a] = f[a] * k /\ k * f[a] \in Nat
      OBVIOUS
    <3>4. x \in Nat /\ 1 <= x /\ x <= f[a] * k
      BY <3>3
    <3>5. PICK i \in Nat, m \in 1..k : i < f[a] /\ x = i * k + m
      BY <2>k, <3>3, <3>4, CellReached
    <3>6. PICK j \in 1..f[a] : j = i + 1
      BY <3>3, <3>5
    <3>7. <<a, j>> \in Units(f)
      BY UnitsAre
    <3>8. PICK c \in table : c = <<<<a, j>>, m>>
      BY <3>7
    <3>9. place[c] = <<a, (j - 1) * k + m>> /\ j - 1 = i
      <4>1. c[1] = <<a, j>> /\ c[2] = m
        BY <3>8
      <4>2. c[1][1] = a /\ c[1][2] = j
        BY <4>1
      <4>3. place[c] = <<c[1][1], (c[1][2] - 1) * k + c[2]>>
        OBVIOUS
      <4>4. j - 1 = i
        BY <3>6
      <4> QED BY <4>1, <4>2, <4>3, <4>4
    <3> QED BY <3>2, <3>5, <3>8, <3>9
  <2>6. place \in [table -> Units(g)]
    BY <2>3
  <2>7. place \in Bijection(table, Units(g))
    BY <2>4, <2>5, <2>6 DEF Bijection, Injection, Surjection, IsInjective
  <2>8. Cardinality(Units(g)) = Cardinality(table)
    BY <2>2, <2>7, FS_Bijection DEF ExistsBijection
  <2> QED BY <1>1, <2>2, <2>8 DEF Total
<1> QED BY <1>2, <1>3

\* n of d equal parts of m, rounded down.
Portion(m, n, d) == (m * n) \div d

LEMMA PortionBound ==
  ASSUME NEW m \in Nat, NEW n \in Nat, NEW d \in Nat \ {0}
  PROVE  Portion(m, n, d) \in Nat /\ d * Portion(m, n, d) <= m * n
<1>1. PICK x \in Nat : x = m * n
  OBVIOUS
<1>2. x \div d \in Nat /\ d * (x \div d) <= x
  OBVIOUS
<1> QED BY <1>1, <1>2 DEF Portion

\* Rounded shares of m by parts of d add up to m at most.
LEMMA PortionsFit ==
  ASSUME NEW D, IsFiniteSet(D), NEW f \in [D -> Nat], NEW m \in Nat, NEW d \in Nat \ {0}, Total(f) <= d
  PROVE  Total([a \in D |-> Portion(m, f[a], d)]) <= m
<1> DEFINE g == [a \in D |-> Portion(m, f[a], d)]
           dg == [a \in D |-> d * g[a]]
           mf == [a \in D |-> m * f[a]]
<1>1. g \in [D -> Nat]
  BY PortionBound
<1>2. \A a \in D : d * g[a] <= m * f[a]
  BY PortionBound
<1>3. Total(f) \in Nat /\ Total(g) \in Nat
  BY <1>1, TotalFinite
<1> HIDE DEF g
<1>4. Total(dg) = d * Total(g) /\ Total(mf) = m * Total(f)
  BY <1>1, TotalScale
<1>5. dg \in [D -> Nat] /\ mf \in [D -> Nat]
  BY <1>1
<1>6. \A a \in D : dg[a] \in Nat /\ mf[a] \in Nat /\ dg[a] <= mf[a]
  BY <1>2, <1>5
<1>7. IsFiniteSet(Units(mf)) /\ DOMAIN dg = D /\ DOMAIN mf = D
  BY <1>5, TotalFinite
<1> HIDE DEF dg, mf
<1>8. Total(dg) <= Total(mf)
  BY <1>6, <1>7, TotalMonotone
<1>9. ASSUME NEW x \in Nat, NEW y \in Nat, y <= d, d * x <= m * y PROVE x <= m
  <2>1. m * y <= m * d
    <3>1. PICK e \in Nat : d = y + e
      <4>1. d - y \in Nat /\ d = y + (d - y)
        BY <1>9
      <4> QED BY <4>1
    <3>2. m * d = m * y + m * e /\ m * e \in Nat /\ m * y \in Nat
      BY <3>1
    <3> QED BY <3>2
  <2>2. ASSUME x > m PROVE FALSE
    <3>1. PICK e \in Nat : x = m + 1 + e
      <4>1. x - m - 1 \in Nat /\ x = m + 1 + (x - m - 1)
        BY <2>2
      <4> QED BY <4>1
    <3>2. d * x = m * d + d + d * e /\ d * e \in Nat /\ m * d \in Nat /\ d > 0
      BY <3>1
    <3>3. m * y \in Nat /\ d * x <= m * y
      BY <1>9
    <3> QED BY <2>1, <3>2, <3>3
  <2> QED BY <2>2
<1> QED BY <1>3, <1>4, <1>8, <1>9 DEF g
=============================================================================
