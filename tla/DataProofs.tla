----------------------------- MODULE DataProofs -----------------------------
(***************************************************************************)
(* What the tools that work on data plan and count: the test drivers, for    *)
(* every catalog, number of shards, folder order and command line, lose and  *)
(* repeat nothing selected; the storage census, for every log and layout,    *)
(* counts every slot's life once and under the names of what is in it;       *)
(* splits and loans keep the money; and the strippers of source text blank   *)
(* comments and strings and nothing else. Before them, induction on rounds   *)
(* and on scans, which the gates' proofs use too.                            *)
(***************************************************************************)
EXTENDS TestPlans, Census, MoneyModels, Masking, TotalProofs, WellFoundedInduction, FiniteSetTheorems, SequenceTheorems, TLAPS

-----------------------------------------------------------------------------
(* Induction on a number of rounds, and the rounds themselves.               *)

\* A set of naturals with 0 and every successor has them all.
LEMMA EveryNatural ==
  ASSUME NEW S \in SUBSET Nat, 0 \in S, \A n \in S : n + 1 \in S
  PROVE  S = Nat
<1> DEFINE R == Nat \ S
           Less == {p \in Nat \X Nat : p[1] < p[2]}
<1>1. SUFFICES ASSUME R # {} PROVE FALSE
  OBVIOUS
<1>2. IsWellFoundedOn(Less, Nat)
  BY NatLessThanWellFounded DEF OpToRel
<1>3. R \subseteq Nat
  OBVIOUS
<1> HIDE DEF R, Less
<1>4. PICK n \in R : \A m \in R : <<m, n>> \notin Less
  BY <1>1, <1>2, <1>3, WFMin
<1> USE DEF R, Less
<1>5. n \in Nat /\ n \notin S /\ n # 0 /\ n - 1 \in Nat /\ <<n - 1, n>> \in Less
  OBVIOUS
<1>6. n - 1 \in S
  BY <1>4, <1>5
<1> QED BY <1>5, <1>6

Iterates(D, start, step, f) == f \in [Nat -> D] /\ f = [n \in Nat |-> IF n = 0 THEN start ELSE step[f[n - 1]]]
UpTo(D, start, step, n, g) == g \in [0..n -> D] /\ g[0] = start /\ \A i \in 1..n : g[i] = step[g[i - 1]]

\* Any step over a domain can be repeated any number of times: what the definitions by rounds rest on.
LEMMA IteratesExist ==
  ASSUME NEW D, NEW start \in D, NEW step \in [D -> D]
  PROVE  \E f : Iterates(D, start, step, f)
<1> DEFINE S == {n \in Nat : \E g \in [0..n -> D] : UpTo(D, start, step, n, g)}
<1>1. 0 \in S
  <2>1. UpTo(D, start, step, 0, [i \in 0..0 |-> start])
    BY DEF UpTo
  <2> QED BY <2>1 DEF UpTo
<1>2. ASSUME NEW n \in S PROVE n + 1 \in S
  <2>1. n \in Nat
    OBVIOUS
  <2>2. PICK g \in [0..n -> D] : UpTo(D, start, step, n, g)
    OBVIOUS
  <2> DEFINE h == [i \in 0..(n + 1) |-> IF i = n + 1 THEN step[g[n]] ELSE g[i]]
  <2>3. h \in [0..(n + 1) -> D]
    BY <2>1, <2>2
  <2>4. UpTo(D, start, step, n + 1, h)
    BY <2>1, <2>2 DEF UpTo
  <2> QED BY <2>1, <2>3, <2>4
<1>3. S = Nat
  BY <1>1, <1>2, EveryNatural
<1>4. \A n \in Nat : \E g \in [0..n -> D] : UpTo(D, start, step, n, g)
  BY <1>3
<1> HIDE DEF S
<1>5. ASSUME NEW n \in Nat, NEW g, UpTo(D, start, step, n, g), NEW m \in Nat, NEW h, UpTo(D, start, step, m, h), n <= m
      PROVE  g[n] = h[n]
  <2> DEFINE T == {i \in Nat : i <= n => g[i] = h[i]}
  <2>1. 0 \in T
    BY <1>5 DEF UpTo
  <2>2. ASSUME NEW i \in T PROVE i + 1 \in T
    <3>1. CASE i + 1 <= n
      BY <1>5, <3>1 DEF UpTo
    <3> QED BY <3>1
  <2>3. T = Nat
    BY <2>1, <2>2, EveryNatural
  <2> QED BY <2>3
<1> DEFINE at(n) == CHOOSE g \in [0..n -> D] : UpTo(D, start, step, n, g)
           f == [n \in Nat |-> at(n)[n]]
<1>6. \A n \in Nat : at(n) \in [0..n -> D] /\ UpTo(D, start, step, n, at(n))
  BY <1>4
<1>7. \A n \in Nat : f[n] = at(n)[n] /\ f[n] \in D
  <2> SUFFICES ASSUME NEW n \in Nat PROVE at(n)[n] \in D
    OBVIOUS
  <2>1. at(n) \in [0..n -> D] /\ n \in 0..n
    BY <1>6
  <2> HIDE DEF at
  <2> QED BY <2>1
<1>8. f[0] = start
  <2>1. UpTo(D, start, step, 0, at(0)) /\ f[0] = at(0)[0]
    BY <1>6
  <2> HIDE DEF at, f
  <2> QED BY <2>1 DEF UpTo
<1>9. ASSUME NEW n \in Nat \ {0} PROVE f[n] = step[f[n - 1]]
  <2>1. n - 1 \in Nat /\ n \in 1..n /\ n \in Nat
    OBVIOUS
  <2>2. UpTo(D, start, step, n - 1, at(n - 1)) /\ UpTo(D, start, step, n, at(n))
    BY <1>6, <2>1
  <2> HIDE DEF at
  <2>3. at(n - 1)[n - 1] = at(n)[n - 1]
    BY <1>5, <2>1, <2>2
  <2>4. at(n)[n] = step[at(n)[n - 1]]
    BY <2>1, <2>2 DEF UpTo
  <2> QED BY <1>7, <2>1, <2>3, <2>4
<1> HIDE DEF at, f
<1>10. f \in [Nat -> D]
  BY <1>7 DEF f
<1>11. f = [n \in Nat |-> IF n = 0 THEN start ELSE step[f[n - 1]]]
  BY <1>8, <1>9, <1>10
<1> QED BY <1>10, <1>11 DEF Iterates

\* What Grown computes: nothing after no round, and a step more after one more.
LEMMA GrownRounds ==
  ASSUME NEW D, NEW start \in D, NEW step \in [D -> D]
  PROVE  /\ Grown(start, step, 0) = start
         /\ \A n \in Nat : Grown(start, step, n) \in D /\ Grown(start, step, n + 1) = step[Grown(start, step, n)]
<1> DEFINE grown[n \in Nat] == IF n = 0 THEN start ELSE step[grown[n - 1]]
<1>1. PICK f : Iterates(D, start, step, f)
  BY IteratesExist
<1>2. f = [n \in Nat |-> IF n = 0 THEN start ELSE step[f[n - 1]]]
  BY <1>1 DEF Iterates
<1>3. grown = [n \in Nat |-> IF n = 0 THEN start ELSE step[grown[n - 1]]]
  BY <1>2, Zenon DEF grown
<1>4. \A n \in Nat : Grown(start, step, n) = grown[n]
  BY Zenon DEF Grown
<1> HIDE DEF grown
<1>5. grown[0] = start /\ \A n \in Nat : grown[n + 1] = step[grown[n]]
  BY <1>3
<1> DEFINE S == {n \in Nat : grown[n] \in D}
<1>6. S = Nat
  <2>1. 0 \in S /\ \A n \in S : n + 1 \in S
    BY <1>5
  <2> QED BY <2>1, EveryNatural
<1> QED BY <1>4, <1>5, <1>6

LEMMA SetRounds ==
  ASSUME NEW U, NEW start \in SUBSET U, NEW step \in [SUBSET U -> SUBSET U]
  PROVE  /\ Grown(start, step, 0) = start
         /\ \A n \in Nat : Grown(start, step, n) \in SUBSET U /\ Grown(start, step, n + 1) = step[Grown(start, step, n)]
  BY GrownRounds

\* What holds of 0, and of a number if of the one before, holds up to n.
LEMMA EachUpTo ==
  ASSUME NEW n \in Nat, NEW S, 0 \in S, \A i \in 1..n : i - 1 \in S => i \in S
  PROVE  0..n \subseteq S
<1> DEFINE P == {i \in Nat : i <= n => i \in S}
<1>1. 0 \in P /\ P \in SUBSET Nat
  OBVIOUS
<1>2. ASSUME NEW i \in P PROVE i + 1 \in P
  <2>1. SUFFICES ASSUME i + 1 <= n PROVE i + 1 \in S
    OBVIOUS
  <2>2. i \in S /\ i + 1 \in 1..n /\ (i + 1) - 1 = i
    BY <2>1
  <2> QED BY <2>2
<1>3. P = Nat
  <2> HIDE DEF P
  <2> QED BY <1>1, <1>2, EveryNatural
<1> QED BY <1>3

\* What f has after each element of s.
ScanOf(D, f, start, step, s) ==
  f \in [0..Len(s) -> D] /\ f[0] = start /\ \A i \in 1..Len(s) : f[i] = step[<<f[i - 1], s[i]>>]

LEMMA ScanExists ==
  ASSUME NEW D, NEW T, NEW start \in D, NEW step \in [D \X T -> D], NEW s \in Seq(T)
  PROVE  \E f : ScanOf(D, f, start, step, s)
<1> DEFINE n == Len(s)
           Scans(k, f) == f \in [0..k -> D] /\ f[0] = start /\ \A i \in 1..k : f[i] = step[<<f[i - 1], s[i]>>]
           S == {k \in Nat : k <= n => \E f : Scans(k, f)}
<1>1. n \in Nat /\ \A i \in 1..n : s[i] \in T
  OBVIOUS
<1> HIDE DEF n
<1>2. 0 \in S
  <2> DEFINE f == [i \in 0..0 |-> start]
  <2>1. Scans(0, f)
    OBVIOUS
  <2> QED BY <2>1
<1>3. ASSUME NEW k \in S PROVE k + 1 \in S
  <2>1. SUFFICES ASSUME k + 1 <= n PROVE \E f : Scans(k + 1, f)
    OBVIOUS
  <2>2. k \in Nat /\ k + 1 \in 1..n
    BY <1>1, <2>1
  <2>3. PICK f : Scans(k, f)
    <3> HIDE DEF Scans
    <3>1. k <= n
      BY <1>1, <2>1, <2>2
    <3> QED BY <1>3, <3>1
  <2> DEFINE x == step[<<f[k], s[k + 1]>>]
             g == [i \in 0..(k + 1) |-> IF i = k + 1 THEN x ELSE f[i]]
  <2>4. x \in D
    <3>1. f[k] \in D /\ s[k + 1] \in T
      BY <1>1, <2>2, <2>3
    <3> QED BY <3>1
  <2>5. /\ \A i \in 0..k : i \in 0..(k + 1) /\ i # k + 1 /\ f[i] \in D
        /\ \A i \in 1..k : i - 1 \in 0..k
        /\ 0 \in 0..k /\ k \in 0..k /\ k + 1 \in 0..(k + 1)
        /\ \A i \in 1..(k + 1) : i = k + 1 \/ i \in 1..k
    BY <2>2, <2>3
  <2> HIDE DEF x
  <2>6. g \in [0..(k + 1) -> D] /\ g[k + 1] = x /\ \A i \in 0..k : g[i] = f[i]
    BY <2>2, <2>4, <2>5
  <2> HIDE DEF g
  <2>7. g[0] = start
    BY <2>3, <2>5, <2>6
  <2>8. ASSUME NEW i \in 1..(k + 1) PROVE g[i] = step[<<g[i - 1], s[i]>>]
    <3>1. CASE i = k + 1
      <4>1. g[i - 1] = f[k]
        BY <2>2, <2>5, <2>6, <3>1
      <4> QED BY <2>6, <3>1, <4>1 DEF x
    <3>2. CASE i \in 1..k
      <4>1. g[i] = f[i] /\ g[i - 1] = f[i - 1]
        BY <2>2, <2>5, <2>6, <3>2
      <4> QED BY <2>3, <3>2, <4>1
    <3> QED BY <2>5, <3>1, <3>2
  <2> QED BY <2>6, <2>7, <2>8
<1>4. S = Nat
  <2>1. S \in SUBSET Nat
    OBVIOUS
  <2> HIDE DEF S
  <2> QED BY <1>2, <1>3, <2>1, EveryNatural
<1>5. n \in S
  <2> HIDE DEF S
  <2> QED BY <1>1, <1>4
<1>6. PICK f : Scans(n, f)
  BY <1>1, <1>5
<1> QED BY <1>6 DEF n, ScanOf

\* Joined lists have the elements of both.
LEMMA StackJoin ==
  ASSUME NEW T, NEW s \in Seq(T), NEW t \in Seq(T)
  PROVE  s \o t \in Seq(T) /\ Range(s \o t) = Range(s) \cup Range(t)
<1>1. \A i \in DOMAIN t : i + Len(s) \in DOMAIN (s \o t) /\ (s \o t)[i + Len(s)] = t[i]
  OBVIOUS
<1>2. \A i \in DOMAIN s : i \in DOMAIN (s \o t) /\ (s \o t)[i] = s[i]
  OBVIOUS
<1>3. \A i \in DOMAIN (s \o t) : i \in DOMAIN s \/ (i - Len(s) \in DOMAIN t /\ (s \o t)[i] = t[i - Len(s)])
  OBVIOUS
<1>4. s \o t \in Seq(T)
  OBVIOUS
<1>5. Range(s) \cup Range(t) \subseteq Range(s \o t)
  BY <1>1, <1>2 DEF Range
<1>6. Range(s \o t) \subseteq Range(s) \cup Range(t)
  BY <1>2, <1>3 DEF Range
<1> QED BY <1>4, <1>5, <1>6

\* The least of a set of natural numbers.
LEMMA MinIs ==
  ASSUME NEW S \in SUBSET Nat, S # {}
  PROVE  Min(S) \in S /\ \A m \in S : Min(S) <= m
<1> DEFINE Less == {p \in Nat \X Nat : p[1] < p[2]}
<1>1. IsWellFoundedOn(Less, Nat)
  BY NatLessThanWellFounded DEF OpToRel
<1>2. S \subseteq Nat
  OBVIOUS
<1> HIDE DEF Less
<1>3. PICK n \in S : \A m \in S : <<m, n>> \notin Less
  BY <1>1, <1>2, WFMin
<1> USE DEF Less
<1>4. ASSUME NEW m \in S PROVE n <= m
  <2>1. m \in Nat /\ n \in Nat /\ <<m, n>> \in Nat \X Nat /\ ~(<<m, n>>[1] < <<m, n>>[2])
    BY <1>3
  <2> QED BY <2>1
<1> QED BY <1>4, Zenon DEF Min

-----------------------------------------------------------------------------
(* Test plans: sets put in order, their slices, and lists joined.            *)

\* What order a set is put in: a total one.
TotalOn(S, order) ==
  /\ \A p \in S : <<p, p>> \in order
  /\ \A p, q \in S : <<p, q>> \in order \/ <<q, p>> \in order
  /\ \A p, q \in S : <<p, q>> \in order /\ <<q, p>> \in order => p = q
  /\ \A p, q, r \in S : <<p, q>> \in order /\ <<q, r>> \in order => <<p, r>> \in order

LEMMA RankIs ==
  ASSUME NEW S, IsFiniteSet(S), NEW order, TotalOn(S, order)
  PROVE  /\ \A p \in S : Rank(S, order, p) \in 1..Cardinality(S)
         /\ \A p, q \in S : p # q /\ <<p, q>> \in order => Rank(S, order, p) < Rank(S, order, q)
         /\ \A p, q \in S : Rank(S, order, p) = Rank(S, order, q) => p = q
<1> DEFINE upto(p) == {q \in S : <<q, p>> \in order}
<1>1. \A p \in S : upto(p) \in SUBSET S /\ p \in upto(p) /\ upto(p) # {}
  BY DEF TotalOn
<1>2. Cardinality(S) \in Nat
  BY FS_CardinalityType
<1>3. \A p \in S : Rank(S, order, p) = Cardinality(upto(p))
  BY DEF Rank
<1>4. \A p, q \in S : p # q /\ <<p, q>> \in order => upto(p) \in SUBSET upto(q) /\ q \in upto(q) /\ q \notin upto(p)
  BY DEF TotalOn
<1> HIDE DEF upto
<1>5. ASSUME NEW p \in S PROVE IsFiniteSet(upto(p)) /\ Cardinality(upto(p)) \in 1..Cardinality(S)
  <2>1. IsFiniteSet(upto(p)) /\ Cardinality(upto(p)) <= Cardinality(S)
    BY <1>1, FS_Subset
  <2>2. Cardinality(upto(p)) \in Nat /\ Cardinality(upto(p)) # 0
    BY <1>1, <2>1, FS_CardinalityType, FS_EmptySet
  <2> QED BY <1>2, <2>1, <2>2
<1>6. ASSUME NEW p \in S, NEW q \in S, p # q, <<p, q>> \in order PROVE Rank(S, order, p) < Rank(S, order, q)
  <2>1. upto(p) \in SUBSET upto(q) /\ upto(p) # upto(q) /\ IsFiniteSet(upto(q))
    BY <1>4, <1>5, <1>6
  <2>2. Cardinality(upto(p)) <= Cardinality(upto(q)) /\ Cardinality(upto(q)) # Cardinality(upto(p))
    BY <2>1, FS_Subset
  <2>3. Cardinality(upto(p)) \in Nat /\ Cardinality(upto(q)) \in Nat
    BY <1>2, <1>5
  <2> QED BY <1>3, <2>2, <2>3
<1>7. ASSUME NEW p \in S, NEW q \in S, Rank(S, order, p) = Rank(S, order, q) PROVE p = q
  <2>1. SUFFICES ASSUME p # q PROVE FALSE
    OBVIOUS
  <2>2. <<p, q>> \in order \/ <<q, p>> \in order
    BY DEF TotalOn
  <2>3. Rank(S, order, p) < Rank(S, order, q) \/ Rank(S, order, q) < Rank(S, order, p)
    BY <1>6, <2>1, <2>2
  <2>4. Rank(S, order, p) \in Nat /\ Rank(S, order, q) \in Nat
    BY <1>2, <1>3, <1>5
  <2> QED BY <1>7, <2>3, <2>4
<1> QED BY <1>3, <1>5, <1>6, <1>7

\* The sequence of a set in order has each of its elements at its rank.
LEMMA OrderedIs ==
  ASSUME NEW S, IsFiniteSet(S), NEW order, TotalOn(S, order)
  PROVE  /\ Cardinality(S) \in Nat /\ Len(Ordered(S, order)) = Cardinality(S) /\ Ordered(S, order) \in Seq(S)
         /\ \A p \in S : Ordered(S, order)[Rank(S, order, p)] = p
         /\ \A k \in 1..Cardinality(S) : Ordered(S, order)[k] \in S /\ Rank(S, order, Ordered(S, order)[k]) = k
<1> DEFINE n == Cardinality(S)
           rank == [p \in S |-> Rank(S, order, p)]
           s == Ordered(S, order)
<1>1. n \in Nat
  BY FS_CardinalityType
<1>2. rank \in Injection(S, 1..n)
  BY RankIs DEF Injection, IsInjective
<1>3. IsFiniteSet(1..n) /\ Cardinality(1..n) = n
  BY <1>1, FS_Interval
<1>4. rank \in Surjection(S, 1..n)
  <2> HIDE DEF rank
  <2> QED BY <1>2, <1>3, FS_Injection
<1>5. \A k \in 1..n : \E p \in S : Rank(S, order, p) = k
  BY <1>4 DEF Surjection
<1>6. s = [k \in 1..n |-> CHOOSE p \in S : Rank(S, order, p) = k]
  BY DEF Ordered
<1>7. \A k \in 1..n : s[k] \in S /\ Rank(S, order, s[k]) = k
  BY <1>5, <1>6
<1>8. s = [k \in 1..n |-> s[k]]
  BY <1>6
<1> HIDE DEF s, n
<1>9. s \in Seq(S) /\ Len(s) = n
  BY <1>1, <1>7, <1>8
<1>10. \A p \in S : s[Rank(S, order, p)] = p
  BY <1>7, RankIs DEF n
<1> QED BY <1>1, <1>7, <1>9, <1>10 DEF s, n

LEMMA ByPathTotal ==
  ASSUME NEW S \in SUBSET Int
  PROVE  TotalOn(S, ByPath(S))
<1>1. \A p, q \in S : <<p, q>> \in ByPath(S) <=> p <= q
  BY DEF ByPath
<1> QED BY <1>1 DEF TotalOn

LEMMA DivIs ==
  ASSUME NEW a \in Nat, NEW b \in Nat \ {0}
  PROVE  a \div b \in Nat /\ (a \div b) * b <= a /\ a < (a \div b) * b + b
  OBVIOUS

LEMMA CeilingIs ==
  ASSUME NEW n \in Nat, NEW d \in Nat \ {0}
  PROVE  /\ Ceiling(n, d) \in Nat /\ n <= Ceiling(n, d) * d
         /\ n > 0 => Ceiling(n, d) > 0
         /\ \A i \in 1..Ceiling(n, d) : (i - 1) * d < n
<1> DEFINE a == n + d - 1
           c == a \div d
<1>1. a \in Nat /\ c \in Nat /\ c * d <= a /\ a < c * d + d
  <2>1. a \in Nat
    OBVIOUS
  <2> QED BY <2>1, DivIs
<1>2. Ceiling(n, d) = c
  BY DEF Ceiling
<1>3. PICK m \in Nat : m = c * d
  BY <1>1
<1>4. n <= m
  BY <1>1, <1>3
<1>5. n > 0 => c > 0
  BY <1>3, <1>4, <1>1
<1>6. ASSUME NEW i \in 1..c PROVE (i - 1) * d < n
  <2>1. PICK e \in Nat : c = i + e
    <3>1. c - i \in Nat /\ c = i + (c - i)
      BY <1>1
    <3> QED BY <3>1
  <2>2. c * d = (i - 1) * d + d + e * d
    BY <2>1
  <2>3. PICK x \in Nat, y \in Nat : x = (i - 1) * d /\ y = e * d
    BY <2>1
  <2>4. x + d + y <= n + d - 1
    BY <1>1, <2>2, <2>3
  <2> QED BY <2>3, <2>4
<1> QED BY <1>1, <1>2, <1>3, <1>4, <1>5, <1>6

\* Slices of a set of positions: apart, no larger than their size, none empty, and together the whole set.
LEMMA SliceIs ==
  ASSUME NEW S \in SUBSET Int, IsFiniteSet(S), NEW size \in Nat \ {0}
  PROVE  /\ \A i \in Int : Slice(S, i, size) \in SUBSET S
         /\ \A i, j \in Int : i # j => Slice(S, i, size) \cap Slice(S, j, size) = {}
         /\ \A i \in Nat \ {0} : Cardinality(Slice(S, i, size)) <= size
         /\ \A i \in Nat \ {0} : (i - 1) * size < Cardinality(S) => Slice(S, i, size) # {}
         /\ \A k \in Nat : Cardinality(S) <= k * size => UNION {Slice(S, i, size) : i \in 1..k} = S
<1> DEFINE n == Cardinality(S)
           r(p) == Rank(S, ByPath(S), p)
<1>1. n \in Nat /\ \A p \in S : r(p) \in Nat /\ 1 <= r(p) /\ r(p) <= n /\ r(p) - 1 \in Nat
  <2>1. n \in Nat /\ \A p \in S : r(p) \in 1..n
    BY ByPathTotal, RankIs, FS_CardinalityType
  <2> HIDE DEF n, r
  <2> QED BY <2>1
<1>2. \A p, q \in S : r(p) = r(q) => p = q
  BY ByPathTotal, RankIs
<1>3. \A k \in 1..n : \E p \in S : r(p) = k
  <2> DEFINE order == ByPath(S)
             s == Ordered(S, order)
  <2>1. TotalOn(S, order)
    BY ByPathTotal
  <2> HIDE DEF order
  <2>2. \A k \in 1..n : s[k] \in S /\ Rank(S, order, s[k]) = k
    BY <2>1, OrderedIs
  <2> HIDE DEF s
  <2> QED BY <2>2 DEF order
<1>4. \A i \in Int : Slice(S, i, size) = {p \in S : (r(p) - 1) \div size = i - 1}
  BY DEF Slice
<1> HIDE DEF n, r
<1>5. \A p \in S : LET d == (r(p) - 1) \div size IN d \in Nat /\ d * size <= r(p) - 1 /\ r(p) - 1 < d * size + size
  BY <1>1, DivIs
<1>6. ASSUME NEW i \in Nat \ {0} PROVE Cardinality(Slice(S, i, size)) <= size
  <2> DEFINE T == Slice(S, i, size)
             f == [p \in T |-> r(p)]
  <2>1. PICK a \in Nat : a = (i - 1) * size
    OBVIOUS
  <2>2. \A p \in T : p \in S /\ a + 1 <= r(p) /\ r(p) <= a + size /\ r(p) \in Int
    <3> SUFFICES ASSUME NEW p \in T PROVE p \in S /\ a + 1 <= r(p) /\ r(p) <= a + size /\ r(p) \in Int
      OBVIOUS
    <3>1. p \in S /\ (r(p) - 1) \div size = i - 1
      BY <1>4
    <3>2. a <= r(p) - 1 /\ r(p) - 1 < a + size
      BY <1>5, <2>1, <3>1
    <3> QED BY <1>1, <3>1, <3>2
  <2>3. f \in Injection(T, (a + 1)..(a + size))
    <3>1. \A p \in T : f[p] = r(p) /\ r(p) \in (a + 1)..(a + size)
      BY <2>2
    <3>2. \A p, q \in T : f[p] = f[q] => p = q
      BY <1>2, <2>2
    <3> HIDE DEF T
    <3>3. f \in [T -> (a + 1)..(a + size)]
      BY <3>1
    <3> QED BY <3>2, <3>3 DEF Injection, IsInjective
  <2>4. IsFiniteSet((a + 1)..(a + size)) /\ Cardinality((a + 1)..(a + size)) = size
    <3>1. a + 1 \in Int /\ a + size \in Int /\ ~(a + 1 > a + size) /\ (a + size) - (a + 1) + 1 = size
      OBVIOUS
    <3> QED BY <3>1, FS_Interval
  <2> HIDE DEF T, f
  <2>5. Cardinality(T) <= Cardinality((a + 1)..(a + size))
    BY <2>3, <2>4, FS_Injection
  <2> QED BY <2>4, <2>5 DEF T
<1>7. ASSUME NEW i \in Nat \ {0}, (i - 1) * size < n PROVE Slice(S, i, size) # {}
  <2>1. PICK a \in Nat : a = (i - 1) * size
    OBVIOUS
  <2>2. PICK p \in S : r(p) = a + 1
    BY <1>1, <1>3, <1>7, <2>1
  <2>3. PICK d \in Nat : d = (r(p) - 1) \div size /\ d * size <= a /\ a < d * size + size
    BY <1>5, <2>2
  <2>4. d = i - 1
    <3>1. CASE d < i - 1
      <4>1. PICK e \in Nat : i - 1 = d + 1 + e
        <5>1. i - 1 - d - 1 \in Nat /\ i - 1 = d + 1 + (i - 1 - d - 1)
          BY <3>1
        <5> QED BY <5>1
      <4>2. (i - 1) * size = d * size + size + e * size /\ e * size \in Nat
        BY <4>1
      <4>3. PICK x \in Nat, y \in Nat : x = d * size /\ y = e * size
        BY <4>1
      <4> QED BY <2>1, <2>3, <4>2, <4>3
    <3>2. CASE d > i - 1
      <4>1. PICK e \in Nat : d = (i - 1) + 1 + e
        <5>1. d - i \in Nat /\ d = (i - 1) + 1 + (d - i)
          BY <3>2
        <5> QED BY <5>1
      <4>2. d * size = (i - 1) * size + size + e * size /\ e * size \in Nat
        BY <4>1
      <4>3. PICK x \in Nat, y \in Nat : x = d * size /\ y = e * size
        BY <4>1
      <4> QED BY <2>1, <2>3, <4>2, <4>3
    <3> QED BY <3>1, <3>2
  <2>5. p \in Slice(S, i, size)
    BY <1>4, <2>3, <2>4
  <2> QED BY <2>5
<1>8. ASSUME NEW k \in Nat, n <= k * size PROVE UNION {Slice(S, i, size) : i \in 1..k} = S
  <2>1. ASSUME NEW p \in S PROVE \E i \in 1..k : p \in Slice(S, i, size)
    <3>1. PICK d \in Nat : d = (r(p) - 1) \div size /\ d * size <= r(p) - 1
      BY <1>5
    <3>2. d < k
      <4>1. SUFFICES ASSUME k <= d PROVE FALSE
        OBVIOUS
      <4>2. PICK e \in Nat : d = k + e
        <5>1. d - k \in Nat /\ d = k + (d - k)
          BY <4>1
        <5> QED BY <5>1
      <4>3. d * size = k * size + e * size /\ e * size \in Nat
        BY <4>2
      <4>4. PICK x \in Nat, y \in Nat : x = k * size /\ y = e * size
        BY <4>2
      <4> QED BY <1>1, <1>8, <3>1, <4>3, <4>4
    <3>3. d + 1 \in 1..k /\ p \in Slice(S, d + 1, size)
      BY <1>4, <3>1, <3>2
    <3> QED BY <3>3
  <2>2. \A i \in 1..k : Slice(S, i, size) \in SUBSET S
    BY <1>4
  <2> QED BY <2>1, <2>2
<1>9. \A i \in Int : Slice(S, i, size) \in SUBSET S
  BY <1>4
<1>10. \A i, j \in Int : i # j => Slice(S, i, size) \cap Slice(S, j, size) = {}
  BY <1>4
<1> QED BY <1>6, <1>7, <1>8, <1>9, <1>10 DEF n

LEMMA PathsAre ==
  ASSUME PlansAssumption
  PROVE  /\ DOMAIN Catalog \in SUBSET Int /\ IsFiniteSet(DOMAIN Catalog)
         /\ \A p \in DOMAIN Catalog : Cost(p) \in Nat /\ IsTest(p) \in BOOLEAN
         /\ \A S \in SUBSET DOMAIN Catalog : S \in SUBSET Int /\ IsFiniteSet(S) /\ Cardinality(S) \in Nat
<1>1. Len(Catalog) \in Nat /\ DOMAIN Catalog = 1..Len(Catalog) /\ \A p \in DOMAIN Catalog : Cost(p) \in Nat /\ IsTest(p) \in BOOLEAN
  <2> DEFINE Source == [dir : STRING, test : BOOLEAN, cost : Nat, cold : BOOLEAN, mock : BOOLEAN]
  <2>1. Catalog \in Seq(Source)
    BY DEF PlansAssumption
  <2>2. \A x \in Source : x.cost \in Nat /\ x.test \in BOOLEAN
    OBVIOUS
  <2> HIDE DEF Source
  <2>3. Len(Catalog) \in Nat /\ DOMAIN Catalog = 1..Len(Catalog) /\ \A p \in DOMAIN Catalog : Catalog[p] \in Source
    BY <2>1
  <2> QED BY <2>2, <2>3 DEF Cost, IsTest
<1>2. IsFiniteSet(DOMAIN Catalog) /\ DOMAIN Catalog \in SUBSET Int
  BY <1>1, FS_Interval
<1> QED BY <1>1, <1>2, FS_Subset, FS_CardinalityType

LEMMA JoinedAlong ==
  ASSUME NEW T, NEW seqs \in Seq(Seq(T))
  PROVE  LET at == Scanned(\o, <<>>, seqs)
         IN  /\ at[0] = <<>> /\ \A i \in 1..Len(seqs) : at[i] = at[i - 1] \o seqs[i]
             /\ \A i \in 0..Len(seqs) : at[i] \in Seq(T)
<1> DEFINE D == Seq(T)
           step == [p \in D \X D |-> p[1] \o p[2]]
           n == Len(seqs)
           at[i \in 0..Len(seqs)] == IF i = 0 THEN <<>> ELSE at[i - 1] \o seqs[i]
<1>0. <<>> \in D
  OBVIOUS
<1>1. step \in [D \X D -> D]
  OBVIOUS
<1>2. n \in Nat /\ \A i \in 1..n : seqs[i] \in D
  OBVIOUS
<1>3. PICK f : ScanOf(D, f, <<>>, step, seqs)
  <2> HIDE DEF step
  <2> QED BY <1>0, <1>1, ScanExists
<1> HIDE DEF D
<1>4. f = [i \in 0..Len(seqs) |-> IF i = 0 THEN <<>> ELSE f[i - 1] \o seqs[i]]
  <2> DEFINE h == [i \in 0..Len(seqs) |-> IF i = 0 THEN <<>> ELSE f[i - 1] \o seqs[i]]
  <2>1. ASSUME NEW i \in 0..n PROVE f[i] = h[i]
    <3>1. CASE i = 0
      BY <1>3, <3>1 DEF ScanOf
    <3>2. CASE i # 0
      <4>1. i \in 1..n /\ i - 1 \in 0..n
        BY <1>2, <3>2
      <4>2. f[i] = step[<<f[i - 1], seqs[i]>>]
        <5> HIDE DEF step
        <5> QED BY <1>3, <4>1 DEF ScanOf
      <4>3. <<f[i - 1], seqs[i]>> \in D \X D
        BY <1>2, <1>3, <4>1 DEF ScanOf
      <4>4. step[<<f[i - 1], seqs[i]>>] = f[i - 1] \o seqs[i]
        BY <4>3
      <4> QED BY <3>2, <4>2, <4>4
    <3> QED BY <3>1, <3>2
  <2> QED BY <1>3, <2>1 DEF ScanOf
<1>5. Scanned(\o, <<>>, seqs) = at
  BY Zenon DEF Scanned
<1>6. at = [i \in 0..Len(seqs) |-> IF i = 0 THEN <<>> ELSE at[i - 1] \o seqs[i]]
  BY <1>4, Zenon DEF at
<1> HIDE DEF at
<1>7. at[0] = <<>> /\ \A i \in 1..n : at[i] = at[i - 1] \o seqs[i]
  <2>1. 0 \in 0..Len(seqs) /\ \A i \in 1..n : i \in 0..Len(seqs) /\ i # 0
    BY <1>2
  <2>2. at[0] = <<>>
    BY <1>6, <2>1
  <2>3. ASSUME NEW i \in 1..n PROVE at[i] = at[i - 1] \o seqs[i]
    <3>1. i \in 0..Len(seqs) /\ i # 0
      BY <2>1
    <3> QED BY <1>6, <3>1, Zenon
  <2> QED BY <2>2, <2>3
<1>8. 0..n \subseteq {i \in 0..n : at[i] \in D}
  <2> DEFINE S == {i \in 0..n : at[i] \in D}
  <2>1. 0 \in S
    BY <1>0, <1>2, <1>7
  <2>2. ASSUME NEW i \in 1..n, i - 1 \in S PROVE i \in S
    <3>1. at[i] = at[i - 1] \o seqs[i]
      BY <1>7, Zenon
    <3>2. seqs[i] \in D /\ at[i - 1] \in D /\ i \in 0..n
      BY <1>2, <2>2
    <3>3. at[i - 1] \o seqs[i] \in D
      BY <3>2 DEF D
    <3> QED BY <3>1, <3>2, <3>3
  <2> HIDE DEF S
  <2>3. 0..n \subseteq S
    BY <1>2, <2>1, <2>2, EachUpTo
  <2> QED BY <2>3 DEF S
<1> QED BY <1>5, <1>7, <1>8 DEF D

\* Where the elements of lists joined come from, and that they come in the order of the lists.
FromLists(s, seqs, m) ==
  /\ \A k \in 1..m : Range(seqs[k]) \subseteq Range(s)
  /\ \A i \in 1..Len(s) : \E k \in 1..m : s[i] \in Range(seqs[k])
  /\ \A i, j \in 1..Len(s) : i < j => \E k, l \in 1..m : k <= l /\ s[i] \in Range(seqs[k]) /\ s[j] \in Range(seqs[l])

LEMMA JoinedFrom ==
  ASSUME NEW T, NEW seqs \in Seq(Seq(T))
  PROVE  Joined(seqs) \in Seq(T) /\ FromLists(Joined(seqs), seqs, Len(seqs))
<1> DEFINE at == Scanned(\o, <<>>, seqs)
           n == Len(seqs)
           S == {m \in 0..n : FromLists(at[m], seqs, m)}
<1>1. n \in Nat /\ \A i \in 1..n : seqs[i] \in Seq(T)
  OBVIOUS
<1>2. /\ at[0] = <<>> /\ \A i \in 1..n : at[i] = at[i - 1] \o seqs[i]
      /\ \A i \in 0..n : at[i] \in Seq(T)
  BY JoinedAlong
<1> HIDE DEF at, n
<1>3. 0 \in S
  BY <1>1, <1>2 DEF FromLists
<1>4. ASSUME NEW m \in 1..n, m - 1 \in S PROVE m \in S
  <2> DEFINE a == at[m - 1]
             b == seqs[m]
             s == at[m]
             K == Len(a)
  <2>0. m \in 0..n /\ m - 1 \in 0..n
    BY <1>1
  <2>1. a \in Seq(T) /\ b \in Seq(T) /\ s = a \o b /\ m \in 0..n
    <3>1. s = a \o b
      BY <1>2, Zenon
    <3>2. a \in Seq(T) /\ b \in Seq(T)
      BY <1>1, <1>2, <2>0
    <3> QED BY <2>0, <3>1, <3>2
  <2>2. FromLists(a, seqs, m - 1)
    BY <1>4
  <2>3. m \in Nat \ {0} /\ m \in 1..m /\ (\A k \in 1..m : k = m \/ k \in 1..(m - 1)) /\ \A k \in 1..(m - 1) : k \in 1..m /\ k <= m
    BY <1>1
  <2> HIDE DEF a, b, s
  <2>4. /\ K \in Nat /\ Len(s) = K + Len(b) /\ Len(b) \in Nat
        /\ \A i \in 1..Len(s) : (i <= K /\ i \in 1..K /\ s[i] = a[i]) \/ (i > K /\ i - K \in 1..Len(b) /\ s[i] = b[i - K])
    BY <2>1
  <2>5. Range(s) = Range(a) \cup Range(b)
    BY <2>1, StackJoin
  <2>6. \A i \in 1..Len(b) : b[i] \in Range(b)
    BY <2>1 DEF Range
  <2>7. \A k \in 1..m : Range(seqs[k]) \subseteq Range(s)
    BY <2>2, <2>3, <2>5 DEF FromLists, b
  <2>8. \A i \in 1..Len(s) : \E k \in 1..m : s[i] \in Range(seqs[k])
    <3> SUFFICES ASSUME NEW i \in 1..Len(s) PROVE \E k \in 1..m : s[i] \in Range(seqs[k])
      OBVIOUS
    <3>1. CASE i <= K /\ i \in 1..K /\ s[i] = a[i]
      <4>1. PICK k \in 1..(m - 1) : a[i] \in Range(seqs[k])
        BY <2>2, <3>1 DEF FromLists
      <4> QED BY <2>3, <3>1, <4>1
    <3>2. CASE i > K /\ i - K \in 1..Len(b) /\ s[i] = b[i - K]
      BY <2>3, <2>6, <3>2 DEF b
    <3> QED BY <2>4, <3>1, <3>2
  <2>9. ASSUME NEW i \in 1..Len(s), NEW j \in 1..Len(s), i < j
        PROVE  \E k, l \in 1..m : k <= l /\ s[i] \in Range(seqs[k]) /\ s[j] \in Range(seqs[l])
    <3>1. CASE j <= K /\ j \in 1..K /\ s[j] = a[j]
      <4>1. i \in 1..K /\ s[i] = a[i]
        BY <2>4, <2>9, <3>1
      <4>2. PICK k \in 1..(m - 1), l \in 1..(m - 1) : k <= l /\ a[i] \in Range(seqs[k]) /\ a[j] \in Range(seqs[l])
        BY <2>2, <2>9, <3>1, <4>1 DEF FromLists
      <4> QED BY <2>3, <3>1, <4>1, <4>2
    <3>2. CASE j > K /\ j - K \in 1..Len(b) /\ s[j] = b[j - K]
      <4>1. s[j] \in Range(seqs[m])
        BY <2>6, <3>2 DEF b
      <4>2. PICK k \in 1..m : s[i] \in Range(seqs[k])
        BY <2>8
      <4>3. k <= m
        OBVIOUS
      <4> QED BY <2>3, <4>1, <4>2, <4>3
    <3> QED BY <2>4, <3>1, <3>2
  <2>10. FromLists(s, seqs, m)
    BY <2>7, <2>8, <2>9 DEF FromLists
  <2> QED BY <2>1, <2>10 DEF s
<1> HIDE DEF S
<1>5. 0..n \subseteq S
  BY <1>1, <1>3, <1>4, EachUpTo
<1>6. n \in 0..n
  BY <1>1
<1> QED BY <1>2, <1>5, <1>6 DEF S, Joined, at, n

MinOf(a, b) == IF a <= b THEN a ELSE b

LEMMA MinPair ==
  ASSUME NEW a \in Nat, NEW b \in Nat
  PROVE  Min({a, b}) = MinOf(a, b)
<1>1. {a, b} \in SUBSET Nat /\ {a, b} # {}
  OBVIOUS
<1>2. Min({a, b}) \in {a, b} /\ \A m \in {a, b} : Min({a, b}) <= m
  BY <1>1, MinIs
<1> QED BY <1>2 DEF MinOf

\* Batches of a list in order are the list.
LEMMA BatchesJoin ==
  ASSUME NEW T, NEW s \in Seq(T), NEW size \in Nat \ {0}
  PROVE  HardhatBatches(s, size) \in Seq(Seq(T)) /\ Joined(HardhatBatches(s, size)) = s
<1> DEFINE n == Len(s)
           c == Ceiling(n, size)
           B == HardhatBatches(s, size)
           m(i) == MinOf(i * size, n)
<1>1. n \in Nat /\ c \in Nat /\ n <= c * size /\ \A i \in 1..c : (i - 1) * size < n
  <2>1. n \in Nat
    OBVIOUS
  <2> HIDE DEF n
  <2> QED BY <2>1, CeilingIs
<1>2. B = [i \in 1..c |-> SubSeq(s, (i - 1) * size + 1, Min({i * size, n}))]
  BY DEF HardhatBatches
<1> HIDE DEF c, B
<1>3. ASSUME NEW i \in 1..c
      PROVE  /\ i * size = (i - 1) * size + size /\ m(i - 1) = (i - 1) * size /\ (i - 1) * size \in Nat
             /\ m(i) \in Nat /\ (i - 1) * size <= m(i) /\ m(i) <= n
             /\ B[i] \in Seq(T) /\ Len(B[i]) = m(i) - (i - 1) * size
             /\ \A k \in 1..Len(B[i]) : B[i][k] = s[(i - 1) * size + k]
  <2>1. i \in Nat /\ i - 1 \in Nat /\ i * size = (i - 1) * size + size
    BY <1>1
  <2>2. PICK a \in Nat : a = (i - 1) * size
    BY <2>1
  <2>3. PICK b \in Nat : b = i * size
    BY <2>1
  <2>4. b = a + size /\ a < n
    BY <1>1, <2>1, <2>2, <2>3
  <2>5. Min({b, n}) = MinOf(b, n)
    BY <1>1, MinPair
  <2>6. PICK e \in Nat : e = MinOf(b, n) /\ a <= e /\ e <= n
    <3>1. MinOf(b, n) \in Nat /\ a <= MinOf(b, n) /\ MinOf(b, n) <= n
      BY <1>1, <2>4 DEF MinOf
    <3> QED BY <3>1
  <2>7. B[i] = SubSeq(s, a + 1, e)
    BY <1>2, <2>2, <2>3, <2>5, <2>6
  <2>8. \A k \in (a + 1)..e : s[k] \in T
    BY <2>6
  <2>9. SubSeq(s, a + 1, e) \in Seq(T) /\ Len(SubSeq(s, a + 1, e)) = e - a
    <3>1. a + 1 \in Int /\ e \in Int /\ (IF a + 1 <= e THEN e - (a + 1) + 1 ELSE 0) = e - a
      BY <2>6
    <3>2. SubSeq(s, a + 1, e) \in Seq(T)
      BY <2>8, <3>1, SubSeqProperties
    <3>3. Len(SubSeq(s, a + 1, e)) = IF a + 1 <= e THEN e - (a + 1) + 1 ELSE 0
      BY <2>8, <3>1, SubSeqProperties
    <3> QED BY <3>1, <3>2, <3>3
  <2>10. \A k \in 1..(e - a) : SubSeq(s, a + 1, e)[k] = s[a + k]
    <3> SUFFICES ASSUME NEW k \in 1..(e - a) PROVE SubSeq(s, a + 1, e)[k] = s[a + k]
      OBVIOUS
    <3>1. SubSeq(s, a + 1, e) = [j \in 1..(1 + e - (a + 1)) |-> s[(a + 1) + j - 1]]
      BY DEF SubSeq
    <3>2. k \in 1..(1 + e - (a + 1)) /\ (a + 1) + k - 1 = a + k
      OBVIOUS
    <3> QED BY <3>1, <3>2
  <2>11. m(i) = e /\ m(i - 1) = a
    BY <1>1, <2>2, <2>3, <2>4, <2>6 DEF MinOf
  <2> HIDE DEF m
  <2> QED BY <2>1, <2>2, <2>6, <2>7, <2>9, <2>10, <2>11
<1>4. B \in Seq(Seq(T)) /\ Len(B) = c
  <2>1. DOMAIN B = 1..c /\ \A i \in 1..c : B[i] \in Seq(T)
    BY <1>2, <1>3
  <2>2. B = [i \in 1..c |-> B[i]]
    BY <1>2, <2>1
  <2>3. c \in Nat
    BY <1>1
  <2> HIDE DEF B, c
  <2>4. B \in [1..c -> Seq(T)]
    BY <2>1, <2>2
  <2> QED BY <2>1, <2>3, <2>4
<1> DEFINE at == Scanned(\o, <<>>, B)
           S == {i \in 0..c : Len(at[i]) = m(i) /\ \A k \in 1..m(i) : at[i][k] = s[k]}
<1>5. /\ at[0] = <<>> /\ \A i \in 1..c : at[i] = at[i - 1] \o B[i]
      /\ \A i \in 0..c : at[i] \in Seq(T)
  BY <1>4, JoinedAlong
<1>6. Joined(B) = at[c]
  BY <1>4 DEF Joined
<1> HIDE DEF at
<1>7. 0 \in S
  <2>1. m(0) = 0 /\ 0 \in 0..c
    BY <1>1 DEF MinOf
  <2> HIDE DEF m
  <2> QED BY <1>5, <2>1
<1>8. ASSUME NEW i \in 1..c, i - 1 \in S PROVE i \in S
  <2>1. PICK a \in Nat : a = (i - 1) * size
    BY <1>3
  <2>2. PICK e \in Nat : e = m(i) /\ a <= e /\ e <= n
    BY <1>3, <2>1
  <2> DEFINE p == at[i - 1]
             b == B[i]
  <2>3. b \in Seq(T) /\ Len(b) = e - a /\ \A k \in 1..(e - a) : b[k] = s[a + k]
    BY <1>3, <2>1, <2>2
  <2>4. i - 1 \in 0..c /\ i \in 0..c
    BY <1>1
  <2>5. p \in Seq(T) /\ Len(p) = a /\ \A k \in 1..a : p[k] = s[k]
    <3>1. m(i - 1) = a
      BY <1>3, <2>1
    <3> HIDE DEF m
    <3> QED BY <1>5, <1>8, <2>4, <3>1
  <2>6. at[i] = p \o b
    BY <1>5, Zenon
  <2> HIDE DEF p, b
  <2> DEFINE u == p \o b
  <2>7. Len(u) = Len(p) + Len(b) /\ \A k \in 1..(Len(p) + Len(b)) : u[k] = IF k <= Len(p) THEN p[k] ELSE b[k - Len(p)]
    BY <2>3, <2>5, ConcatProperties
  <2> HIDE DEF u
  <2>8. Len(u) = e /\ \A k \in 1..e : u[k] = IF k <= a THEN p[k] ELSE b[k - a]
    <3>1. Len(p) = a /\ Len(p) + Len(b) = e
      BY <2>2, <2>3, <2>5
    <3> QED BY <2>7, <3>1
  <2>9. ASSUME NEW k \in 1..e PROVE u[k] = s[k]
    <3>1. CASE k <= a
      BY <2>5, <2>8, <3>1
    <3>2. CASE k > a
      <4>1. k - a \in 1..(e - a) /\ a + (k - a) = k
        BY <2>2, <3>2
      <4>2. b[k - a] = s[a + (k - a)]
        BY <2>3, <4>1
      <4>3. ~(k <= a)
        BY <2>2, <3>2
      <4> QED BY <2>8, <4>1, <4>2, <4>3
    <3>3. k <= a \/ k > a
      BY <2>2
    <3> QED BY <3>1, <3>2, <3>3
  <2>10. at[i] = u
    BY <2>6 DEF u
  <2> HIDE DEF m
  <2> QED BY <2>2, <2>4, <2>8, <2>9, <2>10
<1>9. 0..c \subseteq S
  <2> HIDE DEF S
  <2> QED BY <1>1, <1>7, <1>8, EachUpTo
<1>10. m(c) = n
  BY <1>1 DEF MinOf
<1>11. Len(at[c]) = n /\ at[c] \in Seq(T) /\ \A k \in 1..n : at[c][k] = s[k]
  <2> HIDE DEF m
  <2>1. c \in 0..c
    BY <1>1
  <2> QED BY <1>5, <1>9, <1>10, <2>1
<1>12. at[c] = s
  <2> DEFINE u == at[c]
  <2>1. u \in Seq(T) /\ Len(u) = n /\ \A k \in 1..n : u[k] = s[k]
    BY <1>11
  <2> HIDE DEF u
  <2>2. u = s
    BY <2>1, SeqEqual
  <2> QED BY <2>2 DEF u
<1> QED BY <1>4, <1>6, <1>12 DEF B

BelowIs(order, present, k) == {t \in present : order[k] \in HardhatTests[t]}

\* Hardhat's plan: what it was decided from.
HardhatSound ==
  plan.kind = "hardhat" =>
    \E order \in Seq(Folders), present \in SUBSET DOMAIN HardhatTests, explicit \in Seq(DOMAIN HardhatTests), size \in Nat \ {0} :
      /\ ~HardhatRefuses(order, present, explicit)
      /\ plan = [kind |-> "hardhat", present |-> present, explicit |-> explicit, order |-> order,
                 batches |-> HardhatBatches(Chosen(order, present, explicit), size)]

LEMMA DiscoveredIs ==
  ASSUME PlansAssumption, NEW order \in Seq(Folders), NEW present \in SUBSET DOMAIN HardhatTests
  PROVE  LET run == Discovered(order, present)
         IN  /\ run \in Seq(present)
             /\ \A i, j \in 1..Len(run) : i < j =>
                  \E k, l \in DOMAIN order : k <= l /\ order[k] \in HardhatTests[run[i]] /\ order[l] \in HardhatTests[run[j]]
<1> DEFINE below(k) == BelowIs(order, present, k)
           seqs == [k \in DOMAIN order |-> Ordered(below(k), ByPath(below(k)))]
           run == Discovered(order, present)
<1>1. run = Joined(seqs)
  BY DEF Discovered, BelowIs
<1>2. present \in SUBSET Int /\ IsFiniteSet(present)
  <2>1. HardhatTests \in Seq(SUBSET UNION Range(HardhatTests))
    BY DEF PlansAssumption
  <2>2. Len(HardhatTests) \in Nat /\ DOMAIN HardhatTests = 1..Len(HardhatTests)
    BY <2>1
  <2>3. IsFiniteSet(1..Len(HardhatTests)) /\ 1..Len(HardhatTests) \in SUBSET Int
    BY <2>2, FS_Interval
  <2> QED BY <2>2, <2>3, FS_Subset
<1>3. Len(order) \in Nat /\ DOMAIN order = 1..Len(order)
  OBVIOUS
<1>4. ASSUME NEW k \in DOMAIN order
      PROVE  seqs[k] \in Seq(present) /\ Range(seqs[k]) \in SUBSET below(k)
  <2>1. below(k) \in SUBSET present
    BY DEF BelowIs
  <2>2. below(k) \in SUBSET Int /\ IsFiniteSet(below(k))
    BY <1>2, <2>1, FS_Subset
  <2>3. TotalOn(below(k), ByPath(below(k)))
    BY <2>2, ByPathTotal
  <2>4. seqs[k] = Ordered(below(k), ByPath(below(k)))
    OBVIOUS
  <2> HIDE DEF below, seqs
  <2>5. seqs[k] \in Seq(below(k))
    BY <2>2, <2>3, <2>4, OrderedIs
  <2> QED BY <2>1, <2>5 DEF Range
<1>5. seqs \in Seq(Seq(present)) /\ Len(seqs) = Len(order)
  BY <1>3, <1>4
<1> HIDE DEF seqs
<1>6. run \in Seq(present) /\ FromLists(run, seqs, Len(order))
  BY <1>1, <1>5, JoinedFrom
<1> HIDE DEF run
<1>7. ASSUME NEW i \in 1..Len(run), NEW j \in 1..Len(run), i < j
      PROVE  \E k, l \in DOMAIN order : k <= l /\ order[k] \in HardhatTests[run[i]] /\ order[l] \in HardhatTests[run[j]]
  <2>1. PICK k \in 1..Len(order), l \in 1..Len(order) : k <= l /\ run[i] \in Range(seqs[k]) /\ run[j] \in Range(seqs[l])
    BY <1>6, <1>7 DEF FromLists
  <2>2. run[i] \in below(k) /\ run[j] \in below(l)
    BY <1>3, <1>4, <2>1
  <2> QED BY <1>3, <2>1, <2>2 DEF BelowIs
<1> QED BY <1>6, <1>7 DEF run

LEMMA HardhatHolds == PlansAssumption /\ HardhatSound => HardhatRunsOnce
<1> SUFFICES ASSUME PlansAssumption, HardhatSound, plan.kind = "hardhat" PROVE HardhatRunsOnce
  BY DEF HardhatRunsOnce
<1>1. PICK order \in Seq(Folders), present \in SUBSET DOMAIN HardhatTests, explicit \in Seq(DOMAIN HardhatTests), size \in Nat \ {0} :
        /\ ~HardhatRefuses(order, present, explicit)
        /\ plan = [kind |-> "hardhat", present |-> present, explicit |-> explicit, order |-> order,
                   batches |-> HardhatBatches(Chosen(order, present, explicit), size)]
  BY DEF HardhatSound
<1> DEFINE run == Chosen(order, present, explicit)
<1>2. plan.present = present /\ plan.explicit = explicit /\ plan.order = order /\ plan.batches = HardhatBatches(run, size)
  BY <1>1
<1>3. Discovered(order, present) \in Seq(present)
  BY DiscoveredIs
<1>4. run \in Seq(DOMAIN HardhatTests)
  BY <1>3 DEF Chosen
<1>5. ~Repeats(run) /\ Undiscovered(order, present) = {} /\ Range(run) \subseteq present
  BY <1>1 DEF HardhatRefuses
<1> HIDE DEF run
<1>6. Joined(plan.batches) = run
  BY <1>2, <1>4, BatchesJoin
<1>7. Cardinality(Range(run)) = Len(run)
  BY <1>5 DEF Repeats
<1>8. explicit # <<>> => run = explicit
  BY DEF run, Chosen
<1>9. explicit = <<>> => run = Discovered(order, present)
  BY DEF run, Chosen
<1>10. explicit = <<>> => Range(run) = present
  BY <1>5, <1>9 DEF Undiscovered
<1>11. explicit = <<>> => \A i, j \in DOMAIN run : i < j =>
         \E k, l \in DOMAIN order : k <= l /\ order[k] \in HardhatTests[run[i]] /\ order[l] \in HardhatTests[run[j]]
  <2>1. DOMAIN run = 1..Len(run)
    BY <1>4
  <2> QED BY <1>9, <2>1, DiscoveredIs
<1> QED BY <1>2, <1>6, <1>7, <1>8, <1>10, <1>11 DEF HardhatRunsOnce

-----------------------------------------------------------------------------
(* Shards filled by weight.                                                  *)

Fillings == [shards : [1..InvariantShards -> SUBSET DOMAIN Catalog], loads : [1..InvariantShards -> Nat]]
Load(S) == Total([p \in S |-> Cost(p)])

LEMMA LightestIs ==
  ASSUME NEW m \in Nat \ {0}, NEW loads \in [1..m -> Nat]
  PROVE  Lightest(loads) \in 1..m /\ \A j \in 1..m : loads[Lightest(loads)] <= loads[j]
<1> DEFINE V == {loads[j] : j \in 1..m}
           L == {i \in DOMAIN loads : \A j \in DOMAIN loads : loads[i] <= loads[j]}
<1>1. V \in SUBSET Nat /\ V # {}
  <2>1. 1 \in 1..m
    OBVIOUS
  <2> QED BY <2>1
<1>2. Min(V) \in V /\ \A v \in V : Min(V) <= v
  BY <1>1, MinIs
<1>3. PICK i \in 1..m : loads[i] = Min(V)
  BY <1>2
<1>4. DOMAIN loads = 1..m
  OBVIOUS
<1>5. \A j \in 1..m : loads[i] <= loads[j]
  BY <1>2, <1>3
<1> HIDE DEF V
<1>6. i \in L
  BY <1>4, <1>5
<1>7. L \in SUBSET Nat /\ L # {}
  <2>1. L \subseteq DOMAIN loads /\ 1..m \subseteq Nat
    OBVIOUS
  <2> HIDE DEF L
  <2> QED BY <1>4, <1>6, <2>1
<1>8. Lightest(loads) = Min(L)
  BY DEF Lightest
<1>9. Lightest(loads) \in L
  <2> HIDE DEF L
  <2> QED BY <1>7, <1>8, MinIs
<1> QED BY <1>4, <1>9

\* What placing one root changes.
LEMMA PlacedForm ==
  ASSUME PlansAssumption, NEW s \in Fillings, NEW p \in DOMAIN Catalog
  PROVE  LET i == Lightest(s.loads)
             t == Placed(s, p)
         IN  /\ i \in 1..InvariantShards /\ \A j \in 1..InvariantShards : s.loads[i] <= s.loads[j]
             /\ t \in Fillings
             /\ t.shards[i] = s.shards[i] \cup {p} /\ t.loads[i] = s.loads[i] + Cost(p)
             /\ \A j \in 1..InvariantShards \ {i} : t.shards[j] = s.shards[j] /\ t.loads[j] = s.loads[j]
<1> DEFINE m == InvariantShards
           i == Lightest(s.loads)
           a == [s.shards EXCEPT ![i] = @ \cup {p}]
           b == [s.loads EXCEPT ![i] = @ + Cost(p)]
<1>1. m \in Nat \ {0} /\ Cost(p) \in Nat
  BY PathsAre DEF PlansAssumption
<1>2. s.shards \in [1..m -> SUBSET DOMAIN Catalog] /\ s.loads \in [1..m -> Nat]
  BY DEF Fillings
<1>3. i \in 1..m /\ \A j \in 1..m : s.loads[i] <= s.loads[j]
  BY <1>1, <1>2, LightestIs
<1>4. Placed(s, p) = [shards |-> a, loads |-> b]
  BY Zenon DEF Placed
<1> HIDE DEF i
<1>5. a \in [1..m -> SUBSET DOMAIN Catalog] /\ a[i] = s.shards[i] \cup {p} /\ \A j \in 1..m \ {i} : a[j] = s.shards[j]
  <2>1. s.shards[i] \cup {p} \in SUBSET DOMAIN Catalog
    BY <1>2, <1>3
  <2> QED BY <1>2, <1>3, <2>1
<1>6. b \in [1..m -> Nat] /\ b[i] = s.loads[i] + Cost(p) /\ \A j \in 1..m \ {i} : b[j] = s.loads[j]
  <2>1. s.loads[i] \in Nat
    BY <1>2, <1>3
  <2>2. PICK x \in Nat, y \in Nat : x = s.loads[i] /\ y = Cost(p)
    BY <1>1, <2>1
  <2>3. x + y \in Nat
    OBVIOUS
  <2>4. s.loads[i] + Cost(p) \in Nat
    BY <2>2, <2>3
  <2> QED BY <1>2, <1>3, <2>4
<1> HIDE DEF a, b
<1>7. Placed(s, p) \in Fillings /\ Placed(s, p).shards = a /\ Placed(s, p).loads = b
  <2>1. a \in [1..InvariantShards -> SUBSET DOMAIN Catalog] /\ b \in [1..InvariantShards -> Nat]
    BY <1>5, <1>6
  <2>2. [shards |-> a, loads |-> b] \in Fillings
    BY <2>1 DEF Fillings
  <2> QED BY <1>4, <2>2
<1>8. /\ Placed(s, p).shards[i] = s.shards[i] \cup {p} /\ Placed(s, p).loads[i] = s.loads[i] + Cost(p)
      /\ \A j \in 1..m \ {i} : Placed(s, p).shards[j] = s.shards[j] /\ Placed(s, p).loads[j] = s.loads[j]
  BY <1>5, <1>6, <1>7
<1> QED BY <1>3, <1>7, <1>8, Zenon DEF i, m

LEMMA PlacedTyped ==
  ASSUME PlansAssumption, NEW s \in Fillings, NEW p \in DOMAIN Catalog
  PROVE  Placed(s, p) \in Fillings
BY PlacedForm

LEMMA LoadGrows ==
  ASSUME PlansAssumption, NEW S \in SUBSET DOMAIN Catalog, NEW p \in DOMAIN Catalog, p \notin S
  PROVE  Load(S) \in Nat /\ Load(S \cup {p}) = Load(S) + Cost(p)
<1> DEFINE f == [q \in S |-> Cost(q)]
           g == [q \in S \cup {p} |-> Cost(q)]
<1>1. IsFiniteSet(S) /\ Cost(p) \in Nat /\ \A q \in S : Cost(q) \in Nat
  BY PathsAre
<1>2. f \in [S -> Nat] /\ DOMAIN f = S /\ DOMAIN g = S \cup {p} /\ g[p] = Cost(p) /\ \A q \in S : g[q] = f[q]
  BY <1>1
<1> HIDE DEF f, g
<1>3. IsFiniteSet(Units(f)) /\ Total(f) \in Nat
  BY <1>1, <1>2, TotalFinite
<1>4. Total(g) = Total(f) + g[p]
  <2>1. p \notin DOMAIN f /\ g[p] \in Nat /\ DOMAIN g = DOMAIN f \cup {p} /\ \A q \in DOMAIN f : g[q] = f[q]
    BY <1>1, <1>2
  <2> QED BY <1>3, <2>1, TotalExtend
<1> QED BY <1>2, <1>3, <1>4 DEF Load, f, g

LEMMA NoneLoaded == Load({}) = 0
<1> DEFINE f == [p \in {} |-> Cost(p)]
<1>1. \A a \in DOMAIN f : f[a] = 0
  OBVIOUS
<1> HIDE DEF f
<1>2. Total(f) = 0
  BY <1>1, TotalOfNone
<1> QED BY <1>2 DEF Load, f

LEMMA HeaviestTotal ==
  ASSUME PlansAssumption, NEW S \in SUBSET DOMAIN Catalog
  PROVE  /\ TotalOn(S, HeaviestFirst(S))
         /\ \A p, q \in S : <<p, q>> \in HeaviestFirst(S) => Cost(p) >= Cost(q)
<1>1. \A p \in S : p \in Int /\ Cost(p) \in Nat
  BY PathsAre
<1>2. \A p, q \in S : <<p, q>> \in HeaviestFirst(S) <=> Cost(p) > Cost(q) \/ (Cost(p) = Cost(q) /\ p <= q)
  BY DEF HeaviestFirst
<1> DEFINE h == HeaviestFirst(S)
<1> HIDE DEF h
<1>3. ASSUME NEW p \in S, NEW q \in S PROVE <<p, q>> \in h \/ <<q, p>> \in h
  <2>1. PICK a \in Nat : Cost(p) = a
    BY <1>1
  <2>2. PICK b \in Nat : Cost(q) = b
    BY <1>1
  <2>3. a > b \/ b > a \/ (a = b /\ (p <= q \/ q <= p))
    BY <1>1
  <2> QED BY <1>2, <2>1, <2>2, <2>3 DEF h
<1>4. ASSUME NEW p \in S, NEW q \in S, <<p, q>> \in h PROVE Cost(p) >= Cost(q)
  <2>1. Cost(p) > Cost(q) \/ (Cost(p) = Cost(q) /\ p <= q)
    BY <1>2, <1>4 DEF h
  <2> QED BY <1>1, <2>1
<1>5. ASSUME NEW p \in S, NEW q \in S, <<p, q>> \in h, <<q, p>> \in h PROVE p = q
  <2>1. /\ Cost(p) > Cost(q) \/ (Cost(p) = Cost(q) /\ p <= q)
        /\ Cost(q) > Cost(p) \/ (Cost(q) = Cost(p) /\ q <= p)
    BY <1>2, <1>5 DEF h
  <2> QED BY <1>1, <2>1
<1>6. ASSUME NEW p \in S, NEW q \in S, NEW r \in S, <<p, q>> \in h, <<q, r>> \in h PROVE <<p, r>> \in h
  <2>1. /\ Cost(p) > Cost(q) \/ (Cost(p) = Cost(q) /\ p <= q)
        /\ Cost(q) > Cost(r) \/ (Cost(q) = Cost(r) /\ q <= r)
    BY <1>2, <1>6 DEF h
  <2>2. Cost(p) > Cost(r) \/ (Cost(p) = Cost(r) /\ p <= r)
    BY <1>1, <2>1
  <2> QED BY <1>2, <2>2 DEF h
<1>7. ASSUME NEW p \in S PROVE <<p, p>> \in h
  BY <1>3
<1>8. TotalOn(S, h)
  BY <1>3, <1>5, <1>6, <1>7, Zenon DEF TotalOn
<1> QED BY <1>4, <1>8 DEF h

LEMMA PlacedAlong ==
  ASSUME PlansAssumption, NEW S \in SUBSET DOMAIN Catalog, NEW roots \in Seq(S)
  PROVE  LET at == Scanned(Placed, NoneFilled, roots)
         IN  /\ at[0] = NoneFilled /\ \A i \in 1..Len(roots) : at[i] = Placed(at[i - 1], roots[i])
             /\ \A i \in 0..Len(roots) : at[i] \in Fillings
<1> DEFINE from == NoneFilled
           step == [p \in Fillings \X S |-> Placed(p[1], p[2])]
           n == Len(roots)
           at[i \in 0..Len(roots)] == IF i = 0 THEN NoneFilled ELSE Placed(at[i - 1], roots[i])
<1>0. from \in Fillings
  BY DEF NoneFilled, Fillings
<1>1. step \in [Fillings \X S -> Fillings]
  BY PlacedTyped
<1>2. n \in Nat /\ \A i \in 1..n : roots[i] \in S
  OBVIOUS
<1>3. PICK f : ScanOf(Fillings, f, from, step, roots)
  <2> HIDE DEF step, from
  <2> QED BY <1>0, <1>1, ScanExists
<1>4. f = [i \in 0..Len(roots) |-> IF i = 0 THEN NoneFilled ELSE Placed(f[i - 1], roots[i])]
  <2> DEFINE h == [i \in 0..Len(roots) |-> IF i = 0 THEN NoneFilled ELSE Placed(f[i - 1], roots[i])]
  <2>1. ASSUME NEW i \in 0..n PROVE f[i] = h[i]
    <3>1. CASE i = 0
      BY <1>3, <3>1 DEF ScanOf
    <3>2. CASE i # 0
      <4>1. i \in 1..n /\ i - 1 \in 0..n
        BY <1>2, <3>2
      <4>2. f[i] = step[<<f[i - 1], roots[i]>>]
        <5> HIDE DEF step
        <5> QED BY <1>3, <4>1 DEF ScanOf
      <4>3. <<f[i - 1], roots[i]>> \in Fillings \X S
        BY <1>2, <1>3, <4>1 DEF ScanOf
      <4>4. step[<<f[i - 1], roots[i]>>] = Placed(f[i - 1], roots[i])
        BY <4>3
      <4> QED BY <3>2, <4>2, <4>4
    <3> QED BY <3>1, <3>2
  <2> QED BY <1>3, <2>1 DEF ScanOf
<1>5. Scanned(Placed, NoneFilled, roots) = at
  BY Zenon DEF Scanned
<1>6. at = [i \in 0..Len(roots) |-> IF i = 0 THEN NoneFilled ELSE Placed(at[i - 1], roots[i])]
  BY <1>4, Zenon DEF at
<1> HIDE DEF at, step
<1>7. at[0] = from /\ \A i \in 1..n : at[i] = Placed(at[i - 1], roots[i])
  <2>1. \A i \in 0..n : at[i] = IF i = 0 THEN NoneFilled ELSE Placed(at[i - 1], roots[i])
    <3> DEFINE h(i) == IF i = 0 THEN NoneFilled ELSE Placed(at[i - 1], roots[i])
    <3>1. at = [i \in 0..n |-> h(i)]
      BY <1>6
    <3> HIDE DEF h
    <3>2. \A i \in 0..n : at[i] = h(i)
      BY <3>1
    <3> QED BY <3>2 DEF h
  <2>2. 0 \in 0..n /\ \A i \in 1..n : i \in 0..n /\ i # 0
    BY <1>2
  <2> QED BY <2>1, <2>2
<1>8. \A i \in 0..n : at[i] \in Fillings
  <2> DEFINE K == {i \in 0..n : at[i] \in Fillings}
  <2> HIDE DEF from
  <2>1. 0 \in K
    BY <1>0, <1>2, <1>7
  <2>2. ASSUME NEW i \in 1..n, i - 1 \in K PROVE i \in K
    <3>1. at[i] = Placed(at[i - 1], roots[i]) /\ roots[i] \in S /\ at[i - 1] \in Fillings /\ i \in 0..n
      BY <1>2, <1>7, <2>2
    <3> QED BY <3>1, PlacedTyped
  <2> HIDE DEF K
  <2>3. 0..n \subseteq K
    BY <1>2, <2>1, <2>2, EachUpTo
  <2> QED BY <2>3 DEF K
<1> QED BY <1>5, <1>7, <1>8
FilledInv(t, roots, k) ==
  /\ UNION {t.shards[i] : i \in 1..InvariantShards} = {roots[j] : j \in 1..k}
  /\ \A i, j \in 1..InvariantShards : i # j => t.shards[i] \cap t.shards[j] = {}
  /\ \A i \in 1..InvariantShards : t.loads[i] = Load(t.shards[i])
  /\ \A i, j \in 1..InvariantShards : \A p \in t.shards[i] : t.loads[i] - Cost(p) <= t.loads[j]

\* The lightest shard gets a root no heavier than its own: what it has beyond any of them stays below
\* every shard.
LEMMA FilledStep ==
  ASSUME PlansAssumption, NEW roots, NEW k \in Nat, NEW s \in Fillings, FilledInv(s, roots, k),
         roots[k + 1] \in DOMAIN Catalog,
         \A j \in 1..k : roots[j] # roots[k + 1] /\ Cost(roots[j]) >= Cost(roots[k + 1])
  PROVE  FilledInv(Placed(s, roots[k + 1]), roots, k + 1)
<1> DEFINE m == InvariantShards
           p == roots[k + 1]
           t == Placed(s, p)
           h == Lightest(s.loads)
<1>1. /\ h \in 1..m /\ \A j \in 1..m : s.loads[h] <= s.loads[j]
      /\ t \in Fillings
      /\ t.shards[h] = s.shards[h] \cup {p} /\ t.loads[h] = s.loads[h] + Cost(p)
      /\ \A j \in 1..m \ {h} : t.shards[j] = s.shards[j] /\ t.loads[j] = s.loads[j]
  BY PlacedForm
<1>2. /\ s.shards \in [1..m -> SUBSET DOMAIN Catalog] /\ s.loads \in [1..m -> Nat]
      /\ t.shards \in [1..m -> SUBSET DOMAIN Catalog] /\ t.loads \in [1..m -> Nat]
  BY <1>1 DEF Fillings
<1>3. \A q \in DOMAIN Catalog : Cost(q) \in Nat
  BY PathsAre
<1>4. p \in DOMAIN Catalog /\ Cost(p) \in Nat
  BY <1>3
<1> HIDE DEF t, h
<1>5. /\ UNION {s.shards[i] : i \in 1..m} = {roots[j] : j \in 1..k}
      /\ \A i, j \in 1..m : i # j => s.shards[i] \cap s.shards[j] = {}
      /\ \A i \in 1..m : s.loads[i] = Load(s.shards[i])
      /\ \A i, j \in 1..m : \A q \in s.shards[i] : s.loads[i] - Cost(q) <= s.loads[j]
  BY DEF FilledInv
<1>6. \A i \in 1..m : \A q \in s.shards[i] : q # p /\ Cost(q) >= Cost(p) /\ q \in DOMAIN Catalog
  <2> TAKE i \in 1..m
  <2> TAKE q \in s.shards[i]
  <2>2. PICK j \in 1..k : q = roots[j]
    BY <1>5
  <2> QED BY <1>2, <2>2
<1> HIDE DEF m
<1>7. UNION {t.shards[i] : i \in 1..m} = {roots[j] : j \in 1..(k + 1)}
  <2> DEFINE U == UNION {s.shards[i] : i \in 1..m}
             V == UNION {t.shards[i] : i \in 1..m}
             A == {roots[j] : j \in 1..k}
             B == {roots[j] : j \in 1..(k + 1)}
  <2>1. \A q : q \in U <=> \E i \in 1..m : q \in s.shards[i]
    OBVIOUS
  <2>2. \A q : q \in V <=> \E i \in 1..m : q \in t.shards[i]
    OBVIOUS
  <2>3. \A i \in 1..m : \A q : q \in t.shards[i] <=> q \in s.shards[i] \/ (i = h /\ q = p)
    BY <1>1
  <2>4. B = A \cup {p}
    <3>1. 1..(k + 1) = 1..k \cup {k + 1}
      OBVIOUS
    <3> QED BY <3>1
  <2>5. U = A
    BY <1>5
  <2> HIDE DEF U, V, A, B, p
  <2>6. \A q : q \in V <=> q \in U \/ q = p
    BY <1>1, <2>1, <2>2, <2>3
  <2>7. V = B
    BY <2>4, <2>5, <2>6
  <2> QED BY <2>7 DEF V, B
<1> HIDE DEF p
<1>8. ASSUME NEW i \in 1..m, NEW j \in 1..m, i # j PROVE t.shards[i] \cap t.shards[j] = {}
  BY <1>1, <1>5, <1>6, <1>8
<1>9. ASSUME NEW i \in 1..m PROVE t.loads[i] = Load(t.shards[i])
  <2>1. CASE i = h
    <3>1. s.shards[h] \in SUBSET DOMAIN Catalog /\ p \notin s.shards[h] /\ s.loads[h] = Load(s.shards[h])
      BY <1>1, <1>2, <1>5, <1>6
    <3>2. Load(s.shards[h] \cup {p}) = Load(s.shards[h]) + Cost(p)
      BY <1>4, <3>1, LoadGrows
    <3> QED BY <1>1, <2>1, <3>1, <3>2
  <2>2. CASE i # h
    BY <1>1, <1>5, <2>2
  <2> QED BY <2>1, <2>2
<1>10. ASSUME NEW i \in 1..m, NEW j \in 1..m, NEW q \in t.shards[i] PROVE t.loads[i] - Cost(q) <= t.loads[j]
  <2>1. s.loads[j] \in Nat /\ s.loads[i] \in Nat /\ s.loads[h] \in Nat /\ t.loads[j] \in Nat /\ s.loads[h] <= s.loads[j]
    BY <1>1, <1>2
  <2>2. s.loads[j] <= t.loads[j]
    <3>1. CASE j = h
      BY <1>1, <1>4, <2>1, <3>1
    <3>2. CASE j # h
      <4>1. t.loads[j] = s.loads[j]
        BY <1>1, <3>2
      <4> QED BY <2>1, <4>1
    <3> QED BY <3>1, <3>2
  <2>3. CASE i # h
    <3>1. q \in s.shards[i] /\ t.loads[i] = s.loads[i] /\ Cost(q) \in Nat
      BY <1>1, <1>3, <1>6, <2>3
    <3>2. s.loads[i] - Cost(q) <= s.loads[j]
      BY <1>5, <3>1
    <3>3. \A a, b, c, d \in Nat : a - b <= c /\ c <= d => a - b <= d
      OBVIOUS
    <3> QED BY <2>1, <2>2, <3>1, <3>2, <3>3
  <2>4. CASE i = h
    <3>1. t.loads[i] = s.loads[h] + Cost(p)
      BY <1>1, <2>4
    <3>2. Cost(q) \in Nat /\ Cost(q) >= Cost(p)
      <4>1. CASE q = p
        BY <1>4, <4>1
      <4>2. CASE q # p
        <5>1. q \in s.shards[h]
          BY <1>1, <2>4, <4>2
        <5> QED BY <1>1, <1>3, <1>6, <5>1
      <4> QED BY <4>1, <4>2
    <3>3. \A a, b, c, d, e \in Nat : a >= b /\ c <= d /\ d <= e => (c + b) - a <= e
      OBVIOUS
    <3> QED BY <1>4, <2>1, <2>2, <3>1, <3>2, <3>3
  <2> QED BY <2>3, <2>4
<1>11. FilledInv(t, roots, k + 1)
  BY <1>7, <1>8, <1>9, <1>10 DEF FilledInv, m
<1> QED BY <1>11 DEF t, p

\* What Filled returns: the roots in as many shards, none outweighing another by more than its cheapest.
LEMMA FilledIs ==
  ASSUME PlansAssumption, NEW files \in SUBSET DOMAIN Catalog
  PROVE  LET roots == Tests(Invariants(files))
             t == Filled(files)
         IN  /\ t \in Fillings
             /\ UNION {t.shards[i] : i \in 1..InvariantShards} = roots
             /\ \A i, j \in 1..InvariantShards : i # j => t.shards[i] \cap t.shards[j] = {}
             /\ \A i, j \in 1..InvariantShards : \A p \in t.shards[i] : Load(t.shards[i]) - Cost(p) <= Load(t.shards[j])
<1> DEFINE R == Tests(Invariants(files))
           h == HeaviestFirst(R)
           s == Ordered(R, h)
           n == Cardinality(R)
           at == Scanned(Placed, NoneFilled, s)
           S == {i \in 0..n : FilledInv(at[i], s, i)}
<1>1. R \in SUBSET DOMAIN Catalog
  BY DEF Tests, Invariants
<1>2. IsFiniteSet(R) /\ TotalOn(R, h) /\ \A p, q \in R : <<p, q>> \in h => Cost(p) >= Cost(q)
  BY <1>1, PathsAre, HeaviestTotal
<1>3. /\ n \in Nat /\ Len(s) = n /\ s \in Seq(R)
      /\ \A p \in R : Rank(R, h, p) \in 1..n /\ s[Rank(R, h, p)] = p
      /\ \A j \in 1..n : s[j] \in R /\ Rank(R, h, s[j]) = j
      /\ \A p, q \in R : p # q /\ <<p, q>> \in h => Rank(R, h, p) < Rank(R, h, q)
  <2> HIDE DEF R, h
  <2> QED BY <1>2, OrderedIs, RankIs
<1>4. Filled(files) = at[n]
  BY DEF Filled
<1>5. /\ at[0] = NoneFilled /\ \A i \in 1..n : at[i] = Placed(at[i - 1], s[i])
      /\ \A i \in 0..n : at[i] \in Fillings
  <2> HIDE DEF R, s
  <2>1. s \in Seq(R) /\ Len(s) = n
    BY <1>3
  <2> QED BY <1>1, <2>1, PlacedAlong
<1> HIDE DEF at, n, s, R, h
<1>6. 0 \in S
  <2>1. at[0] = NoneFilled /\ NoneFilled \in Fillings
    BY <1>3, <1>5
  <2>2. \A i \in 1..InvariantShards : NoneFilled.shards[i] = {} /\ NoneFilled.loads[i] = 0
    BY DEF NoneFilled
  <2>3. {s[j] : j \in 1..0} = {}
    OBVIOUS
  <2>4. FilledInv(NoneFilled, s, 0)
    BY <2>2, <2>3, NoneLoaded DEF FilledInv
  <2> QED BY <1>3, <2>1, <2>4
<1>7. ASSUME NEW i \in 1..n, i - 1 \in S PROVE i \in S
  <2> DEFINE k == i - 1
  <2>1. k \in Nat /\ k + 1 = i /\ i \in 0..n /\ k \in 0..n /\ 1..k \subseteq 1..n
    BY <1>3
  <2>2. FilledInv(at[k], s, k) /\ at[k] \in Fillings /\ at[i] = Placed(at[k], s[i])
    BY <1>5, <1>7, <2>1
  <2> HIDE DEF k
  <2>3. ASSUME NEW j \in 1..k PROVE s[j] # s[k + 1] /\ Cost(s[j]) >= Cost(s[k + 1])
    <3>1. j \in 1..n /\ j < i /\ s[j] \in R /\ s[i] \in R /\ Rank(R, h, s[j]) = j /\ Rank(R, h, s[i]) = i
      BY <1>3, <2>1, <2>3
    <3>2. s[j] # s[i]
      BY <3>1
    <3>3. ~(<<s[i], s[j]>> \in h)
      BY <1>3, <3>1, <3>2
    <3>4. <<s[j], s[i]>> \in h
      BY <1>2, <3>1, <3>3 DEF TotalOn
    <3> QED BY <1>2, <2>1, <3>1, <3>2, <3>4
  <2>4. s[k + 1] \in DOMAIN Catalog
    BY <1>1, <1>3, <2>1
  <2>5. FilledInv(Placed(at[k], s[k + 1]), s, k + 1)
    BY <2>1, <2>2, <2>3, <2>4, FilledStep
  <2> QED BY <2>1, <2>2, <2>5
<1> HIDE DEF S
<1>8. 0..n \subseteq S
  BY <1>3, <1>6, <1>7, EachUpTo
<1> DEFINE t == Filled(files)
<1>9. t \in Fillings /\ FilledInv(t, s, n)
  <2>1. n \in 0..n
    BY <1>3
  <2> QED BY <1>4, <1>5, <1>8, <2>1 DEF S
<1> HIDE DEF t
<1>10. {s[j] : j \in 1..n} = R
  BY <1>3
<1>11. /\ UNION {t.shards[i] : i \in 1..InvariantShards} = R
       /\ \A i, j \in 1..InvariantShards : i # j => t.shards[i] \cap t.shards[j] = {}
       /\ \A i \in 1..InvariantShards : t.loads[i] = Load(t.shards[i])
       /\ \A i, j \in 1..InvariantShards : \A p \in t.shards[i] : t.loads[i] - Cost(p) <= t.loads[j]
  BY <1>9, <1>10 DEF FilledInv
<1>12. \A i, j \in 1..InvariantShards : \A p \in t.shards[i] : Load(t.shards[i]) - Cost(p) <= Load(t.shards[j])
  <2> TAKE i \in 1..InvariantShards, j \in 1..InvariantShards
  <2> TAKE p \in t.shards[i]
  <2>1. Load(t.shards[i]) = t.loads[i] /\ Load(t.shards[j]) = t.loads[j] /\ t.loads[i] - Cost(p) <= t.loads[j]
    BY <1>11
  <2> QED BY <2>1
<1> QED BY <1>9, <1>11, <1>12 DEF t, R

\* The groups' names, and what each holds.
LEMMA GroupForms ==
  ASSUME NEW files
  PROVE  /\ Group(files, <<"integration-gas", 0>>) = Integration(files)
         /\ Group(files, <<"invariants", 0>>) = Invariants(files)
         /\ Group(files, <<"repro-symbolic", 0>>) = {p \in files : Dir(p) = "repro" \/ (Dir(p) = "unit" /\ IsTest(p))}
         /\ Group(files, <<"census", 0>>) = {p \in files : Dir(p) = "census" /\ IsTest(p)}
         /\ Group(files, <<"fork", 0>>) = {p \in files : IsFork(p)}
         /\ \A i \in Int : Group(files, <<"fuzz", i>>) = FuzzChunk(files, i)
         /\ \A i \in Nat \ {0} : Group(files, <<"invariants", i>>) = Filled(files).shards[i]
         /\ \A i \in Nat \ {0} : Group(files, <<"integration-gas", i>>) = IntegrationShard(files, i)
<1>1. Group(files, <<"integration-gas", 0>>) = Integration(files)
  BY DEF Group
<1>2. Group(files, <<"invariants", 0>>) = Invariants(files)
  BY DEF Group
<1>3. Group(files, <<"repro-symbolic", 0>>) = {p \in files : Dir(p) = "repro" \/ (Dir(p) = "unit" /\ IsTest(p))}
  BY DEF Group
<1>4. Group(files, <<"census", 0>>) = {p \in files : Dir(p) = "census" /\ IsTest(p)}
  BY DEF Group
<1>5. Group(files, <<"fork", 0>>) = {p \in files : IsFork(p)}
  BY DEF Group
<1>6. ASSUME NEW i \in Int PROVE Group(files, <<"fuzz", i>>) = FuzzChunk(files, i)
  BY DEF Group
<1>7. ASSUME NEW i \in Nat \ {0} PROVE Group(files, <<"invariants", i>>) = Filled(files).shards[i]
  BY DEF Group
<1>8. ASSUME NEW i \in Nat \ {0} PROVE Group(files, <<"integration-gas", i>>) = IntegrationShard(files, i)
  BY DEF Group
<1> QED BY <1>1, <1>2, <1>3, <1>4, <1>5, <1>6, <1>7, <1>8

LEMMA IntegrationSharded ==
  ASSUME PlansAssumption, NEW files \in SUBSET DOMAIN Catalog
  PROVE  /\ \A i \in Int : IntegrationShard(files, i) \in SUBSET Tests(Integration(files))
         /\ UNION {IntegrationShard(files, i) : i \in 1..IntegrationShards} = Tests(Integration(files))
         /\ \A i, j \in Int : i # j => IntegrationShard(files, i) \cap IntegrationShard(files, j) = {}
<1> DEFINE R == Tests(Integration(files))
           n == Cardinality(R)
           d == IntegrationShards
           size == Ceiling(n, d)
           part(i) == Slice(R, i, size)
<1>1. R \in SUBSET DOMAIN Catalog
  BY DEF Tests, Integration
<1>2. R \in SUBSET Int /\ IsFiniteSet(R) /\ n \in Nat /\ d \in Nat \ {0}
  BY <1>1, PathsAre DEF PlansAssumption
<1>3. \A i : IntegrationShard(files, i) = part(i)
  BY DEF IntegrationShard
<1> HIDE DEF R
<1>4. size \in Nat /\ n <= size * d /\ (n > 0 => size > 0)
  <2> HIDE DEF n, d
  <2> QED BY <1>2, CeilingIs
<1>5. /\ \A i \in Int : part(i) \in SUBSET R
      /\ UNION {part(i) : i \in 1..d} = R
      /\ \A i, j \in Int : i # j => part(i) \cap part(j) = {}
  <2>1. CASE n = 0
    <3>1. R = {}
      BY <1>2, <2>1, FS_EmptySet
    <3>2. \A i : part(i) = {}
      BY <3>1 DEF Slice
    <3> HIDE DEF part
    <3> QED BY <3>1, <3>2
  <2>2. CASE n # 0
    <3>1. size \in Nat \ {0} /\ n <= d * size /\ d \in Nat
      <4> HIDE DEF size, n, d
      <4> QED BY <1>2, <1>4, <2>2
    <3> HIDE DEF size, d
    <3>2. /\ \A i \in Int : part(i) \in SUBSET R
          /\ \A i, j \in Int : i # j => part(i) \cap part(j) = {}
      BY <1>2, <3>1, SliceIs
    <3>3. UNION {part(i) : i \in 1..d} = R
      BY <1>2, <3>1, SliceIs
    <3> HIDE DEF part
    <3> QED BY <3>2, <3>3
  <2> QED BY <2>1, <2>2
<1> HIDE DEF part, d
<1>6. UNION {IntegrationShard(files, i) : i \in 1..d} = R
  BY <1>3, <1>5
<1> QED BY <1>3, <1>5, <1>6 DEF R, d

ShardsSound == plan.kind = "files" => plan.files \in SUBSET DOMAIN Catalog

LEMMA ShardsHold == PlansAssumption /\ ShardsSound => ShardsReplaceGroups
<1> SUFFICES ASSUME PlansAssumption, ShardsSound, plan.kind = "files" PROVE ShardsReplaceGroups
  BY DEF ShardsReplaceGroups
<1> DEFINE files == plan.files
           g(name) == Group(files, name)
           of(n) == {name \in ShardNames : name[1] = n}
           load(i) == Total([p \in g(<<"invariants", i>>) |-> Cost(p)])
<1>1. files \in SUBSET DOMAIN Catalog /\ InvariantShards \in Nat /\ IntegrationShards \in Nat
  BY DEF ShardsSound, PlansAssumption
<1> HIDE DEF files
<1>2. /\ of("invariants") = {<<"invariants", i>> : i \in 1..InvariantShards}
      /\ of("integration-gas") = {<<"integration-gas", i>> : i \in 1..IntegrationShards}
  BY DEF ShardNames
<1>3. /\ \A i \in 1..InvariantShards : g(<<"invariants", i>>) = Filled(files).shards[i]
      /\ \A i \in 1..IntegrationShards : g(<<"integration-gas", i>>) = IntegrationShard(files, i)
      /\ g(<<"invariants", 0>>) = Invariants(files) /\ g(<<"integration-gas", 0>>) = Integration(files)
  <2>1. \A i \in Nat \ {0} : g(<<"invariants", i>>) = Filled(files).shards[i]
    BY GroupForms, Zenon
  <2>2. \A i \in Nat \ {0} : g(<<"integration-gas", i>>) = IntegrationShard(files, i)
    BY GroupForms, Zenon
  <2>3. g(<<"invariants", 0>>) = Invariants(files) /\ g(<<"integration-gas", 0>>) = Integration(files)
    BY GroupForms, Zenon
  <2>4. 1..InvariantShards \subseteq Nat \ {0} /\ 1..IntegrationShards \subseteq Nat \ {0}
    BY <1>1
  <2> HIDE DEF g
  <2> QED BY <2>1, <2>2, <2>3, <2>4, Zenon
<1>4. /\ UNION {Filled(files).shards[i] : i \in 1..InvariantShards} = Tests(Invariants(files))
      /\ \A i, j \in 1..InvariantShards : i # j => Filled(files).shards[i] \cap Filled(files).shards[j] = {}
      /\ \A i, j \in 1..InvariantShards : \A p \in Filled(files).shards[i] :
           Load(Filled(files).shards[i]) - Cost(p) <= Load(Filled(files).shards[j])
  BY <1>1, FilledIs
<1>5. /\ UNION {IntegrationShard(files, i) : i \in 1..IntegrationShards} = Tests(Integration(files))
      /\ \A i, j \in 1..IntegrationShards : i # j => IntegrationShard(files, i) \cap IntegrationShard(files, j) = {}
  BY <1>1, IntegrationSharded
<1> HIDE DEF g
<1>6. /\ UNION {g(name) : name \in of("invariants")} = Tests(g(<<"invariants", 0>>))
      /\ \A a, b \in of("invariants") : a # b => g(a) \cap g(b) = {}
  <2>1. \A x : x \in UNION {g(name) : name \in of("invariants")} <=> x \in UNION {Filled(files).shards[i] : i \in 1..InvariantShards}
    <3> HIDE DEF of
    <3> QED BY <1>2, <1>3
  <2> HIDE DEF of
  <2>2. \A a, b \in of("invariants") : a # b => g(a) \cap g(b) = {}
    <3> TAKE a \in of("invariants"), b \in of("invariants")
    <3>1. PICK i \in 1..InvariantShards : a = <<"invariants", i>>
      BY <1>2
    <3>2. PICK j \in 1..InvariantShards : b = <<"invariants", j>>
      BY <1>2
    <3>3. g(a) = Filled(files).shards[i] /\ g(b) = Filled(files).shards[j]
      BY <1>3, <3>1, <3>2
    <3> QED BY <1>4, <3>1, <3>2, <3>3
  <2>3. UNION {g(name) : name \in of("invariants")} = UNION {Filled(files).shards[i] : i \in 1..InvariantShards}
    <3> DEFINE U == UNION {g(name) : name \in of("invariants")}
               V == UNION {Filled(files).shards[i] : i \in 1..InvariantShards}
    <3>1. \A x : x \in U <=> x \in V
      BY <2>1
    <3> HIDE DEF U, V
    <3>2. U = V
      BY <3>1
    <3> QED BY <3>2 DEF U, V
  <2> QED BY <1>3, <1>4, <2>2, <2>3
<1>7. /\ UNION {g(name) : name \in of("integration-gas")} = Tests(g(<<"integration-gas", 0>>))
      /\ \A a, b \in of("integration-gas") : a # b => g(a) \cap g(b) = {}
  <2>1. \A x : x \in UNION {g(name) : name \in of("integration-gas")} <=> x \in UNION {IntegrationShard(files, i) : i \in 1..IntegrationShards}
    <3> HIDE DEF of
    <3> QED BY <1>2, <1>3
  <2> HIDE DEF of
  <2>2. \A a, b \in of("integration-gas") : a # b => g(a) \cap g(b) = {}
    BY <1>2, <1>3, <1>5
  <2>3. UNION {g(name) : name \in of("integration-gas")} = UNION {IntegrationShard(files, i) : i \in 1..IntegrationShards}
    <3> DEFINE U == UNION {g(name) : name \in of("integration-gas")}
               V == UNION {IntegrationShard(files, i) : i \in 1..IntegrationShards}
    <3>1. \A x : x \in U <=> x \in V
      BY <2>1
    <3> HIDE DEF U, V
    <3>2. U = V
      BY <3>1
    <3> QED BY <3>2 DEF U, V
  <2> QED BY <1>3, <1>5, <2>2, <2>3
<1>8. ASSUME NEW i \in 1..InvariantShards, NEW j \in 1..InvariantShards, NEW p \in g(<<"invariants", i>>)
      PROVE  load(i) - Cost(p) <= load(j)
  <2>1. load(i) = Load(Filled(files).shards[i]) /\ load(j) = Load(Filled(files).shards[j])
    BY <1>3 DEF Load
  <2>2. p \in Filled(files).shards[i]
    BY <1>3
  <2> HIDE DEF load
  <2> QED BY <1>4, <2>1, <2>2
<1> HIDE DEF of, load
<1>9. \A n \in {"invariants", "integration-gas"} :
        /\ UNION {g(name) : name \in of(n)} = Tests(g(<<n, 0>>))
        /\ \A a, b \in of(n) : a # b => g(a) \cap g(b) = {}
  BY <1>6, <1>7
<1> QED BY <1>8, <1>9, Zenon DEF ShardsReplaceGroups, g, of, load, files

-----------------------------------------------------------------------------
(* The Foundry runner's selection and batches.                               *)

Uniform(S) == \A p, q \in S : SourceIsolation(p) = SourceIsolation(q)

\* A group's batches: what they hold, and that they split the group's sources.
SplitWell(name, S, args, B) ==
  /\ \A b \in B : /\ b.group = name /\ b.keep \subseteq S /\ b.keep # {} /\ (args.auto => Uniform(b.keep))
                  /\ Cardinality(b.keep) <= Cap(name, args.maximum, S)
  /\ \A p \in S : \E b \in B : p \in b.keep
  /\ \A a, b \in B : a # b => a.keep \cap b.keep = {}

LEMMA PartitionsAre ==
  ASSUME NEW sources, NEW automatic \in BOOLEAN
  PROVE  LET P == Partitions(sources, automatic)
         IN  /\ DOMAIN P \subseteq Nat
             /\ \A k \in DOMAIN P : P[k] \subseteq sources /\ (automatic => Uniform(P[k]))
             /\ \A k, l \in DOMAIN P : k # l => P[k] \cap P[l] = {}
             /\ \A p \in sources : \E k \in DOMAIN P : p \in P[k]
<1> DEFINE a == {p \in sources : ~SourceIsolation(p)}
           b == {p \in sources : SourceIsolation(p)}
           P == Partitions(sources, automatic)
<1>0. \A p \in sources : SourceIsolation(p) \in BOOLEAN
  BY DEF SourceIsolation
<1>1. CASE automatic
  <2>1. P = <<a, b>>
    BY <1>1 DEF Partitions
  <2>2. a \subseteq sources /\ b \subseteq sources /\ a \cap b = {} /\ \A p \in sources : p \in a \/ p \in b
    OBVIOUS
  <2>3. Uniform(a) /\ Uniform(b)
    <3>1. (\A p \in a : SourceIsolation(p) = FALSE) /\ (\A p \in b : SourceIsolation(p) = TRUE)
      BY <1>0
    <3> HIDE DEF a, b
    <3> QED BY <3>1 DEF Uniform
  <2> HIDE DEF a, b
  <2>4. DOMAIN P = {1, 2} /\ P[1] = a /\ P[2] = b
    BY <2>1
  <2> HIDE DEF P
  <2>5. \A k \in DOMAIN P : P[k] \subseteq sources /\ Uniform(P[k])
    BY <2>2, <2>3, <2>4
  <2>6. \A k, l \in DOMAIN P : k # l => P[k] \cap P[l] = {}
    BY <2>2, <2>4
  <2>7. \A p \in sources : \E k \in DOMAIN P : p \in P[k]
    BY <2>2, <2>4
  <2>8. DOMAIN P \subseteq Nat
    BY <2>4
  <2> QED BY <2>5, <2>6, <2>7, <2>8 DEF P
<1>2. CASE ~automatic
  <2>1. P = <<sources>>
    BY <1>2 DEF Partitions
  <2>2. DOMAIN P = {1} /\ P[1] = sources
    BY <2>1
  <2> HIDE DEF P
  <2> QED BY <1>2, <2>2 DEF P
<1> QED BY <1>1, <1>2

LEMMA CapIs ==
  ASSUME PlansAssumption, NEW name, NEW maximum \in Nat, NEW S \in SUBSET DOMAIN Catalog, S # {}
  PROVE  /\ Cap(name, maximum, S) \in Nat \ {0}
         /\ maximum > 0 => Cap(name, maximum, S) = maximum
         /\ maximum = 0 /\ name[1] = "integration-gas" => Cap(name, maximum, S) = DefaultCap
<1>1. IsFiniteSet(S) /\ Cardinality(S) \in Nat /\ DefaultCap \in Nat \ {0}
  BY PathsAre DEF PlansAssumption
<1>2. Cardinality(S) # 0
  BY <1>1, FS_EmptySet
<1> QED BY <1>1, <1>2 DEF Cap

LEMMA ArgumentsAre ==
  ASSUME NEW args \in Arguments
  PROVE  /\ args.maximum \in Nat /\ args.auto \in BOOLEAN /\ args.file \subseteq DOMAIN Catalog
         /\ args.group = {} \/ (args.file = {} /\ \E g \in GroupNames : args.group = {g})
<1>1. CASE \E pr \in {"eip170", "glamsterdam"}, m \in {0, 1, 2}, a \in BOOLEAN :
             args = WholeTreeRun(pr, m, a)
  <2>1. PICK pr \in {"eip170", "glamsterdam"}, m \in {0, 1, 2}, a \in BOOLEAN :
               args = WholeTreeRun(pr, m, a)
    BY <1>1
  <2>2. args.maximum = m /\ args.auto = a /\ args.file = {} /\ args.group = {}
    BY <2>1 DEF FullTree, WholeTreeRun
  <2> QED BY <2>2
<1>2. CASE \E g \in GroupNames : args = [FullTree EXCEPT !.group = {g}]
  <2>1. PICK g \in GroupNames : args = [FullTree EXCEPT !.group = {g}]
    BY <1>2
  <2>2. args.maximum = 0 /\ args.auto \in BOOLEAN /\ args.file = {} /\ args.group = {g}
    BY <2>1 DEF FullTree
  <2> QED BY <2>2
<1>3. CASE \E p, q \in DOMAIN Catalog : args = [FullTree EXCEPT !.file = {p, q}]
  <2>1. PICK p \in DOMAIN Catalog, q \in DOMAIN Catalog : args = [FullTree EXCEPT !.file = {p, q}]
    BY <1>3
  <2>2. args.maximum = 0 /\ args.auto \in BOOLEAN /\ args.file = {p, q} /\ args.group = {}
    BY <2>1 DEF FullTree
  <2> QED BY <2>2
<1>4. args \in WholeTreeRuns \/ args \in GroupRuns \/ args \in FileRuns
  BY DEF Arguments
<1>5. CASE args \in WholeTreeRuns
  <2>1. \E pr \in {"eip170", "glamsterdam"}, m \in {0, 1, 2}, a \in BOOLEAN : args = WholeTreeRun(pr, m, a)
    BY <1>5 DEF WholeTreeRuns
  <2> QED BY <1>1, <2>1
<1>6. CASE args \in GroupRuns
  BY <1>2, <1>6, Zenon DEF GroupRuns
<1>7. CASE args \in FileRuns
  <2> DEFINE pair(p, q) == [FullTree EXCEPT !.file = {p, q}]
  <2>1. args \in {pair(p, q) : p \in DOMAIN Catalog, q \in DOMAIN Catalog}
    BY <1>7 DEF FileRuns
  <2> HIDE DEF pair
  <2>2. \E p, q \in DOMAIN Catalog : args = pair(p, q)
    BY <2>1
  <2> QED BY <1>3, <2>2 DEF pair
<1> QED BY <1>4, <1>5, <1>6, <1>7

\* A group's batches are a partition of its sources into pieces of the size allowed, each of one mode.
LEMMA GroupSplit ==
  ASSUME PlansAssumption, NEW name, NEW S \in SUBSET DOMAIN Catalog, S # {},
         NEW args \in Arguments
  PROVE  SplitWell(name, S, args, SplitGroup(name, S, args))
<1> DEFINE P == Partitions(S, args.auto)
           cap == Cap(name, args.maximum, S)
           count(k) == Ceiling(Cardinality(P[k]), cap)
           keep(k, i) == Slice(P[k], i, cap)
           piece(k, i) == [group |-> name, part |-> k, number |-> i, keep |-> keep(k, i)]
           B == SplitGroup(name, S, args)
<1>0. args.maximum \in Nat /\ args.auto \in BOOLEAN
  BY ArgumentsAre
<1>1. cap \in Nat \ {0}
  BY <1>0, CapIs
<1>2. /\ DOMAIN P \subseteq Nat
      /\ \A k \in DOMAIN P : P[k] \subseteq S /\ (args.auto => Uniform(P[k]))
      /\ \A k, l \in DOMAIN P : k # l => P[k] \cap P[l] = {}
      /\ \A p \in S : \E k \in DOMAIN P : p \in P[k]
  BY <1>0, PartitionsAre
<1>3. B = UNION {{piece(k, i) : i \in 1..count(k)} : k \in DOMAIN P}
  BY Zenon DEF SplitGroup
<1> HIDE DEF cap, P
<1>4. ASSUME NEW k \in DOMAIN P
      PROVE  /\ count(k) \in Nat
             /\ \A i \in 1..count(k) : keep(k, i) \subseteq P[k] /\ keep(k, i) # {} /\ Cardinality(keep(k, i)) <= cap
             /\ \A i, j \in 1..count(k) : i # j => keep(k, i) \cap keep(k, j) = {}
             /\ \A p \in P[k] : \E i \in 1..count(k) : p \in keep(k, i)
  <2> DEFINE R == P[k]
             n == Cardinality(R)
             c == Ceiling(n, cap)
  <2>1. R \in SUBSET DOMAIN Catalog
    BY <1>2, <1>4
  <2>2. R \in SUBSET Int /\ IsFiniteSet(R) /\ n \in Nat
    BY <2>1, PathsAre
  <2> HIDE DEF R
  <2>3. c \in Nat /\ n <= c * cap /\ \A i \in 1..c : (i - 1) * cap < n
    <3> HIDE DEF n
    <3> QED BY <1>1, <2>2, CeilingIs
  <2>4. /\ \A i \in Int : Slice(R, i, cap) \in SUBSET R
        /\ \A i, j \in Int : i # j => Slice(R, i, cap) \cap Slice(R, j, cap) = {}
        /\ \A i \in Nat \ {0} : Cardinality(Slice(R, i, cap)) <= cap
        /\ \A i \in Nat \ {0} : (i - 1) * cap < n => Slice(R, i, cap) # {}
    BY <1>1, <2>2, SliceIs
  <2> HIDE DEF n
  <2>5. UNION {Slice(R, i, cap) : i \in 1..c} = R
    <3> HIDE DEF c
    <3> QED BY <1>1, <2>2, <2>3, SliceIs DEF n
  <2> HIDE DEF c
  <2>6. \A i \in 1..c : i \in Int /\ i \in Nat \ {0}
    BY <2>3
  <2>7. \A p \in R : \E i \in 1..c : p \in Slice(R, i, cap)
    BY <2>5
  <2>8. /\ \A i \in 1..c : Slice(R, i, cap) \subseteq R /\ Slice(R, i, cap) # {} /\ Cardinality(Slice(R, i, cap)) <= cap
        /\ \A i, j \in 1..c : i # j => Slice(R, i, cap) \cap Slice(R, j, cap) = {}
    BY <2>3, <2>4, <2>6
  <2> QED BY <2>3, <2>7, <2>8 DEF c, n, R
<1>5. \A k, i : piece(k, i).group = name /\ piece(k, i).keep = keep(k, i)
  OBVIOUS
<1>6. ASSUME NEW b \in B PROVE \E k \in DOMAIN P : \E i \in 1..count(k) : b = piece(k, i)
  BY <1>3
<1>7. ASSUME NEW k \in DOMAIN P, NEW i \in 1..count(k) PROVE piece(k, i) \in B
  BY <1>3
<1> HIDE DEF B, piece, keep, count
<1>8. ASSUME NEW b \in B
      PROVE  /\ b.group = name /\ b.keep \subseteq S /\ b.keep # {} /\ (args.auto => Uniform(b.keep))
             /\ Cardinality(b.keep) <= cap
  <2>0. PICK k \in DOMAIN P : \E i \in 1..count(k) : b = piece(k, i)
    BY <1>6
  <2>1. PICK i \in 1..count(k) : b = piece(k, i)
    BY <2>0
  <2>2. b.keep = keep(k, i) /\ b.group = name
    BY <1>5, <2>1
  <2>3. b.keep \subseteq P[k] /\ b.keep # {} /\ Cardinality(b.keep) <= cap
    BY <1>4, <2>2
  <2>4. P[k] \subseteq S /\ (args.auto => Uniform(P[k]))
    BY <1>2
  <2> QED BY <2>2, <2>3, <2>4 DEF Uniform
<1>9. ASSUME NEW p \in S PROVE \E b \in B : p \in b.keep
  <2>1. PICK k \in DOMAIN P : p \in P[k]
    BY <1>2
  <2>2. PICK i \in 1..count(k) : p \in keep(k, i)
    BY <1>4, <2>1
  <2> QED BY <1>5, <1>7, <2>2
<1>10. ASSUME NEW a \in B, NEW b \in B, a # b PROVE a.keep \cap b.keep = {}
  <2>10. PICK k \in DOMAIN P : \E i \in 1..count(k) : a = piece(k, i)
    BY <1>6
  <2>1. PICK i \in 1..count(k) : a = piece(k, i)
    BY <2>10
  <2>20. PICK l \in DOMAIN P : \E j \in 1..count(l) : b = piece(l, j)
    BY <1>6
  <2>2. PICK j \in 1..count(l) : b = piece(l, j)
    BY <2>20
  <2>3. a.keep = keep(k, i) /\ b.keep = keep(l, j)
    BY <1>5, <2>1, <2>2
  <2>4. CASE k = l
    <3>1. i # j
      BY <1>10, <2>1, <2>2, <2>4
    <3> QED BY <1>4, <2>3, <2>4, <3>1
  <2>5. CASE k # l
    <3>1. keep(k, i) \subseteq P[k] /\ keep(l, j) \subseteq P[l] /\ P[k] \cap P[l] = {}
      BY <1>2, <1>4, <2>5
    <3> QED BY <2>3, <3>1
  <2> QED BY <2>4, <2>5
<1> QED BY <1>8, <1>9, <1>10 DEF B, cap, SplitWell

\* What is selected: the files named, the group named, or every plain group but the fork suite.
LEMMA SelectedIs ==
  ASSUME NEW files, NEW args \in Arguments
  PROVE  /\ args.file # {} => DOMAIN Selected(files, args) = {Focused} /\ Selected(files, args)[Focused] = args.file
         /\ \A g \in GroupNames : args.group = {g} =>
              DOMAIN Selected(files, args) = {g} /\ Selected(files, args)[g] = Group(files, g) \ Excluded(args.profile)
         /\ args.file = {} /\ args.group = {} =>
              /\ DOMAIN Selected(files, args) = WholeTree
              /\ \A g \in WholeTree : Selected(files, args)[g] = Group(files, g) \ Excluded(args.profile)
<1> DEFINE groups == [name \in GroupNames |-> Group(files, name) \ Excluded(args.profile)]
           one == [name \in {Focused} |-> args.file]
<1>1. args.group = {} \/ args.file = {}
  BY ArgumentsAre
<1>2. DOMAIN one = {Focused} /\ one[Focused] = args.file
  OBVIOUS
<1>3. DOMAIN groups = GroupNames /\ \A g \in GroupNames : groups[g] = Group(files, g) \ Excluded(args.profile)
  OBVIOUS
<1>4. WholeTree \subseteq GroupNames
  BY DEF WholeTree, GroupNames
<1>5. CASE args.file # {}
  <2>1. args.group = {}
    BY <1>1, <1>5
  <2>2. Selected(files, args) = one
    BY <1>5, <2>1, Zenon DEF Selected
  <2> HIDE DEF one
  <2>3. \A g \in GroupNames : args.group # {g}
    BY <2>1
  <2> QED BY <1>2, <1>5, <2>2, <2>3
<1>6. CASE args.file = {} /\ args.group # {}
  <2>1. Selected(files, args) = Restrict(groups, args.group \cap DOMAIN groups)
    BY <1>6, Zenon DEF Selected
  <2> HIDE DEF groups
  <2>2. ASSUME NEW g \in GroupNames, args.group = {g}
        PROVE  DOMAIN Selected(files, args) = {g} /\ Selected(files, args)[g] = Group(files, g) \ Excluded(args.profile)
    <3>1. args.group \cap DOMAIN groups = {g}
      BY <1>3, <2>2
    <3> QED BY <1>3, <2>1, <3>1 DEF Restrict
  <2> QED BY <1>6, <2>2
<1>7. CASE args.file = {} /\ args.group = {}
  <2>1. Selected(files, args) = Restrict(groups, WholeTree)
    BY <1>7, Zenon DEF Selected
  <2> HIDE DEF groups
  <2>2. DOMAIN Selected(files, args) = WholeTree /\ \A g \in WholeTree : Selected(files, args)[g] = groups[g]
    BY <2>1 DEF Restrict
  <2>3. \A g \in GroupNames : args.group # {g}
    BY <1>7
  <2> HIDE DEF WholeTree
  <2> QED BY <1>3, <1>4, <1>7, <2>2, <2>3
<1> QED BY <1>5, <1>6, <1>7

\* The directories a group's sources are in.
DirectoriesOf(name) ==
  CASE name[1] = "integration-gas" -> IsolatedDirectories
    [] name[1] = "repro-symbolic" -> {"repro", "unit"}
    [] name[1] = "census" -> {"census"}
    [] name[1] = "fuzz" -> {"fuzz"}
    [] name[1] = "invariants" -> {"fuzz/invariant"}
    [] name[1] = "fork" -> {"fork"}

LEMMA FuzzChunked ==
  ASSUME PlansAssumption, NEW files \in SUBSET DOMAIN Catalog
  PROVE  /\ \A i \in Int : FuzzChunk(files, i) \subseteq {p \in files : Dir(p) = "fuzz" /\ IsTest(p)}
         /\ \A i, j \in Int : i # j => FuzzChunk(files, i) \cap FuzzChunk(files, j) = {}
<1> DEFINE R == {p \in files : Dir(p) = "fuzz" /\ IsTest(p)}
           n == Cardinality(R)
           x == (n + 3) \div 4
           size == Max({1, x})
<1>1. R \in SUBSET DOMAIN Catalog
  OBVIOUS
<1>2. R \in SUBSET Int /\ IsFiniteSet(R) /\ n \in Nat
  BY <1>1, PathsAre
<1>3. size \in Nat \ {0}
  <2>1. x \in Nat
    <3> HIDE DEF n
    <3> QED BY <1>2
  <2> HIDE DEF x
  <2>2. \E y \in {1, x} : \A z \in {1, x} : y >= z
    BY <2>1
  <2>3. Max({1, x}) \in {1, x} /\ Max({1, x}) >= 1
    BY <2>2 DEF Max
  <2> QED BY <2>1, <2>3
<1>4. \A i : FuzzChunk(files, i) = Slice(R, i, size)
  BY DEF FuzzChunk
<1> HIDE DEF size
<1>5. /\ \A i \in Int : Slice(R, i, size) \in SUBSET R
      /\ \A i, j \in Int : i # j => Slice(R, i, size) \cap Slice(R, j, size) = {}
  <2> HIDE DEF R
  <2> QED BY <1>2, <1>3, SliceIs
<1> QED BY <1>4, <1>5

LEMMA PlainNamesAre ==
  ASSUME NEW name \in PlainNames
  PROVE  \/ name \in {<<"integration-gas", 0>>, <<"repro-symbolic", 0>>, <<"census", 0>>, <<"invariants", 0>>, <<"fork", 0>>}
         \/ \E i \in 1..4 : name = <<"fuzz", i>>
BY DEF PlainNames

LEMMA NamesAre ==
  ASSUME NEW name \in GroupNames
  PROVE  \/ name \in PlainNames
         \/ \E i \in 1..InvariantShards : name = <<"invariants", i>>
         \/ \E i \in 1..IntegrationShards : name = <<"integration-gas", i>>
BY DEF GroupNames, ShardNames

\* A plain group's sources are in directories of its own.
LEMMA PlainWithin ==
  ASSUME PlansAssumption, NEW files \in SUBSET DOMAIN Catalog, NEW name \in PlainNames
  PROVE  Group(files, name) \subseteq files /\ \A p \in Group(files, name) : Dir(p) \in DirectoriesOf(name)
<1>1. CASE name = <<"integration-gas", 0>>
  <2>1. Group(files, name) = Integration(files) /\ DirectoriesOf(name) = IsolatedDirectories
    BY <1>1, GroupForms DEF DirectoriesOf
  <2> QED BY <2>1 DEF Integration
<1>2. CASE name = <<"repro-symbolic", 0>>
  <2>1. Group(files, name) = {p \in files : Dir(p) = "repro" \/ (Dir(p) = "unit" /\ IsTest(p))} /\ DirectoriesOf(name) = {"repro", "unit"}
    BY <1>2, GroupForms DEF DirectoriesOf
  <2> QED BY <2>1
<1>3. CASE name = <<"census", 0>>
  <2>1. Group(files, name) = {p \in files : Dir(p) = "census" /\ IsTest(p)} /\ DirectoriesOf(name) = {"census"}
    BY <1>3, GroupForms DEF DirectoriesOf
  <2> QED BY <2>1
<1>4. CASE name = <<"invariants", 0>>
  <2>1. Group(files, name) = Invariants(files) /\ DirectoriesOf(name) = {"fuzz/invariant"}
    BY <1>4, GroupForms DEF DirectoriesOf
  <2> QED BY <2>1 DEF Invariants
<1>5. CASE name = <<"fork", 0>>
  <2>1. Group(files, name) = {p \in files : IsFork(p)} /\ DirectoriesOf(name) = {"fork"}
    BY <1>5, GroupForms DEF DirectoriesOf
  <2> QED BY <2>1 DEF IsFork
<1>6. CASE \E i \in 1..4 : name = <<"fuzz", i>>
  <2>1. PICK i \in 1..4 : name = <<"fuzz", i>>
    BY <1>6
  <2>2. Group(files, name) = FuzzChunk(files, i) /\ DirectoriesOf(name) = {"fuzz"} /\ i \in Int
    <3>1. i \in Int
      OBVIOUS
    <3>2. Group(files, name) = FuzzChunk(files, i)
      BY <2>1, <3>1, GroupForms
    <3>3. name[1] = "fuzz"
      BY <2>1
    <3> QED BY <3>1, <3>2, <3>3 DEF DirectoriesOf
  <2>3. FuzzChunk(files, i) \subseteq {p \in files : Dir(p) = "fuzz" /\ IsTest(p)}
    BY <2>2, FuzzChunked
  <2> QED BY <2>2, <2>3
<1> QED BY <1>1, <1>2, <1>3, <1>4, <1>5, <1>6, PlainNamesAre

LEMMA GroupWithin ==
  ASSUME PlansAssumption, NEW files \in SUBSET DOMAIN Catalog, NEW name \in GroupNames
  PROVE  Group(files, name) \subseteq files
<1>1. CASE name \in PlainNames
  BY <1>1, PlainWithin
<1>2. CASE \E i \in 1..InvariantShards : name = <<"invariants", i>>
  <2>1. PICK i \in 1..InvariantShards : name = <<"invariants", i>>
    BY <1>2
  <2>2. Group(files, name) = Filled(files).shards[i]
    <3>1. i \in Nat \ {0}
      OBVIOUS
    <3> QED BY <2>1, <3>1, GroupForms
  <2>3. UNION {Filled(files).shards[j] : j \in 1..InvariantShards} = Tests(Invariants(files))
    BY FilledIs
  <2>4. Group(files, name) \subseteq Tests(Invariants(files))
    BY <2>2, <2>3
  <2> QED BY <2>4 DEF Tests, Invariants
<1>3. CASE \E i \in 1..IntegrationShards : name = <<"integration-gas", i>>
  <2>1. PICK i \in 1..IntegrationShards : name = <<"integration-gas", i>>
    BY <1>3
  <2>2. Group(files, name) = IntegrationShard(files, i)
    <3>1. i \in Nat \ {0}
      OBVIOUS
    <3> QED BY <2>1, <3>1, GroupForms
  <2>3. Group(files, name) \subseteq Tests(Integration(files))
    BY <2>2, IntegrationSharded
  <2> QED BY <2>3 DEF Tests, Integration
<1> QED BY <1>1, <1>2, <1>3, NamesAre

LEMMA PlainApart ==
  ASSUME PlansAssumption, NEW files \in SUBSET DOMAIN Catalog, NEW a \in PlainNames, NEW b \in PlainNames, a # b
  PROVE  Group(files, a) \cap Group(files, b) = {}
<1>1. /\ \A p \in Group(files, a) : Dir(p) \in DirectoriesOf(a)
      /\ \A p \in Group(files, b) : Dir(p) \in DirectoriesOf(b)
  BY PlainWithin
<1>2. CASE (\E i \in 1..4 : a = <<"fuzz", i>>) /\ (\E i \in 1..4 : b = <<"fuzz", i>>)
  <2>1. PICK i \in 1..4 : a = <<"fuzz", i>>
    BY <1>2
  <2>2. PICK j \in 1..4 : b = <<"fuzz", j>>
    BY <1>2
  <2>3. i \in Int /\ j \in Int /\ i # j
    BY <2>1, <2>2
  <2>4. Group(files, a) = FuzzChunk(files, i) /\ Group(files, b) = FuzzChunk(files, j)
    BY <2>1, <2>2, <2>3, GroupForms
  <2> QED BY <2>3, <2>4, FuzzChunked
<1>3. CASE ~((\E i \in 1..4 : a = <<"fuzz", i>>) /\ (\E i \in 1..4 : b = <<"fuzz", i>>))
  <2>1. DirectoriesOf(a) \cap DirectoriesOf(b) = {}
    <3> DEFINE Z == {<<"integration-gas", 0>>, <<"repro-symbolic", 0>>, <<"census", 0>>, <<"invariants", 0>>, <<"fork", 0>>}
    <3>1. /\ a \in Z \/ a[1] = "fuzz"
          /\ b \in Z \/ b[1] = "fuzz"
      BY PlainNamesAre
    <3>2. /\ DirectoriesOf(<<"integration-gas", 0>>) = {"craps", "gas", "invariant"}
          /\ DirectoriesOf(<<"repro-symbolic", 0>>) = {"repro", "unit"}
          /\ DirectoriesOf(<<"census", 0>>) = {"census"}
          /\ DirectoriesOf(<<"invariants", 0>>) = {"fuzz/invariant"}
          /\ DirectoriesOf(<<"fork", 0>>) = {"fork"}
      BY DEF DirectoriesOf, IsolatedDirectories
    <3>3. \A x : x[1] = "fuzz" => DirectoriesOf(x) = {"fuzz"}
      BY DEF DirectoriesOf
    <3>4. ~(a[1] = "fuzz" /\ b[1] = "fuzz")
      <4>1. ASSUME NEW x \in PlainNames, x[1] = "fuzz" PROVE \E i \in 1..4 : x = <<"fuzz", i>>
        BY <4>1, PlainNamesAre
      <4> QED BY <1>3, <4>1
    <3>5. CASE a \in Z /\ b \in Z
      <4>1. CASE a = <<"integration-gas", 0>>
        BY <3>2, <3>5, <4>1
      <4>2. CASE a = <<"repro-symbolic", 0>>
        BY <3>2, <3>5, <4>2
      <4>3. CASE a = <<"census", 0>>
        BY <3>2, <3>5, <4>3
      <4>4. CASE a = <<"invariants", 0>>
        BY <3>2, <3>5, <4>4
      <4>5. CASE a = <<"fork", 0>>
        BY <3>2, <3>5, <4>5
      <4> QED BY <3>5, <4>1, <4>2, <4>3, <4>4, <4>5
    <3>6. CASE a \in Z /\ b[1] = "fuzz"
      BY <3>2, <3>3, <3>6
    <3>7. CASE a[1] = "fuzz" /\ b \in Z
      BY <3>2, <3>3, <3>7
    <3> QED BY <3>1, <3>4, <3>5, <3>6, <3>7
  <2> QED BY <1>1, <2>1
<1> QED BY <1>2, <1>3

LEMMA SelectedOne ==
  ASSUME NEW files, NEW args \in Arguments, NEW g \in GroupNames, args.group = {g}
  PROVE  DOMAIN Selected(files, args) = {g} /\ Selected(files, args)[g] = Group(files, g) \ Excluded(args.profile)
<1>1. \A h \in GroupNames : args.group = {h} =>
        DOMAIN Selected(files, args) = {h} /\ Selected(files, args)[h] = Group(files, h) \ Excluded(args.profile)
  BY SelectedIs, Zenon
<1> QED BY <1>1

\* The batches of a run: what is selected, each source in one of them.
LEMMA BatchesAre ==
  ASSUME PlansAssumption, NEW files \in SUBSET DOMAIN Catalog, NEW args \in Arguments, ~Refused(files, args)
  PROVE  LET s == Selected(files, args)
             B == SplitBatches(files, args)
         IN  /\ \A name \in DOMAIN s : s[name] \subseteq DOMAIN Catalog
             /\ \A b \in B : /\ b.group \in DOMAIN s /\ b.keep # {} /\ b.keep \subseteq s[b.group]
                             /\ (args.auto => Uniform(b.keep))
                             /\ Cardinality(b.keep) <= Cap(b.group, args.maximum, s[b.group])
                             /\ s[b.group] # {}
             /\ \A name \in DOMAIN s : \A p \in s[name] : \E b \in B : p \in b.keep
             /\ \A a, b \in B : a # b => a.keep \cap b.keep = {}
<1> DEFINE s == Selected(files, args)
           B == SplitBatches(files, args)
           some == {n \in DOMAIN s : s[n] # {}}
           batches(name) == SplitGroup(name, s[name], args)
<1>1. args.maximum \in Nat /\ args.auto \in BOOLEAN /\ args.file \subseteq DOMAIN Catalog
      /\ (args.group = {} \/ (args.file = {} /\ \E g \in GroupNames : args.group = {g}))
  BY ArgumentsAre
<1>2. B = UNION {batches(name) : name \in some}
  BY Zenon DEF SplitBatches
<1>3. /\ \A name \in DOMAIN s : s[name] \subseteq DOMAIN Catalog
      /\ \A a, b \in DOMAIN s : a # b => s[a] \cap s[b] = {}
  <2>1. CASE args.file # {}
    <3>1. DOMAIN s = {Focused} /\ s[Focused] = args.file
      BY <2>1, SelectedIs
    <3> HIDE DEF s
    <3> QED BY <1>1, <3>1
  <2>2. CASE \E g \in GroupNames : args.group = {g}
    <3>1. PICK g \in GroupNames : args.group = {g}
      BY <2>2
    <3>2. DOMAIN s = {g} /\ s[g] = Group(files, g) \ Excluded(args.profile)
      BY <3>1, SelectedOne
    <3>3. Group(files, g) \subseteq DOMAIN Catalog
      BY GroupWithin
    <3> HIDE DEF s
    <3> QED BY <3>2, <3>3
  <2>3. CASE args.file = {} /\ args.group = {}
    <3>1. DOMAIN s = WholeTree /\ \A g \in WholeTree : s[g] = Group(files, g) \ Excluded(args.profile)
      BY <2>3, SelectedIs
    <3> HIDE DEF s
    <3>2. WholeTree \subseteq PlainNames
      BY DEF WholeTree
    <3>3. ASSUME NEW name \in WholeTree PROVE s[name] \subseteq DOMAIN Catalog
      <4>1. Group(files, name) \subseteq files
        BY <3>2, PlainWithin
      <4> QED BY <3>1, <4>1
    <3>4. ASSUME NEW a \in WholeTree, NEW b \in WholeTree, a # b PROVE s[a] \cap s[b] = {}
      <4>1. Group(files, a) \cap Group(files, b) = {}
        BY <3>2, <3>4, PlainApart
      <4> QED BY <3>1, <4>1
    <3> QED BY <3>1, <3>3, <3>4
  <2> QED BY <1>1, <2>1, <2>2, <2>3
<1> HIDE DEF s, B
<1>4. ASSUME NEW name \in some
      PROVE  /\ \A b \in batches(name) :
                  /\ b.group = name /\ b.keep \subseteq s[name] /\ b.keep # {} /\ (args.auto => Uniform(b.keep))
                  /\ Cardinality(b.keep) <= Cap(name, args.maximum, s[name])
             /\ \A p \in s[name] : \E b \in batches(name) : p \in b.keep
             /\ \A a, b \in batches(name) : a # b => a.keep \cap b.keep = {}
  <2>1. s[name] \in SUBSET DOMAIN Catalog /\ s[name] # {}
    BY <1>3
  <2> DEFINE S == s[name]
             C == SplitGroup(name, S, args)
  <2> HIDE DEF S
  <2>2. S \in SUBSET DOMAIN Catalog /\ S # {}
    BY <2>1 DEF S
  <2>3. /\ \A b \in C : /\ b.group = name /\ b.keep \subseteq S /\ b.keep # {} /\ (args.auto => Uniform(b.keep))
                        /\ Cardinality(b.keep) <= Cap(name, args.maximum, S)
        /\ \A p \in S : \E b \in C : p \in b.keep
        /\ \A a, b \in C : a # b => a.keep \cap b.keep = {}
    <3>1. SplitWell(name, S, args, C)
      BY <2>2, GroupSplit
    <3> HIDE DEF C
    <3> QED BY <3>1 DEF SplitWell
  <2> HIDE DEF C
  <2>4. batches(name) = C
    BY DEF C, S
  <2> HIDE DEF batches
  <2> QED BY <2>3, <2>4 DEF S
<1> HIDE DEF batches
<1>5. ASSUME NEW b \in B
      PROVE  /\ b.group \in some /\ b \in batches(b.group) /\ b.keep # {} /\ b.keep \subseteq s[b.group]
             /\ (args.auto => Uniform(b.keep)) /\ Cardinality(b.keep) <= Cap(b.group, args.maximum, s[b.group])
  <2>1. PICK name \in some : b \in batches(name)
    BY <1>2
  <2>2. b.group = name
    BY <1>4, <2>1
  <2> QED BY <1>4, <2>1, <2>2
<1>6. ASSUME NEW name \in DOMAIN s, NEW p \in s[name] PROVE \E b \in B : p \in b.keep
  <2>1. name \in some
    OBVIOUS
  <2>2. PICK b \in batches(name) : p \in b.keep
    BY <1>4, <2>1
  <2> QED BY <1>2, <2>1, <2>2
<1>7. ASSUME NEW a \in B, NEW b \in B, a # b PROVE a.keep \cap b.keep = {}
  <2>1. /\ a.group \in some /\ a \in batches(a.group) /\ a.keep \subseteq s[a.group]
        /\ b.group \in some /\ b \in batches(b.group) /\ b.keep \subseteq s[b.group]
    BY <1>5
  <2>2. CASE a.group = b.group
    BY <1>4, <1>7, <2>1, <2>2
  <2>3. CASE a.group # b.group
    <3>1. s[a.group] \cap s[b.group] = {}
      BY <1>3, <2>1, <2>3
    <3> QED BY <2>1, <3>1
  <2> QED BY <2>2, <2>3
<1> QED BY <1>3, <1>5, <1>6, <1>7 DEF s, B

\* A source of a shard is one of the group the shard is of.
LEMMA PlainHome ==
  ASSUME PlansAssumption, NEW files \in SUBSET DOMAIN Catalog, NEW name \in GroupNames, NEW p \in Group(files, name)
  PROVE  \E g \in PlainNames : p \in Group(files, g)
<1>1. CASE name \in PlainNames
  BY <1>1
<1>2. CASE \E i \in 1..InvariantShards : name = <<"invariants", i>>
  <2>1. PICK i \in 1..InvariantShards : name = <<"invariants", i>>
    BY <1>2
  <2>2. Group(files, name) = Filled(files).shards[i]
    <3>1. i \in Nat \ {0}
      OBVIOUS
    <3> QED BY <2>1, <3>1, GroupForms
  <2>3. UNION {Filled(files).shards[j] : j \in 1..InvariantShards} = Tests(Invariants(files))
    BY FilledIs
  <2>4. p \in Tests(Invariants(files))
    BY <2>2, <2>3
  <2>5. Group(files, <<"invariants", 0>>) = Invariants(files) /\ <<"invariants", 0>> \in PlainNames
    BY GroupForms DEF PlainNames
  <2> QED BY <2>4, <2>5 DEF Tests
<1>3. CASE \E i \in 1..IntegrationShards : name = <<"integration-gas", i>>
  <2>1. PICK i \in 1..IntegrationShards : name = <<"integration-gas", i>>
    BY <1>3
  <2>2. Group(files, name) = IntegrationShard(files, i)
    <3>1. i \in Nat \ {0}
      OBVIOUS
    <3> QED BY <2>1, <3>1, GroupForms
  <2>3. p \in Tests(Integration(files))
    BY <2>2, IntegrationSharded
  <2>4. Group(files, <<"integration-gas", 0>>) = Integration(files) /\ <<"integration-gas", 0>> \in PlainNames
    BY GroupForms DEF PlainNames
  <2> QED BY <2>3, <2>4 DEF Tests
<1> QED BY <1>1, <1>2, <1>3, NamesAre

\* Only the fork group has the fork suite.
LEMMA ForkApart ==
  ASSUME PlansAssumption, NEW files \in SUBSET DOMAIN Catalog, NEW name \in WholeTree, NEW p \in Group(files, name)
  PROVE  ~IsFork(p)
<1>1. name \in PlainNames /\ name # <<"fork", 0>>
  BY DEF WholeTree
<1>2. <<"fork", 0>> \in PlainNames /\ Group(files, <<"fork", 0>>) = {q \in files : IsFork(q)}
  BY GroupForms DEF PlainNames
<1>3. Group(files, name) \cap Group(files, <<"fork", 0>>) = {}
  BY <1>1, <1>2, PlainApart
<1>4. p \in files
  BY <1>1, PlainWithin
<1> QED BY <1>2, <1>3, <1>4

FoundrySound ==
  plan.kind = "foundry" =>
    /\ plan.files \in SUBSET DOMAIN Catalog /\ plan.args \in Arguments /\ ~Refused(plan.files, plan.args)
    /\ plan.support = SupportFor(plan.files, plan.args) /\ plan.batches = SplitBatches(plan.files, plan.args)

\* What the batches of a run keep, and no more, is what was selected.
LEMMA KeptIs ==
  ASSUME PlansAssumption, NEW files \in SUBSET DOMAIN Catalog, NEW args \in Arguments, ~Refused(files, args)
  PROVE  UNION {b.keep : b \in SplitBatches(files, args)} = UNION Range(Selected(files, args))
<1> DEFINE s == Selected(files, args)
           B == SplitBatches(files, args)
<1>1. /\ \A b \in B : b.group \in DOMAIN s /\ b.keep \subseteq s[b.group]
      /\ \A name \in DOMAIN s : \A p \in s[name] : \E b \in B : p \in b.keep
  BY BatchesAre
<1> HIDE DEF s, B
<1>2. UNION {b.keep : b \in B} = UNION Range(s)
  BY <1>1 DEF Range
<1> QED BY <1>2 DEF s, B

LEMMA FoundryHolds == PlansAssumption /\ FoundrySound => FoundryRunsOnce /\ BatchesUniform
<1> SUFFICES ASSUME PlansAssumption, FoundrySound, plan.kind = "foundry" PROVE FoundryRunsOnce /\ BatchesUniform
  BY DEF FoundryRunsOnce, BatchesUniform
<1> DEFINE files == plan.files
           args == plan.args
           s == Selected(files, args)
           B == plan.batches
           chosen == UNION Range(s)
           forks == {p \in files : IsFork(p)}
<1>1. /\ files \in SUBSET DOMAIN Catalog /\ args \in Arguments /\ ~Refused(files, args)
      /\ plan.support = SupportFor(files, args) /\ B = SplitBatches(files, args)
  BY DEF FoundrySound
<1>2. /\ args.maximum \in Nat /\ args.auto \in BOOLEAN /\ args.file \subseteq DOMAIN Catalog
      /\ args.group = {} \/ (args.file = {} /\ \E g \in GroupNames : args.group = {g})
  BY <1>1, ArgumentsAre
<1>3. /\ \A name \in DOMAIN s : s[name] \subseteq DOMAIN Catalog
      /\ \A b \in B : /\ b.group \in DOMAIN s /\ b.keep # {} /\ b.keep \subseteq s[b.group]
                      /\ (args.auto => Uniform(b.keep))
                      /\ Cardinality(b.keep) <= Cap(b.group, args.maximum, s[b.group])
                      /\ s[b.group] # {}
      /\ \A a, b \in B : a # b => a.keep \cap b.keep = {}
  <2> DEFINE C == SplitBatches(files, args)
  <2> HIDE DEF files, args
  <2>0. B = C
    BY <1>1
  <2> HIDE DEF B
  <2> USE <2>0
  <2>1. /\ \A name \in DOMAIN s : s[name] \subseteq DOMAIN Catalog
        /\ \A b \in B : /\ b.group \in DOMAIN s /\ b.keep # {} /\ b.keep \subseteq s[b.group]
                        /\ Cardinality(b.keep) <= Cap(b.group, args.maximum, s[b.group])
                        /\ s[b.group] # {}
    BY <1>1, BatchesAre
  <2>2. \A b \in B : args.auto => Uniform(b.keep)
    BY <1>1, BatchesAre
  <2>3. \A a, b \in B : a # b => a.keep \cap b.keep = {}
    BY <1>1, BatchesAre
  <2> QED BY <2>1, <2>2, <2>3
<1>4. Kept = chosen
  BY <1>1, KeptIs DEF Kept
<1>5. /\ Unassigned(files) = {}
      /\ ~((\E p \in chosen : IsFork(p)) /\ (\E p \in chosen : ~IsFork(p)))
  BY <1>1 DEF Refused
<1>6. plan.support = {p \in Support(files) \ Excluded(args.profile) : (\E q \in chosen : IsFork(q)) => ~IsTest(p)}
  BY <1>1 DEF SupportFor
<1>7. ASSUME args.file # {}
      PROVE  DOMAIN s = {Focused} /\ s[Focused] = args.file
  BY <1>1, <1>7, SelectedIs
<1>8. ASSUME args.file = {}, args.group = {}
      PROVE  DOMAIN s = WholeTree /\ \A g \in WholeTree : s[g] = Group(files, g) \ Excluded(args.profile)
  BY <1>1, <1>8, SelectedIs
<1> HIDE DEF s, B
<1>9. FoundryRunsOnce
  <2> DEFINE due == IF args.file # {} THEN args.file
                    ELSE Tests(files \ Support(files)) \ (Excluded(args.profile) \cup forks)
  <2>1. ASSUME args.group = {} PROVE due \subseteq Kept
    <3>1. CASE args.file # {}
      <4>1. s[Focused] \subseteq chosen
        BY <1>7, <3>1 DEF Range
      <4> QED BY <1>4, <1>7, <3>1, <4>1
    <3>2. CASE args.file = {}
      <4> SUFFICES ASSUME NEW p \in due PROVE p \in chosen
        BY <1>4
      <4>1. p \in files /\ p \notin Support(files) /\ p \notin Excluded(args.profile) /\ ~IsFork(p)
        BY <3>2 DEF Tests
      <4>2. p \in UNION Range(Groups(files))
        BY <1>5, <4>1 DEF Unassigned
      <4>3. PICK name \in GroupNames : p \in Group(files, name)
        BY <4>2 DEF Groups, Range
      <4>4. PICK g \in PlainNames : p \in Group(files, g)
        BY <1>1, <4>3, PlainHome
      <4>5. g # <<"fork", 0>>
        <5>1. Group(files, <<"fork", 0>>) = {q \in files : IsFork(q)}
          BY GroupForms
        <5> QED BY <4>1, <4>4, <5>1
      <4>6. g \in WholeTree
        BY <4>4, <4>5 DEF WholeTree
      <4>7. p \in s[g] /\ g \in DOMAIN s
        BY <1>8, <2>1, <3>2, <4>1, <4>4, <4>6
      <4> QED BY <4>7 DEF Range
    <3> QED BY <3>1, <3>2
  <2>2. ASSUME args.group = {}, args.file = {}
        PROVE  (Kept \cup plan.support) \cap (Excluded(args.profile) \cup forks) = {}
    <3>1. ASSUME NEW p \in chosen PROVE p \notin Excluded(args.profile) /\ ~IsFork(p)
      <4>1. PICK g \in WholeTree : p \in Group(files, g) \ Excluded(args.profile)
        BY <1>8, <2>2, <3>1 DEF Range
      <4> QED BY <1>1, <4>1, ForkApart
    <3>2. ASSUME NEW p \in plan.support PROVE p \notin Excluded(args.profile) /\ ~IsFork(p)
      <4>1. p \in Support(files) /\ p \notin Excluded(args.profile)
        BY <1>6
      <4> QED BY <4>1 DEF Support
    <3> QED BY <1>4, <3>1, <3>2
  <2> HIDE DEF due
  <2>3. /\ args.group = {} => due \subseteq Kept
        /\ args.group = {} /\ args.file = {} => (Kept \cup plan.support) \cap (Excluded(args.profile) \cup forks) = {}
        /\ \A a, b \in B : a # b => a.keep \cap b.keep = {}
    BY <1>3, <2>1, <2>2
  <2> QED BY <2>3 DEF FoundryRunsOnce, due, B
<1>10. ASSUME NEW b \in B
       PROVE  /\ b.keep # {}
              /\ args.auto => \A p, q \in b.keep : SourceIsolation(p) = SourceIsolation(q)
              /\ args.maximum > 0 => Cardinality(b.keep) <= args.maximum
              /\ b.group[1] = "integration-gas" /\ args.maximum = 0 => Cardinality(b.keep) <= DefaultCap
              /\ \A p \in b.keep, q \in b.keep \cup plan.support : IsFork(p) => IsFork(q) \/ ~IsTest(q)
  <2> DEFINE S == s[b.group]
  <2>1. S \in SUBSET DOMAIN Catalog /\ S # {} /\ b.keep \subseteq S
    BY <1>3
  <2>2. S \subseteq chosen
    BY <1>3 DEF Range
  <2> HIDE DEF S
  <2>3. /\ args.maximum > 0 => Cap(b.group, args.maximum, S) = args.maximum
        /\ args.maximum = 0 /\ b.group[1] = "integration-gas" => Cap(b.group, args.maximum, S) = DefaultCap
    BY <1>2, <2>1, CapIs
  <2>4. Cardinality(b.keep) <= Cap(b.group, args.maximum, S)
    BY <1>3 DEF S
  <2>5. ASSUME NEW p \in b.keep, NEW q \in b.keep \cup plan.support, IsFork(p) PROVE IsFork(q) \/ ~IsTest(q)
    <3>1. p \in chosen
      BY <2>1, <2>2
    <3>2. CASE q \in b.keep
      BY <1>5, <2>1, <2>2, <2>5, <3>1, <3>2
    <3>3. CASE q \in plan.support
      BY <1>6, <2>5, <3>1, <3>3
    <3> QED BY <3>2, <3>3
  <2>6. args.auto => \A p, q \in b.keep : SourceIsolation(p) = SourceIsolation(q)
    BY <1>3 DEF Uniform
  <2> QED BY <1>3, <2>3, <2>4, <2>5, <2>6
<1>11. BatchesUniform
  BY <1>10 DEF BatchesUniform, B
<1> QED BY <1>9, <1>11

-----------------------------------------------------------------------------
(* Forwarded options.                                                        *)

WantedWords == {"none"} \cup ForwardedWords
Splits == [at : Nat, files : Seq(Nat), flags : Seq(Nat), wants : WantedWords, ok : BOOLEAN]
Wanting(w) == IF w \in {"--value", "--option"} THEN w ELSE "none"
Increasing(s) == \A i, j \in DOMAIN s : i < j => s[i] < s[j]

LEMMA AppendLater ==
  ASSUME NEW i \in Nat, NEW s \in Seq(1..i), Increasing(s)
  PROVE  /\ Append(s, i + 1) \in Seq(1..(i + 1)) /\ Len(Append(s, i + 1)) = Len(s) + 1
         /\ Range(Append(s, i + 1)) = Range(s) \cup {i + 1} /\ Increasing(Append(s, i + 1))
<1> DEFINE t == Append(s, i + 1)
           n == Len(s)
<1>1. n \in Nat /\ DOMAIN s = 1..n /\ \A k \in 1..n : s[k] \in 1..i
  OBVIOUS
<1>2. i + 1 \in 1..(i + 1) /\ s \in Seq(1..(i + 1))
  <2>1. \A k \in 1..n : s[k] \in 1..(i + 1)
    BY <1>1
  <2> QED BY <1>1, <2>1
<1>3. t \in Seq(1..(i + 1)) /\ Len(t) = n + 1 /\ (\A k \in 1..n : t[k] = s[k]) /\ t[n + 1] = i + 1
  BY <1>1, <1>2, AppendProperties
<1> HIDE DEF t, n
<1>4. DOMAIN t = 1..(n + 1)
  BY <1>1, <1>3
<1>5. \A k \in 1..(n + 1) : k \in 1..n \/ k = n + 1
  BY <1>1
<1>6. \A k \in 1..n : k \in 1..(n + 1)
  BY <1>1
<1>7. n + 1 \in 1..(n + 1)
  BY <1>1
<1>8. Range(t) = Range(s) \cup {i + 1}
  BY <1>1, <1>3, <1>4, <1>5, <1>6, <1>7 DEF Range
<1>9. ASSUME NEW j \in 1..(n + 1), NEW k \in 1..(n + 1), j < k PROVE t[j] < t[k]
  <2>1. j \in 1..n
    BY <1>1, <1>9
  <2>2. CASE k \in 1..n
    BY <1>1, <1>3, <1>9, <2>1, <2>2 DEF Increasing
  <2>3. CASE k = n + 1
    <3>1. t[j] = s[j] /\ s[j] \in 1..i /\ t[k] = i + 1
      BY <1>1, <1>3, <2>1, <2>3
    <3> QED BY <3>1
  <2> QED BY <1>5, <2>2, <2>3
<1> QED BY <1>3, <1>4, <1>8, <1>9 DEF t, n, Increasing

\* What one word makes of a split, in each of its four cases.
LEMMA WiderSeq ==
  ASSUME NEW S, NEW T, S \subseteq T, NEW f \in Seq(S)
  PROVE  f \in Seq(T)
OBVIOUS

LEMMA ForwardedForms ==
  ASSUME NEW s \in Splits, NEW w \in ForwardedWords
  PROVE  /\ s.wants # "none" /\ ~IsOption(w) =>
              Forwarded(s, w) = [at |-> s.at + 1, files |-> s.files, flags |-> Append(s.flags, s.at), wants |-> "none",
                                 ok |-> s.ok /\ ~Ambiguous(s, w)]
         /\ IsOption(w) =>
              Forwarded(s, w) = [at |-> s.at + 1, files |-> s.files, flags |-> Append(s.flags, s.at), wants |-> Wanting(w),
                                 ok |-> s.ok /\ s.wants # "--value"]
         /\ s.wants = "none" /\ w = "path" =>
              Forwarded(s, w) = [at |-> s.at + 1, files |-> Append(s.files, s.at), flags |-> s.flags, wants |-> s.wants, ok |-> s.ok]
         /\ s.wants = "none" /\ w = "word" =>
              Forwarded(s, w) = [at |-> s.at + 1, files |-> s.files, flags |-> s.flags, wants |-> s.wants, ok |-> FALSE]
<1>1. s = [at |-> s.at, files |-> s.files, flags |-> s.flags, wants |-> s.wants, ok |-> s.ok]
  BY DEF Splits
<1> DEFINE n == [s EXCEPT !.at = s.at + 1]
<1>2. n = [at |-> s.at + 1, files |-> s.files, flags |-> s.flags, wants |-> s.wants, ok |-> s.ok]
  BY <1>1
<1>3. ~IsOption("path") /\ ~IsOption("word")
  BY DEF IsOption
<1>4. CASE s.wants # "none" /\ ~IsOption(w)
  <2>1. Forwarded(s, w) = [n EXCEPT !.flags = Append(@, s.at), !.wants = "none", !.ok = @ /\ ~Ambiguous(s, w)]
    BY <1>4, Zenon DEF Forwarded
  <2> HIDE DEF n
  <2>2. Forwarded(s, w) = [at |-> s.at + 1, files |-> s.files, flags |-> Append(s.flags, s.at), wants |-> "none",
                           ok |-> s.ok /\ ~Ambiguous(s, w)]
    BY <1>2, <2>1
  <2> QED BY <1>4, <2>2
<1>5. CASE IsOption(w)
  <2>1. Forwarded(s, w) = [n EXCEPT !.flags = Append(@, s.at), !.ok = @ /\ s.wants # "--value",
                                    !.wants = IF w \in {"--value", "--option"} THEN w ELSE "none"]
    BY <1>5, Zenon DEF Forwarded
  <2> HIDE DEF n
  <2>2. Forwarded(s, w) = [at |-> s.at + 1, files |-> s.files, flags |-> Append(s.flags, s.at), wants |-> Wanting(w),
                           ok |-> s.ok /\ s.wants # "--value"]
    BY <1>2, <2>1 DEF Wanting
  <2> QED BY <1>3, <1>5, <2>2
<1>6. CASE s.wants = "none" /\ w = "path"
  <2>1. Forwarded(s, w) = [n EXCEPT !.files = Append(@, s.at)]
    BY <1>3, <1>6, Zenon DEF Forwarded
  <2> HIDE DEF n
  <2>2. Forwarded(s, w) = [at |-> s.at + 1, files |-> Append(s.files, s.at), flags |-> s.flags, wants |-> s.wants, ok |-> s.ok]
    BY <1>2, <2>1
  <2> QED BY <1>3, <1>6, <2>2
<1>7. CASE s.wants = "none" /\ w = "word"
  <2>1. Forwarded(s, w) = [n EXCEPT !.ok = FALSE]
    <3>1. w # "path" /\ ~IsOption(w) /\ ~(s.wants # "none")
      BY <1>3, <1>7
    <3> QED BY <3>1, Zenon DEF Forwarded
  <2> HIDE DEF n
  <2>2. Forwarded(s, w) = [at |-> s.at + 1, files |-> s.files, flags |-> s.flags, wants |-> s.wants, ok |-> FALSE]
    BY <1>2, <2>1
  <2> QED BY <1>3, <1>7, <2>2
<1> QED BY <1>4, <1>5, <1>6, <1>7

LEMMA ForwardedTyped ==
  ASSUME NEW s \in Splits, NEW w \in ForwardedWords
  PROVE  Forwarded(s, w) \in Splits
<1>1. s.at \in Nat /\ s.at + 1 \in Nat /\ s.files \in Seq(Nat) /\ s.flags \in Seq(Nat) /\ s.wants \in WantedWords /\ s.ok \in BOOLEAN
  BY DEF Splits
<1>2. Append(s.files, s.at) \in Seq(Nat) /\ Append(s.flags, s.at) \in Seq(Nat)
  BY <1>1, AppendProperties
<1>3. Wanting(w) \in WantedWords /\ "none" \in WantedWords
  BY DEF Wanting, WantedWords
<1>6. w \in {"path", "word"} \/ IsOption(w)
  BY DEF IsOption
<1>7. CASE s.wants # "none" /\ ~IsOption(w)
  <2> DEFINE o == s.ok /\ ~Ambiguous(s, w)
  <2>1. Forwarded(s, w) = [at |-> s.at + 1, files |-> s.files, flags |-> Append(s.flags, s.at), wants |-> "none", ok |-> o]
    BY <1>7, ForwardedForms
  <2>2. o \in BOOLEAN
    OBVIOUS
  <2> HIDE DEF o
  <2> QED BY <1>1, <1>2, <1>3, <2>1, <2>2 DEF Splits
<1>8. CASE IsOption(w)
  <2> DEFINE o == s.ok /\ s.wants # "--value"
  <2>1. Forwarded(s, w) = [at |-> s.at + 1, files |-> s.files, flags |-> Append(s.flags, s.at), wants |-> Wanting(w), ok |-> o]
    BY <1>8, ForwardedForms
  <2>2. o \in BOOLEAN
    OBVIOUS
  <2> HIDE DEF o
  <2> QED BY <1>1, <1>2, <1>3, <2>1, <2>2 DEF Splits
<1>9. CASE s.wants = "none" /\ w = "path"
  <2>1. Forwarded(s, w) = [at |-> s.at + 1, files |-> Append(s.files, s.at), flags |-> s.flags, wants |-> s.wants, ok |-> s.ok]
    BY <1>9, ForwardedForms
  <2> QED BY <1>1, <1>2, <2>1 DEF Splits
<1>10. CASE s.wants = "none" /\ w = "word"
  <2>1. Forwarded(s, w) = [at |-> s.at + 1, files |-> s.files, flags |-> s.flags, wants |-> s.wants, ok |-> FALSE]
    BY <1>10, ForwardedForms
  <2> QED BY <1>1, <2>1 DEF Splits
<1> QED BY <1>6, <1>7, <1>8, <1>9, <1>10

LEMMA ForwardedAlong ==
  ASSUME NEW args \in Seq(ForwardedWords)
  PROVE  LET at == Scanned(Forwarded, NoneForwarded, args)
         IN  /\ at[0] = NoneForwarded /\ \A i \in 1..Len(args) : at[i] = Forwarded(at[i - 1], args[i])
             /\ \A i \in 0..Len(args) : at[i] \in Splits
<1> DEFINE from == NoneForwarded
           step == [p \in Splits \X ForwardedWords |-> Forwarded(p[1], p[2])]
           n == Len(args)
           at[i \in 0..Len(args)] == IF i = 0 THEN NoneForwarded ELSE Forwarded(at[i - 1], args[i])
<1>0. from \in Splits
  BY DEF NoneForwarded, Splits, WantedWords
<1>1. step \in [Splits \X ForwardedWords -> Splits]
  BY ForwardedTyped
<1>2. n \in Nat /\ \A i \in 1..n : args[i] \in ForwardedWords
  OBVIOUS
<1>3. PICK f : ScanOf(Splits, f, from, step, args)
  <2> HIDE DEF step, from
  <2> QED BY <1>0, <1>1, ScanExists
<1>4. f = [i \in 0..Len(args) |-> IF i = 0 THEN NoneForwarded ELSE Forwarded(f[i - 1], args[i])]
  <2> DEFINE h == [i \in 0..Len(args) |-> IF i = 0 THEN NoneForwarded ELSE Forwarded(f[i - 1], args[i])]
  <2>1. ASSUME NEW i \in 0..n PROVE f[i] = h[i]
    <3>1. CASE i = 0
      BY <1>3, <3>1 DEF ScanOf
    <3>2. CASE i # 0
      <4>1. i \in 1..n /\ i - 1 \in 0..n
        BY <1>2, <3>2
      <4>2. f[i] = step[<<f[i - 1], args[i]>>]
        <5> HIDE DEF step
        <5> QED BY <1>3, <4>1 DEF ScanOf
      <4>3. <<f[i - 1], args[i]>> \in Splits \X ForwardedWords
        BY <1>2, <1>3, <4>1 DEF ScanOf
      <4>4. step[<<f[i - 1], args[i]>>] = Forwarded(f[i - 1], args[i])
        BY <4>3
      <4> QED BY <3>2, <4>2, <4>4
    <3> QED BY <3>1, <3>2
  <2> QED BY <1>3, <2>1 DEF ScanOf
<1>5. Scanned(Forwarded, NoneForwarded, args) = at
  BY Zenon DEF Scanned
<1>6. at = [i \in 0..Len(args) |-> IF i = 0 THEN NoneForwarded ELSE Forwarded(at[i - 1], args[i])]
  BY <1>4, Zenon DEF at
<1> HIDE DEF at
<1>7. at[0] = from /\ \A i \in 1..n : at[i] = Forwarded(at[i - 1], args[i])
  BY <1>2, <1>6
<1>8. \A i \in 0..n : at[i] \in Splits
  <2> DEFINE S == {i \in 0..n : at[i] \in Splits}
  <2> HIDE DEF from
  <2>1. 0 \in S
    BY <1>0, <1>2, <1>7
  <2>2. ASSUME NEW i \in 1..n, i - 1 \in S PROVE i \in S
    <3>1. at[i] = Forwarded(at[i - 1], args[i]) /\ args[i] \in ForwardedWords /\ at[i - 1] \in Splits /\ i \in 0..n
      BY <1>2, <1>7, <2>2
    <3> QED BY <3>1, ForwardedTyped
  <2> HIDE DEF S
  <2>3. 0..n \subseteq S
    BY <1>2, <2>1, <2>2, EachUpTo
  <2> QED BY <2>3 DEF S
<1> QED BY <1>5, <1>7, <1>8
\* What is known of a split after i words, none of them a mistake.
SplitInv(s, args, i) ==
  /\ s.at = i + 1
  /\ s.ok => /\ s.files \in Seq(1..i) /\ s.flags \in Seq(1..i)
             /\ Range(s.files) \cup Range(s.flags) = 1..i
             /\ Len(s.files) + Len(s.flags) = i
             /\ Increasing(s.files) /\ Increasing(s.flags)
             /\ s.wants = IF i = 0 THEN "none" ELSE Wanting(args[i])
             /\ \A j \in 1..i : args[j] = "path" => (j \in Range(s.flags) <=> j > 1 /\ args[j - 1] = "--value")

LEMMA SplitStep ==
  ASSUME NEW args \in Seq(ForwardedWords), NEW k \in Nat, k + 1 <= Len(args), NEW s \in Splits, SplitInv(s, args, k)
  PROVE  SplitInv(Forwarded(s, args[k + 1]), args, k + 1)
<1> DEFINE i == k + 1
           w == args[i]
           t == Forwarded(s, w)
           add(q) == Append(q, i)
<1>1. i \in Nat /\ i # 0 /\ i \in 1..Len(args) /\ k \in 0..Len(args) /\ i - 1 = k /\ s.at = i /\ s.at + 1 = i + 1
  BY DEF SplitInv
<1>2. w \in ForwardedWords
  BY <1>1
<1>3. /\ w = "path" => Wanting(w) = "none" /\ ~IsOption(w)
      /\ w = "word" => Wanting(w) = "none" /\ ~IsOption(w)
      /\ IsOption(w) => w # "path"
      /\ w = "path" \/ w = "word" \/ IsOption(w)
  BY DEF Wanting, IsOption
<1>4. 1..i = 1..k \cup {i} /\ i \notin 1..k
  BY <1>1
<1> HIDE DEF w
<1>5. ASSUME s.ok, t.ok
      PROVE  /\ t.files \in Seq(1..i) /\ t.flags \in Seq(1..i)
             /\ Range(t.files) \cup Range(t.flags) = 1..i
             /\ Len(t.files) + Len(t.flags) = i
             /\ Increasing(t.files) /\ Increasing(t.flags)
             /\ t.wants = Wanting(w)
             /\ \A j \in 1..i : args[j] = "path" => (j \in Range(t.flags) <=> j > 1 /\ args[j - 1] = "--value")
  <2> DEFINE f == s.files
             g == s.flags
  <2>1. /\ f \in Seq(1..k) /\ g \in Seq(1..k) /\ Range(f) \cup Range(g) = 1..k /\ Len(f) + Len(g) = k
        /\ Increasing(f) /\ Increasing(g)
        /\ \A j \in 1..k : args[j] = "path" => (j \in Range(g) <=> j > 1 /\ args[j - 1] = "--value")
        /\ s.wants = IF k = 0 THEN "none" ELSE Wanting(args[k])
    BY <1>5 DEF SplitInv
  <2>2. /\ add(f) \in Seq(1..i) /\ Len(add(f)) = Len(f) + 1 /\ Range(add(f)) = Range(f) \cup {i} /\ Increasing(add(f))
    BY <1>1, <2>1, AppendLater
  <2>3. /\ add(g) \in Seq(1..i) /\ Len(add(g)) = Len(g) + 1 /\ Range(add(g)) = Range(g) \cup {i} /\ Increasing(add(g))
    BY <1>1, <2>1, AppendLater
  <2>4. f \in Seq(1..i) /\ g \in Seq(1..i) /\ Len(f) \in Nat /\ Len(g) \in Nat
    <3>1. 1..k \subseteq 1..i
      BY <1>4
    <3> HIDE DEF f, g
    <3>2. f \in Seq(1..i)
      BY <2>1, <3>1, WiderSeq
    <3>3. g \in Seq(1..i)
      BY <2>1, <3>1, WiderSeq
    <3> QED BY <3>2, <3>3
  <2>5. i \notin Range(f) /\ i \notin Range(g)
    BY <1>4, <2>1
  <2>6. s.wants = "--value" <=> i > 1 /\ args[i - 1] = "--value"
    <3>1. CASE k = 0
      BY <1>1, <2>1, <3>1
    <3>2. CASE k # 0
      <4>1. i > 1 /\ s.wants = Wanting(args[k])
        BY <1>1, <2>1, <3>2
      <4>2. Wanting(args[k]) = "--value" <=> args[k] = "--value"
        BY DEF Wanting
      <4> QED BY <1>1, <4>1, <4>2
    <3> QED BY <3>1, <3>2
  <2> HIDE DEF f, g, add
  <2>7. CASE t = [at |-> s.at + 1, files |-> f, flags |-> add(g), wants |-> Wanting(w), ok |-> t.ok]
             /\ (w = "path" => s.wants = "--value")
    <3>1. t.files = f /\ t.flags = add(g) /\ t.wants = Wanting(w)
      BY <2>7
    <3>2. Len(f) + (Len(g) + 1) = i
      BY <1>1, <2>1, <2>4
    <3>3. Range(f) \cup Range(add(g)) = 1..i
      BY <1>4, <2>1, <2>3
    <3>4. ASSUME NEW j \in 1..i, args[j] = "path"
          PROVE  j \in Range(add(g)) <=> j > 1 /\ args[j - 1] = "--value"
      <4>1. CASE j = i
        <5>1. w = "path" /\ j \in Range(add(g)) /\ s.wants = "--value"
          BY <2>3, <2>7, <3>4, <4>1 DEF w
        <5> QED BY <2>6, <4>1, <5>1
      <4>2. CASE j # i
        <5>1. j \in 1..k /\ (j \in Range(add(g)) <=> j \in Range(g))
          BY <1>4, <2>3, <4>2
        <5> QED BY <2>1, <3>4, <5>1
      <4> QED BY <4>1, <4>2
    <3> QED BY <2>1, <2>3, <2>4, <3>1, <3>2, <3>3, <3>4
  <2>8. CASE t = [at |-> s.at + 1, files |-> add(f), flags |-> g, wants |-> Wanting(w), ok |-> t.ok]
             /\ w = "path" /\ s.wants # "--value"
    <3>1. t.files = add(f) /\ t.flags = g /\ t.wants = Wanting(w)
      BY <2>8
    <3>2. (Len(f) + 1) + Len(g) = i
      BY <1>1, <2>1, <2>4
    <3>3. Range(add(f)) \cup Range(g) = 1..i
      BY <1>4, <2>1, <2>2
    <3>4. ASSUME NEW j \in 1..i, args[j] = "path"
          PROVE  j \in Range(g) <=> j > 1 /\ args[j - 1] = "--value"
      <4>1. CASE j = i
        BY <2>5, <2>6, <2>8, <4>1
      <4>2. CASE j # i
        <5>1. j \in 1..k
          BY <1>4, <4>2
        <5> QED BY <2>1, <3>4, <5>1
      <4> QED BY <4>1, <4>2
    <3> QED BY <2>1, <2>2, <2>4, <3>1, <3>2, <3>3, <3>4
  <2>9. CASE s.wants # "none" /\ ~IsOption(w)
    <3>1. t = [at |-> s.at + 1, files |-> f, flags |-> add(g), wants |-> "none", ok |-> s.ok /\ ~Ambiguous(s, w)]
      BY <1>1, <1>2, <2>9, ForwardedForms DEF f, g, add
    <3>2. t.ok = (s.ok /\ ~Ambiguous(s, w))
      BY <3>1
    <3>3. Wanting(w) = "none"
      BY <1>3, <2>9
    <3>4. w = "path" => s.wants = "--value"
      <4>1. w = "path" => s.wants # "--option"
        BY <1>5, <3>2 DEF Ambiguous
      <4>2. k # 0 /\ s.wants = Wanting(args[k])
        BY <2>1, <2>9
      <4> QED BY <2>9, <4>1, <4>2 DEF Wanting
    <3>5. t = [at |-> s.at + 1, files |-> f, flags |-> add(g), wants |-> Wanting(w), ok |-> t.ok]
      BY <3>1, <3>2, <3>3, Zenon
    <3> QED BY <2>7, <3>4, <3>5
  <2>10. CASE IsOption(w)
    <3>1. t = [at |-> s.at + 1, files |-> f, flags |-> add(g), wants |-> Wanting(w), ok |-> s.ok /\ s.wants # "--value"]
      BY <1>1, <1>2, <2>10, ForwardedForms DEF f, g, add
    <3>2. t.ok = (s.ok /\ s.wants # "--value")
      BY <3>1
    <3>3. t = [at |-> s.at + 1, files |-> f, flags |-> add(g), wants |-> Wanting(w), ok |-> t.ok]
      BY <3>1, <3>2, Zenon
    <3> QED BY <1>3, <2>7, <2>10, <3>3
  <2>11. CASE s.wants = "none" /\ w = "path"
    <3>1. t = [at |-> s.at + 1, files |-> add(f), flags |-> g, wants |-> s.wants, ok |-> s.ok]
      BY <1>1, <1>2, <2>11, ForwardedForms DEF f, g, add
    <3>2. t.ok = s.ok /\ Wanting(w) = s.wants
      BY <1>3, <2>11, <3>1
    <3>3. t = [at |-> s.at + 1, files |-> add(f), flags |-> g, wants |-> Wanting(w), ok |-> t.ok]
      BY <3>1, <3>2, Zenon
    <3> QED BY <2>8, <2>11, <3>3
  <2>12. CASE s.wants = "none" /\ w = "word"
    <3>1. t = [at |-> s.at + 1, files |-> f, flags |-> g, wants |-> s.wants, ok |-> FALSE]
      BY <1>1, <1>2, <2>12, ForwardedForms DEF f, g
    <3> QED BY <1>5, <3>1
  <2> QED BY <1>3, <2>9, <2>10, <2>11, <2>12
<1>6. t.at = i + 1 /\ (t.ok => s.ok)
  <2>1. CASE s.wants # "none" /\ ~IsOption(w)
    <3> DEFINE o == s.ok /\ ~Ambiguous(s, w)
    <3>1. t = [at |-> s.at + 1, files |-> s.files, flags |-> Append(s.flags, s.at), wants |-> "none", ok |-> o]
      BY <1>2, <2>1, ForwardedForms
    <3>2. o => s.ok
      OBVIOUS
    <3> HIDE DEF o, t
    <3> QED BY <1>1, <3>1, <3>2
  <2>2. CASE IsOption(w)
    <3> DEFINE o == s.ok /\ s.wants # "--value"
    <3>1. t = [at |-> s.at + 1, files |-> s.files, flags |-> Append(s.flags, s.at), wants |-> Wanting(w), ok |-> o]
      BY <1>2, <2>2, ForwardedForms
    <3>2. o => s.ok
      OBVIOUS
    <3> HIDE DEF o, t
    <3> QED BY <1>1, <3>1, <3>2
  <2>3. CASE s.wants = "none" /\ w = "path"
    BY <1>1, <1>2, <2>3, ForwardedForms
  <2>4. CASE s.wants = "none" /\ w = "word"
    BY <1>1, <1>2, <2>4, ForwardedForms
  <2> QED BY <1>3, <2>1, <2>2, <2>3, <2>4
<1> HIDE DEF t
<1>7. SplitInv(t, args, i)
  BY <1>1, <1>5, <1>6 DEF SplitInv, w
<1> QED BY <1>7 DEF t, w

\* What SplitForwarded returns: every word in its place.
LEMMA SplitIs ==
  ASSUME NEW args \in Seq(ForwardedWords)
  PROVE  SplitForwarded(args) \in Splits /\ SplitInv(SplitForwarded(args), args, Len(args))
<1> DEFINE at == Scanned(Forwarded, NoneForwarded, args)
           n == Len(args)
           S == {i \in 0..n : SplitInv(at[i], args, i)}
<1>1. n \in Nat
  OBVIOUS
<1>2. /\ at[0] = NoneForwarded /\ \A i \in 1..n : at[i] = Forwarded(at[i - 1], args[i])
      /\ \A i \in 0..n : at[i] \in Splits
  BY ForwardedAlong
<1>3. SplitForwarded(args) = at[n]
  BY DEF SplitForwarded
<1> HIDE DEF at, n
<1>4. SplitInv(NoneForwarded, args, 0)
  <2> DEFINE e == << >>
  <2>1. NoneForwarded.at = 1 /\ NoneForwarded.files = e /\ NoneForwarded.flags = e /\ NoneForwarded.wants = "none"
    BY DEF NoneForwarded
  <2>2. e \in Seq(1..0) /\ Len(e) = 0 /\ Range(e) = {} /\ Increasing(e) /\ 1..0 = {} /\ 0 + 0 = 0 /\ 1 = 0 + 1
    BY DEF Range, Increasing
  <2> HIDE DEF e
  <2> QED BY <2>1, <2>2 DEF SplitInv
<1>5. 0 \in S
  BY <1>1, <1>2, <1>4
<1>6. ASSUME NEW i \in 1..n, i - 1 \in S PROVE i \in S
  <2> DEFINE k == i - 1
  <2>1. k \in Nat /\ k + 1 = i /\ k + 1 <= Len(args) /\ i \in 0..n /\ k \in 0..n
    BY <1>1 DEF n
  <2>2. SplitInv(at[k], args, k) /\ at[k] \in Splits
    BY <1>2, <1>6, <2>1
  <2> HIDE DEF k
  <2>3. SplitInv(Forwarded(at[k], args[k + 1]), args, k + 1)
    BY <2>1, <2>2, SplitStep
  <2>4. at[i] = Forwarded(at[k], args[i])
    BY <1>2 DEF k
  <2> QED BY <2>1, <2>3, <2>4
<1> HIDE DEF S
<1>7. 0..n \subseteq S
  BY <1>1, <1>5, <1>6, EachUpTo
<1>8. n \in 0..n
  BY <1>1
<1> QED BY <1>2, <1>3, <1>7, <1>8 DEF S, n

ForwardedSound ==
  plan.kind = "forwarded" =>
    /\ plan.args \in Seq(ForwardedWords)
    /\ SplitForwarded(plan.args).ok
    /\ plan.files = SplitForwarded(plan.args).files /\ plan.flags = SplitForwarded(plan.args).flags

LEMMA ForwardedHolds == ForwardedSound => ForwardedIntact
<1> SUFFICES ASSUME ForwardedSound, plan.kind = "forwarded" PROVE ForwardedIntact
  BY DEF ForwardedIntact
<1> DEFINE args == plan.args
           s == SplitForwarded(args)
           n == Len(args)
<1>1. args \in Seq(ForwardedWords) /\ s.ok /\ plan.files = s.files /\ plan.flags = s.flags
  BY DEF ForwardedSound
<1>2. n \in Nat /\ DOMAIN args = 1..n
  BY <1>1
<1>3. SplitInv(s, args, n)
  BY <1>1, SplitIs
<1> HIDE DEF s, n, args
<1>4. /\ Range(s.files) \cup Range(s.flags) = 1..n /\ Len(s.files) + Len(s.flags) = n
      /\ Increasing(s.files) /\ Increasing(s.flags)
      /\ \A j \in 1..n : args[j] = "path" => (j \in Range(s.flags) <=> j > 1 /\ args[j - 1] = "--value")
  BY <1>1, <1>3 DEF SplitInv
<1> QED BY <1>1, <1>2, <1>4 DEF ForwardedIntact, Increasing, args, n

-----------------------------------------------------------------------------
(* The deep invariant matrix.                                                *)

\* An injective image of an interval of numbers has as many elements.
LEMMA AsManyAs ==
  ASSUME NEW n \in Nat, NEW T, NEW f, DOMAIN f = 1..n, \A i, j \in 1..n : f[i] = f[j] => i = j, T = {f[i] : i \in 1..n}
  PROVE  IsFiniteSet(T) /\ Cardinality(T) = n
<1>1. IsFiniteSet(1..n) /\ Cardinality(1..n) = n
  <2>1. 1 \in Int /\ n \in Int /\ (1 > n => n = 0) /\ n - 1 + 1 = n
    OBVIOUS
  <2> QED BY <2>1, FS_Interval
<1> DEFINE g == [i \in 1..n |-> f[i]]
<1>2. g \in Bijection(1..n, T)
  <2>1. g \in [1..n -> T] /\ \A i \in 1..n : g[i] = f[i]
    OBVIOUS
  <2> HIDE DEF g
  <2>2. (\A i, j \in 1..n : g[i] = g[j] => i = j) /\ \A x \in T : \E i \in 1..n : g[i] = x
    BY <2>1
  <2> QED BY <2>1, <2>2 DEF Bijection, Injection, IsInjective, Surjection
<1>3. ExistsBijection(1..n, T)
  BY <1>2 DEF ExistsBijection
<1> QED BY <1>1, <1>3, FS_Bijection

MatrixSound ==
  plan.kind = "matrix" =>
    /\ plan.suite.weight \in {"advance", "heavy", "plain"}
    /\ plan.suite.text \cup plan.suite.imports \subseteq Properties
    /\ plan.suite.tests \subseteq Everything
    /\ plan.jobs = Matrix(plan.suite)

LEMMA JobsHold == PlansAssumption /\ MatrixSound => JobsCoverTests
<1> SUFFICES ASSUME PlansAssumption, MatrixSound, plan.kind = "matrix", NEW t \in plan.suite.tests
             PROVE  LET jobs == {j \in plan.jobs : Selects(j, t)}
                        times == IF plan.suite.weight = "advance" /\ t = "advance" THEN AdvancePartitions ELSE 1
                    IN Cardinality(jobs) = times /\ Cardinality({j.seed : j \in jobs}) = times
  BY Zenon DEF JobsCoverTests
<1> DEFINE suite == plan.suite
           names == suite.text \cup suite.imports
           jobs == {j \in plan.jobs : Selects(j, t)}
           seeds == {j.seed : j \in jobs}
           times == IF suite.weight = "advance" /\ t = "advance" THEN AdvancePartitions ELSE 1
<1> SUFFICES Cardinality(jobs) = times /\ Cardinality(seeds) = times
  OBVIOUS
<1>1. /\ suite.weight \in {"advance", "heavy", "plain"} /\ names \subseteq Properties /\ t \in Everything
      /\ plan.jobs = Matrix(suite) /\ AdvancePartitions \in Nat
  BY DEF MatrixSound, PlansAssumption
<1>2. \A m, e, p : /\ Job(m, e, p).match = m /\ Job(m, e, p).exclude = e /\ Job(m, e, p).seed = PartitionSeed(p)
                   /\ Selects(Job(m, e, p), t) <=> t \in m /\ t \notin e
  BY DEF Job, Selects
<1>3. ASSUME NEW j, jobs = {j} PROVE Cardinality(jobs) = 1 /\ Cardinality(seeds) = 1
  <2>1. seeds = {j.seed}
    BY <1>3
  <2> QED BY <1>3, <2>1, FS_Singleton
<1>4. CASE suite.weight = "plain"
  <2>1. plan.jobs = {Job(Everything, {}, 0)}
    BY <1>1, <1>4 DEF Matrix
  <2>2. Selects(Job(Everything, {}, 0), t)
    BY <1>1, <1>2
  <2>3. jobs = {Job(Everything, {}, 0)}
    BY <2>1, <2>2
  <2> HIDE DEF jobs, seeds, suite
  <2> QED BY <1>3, <1>4, <2>3
<1>5. CASE suite.weight = "heavy"
  <2> DEFINE rest == Job(Everything, names, 0)
  <2>1. plan.jobs = {Job({n}, {}, 0) : n \in names} \cup {rest}
    BY <1>1, <1>5 DEF Matrix, ExcludedBy
  <2>2. Selects(rest, t) <=> t \notin names
    BY <1>1, <1>2
  <2>3. \A n : Selects(Job({n}, {}, 0), t) <=> t = n
    BY <1>2
  <2> HIDE DEF rest, names
  <2>4. CASE t \in names
    <3>1. jobs = {Job({t}, {}, 0)}
      <4> DEFINE one(x) == Job({x}, {}, 0)
      <4>1. plan.jobs = {one(x) : x \in names} \cup {rest} /\ \A x : Selects(one(x), t) <=> t = x
        BY <2>1, <2>3
      <4> HIDE DEF one
      <4>2. jobs = {one(t)}
        BY <2>2, <2>4, <4>1
      <4> QED BY <4>2 DEF one
    <3> HIDE DEF jobs, seeds, suite
    <3> QED BY <1>3, <1>5, <3>1
  <2>5. CASE t \notin names
    <3>1. jobs = {rest}
      <4> DEFINE one(x) == Job({x}, {}, 0)
      <4>1. plan.jobs = {one(x) : x \in names} \cup {rest} /\ \A x : Selects(one(x), t) <=> t = x
        BY <2>1, <2>3
      <4> HIDE DEF one
      <4> QED BY <2>2, <2>5, <4>1
    <3> HIDE DEF jobs, seeds, suite
    <3> QED BY <1>3, <1>5, <3>1
  <2> QED BY <2>4, <2>5
<1>6. CASE suite.weight = "advance"
  <2> DEFINE rest == Job(Everything, {"advance"}, 0)
             part(i) == Job({"advance"}, {}, i)
  <2>1. plan.jobs = {part(i) : i \in 1..AdvancePartitions} \cup {rest}
    BY <1>1, <1>6 DEF Matrix, ExcludedBy
  <2>2. Selects(rest, t) <=> t # "advance"
    BY <1>1, <1>2
  <2>3. \A i : (Selects(part(i), t) <=> t = "advance") /\ part(i).seed = PartitionSeed(i)
    BY <1>2
  <2>4. CASE t # "advance"
    <3> HIDE DEF rest, part
    <3>1. jobs = {rest}
      BY <2>1, <2>2, <2>3, <2>4
    <3> HIDE DEF jobs, seeds, suite
    <3> QED BY <1>3, <2>4, <3>1
  <2>5. CASE t = "advance"
    <3> DEFINE n == AdvancePartitions
               f == [i \in 1..n |-> part(i)]
               g == [i \in 1..n |-> PartitionSeed(i)]
    <3>1. \A i, j \in 1..n : PartitionSeed(i) = PartitionSeed(j) => i = j
      BY <1>1 DEF PartitionSeed
    <3> HIDE DEF part, rest
    <3>2. jobs = {f[i] : i \in 1..n}
      BY <2>1, <2>2, <2>3, <2>5
    <3>3. seeds = {g[i] : i \in 1..n}
      <4>1. \A i \in 1..n : f[i].seed = g[i]
        BY <2>3
      <4>2. seeds = {f[i].seed : i \in 1..n}
        <5> HIDE DEF f
        <5> QED BY <3>2
      <4> HIDE DEF f, g, jobs, seeds
      <4> QED BY <4>1, <4>2
    <3>4. /\ DOMAIN f = 1..n /\ DOMAIN g = 1..n
          /\ \A i, j \in 1..n : g[i] = g[j] => i = j
      BY <3>1
    <3>5. \A i, j \in 1..n : f[i] = f[j] => i = j
      BY <2>3, <3>1
    <3> HIDE DEF f, g, jobs, seeds, suite
    <3>6. Cardinality(jobs) = n /\ Cardinality(seeds) = n
      BY <1>1, <3>2, <3>3, <3>4, <3>5, AsManyAs
    <3> QED BY <1>6, <2>5, <3>6
  <2> QED BY <2>4, <2>5
<1> HIDE DEF jobs, seeds
<1> QED BY <1>1, <1>4, <1>5, <1>6

LEMMA BoundedIsSeq ==
  ASSUME NEW S, NEW n \in Nat
  PROVE  BoundedSeq(S, n) \subseteq Seq(S)
<1>1. BoundedSeq(S, n) = UNION {[1..m -> S] : m \in 0..n}
  BY DEF BoundedSeq, SeqOf
<1>2. ASSUME NEW m \in 0..n PROVE [1..m -> S] \subseteq Seq(S)
  OBVIOUS
<1> QED BY <1>1, <1>2

PlanInv == FoundrySound /\ ShardsSound /\ HardhatSound /\ ForwardedSound /\ MatrixSound

LEMMA PlanInit == plan = PlanIdle => PlanInv
BY DEF PlanIdle, PlanInv, FoundrySound, ShardsSound, HardhatSound, ForwardedSound, MatrixSound

LEMMA PlanHolds ==
  PlansAssumption /\ PlanInv =>
    /\ FoundryRunsOnce /\ BatchesUniform /\ ShardsReplaceGroups
    /\ HardhatRunsOnce /\ ForwardedIntact /\ JobsCoverTests
BY FoundryHolds, ShardsHold, HardhatHolds, ForwardedHolds, JobsHold DEF PlanInv

LEMMA PlanStep == PlansAssumption /\ PlanInv /\ [PlanNext]_plan => PlanInv'
<1> SUFFICES ASSUME PlansAssumption, PlanInv, [PlanNext]_plan PROVE PlanInv'
  OBVIOUS
<1>0. /\ plan'.kind # "foundry" => FoundrySound'
      /\ plan'.kind # "files" => ShardsSound'
      /\ plan'.kind # "hardhat" => HardhatSound'
      /\ plan'.kind # "forwarded" => ForwardedSound'
      /\ plan'.kind # "matrix" => MatrixSound'
  BY DEF FoundrySound, ShardsSound, HardhatSound, ForwardedSound, MatrixSound
<1>1. CASE plan'.kind = "refused"
  BY <1>0, <1>1 DEF PlanInv
<1>2. CASE FoundryFiles
  <2>1. PICK few \in UNION {kSubset(k, DOMAIN Catalog) : k \in 0..MaxMoved}, whole \in BOOLEAN :
          plan' = [kind |-> "files", files |-> IF whole THEN DOMAIN Catalog \ few ELSE few]
    BY <1>2 DEF FoundryFiles
  <2>2. few \subseteq DOMAIN Catalog
    BY DEF kSubset
  <2>3. plan'.kind = "files" /\ plan'.files \subseteq DOMAIN Catalog
    BY <2>1, <2>2
  <2> QED BY <1>0, <2>3 DEF PlanInv, ShardsSound
<1>3. CASE FoundryPlan /\ plan'.kind # "refused"
  <2>1. PICK args \in Arguments :
          plan' = IF Refused(plan.files, args) THEN [kind |-> "refused"]
                  ELSE [kind |-> "foundry", files |-> plan.files, args |-> args,
                        support |-> SupportFor(plan.files, args), batches |-> SplitBatches(plan.files, args)]
    BY <1>3 DEF FoundryPlan
  <2>2. plan.files \in SUBSET DOMAIN Catalog
    BY <1>3 DEF FoundryPlan, PlanInv, ShardsSound
  <2> DEFINE files == plan.files
             refused == Refused(files, args)
             support == SupportFor(files, args)
             batches == SplitBatches(files, args)
  <2> HIDE DEF files, refused, support, batches
  <2>3. ~refused
    BY <1>3, <2>1 DEF files, refused
  <2>4. plan' = [kind |-> "foundry", files |-> files, args |-> args, support |-> support, batches |-> batches]
    BY <2>1, <2>3 DEF files, refused, support, batches
  <2>5. /\ plan'.kind = "foundry" /\ plan'.files = files /\ plan'.args = args
        /\ plan'.support = support /\ plan'.batches = batches
    BY <2>4
  <2>6. FoundrySound'
    BY <2>2, <2>3, <2>5 DEF FoundrySound, files, refused, support, batches
  <2> QED BY <1>0, <2>5, <2>6 DEF PlanInv
<1>4. CASE HardhatPlan /\ plan'.kind # "refused"
  <2>1. PICK order \in BoundedSeq(Folders, 3), present \in SUBSET DOMAIN HardhatTests,
             explicit \in BoundedSeq(DOMAIN HardhatTests, 2), size \in {1, 2} :
          plan' = IF HardhatRefuses(order, present, explicit) THEN [kind |-> "refused"]
                  ELSE [kind |-> "hardhat", present |-> present, explicit |-> explicit, order |-> order,
                        batches |-> HardhatBatches(Chosen(order, present, explicit), size)]
    BY <1>4 DEF HardhatPlan
  <2>2. order \in Seq(Folders) /\ explicit \in Seq(DOMAIN HardhatTests) /\ size \in Nat \ {0}
    BY BoundedIsSeq
  <2> DEFINE refused == HardhatRefuses(order, present, explicit)
             batches == HardhatBatches(Chosen(order, present, explicit), size)
  <2> HIDE DEF refused, batches
  <2>3. ~refused
    BY <1>4, <2>1 DEF refused
  <2>4. plan' = [kind |-> "hardhat", present |-> present, explicit |-> explicit, order |-> order, batches |-> batches]
    BY <2>1, <2>3 DEF refused, batches
  <2>5. plan'.kind = "hardhat"
    BY <2>4
  <2>6. HardhatSound'
    BY <2>2, <2>3, <2>4 DEF HardhatSound, refused, batches
  <2> QED BY <1>0, <2>5, <2>6 DEF PlanInv
<1>5. CASE ForwardedPlan /\ plan'.kind # "refused"
  <2>1. PICK args \in BoundedSeq(ForwardedWords, MaxTokens) :
          LET s == SplitForwarded(args)
          IN plan' = IF s.ok /\ s.wants # "--value"
                     THEN [kind |-> "forwarded", args |-> args, files |-> s.files, flags |-> s.flags]
                     ELSE [kind |-> "refused"]
    BY <1>5 DEF ForwardedPlan
  <2>2. args \in Seq(ForwardedWords)
    BY BoundedIsSeq DEF PlansAssumption
  <2> DEFINE s == SplitForwarded(args)
  <2> HIDE DEF s
  <2>3. plan' = IF s.ok /\ s.wants # "--value"
                THEN [kind |-> "forwarded", args |-> args, files |-> s.files, flags |-> s.flags]
                ELSE [kind |-> "refused"]
    BY <2>1 DEF s
  <2>4. s.ok /\ plan' = [kind |-> "forwarded", args |-> args, files |-> s.files, flags |-> s.flags]
    BY <1>5, <2>3
  <2>5. plan'.kind = "forwarded" /\ plan'.args = args /\ plan'.files = s.files /\ plan'.flags = s.flags
    BY <2>4
  <2>6. ForwardedSound'
    BY <2>2, <2>4, <2>5 DEF ForwardedSound, s
  <2> QED BY <1>0, <2>5, <2>6 DEF PlanInv
<1>6. CASE MatrixPlan /\ plan'.kind # "refused"
  <2>1. PICK weight \in {"advance", "heavy", "plain"}, text \in SUBSET Properties,
             imported \in SUBSET Properties, hidden \in SUBSET Everything :
          LET suite == [weight |-> weight, text |-> text, imports |-> imported, tests |-> text \cup hidden]
          IN plan' = IF MatrixRefused(suite) THEN [kind |-> "refused"]
                     ELSE [kind |-> "matrix", suite |-> suite, jobs |-> Matrix(suite)]
    BY <1>6 DEF MatrixPlan
  <2> DEFINE suite == [weight |-> weight, text |-> text, imports |-> imported, tests |-> text \cup hidden]
  <2>2. /\ suite.weight = weight /\ suite.text = text /\ suite.imports = imported /\ suite.tests = text \cup hidden
    OBVIOUS
  <2> HIDE DEF suite
  <2>3. plan' = IF MatrixRefused(suite) THEN [kind |-> "refused"]
                ELSE [kind |-> "matrix", suite |-> suite, jobs |-> Matrix(suite)]
    BY <2>1 DEF suite
  <2>4. plan' = [kind |-> "matrix", suite |-> suite, jobs |-> Matrix(suite)]
    BY <1>6, <2>3
  <2>5. plan'.kind = "matrix" /\ plan'.suite = suite /\ plan'.jobs = Matrix(suite)
    BY <2>4
  <2>6. suite.text \cup suite.imports \subseteq Properties /\ suite.tests \subseteq Everything
    BY <2>2 DEF Everything
  <2>7. MatrixSound'
    BY <2>2, <2>5, <2>6 DEF MatrixSound
  <2> QED BY <1>0, <2>5, <2>7 DEF PlanInv
<1>7. CASE UNCHANGED plan
  BY <1>7 DEF PlanInv, FoundrySound, ShardsSound, HardhatSound, ForwardedSound, MatrixSound
<1> QED BY <1>1, <1>2, <1>3, <1>4, <1>5, <1>6, <1>7 DEF PlanNext

-----------------------------------------------------------------------------
(* Counting positions. *)

\* A set of positions is counted up to each of them.
LEMMA CountNext ==
  ASSUME NEW J \in SUBSET Nat, NEW i \in Nat
  PROVE  /\ IsFiniteSet(J \cap (1..i)) /\ Cardinality(J \cap (1..i)) \in Nat
         /\ Cardinality(J \cap (1..(i + 1))) = Cardinality(J \cap (1..i)) + IF i + 1 \in J THEN 1 ELSE 0
         /\ Cardinality(J \cap (1..0)) = 0
<1>1. IsFiniteSet(1..i)
  BY FS_Interval
<1>2. IsFiniteSet(J \cap (1..i)) /\ Cardinality(J \cap (1..i)) \in Nat
  BY <1>1, FS_Subset, FS_CardinalityType
<1>3. ASSUME i + 1 \in J PROVE Cardinality(J \cap (1..(i + 1))) = Cardinality(J \cap (1..i)) + 1
  <2>1. J \cap (1..(i + 1)) = (J \cap (1..i)) \cup {i + 1} /\ i + 1 \notin J \cap (1..i)
    BY <1>3
  <2> QED BY <1>2, <2>1, FS_AddElement
<1>4. ASSUME i + 1 \notin J PROVE J \cap (1..(i + 1)) = J \cap (1..i)
  BY <1>4
<1>5. J \cap (1..0) = {}
  OBVIOUS
<1>6. Cardinality(J \cap (1..(i + 1))) = Cardinality(J \cap (1..i)) + IF i + 1 \in J THEN 1 ELSE 0
  BY <1>2, <1>3, <1>4
<1> QED BY <1>2, <1>5, <1>6, FS_EmptySet

LEMMA FiniteUpTo ==
  ASSUME NEW n \in Nat, NEW J \in SUBSET (1..n)
  PROVE  IsFiniteSet(J) /\ Cardinality(J) \in Nat
<1>1. IsFiniteSet(1..n)
  BY FS_Interval
<1> QED BY <1>1, FS_Subset, FS_CardinalityType

\* Two sets of which neither meets the other.
LEMMA CountBoth ==
  ASSUME NEW S, NEW T, IsFiniteSet(S), IsFiniteSet(T), S \cap T = {}
  PROVE  /\ IsFiniteSet(S \cup T) /\ Cardinality(S) \in Nat /\ Cardinality(T) \in Nat
         /\ Cardinality(S \cup T) = Cardinality(S) + Cardinality(T)
<1>1. Cardinality(S) \in Nat /\ Cardinality(T) \in Nat
  BY FS_CardinalityType
<1>2. Cardinality(S \cap T) = 0
  BY FS_EmptySet
<1>3. IsFiniteSet(S \cup T) /\ Cardinality(S \cup T) = Cardinality(S) + Cardinality(T) - Cardinality(S \cap T)
  BY FS_Union
<1> QED BY <1>1, <1>2, <1>3

\* What a one-to-one map makes of a set is as many.
LEMMA CountImage ==
  ASSUME NEW S, IsFiniteSet(S), NEW f, DOMAIN f = S, \A a, b \in S : f[a] = f[b] => a = b
  PROVE  IsFiniteSet({f[a] : a \in S}) /\ Cardinality({f[a] : a \in S}) = Cardinality(S)
<1> DEFINE T == {f[a] : a \in S}
           g == [a \in S |-> f[a]]
<1>1. g \in Bijection(S, T)
  BY DEF Bijection, Injection, Surjection, IsInjective
<1> HIDE DEF g, T
<1>2. IsFiniteSet(T) /\ Cardinality(T) = Cardinality(S)
  BY <1>1, FS_Bijection DEF ExistsBijection
<1> QED BY <1>2 DEF T

\* A list of a set has each of its elements at one position.
LEMMA ListIs ==
  ASSUME NEW S, IsFiniteSet(S)
  PROVE  /\ SetToSeq(S) \in Seq(S) /\ Len(SetToSeq(S)) = Cardinality(S) /\ DOMAIN SetToSeq(S) = 1..Len(SetToSeq(S))
         /\ \A i, j \in DOMAIN SetToSeq(S) : SetToSeq(S)[i] = SetToSeq(S)[j] => i = j
         /\ \A e \in S : \E i \in DOMAIN SetToSeq(S) : SetToSeq(S)[i] = e
<1> DEFINE n == Cardinality(S)
           list == SetToSeq(S)
<1>1. n \in Nat /\ ExistsBijection(1..n, S)
  BY FS_CardinalityType
<1>2. \E f \in [1..n -> S] : IsInjective(f)
  BY <1>1 DEF ExistsBijection, Bijection, Injection
<1>3. list \in [1..n -> S] /\ IsInjective(list)
  BY <1>2 DEF SetToSeq
<1> HIDE DEF list
<1>4. list \in Injection(1..n, S)
  BY <1>3 DEF Injection
<1>5. IsFiniteSet(1..n) /\ Cardinality(1..n) = n
  BY <1>1, FS_Interval
<1>6. list \in Surjection(1..n, S)
  BY <1>4, <1>5, FS_Injection
<1>7. list \in Seq(S) /\ Len(list) = n /\ DOMAIN list = 1..n
  <2> HIDE DEF n
  <2> QED BY <1>1, <1>3
<1>8. \A i, j \in 1..n : list[i] = list[j] => i = j
  BY <1>3 DEF IsInjective
<1>9. \A e \in S : \E i \in 1..n : list[i] = e
  BY <1>6 DEF Surjection
<1> HIDE DEF n
<1> QED BY <1>7, <1>8, <1>9 DEF list, n

\* What is added to a sum by one more unit for each of some arguments.
LEMMA TotalPlus ==
  ASSUME NEW D, IsFiniteSet(D), NEW f \in [D -> Nat], NEW Y \in SUBSET D
  PROVE  Total([a \in D |-> f[a] + IF a \in Y THEN 1 ELSE 0]) = Total(f) + Cardinality(Y)
<1> DEFINE g == [a \in D |-> f[a] + IF a \in Y THEN 1 ELSE 0]
           new == [a \in Y |-> <<a, f[a] + 1>>]
           added == {new[a] : a \in Y}
<1>1. IsFiniteSet(Units(f)) /\ IsFiniteSet(Y)
  BY TotalFinite, FS_Subset
<1>2. IsFiniteSet(added) /\ Cardinality(added) = Cardinality(Y)
  <2>1. DOMAIN new = Y /\ \A a, b \in Y : new[a] = new[b] => a = b
    OBVIOUS
  <2> HIDE DEF new
  <2> QED BY <1>1, <2>1, CountImage
<1>3. ASSUME NEW a \in D PROVE {a} \X (1..g[a]) = ({a} \X (1..f[a])) \cup IF a \in Y THEN {<<a, f[a] + 1>>} ELSE {}
  <2>1. f[a] \in Nat
    OBVIOUS
  <2>2. CASE a \in Y
    <3>1. 1..g[a] = (1..f[a]) \cup {f[a] + 1}
      BY <2>1, <2>2
    <3> QED BY <2>2, <3>1
  <2>3. CASE a \notin Y
    BY <2>1, <2>3
  <2> QED BY <2>2, <2>3
<1>4. DOMAIN g = D /\ DOMAIN f = D
  OBVIOUS
<1>5. \A u : u \in added <=> \E a \in Y : u = <<a, f[a] + 1>>
  OBVIOUS
<1> HIDE DEF g, new, added
<1>6. Units(g) = Units(f) \cup added
  <2>1. ASSUME NEW u \in Units(g) PROVE u \in Units(f) \cup added
    <3>1. PICK a \in D : u \in {a} \X (1..g[a])
      BY <1>4 DEF Units
    <3>2. u \in {a} \X (1..f[a]) \/ (a \in Y /\ u = <<a, f[a] + 1>>)
      BY <1>3, <3>1
    <3> QED BY <1>4, <1>5, <3>2 DEF Units
  <2>2. ASSUME NEW u \in Units(f) PROVE u \in Units(g)
    BY <1>3, <1>4 DEF Units
  <2>3. ASSUME NEW u \in added PROVE u \in Units(g)
    <3>1. PICK a \in Y : u = <<a, f[a] + 1>>
      BY <1>5
    <3>2. u \in {a} \X (1..g[a])
      BY <1>3, <3>1
    <3> QED BY <1>4, <3>2 DEF Units
  <2> QED BY <2>1, <2>2, <2>3
<1>7. Units(f) \cap added = {}
  <2>1. ASSUME NEW u \in Units(f), u \in added PROVE FALSE
    <3>1. PICK a \in Y : u = <<a, f[a] + 1>>
      BY <1>5, <2>1
    <3>2. f[a] + 1 \in 1..f[a] /\ f[a] \in Nat
      BY <1>4, <3>1, UnitsAre
    <3> QED BY <3>2
  <2> QED BY <2>1
<1> QED BY <1>1, <1>2, <1>6, <1>7, CountBoth DEF Total, g

\* How many of the positions J are put at each of B.
Parts(J, B, at) == [b \in B |-> Cardinality({j \in J : at[j] = b})]

\* What a set of positions is split into has together as many.
LEMMA TotalOfParts ==
  ASSUME NEW n \in Nat, NEW J \in SUBSET (1..n), NEW B, IsFiniteSet(B), NEW at \in [J -> B]
  PROVE  Total(Parts(J, B, at)) = Cardinality(J)
<1> DEFINE part(b) == {j \in J : at[j] = b}
           upto(i) == [b \in B |-> Cardinality(part(b) \cap (1..i))]
           S == {i \in Nat : Total(upto(i)) = Cardinality(J \cap (1..i))}
<1>1. \A b \in B : part(b) \in SUBSET Nat
  <2>1. \A j \in J : j \in Nat
    OBVIOUS
  <2> QED BY <2>1
<1>2. \A i \in Nat : upto(i) \in [B -> Nat]
  <2> HIDE DEF part
  <2> QED BY <1>1, CountNext
<1>3. 0 \in S
  <2>1. \A b \in B : upto(0)[b] = 0
    <3> HIDE DEF part
    <3> QED BY <1>1, CountNext
  <2>2. DOMAIN upto(0) = B
    OBVIOUS
  <2> HIDE DEF upto
  <2>3. Total(upto(0)) = 0
    BY <2>1, <2>2, TotalOfNone
  <2>4. Cardinality(J \cap (1..0)) = 0
    <3>1. J \in SUBSET Nat /\ 0 \in Nat
      OBVIOUS
    <3> QED BY <3>1, CountNext
  <2> QED BY <2>3, <2>4
<1>4. ASSUME NEW i \in S PROVE i + 1 \in S
  <2>1. i \in Nat /\ i + 1 \in Nat
    OBVIOUS
  <2>2. J \in SUBSET Nat
    OBVIOUS
  <2>3. \A b \in B : upto(i + 1)[b] = upto(i)[b] + IF i + 1 \in part(b) THEN 1 ELSE 0
    <3> HIDE DEF part
    <3> QED BY <1>1, <2>1, CountNext
  <2>4. Cardinality(J \cap (1..(i + 1))) = Cardinality(J \cap (1..i)) + IF i + 1 \in J THEN 1 ELSE 0
    BY <2>1, <2>2, CountNext
  <2>5. CASE i + 1 \in J
    <3>1. at[i + 1] \in B /\ i + 1 \in part(at[i + 1]) /\ \A b \in B \ {at[i + 1]} : i + 1 \notin part(b)
      BY <2>5
    <3>2. upto(i) \in [B -> Nat] /\ upto(i + 1) \in [B -> Nat]
      BY <1>2, <2>1
    <3> HIDE DEF upto, part
    <3> DEFINE a == at[i + 1]
    <3>3. upto(i + 1)[a] = upto(i)[a] + 1 /\ \A b \in B \ {a} : upto(i + 1)[b] = upto(i)[b]
      BY <2>3, <3>1, <3>2
    <3>4. IsFiniteSet(Units(upto(i))) /\ Total(upto(i)) \in Nat
      BY <3>2, TotalFinite
    <3>5. Total(upto(i + 1)) = Total(upto(i)) - upto(i)[a] + upto(i + 1)[a]
      BY <3>1, <3>2, <3>3, <3>4, TotalUpdate
    <3>6. Total(upto(i + 1)) = Total(upto(i)) + 1
      BY <3>1, <3>2, <3>3, <3>4, <3>5
    <3>7. Total(upto(i)) = Cardinality(J \cap (1..i))
      OBVIOUS
    <3> QED BY <2>1, <2>4, <2>5, <3>6, <3>7
  <2>6. CASE i + 1 \notin J
    <3>1. \A b \in B : i + 1 \notin part(b)
      BY <2>6
    <3>2. upto(i) \in [B -> Nat] /\ upto(i + 1) \in [B -> Nat]
      BY <1>2, <2>1
    <3> HIDE DEF upto, part
    <3>3. upto(i + 1) = upto(i)
      BY <2>3, <3>1, <3>2
    <3>4. Cardinality(J \cap (1..i)) \in Nat
      BY <2>1, <2>2, CountNext
    <3> QED BY <2>1, <2>4, <2>6, <3>3, <3>4
  <2> QED BY <2>5, <2>6
<1>5. n \in S
  <2>1. S \in SUBSET Nat
    OBVIOUS
  <2> HIDE DEF S
  <2>2. S = Nat
    BY <1>3, <1>4, <2>1, EveryNatural
  <2> QED BY <2>2
<1>6. J \cap (1..n) = J /\ \A b \in B : part(b) \cap (1..n) = part(b)
  OBVIOUS
<1>7. upto(n) = Parts(J, B, at)
  BY <1>6 DEF Parts
<1> QED BY <1>5, <1>6, <1>7

-----------------------------------------------------------------------------
(* A log read event by event. *)

\* What is logged, and what is counted so far.
Events == [slot : Slots, seq : Nat, payer : Payers, kind : {"CREATE", "CLEAR"}]
CensusRow == [creates : Nat, clears : Nat, recreates : Nat, protocol : Nat, player : Nat]
Counts == [rows : [Range(RootOf) -> CensusRow], cleared : SUBSET (Slots \X Nat)]

\* A create adds one to the figures that are about it.
One(holds) == IF holds THEN 1 ELSE 0
Again(count, e) == \E c \in count.cleared : c[1] = e.slot /\ c[2] < e.seq

\* What one event adds to a root's row.
LogAdded(row, count, e, r) ==
  LET create == e.kind = "CREATE" /\ RootOf[e.slot] = r
  IN [creates |-> row.creates + One(create),
      clears |-> row.clears + One(e.kind = "CLEAR" /\ RootOf[e.slot] = r),
      recreates |-> row.recreates + One(create /\ Again(count, e)),
      protocol |-> row.protocol + One(create /\ e.payer = "protocol"),
      player |-> row.player + One(create /\ e.payer = "player")]

LEMMA RootsAre ==
  ASSUME CensusAssumption, NEW s \in Slots
  PROVE  RootOf[s] \in Range(RootOf)
  BY DEF CensusAssumption, Range

\* A row has its five figures and no other.
RowIs(row) ==
  /\ row.creates \in Nat /\ row.clears \in Nat /\ row.recreates \in Nat /\ row.protocol \in Nat /\ row.player \in Nat
  /\ row = [creates |-> row.creates, clears |-> row.clears, recreates |-> row.recreates,
            protocol |-> row.protocol, player |-> row.player]

LEMMA CreatedIs ==
  ASSUME NEW row \in CensusRow, NEW payer \in Payers, NEW again \in BOOLEAN
  PROVE  /\ Created(row, payer, again) =
              [creates |-> row.creates + 1, clears |-> row.clears, recreates |-> row.recreates + One(again),
               protocol |-> row.protocol + One(payer = "protocol"), player |-> row.player + One(payer = "player")]
         /\ Created(row, payer, again) \in CensusRow
<1> DEFINE a == One(again)
<1>1. RowIs(row) /\ a \in Nat
  BY DEF CensusRow, RowIs, One
<1>2. a = IF again THEN 1 ELSE 0
  BY DEF One
<1> HIDE DEF a
<1>3. ASSUME payer = "protocol"
      PROVE  Created(row, payer, again) =
               [creates |-> row.creates + 1, clears |-> row.clears, recreates |-> row.recreates + a,
                protocol |-> row.protocol + 1, player |-> row.player]
  <2>1. Created(row, payer, again) = [row EXCEPT !.creates = @ + 1, !.protocol = @ + 1, !.recreates = @ + a]
    BY <1>2, <1>3, Zenon DEF Created
  <2> QED BY <1>1, <2>1 DEF RowIs
<1>4. ASSUME payer = "player"
      PROVE  Created(row, payer, again) =
               [creates |-> row.creates + 1, clears |-> row.clears, recreates |-> row.recreates + a,
                protocol |-> row.protocol, player |-> row.player + 1]
  <2>1. Created(row, payer, again) = [row EXCEPT !.creates = @ + 1, !.player = @ + 1, !.recreates = @ + a]
    BY <1>2, <1>4, Zenon DEF Created
  <2> QED BY <1>1, <2>1 DEF RowIs
<1>5. payer = "protocol" \/ payer = "player"
  BY DEF Payers
<1>6. Created(row, payer, again) =
        [creates |-> row.creates + 1, clears |-> row.clears, recreates |-> row.recreates + a,
         protocol |-> row.protocol + One(payer = "protocol"), player |-> row.player + One(payer = "player")]
  BY <1>1, <1>3, <1>4, <1>5 DEF One, RowIs
<1>7. /\ row.creates + 1 \in Nat /\ row.recreates + a \in Nat /\ row.protocol + One(payer = "protocol") \in Nat
      /\ row.player + One(payer = "player") \in Nat /\ row.clears \in Nat
  BY <1>1 DEF RowIs, One
<1> QED BY <1>6, <1>7 DEF CensusRow, a

LEMMA CountedIs ==
  ASSUME CensusAssumption, NEW count \in Counts, NEW e \in Events
  PROVE  /\ Counted(count, e) \in Counts
         /\ \A r \in Range(RootOf) : Counted(count, e).rows[r] = LogAdded(count.rows[r], count, e, r)
         /\ Counted(count, e).cleared = IF e.kind = "CREATE" THEN count.cleared
                                        ELSE {c \in count.cleared : c[1] # e.slot} \cup {<<e.slot, e.seq>>}
<1> DEFINE root == RootOf[e.slot]
           row == count.rows[root]
           rest == {c \in count.cleared : c[1] # e.slot} \cup {<<e.slot, e.seq>>}
           new == LogAdded(row, count, e, root)
           rows == [count.rows EXCEPT ![root] = new]
<1>1. /\ root \in Range(RootOf) /\ row \in CensusRow /\ count.rows \in [Range(RootOf) -> CensusRow]
      /\ count.cleared \in SUBSET (Slots \X Nat) /\ count = [rows |-> count.rows, cleared |-> count.cleared]
  BY RootsAre DEF Events, Counts
<1>2. e.slot \in Slots /\ e.seq \in Nat /\ e.payer \in Payers /\ e.kind \in {"CREATE", "CLEAR"}
  BY DEF Events
<1>3. rest \in SUBSET (Slots \X Nat)
  BY <1>1, <1>2
<1>4. RowIs(row)
  <2> HIDE DEF row
  <2> QED BY <1>1 DEF CensusRow, RowIs
<1> HIDE DEF row, root
<1>5. ASSUME NEW r \in Range(RootOf), r # root PROVE count.rows[r] = LogAdded(count.rows[r], count, e, r)
  <2> DEFINE other == count.rows[r]
  <2>1. other \in CensusRow
    BY <1>1
  <2>2. RowIs(other)
    <3> HIDE DEF other
    <3> QED BY <2>1 DEF CensusRow, RowIs
  <2>3. RootOf[e.slot] # r
    BY <1>5 DEF root
  <2> HIDE DEF other
  <2>4. other = LogAdded(other, count, e, r)
    BY <2>2, <2>3 DEF LogAdded, One, RowIs
  <2> QED BY <2>4 DEF other
<1>6. CASE e.kind = "CREATE"
  <2> DEFINE again == Again(count, e)
  <2>1. again \in BOOLEAN
    BY DEF Again
  <2>2. Created(row, e.payer, again) = new /\ new \in CensusRow
    BY <1>1, <1>2, <1>4, <1>6, <2>1, CreatedIs DEF LogAdded, One, RowIs, root
  <2>3. Counted(count, e) = [count EXCEPT !.rows[root] = Created(@, e.payer, again)]
    BY <1>6, Zenon DEF Counted, Again, root
  <2> HIDE DEF new, again
  <2>4. Counted(count, e) = [rows |-> rows, cleared |-> count.cleared]
    BY <1>1, <2>2, <2>3 DEF row
  <2>5. /\ rows \in [Range(RootOf) -> CensusRow] /\ rows[root] = new
        /\ \A r \in Range(RootOf) \ {root} : rows[r] = count.rows[r]
    BY <1>1, <2>2
  <2> HIDE DEF rows
  <2>6. Counted(count, e) \in Counts /\ Counted(count, e).rows = rows /\ Counted(count, e).cleared = count.cleared
    BY <1>1, <2>4, <2>5 DEF Counts
  <2>7. \A r \in Range(RootOf) : rows[r] = LogAdded(count.rows[r], count, e, r)
    BY <1>5, <2>5 DEF new, row
  <2> QED BY <1>6, <2>6, <2>7
<1>7. CASE e.kind = "CLEAR"
  <2>1. [row EXCEPT !.clears = @ + 1] = new /\ new \in CensusRow
    <3>1. new = [creates |-> row.creates, clears |-> row.clears + 1, recreates |-> row.recreates,
                 protocol |-> row.protocol, player |-> row.player]
      BY <1>4, <1>7 DEF LogAdded, One, RowIs, root
    <3> HIDE DEF new
    <3>2. new \in CensusRow
      BY <1>4, <3>1 DEF CensusRow, RowIs
    <3>3. [row EXCEPT !.clears = @ + 1] = new
      BY <1>4, <3>1 DEF RowIs
    <3> QED BY <3>2, <3>3
  <2> HIDE DEF new
  <2>2. Counted(count, e) = [rows |-> [count.rows EXCEPT ![root].clears = @ + 1], cleared |-> rest]
    BY <1>7, Zenon DEF Counted, root
  <2>3. Counted(count, e) = [rows |-> rows, cleared |-> rest]
    BY <1>1, <2>1, <2>2 DEF row
  <2>4. /\ rows \in [Range(RootOf) -> CensusRow] /\ rows[root] = new
        /\ \A r \in Range(RootOf) \ {root} : rows[r] = count.rows[r]
    BY <1>1, <2>1
  <2> HIDE DEF rows, rest
  <2>5. Counted(count, e) \in Counts /\ Counted(count, e).rows = rows /\ Counted(count, e).cleared = rest
    BY <1>3, <2>3, <2>4 DEF Counts
  <2>6. \A r \in Range(RootOf) : rows[r] = LogAdded(count.rows[r], count, e, r)
    BY <1>5, <2>4 DEF new, row
  <2> QED BY <1>7, <2>5, <2>6 DEF rest
<1> QED BY <1>2, <1>6, <1>7

LEMMA CountedAlong ==
  ASSUME CensusAssumption, NEW from \in Counts, NEW log \in Seq(Events)
  PROVE  LET at == Scanned(Counted, from, log)
         IN  /\ at[0] = from /\ \A i \in 1..Len(log) : at[i] = Counted(at[i - 1], log[i])
             /\ \A i \in 0..Len(log) : at[i] \in Counts
<1> DEFINE step == [p \in Counts \X Events |-> Counted(p[1], p[2])]
           n == Len(log)
           at[i \in 0..Len(log)] == IF i = 0 THEN from ELSE Counted(at[i - 1], log[i])
<1>1. step \in [Counts \X Events -> Counts]
  BY CountedIs
<1>2. n \in Nat /\ \A i \in 1..n : log[i] \in Events
  OBVIOUS
<1>3. PICK f : ScanOf(Counts, f, from, step, log)
  <2> HIDE DEF step
  <2> QED BY <1>1, ScanExists
<1>4. f = [i \in 0..Len(log) |-> IF i = 0 THEN from ELSE Counted(f[i - 1], log[i])]
  <2> DEFINE h == [i \in 0..Len(log) |-> IF i = 0 THEN from ELSE Counted(f[i - 1], log[i])]
  <2>1. ASSUME NEW i \in 0..n PROVE f[i] = h[i]
    <3>1. CASE i = 0
      BY <1>3, <3>1 DEF ScanOf
    <3>2. CASE i # 0
      <4>1. i \in 1..n /\ i - 1 \in 0..n
        BY <1>2, <3>2
      <4>2. f[i] = step[<<f[i - 1], log[i]>>]
        <5> HIDE DEF step
        <5> QED BY <1>3, <4>1 DEF ScanOf
      <4>3. <<f[i - 1], log[i]>> \in Counts \X Events
        BY <1>2, <1>3, <4>1 DEF ScanOf
      <4>4. step[<<f[i - 1], log[i]>>] = Counted(f[i - 1], log[i])
        BY <4>3
      <4> QED BY <3>2, <4>2, <4>4
    <3> QED BY <3>1, <3>2
  <2> QED BY <1>3, <2>1 DEF ScanOf
<1>5. Scanned(Counted, from, log) = at
  BY Zenon DEF Scanned
<1>6. at = [i \in 0..Len(log) |-> IF i = 0 THEN from ELSE Counted(at[i - 1], log[i])]
  BY <1>4, Zenon DEF at
<1> HIDE DEF at
<1>7. at[0] = from /\ \A i \in 1..n : at[i] = Counted(at[i - 1], log[i])
  BY <1>2, <1>6
<1>8. \A i \in 0..n : at[i] \in Counts
  <2> DEFINE S == {i \in 0..n : at[i] \in Counts}
  <2>1. 0 \in S
    BY <1>2, <1>7
  <2>2. ASSUME NEW i \in 1..n, i - 1 \in S PROVE i \in S
    <3>1. at[i] = Counted(at[i - 1], log[i]) /\ log[i] \in Events /\ at[i - 1] \in Counts /\ i \in 0..n
      BY <1>2, <1>7, <2>2
    <3> QED BY <3>1, CountedIs
  <2> HIDE DEF S
  <2>3. 0..n \subseteq S
    BY <1>2, <2>1, <2>2, EachUpTo
  <2> QED BY <2>3 DEF S
<1> QED BY <1>5, <1>7, <1>8

\* Where a log has a root's creates, clears and creates again.
CreatesIn(log, r) == {i \in DOMAIN log : log[i].kind = "CREATE" /\ RootOf[log[i].slot] = r}
ClearsIn(log, r) == {i \in DOMAIN log : log[i].kind = "CLEAR" /\ RootOf[log[i].slot] = r}
PaidIn(log, r, payer) == {i \in CreatesIn(log, r) : log[i].payer = payer}
ClearedBy(log, i) == {log[j].slot : j \in {j \in 1..i : log[j].kind = "CLEAR"}}
RecreatesIn(log, r) == {i \in CreatesIn(log, r) : log[i].slot \in ClearedBy(log, i - 1)}

\* A slot's events are of different transactions, in order.
InOrder(log) ==
  \A i, j \in DOMAIN log : i < j /\ log[i].slot = log[j].slot => log[i].seq < log[j].seq

\* How many positions of J are among the first i, and the row and the clears after as many events.
Tally(J, i) == Cardinality(J \cap (1..i))

RowAfter(row, log, r, i) ==
  [creates |-> row.creates + Tally(CreatesIn(log, r), i), clears |-> row.clears + Tally(ClearsIn(log, r), i),
   recreates |-> row.recreates + Tally(RecreatesIn(log, r), i),
   protocol |-> row.protocol + Tally(PaidIn(log, r, "protocol"), i),
   player |-> row.player + Tally(PaidIn(log, r, "player"), i)]

TallyInv(from, log, count, i) ==
  /\ \A r \in Range(RootOf) : count.rows[r] = RowAfter(from.rows[r], log, r, i)
  /\ \A s \in ClearedBy(log, i) : \E c \in count.cleared : c[1] = s
  /\ \A c \in count.cleared : \E j \in 1..i : log[j].kind = "CLEAR" /\ log[j].slot = c[1] /\ log[j].seq = c[2]

LEMMA TallyNext ==
  ASSUME NEW n \in Nat, NEW J \in SUBSET (1..n), NEW i \in 0..n
  PROVE  /\ Tally(J, i) \in Nat /\ Tally(J, 0) = 0 /\ Tally(J, n) = Cardinality(J)
         /\ Tally(J, i + 1) = Tally(J, i) + One(i + 1 \in J)
<1>1. J \in SUBSET Nat /\ i \in Nat /\ J \cap (1..n) = J
  <2>1. i \in Nat /\ \A j \in J : j \in 1..n /\ j \in Nat
    OBVIOUS
  <2>2. J \subseteq Nat /\ J \cap (1..n) = J
    BY <2>1
  <2> QED BY <2>1, <2>2
<1> QED BY <1>1, CountNext DEF Tally, One

LEMMA AgainIs ==
  ASSUME CensusAssumption, NEW log \in Seq(Events), InOrder(log), NEW from, NEW count \in Counts, NEW i \in 1..Len(log),
         TallyInv(from, log, count, i - 1)
  PROVE  Again(count, log[i]) <=> log[i].slot \in ClearedBy(log, i - 1)
<1>1. i \in DOMAIN log /\ i \in Nat /\ Len(log) \in Nat /\ DOMAIN log = 1..Len(log)
  OBVIOUS
<1>2. ASSUME Again(count, log[i]) PROVE log[i].slot \in ClearedBy(log, i - 1)
  <2>1. PICK c \in count.cleared : c[1] = log[i].slot
    BY <1>2 DEF Again
  <2>2. PICK j \in 1..(i - 1) : log[j].kind = "CLEAR" /\ log[j].slot = c[1]
    BY <2>1 DEF TallyInv
  <2> QED BY <2>1, <2>2 DEF ClearedBy
<1>3. ASSUME log[i].slot \in ClearedBy(log, i - 1) PROVE Again(count, log[i])
  <2>1. PICK c \in count.cleared : c[1] = log[i].slot
    BY <1>3 DEF TallyInv
  <2>2. PICK j \in 1..(i - 1) : log[j].slot = c[1] /\ log[j].seq = c[2]
    BY <2>1 DEF TallyInv
  <2>3. j \in DOMAIN log /\ j < i
    BY <1>1
  <2>4. log[j].seq < log[i].seq
    BY <1>1, <2>1, <2>2, <2>3 DEF InOrder
  <2> QED BY <2>1, <2>2, <2>4 DEF Again
<1> QED BY <1>2, <1>3

LEMMA TallyStep ==
  ASSUME CensusAssumption, NEW log \in Seq(Events), InOrder(log), NEW from \in Counts, NEW count \in Counts,
         NEW i \in 1..Len(log), TallyInv(from, log, count, i - 1)
  PROVE  TallyInv(from, log, Counted(count, log[i]), i)
<1> DEFINE n == Len(log)
           e == log[i]
           next == Counted(count, e)
<1>1. n \in Nat /\ DOMAIN log = 1..n /\ i \in 1..n /\ e \in Events /\ i - 1 \in 0..n /\ (i - 1) + 1 = i
  OBVIOUS
<1>2. /\ \A r \in Range(RootOf) : next.rows[r] = LogAdded(count.rows[r], count, e, r)
      /\ next.cleared = IF e.kind = "CREATE" THEN count.cleared
                        ELSE {c \in count.cleared : c[1] # e.slot} \cup {<<e.slot, e.seq>>}
  BY <1>1, CountedIs
<1>3. Again(count, e) <=> e.slot \in ClearedBy(log, i - 1)
  BY AgainIs
<1> HIDE DEF n, next
<1>4. ASSUME NEW r \in Range(RootOf) PROVE next.rows[r] = RowAfter(from.rows[r], log, r, i)
  <2> DEFINE T(J) == Tally(J, i) = Tally(J, i - 1) + One(i \in J) /\ Tally(J, i - 1) \in Nat
  <2>1. ASSUME NEW J \in SUBSET DOMAIN log PROVE T(J)
    <3>0. J \in SUBSET (1..n) /\ i - 1 \in 0..n /\ n \in Nat
      BY <1>1
    <3>1. Tally(J, i - 1) \in Nat /\ Tally(J, (i - 1) + 1) = Tally(J, i - 1) + One((i - 1) + 1 \in J)
      <4> HIDE DEF T
      <4> QED BY <3>0, TallyNext
    <3> QED BY <1>1, <3>1
  <2> DEFINE cr == CreatesIn(log, r)
             cl == ClearsIn(log, r)
             re == RecreatesIn(log, r)
             pr == PaidIn(log, r, "protocol")
             pl == PaidIn(log, r, "player")
  <2>2. T(cr) /\ T(cl) /\ T(re) /\ T(pr) /\ T(pl)
    <3>1. /\ cr \in SUBSET DOMAIN log /\ cl \in SUBSET DOMAIN log /\ re \in SUBSET DOMAIN log
          /\ pr \in SUBSET DOMAIN log /\ pl \in SUBSET DOMAIN log
      BY DEF CreatesIn, ClearsIn, RecreatesIn, PaidIn
    <3> HIDE DEF T, cr, cl, re, pr, pl
    <3> QED BY <2>1, <3>1
  <2>3. /\ i \in cr <=> e.kind = "CREATE" /\ RootOf[e.slot] = r
        /\ i \in cl <=> e.kind = "CLEAR" /\ RootOf[e.slot] = r
        /\ i \in re <=> e.kind = "CREATE" /\ RootOf[e.slot] = r /\ Again(count, e)
        /\ i \in pr <=> e.kind = "CREATE" /\ RootOf[e.slot] = r /\ e.payer = "protocol"
        /\ i \in pl <=> e.kind = "CREATE" /\ RootOf[e.slot] = r /\ e.payer = "player"
    BY <1>1, <1>3 DEF CreatesIn, ClearsIn, RecreatesIn, PaidIn
  <2>4. from.rows[r] \in CensusRow /\ count.rows[r] = RowAfter(from.rows[r], log, r, i - 1)
    BY DEF Counts, TallyInv
  <2> DEFINE row == from.rows[r]
  <2>5. RowIs(row)
    <3>1. row \in CensusRow
      BY <2>4
    <3> HIDE DEF row
    <3> QED BY <3>1 DEF CensusRow, RowIs
  <2>6. next.rows[r] = LogAdded(RowAfter(row, log, r, i - 1), count, e, r)
    BY <1>2, <2>4
  <2> HIDE DEF row, e, cr, cl, re, pr, pl
  <2>7. ASSUME NEW x \in Nat, NEW J, T(J) PROVE x + Tally(J, i) = (x + Tally(J, i - 1)) + One(i \in J)
    BY <2>7 DEF One
  <2>8. RowAfter(row, log, r, i) = LogAdded(RowAfter(row, log, r, i - 1), count, e, r)
    <3>1. /\ row.creates + Tally(cr, i) = (row.creates + Tally(cr, i - 1)) + One(i \in cr)
          /\ row.clears + Tally(cl, i) = (row.clears + Tally(cl, i - 1)) + One(i \in cl)
          /\ row.recreates + Tally(re, i) = (row.recreates + Tally(re, i - 1)) + One(i \in re)
          /\ row.protocol + Tally(pr, i) = (row.protocol + Tally(pr, i - 1)) + One(i \in pr)
          /\ row.player + Tally(pl, i) = (row.player + Tally(pl, i - 1)) + One(i \in pl)
      <4> HIDE DEF T
      <4> QED BY <2>2, <2>5, <2>7 DEF RowIs
    <3>2. /\ One(i \in cr) = One(e.kind = "CREATE" /\ RootOf[e.slot] = r)
          /\ One(i \in cl) = One(e.kind = "CLEAR" /\ RootOf[e.slot] = r)
          /\ One(i \in re) = One((e.kind = "CREATE" /\ RootOf[e.slot] = r) /\ Again(count, e))
          /\ One(i \in pr) = One((e.kind = "CREATE" /\ RootOf[e.slot] = r) /\ e.payer = "protocol")
          /\ One(i \in pl) = One((e.kind = "CREATE" /\ RootOf[e.slot] = r) /\ e.payer = "player")
      BY <2>3 DEF One
    <3> QED BY <3>1, <3>2, Zenon DEF RowAfter, LogAdded, cr, cl, re, pr, pl
  <2> QED BY <2>6, <2>8 DEF row
<1>5. \A s \in ClearedBy(log, i) : \E c \in next.cleared : c[1] = s
  <2>1. ASSUME NEW s \in ClearedBy(log, i) PROVE \E c \in next.cleared : c[1] = s
    <3>1. PICK j \in 1..i : log[j].kind = "CLEAR" /\ log[j].slot = s
      BY DEF ClearedBy
    <3>2. CASE j = i
      <4>1. <<e.slot, e.seq>> \in next.cleared /\ e.slot = s
        BY <1>2, <3>1, <3>2
      <4> QED BY <4>1
    <3>3. CASE j # i
      <4>1. s \in ClearedBy(log, i - 1)
        BY <1>1, <3>1, <3>3 DEF ClearedBy
      <4>2. PICK c \in count.cleared : c[1] = s
        BY <4>1 DEF TallyInv
      <4>3. CASE e.kind = "CREATE" \/ s # e.slot
        BY <1>2, <4>2, <4>3
      <4>4. CASE e.kind # "CREATE" /\ s = e.slot
        <5>1. <<e.slot, e.seq>> \in next.cleared
          BY <1>2, <4>4
        <5> QED BY <4>4, <5>1
      <4> QED BY <4>3, <4>4
    <3> QED BY <3>2, <3>3
  <2> QED BY <2>1
<1>6. \A c \in next.cleared : \E j \in 1..i : log[j].kind = "CLEAR" /\ log[j].slot = c[1] /\ log[j].seq = c[2]
  <2>1. ASSUME NEW c \in next.cleared PROVE \E j \in 1..i : log[j].kind = "CLEAR" /\ log[j].slot = c[1] /\ log[j].seq = c[2]
    <3>1. c \in count.cleared \/ (e.kind # "CREATE" /\ c = <<e.slot, e.seq>>)
      BY <1>2
    <3>2. CASE c \in count.cleared
      <4>1. PICK j \in 1..(i - 1) : log[j].kind = "CLEAR" /\ log[j].slot = c[1] /\ log[j].seq = c[2]
        BY <3>2 DEF TallyInv
      <4>2. j \in 1..i
        BY <1>1
      <4> QED BY <4>1, <4>2
    <3>3. CASE e.kind # "CREATE" /\ c = <<e.slot, e.seq>>
      <4>1. e.kind = "CLEAR" /\ i \in 1..i
        BY <1>1, <3>3 DEF Events
      <4> QED BY <3>3, <4>1
    <3> QED BY <3>1, <3>2, <3>3
  <2> QED BY <2>1
<1> QED BY <1>4, <1>5, <1>6 DEF TallyInv, next

\* What reading a whole log adds to each root's row.
LEMMA LogCounted ==
  ASSUME CensusAssumption, NEW log \in Seq(Events), InOrder(log), NEW from \in Counts, from.cleared = {}
  PROVE  LET end == Scanned(Counted, from, log)[Len(log)]
         IN  /\ end \in Counts
             /\ \A r \in Range(RootOf) : end.rows[r] =
                  [creates |-> from.rows[r].creates + Cardinality(CreatesIn(log, r)),
                   clears |-> from.rows[r].clears + Cardinality(ClearsIn(log, r)),
                   recreates |-> from.rows[r].recreates + Cardinality(RecreatesIn(log, r)),
                   protocol |-> from.rows[r].protocol + Cardinality(PaidIn(log, r, "protocol")),
                   player |-> from.rows[r].player + Cardinality(PaidIn(log, r, "player"))]
<1> DEFINE n == Len(log)
           at == Scanned(Counted, from, log)
<1>1. n \in Nat /\ DOMAIN log = 1..n
  OBVIOUS
<1>2. at[0] = from /\ (\A i \in 1..n : at[i] = Counted(at[i - 1], log[i])) /\ \A i \in 0..n : at[i] \in Counts
  BY CountedAlong
<1> HIDE DEF n, at
<1>3. ASSUME NEW r \in Range(RootOf)
      PROVE  /\ CreatesIn(log, r) \in SUBSET (1..n) /\ ClearsIn(log, r) \in SUBSET (1..n)
             /\ RecreatesIn(log, r) \in SUBSET (1..n) /\ PaidIn(log, r, "protocol") \in SUBSET (1..n)
             /\ PaidIn(log, r, "player") \in SUBSET (1..n)
  BY <1>1 DEF CreatesIn, ClearsIn, RecreatesIn, PaidIn
<1>4. \A J \in SUBSET (1..n) : Tally(J, 0) = 0 /\ Tally(J, n) = Cardinality(J)
  <2>1. ASSUME NEW J \in SUBSET (1..n) PROVE Tally(J, 0) = 0 /\ Tally(J, n) = Cardinality(J)
    <3>1. n \in Nat /\ 0 \in 0..n
      BY <1>1
    <3> QED BY <3>1, TallyNext
  <2> QED BY <2>1
<1>5. TallyInv(from, log, from, 0)
  <2>1. ASSUME NEW r \in Range(RootOf) PROVE from.rows[r] = RowAfter(from.rows[r], log, r, 0)
    <3> DEFINE row == from.rows[r]
    <3>1. row \in CensusRow
      BY DEF Counts
    <3> HIDE DEF row
    <3>2. RowIs(row)
      BY <3>1 DEF CensusRow, RowIs
    <3>3. row = RowAfter(row, log, r, 0)
      BY <1>3, <1>4, <3>2 DEF RowAfter, RowIs
    <3> QED BY <3>3 DEF row
  <2>2. ClearedBy(log, 0) = {}
    BY DEF ClearedBy
  <2> QED BY <2>1, <2>2 DEF TallyInv
<1>6. TallyInv(from, log, at[n], n)
  <2> DEFINE S == {i \in 0..n : TallyInv(from, log, at[i], i)}
  <2>1. 0 \in S
    BY <1>1, <1>2, <1>5
  <2>2. ASSUME NEW i \in 1..n, i - 1 \in S PROVE i \in S
    <3>1. i \in 1..Len(log) /\ at[i - 1] \in Counts /\ TallyInv(from, log, at[i - 1], i - 1) /\ at[i] = Counted(at[i - 1], log[i]) /\ i \in 0..n
      BY <1>1, <1>2, <2>2 DEF n
    <3> QED BY <3>1, TallyStep
  <2> HIDE DEF S
  <2>3. 0..n \subseteq S
    BY <1>1, <2>1, <2>2, EachUpTo
  <2>4. n \in S
    BY <1>1, <2>3
  <2> QED BY <2>4 DEF S
<1>7. ASSUME NEW r \in Range(RootOf)
      PROVE  RowAfter(from.rows[r], log, r, n) =
               [creates |-> from.rows[r].creates + Cardinality(CreatesIn(log, r)),
                clears |-> from.rows[r].clears + Cardinality(ClearsIn(log, r)),
                recreates |-> from.rows[r].recreates + Cardinality(RecreatesIn(log, r)),
                protocol |-> from.rows[r].protocol + Cardinality(PaidIn(log, r, "protocol")),
                player |-> from.rows[r].player + Cardinality(PaidIn(log, r, "player"))]
  BY <1>3, <1>4 DEF RowAfter
<1>8. at[n] \in Counts /\ \A r \in Range(RootOf) : at[n].rows[r] = RowAfter(from.rows[r], log, r, n)
  BY <1>1, <1>2, <1>6 DEF TallyInv
<1> QED BY <1>7, <1>8 DEF n, at

-----------------------------------------------------------------------------
(* A run and its log. *)

\* The slots of a root.
Own(r) == {s \in Slots : RootOf[s] = r}

\* Positions in a log that others precede; those of some slots.
Shifted(n, B) == {n + j : j \in B}
Positions(t, Y) == {j \in DOMAIN t : t[j].slot \in Y}

\* Positions of a list and of one that follows it.
LEMMA CountShifted ==
  ASSUME NEW n \in Nat, NEW A \in SUBSET (1..n), NEW B \in SUBSET (Nat \ {0}), IsFiniteSet(B)
  PROVE  /\ Cardinality(A \cup Shifted(n, B)) = Cardinality(A) + Cardinality(B)
         /\ Cardinality(A) \in Nat /\ Cardinality(B) \in Nat
<1> DEFINE f == [j \in B |-> n + j]
           C == {n + j : j \in B}
<1>1. IsFiniteSet(A) /\ IsFiniteSet(B)
  BY FiniteUpTo
<1>2. \A j \in B : j \in Nat /\ 1 <= j
  OBVIOUS
<1>3. DOMAIN f = B /\ \A a, b \in B : f[a] = f[b] => a = b
  BY <1>2
<1>4. C = {f[j] : j \in B}
  OBVIOUS
<1>5. A \cap C = {}
  <2>1. ASSUME NEW x \in A, x \in C PROVE FALSE
    <3>1. PICK j \in B : x = n + j
      BY <2>1
    <3> QED BY <1>2, <3>1
  <2> QED BY <2>1
<1> HIDE DEF f, C
<1>6. IsFiniteSet(C) /\ Cardinality(C) = Cardinality(B)
  <2>1. IsFiniteSet({f[j] : j \in B}) /\ Cardinality({f[j] : j \in B}) = Cardinality(B)
    BY <1>1, <1>3, CountImage
  <2> QED BY <1>4, <2>1
<1>7. Cardinality(A \cup C) = Cardinality(A) + Cardinality(C) /\ Cardinality(A) \in Nat /\ Cardinality(C) \in Nat
  BY <1>1, <1>5, <1>6, CountBoth
<1> QED BY <1>6, <1>7 DEF C, Shifted

\* A list of the events of one transaction: each changed slot at one position.
Lists(t, run, changed, payer) ==
  /\ t \in Seq(Events)
  /\ \A j \in DOMAIN t : t[j].slot \in changed /\ t[j] = Event(run, t[j].slot, payer)
  /\ \A i, j \in DOMAIN t : t[i].slot = t[j].slot => i = j
  /\ \A s \in changed : \E j \in DOMAIN t : t[j].slot = s

LEMMA EventsListed ==
  ASSUME CensusAssumption, NEW run, run.txs \in Nat, NEW changed \in SUBSET Slots, NEW payer \in Payers
  PROVE  Lists(SetToSeq({Event(run, s, payer) : s \in changed}), run, changed, payer)
<1> DEFINE event == [s \in changed |-> Event(run, s, payer)]
           E == {Event(run, s, payer) : s \in changed}
           t == SetToSeq(E)
<1>1. \A s \in changed : Event(run, s, payer) \in Events /\ Event(run, s, payer).slot = s
  BY DEF Event, Events
<1>2. IsFiniteSet(changed)
  BY FS_Subset DEF CensusAssumption
<1>3. DOMAIN event = changed /\ (\A a, b \in changed : event[a] = event[b] => a = b) /\ E = {event[s] : s \in changed}
  BY <1>1
<1> HIDE DEF event
<1>4. IsFiniteSet(E)
  <2>1. IsFiniteSet({event[s] : s \in changed})
    BY <1>2, <1>3, CountImage
  <2> QED BY <1>3, <2>1
<1> HIDE DEF E
<1>5. /\ t \in Seq(E)
      /\ \A i, j \in DOMAIN t : t[i] = t[j] => i = j
      /\ \A e \in E : \E j \in DOMAIN t : t[j] = e
  BY <1>4, ListIs
<1> HIDE DEF t
<1>6. \A j \in DOMAIN t : t[j] \in E
  BY <1>5
<1>7. \A j \in DOMAIN t : t[j] \in Events /\ t[j].slot \in changed /\ t[j] = Event(run, t[j].slot, payer)
  BY <1>1, <1>6 DEF E
<1>8. t \in Seq(Events)
  BY <1>1, <1>5 DEF E
<1>9. \A i, j \in DOMAIN t : t[i].slot = t[j].slot => i = j
  BY <1>5, <1>7
<1>10. \A s \in changed : \E j \in DOMAIN t : t[j].slot = s
  <2>1. ASSUME NEW s \in changed PROVE \E j \in DOMAIN t : t[j].slot = s
    <3>1. Event(run, s, payer) \in E
      BY DEF E
    <3> QED BY <1>1, <1>5, <3>1
  <2> QED BY <2>1
<1> QED BY <1>7, <1>8, <1>9, <1>10 DEF Lists, t, E

\* As many positions as slots.
LEMMA ListedCount ==
  ASSUME CensusAssumption, NEW run, NEW changed \in SUBSET Slots, NEW payer, NEW t, Lists(t, run, changed, payer),
         NEW Y \in SUBSET changed
  PROVE  Cardinality(Positions(t, Y)) = Cardinality(Y)
<1> DEFINE J == {j \in DOMAIN t : t[j].slot \in Y}
           f == [j \in J |-> t[j].slot]
<1>1. IsFiniteSet(J)
  <2>1. DOMAIN t = 1..Len(t) /\ Len(t) \in Nat
    BY DEF Lists
  <2> QED BY <2>1, FiniteUpTo
<1>2. DOMAIN f = J /\ \A a, b \in J : f[a] = f[b] => a = b
  BY DEF Lists
<1>3. {f[j] : j \in J} = Y
  <2>1. \A j \in J : f[j] \in Y
    OBVIOUS
  <2>2. \A s \in Y : \E j \in J : f[j] = s
    BY DEF Lists
  <2> HIDE DEF f, J
  <2> QED BY <2>1, <2>2
<1> HIDE DEF f, J
<1>4. Cardinality({f[j] : j \in J}) = Cardinality(J)
  BY <1>1, <1>2, CountImage
<1> QED BY <1>3, <1>4 DEF J, Positions

LEMMA ListedIn ==
  ASSUME CensusAssumption, NEW run, NEW changed \in SUBSET Slots, NEW payer, NEW t, Lists(t, run, changed, payer), NEW r
  PROVE  /\ CreatesIn(t, r) = Positions(t, (changed \ run.set) \cap Own(r))
         /\ ClearsIn(t, r) = Positions(t, changed \cap run.set \cap Own(r))
<1>1. \A j \in DOMAIN t : /\ t[j].slot \in changed /\ t[j].slot \in Slots
                          /\ t[j].kind = IF t[j].slot \in run.set THEN "CLEAR" ELSE "CREATE"
  BY DEF Lists, Event
<1> QED BY <1>1 DEF CreatesIn, ClearsIn, Own, Positions

\* Two logs, one after the other.
LEMMA LogsJoin ==
  ASSUME NEW log \in Seq(Events), NEW t \in Seq(Events)
  PROVE  /\ log \o t \in Seq(Events) /\ Len(log \o t) = Len(log) + Len(t)
         /\ Len(log) \in Nat /\ Len(t) \in Nat
         /\ DOMAIN log = 1..Len(log) /\ DOMAIN t = 1..Len(t) /\ DOMAIN (log \o t) = 1..(Len(log) + Len(t))
         /\ \A i \in 1..Len(log) : i \in DOMAIN (log \o t) /\ (log \o t)[i] = log[i]
         /\ \A j \in 1..Len(t) : Len(log) + j \in DOMAIN (log \o t) /\ (log \o t)[Len(log) + j] = t[j]
         /\ \A i \in DOMAIN (log \o t) : i \in 1..Len(log) \/ \E j \in 1..Len(t) : i = Len(log) + j
<1> DEFINE n == Len(log)
           m == Len(t)
<1>1. /\ log \o t \in Seq(Events) /\ Len(log \o t) = n + m /\ n \in Nat /\ m \in Nat
      /\ DOMAIN log = 1..n /\ DOMAIN t = 1..m /\ DOMAIN (log \o t) = 1..(n + m)
  OBVIOUS
<1>2. \A i \in 1..n : i \in 1..(n + m) /\ (log \o t)[i] = log[i]
  OBVIOUS
<1>3. \A j \in 1..m : n + j \in 1..(n + m) /\ (log \o t)[n + j] = t[j]
  OBVIOUS
<1>4. \A i \in 1..(n + m) : i \in 1..n \/ \E j \in 1..m : i = n + j
  <2>1. ASSUME NEW i \in 1..(n + m), i \notin 1..n PROVE i - n \in 1..m /\ i = n + (i - n)
    <3> HIDE DEF n, m
    <3> QED BY <1>1, <2>1
  <2> QED BY <2>1
<1> QED BY <1>1, <1>2, <1>3, <1>4

\* A root's positions in two logs, one after the other.
JoinedAt(both, log, t, r) ==
  LET n == Len(log) IN
  /\ CreatesIn(both, r) = CreatesIn(log, r) \cup Shifted(n, CreatesIn(t, r))
  /\ ClearsIn(both, r) = ClearsIn(log, r) \cup Shifted(n, ClearsIn(t, r))
  /\ RecreatesIn(both, r) =
       RecreatesIn(log, r) \cup Shifted(n, CreatesIn(t, r) \cap Positions(t, ClearedBy(log, n)))

LEMMA JoinedIn ==
  ASSUME CensusAssumption, NEW log \in Seq(Events), NEW run, NEW changed \in SUBSET Slots, NEW payer, NEW t,
         Lists(t, run, changed, payer)
  PROVE  /\ ClearedBy(log \o t, Len(log \o t)) = ClearedBy(log, Len(log)) \cup (changed \cap run.set)
         /\ \A r : JoinedAt(log \o t, log, t, r)
<1> DEFINE n == Len(log)
           m == Len(t)
           both == log \o t
<1>0. t \in Seq(Events)
  BY DEF Lists
<1>1. /\ n \in Nat /\ m \in Nat /\ Len(both) = n + m
      /\ DOMAIN log = 1..n /\ DOMAIN t = 1..m /\ DOMAIN both = 1..(n + m)
      /\ \A i \in 1..n : i \in DOMAIN both /\ both[i] = log[i]
      /\ \A j \in 1..m : n + j \in DOMAIN both /\ both[n + j] = t[j]
      /\ \A i \in DOMAIN both : i \in 1..n \/ \E j \in 1..m : i = n + j
  BY <1>0, LogsJoin
<1> HIDE DEF n, m, both
<1>2. \A j \in 1..m : t[j].slot \in changed /\ (t[j].kind = "CLEAR" <=> t[j].slot \in run.set)
  <2>1. ASSUME NEW j \in 1..m PROVE t[j].slot \in changed /\ (t[j].kind = "CLEAR" <=> t[j].slot \in run.set)
    <3>1. t[j].slot \in changed /\ t[j] = Event(run, t[j].slot, payer)
      BY <1>1 DEF Lists
    <3>2. t[j].kind = IF t[j].slot \in run.set THEN "CLEAR" ELSE "CREATE"
      BY <3>1 DEF Event
    <3> QED BY <3>1, <3>2
  <2> QED BY <2>1
<1> DEFINE At(l, kind, r) == {i \in DOMAIN l : l[i].kind = kind /\ RootOf[l[i].slot] = r}
<1>k. ASSUME NEW kind, NEW r PROVE At(both, kind, r) = At(log, kind, r) \cup {n + j : j \in At(t, kind, r)}
  <2>1. ASSUME NEW i \in At(both, kind, r) PROVE i \in At(log, kind, r) \cup {n + j : j \in At(t, kind, r)}
    <3>1. CASE i \in 1..n
      BY <1>1, <3>1
    <3>2. CASE i \notin 1..n
      <4>1. PICK j \in 1..m : i = n + j
        BY <1>1, <3>2
      <4>2. both[n + j] = t[j] /\ j \in DOMAIN t
        BY <1>1
      <4>3. j \in At(t, kind, r)
        BY <4>1, <4>2
      <4> HIDE DEF At
      <4> QED BY <4>1, <4>3
    <3> QED BY <3>1, <3>2
  <2>2. ASSUME NEW i \in At(log, kind, r) PROVE i \in At(both, kind, r)
    BY <1>1
  <2>3. ASSUME NEW j \in At(t, kind, r) PROVE n + j \in At(both, kind, r)
    <3>1. both[n + j] = t[j] /\ n + j \in DOMAIN both
      BY <1>1
    <3> QED BY <3>1
  <2> HIDE DEF At
  <2> QED BY <2>1, <2>2, <2>3
<1>3. ASSUME NEW r PROVE CreatesIn(both, r) = CreatesIn(log, r) \cup Shifted(n, CreatesIn(t, r))
  <2>1. \A l : CreatesIn(l, r) = At(l, "CREATE", r)
    BY DEF CreatesIn
  <2> HIDE DEF At
  <2> QED BY <1>k, <2>1 DEF Shifted
<1>4. ASSUME NEW r PROVE ClearsIn(both, r) = ClearsIn(log, r) \cup Shifted(n, ClearsIn(t, r))
  <2>1. \A l : ClearsIn(l, r) = At(l, "CLEAR", r)
    BY DEF ClearsIn
  <2> HIDE DEF At
  <2> QED BY <1>k, <2>1 DEF Shifted
<1> HIDE DEF At
<1>5. ASSUME NEW i \in 0..n PROVE ClearedBy(both, i) = ClearedBy(log, i)
  <2>1. \A j \in 1..i : both[j] = log[j]
    BY <1>1
  <2> QED BY <2>1 DEF ClearedBy
<1>6. ASSUME NEW j \in 0..m
      PROVE  ClearedBy(both, n + j) = ClearedBy(log, n) \cup {t[k].slot : k \in {k \in 1..j : t[k].kind = "CLEAR"}}
  <2>1. \A k \in 1..j : k \in 1..m /\ n + k \in 1..(n + j) /\ both[n + k] = t[k]
    BY <1>1
  <2>2. \A i \in 1..n : i \in 1..(n + j) /\ both[i] = log[i]
    BY <1>1
  <2>3. \A i \in 1..(n + j) : i \in 1..n \/ \E k \in 1..j : i = n + k
    <3>1. ASSUME NEW i \in 1..(n + j), i \notin 1..n PROVE i - n \in 1..j /\ i = n + (i - n)
      BY <1>1, <3>1
    <3> QED BY <3>1
  <2>4. ASSUME NEW s \in ClearedBy(both, n + j)
        PROVE  s \in ClearedBy(log, n) \cup {t[k].slot : k \in {k \in 1..j : t[k].kind = "CLEAR"}}
    <3>1. PICK i \in 1..(n + j) : both[i].kind = "CLEAR" /\ both[i].slot = s
      BY DEF ClearedBy
    <3>2. CASE i \in 1..n
      <4>1. log[i].kind = "CLEAR" /\ log[i].slot = s
        BY <2>2, <3>1, <3>2
      <4>2. s \in ClearedBy(log, n)
        BY <3>2, <4>1 DEF ClearedBy
      <4> QED BY <4>2
    <3>3. ASSUME NEW k \in 1..j, i = n + k
          PROVE  s \in {t[l].slot : l \in {l \in 1..j : t[l].kind = "CLEAR"}}
      <4>1. t[k].kind = "CLEAR" /\ t[k].slot = s
        BY <2>1, <3>1, <3>3
      <4> QED BY <4>1
    <3> QED BY <2>3, <3>2, <3>3
  <2>5. ASSUME NEW s \in ClearedBy(log, n) PROVE s \in ClearedBy(both, n + j)
    BY <2>2 DEF ClearedBy
  <2>6. ASSUME NEW k \in 1..j, t[k].kind = "CLEAR" PROVE t[k].slot \in ClearedBy(both, n + j)
    BY <2>1, <2>6 DEF ClearedBy
  <2> QED BY <2>4, <2>5, <2>6
<1>7. ClearedBy(both, n + m) = ClearedBy(log, n) \cup (changed \cap run.set)
  <2>1. m \in 0..m
    BY <1>1
  <2>2. {t[k].slot : k \in {k \in 1..m : t[k].kind = "CLEAR"}} = changed \cap run.set
    <3>1. ASSUME NEW k \in 1..m, t[k].kind = "CLEAR" PROVE t[k].slot \in changed \cap run.set
      BY <1>2, <3>1
    <3>2. ASSUME NEW s \in changed \cap run.set PROVE \E k \in 1..m : t[k].kind = "CLEAR" /\ t[k].slot = s
      <4>1. PICK k \in 1..m : t[k].slot = s
        BY <1>1 DEF Lists
      <4> QED BY <1>2, <4>1
    <3> QED BY <3>1, <3>2
  <2> QED BY <1>6, <2>1, <2>2
<1>8. ASSUME NEW r
      PROVE  RecreatesIn(both, r) = RecreatesIn(log, r) \cup
               Shifted(n, CreatesIn(t, r) \cap Positions(t, ClearedBy(log, n)))
  <2>1. ASSUME NEW i \in CreatesIn(log, r)
        PROVE  both[i].slot \in ClearedBy(both, i - 1) <=> log[i].slot \in ClearedBy(log, i - 1)
    <3>1. i \in 1..n /\ i - 1 \in 0..n /\ both[i] = log[i]
      BY <1>1 DEF CreatesIn
    <3> QED BY <1>5, <3>1
  <2>2. ASSUME NEW j \in CreatesIn(t, r)
        PROVE  both[n + j].slot \in ClearedBy(both, (n + j) - 1) <=> t[j].slot \in ClearedBy(log, n)
    <3>1. j \in 1..m /\ j - 1 \in 0..m /\ both[n + j] = t[j] /\ (n + j) - 1 = n + (j - 1)
      BY <1>1 DEF CreatesIn
    <3>2. \A k \in 1..(j - 1) : k \in 1..m /\ k # j
      BY <1>1, <3>1
    <3>3. \A k \in 1..(j - 1) : t[k].slot # t[j].slot
      BY <1>1, <3>1, <3>2 DEF Lists
    <3>4. ClearedBy(both, n + (j - 1)) = ClearedBy(log, n) \cup {t[k].slot : k \in {k \in 1..(j - 1) : t[k].kind = "CLEAR"}}
      BY <1>6, <3>1
    <3> QED BY <3>1, <3>3, <3>4
  <2>3. CreatesIn(log, r) \subseteq 1..n /\ CreatesIn(t, r) \subseteq 1..m
    BY <1>1 DEF CreatesIn
  <2>4. \A j \in CreatesIn(t, r) : j \in Positions(t, ClearedBy(log, n)) <=> t[j].slot \in ClearedBy(log, n)
    BY DEF CreatesIn, Positions
  <2> QED BY <1>3, <2>1, <2>2, <2>4 DEF RecreatesIn, Shifted
<1> QED BY <1>1, <1>3, <1>4, <1>7, <1>8 DEF n, m, both, JoinedAt

\* What is true of a run however long its log is: what a root's slots started with and were given less what was
\* cleared is what they have; creates again are as the run remembers; every event is of one of its transactions.
RunInv(run) ==
  /\ run.txs \in Nat /\ run.start \in SUBSET Slots /\ run.set \in SUBSET Slots /\ run.again \in [Slots -> Nat]
  /\ run.log \in Seq(Events) /\ InOrder(run.log) /\ \A i \in DOMAIN run.log : run.log[i].seq < run.txs
  /\ run.cleared = ClearedBy(run.log, Len(run.log))
  /\ \A r : /\ Cardinality(CreatesIn(run.log, r)) + Cardinality(run.start \cap Own(r))
                 = Cardinality(ClearsIn(run.log, r)) + Cardinality(run.set \cap Own(r))
            /\ Cardinality(RecreatesIn(run.log, r)) = Total([s \in Own(r) |-> run.again[s]])

LEMMA NewRunHolds ==
  ASSUME CensusAssumption, NEW scenario, NEW set \in SUBSET Slots
  PROVE  RunInv(NewRun(scenario, set))
<1> DEFINE run == NewRun(scenario, set)
<1>1. /\ run.txs = 0 /\ run.start = set /\ run.set = set /\ run.again = [s \in Slots |-> 0]
      /\ run.log = <<>> /\ run.cleared = {}
  BY DEF NewRun
<1> HIDE DEF run
<1>2. run.again \in [Slots -> Nat] /\ run.log \in Seq(Events) /\ DOMAIN run.log = {} /\ Len(run.log) = 0
  BY <1>1
<1>3. InOrder(run.log) /\ \A i \in DOMAIN run.log : run.log[i].seq < run.txs
  BY <1>2 DEF InOrder
<1>4. ClearedBy(run.log, 0) = {}
  BY DEF ClearedBy
<1>5. ASSUME NEW r
      PROVE  /\ Cardinality(CreatesIn(run.log, r)) + Cardinality(run.start \cap Own(r))
                  = Cardinality(ClearsIn(run.log, r)) + Cardinality(run.set \cap Own(r))
             /\ Cardinality(RecreatesIn(run.log, r)) = Total([s \in Own(r) |-> run.again[s]])
  <2>1. CreatesIn(run.log, r) = {} /\ ClearsIn(run.log, r) = {} /\ RecreatesIn(run.log, r) = {}
    BY <1>2 DEF CreatesIn, ClearsIn, RecreatesIn
  <2>2. \A s \in Own(r) : run.again[s] = 0
    BY <1>1 DEF Own
  <2> DEFINE f == [s \in Own(r) |-> run.again[s]]
  <2>3. \A s \in DOMAIN f : f[s] = 0
    BY <2>2
  <2> HIDE DEF f
  <2>4. Total(f) = 0
    BY <2>3, TotalOfNone
  <2> QED BY <1>1, <2>1, <2>4, FS_EmptySet DEF f
<1> QED BY <1>1, <1>2, <1>3, <1>4, <1>5 DEF RunInv, run

LEMMA TransactHolds ==
  ASSUME CensusAssumption, NEW run, RunInv(run), NEW changed \in SUBSET Slots, NEW payer \in Payers
  PROVE  RunInv(Transact(run, changed, payer))
<1> DEFINE next == Transact(run, changed, payer)
           t == SetToSeq({Event(run, s, payer) : s \in changed})
           n == Len(run.log)
           created == (changed \ run.set) \cap run.cleared
<1>1. Lists(t, run, changed, payer)
  BY EventsListed DEF RunInv
<1>2. /\ next.txs = run.txs + 1 /\ next.start = run.start /\ next.set = (run.set \ changed) \cup (changed \ run.set)
      /\ next.log = run.log \o t /\ next.cleared = run.cleared \cup (changed \cap run.set)
      /\ next.again = [s \in Slots |-> run.again[s] + IF s \in created THEN 1 ELSE 0]
  BY DEF Transact
<1> HIDE DEF next, t, n, created
<1>3. t \in Seq(Events) /\ run.log \in Seq(Events)
  BY <1>1 DEF Lists, RunInv
<1>4. /\ next.log \in Seq(Events) /\ Len(next.log) = n + Len(t)
      /\ n \in Nat /\ Len(t) \in Nat
      /\ DOMAIN run.log = 1..n /\ DOMAIN t = 1..Len(t) /\ DOMAIN next.log = 1..(n + Len(t))
      /\ \A i \in 1..n : i \in DOMAIN next.log /\ next.log[i] = run.log[i]
      /\ \A j \in 1..Len(t) : n + j \in DOMAIN next.log /\ next.log[n + j] = t[j]
      /\ \A i \in DOMAIN next.log : i \in 1..n \/ \E j \in 1..Len(t) : i = n + j
  BY <1>2, <1>3, LogsJoin DEF n
<1>5. \A j \in 1..Len(t) : t[j].seq = run.txs
  BY <1>1, <1>4 DEF Lists, Event
<1>6. run.txs \in Nat /\ \A i \in 1..n : run.log[i].seq < run.txs /\ run.log[i].seq \in Nat
  <2>1. run.txs \in Nat /\ \A i \in 1..n : run.log[i].seq < run.txs
    BY <1>4 DEF RunInv
  <2>2. \A i \in 1..n : run.log[i] \in Events
    BY <1>3, <1>4
  <2> QED BY <2>1, <2>2 DEF Events
<1>7. next.txs \in Nat /\ next.start \in SUBSET Slots /\ next.set \in SUBSET Slots /\ next.again \in [Slots -> Nat]
  BY <1>2 DEF RunInv
<1>8. \A i \in DOMAIN next.log : next.log[i].seq < next.txs
  <2>1. ASSUME NEW i \in DOMAIN next.log PROVE next.log[i].seq < next.txs
    <3>1. CASE i \in 1..n
      BY <1>2, <1>4, <1>6, <3>1
    <3>2. CASE i \notin 1..n
      <4>1. PICK j \in 1..Len(t) : i = n + j
        BY <1>4, <3>2
      <4>2. next.log[i] = t[j]
        BY <1>4, <4>1
      <4> QED BY <1>2, <1>5, <1>6, <4>2
    <3> QED BY <3>1, <3>2
  <2> QED BY <2>1
<1>9. InOrder(next.log)
  <2>1. SUFFICES ASSUME NEW i \in DOMAIN next.log, NEW k \in DOMAIN next.log, i < k,
                        next.log[i].slot = next.log[k].slot
                 PROVE  next.log[i].seq < next.log[k].seq
    BY DEF InOrder
  <2>2. CASE k \in 1..n
    <3>1. i \in 1..n
      BY <1>4, <2>1, <2>2
    <3> QED BY <1>4, <2>1, <2>2, <3>1 DEF InOrder, RunInv
  <2>3. CASE k \notin 1..n
    <3>1. PICK j \in 1..Len(t) : k = n + j
      BY <1>4, <2>3
    <3>2. next.log[k] = t[j]
      BY <1>4, <3>1
    <3>3. CASE i \in 1..n
      BY <1>4, <1>5, <1>6, <3>2, <3>3
    <3>4. CASE i \notin 1..n
      <4>1. PICK l \in 1..Len(t) : i = n + l
        BY <1>4, <3>4
      <4>2. next.log[i] = t[l]
        BY <1>4, <4>1
      <4>3. l = j
        <5>1. t[l].slot = t[j].slot /\ l \in DOMAIN t /\ j \in DOMAIN t
          BY <1>4, <2>1, <3>2, <4>2
        <5>2. \A a, b \in DOMAIN t : t[a].slot = t[b].slot => a = b
          BY <1>1 DEF Lists
        <5> QED BY <5>1, <5>2
      <4> QED BY <1>4, <2>1, <3>1, <4>1, <4>3
    <3> QED BY <3>3, <3>4
  <2> QED BY <2>2, <2>3
<1>10. /\ ClearedBy(next.log, Len(next.log)) = ClearedBy(run.log, n) \cup (changed \cap run.set)
       /\ \A r : JoinedAt(next.log, run.log, t, r)
  <2>1. /\ ClearedBy(run.log \o t, Len(run.log \o t)) = ClearedBy(run.log, Len(run.log)) \cup (changed \cap run.set)
        /\ \A r : JoinedAt(run.log \o t, run.log, t, r)
    BY <1>1, <1>3, JoinedIn
  <2> QED BY <1>2, <2>1 DEF n
<1>11. run.cleared = ClearedBy(run.log, n) /\ next.cleared = ClearedBy(next.log, Len(next.log))
  BY <1>2, <1>10 DEF RunInv, n
<1>12. ASSUME NEW r
       PROVE  /\ Cardinality(CreatesIn(next.log, r)) + Cardinality(next.start \cap Own(r))
                   = Cardinality(ClearsIn(next.log, r)) + Cardinality(next.set \cap Own(r))
              /\ Cardinality(RecreatesIn(next.log, r)) = Total([s \in Own(r) |-> next.again[s]])
  <2> DEFINE new == (changed \ run.set) \cap Own(r)
             old == changed \cap run.set \cap Own(r)
             stay == (run.set \ changed) \cap Own(r)
             made == created \cap Own(r)
  <2>1. /\ new \in SUBSET changed /\ old \in SUBSET changed /\ made \in SUBSET changed
        /\ new \in SUBSET Slots /\ old \in SUBSET Slots /\ stay \in SUBSET Slots /\ made \in SUBSET Own(r)
        /\ Own(r) \in SUBSET Slots /\ run.start \cap Own(r) \in SUBSET Slots
        /\ run.set \cap Own(r) = stay \cup old /\ next.set \cap Own(r) = stay \cup new
        /\ stay \cap old = {} /\ stay \cap new = {}
    BY <1>2 DEF created, Own, RunInv
  <2>2. \A S \in SUBSET Slots : IsFiniteSet(S) /\ Cardinality(S) \in Nat
    BY FS_Subset, FS_CardinalityType DEF CensusAssumption
  <2>3. CreatesIn(t, r) = Positions(t, new) /\ ClearsIn(t, r) = Positions(t, old)
    BY <1>1, ListedIn
  <2>4. CreatesIn(t, r) \cap Positions(t, ClearedBy(run.log, n)) = Positions(t, made)
    BY <1>11, <2>3 DEF created, Positions
  <2>5. ASSUME NEW Y \in SUBSET changed
        PROVE  Cardinality(Positions(t, Y)) = Cardinality(Y) /\ Positions(t, Y) \in SUBSET (1..Len(t))
    <3>1. Cardinality(Positions(t, Y)) = Cardinality(Y)
      BY <1>1, ListedCount
    <3> QED BY <1>4, <3>1 DEF Positions
  <2>j. /\ CreatesIn(next.log, r) = CreatesIn(run.log, r) \cup Shifted(n, CreatesIn(t, r))
        /\ ClearsIn(next.log, r) = ClearsIn(run.log, r) \cup Shifted(n, ClearsIn(t, r))
        /\ RecreatesIn(next.log, r) =
             RecreatesIn(run.log, r) \cup Shifted(n, CreatesIn(t, r) \cap Positions(t, ClearedBy(run.log, n)))
    BY <1>10, Zenon DEF JoinedAt, n
  <2>6. /\ CreatesIn(run.log, r) \in SUBSET (1..n) /\ ClearsIn(run.log, r) \in SUBSET (1..n)
        /\ RecreatesIn(run.log, r) \in SUBSET (1..n)
    BY <1>4 DEF CreatesIn, ClearsIn, RecreatesIn
  <2>7. ASSUME NEW A \in SUBSET (1..n), NEW Y \in SUBSET changed
        PROVE  Cardinality(A \cup Shifted(n, Positions(t, Y))) = Cardinality(A) + Cardinality(Y) /\ Cardinality(A) \in Nat
    <3>1. Positions(t, Y) \in SUBSET (Nat \ {0}) /\ IsFiniteSet(Positions(t, Y)) /\ n \in Nat
      <4>1. Positions(t, Y) \in SUBSET (1..Len(t)) /\ n \in Nat /\ Len(t) \in Nat
        BY <1>4, <2>5
      <4>2. \A j \in 1..Len(t) : j \in Nat \ {0}
        BY <4>1
      <4> QED BY <4>1, <4>2, FiniteUpTo
    <3>2. Cardinality(Positions(t, Y)) = Cardinality(Y)
      BY <2>5
    <3>3. /\ Cardinality(A \cup Shifted(n, Positions(t, Y))) = Cardinality(A) + Cardinality(Positions(t, Y))
          /\ Cardinality(A) \in Nat
      BY <3>1, CountShifted
    <3> QED BY <3>2, <3>3
  <2> HIDE DEF new, old, stay, made
  <2>8. Cardinality(stay \cup old) = Cardinality(stay) + Cardinality(old)
    BY <2>1, <2>2, CountBoth
  <2>9. Cardinality(stay \cup new) = Cardinality(stay) + Cardinality(new)
    BY <2>1, <2>2, CountBoth
  <2>10. Cardinality(CreatesIn(next.log, r)) = Cardinality(CreatesIn(run.log, r)) + Cardinality(new)
    BY <2>j, <2>1, <2>3, <2>6, <2>7
  <2>11. Cardinality(ClearsIn(next.log, r)) = Cardinality(ClearsIn(run.log, r)) + Cardinality(old)
    BY <2>j, <2>1, <2>3, <2>6, <2>7
  <2>12. Cardinality(RecreatesIn(next.log, r)) = Cardinality(RecreatesIn(run.log, r)) + Cardinality(made)
    BY <2>j, <2>1, <2>4, <2>6, <2>7
  <2>13. /\ Cardinality(CreatesIn(run.log, r)) + Cardinality(run.start \cap Own(r))
              = Cardinality(ClearsIn(run.log, r)) + Cardinality(run.set \cap Own(r))
         /\ Cardinality(RecreatesIn(run.log, r)) = Total([s \in Own(r) |-> run.again[s]])
    BY DEF RunInv
  <2>14. Cardinality(CreatesIn(run.log, r)) \in Nat /\ Cardinality(ClearsIn(run.log, r)) \in Nat
         /\ Cardinality(run.start \cap Own(r)) \in Nat /\ Cardinality(new) \in Nat /\ Cardinality(old) \in Nat
         /\ Cardinality(stay) \in Nat
    BY <2>1, <2>2, <2>6, <2>7
  <2>15. Cardinality(CreatesIn(next.log, r)) + Cardinality(next.start \cap Own(r))
           = Cardinality(ClearsIn(next.log, r)) + Cardinality(next.set \cap Own(r))
    <3>1. next.start = run.start
      BY <1>2
    <3>2. Cardinality(next.set \cap Own(r)) = Cardinality(stay) + Cardinality(new)
      BY <2>1, <2>9
    <3>3. Cardinality(run.set \cap Own(r)) = Cardinality(stay) + Cardinality(old)
      BY <2>1, <2>8
    <3> QED BY <2>10, <2>11, <2>13, <2>14, <3>1, <3>2, <3>3
  <2>16. Total([s \in Own(r) |-> next.again[s]]) = Total([s \in Own(r) |-> run.again[s]]) + Cardinality(made)
    <3> DEFINE f == [s \in Own(r) |-> run.again[s]]
               g == [s \in Own(r) |-> f[s] + IF s \in made THEN 1 ELSE 0]
    <3>1. f \in [Own(r) -> Nat] /\ IsFiniteSet(Own(r))
      BY <2>1, <2>2 DEF RunInv
    <3>2. [s \in Own(r) |-> next.again[s]] = g
      BY <1>2, <2>1 DEF made
    <3> HIDE DEF f
    <3>3. Total(g) = Total(f) + Cardinality(made)
      BY <2>1, <3>1, TotalPlus
    <3> QED BY <3>2, <3>3 DEF f
  <2> QED BY <2>12, <2>13, <2>15, <2>16
<1> QED BY <1>4, <1>7, <1>8, <1>9, <1>11, <1>12 DEF RunInv, next

\* A remainder.
LEMMA RestIs ==
  ASSUME NEW w \in Nat \ {0}, NEW x \in Nat
  PROVE  \E q \in Nat, e \in 0..(w - 1) : x = q * w + e /\ q = x \div w /\ e = x % w
<1>1. x \div w \in Nat
  BY DivIs
<1>2. \E e \in 0..(w - 1) : e = x % w
  OBVIOUS
<1>3. ASSUME NEW q \in Nat, q = x \div w PROVE x % w = x - w * q
  BY <1>3
<1>4. ASSUME NEW q \in Nat, NEW e \in 0..(w - 1), e = x - w * q PROVE x = q * w + e
  BY <1>4
<1>5. PICK q \in Nat : q = x \div w
  BY <1>1
<1>6. PICK e \in 0..(w - 1) : e = x % w
  BY <1>2
<1>7. x = q * w + e
  BY <1>3, <1>4, <1>5, <1>6
<1> QED BY <1>5, <1>6, <1>7

\* The window a day is in.
LEMMA WindowIs ==
  ASSUME NEW w \in Nat \ {0}, NEW q \in Nat
  PROVE  LET b == (q \div w) * w
         IN  /\ b \in Nat /\ b <= q /\ q < b + w /\ b % w = 0
             /\ \A d \in Nat : d % w = 0 /\ d <= q /\ q < d + w => d = b
<1> DEFINE b == (q \div w) * w
<1>1. q \div w \in Nat /\ b \in Nat /\ b <= q /\ q < b + w
  BY DivIs
<1>3. ASSUME NEW d \in Nat, d % w = 0, d <= q, q < d + w PROVE d = b
  <2>1. PICK i \in Nat : d = i * w
    <3>1. PICK i \in Nat, e \in 0..(w - 1) : d = i * w + e /\ e = d % w
      BY RestIs
    <3>2. e = 0 /\ i * w \in Nat
      BY <1>3, <3>1
    <3> QED BY <3>1, <3>2
  <2>2. PICK m \in 1..w : q = i * w + m - 1
    <3>1. q - d + 1 \in 1..w /\ q = d + (q - d + 1) - 1
      BY <1>3
    <3> QED BY <2>1, <3>1
  <2>3. PICK n \in 1..w : q = b + n - 1
    <3>1. q - b + 1 \in 1..w /\ q = b + (q - b + 1) - 1
      <4> HIDE DEF b
      <4> QED BY <1>1
    <3> QED BY <3>1
  <2>4. i * w + m = (q \div w) * w + n
    <3>1. i * w \in Nat
      OBVIOUS
    <3> QED BY <1>1, <2>2, <2>3, <3>1
  <2>5. i = q \div w
    BY <1>1, <2>4, CellsApart
  <2> QED BY <2>1, <2>5
<1>4. b % w = 0
  <2> DEFINE k == q \div w
  <2>1. PICK i \in Nat, e \in 0..(w - 1) : b = i * w + e /\ e = b % w
    BY <1>1, RestIs
  <2>2. PICK n \in 1..w : n = e + 1
    OBVIOUS
  <2>3. 1 \in 1..w /\ k * w + 1 = i * w + n
    <3>1. i * w \in Nat /\ b = k * w
      OBVIOUS
    <3> HIDE DEF b, k
    <3> QED BY <1>1, <2>1, <2>2, <3>1
  <2>4. 1 = n
    BY <1>1, <2>3, CellsApart
  <2> QED BY <2>1, <2>2, <2>4
<1> QED BY <1>1, <1>3, <1>4

\* The windows of a run have all its creates.
LEMMA WindowsHave ==
  ASSUME CensusAssumption, NEW run, RunInv(run), NEW r
  PROVE  Total(Windows(run, r)) = Cardinality(CreatesIn(run.log, r))
<1> DEFINE J == CreatesIn(run.log, r)
           n == Len(run.log)
           B == {d \in 0..run.txs : d % Window = 0}
           at == [i \in J |-> (run.log[i].seq \div Window) * Window]
<1>1. Window \in Nat \ {0} /\ run.txs \in Nat /\ n \in Nat /\ DOMAIN run.log = 1..n /\ J \in SUBSET (1..n)
  BY DEF RunInv, CensusAssumption, CreatesIn
<1>2. \A i \in J : run.log[i].seq \in Nat /\ run.log[i].seq < run.txs
  <2>1. \A i \in J : run.log[i] \in Events
    BY <1>1 DEF RunInv
  <2> QED BY <1>1, <2>1 DEF RunInv, Events
<1>3. ASSUME NEW i \in J
      PROVE  at[i] \in B /\ \A b \in B : at[i] = b <=> b <= run.log[i].seq /\ run.log[i].seq < b + Window
  <2> DEFINE q == run.log[i].seq
             c == (q \div Window) * Window
  <2>1. q \in Nat /\ q < run.txs /\ at[i] = c
    BY <1>2
  <2> HIDE DEF q, at
  <2>2. /\ c \in Nat /\ c <= q /\ q < c + Window /\ c % Window = 0
        /\ \A d \in Nat : d % Window = 0 /\ d <= q /\ q < d + Window => d = c
    BY <1>1, <2>1, WindowIs
  <2> HIDE DEF c
  <2>3. c \in B
    BY <1>1, <2>1, <2>2
  <2>4. \A b \in B : b \in Nat /\ b % Window = 0
    BY <1>1
  <2> HIDE DEF B
  <2> QED BY <2>1, <2>2, <2>3, <2>4 DEF q
<1>4. IsFiniteSet(B)
  <2>1. 0 \in Int /\ run.txs \in Int
    BY <1>1
  <2>2. IsFiniteSet(0..run.txs)
    BY <2>1, FS_Interval
  <2> QED BY <2>2, FS_Subset
<1>5. at \in [J -> B]
  BY <1>3
<1>6. Windows(run, r) = [b \in B |-> Cardinality({i \in J : at[i] = b})]
  <2>1. ASSUME NEW b \in B
        PROVE  {i \in DOMAIN run.log : /\ run.log[i].kind = "CREATE" /\ RootOf[run.log[i].slot] = r
                                       /\ b <= run.log[i].seq /\ run.log[i].seq < b + Window}
                 = {i \in J : at[i] = b}
    <3> HIDE DEF B, at
    <3> QED BY <1>3 DEF CreatesIn
  <2> HIDE DEF J, at
  <2> QED BY <2>1, Zenon DEF Windows
<1> HIDE DEF J, n, B, at
<1>7. Total(Parts(J, B, at)) = Cardinality(J)
  BY <1>1, <1>4, <1>5, TotalOfParts
<1> QED BY <1>6, <1>7 DEF J, Parts

\* Who paid for a create is one of the two.
LEMMA PaidSplit ==
  ASSUME NEW log \in Seq(Events), NEW r
  PROVE  Cardinality(PaidIn(log, r, "protocol")) + Cardinality(PaidIn(log, r, "player")) = Cardinality(CreatesIn(log, r))
<1> DEFINE S == PaidIn(log, r, "protocol")
           T == PaidIn(log, r, "player")
<1>1. Len(log) \in Nat /\ DOMAIN log = 1..Len(log) /\ \A i \in DOMAIN log : log[i] \in Events
  OBVIOUS
<1>2. S \in SUBSET (1..Len(log)) /\ T \in SUBSET (1..Len(log)) /\ S \cap T = {}
  BY <1>1 DEF PaidIn, CreatesIn
<1>3. S \cup T = CreatesIn(log, r)
  BY <1>1 DEF PaidIn, CreatesIn, Events, Payers
<1>4. IsFiniteSet(S) /\ IsFiniteSet(T)
  BY <1>1, <1>2, FiniteUpTo
<1> HIDE DEF S, T
<1>5. Cardinality(S \cup T) = Cardinality(S) + Cardinality(T)
  BY <1>2, <1>4, CountBoth
<1> QED BY <1>3, <1>5 DEF S, T

-----------------------------------------------------------------------------
(* The runs. *)

\* Runs and their logs.
LoggedRuns ==
  [scenario : Scenarios, start : SUBSET Slots, set : SUBSET Slots, txs : Nat, log : Seq(Events), cleared : SUBSET Slots,
   again : [Slots -> Nat]]

RunsInv == runs \in Seq(LoggedRuns) /\ \A i \in DOMAIN runs : RunInv(runs[i])

\* What is added to a root's row by a run that is read.
RunAdded(from, to, log, r) ==
  to = [creates |-> from.creates + Cardinality(CreatesIn(log, r)),
        clears |-> from.clears + Cardinality(ClearsIn(log, r)),
        recreates |-> from.recreates + Cardinality(RecreatesIn(log, r)),
        protocol |-> from.protocol + Cardinality(PaidIn(log, r, "protocol")),
        player |-> from.player + Cardinality(PaidIn(log, r, "player"))]

LEMMA CountedRunIs ==
  ASSUME CensusAssumption, RunsInv, NEW count \in Counts, NEW i \in DOMAIN runs
  PROVE  /\ CountedRun(count, i) \in Counts
         /\ i \in Parsed => \A r \in Range(RootOf) : RunAdded(count.rows[r], CountedRun(count, i).rows[r], runs[i].log, r)
         /\ i \notin Parsed => CountedRun(count, i) = count
<1>1. CASE i \in Parsed
  <2> DEFINE from == Fresh(count, runs[i])
             log == runs[i].log
  <2>1. from \in Counts /\ from.cleared = {} /\ from.rows = count.rows
    BY DEF Fresh, Counts
  <2>2. log \in Seq(Events) /\ InOrder(log)
    BY DEF RunsInv, RunInv
  <2>3. CountedRun(count, i) = Scanned(Counted, from, log)[Len(log)]
    BY <1>1, Zenon DEF CountedRun
  <2> HIDE DEF from, log
  <2>4. /\ CountedRun(count, i) \in Counts
        /\ \A r \in Range(RootOf) : RunAdded(from.rows[r], CountedRun(count, i).rows[r], log, r)
    BY <2>1, <2>2, <2>3, LogCounted DEF RunAdded
  <2> QED BY <1>1, <2>1, <2>4 DEF log
<1>2. CASE i \notin Parsed
  BY <1>2 DEF CountedRun
<1> QED BY <1>1, <1>2

\* The runs counted one after the other.
LEMMA RunsAlong ==
  ASSUME CensusAssumption, RunsInv, NEW from \in Counts
  PROVE  LET at == Scanned(CountedRun, from, [i \in DOMAIN runs |-> i])
         IN  /\ at[0] = from /\ \A i \in 1..Len(runs) : at[i] = CountedRun(at[i - 1], i)
             /\ \A i \in 0..Len(runs) : at[i] \in Counts
<1> DEFINE n == Len(runs)
           indices == [i \in DOMAIN runs |-> i]
           step == [p \in Counts \X (1..n) |-> CountedRun(p[1], p[2])]
           at[i \in 0..Len(indices)] == IF i = 0 THEN from ELSE CountedRun(at[i - 1], indices[i])
<1>0. n \in Nat /\ DOMAIN runs = 1..n
  BY DEF RunsInv
<1>1. step \in [Counts \X (1..n) -> Counts]
  BY <1>0, CountedRunIs
<1>2. indices \in Seq(1..n) /\ Len(indices) = n /\ \A i \in 1..n : indices[i] = i
  <2>1. indices \in [1..n -> 1..n]
    BY <1>0
  <2> HIDE DEF n
  <2> QED BY <1>0, <2>1
<1>3. PICK f : ScanOf(Counts, f, from, step, indices)
  <2> HIDE DEF step, indices, n
  <2> QED BY <1>1, <1>2, ScanExists
<1> HIDE DEF indices, n
<1>4. f = [i \in 0..Len(indices) |-> IF i = 0 THEN from ELSE CountedRun(f[i - 1], indices[i])]
  <2> DEFINE h == [i \in 0..Len(indices) |-> IF i = 0 THEN from ELSE CountedRun(f[i - 1], indices[i])]
  <2>1. ASSUME NEW i \in 0..n PROVE f[i] = h[i]
    <3>1. CASE i = 0
      BY <1>2, <1>3, <3>1 DEF ScanOf
    <3>2. CASE i # 0
      <4>1. i \in 1..n /\ i - 1 \in 0..n
        BY <1>0, <3>2
      <4>2. f[i] = step[<<f[i - 1], indices[i]>>]
        <5> HIDE DEF step
        <5> QED BY <1>2, <1>3, <4>1 DEF ScanOf
      <4>3. <<f[i - 1], indices[i]>> \in Counts \X (1..n)
        BY <1>2, <1>3, <4>1 DEF ScanOf
      <4>4. step[<<f[i - 1], indices[i]>>] = CountedRun(f[i - 1], indices[i])
        BY <4>3
      <4> QED BY <1>2, <3>2, <4>2, <4>4
    <3> QED BY <3>1, <3>2
  <2> QED BY <1>2, <1>3, <2>1 DEF ScanOf
<1>5. Scanned(CountedRun, from, indices) = at
  BY Zenon DEF Scanned
<1>6. at = [i \in 0..Len(indices) |-> IF i = 0 THEN from ELSE CountedRun(at[i - 1], indices[i])]
  BY <1>4, Zenon DEF at
<1> HIDE DEF at
<1>7. at[0] = from /\ \A i \in 1..n : at[i] = CountedRun(at[i - 1], i)
  BY <1>0, <1>2, <1>6
<1>8. \A i \in 0..n : at[i] \in Counts
  <2> DEFINE S == {i \in 0..n : at[i] \in Counts}
  <2>1. 0 \in S
    BY <1>0, <1>7
  <2>2. ASSUME NEW i \in 1..n, i - 1 \in S PROVE i \in S
    <3>1. CountedRun(at[i - 1], i) \in Counts
      BY <1>0, <2>2, CountedRunIs
    <3> QED BY <1>0, <1>7, <2>2, <3>1
  <2> HIDE DEF S
  <2>3. 0..n \subseteq S
    BY <1>0, <2>1, <2>2, EachUpTo
  <2> QED BY <2>3 DEF S
<1>9. /\ Scanned(CountedRun, from, indices)[0] = from
      /\ \A i \in 1..n : Scanned(CountedRun, from, indices)[i] = CountedRun(Scanned(CountedRun, from, indices)[i - 1], i)
      /\ \A i \in 0..n : Scanned(CountedRun, from, indices)[i] \in Counts
  BY <1>5, <1>7, <1>8
<1> QED BY <1>9 DEF indices, n

-----------------------------------------------------------------------------
(* What the runs that are read have together. *)

\* What the runs of J among the first k have together.
Summed(f, J, k) == Total([i \in J \cap (1..k) |-> f[i]])

LEMMA SummedNext ==
  ASSUME NEW n \in Nat, NEW J \in SUBSET (1..n), NEW f \in [1..n -> Nat], NEW k \in 1..n
  PROVE  /\ Summed(f, J, k - 1) \in Nat /\ Summed(f, J, 0) = 0
         /\ Summed(f, J, k) = Summed(f, J, k - 1) + IF k \in J THEN f[k] ELSE 0
<1> DEFINE part(m) == [i \in J \cap (1..m) |-> f[i]]
<1>1. IsFiniteSet(J \cap (1..(k - 1)))
  <2>1. IsFiniteSet(1..(k - 1))
    BY FS_Interval
  <2> QED BY <2>1, FS_Subset
<1>2. part(k - 1) \in [J \cap (1..(k - 1)) -> Nat] /\ k \notin 1..(k - 1) /\ k - 1 \in Nat
  OBVIOUS
<1>3. IsFiniteSet(Units(part(k - 1))) /\ Total(part(k - 1)) \in Nat
  <2> HIDE DEF part
  <2> QED BY <1>1, <1>2, TotalFinite
<1>4. J \cap (1..0) = {}
  OBVIOUS
<1>5. Total(part(0)) = 0
  <2>1. \A i \in DOMAIN part(0) : part(0)[i] = 0
    BY <1>4
  <2> HIDE DEF part
  <2> QED BY <2>1, TotalOfNone
<1>6. CASE k \in J
  <2>1. J \cap (1..k) = (J \cap (1..(k - 1))) \cup {k}
    BY <1>6
  <2>2. /\ DOMAIN part(k) = DOMAIN part(k - 1) \cup {k} /\ k \notin DOMAIN part(k - 1) /\ part(k)[k] = f[k] /\ f[k] \in Nat
        /\ \A i \in DOMAIN part(k - 1) : part(k)[i] = part(k - 1)[i]
    BY <1>2, <1>6, <2>1
  <2>3. Total(part(k)) = Total(part(k - 1)) + part(k)[k]
    <3> DEFINE old == part(k - 1)
               new == part(k)
    <3>1. /\ DOMAIN new = DOMAIN old \cup {k} /\ k \notin DOMAIN old /\ new[k] \in Nat
          /\ \A i \in DOMAIN old : new[i] = old[i]
          /\ IsFiniteSet(Units(old))
      BY <1>3, <2>2
    <3> HIDE DEF old, new
    <3>2. Total(new) = Total(old) + new[k]
      BY <3>1, TotalExtend
    <3> QED BY <3>2 DEF old, new
  <2> QED BY <1>3, <1>5, <1>6, <2>2, <2>3 DEF Summed
<1>7. CASE k \notin J
  <2>1. J \cap (1..k) = J \cap (1..(k - 1))
    BY <1>7
  <2> QED BY <1>3, <1>5, <1>7, <2>1 DEF Summed
<1> QED BY <1>6, <1>7

\* Of each run a root's figures, and the row that the first k runs that are read add up to.
SlotStarts(r) == [i \in DOMAIN runs |-> Cardinality(runs[i].start \cap Own(r))]
Sets(r) == [i \in DOMAIN runs |-> Cardinality(runs[i].set \cap Own(r))]
Agains(r) == [i \in DOMAIN runs |-> Total([s \in Own(r) |-> runs[i].again[s]])]
Windowed(r) == [i \in DOMAIN runs |-> Total(Windows(runs[i], r))]

RowExact(row, r, k) ==
  /\ row.creates + Summed(SlotStarts(r), Parsed, k) = row.clears + Summed(Sets(r), Parsed, k)
  /\ row.recreates = Summed(Agains(r), Parsed, k)
  /\ row.protocol + row.player = row.creates
  /\ row.creates = Summed(Windowed(r), Parsed, k)

LEMMA RunSums ==
  ASSUME CensusAssumption, RunsInv, NEW r, NEW i \in DOMAIN runs
  PROVE  /\ SlotStarts(r)[i] \in Nat /\ Sets(r)[i] \in Nat /\ Agains(r)[i] \in Nat /\ Windowed(r)[i] \in Nat
         /\ Cardinality(CreatesIn(runs[i].log, r)) \in Nat /\ Cardinality(ClearsIn(runs[i].log, r)) \in Nat
         /\ Cardinality(PaidIn(runs[i].log, r, "protocol")) \in Nat /\ Cardinality(PaidIn(runs[i].log, r, "player")) \in Nat
         /\ Cardinality(CreatesIn(runs[i].log, r)) + SlotStarts(r)[i] = Cardinality(ClearsIn(runs[i].log, r)) + Sets(r)[i]
         /\ Cardinality(RecreatesIn(runs[i].log, r)) = Agains(r)[i]
         /\ Cardinality(PaidIn(runs[i].log, r, "protocol")) + Cardinality(PaidIn(runs[i].log, r, "player"))
              = Cardinality(CreatesIn(runs[i].log, r))
         /\ Windowed(r)[i] = Cardinality(CreatesIn(runs[i].log, r))
<1> DEFINE run == runs[i]
           log == run.log
<1>1. RunInv(run) /\ log \in Seq(Events)
  BY DEF RunsInv, RunInv
<1>2. \A S \in SUBSET Slots : Cardinality(S) \in Nat
  BY FS_Subset, FS_CardinalityType DEF CensusAssumption
<1>3. run.start \cap Own(r) \in SUBSET Slots /\ run.set \cap Own(r) \in SUBSET Slots
  BY DEF Own
<1>4. Len(log) \in Nat /\ DOMAIN log = 1..Len(log)
  BY <1>1
<1>5. /\ CreatesIn(log, r) \in SUBSET (1..Len(log)) /\ ClearsIn(log, r) \in SUBSET (1..Len(log))
      /\ PaidIn(log, r, "protocol") \in SUBSET (1..Len(log)) /\ PaidIn(log, r, "player") \in SUBSET (1..Len(log))
      /\ RecreatesIn(log, r) \in SUBSET (1..Len(log))
  BY <1>4 DEF CreatesIn, ClearsIn, PaidIn, RecreatesIn
<1>6. \A J \in SUBSET (1..Len(log)) : Cardinality(J) \in Nat
  BY <1>4, FiniteUpTo
<1>7. Cardinality(PaidIn(log, r, "protocol")) + Cardinality(PaidIn(log, r, "player")) = Cardinality(CreatesIn(log, r))
  BY <1>1, PaidSplit
<1>8. Total(Windows(run, r)) = Cardinality(CreatesIn(log, r))
  BY <1>1, WindowsHave
<1>9. /\ Cardinality(CreatesIn(log, r)) + Cardinality(run.start \cap Own(r))
           = Cardinality(ClearsIn(log, r)) + Cardinality(run.set \cap Own(r))
      /\ Cardinality(RecreatesIn(log, r)) = Total([s \in Own(r) |-> run.again[s]])
  BY <1>1 DEF RunInv
<1>10. /\ SlotStarts(r)[i] = Cardinality(run.start \cap Own(r)) /\ Sets(r)[i] = Cardinality(run.set \cap Own(r))
       /\ Agains(r)[i] = Total([s \in Own(r) |-> run.again[s]]) /\ Windowed(r)[i] = Total(Windows(run, r))
  BY DEF SlotStarts, Sets, Agains, Windowed
<1>11. Cardinality(run.start \cap Own(r)) \in Nat /\ Cardinality(run.set \cap Own(r)) \in Nat
  BY <1>2, <1>3
<1>12. /\ Cardinality(CreatesIn(log, r)) \in Nat /\ Cardinality(ClearsIn(log, r)) \in Nat
       /\ Cardinality(PaidIn(log, r, "protocol")) \in Nat /\ Cardinality(PaidIn(log, r, "player")) \in Nat
       /\ Cardinality(RecreatesIn(log, r)) \in Nat
  BY <1>5, <1>6
<1> QED BY <1>7, <1>8, <1>9, <1>10, <1>11, <1>12

LEMMA RowStep ==
  ASSUME CensusAssumption, RunsInv, NEW r, NEW k \in DOMAIN runs, k \in Parsed,
         NEW row \in CensusRow, NEW to, RunAdded(row, to, runs[k].log, r), RowExact(row, r, k - 1)
  PROVE  RowExact(to, r, k)
<1>1. Len(runs) \in Nat /\ DOMAIN runs = 1..Len(runs) /\ Parsed \in SUBSET (1..Len(runs)) /\ k \in 1..Len(runs)
  BY DEF RunsInv, Parsed
<1>2. /\ SlotStarts(r) \in [1..Len(runs) -> Nat] /\ Sets(r) \in [1..Len(runs) -> Nat]
      /\ Agains(r) \in [1..Len(runs) -> Nat] /\ Windowed(r) \in [1..Len(runs) -> Nat]
  <2>1. DOMAIN SlotStarts(r) = 1..Len(runs) /\ DOMAIN Sets(r) = 1..Len(runs) /\ DOMAIN Agains(r) = 1..Len(runs)
        /\ DOMAIN Windowed(r) = 1..Len(runs)
    BY <1>1 DEF SlotStarts, Sets, Agains, Windowed
  <2>2. \A i \in 1..Len(runs) : SlotStarts(r)[i] \in Nat /\ Sets(r)[i] \in Nat /\ Agains(r)[i] \in Nat /\ Windowed(r)[i] \in Nat
    BY <1>1, RunSums
  <2>3. /\ SlotStarts(r) = [i \in 1..Len(runs) |-> SlotStarts(r)[i]] /\ Sets(r) = [i \in 1..Len(runs) |-> Sets(r)[i]]
        /\ Agains(r) = [i \in 1..Len(runs) |-> Agains(r)[i]] /\ Windowed(r) = [i \in 1..Len(runs) |-> Windowed(r)[i]]
    BY <1>1 DEF SlotStarts, Sets, Agains, Windowed
  <2> QED BY <2>2, <2>3
<1>3. \A f \in [1..Len(runs) -> Nat] :
        Summed(f, Parsed, k - 1) \in Nat /\ Summed(f, Parsed, k) = Summed(f, Parsed, k - 1) + f[k]
  BY <1>1, SummedNext
<1>4. /\ row.creates \in Nat /\ row.clears \in Nat /\ row.recreates \in Nat /\ row.protocol \in Nat /\ row.player \in Nat
  BY DEF CensusRow
<1> DEFINE log == runs[k].log
<1>5. /\ to.creates = row.creates + Cardinality(CreatesIn(log, r)) /\ to.clears = row.clears + Cardinality(ClearsIn(log, r))
      /\ to.recreates = row.recreates + Cardinality(RecreatesIn(log, r))
      /\ to.protocol = row.protocol + Cardinality(PaidIn(log, r, "protocol"))
      /\ to.player = row.player + Cardinality(PaidIn(log, r, "player"))
  BY DEF RunAdded
<1>6. /\ SlotStarts(r)[k] \in Nat /\ Sets(r)[k] \in Nat /\ Agains(r)[k] \in Nat /\ Windowed(r)[k] \in Nat
      /\ Cardinality(CreatesIn(log, r)) \in Nat /\ Cardinality(ClearsIn(log, r)) \in Nat
      /\ Cardinality(PaidIn(log, r, "protocol")) \in Nat /\ Cardinality(PaidIn(log, r, "player")) \in Nat
      /\ Cardinality(CreatesIn(log, r)) + SlotStarts(r)[k] = Cardinality(ClearsIn(log, r)) + Sets(r)[k]
      /\ Cardinality(RecreatesIn(log, r)) = Agains(r)[k]
      /\ Cardinality(PaidIn(log, r, "protocol")) + Cardinality(PaidIn(log, r, "player")) = Cardinality(CreatesIn(log, r))
      /\ Windowed(r)[k] = Cardinality(CreatesIn(log, r))
  BY RunSums
<1>7. /\ Summed(SlotStarts(r), Parsed, k - 1) \in Nat /\ Summed(Sets(r), Parsed, k - 1) \in Nat
      /\ Summed(SlotStarts(r), Parsed, k) = Summed(SlotStarts(r), Parsed, k - 1) + SlotStarts(r)[k]
      /\ Summed(Sets(r), Parsed, k) = Summed(Sets(r), Parsed, k - 1) + Sets(r)[k]
  BY <1>2, <1>3
<1>8. /\ Summed(Agains(r), Parsed, k - 1) \in Nat /\ Summed(Windowed(r), Parsed, k - 1) \in Nat
      /\ Summed(Agains(r), Parsed, k) = Summed(Agains(r), Parsed, k - 1) + Agains(r)[k]
      /\ Summed(Windowed(r), Parsed, k) = Summed(Windowed(r), Parsed, k - 1) + Windowed(r)[k]
  BY <1>2, <1>3
<1> HIDE DEF log
<1>9. to.creates + Summed(SlotStarts(r), Parsed, k) = to.clears + Summed(Sets(r), Parsed, k)
  BY <1>4, <1>5, <1>6, <1>7 DEF RowExact
<1>10. to.recreates = Summed(Agains(r), Parsed, k) /\ to.protocol + to.player = to.creates
  BY <1>4, <1>5, <1>6, <1>8 DEF RowExact
<1>11. to.creates = Summed(Windowed(r), Parsed, k)
  BY <1>4, <1>5, <1>6, <1>8 DEF RowExact
<1> QED BY <1>9, <1>10, <1>11 DEF RowExact

LEMMA SummedNone ==
  ASSUME NEW f, NEW J
  PROVE  Summed(f, J, 0) = 0
<1> DEFINE g == [i \in J \cap (1..0) |-> f[i]]
<1>1. \A i \in DOMAIN g : g[i] = 0
  OBVIOUS
<1> HIDE DEF g
<1>2. Total(g) = 0
  BY <1>1, TotalOfNone
<1> QED BY <1>2 DEF g, Summed

\* Every number of the census is the sum over the newest logs.
LEMMA CensusExactHolds ==
  ASSUME CensusAssumption, RunsInv
  PROVE  CensusExact
<1> DEFINE n == Len(runs)
           at == Scanned(CountedRun, NothingCounted, [i \in DOMAIN runs |-> i])
           newest == {i \in DOMAIN runs : runs[i].txs > 0 /\ ~\E j \in DOMAIN runs :
                                            j > i /\ runs[j].txs > 0 /\ runs[j].scenario = runs[i].scenario}
<1>1. n \in Nat /\ DOMAIN runs = 1..n /\ Parsed \in SUBSET (1..n)
  BY DEF RunsInv, Parsed
<1>2. newest = Parsed
  <2>1. ASSUME NEW i \in DOMAIN runs
        PROVE  (\A j \in (i + 1)..Len(runs) : runs[j].txs > 0 => runs[j].scenario # runs[i].scenario)
               <=> ~\E j \in DOMAIN runs : j > i /\ runs[j].txs > 0 /\ runs[j].scenario = runs[i].scenario
    <3>1. \A j : j \in (i + 1)..Len(runs) <=> j \in DOMAIN runs /\ j > i
      BY <1>1
    <3> QED BY <3>1
  <2> QED BY <2>1 DEF Parsed
<1> HIDE DEF newest
<1>3. NothingCounted \in Counts /\ \A r \in Range(RootOf) : NothingCounted.rows[r] = None
  BY DEF NothingCounted, Counts, None, CensusRow
<1>4. at[0] = NothingCounted /\ (\A i \in 1..n : at[i] = CountedRun(at[i - 1], i)) /\ \A i \in 0..n : at[i] \in Counts
  BY <1>3, RunsAlong
<1>5. Aggregated = at[n].rows
  BY Zenon DEF Aggregated
<1> HIDE DEF at
<1>6. ASSUME NEW r \in Range(RootOf) PROVE RowExact(at[n].rows[r], r, n)
  <2> DEFINE S == {k \in 0..n : RowExact(at[k].rows[r], r, k)}
  <2>1. 0 \in S
    <3>1. /\ Summed(SlotStarts(r), Parsed, 0) = 0 /\ Summed(Sets(r), Parsed, 0) = 0 /\ Summed(Agains(r), Parsed, 0) = 0
          /\ Summed(Windowed(r), Parsed, 0) = 0
      BY SummedNone
    <3>2. RowExact(None, r, 0)
      BY <3>1 DEF RowExact, None
    <3> QED BY <1>1, <1>3, <1>4, <3>2
  <2>2. ASSUME NEW k \in 1..n, k - 1 \in S PROVE k \in S
    <3>1. k \in DOMAIN runs /\ k - 1 \in 0..n /\ k \in 0..n /\ at[k - 1] \in Counts /\ RowExact(at[k - 1].rows[r], r, k - 1)
          /\ at[k] = CountedRun(at[k - 1], k)
      BY <1>1, <1>4, <2>2
    <3> DEFINE row == at[k - 1].rows[r]
    <3>2. row \in CensusRow
      BY <3>1 DEF Counts
    <3>3. CASE k \in Parsed
      <4>1. RunAdded(row, at[k].rows[r], runs[k].log, r)
        BY <3>1, <3>3, CountedRunIs
      <4> HIDE DEF row
      <4>2. RowExact(row, r, k - 1)
        BY <3>1 DEF row
      <4>3. RowExact(at[k].rows[r], r, k)
        BY <3>1, <3>2, <3>3, <4>1, <4>2, RowStep
      <4> QED BY <3>1, <4>3
    <3>4. CASE k \notin Parsed
      <4>1. at[k] = at[k - 1]
        BY <3>1, <3>4, CountedRunIs
      <4>2. Parsed \cap (1..k) = Parsed \cap (1..(k - 1))
        BY <1>1, <3>4
      <4>3. RowExact(at[k].rows[r], r, k)
        BY <3>1, <4>1, <4>2 DEF RowExact, Summed
      <4> QED BY <3>1, <4>3
    <3> QED BY <3>3, <3>4
  <2> HIDE DEF S
  <2>3. 0..n \subseteq S
    BY <1>1, <2>1, <2>2, EachUpTo
  <2>4. n \in S
    BY <1>1, <2>3
  <2> QED BY <2>4 DEF S
<1>7. ASSUME NEW r
      PROVE  /\ Summed(SlotStarts(r), Parsed, n) = Total([i \in newest |-> Cardinality(runs[i].start \cap Own(r))])
             /\ Summed(Sets(r), Parsed, n) = Total([i \in newest |-> Cardinality(runs[i].set \cap Own(r))])
             /\ Summed(Agains(r), Parsed, n) = Total([i \in newest |-> Total([s \in Own(r) |-> runs[i].again[s]])])
             /\ Summed(Windowed(r), Parsed, n) = Total([i \in newest |-> Total(Windows(runs[i], r))])
  <2>1. Parsed \cap (1..n) = newest /\ \A i \in newest : i \in DOMAIN runs
    BY <1>1, <1>2
  <2>2. /\ [i \in Parsed \cap (1..n) |-> SlotStarts(r)[i]] = [i \in newest |-> Cardinality(runs[i].start \cap Own(r))]
        /\ [i \in Parsed \cap (1..n) |-> Sets(r)[i]] = [i \in newest |-> Cardinality(runs[i].set \cap Own(r))]
    BY <2>1 DEF SlotStarts, Sets
  <2>3. /\ [i \in Parsed \cap (1..n) |-> Agains(r)[i]] = [i \in newest |-> Total([s \in Own(r) |-> runs[i].again[s]])]
        /\ [i \in Parsed \cap (1..n) |-> Windowed(r)[i]] = [i \in newest |-> Total(Windows(runs[i], r))]
    BY <2>1 DEF Agains, Windowed
  <2> QED BY <2>2, <2>3 DEF Summed
<1>8. ASSUME NEW r \in Range(RootOf)
      PROVE  LET row == Aggregated[r]
                 own == {s \in Slots : RootOf[s] = r}
             IN /\ row.creates + Total([i \in newest |-> Cardinality(runs[i].start \cap own)])
                     = row.clears + Total([i \in newest |-> Cardinality(runs[i].set \cap own)])
                /\ row.recreates = Total([i \in newest |-> Total([s \in own |-> runs[i].again[s]])])
                /\ row.protocol + row.player = row.creates
                /\ row.creates = Total([i \in newest |-> Total(Windows(runs[i], r))])
  <2>1. Own(r) = {s \in Slots : RootOf[s] = r}
    BY DEF Own
  <2> HIDE DEF n
  <2>2. RowExact(Aggregated[r], r, n)
    BY <1>5, <1>6
  <2>3. /\ Aggregated[r].creates + Total([i \in newest |-> Cardinality(runs[i].start \cap Own(r))])
             = Aggregated[r].clears + Total([i \in newest |-> Cardinality(runs[i].set \cap Own(r))])
        /\ Aggregated[r].recreates = Total([i \in newest |-> Total([s \in Own(r) |-> runs[i].again[s]])])
        /\ Aggregated[r].protocol + Aggregated[r].player = Aggregated[r].creates
        /\ Aggregated[r].creates = Total([i \in newest |-> Total(Windows(runs[i], r))])
    BY <1>7, <2>2, Zenon DEF RowExact
  <2> QED BY <2>1, <2>3, Zenon
<1> QED BY <1>8, Zenon DEF CensusExact, newest

-----------------------------------------------------------------------------
(* Every step of the runs. *)

LEMMA NewRunAdded ==
  ASSUME CensusAssumption, RunsInv, NEW scenario \in Scenarios, NEW set \in SUBSET Slots
  PROVE  LET new == Append(runs, NewRun(scenario, set))
         IN  new \in Seq(LoggedRuns) /\ \A i \in DOMAIN new : RunInv(new[i])
<1> DEFINE run == NewRun(scenario, set)
<1>1. run \in LoggedRuns
  <2>1. <<>> \in Seq(Events) /\ [s \in Slots |-> 0] \in [Slots -> Nat]
    OBVIOUS
  <2> QED BY <2>1 DEF NewRun, LoggedRuns
<1>2. RunInv(run)
  BY NewRunHolds
<1> HIDE DEF run
<1>3. runs \in Seq(LoggedRuns) /\ \A i \in DOMAIN runs : RunInv(runs[i])
  BY DEF RunsInv
<1>4. /\ Append(runs, run) \in Seq(LoggedRuns) /\ Len(runs) \in Nat
      /\ DOMAIN Append(runs, run) = 1..(Len(runs) + 1) /\ DOMAIN runs = 1..Len(runs)
      /\ Append(runs, run)[Len(runs) + 1] = run /\ \A i \in 1..Len(runs) : Append(runs, run)[i] = runs[i]
  <2> HIDE DEF LoggedRuns
  <2> QED BY <1>1, <1>3
<1>5. ASSUME NEW i \in DOMAIN Append(runs, run) PROVE RunInv(Append(runs, run)[i])
  <2>1. i \in 1..Len(runs) \/ i = Len(runs) + 1
    BY <1>4
  <2>2. CASE i \in 1..Len(runs)
    BY <1>3, <1>4, <2>2
  <2>3. CASE i = Len(runs) + 1
    BY <1>2, <1>4, <2>3
  <2> QED BY <2>1, <2>2, <2>3
<1> QED BY <1>4, <1>5 DEF run

LEMMA TransactAdded ==
  ASSUME CensusAssumption, RunsInv, runs # <<>>, NEW changed \in SUBSET Slots, NEW payer \in Payers
  PROVE  LET new == [runs EXCEPT ![Len(runs)] = Transact(@, changed, payer)]
         IN  new \in Seq(LoggedRuns) /\ \A i \in DOMAIN new : RunInv(new[i])
<1> DEFINE n == Len(runs)
           old == runs[n]
           next == Transact(old, changed, payer)
           new == [runs EXCEPT ![n] = next]
<1>1. runs \in Seq(LoggedRuns) /\ (\A i \in DOMAIN runs : RunInv(runs[i])) /\ n \in Nat /\ n \in DOMAIN runs /\ DOMAIN runs = 1..n
      /\ old \in LoggedRuns
  <2> HIDE DEF LoggedRuns
  <2> QED BY DEF RunsInv
<1>2. RunInv(next)
  <2>1. RunInv(old)
    BY <1>1
  <2> HIDE DEF old
  <2> QED BY <2>1, TransactHolds
<1>3. next \in LoggedRuns
  <2>1. next.log \in Seq(Events) /\ next.set \in SUBSET Slots /\ next.txs \in Nat /\ next.again \in [Slots -> Nat]
        /\ next.cleared \in SUBSET Slots
    <3>1. next.log \in Seq(Events) /\ next.cleared = ClearedBy(next.log, Len(next.log)) /\ next.set \in SUBSET Slots
          /\ next.txs \in Nat /\ next.again \in [Slots -> Nat]
      BY <1>2 DEF RunInv
    <3> HIDE DEF next
    <3>2. \A j \in 1..Len(next.log) : next.log[j] \in Events
      BY <3>1
    <3>3. ClearedBy(next.log, Len(next.log)) \in SUBSET Slots
      BY <3>2 DEF ClearedBy, Events
    <3> QED BY <3>1, <3>3
  <2>2. old = [scenario |-> old.scenario, start |-> old.start, set |-> old.set, txs |-> old.txs, log |-> old.log,
               cleared |-> old.cleared, again |-> old.again]
        /\ old.scenario \in Scenarios /\ old.start \in SUBSET Slots
    <3> HIDE DEF old
    <3> QED BY <1>1 DEF LoggedRuns
  <2> DEFINE txs == old.txs + 1
             set == (old.set \ changed) \cup (changed \ old.set)
             log == old.log \o SetToSeq({Event(old, s, payer) : s \in changed})
             cleared == old.cleared \cup (changed \cap old.set)
             again == [s \in Slots |-> old.again[s] + IF s \in (changed \ old.set) \cap old.cleared THEN 1 ELSE 0]
  <2>3. next = [old EXCEPT !.txs = txs, !.set = set, !.log = log, !.cleared = cleared, !.again = again]
    BY <2>2 DEF Transact
  <2> HIDE DEF old, txs, set, log, cleared, again, next
  <2>4. next = [scenario |-> old.scenario, start |-> old.start, set |-> set, txs |-> txs, log |-> log,
                cleared |-> cleared, again |-> again]
    BY <2>2, <2>3
  <2>5. next = [scenario |-> old.scenario, start |-> old.start, set |-> next.set, txs |-> next.txs, log |-> next.log,
                cleared |-> next.cleared, again |-> next.again]
    BY <2>4
  <2> QED BY <2>1, <2>2, <2>5 DEF LoggedRuns
<1> HIDE DEF next, old
<1>4. new \in Seq(LoggedRuns) /\ DOMAIN new = 1..n /\ new[n] = next /\ \A i \in 1..n : i # n => new[i] = runs[i]
  <2>1. runs \in [1..n -> LoggedRuns]
    <3> HIDE DEF LoggedRuns
    <3> QED BY <1>1
  <2> HIDE DEF LoggedRuns, n
  <2>2. new \in [1..n -> LoggedRuns]
    BY <1>1, <1>3, <2>1
  <2> QED BY <1>1, <2>1, <2>2
<1>5. \A i \in DOMAIN new : RunInv(new[i])
  BY <1>1, <1>2, <1>4
<1> QED BY <1>4, <1>5 DEF next, old

-----------------------------------------------------------------------------
(* Layouts. *)

\* Types have a size, and values fit in a slot.
TypeOk(t) == t.bytes \in Nat \ {0} /\ (t.kind = "value" => t.bytes <= 32)

LEMMA MaxOne ==
  ASSUME NEW n \in Nat
  PROVE  Max({1, n}) = IF n = 0 THEN 1 ELSE n
<1> DEFINE S == {1, n}
           best == IF n = 0 THEN 1 ELSE n
<1>1. best \in S /\ \A y \in S : best >= y
  OBVIOUS
<1>2. \A x \in S : (\A y \in S : x >= y) => x = best
  BY <1>1
<1> HIDE DEF S, best
<1>3. Max(S) = best
  BY <1>1, <1>2 DEF Max
<1> QED BY <1>3 DEF S, best

LEMMA SlotsIs ==
  ASSUME NEW t, TypeOk(t)
  PROVE  /\ SlotsOf(t) \in Nat \ {0}
         /\ t.kind = "value" => SlotsOf(t) = 1
         /\ \A k \in Nat \ {0} : t.bytes = 32 * k => SlotsOf(t) = k /\ t.bytes \div 32 = k
         /\ \A offset \in Nat : offset + t.bytes <= 32 => Max({1, (offset + t.bytes + 31) \div 32}) = 1
<1> DEFINE b == t.bytes
<1>1. b \in Nat \ {0} /\ (t.kind = "value" => b <= 32)
  BY DEF TypeOk
<1>2. SlotsOf(t) = Max({1, (b + 31) \div 32})
  BY DEF SlotsOf
<1> HIDE DEF b
<1>3. (b + 31) \div 32 \in Nat \ {0}
  BY <1>1
<1>4. \A c \in Nat \ {0} : c <= 32 => (c + 31) \div 32 = 1
  OBVIOUS
<1>5. \A k \in Nat \ {0} : b = 32 * k => (b + 31) \div 32 = k /\ b \div 32 = k
  OBVIOUS
<1>6. SlotsOf(t) = (b + 31) \div 32
  BY <1>2, <1>3, MaxOne
<1>7. ASSUME NEW offset \in Nat, offset + b <= 32 PROVE Max({1, (offset + b + 31) \div 32}) = 1
  <2>1. offset + b \in Nat \ {0}
    BY <1>1
  <2>2. (offset + b + 31) \div 32 = 1
    BY <1>4, <1>7, <2>1
  <2> QED BY <2>2, MaxOne
<1> QED BY <1>1, <1>3, <1>4, <1>5, <1>6, <1>7 DEF b

\* A member's bytes are those of its type; the slots it covers.
MemberOk(m) ==
  /\ m.slot \in Nat /\ m.offset \in Nat /\ TypeOk(m.type)
  /\ IF m.type.kind = "value" THEN m.offset + m.type.bytes <= 32 ELSE m.offset = 0

Covers(m, w) == m.slot <= w /\ w < m.slot + SlotsOf(m.type)

\* Two members of a layout, one later than the other.
LaidAfter(m, later) ==
  \/ m.slot + SlotsOf(m.type) <= later.slot
  \/ m.type.kind = "value" /\ later.type.kind = "value" /\ m.slot = later.slot /\ m.offset < later.offset

\* Members in order leave no slot below the end uncovered, and share only slots that they fit in.
EndOf(m) == Last(m).slot + SlotsOf(Last(m).type)

LaidWell(m) ==
  /\ \A i \in DOMAIN m : MemberOk(m[i])
  /\ \A i, j \in DOMAIN m : i < j => LaidAfter(m[i], m[j])
  /\ m # <<>> => \A w \in 0..(EndOf(m) - 1) : \E i \in DOMAIN m : Covers(m[i], w)

MembersOf(T) == [slot : Nat, offset : Nat, type : T]

LEMMA LaidOutWell ==
  ASSUME NEW T, \A t \in T : TypeOk(t), NEW m \in Seq(MembersOf(T)), LaidWell(m), NEW t \in T
  PROVE  /\ LaidOut(m, t) \in Seq(MembersOf(T)) /\ LaidWell(LaidOut(m, t))
         /\ Len(LaidOut(m, t)) = Len(m) + 1 /\ LaidOut(m, t)[Len(m) + 1].type = t
         /\ \A i \in 1..Len(m) : LaidOut(m, t)[i] = m[i]
<1> DEFINE n == Len(m)
           f == Field(m, t)
           new == Append(m, f)
           p == m[n]
           fits == t.kind = "value" /\ p.type.kind = "value" /\ p.offset + p.type.bytes + t.bytes <= 32
<1>1. n \in Nat /\ DOMAIN m = 1..n /\ LaidOut(m, t) = new /\ TypeOk(t)
  BY DEF LaidOut
<1>2. n # 0 => p \in MembersOf(T) /\ MemberOk(p) /\ Last(m) = p /\ m # <<>> /\ n \in DOMAIN m
  <2> HIDE DEF MembersOf
  <2> QED BY <1>1 DEF LaidWell, Last
<1>3. n = 0 => m = <<>>
  BY <1>1
<1>4. CASE n = 0
  <2>1. f = [slot |-> 0, offset |-> 0, type |-> t]
    BY <1>3, <1>4 DEF Field
  <2>2. f \in MembersOf(T) /\ MemberOk(f)
    <3>1. t.bytes \in Nat /\ (t.kind = "value" => t.bytes <= 32)
      BY <1>1 DEF TypeOk
    <3> QED BY <1>1, <2>1, <3>1 DEF MembersOf, MemberOk
  <2> HIDE DEF f
  <2>3. new \in Seq(MembersOf(T)) /\ Len(new) = 1 /\ DOMAIN new = 1..1 /\ new[1] = f /\ Last(new) = f
    <3> HIDE DEF MembersOf
    <3> QED BY <1>3, <1>4, <2>2 DEF Last
  <2>4. LaidWell(new)
    <3>1. \A w \in 0..(EndOf(new) - 1) : Covers(new[1], w)
      <4>1. SlotsOf(t) \in Nat
        BY <1>1, SlotsIs
      <4> QED BY <2>1, <2>3, <4>1 DEF EndOf, Covers
    <3> QED BY <2>2, <2>3, <3>1 DEF LaidWell
  <2> QED BY <1>1, <1>4, <2>1, <2>3, <2>4
<1>5. CASE n # 0
  <2>1. f = IF fits THEN [slot |-> p.slot, offset |-> p.offset + p.type.bytes, type |-> t]
            ELSE [slot |-> p.slot + SlotsOf(p.type), offset |-> 0, type |-> t]
    BY <1>2, <1>5 DEF Field
  <2>2. /\ p.slot \in Nat /\ p.offset \in Nat /\ p.type.bytes \in Nat \ {0} /\ SlotsOf(p.type) \in Nat \ {0}
        /\ t.bytes \in Nat \ {0} /\ SlotsOf(t) \in Nat \ {0} /\ (t.kind = "value" => t.bytes <= 32 /\ SlotsOf(t) = 1)
        /\ (p.type.kind = "value" => SlotsOf(p.type) = 1)
    BY <1>1, <1>2, <1>5, SlotsIs DEF MemberOk, TypeOk
  <2> HIDE DEF f, p, n
  <2>3. f \in MembersOf(T) /\ MemberOk(f) /\ f.type = t
    <3>1. CASE fits
      BY <1>1, <2>1, <2>2, <3>1 DEF MembersOf, MemberOk
    <3>2. CASE ~fits
      <4>1. f = [slot |-> p.slot + SlotsOf(p.type), offset |-> 0, type |-> t]
        BY <2>1, <3>2
      <4> QED BY <1>1, <2>2, <4>1 DEF MembersOf, MemberOk
    <3> QED BY <3>1, <3>2
  <2>4. LaidAfter(p, f)
    <3>1. CASE fits
      BY <2>1, <2>2, <3>1 DEF LaidAfter
    <3>2. CASE ~fits
      BY <2>1, <2>2, <3>2 DEF LaidAfter
    <3> QED BY <3>1, <3>2
  <2>5. new \in Seq(MembersOf(T)) /\ Len(new) = n + 1 /\ DOMAIN new = 1..(n + 1) /\ new[n + 1] = f
        /\ (\A i \in 1..n : new[i] = m[i]) /\ Last(new) = f /\ p = m[n]
    <3> HIDE DEF MembersOf
    <3> QED BY <1>1, <2>3 DEF Last, n, p
  <2> HIDE DEF new
  <2>6. \A i \in DOMAIN new : MemberOk(new[i])
    <3>1. ASSUME NEW i \in DOMAIN new PROVE MemberOk(new[i])
      <4>1. i \in 1..n \/ i = n + 1
        BY <1>1, <2>5
      <4> QED BY <1>1, <2>3, <2>5, <4>1 DEF LaidWell
    <3> QED BY <3>1
  <2>7. ASSUME NEW i \in 1..n PROVE LaidAfter(m[i], f)
    <3>1. CASE i = n
      BY <2>4, <2>5, <3>1
    <3>2. CASE i # n
      <4>1. i < n /\ i \in DOMAIN m /\ n \in DOMAIN m
        BY <1>1, <1>5, <3>2
      <4>2. LaidAfter(m[i], p)
        BY <2>5, <4>1 DEF LaidWell
      <4>3. m[i].slot \in Nat /\ m[i].offset \in Nat /\ SlotsOf(m[i].type) \in Nat \ {0}
        BY <4>1, SlotsIs DEF LaidWell, MemberOk
      <4>4. CASE fits
        BY <2>1, <2>2, <4>2, <4>3, <4>4 DEF LaidAfter
      <4>5. CASE ~fits
        <5>1. f.slot = p.slot + SlotsOf(p.type)
          BY <2>1, <4>5
        <5>2. m[i].type.kind = "value" => SlotsOf(m[i].type) = 1
          BY <4>1, SlotsIs DEF LaidWell, MemberOk
        <5> QED BY <2>2, <4>2, <4>3, <5>1, <5>2 DEF LaidAfter
      <4> QED BY <4>4, <4>5
    <3> QED BY <3>1, <3>2
  <2>8. ASSUME NEW i \in DOMAIN new, NEW j \in DOMAIN new, i < j PROVE LaidAfter(new[i], new[j])
    <3>1. i \in 1..n /\ (j \in 1..n \/ j = n + 1)
      BY <1>1, <2>5, <2>8
    <3> QED BY <1>1, <2>5, <2>7, <2>8, <3>1 DEF LaidWell
  <2>9. ASSUME NEW w \in 0..(EndOf(new) - 1) PROVE \E i \in DOMAIN new : Covers(new[i], w)
    <3>1. EndOf(new) = f.slot + SlotsOf(t) /\ EndOf(m) = p.slot + SlotsOf(p.type) /\ f.slot \in Nat
      BY <1>2, <1>5, <2>3, <2>5 DEF EndOf, MemberOk, n, p
    <3>2. f.slot <= EndOf(m)
      BY <2>1, <2>2, <3>1
    <3>3. CASE w < f.slot
      <4>1. w \in 0..(EndOf(m) - 1)
        BY <2>2, <3>1, <3>2, <3>3
      <4>2. PICK i \in DOMAIN m : Covers(m[i], w)
        BY <1>2, <1>5, <4>1 DEF LaidWell, n
      <4>3. i \in DOMAIN new /\ new[i] = m[i]
        BY <1>1, <2>5, <4>2
      <4> QED BY <4>2, <4>3
    <3>4. CASE f.slot <= w
      <4>1. Covers(f, w)
        BY <2>2, <2>3, <2>9, <3>1, <3>4 DEF Covers
      <4> QED BY <1>1, <2>5, <4>1
    <3> QED BY <2>2, <3>1, <3>3, <3>4
  <2>10. LaidWell(new)
    BY <2>6, <2>8, <2>9 DEF LaidWell
  <2> QED BY <1>1, <2>3, <2>5, <2>10 DEF n
<1> QED BY <1>4, <1>5

\* The variables or members of types, in order, without overlap and without a slot of none.
LEMMA FieldsLaid ==
  ASSUME NEW T, \A t \in T : TypeOk(t), NEW types \in Seq(T)
  PROVE  /\ Fields(types) \in Seq(MembersOf(T)) /\ LaidWell(Fields(types)) /\ Len(Fields(types)) = Len(types)
         /\ \A i \in 1..Len(types) : Fields(types)[i].type = types[i]
<1> DEFINE D == {m \in Seq(MembersOf(T)) : LaidWell(m)}
           step == [q \in D \X T |-> LaidOut(q[1], q[2])]
           n == Len(types)
           at[i \in 0..Len(types)] == IF i = 0 THEN <<>> ELSE LaidOut(at[i - 1], types[i])
<1>0. n \in Nat /\ \A i \in 1..n : types[i] \in T
  OBVIOUS
<1>1. step \in [D \X T -> D]
  BY LaidOutWell
<1>2. <<>> \in D
  BY DEF LaidWell
<1>3. PICK f : ScanOf(D, f, <<>>, step, types)
  <2> HIDE DEF D, step
  <2> QED BY <1>1, <1>2, ScanExists
<1>4. f \in [0..n -> D] /\ f[0] = <<>> /\ \A i \in 1..n : f[i] = LaidOut(f[i - 1], types[i])
  <2>1. f \in [0..n -> D] /\ f[0] = <<>> /\ \A i \in 1..n : f[i] = step[<<f[i - 1], types[i]>>]
    <3> HIDE DEF D, step
    <3> QED BY <1>3 DEF ScanOf
  <2>2. ASSUME NEW i \in 1..n PROVE step[<<f[i - 1], types[i]>>] = LaidOut(f[i - 1], types[i])
    <3>1. i - 1 \in 0..n /\ f[i - 1] \in D
      <4> HIDE DEF D
      <4> QED BY <1>0, <2>1
    <3>2. <<f[i - 1], types[i]>> \in D \X T
      <4> HIDE DEF D
      <4> QED BY <1>0, <3>1
    <3> HIDE DEF D
    <3> QED BY <3>2
  <2> HIDE DEF D, step
  <2> QED BY <2>1, <2>2
<1> HIDE DEF step
<1>5. f = [i \in 0..n |-> IF i = 0 THEN <<>> ELSE LaidOut(f[i - 1], types[i])]
  <2> DEFINE h == [i \in 0..n |-> IF i = 0 THEN <<>> ELSE LaidOut(f[i - 1], types[i])]
  <2>1. ASSUME NEW i \in 0..n PROVE f[i] = h[i]
    <3>1. i = 0 \/ i \in 1..n
      BY <1>0
    <3> HIDE DEF D
    <3> QED BY <1>4, <3>1
  <2> HIDE DEF D
  <2> QED BY <1>4, <2>1
<1>6. Scanned(LaidOut, <<>>, types) = at
  BY Zenon DEF Scanned
<1>7. at = [i \in 0..n |-> IF i = 0 THEN <<>> ELSE LaidOut(at[i - 1], types[i])]
  BY <1>5, Zenon DEF at
<1> HIDE DEF at
<1>8. Fields(types) = at[n]
  BY <1>6, Zenon DEF Fields
<1> DEFINE Laid(m, i) == /\ m \in Seq(MembersOf(T)) /\ LaidWell(m) /\ Len(m) = i
                         /\ \A j \in 1..i : m[j].type = types[j]
           S == {i \in 0..n : Laid(at[i], i)}
<1>9. 0 \in S
  BY <1>0, <1>7 DEF LaidWell
<1>10. ASSUME NEW i \in 1..n, i - 1 \in S PROVE i \in S
  <2> DEFINE m == at[i - 1]
             new == LaidOut(m, types[i])
  <2>1. i \in 0..n /\ at[i] = new /\ types[i] \in T
    BY <1>0, <1>7
  <2>2. m \in Seq(MembersOf(T)) /\ LaidWell(m) /\ Len(m) = i - 1 /\ \A j \in 1..(i - 1) : m[j].type = types[j]
    BY <1>10
  <2> HIDE DEF m
  <2>3. /\ new \in Seq(MembersOf(T)) /\ LaidWell(new) /\ Len(new) = i /\ new[i].type = types[i]
        /\ \A j \in 1..(i - 1) : new[j] = m[j]
    <3> DEFINE t == types[i]
    <3>0. t \in T /\ m \in Seq(MembersOf(T)) /\ LaidWell(m)
      BY <2>1, <2>2
    <3> HIDE DEF t
    <3>1. /\ LaidOut(m, t) \in Seq(MembersOf(T)) /\ LaidWell(LaidOut(m, t)) /\ Len(LaidOut(m, t)) = Len(m) + 1
          /\ LaidOut(m, t)[Len(m) + 1].type = t /\ \A j \in 1..Len(m) : LaidOut(m, t)[j] = m[j]
      BY <3>0, LaidOutWell
    <3>2. Len(m) = i - 1 /\ Len(m) + 1 = i
      BY <2>2
    <3>3. new = LaidOut(m, t)
      BY DEF t
    <3> HIDE DEF new
    <3> QED BY <3>1, <3>2, <3>3 DEF t
  <2> HIDE DEF new
  <2>4. ASSUME NEW j \in 1..i PROVE new[j].type = types[j]
    <3>1. j \in 1..(i - 1) \/ j = i
      OBVIOUS
    <3> QED BY <2>2, <2>3, <3>1
  <2> QED BY <2>1, <2>3, <2>4
<1> HIDE DEF S
<1>11. 0..n \subseteq S
  BY <1>0, <1>9, <1>10, EachUpTo
<1>12. n \in S
  BY <1>0, <1>11
<1> QED BY <1>8, <1>12 DEF S

-----------------------------------------------------------------------------
(* Labels. *)

\* Values: all, under one more name, and in one slot.
LeavesSet == [slot : Nat, names : Seq(Nat)]
UnderName(i, l) == [l EXCEPT !.names = <<i>> \o @]
LeavesAt(leaves, w) == {l \in leaves : l.slot = w}

LEMMA UnderNameIs ==
  ASSUME NEW i \in Nat, NEW leaf \in LeavesSet
  PROVE  /\ UnderName(i, leaf) \in LeavesSet /\ UnderName(i, leaf).slot = leaf.slot
         /\ UnderName(i, leaf).names = <<i>> \o leaf.names /\ Len(UnderName(i, leaf).names) = Len(leaf.names) + 1
         /\ UnderName(i, leaf).names[1] = i
         /\ \A k \in 1..Len(leaf.names) : UnderName(i, leaf).names[k + 1] = leaf.names[k]
<1> DEFINE names == leaf.names
           new == <<i>> \o names
<1>1. leaf = [slot |-> leaf.slot, names |-> names] /\ leaf.slot \in Nat /\ names \in Seq(Nat)
  BY DEF LeavesSet
<1>2. /\ new \in Seq(Nat) /\ Len(new) = Len(names) + 1 /\ new[1] = i
      /\ \A k \in 1..Len(names) : new[k + 1] = names[k]
  BY <1>1
<1>3. UnderName(i, leaf) = [leaf EXCEPT !.names = new]
  BY Zenon DEF UnderName
<1> HIDE DEF new
<1>4. UnderName(i, leaf) = [slot |-> leaf.slot, names |-> new]
  <2> HIDE DEF names
  <2> QED BY <1>1, <1>3
<1>5. UnderName(i, leaf) \in LeavesSet /\ UnderName(i, leaf).slot = leaf.slot /\ UnderName(i, leaf).names = new
  BY <1>1, <1>2, <1>4 DEF LeavesSet
<1> QED BY <1>2, <1>5 DEF new

\* A label, and the values it names, below one more name.
LEMMA NamedBelow ==
  ASSUME NEW i \in Nat, NEW values \in SUBSET LeavesSet, NEW label \in Seq(SUBSET Nat), Named(label, values)
  PROVE  Named(<<{i}>> \o label, {UnderName(i, l) : l \in values}) /\ <<{i}>> \o label \in Seq(SUBSET Nat)
<1> DEFINE new == <<{i}>> \o label
           under == {UnderName(i, l) : l \in values}
           n == Len(label)
<1>1. /\ new \in Seq(SUBSET Nat) /\ Len(new) = n + 1 /\ DOMAIN new = 1..(n + 1) /\ new[1] = {i} /\ n \in Nat
      /\ DOMAIN label = 1..n /\ \A k \in 1..n : new[k + 1] = label[k]
  <2>1. {i} \in SUBSET Nat
    OBVIOUS
  <2> QED BY <2>1
<1>2. \A l \in values : Len(l.names) = n /\ l \in LeavesSet
  BY DEF Named
<1>3. values # {} /\ \A k \in 1..n : {l.names[k] : l \in values} = label[k]
  BY <1>1 DEF Named
<1> HIDE DEF new, n
<1>4. \A l \in values : Len(UnderName(i, l).names) = n + 1 /\ UnderName(i, l).names[1] = i
                        /\ \A k \in 1..n : UnderName(i, l).names[k + 1] = l.names[k]
  <2>1. ASSUME NEW l \in values
        PROVE  /\ Len(UnderName(i, l).names) = n + 1 /\ UnderName(i, l).names[1] = i
               /\ \A k \in 1..n : UnderName(i, l).names[k + 1] = l.names[k]
    <3>1. l \in LeavesSet /\ Len(l.names) = n
      BY <1>2
    <3> QED BY <3>1, UnderNameIs
  <2> QED BY <2>1
<1>5. \A v : v \in under <=> \E l \in values : v = UnderName(i, l)
  OBVIOUS
<1> HIDE DEF under
<1>6. under # {} /\ \A v \in under : Len(v.names) = Len(new)
  <2>1. \A v \in under : Len(v.names) = n + 1
    BY <1>4, <1>5
  <2>2. \E v : v \in under
    BY <1>3, <1>5
  <2> QED BY <1>1, <2>1, <2>2
<1>7. ASSUME NEW k \in DOMAIN new PROVE {v.names[k] : v \in under} = new[k]
  <2>1. CASE k = 1
    BY <1>1, <1>3, <1>4, <1>5, <2>1
  <2>2. CASE k # 1
    <3>1. PICK j \in 1..n : k = j + 1
      <4>1. k - 1 \in 1..n /\ k = (k - 1) + 1
        BY <1>1, <1>7, <2>2
      <4> QED BY <4>1
    <3>2. \A v : v \in {x.names[k] : x \in under} <=> \E l \in values : v = l.names[j]
      BY <1>4, <1>5, <3>1
    <3>3. \A v : v \in label[j] <=> \E l \in values : v = l.names[j]
      <4>1. {l.names[j] : l \in values} = label[j]
        BY <1>3, <3>1
      <4> QED BY <4>1
    <3> QED BY <1>1, <3>1, <3>2, <3>3
  <2> QED BY <2>1, <2>2
<1>8. Named(new, under)
  BY <1>6, <1>7, Zenon DEF Named
<1> QED BY <1>1, <1>8 DEF new, under

\* The names given for each of some words are right for the values in it.
NamesHold(size, slot, names, leaves) ==
  /\ leaves \in SUBSET LeavesSet
  /\ \A l \in leaves : slot <= l.slot /\ l.slot < slot + size
  /\ \A w \in 0..(size - 1) : names[w] \in Seq(SUBSET Nat) /\ Named(names[w], LeavesAt(leaves, slot + w))

LEMMA SlotCovered ==
  ASSUME NEW m, \A i \in DOMAIN m : MemberOk(m[i]), NEW w
  PROVE  BySlot(m, w) = {i \in DOMAIN m : Covers(m[i], w)}
<1>1. ASSUME NEW i \in DOMAIN m
      PROVE  Max({1, (m[i].offset + m[i].type.bytes + 31) \div 32}) = SlotsOf(m[i].type)
  <2> DEFINE t == m[i].type
             offset == m[i].offset
  <2>1. MemberOk(m[i]) /\ TypeOk(t) /\ offset \in Nat /\ t.bytes \in Nat
    BY DEF MemberOk, TypeOk
  <2>2. CASE t.kind = "value"
    <3>1. offset + t.bytes <= 32
      BY <2>1, <2>2 DEF MemberOk
    <3> HIDE DEF t, offset
    <3> QED BY <2>1, <2>2, <3>1, SlotsIs DEF t, offset
  <2>3. CASE t.kind # "value"
    <3>1. offset = 0
      BY <2>1, <2>3 DEF MemberOk
    <3>2. offset + t.bytes + 31 = t.bytes + 31
      <4> HIDE DEF t, offset
      <4> QED BY <2>1, <3>1
    <3> QED BY <3>2 DEF SlotsOf
  <2> QED BY <2>2, <2>3
<1> QED BY <1>1 DEF BySlot, Covers

\* The member whose type is looked into, and what holds of the members over a word: one, or several of one slot.
BestOf(m, w) == CHOOSE i \in BySlot(m, w) : \A j \in BySlot(m, w) : m[i].offset <= m[j].offset

OverHolds(n, m, w, over, best) ==
  /\ over \in SUBSET (1..n) /\ best \in over /\ over = {i \in 1..n : Covers(m[i], w)}
  /\ \A i \in over : w - m[i].slot \in 0..(SlotsOf(m[i].type) - 1)
  /\ over = {best} \/ (Cardinality(over) > 1 /\ \A i \in over : m[i].type.kind = "value" /\ m[i].slot = w)
  /\ over = {best} => Cardinality(over) = 1

\* The members over a word are one, or values that share its slot.
LEMMA OverIs ==
  ASSUME NEW n \in Nat \ {0}, NEW m, DOMAIN m = 1..n, Len(m) = n, m # <<>>, LaidWell(m), NEW w \in 0..(EndOf(m) - 1)
  PROVE  OverHolds(n, m, w, BySlot(m, w), BestOf(m, w))
<1> DEFINE over == BySlot(m, w)
           best == CHOOSE i \in over : \A j \in over : m[i].offset <= m[j].offset
<1>1. \A i \in 1..n : MemberOk(m[i]) /\ m[i].slot \in Nat /\ m[i].offset \in Nat /\ SlotsOf(m[i].type) \in Nat \ {0}
                      /\ (m[i].type.kind = "value" => SlotsOf(m[i].type) = 1)
  BY SlotsIs DEF LaidWell, MemberOk
<1>2. over = {i \in 1..n : Covers(m[i], w)} /\ w \in Nat
  <2>1. w \in Nat
    OBVIOUS
  <2> QED BY <1>1, <2>1, SlotCovered
<1>3. over # {} /\ over \in SUBSET (1..n) /\ over \in SUBSET Nat
  BY <1>2 DEF LaidWell
<1> HIDE DEF over
<1>4. \A i, j \in 1..n : i < j => LaidAfter(m[i], m[j])
  BY DEF LaidWell
<1>5. ASSUME NEW i \in over, NEW j \in over, i < j
      PROVE  /\ m[i].type.kind = "value" /\ m[j].type.kind = "value" /\ m[i].slot = w /\ m[j].slot = w
             /\ m[i].offset < m[j].offset
  <2>1. i \in 1..n /\ j \in 1..n /\ Covers(m[i], w) /\ Covers(m[j], w) /\ LaidAfter(m[i], m[j])
    BY <1>2, <1>3, <1>4, <1>5
  <2>2. ~(m[i].slot + SlotsOf(m[i].type) <= m[j].slot)
    BY <1>1, <1>2, <2>1 DEF Covers
  <2>3. m[i].type.kind = "value" /\ m[j].type.kind = "value" /\ m[i].slot = m[j].slot /\ m[i].offset < m[j].offset
    BY <2>1, <2>2 DEF LaidAfter
  <2> QED BY <1>1, <1>2, <2>1, <2>3 DEF Covers
<1>6. best \in over
  <2> DEFINE least == Min(over)
  <2>1. least \in over /\ \A j \in over : least <= j
    BY <1>3, MinIs
  <2> HIDE DEF least
  <2>2. ASSUME NEW j \in over PROVE m[least].offset <= m[j].offset
    <3>1. least < j \/ least = j
      BY <1>3, <2>1
    <3>2. m[least].offset \in Nat /\ m[j].offset \in Nat
      BY <1>1, <1>3, <2>1
    <3> QED BY <1>5, <2>1, <3>1, <3>2
  <2> QED BY <2>1, <2>2
<1>b. best = BestOf(m, w)
  BY DEF BestOf, over
<1> HIDE DEF best
<1>7. ASSUME NEW i \in over PROVE w - m[i].slot \in 0..(SlotsOf(m[i].type) - 1)
  <2>1. i \in 1..n /\ Covers(m[i], w)
    BY <1>2
  <2> QED BY <1>1, <1>2, <2>1 DEF Covers
<1>8. ASSUME over # {best}
      PROVE  Cardinality(over) > 1 /\ \A i \in over : m[i].type.kind = "value" /\ m[i].slot = w
  <2>1. PICK j \in over : j # best
    BY <1>6, <1>8
  <2>2. IsFiniteSet(over) /\ Cardinality(over) \in Nat
    BY <1>3, FiniteUpTo
  <2>3. Cardinality({best, j}) = 2
    <3>1. IsFiniteSet({best}) /\ Cardinality({best}) = 1 /\ j \notin {best}
      BY <2>1, FS_Singleton
    <3>2. {best, j} = {best} \cup {j}
      OBVIOUS
    <3>3. Cardinality({best} \cup {j}) = Cardinality({best}) + Cardinality({j})
      <4>1. IsFiniteSet({j}) /\ {best} \cap {j} = {}
        BY <3>1, FS_Singleton
      <4> QED BY <3>1, <4>1, CountBoth
    <3>4. Cardinality({j}) = 1
      BY FS_Singleton
    <3>5. Cardinality({best} \cup {j}) = 1 + 1
      BY <3>1, <3>3, <3>4, Zenon
    <3>6. 1 + 1 = 2
      OBVIOUS
    <3> QED BY <3>2, <3>5, <3>6, Zenon
  <2>4. Cardinality({best, j}) <= Cardinality(over)
    <3>1. {best, j} \in SUBSET over
      BY <1>6
    <3> QED BY <2>2, <3>1, FS_Subset
  <2>5. ASSUME NEW i \in over PROVE m[i].type.kind = "value" /\ m[i].slot = w
    <3>1. PICK k \in over : k # i
      BY <1>6, <2>1
    <3>2. i < k \/ k < i
      BY <1>3, <3>1
    <3> QED BY <1>5, <3>1, <3>2
  <2> QED BY <2>2, <2>3, <2>4, <2>5
<1>9. over = {best} => Cardinality(over) = 1
  BY FS_Singleton
<1>10. over = {best} \/ /\ Cardinality(over) > 1
                        /\ \A i \in over : m[i].type.kind = "value" /\ m[i].slot = w
  BY <1>8
<1>11. OverHolds(n, m, w, over, best)
  <2>1. over \in SUBSET (1..n) /\ best \in over
    BY <1>3, <1>6
  <2>2. over = {i \in 1..n : Covers(m[i], w)}
    BY <1>2
  <2>3. \A i \in over : w - m[i].slot \in 0..(SlotsOf(m[i].type) - 1)
    BY <1>7
  <2>4. over = {best} \/ (Cardinality(over) > 1 /\ \A i \in over : m[i].type.kind = "value" /\ m[i].slot = w)
    BY <1>10
  <2>5. over = {best} => Cardinality(over) = 1
    BY <1>9
  <2> QED BY <2>1, <2>2, <2>3, <2>4, <2>5, Zenon DEF OverHolds
<1> QED BY <1>b, <1>11 DEF over

\* Values that share a word are named by their positions.
LEMMA PackedNamed ==
  ASSUME NEW over \in SUBSET Nat, over # {}, NEW values,
         \A v \in values : \E i \in over : v.names = <<i>>,
         \A i \in over : \E v \in values : v.names = <<i>>
  PROVE  <<over>> \in Seq(SUBSET Nat) /\ Named(<<over>>, values)
<1>1. <<over>> \in Seq(SUBSET Nat) /\ Len(<<over>>) = 1 /\ DOMAIN <<over>> = {1} /\ <<over>>[1] = over
  OBVIOUS
<1>2. values # {} /\ \A v \in values : \E i \in over : v.names = <<i>>
  OBVIOUS
<1>3. \A v \in values : Len(v.names) = Len(<<over>>)
  <2>1. ASSUME NEW v \in values PROVE Len(v.names) = 1
    <3>1. PICK i \in over : v.names = <<i>>
      BY <1>2
    <3> QED BY <3>1
  <2> QED BY <1>1, <2>1
<1>4. {v.names[1] : v \in values} = over
  <2>1. \A x : x \in {v.names[1] : v \in values} => x \in over
    BY <1>2
  <2>2. \A x \in over : \E v \in values : v.names[1] = x
    OBVIOUS
  <2> QED BY <2>1, <2>2
<1> HIDE DEF Named
<1>5. \A k \in DOMAIN <<over>> : {v.names[k] : v \in values} = <<over>>[k]
  BY <1>1, <1>4
<1> QED BY <1>1, <1>2, <1>3, <1>5 DEF Named

\* The names of a word of members, given those of each member's words, and the values they are right for.
MemberNamed(m, names, w) == <<BySlot(m, w)>> \o names[BestOf(m, w)][w - m[BestOf(m, w)].slot]

LeavesUnder(m, below) == UNION {{UnderName(i, l) : l \in below[i]} : i \in DOMAIN m}

MembersHold(n, m, s, names, below) ==
  \A i \in 1..n : /\ NamesHold(SlotsOf(m[i].type), s + m[i].slot, names[i], below[i])
                  /\ m[i].type.kind = "value" => names[i][0] = <<>>

WordNamed(m, s, names, below, w) ==
  /\ MemberNamed(m, names, w) \in Seq(SUBSET Nat)
  /\ Named(MemberNamed(m, names, w), LeavesAt(LeavesUnder(m, below), s + w))
  /\ Cardinality(BySlot(m, w)) > 1 => MemberNamed(m, names, w) = <<BySlot(m, w)>>

\* The names of a word of a struct, from those of its members.
LEMMA StructStep ==
  ASSUME NEW n \in Nat \ {0}, NEW m, DOMAIN m = 1..n, Len(m) = n, m # <<>>, LaidWell(m), NEW s \in Nat,
         NEW below, NEW names,
         MembersHold(n, m, s, names, below),
         NEW w \in 0..(EndOf(m) - 1)
  PROVE  WordNamed(m, s, names, below, w)
<1> DEFINE over == BySlot(m, w)
           best == BestOf(m, w)
           values == LeavesAt(LeavesUnder(m, below), s + w)
           label == MemberNamed(m, names, w)
           there(i) == LeavesAt(below[i], s + w)
<1>1. /\ over \in SUBSET (1..n) /\ best \in over /\ over = {i \in 1..n : Covers(m[i], w)}
      /\ \A i \in over : w - m[i].slot \in 0..(SlotsOf(m[i].type) - 1)
      /\ over = {best} \/ (Cardinality(over) > 1 /\ \A i \in over : m[i].type.kind = "value" /\ m[i].slot = w)
      /\ over = {best} => Cardinality(over) = 1
  <2>1. OverHolds(n, m, w, BySlot(m, w), BestOf(m, w))
    BY OverIs
  <2> QED BY <2>1 DEF OverHolds
<1>2. label = <<over>> \o names[best][w - m[best].slot]
  BY Zenon DEF MemberNamed
<1> HIDE DEF over, best, label
<1>3. \A i \in 1..n : m[i].slot \in Nat /\ SlotsOf(m[i].type) \in Nat
  BY SlotsIs DEF LaidWell, MemberOk
<1>4. ASSUME NEW i \in 1..n
      PROVE  /\ below[i] \in SUBSET LeavesSet /\ \A l \in below[i] : l.slot = s + w => i \in over
             /\ i \in over => /\ names[i][w - m[i].slot] \in Seq(SUBSET Nat)
                              /\ Named(names[i][w - m[i].slot], there(i))
             /\ there(i) \in SUBSET LeavesSet
  <2>1. NamesHold(SlotsOf(m[i].type), s + m[i].slot, names[i], below[i])
    BY DEF MembersHold
  <2>2. \A l \in below[i] : l.slot \in Nat /\ s + m[i].slot <= l.slot /\ l.slot < s + m[i].slot + SlotsOf(m[i].type)
    BY <2>1 DEF NamesHold, LeavesSet
  <2>3. \A l \in below[i] : l.slot = s + w => i \in over
    <3>1. ASSUME NEW l \in below[i], l.slot = s + w PROVE i \in over
      <4>1. s + m[i].slot <= s + w /\ s + w < s + m[i].slot + SlotsOf(m[i].type) /\ m[i].slot \in Nat
            /\ SlotsOf(m[i].type) \in Nat
        BY <1>3, <2>2, <3>1
      <4>2. w \in Nat
        <5>1. \A x \in 0..(EndOf(m) - 1) : x \in Nat
          OBVIOUS
        <5> QED BY <5>1
      <4>3. m[i].slot <= w /\ w < m[i].slot + SlotsOf(m[i].type)
        BY <4>1, <4>2
      <4> QED BY <1>1, <4>3 DEF Covers
    <3> QED BY <3>1
  <2>4. ASSUME i \in over
        PROVE  names[i][w - m[i].slot] \in Seq(SUBSET Nat) /\ Named(names[i][w - m[i].slot], there(i))
    <3>1. w - m[i].slot \in 0..(SlotsOf(m[i].type) - 1) /\ (s + m[i].slot) + (w - m[i].slot) = s + w
      BY <1>1, <1>3, <2>4
    <3> QED BY <2>1, <3>1 DEF NamesHold
  <2> QED BY <2>1, <2>3, <2>4 DEF NamesHold, LeavesAt
<1>5. \A v : v \in values <=> \E i \in over : \E l \in there(i) : v = UnderName(i, l)
  <2>1. ASSUME NEW i \in 1..n, NEW l \in below[i] PROVE UnderName(i, l).slot = l.slot
    <3>1. i \in Nat /\ l \in LeavesSet
      BY <1>4
    <3> QED BY <3>1, UnderNameIs
  <2>2. ASSUME NEW v \in values PROVE \E i \in over : \E l \in there(i) : v = UnderName(i, l)
    <3>1. PICK i \in 1..n : \E l \in below[i] : v = UnderName(i, l)
      BY DEF LeavesAt, LeavesUnder
    <3>2. PICK l \in below[i] : v = UnderName(i, l)
      BY <3>1
    <3>3. l.slot = s + w
      BY <2>1, <3>2 DEF LeavesAt
    <3> QED BY <1>4, <3>2, <3>3 DEF LeavesAt
  <2>3. ASSUME NEW i \in over, NEW l \in there(i) PROVE UnderName(i, l) \in values
    <3>1. i \in 1..n /\ l \in below[i] /\ l.slot = s + w
      BY <1>1 DEF LeavesAt
    <3>2. UnderName(i, l).slot = s + w
      BY <2>1, <3>1
    <3> QED BY <3>1, <3>2 DEF LeavesAt, LeavesUnder
  <2> QED BY <2>2, <2>3
<1> HIDE DEF values, there
<1>6. ASSUME over = {best} PROVE label \in Seq(SUBSET Nat) /\ Named(label, values)
  <2>1. best \in Nat /\ best \in 1..n
    BY <1>1
  <2>2. values = {UnderName(best, l) : l \in there(best)}
    BY <1>5, <1>6
  <2>3. label = <<{best}>> \o names[best][w - m[best].slot]
    BY <1>2, <1>6
  <2> DEFINE old == names[best][w - m[best].slot]
  <2>4. there(best) \in SUBSET LeavesSet /\ old \in Seq(SUBSET Nat) /\ Named(old, there(best))
    BY <1>1, <1>4, <2>1
  <2> HIDE DEF old
  <2>5. Named(<<{best}>> \o old, {UnderName(best, l) : l \in there(best)}) /\ <<{best}>> \o old \in Seq(SUBSET Nat)
    BY <2>1, <2>4, NamedBelow
  <2>6. label \in Seq(SUBSET Nat) /\ Named(label, values)
    BY <2>2, <2>3, <2>5 DEF old
  <2> QED BY <2>6
<1>7. ASSUME Cardinality(over) > 1, \A i \in over : m[i].type.kind = "value" /\ m[i].slot = w
      PROVE  label = <<over>> /\ label \in Seq(SUBSET Nat) /\ Named(label, values)
  <2>1. ASSUME NEW i \in over PROVE names[i][w - m[i].slot] = <<>> /\ i \in Nat
    <3>1. i \in 1..n /\ m[i].type.kind = "value" /\ m[i].slot = w /\ names[i][0] = <<>>
      BY <1>1, <1>7 DEF MembersHold
    <3>2. w - m[i].slot = 0
      BY <1>3, <3>1
    <3> QED BY <3>1, <3>2
  <2>2. label = <<over>>
    <3>1. label = <<over>> \o <<>>
      BY <1>1, <1>2, <2>1
    <3> QED BY <3>1
  <2>3. ASSUME NEW i \in over PROVE there(i) # {} /\ \A l \in there(i) : UnderName(i, l).names = <<i>>
    <3>1. there(i) # {} /\ (\A l \in there(i) : Len(l.names) = 0) /\ there(i) \in SUBSET LeavesSet
      BY <1>1, <1>4, <2>1 DEF Named
    <3>2. ASSUME NEW l \in there(i) PROVE UnderName(i, l).names = <<i>>
      <4>1. l \in LeavesSet /\ i \in Nat
        BY <2>1, <3>1
      <4>2. l.names = <<>>
        BY <3>1, <4>1 DEF LeavesSet
      <4>3. UnderName(i, l).names = <<i>> \o l.names
        BY <4>1, UnderNameIs
      <4> QED BY <4>2, <4>3
    <3> QED BY <3>1, <3>2
  <2>4. /\ over \in SUBSET Nat /\ over # {}
        /\ \A v \in values : \E i \in over : v.names = <<i>>
        /\ \A i \in over : \E v \in values : v.names = <<i>>
    <3>1. over \in SUBSET Nat /\ over # {}
      BY <1>1
    <3>2. ASSUME NEW v \in values PROVE \E i \in over : v.names = <<i>>
      <4>1. PICK i \in over : \E l \in there(i) : v = UnderName(i, l)
        BY <1>5
      <4> QED BY <2>3, <4>1
    <3>3. ASSUME NEW i \in over PROVE \E v \in values : v.names = <<i>>
      <4>1. PICK l \in there(i) : UnderName(i, l).names = <<i>>
        BY <2>3
      <4>2. UnderName(i, l) \in values
        BY <1>5, <4>1
      <4> QED BY <4>1, <4>2
    <3> QED BY <3>1, <3>2, <3>3
  <2>5. <<over>> \in Seq(SUBSET Nat) /\ Named(<<over>>, values)
    BY <2>4, PackedNamed
  <2> QED BY <2>2, <2>5
<1>8. label \in Seq(SUBSET Nat) /\ Named(label, values) /\ (Cardinality(over) > 1 => label = <<over>>)
  BY <1>1, <1>6, <1>7
<1> QED BY <1>8, Zenon DEF over, values, label, WordNamed

LEMMA EndBounds ==
  ASSUME NEW n \in Nat \ {0}, NEW m, DOMAIN m = 1..n, Len(m) = n, LaidWell(m)
  PROVE  EndOf(m) \in Nat \ {0} /\ \A i \in 1..n : m[i].slot + SlotsOf(m[i].type) <= EndOf(m)
<1>1. Last(m) = m[n] /\ n \in 1..n
  BY DEF Last
<1>2. \A i \in 1..n : m[i].slot \in Nat /\ SlotsOf(m[i].type) \in Nat \ {0}
                      /\ (m[i].type.kind = "value" => SlotsOf(m[i].type) = 1)
  BY SlotsIs DEF LaidWell, MemberOk
<1>3. EndOf(m) = m[n].slot + SlotsOf(m[n].type)
  BY <1>1 DEF EndOf
<1>4. ASSUME NEW i \in 1..n PROVE m[i].slot + SlotsOf(m[i].type) <= EndOf(m)
  <2>1. CASE i = n
    BY <1>2, <1>3, <2>1
  <2>2. CASE i # n
    <3>1. LaidAfter(m[i], m[n])
      <4>1. i < n
        BY <2>2
      <4> QED BY <1>1, <4>1 DEF LaidWell
    <3> QED BY <1>1, <1>2, <1>3, <3>1 DEF LaidAfter
  <2> QED BY <2>1, <2>2
<1> QED BY <1>1, <1>2, <1>3, <1>4

LEMMA StructHolds ==
  ASSUME NEW n \in Nat \ {0}, NEW m, DOMAIN m = 1..n, Len(m) = n, m # <<>>, LaidWell(m), NEW s \in Nat,
         NEW below, NEW names,
         MembersHold(n, m, s, names, below)
  PROVE  /\ NamesHold(EndOf(m), s, [w \in 0..(EndOf(m) - 1) |-> MemberNamed(m, names, w)], LeavesUnder(m, below))
         /\ \A w \in 0..(EndOf(m) - 1) : Cardinality(BySlot(m, w)) > 1 => MemberNamed(m, names, w) = <<BySlot(m, w)>>
<1> DEFINE all == [w \in 0..(EndOf(m) - 1) |-> MemberNamed(m, names, w)]
           leaves == LeavesUnder(m, below)
<1>1. ASSUME NEW w \in 0..(EndOf(m) - 1)
      PROVE  /\ MemberNamed(m, names, w) \in Seq(SUBSET Nat) /\ Named(MemberNamed(m, names, w), LeavesAt(leaves, s + w))
             /\ Cardinality(BySlot(m, w)) > 1 => MemberNamed(m, names, w) = <<BySlot(m, w)>>
  <2>1. WordNamed(m, s, names, below, w)
    BY StructStep
  <2> QED BY <2>1 DEF WordNamed
<1>2. EndOf(m) \in Nat \ {0} /\ \A i \in 1..n : m[i].slot + SlotsOf(m[i].type) <= EndOf(m)
  BY EndBounds
<1>3. \A i \in 1..n : m[i].slot \in Nat /\ SlotsOf(m[i].type) \in Nat
  BY SlotsIs DEF LaidWell, MemberOk
<1>4. ASSUME NEW v \in leaves PROVE v \in LeavesSet /\ s <= v.slot /\ v.slot < s + EndOf(m)
  <2>1. PICK i \in 1..n : \E l \in below[i] : v = UnderName(i, l)
    BY DEF LeavesUnder
  <2>2. PICK l \in below[i] : v = UnderName(i, l)
    BY <2>1
  <2>3. l \in LeavesSet /\ s + m[i].slot <= l.slot /\ l.slot < s + m[i].slot + SlotsOf(m[i].type)
    BY <2>1, <2>2 DEF NamesHold, MembersHold
  <2>4. v \in LeavesSet /\ v.slot = l.slot /\ v.slot \in Nat
    <3>1. i \in Nat
      OBVIOUS
    <3>2. UnderName(i, l) \in LeavesSet /\ UnderName(i, l).slot = l.slot
      BY <2>3, <3>1, UnderNameIs
    <3> QED BY <2>2, <3>2 DEF LeavesSet
  <2> QED BY <1>2, <1>3, <2>1, <2>3, <2>4
<1> HIDE DEF leaves
<1>5. \A w \in 0..(EndOf(m) - 1) : all[w] \in Seq(SUBSET Nat) /\ Named(all[w], LeavesAt(leaves, s + w))
  BY <1>1
<1> HIDE DEF all
<1>6. NamesHold(EndOf(m), s, all, leaves)
  BY <1>4, <1>5 DEF NamesHold
<1> QED BY <1>1, <1>6 DEF all, leaves

\* The same of an array of c elements of k slots.
BasesHold(k, c, s, names, below) == \A j \in 0..(c - 1) : NamesHold(k, s + j * k, names, below[j])
ArrayNamed(k, c, names) == [w \in 0..(c * k - 1) |-> <<{w \div k}>> \o names[w % k]]
LeavesOfBases(c, below) == UNION {{UnderName(j, l) : l \in below[j]} : j \in 0..(c - 1)}

\* The names of a word of an array, from those of its base.
LEMMA ArrayHolds ==
  ASSUME NEW k \in Nat \ {0}, NEW c \in Nat \ {0}, NEW s \in Nat, NEW names, NEW below,
         BasesHold(k, c, s, names, below)
  PROVE  NamesHold(c * k, s, ArrayNamed(k, c, names), LeavesOfBases(c, below))
<1> USE DEF BasesHold
<1> DEFINE all == [w \in 0..(c * k - 1) |-> <<{w \div k}>> \o names[w % k]]
           leaves == UNION {{UnderName(j, l) : l \in below[j]} : j \in 0..(c - 1)}
<1>1. \A v : v \in leaves <=> \E j \in 0..(c - 1) : \E l \in below[j] : v = UnderName(j, l)
  OBVIOUS
<1> HIDE DEF leaves
<1>2. c * k \in Nat /\ \A j \in 0..(c - 1) : j \in Nat /\ j * k \in Nat /\ j * k + k <= c * k
  <2>1. c * k \in Nat
    OBVIOUS
  <2>2. ASSUME NEW j \in 0..(c - 1) PROVE j \in Nat /\ j * k \in Nat /\ j * k + k <= c * k
    <3>1. PICK d \in Nat : c = j + 1 + d
      <4>1. c - j - 1 \in Nat /\ c = j + 1 + (c - j - 1)
        OBVIOUS
      <4> QED BY <4>1
    <3>2. c * k = j * k + k + d * k /\ d * k \in Nat /\ j * k \in Nat
      BY <3>1
    <3> QED BY <3>2
  <2> QED BY <2>1, <2>2
<1>3. ASSUME NEW j \in 0..(c - 1), NEW l \in below[j]
      PROVE  /\ l \in LeavesSet /\ UnderName(j, l) \in LeavesSet /\ UnderName(j, l).slot = l.slot
             /\ l.slot \in Nat /\ s + j * k <= l.slot /\ l.slot < s + j * k + k
  <2>1. l \in LeavesSet /\ s + j * k <= l.slot /\ l.slot < s + j * k + k /\ j \in Nat
    BY DEF NamesHold
  <2>2. UnderName(j, l) \in LeavesSet /\ UnderName(j, l).slot = l.slot
    BY <2>1, UnderNameIs
  <2> QED BY <2>1, <2>2 DEF LeavesSet
<1>4. ASSUME NEW v \in leaves PROVE v \in LeavesSet /\ s <= v.slot /\ v.slot < s + c * k
  <2>1. PICK j \in 0..(c - 1) : \E l \in below[j] : v = UnderName(j, l)
    BY <1>1
  <2>2. PICK l \in below[j] : v = UnderName(j, l)
    BY <2>1
  <2>3. v \in LeavesSet /\ v.slot \in Nat /\ s + j * k <= v.slot /\ v.slot < s + j * k + k
    BY <1>3, <2>2
  <2> DEFINE a == j * k
             b == c * k
  <2>4. a \in Nat /\ b \in Nat /\ a + k <= b
    BY <1>2
  <2> HIDE DEF a, b
  <2>5. s + a <= v.slot /\ v.slot < s + a + k
    BY <2>3 DEF a
  <2>6. s <= v.slot /\ v.slot < s + b
    BY <2>3, <2>4, <2>5
  <2> QED BY <2>3, <2>6 DEF b
<1>5. ASSUME NEW w \in 0..(c * k - 1)
      PROVE  all[w] \in Seq(SUBSET Nat) /\ Named(all[w], LeavesAt(leaves, s + w))
  <2>1. w \in Nat /\ w < c * k
    BY <1>2
  <2>2. PICK q \in Nat, e \in 0..(k - 1) : w = q * k + e /\ q = w \div k /\ e = w % k
    BY <2>1, RestIs
  <2>3. q * k \in Nat /\ e \in Nat /\ e < k
    OBVIOUS
  <2>4. q \in 0..(c - 1)
    <3>1. CASE c <= q
      <4>1. PICK d \in Nat : q = c + d
        <5>1. q - c \in Nat /\ q = c + (q - c)
          BY <3>1
        <5> QED BY <5>1
      <4>2. q * k = c * k + d * k /\ d * k \in Nat
        BY <4>1
      <4> QED BY <1>2, <2>1, <2>2, <2>3, <4>2
    <3> QED BY <3>1
  <2> DEFINE there == LeavesAt(below[q], s + w)
             old == names[e]
  <2>5. there \in SUBSET LeavesSet /\ old \in Seq(SUBSET Nat) /\ Named(old, there)
    <3>1. NamesHold(k, s + q * k, names, below[q])
      BY <2>4
    <3>2. (s + q * k) + e = s + w
      BY <2>1, <2>2, <2>3
    <3> QED BY <3>1, <3>2 DEF NamesHold, LeavesAt
  <2>6. all[w] = <<{q}>> \o old
    BY <2>2
  <2>7. ASSUME NEW j \in 0..(c - 1), NEW l \in below[j], l.slot = s + w PROVE j = q
    <3>1. s + j * k <= s + w /\ s + w < s + j * k + k /\ j * k \in Nat
      BY <1>2, <1>3, <2>7
    <3> DEFINE a == j * k
               b == q * k
    <3>2. PICK x \in 1..k : a + x = b + e + 1
      <4>1. a \in Nat /\ b \in Nat /\ a <= b + e /\ b + e < a + k
        <5>1. s + a <= s + w /\ s + w < s + a + k /\ a \in Nat /\ w = b + e /\ b \in Nat
          BY <2>2, <2>3, <3>1
        <5> HIDE DEF a, b
        <5> QED BY <2>1, <5>1
      <4> HIDE DEF a, b
      <4>2. b + e + 1 - a \in 1..k /\ a + (b + e + 1 - a) = b + e + 1
        BY <2>3, <4>1
      <4> QED BY <4>2
    <3>3. e + 1 \in 1..k /\ j * k + x = q * k + (e + 1) /\ j \in Nat
      <4>1. a \in Nat /\ b \in Nat
        BY <2>3, <3>1
      <4>2. a + x = b + (e + 1)
        <5> HIDE DEF a, b
        <5> QED BY <2>3, <3>2, <4>1
      <4> QED BY <2>3, <4>2
    <3> QED BY <3>3, CellsApart
  <2>8. LeavesAt(leaves, s + w) = {UnderName(q, l) : l \in there}
    <3>1. ASSUME NEW v \in LeavesAt(leaves, s + w) PROVE v \in {UnderName(q, l) : l \in there}
      <4>1. PICK j \in 0..(c - 1) : \E l \in below[j] : v = UnderName(j, l)
        BY <1>1 DEF LeavesAt
      <4>2. PICK l \in below[j] : v = UnderName(j, l)
        BY <4>1
      <4>3. l.slot = s + w
        BY <1>3, <4>2 DEF LeavesAt
      <4>4. j = q
        BY <2>7, <4>3
      <4> QED BY <4>2, <4>3, <4>4 DEF LeavesAt
    <3>2. ASSUME NEW l \in there PROVE UnderName(q, l) \in LeavesAt(leaves, s + w)
      <4>1. l \in below[q] /\ l.slot = s + w
        BY DEF LeavesAt
      <4>2. UnderName(q, l).slot = s + w
        BY <1>3, <2>4, <4>1
      <4> QED BY <1>1, <2>4, <4>1, <4>2 DEF LeavesAt
    <3> QED BY <3>1, <3>2
  <2> HIDE DEF there, old, all
  <2>9. Named(<<{q}>> \o old, {UnderName(q, l) : l \in there}) /\ <<{q}>> \o old \in Seq(SUBSET Nat)
    BY <2>5, NamedBelow
  <2> QED BY <2>6, <2>8, <2>9
<1> HIDE DEF all
<1>6. NamesHold(c * k, s, all, leaves)
  BY <1>4, <1>5 DEF NamesHold
<1> QED BY <1>6 DEF all, leaves, ArrayNamed, LeavesOfBases

-----------------------------------------------------------------------------
(* Types, one level above another. *)

LEMMA SingleHolds ==
  ASSUME NEW s \in Nat
  PROVE  NamesHold(1, s, [w \in 0..0 |-> <<>>], {[slot |-> s, names |-> <<>>]})
<1> DEFINE leaf == [slot |-> s, names |-> <<>>]
           names == [w \in 0..0 |-> <<>>]
<1>1. leaf \in LeavesSet /\ leaf.slot = s /\ leaf.names = <<>>
  BY DEF LeavesSet
<1>2. names[0] = <<>> /\ <<>> \in Seq(SUBSET Nat) /\ Len(<<>>) = 0 /\ DOMAIN <<>> = {}
  OBVIOUS
<1> HIDE DEF leaf, names
<1>3. LeavesAt({leaf}, s + 0) = {leaf}
  BY <1>1 DEF LeavesAt
<1>4. Named(<<>>, {leaf})
  BY <1>1, <1>2 DEF Named
<1>5. \A w \in 0..(1 - 1) : names[w] \in Seq(SUBSET Nat) /\ Named(names[w], LeavesAt({leaf}, s + w))
  <2>1. ASSUME NEW w \in 0..(1 - 1) PROVE w = 0
    OBVIOUS
  <2>2. names[0] \in Seq(SUBSET Nat) /\ Named(names[0], LeavesAt({leaf}, s + 0))
    BY <1>2, <1>3, <1>4, Zenon
  <2> QED BY <2>1, <2>2, Zenon
<1>6. NamesHold(1, s, names, {leaf})
  BY <1>1, <1>5 DEF NamesHold
<1> QED BY <1>6 DEF leaf, names

\* An array of values smaller than a word has a name for each word.
LEMMA WordsLaid ==
  ASSUME NEW s \in Nat, NEW c \in Nat \ {0}
  PROVE  NamesHold(c, s, [w \in 0..(c - 1) |-> <<{w}>>], {[slot |-> s + i, names |-> <<i>>] : i \in 0..(c - 1)})
<1> DEFINE leaf(i) == [slot |-> s + i, names |-> <<i>>]
           leaves == {leaf(i) : i \in 0..(c - 1)}
           names == [w \in 0..(c - 1) |-> <<{w}>>]
<1>1. \A i \in 0..(c - 1) : leaf(i) \in LeavesSet /\ leaf(i).slot = s + i /\ leaf(i).names = <<i>>
  BY DEF LeavesSet
<1> HIDE DEF leaf
<1>2. \A l \in leaves : l \in LeavesSet /\ s <= l.slot /\ l.slot < s + c
  BY <1>1
<1>3. ASSUME NEW w \in 0..(c - 1) PROVE names[w] \in Seq(SUBSET Nat) /\ Named(names[w], LeavesAt(leaves, s + w))
  <2>1. w \in Nat /\ names[w] = <<{w}>>
    OBVIOUS
  <2>2. LeavesAt(leaves, s + w) = {leaf(w)}
    <3>1. ASSUME NEW v \in LeavesAt(leaves, s + w) PROVE v = leaf(w)
      <4>1. PICK i \in 0..(c - 1) : v = leaf(i)
        BY DEF LeavesAt
      <4>2. s + i = s + w
        BY <1>1, <4>1 DEF LeavesAt
      <4> QED BY <4>1, <4>2
    <3>2. leaf(w) \in LeavesAt(leaves, s + w)
      BY <1>1 DEF LeavesAt
    <3> QED BY <3>1, <3>2
  <2>3. {w} \in SUBSET Nat /\ {w} # {} /\ leaf(w).names = <<w>>
    BY <1>1, <2>1
  <2>4. \A v \in {leaf(w)} : \E i \in {w} : v.names = <<i>>
    BY <2>3
  <2>5. \A i \in {w} : \E v \in {leaf(w)} : v.names = <<i>>
    BY <2>3
  <2> HIDE DEF names, leaves
  <2>6. <<{w}>> \in Seq(SUBSET Nat) /\ Named(<<{w}>>, {leaf(w)})
    BY <2>3, <2>4, <2>5, PackedNamed
  <2> QED BY <2>1, <2>2, <2>6
<1> HIDE DEF names, leaves
<1>4. NamesHold(c, s, names, leaves)
  BY <1>2, <1>3 DEF NamesHold
<1> QED BY <1>4 DEF names, leaves, leaf

\* What a type is made of.
SingleType(t) == t.kind # "struct" /\ t.kind # "array" /\ SlotsOf(t) = 1
WordsType(t) == t.kind = "array" /\ t.base.bytes \in Nat /\ t.base.bytes < 32 /\ \E c \in Nat \ {0} : t.bytes = 32 * c
ArrayType(t, c) ==
  /\ t.kind = "array" /\ t.base.bytes >= 32 /\ ~(t.base.bytes < 32) /\ TypeOk(t.base)
  /\ c \in Nat \ {0} /\ t.bytes = 32 * (c * SlotsOf(t.base))
StructType(t) ==
  /\ t.kind = "struct" /\ Len(t.members) \in Nat \ {0} /\ DOMAIN t.members = 1..Len(t.members) /\ t.members # <<>>
  /\ LaidWell(t.members) /\ t.bytes = 32 * EndOf(t.members)

\* Types whose words are named right, by how deep the types in them nest.
ValueGood(t) ==
  \A s \in Nat : /\ NamesHold(SlotsOf(t), s, [w \in 0..(SlotsOf(t) - 1) |-> NoNames(t, w)], ValueLeaf(t, s))
                 /\ t.kind = "value" => NoNames(t, 0) = <<>>

LEMMA WordsSmall ==
  ASSUME NEW n \in Nat, n < 32
  PROVE  ~(n >= 32)
  OBVIOUS

LEMMA TimesOver ==
  ASSUME NEW c \in Nat \ {0}, NEW k \in Nat \ {0}
  PROVE  (c * k) \div k = c
<1>1. c * k \in Nat
  OBVIOUS
<1>2. PICK q \in Nat, e \in 0..(k - 1) : c * k = q * k + e /\ q = (c * k) \div k
  BY <1>1, RestIs
<1>3. 1 \in 1..k /\ e + 1 \in 1..k /\ c * k + 1 = q * k + (e + 1)
  <2>1. q * k \in Nat
    OBVIOUS
  <2> QED BY <1>1, <1>2, <2>1
<1>4. c = q
  BY <1>3, CellsApart
<1> QED BY <1>2, <1>4

LEMMA ValueGoodSingle ==
  ASSUME NEW t, TypeOk(t), SingleType(t)
  PROVE  ValueGood(t)
<1>1. SlotsOf(t) = 1 /\ 1 - 1 = 0 /\ \A w : NoNames(t, w) = <<>>
  BY DEF SingleType, NoNames
<1>2. \A s \in Nat : ValueLeaf(t, s) = {[slot |-> s, names |-> <<>>]}
  BY DEF ValueLeaf
<1>3. [w \in 0..(SlotsOf(t) - 1) |-> NoNames(t, w)] = [w \in 0..0 |-> <<>>]
  BY <1>1
<1>4. \A s \in Nat : NamesHold(1, s, [w \in 0..0 |-> <<>>], {[slot |-> s, names |-> <<>>]})
  BY SingleHolds
<1>5. ASSUME NEW s \in Nat PROVE NamesHold(SlotsOf(t), s, [w \in 0..(SlotsOf(t) - 1) |-> NoNames(t, w)], ValueLeaf(t, s))
  BY <1>1, <1>2, <1>3, <1>4
<1> QED BY <1>1, <1>5 DEF ValueGood

FlatGood(t) ==
  \A s \in Nat : /\ NamesHold(SlotsOf(t), s, [w \in 0..(SlotsOf(t) - 1) |-> FlatNames(t, w)], FlatLeaves(t, s))
                 /\ t.kind = "value" => FlatNames(t, 0) = <<>>

LEMMA FlatGoodSingle ==
  ASSUME NEW t, TypeOk(t), SingleType(t)
  PROVE  FlatGood(t)
<1>1. SlotsOf(t) = 1 /\ 1 - 1 = 0 /\ \A w : FlatNames(t, w) = <<>>
  BY DEF SingleType, FlatNames, WordNames
<1>2. \A s \in Nat : FlatLeaves(t, s) = {[slot |-> s, names |-> <<>>]}
  BY DEF SingleType, FlatLeaves, Leaves
<1>3. [w \in 0..(SlotsOf(t) - 1) |-> FlatNames(t, w)] = [w \in 0..0 |-> <<>>]
  BY <1>1
<1>4. \A s \in Nat : NamesHold(1, s, [w \in 0..0 |-> <<>>], {[slot |-> s, names |-> <<>>]})
  BY SingleHolds
<1>5. ASSUME NEW s \in Nat PROVE NamesHold(SlotsOf(t), s, [w \in 0..(SlotsOf(t) - 1) |-> FlatNames(t, w)], FlatLeaves(t, s))
  BY <1>1, <1>2, <1>3, <1>4
<1> QED BY <1>1, <1>5 DEF FlatGood

LEMMA FlatGoodWords ==
  ASSUME NEW t, TypeOk(t), WordsType(t)
  PROVE  FlatGood(t)
<1>1. PICK c \in Nat \ {0} : t.bytes = 32 * c
  BY DEF WordsType
<1>2. t.kind = "array" /\ t.base.bytes < 32 /\ SlotsOf(t) = c /\ t.bytes \div 32 = c
  BY <1>1, SlotsIs DEF WordsType
<1>3. \A w : FlatNames(t, w) = <<{w}>>
  BY <1>2 DEF FlatNames, WordNames
<1>4. ASSUME NEW s \in Nat PROVE FlatLeaves(t, s) = {[slot |-> s + i, names |-> <<i>>] : i \in 0..(c - 1)}
  <2>1. ~(t.base.bytes >= 32)
    BY <1>2, WordsSmall DEF WordsType
  <2>2. FlatLeaves(t, s) = {[slot |-> s + i, names |-> <<i>>] : i \in 0..(t.bytes \div 32 - 1)}
    BY <1>2, <2>1 DEF FlatLeaves, Leaves
  <2> QED BY <1>2, <2>2
<1>5. ASSUME NEW s \in Nat PROVE NamesHold(SlotsOf(t), s, [w \in 0..(SlotsOf(t) - 1) |-> FlatNames(t, w)], FlatLeaves(t, s))
  <2>1. NamesHold(c, s, [w \in 0..(c - 1) |-> <<{w}>>], {[slot |-> s + i, names |-> <<i>>] : i \in 0..(c - 1)})
    BY WordsLaid
  <2>2. [w \in 0..(SlotsOf(t) - 1) |-> FlatNames(t, w)] = [w \in 0..(c - 1) |-> <<{w}>>]
    BY <1>2, <1>3
  <2> QED BY <1>2, <1>4, <2>1, <2>2
<1> QED BY <1>2, <1>5 DEF FlatGood

LEMMA FlatGoodArray ==
  ASSUME NEW t, TypeOk(t), NEW c, ArrayType(t, c), ValueGood(t.base)
  PROVE  FlatGood(t)
<1> DEFINE k == SlotsOf(t.base)
<1>1. t.kind = "array" /\ t.base.bytes >= 32 /\ ~(t.base.bytes < 32) /\ c \in Nat \ {0} /\ k \in Nat \ {0} /\ t.bytes = 32 * (c * k)
  BY SlotsIs DEF ArrayType
<1>2. SlotsOf(t) = c * k /\ (t.bytes \div 32) \div k = c
  <2>1. c * k \in Nat \ {0}
    BY <1>1
  <2>2. SlotsOf(t) = c * k /\ t.bytes \div 32 = c * k
    BY <1>1, <2>1, SlotsIs
  <2>3. (c * k) \div k = c
    BY <1>1, TimesOver
  <2> QED BY <2>2, <2>3
<1> HIDE DEF k
<1>3. ASSUME NEW w PROVE FlatNames(t, w) = <<{w \div k}>> \o NoNames(t.base, w % k)
  BY <1>1 DEF FlatNames, WordNames, Element, k
<1>4. ASSUME NEW s \in Nat PROVE NamesHold(SlotsOf(t), s, [w \in 0..(SlotsOf(t) - 1) |-> FlatNames(t, w)], FlatLeaves(t, s))
  <2> DEFINE names == [e \in 0..(k - 1) |-> NoNames(t.base, e)]
             below == [j \in 0..(c - 1) |-> ValueLeaf(t.base, s + j * k)]
             all == ArrayNamed(k, c, names)
             leaves == LeavesOfBases(c, below)
  <2>1. ASSUME NEW j \in 0..(c - 1) PROVE NamesHold(k, s + j * k, names, below[j])
    <3>1. s + j * k \in Nat
      BY <1>1
    <3> DEFINE p == s + j * k
    <3>2. below[j] = ValueLeaf(t.base, p)
      OBVIOUS
    <3> HIDE DEF p, below
    <3>3. NamesHold(k, p, names, ValueLeaf(t.base, p))
      BY <3>1 DEF ValueGood, k, p
    <3> QED BY <3>2, <3>3 DEF p
  <2>2. NamesHold(c * k, s, all, leaves)
    <3>1. BasesHold(k, c, s, names, below)
      <4> HIDE DEF names, below
      <4> QED BY <2>1 DEF BasesHold
    <3> HIDE DEF names, below
    <3> QED BY <1>1, <3>1, ArrayHolds
  <2>3. FlatLeaves(t, s) = leaves
    <3>1. FlatLeaves(t, s) = UNION {{UnderName(j, l) : l \in ValueLeaf(t.base, s + j * SlotsOf(t.base))}
                             : j \in 0..((t.bytes \div 32) \div SlotsOf(t.base) - 1)}
      <4>1. t.kind # "struct"
        BY <1>1
      <4> QED BY <1>1, <4>1 DEF FlatLeaves, Leaves, UnderName
    <3>2. FlatLeaves(t, s) = UNION {{UnderName(j, l) : l \in ValueLeaf(t.base, s + j * k)} : j \in 0..(c - 1)}
      BY <1>2, <3>1 DEF k
    <3>3. \A j \in 0..(c - 1) : below[j] = ValueLeaf(t.base, s + j * k)
      OBVIOUS
    <3> HIDE DEF below
    <3> QED BY <3>2, <3>3 DEF LeavesOfBases
  <2>4. [w \in 0..(SlotsOf(t) - 1) |-> FlatNames(t, w)] = all
    <3>1. ASSUME NEW w \in 0..(c * k - 1) PROVE FlatNames(t, w) = all[w]
      <4>1. w \in Nat
        BY <1>1
      <4>2. \E q \in Nat, e \in 0..(k - 1) : w = q * k + e /\ q = w \div k /\ e = w % k
        BY <1>1, <4>1, RestIs
      <4>3. w % k \in 0..(k - 1)
        BY <4>2
      <4>4. names[w % k] = NoNames(t.base, w % k)
        BY <4>3
      <4>5. all[w] = <<{w \div k}>> \o names[w % k]
        BY DEF ArrayNamed
      <4> QED BY <1>3, <4>4, <4>5
    <3>2. all = [w \in 0..(c * k - 1) |-> all[w]]
      BY DEF ArrayNamed
    <3> QED BY <1>2, <3>1, <3>2
  <2> HIDE DEF all, leaves
  <2> QED BY <1>2, <2>2, <2>3, <2>4
<1> QED BY <1>1, <1>4 DEF FlatGood

MemberGood(t) ==
  \A s \in Nat : /\ NamesHold(SlotsOf(t), s, [w \in 0..(SlotsOf(t) - 1) |-> MemberNames(t, w)], MemberLeaves(t, s))
                 /\ t.kind = "value" => MemberNames(t, 0) = <<>>

LEMMA MemberGoodSingle ==
  ASSUME NEW t, TypeOk(t), SingleType(t)
  PROVE  MemberGood(t)
<1>1. SlotsOf(t) = 1 /\ 1 - 1 = 0 /\ \A w : MemberNames(t, w) = <<>>
  BY DEF SingleType, MemberNames, WordNames
<1>2. \A s \in Nat : MemberLeaves(t, s) = {[slot |-> s, names |-> <<>>]}
  BY DEF SingleType, MemberLeaves, Leaves
<1>3. [w \in 0..(SlotsOf(t) - 1) |-> MemberNames(t, w)] = [w \in 0..0 |-> <<>>]
  BY <1>1
<1>4. \A s \in Nat : NamesHold(1, s, [w \in 0..0 |-> <<>>], {[slot |-> s, names |-> <<>>]})
  BY SingleHolds
<1>5. ASSUME NEW s \in Nat PROVE NamesHold(SlotsOf(t), s, [w \in 0..(SlotsOf(t) - 1) |-> MemberNames(t, w)], MemberLeaves(t, s))
  BY <1>1, <1>2, <1>3, <1>4
<1> QED BY <1>1, <1>5 DEF MemberGood

LEMMA MemberGoodWords ==
  ASSUME NEW t, TypeOk(t), WordsType(t)
  PROVE  MemberGood(t)
<1>1. PICK c \in Nat \ {0} : t.bytes = 32 * c
  BY DEF WordsType
<1>2. t.kind = "array" /\ t.base.bytes < 32 /\ SlotsOf(t) = c /\ t.bytes \div 32 = c
  BY <1>1, SlotsIs DEF WordsType
<1>3. \A w : MemberNames(t, w) = <<{w}>>
  BY <1>2 DEF MemberNames, WordNames
<1>4. ASSUME NEW s \in Nat PROVE MemberLeaves(t, s) = {[slot |-> s + i, names |-> <<i>>] : i \in 0..(c - 1)}
  <2>1. ~(t.base.bytes >= 32)
    BY <1>2, WordsSmall DEF WordsType
  <2>2. MemberLeaves(t, s) = {[slot |-> s + i, names |-> <<i>>] : i \in 0..(t.bytes \div 32 - 1)}
    BY <1>2, <2>1 DEF MemberLeaves, Leaves
  <2> QED BY <1>2, <2>2
<1>5. ASSUME NEW s \in Nat PROVE NamesHold(SlotsOf(t), s, [w \in 0..(SlotsOf(t) - 1) |-> MemberNames(t, w)], MemberLeaves(t, s))
  <2>1. NamesHold(c, s, [w \in 0..(c - 1) |-> <<{w}>>], {[slot |-> s + i, names |-> <<i>>] : i \in 0..(c - 1)})
    BY WordsLaid
  <2>2. [w \in 0..(SlotsOf(t) - 1) |-> MemberNames(t, w)] = [w \in 0..(c - 1) |-> <<{w}>>]
    BY <1>2, <1>3
  <2> QED BY <1>2, <1>4, <2>1, <2>2
<1> QED BY <1>2, <1>5 DEF MemberGood

LEMMA MemberGoodArray ==
  ASSUME NEW t, TypeOk(t), NEW c, ArrayType(t, c), FlatGood(t.base)
  PROVE  MemberGood(t)
<1> DEFINE k == SlotsOf(t.base)
<1>1. t.kind = "array" /\ t.base.bytes >= 32 /\ ~(t.base.bytes < 32) /\ c \in Nat \ {0} /\ k \in Nat \ {0} /\ t.bytes = 32 * (c * k)
  BY SlotsIs DEF ArrayType
<1>2. SlotsOf(t) = c * k /\ (t.bytes \div 32) \div k = c
  <2>1. c * k \in Nat \ {0}
    BY <1>1
  <2>2. SlotsOf(t) = c * k /\ t.bytes \div 32 = c * k
    BY <1>1, <2>1, SlotsIs
  <2>3. (c * k) \div k = c
    BY <1>1, TimesOver
  <2> QED BY <2>2, <2>3
<1> HIDE DEF k
<1>3. ASSUME NEW w PROVE MemberNames(t, w) = <<{w \div k}>> \o FlatNames(t.base, w % k)
  BY <1>1 DEF MemberNames, WordNames, Element, k
<1>4. ASSUME NEW s \in Nat PROVE NamesHold(SlotsOf(t), s, [w \in 0..(SlotsOf(t) - 1) |-> MemberNames(t, w)], MemberLeaves(t, s))
  <2> DEFINE names == [e \in 0..(k - 1) |-> FlatNames(t.base, e)]
             below == [j \in 0..(c - 1) |-> FlatLeaves(t.base, s + j * k)]
             all == ArrayNamed(k, c, names)
             leaves == LeavesOfBases(c, below)
  <2>1. ASSUME NEW j \in 0..(c - 1) PROVE NamesHold(k, s + j * k, names, below[j])
    <3>1. s + j * k \in Nat
      BY <1>1
    <3> DEFINE p == s + j * k
    <3>2. below[j] = FlatLeaves(t.base, p)
      OBVIOUS
    <3> HIDE DEF p, below
    <3>3. NamesHold(k, p, names, FlatLeaves(t.base, p))
      BY <3>1 DEF FlatGood, k, p
    <3> QED BY <3>2, <3>3 DEF p
  <2>2. NamesHold(c * k, s, all, leaves)
    <3>1. BasesHold(k, c, s, names, below)
      <4> HIDE DEF names, below
      <4> QED BY <2>1 DEF BasesHold
    <3> HIDE DEF names, below
    <3> QED BY <1>1, <3>1, ArrayHolds
  <2>3. MemberLeaves(t, s) = leaves
    <3>1. MemberLeaves(t, s) = UNION {{UnderName(j, l) : l \in FlatLeaves(t.base, s + j * SlotsOf(t.base))}
                             : j \in 0..((t.bytes \div 32) \div SlotsOf(t.base) - 1)}
      <4>1. t.kind # "struct"
        BY <1>1
      <4> QED BY <1>1, <4>1 DEF MemberLeaves, Leaves, UnderName
    <3>2. MemberLeaves(t, s) = UNION {{UnderName(j, l) : l \in FlatLeaves(t.base, s + j * k)} : j \in 0..(c - 1)}
      BY <1>2, <3>1 DEF k
    <3>3. \A j \in 0..(c - 1) : below[j] = FlatLeaves(t.base, s + j * k)
      OBVIOUS
    <3> HIDE DEF below
    <3> QED BY <3>2, <3>3 DEF LeavesOfBases
  <2>4. [w \in 0..(SlotsOf(t) - 1) |-> MemberNames(t, w)] = all
    <3>1. ASSUME NEW w \in 0..(c * k - 1) PROVE MemberNames(t, w) = all[w]
      <4>1. w \in Nat
        BY <1>1
      <4>2. \E q \in Nat, e \in 0..(k - 1) : w = q * k + e /\ q = w \div k /\ e = w % k
        BY <1>1, <4>1, RestIs
      <4>3. w % k \in 0..(k - 1)
        BY <4>2
      <4>4. names[w % k] = FlatNames(t.base, w % k)
        BY <4>3
      <4>5. all[w] = <<{w \div k}>> \o names[w % k]
        BY DEF ArrayNamed
      <4> QED BY <1>3, <4>4, <4>5
    <3>2. all = [w \in 0..(c * k - 1) |-> all[w]]
      BY DEF ArrayNamed
    <3> QED BY <1>2, <3>1, <3>2
  <2> HIDE DEF all, leaves
  <2> QED BY <1>2, <2>2, <2>3, <2>4
<1> QED BY <1>1, <1>4 DEF MemberGood

LEMMA MemberGoodStruct ==
  ASSUME NEW t, TypeOk(t), StructType(t), \A i \in DOMAIN t.members : FlatGood(t.members[i].type)
  PROVE  MemberGood(t)
<1> DEFINE m == t.members
           n == Len(m)
<1>1. /\ t.kind = "struct" /\ n \in Nat \ {0} /\ DOMAIN m = 1..n /\ m # <<>> /\ LaidWell(m) /\ t.bytes = 32 * EndOf(m)
      /\ \A i \in 1..n : FlatGood(m[i].type)
  BY DEF StructType
<1> HIDE DEF m, n
<1>2. SlotsOf(t) = EndOf(m)
  <2>1. EndOf(m) \in Nat \ {0}
    BY <1>1, EndBounds DEF n
  <2> QED BY <1>1, <2>1, SlotsIs
<1>3. \A i \in 1..n : MemberOk(m[i]) /\ m[i].slot \in Nat
  BY <1>1 DEF LaidWell, MemberOk
<1>4. ASSUME NEW w PROVE MemberNames(t, w) = <<BySlot(m, w)>> \o FlatNames(m[BestOf(m, w)].type, w - m[BestOf(m, w)].slot)
  BY <1>1 DEF MemberNames, WordNames, BestOf, m
<1>5. ASSUME NEW s \in Nat PROVE NamesHold(SlotsOf(t), s, [w \in 0..(SlotsOf(t) - 1) |-> MemberNames(t, w)], MemberLeaves(t, s))
  <2> DEFINE names == [i \in 1..n |-> [w \in 0..(SlotsOf(m[i].type) - 1) |-> FlatNames(m[i].type, w)]]
             below == [i \in 1..n |-> FlatLeaves(m[i].type, s + m[i].slot)]
             all == [w \in 0..(EndOf(m) - 1) |-> MemberNamed(m, names, w)]
  <2>1. MembersHold(n, m, s, names, below)
    <3>1. ASSUME NEW i \in 1..n
          PROVE  /\ NamesHold(SlotsOf(m[i].type), s + m[i].slot, names[i], below[i])
                 /\ m[i].type.kind = "value" => names[i][0] = <<>>
      <4> DEFINE p == s + m[i].slot
                 u == m[i].type
      <4>1. p \in Nat /\ FlatGood(u) /\ TypeOk(u)
        BY <1>1, <1>3 DEF MemberOk
      <4>2. names[i] = [w \in 0..(SlotsOf(u) - 1) |-> FlatNames(u, w)] /\ below[i] = FlatLeaves(u, p)
        OBVIOUS
      <4> HIDE DEF p, u, names, below
      <4>3. NamesHold(SlotsOf(u), p, names[i], below[i])
        BY <4>1, <4>2 DEF FlatGood
      <4>4. u.kind = "value" => names[i][0] = <<>>
        <5>1. SlotsOf(u) \in Nat \ {0}
          BY <4>1, SlotsIs
        <5>2. 0 \in 0..(SlotsOf(u) - 1)
          BY <5>1
        <5>3. names[i][0] = FlatNames(u, 0)
          BY <4>2, <5>2
        <5> QED BY <4>1, <5>3 DEF FlatGood
      <4> QED BY <4>3, <4>4 DEF p, u
    <3> HIDE DEF names, below
    <3> QED BY <3>1 DEF MembersHold
  <2>2. NamesHold(EndOf(m), s, all, LeavesUnder(m, below))
    <3> HIDE DEF names, below
    <3> QED BY <1>1, <2>1, StructHolds DEF n
  <2>3. MemberLeaves(t, s) = LeavesUnder(m, below)
    <3>1. MemberLeaves(t, s) = UNION {{UnderName(i, l) : l \in FlatLeaves(m[i].type, s + m[i].slot)} : i \in DOMAIN m}
      BY <1>1 DEF MemberLeaves, Leaves, UnderName, m
    <3>2. \A i \in DOMAIN m : FlatLeaves(m[i].type, s + m[i].slot) = below[i]
      BY <1>1
    <3> HIDE DEF below
    <3> QED BY <3>1, <3>2 DEF LeavesUnder
  <2>4. [w \in 0..(SlotsOf(t) - 1) |-> MemberNames(t, w)] = all
    <3>1. ASSUME NEW w \in 0..(EndOf(m) - 1) PROVE MemberNames(t, w) = all[w]
      <4> DEFINE best == BestOf(m, w)
      <4>1. OverHolds(n, m, w, BySlot(m, w), best)
        BY <1>1, OverIs DEF n
      <4>2. best \in 1..n /\ w - m[best].slot \in 0..(SlotsOf(m[best].type) - 1)
        BY <4>1 DEF OverHolds
      <4> HIDE DEF best
      <4>3. names[best][w - m[best].slot] = FlatNames(m[best].type, w - m[best].slot)
        BY <4>2
      <4>4. all[w] = <<BySlot(m, w)>> \o names[best][w - m[best].slot]
        BY DEF MemberNamed, best
      <4> QED BY <1>4, <4>3, <4>4 DEF best
    <3> HIDE DEF names
    <3> QED BY <1>2, <3>1
  <2> HIDE DEF all
  <2> QED BY <1>2, <2>2, <2>3, <2>4
<1> QED BY <1>1, <1>5 DEF MemberGood

LayoutGood(t) ==
  \A s \in Nat : /\ NamesHold(SlotsOf(t), s, [w \in 0..(SlotsOf(t) - 1) |-> DescendWord(t, w)], LayoutLeaves(t, s))
                 /\ t.kind = "value" => DescendWord(t, 0) = <<>>

LEMMA LayoutGoodSingle ==
  ASSUME NEW t, TypeOk(t), SingleType(t)
  PROVE  LayoutGood(t)
<1>1. SlotsOf(t) = 1 /\ 1 - 1 = 0 /\ \A w : DescendWord(t, w) = <<>>
  BY DEF SingleType, DescendWord, WordNames
<1>2. \A s \in Nat : LayoutLeaves(t, s) = {[slot |-> s, names |-> <<>>]}
  BY DEF SingleType, LayoutLeaves, Leaves
<1>3. [w \in 0..(SlotsOf(t) - 1) |-> DescendWord(t, w)] = [w \in 0..0 |-> <<>>]
  BY <1>1
<1>4. \A s \in Nat : NamesHold(1, s, [w \in 0..0 |-> <<>>], {[slot |-> s, names |-> <<>>]})
  BY SingleHolds
<1>5. ASSUME NEW s \in Nat PROVE NamesHold(SlotsOf(t), s, [w \in 0..(SlotsOf(t) - 1) |-> DescendWord(t, w)], LayoutLeaves(t, s))
  BY <1>1, <1>2, <1>3, <1>4
<1> QED BY <1>1, <1>5 DEF LayoutGood

LEMMA LayoutGoodWords ==
  ASSUME NEW t, TypeOk(t), WordsType(t)
  PROVE  LayoutGood(t)
<1>1. PICK c \in Nat \ {0} : t.bytes = 32 * c
  BY DEF WordsType
<1>2. t.kind = "array" /\ t.base.bytes < 32 /\ SlotsOf(t) = c /\ t.bytes \div 32 = c
  BY <1>1, SlotsIs DEF WordsType
<1>3. \A w : DescendWord(t, w) = <<{w}>>
  BY <1>2 DEF DescendWord, WordNames
<1>4. ASSUME NEW s \in Nat PROVE LayoutLeaves(t, s) = {[slot |-> s + i, names |-> <<i>>] : i \in 0..(c - 1)}
  <2>1. ~(t.base.bytes >= 32)
    BY <1>2, WordsSmall DEF WordsType
  <2>2. LayoutLeaves(t, s) = {[slot |-> s + i, names |-> <<i>>] : i \in 0..(t.bytes \div 32 - 1)}
    BY <1>2, <2>1 DEF LayoutLeaves, Leaves
  <2> QED BY <1>2, <2>2
<1>5. ASSUME NEW s \in Nat PROVE NamesHold(SlotsOf(t), s, [w \in 0..(SlotsOf(t) - 1) |-> DescendWord(t, w)], LayoutLeaves(t, s))
  <2>1. NamesHold(c, s, [w \in 0..(c - 1) |-> <<{w}>>], {[slot |-> s + i, names |-> <<i>>] : i \in 0..(c - 1)})
    BY WordsLaid
  <2>2. [w \in 0..(SlotsOf(t) - 1) |-> DescendWord(t, w)] = [w \in 0..(c - 1) |-> <<{w}>>]
    BY <1>2, <1>3
  <2> QED BY <1>2, <1>4, <2>1, <2>2
<1> QED BY <1>2, <1>5 DEF LayoutGood

LEMMA LayoutGoodArray ==
  ASSUME NEW t, TypeOk(t), NEW c, ArrayType(t, c), MemberGood(t.base)
  PROVE  LayoutGood(t)
<1> DEFINE k == SlotsOf(t.base)
<1>1. t.kind = "array" /\ t.base.bytes >= 32 /\ ~(t.base.bytes < 32) /\ c \in Nat \ {0} /\ k \in Nat \ {0} /\ t.bytes = 32 * (c * k)
  BY SlotsIs DEF ArrayType
<1>2. SlotsOf(t) = c * k /\ (t.bytes \div 32) \div k = c
  <2>1. c * k \in Nat \ {0}
    BY <1>1
  <2>2. SlotsOf(t) = c * k /\ t.bytes \div 32 = c * k
    BY <1>1, <2>1, SlotsIs
  <2>3. (c * k) \div k = c
    BY <1>1, TimesOver
  <2> QED BY <2>2, <2>3
<1> HIDE DEF k
<1>3. ASSUME NEW w PROVE DescendWord(t, w) = <<{w \div k}>> \o MemberNames(t.base, w % k)
  BY <1>1 DEF DescendWord, WordNames, Element, k
<1>4. ASSUME NEW s \in Nat PROVE NamesHold(SlotsOf(t), s, [w \in 0..(SlotsOf(t) - 1) |-> DescendWord(t, w)], LayoutLeaves(t, s))
  <2> DEFINE names == [e \in 0..(k - 1) |-> MemberNames(t.base, e)]
             below == [j \in 0..(c - 1) |-> MemberLeaves(t.base, s + j * k)]
             all == ArrayNamed(k, c, names)
             leaves == LeavesOfBases(c, below)
  <2>1. ASSUME NEW j \in 0..(c - 1) PROVE NamesHold(k, s + j * k, names, below[j])
    <3>1. s + j * k \in Nat
      BY <1>1
    <3> DEFINE p == s + j * k
    <3>2. below[j] = MemberLeaves(t.base, p)
      OBVIOUS
    <3> HIDE DEF p, below
    <3>3. NamesHold(k, p, names, MemberLeaves(t.base, p))
      BY <3>1 DEF MemberGood, k, p
    <3> QED BY <3>2, <3>3 DEF p
  <2>2. NamesHold(c * k, s, all, leaves)
    <3>1. BasesHold(k, c, s, names, below)
      <4> HIDE DEF names, below
      <4> QED BY <2>1 DEF BasesHold
    <3> HIDE DEF names, below
    <3> QED BY <1>1, <3>1, ArrayHolds
  <2>3. LayoutLeaves(t, s) = leaves
    <3>1. LayoutLeaves(t, s) = UNION {{UnderName(j, l) : l \in MemberLeaves(t.base, s + j * SlotsOf(t.base))}
                             : j \in 0..((t.bytes \div 32) \div SlotsOf(t.base) - 1)}
      <4>1. t.kind # "struct"
        BY <1>1
      <4> QED BY <1>1, <4>1 DEF LayoutLeaves, Leaves, UnderName
    <3>2. LayoutLeaves(t, s) = UNION {{UnderName(j, l) : l \in MemberLeaves(t.base, s + j * k)} : j \in 0..(c - 1)}
      BY <1>2, <3>1 DEF k
    <3>3. \A j \in 0..(c - 1) : below[j] = MemberLeaves(t.base, s + j * k)
      OBVIOUS
    <3> HIDE DEF below
    <3> QED BY <3>2, <3>3 DEF LeavesOfBases
  <2>4. [w \in 0..(SlotsOf(t) - 1) |-> DescendWord(t, w)] = all
    <3>1. ASSUME NEW w \in 0..(c * k - 1) PROVE DescendWord(t, w) = all[w]
      <4>1. w \in Nat
        BY <1>1
      <4>2. \E q \in Nat, e \in 0..(k - 1) : w = q * k + e /\ q = w \div k /\ e = w % k
        BY <1>1, <4>1, RestIs
      <4>3. w % k \in 0..(k - 1)
        BY <4>2
      <4>4. names[w % k] = MemberNames(t.base, w % k)
        BY <4>3
      <4>5. all[w] = <<{w \div k}>> \o names[w % k]
        BY DEF ArrayNamed
      <4> QED BY <1>3, <4>4, <4>5
    <3>2. all = [w \in 0..(c * k - 1) |-> all[w]]
      BY DEF ArrayNamed
    <3> QED BY <1>2, <3>1, <3>2
  <2> HIDE DEF all, leaves
  <2> QED BY <1>2, <2>2, <2>3, <2>4
<1> QED BY <1>1, <1>4 DEF LayoutGood

LEMMA LayoutGoodStruct ==
  ASSUME NEW t, TypeOk(t), StructType(t), \A i \in DOMAIN t.members : MemberGood(t.members[i].type)
  PROVE  LayoutGood(t)
<1> DEFINE m == t.members
           n == Len(m)
<1>1. /\ t.kind = "struct" /\ n \in Nat \ {0} /\ DOMAIN m = 1..n /\ m # <<>> /\ LaidWell(m) /\ t.bytes = 32 * EndOf(m)
      /\ \A i \in 1..n : MemberGood(m[i].type)
  BY DEF StructType
<1> HIDE DEF m, n
<1>2. SlotsOf(t) = EndOf(m)
  <2>1. EndOf(m) \in Nat \ {0}
    BY <1>1, EndBounds DEF n
  <2> QED BY <1>1, <2>1, SlotsIs
<1>3. \A i \in 1..n : MemberOk(m[i]) /\ m[i].slot \in Nat
  BY <1>1 DEF LaidWell, MemberOk
<1>4. ASSUME NEW w PROVE DescendWord(t, w) = <<BySlot(m, w)>> \o MemberNames(m[BestOf(m, w)].type, w - m[BestOf(m, w)].slot)
  BY <1>1 DEF DescendWord, WordNames, BestOf, m
<1>5. ASSUME NEW s \in Nat PROVE NamesHold(SlotsOf(t), s, [w \in 0..(SlotsOf(t) - 1) |-> DescendWord(t, w)], LayoutLeaves(t, s))
  <2> DEFINE names == [i \in 1..n |-> [w \in 0..(SlotsOf(m[i].type) - 1) |-> MemberNames(m[i].type, w)]]
             below == [i \in 1..n |-> MemberLeaves(m[i].type, s + m[i].slot)]
             all == [w \in 0..(EndOf(m) - 1) |-> MemberNamed(m, names, w)]
  <2>1. MembersHold(n, m, s, names, below)
    <3>1. ASSUME NEW i \in 1..n
          PROVE  /\ NamesHold(SlotsOf(m[i].type), s + m[i].slot, names[i], below[i])
                 /\ m[i].type.kind = "value" => names[i][0] = <<>>
      <4> DEFINE p == s + m[i].slot
                 u == m[i].type
      <4>1. p \in Nat /\ MemberGood(u) /\ TypeOk(u)
        BY <1>1, <1>3 DEF MemberOk
      <4>2. names[i] = [w \in 0..(SlotsOf(u) - 1) |-> MemberNames(u, w)] /\ below[i] = MemberLeaves(u, p)
        OBVIOUS
      <4> HIDE DEF p, u, names, below
      <4>3. NamesHold(SlotsOf(u), p, names[i], below[i])
        BY <4>1, <4>2 DEF MemberGood
      <4>4. u.kind = "value" => names[i][0] = <<>>
        <5>1. SlotsOf(u) \in Nat \ {0}
          BY <4>1, SlotsIs
        <5>2. 0 \in 0..(SlotsOf(u) - 1)
          BY <5>1
        <5>3. names[i][0] = MemberNames(u, 0)
          BY <4>2, <5>2
        <5> QED BY <4>1, <5>3 DEF MemberGood
      <4> QED BY <4>3, <4>4 DEF p, u
    <3> HIDE DEF names, below
    <3> QED BY <3>1 DEF MembersHold
  <2>2. NamesHold(EndOf(m), s, all, LeavesUnder(m, below))
    <3> HIDE DEF names, below
    <3> QED BY <1>1, <2>1, StructHolds DEF n
  <2>3. LayoutLeaves(t, s) = LeavesUnder(m, below)
    <3>1. LayoutLeaves(t, s) = UNION {{UnderName(i, l) : l \in MemberLeaves(m[i].type, s + m[i].slot)} : i \in DOMAIN m}
      BY <1>1 DEF LayoutLeaves, Leaves, UnderName, m
    <3>2. \A i \in DOMAIN m : MemberLeaves(m[i].type, s + m[i].slot) = below[i]
      BY <1>1
    <3> HIDE DEF below
    <3> QED BY <3>1, <3>2 DEF LeavesUnder
  <2>4. [w \in 0..(SlotsOf(t) - 1) |-> DescendWord(t, w)] = all
    <3>1. ASSUME NEW w \in 0..(EndOf(m) - 1) PROVE DescendWord(t, w) = all[w]
      <4> DEFINE best == BestOf(m, w)
      <4>1. OverHolds(n, m, w, BySlot(m, w), best)
        BY <1>1, OverIs DEF n
      <4>2. best \in 1..n /\ w - m[best].slot \in 0..(SlotsOf(m[best].type) - 1)
        BY <4>1 DEF OverHolds
      <4> HIDE DEF best
      <4>3. names[best][w - m[best].slot] = MemberNames(m[best].type, w - m[best].slot)
        BY <4>2
      <4>4. all[w] = <<BySlot(m, w)>> \o names[best][w - m[best].slot]
        BY DEF MemberNamed, best
      <4> QED BY <1>4, <4>3, <4>4 DEF best
    <3> HIDE DEF names
    <3> QED BY <1>2, <3>1
  <2> HIDE DEF all
  <2> QED BY <1>2, <2>2, <2>3, <2>4
<1> QED BY <1>1, <1>5 DEF LayoutGood

-----------------------------------------------------------------------------
(* The types of a layout. *)

LEMMA ScalarOk ==
  ASSUME CensusAssumption, NEW t \in Scalars
  PROVE  /\ TypeOk(t) /\ SingleType(t) /\ t.kind = "value" /\ t.bytes \in 1..32
         /\ ValueGood(t) /\ FlatGood(t) /\ MemberGood(t) /\ LayoutGood(t)
<1>1. PICK b \in Widths : t = Scalar(b)
  BY DEF Scalars
<1>2. b \in 1..32 /\ t.kind = "value" /\ t.bytes = b
  BY <1>1 DEF CensusAssumption, Scalar
<1>3. TypeOk(t)
  BY <1>2 DEF TypeOk
<1>4. SingleType(t)
  BY <1>2, <1>3, SlotsIs DEF SingleType
<1> QED BY <1>2, <1>3, <1>4, ValueGoodSingle, FlatGoodSingle, MemberGoodSingle, LayoutGoodSingle

LEMMA ArrayOk ==
  ASSUME NEW base, TypeOk(base), NEW n \in Nat \ {0}
  PROVE  /\ TypeOk(Array(base, n)) /\ Array(base, n).kind = "array" /\ Array(base, n).base = base
         /\ IF base.bytes < 32 THEN WordsType(Array(base, n)) ELSE ArrayType(Array(base, n), n)
<1> DEFINE t == Array(base, n)
           b == base.bytes
<1>1. t.kind = "array" /\ t.base = base /\ b \in Nat \ {0} /\ SlotsOf(base) \in Nat \ {0}
  BY SlotsIs DEF Array, TypeOk
<1>2. t.bytes = 32 * IF b < 32 THEN (n + (32 \div b) - 1) \div (32 \div b) ELSE n * SlotsOf(base)
  BY DEF Array
<1> HIDE DEF t, b
<1>3. CASE b < 32
  <2>1. PICK per \in Nat \ {0} : per = 32 \div b
    <3>1. 32 \div b \in Nat /\ 32 < (32 \div b) * b + b
      BY <1>1, DivIs
    <3>2. 32 \div b # 0
      <4>1. CASE 32 \div b = 0
        <5>1. (32 \div b) * b = 0
          BY <1>1, <4>1
        <5> QED BY <1>1, <1>3, <3>1, <5>1
      <4> QED BY <4>1
    <3> QED BY <3>1, <3>2
  <2>2. PICK c \in Nat : c = (n + per - 1) \div per /\ (n + per - 1) < c * per + per
    <3>1. n + per - 1 \in Nat
      OBVIOUS
    <3> QED BY <3>1, DivIs
  <2>3. c # 0
    <3>1. CASE c = 0
      <4>1. c * per = 0
        BY <3>1
      <4> QED BY <2>2, <4>1
    <3> QED BY <3>1
  <2>4. t.bytes = 32 * c
    BY <1>2, <1>3, <2>1, <2>2
  <2>5. TypeOk(t)
    BY <1>1, <2>3, <2>4 DEF TypeOk
  <2>6. WordsType(t)
    BY <1>1, <1>3, <2>3, <2>4 DEF WordsType, b
  <2> QED BY <1>1, <1>3, <2>5, <2>6 DEF t, b
<1>4. CASE ~(b < 32)
  <2>1. t.bytes = 32 * (n * SlotsOf(base)) /\ n * SlotsOf(base) \in Nat \ {0}
    BY <1>1, <1>2, <1>4
  <2>2. TypeOk(t)
    BY <1>1, <2>1 DEF TypeOk
  <2>3. ArrayType(t, n)
    <3>1. b >= 32
      BY <1>1, <1>4
    <3> QED BY <1>1, <1>4, <2>1, <3>1 DEF ArrayType, b
  <2> QED BY <1>1, <1>4, <2>2, <2>3 DEF t, b
<1> QED BY <1>3, <1>4

LEMMA FlatOk ==
  ASSUME CensusAssumption, NEW t \in Flat
  PROVE  TypeOk(t) /\ FlatGood(t) /\ MemberGood(t) /\ LayoutGood(t)
<1>1. CASE t \in Scalars
  BY <1>1, ScalarOk
<1>2. CASE t \notin Scalars
  <2>1. PICK v \in Scalars, n \in Lengths : t = Array(v, n)
    BY <1>2 DEF Flat
  <2>2. /\ TypeOk(v) /\ ValueGood(v) /\ FlatGood(v) /\ MemberGood(v) /\ n \in Nat \ {0}
    BY ScalarOk DEF CensusAssumption
  <2>3. TypeOk(t) /\ t.base = v /\ IF v.bytes < 32 THEN WordsType(t) ELSE ArrayType(t, n)
    BY <2>1, <2>2, ArrayOk
  <2>4. CASE v.bytes < 32
    BY <2>3, <2>4, FlatGoodWords, MemberGoodWords, LayoutGoodWords
  <2>5. CASE ~(v.bytes < 32)
    <3>1. TypeOk(t) /\ ArrayType(t, n) /\ ValueGood(t.base) /\ FlatGood(t.base) /\ MemberGood(t.base)
      BY <2>2, <2>3, <2>5
    <3> QED BY <3>1, FlatGoodArray, MemberGoodArray, LayoutGoodArray
  <2> QED BY <2>4, <2>5
<1> QED BY <1>1, <1>2

LEMMA StructOk ==
  ASSUME NEW T, \A t \in T : TypeOk(t), NEW types \in Seq(T), types # <<>>
  PROVE  /\ TypeOk(Struct(types)) /\ StructType(Struct(types)) /\ Struct(types).bytes >= 32
         /\ ~(Struct(types).bytes < 32)
         /\ \A i \in DOMAIN Struct(types).members : Struct(types).members[i].type \in T
<1> DEFINE m == Fields(types)
           n == Len(types)
           t == Struct(types)
<1>1. /\ m \in Seq(MembersOf(T)) /\ LaidWell(m) /\ Len(m) = n /\ n \in Nat \ {0}
      /\ \A i \in 1..n : m[i].type = types[i] /\ types[i] \in T
  <2>1. n \in Nat \ {0} /\ \A i \in 1..n : types[i] \in T
    OBVIOUS
  <2> QED BY <2>1, FieldsLaid
<1>2. t.kind = "struct" /\ t.members = m /\ t.bytes = 32 * EndOf(m)
  BY DEF Struct, EndOf
<1> HIDE DEF m, n, t
<1>3. DOMAIN m = 1..n /\ m # <<>>
  <2> HIDE DEF MembersOf
  <2> QED BY <1>1
<1>4. EndOf(m) \in Nat \ {0}
  BY <1>1, <1>3, EndBounds
<1>5. t.bytes >= 32 /\ ~(t.bytes < 32) /\ t.bytes \in Nat \ {0}
  BY <1>2, <1>4
<1>6. TypeOk(t) /\ StructType(t)
  BY <1>1, <1>2, <1>3, <1>5 DEF TypeOk, StructType
<1> QED BY <1>1, <1>2, <1>3, <1>5, <1>6 DEF t

LEMMA StructsOk ==
  ASSUME CensusAssumption, NEW t \in Structs
  PROVE  TypeOk(t) /\ t.bytes >= 32 /\ ~(t.bytes < 32) /\ MemberGood(t) /\ LayoutGood(t)
<1>1. PICK types \in Seq(Flat) : t = Struct(types) /\ types # <<>>
  <2>1. Scalars \subseteq Flat
    BY DEF Flat
  <2>2. CASE \E types \in Flat \X Flat : t = Struct(types)
    <3>1. PICK a \in Flat, b \in Flat : t = Struct(<<a, b>>)
      <4> HIDE DEF Flat
      <4> QED BY <2>2
    <3>2. <<a, b>> \in Seq(Flat) /\ <<a, b>> # <<>>
      <4> HIDE DEF Flat
      <4> QED OBVIOUS
    <3> QED BY <3>1, <3>2
  <2>3. CASE \E types \in Scalars \X Scalars \X Scalars : t = Struct(types)
    <3>1. PICK a \in Scalars, b \in Scalars, c \in Scalars : t = Struct(<<a, b, c>>)
      <4> HIDE DEF Scalars
      <4> QED BY <2>3
    <3>2. <<a, b, c>> \in Seq(Flat) /\ <<a, b, c>> # <<>>
      <4>1. a \in Flat /\ b \in Flat /\ c \in Flat
        BY <2>1
      <4> HIDE DEF Flat
      <4> QED BY <4>1
    <3> QED BY <3>1, <3>2
  <2> QED BY <2>2, <2>3 DEF Structs
<1>2. \A f \in Flat : TypeOk(f) /\ FlatGood(f) /\ MemberGood(f)
  BY FlatOk
<1> HIDE DEF Flat
<1>3. /\ TypeOk(t) /\ StructType(t) /\ t.bytes >= 32 /\ ~(t.bytes < 32)
      /\ \A i \in DOMAIN t.members : t.members[i].type \in Flat
  BY <1>1, <1>2, StructOk
<1>4. \A i \in DOMAIN t.members : FlatGood(t.members[i].type) /\ MemberGood(t.members[i].type)
  BY <1>2, <1>3
<1> QED BY <1>3, <1>4, MemberGoodStruct, LayoutGoodStruct

LEMMA VariablesOk ==
  ASSUME CensusAssumption, NEW t \in Variables
  PROVE  /\ TypeOk(t) /\ LayoutGood(t)
         /\ t.bytes < 32 => t.kind = "value" /\ SingleType(t)
<1>1. CASE t \in Flat
  <2>1. TypeOk(t) /\ LayoutGood(t)
    BY <1>1, FlatOk
  <2>2. ASSUME t.bytes < 32 PROVE t.kind = "value" /\ SingleType(t)
    <3>1. CASE t \in Scalars
      BY <3>1, ScalarOk
    <3>2. CASE t \notin Scalars
      <4>1. PICK v \in Scalars, n \in Lengths : t = Array(v, n)
        BY <1>1, <3>2 DEF Flat
      <4>2. TypeOk(v) /\ n \in Nat \ {0}
        BY ScalarOk DEF CensusAssumption
      <4>3. WordsType(t) \/ ArrayType(t, n)
        BY <4>1, <4>2, ArrayOk
      <4>4. \E c \in Nat \ {0} : t.bytes = 32 * c
        <5>1. SlotsOf(v) \in Nat \ {0} /\ t.base = v
          BY <4>1, <4>2, SlotsIs, ArrayOk
        <5>2. n * SlotsOf(v) \in Nat \ {0}
          BY <4>2, <5>1
        <5> QED BY <4>3, <5>1, <5>2 DEF WordsType, ArrayType
      <4> QED BY <2>2, <4>4
    <3> QED BY <3>1, <3>2
  <2> QED BY <2>1, <2>2
<1>2. CASE t \in Structs
  BY <1>2, StructsOk
<1>3. CASE t \in {Array(s, n) : s \in Structs, n \in Lengths}
  <2>1. PICK s \in Structs, n \in Lengths : t = Array(s, n)
    BY <1>3
  <2>2. TypeOk(s) /\ MemberGood(s) /\ ~(s.bytes < 32) /\ n \in Nat \ {0}
    BY StructsOk DEF CensusAssumption
  <2>3. TypeOk(t) /\ t.base = s /\ ArrayType(t, n)
    BY <2>1, <2>2, ArrayOk
  <2>4. LayoutGood(t)
    BY <2>2, <2>3, LayoutGoodArray
  <2>5. ~(t.bytes < 32)
    <3>1. SlotsOf(s) \in Nat \ {0}
      BY <2>2, SlotsIs
    <3>2. n * SlotsOf(s) \in Nat \ {0} /\ t.bytes = 32 * (n * SlotsOf(s))
      BY <2>2, <2>3, <3>1 DEF ArrayType
    <3> QED BY <3>2
  <2> QED BY <2>3, <2>4, <2>5
<1>4. CASE t \in {Struct(<<v, s>>) : v \in Scalars, s \in Structs}
  <2>1. PICK v \in Scalars, s \in Structs : t = Struct(<<v, s>>)
    BY <1>4
  <2> DEFINE T == Scalars \cup Structs
  <2>2. \A x \in T : TypeOk(x) /\ MemberGood(x)
    BY ScalarOk, StructsOk
  <2>3. <<v, s>> \in Seq(T) /\ <<v, s>> # <<>>
    <3>1. v \in T /\ s \in T
      OBVIOUS
    <3> HIDE DEF T
    <3> QED BY <3>1
  <2> HIDE DEF T
  <2>4. TypeOk(t) /\ StructType(t) /\ ~(t.bytes < 32) /\ \A i \in DOMAIN t.members : t.members[i].type \in T
    BY <2>1, <2>2, <2>3, StructOk
  <2>5. LayoutGood(t)
    BY <2>2, <2>4, LayoutGoodStruct
  <2> QED BY <2>4, <2>5
<1> QED BY <1>1, <1>2, <1>3, <1>4 DEF Variables, Nested

LEMMA VariableKinds ==
  ASSUME NEW t \in Variables
  PROVE  t.kind \in {"value", "array", "struct"}
<1>1. \A s \in Scalars : s.kind = "value"
  BY DEF Scalars, Scalar
<1>2. \A base, n : Array(base, n).kind = "array"
  BY DEF Array
<1>3. \A types : Struct(types).kind = "struct"
  BY DEF Struct
<1>4. ASSUME NEW s \in Flat PROVE s.kind \in {"value", "array", "struct"}
  BY <1>1, <1>2 DEF Flat
<1>5. ASSUME NEW s \in Structs PROVE s.kind \in {"value", "array", "struct"}
  BY <1>3 DEF Structs
<1>6. ASSUME NEW s \in Nested PROVE s.kind \in {"value", "array", "struct"}
  <2>1. CASE s \in {Array(b, n) : b \in Structs, n \in Lengths}
    <3>1. PICK b \in Structs, n \in Lengths : s = Array(b, n)
      BY <2>1
    <3> QED BY <1>2, <3>1
  <2>2. CASE s \in {Struct(<<w, b>>) : w \in Scalars, b \in Structs}
    <3>1. PICK w \in Scalars, b \in Structs : s = Struct(<<w, b>>)
      BY <2>2
    <3> QED BY <1>3, <3>1
  <2>3. s \in {Array(b, n) : b \in Structs, n \in Lengths} \/ s \in {Struct(<<w, b>>) : w \in Scalars, b \in Structs}
    BY <1>6 DEF Nested
  <2> QED BY <2>1, <2>2, <2>3
<1> QED BY <1>4, <1>5, <1>6 DEF Variables

\* A layout is one that the compiler could lay out.
LayoutInv ==
  layout = <<>> \/ \E first \in Scalars, type \in Variables :
                     layout \in {<<first, type>>, <<first, Root("mapping", type)>>, <<first, Root("dynamic_array", type)>>}

LEMMA RootOk ==
  ASSUME NEW kind \in {"mapping", "dynamic_array"}, NEW type
  PROVE  LET t == Root(kind, type) IN TypeOk(t) /\ LayoutGood(t) /\ t.kind = kind /\ t.value = type
<1> DEFINE t == Root(kind, type)
<1>1. t.kind = kind /\ t.bytes = 32 /\ t.value = type /\ kind # "value" /\ kind # "struct" /\ kind # "array"
  BY DEF Root
<1> HIDE DEF t
<1>2. TypeOk(t) /\ 32 = 32 * 1 /\ 1 \in Nat \ {0}
  BY <1>1 DEF TypeOk
<1>3. SlotsOf(t) = 1
  BY <1>1, <1>2, SlotsIs
<1>4. SingleType(t)
  BY <1>1, <1>3 DEF SingleType
<1> QED BY <1>1, <1>2, <1>4, LayoutGoodSingle DEF t

\* A word of a value that a hop goes to.
LEMMA HopNamed ==
  ASSUME CensusAssumption, NEW v \in Variables
  PROVE  \A w \in 0..(SlotsOf(v) - 1) : Named(DescendWord(v, w), {l \in LayoutLeaves(v, 0) : l.slot = w})
<1>1. LayoutGood(v)
  BY VariablesOk
<1>2. ASSUME NEW w \in 0..(SlotsOf(v) - 1) PROVE Named(DescendWord(v, w), {l \in LayoutLeaves(v, 0) : l.slot = w})
  <2> DEFINE names == [x \in 0..(SlotsOf(v) - 1) |-> DescendWord(v, x)]
  <2>1. NamesHold(SlotsOf(v), 0, names, LayoutLeaves(v, 0)) /\ names[w] = DescendWord(v, w)
    BY <1>1 DEF LayoutGood
  <2> HIDE DEF names
  <2>2. Named(names[w], LeavesAt(LayoutLeaves(v, 0), 0 + w)) /\ 0 + w = w
    BY <2>1 DEF NamesHold
  <2> QED BY <2>1, <2>2 DEF LeavesAt
<1> QED BY <1>2

LEMMA LabelsHold ==
  ASSUME CensusAssumption, LayoutInv
  PROVE  LabelsExact
<1>1. SUFFICES ASSUME layout # <<>>
      PROVE  LET vars == Fields(layout)
                 type == layout[2]
                 values == Leaves([kind |-> "struct", members |-> vars], 0, LayoutLeaves)
             IN /\ \A slot \in 0..(Last(vars).slot + SlotsOf(type) - 1) :
                     Named(Resolve(slot), {l \in values : l.slot = slot})
                /\ type.kind = "mapping" => \A w \in 0..(SlotsOf(type.value) - 1) :
                     Named(Hop(type, w), {l \in LayoutLeaves(type.value, 0) : l.slot = w})
                /\ type.kind = "dynamic_array" => \A i \in 0..1, w \in 0..(SlotsOf(type.value) - 1) :
                     Named(Hop(type, i * SlotsOf(type.value) + w), {l \in LayoutLeaves(type.value, 0) : l.slot = w})
  BY DEF LabelsExact
<1>2. PICK first \in Scalars, v \in Variables :
        layout \in {<<first, v>>, <<first, Root("mapping", v)>>, <<first, Root("dynamic_array", v)>>}
  BY <1>1 DEF LayoutInv
<1> DEFINE type == layout[2]
           T == {first, type}
           vars == Fields(layout)
           values == Leaves([kind |-> "struct", members |-> vars], 0, LayoutLeaves)
<1>3. type \in {v, Root("mapping", v), Root("dynamic_array", v)} /\ layout = <<first, type>>
  BY <1>2
<1>4. TypeOk(v) /\ LayoutGood(v) /\ TypeOk(first) /\ LayoutGood(first)
  BY VariablesOk, ScalarOk
<1>5. TypeOk(type) /\ LayoutGood(type)
  BY <1>3, <1>4, RootOk
<1>6. v.kind # "mapping" /\ v.kind # "dynamic_array"
  BY VariableKinds
<1>7. /\ type.kind = "mapping" => type.value = v
      /\ type.kind = "dynamic_array" => type.value = v
  BY <1>3, <1>6, RootOk
<1>8. layout \in Seq(T) /\ Len(layout) = 2 /\ layout[2] = type
  <2> HIDE DEF type
  <2> QED BY <1>3
<1> HIDE DEF type
<1>9. \A t \in T : TypeOk(t) /\ LayoutGood(t)
  BY <1>4, <1>5
<1> HIDE DEF T
<1>10. /\ vars \in Seq(MembersOf(T)) /\ LaidWell(vars) /\ Len(vars) = 2
       /\ \A i \in 1..2 : vars[i].type = layout[i] /\ layout[i] \in T
  <2>1. Fields(layout) \in Seq(MembersOf(T)) /\ LaidWell(Fields(layout)) /\ Len(Fields(layout)) = Len(layout)
        /\ \A i \in 1..Len(layout) : Fields(layout)[i].type = layout[i]
    BY <1>8, <1>9, FieldsLaid
  <2>2. \A i \in 1..2 : layout[i] \in T
    BY <1>8
  <2> QED BY <1>8, <2>1, <2>2
<1> HIDE DEF vars
<1>11. DOMAIN vars = 1..2 /\ vars # <<>> /\ Last(vars) = vars[2] /\ vars[2].type = type
  <2> HIDE DEF MembersOf
  <2> QED BY <1>8, <1>10 DEF Last
<1>12. Last(vars).slot + SlotsOf(type) = EndOf(vars)
  BY <1>11 DEF EndOf
<1>13. Last(vars).slot \in Nat /\ SlotsOf(type) \in Nat
  <2>1. vars[2].slot \in Nat
    BY <1>10, <1>11 DEF LaidWell, MemberOk
  <2> QED BY <1>5, <1>11, <2>1, SlotsIs
<1> DEFINE names == [i \in 1..2 |-> [w \in 0..(SlotsOf(vars[i].type) - 1) |-> DescendWord(vars[i].type, w)]]
           below == [i \in 1..2 |-> LayoutLeaves(vars[i].type, 0 + vars[i].slot)]
<1>14. MembersHold(2, vars, 0, names, below)
  <2>1. ASSUME NEW i \in 1..2
        PROVE  /\ NamesHold(SlotsOf(vars[i].type), 0 + vars[i].slot, names[i], below[i])
               /\ vars[i].type.kind = "value" => names[i][0] = <<>>
    <3> DEFINE p == 0 + vars[i].slot
               u == vars[i].type
    <3>1. p \in Nat /\ LayoutGood(u) /\ TypeOk(u)
      BY <1>9, <1>10, <1>11 DEF LaidWell, MemberOk
    <3>2. names[i] = [w \in 0..(SlotsOf(u) - 1) |-> DescendWord(u, w)] /\ below[i] = LayoutLeaves(u, p)
      OBVIOUS
    <3> HIDE DEF p, u, names, below
    <3>3. NamesHold(SlotsOf(u), p, names[i], below[i])
      BY <3>1, <3>2 DEF LayoutGood
    <3>4. u.kind = "value" => names[i][0] = <<>>
      <4>1. SlotsOf(u) \in Nat \ {0}
        BY <3>1, SlotsIs
      <4>2. 0 \in 0..(SlotsOf(u) - 1)
        BY <4>1
      <4>3. names[i][0] = DescendWord(u, 0)
        BY <3>2, <4>2
      <4> QED BY <3>1, <4>3 DEF LayoutGood
    <3> QED BY <3>3, <3>4 DEF p, u
  <2> HIDE DEF names, below
  <2> QED BY <2>1 DEF MembersHold
<1>15. values = LeavesUnder(vars, below)
  <2>1. values = UNION {{UnderName(i, l) : l \in LayoutLeaves(vars[i].type, 0 + vars[i].slot)} : i \in DOMAIN vars}
    BY DEF Leaves, UnderName
  <2>2. \A i \in DOMAIN vars : LayoutLeaves(vars[i].type, 0 + vars[i].slot) = below[i]
    BY <1>11
  <2> HIDE DEF below, values
  <2> QED BY <2>1, <2>2 DEF LeavesUnder
<1>16. ASSUME NEW slot \in 0..(EndOf(vars) - 1) PROVE Named(Resolve(slot), {l \in values : l.slot = slot})
  <2> DEFINE over == BySlot(vars, slot)
             best == BestOf(vars, slot)
  <2>1. WordNamed(vars, 0, names, below, slot)
    <3>1. 2 \in Nat \ {0} /\ 0 \in Nat
      OBVIOUS
    <3> HIDE DEF names, below
    <3> QED BY <1>10, <1>11, <1>14, <3>1, StructStep
  <2>2. OverHolds(2, vars, slot, over, best)
    <3>1. 2 \in Nat \ {0}
      OBVIOUS
    <3> QED BY <1>10, <1>11, <3>1, OverIs
  <2>3. Resolve(slot) = MemberNamed(vars, names, slot)
    <3> DEFINE some == CHOOSE i \in over : TRUE
    <3>1. Resolve(slot) = IF Cardinality(over) > 1 THEN <<over>>
                          ELSE <<over>> \o DescendWord(vars[some].type, slot - vars[some].slot)
      BY Zenon DEF Resolve, vars
    <3>2. CASE Cardinality(over) > 1
      BY <2>1, <3>1, <3>2 DEF WordNamed
    <3>3. CASE ~(Cardinality(over) > 1)
      <4>1. over = {best} /\ best \in 1..2 /\ slot - vars[best].slot \in 0..(SlotsOf(vars[best].type) - 1)
        BY <2>2, <3>3 DEF OverHolds
      <4>2. some = best
        BY <4>1
      <4> HIDE DEF over, best, some
      <4>3. names[best][slot - vars[best].slot] = DescendWord(vars[best].type, slot - vars[best].slot)
        BY <4>1
      <4>4. MemberNamed(vars, names, slot) = <<over>> \o names[best][slot - vars[best].slot]
        BY DEF MemberNamed, over, best
      <4> QED BY <3>1, <3>3, <4>2, <4>3, <4>4
    <3> QED BY <3>2, <3>3
  <2>4. Named(MemberNamed(vars, names, slot), LeavesAt(values, 0 + slot)) /\ 0 + slot = slot
    BY <1>15, <2>1 DEF WordNamed
  <2> HIDE DEF values, names
  <2> QED BY <2>3, <2>4 DEF LeavesAt
<1>17. ASSUME type.kind = "mapping", NEW w \in 0..(SlotsOf(type.value) - 1)
       PROVE  Named(Hop(type, w), {l \in LayoutLeaves(type.value, 0) : l.slot = w})
  <2>1. type.value = v /\ Hop(type, w) = DescendWord(v, w)
    BY <1>7, <1>17 DEF Hop
  <2> QED BY <1>17, <2>1, HopNamed
<1>18. ASSUME type.kind = "dynamic_array", NEW i \in 0..1, NEW w \in 0..(SlotsOf(type.value) - 1)
       PROVE  Named(Hop(type, i * SlotsOf(type.value) + w), {l \in LayoutLeaves(type.value, 0) : l.slot = w})
  <2> DEFINE k == SlotsOf(v)
             n == i * k + w
  <2>1. type.value = v /\ k \in Nat \ {0}
    BY <1>4, <1>7, <1>18, SlotsIs
  <2>2. Hop(type, n) = IF v.bytes < 32 THEN <<>> ELSE DescendWord(v, n % k)
    BY <1>18, <2>1 DEF Hop
  <2>3. n % k = w
    <3>1. w \in 0..(k - 1) /\ i * k \in Nat
      BY <2>1
    <3>2. n \in Nat /\ w + 1 \in 1..k
      BY <2>1, <3>1
    <3>3. PICK q \in Nat, e \in 0..(k - 1) : n = q * k + e /\ q = n \div k /\ e = n % k
      <4> HIDE DEF n, k
      <4> QED BY <2>1, <3>2, RestIs
    <3>4. e + 1 \in 1..k /\ i * k + (w + 1) = q * k + (e + 1) /\ i \in Nat
      <4> DEFINE a == i * k
                 b == q * k
      <4>1. a \in Nat /\ i \in Nat /\ n = a + w
        BY <3>1
      <4>2. b \in Nat
        <5> HIDE DEF k, n
        <5> QED BY <2>1, <3>3
      <4>3. n = b + e
        BY <3>3, Zenon
      <4> HIDE DEF a, b, n
      <4>4. w \in Int /\ e \in Int /\ e + 1 \in 1..k
        <5> HIDE DEF k
        <5> QED BY <2>1, <3>1, <3>3
      <4> HIDE DEF k
      <4>5. a + (w + 1) = b + (e + 1)
        BY <4>1, <4>2, <4>3, <4>4
      <4> QED BY <4>1, <4>4, <4>5 DEF a, b
    <3>5. w + 1 = e + 1
      BY <2>1, <3>2, <3>4, CellsApart
    <3> QED BY <3>1, <3>3, <3>5
  <2>4. Hop(type, n) = DescendWord(v, w)
    <3>1. CASE v.bytes < 32
      <4>1. SingleType(v)
        BY <3>1, VariablesOk
      <4>2. DescendWord(v, w) = <<>>
        BY <4>1 DEF SingleType, DescendWord, WordNames
      <4> QED BY <2>2, <3>1, <4>2
    <3>2. CASE ~(v.bytes < 32)
      BY <2>2, <2>3, <3>2
    <3> QED BY <3>1, <3>2
  <2>5. Named(DescendWord(v, w), {l \in LayoutLeaves(v, 0) : l.slot = w})
    BY <1>18, <2>1, HopNamed
  <2> QED BY <2>1, <2>4, <2>5
<1> HIDE DEF values, names, below
<1>19. \A slot \in 0..(Last(vars).slot + SlotsOf(type) - 1) : Named(Resolve(slot), {l \in values : l.slot = slot})
  <2>1. ASSUME NEW slot \in 0..(Last(vars).slot + SlotsOf(type) - 1)
        PROVE  Named(Resolve(slot), {l \in values : l.slot = slot})
    <3>1. slot \in 0..(EndOf(vars) - 1)
      BY <1>12, <1>13
    <3> QED BY <1>16, <3>1
  <2> QED BY <2>1
<1>20. type.kind = "mapping" => \A w \in 0..(SlotsOf(type.value) - 1) :
         Named(Hop(type, w), {l \in LayoutLeaves(type.value, 0) : l.slot = w})
  BY <1>17
<1>21. type.kind = "dynamic_array" => \A i \in 0..1, w \in 0..(SlotsOf(type.value) - 1) :
         Named(Hop(type, i * SlotsOf(type.value) + w), {l \in LayoutLeaves(type.value, 0) : l.slot = w})
  BY <1>18
<1> QED BY <1>19, <1>20, <1>21, Zenon DEF vars, values, type

-----------------------------------------------------------------------------
(* The census. *)

CensusInv == RunsInv /\ LayoutInv

LEMMA CensusInit ==
  ASSUME CensusAssumption, CensusIdle
  PROVE  CensusInv
<1>1. runs \in Seq(LoggedRuns) /\ \A i \in DOMAIN runs : RunInv(runs[i])
  <2>1. runs = <<>> /\ DOMAIN runs = {}
    BY DEF CensusIdle
  <2> HIDE DEF LoggedRuns
  <2> QED BY <2>1
<1> QED BY <1>1 DEF CensusIdle, CensusInv, RunsInv, LayoutInv

LEMMA RunsStep ==
  ASSUME CensusAssumption, RunsInv, RunsNext
  PROVE  RunsInv'
<1>1. CASE \E scenario \in Scenarios, set \in SUBSET Slots : runs' = Append(runs, NewRun(scenario, set))
  <2>1. PICK scenario \in Scenarios, set \in SUBSET Slots : runs' = Append(runs, NewRun(scenario, set))
    BY <1>1
  <2> DEFINE new == Append(runs, NewRun(scenario, set))
  <2>2. new \in Seq(LoggedRuns) /\ \A i \in DOMAIN new : RunInv(new[i])
    BY NewRunAdded
  <2> HIDE DEF new
  <2>3. runs' = new
    BY <2>1 DEF new
  <2>4. RunsInv' = (runs' \in Seq(LoggedRuns) /\ \A i \in DOMAIN runs' : RunInv(runs'[i]))
    BY DEF RunsInv
  <2> HIDE DEF LoggedRuns
  <2> QED BY <2>2, <2>3, <2>4
<1>2. CASE runs # <<>> /\ \E changed \in SUBSET Slots, payer \in Payers :
             runs' = [runs EXCEPT ![Len(runs)] = Transact(@, changed, payer)]
  <2>1. PICK changed \in SUBSET Slots, payer \in Payers :
          runs' = [runs EXCEPT ![Len(runs)] = Transact(@, changed, payer)]
    BY <1>2
  <2> DEFINE new == [runs EXCEPT ![Len(runs)] = Transact(@, changed, payer)]
  <2>2. new \in Seq(LoggedRuns) /\ \A i \in DOMAIN new : RunInv(new[i])
    BY <1>2, TransactAdded
  <2> HIDE DEF new
  <2>3. runs' = new
    BY <2>1 DEF new
  <2>4. RunsInv' = (runs' \in Seq(LoggedRuns) /\ \A i \in DOMAIN runs' : RunInv(runs'[i]))
    BY DEF RunsInv
  <2> HIDE DEF LoggedRuns
  <2> QED BY <2>2, <2>3, <2>4
<1> QED BY <1>1, <1>2 DEF RunsNext

LEMMA CensusStep ==
  ASSUME CensusAssumption, CensusInv, CensusNext
  PROVE  CensusInv'
<1>1. CASE layout = <<>> /\ RunsNext /\ UNCHANGED layout
  <2>1. RunsInv'
    BY <1>1, RunsStep DEF CensusInv
  <2>2. LayoutInv'
    BY <1>1 DEF LayoutInv
  <2> QED BY <2>1, <2>2 DEF CensusInv
<1>2. CASE runs = <<>> /\ LayoutNext /\ UNCHANGED runs
  <2>1. RunsInv'
    BY <1>2 DEF CensusInv, RunsInv
  <2>2. LayoutInv'
    <3>1. PICK first \in Scalars, type \in Variables :
            layout' \in {<<first, type>>, <<first, Root("mapping", type)>>, <<first, Root("dynamic_array", type)>>}
      BY <1>2 DEF LayoutNext
    <3> QED BY <3>1 DEF LayoutInv
  <2> QED BY <2>1, <2>2 DEF CensusInv
<1> QED BY <1>1, <1>2 DEF CensusNext

LEMMA CensusHolds ==
  ASSUME CensusAssumption, CensusInv
  PROVE  CensusExact /\ LabelsExact
BY CensusExactHolds, LabelsHold DEF CensusInv
-----------------------------------------------------------------------------
(* Sums in turn.                                                             *)

\* The sum after each amount.
SumsOf(at, s, n) ==
  /\ at \in [0..n -> Nat] /\ at[0] = 0 /\ \A i \in 1..n : at[i] = at[i - 1] + s[i]
  /\ Added(s) = at[n]

LEMMA AddedRuns ==
  ASSUME NEW n \in Nat, NEW s \in [1..n -> Nat]
  PROVE  \E at : SumsOf(at, s, n)
<1> DEFINE D == Nat
           step == [p \in D \X D |-> p[1] + p[2]]
           at[i \in 0..Len(s)] == IF i = 0 THEN 0 ELSE at[i - 1] + s[i]
<1>0. 0 \in D /\ s \in Seq(D) /\ Len(s) = n
  OBVIOUS
<1>1. step \in [D \X D -> D]
  OBVIOUS
<1>2. \A i \in 1..n : s[i] \in D /\ i \in 0..n /\ i - 1 \in 0..n /\ i # 0
  OBVIOUS
<1>3. PICK f : ScanOf(D, f, 0, step, s)
  <2> HIDE DEF step, D
  <2> QED BY <1>0, <1>1, ScanExists
<1>4. f \in [0..n -> D] /\ f[0] = 0 /\ \A i \in 1..n : f[i] = step[<<f[i - 1], s[i]>>]
  <2> HIDE DEF step, D
  <2> QED BY <1>0, <1>3 DEF ScanOf
<1>5. ASSUME NEW i \in 1..n PROVE f[i] = f[i - 1] + s[i]
  <2>1. f[i] = step[<<f[i - 1], s[i]>>]
    <3> HIDE DEF step
    <3> QED BY <1>4
  <2>2. <<f[i - 1], s[i]>> \in D \X D
    BY <1>2, <1>4
  <2>3. step[<<f[i - 1], s[i]>>] = f[i - 1] + s[i]
    BY <2>2
  <2> QED BY <2>1, <2>3
<1>6. f = [i \in 0..Len(s) |-> IF i = 0 THEN 0 ELSE f[i - 1] + s[i]]
  <2> DEFINE h == [i \in 0..Len(s) |-> IF i = 0 THEN 0 ELSE f[i - 1] + s[i]]
  <2>1. ASSUME NEW i \in 0..n PROVE f[i] = h[i]
    <3>1. CASE i = 0
      BY <1>0, <1>4, <3>1
    <3>2. CASE i # 0
      <4>1. i \in 1..n
        BY <3>2
      <4> QED BY <1>0, <1>5, <3>2, <4>1
    <3> QED BY <3>1, <3>2
  <2> QED BY <1>0, <1>4, <2>1
<1>7. Scanned(+, 0, s) = at
  BY Zenon DEF Scanned
<1>8. at = [i \in 0..Len(s) |-> IF i = 0 THEN 0 ELSE at[i - 1] + s[i]]
  BY <1>6, Zenon DEF at
<1> HIDE DEF at
<1>9. at[0] = 0 /\ \A i \in 1..n : at[i] = at[i - 1] + s[i]
  <2>1. at[0] = 0
    BY <1>0, <1>8
  <2>2. ASSUME NEW i \in 1..n PROVE at[i] = at[i - 1] + s[i]
    <3>1. i \in 0..Len(s) /\ i # 0
      BY <1>0, <1>2
    <3> QED BY <1>8, <3>1, Zenon
  <2> QED BY <2>1, <2>2
<1>10. \A i \in 0..n : at[i] \in Nat
  <2> DEFINE S == {i \in 0..n : at[i] \in Nat}
  <2>1. 0 \in S
    BY <1>9
  <2>2. ASSUME NEW i \in 1..n, i - 1 \in S PROVE i \in S
    <3>1. at[i] = at[i - 1] + s[i] /\ at[i - 1] \in Nat /\ s[i] \in Nat /\ i \in 0..n
      BY <1>2, <1>9, <2>2
    <3> QED BY <3>1
  <2> HIDE DEF S
  <2>3. 0..n \subseteq S
    BY <2>1, <2>2, EachUpTo
  <2> QED BY <2>3 DEF S
<1>11. DOMAIN at = 0..n /\ at = [i \in 0..n |-> at[i]]
  BY <1>0, <1>8
<1>12. at \in [0..n -> Nat]
  BY <1>10, <1>11
<1>13. Added(s) = at[n]
  BY <1>0, <1>7, Zenon DEF Added
<1>14. SumsOf(at, s, n)
  BY <1>9, <1>12, <1>13 DEF SumsOf
<1> QED BY <1>14

\* A sum of amounts each below a difference is below the difference of the ends.
LEMMA AddedWithin ==
  ASSUME NEW n \in Nat, NEW s \in [1..n -> Nat], NEW f \in [0..n -> Int],
         \A i \in 1..n : s[i] <= f[i] - f[i - 1]
  PROVE  Added(s) \in Nat /\ Added(s) <= f[n] - f[0]
<1>1. PICK at : SumsOf(at, s, n)
  BY AddedRuns
<1>2. /\ \A i \in 0..n : at[i] \in Nat
      /\ at[0] = 0 /\ \A i \in 1..n : at[i] = at[i - 1] + s[i]
      /\ Added(s) = at[n]
  BY <1>1 DEF SumsOf
<1> DEFINE S == {i \in 0..n : at[i] <= f[i] - f[0]}
<1>3. 0 \in S
  BY <1>2
<1>4. ASSUME NEW i \in 1..n, i - 1 \in S PROVE i \in S
  <2>1. i \in 0..n /\ i - 1 \in 0..n
    OBVIOUS
  <2>2. f[i] \in Int /\ f[i - 1] \in Int /\ f[0] \in Int /\ at[i - 1] \in Nat /\ s[i] \in Nat
    BY <1>2, <2>1
  <2>3. at[i - 1] <= f[i - 1] - f[0] /\ at[i] = at[i - 1] + s[i] /\ s[i] <= f[i] - f[i - 1]
    BY <1>2, <1>4
  <2>4. at[i] <= f[i] - f[0]
    BY <2>2, <2>3
  <2> QED BY <2>1, <2>4
<1> HIDE DEF S
<1>5. 0..n \subseteq S
  BY <1>3, <1>4, EachUpTo
<1>6. n \in 0..n
  OBVIOUS
<1> QED BY <1>2, <1>5, <1>6 DEF S

LEMMA AddedTyped ==
  ASSUME NEW n \in Nat, NEW s \in [1..n -> Nat]
  PROVE  Added(s) \in Nat
<1>1. PICK at : SumsOf(at, s, n)
  BY AddedRuns
<1> QED BY <1>1 DEF SumsOf

\* What is not more at each turn is not more in all.
LEMMA AddedBelow ==
  ASSUME NEW n \in Nat, NEW s \in [1..n -> Nat], NEW t \in [1..n -> Nat], \A i \in 1..n : s[i] <= t[i]
  PROVE  Added(s) <= Added(t)
<1>1. PICK at : SumsOf(at, t, n)
  BY AddedRuns
<1>2. at \in [0..n -> Int] /\ at[0] = 0 /\ Added(t) = at[n] /\ at[n] \in Nat
  BY <1>1 DEF SumsOf
<1>3. ASSUME NEW i \in 1..n PROVE s[i] <= at[i] - at[i - 1]
  <2>1. at[i] = at[i - 1] + t[i] /\ at[i - 1] \in Nat /\ t[i] \in Nat /\ s[i] \in Nat /\ s[i] <= t[i]
    BY <1>1 DEF SumsOf
  <2> QED BY <2>1
<1>4. Added(s) \in Nat /\ Added(s) <= at[n] - at[0]
  BY <1>2, <1>3, AddedWithin
<1> QED BY <1>2, <1>4

\* A sum of combinations is the combination of the sums.
Combined(n, s, x, a, y, b, z, c) ==
  /\ n \in Nat /\ x \in Nat /\ y \in Nat /\ z \in Nat
  /\ s \in [1..n -> Nat] /\ a \in [1..n -> Nat] /\ b \in [1..n -> Nat] /\ c \in [1..n -> Nat]
  /\ \A i \in 1..n : s[i] = x * a[i] + y * b[i] + z * c[i]

LEMMA AddedTogether ==
  ASSUME NEW n, NEW s, NEW x, NEW a, NEW y, NEW b, NEW z, NEW c, Combined(n, s, x, a, y, b, z, c)
  PROVE  Added(s) = x * Added(a) + y * Added(b) + z * Added(c)
<1> USE DEF Combined
<1>1. PICK at : SumsOf(at, s, n)
  BY AddedRuns
<1>2. PICK aa : SumsOf(aa, a, n)
  BY AddedRuns
<1>3. PICK ab : SumsOf(ab, b, n)
  BY AddedRuns
<1>4. PICK ac : SumsOf(ac, c, n)
  BY AddedRuns
<1> DEFINE S == {i \in 0..n : at[i] = x * aa[i] + y * ab[i] + z * ac[i]}
<1>0. \A p, q, r \in Nat : p * (q + r) = p * q + p * r
  OBVIOUS
<1>5. 0 \in S
  BY <1>1, <1>2, <1>3, <1>4 DEF SumsOf
<1>6. ASSUME NEW i \in 1..n, i - 1 \in S PROVE i \in S
  <2>0. i \in 0..n /\ i - 1 \in 0..n
    OBVIOUS
  <2>1. PICK p \in Nat : p = aa[i - 1]
    BY <1>2, <2>0 DEF SumsOf
  <2>2. PICK q \in Nat : q = ab[i - 1]
    BY <1>3, <2>0 DEF SumsOf
  <2>3. PICK r \in Nat : r = ac[i - 1]
    BY <1>4, <2>0 DEF SumsOf
  <2>4. PICK u \in Nat : u = a[i]
    OBVIOUS
  <2>5. PICK v \in Nat : v = b[i]
    OBVIOUS
  <2>6. PICK w \in Nat : w = c[i]
    OBVIOUS
  <2>7. at[i - 1] = x * p + y * q + z * r
    BY <1>6, <2>1, <2>2, <2>3
  <2>8. s[i] = x * u + y * v + z * w
    BY <2>4, <2>5, <2>6
  <2>9. aa[i] = p + u /\ ab[i] = q + v /\ ac[i] = r + w
    BY <1>2, <1>3, <1>4, <2>1, <2>2, <2>3, <2>4, <2>5, <2>6 DEF SumsOf
  <2>10. at[i] = at[i - 1] + s[i]
    BY <1>1 DEF SumsOf
  <2>11. x * (p + u) = x * p + x * u /\ y * (q + v) = y * q + y * v /\ z * (r + w) = z * r + z * w
    BY <1>0
  <2>12. PICK x1 \in Nat, x2 \in Nat, y1 \in Nat, y2 \in Nat, z1 \in Nat, z2 \in Nat :
           x1 = x * p /\ x2 = x * u /\ y1 = y * q /\ y2 = y * v /\ z1 = z * r /\ z2 = z * w
    OBVIOUS
  <2>13. at[i] = (x1 + y1 + z1) + (x2 + y2 + z2)
    BY <2>7, <2>8, <2>10, <2>12
  <2>14. x * aa[i] + y * ab[i] + z * ac[i] = (x1 + x2) + (y1 + y2) + (z1 + z2)
    BY <2>9, <2>11, <2>12
  <2>15. at[i] = x * aa[i] + y * ab[i] + z * ac[i]
    BY <2>13, <2>14
  <2> QED BY <2>0, <2>15
<1> HIDE DEF S
<1>7. 0..n \subseteq S
  BY <1>5, <1>6, EachUpTo
<1>8. n \in 0..n
  OBVIOUS
<1>9. at[n] = x * aa[n] + y * ab[n] + z * ac[n]
  BY <1>7, <1>8 DEF S
<1> QED BY <1>1, <1>2, <1>3, <1>4, <1>9 DEF SumsOf

-----------------------------------------------------------------------------
(* The loan.                                                                 *)

\* What the levels up to one cost together: 900 a century.
Century(r) ==
  IF r < 30 THEN 24 + 4 * r ELSE IF r < 60 THEN 140 + 8 * (r - 29)
  ELSE IF r < 90 THEN 380 + 12 * (r - 59) ELSE 740 + 16 * (r - 89)
PricedTo(level) == 900 * (level \div 100) + Century(level % 100)

LEMMA InCenturies ==
  ASSUME NEW level \in Nat
  PROVE  \E c \in Nat : \E r \in 0..99 : level = 100 * c + r /\ level \div 100 = c /\ level % 100 = r
<1>1. level \div 100 \in Nat /\ level % 100 \in 0..99 /\ level = 100 * (level \div 100) + (level % 100)
  OBVIOUS
<1> QED BY <1>1

LEMMA CenturyIs ==
  ASSUME NEW c \in Nat, NEW r \in 0..99, NEW level, level = 100 * c + r
  PROVE  level % 100 = r /\ PricedTo(level) = 900 * c + Century(r)
<1>1. level \div 100 = c /\ level % 100 = r
  OBVIOUS
<1> QED BY <1>1 DEF PricedTo

LEMMA PriceStep ==
  ASSUME NEW level \in Nat \ {0}
  PROVE  Price(level) \in Nat /\ PricedTo(level) \in Int /\ Price(level) <= PricedTo(level) - PricedTo(level - 1)
<1>1. PICK c \in Nat : \E r \in 0..99 : level = 100 * c + r
  BY InCenturies
<1>2. PICK r \in 0..99 : level = 100 * c + r
  BY <1>1
<1>3. level % 100 = r /\ PricedTo(level) = 900 * c + Century(r)
  BY <1>2, CenturyIs
<1>4. Price(level) <= (IF r = 0 THEN 24 ELSE IF r < 30 THEN 4 ELSE IF r < 60 THEN 8 ELSE IF r < 90 THEN 12 ELSE 16)
      /\ Price(level) \in Nat
  BY <1>2, <1>3 DEF Price
<1>5. CASE r = 0
  <2>1. c - 1 \in Nat /\ level - 1 = 100 * (c - 1) + 99
    BY <1>2, <1>5
  <2>2. PricedTo(level - 1) = 900 * (c - 1) + Century(99)
    <3>1. PICK d \in Nat : d = c - 1
      BY <2>1
    <3>2. PricedTo(level - 1) = 900 * d + Century(99)
      <4>1. 99 \in 0..99 /\ level - 1 = 100 * d + 99
        BY <2>1, <3>1
      <4> QED BY <4>1, CenturyIs
    <3> QED BY <3>1, <3>2
  <2>3. Century(99) = 900 /\ Century(0) = 24
    BY DEF Century
  <2> QED BY <1>3, <1>4, <1>5, <2>2, <2>3
<1>6. CASE r # 0
  <2>1. r - 1 \in 0..99 /\ level - 1 = 100 * c + (r - 1)
    BY <1>2, <1>6
  <2>2. PricedTo(level - 1) = 900 * c + Century(r - 1)
    BY <2>1, CenturyIs
  <2>3. Century(r) - Century(r - 1) = (IF r < 30 THEN 4 ELSE IF r < 60 THEN 8 ELSE IF r < 90 THEN 12 ELSE 16)
        /\ Century(r) \in Int /\ Century(r - 1) \in Int
    BY <1>6, <2>1 DEF Century
  <2> QED BY <1>3, <1>4, <1>6, <2>2, <2>3
<1> QED BY <1>5, <1>6

LEMMA PricedWindow ==
  ASSUME NEW level \in Nat
  PROVE  PricedTo(level + 98) - PricedTo(level) <= 900
<1>1. PICK c \in Nat : \E r \in 0..99 : level = 100 * c + r
  BY InCenturies
<1>2. PICK r \in 0..99 : level = 100 * c + r
  BY <1>1
<1>3. PricedTo(level) = 900 * c + Century(r)
  BY <1>2, CenturyIs
<1>4. CASE r < 2
  <2>1. r + 98 \in 0..99 /\ level + 98 = 100 * c + (r + 98)
    BY <1>2, <1>4
  <2>2. PricedTo(level + 98) = 900 * c + Century(r + 98)
    BY <2>1, CenturyIs
  <2>3. Century(r + 98) - Century(r) <= 900 /\ Century(r) \in Int /\ Century(r + 98) \in Int
    BY <1>4, <2>1 DEF Century
  <2> QED BY <1>3, <2>2, <2>3
<1>5. CASE r >= 2
  <2>1. r - 2 \in 0..99 /\ c + 1 \in Nat /\ level + 98 = 100 * (c + 1) + (r - 2)
    BY <1>2, <1>5
  <2>2. PricedTo(level + 98) = 900 * (c + 1) + Century(r - 2)
    <3>1. PICK d \in Nat, q \in 0..99 : d = c + 1 /\ q = r - 2
      BY <2>1
    <3>2. level + 98 = 100 * d + q
      BY <2>1, <3>1
    <3>3. PricedTo(level + 98) = 900 * d + Century(q)
      BY <3>2, CenturyIs
    <3> QED BY <3>1, <3>3
  <2>3. Century(r - 2) <= Century(r) /\ Century(r) \in Int /\ Century(r - 2) \in Int
    BY <1>5, <2>1 DEF Century
  <2> QED BY <1>3, <2>2, <2>3
<1> QED BY <1>4, <1>5

LEMMA RateIs ==
  ASSUME NEW distance \in 2..100
  PROVE  Rate(distance) \in 0..1000
BY DEF Rate

\* The amounts added up for a pass, each in turn.
EarlyUnits(start, active) == [k \in 1..98 |-> IF Early(start + 1 + k) THEN 5 * Unit(start + 1 + k, active) ELSE 0]
BaseUnits(start, active) == [k \in 1..98 |-> IF ~Early(start + 1 + k) THEN Unit(start + 1 + k, active) ELSE 0]
OddUnits(start, active) ==
  [k \in 1..98 |-> IF ~Early(start + 1 + k) /\ Odd(start, start + 1 + k) THEN Unit(start + 1 + k, active) ELSE 0]
Worths(start, active, award) ==
  [k \in 1..98 |-> TicketsAt(start, start + 1 + k, award) * Unit(start + 1 + k, active)]

LEMMA SumsAre ==
  ASSUME NEW start, NEW active
  PROVE  /\ Sums(start, active).early = Added(EarlyUnits(start, active))
         /\ Sums(start, active).base = Added(BaseUnits(start, active))
         /\ Sums(start, active).odd = Added(OddUnits(start, active))
<1> DEFINE e == Added(EarlyUnits(start, active))
           b == Added(BaseUnits(start, active))
           o == Added(OddUnits(start, active))
<1>1. Sums(start, active) = [early |-> e, base |-> b, odd |-> o]
  BY Zenon DEF Sums, OverPass, EarlyUnits, BaseUnits, OddUnits
<1> HIDE DEF e, b, o
<1> QED BY <1>1 DEF e, b, o

\* A loan's levels: the pass's and the active one.
LoanLevels(start, active) == start \in Nat \ {0} /\ active \in {start, start - 1}

LEMMA UnitIs ==
  ASSUME NEW start, NEW active, LoanLevels(start, active), NEW k \in 1..98
  PROVE  /\ start + 1 + k \in Nat \ {0}
         /\ Price(start + 1 + k) \in Nat
         /\ Unit(start + 1 + k, active) \in Nat /\ Unit(start + 1 + k, active) <= 1000 * Price(start + 1 + k)
<1> DEFINE t == start + 1 + k
<1>1. t \in Nat \ {0} /\ t - active \in 2..100
  <2>1. PICK x \in Nat \ {0} : x = start
    BY DEF LoanLevels
  <2>2. CASE active = x
    BY <2>1, <2>2
  <2>3. CASE active = x - 1
    BY <2>1, <2>3
  <2> QED BY <2>1, <2>2, <2>3 DEF LoanLevels
<1> HIDE DEF t
<1>2. PICK p \in Nat : p = Price(t)
  <2>1. Price(t) \in Nat
    BY <1>1 DEF Price
  <2> QED BY <2>1
<1>3. PICK r \in 0..1000 : r = Rate(t - active)
  <2>1. PICK d \in 2..100 : d = t - active
    BY <1>1, Zenon
  <2>2. Rate(d) \in 0..1000
    BY DEF Rate
  <2> QED BY <2>1, <2>2
<1>4. p * r \in Nat /\ p * r <= 1000 * p
  <2>1. \A a, b \in Nat : a * b \in Nat /\ (b <= 1000 => a * b <= a * 1000)
    OBVIOUS
  <2> QED BY <2>1
<1>5. Unit(t, active) = p * r
  BY <1>2, <1>3 DEF Unit
<1> QED BY <1>1, <1>2, <1>4, <1>5 DEF t

LEMMA UnitsTyped ==
  ASSUME NEW start, NEW active, LoanLevels(start, active)
  PROVE  /\ EarlyUnits(start, active) \in [1..98 -> Nat] /\ BaseUnits(start, active) \in [1..98 -> Nat]
         /\ OddUnits(start, active) \in [1..98 -> Nat]
<1>1. \A k \in 1..98 : Unit(start + 1 + k, active) \in Nat
  BY UnitIs
<1> QED BY <1>1 DEF EarlyUnits, BaseUnits, OddUnits

\* What the early levels, and the others, are worth at most.
EarlyMost == 90 * 1000
BaseMost == 900 * 1000

LEMMA MostsTyped == EarlyMost \in Nat /\ BaseMost \in Nat
BY DEF EarlyMost, BaseMost

\* The levels before the tenth are few and cheap, and the others cost no more than a century.
LEMMA SumsBounded ==
  ASSUME NEW start, NEW active, LoanLevels(start, active)
  PROVE  /\ Added(EarlyUnits(start, active)) \in 0..EarlyMost
         /\ Added(OddUnits(start, active)) \in Nat /\ Added(BaseUnits(start, active)) \in Nat
         /\ Added(OddUnits(start, active)) <= Added(BaseUnits(start, active))
         /\ Added(BaseUnits(start, active)) <= BaseMost
<1> DEFINE e == EarlyUnits(start, active)
           b == BaseUnits(start, active)
           o == OddUnits(start, active)
           base == [i \in 0..98 |-> 1000 * PricedTo(start + 1 + i)]
           least(l) == IF l < 9 THEN l ELSE 9
           early == [i \in 0..98 |-> 10 * (1000 * least(start + 1 + i))]
<1>1. e \in [1..98 -> Nat] /\ b \in [1..98 -> Nat] /\ o \in [1..98 -> Nat]
  BY UnitsTyped
<1>2. start \in Nat
  BY DEF LoanLevels
<1>3. \A k \in 1..98 : o[k] <= b[k]
  <2>1. \A k \in 1..98 : Unit(start + 1 + k, active) \in Nat
    BY UnitIs
  <2> QED BY <2>1 DEF OddUnits, BaseUnits
<1>4. ASSUME NEW i \in 0..98 PROVE PricedTo(start + 1 + i) \in Int
  <2>1. start + 1 + i \in Nat \ {0}
    BY <1>2
  <2> QED BY <2>1, PriceStep
<1>5. base \in [0..98 -> Int] /\ early \in [0..98 -> Int]
  BY <1>2, <1>4
<1>6. ASSUME NEW k \in 1..98 PROVE b[k] <= base[k] - base[k - 1]
  <2> DEFINE t == start + 1 + k
  <2>1. k \in 0..98 /\ k - 1 \in 0..98 /\ t \in Nat \ {0} /\ start + 1 + (k - 1) = t - 1
    BY <1>2
  <2>2. base[k] = 1000 * PricedTo(t) /\ base[k - 1] = 1000 * PricedTo(t - 1)
    BY <2>1
  <2>3. PricedTo(t) \in Int /\ PricedTo(t - 1) \in Int
    BY <1>4, <2>1
  <2>4. Price(t) \in Nat /\ Price(t) <= PricedTo(t) - PricedTo(t - 1)
    BY <2>1, PriceStep
  <2>5. Unit(t, active) \in Nat /\ Unit(t, active) <= 1000 * Price(t)
    BY UnitIs
  <2>6. b[k] \in {0, Unit(t, active)}
    BY DEF BaseUnits
  <2> HIDE DEF t, b, base
  <2> QED BY <2>2, <2>3, <2>4, <2>5, <2>6
<1>7. ASSUME NEW k \in 1..98 PROVE e[k] <= early[k] - early[k - 1]
  <2> DEFINE t == start + 1 + k
  <2>1. k \in 0..98 /\ k - 1 \in 0..98 /\ t \in Nat \ {0} /\ start + 1 + (k - 1) = t - 1
    BY <1>2
  <2>2. early[k] = 10 * (1000 * least(t)) /\ early[k - 1] = 10 * (1000 * least(t - 1))
    BY <2>1
  <2>3. e[k] = IF Early(t) THEN 5 * Unit(t, active) ELSE 0
    BY DEF EarlyUnits
  <2>4. Unit(t, active) \in Nat /\ Unit(t, active) <= 1000 * Price(t)
    BY UnitIs
  <2> HIDE DEF e, early, t
  <2>5. CASE t < 10
    <3>1. Price(t) \in {1, 2}
      BY <2>1, <2>5 DEF Price
    <3>2. least(t) = least(t - 1) + 1 /\ least(t) \in Nat /\ least(t - 1) \in Nat
      BY <2>1, <2>5
    <3>3. e[k] = 5 * Unit(t, active)
      BY <2>3, <2>5 DEF Early
    <3> HIDE DEF least
    <3> QED BY <2>2, <2>4, <3>1, <3>2, <3>3
  <2>6. CASE ~(t < 10)
    <3>1. e[k] = 0
      BY <2>3, <2>6 DEF Early
    <3>2. least(t) = 9 /\ least(t - 1) = 9
      BY <2>1, <2>6
    <3> QED BY <2>2, <3>1, <3>2
  <2> QED BY <2>5, <2>6
<1>8. base[98] - base[0] <= BaseMost
  <2>1. start + 1 \in Nat /\ start + 1 + 98 = (start + 1) + 98 /\ 0 \in 0..98 /\ 98 \in 0..98
    BY <1>2
  <2>2. PricedTo((start + 1) + 98) - PricedTo(start + 1) <= 900
    BY <2>1, PricedWindow
  <2>3. PricedTo(start + 1 + 98) \in Int /\ PricedTo(start + 1 + 0) \in Int /\ start + 1 + 0 = start + 1
    BY <1>2, <1>4
  <2>4. base[98] = 1000 * PricedTo(start + 1 + 98) /\ base[0] = 1000 * PricedTo(start + 1)
    BY <2>1, <2>3
  <2> HIDE DEF base
  <2> QED BY <2>1, <2>2, <2>3, <2>4 DEF BaseMost
<1>9. early[98] - early[0] <= EarlyMost
  <2>1. least(start + 1 + 98) - least(start + 1 + 0) <= 9 /\ least(start + 1 + 98) \in Nat /\ least(start + 1 + 0) \in Nat
    BY <1>2
  <2>2. early[98] = 10 * (1000 * least(start + 1 + 98)) /\ early[0] = 10 * (1000 * least(start + 1 + 0))
    OBVIOUS
  <2> HIDE DEF early, least
  <2> QED BY <2>1, <2>2 DEF EarlyMost
<1> HIDE DEF e, b, o, base, early
<1>10. Added(b) \in Nat /\ Added(b) <= base[98] - base[0]
  BY <1>1, <1>5, <1>6, AddedWithin
<1>11. Added(e) \in Nat /\ Added(e) <= early[98] - early[0]
  BY <1>1, <1>5, <1>7, AddedWithin
<1>12. Added(o) \in Nat /\ Added(o) <= Added(b)
  BY <1>1, <1>3, AddedTyped, AddedBelow
<1>13. base[98] \in Int /\ base[0] \in Int /\ early[98] \in Int /\ early[0] \in Int
  BY <1>5
<1> DEFINE x == Added(e)
           y == Added(b)
           z == Added(o)
<1>14. x \in Nat /\ x <= EarlyMost /\ y <= BaseMost
  <2> HIDE DEF x, y
  <2>1. x \in Nat /\ x <= early[98] - early[0] /\ y \in Nat /\ y <= base[98] - base[0]
    BY <1>10, <1>11 DEF x, y
  <2> QED BY <1>8, <1>9, <1>13, <2>1, MostsTyped
<1>15. x \in 0..EarlyMost
  <2> HIDE DEF x, y
  <2> QED BY <1>14, MostsTyped
<1> QED BY <1>10, <1>12, <1>14, <1>15 DEF e, b, o

LEMMA AwardIs ==
  ASSUME NEW quantity \in Nat \ {0}
  PROVE  /\ Award(quantity) \in Nat /\ Award(quantity) \div 2 \in Nat /\ Award(quantity) % 2 \in {0, 1}
         /\ Award(quantity) = 2 * (Award(quantity) \div 2) + (Award(quantity) % 2)
         /\ 5 * Award(quantity) <= 6 * quantity
<1> DEFINE a == Award(quantity)
<1>1. a \in Nat /\ 5 * a <= 6 * quantity
  BY DEF Award
<1> HIDE DEF a
<1>2. a \div 2 \in Nat /\ a % 2 \in {0, 1} /\ a = 2 * (a \div 2) + (a % 2)
  BY <1>1
<1> QED BY <1>1, <1>2 DEF a

\* The aggregate sums are worth the tickets taken one by one.
LEMMA PrincipalIs ==
  ASSUME NEW start, NEW active, LoanLevels(start, active), NEW quantity \in Nat \ {0}
  PROVE  Principal(start, active, quantity) = Added(Worths(start, active, Award(quantity)))
<1> DEFINE a == Award(quantity)
           half == a \div 2
           rest == a % 2
           e == EarlyUnits(start, active)
           b == BaseUnits(start, active)
           o == OddUnits(start, active)
           w == Worths(start, active, a)
<1>1. a \in Nat /\ half \in Nat /\ rest \in {0, 1} /\ a = 2 * half + rest
  BY AwardIs
<1>2. e \in [1..98 -> Nat] /\ b \in [1..98 -> Nat] /\ o \in [1..98 -> Nat]
  BY UnitsTyped
<1>3. Principal(start, active, quantity) = a * Added(e) + half * Added(b) + rest * Added(o)
  BY SumsAre, Zenon DEF Principal
<1> HIDE DEF a
<1>4. ASSUME NEW k \in 1..98 PROVE w[k] = a * e[k] + half * b[k] + rest * o[k] /\ w[k] \in Nat
  <2> DEFINE t == start + 1 + k
             early == Early(t)
             odd == Odd(start, t)
  <2>1. PICK u \in Nat : u = Unit(t, active)
    BY UnitIs
  <2>2. /\ e[k] = IF early THEN 5 * u ELSE 0
        /\ b[k] = IF ~early THEN u ELSE 0
        /\ o[k] = IF ~early /\ odd THEN u ELSE 0
    BY <2>1 DEF EarlyUnits, BaseUnits, OddUnits
  <2>3. w[k] = TicketsAt(start, t, a) * u
    BY <2>1 DEF Worths
  <2>4. TicketsAt(start, t, a) = IF early THEN 5 * a ELSE (a + (IF odd THEN 1 ELSE 0)) \div 2
    BY DEF TicketsAt
  <2> HIDE DEF w, e, b, o, early, odd, t
  <2>0. \A x, y \in Nat : x * y \in Nat /\ x * 0 = 0 /\ 0 * x = 0 /\ 1 * x = x /\ (5 * x) * y = x * (5 * y) /\ (x + 1) * y = x * y + y
    OBVIOUS
  <2>5. CASE early
    <3>1. w[k] = (5 * a) * u /\ e[k] = 5 * u /\ b[k] = 0 /\ o[k] = 0
      BY <2>2, <2>3, <2>4, <2>5
    <3>2. (5 * a) * u = a * (5 * u) /\ half * 0 = 0 /\ rest * 0 = 0 /\ a * (5 * u) \in Nat
      <4>1. 5 * u \in Nat /\ rest \in Nat
        BY <1>1
      <4> QED BY <1>1, <2>0, <4>1
    <3> HIDE DEF half, rest
    <3> QED BY <3>1, <3>2
  <2>6. CASE ~early /\ odd
    <3>1. w[k] = ((a + 1) \div 2) * u /\ e[k] = 0 /\ b[k] = u /\ o[k] = u
      BY <2>2, <2>3, <2>4, <2>6
    <3>2. (a + 1) \div 2 = half + rest
      BY <1>1
    <3>3. a * 0 = 0 /\ (rest = 0 => rest * u = 0) /\ (rest = 1 => rest * u = u) /\ half * u \in Nat
          /\ (half + 1) * u = half * u + u
      BY <1>1, <2>0
    <3> HIDE DEF half, rest
    <3>4. CASE rest = 0
      <4>1. (a + 1) \div 2 = half
        BY <1>1, <3>2, <3>4
      <4> QED BY <3>1, <3>3, <3>4, <4>1
    <3>5. CASE rest = 1
      <4>1. (a + 1) \div 2 = half + 1
        BY <1>1, <3>2, <3>5
      <4>2. w[k] = (half + 1) * u
        BY <3>1, <4>1
      <4> QED BY <3>1, <3>3, <3>5, <4>2
    <3> QED BY <1>1, <3>4, <3>5
  <2>7. CASE ~early /\ ~odd
    <3>1. w[k] = half * u /\ e[k] = 0 /\ b[k] = u /\ o[k] = 0
      <4>1. (a + 0) \div 2 = half
        BY <1>1
      <4> QED BY <2>2, <2>3, <2>4, <2>7, <4>1
    <3>2. a * 0 = 0 /\ rest * 0 = 0 /\ half * u \in Nat
      BY <1>1, <2>0
    <3> HIDE DEF half, rest
    <3> QED BY <3>1, <3>2
  <2> QED BY <2>5, <2>6, <2>7
<1>5. w \in [1..98 -> Nat]
  BY <1>4 DEF Worths
<1> HIDE DEF w, e, b, o, half, rest
<1>6. rest \in Nat
  BY <1>1
<1>7. Added(w) = a * Added(e) + half * Added(b) + rest * Added(o)
  <2>1. 98 \in Nat /\ \A i \in 1..98 : w[i] = a * e[i] + half * b[i] + rest * o[i]
    BY <1>4, SMTT(30)
  <2>2. Combined(98, w, a, e, half, b, rest, o)
    BY <1>1, <1>2, <1>5, <1>6, <2>1 DEF Combined
  <2> QED BY <2>2, AddedTogether
<1> QED BY <1>3, <1>7 DEF w, a

\* The bounds on the sums, in thousands.
LEMMA EarlyScaled == \A x \in Nat : EarlyMost * x = 1000 * (90 * x)
BY DEF EarlyMost

LEMMA BaseScaled == \A x \in Nat : BaseMost * x = 1000 * (900 * x)
BY DEF BaseMost

\* Whatever is borrowed, the principal stays below what the pass costs.
LEMMA PrincipalBelow ==
  ASSUME NEW start, NEW active, LoanLevels(start, active), NEW quantity \in Nat \ {0}
  PROVE  Principal(start, active, quantity) \div 1000 < PassCost(start, quantity)
<1> DEFINE a == Award(quantity)
           half == a \div 2
           rest == a % 2
<1>1. a \in Nat /\ half \in Nat /\ rest \in {0, 1} /\ a = 2 * half + rest /\ 5 * a <= 6 * quantity
  BY AwardIs
<1>2. PICK e \in 0..EarlyMost : e = Added(EarlyUnits(start, active))
  BY SumsBounded
<1>3. PICK b \in 0..BaseMost : b = Added(BaseUnits(start, active))
  BY SumsBounded
<1>4. PICK o \in 0..BaseMost : o = Added(OddUnits(start, active))
  <2> DEFINE x == Added(OddUnits(start, active))
             y == Added(BaseUnits(start, active))
  <2>1. x \in Nat /\ y \in Nat /\ x <= y /\ y <= BaseMost
    BY SumsBounded
  <2> HIDE DEF x, y
  <2>2. x \in 0..BaseMost
    BY <2>1, MostsTyped
  <2> QED BY <2>2 DEF x
<1>5. Principal(start, active, quantity) = a * e + half * b + rest * o
  BY <1>2, <1>3, <1>4, SumsAre, Zenon DEF Principal
<1> HIDE DEF a, half, rest
<1>6. a * e \in Nat /\ a * e <= EarlyMost * a /\ half * b \in Nat /\ half * b <= BaseMost * half
      /\ rest * o \in Nat /\ rest * o <= BaseMost * rest
  <2>1. \A x, y, z \in Nat : y <= z => x * y \in Nat /\ x * y <= z * x
    OBVIOUS
  <2>2. e \in Nat /\ b \in Nat /\ o \in Nat /\ rest \in Nat /\ e <= EarlyMost /\ b <= BaseMost /\ o <= BaseMost
    BY <1>1, MostsTyped
  <2> QED BY <1>1, <2>1, <2>2, MostsTyped
<1>7. PICK p \in Nat : p = a * e + half * b + rest * o
  <2>1. PICK x \in Nat, y \in Nat, z \in Nat : x = a * e /\ y = half * b /\ z = rest * o
    BY <1>6
  <2>2. x + y + z \in Nat
    OBVIOUS
  <2> QED BY <2>1, <2>2
<1>8. p <= EarlyMost * a + BaseMost * half + BaseMost * rest
  <2>1. PICK x \in Nat, y \in Nat, z \in Nat : x = a * e /\ y = half * b /\ z = rest * o
    BY <1>6
  <2>2. EarlyMost * a \in Nat /\ BaseMost * half \in Nat /\ BaseMost * rest \in Nat
    BY <1>1, MostsTyped
  <2>3. PICK u \in Nat, v \in Nat, w \in Nat : u = EarlyMost * a /\ v = BaseMost * half /\ w = BaseMost * rest
    BY <2>2
  <2> QED BY <1>6, <1>7, <2>1, <2>3
<1>9. PassCost(start, quantity) \in Int /\ PassCost(start, quantity) >= 24 * (100 * quantity - 35)
  BY DEF PassCost
<1>10. p < 1000 * (24 * (100 * quantity - 35))
  <2>1. p <= 1000 * (90 * a + 900 * half + 900 * rest)
    <3>1. EarlyMost * a = 1000 * (90 * a) /\ BaseMost * half = 1000 * (900 * half) /\ BaseMost * rest = 1000 * (900 * rest)
      <4>1. a \in Nat /\ half \in Nat /\ rest \in Nat
        BY <1>1
      <4> QED BY <4>1, EarlyScaled, BaseScaled
    <3>2. 90 * a \in Nat /\ 900 * half \in Nat /\ 900 * rest \in Nat
      BY <1>1
    <3> QED BY <1>8, <3>1, <3>2
  <2>2. 90 * a + 900 * half + 900 * rest < 24 * (100 * quantity - 35)
    BY <1>1
  <2> QED BY <1>1, <2>1, <2>2
<1>11. p \div 1000 < 24 * (100 * quantity - 35)
  BY <1>10
<1> QED BY <1>5, <1>7, <1>9, <1>11

\* A pass a hundred levels later.
LEMMA PeriodIs ==
  ASSUME NEW start, NEW active, LoanLevels(start, active), start >= 10, NEW quantity \in Nat
  PROVE  /\ Sums(start + 100, active + 100) = Sums(start, active)
         /\ PassCost(start + 100, quantity) = PassCost(start, quantity)
<1>1. start \in Nat /\ active \in Nat /\ Bonus(start) = 0 /\ Bonus(start + 100) = 0
  BY DEF LoanLevels, Bonus
<1>2. ASSUME NEW k \in 1..98
      PROVE  /\ ~Early(start + 1 + k) /\ ~Early(start + 100 + 1 + k)
             /\ Unit(start + 100 + 1 + k, active + 100) = Unit(start + 1 + k, active)
             /\ Odd(start + 100, start + 100 + 1 + k) <=> Odd(start, start + 1 + k)
  <2> DEFINE t == start + 1 + k
  <2>1. t \in Nat /\ t >= 10 /\ start + 100 + 1 + k = t + 100 /\ (t + 100) - (active + 100) = t - active
        /\ (t + 100) - (start + 100) = t - start
    BY <1>1
  <2> HIDE DEF t
  <2>2. (t + 100) % 100 = t % 100
    BY <2>1
  <2>3. Price(t + 100) = Price(t)
    BY <2>1, <2>2 DEF Price
  <2>4. Unit(t + 100, active + 100) = Unit(t, active)
    BY <2>1, <2>3 DEF Unit
  <2>5. Odd(start + 100, t + 100) <=> Odd(start, t)
    BY <1>1, <2>1 DEF Odd
  <2>6. ~Early(t) /\ ~Early(t + 100)
    BY <2>1 DEF Early
  <2>7. ~Early(t) /\ ~Early(t + 100) /\ Unit(t + 100, active + 100) = Unit(t, active) /\ (Odd(start + 100, t + 100) <=> Odd(start, t))
    BY <2>4, <2>5, <2>6
  <2> QED BY <2>1, <2>7 DEF t
<1>3. /\ EarlyUnits(start + 100, active + 100) = EarlyUnits(start, active)
      /\ BaseUnits(start + 100, active + 100) = BaseUnits(start, active)
      /\ OddUnits(start + 100, active + 100) = OddUnits(start, active)
  BY <1>2 DEF EarlyUnits, BaseUnits, OddUnits
<1>4. ASSUME NEW x, NEW y
      PROVE  Sums(x, y) = [early |-> Added(EarlyUnits(x, y)), base |-> Added(BaseUnits(x, y)), odd |-> Added(OddUnits(x, y))]
  BY Zenon DEF Sums, OverPass, EarlyUnits, BaseUnits, OddUnits
<1>5. Sums(start + 100, active + 100) = Sums(start, active)
  BY <1>3, <1>4
<1>6. PassCost(start + 100, quantity) = PassCost(start, quantity)
  BY <1>1 DEF PassCost
<1> QED BY <1>5, <1>6

LoanInv == loan # LoanIdle => LoanLevels(loan.start, loan.active) /\ loan.quantity \in Nat \ {0}

LEMMA LoanHolds == LoanInv => LoanBelowCost /\ OnePeriodCovers
<1> SUFFICES ASSUME LoanInv, loan # LoanIdle PROVE LoanBelowCost /\ OnePeriodCovers
  BY DEF LoanBelowCost, OnePeriodCovers
<1> DEFINE start == loan.start
           active == loan.active
           quantity == loan.quantity
           principal == Principal(start, active, quantity)
<1>1. LoanLevels(start, active) /\ quantity \in Nat \ {0} /\ quantity \in Nat
  BY DEF LoanInv
<1> HIDE DEF start, active, quantity
<1>2. principal \div 1000 < PassCost(start, quantity)
  BY <1>1, PrincipalBelow
<1>3. principal = Added(Worths(start, active, Award(quantity)))
  BY <1>1, PrincipalIs
<1> HIDE DEF principal
<1>4. LoanBelowCost
  <2>1. principal = Added([k \in 1..98 |-> TicketsAt(start, start + 1 + k, Award(quantity)) * Unit(start + 1 + k, active)])
    BY <1>3, Zenon DEF Worths
  <2> QED BY <1>2, <2>1, Zenon DEF LoanBelowCost, OverPass, principal, start, active, quantity
<1>5. OnePeriodCovers
  <2>1. start >= 10 => /\ Sums(start + 100, active + 100) = Sums(start, active)
                       /\ PassCost(start + 100, quantity) = PassCost(start, quantity)
    BY <1>1, PeriodIs
  <2> QED BY <2>1, Zenon DEF OnePeriodCovers, start, active, quantity
<1> QED BY <1>4, <1>5

-----------------------------------------------------------------------------
(* The split.                                                                *)

PoolInv ==
  /\ split \in [pool : Nat, bps : [Buckets -> Nat], winners : [Buckets -> {0, 1}], remainder : Buckets, chosen : Nat]
  /\ split.bps[0] + split.bps[1] + split.bps[2] + split.bps[3] <= BPS

LEMMA BucketsAre == Buckets = {0, 1, 2, 3}
BY DEF Buckets

\* Shares rounded down fit the pool.
LEMMA SharesFit ==
  ASSUME NEW d \in Nat \ {0}, NEW pool \in Nat, NEW b \in [Buckets -> Nat], b[0] + b[1] + b[2] + b[3] <= d
  PROVE  /\ \A i \in Buckets : (pool * b[i]) \div d \in Nat
         /\ (pool * b[0]) \div d + (pool * b[1]) \div d + (pool * b[2]) \div d + (pool * b[3]) \div d <= pool
<1>1. ASSUME NEW i \in Buckets PROVE Portion(pool, b[i], d) \in Nat /\ d * Portion(pool, b[i], d) <= pool * b[i]
  BY PortionBound
<1>2. 0 \in Buckets /\ 1 \in Buckets /\ 2 \in Buckets /\ 3 \in Buckets
  BY DEF Buckets
<1>3. PICK b0 \in Nat, b1 \in Nat, b2 \in Nat, b3 \in Nat : b0 = b[0] /\ b1 = b[1] /\ b2 = b[2] /\ b3 = b[3]
  BY <1>2
<1>4. PICK q0 \in Nat, q1 \in Nat, q2 \in Nat, q3 \in Nat :
        q0 = Portion(pool, b0, d) /\ q1 = Portion(pool, b1, d) /\ q2 = Portion(pool, b2, d) /\ q3 = Portion(pool, b3, d)
  BY <1>1, <1>2, <1>3
<1>5. d * q0 <= pool * b0 /\ d * q1 <= pool * b1 /\ d * q2 <= pool * b2 /\ d * q3 <= pool * b3
  BY <1>1, <1>2, <1>3, <1>4
<1>0. /\ \A x, y, z \in Nat : x * (y + z) = x * y + x * z
      /\ \A x, y \in Nat : x * y \in Nat /\ x * y = y * x
  OBVIOUS
<1>6. d * (q0 + q1 + q2 + q3) = d * q0 + d * q1 + d * q2 + d * q3
  <2>1. d * (q0 + q1 + q2 + q3) = d * (q0 + q1 + q2) + d * q3
    BY <1>0
  <2>2. d * (q0 + q1 + q2) = d * (q0 + q1) + d * q2
    BY <1>0
  <2>3. d * (q0 + q1) = d * q0 + d * q1
    BY <1>0
  <2> QED BY <2>1, <2>2, <2>3
<1>7. pool * (b0 + b1 + b2 + b3) = pool * b0 + pool * b1 + pool * b2 + pool * b3
  <2>1. pool * (b0 + b1 + b2 + b3) = pool * (b0 + b1 + b2) + pool * b3
    BY <1>0
  <2>2. pool * (b0 + b1 + b2) = pool * (b0 + b1) + pool * b2
    BY <1>0
  <2>3. pool * (b0 + b1) = pool * b0 + pool * b1
    BY <1>0
  <2> QED BY <2>1, <2>2, <2>3
<1>8. PICK q \in Nat, s \in Nat : q = q0 + q1 + q2 + q3 /\ s = b0 + b1 + b2 + b3
  OBVIOUS
<1>9. d * q <= pool * s
  <2>1. \A x1, x2, x3, x4, y1, y2, y3, y4 \in Nat :
          x1 <= y1 /\ x2 <= y2 /\ x3 <= y3 /\ x4 <= y4 => x1 + x2 + x3 + x4 <= y1 + y2 + y3 + y4
    OBVIOUS
  <2>2. /\ d * q0 \in Nat /\ d * q1 \in Nat /\ d * q2 \in Nat /\ d * q3 \in Nat
        /\ pool * b0 \in Nat /\ pool * b1 \in Nat /\ pool * b2 \in Nat /\ pool * b3 \in Nat
    OBVIOUS
  <2>3. d * q0 + d * q1 + d * q2 + d * q3 <= pool * b0 + pool * b1 + pool * b2 + pool * b3
    BY <1>5, <2>1, <2>2
  <2> QED BY <1>6, <1>7, <1>8, <2>3
<1>10. s <= d
  BY <1>3, <1>8
<1>11. q <= pool
  <2>1. pool * s <= pool * d
    <3>1. \A x, y, z \in Nat : y <= z => x * y <= x * z
      OBVIOUS
    <3> QED BY <1>10, <3>1
  <2>2. d * q <= pool * d
    <3>1. d * q \in Nat /\ pool * s \in Nat /\ pool * d \in Nat
      OBVIOUS
    <3> QED BY <1>9, <2>1, <3>1
  <2>3. ASSUME NEW x \in Nat, NEW y \in Nat, d * x <= y * d PROVE x <= y
    <3>1. ASSUME y < x PROVE FALSE
      <4>1. PICK z \in Nat : x = y + 1 + z
        <5>1. x - y - 1 \in Nat /\ x = y + 1 + (x - y - 1)
          BY <3>1
        <5> QED BY <5>1
      <4>2. d * (y + 1 + z) = d * y + d + d * z
        OBVIOUS
      <4>3. d * y = y * d /\ d * z \in Nat /\ y * d \in Nat
        BY <1>0
      <4> QED BY <2>3, <4>1, <4>2, <4>3
    <3> QED BY <3>1
  <2> QED BY <2>2, <2>3
<1>12. \A i \in Buckets : (pool * b[i]) \div d \in Nat
  BY <1>1 DEF Portion
<1> QED BY <1>3, <1>4, <1>8, <1>11, <1>12 DEF Portion

LEMMA PoolHolds == MoneyAssumption /\ PoolInv => SplitConserves
<1> SUFFICES ASSUME MoneyAssumption, PoolInv PROVE SplitConserves
  OBVIOUS
<1> DEFINE pool == split.pool
           r == split.remainder
           q == [i \in Buckets |-> Share(split, i)]
           w == split.winners
           dist == [i \in Buckets |-> IF i \in Ordinary(split) THEN Share(split, i) ELSE 0]
           left == [i \in Buckets |-> IF i \in Ordinary(split) /\ w[i] = 0 THEN Share(split, i) ELSE 0]
           paid == [i \in Buckets |-> Paid(split, i)]
           over(f) == f[0] + f[1] + f[2] + f[3]
<1>1. pool \in Nat /\ r \in Buckets /\ BPS \in Nat \ {0} /\ w \in [Buckets -> {0, 1}]
  BY DEF PoolInv, MoneyAssumption
<1>2. (\A i \in Buckets : q[i] \in Nat) /\ q[0] + q[1] + q[2] + q[3] <= pool
  <2> DEFINE b == split.bps
  <2>1. b \in [Buckets -> Nat] /\ b[0] + b[1] + b[2] + b[3] <= BPS
    BY DEF PoolInv
  <2> HIDE DEF b, pool
  <2>2. /\ \A i \in Buckets : (pool * b[i]) \div BPS \in Nat
        /\ (pool * b[0]) \div BPS + (pool * b[1]) \div BPS + (pool * b[2]) \div BPS + (pool * b[3]) \div BPS <= pool
    BY <1>1, <2>1, SharesFit
  <2>3. \A i \in Buckets : q[i] = (pool * b[i]) \div BPS
    BY DEF Share, Rounded, pool, b
  <2> HIDE DEF q
  <2> QED BY <2>2, <2>3, BucketsAre
<1>3. \A i \in Buckets : /\ dist[i] = IF i # r THEN q[i] ELSE 0
                         /\ left[i] = IF i # r /\ w[i] = 0 THEN q[i] ELSE 0
                         /\ paid[i] = IF i = r THEN pool - Distributed(split) ELSE IF w[i] # 0 THEN q[i] ELSE 0
  BY DEF Ordinary, Paid
<1>4. /\ Distributed(split) = over(dist) /\ Omitted(split) = over(left)
      /\ SplitConserves <=> /\ Distributed(split) \in 0..pool
                            /\ over(paid) <= pool
                            /\ over(paid) + Omitted(split) = pool
  <2>1. Distributed(split) = over(dist)
    BY BucketsAre DEF Distributed, OverBuckets
  <2>2. Omitted(split) = over(left)
    BY BucketsAre DEF Omitted, OverBuckets
  <2>3. \A i \in Buckets : paid[i] = Paid(split, i)
    OBVIOUS
  <2>4. over(paid) = Paid(split, 0) + Paid(split, 1) + Paid(split, 2) + Paid(split, 3)
    BY <2>3, BucketsAre
  <2> HIDE DEF over, paid
  <2>5. SplitConserves <=> /\ Distributed(split) \in 0..pool
                           /\ over(paid) <= pool
                           /\ over(paid) + Omitted(split) = pool
    BY <2>4, Zenon DEF SplitConserves, OverBuckets
  <2> QED BY <2>1, <2>2, <2>5
<1> HIDE DEF pool, r, q, w, dist, left, paid
<1>5. Distributed(split) = dist[0] + dist[1] + dist[2] + dist[3]
  BY <1>4
<1>6. Omitted(split) = left[0] + left[1] + left[2] + left[3]
  BY <1>4
<1>7. Distributed(split) \in 0..pool
  BY <1>1, <1>2, <1>3, <1>5, BucketsAre
<1>9. PICK d \in 0..pool : d = Distributed(split)
  BY <1>7
<1>10. paid[0] + paid[1] + paid[2] + paid[3] + Omitted(split) = pool /\ Omitted(split) \in Nat
       /\ paid[0] + paid[1] + paid[2] + paid[3] \in Nat
  <2>0. /\ q[0] \in Nat /\ q[1] \in Nat /\ q[2] \in Nat /\ q[3] \in Nat /\ r \in {0, 1, 2, 3}
        /\ w[0] \in {0, 1} /\ w[1] \in {0, 1} /\ w[2] \in {0, 1} /\ w[3] \in {0, 1}
    BY <1>1, <1>2, BucketsAre
  <2>1. ASSUME NEW i \in Buckets, i # r PROVE paid[i] + left[i] = dist[i] /\ paid[i] \in Nat /\ left[i] \in Nat /\ dist[i] \in Nat
    BY <1>1, <1>2, <1>3, <2>1
  <2>2. paid[r] = pool - d /\ left[r] = 0 /\ dist[r] = 0
    BY <1>1, <1>3, <1>9
  <2>3. d = dist[0] + dist[1] + dist[2] + dist[3]
    BY <1>5, <1>9
  <2>4. CASE r = 0
    BY <1>1, <1>6, <2>1, <2>2, <2>3, <2>4, BucketsAre
  <2>5. CASE r = 1
    BY <1>1, <1>6, <2>1, <2>2, <2>3, <2>5, BucketsAre
  <2>6. CASE r = 2
    BY <1>1, <1>6, <2>1, <2>2, <2>3, <2>6, BucketsAre
  <2>7. CASE r = 3
    BY <1>1, <1>6, <2>1, <2>2, <2>3, <2>7, BucketsAre
  <2> QED BY <2>0, <2>4, <2>5, <2>6, <2>7
<1>11. over(paid) <= pool /\ over(paid) + Omitted(split) = pool
  BY <1>1, <1>10
<1> QED BY <1>4, <1>7, <1>11

MoneyInv == PoolInv /\ LoanInv

LEMMA MoneyInit == MoneyAssumption /\ MoneyIdle => MoneyInv
<1> SUFFICES ASSUME MoneyAssumption, MoneyIdle PROVE MoneyInv
  OBVIOUS
<1>1. split = SplitIdle /\ loan = LoanIdle
  BY DEF MoneyIdle
<1>2. split.pool = 0 /\ split.remainder = 0 /\ split.bps = [i \in Buckets |-> 0] /\ split.winners = [i \in Buckets |-> 0]
  BY <1>1 DEF SplitIdle
<1>3. PoolInv
  <2>1. split \in [pool : Nat, bps : [Buckets -> Nat], winners : [Buckets -> {0, 1}], remainder : Buckets, chosen : Nat]
    <3>1. 0 \in Buckets
      BY BucketsAre
    <3> QED BY <1>1, <3>1 DEF SplitIdle
  <2> QED BY <1>2, <2>1, BucketsAre DEF PoolInv, MoneyAssumption
<1> QED BY <1>1, <1>3 DEF MoneyInv, LoanInv

LEMMA MoneyStep == MoneyAssumption /\ MoneyInv /\ [MoneyNext]_<<split, loan>> => MoneyInv'
<1> SUFFICES ASSUME MoneyAssumption, MoneyInv, [MoneyNext]_<<split, loan>> PROVE MoneyInv'
  OBVIOUS
<1> USE DEF MoneyInv
<1>1. ASSUME NEW pool \in Pools, NEW remainder \in Buckets, ChoosePool(pool, remainder) PROVE MoneyInv'
  <2>1. split' = [SplitIdle EXCEPT !.pool = pool, !.remainder = remainder, !.chosen = 1] /\ loan' = loan
    BY <1>1 DEF ChoosePool
  <2>2. split'.pool = pool /\ split'.remainder = remainder /\ split'.bps = [i \in Buckets |-> 0] /\ split'.winners = [i \in Buckets |-> 0]
    BY <2>1 DEF SplitIdle
  <2>3. pool \in Nat
    BY DEF MoneyAssumption
  <2>4. split' \in [pool : Nat, bps : [Buckets -> Nat], winners : [Buckets -> {0, 1}], remainder : Buckets, chosen : Nat]
    BY <2>1, <2>3 DEF SplitIdle
  <2>5. PoolInv'
    BY <2>2, <2>4, BucketsAre DEF PoolInv, MoneyAssumption
  <2> QED BY <2>1, <2>5 DEF LoanInv
<1>2. ASSUME NEW b \in 0..BPS, NEW winners \in {0, 1}, ChooseBucket(b, winners) PROVE MoneyInv'
  <2> DEFINE j == split.chosen - 1
             old == split.bps
             new == [old EXCEPT ![j] = b]
  <2>0. b \in Nat /\ BPS \in Nat
    BY DEF MoneyAssumption
  <2>1. split.chosen \in 1..4 /\ TotalBps(split) + b <= BPS /\ loan' = loan
    BY <1>2 DEF ChooseBucket, Within
  <2>2. split' = [split EXCEPT !.bps[j] = b, !.winners[j] = winners, !.chosen = @ + 1]
    BY <1>2 DEF ChooseBucket
  <2>3. /\ split'.pool = split.pool /\ split'.remainder = split.remainder
        /\ split'.bps = new /\ split'.winners = [split.winners EXCEPT ![j] = winners]
    <3> HIDE DEF j
    <3> QED BY <2>2 DEF PoolInv
  <2>4. old \in [Buckets -> Nat] /\ j \in Buckets /\ old[0] + old[1] + old[2] + old[3] <= BPS
    BY <2>1 DEF PoolInv, Buckets
  <2>5. TotalBps(split) = old[0] + old[1] + old[2] + old[3]
    BY DEF TotalBps, OverBuckets
  <2>6. new \in [Buckets -> Nat] /\ new[0] + new[1] + new[2] + new[3] <= BPS
    <3>1. old[0] + old[1] + old[2] + old[3] + b <= BPS
      BY <2>1, <2>5
    <3> HIDE DEF old, j
    <3>2. j \in {0, 1, 2, 3} /\ old[0] \in Nat /\ old[1] \in Nat /\ old[2] \in Nat /\ old[3] \in Nat
      BY <2>4, BucketsAre
    <3> QED BY <2>0, <2>4, <3>1, <3>2, BucketsAre
  <2>7. split'.winners \in [Buckets -> {0, 1}]
    BY <2>3, <2>4 DEF PoolInv
  <2> HIDE DEF new
  <2>8. split' \in [pool : Nat, bps : [Buckets -> Nat], winners : [Buckets -> {0, 1}], remainder : Buckets, chosen : Nat]
    <3> HIDE DEF j
    <3>1. split'.chosen = split.chosen + 1
      BY <2>2 DEF PoolInv
    <3>2. split' = [pool |-> split.pool, bps |-> new, winners |-> split'.winners, remainder |-> split.remainder,
                    chosen |-> split.chosen + 1]
      BY <2>2, <2>3, <3>1 DEF PoolInv
    <3> QED BY <2>6, <2>7, <3>2 DEF PoolInv
  <2>9. PoolInv'
    BY <2>3, <2>6, <2>8 DEF PoolInv
  <2> QED BY <2>1, <2>9 DEF LoanInv
<1>3. ASSUME NEW start \in Starts, NEW quantity \in Quantities, NEW active \in {start, start - 1}, Borrow(start, active, quantity)
      PROVE  MoneyInv'
  <2>1. loan' = [start |-> start, active |-> active, quantity |-> quantity] /\ split' = split
    BY <1>3 DEF Borrow
  <2>2. loan'.start = start /\ loan'.active = active /\ loan'.quantity = quantity
    BY <2>1
  <2>3. LoanLevels(start, active) /\ quantity \in Nat \ {0}
    BY DEF LoanLevels, Starts, MoneyAssumption
  <2> QED BY <2>1, <2>2, <2>3 DEF LoanInv, PoolInv
<1>4. CASE UNCHANGED <<split, loan>>
  BY <1>4 DEF PoolInv, LoanInv
<1> QED BY <1>1, <1>2, <1>3, <1>4 DEF MoneyNext

-----------------------------------------------------------------------------
(* Masking: the scan against the regions of a file.                          *)

LEMMA AppendIs ==
  ASSUME NEW T, NEW s \in Seq(T), NEW x \in T
  PROVE  /\ Append(s, x) \in Seq(T) /\ Len(Append(s, x)) = Len(s) + 1 /\ Append(s, x)[Len(s) + 1] = x
         /\ \A i \in 1..Len(s) : Append(s, x)[i] = s[i]
         /\ Len(s) \in Nat /\ \A i \in 1..(Len(s) + 1) : i \in 1..Len(s) \/ i = Len(s) + 1
<1>1. Len(s) \in Nat
  OBVIOUS
<1> QED BY <1>1, AppendProperties

LEMMA LeastIs ==
  ASSUME NEW S \in SUBSET Nat, NEW d \in Nat, NEW p \in Nat, p <= d, \A j \in S : p <= j
  PROVE  /\ Least(S, d) \in S \cup {d} /\ Least(S, d) \in Nat /\ p <= Least(S, d)
         /\ p \in S => Least(S, d) = p
<1>1. CASE S = {}
  BY <1>1 DEF Least
<1>2. CASE S # {}
  <2>1. Least(S, d) = Min(S) /\ Min(S) \in S /\ \A j \in S : Min(S) <= j
    BY <1>2, MinIs DEF Least
  <2> HIDE DEF Min
  <2>2. Min(S) \in Nat /\ p <= Min(S)
    BY <2>1
  <2>3. p \in S => Min(S) <= p
    BY <2>1
  <2> QED BY <2>1, <2>2, <2>3
<1> QED BY <1>1, <1>2

\* An even number of backslashes stands directly before position j.
Unhidden(s, j) ==
  \E k \in 0..(j - 1) : /\ k = 0 \/ s[k] # "escape"
                        /\ (\A l \in (k + 1)..(j - 1) : s[l] = "escape") /\ (j - k) % 2 = 1

LEMMA UnhiddenIs ==
  ASSUME NEW s \in Seq(Chars), NEW j \in Nat, j >= 1
  PROVE  /\ Unhidden(s, j) => ~Hidden(s, j)
         /\ s[j] # "escape" => Unhidden(s, j + 1)
         /\ Unhidden(s, j) /\ s[j] = "escape" => Hidden(s, j + 1) /\ Unhidden(s, j + 2)
<1>1. ASSUME Unhidden(s, j), Hidden(s, j) PROVE FALSE
  <2>1. PICK k \in 0..(j - 1) : /\ k = 0 \/ s[k] # "escape"
                                /\ (\A l \in (k + 1)..(j - 1) : s[l] = "escape") /\ (j - k) % 2 = 1
    BY <1>1 DEF Unhidden
  <2>2. PICK m \in 0..(j - 1) : /\ m = 0 \/ s[m] # "escape"
                                /\ (\A l \in (m + 1)..(j - 1) : s[l] = "escape") /\ (j - m) % 2 = 0
    BY <1>1 DEF Hidden
  <2>3. k # m
    BY <2>1, <2>2
  <2>4. CASE k < m
    <3>1. m \in (k + 1)..(j - 1) /\ m # 0
      BY <2>4
    <3> QED BY <2>1, <2>2, <3>1
  <2>5. CASE m < k
    <3>1. k \in (m + 1)..(j - 1) /\ k # 0
      BY <2>5
    <3> QED BY <2>1, <2>2, <3>1
  <2> QED BY <2>3, <2>4, <2>5
<1>2. ASSUME NEW i \in Nat, i >= 1, s[i] # "escape" PROVE Unhidden(s, i + 1)
  <2>1. i \in 0..((i + 1) - 1) /\ (\A l \in (i + 1)..((i + 1) - 1) : s[l] = "escape") /\ ((i + 1) - i) % 2 = 1
    BY <1>2
  <2> QED BY <1>2, <2>1 DEF Unhidden
<1>3. ASSUME Unhidden(s, j), s[j] = "escape" PROVE Hidden(s, j + 1) /\ Unhidden(s, j + 2)
  <2>1. PICK k \in 0..(j - 1) : /\ k = 0 \/ s[k] # "escape"
                                /\ (\A l \in (k + 1)..(j - 1) : s[l] = "escape") /\ (j - k) % 2 = 1
    BY <1>3 DEF Unhidden
  <2>2. \A l \in (k + 1)..((j + 1) - 1) : l \in (k + 1)..(j - 1) \/ l = j
    OBVIOUS
  <2>3. \A l \in (k + 1)..((j + 1) - 1) : s[l] = "escape"
    BY <1>3, <2>1, <2>2
  <2>4. k \in 0..((j + 1) - 1) /\ ((j + 1) - k) % 2 = 0
    BY <2>1
  <2>5. Hidden(s, j + 1)
    BY <2>1, <2>3, <2>4 DEF Hidden
  <2>6. CASE s[j + 1] = "escape"
    <3>1. \A l \in (k + 1)..((j + 2) - 1) : l \in (k + 1)..((j + 1) - 1) \/ l = j + 1
      OBVIOUS
    <3>2. \A l \in (k + 1)..((j + 2) - 1) : s[l] = "escape"
      BY <2>3, <2>6, <3>1
    <3>3. k \in 0..((j + 2) - 1) /\ ((j + 2) - k) % 2 = 1
      BY <2>1
    <3>4. Unhidden(s, j + 2)
      BY <2>1, <3>2, <3>3 DEF Unhidden
    <3> QED BY <2>5, <3>4
  <2>7. CASE s[j + 1] # "escape"
    <3>1. j + 1 \in Nat /\ j + 1 >= 1 /\ (j + 1) + 1 = j + 2
      OBVIOUS
    <3>2. Unhidden(s, (j + 1) + 1)
      BY <1>2, <2>7, <3>1
    <3> QED BY <2>5, <3>1, <3>2
  <2> QED BY <2>6, <2>7
<1> QED BY <1>1, <1>2, <1>3

\* Where a comment to the end of its line ends.
LEMMA LineEnds ==
  ASSUME NEW s \in Seq(Chars), NEW a \in Nat, NEW p \in Nat, a >= 1, s[a] = "slash", s[a + 1] = "slash",
         a + 2 <= p, p <= Len(s) + 1, \A j \in (a + 2)..(p - 1) : s[j] # "newline"
  PROVE  /\ Ends(s, a) \in Nat /\ p - 1 <= Ends(s, a) /\ Ends(s, a) <= Len(s)
         /\ p <= Len(s) /\ s[p] = "newline" => Ends(s, a) = p - 1
         /\ p <= Len(s) /\ s[p] # "newline" => p <= Ends(s, a)
<1> DEFINE n == Len(s)
           S == {j \in (a + 2)..n : s[j] = "newline"}
           x == Least(S, n + 1)
<1>1. n \in Nat /\ S \in SUBSET Nat /\ n + 1 \in Nat
  OBVIOUS
<1>2. Ends(s, a) = x - 1
  BY DEF Ends, Quotes
<1>3. \A j \in S : p <= j /\ j <= n
  <2>1. SUFFICES ASSUME NEW j \in S, j < p PROVE FALSE
    BY <1>1
  <2>2. j \in (a + 2)..(p - 1) /\ s[j] = "newline"
    BY <1>1, <2>1
  <2> QED BY <2>2
<1>4. p <= n /\ s[p] = "newline" => p \in S
  OBVIOUS
<1>5. p <= n /\ s[p] # "newline" => \A j \in S : p + 1 <= j
  BY <1>3
<1> HIDE DEF S, x, n
<1>6. p <= n + 1
  BY DEF n
<1> USE DEF x
<1>7. x \in S \cup {n + 1} /\ x \in Nat /\ p <= x /\ (p \in S => x = p)
  <2> HIDE DEF x
  <2> QED BY <1>1, <1>3, <1>6, LeastIs DEF x
<1>8. x <= n + 1
  <2> HIDE DEF x
  <2> QED BY <1>1, <1>3, <1>7
<1>9. p <= n /\ s[p] # "newline" => p + 1 <= x
  <2>1. SUFFICES ASSUME p <= n, s[p] # "newline" PROVE p + 1 <= x
    OBVIOUS
  <2>2. p + 1 \in Nat /\ p + 1 <= n + 1 /\ \A j \in S : p + 1 <= j
    BY <1>1, <1>5, <2>1
  <2> QED BY <1>1, <2>2, LeastIs
<1> HIDE DEF x
<1> QED BY <1>1, <1>2, <1>4, <1>7, <1>8, <1>9 DEF n

\* Where a block comment ends.
LEMMA BlockEnds ==
  ASSUME NEW s \in Seq(Chars), NEW a \in Nat, NEW p \in Nat, a >= 1, s[a] = "slash", s[a + 1] = "star",
         a + 2 <= p, p <= Len(s), \A j \in (a + 3)..p : ~(s[j - 1] = "star" /\ s[j] = "slash")
  PROVE  /\ Ends(s, a) \in Nat /\ p + 1 <= Ends(s, a) /\ Ends(s, a) <= Len(s) + 1
         /\ p + 1 <= Len(s) /\ s[p] = "star" /\ s[p + 1] = "slash" => Ends(s, a) = p + 1
<1> DEFINE n == Len(s)
           S == {j \in (a + 3)..n : s[j - 1] = "star" /\ s[j] = "slash"}
           x == Least(S, n + 1)
<1>1. n \in Nat /\ S \in SUBSET Nat /\ n + 1 \in Nat /\ p + 1 \in Nat /\ p + 1 <= n + 1
  OBVIOUS
<1>2. Ends(s, a) = x
  BY DEF Ends, Quotes
<1>3. \A j \in S : p + 1 <= j /\ j <= n
  <2>1. SUFFICES ASSUME NEW j \in S, j < p + 1 PROVE FALSE
    BY <1>1
  <2>2. j \in (a + 3)..p /\ s[j - 1] = "star" /\ s[j] = "slash"
    BY <1>1, <2>1
  <2> QED BY <2>2
<1>4. p + 1 <= n /\ s[p] = "star" /\ s[p + 1] = "slash" => p + 1 \in S
  <2>1. (p + 1) - 1 = p
    OBVIOUS
  <2> QED BY <2>1
<1> HIDE DEF S, x, n
<1>5. x \in S \cup {n + 1} /\ x \in Nat /\ p + 1 <= x /\ (p + 1 \in S => x = p + 1)
  BY <1>1, <1>3, LeastIs DEF x
<1>6. x <= n + 1
  BY <1>1, <1>3, <1>5
<1> QED BY <1>1, <1>2, <1>4, <1>5, <1>6 DEF n

\* Where a literal ends.
LEMMA LiteralEnds ==
  ASSUME NEW s \in Seq(Chars), NEW a \in Nat, NEW p \in Nat, a >= 1, s[a] \in Quotes, a + 1 <= p, p <= Len(s) + 1,
         \A j \in (a + 1)..(p - 1) : ~(s[j] = s[a] /\ ~Hidden(s, j))
  PROVE  /\ Ends(s, a) \in Nat /\ p <= Ends(s, a) /\ Ends(s, a) <= Len(s) + 1
         /\ p <= Len(s) /\ s[p] = s[a] /\ ~Hidden(s, p) => Ends(s, a) = p
         /\ p <= Len(s) /\ ~(s[p] = s[a] /\ ~Hidden(s, p)) => p + 1 <= Ends(s, a)
<1> DEFINE n == Len(s)
           S == {j \in (a + 1)..n : s[j] = s[a] /\ ~Hidden(s, j)}
           x == Least(S, n + 1)
<1>1. n \in Nat /\ S \in SUBSET Nat /\ n + 1 \in Nat /\ p + 1 \in Nat
  OBVIOUS
<1>2. Ends(s, a) = x
  BY DEF Ends
<1>3. \A j \in S : p <= j /\ j <= n
  <2>1. SUFFICES ASSUME NEW j \in S, j < p PROVE FALSE
    BY <1>1
  <2>2. j \in (a + 1)..(p - 1) /\ s[j] = s[a] /\ ~Hidden(s, j)
    BY <1>1, <2>1
  <2> QED BY <2>2
<1>4. p <= n /\ s[p] = s[a] /\ ~Hidden(s, p) => p \in S
  OBVIOUS
<1>5. p <= n /\ ~(s[p] = s[a] /\ ~Hidden(s, p)) => p \notin S
  OBVIOUS
<1> HIDE DEF S, x, n
<1>6. p <= n + 1
  BY DEF n
<1>7. x \in S \cup {n + 1} /\ x \in Nat /\ p <= x /\ (p \in S => x = p)
  BY <1>1, <1>3, <1>6, LeastIs DEF x
<1>8. x <= n + 1
  BY <1>1, <1>3, <1>7
<1>9. p <= n /\ p \notin S => p + 1 <= x
  BY <1>1, <1>7
<1> QED BY <1>1, <1>2, <1>4, <1>5, <1>7, <1>8, <1>9 DEF n

LEMMA EndsRange ==
  ASSUME NEW s \in Seq(Chars), NEW a \in 1..Len(s), Opens(s, a)
  PROVE  Ends(s, a) \in Nat /\ a + 1 <= Ends(s, a) /\ Ends(s, a) <= Len(s) + 1
<1> DEFINE n == Len(s)
<1>1. a \in Nat /\ a >= 1 /\ a <= n /\ n \in Nat /\ a + 1 \in Nat /\ a + 2 \in Nat /\ a + 3 \in Nat
  OBVIOUS
<1>2. CASE s[a] \in Quotes
  <2>1. a + 1 <= a + 1 /\ a + 1 <= n + 1 /\ \A j \in (a + 1)..((a + 1) - 1) : ~(s[j] = s[a] /\ ~Hidden(s, j))
    BY <1>1
  <2> QED BY <1>1, <1>2, <2>1, LiteralEnds
<1>3. CASE s[a] \notin Quotes /\ s[a + 1] = "slash"
  <2>1. s[a] = "slash" /\ a + 1 <= n
    BY <1>1, <1>3 DEF Opens
  <2>2. a + 2 <= a + 2 /\ a + 2 <= n + 1 /\ \A j \in (a + 2)..((a + 2) - 1) : s[j] # "newline"
    BY <1>1, <2>1
  <2>3. Ends(s, a) \in Nat /\ (a + 2) - 1 <= Ends(s, a) /\ Ends(s, a) <= n
    BY <1>1, <1>3, <2>1, <2>2, LineEnds
  <2> QED BY <1>1, <2>3
<1>4. CASE s[a] \notin Quotes /\ s[a + 1] # "slash"
  <2>1. s[a] = "slash" /\ s[a + 1] = "star" /\ a + 1 <= n
    BY <1>1, <1>4 DEF Opens
  <2>2. CASE a + 2 <= n
    <3>1. \A j \in (a + 3)..(a + 2) : ~(s[j - 1] = "star" /\ s[j] = "slash")
      BY <1>1
    <3>2. Ends(s, a) \in Nat /\ (a + 2) + 1 <= Ends(s, a) /\ Ends(s, a) <= n + 1
      BY <1>1, <2>1, <2>2, <3>1, BlockEnds
    <3> QED BY <1>1, <3>2
  <2>3. CASE a + 1 = n
    <3> DEFINE S == {j \in (a + 3)..n : s[j - 1] = "star" /\ s[j] = "slash"}
    <3>1. S = {}
      BY <1>1, <2>3
    <3>2. Ends(s, a) = Least(S, n + 1)
      BY <2>1 DEF Ends, Quotes
    <3>3. Ends(s, a) = n + 1
      BY <3>1, <3>2 DEF Least
    <3> QED BY <1>1, <3>3
  <2> QED BY <1>1, <2>1, <2>2, <2>3
<1> QED BY <1>2, <1>3, <1>4

\* The positions of code go on to the end of the file, and never back.
LEMMA CodeGoesOn ==
  ASSUME NEW s \in Seq(Chars)
  PROVE  /\ CodeAfter(s, 0) = 1
         /\ \A n \in Nat : /\ CodeAfter(s, n) \in Nat /\ CodeAfter(s, n) >= 1 /\ CodeAfter(s, n) <= Len(s) + 2
                           /\ CodeAfter(s, n) > Len(s) \/ CodeAfter(s, n) >= n + 1
                           /\ CodeAfter(s, n) <= Len(s) =>
                                CodeAfter(s, n + 1) = IF Opens(s, CodeAfter(s, n)) THEN Ends(s, CodeAfter(s, n)) + 1 ELSE CodeAfter(s, n) + 1
         /\ \A m, n \in Nat : m <= n => CodeAfter(s, m) <= CodeAfter(s, n)
<1> DEFINE L == Len(s)
           D == 1..(L + 2)
           b == Beyond(s)
           c(n) == CodeAfter(s, n)
<1>1. L \in Nat /\ 1 \in D
  OBVIOUS
<1>2. ASSUME NEW i \in D
      PROVE  b[i] \in D /\ i <= b[i] /\ (i <= L => b[i] = IF Opens(s, i) THEN Ends(s, i) + 1 ELSE i + 1)
             /\ (i <= L => i + 1 <= b[i])
  <2>1. b[i] = IF i > L THEN i ELSE IF Opens(s, i) THEN Ends(s, i) + 1 ELSE i + 1
    BY DEF Beyond
  <2>2. i \in Nat /\ i >= 1 /\ i <= L + 2
    BY <1>1
  <2>3. i <= L /\ Opens(s, i) => Ends(s, i) \in Nat /\ i + 1 <= Ends(s, i) /\ Ends(s, i) <= L + 1
    BY <2>2, EndsRange
  <2> HIDE DEF b, L
  <2>4. CASE i > L
    BY <1>1, <2>1, <2>2, <2>4
  <2>5. CASE i <= L /\ Opens(s, i)
    <3>1. b[i] = Ends(s, i) + 1
      BY <1>1, <2>1, <2>2, <2>5
    <3>2. PICK e \in Nat : e = Ends(s, i) /\ i + 1 <= e /\ e <= L + 1
      BY <2>3, <2>5
    <3>3. b[i] = e + 1
      BY <3>1, <3>2
    <3> QED BY <1>1, <2>2, <2>5, <3>1, <3>2, <3>3
  <2>6. CASE i <= L /\ ~Opens(s, i)
    BY <1>1, <2>1, <2>2, <2>6
  <2> QED BY <1>1, <2>2, <2>4, <2>5, <2>6
<1>3. b \in [D -> D]
  <2>1. b = [i \in D |-> IF i > L THEN i ELSE IF Opens(s, i) THEN Ends(s, i) + 1 ELSE i + 1]
    BY DEF Beyond
  <2>2. DOMAIN b = D /\ b = [i \in D |-> b[i]]
    BY <2>1
  <2> HIDE DEF b, D
  <2> QED BY <1>2, <2>2
<1>4. c(0) = 1 /\ \A n \in Nat : c(n) \in D /\ c(n + 1) = b[c(n)]
  <2> HIDE DEF b, D
  <2>1. Grown(1, b, 0) = 1 /\ \A n \in Nat : Grown(1, b, n) \in D /\ Grown(1, b, n + 1) = b[Grown(1, b, n)]
    BY <1>1, <1>3, GrownRounds
  <2> QED BY <2>1 DEF CodeAfter, b
<1> HIDE DEF b, c, L
<1>5. \A n \in Nat : c(n) \in Nat /\ c(n) >= 1 /\ c(n) <= L + 2 /\ c(n) <= c(n + 1)
                     /\ (c(n) <= L => c(n + 1) = (IF Opens(s, c(n)) THEN Ends(s, c(n)) + 1 ELSE c(n) + 1) /\ c(n) + 1 <= c(n + 1))
  <2>1. SUFFICES ASSUME NEW n \in Nat
                 PROVE  c(n) \in Nat /\ c(n) >= 1 /\ c(n) <= L + 2 /\ c(n) <= c(n + 1)
                        /\ (c(n) <= L => c(n + 1) = (IF Opens(s, c(n)) THEN Ends(s, c(n)) + 1 ELSE c(n) + 1) /\ c(n) + 1 <= c(n + 1))
    OBVIOUS
  <2> DEFINE i == c(n)
  <2>2. i \in D /\ c(n + 1) = b[i]
    BY <1>4
  <2>3. i \in Nat /\ i >= 1 /\ i <= L + 2
    BY <1>1, <2>2
  <2> HIDE DEF i, D
  <2>4. i <= b[i] /\ (i <= L => b[i] = IF Opens(s, i) THEN Ends(s, i) + 1 ELSE i + 1) /\ (i <= L => i + 1 <= b[i])
    BY <1>2, <2>2
  <2> QED BY <2>2, <2>3, <2>4 DEF i
<1>6. \A n \in Nat : c(n) > L \/ c(n) >= n + 1
  <2> DEFINE S == {n \in Nat : c(n) > L \/ c(n) >= n + 1}
  <2>1. 0 \in S
    BY <1>4
  <2>2. ASSUME NEW n \in S PROVE n + 1 \in S
    <3>1. PICK x \in Nat : x = c(n)
      BY <1>5
    <3>2. PICK y \in Nat : y = c(n + 1)
      BY <1>5
    <3>3. x <= y /\ (x <= L => x + 1 <= y) /\ (x > L \/ x >= n + 1)
      BY <1>5, <3>1, <3>2
    <3>4. y > L \/ y >= (n + 1) + 1
      BY <1>1, <3>3
    <3> QED BY <3>2, <3>4
  <2> HIDE DEF S
  <2>3. S = Nat
    <3>1. S \in SUBSET Nat
      BY DEF S
    <3> QED BY <2>1, <2>2, <3>1, EveryNatural
  <2> QED BY <2>3 DEF S
<1>7. ASSUME NEW m \in Nat PROVE \A n \in Nat : m <= n => c(m) <= c(n)
  <2> DEFINE S == {n \in Nat : m <= n => c(m) <= c(n)}
  <2>1. 0 \in S
    <3>1. c(0) <= c(0)
      BY <1>5
    <3> QED BY <3>1
  <2>2. ASSUME NEW n \in S PROVE n + 1 \in S
    <3>1. PICK x \in Nat : x = c(n)
      BY <1>5
    <3>2. PICK y \in Nat : y = c(n + 1)
      BY <1>5
    <3>3. PICK z \in Nat : z = c(m)
      BY <1>5
    <3>4. x <= y /\ (m <= n => z <= x) /\ (m = n + 1 => z = y)
      BY <1>5, <3>1, <3>2, <3>3
    <3>5. m <= n + 1 => z <= y
      BY <3>4
    <3> QED BY <3>2, <3>3, <3>5
  <2> HIDE DEF S
  <2>3. S = Nat
    <3>1. S \in SUBSET Nat
      BY DEF S
    <3> QED BY <2>1, <2>2, <3>1, EveryNatural
  <2> QED BY <2>3 DEF S
<1> QED BY <1>4, <1>5, <1>6, <1>7 DEF c, L

\* Between two positions of code there is one region, or one character.
LEMMA OneRegion ==
  ASSUME NEW s \in Seq(Chars), NEW n \in Nat, CodeAfter(s, n) <= Len(s), NEW i \in Nat,
         CodeAfter(s, n) <= i, i < CodeAfter(s, n + 1)
  PROVE  /\ \A g \in Regions(s) : g[1] <= i /\ i <= g[2] => g = <<CodeAfter(s, n), Ends(s, CodeAfter(s, n))>> /\ Opens(s, CodeAfter(s, n))
         /\ Opens(s, CodeAfter(s, n)) => <<CodeAfter(s, n), Ends(s, CodeAfter(s, n))>> \in Regions(s)
<1> DEFINE L == Len(s)
           a == CodeAfter(s, n)
<1>1. L \in Nat /\ a \in Nat /\ a >= 1 /\ a <= L /\ n + 1 \in Nat /\ CodeAfter(s, n + 1) \in Nat
  BY CodeGoesOn
<1>2. n \in 0..L
  <2>1. a > L \/ a >= n + 1
    BY CodeGoesOn
  <2> HIDE DEF a, L
  <2> QED BY <1>1, <2>1
<1>3. Opens(s, a) => <<a, Ends(s, a)>> \in Regions(s)
  <2>1. a \in {CodeAfter(s, m) : m \in 0..L}
    BY <1>2
  <2> HIDE DEF a
  <2> QED BY <1>1, <2>1 DEF Regions, Openings
<1>4. ASSUME NEW g \in Regions(s), g[1] <= i, i <= g[2] PROVE g = <<a, Ends(s, a)>> /\ Opens(s, a)
  <2>1. PICK q \in Openings(s) : g = <<q, Ends(s, q)>>
    BY DEF Regions
  <2>2. PICK m \in 0..L : q = CodeAfter(s, m) /\ q <= L /\ Opens(s, q)
    BY <2>1 DEF Openings
  <2>3. m \in Nat /\ m + 1 \in Nat /\ q \in Nat /\ q >= 1 /\ CodeAfter(s, m + 1) = Ends(s, q) + 1
    BY <1>1, <2>2, CodeGoesOn
  <2>4. PICK e \in Nat : e = Ends(s, q)
    <3>1. q \in 1..L
      BY <1>1, <2>2, <2>3
    <3> QED BY <2>2, <3>1, EndsRange
  <2>5. q <= i /\ i <= e
    BY <1>4, <2>1, <2>4
  <2>6. ~(m < n)
    <3>1. SUFFICES ASSUME m < n PROVE FALSE
      OBVIOUS
    <3>2. m + 1 <= n
      BY <2>3, <3>1
    <3>3. e + 1 <= a
      BY <2>3, <2>4, <3>2, CodeGoesOn
    <3> HIDE DEF a
    <3>4. a <= i
      BY DEF a
    <3> QED BY <1>1, <2>5, <3>3, <3>4
  <2>7. ~(n < m)
    <3>1. SUFFICES ASSUME n < m PROVE FALSE
      OBVIOUS
    <3>2. n + 1 <= m
      BY <2>3, <3>1
    <3>3. CodeAfter(s, n + 1) <= q
      BY <1>1, <2>2, <2>3, <3>2, CodeGoesOn
    <3> QED BY <1>1, <2>3, <2>5, <3>3
  <2>8. m = n
    BY <2>3, <2>6, <2>7
  <2> QED BY <2>1, <2>2, <2>8
<1> QED BY <1>3, <1>4

\* What the masked text has at a position of code, or of the region that begins there.
LEMMA MaskedIs ==
  ASSUME NEW s \in Seq(Chars), NEW form, NEW n \in Nat, NEW a, a = CodeAfter(s, n), a <= Len(s), NEW i \in Nat,
         a <= i, i < CodeAfter(s, n + 1)
  PROVE  /\ ~Opens(s, a) => Masked(s, form, i) = s[i]
         /\ Opens(s, a) /\ s[a] \in Quotes /\ i \in {a, Ends(s, a)} => Masked(s, form, i) = s[i]
         /\ Opens(s, a) /\ s[a] \in Quotes /\ i \notin {a, Ends(s, a)} =>
              Masked(s, form, i) = IF s[i] # "newline" \/ form = "external" \/ Hidden(s, i) THEN Blank ELSE s[i]
         /\ Opens(s, a) /\ s[a] \notin Quotes => Masked(s, form, i) = IF s[i] # "newline" THEN Blank ELSE s[i]
<1> DEFINE g == <<a, Ends(s, a)>>
           In(h) == h[1] <= i /\ i <= h[2]
<1>1. a \in Nat /\ a >= 1 /\ a \in 1..Len(s) /\ CodeAfter(s, n + 1) = IF Opens(s, a) THEN Ends(s, a) + 1 ELSE a + 1
  <2> DEFINE c == CodeAfter(s, n)
             L == Len(s)
  <2>1. c \in Nat /\ c >= 1 /\ c <= L /\ CodeAfter(s, n + 1) = IF Opens(s, c) THEN Ends(s, c) + 1 ELSE c + 1
    BY CodeGoesOn
  <2>2. a = c /\ L \in Nat
    OBVIOUS
  <2> HIDE DEF c, L
  <2>3. a \in Nat /\ a >= 1 /\ a \in 1..L
    BY <2>1, <2>2
  <2> QED BY <2>1, <2>2, <2>3 DEF L
<1>2. (\A h \in Regions(s) : In(h) => h = g /\ Opens(s, a)) /\ (Opens(s, a) => g \in Regions(s))
  BY OneRegion
<1>3. CASE ~Opens(s, a)
  <2>1. ~\E h \in Regions(s) : In(h)
    BY <1>2, <1>3
  <2> QED BY <1>3, <2>1 DEF Masked
<1>4. CASE Opens(s, a)
  <2>1. Ends(s, a) \in Nat /\ a + 1 <= Ends(s, a)
    BY <1>1, <1>4, EndsRange
  <2>2. g \in Regions(s) /\ g[1] = a /\ g[2] = Ends(s, a) /\ i <= Ends(s, a)
    <3>1. i < Ends(s, a) + 1
      BY <1>1, <1>4
    <3> QED BY <1>2, <1>4, <2>1, <3>1
  <2>3. \E h \in Regions(s) : h[1] <= i /\ i <= h[2]
    BY <2>2
  <2>4. ASSUME NEW h \in Regions(s), i \in {h[1], h[2]} PROVE h = g
    <3>1. PICK q \in Openings(s) : h = <<q, Ends(s, q)>>
      BY DEF Regions
    <3>2. q \in Nat /\ q \in 1..Len(s) /\ Opens(s, q)
      BY <3>1, CodeGoesOn DEF Openings
    <3>3. Ends(s, q) \in Nat /\ q + 1 <= Ends(s, q)
      BY <3>2, EndsRange
    <3>4. h[1] = q /\ h[2] = Ends(s, q)
      BY <3>1
    <3>5. In(h)
      BY <2>4, <3>2, <3>3, <3>4
    <3> QED BY <1>2, <3>5
  <2>5. CASE s[a] \in Quotes
    <3>1. g \in QuotedRegions(s)
      BY <2>2, <2>5 DEF QuotedRegions
    <3>2. (\E h \in QuotedRegions(s) : i \in {h[1], h[2]}) <=> i \in {a, Ends(s, a)}
      BY <2>2, <2>4, <3>1 DEF QuotedRegions
    <3>3. i \notin {a, Ends(s, a)} => \E h \in QuotedRegions(s) : h[1] < i /\ i < h[2]
      <4>1. i \notin {a, Ends(s, a)} => a < i /\ i < Ends(s, a)
        BY <1>1, <2>1, <2>2
      <4> QED BY <2>2, <3>1, <4>1
    <3> QED BY <1>4, <2>3, <2>5, <3>2, <3>3 DEF Masked
  <2>6. CASE s[a] \notin Quotes
    <3>1. ASSUME NEW h \in QuotedRegions(s), In(h) PROVE FALSE
      <4>1. h \in Regions(s) /\ s[h[1]] \in Quotes
        BY DEF QuotedRegions
      <4>2. h = g
        BY <1>2, <3>1, <4>1
      <4> QED BY <2>2, <2>6, <4>1, <4>2
    <3>2. ~\E h \in QuotedRegions(s) : i \in {h[1], h[2]}
      <4>1. SUFFICES ASSUME NEW h \in QuotedRegions(s), i \in {h[1], h[2]} PROVE FALSE
        OBVIOUS
      <4>2. h \in Regions(s) /\ s[h[1]] \in Quotes
        BY DEF QuotedRegions
      <4>3. h = g
        BY <2>4, <4>1, <4>2
      <4> QED BY <2>2, <2>6, <4>2, <4>3
    <3>3. ~\E h \in QuotedRegions(s) : h[1] < i /\ i < h[2]
      <4>1. SUFFICES ASSUME NEW h \in QuotedRegions(s), h[1] < i, i < h[2] PROVE FALSE
        OBVIOUS
      <4>2. PICK q \in Openings(s) : h = <<q, Ends(s, q)>>
        BY DEF QuotedRegions, Regions
      <4>3. q \in Nat /\ q \in 1..Len(s) /\ Opens(s, q)
        BY <4>2, CodeGoesOn DEF Openings
      <4>4. Ends(s, q) \in Nat /\ h[1] = q /\ h[2] = Ends(s, q)
        BY <4>2, <4>3, EndsRange
      <4>5. In(h)
        BY <4>1, <4>3, <4>4
      <4> QED BY <3>1, <4>5
    <3> QED BY <1>4, <2>3, <2>6, <3>2, <3>3 DEF Masked
  <2> QED BY <1>4, <2>5, <2>6
<1> QED BY <1>3, <1>4

\* The scan is at position p of the region that opens at a.
InRegion(s, mode, p, a) ==
  /\ a <= Len(s) /\ Opens(s, a)
  /\ \/ /\ mode = "line" /\ s[a] = "slash" /\ s[a + 1] = "slash" /\ a + 2 <= p /\ p <= Len(s) + 1
        /\ \A j \in (a + 2)..(p - 1) : s[j] # "newline"
     \/ /\ mode = "block" /\ s[a] = "slash" /\ s[a + 1] = "star" /\ a + 2 <= p /\ p <= Len(s) + 1
        /\ \A j \in (a + 3)..p : j <= Len(s) => ~(s[j - 1] = "star" /\ s[j] = "slash")
     \/ /\ mode \in Quotes /\ s[a] = mode /\ a + 1 <= p /\ Unhidden(s, p)
        /\ \A j \in (a + 1)..(p - 1) : j <= Len(s) => ~(s[j] = s[a] /\ ~Hidden(s, j))

ScannedTo(s, mode, p, n) ==
  \/ mode = "code" /\ p = CodeAfter(s, n) /\ p <= Len(s) + 1
  \/ mode # "code" /\ InRegion(s, mode, p, CodeAfter(s, n))

LEMMA CodeOn ==
  ASSUME NEW s \in Seq(Chars), NEW n \in Nat, NEW p \in Nat, p <= Len(s), ScannedTo(s, "code", p, n), NEW form
  PROVE  /\ p < Len(s) /\ s[p] = "slash" /\ s[p + 1] = "slash" =>
              ScannedTo(s, "line", p + 2, n) /\ Masked(s, form, p) = Blank /\ Masked(s, form, p + 1) = Blank
         /\ p < Len(s) /\ s[p] = "slash" /\ s[p + 1] = "star" =>
              ScannedTo(s, "block", p + 2, n) /\ Masked(s, form, p) = Blank /\ Masked(s, form, p + 1) = Blank
         /\ s[p] \in Quotes => ScannedTo(s, s[p], p + 1, n) /\ Masked(s, form, p) = s[p]
         /\ s[p] \notin Quotes /\ ~(p < Len(s) /\ s[p] = "slash" /\ s[p + 1] \in {"slash", "star"}) =>
              ScannedTo(s, "code", p + 1, n + 1) /\ Masked(s, form, p) = s[p]
<1> DEFINE L == Len(s)
           c == CodeAfter(s, n)
           d == CodeAfter(s, n + 1)
<1>1. L \in Nat /\ p = c /\ p >= 1 /\ p <= L /\ p \in 1..L /\ n + 1 \in Nat
  <2>1. L \in Nat /\ p = c
    BY DEF ScannedTo
  <2>2. c >= 1
    BY CodeGoesOn
  <2> HIDE DEF c, L
  <2> QED BY <2>1, <2>2 DEF L
<1>2. d = IF Opens(s, p) THEN Ends(s, p) + 1 ELSE p + 1
  <2>1. c <= L => d = IF Opens(s, c) THEN Ends(s, c) + 1 ELSE c + 1
    BY CodeGoesOn
  <2> HIDE DEF c, d, L
  <2> QED BY <1>1, <2>1
<1>3. d \in Nat
  BY <1>1, CodeGoesOn
<1>4. Opens(s, p) => Ends(s, p) \in Nat /\ p + 1 <= Ends(s, p)
  BY <1>1, EndsRange
<1>5. p < d
  <2> HIDE DEF d
  <2>1. CASE Opens(s, p)
    <3>1. PICK e \in Nat : e = Ends(s, p) /\ p + 1 <= e
      BY <1>4, <2>1
    <3> QED BY <1>2, <2>1, <3>1
  <2>2. CASE ~Opens(s, p)
    BY <1>2, <2>2
  <2> QED BY <2>1, <2>2
<1>6. /\ ~Opens(s, p) => Masked(s, form, p) = s[p]
      /\ Opens(s, p) /\ s[p] \in Quotes => Masked(s, form, p) = s[p]
      /\ Opens(s, p) /\ s[p] \notin Quotes => Masked(s, form, p) = IF s[p] # "newline" THEN Blank ELSE s[p]
  <2>1. p <= p
    BY <1>1
  <2> HIDE DEF c, L
  <2> QED BY <1>1, <1>5, <2>1, MaskedIs DEF c, L
<1>7. ASSUME p < L, s[p] = "slash", s[p + 1] \in {"slash", "star"}
      PROVE  Opens(s, p) /\ s[p] \notin Quotes /\ Masked(s, form, p) = Blank /\ Masked(s, form, p + 1) = Blank
  <2>1. Opens(s, p) /\ s[p] \notin Quotes
    BY <1>7 DEF Opens, Quotes
  <2>2. p + 1 < d
    <3> HIDE DEF d
    <3>1. PICK e \in Nat : e = Ends(s, p) /\ p + 1 <= e
      BY <1>4, <2>1
    <3> QED BY <1>2, <2>1, <3>1
  <2>3. p + 1 \in Nat /\ p <= p + 1
    BY <1>1
  <2>4. Masked(s, form, p + 1) = IF s[p + 1] # "newline" THEN Blank ELSE s[p + 1]
    <3> HIDE DEF c, L
    <3> QED BY <1>1, <2>1, <2>2, <2>3, MaskedIs DEF c, L
  <2> QED BY <1>6, <1>7, <2>1, <2>4
<1>8. CASE p < L /\ s[p] = "slash" /\ s[p + 1] = "slash"
  <2>1. \A j \in (p + 2)..((p + 2) - 1) : s[j] # "newline"
    BY <1>1
  <2>2. p + 2 <= p + 2 /\ p + 2 <= L + 1
    BY <1>1, <1>8
  <2>3. InRegion(s, "line", p + 2, p)
    BY <1>1, <1>7, <1>8, <2>1, <2>2 DEF InRegion
  <2> QED BY <1>1, <1>7, <1>8, <2>3 DEF ScannedTo, Quotes
<1>9. CASE p < L /\ s[p] = "slash" /\ s[p + 1] = "star"
  <2>1. \A j \in (p + 3)..(p + 2) : j <= L => ~(s[j - 1] = "star" /\ s[j] = "slash")
    BY <1>1
  <2>2. p + 2 <= p + 2 /\ p + 2 <= L + 1
    BY <1>1, <1>9
  <2>3. InRegion(s, "block", p + 2, p)
    BY <1>1, <1>7, <1>9, <2>1, <2>2 DEF InRegion
  <2> QED BY <1>1, <1>7, <1>9, <2>3 DEF ScannedTo, Quotes
<1>10. CASE s[p] \in Quotes
  <2>1. Opens(s, p) /\ s[p] # "escape" /\ s[p] # "code" /\ s[p] # "slash"
    BY <1>10 DEF Opens, Quotes
  <2>2. Unhidden(s, p + 1)
    BY <1>1, <2>1, UnhiddenIs
  <2>3. p + 1 <= p + 1 /\ \A j \in (p + 1)..((p + 1) - 1) : j <= L => ~(s[j] = s[p] /\ ~Hidden(s, j))
    BY <1>1
  <2>4. InRegion(s, s[p], p + 1, p)
    BY <1>1, <1>10, <2>1, <2>2, <2>3 DEF InRegion
  <2> QED BY <1>1, <1>6, <1>10, <2>1, <2>4 DEF ScannedTo
<1>11. CASE s[p] \notin Quotes /\ ~(p < L /\ s[p] = "slash" /\ s[p + 1] \in {"slash", "star"})
  <2>1. ~Opens(s, p)
    BY <1>11 DEF Opens
  <2>2. d = p + 1 /\ p + 1 <= L + 1
    BY <1>1, <1>2, <2>1
  <2> QED BY <1>6, <1>11, <2>1, <2>2 DEF ScannedTo
<1> HIDE DEF c, d
<1>12. s[p] \in Quotes => s[p] # "slash"
  BY DEF Quotes
<1> QED BY <1>8, <1>9, <1>10, <1>11, <1>12

LEMMA LineOn ==
  ASSUME NEW s \in Seq(Chars), NEW n \in Nat, NEW p \in Nat, p <= Len(s), ScannedTo(s, "line", p, n), NEW form
  PROVE  /\ s[p] = "newline" => ScannedTo(s, "code", p + 1, n + 2) /\ Masked(s, form, p) = s[p]
         /\ s[p] # "newline" => ScannedTo(s, "line", p + 1, n) /\ Masked(s, form, p) = Blank
<1> DEFINE L == Len(s)
           a == CodeAfter(s, n)
           d == CodeAfter(s, n + 1)
<1>1. /\ L \in Nat /\ a \in Nat /\ a >= 1 /\ d \in Nat /\ n + 1 \in Nat /\ (n + 1) + 1 = n + 2
      /\ a <= L => d = IF Opens(s, a) THEN Ends(s, a) + 1 ELSE a + 1
  <2>1. L \in Nat /\ n + 1 \in Nat /\ (n + 1) + 1 = n + 2
    OBVIOUS
  <2>2. a \in Nat /\ a >= 1
    BY CodeGoesOn
  <2>3. d \in Nat
    BY <2>1, CodeGoesOn
  <2>4. a <= L => d = IF Opens(s, a) THEN Ends(s, a) + 1 ELSE a + 1
    BY CodeGoesOn
  <2> QED BY <2>1, <2>2, <2>3, <2>4
<1>2. InRegion(s, "line", p, a)
  BY DEF ScannedTo
<1> HIDE DEF a, d
<1>3. /\ a <= L /\ Opens(s, a) /\ s[a] = "slash" /\ s[a + 1] = "slash" /\ a + 2 <= p /\ p <= L + 1
      /\ \A j \in (a + 2)..(p - 1) : s[j] # "newline"
  BY <1>2 DEF InRegion, Quotes
<1>4. /\ Ends(s, a) \in Nat
      /\ s[p] = "newline" => Ends(s, a) = p - 1
      /\ s[p] # "newline" => p <= Ends(s, a)
  BY <1>1, <1>3, LineEnds
<1>5. CASE s[p] = "newline"
  <2>1. d = p
    BY <1>1, <1>3, <1>4, <1>5
  <2>2. ScannedTo(s, "code", p, n + 1)
    BY <1>3, <2>1 DEF ScannedTo, d
  <2>3. s[p] \notin Quotes /\ s[p] # "slash"
    BY <1>5 DEF Quotes
  <2>4. ScannedTo(s, "code", p + 1, (n + 1) + 1) /\ Masked(s, form, p) = s[p]
    BY <1>1, <2>2, <2>3, CodeOn
  <2> QED BY <1>1, <1>5, <2>4
<1>6. CASE s[p] # "newline"
  <2>1. p < d /\ a <= p
    <3>1. PICK e \in Nat : e = Ends(s, a) /\ p <= e
      BY <1>4, <1>6
    <3>2. d = e + 1
      BY <1>1, <1>3, <3>1
    <3> QED BY <1>1, <1>3, <3>1, <3>2
  <2>2. s[a] \notin Quotes
    BY <1>3 DEF Quotes
  <2>3. Masked(s, form, p) = Blank
    BY <1>3, <1>6, <2>1, <2>2, MaskedIs DEF a, d
  <2>4. \A j \in (a + 2)..((p + 1) - 1) : j \in (a + 2)..(p - 1) \/ j = p
    BY <1>1
  <2>5. \A j \in (a + 2)..((p + 1) - 1) : s[j] # "newline"
    BY <1>3, <1>6, <2>4
  <2>6. a + 2 <= p + 1 /\ p + 1 <= L + 1
    BY <1>1, <1>3
  <2>7. InRegion(s, "line", p + 1, a)
    BY <1>3, <2>5, <2>6 DEF InRegion
  <2> QED BY <1>6, <2>3, <2>7 DEF ScannedTo, a
<1> QED BY <1>5, <1>6

LEMMA BlockOn ==
  ASSUME NEW s \in Seq(Chars), NEW n \in Nat, NEW p \in Nat, p <= Len(s), ScannedTo(s, "block", p, n), NEW form
  PROVE  /\ p < Len(s) /\ s[p] = "star" /\ s[p + 1] = "slash" =>
              ScannedTo(s, "code", p + 2, n + 1) /\ Masked(s, form, p) = Blank /\ Masked(s, form, p + 1) = Blank
         /\ ~(p < Len(s) /\ s[p] = "star" /\ s[p + 1] = "slash") =>
              ScannedTo(s, "block", p + 1, n) /\ Masked(s, form, p) = IF s[p] = "newline" THEN s[p] ELSE Blank
<1> DEFINE L == Len(s)
           a == CodeAfter(s, n)
           d == CodeAfter(s, n + 1)
<1>1. /\ L \in Nat /\ a \in Nat /\ a >= 1 /\ d \in Nat /\ n + 1 \in Nat
      /\ a <= L => d = IF Opens(s, a) THEN Ends(s, a) + 1 ELSE a + 1
  <2>1. L \in Nat /\ n + 1 \in Nat
    OBVIOUS
  <2>2. a \in Nat /\ a >= 1 /\ (a <= L => d = IF Opens(s, a) THEN Ends(s, a) + 1 ELSE a + 1)
    BY CodeGoesOn
  <2>3. d \in Nat
    BY <2>1, CodeGoesOn
  <2> QED BY <2>1, <2>2, <2>3
<1>2. InRegion(s, "block", p, a)
  BY DEF ScannedTo
<1> HIDE DEF a, d
<1>3. /\ a <= L /\ Opens(s, a) /\ s[a] = "slash" /\ s[a + 1] = "star" /\ a + 2 <= p /\ p <= L + 1
      /\ \A j \in (a + 3)..p : j <= L => ~(s[j - 1] = "star" /\ s[j] = "slash")
  BY <1>2 DEF InRegion, Quotes
<1>4. \A j \in (a + 3)..p : ~(s[j - 1] = "star" /\ s[j] = "slash")
  BY <1>1, <1>3
<1>5. /\ Ends(s, a) \in Nat /\ p + 1 <= Ends(s, a)
      /\ p + 1 <= L /\ s[p] = "star" /\ s[p + 1] = "slash" => Ends(s, a) = p + 1
  BY <1>1, <1>3, <1>4, BlockEnds
<1>6. PICK e \in Nat : e = Ends(s, a) /\ p + 1 <= e /\ d = e + 1
  BY <1>1, <1>3, <1>5
<1>7. s[a] \notin Quotes
  BY <1>3 DEF Quotes
<1>8. \A i \in {p, p + 1} : i \in Nat /\ a <= i /\ i < d
  BY <1>1, <1>3, <1>6
<1>9. \A i \in {p, p + 1} : Masked(s, form, i) = IF s[i] # "newline" THEN Blank ELSE s[i]
  BY <1>3, <1>7, <1>8, MaskedIs DEF a, d
<1>10. CASE p < L /\ s[p] = "star" /\ s[p + 1] = "slash"
  <2>1. d = p + 2 /\ p + 2 <= L + 1
    BY <1>1, <1>5, <1>6, <1>10
  <2>2. ScannedTo(s, "code", p + 2, n + 1)
    BY <2>1 DEF ScannedTo, d
  <2> QED BY <1>9, <1>10, <2>2
<1>11. CASE ~(p < L /\ s[p] = "star" /\ s[p + 1] = "slash")
  <2>1. \A j \in (a + 3)..(p + 1) : j \in (a + 3)..p \/ j = p + 1
    BY <1>1
  <2>2. p + 1 <= L => ~(s[(p + 1) - 1] = "star" /\ s[p + 1] = "slash")
    <3>1. (p + 1) - 1 = p /\ (p + 1 <= L => p < L)
      BY <1>1
    <3> QED BY <1>11, <3>1
  <2>3. \A j \in (a + 3)..(p + 1) : j <= L => ~(s[j - 1] = "star" /\ s[j] = "slash")
    BY <1>3, <2>1, <2>2
  <2>4. a + 2 <= p + 1 /\ p + 1 <= L + 1
    BY <1>1, <1>3
  <2>5. InRegion(s, "block", p + 1, a)
    BY <1>3, <2>3, <2>4 DEF InRegion
  <2>6. ScannedTo(s, "block", p + 1, n)
    BY <2>5 DEF ScannedTo, a
  <2> QED BY <1>9, <1>11, <2>6
<1> QED BY <1>10, <1>11

LEMMA LiteralOn ==
  ASSUME NEW s \in Seq(Chars), NEW n \in Nat, NEW p \in Nat, p <= Len(s), NEW mode \in Quotes, ScannedTo(s, mode, p, n), NEW form
  PROVE  /\ s[p] = "escape" =>
              /\ ScannedTo(s, mode, p + 2, n) /\ Masked(s, form, p) = Blank
              /\ p + 1 <= Len(s) => Masked(s, form, p + 1) = Blank
         /\ s[p] = mode => ScannedTo(s, "code", p + 1, n + 1) /\ Masked(s, form, p) = s[p]
         /\ s[p] \notin {"escape", mode} =>
              ScannedTo(s, mode, p + 1, n) /\ Masked(s, form, p) = IF s[p] = "newline" /\ form # "external" THEN s[p] ELSE Blank
<1> DEFINE L == Len(s)
           a == CodeAfter(s, n)
           d == CodeAfter(s, n + 1)
           Ended(j) == s[j] = s[a] /\ ~Hidden(s, j)
<1>1. /\ L \in Nat /\ a \in Nat /\ a >= 1 /\ d \in Nat /\ n + 1 \in Nat
      /\ a <= L => d = IF Opens(s, a) THEN Ends(s, a) + 1 ELSE a + 1
  <2>1. L \in Nat /\ n + 1 \in Nat
    OBVIOUS
  <2>2. a \in Nat /\ a >= 1
    BY CodeGoesOn
  <2>3. d \in Nat
    BY <2>1, CodeGoesOn
  <2>4. a <= L => d = IF Opens(s, a) THEN Ends(s, a) + 1 ELSE a + 1
    BY CodeGoesOn
  <2> QED BY <2>1, <2>2, <2>3, <2>4
<1>2. InRegion(s, mode, p, a) /\ mode # "code"
  BY DEF ScannedTo, Quotes
<1> HIDE DEF a, d
<1>3. /\ a <= L /\ Opens(s, a) /\ s[a] = mode /\ s[a] \in Quotes /\ a + 1 <= p /\ Unhidden(s, p)
      /\ \A j \in (a + 1)..(p - 1) : j <= L => ~Ended(j)
  BY <1>2 DEF InRegion, Quotes
<1>4. p >= 1 /\ p <= L + 1 /\ \A j \in (a + 1)..(p - 1) : ~Ended(j)
  BY <1>1, <1>3
<1>5. ~Hidden(s, p)
  BY <1>3, <1>4, UnhiddenIs
<1>6. /\ Ends(s, a) \in Nat
      /\ Ended(p) => Ends(s, a) = p
      /\ ~Ended(p) => p + 1 <= Ends(s, a)
  BY <1>1, <1>3, <1>4, LiteralEnds
<1>7. d = Ends(s, a) + 1
  BY <1>1, <1>3
<1>8. CASE s[p] = "escape"
  <2>1. ~Ended(p) /\ Hidden(s, p + 1) /\ Unhidden(s, p + 2)
    BY <1>3, <1>4, <1>8, UnhiddenIs DEF Quotes
  <2>2. \A j \in (a + 1)..((p + 2) - 1) : j \in (a + 1)..(p - 1) \/ j = p \/ j = p + 1
    BY <1>1
  <2>3. \A j \in (a + 1)..((p + 2) - 1) : ~Ended(j)
    BY <1>4, <2>1, <2>2
  <2>4. a + 1 <= p + 2
    BY <1>1, <1>3
  <2>5. InRegion(s, mode, p + 2, a)
    BY <1>3, <2>1, <2>3, <2>4 DEF InRegion
  <2>6. ScannedTo(s, mode, p + 2, n)
    BY <1>2, <2>5 DEF ScannedTo, a
  <2>7. PICK e \in Nat : e = Ends(s, a) /\ p + 1 <= e
    BY <1>6, <2>1
  <2>8. p \notin {a, Ends(s, a)} /\ a <= p /\ p < d
    BY <1>1, <1>3, <1>7, <2>7
  <2>9. Masked(s, form, p) = Blank
    BY <1>3, <1>8, <2>8, MaskedIs DEF a, d
  <2>10. ASSUME p + 1 <= L PROVE Masked(s, form, p + 1) = Blank
    <3>1. p + 1 \in Nat /\ a + 1 <= p + 1 /\ p + 1 <= L + 1 /\ \A j \in (a + 1)..((p + 1) - 1) : ~Ended(j)
      BY <1>1, <1>3, <2>3, <2>10
    <3>2. (p + 1) + 1 <= Ends(s, a)
      BY <1>1, <1>3, <2>1, <2>10, <3>1, LiteralEnds
    <3>3. p + 1 \notin {a, Ends(s, a)} /\ a <= p + 1 /\ p + 1 < d
      BY <1>1, <1>3, <1>7, <2>7, <3>2
    <3> QED BY <1>3, <2>1, <3>1, <3>3, MaskedIs DEF a, d
  <2> QED BY <1>3, <1>8, <2>6, <2>9, <2>10 DEF Quotes
<1>9. CASE s[p] = mode
  <2>1. Ends(s, a) = p /\ d = p + 1
    BY <1>3, <1>5, <1>6, <1>7, <1>9
  <2>2. ScannedTo(s, "code", p + 1, n + 1)
    BY <1>1, <2>1 DEF ScannedTo, d
  <2>3. a <= p /\ p < d /\ p \in {a, Ends(s, a)}
    BY <1>1, <1>3, <2>1
  <2>4. Masked(s, form, p) = s[p]
    BY <1>3, <2>3, MaskedIs DEF a, d
  <2> QED BY <1>9, <2>2, <2>4 DEF Quotes
<1>10. CASE s[p] \notin {"escape", mode}
  <2>1. ~Ended(p) /\ Unhidden(s, p + 1)
    BY <1>3, <1>4, <1>10, UnhiddenIs
  <2>2. \A j \in (a + 1)..((p + 1) - 1) : j \in (a + 1)..(p - 1) \/ j = p
    BY <1>1
  <2>3. \A j \in (a + 1)..((p + 1) - 1) : ~Ended(j)
    BY <1>4, <2>1, <2>2
  <2>4. a + 1 <= p + 1
    BY <1>1, <1>3
  <2>5. InRegion(s, mode, p + 1, a)
    BY <1>3, <2>1, <2>3, <2>4 DEF InRegion
  <2>6. ScannedTo(s, mode, p + 1, n)
    BY <1>2, <2>5 DEF ScannedTo, a
  <2>7. PICK e \in Nat : e = Ends(s, a) /\ p + 1 <= e
    BY <1>6, <2>1
  <2>8. p \notin {a, Ends(s, a)} /\ a <= p /\ p < d
    BY <1>1, <1>3, <1>7, <2>7
  <2>9. Masked(s, form, p) = IF s[p] # "newline" \/ form = "external" \/ Hidden(s, p) THEN Blank ELSE s[p]
    BY <1>3, <2>8, MaskedIs DEF a, d
  <2> QED BY <1>5, <1>10, <2>6, <2>9
<1> QED BY <1>8, <1>9, <1>10

\* What was put out for the positions before p.
PutOut(s, form, out, p) ==
  /\ out \in Seq(Chars \cup {Blank}) /\ Len(out) = p - 1
  /\ \A i \in 1..(p - 1) : i <= Len(s) => out[i] = Masked(s, form, i)

LEMMA PutOne ==
  ASSUME NEW s \in Seq(Chars), NEW form, NEW out, NEW p \in Nat, p >= 1, PutOut(s, form, out, p),
         NEW x \in Chars \cup {Blank}, p <= Len(s) => x = Masked(s, form, p)
  PROVE  PutOut(s, form, out \o <<x>>, p + 1)
<1> DEFINE T == Chars \cup {Blank}
           u == out \o <<x>>
<1>1. out \in Seq(T) /\ Len(out) = p - 1 /\ \A i \in 1..(p - 1) : i <= Len(s) => out[i] = Masked(s, form, i)
  BY DEF PutOut
<1>2. x \in T
  OBVIOUS
<1> HIDE DEF T
<1>3. u = Append(out, x)
  BY <1>1, <1>2, AppendIsConcat
<1> HIDE DEF u
<1>4. u \in Seq(T) /\ Len(u) = Len(out) + 1 /\ u[Len(out) + 1] = x /\ \A i \in 1..Len(out) : u[i] = out[i]
  BY <1>1, <1>2, <1>3, AppendIs
<1>5. Len(u) = (p + 1) - 1 /\ u[p] = x /\ \A i \in 1..(p - 1) : u[i] = out[i]
  BY <1>1, <1>4
<1>6. \A i \in 1..((p + 1) - 1) : i \in 1..(p - 1) \/ i = p
  OBVIOUS
<1>7. \A i \in 1..((p + 1) - 1) : i <= Len(s) => u[i] = Masked(s, form, i)
  BY <1>1, <1>5, <1>6
<1> QED BY <1>4, <1>5, <1>7 DEF PutOut, u, T

LEMMA PutTwo ==
  ASSUME NEW s \in Seq(Chars), NEW form, NEW out, NEW p \in Nat, p >= 1, PutOut(s, form, out, p),
         p <= Len(s) => Masked(s, form, p) = Blank, p + 1 <= Len(s) => Masked(s, form, p + 1) = Blank
  PROVE  PutOut(s, form, out \o Blanks(2), p + 2)
<1> DEFINE T == Chars \cup {Blank}
           u == out \o <<Blank>>
<1>1. PutOut(s, form, u, p + 1)
  BY PutOne
<1>2. PutOut(s, form, u \o <<Blank>>, (p + 1) + 1)
  <2> HIDE DEF u
  <2>1. p + 1 \in Nat /\ p + 1 >= 1
    OBVIOUS
  <2> QED BY <1>1, <2>1, PutOne
<1>3. u \o <<Blank>> = out \o Blanks(2)
  <2>1. out \in Seq(T) /\ <<Blank>> \in Seq(T)
    BY DEF PutOut
  <2>2. (out \o <<Blank>>) \o <<Blank>> = out \o (<<Blank>> \o <<Blank>>)
    <3> HIDE DEF T
    <3> QED BY <2>1, ConcatAssociative
  <2>3. <<Blank>> \o <<Blank>> = Blanks(2)
    BY DEF Blanks
  <2> QED BY <2>2, <2>3
<1>4. (p + 1) + 1 = p + 2
  OBVIOUS
<1> QED BY <1>2, <1>3, <1>4

Forms == {"window", "taint", "external"}

MaskInv ==
  \/ mask = MaskIdle
  \/ /\ mask = [form |-> mask.form, src |-> mask.src, at |-> mask.at, mode |-> mask.mode, out |-> mask.out]
     /\ mask.form \in Forms /\ mask.src \in Seq(Chars) /\ mask.at \in Nat /\ mask.at >= 1
     /\ PutOut(mask.src, mask.form, mask.out, mask.at)
     /\ \E n \in Nat : ScannedTo(mask.src, mask.mode, mask.at, n)

LEMMA MaskStarts ==
  ASSUME NEW s \in Seq(Chars), NEW form
  PROVE  PutOut(s, form, <<>>, 1) /\ ScannedTo(s, "code", 1, 0)
<1>1. CodeAfter(s, 0) = 1 /\ Len(s) \in Nat
  BY CodeGoesOn
<1>2. 1 <= Len(s) + 1
  BY <1>1
<1> QED BY <1>1, <1>2 DEF PutOut, ScannedTo

\* One iteration of a scan, whatever its form.
LEMMA MaskGoesOn ==
  ASSUME MaskInv, NEW form \in Forms, Scanning(form), NEW keepsLines, keepsLines = (form # "external"),
         Code \/ Comment \/ Literal(keepsLines)
  PROVE  MaskInv'
<1> DEFINE s == mask.src
           p == mask.at
           mode == mask.mode
           out == mask.out
           L == Len(s)
           T == Chars \cup {Blank}
<1>1. /\ mask = [form |-> form, src |-> s, at |-> p, mode |-> mode, out |-> out]
      /\ form \in Forms /\ s \in Seq(Chars) /\ p \in Nat /\ p >= 1 /\ PutOut(s, form, out, p) /\ p <= L /\ L \in Nat
  <2>1. mask # MaskIdle
    BY DEF Scanning, MaskIdle, Forms
  <2>2. s \in Seq(Chars) /\ mask.form = form
    BY <2>1 DEF MaskInv, Scanning
  <2>3. L \in Nat
    BY <2>2
  <2> QED BY <2>1, <2>2, <2>3 DEF MaskInv, Scanning
<1>2. PICK n \in Nat : ScannedTo(s, mode, p, n)
  <2>1. mask # MaskIdle
    BY DEF Scanning, MaskIdle, Forms
  <2> QED BY <2>1 DEF MaskInv
<1>3. Here = s[p] /\ s[p] \in Chars /\ p \in 1..L
  BY <1>1 DEF Here
<1>4. (p < L => Next1 = s[p + 1]) /\ (~(p < L) => Next1 = "none")
  BY DEF Next1
<1> HIDE DEF s, p, mode, out, L
<1>5. ASSUME NEW text, NEW k \in Nat, NEW m, Put(text, k, m), PutOut(s, form, out \o text, p + k),
             \E i \in Nat : ScannedTo(s, m, p + k, i)
      PROVE  MaskInv'
  <2> DEFINE o == out \o text
             q == p + k
  <2>1. mask' = [mask EXCEPT !.out = o, !.at = q, !.mode = m]
    BY <1>5 DEF Put, o, q, out, p
  <2>2. q \in Nat /\ q >= 1
    BY <1>1
  <2>3. PutOut(s, form, o, q) /\ \E i \in Nat : ScannedTo(s, m, q, i)
    BY <1>5
  <2> HIDE DEF o, q
  <2>4. mask' = [form |-> form, src |-> s, at |-> q, mode |-> m, out |-> o]
    BY <1>1, <2>1
  <2>5. mask'.form = form /\ mask'.src = s /\ mask'.at = q /\ mask'.mode = m /\ mask'.out = o
    BY <2>4
  <2> QED BY <1>1, <2>2, <2>3, <2>4, <2>5 DEF MaskInv
<1>6. CASE Code
  <2>1. mode = "code" /\ ScannedTo(s, "code", p, n)
    BY <1>2, <1>6 DEF Code, mode
  <2>2. CASE Here = "slash" /\ Next1 = "slash" /\ Put(Blanks(2), 2, "line")
    <3>1. p < L /\ s[p] = "slash" /\ s[p + 1] = "slash"
      BY <1>3, <1>4, <2>2
    <3>2. ScannedTo(s, "line", p + 2, n) /\ Masked(s, form, p) = Blank /\ Masked(s, form, p + 1) = Blank
      BY <1>1, <2>1, <3>1, CodeOn DEF L
    <3>3. PutOut(s, form, out \o Blanks(2), p + 2)
      BY <1>1, <3>2, PutTwo
    <3> QED BY <1>5, <2>2, <3>2, <3>3
  <2>3. CASE Here = "slash" /\ Next1 = "star" /\ Put(Blanks(2), 2, "block")
    <3>1. p < L /\ s[p] = "slash" /\ s[p + 1] = "star"
      BY <1>3, <1>4, <2>3
    <3>2. ScannedTo(s, "block", p + 2, n) /\ Masked(s, form, p) = Blank /\ Masked(s, form, p + 1) = Blank
      BY <1>1, <2>1, <3>1, CodeOn DEF L
    <3>3. PutOut(s, form, out \o Blanks(2), p + 2)
      BY <1>1, <3>2, PutTwo
    <3> QED BY <1>5, <2>3, <3>2, <3>3
  <2>4. CASE Here \in Quotes /\ Put(<<Here>>, 1, Here)
    <3>1. ScannedTo(s, s[p], p + 1, n) /\ Masked(s, form, p) = s[p]
      BY <1>1, <1>3, <2>1, <2>4, CodeOn DEF L
    <3>2. PutOut(s, form, out \o <<s[p]>>, p + 1)
      BY <1>1, <1>3, <3>1, PutOne
    <3> QED BY <1>3, <1>5, <2>4, <3>1, <3>2
  <2>5. CASE Here \notin Quotes /\ ~(Here = "slash" /\ Next1 \in {"slash", "star"}) /\ Put(<<Here>>, 1, "code")
    <3>1. s[p] \notin Quotes /\ ~(p < L /\ s[p] = "slash" /\ s[p + 1] \in {"slash", "star"})
      BY <1>3, <1>4, <2>5
    <3>2. ScannedTo(s, "code", p + 1, n + 1) /\ Masked(s, form, p) = s[p] /\ n + 1 \in Nat
      BY <1>1, <2>1, <3>1, CodeOn DEF L
    <3>3. PutOut(s, form, out \o <<s[p]>>, p + 1)
      BY <1>1, <1>3, <3>2, PutOne
    <3> QED BY <1>3, <1>5, <2>5, <3>2, <3>3
  <2> QED BY <1>6, <2>2, <2>3, <2>4, <2>5 DEF Code
<1>7. CASE Comment
  <2>1. CASE mode = "line" /\ Here = "newline" /\ Put(<<Here>>, 1, "code")
    <3>1. ScannedTo(s, "line", p, n) /\ s[p] = "newline" /\ p <= Len(s) /\ n + 2 \in Nat
      BY <1>1, <1>2, <1>3, <2>1 DEF L
    <3>2. ScannedTo(s, "code", p + 1, n + 2) /\ Masked(s, form, p) = s[p]
      BY <1>1, <3>1, LineOn
    <3>3. PutOut(s, form, out \o <<s[p]>>, p + 1)
      BY <1>1, <1>3, <3>2, PutOne
    <3> QED BY <1>3, <1>5, <2>1, <3>1, <3>2, <3>3
  <2>2. CASE mode = "line" /\ Here # "newline" /\ Put(Blanks(1), 1, "line")
    <3>1. ScannedTo(s, "line", p + 1, n) /\ Masked(s, form, p) = Blank
      BY <1>1, <1>2, <1>3, <2>2, LineOn DEF L
    <3>2. PutOut(s, form, out \o <<Blank>>, p + 1)
      BY <1>1, <3>1, PutOne
    <3>3. Blanks(1) = <<Blank>>
      BY DEF Blanks
    <3> QED BY <1>5, <2>2, <3>1, <3>2, <3>3
  <2>3. CASE mode = "block" /\ Here = "star" /\ Next1 = "slash" /\ Put(Blanks(2), 2, "code")
    <3>1. p < L /\ s[p] = "star" /\ s[p + 1] = "slash"
      BY <1>3, <1>4, <2>3
    <3>2. ScannedTo(s, "block", p, n) /\ p < Len(s) /\ p <= Len(s) /\ n + 1 \in Nat
      BY <1>1, <1>2, <2>3, <3>1 DEF L
    <3>3. ScannedTo(s, "code", p + 2, n + 1) /\ Masked(s, form, p) = Blank /\ Masked(s, form, p + 1) = Blank
      BY <1>1, <3>1, <3>2, BlockOn
    <3>4. PutOut(s, form, out \o Blanks(2), p + 2)
      BY <1>1, <3>1, <3>3, PutTwo
    <3> QED BY <1>5, <2>3, <3>2, <3>3, <3>4
  <2>4. CASE mode = "block" /\ ~(Here = "star" /\ Next1 = "slash") /\ Put(<<IF Here = "newline" THEN Here ELSE Blank>>, 1, "block")
    <3> DEFINE x == IF Here = "newline" THEN Here ELSE Blank
    <3>1. ~(p < L /\ s[p] = "star" /\ s[p + 1] = "slash")
      BY <1>3, <1>4, <2>4
    <3>2. ScannedTo(s, "block", p + 1, n) /\ Masked(s, form, p) = x
      BY <1>1, <1>2, <1>3, <2>4, <3>1, BlockOn DEF L
    <3>3. x \in T
      BY <1>3
    <3> HIDE DEF x
    <3>4. PutOut(s, form, out \o <<x>>, p + 1)
      BY <1>1, <3>2, <3>3, PutOne
    <3>5. Put(<<x>>, 1, "block")
      BY <2>4 DEF x
    <3> QED BY <1>5, <3>2, <3>4, <3>5
  <2> QED BY <1>7, <2>1, <2>2, <2>3, <2>4 DEF Comment, mode
<1>8. CASE Literal(keepsLines)
  <2>0. mode \in Quotes
    BY <1>8 DEF Literal, mode
  <2>1. CASE Here = "escape" /\ Put(Blanks(Escaped(Here)), Escaped(Here), mode)
    <3>1. Escaped(Here) = 2
      BY <2>1 DEF Escaped
    <3>2. ScannedTo(s, mode, p, n) /\ s[p] = "escape" /\ p <= Len(s)
      BY <1>1, <1>2, <1>3, <2>1 DEF L
    <3>3. ScannedTo(s, mode, p + 2, n) /\ Masked(s, form, p) = Blank /\ (p + 1 <= L => Masked(s, form, p + 1) = Blank)
      BY <1>1, <2>0, <3>2, LiteralOn DEF L
    <3>4. PutOut(s, form, out \o Blanks(2), p + 2)
      BY <1>1, <3>3, PutTwo DEF L
    <3> QED BY <1>5, <2>1, <3>1, <3>3, <3>4
  <2>2. CASE Here = mode /\ Put(<<Here>>, 1, "code")
    <3>1. ScannedTo(s, mode, p, n) /\ s[p] = mode /\ p <= Len(s) /\ n + 1 \in Nat
      BY <1>1, <1>2, <1>3, <2>2 DEF L
    <3>2. ScannedTo(s, "code", p + 1, n + 1) /\ Masked(s, form, p) = s[p]
      BY <1>1, <2>0, <3>1, LiteralOn
    <3>3. PutOut(s, form, out \o <<s[p]>>, p + 1)
      BY <1>1, <1>3, <3>2, PutOne
    <3> QED BY <1>3, <1>5, <2>2, <3>1, <3>2, <3>3
  <2>3. CASE Here \notin {"escape", mode} /\ Put(<<IF Here = "newline" /\ keepsLines THEN Here ELSE Blank>>, 1, mode)
    <3> DEFINE x == IF Here = "newline" /\ keepsLines THEN Here ELSE Blank
    <3>1. ScannedTo(s, mode, p + 1, n) /\ Masked(s, form, p) = IF s[p] = "newline" /\ form # "external" THEN s[p] ELSE Blank
      BY <1>1, <1>2, <1>3, <2>0, <2>3, LiteralOn DEF L
    <3>2. Masked(s, form, p) = x
      BY <1>3, <3>1
    <3>3. x \in T
      BY <1>3
    <3> HIDE DEF x
    <3>4. PutOut(s, form, out \o <<x>>, p + 1)
      BY <1>1, <3>2, <3>3, PutOne
    <3>5. Put(<<x>>, 1, mode)
      BY <2>3 DEF x
    <3> QED BY <1>5, <3>1, <3>4, <3>5
  <2> QED BY <1>8, <2>1, <2>2, <2>3 DEF Literal, mode
<1> QED BY <1>6, <1>7, <1>8

LEMMA MaskStep == MaskInv /\ [MaskNext]_mask => MaskInv'
<1> SUFFICES ASSUME MaskInv, [MaskNext]_mask PROVE MaskInv'
  OBVIOUS
<1>1. CASE UNCHANGED mask
  BY <1>1 DEF MaskInv
<1>2. CASE MaskStart
  <2>1. PICK form \in Forms, src \in BoundedSeq(Chars, MaxSource) : mask' = [MaskIdle EXCEPT !.form = form, !.src = src]
    BY <1>2 DEF MaskStart, Forms
  <2>2. src \in Seq(Chars)
    <3>1. PICK m \in 0..MaxSource : src \in [1..m -> Chars]
      BY <2>1 DEF BoundedSeq, SeqOf
    <3>2. m \in Nat
      OBVIOUS
    <3> QED BY <3>1, <3>2, SeqDef
  <2>3. mask' = [form |-> form, src |-> src, at |-> 1, mode |-> "code", out |-> <<>>]
    BY <2>1 DEF MaskIdle
  <2>4. mask'.form = form /\ mask'.src = src /\ mask'.at = 1 /\ mask'.mode = "code" /\ mask'.out = <<>>
    BY <2>3
  <2>5. PutOut(src, form, <<>>, 1) /\ ScannedTo(src, "code", 1, 0)
    BY <2>2, MaskStarts
  <2> QED BY <2>2, <2>3, <2>4, <2>5 DEF MaskInv
<1>3. CASE WindowMask
  BY <1>3, MaskGoesOn DEF WindowMask, Forms
<1>4. CASE TaintMask
  BY <1>4, MaskGoesOn DEF TaintMask, Forms
<1>5. CASE ExternalMask
  BY <1>5, MaskGoesOn DEF ExternalMask, Forms
<1> QED BY <1>1, <1>2, <1>3, <1>4, <1>5 DEF MaskNext

\* A scan past the end of its file is past an unclosed literal, or has put out as many characters.
LEMMA MaskHolds == MaskInv => MaskingExact
<1> SUFFICES ASSUME MaskInv, mask.at > Len(mask.src), ~Unclosed(mask.src)
             PROVE  mask.out = [i \in DOMAIN mask.src |-> Masked(mask.src, mask.form, i)]
  BY DEF MaskingExact
<1> DEFINE s == mask.src
           p == mask.at
           mode == mask.mode
           out == mask.out
           L == Len(s)
<1>1. CASE mask = MaskIdle
  <2>1. mask.src = <<>> /\ mask.out = <<>>
    BY <1>1 DEF MaskIdle
  <2> QED BY <2>1
<1>2. CASE mask # MaskIdle
  <2>1. s \in Seq(Chars) /\ p \in Nat /\ PutOut(s, mask.form, out, p) /\ p > L
    BY <1>2 DEF MaskInv
  <2>2. PICK n \in Nat : ScannedTo(s, mode, p, n)
    BY <1>2 DEF MaskInv
  <2>3. L \in Nat /\ DOMAIN s = 1..L
    BY <2>1
  <2> HIDE DEF s, p, mode, out
  <2>4. mode \notin Quotes
    <3>1. SUFFICES ASSUME mode \in Quotes PROVE FALSE
      OBVIOUS
    <3> DEFINE a == CodeAfter(s, n)
               d == CodeAfter(s, n + 1)
    <3>2. InRegion(s, mode, p, a)
      BY <2>2, <3>1 DEF ScannedTo, Quotes
    <3>3. /\ a \in Nat /\ a >= 1 /\ d \in Nat /\ n + 1 \in Nat
          /\ a <= L => d = IF Opens(s, a) THEN Ends(s, a) + 1 ELSE a + 1
      BY <2>1, CodeGoesOn, SMTT(30)
    <3> HIDE DEF a, d
    <3>4. /\ a <= L /\ Opens(s, a) /\ s[a] \in Quotes
          /\ \A j \in (a + 1)..(p - 1) : j <= L => ~(s[j] = s[a] /\ ~Hidden(s, j))
      BY <3>1, <3>2 DEF InRegion, Quotes
    <3>5. L + 1 \in Nat /\ a + 1 <= L + 1 /\ L + 1 <= L + 1 /\ \A j \in (a + 1)..((L + 1) - 1) : j \in (a + 1)..(p - 1) /\ j <= L
      BY <2>1, <2>3, <3>3, <3>4
    <3>6. \A j \in (a + 1)..((L + 1) - 1) : ~(s[j] = s[a] /\ ~Hidden(s, j))
      BY <3>4, <3>5
    <3>7. Ends(s, a) \in Nat /\ L + 1 <= Ends(s, a)
      BY <2>1, <3>3, <3>4, <3>5, <3>6, LiteralEnds
    <3>8. <<a, Ends(s, a)>> \in Regions(s)
      <4>1. a < d
        BY <3>3, <3>4, <3>5, <3>7
      <4>2. a <= a
        BY <3>3
      <4> QED BY <2>1, <3>3, <3>4, <4>1, <4>2, OneRegion DEF a, d
    <3> DEFINE g == <<a, Ends(s, a)>>
    <3>9. g \in QuotedRegions(s) /\ g[2] > L
      BY <2>3, <3>4, <3>7, <3>8 DEF QuotedRegions
    <3>10. Unclosed(s)
      BY <3>9 DEF Unclosed
    <3> QED BY <3>10 DEF s
  <2>5. p <= L + 1
    BY <2>2, <2>4 DEF ScannedTo, InRegion
  <2>6. p = L + 1
    BY <2>1, <2>3, <2>5
  <2>7. out \in Seq(Chars \cup {Blank}) /\ Len(out) = L /\ \A i \in 1..L : out[i] = Masked(s, mask.form, i)
    BY <2>1, <2>3, <2>6 DEF PutOut
  <2>8. out = [i \in 1..L |-> out[i]]
    BY <2>3, <2>7
  <2>9. out = [i \in 1..L |-> Masked(s, mask.form, i)]
    BY <2>7, <2>8
  <2> QED BY <2>3, <2>9 DEF s, out
<1> QED BY <1>1, <1>2
=============================================================================
