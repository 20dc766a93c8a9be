---------------------------- MODULE TotalsProofs ----------------------------
(***************************************************************************)
(* The laws of Total: what a sum becomes when one entry is added, changed  *)
(* or removed.  They hold because the units of different entries are       *)
(* disjoint, and need no induction over the domain.  At the end, the ends  *)
(* of a finite set of natural numbers.                                     *)
(***************************************************************************)
EXTENDS Totals, FiniteSetTheorems, TLAPS

Slice(x, n) == {x} \X (1 .. n)

\* Finitely many units make up one entry.
LEMMA SliceFinite ==
  ASSUME NEW x, NEW n \in Nat
  PROVE  IsFiniteSet(Slice(x, n)) /\ Cardinality(Slice(x, n)) = n
<1>1. IsFiniteSet({x}) /\ Cardinality({x}) = 1
  BY FS_Singleton
<1>2. IsFiniteSet(1 .. n) /\ Cardinality(1 .. n) = n
  BY FS_Interval
<1>3. /\ IsFiniteSet({x} \X (1 .. n))
      /\ Cardinality({x} \X (1 .. n)) = Cardinality({x}) * Cardinality(1 .. n)
  BY <1>1, <1>2, FS_Product
<1> QED BY <1>1, <1>2, <1>3 DEF Slice

\* Finitely many units make up a whole function.
LEMMA UnitsFinite ==
  ASSUME NEW D, IsFiniteSet(D), NEW f \in [D -> Nat]
  PROVE  IsFiniteSet(Units(f))
<1> DEFINE slices == {Slice(x, f[x]) : x \in D}
           g == [x \in D |-> Slice(x, f[x])]
<1>1. g \in Surjection(D, slices)
  BY Zenon DEF Surjection
<1>2. IsFiniteSet(slices)
  BY <1>1, FS_Surjection
<1>3. \A T \in slices : IsFiniteSet(T)
  BY SliceFinite
<1>4. IsFiniteSet(UNION slices)
  BY <1>2, <1>3, FS_UNION
<1>5. Units(f) = UNION slices
  BY DEF Units, Slice
<1> QED BY <1>4, <1>5

\* A total is an amount.
LEMMA TotalType ==
  ASSUME NEW D, IsFiniteSet(D), NEW f \in [D -> Nat]
  PROVE  Total(f) \in Nat
BY UnitsFinite, FS_CardinalityType DEF Total

\* The total of nothing.
LEMMA TotalEmpty == Total(Empty) = 0
<1>1. Units(Empty) = {}
  BY DEF Units, Empty
<1> QED BY <1>1, FS_EmptySet DEF Total

\* One entry's share of the sum and the rest of it.
LEMMA TotalSplit ==
  ASSUME NEW D, IsFiniteSet(D), NEW f \in [D -> Nat], NEW k \in D
  PROVE  /\ Total(f) = f[k] + Total([x \in D \ {k} |-> f[x]])
         /\ Total([x \in D \ {k} |-> f[x]]) \in Nat
<1> DEFINE rest == [x \in D \ {k} |-> f[x]]
           mine == Slice(k, f[k])
<1>1. rest \in [D \ {k} -> Nat] /\ IsFiniteSet(D \ {k})
  BY FS_RemoveElement
<1>2. IsFiniteSet(Units(rest)) /\ Cardinality(Units(rest)) \in Nat
  BY <1>1, UnitsFinite, FS_CardinalityType
<1>3. IsFiniteSet(mine) /\ Cardinality(mine) = f[k]
  BY SliceFinite
<1>4. Units(f) = mine \cup Units(rest)
  BY DEF Units, Slice
<1>5. mine \cap Units(rest) = {}
  BY DEF Units, Slice
<1>6. f[k] \in Nat
  OBVIOUS
<1> HIDE DEF mine, rest
<1>7. Cardinality(mine \cup Units(rest))
        = Cardinality(mine) + Cardinality(Units(rest)) - Cardinality(mine \cap Units(rest))
  BY <1>2, <1>3, FS_Union
<1>8. Cardinality(Units(f)) = f[k] + Cardinality(Units(rest))
  <2>1. Cardinality(mine \cap Units(rest)) = 0
    BY <1>5, FS_EmptySet
  <2>2. Cardinality(mine \cup Units(rest)) = f[k] + Cardinality(Units(rest))
    BY <1>2, <1>3, <1>6, <1>7, <2>1
  <2> QED BY <1>4, <2>2
<1> QED BY <1>2, <1>8 DEF Total, rest

\* No entry exceeds the sum.
LEMMA TotalBoundsEntry ==
  ASSUME NEW D, IsFiniteSet(D), NEW f \in [D -> Nat], NEW k \in D
  PROVE  f[k] <= Total(f)
<1>1. /\ Total(f) = f[k] + Total([x \in D \ {k} |-> f[x]])
      /\ Total([x \in D \ {k} |-> f[x]]) \in Nat
  BY TotalSplit
<1>2. f[k] \in Nat
  OBVIOUS
<1> QED BY <1>1, <1>2

\* Adding an entry.
LEMMA TotalPut ==
  ASSUME NEW D, IsFiniteSet(D), NEW f \in [D -> Nat], NEW k, k \notin D,
         NEW v \in Nat
  PROVE  Total(Put(f, k, v)) = Total(f) + v
<1> DEFINE g == Put(f, k, v)
<1>1. g \in [D \cup {k} -> Nat] /\ g[k] = v
  BY DEF Put
<1>2. IsFiniteSet(D \cup {k})
  BY FS_AddElement
<1>3. [x \in (D \cup {k}) \ {k} |-> g[x]] = f
  BY DEF Put
<1> HIDE DEF g
<1>4. Total(g) = g[k] + Total(f)
  BY <1>1, <1>2, <1>3, TotalSplit
<1> QED BY <1>1, <1>4, TotalType DEF g

\* Removing an entry.
LEMMA TotalWithout ==
  ASSUME NEW D, IsFiniteSet(D), NEW f \in [D -> Nat], NEW k \in D
  PROVE  Total(Without(f, k)) = Total(f) - f[k]
<1>1. Without(f, k) = [x \in D \ {k} |-> f[x]]
  BY DEF Without
<1>2. /\ Total(f) = f[k] + Total([x \in D \ {k} |-> f[x]])
      /\ Total([x \in D \ {k} |-> f[x]]) \in Nat
  BY TotalSplit
<1>3. f[k] \in Nat
  OBVIOUS
<1> QED BY <1>1, <1>2, <1>3

\* Changing an entry.
LEMMA TotalUpdate ==
  ASSUME NEW D, IsFiniteSet(D), NEW f \in [D -> Nat], NEW k \in D, NEW v \in Nat
  PROVE  Total([f EXCEPT ![k] = v]) = Total(f) - f[k] + v
<1> DEFINE g == [f EXCEPT ![k] = v]
<1>1. g \in [D -> Nat] /\ g[k] = v
  OBVIOUS
<1>2. [x \in D \ {k} |-> g[x]] = [x \in D \ {k} |-> f[x]]
  OBVIOUS
<1> HIDE DEF g
<1>3. Total(g) = v + Total([x \in D \ {k} |-> f[x]])
  BY <1>1, <1>2, TotalSplit
<1> QED BY <1>3, TotalSplit DEF g

\* A sum of zeros.
LEMMA TotalZero ==
  ASSUME NEW D, NEW f \in [D -> {0}]
  PROVE  Total(f) = 0
<1>1. Units(f) = {}
  BY DEF Units
<1> QED BY <1>1, FS_EmptySet DEF Total

\* A part of the entries sums to no more than all of them.
LEMMA TotalOfPart ==
  ASSUME NEW D, IsFiniteSet(D), NEW f \in [D -> Nat], NEW S, S \subseteq D
  PROVE  Total([x \in S |-> f[x]]) <= Total(f)
<1> DEFINE g == [x \in S |-> f[x]]
<1>1. IsFiniteSet(Units(f))
  BY UnitsFinite
<1>2. Units(g) \in SUBSET Units(f)
  BY DEF Units
<1> HIDE DEF g
<1>3. Cardinality(Units(g)) <= Cardinality(Units(f))
  BY <1>1, <1>2, FS_Subset
<1> QED BY <1>3 DEF Total, g

\* ... and leaves room for any entry that is not part of it.
LEMMA TotalOfPartAndEntry ==
  ASSUME NEW D, IsFiniteSet(D), NEW f \in [D -> Nat], NEW S, S \subseteq D,
         NEW k \in D \ S
  PROVE  Total([x \in S |-> f[x]]) + f[k] <= Total(f)
<1> DEFINE rest == [x \in D \ {k} |-> f[x]]
<1>1. rest \in [D \ {k} -> Nat] /\ IsFiniteSet(D \ {k}) /\ S \subseteq D \ {k}
  BY FS_RemoveElement
<1>2. [x \in S |-> rest[x]] = [x \in S |-> f[x]]
  BY <1>1
<1>3. Total(f) = f[k] + Total(rest) /\ Total(rest) \in Nat /\ f[k] \in Nat
  BY TotalSplit
<1> HIDE DEF rest
<1>4. Total([x \in S |-> rest[x]]) <= Total(rest)
  BY <1>1, TotalOfPart
<1>5. IsFiniteSet(S) /\ [x \in S |-> f[x]] \in [S -> Nat]
  BY FS_Subset
<1>6. Total([x \in S |-> f[x]]) \in Nat
  BY <1>5, TotalType
<1> QED BY <1>2, <1>3, <1>4, <1>6

\* A sum of sums.
LEMMA TotalSum ==
  ASSUME NEW D, IsFiniteSet(D), NEW f \in [D -> Nat], NEW g \in [D -> Nat]
  PROVE  Total([x \in D |-> f[x] + g[x]]) = Total(f) + Total(g)
<1> DEFINE h == [x \in D |-> f[x] + g[x]]
           upper == UNION {{x} \X ((f[x] + 1) .. (f[x] + g[x])) : x \in D}
           shift == [u \in Units(g) |-> <<u[1], f[u[1]] + u[2]>>]
<1>1. h \in [D -> Nat]
  OBVIOUS
<1>2. Units(h) = Units(f) \cup upper
  <2>1. \A x \in D : 1 .. h[x] = (1 .. f[x]) \cup ((f[x] + 1) .. (f[x] + g[x]))
    OBVIOUS
  <2>2. \A x \in D : {x} \X (1 .. h[x])
                       = ({x} \X (1 .. f[x])) \cup ({x} \X ((f[x] + 1) .. (f[x] + g[x])))
    BY <2>1
  <2>3. DOMAIN h = D /\ DOMAIN f = D
    OBVIOUS
  <2> HIDE DEF h
  <2> QED BY <2>2, <2>3 DEF Units
<1>3. Units(f) \cap upper = {}
  BY DEF Units
<1>4. shift \in Bijection(Units(g), upper)
  <2>0. \A u \in Units(g) : u[1] \in D /\ u[2] \in 1 .. g[u[1]] /\ u = <<u[1], u[2]>>
    BY DEF Units
  <2>1. shift \in [Units(g) -> upper]
    <3> SUFFICES ASSUME NEW u \in Units(g) PROVE <<u[1], f[u[1]] + u[2]>> \in upper
      OBVIOUS
    <3>1. u[1] \in D /\ u[2] \in 1 .. g[u[1]] /\ f[u[1]] \in Nat /\ g[u[1]] \in Nat
      BY <2>0
    <3>2. f[u[1]] + u[2] \in (f[u[1]] + 1) .. (f[u[1]] + g[u[1]])
      BY <3>1
    <3> QED BY <3>1, <3>2
  <2>2. \A u, v \in Units(g) : shift[u] = shift[v] => u = v
    <3> SUFFICES ASSUME NEW u \in Units(g), NEW v \in Units(g), shift[u] = shift[v] PROVE u = v
      OBVIOUS
    <3>1. u[1] = v[1] /\ f[u[1]] + u[2] = f[v[1]] + v[2]
      OBVIOUS
    <3>2. u[2] \in Int /\ v[2] \in Int /\ f[u[1]] \in Int /\ f[v[1]] \in Int
      BY <2>0
    <3>3. u[2] = v[2]
      BY <3>1, <3>2
    <3> QED BY <2>0, <3>1, <3>3
  <2>3. \A t \in upper : \E u \in Units(g) : shift[u] = t
    <3> SUFFICES ASSUME NEW t \in upper PROVE \E u \in Units(g) : shift[u] = t
      OBVIOUS
    <3>1. PICK x \in D : t \in {x} \X ((f[x] + 1) .. (f[x] + g[x]))
      OBVIOUS
    <3>2. t = <<x, t[2]>> /\ t[2] \in (f[x] + 1) .. (f[x] + g[x])
      BY <3>1
    <3>3. f[x] \in Nat /\ g[x] \in Nat /\ t[2] \in Int
      BY <3>2
    <3>4. t[2] - f[x] \in 1 .. g[x] /\ f[x] + (t[2] - f[x]) = t[2]
      BY <3>2, <3>3
    <3>5. <<x, t[2] - f[x]>> \in Units(g)
      BY <3>4 DEF Units
    <3>6. shift[<<x, t[2] - f[x]>>] = <<x, t[2]>>
      BY <3>4, <3>5
    <3> QED BY <3>2, <3>5, <3>6
  <2> QED BY <2>1, <2>2, <2>3 DEF Bijection, Injection, Surjection, IsInjective
<1>5. /\ IsFiniteSet(Units(f)) /\ IsFiniteSet(Units(g))
      /\ Cardinality(Units(f)) \in Nat /\ Cardinality(Units(g)) \in Nat
  BY UnitsFinite, FS_CardinalityType
<1>6. IsFiniteSet(upper) /\ Cardinality(upper) = Cardinality(Units(g))
  <2>1. ExistsBijection(Units(g), upper)
    BY <1>4 DEF ExistsBijection
  <2> QED BY <1>5, <2>1, FS_Bijection
<1> HIDE DEF h, upper, shift
<1>7. Cardinality(Units(h)) = Cardinality(Units(f)) + Cardinality(Units(g))
  <2>1. Cardinality(Units(f) \cup upper)
          = Cardinality(Units(f)) + Cardinality(upper) - Cardinality(Units(f) \cap upper)
    BY <1>5, <1>6, FS_Union
  <2>2. Cardinality(Units(f) \cap upper) = 0
    BY <1>3, FS_EmptySet
  <2> QED BY <1>2, <1>5, <1>6, <2>1, <2>2
<1> QED BY <1>7 DEF Total, h

\* Taking a part of each entry away.
LEMMA TotalDifference ==
  ASSUME NEW D, IsFiniteSet(D), NEW f \in [D -> Nat], NEW g \in [D -> Nat],
         \A x \in D : g[x] <= f[x]
  PROVE  Total([x \in D |-> f[x] - g[x]]) = Total(f) - Total(g)
<1> DEFINE h == [x \in D |-> f[x] - g[x]]
<1>1. h \in [D -> Nat]
  OBVIOUS
<1>2. [x \in D |-> g[x] + h[x]] = f
  OBVIOUS
<1> HIDE DEF h
<1>3. Total([x \in D |-> g[x] + h[x]]) = Total(g) + Total(h)
  BY <1>1, TotalSum
<1>4. Total(g) \in Nat /\ Total(h) \in Nat
  BY <1>1, TotalType
<1> QED BY <1>2, <1>3, <1>4 DEF h

\* Two functions, one below the other, of the same sum are equal.
LEMMA TotalEqual ==
  ASSUME NEW D, IsFiniteSet(D), NEW f \in [D -> Nat], NEW g \in [D -> Nat],
         \A x \in D : g[x] <= f[x], Total(f) = Total(g), NEW k \in D
  PROVE  g[k] = f[k]
<1> DEFINE h == [x \in D |-> f[x] - g[x]]
<1>1. h \in [D -> Nat] /\ h[k] = f[k] - g[k]
  OBVIOUS
<1>2. Total(h) = Total(f) - Total(g) /\ Total(f) \in Nat
  BY TotalDifference, TotalType
<1> HIDE DEF h
<1>3. h[k] <= Total(h)
  BY <1>1, TotalBoundsEntry
<1>4. h[k] \in Nat /\ f[k] \in Nat /\ g[k] \in Nat
  BY <1>1
<1> QED BY <1>1, <1>2, <1>3, <1>4

\* A finite set of natural numbers has a largest one: counting the elements up
\* to each numbers them without a gap.
LEMMA LargestExists ==
  ASSUME NEW T, IsFiniteSet(T), T \subseteq Nat, T # {}
  PROVE  \E t \in T : \A u \in T : u <= t
<1> DEFINE upTo(t) == {u \in T : u <= t}
           rank == [t \in T |-> Cardinality(upTo(t))]
           N == Cardinality(T)
<1>1. \A t \in T : IsFiniteSet(upTo(t)) /\ Cardinality(upTo(t)) \in Nat
                   /\ Cardinality(upTo(t)) <= N /\ Cardinality(upTo(t)) # 0
                   /\ (Cardinality(upTo(t)) = N => upTo(t) = T)
  <2> TAKE t \in T
  <2>1. upTo(t) \in SUBSET T /\ t \in upTo(t)
    OBVIOUS
  <2>2. IsFiniteSet(upTo(t)) /\ Cardinality(upTo(t)) <= N
        /\ (Cardinality(upTo(t)) = N => upTo(t) = T)
    BY <2>1, FS_Subset, Zenon
  <2>3. Cardinality(upTo(t)) \in Nat /\ Cardinality(upTo(t)) # 0
    BY <2>1, <2>2, FS_CardinalityType, FS_EmptySet, Zenon
  <2> QED BY <2>2, <2>3
<1>2. N \in Nat /\ N # 0
  BY FS_CardinalityType, FS_EmptySet
<1>3. rank \in [T -> 1 .. N]
  <2> HIDE DEF upTo, N
  <2> QED BY <1>1, <1>2
<1>4. \A s, t \in T : s < t => Cardinality(upTo(s)) # Cardinality(upTo(t))
  <2> TAKE s, t \in T
  <2> HAVE s < t
  <2>0. s \in Nat /\ t \in Nat /\ \A u \in T : u \in Nat
    OBVIOUS
  <2>1. upTo(s) \in SUBSET upTo(t) /\ t \in upTo(t) /\ t \notin upTo(s)
    <3>1. \A u \in T : u <= s => u <= t
      BY <2>0
    <3>2. t <= t /\ ~(t <= s)
      BY <2>0
    <3> QED BY <3>1, <3>2, Zenon
  <2>2. upTo(s) # upTo(t)
    BY <2>1
  <2> HIDE DEF upTo
  <2> QED BY <1>1, <2>1, <2>2, FS_Subset, Zenon
<1>5. \A s, t \in T : rank[s] = rank[t] => s = t
  <2> TAKE s, t \in T
  <2>1. s \in Nat /\ t \in Nat
    OBVIOUS
  <2> HIDE DEF upTo
  <2> QED BY <1>4, <2>1
<1>6. rank \in Injection(T, 1 .. N)
  <2> HIDE DEF rank
  <2> QED BY <1>3, <1>5 DEF Injection, IsInjective
<1>7. IsFiniteSet(1 .. N) /\ Cardinality(1 .. N) = N
  <2> HIDE DEF N
  <2> QED BY <1>2, FS_Interval
<1>8. rank \in Surjection(T, 1 .. N)
  <2> HIDE DEF rank
  <2> QED BY <1>6, <1>7, FS_Injection, Zenon
<1>9. PICK t \in T : rank[t] = N
  <2> HIDE DEF N, rank
  <2>1. N \in 1 .. N
    BY <1>2
  <2> QED BY <1>8, <2>1 DEF Surjection
<1> QED BY <1>1, <1>9

\* And so a smallest: mirror it.
LEMMA SmallestExists ==
  ASSUME NEW n \in Nat, NEW T, T \subseteq 1 .. n, T # {}
  PROVE  \E t \in T : \A u \in T : t <= u
<1> DEFINE mirror == {x \in 1 .. n : (n + 1) - x \in T}
<1>1. mirror \in SUBSET (1 .. n) /\ mirror \subseteq Nat
  OBVIOUS
<1>2. IsFiniteSet(1 .. n)
  BY FS_Interval
<1>3. IsFiniteSet(mirror)
  <2> HIDE DEF mirror
  <2> QED BY <1>1, <1>2, FS_Subset
<1>4. \A t \in T : t \in 1 .. n /\ (n + 1) - t \in 1 .. n /\ (n + 1) - ((n + 1) - t) = t
  OBVIOUS
<1>5. \A t \in T : (n + 1) - t \in mirror
  BY <1>4
<1>6. mirror # {}
  BY <1>5
<1>7. PICK x \in mirror : \A y \in mirror : y <= x
  <2> HIDE DEF mirror
  <2> QED BY <1>1, <1>3, <1>6, LargestExists
<1>8. (n + 1) - x \in T /\ x \in 1 .. n
  OBVIOUS
<1>9. \A u \in T : (n + 1) - x <= u
  <2> TAKE u \in T
  <2>1. (n + 1) - u <= x
    BY <1>5, <1>7
  <2> QED BY <1>4, <1>8, <2>1
<1> QED BY <1>8, <1>9

\* What holds of 0 and is passed on from each number to the next holds up to n.
LEMMA CountUp ==
  ASSUME NEW n \in Nat, NEW S, 0 \in S, \A k \in 0 .. n - 1 : k \in S => k + 1 \in S
  PROVE  0 .. n \subseteq S
<1> SUFFICES ASSUME ~(0 .. n \subseteq S) PROVE FALSE
  OBVIOUS
<1> DEFINE T == {k \in 1 .. n : k \notin S}
<1>1. T \subseteq 1 .. n /\ T # {}
  <2>1. PICK k \in 0 .. n : k \notin S
    OBVIOUS
  <2>2. k \in 1 .. n
    BY <2>1
  <2> QED BY <2>1, <2>2
<1>2. PICK t \in T : \A u \in T : t <= u
  <2> HIDE DEF T
  <2> QED BY <1>1, SmallestExists
<1>3. t \in 1 .. n /\ t \notin S
  OBVIOUS
<1>4. t - 1 \in 0 .. n - 1 /\ (t - 1) + 1 = t
  BY <1>3
<1>5. t - 1 \in S
  <2>1. CASE t = 1
    BY <2>1
  <2>2. CASE t # 1
    <3>1. t - 1 \in 1 .. n /\ ~(t <= t - 1)
      BY <1>3, <2>2
    <3>2. t - 1 \notin T
      BY <1>2, <3>1
    <3> QED BY <3>1, <3>2
  <2> QED BY <2>1, <2>2
<1> QED BY <1>3, <1>4, <1>5

\* A multiple of every entry makes the same multiple of the sum.
LEMMA TotalTimes ==
  ASSUME NEW D, IsFiniteSet(D), NEW f \in [D -> Nat], NEW n \in Nat
  PROVE  Total([x \in D |-> n * f[x]]) = n * Total(f)
<1> DEFINE g(k) == [x \in D |-> k * f[x]]
           S == {k \in Nat : Total(g(k)) = k * Total(f)}
<1>1. PICK t \in Nat : t = Total(f)
  BY TotalType
<1>2. \A k \in Nat : g(k) \in [D -> Nat]
  <2> SUFFICES ASSUME NEW k \in Nat, NEW x \in D PROVE k * f[x] \in Nat
    OBVIOUS
  <2>1. f[x] \in Nat
    OBVIOUS
  <2> QED BY <2>1
<1>3. 0 \in S
  <2>1. g(0) \in [D -> {0}]
    <3>1. \A x \in D : 0 * f[x] = 0
      OBVIOUS
    <3> QED BY <3>1
  <2>2. Total(g(0)) = 0
    <3> HIDE DEF g
    <3> QED BY <2>1, TotalZero
  <2> QED BY <1>1, <2>2
<1>4. ASSUME NEW k \in Nat, k \in S PROVE k + 1 \in S
  <2>1. PICK h : h = g(k)
    OBVIOUS
  <2>2. h \in [D -> Nat] /\ Total(h) = k * t
    BY <1>1, <1>2, <1>4, <2>1
  <2>3. Total([x \in D |-> h[x] + f[x]]) = Total(h) + Total(f)
    BY <2>2, TotalSum
  <2>4. g(k + 1) = [x \in D |-> h[x] + f[x]]
    <3>1. \A x \in D : (k + 1) * f[x] = k * f[x] + f[x]
      OBVIOUS
    <3> QED BY <2>1, <3>1
  <2>5. (k + 1) * t = k * t + t
    OBVIOUS
  <2>6. Total(g(k + 1)) = (k + 1) * t
    BY <1>1, <2>2, <2>3, <2>4, <2>5
  <2> HIDE DEF g
  <2> QED BY <1>1, <2>6
<1>5. n \in S
  <2> HIDE DEF S
  <2>1. \A k \in 0 .. n - 1 : k \in S => k + 1 \in S
    BY <1>4
  <2>2. 0 .. n \subseteq S
    BY <1>3, <2>1, CountUp
  <2> QED BY <2>2
<1> QED BY <1>5

\* The sum up to a number is the sum below it and its own entry.
LEMMA TotalPrefix ==
  ASSUME NEW n \in Nat, NEW f, \A k \in 0 .. n : f[k] \in Nat
  PROVE  /\ Total([k \in 0 .. n |-> f[k]]) = Total([k \in 0 .. n - 1 |-> f[k]]) + f[n]
         /\ Total([k \in 0 .. n - 1 |-> f[k]]) \in Nat
<1>1. PICK D : D = 0 .. n
  OBVIOUS
<1>2. PICK g \in [D -> Nat] : g = [k \in D |-> f[k]]
  BY <1>1
<1>3. IsFiniteSet(D) /\ n \in D /\ D \ {n} = 0 .. n - 1
  <2>1. IsFiniteSet(D)
    BY <1>1, FS_Interval
  <2> QED BY <1>1, <2>1
<1>4. /\ Total(g) = g[n] + Total([x \in D \ {n} |-> g[x]])
      /\ Total([x \in D \ {n} |-> g[x]]) \in Nat
  BY <1>3, TotalSplit
<1>5. [x \in D \ {n} |-> g[x]] = [k \in 0 .. n - 1 |-> f[k]]
  BY <1>1, <1>2, <1>3
<1>6. g[n] = f[n]
  BY <1>1, <1>2
<1>7. PICK a \in Nat, b \in Nat : a = g[n] /\ b = Total([x \in D \ {n} |-> g[x]])
  BY <1>2, <1>3, <1>4
<1>8. Total([k \in 0 .. n |-> f[k]]) = b + a
  <2>1. Total(g) = b + a
    BY <1>4, <1>7
  <2> QED BY <1>1, <1>2, <2>1
<1>9. Total([k \in 0 .. n - 1 |-> f[k]]) = b
  BY <1>5, <1>7
<1> QED BY <1>6, <1>7, <1>8, <1>9

\* A sum is no larger than a sum of larger entries.
LEMMA TotalGrows ==
  ASSUME NEW D, IsFiniteSet(D), NEW f \in [D -> Nat], NEW g \in [D -> Nat],
         \A x \in D : g[x] <= f[x]
  PROVE  Total(g) <= Total(f)
<1>1. Total([x \in D |-> f[x] - g[x]]) = Total(f) - Total(g)
  BY TotalDifference
<1>2. PICK h : h = [x \in D |-> f[x] - g[x]]
  OBVIOUS
<1>3. h \in [D -> Nat]
  <2> SUFFICES ASSUME NEW x \in D PROVE h[x] \in Nat
    BY <1>2
  <2>1. f[x] \in Nat /\ g[x] \in Nat /\ g[x] <= f[x] /\ h[x] = f[x] - g[x]
    BY <1>2
  <2> QED BY <2>1
<1>4. Total(h) \in Nat /\ Total(f) \in Nat /\ Total(g) \in Nat
  BY <1>3, TotalType
<1> QED BY <1>1, <1>2, <1>4

=============================================================================
