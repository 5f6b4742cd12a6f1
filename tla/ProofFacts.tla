----------------------------- MODULE ProofFacts -----------------------------
(***************************************************************************)
(* Facts about numbers, sets and sequences that the proofs of several      *)
(* components need and the library does not state.                         *)
(***************************************************************************)
EXTENDS Integers, SequencesExt, FiniteSetTheorems, FunctionTheorems, SequenceTheorems,
        WellFoundedInduction, TLAPS

\* The least-number principle, for a set: what stands for induction here.
Less == {p \in Nat \X Nat : p[1] < p[2]}

LEMMA LeastNumber ==
  ASSUME NEW T \in SUBSET Nat, T # {}
  PROVE  \E x \in T : \A y \in T : x <= y
<1>1. OpToRel(<, Nat) = Less
  BY Zenon DEF OpToRel, Less
<1>2. IsWellFoundedOn(Less, Nat)
  BY <1>1, NatLessThanWellFounded, Zenon
<1>3. PICK x \in T : \A y \in T : ~ (<<y, x>> \in Less)
  BY <1>2, WFMin, Zenon
<1>4. ASSUME NEW y \in T
      PROVE  x <= y
  <2>1. x \in Nat /\ y \in Nat /\ <<y, x>> \in Nat \X Nat
    OBVIOUS
  <2>2. ~ (y < x)
    BY <1>3, <2>1 DEF Less
  <2> QED
    BY <2>1, <2>2
<1> QED
  BY <1>4

LEMMA FunctionIsSeq ==
  ASSUME NEW S, NEW n \in Nat, NEW f \in [1 .. n -> S]
  PROVE  f \in Seq(S)
<1>1. f \in UNION {[1 .. m -> S] : m \in Nat}
  OBVIOUS
<1> QED
  BY <1>1, SeqDef, Zenon

\* A set without two different members has at most one.
LEMMA AtMostOne ==
  ASSUME NEW S, \A x, y \in S : x = y
  PROVE  IsFiniteSet(S) /\ Cardinality(S) <= 1
<1>1. CASE S = {}
  BY <1>1, FS_EmptySet
<1>2. CASE S # {}
  <2>1. PICK x \in S : S = {x}
    BY <1>2
  <2>2. IsFiniteSet({x}) /\ Cardinality({x}) = 1
    BY FS_Singleton
  <2>3. QED
    BY <2>1, <2>2
<1>3. QED
  BY <1>1, <1>2

\* SetToSeq lists every member of a finite set once.
LEMMA SetToSeqLists ==
  ASSUME NEW S, IsFiniteSet(S)
  PROVE  /\ SetToSeq(S) \in Seq(S)
         /\ SetToSeq(S) \in [1 .. Cardinality(S) -> S]
         /\ \A i, j \in DOMAIN SetToSeq(S) : SetToSeq(S)[i] = SetToSeq(S)[j] => i = j
<1> DEFINE n == Cardinality(S)
<1>1. n \in Nat
  BY FS_CardinalityType
<1>2. IsFiniteSet(1 .. n) /\ Cardinality(1 .. n) = n
  BY <1>1, FS_Interval
<1>3. ExistsBijection(1 .. n, S)
  BY <1>2, FS_SameCardinalityBij
<1>4. PICK g : g \in Bijection(1 .. n, S)
  BY <1>3 DEF ExistsBijection
<1>5. g \in [1 .. n -> S] /\ IsInjective(g)
  <2>1. g \in [1 .. n -> S] /\ \A a, b \in 1 .. n : g[a] = g[b] => a = b
    BY <1>4, Fun_BijectionProperties
  <2>2. DOMAIN g = 1 .. n
    BY <2>1
  <2>3. QED
    BY <2>1, <2>2 DEF IsInjective
<1>6. SetToSeq(S) \in [1 .. n -> S] /\ IsInjective(SetToSeq(S))
  BY <1>5 DEF SetToSeq
<1>7. SetToSeq(S) \in Seq(S)
  BY <1>1, <1>6, FunctionIsSeq
<1>8. QED
  BY <1>6, <1>7 DEF IsInjective

\* A finite set that is strictly and totally ordered can be listed in order:
\* the rank of a member is the number of those before it.
StrictlyOrders(R, S) ==
    /\ \A x \in S : <<x, x>> \notin R
    /\ \A x, y \in S : x # y => <<x, y>> \in R \/ <<y, x>> \in R
    /\ \A x, y, z \in S : <<x, y>> \in R /\ <<y, z>> \in R => <<x, z>> \in R
Lower(R, S, x) == {y \in S : <<y, x>> \in R}

LEMMA RankGrows ==
  ASSUME NEW S, IsFiniteSet(S), NEW R, StrictlyOrders(R, S),
         NEW x \in S, NEW y \in S, <<x, y>> \in R
  PROVE  Cardinality(Lower(R, S, x)) < Cardinality(Lower(R, S, y))
<1>1. IsFiniteSet(Lower(R, S, x)) /\ IsFiniteSet(Lower(R, S, y))
  BY FS_Subset DEF Lower
<1>2. /\ Cardinality(Lower(R, S, x)) \in Nat
      /\ Cardinality(Lower(R, S, y)) \in Nat
  BY <1>1, FS_CardinalityType
<1>3. Lower(R, S, x) \subseteq Lower(R, S, y)
  BY DEF StrictlyOrders, Lower
<1>4. x \in Lower(R, S, y) /\ x \notin Lower(R, S, x)
  BY DEF StrictlyOrders, Lower
<1>5. /\ Cardinality(Lower(R, S, x)) <= Cardinality(Lower(R, S, y))
      /\ Cardinality(Lower(R, S, x)) # Cardinality(Lower(R, S, y))
  BY <1>1, <1>3, <1>4, FS_Subset
<1> QED
  BY <1>2, <1>5

LEMMA RankIsTaken ==
  ASSUME NEW S, IsFiniteSet(S), NEW R, StrictlyOrders(R, S)
  PROVE  \A i \in 1 .. Cardinality(S) : \E x \in S : Cardinality(Lower(R, S, x)) = i - 1
<1> DEFINE n == Cardinality(S)
           rank == [x \in S |-> Cardinality(Lower(R, S, x)) + 1]
<1>1. n \in Nat /\ IsFiniteSet(1 .. n) /\ Cardinality(1 .. n) = n
  BY FS_CardinalityType, FS_Interval
<1>2. ASSUME NEW x \in S
      PROVE  Cardinality(Lower(R, S, x)) \in Nat /\ Cardinality(Lower(R, S, x)) + 1 \in 1 .. n
  <2>1. Lower(R, S, x) \in SUBSET S /\ x \notin Lower(R, S, x)
    BY DEF StrictlyOrders, Lower
  <2>2. /\ IsFiniteSet(Lower(R, S, x))
        /\ Cardinality(Lower(R, S, x)) <= n /\ Cardinality(Lower(R, S, x)) # n
    BY <2>1, FS_Subset
  <2>3. Cardinality(Lower(R, S, x)) \in Nat
    BY <2>2, FS_CardinalityType
  <2> QED
    BY <2>2, <2>3, <1>1
<1>3. \A x, y \in S : rank[x] = rank[y] => x = y
  <2> SUFFICES ASSUME NEW x \in S, NEW y \in S, x # y
               PROVE  rank[x] # rank[y]
    OBVIOUS
  <2>1. rank[x] \in 1 .. n /\ rank[y] \in 1 .. n
    BY <1>2
  <2>2. CASE <<x, y>> \in R
    <3>1. Cardinality(Lower(R, S, x)) < Cardinality(Lower(R, S, y))
      BY <2>2, RankGrows
    <3> QED
      BY <1>1, <1>2, <3>1
  <2>3. CASE <<y, x>> \in R
    <3>1. Cardinality(Lower(R, S, y)) < Cardinality(Lower(R, S, x))
      BY <2>3, RankGrows
    <3> QED
      BY <1>1, <1>2, <3>1
  <2> QED
    BY <2>2, <2>3 DEF StrictlyOrders
<1>4. rank \in Injection(S, 1 .. n)
  BY <1>2, <1>3 DEF Injection, IsInjective
<1>5. rank \in Surjection(S, 1 .. n)
  <2> HIDE DEF rank
  <2> QED
    BY <1>1, <1>4, FS_Injection
<1>6. \A i \in 1 .. n : \E x \in S : rank[x] = i
  BY <1>5 DEF Surjection
<1>7. ASSUME NEW i \in 1 .. n
      PROVE  \E x \in S : Cardinality(Lower(R, S, x)) = i - 1
  <2>1. PICK x \in S : rank[x] = i
    BY <1>6
  <2>2. Cardinality(Lower(R, S, x)) \in Nat
    BY <1>2
  <2> QED
    BY <2>1, <2>2, <1>1
<1> QED
  BY <1>7

LEMMA RanksAreInOrder ==
  ASSUME NEW S, IsFiniteSet(S), NEW R, StrictlyOrders(R, S),
         NEW order \in [1 .. Cardinality(S) -> S],
         \A i \in 1 .. Cardinality(S) : Cardinality(Lower(R, S, order[i])) = i - 1
  PROVE  /\ \A x \in S : \E i \in 1 .. Cardinality(S) : order[i] = x
         /\ \A i, j \in 1 .. Cardinality(S) : i < j => <<order[i], order[j]>> \in R
<1> DEFINE n == Cardinality(S)
<1>1. n \in Nat /\ IsFiniteSet(1 .. n) /\ Cardinality(1 .. n) = n
  BY FS_CardinalityType, FS_Interval
<1>2. \A i, j \in 1 .. n : order[i] = order[j] => i = j
  BY <1>1
<1>3. order \in Surjection(1 .. n, S)
  <2>1. order \in Injection(1 .. n, S)
    BY <1>2 DEF Injection, IsInjective
  <2> QED
    BY <1>1, <2>1, FS_Injection
<1>4. ASSUME NEW i \in 1 .. n, NEW j \in 1 .. n, i < j
      PROVE  <<order[i], order[j]>> \in R
  <2>1. order[i] # order[j] /\ order[i] \in S /\ order[j] \in S
    BY <1>1, <1>2, <1>4
  <2>2. CASE <<order[j], order[i]>> \in R
    <3>1. Cardinality(Lower(R, S, order[j])) < Cardinality(Lower(R, S, order[i]))
      BY <2>1, <2>2, RankGrows
    <3> QED
      BY <1>1, <1>4, <3>1
  <2> QED
    BY <2>1, <2>2 DEF StrictlyOrders
<1> QED
  BY <1>3, <1>4 DEF Surjection

\* A finite set that is strictly ordered has a first member.
IsFirst(R, S, x) == x \in S /\ \A y \in S \ {x} : <<x, y>> \in R

LEMMA FirstIsTaken ==
  ASSUME NEW S, IsFiniteSet(S), S # {}, NEW R, StrictlyOrders(R, S)
  PROVE  \E x : IsFirst(R, S, x)
<1>1. Cardinality(S) \in Nat /\ Cardinality(S) # 0
  BY FS_CardinalityType, FS_EmptySet
<1>2. PICK x \in S : Cardinality(Lower(R, S, x)) = 1 - 1
  BY <1>1, RankIsTaken
<1>3. IsFiniteSet(Lower(R, S, x))
  BY FS_Subset DEF Lower
<1>4. Lower(R, S, x) = {}
  BY <1>2, <1>3, FS_EmptySet
<1> QED
  BY <1>4 DEF StrictlyOrders, Lower, IsFirst

\* A function on Nat that is given by its first value and its steps exists.
LEMMA IterationExists ==
  ASSUME NEW S, NEW base \in S, NEW g \in [S -> S]
  PROVE  \E f \in [Nat -> S] : f = [n \in Nat |-> IF n = 0 THEN base ELSE g[f[n - 1]]]
<1> DEFINE Begins(n, h) == /\ h \in [0 .. n -> S] /\ h[0] = base
                           /\ \A i \in 1 .. n : h[i] = g[h[i - 1]]
           Stuck == {n \in Nat : ~ \E h : Begins(n, h)}
           part(n) == CHOOSE h : Begins(n, h)
           f == [n \in Nat |-> part(n)[n]]
<1>1. Stuck = {}
  <2> SUFFICES ASSUME Stuck # {} PROVE FALSE
    OBVIOUS
  <2>1. PICK x \in Stuck : \A y \in Stuck : x <= y
    BY LeastNumber
  <2>2. CASE x = 0
    <3>1. Begins(0, [i \in 0 .. 0 |-> base])
      OBVIOUS
    <3> QED
      BY <2>1, <2>2, <3>1
  <2>3. CASE x # 0
    <3>1. x \in Nat /\ x - 1 \in Nat /\ x - 1 \notin Stuck
      <4>1. x \in Nat
        BY <2>1
      <4>2. x - 1 \in Nat /\ ~ (x <= x - 1)
        BY <2>3, <4>1
      <4> HIDE DEF Stuck
      <4>3. x - 1 \notin Stuck
        BY <2>1, <4>2, Zenon
      <4> QED
        BY <4>1, <4>2, <4>3
    <3>2. PICK h : Begins(x - 1, h)
      BY <3>1
    <3> DEFINE k == [i \in 0 .. x |-> IF i = x THEN g[h[x - 1]] ELSE h[i]]
    <3>3. /\ \A i \in 0 .. x - 1 : k[i] = h[i] /\ h[i] \in S
          /\ k[x] = g[h[x - 1]] /\ g[h[x - 1]] \in S
      BY <3>1, <3>2
    <3>4. k \in [0 .. x -> S] /\ k[0] = base
      BY <3>1, <3>2, <3>3
    <3>5. \A i \in 1 .. x : k[i] = g[k[i - 1]]
      <4> SUFFICES ASSUME NEW i \in 1 .. x PROVE k[i] = g[k[i - 1]]
        OBVIOUS
      <4>1. i - 1 \in 0 .. x - 1 /\ k[i - 1] = h[i - 1]
        BY <3>1, <3>3
      <4>2. CASE i = x
        BY <3>3, <4>1, <4>2
      <4>3. CASE i # x
        <5>1. i \in 1 .. x - 1 /\ i \in 0 .. x - 1
          BY <3>1, <4>3
        <5> QED
          BY <3>2, <3>3, <4>1, <5>1
      <4> QED
        BY <4>2, <4>3
    <3>6. Begins(x, k)
      BY <3>4, <3>5
    <3> HIDE DEF k
    <3> QED
      BY <2>1, <3>6
  <2> QED
    BY <2>2, <2>3
<1>2. \A n \in Nat : Begins(n, part(n))
  BY <1>1, Zenon
<1>3. ASSUME NEW n \in Nat, NEW m \in Nat, n <= m
      PROVE  \A i \in 0 .. n : part(n)[i] = part(m)[i]
  <2> DEFINE Apart == {i \in 0 .. n : part(n)[i] # part(m)[i]}
  <2> SUFFICES ASSUME Apart # {} PROVE FALSE
    OBVIOUS
  <2>1. Apart \in SUBSET Nat
    OBVIOUS
  <2>2. PICK x \in Apart : \A y \in Apart : x <= y
    BY <2>1, LeastNumber
  <2>3. Begins(n, part(n)) /\ Begins(m, part(m))
    BY <1>2
  <2> HIDE DEF part
  <2>4. x \in 1 .. n /\ x \in 1 .. m /\ x - 1 \in 0 .. n /\ x - 1 \notin Apart
    BY <1>3, <2>2, <2>3
  <2>5. part(n)[x - 1] = part(m)[x - 1]
    BY <2>4
  <2> QED
    BY <2>2, <2>3, <2>4, <2>5
<1>4. f \in [Nat -> S]
  <2>1. \A n \in Nat : part(n)[n] \in S
    <3> HIDE DEF part
    <3> QED
      BY <1>2
  <2> HIDE DEF part
  <2> QED
    BY <2>1
<1>5. ASSUME NEW n \in Nat
      PROVE  f[n] = IF n = 0 THEN base ELSE g[f[n - 1]]
  <2> HIDE DEF part
  <2>1. CASE n = 0
    BY <1>2, <2>1
  <2>2. CASE n # 0
    <3>1. n - 1 \in Nat /\ n - 1 <= n /\ n \in 1 .. n /\ n - 1 \in 0 .. n - 1
      BY <2>2
    <3>2. part(n)[n] = g[part(n)[n - 1]]
      BY <1>2, <3>1
    <3>3. part(n - 1)[n - 1] = part(n)[n - 1]
      BY <1>3, <3>1
    <3> QED
      BY <2>2, <3>1, <3>2, <3>3
  <2> QED
    BY <2>1, <2>2
<1>6. f = [n \in Nat |-> IF n = 0 THEN base ELSE g[f[n - 1]]]
  <2> HIDE DEF f
  <2> QED
    BY <1>4, <1>5
<1> QED
  BY <1>4, <1>6

-----------------------------------------------------------------------------
(* Folds over finite sets.                                                 *)

\* What stands for induction over the subsets of a finite set.
LEMMA SmallestSubset ==
  ASSUME NEW S, IsFiniteSet(S), NEW W \in SUBSET (SUBSET S), W # {}
  PROVE  \E s \in W : \A x \in s : s \ {x} \notin W
<1> DEFINE sizes == {n \in Nat : \E s \in W : Cardinality(s) = n}
<1>1. \A s \in W : IsFiniteSet(s) /\ Cardinality(s) \in Nat
  BY FS_Subset, FS_CardinalityType
<1>2. sizes # {} /\ sizes \in SUBSET Nat
  BY <1>1
<1>3. PICK n \in sizes : \A m \in sizes : n <= m
  BY <1>2, LeastNumber
<1>4. PICK s \in W : Cardinality(s) = n
  BY <1>3
<1>5. ASSUME NEW x \in s, s \ {x} \in W
      PROVE  FALSE
  <2>1. /\ IsFiniteSet(s) /\ Cardinality(s) \in Nat
        /\ Cardinality(s \ {x}) = Cardinality(s) - 1
    BY <1>1, <1>5, FS_RemoveElement
  <2>2. Cardinality(s \ {x}) \in sizes
    BY <1>1, <1>5
  <2>3. n <= Cardinality(s \ {x})
    BY <1>3, <2>2
  <2> QED
    BY <1>4, <2>1, <2>3
<1> QED
  BY <1>4, <1>5

\* The member that the folds of the library take first.
Taken(s) == CHOOSE x \in s : TRUE

LEMMA TakenIsMember == \A s : s # {} => Taken(s) \in s
BY DEF Taken

IsFold(h, S, base, g) ==
    \A s \in SUBSET S :
        h[s] = IF s = {} THEN base ELSE g[<<Taken(s), h[s \ {Taken(s)}]>>]

LEMMA FoldExists ==
  ASSUME NEW S, IsFiniteSet(S), NEW V, NEW base \in V, NEW g \in [S \X V -> V]
  PROVE  \E h \in [SUBSET S -> V] : IsFold(h, S, base, g)
<1> DEFINE F == [SUBSET S -> V]
           G(h) == [s \in SUBSET S |->
                       IF s = {} THEN base ELSE g[<<Taken(s), h[s \ {Taken(s)}]>>]]
           Upto(n, h) == \A s \in SUBSET S : Cardinality(s) <= n => h[s] = G(h)[s]
           Stuck == {n \in Nat : ~ \E h \in F : Upto(n, h)}
<1>1. \A s \in SUBSET S : IsFiniteSet(s) /\ Cardinality(s) \in Nat
  BY FS_Subset, FS_CardinalityType
<1>2. \A s \in SUBSET S : s # {} => Taken(s) \in s /\ Taken(s) \in S /\ s \ {Taken(s)} \in SUBSET S
  BY TakenIsMember
<1>3. \A h \in F : G(h) \in F
  BY <1>2
<1>4. Stuck = {}
  <2> SUFFICES ASSUME Stuck # {} PROVE FALSE
    OBVIOUS
  <2>1. PICK m \in Stuck : \A n \in Stuck : m <= n
    BY LeastNumber
  <2>2. m \in Nat /\ ~ \E h \in F : Upto(m, h)
    BY <2>1
  <2>3. CASE m = 0
    <3> DEFINE h == [s \in SUBSET S |-> base]
    <3>1. h \in F
      OBVIOUS
    <3>2. ASSUME NEW s \in SUBSET S, Cardinality(s) <= 0
          PROVE  h[s] = G(h)[s]
      <4>1. s = {}
        BY <1>1, <3>2, FS_EmptySet
      <4> QED
        BY <4>1
    <3>3. Upto(m, h)
      BY <2>3, <3>2
    <3> HIDE DEF h, Upto
    <3> QED
      BY <2>2, <3>1, <3>3
  <2>4. CASE m # 0
    <3>1. m - 1 \in Nat /\ ~ (m <= m - 1)
      BY <2>2, <2>4
    <3>2. m - 1 \notin Stuck
      BY <2>1, <3>1
    <3>3. PICK h \in F : Upto(m - 1, h)
      BY <3>1, <3>2
    <3>4. ASSUME NEW s \in SUBSET S, Cardinality(s) <= m
          PROVE  G(h)[s] = G(G(h))[s]
      <4>1. CASE s = {}
        BY <4>1
      <4>2. CASE s # {}
        <5> DEFINE r == s \ {Taken(s)}
        <5>1. Taken(s) \in s /\ r \in SUBSET S
          BY <1>2, <4>2
        <5>2. Cardinality(r) = Cardinality(s) - 1 /\ Cardinality(s) \in Nat
          BY <1>1, <5>1, FS_RemoveElement
        <5>3. Cardinality(r) <= m - 1
          BY <2>2, <3>4, <5>2
        <5>4. h[r] = G(h)[r]
          BY <3>3, <5>1, <5>3
        <5>5. G(h)[s] = g[<<Taken(s), h[r]>>]
          BY <4>2
        <5>6. G(G(h))[s] = g[<<Taken(s), G(h)[r]>>]
          <6> HIDE DEF r
          <6>1. \A k : G(k)[s] = g[<<Taken(s), k[s \ {Taken(s)}]>>]
            BY <4>2
          <6> HIDE DEF G
          <6> QED
            BY <6>1 DEF r
        <5> HIDE DEF r, G
        <5> QED
          BY <5>4, <5>5, <5>6
      <4> QED
        BY <4>1, <4>2
    <3>5. Upto(m, G(h))
      BY <3>4
    <3> HIDE DEF G, Upto
    <3> QED
      BY <1>3, <2>2, <3>3, <3>5
  <2> QED
    BY <2>3, <2>4
<1>5. Cardinality(S) \in Nat /\ \A s \in SUBSET S : Cardinality(s) <= Cardinality(S)
  BY FS_Subset, FS_CardinalityType
<1>6. PICK h \in F : Upto(Cardinality(S), h)
  BY <1>4, <1>5
<1>7. \A s \in SUBSET S : h[s] = G(h)[s]
  BY <1>5, <1>6
<1> QED
  BY <1>6, <1>7 DEF IsFold

Positive == Nat \ {0}

\* A sum, over every subset of what is summed up.
SumSteps(h, f, S) ==
    [s \in SUBSET S |-> IF s = {} THEN 0 ELSE f[Taken(s)] + h[s \ {Taken(s)}]]
Sums(f, S) == CHOOSE h : h = SumSteps(h, f, S)

LEMMA SumIsLast == \A f : SumFunction(f) = Sums(f, DOMAIN f)[DOMAIN f]
BY Zenon
   DEF SumFunction, SumFunctionOnSet, FoldFunctionOnSet, MapThenFoldSet, Sums, SumSteps, Taken

AddsUp(H, f, S) ==
    /\ H \in [SUBSET S -> Nat]
    /\ H[{}] = 0
    /\ \A s \in SUBSET S : s # {} =>
          /\ Taken(s) \in s /\ s \ {Taken(s)} \in SUBSET S
          /\ H[s] = f[Taken(s)] + H[s \ {Taken(s)}]

LEMMA SumUnfolds ==
  ASSUME NEW S, IsFiniteSet(S), NEW f \in [S -> Nat]
  PROVE  AddsUp(Sums(f, S), f, S)
<1> DEFINE g == [p \in S \X Nat |-> f[p[1]] + p[2]]
<1>1. g \in [S \X Nat -> Nat]
  OBVIOUS
<1>2. \A i \in S, n \in Nat : g[<<i, n>>] = f[i] + n
  OBVIOUS
<1>3. \A s \in SUBSET S : s # {} => Taken(s) \in s /\ Taken(s) \in S /\ s \ {Taken(s)} \in SUBSET S
  BY TakenIsMember
<1> HIDE DEF g
<1>4. PICK h \in [SUBSET S -> Nat] : IsFold(h, S, 0, g)
  BY <1>1, FoldExists
<1>5. h = SumSteps(h, f, S)
  BY <1>2, <1>3, <1>4 DEF SumSteps, IsFold
<1>6. Sums(f, S) = SumSteps(Sums(f, S), f, S)
  BY <1>5, Zenon DEF Sums
<1> DEFINE H == Sums(f, S)
<1> HIDE DEF H
<1>7. /\ DOMAIN H = SUBSET S /\ H = [s \in SUBSET S |-> H[s]] /\ H[{}] = 0
      /\ \A s \in SUBSET S : s # {} => H[s] = f[Taken(s)] + H[s \ {Taken(s)}]
  <2>1. H = SumSteps(H, f, S)
    BY <1>6 DEF H
  <2> QED
    BY <2>1 DEF SumSteps
<1>8. \A s \in SUBSET S : H[s] \in Nat
  <2> DEFINE Wrong == {s \in SUBSET S : H[s] \notin Nat}
  <2> SUFFICES ASSUME Wrong # {} PROVE FALSE
    OBVIOUS
  <2>1. PICK s \in Wrong : \A x \in s : s \ {x} \notin Wrong
    BY SmallestSubset
  <2>2. s \in SUBSET S /\ H[s] \notin Nat
    BY <2>1
  <2>3. s # {}
    <3>1. H[{}] \in Nat
      BY <1>7
    <3> QED
      BY <2>2, <3>1, Zenon
  <2>4. PICK x \in s : x \in S /\ H[s] = f[x] + H[s \ {x}] /\ s \ {x} \in SUBSET S
    BY <1>3, <1>7, <2>2, <2>3
  <2>5. H[s \ {x}] \in Nat /\ f[x] \in Nat
    BY <2>1, <2>4
  <2> QED
    BY <2>2, <2>4, <2>5
<1> QED
  BY <1>3, <1>7, <1>8 DEF H, AddsUp

LEMMA SumType ==
  ASSUME NEW S, IsFiniteSet(S), NEW f \in [S -> Nat]
  PROVE  SumFunction(f) \in Nat
<1>1. SumFunction(f) = Sums(f, S)[S]
  BY SumIsLast
<1>2. Sums(f, S) \in [SUBSET S -> Nat]
  BY SumUnfolds DEF AddsUp
<1> QED
  BY <1>1, <1>2

\* What is positive and not empty has a positive sum.
LEMMA SumPositive ==
  ASSUME NEW S, IsFiniteSet(S), S # {}, NEW f \in [S -> Nat], \A i \in S : f[i] > 0
  PROVE  SumFunction(f) > 0
<1>1. SumFunction(f) = Sums(f, S)[S]
  BY SumIsLast
<1>2. /\ Taken(S) \in S /\ S \ {Taken(S)} \in SUBSET S
      /\ Sums(f, S)[S] = f[Taken(S)] + Sums(f, S)[S \ {Taken(S)}]
      /\ Sums(f, S) \in [SUBSET S -> Nat]
  <2> DEFINE H == Sums(f, S)
  <2>1. AddsUp(H, f, S)
    BY SumUnfolds
  <2> HIDE DEF H
  <2>2. /\ Taken(S) \in S /\ S \ {Taken(S)} \in SUBSET S
        /\ H[S] = f[Taken(S)] + H[S \ {Taken(S)}]
        /\ H \in [SUBSET S -> Nat]
    BY <2>1 DEF AddsUp
  <2> QED
    BY <2>2 DEF H
<1>3. f[Taken(S)] > 0 /\ f[Taken(S)] \in Nat /\ Sums(f, S)[S \ {Taken(S)}] \in Nat
  BY <1>2
<1> QED
  BY <1>1, <1>2, <1>3

Added(f, g) == [i \in DOMAIN f |-> f[i] + g[i]]

LEMMA SumAdds ==
  ASSUME NEW S, IsFiniteSet(S), NEW f \in [S -> Nat], NEW g \in [S -> Nat]
  PROVE  SumFunction(Added(f, g)) = SumFunction(f) + SumFunction(g)
<1> DEFINE h == Added(f, g)
<1>0. h \in [S -> Nat] /\ \A i \in S : h[i] = f[i] + g[i]
  BY DEF Added
<1> HIDE DEF h
<1> DEFINE A == Sums(f, S)
           B == Sums(g, S)
           C == Sums(h, S)
           Wrong == {s \in SUBSET S : C[s] # A[s] + B[s]}
<1>1. AddsUp(A, f, S) /\ AddsUp(B, g, S) /\ AddsUp(C, h, S)
  BY <1>0, SumUnfolds
<1>2. SumFunction(f) = A[S] /\ SumFunction(g) = B[S] /\ SumFunction(h) = C[S]
  BY <1>0, SumIsLast
<1> HIDE DEF A, B, C
<1>3. ASSUME Wrong # {}
      PROVE  FALSE
  <2>1. PICK s \in Wrong : \A x \in s : s \ {x} \notin Wrong
    BY <1>3, SmallestSubset
  <2>2. s \in SUBSET S /\ C[s] # A[s] + B[s]
    BY <2>1
  <2>3. s # {}
    <3>1. C[{}] = A[{}] + B[{}]
      BY <1>1 DEF AddsUp
    <3> QED
      BY <2>2, <3>1, Zenon
  <2>4. PICK x \in s : /\ s \ {x} \in SUBSET S
                       /\ A[s] = f[x] + A[s \ {x}]
                       /\ B[s] = g[x] + B[s \ {x}]
                       /\ C[s] = h[x] + C[s \ {x}]
    BY <1>1, <2>2, <2>3 DEF AddsUp
  <2>5. C[s \ {x}] = A[s \ {x}] + B[s \ {x}] /\ h[x] = f[x] + g[x]
    BY <1>0, <2>1, <2>2, <2>4
  <2>6. /\ A[s \ {x}] \in Nat /\ B[s \ {x}] \in Nat /\ C[s \ {x}] \in Nat
        /\ f[x] \in Nat /\ g[x] \in Nat /\ h[x] \in Nat
    BY <1>0, <1>1, <2>2, <2>4 DEF AddsUp
  <2> QED
    BY <2>2, <2>4, <2>5, <2>6
<1> QED
  BY <1>2, <1>3 DEF h

Scaled(f, a) == [i \in DOMAIN f |-> f[i] * a]

LEMMA SumScales ==
  ASSUME NEW S, IsFiniteSet(S), NEW a \in Nat, NEW f \in [S -> Nat]
  PROVE  SumFunction(Scaled(f, a)) = SumFunction(f) * a
<1> DEFINE h == Scaled(f, a)
<1>0. h \in [S -> Nat] /\ \A i \in S : h[i] = f[i] * a
  BY DEF Scaled
<1> HIDE DEF h
<1> DEFINE A == Sums(f, S)
           C == Sums(h, S)
           Wrong == {s \in SUBSET S : C[s] # A[s] * a}
<1>1. AddsUp(A, f, S) /\ AddsUp(C, h, S)
  BY <1>0, SumUnfolds
<1>2. SumFunction(f) = A[S] /\ SumFunction(h) = C[S]
  BY <1>0, SumIsLast
<1> HIDE DEF A, C
<1>3. ASSUME Wrong # {}
      PROVE  FALSE
  <2>1. PICK s \in Wrong : \A x \in s : s \ {x} \notin Wrong
    BY <1>3, SmallestSubset
  <2>2. s \in SUBSET S /\ C[s] # A[s] * a
    BY <2>1
  <2>3. s # {}
    <3>1. C[{}] = A[{}] * a
      BY <1>1 DEF AddsUp
    <3> QED
      BY <2>2, <3>1, Zenon
  <2>4. PICK x \in s : /\ s \ {x} \in SUBSET S
                       /\ A[s] = f[x] + A[s \ {x}]
                       /\ C[s] = h[x] + C[s \ {x}]
    BY <1>1, <2>2, <2>3 DEF AddsUp
  <2>5. C[s \ {x}] = A[s \ {x}] * a /\ h[x] = f[x] * a
    BY <1>0, <2>1, <2>2, <2>4
  <2>6. A[s \ {x}] \in Nat /\ f[x] \in Nat
    BY <1>1, <2>2, <2>4 DEF AddsUp
  <2>7. (f[x] + A[s \ {x}]) * a = f[x] * a + A[s \ {x}] * a
    BY <2>6
  <2> QED
    BY <2>2, <2>4, <2>5, <2>7
<1> QED
  BY <1>2, <1>3 DEF h

LEMMA SumGrows ==
  ASSUME NEW S, IsFiniteSet(S), NEW f \in [S -> Nat], NEW h \in [S -> Nat],
         \A i \in S : f[i] <= h[i]
  PROVE  SumFunction(f) <= SumFunction(h)
<1> DEFINE g == [i \in S |-> h[i] - f[i]]
<1>1. g \in [S -> Nat] /\ h = Added(f, g)
  BY DEF Added
<1> HIDE DEF g
<1>2. SumFunction(h) = SumFunction(f) + SumFunction(g)
  BY <1>1, SumAdds
<1>3. SumFunction(f) \in Nat /\ SumFunction(g) \in Nat
  BY <1>1, SumType
<1> QED
  BY <1>2, <1>3

LEMMA OneToN == \A n \in Nat : IsFiniteSet(1 .. n) /\ Cardinality(1 .. n) = n
<1> TAKE n \in Nat
<1>1. IsFiniteSet(1 .. n) /\ Cardinality(1 .. n) = IF 1 > n THEN 0 ELSE (n - 1) + 1
  BY FS_Interval
<1> QED
  BY <1>1

\* The k first of an ordered set are k, and before the others.
FirstIn(R, S, k) == {x \in S : Cardinality(Lower(R, S, x)) < k}

LEMMA FirstOnes ==
  ASSUME NEW S, IsFiniteSet(S), NEW R, StrictlyOrders(R, S), NEW k \in 0 .. Cardinality(S)
  PROVE  /\ Cardinality(FirstIn(R, S, k)) = k
         /\ \A x \in FirstIn(R, S, k), y \in S \ FirstIn(R, S, k) : <<x, y>> \in R
<1> DEFINE N == {x \in S : Cardinality(Lower(R, S, x)) < k}
           rank == [x \in N |-> Cardinality(Lower(R, S, x)) + 1]
<1>1. Cardinality(S) \in Nat /\ k \in Nat
  BY FS_CardinalityType
<1>2. \A x \in S : Cardinality(Lower(R, S, x)) \in Nat
  BY FS_Subset, FS_CardinalityType DEF Lower
<1>3. rank \in [N -> 1 .. k]
  BY <1>1, <1>2
<1>4. ASSUME NEW x \in N, NEW y \in N, x # y
      PROVE  rank[x] # rank[y]
  <2>1. <<x, y>> \in R \/ <<y, x>> \in R
    BY <1>4 DEF StrictlyOrders
  <2>2. \/ Cardinality(Lower(R, S, x)) < Cardinality(Lower(R, S, y))
        \/ Cardinality(Lower(R, S, y)) < Cardinality(Lower(R, S, x))
    BY <2>1, RankGrows
  <2> QED
    BY <1>2, <2>2
<1>5. ASSUME NEW i \in 1 .. k
      PROVE  \E x \in N : rank[x] = i
  <2>1. i \in 1 .. Cardinality(S) /\ i \in Nat
    BY <1>1
  <2>2. PICK x \in S : Cardinality(Lower(R, S, x)) = i - 1
    BY <2>1, RankIsTaken
  <2> QED
    BY <1>1, <2>1, <2>2
<1>6. rank \in Injection(N, 1 .. k) /\ rank \in Surjection(N, 1 .. k)
  BY <1>3, <1>4, <1>5 DEF Injection, IsInjective, Surjection
<1> HIDE DEF rank
<1>7. IsFiniteSet(1 .. k) /\ Cardinality(1 .. k) = k
  BY <1>1, FS_Interval
<1>8. Cardinality(N) = k
  BY <1>6, <1>7, FS_Injection
<1>9. ASSUME NEW x \in N, NEW y \in S \ N
      PROVE  <<x, y>> \in R
  <2>1. CASE <<y, x>> \in R
    <3>1. Cardinality(Lower(R, S, y)) < Cardinality(Lower(R, S, x))
      BY <2>1, RankGrows
    <3> QED
      BY <1>1, <1>2, <3>1
  <2> QED
    BY <2>1 DEF StrictlyOrders
<1> QED
  BY <1>8, <1>9 DEF FirstIn

LEMMA MinIsLeast ==
  ASSUME NEW S \in SUBSET Nat, S # {}
  PROVE  Min(S) \in S /\ \A x \in S : Min(S) <= x
<1>1. \E x \in S : \A y \in S : x <= y
  BY LeastNumber
<1> QED
  BY <1>1, Zenon DEF Min

\* Python's min and max, of integers.
LEMMA LeastAndGreatest ==
  ASSUME NEW S \in SUBSET Int, IsFiniteSet(S), S # {}
  PROVE  /\ Min(S) \in S /\ \A x \in S : Min(S) <= x
         /\ Max(S) \in S /\ \A x \in S : x <= Max(S)
<1> DEFINE Up == {p \in S \X S : p[1] < p[2]}
           Down == {p \in S \X S : p[1] > p[2]}
<1>1. \E x \in S : \A y \in S : x <= y
  <2>1. StrictlyOrders(Up, S)
    BY DEF StrictlyOrders
  <2>2. PICK x \in S : \A y \in S \ {x} : <<x, y>> \in Up
    <3> HIDE DEF Up
    <3> QED
      BY <2>1, FirstIsTaken DEF IsFirst
  <2>3. ASSUME NEW y \in S
        PROVE  x <= y
    <3>1. x \in Int /\ y \in Int
      OBVIOUS
    <3>2. x = y \/ <<x, y>> \in Up
      BY <2>2, Zenon
    <3> QED
      BY <3>1, <3>2
  <2> QED
    BY <2>3
<1>2. \E x \in S : \A y \in S : x >= y
  <2>1. StrictlyOrders(Down, S)
    BY DEF StrictlyOrders
  <2>2. PICK x \in S : \A y \in S \ {x} : <<x, y>> \in Down
    <3> HIDE DEF Down
    <3> QED
      BY <2>1, FirstIsTaken DEF IsFirst
  <2>3. ASSUME NEW y \in S
        PROVE  x >= y
    <3>1. x \in Int /\ y \in Int
      OBVIOUS
    <3>2. x = y \/ <<x, y>> \in Down
      BY <2>2, Zenon
    <3> QED
      BY <3>1, <3>2
  <2> QED
    BY <2>3
<1>3. Min(S) \in S /\ \A x \in S : Min(S) <= x
  BY <1>1 DEF Min
<1>4. Max(S) \in S /\ \A x \in S : Max(S) >= x
  BY <1>2 DEF Max
<1> QED
  BY <1>3, <1>4

\* The members of a finite set, seen through a function, are finite.
LEMMA ImageIsFinite ==
  ASSUME NEW S, IsFiniteSet(S), NEW f
  PROVE  IsFiniteSet({f[x] : x \in S})
<1> DEFINE g == [x \in S |-> f[x]]
<1>1. g \in Surjection(S, {f[x] : x \in S})
  BY DEF Surjection
<1> HIDE DEF g
<1> QED
  BY <1>1, FS_Surjection

\* What sorts numbers: the i-th is the least that i of them do not exceed.
InAscendingOrder(d) ==
    [i \in DOMAIN d |->
        Min({v \in Range(d) : Cardinality({j \in DOMAIN d : d[j] <= v}) >= i})]
NotAbove(d, v) == {j \in DOMAIN d : d[j] <= v}
Reaching(d, i) == {v \in Range(d) : Cardinality(NotAbove(d, v)) >= i}

LEMMA AscendingIs ==
  ASSUME NEW n \in Positive, NEW d \in [1 .. n -> Nat]
  PROVE  /\ InAscendingOrder(d) \in [1 .. n -> Nat]
         /\ \A i, j \in 1 .. n : i <= j => InAscendingOrder(d)[i] <= InAscendingOrder(d)[j]
<1>1. /\ n \in Nat /\ n >= 1 /\ IsFiniteSet(1 .. n) /\ Cardinality(1 .. n) = n /\ 1 \in 1 .. n
      /\ DOMAIN d = 1 .. n
  <2>1. n \in Nat /\ n >= 1
    BY DEF Positive
  <2> QED
    BY <2>1, FS_Interval
<1>2. PICK m \in 1 .. n : \A i \in 1 .. n : d[i] <= d[m]
  <2> DEFINE D == 1 .. n
             R == {p \in D \X D : d[p[1]] > d[p[2]] \/ (d[p[1]] = d[p[2]] /\ p[1] < p[2])}
  <2>1. StrictlyOrders(R, D)
    BY <1>1 DEF StrictlyOrders
  <2>2. D # {} /\ IsFiniteSet(D)
    BY <1>1
  <2> HIDE DEF R
  <2>3. PICK m \in D : \A i \in D \ {m} : <<m, i>> \in R
    BY <2>1, <2>2, FirstIsTaken DEF IsFirst
  <2>4. ASSUME NEW i \in D
        PROVE  d[i] <= d[m]
    <3>1. d[i] \in Nat /\ d[m] \in Nat
      BY <1>1
    <3>2. CASE i # m
      <4>1. <<m, i>> \in R
        BY <2>3, <3>2
      <4> QED
        BY <3>1, <4>1 DEF R
    <3> QED
      BY <3>1, <3>2
  <2> QED
    BY <2>4
<1>3. ASSUME NEW i \in 1 .. n
      PROVE  Reaching(d, i) # {} /\ Reaching(d, i) \in SUBSET Nat
  <2>1. NotAbove(d, d[m]) = 1 .. n
    BY <1>1, <1>2 DEF NotAbove
  <2>2. d[m] \in Reaching(d, i)
    BY <1>1, <2>1 DEF Reaching, Range
  <2>3. Range(d) \subseteq Nat
    BY DEF Range
  <2> QED
    BY <2>2, <2>3 DEF Reaching
<1>4. \A i \in 1 .. n : InAscendingOrder(d)[i] = Min(Reaching(d, i))
  BY <1>1 DEF InAscendingOrder, Reaching, NotAbove
<1>5. DOMAIN InAscendingOrder(d) = 1 .. n /\ InAscendingOrder(d) = [i \in 1 .. n |-> InAscendingOrder(d)[i]]
  BY <1>1 DEF InAscendingOrder
<1>6. \A i \in 1 .. n : /\ Min(Reaching(d, i)) \in Reaching(d, i) /\ Min(Reaching(d, i)) \in Nat
                        /\ \A v \in Reaching(d, i) : Min(Reaching(d, i)) <= v
  BY <1>3, MinIsLeast
<1>7. ASSUME NEW i \in 1 .. n, NEW j \in 1 .. n, i <= j
      PROVE  InAscendingOrder(d)[i] <= InAscendingOrder(d)[j]
  <2>1. \A v \in Range(d) : Cardinality(NotAbove(d, v)) \in Nat
    <3>1. \A v : NotAbove(d, v) \subseteq 1 .. n
      BY <1>1 DEF NotAbove
    <3> QED
      BY <1>1, <3>1, FS_Subset, FS_CardinalityType
  <2>2. Reaching(d, j) \subseteq Reaching(d, i)
    BY <1>7, <2>1 DEF Reaching
  <2> QED
    BY <1>4, <1>6, <2>2
<1>8. \A i \in 1 .. n : InAscendingOrder(d)[i] \in Nat
  BY <1>4, <1>6
<1> QED
  BY <1>5, <1>7, <1>8
=============================================================================
