---------------------------- MODULE DataLemmas ------------------------------
(***************************************************************************)
(* Facts about numbers, finite sets and sums that the proofs share.  Each  *)
(* induction is stated on a set of numbers or of subsets, not on a         *)
(* predicate.                                                              *)
(***************************************************************************)
EXTENDS Integers, Sequences, FiniteSets, FiniteSetsExt, Functions,
        WellFoundedInduction, TLAPS

\* Taking nothing, twice.
LEMMA NothingTaken == \A x \in Nat : x = x - 0 - 0
OBVIOUS

\* A nonempty set of numbers has a least one.
LEMMA MinExists ==
  ASSUME NEW S \in SUBSET Nat, S # {}
  PROVE  Min(S) \in S /\ \A y \in S : Min(S) <= y
<1>1. PICK x \in S : \A y \in S : ~(<<y, x>> \in OpToRel(<, Nat))
  BY WFMin, NatLessThanWellFounded, Zenon
<1>2. \A y \in S : x <= y
  <2> SUFFICES ASSUME NEW y \in S, y < x
               PROVE  FALSE
    OBVIOUS
  <2>1. <<y, x>> \in OpToRel(<, Nat)
    BY Zenon DEF OpToRel
  <2> QED  BY <1>1, <2>1, Zenon
<1> QED  BY <1>2, Zenon DEF Min

\* A nonempty bounded set of numbers has a greatest one.
LEMMA MaxGreatest ==
  ASSUME NEW S \in SUBSET Nat, S # {}, NEW b \in Nat, \A y \in S : y <= b
  PROVE  Max(S) \in S /\ \A y \in S : Max(S) >= y
<1> DEFINE T == {n \in Nat : \E y \in S : n = b - y}
<1>1. T \in SUBSET Nat /\ T # {}
  <2>1. PICK y \in S : TRUE
    BY Zenon
  <2>2. b - y \in T
    BY <2>1
  <2> QED  BY <2>2, Zenon
<1>2. Min(T) \in T /\ \A n \in T : Min(T) <= n
  BY <1>1, MinExists, Zenon
<1>3. PICK x \in S : Min(T) = b - x
  BY <1>2, Zenon
<1>4. \A y \in S : x >= y
  <2> TAKE y \in S
  <2>1. b - y \in T
    OBVIOUS
  <2>2. b - x <= b - y
    BY <1>2, <1>3, <2>1, Zenon
  <2> QED  BY <2>2
<1> QED  BY <1>4, Zenon DEF Max

\* In particular, it is one of them.
LEMMA MaxExists ==
  ASSUME NEW S \in SUBSET Nat, S # {}, NEW b \in Nat, \A y \in S : y <= b
  PROVE  Max(S) \in S
BY MaxGreatest, Zenon

-----------------------------------------------------------------------------
(* Induction *)

\* A set of numbers with 0 and every successor has them all.
LEMMA NatSet ==
  ASSUME NEW S, 0 \in S, \A n \in Nat : n \in S => n + 1 \in S
  PROVE  Nat \subseteq S
<1> DEFINE T == Nat \ S
<1> SUFFICES ASSUME T # {} PROVE FALSE
  BY Zenon
<1>1. Min(T) \in T /\ \A y \in T : Min(T) <= y
  BY MinExists, Zenon
<1>2. Min(T) - 1 \in Nat /\ Min(T) - 1 \notin T
  BY <1>1
<1> QED  BY <1>1, <1>2

-----------------------------------------------------------------------------
(* Finite sets *)

\* n elements, or fewer, are all of s.
Enumerates(n, s) == \E f : \A x \in s : \E i \in 1..n : f[i] = x

\* What finite means.
LEMMA FiniteEnumerated ==
  ASSUME NEW s
  PROVE  IsFiniteSet(s) <=> \E n \in Nat : Enumerates(n, s)
<1>1. ASSUME IsFiniteSet(s) PROVE \E n \in Nat : Enumerates(n, s)
  <2>1. PICK q \in Seq(s) : \A x \in s : \E i \in 1..Len(q) : q[i] = x
    BY <1>1, Zenon DEF IsFiniteSet
  <2>2. Len(q) \in Nat /\ Enumerates(Len(q), s)
    BY <2>1 DEF Enumerates
  <2> QED  BY <2>2, Zenon
<1>2. ASSUME NEW n \in Nat, Enumerates(n, s) PROVE IsFiniteSet(s)
  <2>1. PICK f : \A x \in s : \E i \in 1..n : f[i] = x
    BY <1>2, Zenon DEF Enumerates
  <2>2. CASE s = {}
    <3>1. <<>> \in Seq(s) /\ \A x \in s : \E i \in 1..Len(<<>>) : <<>>[i] = x
      BY <2>2
    <3> QED  BY <3>1, Zenon DEF IsFiniteSet
  <2>3. ASSUME NEW a \in s PROVE IsFiniteSet(s)
    <3> DEFINE q == [i \in 1..n |-> IF f[i] \in s THEN f[i] ELSE a]
    <3>1. q \in Seq(s) /\ Len(q) = n
      OBVIOUS
    <3>2. \A x \in s : \E i \in 1..n : q[i] = x
      BY <2>1, Zenon
    <3> HIDE DEF q
    <3> QED  BY <3>1, <3>2, Zenon DEF IsFiniteSet
  <2> QED  BY <2>2, <2>3, Zenon
<1> QED  BY <1>1, <1>2, Zenon

\* One element less, one element more.
LEMMA EnumeratesLess ==
  ASSUME NEW n \in Nat, NEW s, Enumerates(n + 1, s), NEW x \in s
  PROVE  Enumerates(n, s \ {x})
<1>1. PICK f : \A y \in s : \E i \in 1..(n + 1) : f[i] = y
  BY Zenon DEF Enumerates
<1>2. PICK k \in 1..(n + 1) : f[k] = x
  BY <1>1, Zenon
<1> DEFINE g == [i \in 1..n |-> IF i = k THEN f[n + 1] ELSE f[i]]
<1>3. ASSUME NEW y \in s \ {x} PROVE \E i \in 1..n : g[i] = y
  <2>1. PICK i \in 1..(n + 1) : f[i] = y
    BY <1>1, Zenon
  <2>2. i # k
    BY <1>2, <2>1, Zenon
  <2>3. CASE i = n + 1
    BY <2>1, <2>2, <2>3
  <2>4. CASE i # n + 1
    BY <2>1, <2>2, <2>4
  <2> QED  BY <2>3, <2>4, Zenon
<1> QED  BY <1>3, Zenon DEF Enumerates

\* One more step enumerates one more element.
LEMMA EnumeratesMore ==
  ASSUME NEW n \in Nat, NEW s, Enumerates(n, s), NEW x
  PROVE  Enumerates(n + 1, s \cup {x})
<1>1. PICK f : \A y \in s : \E i \in 1..n : f[i] = y
  BY Zenon DEF Enumerates
<1> DEFINE g == [i \in 1..(n + 1) |-> IF i = n + 1 THEN x ELSE f[i]]
<1>2. \A y \in s \cup {x} : \E i \in 1..(n + 1) : g[i] = y
  BY <1>1
<1> QED  BY <1>2, Zenon DEF Enumerates

\* No step enumerates nothing.
LEMMA EnumeratesNone ==
  ASSUME NEW s, Enumerates(0, s)
  PROVE  s = {}
BY DEF Enumerates

\* The empty set is finite.
LEMMA FiniteEmpty == IsFiniteSet({})
<1>1. Enumerates(0, {})
  BY Zenon DEF Enumerates
<1> QED  BY <1>1, FiniteEnumerated, Zenon

\* So is a finite set with one more element,
LEMMA FiniteAdd ==
  ASSUME NEW s, IsFiniteSet(s), NEW x
  PROVE  IsFiniteSet(s \cup {x})
<1>1. PICK n \in Nat : Enumerates(n, s)
  BY FiniteEnumerated, Zenon
<1>2. n + 1 \in Nat /\ Enumerates(n + 1, s \cup {x})
  BY <1>1, EnumeratesMore
<1> QED  BY <1>2, FiniteEnumerated, Zenon

\* a subset of a finite set,
LEMMA FiniteSubset ==
  ASSUME NEW s, IsFiniteSet(s), NEW t \in SUBSET s
  PROVE  IsFiniteSet(t)
<1>1. PICK n \in Nat : Enumerates(n, s)
  BY FiniteEnumerated, Zenon
<1>2. Enumerates(n, t)
  BY <1>1, Zenon DEF Enumerates
<1> QED  BY <1>2, FiniteEnumerated, Zenon

\* and an interval of integers.
LEMMA FiniteInterval ==
  ASSUME NEW m \in Int, NEW n \in Int
  PROVE  IsFiniteSet(m..n)
<1>1. CASE n < m
  <2>1. m..n = {}
    BY <1>1
  <2> QED  BY <2>1, FiniteEmpty, Zenon
<1>2. CASE n >= m
  <2> DEFINE k == n - m + 1
             f == [i \in 1..k |-> i + m - 1]
  <2>1. k \in Nat /\ \A y \in m..n : y - m + 1 \in 1..k /\ f[y - m + 1] = y
    BY <1>2
  <2>2. Enumerates(k, m..n)
    BY <2>1, Zenon DEF Enumerates
  <2> QED  BY <2>1, <2>2, FiniteEnumerated, Zenon
<1> QED  BY <1>1, <1>2

\* A family of subsets of a finite set that has {}, and every other subset if
\* it has the same without a certain member, has the set itself.
LEMMA ShrinkingFamily ==
  ASSUME NEW D, IsFiniteSet(D), NEW Q, {} \in Q,
         \A s \in SUBSET D : s # {} => \E x \in s : s \ {x} \in Q => s \in Q
  PROVE  D \in Q
<1> DEFINE N == {n \in Nat : \A s \in SUBSET D : Enumerates(n, s) => s \in Q}
<1>1. 0 \in N
  BY EnumeratesNone, Zenon
<1>2. ASSUME NEW n \in Nat, n \in N PROVE n + 1 \in N
  <2>1. ASSUME NEW s \in SUBSET D, Enumerates(n + 1, s), s # {} PROVE s \in Q
    <3>1. PICK x \in s : s \ {x} \in Q => s \in Q
      BY <2>1, Zenon
    <3>2. Enumerates(n, s \ {x}) /\ s \ {x} \in SUBSET D
      BY <2>1, EnumeratesLess, Zenon
    <3> QED  BY <1>2, <3>1, <3>2, Zenon
  <2>2. \A s \in SUBSET D : Enumerates(n + 1, s) => s \in Q
    BY <2>1, Zenon
  <2>3. n + 1 \in Nat
    OBVIOUS
  <2> QED  BY <2>2, <2>3, Zenon
<1> HIDE DEF N
<1>3. Nat \subseteq N
  BY <1>1, <1>2, NatSet, Zenon
<1>4. PICK n \in Nat : Enumerates(n, D)
  BY FiniteEnumerated, Zenon
<1> QED  BY <1>3, <1>4, Zenon DEF N

\* Or if adding a member never leaves the family.
LEMMA GrowingFamily ==
  ASSUME NEW D, IsFiniteSet(D), NEW Q, {} \in Q,
         \A s \in SUBSET D, x \in D : s \in Q /\ x \notin s => s \cup {x} \in Q
  PROVE  D \in Q
<1>1. ASSUME NEW s \in SUBSET D, s # {}
      PROVE  \E x \in s : s \ {x} \in Q => s \in Q
  <2>1. PICK x \in s : TRUE
    BY <1>1, Zenon
  <2>2. (s \ {x}) \cup {x} = s /\ s \ {x} \in SUBSET D /\ x \in D
    BY <2>1, Zenon
  <2>3. s \ {x} \in Q => s \in Q
    BY <2>2, Zenon
  <2> QED  BY <2>3, Zenon
<1> QED  BY <1>1, ShrinkingFamily, Zenon

\* The union of two finite sets is finite.
LEMMA FiniteUnion ==
  ASSUME NEW s, IsFiniteSet(s), NEW t, IsFiniteSet(t)
  PROVE  IsFiniteSet(s \cup t)
<1> DEFINE Q == {u \in SUBSET t : IsFiniteSet(s \cup u)}
<1>1. {} \in Q
  <2>1. s \cup {} = s
    BY Zenon
  <2> QED  BY <2>1, Zenon
<1>2. ASSUME NEW u \in SUBSET t, NEW x \in t, u \in Q
      PROVE  u \cup {x} \in Q
  <2>1. s \cup (u \cup {x}) = (s \cup u) \cup {x}
    BY Zenon
  <2> QED  BY <1>2, <2>1, FiniteAdd, Zenon
<1> HIDE DEF Q
<1>3. t \in Q
  BY <1>1, <1>2, GrowingFamily, Zenon
<1> QED  BY <1>3, Zenon DEF Q

-----------------------------------------------------------------------------
(* The sum of a function over a finite set *)

Choice(s) == CHOOSE x \in s : TRUE
Step(f, g, s) == IF s = {} THEN 0 ELSE f[Choice(s)] + g[s \ {Choice(s)}]

\* g computes the sums of f over the subsets of D.
Sums(f, D, g) == g = [s \in SUBSET D |-> Step(f, g, s)]

\* SumFunctionOnSet is what any such g, chosen once and for all, computes.
LEMMA SumIsChosen ==
  ASSUME NEW f, NEW D
  PROVE  SumFunctionOnSet(f, D) = (CHOOSE g : Sums(f, D, g))[D]
BY Zenon DEF SumFunctionOnSet, FoldFunctionOnSet, MapThenFoldSet, Sums, Step, Choice

\* The chosen element is one of the set.
LEMMA ChoiceIn == \A s : s # {} => Choice(s) \in s
BY Zenon DEF Choice

\* There is one such g: built up by the size of the subsets.
LEMMA SumsExist ==
  ASSUME NEW f, NEW D, IsFiniteSet(D)
  PROVE  \E g : Sums(f, D, g)
<1> DEFINE Level(n) == {s \in SUBSET D : Enumerates(n, s)}
           N == {n \in Nat : \E g : g = [s \in Level(n) |-> Step(f, g, s)]}
<1>1. \A n \in Nat : \A s \in Level(n) : s \in Level(n + 1)
  <2> SUFFICES ASSUME NEW n \in Nat, NEW s, Enumerates(n, s)
               PROVE  Enumerates(n + 1, s)
    BY Zenon
  <2> QED  BY DEF Enumerates
<1>2. \A n \in Nat : \A s \in Level(n + 1) : s # {} => s \ {Choice(s)} \in Level(n)
  BY ChoiceIn, EnumeratesLess, Zenon
<1>3. 0 \in N
  <2>1. \A s \in Level(0) : s = {}
    BY EnumeratesNone, Zenon
  <2> DEFINE g == [s \in Level(0) |-> 0]
  <2>2. g = [s \in Level(0) |-> Step(f, g, s)]
    BY <2>1, Zenon DEF Step
  <2> QED  BY <2>2, Zenon
<1>4. ASSUME NEW n \in Nat, n \in N PROVE n + 1 \in N
  <2>1. PICK g : g = [s \in Level(n) |-> Step(f, g, s)]
    BY <1>4, Zenon
  <2> DEFINE h == [s \in Level(n + 1) |-> Step(f, g, s)]
  <2>2. \A s \in Level(n) : s \in Level(n + 1) /\ g[s] = Step(f, g, s)
    BY <1>1, <2>1, Zenon
  <2>3. ASSUME NEW s \in Level(n + 1) PROVE Step(f, g, s) = Step(f, h, s)
    <3>1. CASE s = {}
      BY <3>1, Zenon DEF Step
    <3>2. CASE s # {}
      <4>1. s \ {Choice(s)} \in Level(n)
        BY <1>2, <3>2, Zenon
      <4>2. h[s \ {Choice(s)}] = g[s \ {Choice(s)}]
        BY <2>2, <4>1, Zenon
      <4> QED  BY <4>2, Zenon DEF Step
    <3> QED  BY <3>1, <3>2, Zenon
  <2>4. h = [s \in Level(n + 1) |-> Step(f, h, s)]
    BY <2>3, Zenon
  <2> HIDE DEF h, Level
  <2> QED  BY <2>4
<1> HIDE DEF N
<1>5. Nat \subseteq N
  BY <1>3, <1>4, NatSet, Zenon
<1>6. PICK n \in Nat : Enumerates(n, D)
  BY FiniteEnumerated, Zenon
<1>7. Level(n) = SUBSET D
  BY <1>6, Zenon DEF Enumerates
<1> QED  BY <1>5, <1>7, Zenon DEF N, Sums

\* Any two agree.
LEMMA SumsAgree ==
  ASSUME NEW f, NEW D, NEW E \in SUBSET D, IsFiniteSet(E), NEW g, NEW h,
         Sums(f, D, g), Sums(f, E, h)
  PROVE  g[E] = h[E]
<1> DEFINE Q == {s \in SUBSET E : g[s] = h[s]}
<1>1. \A s \in SUBSET E : g[s] = Step(f, g, s) /\ h[s] = Step(f, h, s)
  BY Zenon DEF Sums
<1>2. {} \in Q
  BY <1>1, Zenon DEF Step
<1>3. ASSUME NEW s \in SUBSET E, s # {}
      PROVE  \E x \in s : s \ {x} \in Q => s \in Q
  <2>1. Choice(s) \in s
    BY <1>3, ChoiceIn, Zenon
  <2>2. s \ {Choice(s)} \in Q => s \in Q
    BY <1>1, <1>3, Zenon DEF Step
  <2> QED  BY <2>1, <2>2, Zenon
<1> HIDE DEF Q
<1>4. E \in Q
  BY <1>2, <1>3, ShrinkingFamily, Zenon
<1> QED  BY <1>4, Zenon DEF Q

\* Every such g computes it.
LEMMA SumIsSums ==
  ASSUME NEW f, NEW D, IsFiniteSet(D), NEW g, Sums(f, D, g), NEW E \in SUBSET D
  PROVE  SumFunctionOnSet(f, E) = g[E]
<1>1. IsFiniteSet(E)
  BY FiniteSubset, Zenon
<1> DEFINE h == CHOOSE h : Sums(f, E, h)
<1>2. Sums(f, E, h)
  BY <1>1, SumsExist, Zenon
<1> HIDE DEF h
<1>3. g[E] = h[E]
  BY <1>1, <1>2, SumsAgree
<1> QED  BY <1>3, SumIsChosen, Zenon DEF h

\* The defining equations of the sum.
LEMMA SumEmpty ==
  ASSUME NEW f
  PROVE  SumFunctionOnSet(f, {}) = 0
<1>1. IsFiniteSet({})
  BY FiniteEmpty, Zenon
<1>2. PICK g : Sums(f, {}, g)
  BY <1>1, SumsExist, Zenon
<1>3. g[{}] = 0
  BY <1>2, Zenon DEF Sums, Step
<1> QED  BY <1>1, <1>2, <1>3, SumIsSums, Zenon

\* The sum of a set that is not empty is that of one element and the others.
LEMMA SumChoice ==
  ASSUME NEW f, NEW D, IsFiniteSet(D), D # {}
  PROVE  \E x \in D : SumFunctionOnSet(f, D) = f[x] + SumFunctionOnSet(f, D \ {x})
<1>1. PICK g : Sums(f, D, g)
  BY SumsExist, Zenon
<1> DEFINE x == Choice(D)
<1>2. x \in D
  BY ChoiceIn, Zenon
<1>3. g[D] = f[x] + g[D \ {x}]
  BY <1>1, Zenon DEF Sums, Step
<1>4. g[D] = SumFunctionOnSet(f, D) /\ g[D \ {x}] = SumFunctionOnSet(f, D \ {x})
  BY <1>1, SumIsSums
<1> QED  BY <1>2, <1>3, <1>4, Zenon

\* Sums of integers are integers.
LEMMA SumInt ==
  ASSUME NEW f, NEW D, IsFiniteSet(D), \A x \in D : f[x] \in Int
  PROVE  SumFunctionOnSet(f, D) \in Int
<1> DEFINE Q == {s \in SUBSET D : SumFunctionOnSet(f, s) \in Int}
<1>1. {} \in Q
  BY SumEmpty
<1>2. ASSUME NEW s \in SUBSET D, s # {}
      PROVE  \E x \in s : s \ {x} \in Q => s \in Q
  <2>1. IsFiniteSet(s)
    BY FiniteSubset, Zenon
  <2>2. PICK x \in s : SumFunctionOnSet(f, s) = f[x] + SumFunctionOnSet(f, s \ {x})
    BY <1>2, <2>1, SumChoice, Zenon
  <2>3. f[x] \in Int
    BY <2>2, Zenon
  <2>4. s \ {x} \in Q => s \in Q
    BY <2>2, <2>3
  <2> QED  BY <2>4, Zenon
<1> HIDE DEF Q
<1>3. D \in Q
  BY <1>1, <1>2, ShrinkingFamily, Zenon
<1> QED  BY <1>3, Zenon DEF Q

\* The order does not matter.
LEMMA SumAny ==
  ASSUME NEW f, NEW D, IsFiniteSet(D), \A x \in D : f[x] \in Int, NEW a \in D
  PROVE  SumFunctionOnSet(f, D) = f[a] + SumFunctionOnSet(f, D \ {a})
<1> DEFINE S(s) == SumFunctionOnSet(f, s)
           Free(s) == \A y \in s : S(s) = f[y] + S(s \ {y})
           N == {n \in Nat : \A s \in SUBSET D : Enumerates(n, s) => Free(s)}
<1>1. ASSUME NEW s \in SUBSET D
      PROVE  IsFiniteSet(s) /\ S(s) \in Int
  <2>1. IsFiniteSet(s)
    BY FiniteSubset, Zenon
  <2> QED  BY <2>1, SumInt, Zenon
<1>2. 0 \in N
  BY EnumeratesNone, Zenon
<1>3. ASSUME NEW n \in Nat, n \in N PROVE n + 1 \in N
  <2> SUFFICES ASSUME NEW s \in SUBSET D, Enumerates(n + 1, s), NEW y \in s
               PROVE  S(s) = f[y] + S(s \ {y})
    BY DEF N
  <2>1. PICK x \in s : S(s) = f[x] + S(s \ {x})
    BY <1>1, SumChoice, Zenon
  <2>2. \A z \in s : s \ {z} \in SUBSET D /\ Enumerates(n, s \ {z})
    BY EnumeratesLess, Zenon
  <2>3. \A z \in s : Free(s \ {z})
    BY <1>3, <2>2, Zenon
  <2> HIDE DEF N
  <2> DEFINE u == (s \ {x}) \ {y}
  <2>4. CASE x = y
    BY <2>1, <2>4, Zenon
  <2>5. CASE x # y
    <3>1. S(s \ {x}) = f[y] + S(u)
      BY <2>3, <2>5, Zenon
    <3>2. S(s \ {y}) = f[x] + S(u)
      <4>1. u = (s \ {y}) \ {x}
        BY Zenon
      <4> QED  BY <2>3, <2>5, <4>1, Zenon
    <3>3. f[x] \in Int /\ f[y] \in Int /\ S(u) \in Int
      <4>1. u \in SUBSET D
        BY Zenon
      <4> QED  BY <1>1, <4>1, Zenon
    <3> HIDE DEF u, S
    <3> QED  BY <2>1, <3>1, <3>2, <3>3
  <2> QED  BY <2>4, <2>5, Zenon
<1> HIDE DEF N
<1>4. Nat \subseteq N
  BY <1>2, <1>3, NatSet, Zenon
<1>5. PICK n \in Nat : Enumerates(n, D)
  BY FiniteEnumerated, Zenon
<1> QED  BY <1>4, <1>5, Zenon DEF N

\* An element more adds its value.
LEMMA SumAdd ==
  ASSUME NEW f, NEW D, IsFiniteSet(D), \A x \in D : f[x] \in Int,
         NEW a, a \notin D, f[a] \in Int
  PROVE  SumFunctionOnSet(f, D \cup {a}) = f[a] + SumFunctionOnSet(f, D)
<1>1. IsFiniteSet(D \cup {a})
  BY FiniteAdd, Zenon
<1>2. (D \cup {a}) \ {a} = D
  BY Zenon
<1>3. SumFunctionOnSet(f, D \cup {a}) = f[a] + SumFunctionOnSet(f, (D \cup {a}) \ {a})
  BY <1>1, SumAny
<1> QED  BY <1>2, <1>3, Zenon

\* Sums of numbers that are not negative are not negative.
LEMMA SumNat ==
  ASSUME NEW f, NEW D, IsFiniteSet(D), \A x \in D : f[x] \in Nat
  PROVE  SumFunctionOnSet(f, D) \in Nat
<1> DEFINE S(s) == SumFunctionOnSet(f, s)
           Q == {s \in SUBSET D : S(s) \in Nat}
<1>1. {} \in Q
  BY SumEmpty
<1>2. ASSUME NEW s \in SUBSET D, NEW a \in D, s \in Q, a \notin s
      PROVE  s \cup {a} \in Q
  <2>1. IsFiniteSet(s)
    BY FiniteSubset, Zenon
  <2>2. S(s \cup {a}) = f[a] + S(s)
    BY <1>2, <2>1, SumAdd
  <2> QED  BY <1>2, <2>2
<1> HIDE DEF Q
<1>3. D \in Q
  BY <1>1, <1>2, GrowingFamily, Zenon
<1> QED  BY <1>3, Zenon DEF Q

\* The cardinality of a finite set is the sum of a one for each element.
LEMMA CardinalitySum ==
  ASSUME NEW S, IsFiniteSet(S)
  PROVE  Cardinality(S) = SumFunctionOnSet([x \in S |-> 1], S)
<1> DEFINE one == [x \in S |-> 1]
           Counts(g) == g = [T \in SUBSET S |-> IF T = {} THEN 0 ELSE 1 + g[T \ {CHOOSE x : x \in T}]]
<1>1. \A T : (CHOOSE x : x \in T) = Choice(T)
  BY Zenon DEF Choice
<1>2. ASSUME NEW g PROVE Counts(g) <=> Sums(one, S, g)
  <2>1. ASSUME NEW T \in SUBSET S
        PROVE  (IF T = {} THEN 0 ELSE 1 + g[T \ {CHOOSE x : x \in T}]) = Step(one, g, T)
    <3>1. T # {} => one[Choice(T)] = 1
      BY <2>1, ChoiceIn, Zenon
    <3> HIDE DEF one
    <3> QED  BY <1>1, <3>1, Zenon DEF Step
  <2> HIDE DEF one
  <2> QED  BY <2>1, Zenon DEF Sums
<1>3. \E g : Counts(g)
  <2> HIDE DEF Counts, one
  <2> QED  BY <1>2, SumsExist, Zenon
<1> DEFINE count == CHOOSE g : Counts(g)
<1>4. Cardinality(S) = count[S]
  BY Zenon DEF Cardinality
<1>5. Sums(one, S, count)
  <2> HIDE DEF Counts, one
  <2> QED  BY <1>2, <1>3, Zenon
<1> HIDE DEF count, one
<1>6. SumFunctionOnSet(one, S) = count[S]
  BY <1>5, SumIsSums
<1> QED  BY <1>4, <1>6, Zenon DEF one

\* None for the empty set,
LEMMA CardinalityNone == Cardinality({}) = 0
BY FiniteEmpty, CardinalitySum, SumEmpty, Zenon

\* and a positive number for any other.
LEMMA CardinalitySome ==
  ASSUME NEW S, IsFiniteSet(S), S # {}
  PROVE  Cardinality(S) \in Nat \ {0}
<1> DEFINE one == [x \in S |-> 1]
<1>1. \A x \in S : one[x] = 1
  BY Zenon
<1>2. Cardinality(S) = SumFunctionOnSet(one, S)
  BY CardinalitySum, Zenon
<1> HIDE DEF one
<1>3. PICK x \in S : SumFunctionOnSet(one, S) = one[x] + SumFunctionOnSet(one, S \ {x})
  BY SumChoice, Zenon
<1>4. SumFunctionOnSet(one, S \ {x}) \in Nat
  <2>1. IsFiniteSet(S \ {x})
    BY FiniteSubset, Zenon
  <2> QED  BY <1>1, <2>1, SumNat
<1> QED  BY <1>1, <1>2, <1>3, <1>4

\* The sum of a function that adds two.
LEMMA SumPlus ==
  ASSUME NEW D, IsFiniteSet(D), NEW f, NEW g, NEW h,
         \A x \in D : f[x] \in Int /\ g[x] \in Int /\ h[x] = f[x] + g[x]
  PROVE  SumFunctionOnSet(h, D) = SumFunctionOnSet(f, D) + SumFunctionOnSet(g, D)
<1> DEFINE S(k, s) == SumFunctionOnSet(k, s)
           Q == {s \in SUBSET D : S(h, s) = S(f, s) + S(g, s)}
<1>1. {} \in Q
  BY SumEmpty
<1>2. ASSUME NEW s \in SUBSET D, NEW a \in D, s \in Q, a \notin s
      PROVE  s \cup {a} \in Q
  <2>1. IsFiniteSet(s)
    BY FiniteSubset, Zenon
  <2>2. \A x \in D : f[x] \in Int /\ g[x] \in Int /\ h[x] \in Int
    OBVIOUS
  <2>3. S(h, s \cup {a}) = h[a] + S(h, s)
    BY <1>2, <2>1, <2>2, SumAdd, Zenon
  <2>4. S(f, s \cup {a}) = f[a] + S(f, s)
    BY <1>2, <2>1, <2>2, SumAdd, Zenon
  <2>5. S(g, s \cup {a}) = g[a] + S(g, s)
    BY <1>2, <2>1, <2>2, SumAdd, Zenon
  <2>6. S(f, s) \in Int /\ S(g, s) \in Int
    BY <2>1, <2>2, SumInt, Zenon
  <2>7. S(h, s) = S(f, s) + S(g, s)
    BY <1>2, Zenon
  <2> HIDE DEF S
  <2>8. S(h, s \cup {a}) = S(f, s \cup {a}) + S(g, s \cup {a})
    BY <2>2, <2>3, <2>4, <2>5, <2>6, <2>7
  <2> QED  BY <2>8, Zenon
<1> HIDE DEF Q
<1>3. D \in Q
  BY <1>1, <1>2, GrowingFamily, Zenon
<1> QED  BY <1>3, Zenon DEF Q

\* The sum of zeros.
LEMMA SumZero ==
  ASSUME NEW f, NEW D, IsFiniteSet(D), \A x \in D : f[x] = 0
  PROVE  SumFunctionOnSet(f, D) = 0
<1>1. SumFunctionOnSet(f, D) = SumFunctionOnSet(f, D) + SumFunctionOnSet(f, D)
  BY SumPlus
<1>2. SumFunctionOnSet(f, D) \in Int
  BY SumInt
<1>3. \A x \in Int : x = x + x => x = 0
  OBVIOUS
<1> QED  BY <1>1, <1>2, <1>3, Zenon

\* Only the values on the set count.
LEMMA SumSame ==
  ASSUME NEW D, IsFiniteSet(D), NEW f, NEW g, \A x \in D : f[x] \in Int /\ g[x] = f[x]
  PROVE  SumFunctionOnSet(g, D) = SumFunctionOnSet(f, D)
<1> DEFINE z == [x \in D |-> 0]
<1>1. SumFunctionOnSet(z, D) = 0
  BY SumZero, Zenon
<1>2. \A x \in D : f[x] \in Int /\ z[x] \in Int /\ g[x] = f[x] + z[x]
  OBVIOUS
<1> HIDE DEF z
<1>3. SumFunctionOnSet(g, D) = SumFunctionOnSet(f, D) + SumFunctionOnSet(z, D)
  BY <1>2, SumPlus, Zenon
<1>4. SumFunctionOnSet(f, D) \in Int
  BY SumInt, Zenon
<1> QED  BY <1>1, <1>3, <1>4

\* The sum of a multiple.
LEMMA SumTimes ==
  ASSUME NEW D, IsFiniteSet(D), NEW f, NEW g, NEW c \in Int,
         \A x \in D : f[x] \in Int /\ g[x] = c * f[x]
  PROVE  SumFunctionOnSet(g, D) = c * SumFunctionOnSet(f, D)
<1> DEFINE S(k, s) == SumFunctionOnSet(k, s)
           Q == {s \in SUBSET D : S(g, s) = c * S(f, s)}
<1>1. {} \in Q
  BY SumEmpty
<1>2. ASSUME NEW s \in SUBSET D, NEW a \in D, s \in Q, a \notin s
      PROVE  s \cup {a} \in Q
  <2>1. IsFiniteSet(s)
    BY FiniteSubset, Zenon
  <2>2. \A x \in D : f[x] \in Int /\ g[x] \in Int
    OBVIOUS
  <2>3. S(f, s \cup {a}) = f[a] + S(f, s)
    BY <1>2, <2>1, <2>2, SumAdd, Zenon
  <2>4. S(g, s \cup {a}) = g[a] + S(g, s)
    BY <1>2, <2>1, <2>2, SumAdd, Zenon
  <2>5. S(f, s) \in Int /\ S(g, s) = c * S(f, s)
    BY <1>2, <2>1, <2>2, SumInt, Zenon
  <2> HIDE DEF S
  <2>6. \A x, y \in Int : c * (x + y) = c * x + c * y
    OBVIOUS
  <2>7. S(g, s \cup {a}) = c * S(f, s \cup {a})
    BY <2>2, <2>3, <2>4, <2>5, <2>6, Zenon
  <2> QED  BY <2>7, Zenon
<1> HIDE DEF Q
<1>3. D \in Q
  BY <1>1, <1>2, GrowingFamily, Zenon
<1> QED  BY <1>3, Zenon DEF Q

\* The sum over two disjoint sets.
LEMMA SumUnion ==
  ASSUME NEW D, IsFiniteSet(D), NEW E, IsFiniteSet(E), D \cap E = {},
         NEW f, \A x \in D \cup E : f[x] \in Int
  PROVE  SumFunctionOnSet(f, D \cup E) = SumFunctionOnSet(f, D) + SumFunctionOnSet(f, E)
<1> DEFINE S(s) == SumFunctionOnSet(f, s)
           Q == {s \in SUBSET E : S(D \cup s) = S(D) + S(s)}
<1>1. {} \in Q
  <2>1. D \cup {} = D
    BY Zenon
  <2>2. S(D) \in Int
    BY SumInt, Zenon
  <2> QED  BY <2>1, <2>2, SumEmpty
<1>2. ASSUME NEW s \in SUBSET E, NEW a \in E, s \in Q, a \notin s
      PROVE  s \cup {a} \in Q
  <2>1. IsFiniteSet(s) /\ IsFiniteSet(D \cup s)
    BY FiniteSubset, FiniteUnion, Zenon
  <2>2. f[a] \in Int /\ (\A x \in s : f[x] \in Int) /\ (\A x \in D \cup s : f[x] \in Int)
    BY Zenon
  <2>3. S(s \cup {a}) = f[a] + S(s)
    BY <1>2, <2>1, <2>2, SumAdd, Zenon
  <2>4. S((D \cup s) \cup {a}) = f[a] + S(D \cup s)
    <3>1. a \notin D \cup s
      BY <1>2, Zenon
    <3> QED  BY <2>1, <2>2, <3>1, SumAdd, Zenon
  <2>5. S(D) \in Int /\ S(s) \in Int
    BY <2>1, <2>2, SumInt, Zenon
  <2>6. D \cup (s \cup {a}) = (D \cup s) \cup {a}
    BY Zenon
  <2>7. S(D \cup s) = S(D) + S(s)
    BY <1>2, Zenon
  <2> HIDE DEF S
  <2>8. S((D \cup s) \cup {a}) = S(D) + S(s \cup {a})
    BY <2>2, <2>3, <2>4, <2>5, <2>7
  <2>9. S(D \cup (s \cup {a})) = S(D) + S(s \cup {a})
    BY <2>6, <2>8, Zenon
  <2> QED  BY <2>9, Zenon
<1> HIDE DEF Q
<1>3. E \in Q
  BY <1>1, <1>2, GrowingFamily, Zenon
<1> QED  BY <1>3, Zenon DEF Q

\* The sum when only one value is not 0.
LEMMA SumOnly ==
  ASSUME NEW D, IsFiniteSet(D), NEW a \in D, NEW f, f[a] \in Int,
         \A x \in D : x # a => f[x] = 0
  PROVE  SumFunctionOnSet(f, D) = f[a]
<1>1. \A x \in D : f[x] \in Int
  OBVIOUS
<1>2. SumFunctionOnSet(f, D) = f[a] + SumFunctionOnSet(f, D \ {a})
  BY <1>1, SumAny
<1>3. IsFiniteSet(D \ {a})
  BY FiniteSubset, Zenon
<1>4. SumFunctionOnSet(f, D \ {a}) = 0
  BY <1>3, SumZero, Zenon
<1> QED  BY <1>2, <1>4

\* The sum when at most one value, at a, is not 0.
LEMMA SumAt ==
  ASSUME NEW D, IsFiniteSet(D), NEW a, NEW x \in Int, NEW f,
         \A y \in D : f[y] = IF y = a THEN x ELSE 0
  PROVE  SumFunctionOnSet(f, D) = IF a \in D THEN x ELSE 0
<1>1. CASE a \in D
  BY <1>1, SumOnly, Zenon
<1>2. CASE a \notin D
  BY <1>2, SumZero, Zenon
<1> QED  BY <1>1, <1>2, Zenon

\* h pairs the elements of D with those of E, and g has at x the value of f at h[x].
Reindexes(g, D, f, E, h) ==
  /\ \A x \in D : h[x] \in E
  /\ \A y \in E : \E x \in D : y = h[x]
  /\ \A x, y \in D : h[x] = h[y] => x = y
  /\ \A x \in D : f[h[x]] \in Int /\ g[x] = f[h[x]]

\* A sum does not depend on how its terms are indexed.
LEMMA SumImage ==
  ASSUME NEW D, IsFiniteSet(D), NEW E, NEW f, NEW g, NEW h, Reindexes(g, D, f, E, h)
  PROVE  SumFunctionOnSet(f, E) = SumFunctionOnSet(g, D)
<1> USE DEF Reindexes
<1> DEFINE Im(s) == {h[x] : x \in s}
           Q == {s \in SUBSET D : /\ IsFiniteSet(Im(s))
                                  /\ SumFunctionOnSet(f, Im(s)) = SumFunctionOnSet(g, s)}
<1>1. {} \in Q
  <2>1. Im({}) = {}
    BY Zenon
  <2> QED  BY <2>1, SumEmpty, FiniteEmpty, Zenon
<1>2. ASSUME NEW s \in SUBSET D, NEW a \in D, s \in Q, a \notin s
      PROVE  s \cup {a} \in Q
  <2>1. IsFiniteSet(s) /\ IsFiniteSet(Im(s))
    BY <1>2, FiniteSubset, Zenon
  <2>2. Im(s \cup {a}) = Im(s) \cup {h[a]} /\ h[a] \notin Im(s)
    BY <1>2
  <2>3. (\A y \in Im(s) : f[y] \in Int) /\ f[h[a]] \in Int
    OBVIOUS
  <2>4. (\A x \in s : g[x] \in Int) /\ g[a] \in Int /\ g[a] = f[h[a]]
    BY Zenon
  <2>5. SumFunctionOnSet(f, Im(s)) = SumFunctionOnSet(g, s)
    BY <1>2, Zenon
  <2> HIDE DEF Im
  <2>6. SumFunctionOnSet(f, Im(s) \cup {h[a]}) = f[h[a]] + SumFunctionOnSet(f, Im(s))
    BY <2>1, <2>2, <2>3, SumAdd, Zenon
  <2>7. SumFunctionOnSet(g, s \cup {a}) = g[a] + SumFunctionOnSet(g, s)
    BY <1>2, <2>1, <2>4, SumAdd
  <2>8. IsFiniteSet(Im(s) \cup {h[a]})
    BY <2>1, FiniteAdd, Zenon
  <2> QED  BY <2>2, <2>4, <2>5, <2>6, <2>7, <2>8, Zenon
<1> HIDE DEF Q
<1>3. D \in Q
  BY <1>1, <1>2, GrowingFamily, Zenon
<1>4. E = Im(D)
  OBVIOUS
<1> QED  BY <1>3, <1>4, Zenon DEF Q

\* The g[x] split U, a part of I, and r[x] is the sum of v over g[x].
Parts(v, I, g, r, X, U) ==
  /\ \A i \in I : v[i] \in Int
  /\ \A x \in X : g[x] \in SUBSET I
  /\ \A x \in X, y \in X : x # y => g[x] \cap g[y] = {}
  /\ \A x \in X : r[x] = SumFunctionOnSet(v, g[x])
  /\ \A i : i \in U <=> \E x \in X : i \in g[x]

\* Parts g[x] of I that do not overlap, each with its own sum r[x].
LEMMA SumParts ==
  ASSUME NEW I, IsFiniteSet(I), NEW X, IsFiniteSet(X),
         NEW v, NEW g, NEW r, NEW U, Parts(v, I, g, r, X, U)
  PROVE  SumFunctionOnSet(r, X) = SumFunctionOnSet(v, U)
<1> USE DEF Parts
<1> DEFINE Of(s) == {i \in I : \E x \in s : i \in g[x]}
           Q == {s \in SUBSET X : SumFunctionOnSet(r, s) = SumFunctionOnSet(v, Of(s))}
<1>1. {} \in Q
  <2>1. Of({}) = {}
    BY Zenon
  <2> QED  BY <2>1, SumEmpty, Zenon
<1>2. \A s : Of(s) \in SUBSET I /\ IsFiniteSet(Of(s))
  BY FiniteSubset, Zenon
<1>3. \A x \in X : r[x] \in Int
  <2> TAKE x \in X
  <2>1. IsFiniteSet(g[x]) /\ \A i \in g[x] : v[i] \in Int
    BY FiniteSubset, Zenon
  <2>2. SumFunctionOnSet(v, g[x]) \in Int
    BY <2>1, SumInt, Zenon
  <2> QED  BY <2>2, Zenon
<1>4. ASSUME NEW s \in SUBSET X, NEW a \in X, s \in Q, a \notin s
      PROVE  s \cup {a} \in Q
  <2>1. Of(s \cup {a}) = g[a] \cup Of(s) /\ g[a] \cap Of(s) = {}
    BY <1>4
  <2>2. SumFunctionOnSet(r, s) = SumFunctionOnSet(v, Of(s))
    BY <1>4, Zenon
  <2> HIDE DEF Of
  <2>3. SumFunctionOnSet(v, g[a] \cup Of(s))
          = SumFunctionOnSet(v, g[a]) + SumFunctionOnSet(v, Of(s))
    <3>1. IsFiniteSet(g[a]) /\ IsFiniteSet(Of(s)) /\ \A i \in g[a] \cup Of(s) : v[i] \in Int
      BY <1>2, FiniteSubset, Zenon
    <3> QED  BY <2>1, <3>1, SumUnion
  <2>4. IsFiniteSet(s)
    BY FiniteSubset, Zenon
  <2>5. SumFunctionOnSet(r, s \cup {a}) = r[a] + SumFunctionOnSet(r, s)
    BY <1>3, <1>4, <2>4, SumAdd, Zenon
  <2>6. SumFunctionOnSet(r, s \cup {a}) = SumFunctionOnSet(v, Of(s \cup {a}))
    BY <2>1, <2>2, <2>3, <2>5, Zenon
  <2> QED  BY <2>6, Zenon
<1>5. Of(X) = U
  BY Zenon
<1> HIDE DEF Q
<1>6. X \in Q
  BY <1>1, <1>4, GrowingFamily, Zenon
<1> QED  BY <1>5, <1>6, Zenon DEF Q

\* The sum over a part is no more than the sum.
LEMMA SumPart ==
  ASSUME NEW D, IsFiniteSet(D), NEW E \in SUBSET D, NEW f, \A x \in D : f[x] \in Nat
  PROVE  SumFunctionOnSet(f, E) <= SumFunctionOnSet(f, D)
<1>1. IsFiniteSet(E) /\ IsFiniteSet(D \ E)
  BY FiniteSubset, Zenon
<1>2. E \cup (D \ E) = D /\ E \cap (D \ E) = {} /\ \A x \in E \cup (D \ E) : f[x] \in Int
  OBVIOUS
<1>3. SumFunctionOnSet(f, E \cup (D \ E)) = SumFunctionOnSet(f, E) + SumFunctionOnSet(f, D \ E)
  BY <1>1, <1>2, SumUnion, Zenon
<1>4. SumFunctionOnSet(f, E) \in Nat /\ SumFunctionOnSet(f, D \ E) \in Nat
  BY <1>1, SumNat, Zenon
<1>5. SumFunctionOnSet(f, E \cup (D \ E)) = SumFunctionOnSet(f, D)
  BY <1>2, Zenon
<1> QED  BY <1>3, <1>4, <1>5

-----------------------------------------------------------------------------
(* The sum of all the values of a function *)

\* Changing one value changes the sum by the difference.
LEMMA TotalUpdate ==
  ASSUME NEW f, IsFiniteSet(DOMAIN f), \A x \in DOMAIN f : f[x] \in Int,
         NEW a \in DOMAIN f, NEW v \in Int
  PROVE  SumFunction([f EXCEPT ![a] = v]) = SumFunction(f) - f[a] + v
<1> DEFINE D == DOMAIN f
           g == [f EXCEPT ![a] = v]
<1>1. DOMAIN g = D /\ g[a] = v /\ (\A x \in D \ {a} : g[x] = f[x]) /\ \A x \in D : g[x] \in Int
  BY Zenon
<1>2. IsFiniteSet(D \ {a})
  BY FiniteSubset, Zenon
<1> HIDE DEF g
<1>3. SumFunctionOnSet(g, D) = v + SumFunctionOnSet(g, D \ {a})
  BY <1>1, SumAny
<1>4. SumFunctionOnSet(f, D) = f[a] + SumFunctionOnSet(f, D \ {a})
  BY SumAny
<1>5. SumFunctionOnSet(g, D \ {a}) = SumFunctionOnSet(f, D \ {a})
  BY <1>1, <1>2, SumSame, Zenon
<1>6. SumFunctionOnSet(f, D \ {a}) \in Int
  BY <1>2, SumInt, Zenon
<1>7. SumFunction(g) = SumFunctionOnSet(g, D) /\ SumFunction(f) = SumFunctionOnSet(f, D)
  BY <1>1, Zenon DEF SumFunction
<1> QED  BY <1>3, <1>4, <1>5, <1>6, <1>7 DEF g

\* Dropping or adding a value of 0 does not change it.
LEMMA TotalDrop ==
  ASSUME NEW f, IsFiniteSet(DOMAIN f), \A x \in DOMAIN f : f[x] \in Int,
         NEW a \in DOMAIN f, f[a] = 0,
         NEW g, DOMAIN g = DOMAIN f \ {a}, \A x \in DOMAIN g : g[x] = f[x]
  PROVE  SumFunction(g) = SumFunction(f)
<1>1. SumFunctionOnSet(f, DOMAIN f) = f[a] + SumFunctionOnSet(f, DOMAIN f \ {a})
  BY SumAny
<1>2. IsFiniteSet(DOMAIN f \ {a})
  BY FiniteSubset, Zenon
<1>3. SumFunctionOnSet(g, DOMAIN g) = SumFunctionOnSet(f, DOMAIN f \ {a})
  BY <1>2, SumSame
<1>4. SumFunctionOnSet(f, DOMAIN f \ {a}) \in Int
  BY <1>2, SumInt, Zenon
<1> QED  BY <1>1, <1>3, <1>4 DEF SumFunction

\* The sum of natural numbers is one.
LEMMA TotalNat ==
  ASSUME NEW f, IsFiniteSet(DOMAIN f), \A x \in DOMAIN f : f[x] \in Nat
  PROVE  SumFunction(f) \in Nat
BY SumNat, Zenon DEF SumFunction

-----------------------------------------------------------------------------
(* Sums of sequences *)

\* The positions of a sequence.
LEMMA SeqFinite ==
  ASSUME NEW T, NEW u \in Seq(T)
  PROVE  DOMAIN u = 1..Len(u) /\ IsFiniteSet(DOMAIN u) /\ Len(u) \in Nat
<1>1. DOMAIN u = 1..Len(u) /\ Len(u) \in Nat
  OBVIOUS
<1>2. IsFiniteSet(1..Len(u))
  BY <1>1, FiniteInterval
<1> QED  BY <1>1, <1>2, Zenon

\* The sum of a concatenation.
LEMMA TotalConcat ==
  ASSUME NEW u \in Seq(Int), NEW v \in Seq(Int)
  PROVE  SumFunction(u \o v) = SumFunction(u) + SumFunction(v)
<1> DEFINE m == Len(u)
           n == Len(v)
           w == u \o v
           h == [i \in 1..n |-> m + i]
           A == 1..m
           B == 1..n
           E == (m + 1)..(m + n)
<1>1. m \in Nat /\ n \in Nat /\ DOMAIN u = A /\ DOMAIN v = B /\ DOMAIN w = 1..(m + n)
  OBVIOUS
<1>2. /\ \A i \in A : w[i] = u[i] /\ u[i] \in Int
      /\ \A i \in B : w[m + i] = v[i] /\ v[i] \in Int
  OBVIOUS
<1>3. IsFiniteSet(A) /\ IsFiniteSet(B) /\ IsFiniteSet(E)
  BY <1>1, FiniteInterval
<1> HIDE DEF m, n, w
<1>4. \A j \in E : j - m \in B /\ h[j - m] = j
  BY <1>1
<1>5. SumFunctionOnSet(w, E) = SumFunctionOnSet(v, B)
  <2>1. \A x, y \in B : h[x] = h[y] => x = y
    BY <1>1
  <2>2. \A x \in B : w[h[x]] \in Int /\ v[x] = w[h[x]]
    BY <1>2, Zenon
  <2>3. \A x \in B : h[x] \in E
    BY <1>1
  <2>4. \A y \in E : \E x \in B : y = h[x]
    BY <1>4, Zenon
  <2> HIDE DEF h, E, B
  <2>5. IsFiniteSet(B)
    BY <1>3, Zenon
  <2>6. Reindexes(v, B, w, E, h)
    BY <2>1, <2>2, <2>3, <2>4, Zenon DEF Reindexes
  <2> QED  BY ONLY <2>5, <2>6, SumImage
<1>6. A \cup E = 1..(m + n) /\ A \cap E = {}
  BY <1>1
<1>7. \A i \in A \cup E : w[i] \in Int
  <2>1. \A i \in E : i - m \in B /\ i = m + (i - m)
    BY <1>1
  <2>2. \A i \in E : w[i] \in Int
    <3> TAKE i \in E
    <3>1. w[m + (i - m)] \in Int
      BY <1>2, <2>1, Zenon
    <3> QED  BY <2>1, <3>1, Zenon
  <2> QED  BY <1>2, <2>2, Zenon
<1> HIDE DEF E, A, B
<1>8. SumFunctionOnSet(w, A) = SumFunctionOnSet(u, A)
  BY <1>2, <1>3, SumSame, Zenon
<1>9. SumFunctionOnSet(w, A \cup E) = SumFunctionOnSet(w, A) + SumFunctionOnSet(w, E)
  BY <1>3, <1>6, <1>7, SumUnion, Zenon
<1> QED  BY <1>1, <1>5, <1>6, <1>8, <1>9, Zenon DEF SumFunction, w

\* The sum of one number.
LEMMA TotalOne ==
  ASSUME NEW x \in Int
  PROVE  SumFunction(<<x>>) = x
<1>1. DOMAIN <<x>> = {1} /\ <<x>>[1] = x
  OBVIOUS
<1>2. IsFiniteSet({1})
  <2>1. {1} = {} \cup {1}
    BY Zenon
  <2> QED  BY <2>1, FiniteEmpty, FiniteAdd, Zenon
<1> DEFINE f == <<x>>
<1>3. DOMAIN f = {1} /\ f[1] = x
  BY <1>1, Zenon
<1> HIDE DEF f
<1>4. f[1] \in Int /\ \A y \in {1} : y # 1 => f[y] = 0
  BY <1>3, Zenon
<1>5. SumFunctionOnSet(f, {1}) = f[1]
  BY <1>2, <1>4, SumOnly, Zenon
<1> QED  BY <1>3, <1>5, Zenon DEF SumFunction, f

\* A concatenation as a function.
LEMMA ConcatFacts ==
  ASSUME NEW T, NEW u \in Seq(T), NEW v \in Seq(T)
  PROVE  u \o v = [i \in 1..(Len(u) + Len(v)) |-> IF i <= Len(u) THEN u[i] ELSE v[i - Len(u)]]
<1> DEFINE w == u \o v
           m == Len(u)
           n == Len(v)
<1>1. w \in Seq(T) /\ Len(w) = m + n /\ m \in Nat /\ n \in Nat
  OBVIOUS
<1>2. \A i \in 1..(m + n) : w[i] = IF i <= m THEN u[i] ELSE v[i - m]
  OBVIOUS
<1> HIDE DEF w, m, n
<1>3. w \in [1..(m + n) -> T]
  BY <1>1
<1>4. w = [i \in 1..(m + n) |-> w[i]]
  BY <1>3, Zenon
<1> QED  BY <1>2, <1>4, Zenon DEF w, m, n

\* What the elements of a sequence weigh.
Weights(u, w) == [i \in DOMAIN u |-> w[u[i]]]

\* They are the elements of a sequence of numbers.
LEMMA WeightsSeq ==
  ASSUME NEW T, NEW u \in Seq(T), NEW w, \A x \in T : w[x] \in Int
  PROVE  Weights(u, w) \in Seq(Int) /\ Len(Weights(u, w)) = Len(u)
BY SeqFinite DEF Weights

\* Together they weigh a natural number, if each of them does.
LEMMA WeightsNat ==
  ASSUME NEW T, NEW u \in Seq(T), NEW w, \A x \in T : w[x] \in Nat
  PROVE  SumFunction(Weights(u, w)) \in Nat
BY SeqFinite, TotalNat DEF Weights

\* The weight of a concatenation.
LEMMA WeightsConcat ==
  ASSUME NEW T, NEW u \in Seq(T), NEW v \in Seq(T), NEW w, \A x \in T : w[x] \in Int
  PROVE  /\ u \o v \in Seq(T)
         /\ SumFunction(Weights(u \o v, w)) = SumFunction(Weights(u, w)) + SumFunction(Weights(v, w))
<1> DEFINE f == Weights(u, w)
           g == Weights(v, w)
           m == Len(u)
           n == Len(v)
<1>1. f \in Seq(Int) /\ g \in Seq(Int) /\ Len(f) = m /\ Len(g) = n
  BY WeightsSeq, Zenon
<1>2. /\ m \in Nat /\ n \in Nat /\ DOMAIN u = 1..m /\ DOMAIN v = 1..n
      /\ u \o v \in Seq(T) /\ DOMAIN (u \o v) = 1..(m + n)
      /\ \A i \in 1..(m + n) : (u \o v)[i] = IF i <= m THEN u[i] ELSE v[i - m]
  BY SeqFinite
<1>3. /\ \A i \in 1..m : f[i] = w[u[i]]
      /\ \A i \in 1..n : g[i] = w[v[i]]
  BY <1>2, Zenon DEF Weights
<1> HIDE DEF f, g
<1>4. /\ f \o g = [i \in 1..(m + n) |-> (f \o g)[i]]
      /\ \A i \in 1..(m + n) : (f \o g)[i] = IF i <= m THEN f[i] ELSE g[i - m]
  <2> HIDE DEF m, n
  <2>1. f \o g = [i \in 1..(Len(f) + Len(g)) |-> IF i <= Len(f) THEN f[i] ELSE g[i - Len(f)]]
    BY <1>1, ConcatFacts, Zenon
  <2> QED  BY <1>1, <2>1, Zenon
<1>5. \A i \in 1..(m + n) : (f \o g)[i] = w[(u \o v)[i]]
  <2> SUFFICES ASSUME NEW i \in 1..(m + n) PROVE (f \o g)[i] = w[(u \o v)[i]]
    BY Zenon
  <2>1. CASE i <= m
    BY <1>2, <1>3, <1>4, <2>1
  <2>2. CASE ~ i <= m
    BY <1>2, <1>3, <1>4, <2>2
  <2> QED  BY <2>1, <2>2, Zenon
<1>6. Weights(u \o v, w) = f \o g
  BY <1>2, <1>4, <1>5, Zenon DEF Weights
<1> QED  BY <1>1, <1>2, <1>6, TotalConcat, Zenon DEF f, g

\* The weight of one element.
LEMMA WeightsOne ==
  ASSUME NEW T, NEW x \in T, NEW w, w[x] \in Int
  PROVE  <<x>> \in Seq(T) /\ SumFunction(Weights(<<x>>, w)) = w[x]
BY TotalOne DEF Weights

\* The element at the head and the rest.
LEMMA WeightsTail ==
  ASSUME NEW T, NEW u \in Seq(T), u # <<>>, NEW w, \A x \in T : w[x] \in Int
  PROVE  /\ Head(u) \in T /\ Tail(u) \in Seq(T)
         /\ SumFunction(Weights(u, w)) = w[Head(u)] + SumFunction(Weights(Tail(u), w))
<1>1. Head(u) \in T /\ Tail(u) \in Seq(T) /\ u = <<Head(u)>> \o Tail(u)
  OBVIOUS
<1> DEFINE first == <<Head(u)>>
           rest == Tail(u)
<1>2. first \in Seq(T) /\ SumFunction(Weights(first, w)) = w[Head(u)]
  BY <1>1, WeightsOne, Zenon
<1> HIDE DEF first, rest
<1>3. rest \in Seq(T) /\ u = first \o rest
  BY <1>1, Zenon DEF first, rest
<1>4. SumFunction(Weights(first \o rest, w)) = SumFunction(Weights(first, w)) + SumFunction(Weights(rest, w))
  BY <1>2, <1>3, WeightsConcat
<1> QED  BY <1>1, <1>2, <1>3, <1>4, Zenon DEF rest

\* An element at the end.
LEMMA WeightsAppend ==
  ASSUME NEW T, NEW u \in Seq(T), NEW x \in T, NEW w, \A y \in T : w[y] \in Int
  PROVE  SumFunction(Weights(Append(u, x), w)) = SumFunction(Weights(u, w)) + w[x]
<1> DEFINE last == <<x>>
<1>1. last \in Seq(T) /\ SumFunction(Weights(last, w)) = w[x] /\ Append(u, x) = u \o last
  BY WeightsOne
<1> HIDE DEF last
<1> QED  BY <1>1, WeightsConcat

\* Nothing weighs nothing.
LEMMA WeightsNone ==
  ASSUME NEW w
  PROVE  SumFunction(Weights(<<>>, w)) = 0
BY SumEmpty DEF SumFunction, Weights

-----------------------------------------------------------------------------
(* Arithmetic *)

\* Products grow with their factors.
LEMMA Products ==
  ASSUME NEW a \in Nat, NEW b \in Nat, NEW c \in Nat, NEW d \in Nat, a <= b, c <= d
  PROVE  a * c \in Nat /\ a * c <= b * d
<1>1. a * c <= b * c /\ b * c <= b * d
  <2>1. \E k \in Nat : b = a + k
    <3>1. b - a \in Nat /\ b = a + (b - a)
      OBVIOUS
    <3> QED  BY <3>1, Zenon
  <2>2. PICK k \in Nat : b = a + k
    BY <2>1, Zenon
  <2>3. \E j \in Nat : d = c + j
    <3>1. d - c \in Nat /\ d = c + (d - c)
      OBVIOUS
    <3> QED  BY <3>1, Zenon
  <2>4. PICK j \in Nat : d = c + j
    BY <2>3, Zenon
  <2>5. b * c = a * c + k * c /\ k * c \in Nat /\ b * d = b * c + b * j /\ b * j \in Nat
    BY <2>2, <2>4
  <2> QED  BY <2>5
<1> QED  BY <1>1

\* A share c of d hundredths, say, is a part of the whole.
LEMMA Divided ==
  ASSUME NEW a \in Nat, NEW c \in Nat, NEW d \in Nat \ {0}, c <= d
  PROVE  (a * c) \div d \in 0..a
<1>1. a * c \in Nat /\ a * c <= a * d
  BY Products
<1> DEFINE x == a * c
           y == x \div d
<1>2. a * d \in Nat /\ a * d = d * a
  OBVIOUS
<1> HIDE DEF x
<1>3. y \in Int /\ d * y <= x /\ x < d * (y + 1)
  BY <1>1 DEF x
<1>4. y >= 0
  <2>1. ASSUME y < 0 PROVE FALSE
    <3>1. 0 - (y + 1) \in Nat
      BY <1>3, <2>1
    <3>2. d * (0 - (y + 1)) \in Nat
      BY <3>1
    <3>3. d * (y + 1) = 0 - d * (0 - (y + 1))
      BY <1>3
    <3> QED  BY <1>1, <1>3, <3>2, <3>3 DEF x
  <2> QED  BY <1>3, <2>1
<1>5. y <= a
  <2>1. ASSUME y > a PROVE FALSE
    <3>1. y - a - 1 \in Nat
      BY <1>3, <2>1
    <3>2. d * (y - a - 1) \in Nat
      BY <3>1
    <3>3. d * y = d * a + d + d * (y - a - 1)
      BY <1>3
    <3> QED  BY <1>1, <1>2, <1>3, <3>2, <3>3 DEF x
  <2> QED  BY <1>3, <2>1
<1> QED  BY <1>3, <1>4, <1>5 DEF x

=============================================================================
