----------------------------- MODULE SumLemmas ------------------------------
(***************************************************************************)
(* Sums over finite sets (SumFunctionOnSet), as the risk manager and the   *)
(* exposure of a ticker use them.  Each induction over finite sets looks   *)
(* at a smallest set for which the claim fails.                            *)
(***************************************************************************)
EXTENDS Integers, Functions, FiniteSetTheorems, WellFoundedInduction, TLAPS

\* Every nonempty set of naturals has a least element.
LEMMA LeastNatural ==
    ASSUME NEW T, T \subseteq Nat, T # {}
    PROVE  \E m \in T : \A k \in T : m <= k
<1> DEFINE less == {ss \in Nat \X Nat : ss[1] < ss[2]}
<1>1. IsWellFoundedOn(less, Nat)
  BY NatLessThanWellFounded DEF OpToRel
<1> HIDE DEF less
<1>2. PICK m \in T : \A k \in T : ~(<<k, m>> \in less)
  BY <1>1, WFMin
<1>3. ASSUME NEW k \in T PROVE m <= k
  <2>1. <<k, m>> \notin less
    BY <1>2
  <2> QED
    BY <2>1 DEF less
<1> QED
  BY <1>3

\* The element the fold takes next.
Chosen(s) == CHOOSE x \in s : TRUE

\* g is a fold of f over the subsets of S.
Sums(f, S, g) == g = [s \in SUBSET S |-> IF s = {} THEN 0 ELSE f[Chosen(s)] + g[s \ {Chosen(s)}]]

\* The sum as the library defines it: the fold over SUBSET S, taken at S.
LEMMA SumUnfold ==
    ASSUME NEW f, NEW S
    PROVE  SumFunctionOnSet(f, S) = (CHOOSE g : Sums(f, S, g))[S]
  BY DEF SumFunctionOnSet, FoldFunctionOnSet, MapThenFoldSet, Sums, Chosen

\* Induction over finite sets, as a smallest counterexample.
LEMMA SmallestSet ==
    ASSUME NEW B, B # {}, \A s \in B : IsFiniteSet(s)
    PROVE  \E s \in B : \A t \in B : Cardinality(s) <= Cardinality(t)
<1> DEFINE sizes == {Cardinality(s) : s \in B}
<1>1. sizes \subseteq Nat /\ sizes # {}
  BY FS_CardinalityType
<1> HIDE DEF sizes
<1>2. PICK m \in sizes : \A k \in sizes : m <= k
  BY <1>1, LeastNatural
<1> QED
  BY <1>2 DEF sizes

\* Two folds of f agree wherever both are defined.
LEMMA SumsAgree ==
    ASSUME NEW f, NEW S, NEW T, NEW g, NEW h, Sums(f, S, g), Sums(f, T, h),
           NEW u, u \subseteq S, u \subseteq T, IsFiniteSet(u)
    PROVE  g[u] = h[u]
<1> DEFINE B == {s \in SUBSET u : g[s] # h[s]}
<1>1. SUFFICES ASSUME B # {} PROVE FALSE
  OBVIOUS
<1>2. PICK s \in B : \A t \in B : Cardinality(s) <= Cardinality(t)
  BY <1>1, SmallestSet, FS_Subset
<1> DEFINE rest == s \ {Chosen(s)}
<1>3. s \in SUBSET S /\ s \in SUBSET T /\ IsFiniteSet(s)
  BY FS_Subset
<1>4. g[s] = IF s = {} THEN 0 ELSE f[Chosen(s)] + g[rest]
  BY <1>3 DEF Sums
<1>5. h[s] = IF s = {} THEN 0 ELSE f[Chosen(s)] + h[rest]
  BY <1>3 DEF Sums
<1>6. s # {} /\ g[rest] # h[rest]
  BY <1>4, <1>5
<1>7. Chosen(s) \in s
  BY <1>6 DEF Chosen
<1>8. Cardinality(rest) = Cardinality(s) - 1 /\ Cardinality(s) \in Nat
  BY <1>3, <1>7, FS_RemoveElement, FS_CardinalityType
<1>9. rest \in B
  BY <1>6
<1> QED
  BY <1>2, <1>8, <1>9

\* The recursion that defines the fold has a solution on a finite set.
LEMMA SumsExist ==
    ASSUME NEW f, NEW S, IsFiniteSet(S)
    PROVE  \E g : Sums(f, S, g)
<1> DEFINE upTo(n) == {s \in SUBSET S : Cardinality(s) <= n}
           step(g, s) == IF s = {} THEN 0 ELSE f[Chosen(s)] + g[s \ {Chosen(s)}]
           sums(g, n) == g = [s \in upTo(n) |-> step(g, s)]
           B == {n \in Nat : \A g : ~sums(g, n)}
<1>1. ASSUME NEW s \in SUBSET S
      PROVE  /\ IsFiniteSet(s) /\ Cardinality(s) \in Nat
             /\ Cardinality(s) = 0 <=> s = {}
             /\ s # {} => /\ Chosen(s) \in s
                          /\ Cardinality(s \ {Chosen(s)}) = Cardinality(s) - 1
  <2>1. IsFiniteSet(s) /\ Cardinality(s) \in Nat
    BY FS_Subset, FS_CardinalityType
  <2>2. s # {} => Chosen(s) \in s
    BY DEF Chosen
  <2> QED
    BY <2>1, <2>2, FS_EmptySet, FS_RemoveElement
<1>2. B = {}
  <2>1. SUFFICES ASSUME B # {} PROVE FALSE
    OBVIOUS
  <2>2. PICK n \in B : \A k \in B : n <= k
    BY <2>1, LeastNatural
  <2>3. n # 0
    <3>1. upTo(0) = {{}}
      <4> HIDE DEF B
      <4>1. ASSUME NEW s \in upTo(0) PROVE s = {}
        <5>1. s \in SUBSET S /\ Cardinality(s) <= 0
          OBVIOUS
        <5>2. Cardinality(s) \in Nat /\ (Cardinality(s) = 0 <=> s = {})
          BY <5>1, <1>1
        <5> HIDE DEF upTo
        <5> QED
          BY <5>1, <5>2
      <4>2. {} \in upTo(0)
        BY FS_EmptySet
      <4> QED
        BY <4>1, <4>2
    <3>2. sums([s \in {{}} |-> 0], 0)
      BY <3>1
    <3> QED
      BY <3>2
  <2>4. n \in Nat
    OBVIOUS
  <2>5. PICK g : sums(g, n - 1)
    <3> HIDE DEF B
    <3>1. n - 1 \in Nat /\ n - 1 \notin B
      BY <2>2, <2>3, <2>4
    <3> QED
      BY <3>1 DEF B
  <2> DEFINE h == [s \in upTo(n) |-> step(g, s)]
  <2>6. ASSUME NEW s \in upTo(n) PROVE step(g, s) = step(h, s)
    <3>1. CASE s = {}
      BY <3>1
    <3>2. CASE s # {}
      <4> DEFINE rest == s \ {Chosen(s)}
      <4>1. rest \in upTo(n - 1) /\ rest \in upTo(n)
        BY <1>1, <3>2
      <4>2. g[rest] = step(g, rest)
        BY <2>5, <4>1
      <4>3. h[rest] = step(g, rest)
        BY <4>1
      <4> QED
        BY <4>2, <4>3
    <3> QED
      BY <3>1, <3>2
  <2>7. sums(h, n)
    BY <2>6
  <2> QED
    BY <2>7
<1>3. PICK g : sums(g, Cardinality(S))
  <2>1. Cardinality(S) \in Nat
    BY FS_CardinalityType
  <2>2. Cardinality(S) \notin B
    BY <1>2
  <2> QED
    BY <2>1, <2>2
<1>4. upTo(Cardinality(S)) = SUBSET S
  BY FS_Subset
<1>5. Sums(f, S, g)
  BY <1>3, <1>4 DEF Sums
<1> QED
  BY <1>5

\* Hence the sum satisfies its recursion, for the element CHOOSE picks,
LEMMA SumRecursion ==
    ASSUME NEW f, NEW S, IsFiniteSet(S)
    PROVE  SumFunctionOnSet(f, S) =
             IF S = {} THEN 0 ELSE f[Chosen(S)] + SumFunctionOnSet(f, S \ {Chosen(S)})
<1> DEFINE sums(T) == CHOOSE g : Sums(f, T, g)
           rest == S \ {Chosen(S)}
<1>1. Sums(f, S, sums(S))
  BY SumsExist
<1>2. IsFiniteSet(rest) /\ rest \subseteq S
  BY FS_Subset
<1>3. Sums(f, rest, sums(rest))
  BY <1>2, SumsExist
<1>4. sums(S)[rest] = sums(rest)[rest]
  BY <1>1, <1>2, <1>3, SumsAgree
<1>5. sums(S)[S] = IF S = {} THEN 0 ELSE f[Chosen(S)] + sums(S)[rest]
  BY <1>1 DEF Sums
<1> QED
  BY <1>4, <1>5, SumUnfold

\* the sum over nothing is zero,
LEMMA SumEmpty == \A f : SumFunctionOnSet(f, {}) = 0
  BY SumRecursion, FS_EmptySet

\* the sum of integers is an integer,
LEMMA SumType ==
    ASSUME NEW f, NEW S, IsFiniteSet(S), \A x \in S : f[x] \in Int
    PROVE  SumFunctionOnSet(f, S) \in Int
<1> DEFINE B == {s \in SUBSET S : SumFunctionOnSet(f, s) \notin Int}
<1>1. SUFFICES ASSUME B # {} PROVE FALSE
  OBVIOUS
<1>2. PICK s \in B : \A t \in B : Cardinality(s) <= Cardinality(t)
  BY <1>1, SmallestSet, FS_Subset
<1> DEFINE rest == s \ {Chosen(s)}
<1>3. IsFiniteSet(s)
  BY FS_Subset
<1>4. SumFunctionOnSet(f, s) = IF s = {} THEN 0 ELSE f[Chosen(s)] + SumFunctionOnSet(f, rest)
  BY <1>3, SumRecursion
<1>5. s # {} /\ Chosen(s) \in s
  BY <1>4 DEF Chosen
<1>6. Cardinality(rest) = Cardinality(s) - 1 /\ Cardinality(s) \in Nat
  BY <1>3, <1>5, FS_RemoveElement, FS_CardinalityType
<1>7. rest \notin B
  BY <1>2, <1>6
<1> QED
  BY <1>4, <1>5, <1>7

\* and any element can be taken out first.
LEMMA SumRemove ==
    ASSUME NEW f, NEW S, IsFiniteSet(S), \A y \in S : f[y] \in Int, NEW x \in S
    PROVE  SumFunctionOnSet(f, S) = f[x] + SumFunctionOnSet(f, S \ {x})
<1> DEFINE B == {s \in SUBSET S : \E y \in s : SumFunctionOnSet(f, s) # f[y] + SumFunctionOnSet(f, s \ {y})}
<1>1. SUFFICES ASSUME B # {} PROVE FALSE
  OBVIOUS
<1>2. PICK s \in B : \A t \in B : Cardinality(s) <= Cardinality(t)
  BY <1>1, SmallestSet, FS_Subset
<1>3. PICK y \in s : SumFunctionOnSet(f, s) # f[y] + SumFunctionOnSet(f, s \ {y})
  OBVIOUS
<1> DEFINE c == Chosen(s)
           both == (s \ {c}) \ {y}
<1>4. IsFiniteSet(s) /\ IsFiniteSet(s \ {y})
  BY FS_Subset
<1>5. c \in s
  BY DEF Chosen
<1>6. SumFunctionOnSet(f, s) = f[c] + SumFunctionOnSet(f, s \ {c})
  BY <1>4, SumRecursion
<1>7. c # y
  BY <1>3, <1>6
<1>8. /\ Cardinality(s) \in Nat
      /\ Cardinality(s \ {c}) = Cardinality(s) - 1
      /\ Cardinality(s \ {y}) = Cardinality(s) - 1
  BY <1>4, <1>5, FS_RemoveElement, FS_CardinalityType
<1>9. s \ {c} \notin B /\ s \ {y} \notin B
  <2> HIDE DEF B
  <2> QED
    BY <1>2, <1>8
<1>10. SumFunctionOnSet(f, s \ {c}) = f[y] + SumFunctionOnSet(f, both)
  BY <1>7, <1>9
<1>11. (s \ {y}) \ {c} = both
  OBVIOUS
<1>12. SumFunctionOnSet(f, s \ {y}) = f[c] + SumFunctionOnSet(f, both)
  BY <1>5, <1>7, <1>9, <1>11
<1>13. f[c] \in Int /\ f[y] \in Int /\ SumFunctionOnSet(f, both) \in Int
  BY <1>5, SumType, FS_Subset
<1> QED
  BY <1>3, <1>6, <1>10, <1>12, <1>13

\* Larger terms have a larger sum.
LEMMA SumMonotone ==
    ASSUME NEW f, NEW g, NEW S, IsFiniteSet(S),
           \A x \in S : f[x] \in Int /\ g[x] \in Int /\ f[x] <= g[x]
    PROVE  SumFunctionOnSet(f, S) <= SumFunctionOnSet(g, S)
<1> DEFINE B == {s \in SUBSET S : ~(SumFunctionOnSet(f, s) <= SumFunctionOnSet(g, s))}
<1>1. SUFFICES ASSUME B # {} PROVE FALSE
  OBVIOUS
<1>2. PICK s \in B : \A t \in B : Cardinality(s) <= Cardinality(t)
  BY <1>1, SmallestSet, FS_Subset
<1>3. s \subseteq S /\ IsFiniteSet(s)
  BY FS_Subset
<1>4. s # {}
  BY SumEmpty
<1>5. PICK x \in s : TRUE
  BY <1>4
<1> DEFINE rest == s \ {x}
<1>6. rest \notin B
  <2> HIDE DEF B
  <2>1. Cardinality(rest) = Cardinality(s) - 1 /\ Cardinality(s) \in Nat
    BY <1>3, FS_RemoveElement, FS_CardinalityType
  <2> QED
    BY <1>2, <2>1
<1>7. IsFiniteSet(rest) /\ rest \subseteq S
  BY <1>3, FS_Subset
<1>8. /\ SumFunctionOnSet(f, s) = f[x] + SumFunctionOnSet(f, rest)
      /\ SumFunctionOnSet(g, s) = g[x] + SumFunctionOnSet(g, rest)
  BY <1>3, SumRemove
<1>9. SumFunctionOnSet(f, rest) \in Int /\ SumFunctionOnSet(g, rest) \in Int
  BY <1>7, SumType
<1>10. SumFunctionOnSet(f, rest) <= SumFunctionOnSet(g, rest)
  BY <1>6
<1>11. f[x] \in Int /\ g[x] \in Int /\ f[x] <= g[x]
  OBVIOUS
<1>12. SumFunctionOnSet(f, s) <= SumFunctionOnSet(g, s)
  BY ONLY <1>8, <1>9, <1>10, <1>11
<1> QED
  BY <1>12

\* Equal terms have an equal sum.
LEMMA SumEqual ==
    ASSUME NEW f, NEW g, NEW S, IsFiniteSet(S), \A x \in S : f[x] \in Int /\ f[x] = g[x]
    PROVE  SumFunctionOnSet(f, S) = SumFunctionOnSet(g, S)
<1>1. SumFunctionOnSet(f, S) \in Int /\ SumFunctionOnSet(g, S) \in Int
  BY SumType
<1>2. SumFunctionOnSet(f, S) <= SumFunctionOnSet(g, S) /\ SumFunctionOnSet(g, S) <= SumFunctionOnSet(f, S)
  BY SumMonotone
<1> QED
  BY <1>1, <1>2

\* Terms in 0..b add up to at most b times their number.
LEMMA SumBounds ==
    ASSUME NEW f, NEW S, IsFiniteSet(S), NEW b \in Nat, \A x \in S : f[x] \in 0..b
    PROVE  SumFunctionOnSet(f, S) \in Nat /\ SumFunctionOnSet(f, S) <= Cardinality(S) * b
<1> DEFINE B == {s \in SUBSET S : ~(SumFunctionOnSet(f, s) \in Nat /\ SumFunctionOnSet(f, s) <= Cardinality(s) * b)}
<1>1. SUFFICES ASSUME B # {} PROVE FALSE
  OBVIOUS
<1>2. PICK s \in B : \A t \in B : Cardinality(s) <= Cardinality(t)
  BY <1>1, SmallestSet, FS_Subset
<1>3. s \subseteq S /\ IsFiniteSet(s)
  BY FS_Subset
<1>4. s # {}
  BY SumEmpty, FS_EmptySet
<1>5. PICK x \in s : TRUE
  BY <1>4
<1> DEFINE rest == s \ {x}
<1>6. rest \notin B
  <2> HIDE DEF B
  <2>1. Cardinality(rest) = Cardinality(s) - 1 /\ Cardinality(s) \in Nat
    BY <1>3, FS_RemoveElement, FS_CardinalityType
  <2> QED
    BY <1>2, <2>1
<1>7. IsFiniteSet(rest) /\ rest \subseteq S
  BY <1>3, FS_Subset
<1>8. SumFunctionOnSet(f, s) = f[x] + SumFunctionOnSet(f, rest) /\ f[x] \in 0..b
  BY <1>3, SumRemove
<1>9. SumFunctionOnSet(f, rest) \in Nat /\ SumFunctionOnSet(f, rest) <= Cardinality(rest) * b
  BY <1>6, <1>7
<1>10. Cardinality(s) = Cardinality(rest) + 1 /\ Cardinality(rest) \in Nat
  BY <1>3, <1>7, FS_RemoveElement, FS_CardinalityType
<1>11. Cardinality(s) * b = Cardinality(rest) * b + b
  BY ONLY <1>10, b \in Nat
<1>12. Cardinality(rest) * b \in Nat
  BY ONLY <1>10, b \in Nat
<1>13. SumFunctionOnSet(f, s) \in Nat /\ SumFunctionOnSet(f, s) <= Cardinality(s) * b
  BY ONLY <1>8, <1>9, <1>11, <1>12, b \in Nat
<1> QED
  BY <1>13

\* The sum of naturals is a natural.
LEMMA SumNat ==
    ASSUME NEW f, NEW S, IsFiniteSet(S), \A x \in S : f[x] \in Nat
    PROVE  SumFunctionOnSet(f, S) \in Nat
<1> DEFINE zero == [x \in S |-> 0]
<1>1. SumFunctionOnSet(zero, S) \in Nat /\ SumFunctionOnSet(zero, S) <= Cardinality(S) * 0
  BY SumBounds
<1>2. Cardinality(S) \in Nat
  BY FS_CardinalityType
<1>3. SumFunctionOnSet(zero, S) <= SumFunctionOnSet(f, S)
  BY SumMonotone
<1>4. SumFunctionOnSet(f, S) \in Int
  BY SumType
<1> QED
  BY <1>1, <1>2, <1>3, <1>4

\* The sum of f + g.
LEMMA SumAdd ==
    ASSUME NEW f, NEW g, NEW h, NEW S, IsFiniteSet(S),
           \A x \in S : f[x] \in Int /\ g[x] \in Int /\ h[x] = f[x] + g[x]
    PROVE  SumFunctionOnSet(h, S) = SumFunctionOnSet(f, S) + SumFunctionOnSet(g, S)
<1> DEFINE B == {s \in SUBSET S : SumFunctionOnSet(h, s) # SumFunctionOnSet(f, s) + SumFunctionOnSet(g, s)}
<1>1. SUFFICES ASSUME B # {} PROVE FALSE
  OBVIOUS
<1>2. PICK s \in B : \A t \in B : Cardinality(s) <= Cardinality(t)
  BY <1>1, SmallestSet, FS_Subset
<1>3. s \subseteq S /\ IsFiniteSet(s)
  BY FS_Subset
<1>4. s # {}
  <2>1. SumFunctionOnSet(h, {}) = SumFunctionOnSet(f, {}) + SumFunctionOnSet(g, {})
    BY SumEmpty
  <2> QED
    BY <2>1
<1>5. PICK x \in s : TRUE
  BY <1>4
<1> DEFINE rest == s \ {x}
<1>6. rest \notin B
  <2> HIDE DEF B
  <2>1. Cardinality(rest) = Cardinality(s) - 1 /\ Cardinality(s) \in Nat
    BY <1>3, FS_RemoveElement, FS_CardinalityType
  <2> QED
    BY <1>2, <2>1
<1>7. IsFiniteSet(rest) /\ rest \subseteq S
  BY <1>3, FS_Subset
<1>8. /\ SumFunctionOnSet(f, s) = f[x] + SumFunctionOnSet(f, rest)
      /\ SumFunctionOnSet(g, s) = g[x] + SumFunctionOnSet(g, rest)
      /\ SumFunctionOnSet(h, s) = h[x] + SumFunctionOnSet(h, rest)
  BY <1>3, SumRemove
<1>9. SumFunctionOnSet(f, rest) \in Int /\ SumFunctionOnSet(g, rest) \in Int
  BY <1>7, SumType
<1>10. SumFunctionOnSet(h, rest) = SumFunctionOnSet(f, rest) + SumFunctionOnSet(g, rest)
  BY <1>6
<1>11. f[x] \in Int /\ g[x] \in Int /\ h[x] = f[x] + g[x]
  OBVIOUS
<1>12. SumFunctionOnSet(h, s) = SumFunctionOnSet(f, s) + SumFunctionOnSet(g, s)
  BY ONLY <1>8, <1>9, <1>10, <1>11
<1> QED
  BY <1>12

\* The sum over a disjoint union.
LEMMA SumUnion ==
    ASSUME NEW f, NEW S, NEW T, IsFiniteSet(S), IsFiniteSet(T), S \cap T = {},
           \A x \in S \cup T : f[x] \in Int
    PROVE  SumFunctionOnSet(f, S \cup T) = SumFunctionOnSet(f, S) + SumFunctionOnSet(f, T)
<1> DEFINE B == {s \in SUBSET S : SumFunctionOnSet(f, s \cup T) # SumFunctionOnSet(f, s) + SumFunctionOnSet(f, T)}
<1>1. SUFFICES ASSUME B # {} PROVE FALSE
  OBVIOUS
<1>2. PICK s \in B : \A t \in B : Cardinality(s) <= Cardinality(t)
  BY <1>1, SmallestSet, FS_Subset
<1>3. s \subseteq S /\ IsFiniteSet(s)
  BY FS_Subset
<1>4. s # {}
  <2>1. SumFunctionOnSet(f, T) \in Int
    BY SumType
  <2>2. {} \cup T = T
    OBVIOUS
  <2> QED
    BY <2>1, <2>2, SumEmpty
<1>5. PICK x \in s : TRUE
  BY <1>4
<1> DEFINE rest == s \ {x}
<1>6. rest \notin B
  <2> HIDE DEF B
  <2>1. Cardinality(rest) = Cardinality(s) - 1 /\ Cardinality(s) \in Nat
    BY <1>3, FS_RemoveElement, FS_CardinalityType
  <2> QED
    BY <1>2, <2>1
<1>7. IsFiniteSet(rest) /\ rest \subseteq S
  BY <1>3, FS_Subset
<1>8. IsFiniteSet(s \cup T) /\ (s \cup T) \ {x} = rest \cup T
  BY <1>3, FS_Union
<1>9. SumFunctionOnSet(f, s) = f[x] + SumFunctionOnSet(f, rest)
  BY <1>3, SumRemove
<1>10. SumFunctionOnSet(f, s \cup T) = f[x] + SumFunctionOnSet(f, rest \cup T)
  BY <1>8, SumRemove
<1>11. SumFunctionOnSet(f, rest) \in Int /\ SumFunctionOnSet(f, T) \in Int /\ f[x] \in Int
  BY <1>7, SumType
<1>12. SumFunctionOnSet(f, rest \cup T) = SumFunctionOnSet(f, rest) + SumFunctionOnSet(f, T)
  BY <1>6
<1>13. SumFunctionOnSet(f, s \cup T) = SumFunctionOnSet(f, s) + SumFunctionOnSet(f, T)
  BY ONLY <1>9, <1>10, <1>11, <1>12
<1> QED
  BY <1>13

\* Renaming the indices by an injection does not change the sum.
LEMMA SumReindexed ==
    ASSUME NEW f, NEW g, NEW S, NEW h, IsFiniteSet(S),
           \A x \in S : f[x] \in Int /\ f[x] = g[h[x]],
           \A x, y \in S : h[x] = h[y] => x = y
    PROVE  SumFunctionOnSet(f, S) = SumFunctionOnSet(g, {h[x] : x \in S})
<1> DEFINE B == {s \in SUBSET S : SumFunctionOnSet(f, s) # SumFunctionOnSet(g, {h[x] : x \in s})}
<1>1. SUFFICES ASSUME B # {} PROVE FALSE
  OBVIOUS
<1>2. PICK s \in B : \A t \in B : Cardinality(s) <= Cardinality(t)
  BY <1>1, SmallestSet, FS_Subset
<1>3. s \subseteq S /\ IsFiniteSet(s)
  BY FS_Subset
<1>4. s # {}
  <2>1. {h[y] : y \in {}} = {}
    OBVIOUS
  <2> QED
    BY <2>1, SumEmpty
<1>5. PICK x \in s : TRUE
  BY <1>4
<1> DEFINE rest == s \ {x}
<1>6. rest \notin B
  <2> HIDE DEF B
  <2>1. Cardinality(rest) = Cardinality(s) - 1 /\ Cardinality(s) \in Nat
    BY <1>3, FS_RemoveElement, FS_CardinalityType
  <2> QED
    BY <1>2, <2>1
<1>7. IsFiniteSet(rest) /\ rest \subseteq S
  BY <1>3, FS_Subset
<1> DEFINE image(u) == {h[y] : y \in u}
<1>8. IsFiniteSet(image(s))
  <2>1. [y \in s |-> h[y]] \in Surjection(s, image(s))
    BY DEF Surjection
  <2> QED
    BY <1>3, <2>1, FS_Surjection
<1>9. image(s) \ {h[x]} = image(rest) /\ h[x] \in image(s)
  BY <1>3
<1>10. \A y \in image(s) : g[y] \in Int
  BY <1>3
<1>11. SumFunctionOnSet(f, s) = f[x] + SumFunctionOnSet(f, rest)
  BY <1>3, SumRemove
<1>12. SumFunctionOnSet(g, image(s)) = g[h[x]] + SumFunctionOnSet(g, image(rest))
  BY <1>8, <1>9, <1>10, SumRemove
<1>13. SumFunctionOnSet(f, rest) = SumFunctionOnSet(g, image(rest))
  BY <1>6, <1>7
<1> QED
  BY <1>11, <1>12, <1>13

\* Changing one term changes the sum by the difference.
LEMMA SumChanged ==
    ASSUME NEW f, NEW g, NEW S, IsFiniteSet(S), NEW x \in S,
           \A y \in S : f[y] \in Int /\ g[y] \in Int,
           \A y \in S \ {x} : g[y] = f[y]
    PROVE  SumFunctionOnSet(g, S) = SumFunctionOnSet(f, S) - f[x] + g[x]
<1> DEFINE rest == S \ {x}
<1>1. IsFiniteSet(rest) /\ \A y \in rest : f[y] \in Int /\ f[y] = g[y]
  BY FS_Subset
<1>2. SumFunctionOnSet(f, rest) = SumFunctionOnSet(g, rest)
  BY <1>1, SumEqual
<1>3. SumFunctionOnSet(f, S) = f[x] + SumFunctionOnSet(f, rest)
  BY SumRemove
<1>4. SumFunctionOnSet(g, S) = g[x] + SumFunctionOnSet(g, rest)
  BY SumRemove
<1>5. SumFunctionOnSet(f, rest) \in Int /\ f[x] \in Int /\ g[x] \in Int
  BY <1>1, SumType
<1> QED
  BY <1>2, <1>3, <1>4, <1>5

\* What a sum and an index set change by when only the index x is touched.
LEMMA SumMoved ==
    ASSUME NEW f, NEW g, NEW S, NEW T, NEW x, IsFiniteSet(S), S \ {x} = T \ {x},
           \A y \in S : f[y] \in Int, \A y \in T : g[y] \in Int,
           \A y \in S \ {x} : g[y] = f[y]
    PROVE  SumFunctionOnSet(g, T) - (IF x \in T THEN g[x] ELSE 0)
             = SumFunctionOnSet(f, S) - (IF x \in S THEN f[x] ELSE 0)
<1> DEFINE rest == S \ {x}
<1>1. IsFiniteSet(rest) /\ IsFiniteSet(T)
  <2>1. IsFiniteSet(rest)
    BY FS_Subset
  <2>2. T \subseteq rest \cup {x} /\ IsFiniteSet(rest \cup {x})
    BY <2>1, FS_AddElement
  <2> QED
    BY <2>1, <2>2, FS_Subset
<1>2. SumFunctionOnSet(f, rest) = SumFunctionOnSet(g, rest)
  BY <1>1, SumEqual
<1>3. SumFunctionOnSet(f, rest) \in Int
  BY <1>1, SumType
<1>4. SumFunctionOnSet(f, S) - (IF x \in S THEN f[x] ELSE 0) = SumFunctionOnSet(f, rest)
  <2>1. CASE x \in S
    <3>1. SumFunctionOnSet(f, S) = f[x] + SumFunctionOnSet(f, rest) /\ f[x] \in Int
      BY <2>1, SumRemove
    <3> QED
      BY <1>3, <2>1, <3>1
  <2>2. CASE x \notin S
    <3>1. rest = S
      BY <2>2
    <3> QED
      BY <1>3, <2>2, <3>1
  <2> QED
    BY <2>1, <2>2
<1>5. SumFunctionOnSet(g, T) - (IF x \in T THEN g[x] ELSE 0) = SumFunctionOnSet(g, rest)
  <2>1. CASE x \in T
    <3>1. SumFunctionOnSet(g, T) = g[x] + SumFunctionOnSet(g, T \ {x}) /\ g[x] \in Int
      BY <1>1, <2>1, SumRemove
    <3> QED
      BY <1>2, <1>3, <2>1, <3>1
  <2>2. CASE x \notin T
    <3>1. rest = T
      BY <2>2
    <3> QED
      BY <1>2, <1>3, <2>2, <3>1
  <2> QED
    BY <2>1, <2>2
<1> QED
  BY <1>2, <1>4, <1>5

=============================================================================
