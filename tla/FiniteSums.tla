----------------------------- MODULE FiniteSums -----------------------------
(***************************************************************************)
(* What SumFunctionOnSet of the community module Functions computes: a sum *)
(* out of which any element of the set may be taken first.  Its recursion  *)
(* takes out the element that CHOOSE picks; that the order does not matter *)
(* is shown by least counterexamples over the sizes of sets, which need no *)
(* induction principle for operators.                                      *)
(***************************************************************************)
EXTENDS Integers, FiniteSets, Functions, FiniteSetTheorems, WellFoundedInduction, TLAPS

Picked(s) == CHOOSE x \in s : TRUE

\* it adds f up over the subsets of S, an element at a time.
AddStep(it, f, s) == IF s = {} THEN 0 ELSE f[Picked(s)] + it[s \ {Picked(s)}]
Adds(it, f, S) == it = [s \in SUBSET S |-> AddStep(it, f, s)]

Adder(f, S) ==
    CHOOSE it : it = [s \in SUBSET S |-> IF s = {} THEN 0 ELSE f[Picked(s)] + it[s \ {Picked(s)}]]

\* The subsets of S of at most n elements.
Small(S, n) == {s \in SUBSET S : Cardinality(s) <= n}

\* S is finite, and f has a number for each of its elements.
Summable(f, S) == IsFiniteSet(S) /\ \A x \in S : f[x] \in Int

LEMMA SumIsAdder ==
  ASSUME NEW S, NEW f
  PROVE  SumFunctionOnSet(f, S) = Adder(f, S)[S]
BY DEF SumFunctionOnSet, FoldFunctionOnSet, MapThenFoldSet, Adder, Picked

LEMMA Least ==
  ASSUME NEW T, T \subseteq Nat, T # {}
  PROVE  \E m \in T : \A y \in T : m <= y
<1> DEFINE R == OpToRel(<, Nat)
<1>1. IsWellFoundedOn(R, Nat)
  BY NatLessThanWellFounded
<1> HIDE DEF R
<1>2. PICK m \in T : \A y \in T : ~ (<<y, m>> \in R)
  BY <1>1, WFMin
<1>3. \A y \in T : ~ (y < m)
  BY <1>2 DEF R, OpToRel
<1> QED
  BY <1>3

LEMMA SmallerByOne ==
  ASSUME NEW S, IsFiniteSet(S), NEW s \in SUBSET S, NEW x \in s
  PROVE  /\ IsFiniteSet(s) /\ IsFiniteSet(s \ {x})
         /\ Cardinality(s) \in Nat /\ Cardinality(s \ {x}) \in Nat
         /\ Cardinality(s \ {x}) = Cardinality(s) - 1
<1>1. IsFiniteSet(s)
  BY FS_Subset
<1> QED
  BY <1>1, FS_RemoveElement, FS_CardinalityType

LEMMA PickedIn ==
  ASSUME NEW s, s # {}
  PROVE  Picked(s) \in s
BY DEF Picked

LEMMA AdderExists ==
  ASSUME NEW S, NEW f, Summable(f, S)
  PROVE  \E it \in [SUBSET S -> Int] : Adds(it, f, S)
<1>0. IsFiniteSet(S)
  BY DEF Summable
<1> DEFINE Upto(n) == \E it \in [Small(S, n) -> Int] : \A s \in Small(S, n) : it[s] = AddStep(it, f, s)
           T == {n \in Nat : ~Upto(n)}
<1>1. \A n \in Nat : Upto(n)
  <2>1. SUFFICES ASSUME T # {} PROVE FALSE
    OBVIOUS
  <2>2. T \subseteq Nat
    OBVIOUS
  <2> HIDE DEF T
  <2>3. PICK m \in T : \A y \in T : m <= y
    BY <2>1, <2>2, Least
  <2>4. m \in Nat /\ ~Upto(m)
    BY DEF T
  <2>5. CASE m = 0
    <3>1. ASSUME NEW s \in Small(S, 0) PROVE s = {}
      <4>1. s \in SUBSET S /\ Cardinality(s) <= 0
        BY DEF Small
      <4>2. IsFiniteSet(s) /\ Cardinality(s) \in Nat
        BY <1>0, <4>1, FS_Subset, FS_CardinalityType
      <4> QED
        BY <4>1, <4>2, FS_EmptySet
    <3> DEFINE it == [s \in Small(S, 0) |-> 0]
    <3>2. it \in [Small(S, 0) -> Int] /\ \A s \in Small(S, 0) : it[s] = AddStep(it, f, s)
      BY <3>1 DEF AddStep
    <3> QED
      BY <2>4, <2>5, <3>2
  <2>6. CASE m # 0
    <3>1. PICK k \in Nat : m = k + 1
      BY <2>4, <2>6
    <3>2. k \notin T
      BY <2>2, <2>3, <3>1
    <3>3. Upto(k)
      BY <3>2 DEF T
    <3>4. PICK it \in [Small(S, k) -> Int] : \A s \in Small(S, k) : it[s] = AddStep(it, f, s)
      BY <3>3
    <3> DEFINE more == [s \in Small(S, m) |-> AddStep(it, f, s)]
    <3>5. ASSUME NEW s \in Small(S, m), s # {}
          PROVE  /\ s \ {Picked(s)} \in Small(S, k) /\ s \ {Picked(s)} \in Small(S, m)
                 /\ Picked(s) \in S
      <4>1. Picked(s) \in s /\ s \in SUBSET S
        BY <3>5, PickedIn DEF Small
      <4>2. Cardinality(s) <= k + 1
        BY <3>1 DEF Small
      <4>3. /\ Cardinality(s) \in Nat /\ Cardinality(s \ {Picked(s)}) \in Nat
            /\ Cardinality(s \ {Picked(s)}) = Cardinality(s) - 1
        BY <1>0, <4>1, SmallerByOne
      <4>4. Cardinality(s \ {Picked(s)}) <= k /\ Cardinality(s \ {Picked(s)}) <= m
        BY <4>2, <4>3, <3>1
      <4> QED
        BY <4>1, <4>4 DEF Small
    <3>6. ASSUME NEW s \in Small(S, m)
          PROVE  more[s] \in Int /\ more[s] = AddStep(more, f, s)
      <4>1. CASE s = {}
        BY <4>1 DEF AddStep
      <4>2. CASE s # {}
        <5>1. more[s] = f[Picked(s)] + it[s \ {Picked(s)}]
          BY <4>2 DEF AddStep
        <5>2. it[s \ {Picked(s)}] = more[s \ {Picked(s)}]
          BY <3>4, <3>5, <4>2
        <5>3. f[Picked(s)] \in Int /\ it[s \ {Picked(s)}] \in Int
          BY <3>5, <4>2 DEF Summable
        <5>4. AddStep(more, f, s) = f[Picked(s)] + more[s \ {Picked(s)}]
          BY <4>2 DEF AddStep
        <5> QED
          BY <5>1, <5>2, <5>3, <5>4
      <4> QED
        BY <4>1, <4>2
    <3>7. more \in [Small(S, m) -> Int] /\ \A s \in Small(S, m) : more[s] = AddStep(more, f, s)
      BY <3>6
    <3> HIDE DEF more
    <3> QED
      BY <2>4, <3>7
  <2> QED
    BY <2>5, <2>6
<1>2. Cardinality(S) \in Nat
  BY FS_CardinalityType DEF Summable
<1>3. Small(S, Cardinality(S)) = SUBSET S
  BY FS_Subset DEF Small, Summable
<1>4. PICK it \in [SUBSET S -> Int] : \A s \in SUBSET S : it[s] = AddStep(it, f, s)
  BY <1>1, <1>2, <1>3
<1>5. it = [s \in SUBSET S |-> it[s]]
  OBVIOUS
<1>6. Adds(it, f, S)
  BY <1>4, <1>5 DEF Adds
<1> QED
  BY <1>6

\* Two functions that add up agree wherever what they add up does.
LEMMA AddersAgree ==
  ASSUME NEW S, NEW D, S \subseteq D, NEW f, NEW g, Summable(f, S),
         NEW it, NEW jt, Adds(it, f, S), Adds(jt, g, D), \A x \in S : f[x] = g[x]
  PROVE  \A s \in SUBSET S : it[s] = jt[s]
<1> DEFINE T == {n \in Nat : \E s \in SUBSET S : Cardinality(s) = n /\ it[s] # jt[s]}
<1>1. \A s \in SUBSET S : it[s] = AddStep(it, f, s) /\ jt[s] = AddStep(jt, g, s)
  <2>1. \A s \in SUBSET S : it[s] = AddStep(it, f, s)
    BY DEF Adds
  <2>2. \A s \in SUBSET D : jt[s] = AddStep(jt, g, s)
    BY DEF Adds
  <2> QED
    BY <2>1, <2>2
<1>2. T = {}
  <2>1. SUFFICES ASSUME T # {} PROVE FALSE
    OBVIOUS
  <2>2. T \subseteq Nat
    OBVIOUS
  <2> HIDE DEF T
  <2>3. PICK m \in T : \A y \in T : m <= y
    BY <2>1, <2>2, Least
  <2>4. PICK s \in SUBSET S : Cardinality(s) = m /\ it[s] # jt[s]
    BY DEF T
  <2>5. s # {}
    BY <1>1, <2>4 DEF AddStep
  <2>6. Picked(s) \in s
    BY <2>5, PickedIn
  <2> DEFINE r == s \ {Picked(s)}
  <2>7. Cardinality(r) \in Nat /\ Cardinality(r) < m
    BY <2>4, <2>6, SmallerByOne DEF Summable
  <2>8. Cardinality(r) \notin T
    BY <2>2, <2>3, <2>7
  <2>9. it[r] = jt[r]
    BY <2>7, <2>8 DEF T
  <2>10. it[s] = f[Picked(s)] + it[r] /\ jt[s] = g[Picked(s)] + jt[r]
    BY <1>1, <2>5 DEF AddStep
  <2>11. f[Picked(s)] = g[Picked(s)]
    BY <2>6
  <2> QED
    BY <2>4, <2>9, <2>10, <2>11
<1>3. \A s \in SUBSET S : Cardinality(s) \in Nat
  BY FS_Subset, FS_CardinalityType DEF Summable
<1> QED
  BY <1>2, <1>3

LEMMA AdderAdds ==
  ASSUME NEW S, NEW f, Summable(f, S)
  PROVE  Adder(f, S) \in [SUBSET S -> Int] /\ Adds(Adder(f, S), f, S)
<1>1. PICK it \in [SUBSET S -> Int] : Adds(it, f, S)
  BY AdderExists
<1> DEFINE P(h) == h = [s \in SUBSET S |-> IF s = {} THEN 0 ELSE f[Picked(s)] + h[s \ {Picked(s)}]]
<1>2. P(it)
  BY <1>1 DEF Adds, AddStep
<1>3. P(Adder(f, S))
  BY <1>2 DEF Adder
<1>4. Adds(Adder(f, S), f, S)
  BY <1>3 DEF Adds, AddStep
<1>5. \A s \in SUBSET S : Adder(f, S)[s] = it[s]
  BY <1>1, <1>4, AddersAgree
<1>6. Adder(f, S) = [s \in SUBSET S |-> Adder(f, S)[s]]
  BY <1>4 DEF Adds
<1> QED
  BY <1>4, <1>5, <1>6

\* A sum is a number that depends on the values it adds up alone.
LEMMA SumType ==
  ASSUME NEW S, NEW f, Summable(f, S)
  PROVE  SumFunctionOnSet(f, S) \in Int
BY SumIsAdder, AdderAdds

LEMMA SumEqual ==
  ASSUME NEW S, NEW f, NEW g, Summable(f, S), \A x \in S : f[x] = g[x]
  PROVE  SumFunctionOnSet(f, S) = SumFunctionOnSet(g, S)
<1>1. Summable(g, S)
  BY DEF Summable
<1>2. Adds(Adder(f, S), f, S) /\ Adds(Adder(g, S), g, S)
  BY <1>1, AdderAdds
<1>3. Adder(f, S)[S] = Adder(g, S)[S]
  BY <1>2, AddersAgree
<1> QED
  BY <1>3, SumIsAdder

LEMMA SumEmpty ==
  ASSUME NEW f
  PROVE  SumFunctionOnSet(f, {}) = 0
<1>1. Summable(f, {})
  BY FS_EmptySet DEF Summable
<1>2. Adder(f, {}) = [s \in SUBSET {} |-> AddStep(Adder(f, {}), f, s)]
  BY <1>1, AdderAdds DEF Adds
<1>3. {} \in SUBSET {}
  OBVIOUS
<1>4. Adder(f, {})[{}] = AddStep(Adder(f, {}), f, {})
  BY <1>2, <1>3
<1> QED
  BY <1>4, SumIsAdder DEF AddStep

LEMMA SumPicked ==
  ASSUME NEW S, NEW f, Summable(f, S), S # {}
  PROVE  SumFunctionOnSet(f, S) = f[Picked(S)] + SumFunctionOnSet(f, S \ {Picked(S)})
<1> DEFINE R == S \ {Picked(S)}
<1>1. Summable(f, R) /\ R \subseteq S
  BY FS_Subset DEF Summable
<1>2. Adds(Adder(f, S), f, S) /\ Adds(Adder(f, R), f, R)
  BY <1>1, AdderAdds
<1> HIDE DEF R
<1>3. Adder(f, R)[R] = Adder(f, S)[R]
  BY <1>1, <1>2, AddersAgree
<1>4. Adder(f, S)[S] = AddStep(Adder(f, S), f, S)
  BY <1>2 DEF Adds
<1>5. Adder(f, S)[S] = f[Picked(S)] + Adder(f, S)[R]
  BY <1>4 DEF AddStep, R
<1> QED
  BY <1>3, <1>5, SumIsAdder DEF R

\* Any element may be taken out first.
LEMMA SumTakeOut ==
  ASSUME NEW D, NEW f, Summable(f, D)
  PROVE  \A S \in SUBSET D : \A x \in S :
            SumFunctionOnSet(f, S) = f[x] + SumFunctionOnSet(f, S \ {x})
<1> DEFINE Fine(S) == \A x \in S : SumFunctionOnSet(f, S) = f[x] + SumFunctionOnSet(f, S \ {x})
           T == {n \in Nat : \E S \in SUBSET D : Cardinality(S) = n /\ ~Fine(S)}
<1>0. \A S \in SUBSET D : Summable(f, S) /\ Cardinality(S) \in Nat
  BY FS_Subset, FS_CardinalityType DEF Summable
<1>1. T = {}
  <2>1. SUFFICES ASSUME T # {} PROVE FALSE
    OBVIOUS
  <2>2. T \subseteq Nat
    OBVIOUS
  <2> HIDE DEF T
  <2>3. PICK m \in T : \A y \in T : m <= y
    BY <2>1, <2>2, Least
  <2>4. PICK S \in SUBSET D : Cardinality(S) = m /\ ~Fine(S)
    BY DEF T
  <2>5. PICK x \in S : SumFunctionOnSet(f, S) # f[x] + SumFunctionOnSet(f, S \ {x})
    BY <2>4
  <2> DEFINE y == Picked(S)
             R == (S \ {y}) \ {x}
  <2>6. y \in S
    BY PickedIn
  <2>7. SumFunctionOnSet(f, S) = f[y] + SumFunctionOnSet(f, S \ {y})
    BY <1>0, SumPicked
  <2>8. y # x
    BY <2>5, <2>7
  <2>9. ASSUME NEW z \in S PROVE Fine(S \ {z})
    <3>1. S \ {z} \in SUBSET D /\ Cardinality(S \ {z}) \in Nat /\ Cardinality(S \ {z}) < m
      BY <2>4, SmallerByOne DEF Summable
    <3>2. Cardinality(S \ {z}) \notin T
      BY <2>2, <2>3, <3>1
    <3> QED
      BY <3>1, <3>2 DEF T
  <2>10. SumFunctionOnSet(f, S \ {y}) = f[x] + SumFunctionOnSet(f, R)
    BY <2>6, <2>8, <2>9
  <2>11. SumFunctionOnSet(f, S \ {x}) = f[y] + SumFunctionOnSet(f, R)
    <3>1. R = (S \ {x}) \ {y}
      OBVIOUS
    <3>2. Fine(S \ {x}) /\ y \in S \ {x}
      BY <2>6, <2>8, <2>9
    <3> HIDE DEF R, y
    <3> QED
      BY <3>1, <3>2
  <2>12. f[x] \in Int /\ f[y] \in Int /\ SumFunctionOnSet(f, R) \in Int
    <3>1. R \in SUBSET D
      OBVIOUS
    <3>2. Summable(f, R)
      BY <1>0, <3>1
    <3> HIDE DEF R
    <3> QED
      BY <2>6, <3>2, SumType DEF Summable
  <2> HIDE DEF R, y
  <2> QED
    BY <2>5, <2>7, <2>10, <2>11, <2>12
<1> QED
  BY <1>0, <1>1

LEMMA SumWithout ==
  ASSUME NEW S, NEW f, Summable(f, S), NEW x \in S
  PROVE  /\ SumFunctionOnSet(f, S) = f[x] + SumFunctionOnSet(f, S \ {x})
         /\ Summable(f, S \ {x}) /\ f[x] \in Int
         /\ SumFunctionOnSet(f, S) \in Int /\ SumFunctionOnSet(f, S \ {x}) \in Int
<1>1. Summable(f, S \ {x})
  BY FS_Subset DEF Summable
<1> QED
  BY <1>1, SumTakeOut, SumType DEF Summable

\* Sums are added value by value.
LEMMA SumOfSums ==
  ASSUME NEW D, NEW f, NEW g, NEW h, Summable(f, D), Summable(g, D),
         \A x \in D : h[x] = f[x] + g[x]
  PROVE  SumFunctionOnSet(h, D) = SumFunctionOnSet(f, D) + SumFunctionOnSet(g, D)
<1>0. IsFiniteSet(D)
  BY DEF Summable
<1> DEFINE Fine(S) == SumFunctionOnSet(h, S) = SumFunctionOnSet(f, S) + SumFunctionOnSet(g, S)
           T == {n \in Nat : \E S \in SUBSET D : Cardinality(S) = n /\ ~Fine(S)}
<1>1. Summable(h, D)
  BY DEF Summable
<1>2. \A S \in SUBSET D : Summable(f, S) /\ Summable(g, S) /\ Summable(h, S) /\ Cardinality(S) \in Nat
  BY <1>1, FS_Subset, FS_CardinalityType DEF Summable
<1>3. T = {}
  <2>1. SUFFICES ASSUME T # {} PROVE FALSE
    OBVIOUS
  <2>2. T \subseteq Nat
    OBVIOUS
  <2> HIDE DEF T
  <2>3. PICK m \in T : \A y \in T : m <= y
    BY <2>1, <2>2, Least
  <2>4. PICK S \in SUBSET D : Cardinality(S) = m /\ ~Fine(S)
    BY DEF T
  <2>5. S # {}
    BY <2>4, SumEmpty
  <2>6. PICK x \in S : TRUE
    BY <2>5
  <2>7. Fine(S \ {x})
    <3>1. S \ {x} \in SUBSET D /\ Cardinality(S \ {x}) \in Nat /\ Cardinality(S \ {x}) < m
      BY <1>0, <2>4, SmallerByOne
    <3>2. Cardinality(S \ {x}) \notin T
      BY <2>2, <2>3, <3>1
    <3> QED
      BY <3>1, <3>2 DEF T
  <2>8. Summable(f, S) /\ Summable(g, S) /\ Summable(h, S) /\ h[x] = f[x] + g[x]
    BY <1>2
  <2>9. /\ SumFunctionOnSet(f, S) = f[x] + SumFunctionOnSet(f, S \ {x})
        /\ f[x] \in Int /\ SumFunctionOnSet(f, S \ {x}) \in Int
    BY <2>8, SumWithout
  <2>10. /\ SumFunctionOnSet(g, S) = g[x] + SumFunctionOnSet(g, S \ {x})
         /\ g[x] \in Int /\ SumFunctionOnSet(g, S \ {x}) \in Int
    BY <2>8, SumWithout
  <2>11. SumFunctionOnSet(h, S) = h[x] + SumFunctionOnSet(h, S \ {x})
    BY <2>8, SumWithout
  <2> QED
    BY <2>4, <2>7, <2>8, <2>9, <2>10, <2>11
<1> QED
  BY <1>2, <1>3

\* What is never negative does not add up to less than nothing, and no sum of
\* it is less than one of its parts.
LEMMA SumNat ==
  ASSUME NEW D, NEW f, IsFiniteSet(D), \A x \in D : f[x] \in Nat
  PROVE  SumFunctionOnSet(f, D) \in Nat
<1> DEFINE Fine(S) == SumFunctionOnSet(f, S) \in Nat
           T == {n \in Nat : \E S \in SUBSET D : Cardinality(S) = n /\ ~Fine(S)}
<1>1. \A S \in SUBSET D : Summable(f, S) /\ Cardinality(S) \in Nat
  BY FS_Subset, FS_CardinalityType DEF Summable
<1>2. T = {}
  <2>1. SUFFICES ASSUME T # {} PROVE FALSE
    OBVIOUS
  <2>2. T \subseteq Nat
    OBVIOUS
  <2> HIDE DEF T
  <2>3. PICK m \in T : \A y \in T : m <= y
    BY <2>1, <2>2, Least
  <2>4. PICK S \in SUBSET D : Cardinality(S) = m /\ ~Fine(S)
    BY DEF T
  <2>5. S # {}
    BY <2>4, SumEmpty
  <2>6. PICK x \in S : TRUE
    BY <2>5
  <2>7. Fine(S \ {x})
    <3>1. S \ {x} \in SUBSET D /\ Cardinality(S \ {x}) \in Nat /\ Cardinality(S \ {x}) < m
      BY <2>4, SmallerByOne
    <3>2. Cardinality(S \ {x}) \notin T
      BY <2>2, <2>3, <3>1
    <3> QED
      BY <3>1, <3>2 DEF T
  <2>8. SumFunctionOnSet(f, S) = f[x] + SumFunctionOnSet(f, S \ {x})
    BY <1>1, SumWithout
  <2> QED
    BY <2>4, <2>7, <2>8
<1> QED
  BY <1>1, <1>2

LEMMA SumBounds ==
  ASSUME NEW S, NEW f, IsFiniteSet(S), \A x \in S : f[x] \in Nat
  PROVE  \A x \in S : f[x] <= SumFunctionOnSet(f, S)
<1> TAKE x \in S
<1>1. Summable(f, S)
  BY DEF Summable
<1>2. IsFiniteSet(S \ {x})
  BY FS_Subset
<1>3. SumFunctionOnSet(f, S \ {x}) \in Nat
  BY <1>2, SumNat
<1>4. SumFunctionOnSet(f, S) = f[x] + SumFunctionOnSet(f, S \ {x})
  BY <1>1, SumWithout
<1> QED
  BY <1>3, <1>4

LEMMA SumZero ==
  ASSUME NEW S, NEW f, IsFiniteSet(S), \A x \in S : f[x] = 0
  PROVE  SumFunctionOnSet(f, S) = 0
<1>1. Summable(f, S) /\ \A x \in S : f[x] = f[x] + f[x]
  BY DEF Summable
<1>2. SumFunctionOnSet(f, S) = SumFunctionOnSet(f, S) + SumFunctionOnSet(f, S)
  BY <1>1, SumOfSums
<1> QED
  BY <1>1, <1>2, SumType

\* The elements without a value do not count.
LEMMA SumPart ==
  ASSUME NEW D, IsFiniteSet(D), NEW S \in SUBSET D, NEW f, NEW g, Summable(f, S),
         \A x \in D : g[x] = IF x \in S THEN f[x] ELSE 0
  PROVE  SumFunctionOnSet(g, D) = SumFunctionOnSet(f, S)
<1> DEFINE Between == {E \in SUBSET D : S \subseteq E}
           Fine(E) == SumFunctionOnSet(g, E) = SumFunctionOnSet(f, S)
           T == {n \in Nat : \E E \in Between : Cardinality(E) = n /\ ~Fine(E)}
<1>1. \A E \in Between : Summable(g, E) /\ Cardinality(E) \in Nat
  <2> TAKE E \in Between
  <2>1. IsFiniteSet(E) /\ Cardinality(E) \in Nat
    BY FS_Subset, FS_CardinalityType
  <2>2. \A x \in E : g[x] \in Int
    BY DEF Summable
  <2> QED
    BY <2>1, <2>2 DEF Summable
<1>2. T = {}
  <2>1. SUFFICES ASSUME T # {} PROVE FALSE
    OBVIOUS
  <2>2. T \subseteq Nat
    OBVIOUS
  <2> HIDE DEF T
  <2>3. PICK m \in T : \A y \in T : m <= y
    BY <2>1, <2>2, Least
  <2>4. PICK E \in Between : Cardinality(E) = m /\ ~Fine(E)
    BY DEF T
  <2>5. S # E
    <3>1. SUFFICES ASSUME S = E PROVE FALSE
      OBVIOUS
    <3>2. \A x \in S : f[x] = g[x]
      BY <3>1
    <3> QED
      BY <2>4, <3>1, <3>2, SumEqual
  <2>6. PICK x \in E : x \notin S
    BY <2>5
  <2>7. Fine(E \ {x})
    <3>1. E \ {x} \in Between /\ Cardinality(E \ {x}) \in Nat /\ Cardinality(E \ {x}) < m
      BY <2>4, <2>6, SmallerByOne
    <3>2. Cardinality(E \ {x}) \notin T
      BY <2>2, <2>3, <3>1
    <3> QED
      BY <3>1, <3>2 DEF T
  <2>8. /\ SumFunctionOnSet(g, E) = g[x] + SumFunctionOnSet(g, E \ {x})
        /\ SumFunctionOnSet(g, E \ {x}) \in Int
    BY <1>1, SumWithout
  <2>9. g[x] = 0
    BY <2>6
  <2> QED
    BY <2>4, <2>7, <2>8, <2>9
<1>3. D \in Between
  OBVIOUS
<1>4. Fine(D)
  BY <1>1, <1>2, <1>3
<1> QED
  BY <1>4

\* A sum is what a part of its set adds up to and what the rest does.
LEMMA SumSplit ==
  ASSUME NEW D, NEW f, Summable(f, D), NEW S \in SUBSET D
  PROVE  /\ SumFunctionOnSet(f, D) = SumFunctionOnSet(f, S) + SumFunctionOnSet(f, D \ S)
         /\ SumFunctionOnSet(f, S) \in Int /\ SumFunctionOnSet(f, D \ S) \in Int
<1>1. IsFiniteSet(D) /\ Summable(f, S) /\ Summable(f, D \ S) /\ D \ S \in SUBSET D
  BY FS_Subset DEF Summable
<1> DEFINE g == [x \in D |-> IF x \in S THEN f[x] ELSE 0]
           h == [x \in D |-> IF x \in D \ S THEN f[x] ELSE 0]
<1>2. \A x \in D : /\ g[x] = (IF x \in S THEN f[x] ELSE 0)
                   /\ h[x] = (IF x \in D \ S THEN f[x] ELSE 0)
                   /\ g[x] \in Int /\ h[x] \in Int /\ f[x] = g[x] + h[x]
  BY DEF Summable
<1> HIDE DEF g, h
<1>3. Summable(g, D) /\ Summable(h, D)
  BY <1>1, <1>2 DEF Summable
<1>4. SumFunctionOnSet(f, D) = SumFunctionOnSet(g, D) + SumFunctionOnSet(h, D)
  BY <1>2, <1>3, SumOfSums
<1>5. SumFunctionOnSet(g, D) = SumFunctionOnSet(f, S)
  BY <1>1, <1>2, SumPart
<1>6. SumFunctionOnSet(h, D) = SumFunctionOnSet(f, D \ S)
  BY <1>1, <1>2, SumPart
<1> QED
  BY <1>1, <1>4, <1>5, <1>6, SumType

LEMMA SumSingle ==
  ASSUME NEW f, NEW x, f[x] \in Int
  PROVE  SumFunctionOnSet(f, {x}) = f[x]
<1>1. Summable(f, {x})
  BY FS_Singleton DEF Summable
<1>2. SumFunctionOnSet(f, {x}) = f[x] + SumFunctionOnSet(f, {x} \ {x})
  BY <1>1, SumWithout
<1>3. {x} \ {x} = {}
  OBVIOUS
<1> QED
  BY <1>2, <1>3, SumEmpty

\* What a part had is cleared.
LEMMA SumClear ==
  ASSUME NEW D, NEW f, Summable(f, D), NEW M \in SUBSET D,
         NEW g, \A x \in D : g[x] = IF x \in M THEN 0 ELSE f[x]
  PROVE  /\ SumFunctionOnSet(f, D) = SumFunctionOnSet(f, M) + SumFunctionOnSet(g, D)
         /\ Summable(g, D) /\ SumFunctionOnSet(f, M) \in Int /\ SumFunctionOnSet(g, D) \in Int
<1>1. Summable(g, D) /\ IsFiniteSet(M) /\ IsFiniteSet(D \ M) /\ D \ M \in SUBSET D
  BY FS_Subset DEF Summable
<1>2. SumFunctionOnSet(g, M) = 0
  BY <1>1, SumZero
<1>3. SumFunctionOnSet(g, D \ M) = SumFunctionOnSet(f, D \ M)
  BY <1>1, SumEqual DEF Summable
<1> QED
  BY <1>1, <1>2, <1>3, SumSplit, SumType

\* One value is raised.
LEMMA SumRaise ==
  ASSUME NEW D, NEW f, Summable(f, D), NEW q \in D, NEW k \in Int,
         NEW g, \A x \in D : g[x] = IF x = q THEN f[x] + k ELSE f[x]
  PROVE  SumFunctionOnSet(g, D) = SumFunctionOnSet(f, D) + k
<1>1. Summable(g, D) /\ Summable(f, D \ {q}) /\ \A x \in D \ {q} : f[x] = g[x]
  BY FS_Subset DEF Summable
<1>2. SumFunctionOnSet(g, D \ {q}) = SumFunctionOnSet(f, D \ {q})
  BY <1>1, SumEqual
<1>3. g[q] = f[q] + k
  OBVIOUS
<1>4. SumFunctionOnSet(f, D) = f[q] + SumFunctionOnSet(f, D \ {q})
      /\ f[q] \in Int /\ SumFunctionOnSet(f, D \ {q}) \in Int
  BY SumWithout
<1>5. SumFunctionOnSet(g, D) = g[q] + SumFunctionOnSet(g, D \ {q})
  BY <1>1, SumWithout
<1> QED
  BY <1>2, <1>3, <1>4, <1>5

\* What a part had is moved to one element outside it.
LEMMA SumMove ==
  ASSUME NEW D, NEW f, Summable(f, D), NEW M \in SUBSET D, NEW q \in D \ M,
         NEW g, \A x \in D : g[x] = IF x = q THEN f[x] + SumFunctionOnSet(f, M)
                                    ELSE IF x \in M THEN 0 ELSE f[x]
  PROVE  SumFunctionOnSet(g, D) = SumFunctionOnSet(f, D)
<1> DEFINE h == [x \in D |-> IF x \in M THEN 0 ELSE f[x]]
<1>1. \A x \in D : h[x] = IF x \in M THEN 0 ELSE f[x]
  OBVIOUS
<1>2. \A x \in D : g[x] = IF x = q THEN h[x] + SumFunctionOnSet(f, M) ELSE h[x]
  OBVIOUS
<1> HIDE DEF h
<1>3. /\ SumFunctionOnSet(f, D) = SumFunctionOnSet(f, M) + SumFunctionOnSet(h, D)
      /\ Summable(h, D) /\ SumFunctionOnSet(f, M) \in Int /\ SumFunctionOnSet(h, D) \in Int
  BY <1>1, SumClear
<1>4. SumFunctionOnSet(g, D) = SumFunctionOnSet(h, D) + SumFunctionOnSet(f, M)
  BY <1>2, <1>3, SumRaise
<1> QED
  BY <1>3, <1>4

\* The size of a union of sets that share nothing, of an index at a time.
UnionOver(M, S) == UNION {M[x] : x \in S}

LEMMA SizeOfUnion ==
  ASSUME NEW D, IsFiniteSet(D), NEW M, NEW f,
         \A x \in D : IsFiniteSet(M[x]) /\ f[x] = Cardinality(M[x]),
         \A x, y \in D : x # y => M[x] \cap M[y] = {}
  PROVE  /\ IsFiniteSet(UnionOver(M, D))
         /\ Cardinality(UnionOver(M, D)) = SumFunctionOnSet(f, D)
<1> DEFINE Fine(S) == /\ IsFiniteSet(UnionOver(M, S))
                      /\ Cardinality(UnionOver(M, S)) = SumFunctionOnSet(f, S)
           T == {n \in Nat : \E S \in SUBSET D : Cardinality(S) = n /\ ~Fine(S)}
<1>1. \A S \in SUBSET D : Summable(f, S) /\ Cardinality(S) \in Nat
  BY FS_Subset, FS_CardinalityType DEF Summable
<1>2. T = {}
  <2>1. SUFFICES ASSUME T # {} PROVE FALSE
    OBVIOUS
  <2>2. T \subseteq Nat
    OBVIOUS
  <2> HIDE DEF T
  <2>3. PICK m \in T : \A y \in T : m <= y
    BY <2>1, <2>2, Least
  <2>4. PICK S \in SUBSET D : Cardinality(S) = m /\ ~Fine(S)
    BY DEF T
  <2>5. S # {}
    <3>1. UnionOver(M, {}) = {} /\ SumFunctionOnSet(f, {}) = 0
      BY SumEmpty DEF UnionOver
    <3> QED
      BY <2>4, <3>1, FS_EmptySet
  <2>6. PICK x \in S : TRUE
    BY <2>5
  <2>7. Fine(S \ {x})
    <3>0. x \in S /\ S \in SUBSET D /\ Cardinality(S) = m
      BY <2>4, <2>6
    <3>1. S \ {x} \in SUBSET D /\ Cardinality(S \ {x}) \in Nat /\ Cardinality(S \ {x}) < m
      BY ONLY IsFiniteSet(D), <3>0, SmallerByOne
    <3>2. Cardinality(S \ {x}) \notin T
      BY <2>2, <2>3, <3>1
    <3> QED
      BY <3>1, <3>2 DEF T
  <2>8. SumFunctionOnSet(f, S) = f[x] + SumFunctionOnSet(f, S \ {x})
    BY <1>1, SumWithout
  <2>9. /\ UnionOver(M, S) = M[x] \cup UnionOver(M, S \ {x})
        /\ M[x] \cap UnionOver(M, S \ {x}) = {}
    BY DEF UnionOver
  <2>10. /\ IsFiniteSet(UnionOver(M, S))
         /\ Cardinality(UnionOver(M, S)) =
              Cardinality(M[x]) + Cardinality(UnionOver(M, S \ {x})) - Cardinality({})
    <3> DEFINE A == M[x]
               R == UnionOver(M, S \ {x})
    <3>1. IsFiniteSet(A) /\ IsFiniteSet(R) /\ UnionOver(M, S) = A \cup R /\ A \cap R = {}
      BY <2>7, <2>9
    <3> HIDE DEF A, R
    <3>2. /\ IsFiniteSet(A \cup R)
          /\ Cardinality(A \cup R) = Cardinality(A) + Cardinality(R) - Cardinality(A \cap R)
      BY <3>1, FS_Union
    <3>3. /\ IsFiniteSet(UnionOver(M, S))
          /\ Cardinality(UnionOver(M, S)) = Cardinality(A) + Cardinality(R) - Cardinality({})
      BY <3>1, <3>2
    <3> QED
      BY <3>3 DEF A, R
  <2>11. Cardinality({}) = 0 /\ Cardinality(M[x]) \in Nat /\ Cardinality(UnionOver(M, S \ {x})) \in Nat
    BY <2>7, FS_EmptySet, FS_CardinalityType
  <2> QED
    BY <2>4, <2>7, <2>8, <2>10, <2>11
<1> QED
  BY <1>1, <1>2
=============================================================================
