------------------------------ MODULE SetSums ------------------------------
(***************************************************************************)
(* Sums over finite sets, for the proofs about the components that keep    *)
(* books: queued bytes, reserved VRAM, buffered usage, windows of          *)
(* comparisons.  SumFunctionOnSet (Functions) picks the elements in an     *)
(* arbitrary order; the lemmas below say that the order does not matter.   *)
(*                                                                         *)
(* Induction over a finite set is done by taking a smallest counterexample *)
(* (WFMin), which needs no operator parameter.                             *)
(***************************************************************************)
EXTENDS Integers, FiniteSets, Functions, FiniteSetTheorems, WellFoundedInduction, TLAPS

\* h gives every part of S the sum of f over it, whichever element comes first.
Additive(h, f, S) ==
  /\ h \in [SUBSET S -> Int]
  /\ h[{}] = 0
  /\ \A T \in SUBSET S : \A x \in T : h[T] = f[x] + h[T \ {x}]

-----------------------------------------------------------------------------
\* A nonempty family of parts of a finite set has a smallest member.
LEMMA SmallestSubset ==
  ASSUME NEW S, IsFiniteSet(S), NEW B, B \subseteq SUBSET S, B # {}
  PROVE  \E T \in B : \A U \in B : U \subseteq T => U = T
<1>1. B \subseteq FiniteSubsetsOf(S)
  BY FS_Subset DEF FiniteSubsetsOf
<1>2. IsWellFoundedOn(StrictSubsetOrdering(S), FiniteSubsetsOf(S))
  BY FS_StrictSubsetOrderingWellFounded
<1>3. PICK T \in B : \A U \in B : ~(<<U, T>> \in StrictSubsetOrdering(S))
  BY <1>1, <1>2, WFMin
<1>4. QED
  BY <1>3 DEF StrictSubsetOrdering

\* So has a nonempty set of numbers.
LEMMA SmallestNumber ==
  ASSUME NEW B, B \subseteq Nat, B # {}
  PROVE  \E m \in B : \A n \in B : m <= n
<1>1. PICK b \in B : TRUE
  OBVIOUS
<1> DEFINE Below == {k \in B : k <= b}
           F == {0 .. k : k \in Below}
<1>2. F # {}
  BY <1>1
<1>3. F \subseteq SUBSET (0 .. b) /\ IsFiniteSet(0 .. b)
  <2>1. b \in Int /\ 0 \in Int
    BY <1>1
  <2>2. IsFiniteSet(0 .. b)
    BY <2>1, FS_Interval
  <2>3. \A k \in Below : 0 .. k \subseteq 0 .. b
    BY <1>1
  <2>4. QED
    BY <2>2, <2>3
<1>4. PICK T \in F : \A U \in F : U \subseteq T => U = T
  <2> HIDE DEF F, Below
  <2> DEFINE S == 0 .. b
  <2>1. F \subseteq SUBSET S /\ IsFiniteSet(S)
    BY <1>3
  <2> HIDE DEF S
  <2>2. QED
    BY <1>2, <2>1, SmallestSubset
<1>5. PICK m \in Below : T = 0 .. m
  OBVIOUS
<1>6. ASSUME NEW n \in B PROVE m <= n
  <2>1. SUFFICES ASSUME n < m PROVE FALSE
    BY <1>5
  <2>2. n \in Below /\ 0 .. n \in F /\ 0 .. n \subseteq T
    BY <2>1, <1>1, <1>5
  <2>3. 0 .. n = 0 .. m
    BY <2>2, <1>4, <1>5
  <2>4. m \in 0 .. m /\ m \notin 0 .. n
    BY <2>1, <1>5
  <2>5. QED
    BY <2>3, <2>4
<1>7. QED
  BY <1>5, <1>6

\* Induction along a list, over a set of positions.
LEMMA Positions0 ==
  ASSUME NEW n \in Nat, NEW S, 0 \in S, \A i \in 1 .. n : i - 1 \in S => i \in S
  PROVE  0 .. n \subseteq S
<1> DEFINE B == {i \in 0 .. n : i \notin S}
<1> SUFFICES ASSUME B # {} PROVE FALSE
  OBVIOUS
<1>1. PICK m \in B : \A j \in B : m <= j
  <2>1. B \subseteq Nat
    OBVIOUS
  <2> HIDE DEF B
  <2> QED BY <2>1, SmallestNumber
<1>2. m # 0 /\ m \in 1 .. n /\ m - 1 \notin B
  BY <1>1
<1> QED BY <1>1, <1>2

\* The recursion behind SumFunctionOnSet.
LEMMA SumUnfolds ==
  ASSUME NEW f, NEW S
  PROVE  SumFunctionOnSet(f, S) =
           (CHOOSE g : g = [s \in SUBSET S |->
              IF s = {} THEN 0
              ELSE f[CHOOSE x \in s : TRUE] + g[s \ {CHOOSE x \in s : TRUE}]])[S]
BY Zenon DEF SumFunctionOnSet, FoldFunctionOnSet, MapThenFoldSet

\* Whatever is additive is the sum.
LEMMA SumIs ==
  ASSUME NEW S, IsFiniteSet(S), NEW f, NEW h, Additive(h, f, S)
  PROVE  SumFunctionOnSet(f, S) = h[S]
<1> DEFINE first(s) == CHOOSE x \in s : TRUE
           Recurs(g) == g = [s \in SUBSET S |-> IF s = {} THEN 0 ELSE f[first(s)] + g[s \ {first(s)}]]
           sum == CHOOSE g : Recurs(g)
<1>1. \A s \in SUBSET S : s # {} => first(s) \in s
  OBVIOUS
<1> HIDE DEF first
<1>2. h = [s \in SUBSET S |-> IF s = {} THEN 0 ELSE f[first(s)] + h[s \ {first(s)}]]
  BY <1>1 DEF Additive
<1>3. Recurs(sum)
  BY <1>2
<1>4. ASSUME NEW g, Recurs(g)
      PROVE  \A T \in SUBSET S : g[T] = h[T]
  <2> DEFINE B == {T \in SUBSET S : g[T] # h[T]}
  <2>1. SUFFICES ASSUME B # {} PROVE FALSE
    OBVIOUS
  <2>2. PICK T \in B : \A U \in B : U \subseteq T => U = T
    <3>1. B \subseteq SUBSET S
      OBVIOUS
    <3> HIDE DEF B
    <3>2. QED
      BY <2>1, <3>1, SmallestSubset
  <2>3. T # {}
    BY <1>4, <2>2 DEF Additive
  <2>4. first(T) \in T
    BY <1>1, <2>2, <2>3
  <2>5. g[T \ {first(T)}] = h[T \ {first(T)}]
    BY <2>2, <2>4
  <2>6. g[T] = f[first(T)] + g[T \ {first(T)}]
    BY <1>4, <2>2, <2>3
  <2>7. h[T] = f[first(T)] + h[T \ {first(T)}]
    BY <2>2, <2>4 DEF Additive
  <2>8. QED
    BY <2>2, <2>5, <2>6, <2>7
<1>5. SumFunctionOnSet(f, S) = sum[S]
  BY SumUnfolds DEF first
<1> HIDE DEF sum, Recurs
<1>6. QED
  BY <1>3, <1>4, <1>5

\* Integer-valued functions have an additive function.
LEMMA AdditiveExists ==
  ASSUME NEW S, IsFiniteSet(S), NEW f, \A x \in S : f[x] \in Int
  PROVE  \E h : Additive(h, f, S)
<1> DEFINE B == {T \in SUBSET S : ~ \E h : Additive(h, f, T)}
<1>1. SUFFICES ASSUME B # {} PROVE FALSE
  OBVIOUS
<1>2. PICK T \in B : \A U \in B : U \subseteq T => U = T
  <2>1. B \subseteq SUBSET S
    OBVIOUS
  <2> HIDE DEF B
  <2>2. QED
    BY <1>1, <2>1, SmallestSubset
<1>3. CASE T = {}
  <2>1. Additive([s \in SUBSET T |-> 0], f, T)
    BY <1>3 DEF Additive
  <2>2. QED
    BY <1>2, <2>1
<1>4. CASE T # {}
  <2>1. PICK y \in T : TRUE
    BY <1>4
  <2> DEFINE U == T \ {y}
  <2>2. U \notin B /\ U \in SUBSET S /\ T \in SUBSET S
    BY <1>2, <2>1
  <2>3. PICK h : Additive(h, f, U)
    BY <2>2
  <2> DEFINE k == [s \in SUBSET T |-> IF y \in s THEN f[y] + h[s \ {y}] ELSE h[s]]
  <2>4. /\ h \in [SUBSET U -> Int] /\ h[{}] = 0
        /\ \A V \in SUBSET U : \A x \in V : h[V] = f[x] + h[V \ {x}]
    BY <2>3 DEF Additive
  <2>5. \A s \in SUBSET T : s \ {y} \in SUBSET U /\ (y \notin s => s \in SUBSET U)
    OBVIOUS
  <2>6. \A x \in T : f[x] \in Int
    BY <2>2
  <2>7. k \in [SUBSET T -> Int]
    BY <2>1, <2>4, <2>5, <2>6
  <2>8. k[{}] = 0
    BY <2>4
  <2>9. ASSUME NEW V \in SUBSET T, NEW x \in V
        PROVE  k[V] = f[x] + k[V \ {x}]
    <3>1. CASE x = y
      <4>1. k[V] = f[y] + h[V \ {y}] /\ k[V \ {x}] = h[V \ {y}]
        BY <3>1, <2>9
      <4>2. QED
        BY <3>1, <4>1
    <3>2. CASE x # y /\ y \in V
      <4>1. k[V] = f[y] + h[V \ {y}]
        BY <3>2
      <4>2. V \ {y} \in SUBSET U /\ x \in V \ {y}
        BY <3>2, <2>5
      <4>3. (V \ {y}) \ {x} = (V \ {x}) \ {y}
        OBVIOUS
      <4>4. h[V \ {y}] = f[x] + h[(V \ {x}) \ {y}]
        <5>1. h[V \ {y}] = f[x] + h[(V \ {y}) \ {x}]
          BY <4>2, <2>4
        <5>2. QED
          BY <4>3, <5>1, Zenon
      <4>5. k[V \ {x}] = f[y] + h[(V \ {x}) \ {y}]
        BY <3>2
      <4>6. f[x] \in Int /\ f[y] \in Int /\ h[(V \ {x}) \ {y}] \in Int
        BY <2>1, <2>4, <2>5, <2>6
      <4> HIDE DEF k
      <4>7. QED
        BY <4>1, <4>4, <4>5, <4>6
    <3>3. CASE y \notin V
      BY <3>3, <2>4, <2>5
    <3>4. QED
      BY <3>1, <3>2, <3>3
  <2> HIDE DEF k
  <2>10. Additive(k, f, T)
    BY <2>7, <2>8, <2>9 DEF Additive
  <2>11. QED
    BY <1>2, <2>10
<1>5. QED
  BY <1>3, <1>4

-----------------------------------------------------------------------------
(* What the proofs cite.                                                   *)

\* A part of an additive function is additive on the part.
LEMMA AdditivePart ==
  ASSUME NEW S, NEW f, NEW h, Additive(h, f, S), NEW T \in SUBSET S
  PROVE  Additive([s \in SUBSET T |-> h[s]], f, T)
<1>1. \A U \in SUBSET T : U \in SUBSET S /\ \A x \in U : U \ {x} \in SUBSET T
  OBVIOUS
<1>2. /\ h \in [SUBSET S -> Int] /\ h[{}] = 0
      /\ \A V \in SUBSET S : \A x \in V : h[V] = f[x] + h[V \ {x}]
  BY DEF Additive
<1>3. QED
  BY <1>1, <1>2 DEF Additive

\* One additive function gives the sums over all parts of S.
LEMMA SumsAdditive ==
  ASSUME NEW S, IsFiniteSet(S), NEW f, \A x \in S : f[x] \in Int
  PROVE  \E h : Additive(h, f, S) /\ \A T \in SUBSET S : SumFunctionOnSet(f, T) = h[T]
<1>1. PICK h : Additive(h, f, S)
  BY AdditiveExists
<1>2. ASSUME NEW T \in SUBSET S
      PROVE  SumFunctionOnSet(f, T) = h[T]
  <2>1. Additive([s \in SUBSET T |-> h[s]], f, T)
    BY <1>1, AdditivePart
  <2>2. IsFiniteSet(T)
    BY FS_Subset
  <2>3. SumFunctionOnSet(f, T) = [s \in SUBSET T |-> h[s]][T]
    BY <2>1, <2>2, SumIs
  <2>4. QED
    BY <2>3
<1>3. QED
  BY <1>1, <1>2

\* The empty sum, and the sum without one of its elements.
LEMMA SumEmpty == ASSUME NEW f PROVE SumFunctionOnSet(f, {}) = 0
<1>1. Additive([s \in SUBSET {} |-> 0], f, {})
  BY DEF Additive
<1>2. QED
  BY <1>1, SumIs, FS_EmptySet

LEMMA SumTake ==
  ASSUME NEW S, IsFiniteSet(S), NEW f, \A x \in S : f[x] \in Int, NEW x \in S
  PROVE  /\ SumFunctionOnSet(f, S) \in Int
         /\ SumFunctionOnSet(f, S \ {x}) \in Int
         /\ SumFunctionOnSet(f, S) = f[x] + SumFunctionOnSet(f, S \ {x})
<1>1. PICK h : Additive(h, f, S) /\ \A T \in SUBSET S : SumFunctionOnSet(f, T) = h[T]
  BY SumsAdditive
<1>2. S \in SUBSET S /\ S \ {x} \in SUBSET S
  OBVIOUS
<1>3. QED
  BY <1>1, <1>2 DEF Additive

LEMMA SumInt ==
  ASSUME NEW S, IsFiniteSet(S), NEW f, \A x \in S : f[x] \in Int
  PROVE  SumFunctionOnSet(f, S) \in Int
<1>1. PICK h : Additive(h, f, S) /\ \A T \in SUBSET S : SumFunctionOnSet(f, T) = h[T]
  BY SumsAdditive
<1>2. QED
  BY <1>1 DEF Additive

\* Only the values on S matter.
LEMMA SumSame ==
  ASSUME NEW S, IsFiniteSet(S), NEW f, \A x \in S : f[x] \in Int,
         NEW g, \A x \in S : g[x] = f[x]
  PROVE  SumFunctionOnSet(g, S) = SumFunctionOnSet(f, S)
<1>1. PICK h : Additive(h, f, S)
  BY AdditiveExists
<1>2. Additive(h, g, S)
  BY <1>1 DEF Additive
<1>3. QED
  BY <1>1, <1>2, SumIs

\* A sum of sums, element by element.
LEMMA SumPlus ==
  ASSUME NEW S, IsFiniteSet(S), NEW f, \A x \in S : f[x] \in Int,
         NEW g, \A x \in S : g[x] \in Int,
         NEW e, \A x \in S : e[x] = f[x] + g[x]
  PROVE  SumFunctionOnSet(e, S) = SumFunctionOnSet(f, S) + SumFunctionOnSet(g, S)
<1>1. PICK h : Additive(h, f, S)
  BY AdditiveExists
<1>2. PICK k : Additive(k, g, S)
  BY AdditiveExists
<1> DEFINE l == [T \in SUBSET S |-> h[T] + k[T]]
<1>3. /\ h \in [SUBSET S -> Int] /\ h[{}] = 0
      /\ k \in [SUBSET S -> Int] /\ k[{}] = 0
  BY <1>1, <1>2 DEF Additive
<1>4. l \in [SUBSET S -> Int] /\ l[{}] = 0
  BY <1>3
<1>5. ASSUME NEW T \in SUBSET S, NEW x \in T
      PROVE  l[T] = e[x] + l[T \ {x}]
  <2>1. T \ {x} \in SUBSET S
    OBVIOUS
  <2>2. h[T] = f[x] + h[T \ {x}] /\ k[T] = g[x] + k[T \ {x}]
    BY <1>1, <1>2 DEF Additive
  <2>3. l[T] = h[T] + k[T] /\ l[T \ {x}] = h[T \ {x}] + k[T \ {x}]
    BY <2>1
  <2>4. e[x] = f[x] + g[x] /\ f[x] \in Int /\ g[x] \in Int
    OBVIOUS
  <2>5. h[T \ {x}] \in Int /\ k[T \ {x}] \in Int
    BY <2>1, <1>3
  <2> HIDE DEF l
  <2>6. QED
    BY <2>2, <2>3, <2>4, <2>5
<1>6. Additive(l, e, S)
  BY <1>4, <1>5 DEF Additive
<1>7. l[S] = h[S] + k[S]
  OBVIOUS
<1>8. QED
  BY <1>1, <1>2, <1>6, <1>7, SumIs

\* The sum over S is the sum over a part and over the rest.
LEMMA SumSplit ==
  ASSUME NEW S, IsFiniteSet(S), NEW f, \A x \in S : f[x] \in Int, NEW T \in SUBSET S
  PROVE  SumFunctionOnSet(f, S) = SumFunctionOnSet(f, T) + SumFunctionOnSet(f, S \ T)
<1>1. PICK h : Additive(h, f, S) /\ \A U \in SUBSET S : SumFunctionOnSet(f, U) = h[U]
  BY SumsAdditive
<1>2. /\ h \in [SUBSET S -> Int] /\ h[{}] = 0
      /\ \A V \in SUBSET S : \A x \in V : h[V] = f[x] + h[V \ {x}]
  BY <1>1 DEF Additive
<1> DEFINE B == {U \in SUBSET S : h[S] # h[U] + h[S \ U]}
<1>3. SUFFICES B = {}
  <2>1. T \notin B /\ S \ T \in SUBSET S
    BY <1>3
  <2>2. QED
    BY <1>1, <2>1
<1>4. SUFFICES ASSUME B # {} PROVE FALSE
  OBVIOUS
<1>5. PICK U \in B : \A V \in B : V \subseteq U => V = U
  <2>1. B \subseteq SUBSET S
    OBVIOUS
  <2> HIDE DEF B
  <2>2. QED
    BY <1>4, <2>1, SmallestSubset
<1>6. U # {}
  <2>1. h[S \ {}] = h[S]
    <3>1. S \ {} = S
      OBVIOUS
    <3>2. QED
      BY <3>1, Zenon
  <2>2. h[S] \in Int
    BY <1>2
  <2>3. h[S] = h[{}] + h[S \ {}]
    BY <1>2, <2>1, <2>2
  <2>4. {} \notin B
    BY <2>3
  <2>5. QED
    BY <1>5, <2>4
<1>7. PICK x \in U : TRUE
  BY <1>6
<1> DEFINE V == U \ {x}
           W == S \ V
<1>8. U \in SUBSET S /\ V \in SUBSET S /\ V \notin B /\ W \in SUBSET S /\ x \in W /\ x \in S /\ W \ {x} = S \ U
  BY <1>5, <1>7
<1>9. h[S] = h[V] + h[W]
  BY <1>8
<1>10. h[U] = f[x] + h[V]
  BY <1>2, <1>7, <1>8
<1>11. h[W] = f[x] + h[S \ U]
  <2>1. h[W] = f[x] + h[W \ {x}]
    BY <1>2, <1>8
  <2>2. QED
    BY <1>8, <2>1, Zenon
<1>12. h[V] \in Int /\ h[S \ U] \in Int /\ f[x] \in Int
  BY <1>2, <1>8
<1>13. h[S] # h[U] + h[S \ U]
  BY <1>5
<1> HIDE DEF V, W, B
<1>14. QED
  BY <1>9, <1>10, <1>11, <1>12, <1>13

\* Sums of naturals are natural, and a part has at most the whole.
LEMMA SumNat ==
  ASSUME NEW S, IsFiniteSet(S), NEW f, \A x \in S : f[x] \in Nat
  PROVE  SumFunctionOnSet(f, S) \in Nat
<1>1. PICK h : Additive(h, f, S) /\ \A U \in SUBSET S : SumFunctionOnSet(f, U) = h[U]
  BY SumsAdditive
<1>2. /\ h \in [SUBSET S -> Int] /\ h[{}] = 0
      /\ \A V \in SUBSET S : \A x \in V : h[V] = f[x] + h[V \ {x}]
  BY <1>1 DEF Additive
<1> DEFINE B == {U \in SUBSET S : h[U] \notin Nat}
<1>3. SUFFICES B = {}
  BY <1>1, <1>3
<1>4. SUFFICES ASSUME B # {} PROVE FALSE
  OBVIOUS
<1>5. PICK U \in B : \A V \in B : V \subseteq U => V = U
  <2>1. B \subseteq SUBSET S
    OBVIOUS
  <2> HIDE DEF B
  <2>2. QED
    BY <1>4, <2>1, SmallestSubset
<1>6. PICK x \in U : TRUE
  <2>1. {} \notin B
    BY <1>2
  <2>2. QED
    BY <1>5, <2>1
<1>7. U \ {x} \notin B /\ U \ {x} \in SUBSET S /\ U \in SUBSET S
  BY <1>5, <1>6
<1>8. h[U \ {x}] \in Nat /\ f[x] \in Nat
  BY <1>6, <1>7
<1>9. h[U] = f[x] + h[U \ {x}]
  BY <1>2, <1>6, <1>7
<1>10. QED
  BY <1>5, <1>8, <1>9

\* Summing ones counts.
LEMMA SumOnes ==
  ASSUME NEW S, IsFiniteSet(S), NEW f, \A x \in S : f[x] = 1
  PROVE  SumFunctionOnSet(f, S) = Cardinality(S)
<1> DEFINE h == [T \in SUBSET S |-> Cardinality(T)]
<1>1. \A T \in SUBSET S : IsFiniteSet(T) /\ Cardinality(T) \in Nat
  BY FS_Subset, FS_CardinalityType
<1>2. ASSUME NEW T \in SUBSET S, NEW x \in T
      PROVE  h[T] = f[x] + h[T \ {x}]
  <2>1. Cardinality(T \ {x}) = Cardinality(T) - 1
    BY <1>1, FS_RemoveElement
  <2>2. T \ {x} \in SUBSET S /\ f[x] = 1
    OBVIOUS
  <2>3. h[T] = Cardinality(T) /\ h[T \ {x}] = Cardinality(T \ {x}) /\ Cardinality(T) \in Nat
    BY <2>2, <1>1
  <2> HIDE DEF h
  <2>4. QED
    BY <2>1, <2>2, <2>3
<1>3. h \in [SUBSET S -> Int] /\ h[{}] = 0
  BY <1>1, FS_EmptySet
<1>4. Additive(h, f, S)
  BY <1>2, <1>3 DEF Additive
<1>5. QED
  BY <1>4, SumIs

\* The part of I that at sends into T.
Into(I, at, T) == {j \in I : at[j] \in T}

\* Counting a set by the values of a function on it.
LEMMA SumCounts ==
  ASSUME NEW I, IsFiniteSet(I), NEW at, NEW P, IsFiniteSet(P), NEW f,
         \A s \in P : f[s] = Cardinality(Into(I, at, {s}))
  PROVE  SumFunctionOnSet(f, P) = Cardinality(Into(I, at, P))
<1> DEFINE In(T) == Into(I, at, T)
<1>1. \A T : IsFiniteSet(In(T)) /\ Cardinality(In(T)) \in Nat
  BY FS_Subset, FS_CardinalityType DEF Into
<1> HIDE DEF In
<1> DEFINE h == [T \in SUBSET P |-> Cardinality(In(T))]
<1>2. h \in [SUBSET P -> Int] /\ \A T \in SUBSET P : h[T] = Cardinality(In(T))
  BY <1>1
<1>3. h[{}] = 0
  <2>1. In({}) = {}
    BY DEF In, Into
  <2> QED BY <1>2, <2>1, FS_EmptySet
<1>4. ASSUME NEW T \in SUBSET P, NEW x \in T PROVE h[T] = f[x] + h[T \ {x}]
  <2>1. In(T) = In({x}) \cup In(T \ {x}) /\ In({x}) \cap In(T \ {x}) = {}
    BY DEF In, Into
  <2>2. f[x] = Cardinality(In({x}))
    BY DEF In
  <2>3. Cardinality(In(T)) = Cardinality(In({x})) + Cardinality(In(T \ {x}))
    <3>1. Cardinality(In({x}) \cup In(T \ {x}))
            = Cardinality(In({x})) + Cardinality(In(T \ {x})) - Cardinality(In({x}) \cap In(T \ {x}))
      BY <1>1, FS_Union
    <3>2. PICK a \in Nat, b \in Nat : a = Cardinality(In({x})) /\ b = Cardinality(In(T \ {x}))
      BY <1>1
    <3>3. Cardinality(In(T)) = a + b - 0
      BY <2>1, <3>1, <3>2, FS_EmptySet, Zenon
    <3> QED BY <3>2, <3>3
  <2> HIDE DEF h
  <2> QED BY <1>2, <2>2, <2>3
<1> HIDE DEF h, In
<1>5. Additive(h, f, P)
  BY <1>2, <1>3, <1>4 DEF Additive
<1>6. SumFunctionOnSet(f, P) = h[P]
  BY <1>5, SumIs
<1> QED BY <1>2, <1>6 DEF In
=============================================================================
