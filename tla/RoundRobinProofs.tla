--------------------------- MODULE RoundRobinProofs ---------------------------
(***************************************************************************)
(* Proofs about RoundRobin, for any set of keys, any weights, any width of *)
(* the weights' sum and windows of any length: the shares are exact.       *)
(*                                                                         *)
(* The library's induction theorems take the property as an operator; here *)
(* a property is the set of the numbers that have it.  A sum is the number *)
(* of elements of a finite set of pairs, of which the library knows all    *)
(* that is needed; the model's folds and recursive functions are shown to  *)
(* compute such numbers.                                                   *)
(***************************************************************************)
EXTENDS RoundRobin, TLAPS, FiniteSetTheorems, SequenceTheorems

LEMMA Induction ==
  ASSUME NEW P, 0 \in P, \A n \in Nat : n \in P => n + 1 \in P
  PROVE  Nat \subseteq P
<1>1. ASSUME Nat \ P # {} PROVE FALSE
  <2>1. PICK x \in Nat \ P : \A y \in Nat \ P : ~ (<<y, x>> \in OpToRel(<, Nat))
    BY <1>1, NatLessThanWellFounded, WFMin
  <2>2. x # 0
    OBVIOUS
  <2>3. x - 1 \in Nat
    BY <2>2
  <2>4. <<x - 1, x>> \in OpToRel(<, Nat)
    BY <2>3 DEF OpToRel
  <2>5. x - 1 \in P
    BY <2>1, <2>3, <2>4
  <2>6. (x - 1) + 1 \in P
    BY <2>5, <2>3
  <2>7. (x - 1) + 1 = x
    OBVIOUS
  <2> QED
    BY <2>6, <2>7
<1> QED
  BY <1>1

(* A function defined by steps along 0 .. N exists, whatever the steps.    *)
SteppedBy(f, N, V, v0, step) ==
  /\ f \in [0 .. N -> V]
  /\ f[0] = v0
  /\ \A i \in 1 .. N : f[i] = step[<<i, f[i-1]>>]

LEMMA StepsDefine ==
  ASSUME NEW N \in Nat, NEW V, NEW v0 \in V, NEW step \in [(1 .. N) \X V -> V]
  PROVE  \E f : SteppedBy(f, N, V, v0, step)
<1> DEFINE Defines(f, n) == f[0] = v0 /\ \A i \in 1 .. n : f[i] = step[<<i, f[i-1]>>]
           P == {n \in Nat : n <= N => \E f \in [0 .. n -> V] : Defines(f, n)}
<1>1. 0 \in P
  <2>1. [i \in 0 .. 0 |-> v0] \in [0 .. 0 -> V] /\ Defines([i \in 0 .. 0 |-> v0], 0)
    OBVIOUS
  <2> QED
    BY <2>1
<1>2. ASSUME NEW n \in Nat, n \in P PROVE n + 1 \in P
  <2> SUFFICES ASSUME n + 1 <= N
               PROVE  \E f \in [0 .. n + 1 -> V] : Defines(f, n + 1)
    OBVIOUS
  <2>1. PICK f \in [0 .. n -> V] : Defines(f, n)
    BY <1>2
  <2> DEFINE v == step[<<n + 1, f[n]>>]
             g == [i \in 0 .. n + 1 |-> IF i = n + 1 THEN v ELSE f[i]]
  <2>2. v \in V
    <3>1. f[n] \in V /\ n + 1 \in 1 .. N
      OBVIOUS
    <3> QED
      BY <3>1
  <2>3. g \in [0 .. n + 1 -> V]
    BY <2>2
  <2>4. /\ \A i \in 0 .. n : g[i] = f[i]
        /\ g[n + 1] = v
    OBVIOUS
  <2>5. ASSUME NEW i \in 1 .. n + 1 PROVE g[i] = step[<<i, g[i-1]>>]
    <3>1. CASE i \in 1 .. n
      BY <2>1, <2>4, <3>1
    <3>2. CASE i = n + 1
      <4>1. i - 1 = n /\ n \in 0 .. n
        BY <3>2
      <4> QED
        BY <2>4, <3>2, <4>1
    <3> QED
      BY <3>1, <3>2
  <2>6. g[0] = v0
    BY <2>1
  <2> QED
    BY <2>3, <2>5, <2>6
<1> HIDE DEF P
<1>3. N \in P
  BY <1>1, <1>2, Induction
<1> QED
  BY <1>3 DEF P, SteppedBy
-----------------------------------------------------------------------------
(* Sums as cardinalities: f[x] elements for each x of S.                   *)
Heap(f, S) == {p \in S \X Nat : p[2] \in 1 .. f[p[1]]}

SumOver(f, S) == Cardinality(Heap(f, S))

LEMMA HeapFinite ==
  ASSUME NEW S, IsFiniteSet(S), NEW f \in [S -> Nat]
  PROVE  \A T \in SUBSET S : IsFiniteSet(Heap(f, T)) /\ SumOver(f, T) \in Nat
<1> DEFINE P == {n \in Nat : \A T \in SUBSET S : Cardinality(T) = n => IsFiniteSet(Heap(f, T))}
<1>1. 0 \in P
  <2>1. ASSUME NEW T \in SUBSET S, Cardinality(T) = 0 PROVE IsFiniteSet(Heap(f, T))
    <3>1. T = {}
      BY <2>1, FS_Subset, FS_EmptySet
    <3>2. Heap(f, T) = {}
      BY <3>1 DEF Heap
    <3> QED
      BY <3>2, FS_EmptySet
  <2> QED
    BY <2>1
<1>2. ASSUME NEW n \in Nat, n \in P PROVE n + 1 \in P
  <2>1. ASSUME NEW T \in SUBSET S, Cardinality(T) = n + 1 PROVE IsFiniteSet(Heap(f, T))
    <3>1. IsFiniteSet(T)
      BY FS_Subset
    <3>2. T # {}
      BY <2>1, FS_EmptySet
    <3>3. PICK x \in T : TRUE
      BY <3>2
    <3>4. Cardinality(T \ {x}) = n
      <4>1. Cardinality(T \ {x}) = Cardinality(T) - 1
        BY <3>1, FS_RemoveElement
      <4> QED
        BY <2>1, <4>1
    <3>5. IsFiniteSet(Heap(f, T \ {x}))
      BY <1>2, <3>4
    <3>6. IsFiniteSet({x} \X (1 .. f[x]))
      <4>1. IsFiniteSet({x})
        BY FS_Singleton
      <4>2. f[x] \in Int
        OBVIOUS
      <4>3. IsFiniteSet(1 .. f[x])
        BY <4>2, FS_Interval
      <4> QED
        BY <4>1, <4>3, FS_Product
    <3>7. Heap(f, T) = Heap(f, T \ {x}) \cup ({x} \X (1 .. f[x]))
      BY DEF Heap
    <3>8. IsFiniteSet(Heap(f, T \ {x}) \cup ({x} \X (1 .. f[x])))
      BY <3>5, <3>6, FS_Union
    <3> QED
      BY <3>7, <3>8
  <2> QED
    BY <2>1
<1> HIDE DEF P
<1>3. Nat \subseteq P
  BY <1>1, <1>2, Induction
<1>4. ASSUME NEW T \in SUBSET S PROVE IsFiniteSet(Heap(f, T))
  <2>1. Cardinality(T) \in Nat
    BY FS_Subset, FS_CardinalityType
  <2> QED
    BY <1>3, <2>1 DEF P
<1> QED
  BY <1>4, FS_CardinalityType DEF SumOver

LEMMA SumOfNone == ASSUME NEW f PROVE SumOver(f, {}) = 0
<1>1. Heap(f, {}) = {}
  BY DEF Heap
<1> QED
  BY <1>1, FS_EmptySet DEF SumOver

LEMMA SumOfMore ==
  ASSUME NEW S, IsFiniteSet(S), NEW f \in [S -> Nat],
         NEW T \in SUBSET S, NEW x \in S \ T
  PROVE  SumOver(f, T \cup {x}) = SumOver(f, T) + f[x]
<1> DEFINE A == Heap(f, T)
           B == {x} \X (1 .. f[x])
<1>1. IsFiniteSet(A) /\ Cardinality(A) \in Nat
  BY HeapFinite DEF SumOver
<1>2. IsFiniteSet(B) /\ Cardinality(B) = f[x]
  <2>1. IsFiniteSet({x}) /\ Cardinality({x}) = 1
    BY FS_Singleton
  <2>2. IsFiniteSet(1 .. f[x]) /\ Cardinality(1 .. f[x]) = f[x]
    BY FS_Interval
  <2>3. IsFiniteSet(B) /\ Cardinality(B) = Cardinality({x}) * Cardinality(1 .. f[x])
    BY <2>1, <2>2, FS_Product
  <2> QED
    BY <2>1, <2>2, <2>3
<1>3. Heap(f, T \cup {x}) = A \cup B /\ A \cap B = {}
  BY DEF Heap
<1>4. Cardinality(A \cup B) = Cardinality(A) + Cardinality(B) - Cardinality(A \cap B)
  BY <1>1, <1>2, FS_Union
<1>5. Cardinality(A \cap B) = 0
  BY <1>3, FS_EmptySet
<1> HIDE DEF A, B
<1>6. Cardinality(A \cup B) = Cardinality(A) + f[x]
  BY <1>1, <1>2, <1>4, <1>5
<1> QED
  BY <1>3, <1>6 DEF SumOver, A

LEMMA SumGrows ==
  ASSUME NEW S, IsFiniteSet(S), NEW f \in [S -> Nat],
         NEW T \in SUBSET S, NEW U \in SUBSET T
  PROVE  SumOver(f, U) <= SumOver(f, T)
<1>1. Heap(f, U) \subseteq Heap(f, T)
  BY DEF Heap
<1>2. IsFiniteSet(Heap(f, T))
  BY HeapFinite
<1> QED
  BY <1>1, <1>2, FS_Subset DEF SumOver

(* The library's fold over a function computes the sum.                    *)
LEMMA TotalIsSum ==
  ASSUME NEW f \in [Keys -> Nat]
  PROVE  Total(f) = SumOver(f, Keys) /\ Total(f) \in Nat
<1> DEFINE first(s) == CHOOSE x \in s : TRUE
           Folds(g) == g = [s \in SUBSET Keys |->
                              IF s = {} THEN 0 ELSE f[first(s)] + g[s \ {first(s)}]]
           sum == [s \in SUBSET Keys |-> SumOver(f, s)]
           iter == CHOOSE g : Folds(g)
<1>1. IsFiniteSet(Keys)
  BY RoundRobinAssumption
<1>2. \A s \in SUBSET Keys : s # {} => first(s) \in s
  OBVIOUS
<1> HIDE DEF first
<1>3. Folds(sum)
  <2>1. ASSUME NEW s \in SUBSET Keys, s # {}
        PROVE  SumOver(f, s) = f[first(s)] + SumOver(f, s \ {first(s)})
    <3>1. first(s) \in Keys \ (s \ {first(s)}) /\ s \ {first(s)} \in SUBSET Keys
      BY <1>2, <2>1
    <3>2. SumOver(f, (s \ {first(s)}) \cup {first(s)})
            = SumOver(f, s \ {first(s)}) + f[first(s)]
      BY <1>1, <3>1, SumOfMore
    <3>3. (s \ {first(s)}) \cup {first(s)} = s
      BY <1>2, <2>1
    <3>4. SumOver(f, s \ {first(s)}) \in Nat /\ f[first(s)] \in Nat
      BY <1>1, <3>1, HeapFinite
    <3> QED
      BY <3>2, <3>3, <3>4
  <2>2. \A s \in SUBSET Keys :
          sum[s] = IF s = {} THEN 0 ELSE f[first(s)] + sum[s \ {first(s)}]
    BY <2>1, SumOfNone
  <2> QED
    BY <2>2
<1>4. Folds(iter)
  <2> HIDE DEF Folds
  <2> QED
    BY <1>3
<1>5. Total(f) = iter[Keys]
  BY DEF Total, FoldFunctionOnSet, MapThenFoldSet, first
<1> DEFINE P == {n \in Nat : \A T \in SUBSET Keys :
                              Cardinality(T) = n => iter[T] = SumOver(f, T)}
<1> HIDE DEF iter
<1>6. 0 \in P
  <2>1. ASSUME NEW T \in SUBSET Keys, Cardinality(T) = 0 PROVE iter[T] = SumOver(f, T)
    <3>1. T = {}
      BY <1>1, <2>1, FS_Subset, FS_EmptySet
    <3> QED
      BY <1>4, <3>1, SumOfNone
  <2> QED
    BY <2>1
<1>7. ASSUME NEW n \in Nat, n \in P PROVE n + 1 \in P
  <2>1. ASSUME NEW T \in SUBSET Keys, Cardinality(T) = n + 1
        PROVE  iter[T] = SumOver(f, T)
    <3>1. IsFiniteSet(T) /\ T # {}
      BY <1>1, <2>1, FS_Subset, FS_EmptySet
    <3>2. first(T) \in T
      BY <1>2, <3>1
    <3>3. Cardinality(T \ {first(T)}) = n
      <4>1. Cardinality(T \ {first(T)}) = Cardinality(T) - 1
        BY <3>1, <3>2, FS_RemoveElement
      <4> QED
        BY <2>1, <4>1
    <3>4. iter[T \ {first(T)}] = SumOver(f, T \ {first(T)})
      BY <1>7, <3>3
    <3>5. iter[T] = f[first(T)] + iter[T \ {first(T)}]
      BY <1>4, <3>1
    <3>6. sum[T] = f[first(T)] + sum[T \ {first(T)}]
      BY <1>3, <3>1
    <3> QED
      BY <3>4, <3>5, <3>6
  <2> QED
    BY <2>1
<1> HIDE DEF P
<1>8. Nat \subseteq P
  BY <1>6, <1>7, Induction
<1>9. iter[Keys] = SumOver(f, Keys)
  BY <1>1, <1>8, FS_CardinalityType DEF P
<1> QED
  BY <1>1, <1>5, <1>9, HeapFinite

LEMMA TotalOfNone == Total([k \in Keys |-> 0]) = 0
<1> DEFINE f == [k \in Keys |-> 0]
<1>1. Heap(f, Keys) = {}
  BY DEF Heap
<1>2. f \in [Keys -> Nat]
  OBVIOUS
<1> QED
  BY <1>1, <1>2, TotalIsSum, FS_EmptySet DEF SumOver

LEMMA TotalCounts ==
  ASSUME NEW f \in [Keys -> Nat], NEW k \in Keys
  PROVE  /\ Total([f EXCEPT ![k] = @ + 1]) = Total(f) + 1
         /\ f[k] <= Total(f)
<1> DEFINE g == [f EXCEPT ![k] = @ + 1]
           one == <<k, f[k] + 1>>
<1>1. IsFiniteSet(Keys)
  BY RoundRobinAssumption
<1>2. g \in [Keys -> Nat]
  OBVIOUS
<1>3. Heap(g, Keys) = Heap(f, Keys) \cup {one} /\ one \notin Heap(f, Keys)
  <2>1. ASSUME NEW p \in Keys \X Nat
        PROVE  p[2] \in 1 .. g[p[1]] <=> p[2] \in 1 .. f[p[1]] \/ p = one
    <3>1. PICK j \in Keys, n \in Nat : p = <<j, n>>
      OBVIOUS
    <3>2. g[j] = IF j = k THEN f[k] + 1 ELSE f[j]
      OBVIOUS
    <3>3. n \in 1 .. g[j] <=> n \in 1 .. f[j] \/ (j = k /\ n = f[k] + 1)
      BY <3>2
    <3> QED
      BY <3>1, <3>3
  <2>2. one \in Keys \X Nat /\ one[2] \notin 1 .. f[one[1]]
    OBVIOUS
  <2> HIDE DEF g, one
  <2> QED
    BY <2>1, <2>2 DEF Heap
<1>4. Cardinality(Heap(g, Keys)) = Cardinality(Heap(f, Keys)) + 1
  <2>1. IsFiniteSet(Heap(f, Keys))
    BY <1>1, HeapFinite
  <2> HIDE DEF g, one
  <2> QED
    BY <1>3, <2>1, FS_AddElement
<1>5. Total(g) = Total(f) + 1
  BY <1>2, <1>4, TotalIsSum DEF SumOver
<1>6. f[k] <= Total(f)
  <2>1. SumOver(f, {} \cup {k}) = SumOver(f, {}) + f[k]
    BY <1>1, SumOfMore
  <2>2. SumOver(f, {k}) <= SumOver(f, Keys)
    BY <1>1, SumGrows
  <2>3. {} \cup {k} = {k} /\ SumOver(f, {}) + f[k] = f[k]
    BY SumOfNone
  <2> QED
    BY <2>1, <2>2, <2>3, TotalIsSum
<1> QED
  BY <1>5, <1>6
-----------------------------------------------------------------------------
Distinct(s) == \A i, j \in 1 .. Len(s) : s[i] = s[j] => i = j

LEMMA CollectedStep ==
  ASSUME NEW s \in Seq(Keys), NEW up \in [Keys -> BOOLEAN]
  PROVE  /\ Collected(s, up)[0] = << >>
         /\ \A i \in 0 .. Len(s) : Collected(s, up)[i] \in Seq(Keys)
         /\ \A i \in 1 .. Len(s) :
              Collected(s, up)[i] = IF up[s[i]] THEN Append(Collected(s, up)[i-1], s[i])
                                    ELSE Collected(s, up)[i-1]
<1> DEFINE N == Len(s)
           V == Seq(Keys)
           Next1(i, c) == IF up[s[i]] THEN Append(c, s[i]) ELSE c
           Value(g, i) == IF i = 0 THEN << >>
                          ELSE IF up[s[i]] THEN Append(g[i-1], s[i])
                          ELSE g[i-1]
           Filters(g) == g = [i \in 0 .. N |-> Value(g, i)]
           step == [x \in (1 .. N) \X V |-> Next1(x[1], x[2])]
           taken == CHOOSE g : Filters(g)
<1>1. N \in Nat /\ << >> \in V
  BY EmptySeq, LenProperties
<1>2. \A i \in 1 .. N : s[i] \in Keys
  BY LenProperties
<1>3. ASSUME NEW i \in 1 .. N, NEW c \in V PROVE Next1(i, c) \in V
  BY <1>2, AppendProperties
<1>4. Collected(s, up) = taken
  BY DEF Collected
<1>5. \A g : \A i \in 1 .. N : Value(g, i) = Next1(i, g[i-1])
  BY <1>1
<1>6. \A g : Value(g, 0) = << >>
  OBVIOUS
<1> HIDE DEF N, V, Next1, Value
<1>7. step \in [(1 .. N) \X V -> V] /\ \A i \in 1 .. N, c \in V : step[<<i, c>>] = Next1(i, c)
  BY <1>3
<1> HIDE DEF step
<1>8. PICK f : SteppedBy(f, N, V, << >>, step)
  BY <1>1, <1>7, StepsDefine
<1>9. \A i \in 1 .. N : i - 1 \in 0 .. N /\ i \in 0 .. N
  BY <1>1
<1>10. \A i \in 0 .. N : f[i] = Value(f, i)
  <2>1. ASSUME NEW i \in 1 .. N PROVE f[i] = Value(f, i)
    <3>1. f[i-1] \in V
      BY <1>8, <1>9 DEF SteppedBy
    <3>2. Value(f, i) = Next1(i, f[i-1])
      BY <1>5
    <3>3. step[<<i, f[i-1]>>] = Next1(i, f[i-1])
      BY <1>7, <3>1
    <3>4. f[i] = step[<<i, f[i-1]>>]
      BY <1>8 DEF SteppedBy
    <3> QED
      BY <3>2, <3>3, <3>4
  <2>2. 0 .. N = {0} \cup 1 .. N
    BY <1>1
  <2> QED
    BY <1>6, <1>8, <2>1, <2>2 DEF SteppedBy
<1>11. Filters(f)
  BY <1>8, <1>10 DEF SteppedBy
<1>12. Filters(taken)
  <2> HIDE DEF Filters
  <2> QED
    BY <1>11
<1> HIDE DEF taken
<1>13. \A i \in 0 .. N : taken[i] = Value(taken, i)
  BY <1>12
<1>14. taken[0] = << >> /\ \A i \in 1 .. N : taken[i] = Next1(i, taken[i-1])
  BY <1>1, <1>5, <1>6, <1>9, <1>13
<1> DEFINE P == {n \in Nat : n <= N => taken[n] \in V}
<1>15. 0 \in P
  BY <1>1, <1>14
<1>16. ASSUME NEW n \in Nat, n \in P PROVE n + 1 \in P
  <2> SUFFICES ASSUME n + 1 <= N PROVE taken[n + 1] \in V
    OBVIOUS
  <2>1. n + 1 \in 1 .. N /\ taken[n] \in V /\ (n + 1) - 1 = n
    BY <1>1, <1>16
  <2> QED
    BY <1>3, <1>14, <2>1
<1> HIDE DEF P
<1>17. Nat \subseteq P
  BY <1>15, <1>16, Induction
<1>18. \A i \in 0 .. N : taken[i] \in V
  BY <1>1, <1>17 DEF P
<1> QED
  BY <1>4, <1>14, <1>18 DEF N, V, Next1

(* The filter keeps each healthy key of a list without repetitions, once.  *)
LEMMA Filtering ==
  ASSUME NEW s \in Seq(Keys), Distinct(s), NEW up \in [Keys -> BOOLEAN]
  PROVE  /\ HealthyOf(s, up) \in Seq(Keys)
         /\ Distinct(HealthyOf(s, up))
         /\ ToSet(HealthyOf(s, up)) = {k \in ToSet(s) : up[k]}
<1> DEFINE c(n) == Collected(s, up)[n]
           Seen(n) == {k \in Keys : up[k] /\ \E j \in 1 .. n : s[j] = k}
           P == {n \in Nat : n <= Len(s) => Distinct(c(n)) /\ ToSet(c(n)) = Seen(n)}
<1>1. Len(s) \in Nat /\ \A i \in 1 .. Len(s) : s[i] \in Keys
  BY LenProperties
<1>2. 0 \in P
  <2>1. c(0) = << >> /\ Len(<< >>) = 0
    BY CollectedStep
  <2>2. Seen(0) = {}
    OBVIOUS
  <2> QED
    BY <2>1, <2>2 DEF Distinct, ToSet
<1>3. ASSUME NEW n \in Nat, n \in P PROVE n + 1 \in P
  <2> SUFFICES ASSUME n + 1 <= Len(s)
               PROVE  Distinct(c(n + 1)) /\ ToSet(c(n + 1)) = Seen(n + 1)
    OBVIOUS
  <2> DEFINE k == s[n + 1]
  <2>1. Distinct(c(n)) /\ ToSet(c(n)) = Seen(n)
    BY <1>1, <1>3
  <2>2. n + 1 \in 1 .. Len(s) /\ n \in 0 .. Len(s) /\ k \in Keys
    BY <1>1
  <2>3. c(n) \in Seq(Keys) /\ c(n + 1) = IF up[k] THEN Append(c(n), k) ELSE c(n)
    <3>1. (n + 1) - 1 = n
      OBVIOUS
    <3> QED
      BY <2>2, <3>1, CollectedStep
  <2>4. \A j \in 1 .. n : s[j] # k
    BY <1>1, <2>2 DEF Distinct
  <2>5. 1 .. n + 1 = (1 .. n) \cup {n + 1}
    OBVIOUS
  <2>6. Seen(n + 1) = Seen(n) \cup (IF up[k] THEN {k} ELSE {})
    BY <2>2, <2>5
  <2> HIDE DEF c, k
  <2>7. CASE up[k]
    <3> DEFINE a == Append(c(n), k)
    <3>1. /\ Len(a) = Len(c(n)) + 1 /\ Len(c(n)) \in Nat /\ a \in Seq(Keys)
          /\ \A i \in 1 .. Len(c(n)) : a[i] = c(n)[i]
          /\ a[Len(c(n)) + 1] = k
      BY <2>2, <2>3, AppendProperties, LenProperties
    <3>2. DOMAIN a = 1 .. Len(a) /\ DOMAIN c(n) = 1 .. Len(c(n))
      BY <2>3, <3>1, LenProperties
    <3> HIDE DEF a
    <3>3. ToSet(a) = ToSet(c(n)) \cup {k}
      BY <3>1, <3>2 DEF ToSet
    <3>4. k \notin ToSet(c(n))
      BY <2>1, <2>4
    <3>5. Distinct(a)
      <4> SUFFICES ASSUME NEW i \in 1 .. Len(a), NEW j \in 1 .. Len(a), a[i] = a[j]
                   PROVE  i = j
        BY DEF Distinct
      <4>1. \A m \in 1 .. Len(c(n)) : a[m] \in ToSet(c(n))
        BY <3>1, <3>2 DEF ToSet
      <4>2. i \in 1 .. Len(c(n)) \/ i = Len(c(n)) + 1
        BY <3>1
      <4>3. j \in 1 .. Len(c(n)) \/ j = Len(c(n)) + 1
        BY <3>1
      <4> QED
        BY <2>1, <3>1, <3>4, <4>1, <4>2, <4>3 DEF Distinct
    <3>6. c(n + 1) = a /\ Seen(n + 1) = Seen(n) \cup {k}
      BY <2>3, <2>6, <2>7 DEF a
    <3> QED
      BY <2>1, <3>3, <3>5, <3>6
  <2>8. CASE ~ up[k]
    BY <2>1, <2>3, <2>6, <2>8
  <2> QED
    BY <2>7, <2>8
<1> HIDE DEF P
<1>4. Nat \subseteq P
  BY <1>2, <1>3, Induction
<1>5. Distinct(c(Len(s))) /\ ToSet(c(Len(s))) = Seen(Len(s))
  <2>1. Len(s) \in P
    BY <1>1, <1>4
  <2> HIDE DEF c, Seen
  <2> QED
    BY <1>1, <2>1 DEF P
<1>6. Seen(Len(s)) = {k \in ToSet(s) : up[k]}
  <2>1. DOMAIN s = 1 .. Len(s)
    BY LenProperties
  <2> QED
    BY <1>1, <2>1 DEF ToSet
<1>7. c(Len(s)) \in Seq(Keys)
  BY <1>1, CollectedStep
<1> QED
  BY <1>5, <1>6, <1>7 DEF HealthyOf

LEMMA AccumulatedStep ==
  ASSUME NEW ws \in Seq(Nat)
  PROVE  /\ Accumulated(ws)[0] = 0
         /\ \A i \in 0 .. Len(ws) : Accumulated(ws)[i] \in 0 .. U32 - 1
         /\ \A i \in 1 .. Len(ws) :
              Accumulated(ws)[i] = (Accumulated(ws)[i-1] + ws[i]) % U32
<1> DEFINE N == Len(ws)
           V == 0 .. U32 - 1
           Next1(i, c) == (c + ws[i]) % U32
           Value(g, i) == IF i = 0 THEN 0 ELSE (g[i-1] + ws[i]) % U32
           Adds(g) == g = [i \in 0 .. N |-> Value(g, i)]
           step == [x \in (1 .. N) \X V |-> Next1(x[1], x[2])]
           acc == CHOOSE g : Adds(g)
<1>1. N \in Nat /\ 0 \in V
  BY LenProperties, U32Assumption
<1>2. \A i \in 1 .. N : ws[i] \in Nat
  BY LenProperties
<1>3. ASSUME NEW i \in 1 .. N, NEW c \in V PROVE Next1(i, c) \in V
  <2>1. c + ws[i] \in Nat
    BY <1>2, U32Assumption
  <2> QED
    BY <2>1, U32Assumption
<1>4. Accumulated(ws) = acc
  BY DEF Accumulated
<1>5. \A g : \A i \in 1 .. N : Value(g, i) = Next1(i, g[i-1])
  BY <1>1
<1>6. \A g : Value(g, 0) = 0
  OBVIOUS
<1> HIDE DEF N, V, Next1, Value
<1>7. step \in [(1 .. N) \X V -> V] /\ \A i \in 1 .. N, c \in V : step[<<i, c>>] = Next1(i, c)
  BY <1>3
<1> HIDE DEF step
<1>8. PICK f : SteppedBy(f, N, V, 0, step)
  BY <1>1, <1>7, StepsDefine
<1>9. \A i \in 1 .. N : i - 1 \in 0 .. N /\ i \in 0 .. N
  BY <1>1
<1>10. \A i \in 0 .. N : f[i] = Value(f, i)
  <2>1. ASSUME NEW i \in 1 .. N PROVE f[i] = Value(f, i)
    <3>1. f[i-1] \in V
      BY <1>8, <1>9 DEF SteppedBy
    <3>2. Value(f, i) = Next1(i, f[i-1])
      BY <1>5
    <3>3. step[<<i, f[i-1]>>] = Next1(i, f[i-1])
      BY <1>7, <3>1
    <3>4. f[i] = step[<<i, f[i-1]>>]
      BY <1>8 DEF SteppedBy
    <3> QED
      BY <3>2, <3>3, <3>4
  <2>2. 0 .. N = {0} \cup 1 .. N
    BY <1>1
  <2> QED
    BY <1>6, <1>8, <2>1, <2>2 DEF SteppedBy
<1>11. Adds(f)
  BY <1>8, <1>10 DEF SteppedBy
<1>12. Adds(acc)
  <2> HIDE DEF Adds
  <2> QED
    BY <1>11
<1> HIDE DEF acc
<1>13. \A i \in 0 .. N : acc[i] = Value(acc, i)
  BY <1>12
<1>14. acc[0] = 0 /\ \A i \in 1 .. N : acc[i] = Next1(i, acc[i-1])
  BY <1>1, <1>5, <1>6, <1>9, <1>13
<1> DEFINE P == {n \in Nat : n <= N => acc[n] \in V}
<1>15. 0 \in P
  BY <1>1, <1>14
<1>16. ASSUME NEW n \in Nat, n \in P PROVE n + 1 \in P
  <2> SUFFICES ASSUME n + 1 <= N PROVE acc[n + 1] \in V
    OBVIOUS
  <2>1. n + 1 \in 1 .. N /\ acc[n] \in V /\ (n + 1) - 1 = n
    BY <1>1, <1>16
  <2> QED
    BY <1>3, <1>14, <2>1
<1> HIDE DEF P
<1>17. Nat \subseteq P
  BY <1>15, <1>16, Induction
<1>18. \A i \in 0 .. N : acc[i] \in V
  BY <1>1, <1>17 DEF P
<1> QED
  BY <1>4, <1>14, <1>18 DEF N, V, Next1
-----------------------------------------------------------------------------
(* Where the entries of a list of candidates end, on the line that the     *)
(* cursor runs along: entry i covers Reach(i-1) up to Reach(i).            *)
Reach(c, f, i) == SumOver(f, {c[j] : j \in 1 .. i})

WeightsOf(c, f) == [i \in 1 .. Len(c) |-> f[c[i]]]

LEMMA ReachStep ==
  ASSUME NEW c \in Seq(Keys), Distinct(c), NEW f \in [Keys -> Nat]
  PROVE  /\ Reach(c, f, 0) = 0
         /\ \A i \in 0 .. Len(c) : Reach(c, f, i) \in Nat
         /\ \A i \in 1 .. Len(c) : /\ c[i] \in Keys
                                   /\ Reach(c, f, i) = Reach(c, f, i-1) + f[c[i]]
         /\ \A i, j \in 0 .. Len(c) : i <= j => Reach(c, f, i) <= Reach(c, f, j)
<1> DEFINE Pre(i) == {c[j] : j \in 1 .. i}
<1>1. IsFiniteSet(Keys)
  BY RoundRobinAssumption
<1>2. Len(c) \in Nat /\ \A i \in 1 .. Len(c) : c[i] \in Keys
  BY LenProperties
<1>3. \A i \in 0 .. Len(c) : Pre(i) \in SUBSET Keys
  BY <1>2
<1>4. Pre(0) = {}
  OBVIOUS
<1>5. ASSUME NEW i \in 1 .. Len(c)
      PROVE  Reach(c, f, i) = Reach(c, f, i-1) + f[c[i]]
  <2>1. i - 1 \in 0 .. Len(c) /\ 1 .. i = (1 .. i-1) \cup {i}
    BY <1>2
  <2>2. Pre(i) = Pre(i-1) \cup {c[i]}
    BY <2>1
  <2>3. c[i] \in Keys \ Pre(i-1)
    <3>1. \A j \in 1 .. i-1 : j \in 1 .. Len(c) /\ j # i
      BY <1>2
    <3>2. \A j \in 1 .. i-1 : c[j] # c[i]
      BY <3>1 DEF Distinct
    <3> QED
      BY <1>2, <3>2
  <2>4. Pre(i-1) \in SUBSET Keys
    BY <1>3, <2>1
  <2> HIDE DEF Pre
  <2>5. SumOver(f, Pre(i-1) \cup {c[i]}) = SumOver(f, Pre(i-1)) + f[c[i]]
    BY <1>1, <2>3, <2>4, SumOfMore
  <2> QED
    BY <2>2, <2>5 DEF Reach, Pre
<1>6. ASSUME NEW i \in 0 .. Len(c), NEW j \in 0 .. Len(c), i <= j
      PROVE  Reach(c, f, i) <= Reach(c, f, j)
  <2>1. 1 .. i \subseteq 1 .. j
    BY <1>2, <1>6
  <2>2. Pre(i) \in SUBSET Pre(j)
    BY <2>1
  <2>3. Pre(j) \in SUBSET Keys
    BY <1>3
  <2> HIDE DEF Pre
  <2>4. SumOver(f, Pre(i)) <= SumOver(f, Pre(j))
    BY <1>1, <2>2, <2>3, SumGrows
  <2> QED
    BY <2>4 DEF Reach, Pre
<1>7. \A i \in 0 .. Len(c) : Reach(c, f, i) \in Nat
  <2> HIDE DEF Pre
  <2>1. \A i \in 0 .. Len(c) : SumOver(f, Pre(i)) \in Nat
    BY <1>1, <1>3, HeapFinite
  <2> QED
    BY <2>1 DEF Reach, Pre
<1>8. Reach(c, f, 0) = 0
  BY <1>4, SumOfNone DEF Reach
<1> QED
  BY <1>2, <1>5, <1>6, <1>7, <1>8

(* As long as the total fits, the wrapping sums are the true ones.         *)
LEMMA AccumulatedReach ==
  ASSUME NEW c \in Seq(Keys), Distinct(c), NEW f \in [Keys -> Nat],
         Reach(c, f, Len(c)) < U32
  PROVE  /\ WeightsOf(c, f) \in Seq(Nat) /\ Len(WeightsOf(c, f)) = Len(c)
         /\ \A i \in 0 .. Len(c) : Accumulated(WeightsOf(c, f))[i] = Reach(c, f, i)
<1> DEFINE ws == WeightsOf(c, f)
           N == Len(c)
           P == {n \in Nat : n <= N => Accumulated(ws)[n] = Reach(c, f, n)}
<1>1. N \in Nat /\ \A i \in 1 .. N : c[i] \in Keys
  BY LenProperties
<1>2. ws \in Seq(Nat) /\ Len(ws) = N
  <2>1. ws \in [1 .. N -> Nat]
    BY <1>1 DEF WeightsOf
  <2> QED
    BY <1>1, <2>1, SeqDef
<1>3. \A i \in 1 .. N : ws[i] = f[c[i]]
  BY DEF WeightsOf
<1> HIDE DEF ws
<1>4. 0 \in P
  BY <1>2, AccumulatedStep, ReachStep
<1>5. ASSUME NEW n \in Nat, n \in P PROVE n + 1 \in P
  <2> SUFFICES ASSUME n + 1 <= N
               PROVE  Accumulated(ws)[n + 1] = Reach(c, f, n + 1)
    OBVIOUS
  <2>1. n + 1 \in 1 .. N /\ n \in 0 .. N /\ n + 1 \in 0 .. N /\ N \in 0 .. N
    BY <1>1
  <2>2. (n + 1) - 1 = n
    OBVIOUS
  <2>3. Accumulated(ws)[n + 1] = (Accumulated(ws)[n] + ws[n + 1]) % U32
    BY <1>2, <2>1, <2>2, AccumulatedStep
  <2>4. Reach(c, f, n + 1) = Reach(c, f, n) + f[c[n + 1]]
    BY <2>1, <2>2, ReachStep
  <2>5. Reach(c, f, n + 1) \in Nat /\ Reach(c, f, n + 1) <= Reach(c, f, N)
    BY <1>1, <2>1, ReachStep
  <2>6. Reach(c, f, N) \in Nat
    BY <2>1, ReachStep
  <2>7. Accumulated(ws)[n] = Reach(c, f, n) /\ ws[n + 1] = f[c[n + 1]]
    BY <1>1, <1>3, <1>5, <2>1
  <2>8. Accumulated(ws)[n + 1] = Reach(c, f, n + 1) % U32
    BY <2>3, <2>4, <2>7
  <2>9. \A r \in Nat : r < U32 => r % U32 = r
    BY U32Assumption
  <2>10. Reach(c, f, n + 1) < U32
    BY <2>5, <2>6, U32Assumption
  <2> HIDE DEF N
  <2> QED
    BY <2>5, <2>8, <2>9, <2>10
<1> HIDE DEF P
<1>6. Nat \subseteq P
  BY <1>4, <1>5, Induction
<1>7. \A i \in 0 .. N : Accumulated(ws)[i] = Reach(c, f, i)
  BY <1>1, <1>6 DEF P
<1> QED
  BY <1>2, <1>7 DEF ws

(* The entry that acquire_key returns is the one whose stretch of the line *)
(* the cursor is on, and there is only one.                                *)
LEMMA PickLands ==
  ASSUME NEW c \in Seq(Keys), Distinct(c), NEW f \in [Keys -> Nat],
         Reach(c, f, Len(c)) < U32,
         NEW index \in Nat, index < Reach(c, f, Len(c)),
         NEW i \in 1 .. Len(c), Picks(WeightsOf(c, f), index, i)
  PROVE  \A j \in 1 .. Len(c) :
           index \in Reach(c, f, j-1) .. Reach(c, f, j) - 1 <=> j = i
<1> DEFINE N == Len(c)
           R(j) == Reach(c, f, j)
<1>1. N \in Nat /\ \A j \in 1 .. N : j - 1 \in 0 .. N /\ j \in 0 .. N
  BY LenProperties
<1>2. Len(WeightsOf(c, f)) = N /\ \A j \in 0 .. N : Accumulated(WeightsOf(c, f))[j] = R(j)
  BY AccumulatedReach
<1>3. R(0) = 0 /\ \A j \in 0 .. N : R(j) \in Nat
  BY ReachStep
<1>4. \A j, k \in 0 .. N : j <= k => R(j) <= R(k)
  BY ReachStep
<1> HIDE DEF R
<1>5. LoopFinds(WeightsOf(c, f), index)
  <2>1. N \in 1 .. N /\ R(N) > index
    BY <1>1, <1>3 DEF R
  <2> QED
    BY <1>1, <1>2, <2>1 DEF LoopFinds
<1>6. R(i) > index /\ \A j \in 1 .. i-1 : R(j) <= index
  <2>1. \A j \in 1 .. i-1 : j \in 0 .. N
    BY <1>1
  <2> QED
    BY <1>1, <1>2, <1>5, <2>1 DEF Picks, Covers
<1>7. R(i-1) <= index
  <2>1. CASE i = 1
    BY <1>3, <2>1
  <2>2. CASE i # 1
    <3>1. i - 1 \in 1 .. i-1
      BY <1>1, <2>2
    <3> QED
      BY <1>6, <3>1
  <2> QED
    BY <2>1, <2>2
<1>8. ASSUME NEW j \in 1 .. N PROVE index \in R(j-1) .. R(j) - 1 <=> j = i
  <2>1. R(j) \in Nat /\ R(j-1) \in Nat /\ R(i) \in Nat /\ R(i-1) \in Nat
    BY <1>1, <1>3
  <2>2. j < i => R(j) <= R(i-1)
    BY <1>1, <1>4
  <2>3. i < j => R(i) <= R(j-1)
    BY <1>1, <1>4
  <2>4. index \in R(j-1) .. R(j) - 1 <=> R(j-1) <= index /\ index < R(j)
    BY <2>1
  <2>5. CASE j < i
    BY <1>7, <2>1, <2>2, <2>4, <2>5
  <2>6. CASE i < j
    BY <1>6, <2>1, <2>3, <2>4, <2>6
  <2>7. CASE j = i
    BY <1>6, <1>7, <2>4, <2>7
  <2> QED
    BY <1>1, <2>5, <2>6, <2>7
<1> QED
  BY <1>8 DEF R
-----------------------------------------------------------------------------
(* Of the first m places that a cursor starting at 0 visits on a circle of *)
(* T places, those within the w places from lo on.                         *)
Within(x, w) == IF x < 0 THEN 0 ELSE IF x > w THEN w ELSE x

Hits(m, T, lo, w) == (m \div T) * w + Within((m % T) - lo, w)

OnStretch(m, T, lo, w) == m % T \in lo .. lo + w - 1

LEMMA Division ==
  ASSUME NEW m \in Nat, NEW T \in Nat \ {0}
  PROVE  m \div T \in Nat /\ m % T \in 0 .. T - 1 /\ m = T * (m \div T) + (m % T)
  OBVIOUS

LEMMA DivisionUnique ==
  ASSUME NEW q \in Nat, NEW T \in Nat \ {0}, NEW r \in 0 .. T - 1
  PROVE  (T * q + r) \div T = q /\ (T * q + r) % T = r
  OBVIOUS

LEMMA NextPlace ==
  ASSUME NEW m \in Nat, NEW T \in Nat \ {0}
  PROVE  IF m % T = T - 1
         THEN (m + 1) \div T = m \div T + 1 /\ (m + 1) % T = 0
         ELSE (m + 1) \div T = m \div T /\ (m + 1) % T = (m % T) + 1
<1> DEFINE q == m \div T
           r == m % T
<1>1. q \in Nat /\ r \in 0 .. T - 1 /\ m = T * q + r
  BY Division
<1> HIDE DEF q, r
<1>2. CASE r = T - 1
  <2>1. m + 1 = T * (q + 1) + 0
    BY <1>1, <1>2
  <2>2. (T * (q + 1) + 0) \div T = q + 1 /\ (T * (q + 1) + 0) % T = 0
    BY <1>1, DivisionUnique
  <2> QED
    BY <1>2, <2>1, <2>2 DEF q, r
<1>3. CASE r # T - 1
  <2>1. m + 1 = T * q + (r + 1) /\ r + 1 \in 0 .. T - 1
    BY <1>1, <1>3
  <2>2. (T * q + (r + 1)) \div T = q /\ (T * q + (r + 1)) % T = r + 1
    BY <1>1, <2>1, DivisionUnique
  <2> QED
    BY <1>3, <2>1, <2>2 DEF q, r
<1> QED
  BY <1>2, <1>3 DEF r

LEMMA SamePlaceNext ==
  ASSUME NEW a \in Nat, NEW b \in Nat, NEW T \in Nat \ {0}, a % T = b % T
  PROVE  (a + 1) % T = ((b + 1) % T) % T
<1>1. (a + 1) % T = (b + 1) % T
  BY NextPlace
<1>2. (b + 1) % T \in 0 .. T - 1
  BY Division
<1>3. \A r \in 0 .. T - 1 : r % T = r
  OBVIOUS
<1> QED
  BY <1>1, <1>2, <1>3

LEMMA HitsType ==
  ASSUME NEW m \in Nat, NEW T \in Nat \ {0}, NEW lo \in Nat, NEW w \in Nat
  PROVE  Hits(m, T, lo, w) \in Nat
<1>1. m \div T \in Nat /\ m % T \in Nat
  BY Division
<1>2. (m \div T) * w \in Nat
  BY <1>1
<1>3. Within((m % T) - lo, w) \in Nat
  BY <1>1 DEF Within
<1> QED
  BY <1>2, <1>3 DEF Hits

LEMMA HitsStep ==
  ASSUME NEW m \in Nat, NEW T \in Nat \ {0}, NEW lo \in Nat, NEW w \in Nat, lo + w <= T
  PROVE  Hits(m + 1, T, lo, w)
           = Hits(m, T, lo, w) + (IF OnStretch(m, T, lo, w) THEN 1 ELSE 0)
<1> DEFINE q == m \div T
           r == m % T
<1>1. q \in Nat /\ r \in 0 .. T - 1
  BY Division
<1>2. q * w \in Nat /\ (q + 1) * w = q * w + w
  BY <1>1
<1>3. CASE r = T - 1
  <2>1. (m + 1) \div T = q + 1 /\ (m + 1) % T = 0
    BY <1>3, NextPlace
  <2> HIDE DEF q, r
  <2>2. Within(0 - lo, w) = 0
    BY DEF Within
  <2>3. Within(r - lo, w) + (IF r \in lo .. lo + w - 1 THEN 1 ELSE 0) = w
    BY <1>1, <1>3 DEF Within
  <2>4. Within(r - lo, w) \in Nat
    BY <1>1 DEF Within
  <2>5. (q + 1) * w + Within(0 - lo, w)
          = q * w + Within(r - lo, w) + (IF r \in lo .. lo + w - 1 THEN 1 ELSE 0)
    BY <1>2, <2>2, <2>3, <2>4
  <2> QED
    BY <2>1, <2>5 DEF Hits, OnStretch, q, r
<1>4. CASE r # T - 1
  <2>1. (m + 1) \div T = q /\ (m + 1) % T = r + 1
    BY <1>4, NextPlace
  <2> HIDE DEF q, r
  <2>2. Within(r + 1 - lo, w)
          = Within(r - lo, w) + (IF r \in lo .. lo + w - 1 THEN 1 ELSE 0)
    BY <1>1 DEF Within
  <2>3. Within(r - lo, w) \in Nat
    BY <1>1 DEF Within
  <2>4. q * w + Within(r + 1 - lo, w)
          = q * w + Within(r - lo, w) + (IF r \in lo .. lo + w - 1 THEN 1 ELSE 0)
    BY <1>2, <2>2, <2>3
  <2> QED
    BY <2>1, <2>4 DEF Hits, OnStretch, q, r
<1> QED
  BY <1>3, <1>4

(* Wherever the cursor starts, n steps give q rounds and a part of one.    *)
LEMMA HitsShare ==
  ASSUME NEW T \in Nat \ {0}, NEW s \in 0 .. T - 1, NEW n \in Nat,
         NEW lo \in Nat, NEW w \in Nat, lo + w <= T
  PROVE  Hits(s + n, T, lo, w) - Hits(s, T, lo, w)
           \in (n \div T) * w .. (n \div T) * w + Lesser(n % T, w)
<1> DEFINE q == n \div T
           r == n % T
           In(x) == Within(x - lo, w)
<1>1. q \in Nat /\ r \in 0 .. T - 1 /\ n = T * q + r
  BY Division
<1>2. q * w \in Nat /\ (q + 1) * w = q * w + w
  BY <1>1
<1> HIDE DEF q, r
<1>3. Hits(s, T, lo, w) = In(s)
  <2>1. s = T * 0 + s
    OBVIOUS
  <2>2. (T * 0 + s) \div T = 0 /\ (T * 0 + s) % T = s
    BY DivisionUnique
  <2> QED
    BY <2>1, <2>2 DEF Hits, Within
<1>4. CASE s + r < T
  <2>1. s + n = T * q + (s + r) /\ s + r \in 0 .. T - 1
    BY <1>1, <1>4
  <2>2. (T * q + (s + r)) \div T = q /\ (T * q + (s + r)) % T = s + r
    BY <1>1, <2>1, DivisionUnique
  <2>3. Hits(s + n, T, lo, w) = q * w + In(s + r)
    BY <2>1, <2>2 DEF Hits
  <2>4. In(s + r) - In(s) \in 0 .. Lesser(r, w) /\ In(s + r) \in Nat /\ In(s) \in Nat
    BY <1>1 DEF Within, Lesser
  <2>5. Lesser(r, w) \in Nat
    BY <1>1 DEF Lesser
  <2> HIDE DEF In
  <2>6. (q * w + In(s + r)) - In(s) \in q * w .. q * w + Lesser(r, w)
    BY <1>2, <2>4, <2>5
  <2> QED
    BY <1>3, <2>3, <2>6 DEF q, r
<1>5. CASE s + r >= T
  <2> DEFINE u == s + r - T
  <2>1. s + n = T * (q + 1) + u /\ u \in 0 .. T - 1
    BY <1>1, <1>5
  <2>2. (T * (q + 1) + u) \div T = q + 1 /\ (T * (q + 1) + u) % T = u
    BY <1>1, <2>1, DivisionUnique
  <2>3. Hits(s + n, T, lo, w) = q * w + w + In(u)
    BY <1>2, <2>1, <2>2 DEF Hits
  <2>4. w + In(u) - In(s) \in 0 .. Lesser(r, w) /\ In(u) \in Nat /\ In(s) \in Nat
    BY <1>1, <1>5 DEF Within, Lesser
  <2>5. Lesser(r, w) \in Nat
    BY <1>1 DEF Lesser
  <2> HIDE DEF In, u
  <2>6. (q * w + w + In(u)) - In(s) \in q * w .. q * w + Lesser(r, w)
    BY <1>2, <2>4, <2>5
  <2> QED
    BY <1>3, <2>3, <2>6 DEF q, r
<1> QED
  BY <1>1, <1>4, <1>5
-----------------------------------------------------------------------------
(* What a state of the pool makes of the line: its candidates, and what    *)
(* each key of the pool is owed, nothing if it is no candidate.            *)
SharesOf(w, up) == [k \in Keys |-> IF up[k] THEN w[k] ELSE 0]

Fits(c, f) ==
  /\ c \in Seq(Keys) /\ Distinct(c)
  /\ f \in [Keys -> Nat]
  /\ Total(f) = Reach(c, f, Len(c))
  /\ \A k \in Keys : k \notin ToSet(c) => f[k] = 0

LEMMA CandidatesFit ==
  ASSUME NEW o \in Seq(Keys), Distinct(o), NEW w \in [Keys -> 0 .. U32 - 1],
         NEW up \in [Keys -> BOOLEAN], \A k \in Keys : k \notin ToSet(o) => w[k] = 0
  PROVE  /\ Fits(HealthyOf(o, up), SharesOf(w, up))
         /\ WeightsOf(HealthyOf(o, up), SharesOf(w, up))
              = [i \in 1 .. Len(HealthyOf(o, up)) |-> w[HealthyOf(o, up)[i]]]
<1> DEFINE c == HealthyOf(o, up)
           f == SharesOf(w, up)
<1>1. c \in Seq(Keys) /\ Distinct(c) /\ ToSet(c) = {k \in ToSet(o) : up[k]}
  BY Filtering
<1>2. f \in [Keys -> Nat] /\ \A k \in Keys : f[k] = IF up[k] THEN w[k] ELSE 0
  BY U32Assumption DEF SharesOf
<1>3. \A k \in Keys : k \notin ToSet(c) => f[k] = 0
  BY <1>1, <1>2
<1>4. Len(c) \in Nat /\ DOMAIN c = 1 .. Len(c) /\ \A i \in 1 .. Len(c) : c[i] \in Keys
  BY <1>1, LenProperties
<1>5. ToSet(c) = {c[j] : j \in 1 .. Len(c)} /\ ToSet(c) \subseteq Keys
  BY <1>4 DEF ToSet
<1>6. \A i \in 1 .. Len(c) : f[c[i]] = w[c[i]]
  <2>1. \A i \in 1 .. Len(c) : c[i] \in ToSet(c) /\ c[i] \in Keys
    BY <1>4, <1>5
  <2>2. \A i \in 1 .. Len(c) : up[c[i]]
    BY <1>1, <2>1
  <2> QED
    BY <1>2, <2>1, <2>2
<1>7. WeightsOf(c, f) = [i \in 1 .. Len(c) |-> w[c[i]]]
  BY <1>6 DEF WeightsOf
<1> HIDE DEF c, f
<1>8. Heap(f, Keys) = Heap(f, ToSet(c))
  <2>1. \A p \in Keys \X Nat : p[2] \in 1 .. f[p[1]] => p[1] \in ToSet(c)
    <3> SUFFICES ASSUME NEW k \in Keys, NEW n \in Nat, n \in 1 .. f[k]
                 PROVE  k \in ToSet(c)
      OBVIOUS
    <3> QED
      BY <1>3
  <2> QED
    BY <1>5, <2>1 DEF Heap
<1>9. Total(f) = Reach(c, f, Len(c))
  BY <1>2, <1>5, <1>8, TotalIsSum DEF SumOver, Reach
<1> QED
  BY <1>1, <1>2, <1>3, <1>7, <1>9 DEF Fits, c, f

(* A window in which the cursor has come from place s, in Total(p) steps,  *)
(* to where r is: each candidate has been picked as often as the cursor    *)
(* was on its stretch.                                                     *)
Window(s, c, f, p, r) ==
  LET W == Total(f)
      n == Total(p)
  IN  /\ s \in 0 .. W - 1
      /\ (s + n) % W = r % W
      /\ \A i \in 1 .. Len(c) :
           p[c[i]] = Hits(s + n, W, Reach(c, f, i-1), f[c[i]])
                       - Hits(s, W, Reach(c, f, i-1), f[c[i]])
      /\ \A k \in Keys : k \notin ToSet(c) => p[k] = 0

InWindow(c, f, p, r) == Total(f) \in 1 .. U32 - 1 => \E s \in Nat : Window(s, c, f, p, r)

(* The stretches lie within the circle.                                    *)
LEMMA StretchFits ==
  ASSUME NEW c, NEW f, Fits(c, f), NEW i \in 1 .. Len(c)
  PROVE  /\ c[i] \in Keys
         /\ Reach(c, f, i-1) \in Nat /\ f[c[i]] \in Nat
         /\ Reach(c, f, i) = Reach(c, f, i-1) + f[c[i]]
         /\ Reach(c, f, i-1) + f[c[i]] <= Total(f)
<1>1. c \in Seq(Keys) /\ Distinct(c) /\ f \in [Keys -> Nat] /\ Total(f) = Reach(c, f, Len(c))
  BY DEF Fits
<1>2. Len(c) \in Nat /\ c[i] \in Keys
  BY <1>1, LenProperties
<1>3. i \in 0 .. Len(c) /\ i - 1 \in 0 .. Len(c) /\ Len(c) \in 0 .. Len(c) /\ i <= Len(c)
  BY <1>2
<1>4. Reach(c, f, i) = Reach(c, f, i-1) + f[c[i]] /\ Reach(c, f, i-1) \in Nat
  BY <1>1, <1>3, ReachStep
<1>5. Reach(c, f, i) <= Reach(c, f, Len(c))
  BY <1>1, <1>3, ReachStep
<1> QED
  BY <1>1, <1>2, <1>4, <1>5

(* A window opens wherever the cursor happens to be.                       *)
LEMMA FreshWindow ==
  ASSUME NEW c, NEW f, Fits(c, f), NEW r \in Nat
  PROVE  InWindow(c, f, [k \in Keys |-> 0], r)
<1> DEFINE W == Total(f)
           p == [k \in Keys |-> 0]
           s == r % W
<1> SUFFICES ASSUME W \in 1 .. U32 - 1 PROVE Window(s, c, f, p, r) /\ s \in Nat
  BY DEF InWindow
<1>1. W \in Nat \ {0}
  BY U32Assumption
<1>2. Total(p) = 0
  BY TotalOfNone
<1> HIDE DEF W
<1>3. s \in 0 .. W - 1 /\ s \in Nat
  BY <1>1, Division
<1>4. \A x \in 0 .. W - 1 : x % W = x
  BY <1>1
<1>5. s + Total(p) = s /\ (s + Total(p)) % W = r % W
  BY <1>2, <1>3, <1>4
<1> HIDE DEF s
<1>6. ASSUME NEW i \in 1 .. Len(c)
      PROVE  p[c[i]] = Hits(s + Total(p), W, Reach(c, f, i-1), f[c[i]])
                         - Hits(s, W, Reach(c, f, i-1), f[c[i]])
  <2>1. c[i] \in Keys /\ Reach(c, f, i-1) \in Nat /\ f[c[i]] \in Nat
    BY StretchFits
  <2>2. Hits(s, W, Reach(c, f, i-1), f[c[i]]) \in Nat
    BY <1>1, <1>3, <2>1, HitsType
  <2> QED
    BY <1>5, <2>1, <2>2
<1>7. \A k \in Keys : k \notin ToSet(c) => p[k] = 0
  OBVIOUS
<1> HIDE DEF p
<1> QED
  BY <1>3, <1>5, <1>6, <1>7 DEF Window, W, s

(* An acquisition moves the cursor one place and counts one pick, of the   *)
(* candidate whose stretch it was on.                                      *)
LEMMA WindowMoves ==
  ASSUME NEW c, NEW f, Fits(c, f), NEW p \in [Keys -> Nat], NEW r \in Nat,
         InWindow(c, f, p, r),
         NEW i \in 1 .. Len(c), Picks(WeightsOf(c, f), Index(WeightsOf(c, f), r), i)
  PROVE  InWindow(c, f, [p EXCEPT ![c[i]] = @ + 1], NextIndex(WeightsOf(c, f), r))
<1> DEFINE W == Total(f)
           n == Total(p)
           q == [p EXCEPT ![c[i]] = @ + 1]
           u == NextIndex(WeightsOf(c, f), r)
<1> SUFFICES ASSUME W \in 1 .. U32 - 1 PROVE \E s \in Nat : Window(s, c, f, q, u)
  BY DEF InWindow
<1>1. PICK s \in Nat : Window(s, c, f, p, r)
  BY DEF InWindow
<1>2. c \in Seq(Keys) /\ Distinct(c) /\ f \in [Keys -> Nat] /\ W = Reach(c, f, Len(c))
  BY DEF Fits
<1>3. W \in Nat \ {0} /\ W < U32
  BY U32Assumption
<1>4. c[i] \in Keys /\ c[i] \in ToSet(c)
  <2>1. DOMAIN c = 1 .. Len(c)
    BY <1>2, LenProperties
  <2> QED
    BY <2>1, StretchFits DEF ToSet
<1>5. n \in Nat /\ Total(q) = n + 1
  BY <1>4, TotalIsSum, TotalCounts
<1>6. TotalWeight(WeightsOf(c, f)) = W
  <2>1. Len(c) \in 0 .. Len(c)
    BY <1>2, LenProperties
  <2> QED
    BY <1>2, <1>3, <2>1, AccumulatedReach DEF TotalWeight
<1> HIDE DEF W, n
<1>7. /\ s \in 0 .. W - 1
      /\ (s + n) % W = r % W
      /\ \A j \in 1 .. Len(c) :
           p[c[j]] = Hits(s + n, W, Reach(c, f, j-1), f[c[j]])
                       - Hits(s, W, Reach(c, f, j-1), f[c[j]])
      /\ \A k \in Keys : k \notin ToSet(c) => p[k] = 0
  BY <1>1 DEF Window, W, n
<1> DEFINE m == s + n
           index == Index(WeightsOf(c, f), r)
<1>8. u = (r + 1) % W /\ index = r % W /\ m % W = r % W
  BY <1>6, <1>7 DEF NextIndex, Index
<1>9. m \in Nat /\ s + (n + 1) = m + 1
  BY <1>5, <1>7
<1> HIDE DEF m, index, u
<1>10. (m + 1) % W = u % W
  BY ONLY <1>3, <1>8, <1>9, SamePlaceNext
<1>11. index \in Nat /\ index < W
  <2>1. r % W \in 0 .. W - 1
    BY ONLY <1>3, Division
  <2> QED
    BY <1>3, <1>8, <2>1
<1>12. \A j \in 1 .. Len(c) : index \in Reach(c, f, j-1) .. Reach(c, f, j) - 1 <=> j = i
  BY <1>2, <1>3, <1>11, PickLands DEF index
<1>13. ASSUME NEW j \in 1 .. Len(c)
       PROVE  q[c[j]] = Hits(s + (n + 1), W, Reach(c, f, j-1), f[c[j]])
                          - Hits(s, W, Reach(c, f, j-1), f[c[j]])
  <2> DEFINE lo == Reach(c, f, j-1)
             w == f[c[j]]
  <2>1. c[j] \in Keys /\ lo \in Nat /\ w \in Nat /\ Reach(c, f, j) = lo + w /\ lo + w <= W
    BY StretchFits DEF W
  <2>2. OnStretch(m, W, lo, w) <=> j = i
    BY <1>8, <1>12, <2>1 DEF OnStretch
  <2>3. q[c[j]] = p[c[j]] + (IF j = i THEN 1 ELSE 0)
    <3>1. c[j] = c[i] <=> j = i
      BY <1>2 DEF Distinct
    <3>2. p[c[j]] \in Nat
      BY <2>1
    <3> QED
      BY <1>4, <2>1, <3>1, <3>2
  <2>4. p[c[j]] = Hits(m, W, lo, w) - Hits(s, W, lo, w)
    BY <1>7 DEF m
  <2> HIDE DEF lo, w, q
  <2>5. Hits(m + 1, W, lo, w) = Hits(m, W, lo, w) + (IF OnStretch(m, W, lo, w) THEN 1 ELSE 0)
    BY ONLY <1>3, <1>9, <2>1, HitsStep
  <2>6. Hits(m, W, lo, w) \in Nat /\ Hits(s, W, lo, w) \in Nat
    BY <1>3, <1>7, <1>9, <2>1, HitsType
  <2>7. q[c[j]] = Hits(m + 1, W, lo, w) - Hits(s, W, lo, w)
    BY <2>2, <2>3, <2>4, <2>5, <2>6
  <2> QED
    BY <1>9, <2>7 DEF lo, w
<1>14. \A k \in Keys : k \notin ToSet(c) => q[k] = 0
  BY <1>4, <1>7
<1> HIDE DEF q
<1>15. Window(s, c, f, q, u)
  BY <1>5, <1>7, <1>9, <1>10, <1>13, <1>14 DEF Window, W, n
<1> QED
  BY <1>15

(* In a window every key has had its share.                                *)
LEMMA WindowShares ==
  ASSUME NEW c, NEW f, Fits(c, f), NEW p \in [Keys -> Nat], NEW r \in Nat,
         InWindow(c, f, p, r), Total(f) \in 1 .. U32 - 1, NEW k \in Keys
  PROVE  p[k] \in (Total(p) \div Total(f)) * f[k]
                    .. (Total(p) \div Total(f)) * f[k] + Lesser(Total(p) % Total(f), f[k])
<1> DEFINE W == Total(f)
           n == Total(p)
<1>1. PICK s \in Nat : Window(s, c, f, p, r)
  BY DEF InWindow
<1>2. W \in Nat \ {0} /\ n \in Nat
  BY TotalIsSum, U32Assumption
<1>3. CASE k \in ToSet(c)
  <2>1. PICK i \in 1 .. Len(c) : k = c[i]
    <3>1. DOMAIN c = 1 .. Len(c)
      BY LenProperties DEF Fits
    <3> QED
      BY <1>3, <3>1 DEF ToSet
  <2> DEFINE lo == Reach(c, f, i-1)
             w == f[k]
  <2>2. lo \in Nat /\ w \in Nat /\ lo + w <= W
    BY <2>1, StretchFits
  <2>3. s \in 0 .. W - 1 /\ p[k] = Hits(s + n, W, lo, w) - Hits(s, W, lo, w)
    BY <1>1, <2>1 DEF Window
  <2> HIDE DEF W, n, lo, w
  <2>4. Hits(s + n, W, lo, w) - Hits(s, W, lo, w)
          \in (n \div W) * w .. (n \div W) * w + Lesser(n % W, w)
    BY ONLY <1>2, <2>2, <2>3, HitsShare
  <2> QED
    BY <2>3, <2>4 DEF W, n, w
<1>4. CASE k \notin ToSet(c)
  <2>1. p[k] = 0 /\ f[k] = 0
    BY <1>1, <1>4 DEF Window, Fits
  <2> HIDE DEF W, n
  <2>2. n \div W \in Nat /\ n % W \in Nat
    BY ONLY <1>2, Division
  <2>3. (n \div W) * 0 = 0 /\ Lesser(n % W, 0) = 0
    BY <2>2 DEF Lesser
  <2>4. p[k] \in (n \div W) * f[k] .. (n \div W) * f[k] + Lesser(n % W, f[k])
    BY <2>1, <2>3
  <2> QED
    BY <2>4 DEF W, n
<1> QED
  BY <1>3, <1>4
-----------------------------------------------------------------------------
(* The list of keys has no repetitions: add_key looks the key up first.    *)
LEMMA InitialOrder ==
  ASSUME NEW s \in SetToAllKPermutations(Keys)
  PROVE  s \in Seq(Keys) /\ Distinct(s)
<1>1. PICK S \in SUBSET Keys : s \in SetToSeqs(S)
  BY DEF SetToAllKPermutations
<1>2. Cardinality(S) \in Nat
  BY FS_Subset, FS_CardinalityType, RoundRobinAssumption
<1>3. /\ s \in [1 .. Cardinality(S) -> Keys]
      /\ \A i, j \in 1 .. Cardinality(S) : i # j => s[i] # s[j]
  BY <1>1 DEF SetToSeqs
<1>4. s \in Seq(Keys)
  BY <1>2, <1>3, SeqDef
<1>5. Len(s) = Cardinality(S)
  <2>1. DOMAIN s = 1 .. Cardinality(S)
    BY <1>3
  <2> QED
    BY <1>2, <2>1, <1>4, LenProperties
<1> QED
  BY <1>3, <1>4, <1>5 DEF Distinct

LEMMA RemoveAtShifts ==
  ASSUME NEW S, NEW s \in Seq(S), NEW i \in 1 .. Len(s)
  PROVE  /\ RemoveAt(s, i) \in Seq(S)
         /\ Len(RemoveAt(s, i)) = Len(s) - 1
         /\ \A j \in 1 .. Len(s) - 1 : RemoveAt(s, i)[j] = s[IF j < i THEN j ELSE j + 1]
<1> DEFINE a == SubSeq(s, 1, i-1)
           b == SubSeq(s, i+1, Len(s))
<1>1. Len(s) \in Nat
  OBVIOUS
<1>2. a \in Seq(S) /\ b \in Seq(S)
  BY SubSeqProperties
<1>3. Len(a) = i - 1 /\ Len(b) = Len(s) - i
  BY <1>1
<1>4. \A j \in 1 .. i - 1 : a[j] = s[j]
  BY <1>1
<1>5. \A j \in 1 .. Len(s) - i : b[j] = s[i + j]
  BY <1>1
<1>6. RemoveAt(s, i) = a \o b
  BY DEF RemoveAt
<1> HIDE DEF a, b
<1>7. /\ a \o b \in Seq(S)
      /\ Len(a \o b) = Len(a) + Len(b)
      /\ \A j \in 1 .. Len(a) + Len(b) :
           (a \o b)[j] = IF j <= Len(a) THEN a[j] ELSE b[j - Len(a)]
  BY ONLY <1>2, ConcatProperties
<1> DEFINE r == a \o b
<1> HIDE DEF r
<1>8. ASSUME NEW j \in 1 .. Len(s) - 1
      PROVE  r[j] = s[IF j < i THEN j ELSE j + 1]
  <2>1. r[j] = IF j <= i - 1 THEN a[j] ELSE b[j - (i - 1)]
    BY <1>1, <1>3, <1>7 DEF r
  <2>2. CASE j < i
    BY <1>1, <1>4, <2>1, <2>2
  <2>3. CASE ~ (j < i)
    <3>1. j - (i - 1) \in 1 .. Len(s) - i /\ i + (j - (i - 1)) = j + 1
      BY <1>1, <2>3
    <3>2. b[j - (i - 1)] = s[j + 1]
      BY <1>5, <3>1
    <3> QED
      BY <2>1, <2>3, <3>2
  <2> QED
    BY <2>2, <2>3
<1>9. Len(r) = Len(s) - 1
  BY <1>1, <1>3, <1>7 DEF r
<1> QED
  BY <1>6, <1>7, <1>8, <1>9 DEF r

LEMMA RemoveAtKeeps ==
  ASSUME NEW s \in Seq(Keys), Distinct(s), NEW i \in 1 .. Len(s)
  PROVE  /\ RemoveAt(s, i) \in Seq(Keys)
         /\ Distinct(RemoveAt(s, i))
         /\ ToSet(RemoveAt(s, i)) = ToSet(s) \ {s[i]}
<1> DEFINE r == RemoveAt(s, i)
           from(j) == IF j < i THEN j ELSE j + 1
<1>1. Len(s) \in Nat /\ DOMAIN s = 1 .. Len(s)
  BY LenProperties
<1>5. r \in Seq(Keys) /\ Len(r) = Len(s) - 1
  BY RemoveAtShifts
<1>6. \A j \in 1 .. Len(r) : from(j) \in 1 .. Len(s) /\ from(j) # i /\ r[j] = s[from(j)]
  <2>1. \A j \in 1 .. Len(r) : r[j] = s[from(j)]
    BY <1>5, RemoveAtShifts
  <2> QED
    BY <1>1, <1>5, <2>1
<1> HIDE DEF r
<1>7. Distinct(r)
  <2> SUFFICES ASSUME NEW j \in 1 .. Len(r), NEW k \in 1 .. Len(r), r[j] = r[k]
               PROVE  j = k
    BY DEF Distinct
  <2>1. from(j) = from(k)
    BY <1>6 DEF Distinct
  <2> QED
    BY <1>1, <1>5, <2>1
<1>8. DOMAIN r = 1 .. Len(r)
  BY <1>5, LenProperties
<1>9. ASSUME NEW x PROVE x \in ToSet(r) <=> x \in ToSet(s) \ {s[i]}
  <2>1. x \in ToSet(r) => x \in ToSet(s) \ {s[i]}
    <3> SUFFICES ASSUME NEW j \in 1 .. Len(r), x = r[j] PROVE x \in ToSet(s) \ {s[i]}
      BY <1>8 DEF ToSet
    <3>1. from(j) \in 1 .. Len(s) /\ from(j) # i /\ x = s[from(j)]
      BY <1>6
    <3>2. x # s[i]
      BY <3>1 DEF Distinct
    <3> HIDE DEF from
    <3> QED
      BY <1>1, <3>1, <3>2 DEF ToSet
  <2>2. x \in ToSet(s) \ {s[i]} => x \in ToSet(r)
    <3> SUFFICES ASSUME NEW k \in 1 .. Len(s), x = s[k], k # i PROVE x \in ToSet(r)
      BY <1>1 DEF ToSet
    <3> DEFINE j == IF k < i THEN k ELSE k - 1
    <3>1. j \in 1 .. Len(r) /\ from(j) = k
      BY <1>1, <1>5
    <3>2. r[j] = x
      BY <1>6, <3>1
    <3> HIDE DEF j
    <3> QED
      BY <1>8, <3>1, <3>2 DEF ToSet
  <2> QED
    BY <2>1, <2>2
<1> QED
  BY <1>5, <1>7, <1>9 DEF r

LEMMA AppendKeeps ==
  ASSUME NEW s \in Seq(Keys), Distinct(s), NEW k \in Keys, k \notin ToSet(s)
  PROVE  /\ Append(s, k) \in Seq(Keys)
         /\ Distinct(Append(s, k))
         /\ ToSet(s) \cup {k} \subseteq ToSet(Append(s, k))
<1> DEFINE r == Append(s, k)
<1>1. Len(s) \in Nat /\ DOMAIN s = 1 .. Len(s)
  BY LenProperties
<1>2. /\ r \in Seq(Keys) /\ Len(r) = Len(s) + 1
      /\ \A j \in 1 .. Len(s) : r[j] = s[j]
      /\ r[Len(s) + 1] = k
  BY AppendProperties
<1> HIDE DEF r
<1>3. \A j \in 1 .. Len(s) : r[j] # k
  BY <1>1, <1>2 DEF ToSet
<1>4. Distinct(r)
  <2> SUFFICES ASSUME NEW i \in 1 .. Len(r), NEW j \in 1 .. Len(r), r[i] = r[j]
               PROVE  i = j
    BY DEF Distinct
  <2>1. CASE i \in 1 .. Len(s) /\ j \in 1 .. Len(s)
    BY <1>2, <2>1 DEF Distinct
  <2>2. CASE i = Len(s) + 1 \/ j = Len(s) + 1
    BY <1>1, <1>2, <1>3, <2>2
  <2> QED
    BY <1>1, <1>2, <2>1, <2>2
<1>5. DOMAIN r = 1 .. Len(s) + 1
  BY <1>2, LenProperties
<1>6. \A j \in 1 .. Len(s) : j \in 1 .. Len(s) + 1
  BY <1>1
<1>7. ToSet(s) \subseteq ToSet(r)
  BY <1>1, <1>2, <1>5, <1>6 DEF ToSet
<1>8. k \in ToSet(r)
  <2>1. Len(s) + 1 \in 1 .. Len(s) + 1
    BY <1>1
  <2> QED
    BY <1>2, <1>5, <2>1 DEF ToSet
<1> QED
  BY <1>2, <1>4, <1>7, <1>8 DEF r
-----------------------------------------------------------------------------
Shares == SharesOf(weight, healthy)

(* The inductive invariant.  ExactShare counts picks and says nothing of   *)
(* the cursor; what is preserved is that the picks are those of a cursor   *)
(* that came from some place to where it is now.                           *)
RRInv ==
  /\ RRTypeOK
  /\ Distinct(order)
  /\ \A k \in Keys : k \notin Members => weight[k] = 0
  /\ Total(picks) <= MaxPicks
  /\ InWindow(Candidates, Shares, picks, rr)

LEMMA InvFits ==
  ASSUME RRInv
  PROVE  Fits(Candidates, Shares) /\ WeightsOf(Candidates, Shares) = CandidateWeights
<1>1. /\ order \in Seq(Keys) /\ Distinct(order) /\ healthy \in [Keys -> BOOLEAN]
      /\ weight \in [Keys -> 0 .. U32 - 1]
      /\ \A k \in Keys : k \notin ToSet(order) => weight[k] = 0
  BY DEF RRInv, RRTypeOK, Members
<1>2. /\ Fits(HealthyOf(order, healthy), SharesOf(weight, healthy))
      /\ WeightsOf(HealthyOf(order, healthy), SharesOf(weight, healthy))
           = [i \in 1 .. Len(HealthyOf(order, healthy)) |-> weight[HealthyOf(order, healthy)[i]]]
  BY ONLY <1>1, CandidatesFit
<1> QED
  BY <1>2 DEF Candidates, Shares, CandidateWeights, WeightsIn

(* A state in which nothing has been picked satisfies the invariant as     *)
(* soon as its list and weights do.                                        *)
LEMMA WindowOpens ==
  ASSUME NEW o \in Seq(Keys), Distinct(o), NEW w \in [Keys -> 0 .. U32 - 1],
         NEW up \in [Keys -> BOOLEAN], \A k \in Keys : k \notin ToSet(o) => w[k] = 0,
         NEW r \in 0 .. U32 - 1
  PROVE  /\ [k \in Keys |-> 0] \in [Keys -> 0 .. MaxPicks]
         /\ Total([k \in Keys |-> 0]) <= MaxPicks
         /\ InWindow(HealthyOf(o, up), SharesOf(w, up), [k \in Keys |-> 0], r)
<1>1. MaxPicks \in Nat /\ r \in Nat
  BY RoundRobinAssumption, U32Assumption
<1>2. Fits(HealthyOf(o, up), SharesOf(w, up))
  BY CandidatesFit
<1> QED
  BY <1>1, <1>2, FreshWindow, TotalOfNone

LEMMA InitInv == RRInit => RRInv
<1> SUFFICES ASSUME RRInit PROVE RRInv
  OBVIOUS
<1>1. order \in Seq(Keys) /\ Distinct(order)
  BY InitialOrder DEF RRInit
<1>2. PICK w \in [Keys -> Weights] : weight = [k \in Keys |-> IF k \in Members THEN w[k] ELSE 0]
  BY DEF RRInit
<1>3. /\ weight \in [Keys -> 0 .. U32 - 1]
      /\ \A k \in Keys : k \notin Members => weight[k] = 0
  <2> DEFINE V == 0 .. U32 - 1
  <2>1. 0 \in V /\ Weights \subseteq V
    BY RoundRobinAssumption, U32Assumption
  <2> HIDE DEF V
  <2>2. weight \in [Keys -> V]
    BY <1>2, <2>1
  <2>3. \A k \in Keys : k \notin Members => weight[k] = 0
    BY <1>2
  <2> QED
    BY <2>2, <2>3 DEF V
<1>4. healthy \in [Keys -> BOOLEAN] /\ rr \in 0 .. U32 - 1 /\ picks = [k \in Keys |-> 0]
  BY U32Assumption DEF RRInit
<1> QED
  BY <1>1, <1>3, <1>4, WindowOpens DEF RRInv, RRTypeOK, Candidates, Shares, Members

LEMMA CursorType ==
  ASSUME NEW ws, Usable(ws), NEW r \in Nat
  PROVE  NextIndex(ws, r) \in 0 .. U32 - 1
<1> DEFINE T == TotalWeight(ws)
<1>1. T \in Nat \ {0} /\ T < U32
  BY U32Assumption DEF Usable
<1> HIDE DEF T
<1>2. (r + 1) % T \in 0 .. T - 1
  BY <1>1
<1> QED
  BY <1>1, <1>2, U32Assumption DEF NextIndex, T

LEMMA AcquireInv ==
  ASSUME RRInv, AcquireKey
  PROVE  RRInv'
<1> DEFINE c == Candidates
           f == Shares
<1>1. PICK i \in 1 .. Len(c) :
        /\ Picks(CandidateWeights, Index(CandidateWeights, rr), i)
        /\ picks' = [picks EXCEPT ![c[i]] = @ + 1]
  BY DEF AcquireKey
<1>2. UNCHANGED <<order, weight, healthy>> /\ rr' = NextIndex(CandidateWeights, rr)
  BY DEF AcquireKey
<1>3. c' = c /\ f' = f
  BY <1>2 DEF Candidates, Shares
<1>4. Fits(c, f) /\ WeightsOf(c, f) = CandidateWeights
  BY InvFits
<1>5. c[i] \in Keys
  BY <1>4, StretchFits
<1>6. picks \in [Keys -> Nat] /\ rr \in Nat
  BY RoundRobinAssumption, U32Assumption DEF RRInv, RRTypeOK
<1>7. Total(picks') = Total(picks) + 1 /\ Total(picks) < MaxPicks /\ Total(picks) \in Nat
  BY <1>1, <1>5, <1>6, TotalCounts, TotalIsSum DEF AcquireKey
<1>8. picks' \in [Keys -> 0 .. MaxPicks]
  <2>1. picks[c[i]] <= Total(picks) /\ picks[c[i]] \in Nat
    BY <1>5, <1>6, TotalCounts
  <2>2. picks[c[i]] + 1 \in 0 .. MaxPicks
    BY <1>7, <2>1, RoundRobinAssumption
  <2> QED
    BY <1>1, <1>5, <2>2 DEF RRInv, RRTypeOK
<1>9. rr' \in 0 .. U32 - 1
  BY <1>2, <1>6, CursorType DEF AcquireKey
<1>10. InWindow(c, f, picks', rr')
  <2>1. InWindow(c, f, picks, rr)
    BY DEF RRInv
  <2> HIDE DEF c, f
  <2> QED
    BY <1>1, <1>2, <1>4, <1>6, <2>1, WindowMoves
<1>11. InWindow(Candidates, Shares, picks, rr)'
  BY <1>3, <1>10
<1> QED
  BY <1>2, <1>7, <1>8, <1>9, <1>11, RoundRobinAssumption DEF RRInv, RRTypeOK, Members

LEMMA ChangeInv ==
  ASSUME RRInv, NewWindow, rr' \in 0 .. U32 - 1,
         order' \in Seq(Keys), Distinct(order'), weight' \in [Keys -> 0 .. U32 - 1],
         healthy' \in [Keys -> BOOLEAN],
         \A k \in Keys : k \notin ToSet(order') => weight'[k] = 0
  PROVE  RRInv'
<1>2. picks' = [k \in Keys |-> 0]
  BY DEF NewWindow
<1>3. /\ picks' \in [Keys -> 0 .. MaxPicks]
      /\ Total(picks') <= MaxPicks
      /\ InWindow(HealthyOf(order', healthy'), SharesOf(weight', healthy'), picks', rr')
  BY <1>2, WindowOpens
<1> QED
  BY <1>3 DEF RRInv, RRTypeOK, Candidates, Shares, Members

LEMMA NextInv ==
  ASSUME RRInv, RRNext
  PROVE  RRInv'
<1>1. /\ order \in Seq(Keys) /\ Distinct(order) /\ healthy \in [Keys -> BOOLEAN]
      /\ weight \in [Keys -> 0 .. U32 - 1]
      /\ \A k \in Keys : k \notin ToSet(order) => weight[k] = 0
      /\ rr \in 0 .. U32 - 1
  BY DEF RRInv, RRTypeOK, Members
<1>2. ASSUME NEW k \in Keys, FlipHealth(k) PROVE RRInv'
  BY <1>1, <1>2, ChangeInv DEF FlipHealth
<1>3. ASSUME NEW k \in Keys, RemoveKey(k) PROVE RRInv'
  <2>1. PICK i \in 1 .. Len(order) : order[i] = k /\ order' = RemoveAt(order, i)
    BY <1>3 DEF RemoveKey
  <2>2. order' \in Seq(Keys) /\ Distinct(order') /\ ToSet(order') = ToSet(order) \ {k}
    BY <1>1, <2>1, RemoveAtKeeps
  <2>3. weight' \in [Keys -> 0 .. U32 - 1] /\ healthy' \in [Keys -> BOOLEAN]
    BY <1>1, <1>3, U32Assumption DEF RemoveKey
  <2>4. \A j \in Keys : j \notin ToSet(order') => weight'[j] = 0
    BY <1>1, <1>3, <2>2 DEF RemoveKey
  <2> QED
    BY <1>1, <1>3, <2>2, <2>3, <2>4, ChangeInv DEF RemoveKey
<1>4. ASSUME NEW k \in Keys, NEW w \in Weights, AddKey(k, w) PROVE RRInv'
  <2>1. /\ order' \in Seq(Keys) /\ Distinct(order')
        /\ ToSet(order) \cup {k} \subseteq ToSet(order')
    BY <1>1, <1>4, AppendKeeps DEF AddKey, Members
  <2>2. weight' \in [Keys -> 0 .. U32 - 1] /\ healthy' \in [Keys -> BOOLEAN]
    BY <1>1, <1>4, RoundRobinAssumption DEF AddKey
  <2>3. \A j \in Keys : j \notin ToSet(order') => weight'[j] = 0
    BY <1>1, <1>4, <2>1 DEF AddKey
  <2> QED
    BY <1>1, <1>4, <2>1, <2>2, <2>3, ChangeInv DEF AddKey
<1>5. ASSUME NEW seen \in [Keys -> BOOLEAN], AcquireAmidStores(seen) PROVE RRInv'
  <2>1. rr' \in 0 .. U32 - 1
    BY <1>1, <1>5, U32Assumption, CursorType DEF AcquireAmidStores
  <2> QED
    BY <1>1, <1>5, <2>1, ChangeInv DEF AcquireAmidStores
<1> QED
  BY <1>2, <1>3, <1>4, <1>5, AcquireInv DEF RRNext

LEMMA RRInvariant == RRSpec => []RRInv
<1>1. RRInv /\ [RRNext]_rrvars => RRInv'
  <2>1. CASE UNCHANGED rrvars
    BY <2>1 DEF rrvars, RRInv, RRTypeOK, Members, Candidates, Shares
  <2> QED
    BY <2>1, NextInv
<1> QED
  BY <1>1, InitInv, PTL DEF RRSpec

(* The cursor stays a u32, a window's counts stay within its length.       *)
THEOREM TypeCorrect == RRSpec => []RRTypeOK
<1>1. RRInv => RRTypeOK
  BY DEF RRInv
<1> QED
  BY <1>1, RRInvariant, PTL

(* Weighted round robin is exact (key_pool.rs:65-82): for any keys and any *)
(* weights whose sum is a u32, wherever the cursor was left by a list of   *)
(* candidates that is no more, and after any number of acquisitions, each  *)
(* candidate has been returned once per unit of weight for every full turn *)
(* of the cursor, and for the rest of a turn at most that often again.     *)
THEOREM SharesAreExact == RRSpec => []ExactShare
<1>1. RRInv => ExactShare
  <2> SUFFICES ASSUME RRInv, Total(Shares) \in 1 .. U32 - 1, NEW k \in Keys
               PROVE  picks[k] \in (Total(picks) \div Total(Shares)) * Shares[k]
                        .. (Total(picks) \div Total(Shares)) * Shares[k]
                             + Lesser(Total(picks) % Total(Shares), Shares[k])
    <3>1. Shares = [k \in Keys |-> CandidateWeight(k)]
      BY DEF Shares, SharesOf, CandidateWeight
    <3>2. \A k \in Keys : Shares[k] = CandidateWeight(k)
      BY <3>1
    <3> QED
      BY <3>1, <3>2 DEF ExactShare
  <2>1. picks \in [Keys -> Nat] /\ rr \in Nat
    BY RoundRobinAssumption, U32Assumption DEF RRInv, RRTypeOK
  <2>2. Fits(Candidates, Shares) /\ InWindow(Candidates, Shares, picks, rr)
    BY InvFits DEF RRInv
  <2> QED
    BY <2>1, <2>2, WindowShares
<1> QED
  BY <1>1, RRInvariant, PTL
=============================================================================
