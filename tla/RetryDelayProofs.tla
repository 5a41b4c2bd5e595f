--------------------------- MODULE RetryDelayProofs ---------------------------
(***************************************************************************)
(* Proofs about RetryDelay, for any width of the integer type, number of   *)
(* retries, base and build.                                                *)
(***************************************************************************)
EXTENDS RetryDelay, TLAPS, FiniteSetTheorems

(* The provers know nothing of powers.  A power of two counts the subsets  *)
(* of a finite set, of which the library knows enough.                     *)
LEMMA PowerOfTwo == ASSUME NEW n \in Nat
                    PROVE  /\ 2 ^ n \in Nat \ {0}
                           /\ IsFiniteSet(SUBSET (1 .. n))
                           /\ Cardinality(SUBSET (1 .. n)) = 2 ^ n
<1>1. IsFiniteSet(1 .. n) /\ Cardinality(1 .. n) = n
  BY FS_Interval
<1>2. IsFiniteSet(SUBSET (1 .. n)) /\ Cardinality(SUBSET (1 .. n)) = 2 ^ n
  BY <1>1, FS_SUBSET
<1>3. Cardinality(SUBSET (1 .. n)) \in Nat
  BY <1>2, FS_CardinalityType
<1>4. Cardinality(SUBSET (1 .. n)) # 0
  BY <1>2, FS_EmptySet
<1> QED
  BY <1>2, <1>3, <1>4

LEMMA FirstPower == 2 ^ 0 = 1
<1>1. SUBSET (1 .. 0) = {{}}
  OBVIOUS
<1>2. Cardinality({{}}) = 1
  BY FS_Singleton
<1> QED
  BY <1>1, <1>2, PowerOfTwo

LEMMA Doubling == ASSUME NEW n \in Nat PROVE 2 ^ (n + 1) = 2 * 2 ^ n
<1> DEFINE A == SUBSET (1 .. n)
           f == [T \in A |-> T \cup {n + 1}]
           B == {f[T] : T \in A}
<1>1. IsFiniteSet(A) /\ Cardinality(A) = 2 ^ n /\ 2 ^ n \in Nat
  BY PowerOfTwo
<1>2. IsFiniteSet(B) /\ Cardinality(B) = Cardinality(A)
  <2>1. f \in Surjection(A, B)
    BY DEF Surjection
  <2>2. \A S, T \in A : f[S] = f[T] => S = T
    <3> SUFFICES ASSUME NEW S \in A, NEW T \in A, f[S] = f[T]
                 PROVE  S = T
      OBVIOUS
    <3>1. n + 1 \notin S /\ n + 1 \notin T
      OBVIOUS
    <3>2. S \cup {n + 1} = T \cup {n + 1}
      OBVIOUS
    <3> QED
      BY <3>1, <3>2
  <2>3. f \in Bijection(A, B)
    BY <2>1, <2>2 DEF Bijection, Injection, IsInjective, Surjection
  <2> QED
    BY <1>1, <2>3, FS_Bijection DEF ExistsBijection
<1>3. A \cap B = {}
  <2>1. \A T \in A : n + 1 \notin T /\ n + 1 \in f[T]
    OBVIOUS
  <2> QED
    BY <2>1
<1>4. SUBSET (1 .. n + 1) = A \cup B
  <2>1. 1 .. n + 1 = (1 .. n) \cup {n + 1} /\ n + 1 \notin 1 .. n
    OBVIOUS
  <2>2. ASSUME NEW S \in SUBSET (1 .. n + 1) PROVE S \in A \cup B
    <3>1. CASE n + 1 \notin S
      BY <2>1, <3>1
    <3>2. CASE n + 1 \in S
      <4>1. S \ {n + 1} \in A
        BY <2>1
      <4>2. S = f[S \ {n + 1}]
        BY <3>2, <4>1
      <4> QED
        BY <4>1, <4>2
    <3> QED
      BY <3>1, <3>2
  <2>3. A \subseteq SUBSET (1 .. n + 1) /\ B \subseteq SUBSET (1 .. n + 1)
    <3>1. \A T \in A : T \in SUBSET (1 .. n + 1) /\ f[T] \in SUBSET (1 .. n + 1)
      BY <2>1
    <3> QED
      BY <3>1
  <2>4. SUBSET (1 .. n + 1) \subseteq A \cup B
    BY <2>2
  <2> QED
    BY <2>3, <2>4
<1>5. Cardinality(A \cup B) = Cardinality(A) + Cardinality(B)
  <2> HIDE DEF A, B
  <2>1. Cardinality(A \cup B) = Cardinality(A) + Cardinality(B) - Cardinality(A \cap B)
    BY <1>1, <1>2, FS_Union
  <2>2. Cardinality(A \cap B) = 0
    BY <1>3, FS_EmptySet
  <2> QED
    BY <1>1, <1>2, <2>1, <2>2
<1>6. Cardinality(SUBSET (1 .. n + 1)) = 2 ^ (n + 1)
  BY PowerOfTwo
<1> HIDE DEF A, B
<1>7. 2 ^ (n + 1) = Cardinality(A) + Cardinality(B)
  BY <1>4, <1>5, <1>6
<1> QED
  BY <1>1, <1>2, <1>7

LEMMA PowType == ASSUME NEW a \in Nat
                 PROVE  /\ Pow(a) \in Nat \ {0}
                        /\ Pow(a + 1) = 2 * Pow(a)
  BY PowerOfTwo, Doubling DEF Pow

LEMMA WidthType == 2 ^ W \in Nat \ {0} /\ U64 = 0 .. 2 ^ W - 1
  BY PowerOfTwo, RetryDelayAssumption DEF U64

LEMMA WrapType == ASSUME NEW n \in Nat
                  PROVE  /\ Wrap(n) \in U64 /\ Wrap(n) <= n
                         /\ n \in U64 => Wrap(n) = n
<1> DEFINE M == 2 ^ W
<1>1. M \in Nat \ {0} /\ U64 = 0 .. M - 1
  BY WidthType
<1> HIDE DEF M
<1>2. n % M \in 0 .. M - 1 /\ n % M <= n /\ (n < M => n % M = n)
  BY <1>1
<1> QED
  BY <1>1, <1>2 DEF Wrap, M
-----------------------------------------------------------------------------
(* The delay without a width, and how far the code's is from it: the       *)
(* jitter moves it by a quarter, an overflow only makes it shorter.        *)
Ideal(a) == base * Pow(a)

LEMMA IdealType == ASSUME DTypeOK, NEW a \in Nat
                   PROVE  /\ Ideal(a) \in Nat
                          /\ Ideal(a + 1) = 2 * Ideal(a)
<1>1. base \in Nat
  BY WidthType DEF DTypeOK
<1>2. \A b, p \in Nat : b * p \in Nat /\ b * (2 * p) = 2 * (b * p)
  OBVIOUS
<1> QED
  BY <1>1, <1>2, PowType DEF Ideal

LEMMA JitterType == ASSUME NEW e \in Nat
                    PROVE  Jitter(e) \in Nat /\ 4 * Jitter(e) <= e
  BY DEF Jitter

LEMMA DelayRange ==
  ASSUME DTypeOK, NEW a \in Nat
  PROVE  /\ Low(a) \in Nat /\ High(a) \in U64
         /\ 4 * High(a) <= 5 * Ideal(a)
         /\ ~ Overflows(a) => /\ Low(a) <= High(a)
                              /\ 4 * Low(a) >= 3 * Ideal(a)
<1> DEFINE p == Pow(a)
           e == Exponential(a)
<1>1. base \in Nat
  BY WidthType DEF DTypeOK
<1>2. p \in Nat /\ Wrap(p) \in Nat /\ Wrap(p) <= p /\ (p \in U64 => Wrap(p) = p)
  <2>1. p \in Nat
    BY PowType
  <2>2. U64 \subseteq Nat
    BY WidthType
  <2> QED
    BY <2>1, <2>2, WrapType
<1>3. base * Wrap(p) \in Nat /\ base * Wrap(p) <= Ideal(a)
  <2>1. \A b, x, y \in Nat : x <= y => b * x \in Nat /\ b * x <= b * y
    OBVIOUS
  <2> QED
    BY <1>1, <1>2, <2>1 DEF Ideal
<1>4. e \in Nat /\ e <= Ideal(a)
  <2>1. e \in U64 /\ e <= base * Wrap(p)
    BY <1>3, WrapType DEF Exponential
  <2> QED
    BY <1>3, <2>1, WidthType, IdealType
<1>5. Jitter(e) \in Nat /\ 4 * Jitter(e) <= e
  BY <1>4, JitterType
<1>6. Low(a) \in Nat /\ Low(a) = e - Jitter(e)
  BY <1>4, <1>5 DEF Low
<1>7. High(a) \in U64 /\ High(a) \in Nat /\ High(a) <= e + Jitter(e)
  BY <1>4, <1>5, WrapType, WidthType DEF High
<1>8. ASSUME ~ Overflows(a) PROVE Low(a) <= High(a) /\ 4 * Low(a) >= 3 * Ideal(a)
  <2>1. p \in U64 /\ Ideal(a) \in U64 /\ Ideal(a) + Jitter(Ideal(a)) \in U64
    BY <1>8 DEF Overflows, Ideal
  <2>2. e = Ideal(a)
    BY <1>2, <1>3, <2>1, IdealType, WrapType DEF Exponential, Ideal
  <2>3. High(a) = e + Jitter(e)
    BY <1>4, <1>5, <2>1, <2>2, WrapType DEF High
  <2> QED
    BY <1>4, <1>5, <1>6, <2>2, <2>3
<1> QED
  BY <1>4, <1>5, <1>6, <1>7, <1>8, IdealType
-----------------------------------------------------------------------------
(* What the delays slept so far, and the one about to be slept, have to do *)
(* with the attempt that the loop is at.                                   *)
SleptEnough ==
  base = 0 \/ 2 * (slept + base) >= 2 ^ W

DelayInv ==
  /\ DTypeOK
  /\ state = "sleeping" => attempt < MaxAttempt
  /\ 4 * slept + 5 * base <= 5 * Ideal(attempt)
  /\ SleptEnough \/ 4 * slept + 3 * base >= 3 * Ideal(attempt)
  /\ state = "sleeping" => /\ 4 * delay <= 5 * Ideal(attempt)
                           /\ SleptEnough \/ 4 * delay >= 3 * Ideal(attempt)
  /\ state = "calling" => 8 * delay <= 5 * Ideal(attempt)
  /\ state = "panicked" => SleptEnough

(* An overflow is only met by a request that has slept for an age: if none *)
(* was met before, the delays were at least three quarters of the ideal.   *)
LEMMA OverflowComesLate ==
  ASSUME DelayInv, Overflows(attempt)
  PROVE  SleptEnough
<1> DEFINE M == 2 ^ W
           e == Ideal(attempt)
<1>1. /\ M \in Nat \ {0} /\ base \in Nat /\ slept \in Nat /\ attempt \in Nat
      /\ U64 = 0 .. M - 1
  BY WidthType, RetryDelayAssumption DEF DelayInv, DTypeOK
<1>2. e \in Nat /\ Jitter(e) \in Nat /\ 4 * Jitter(e) <= e
  BY <1>1, IdealType, JitterType DEF DelayInv
<1>3. base = 0 \/ e + Jitter(e) >= M
  <2>1. Pow(attempt) \in Nat
    BY <1>1, PowType
  <2>2. \A b, q \in Nat : b # 0 => b * q >= q
    OBVIOUS
  <2>3. base # 0 => e >= Pow(attempt)
    BY <1>1, <2>1, <2>2 DEF Ideal
  <2>4. Pow(attempt) >= M \/ e >= M \/ e + Jitter(e) >= M
    BY <1>1, <1>2, <2>1 DEF Overflows, Ideal
  <2> QED
    BY <1>1, <1>2, <2>1, <2>3, <2>4
<1>4. SleptEnough \/ 4 * slept + 3 * base >= 3 * e
  BY DEF DelayInv
<1>5. base = 0 \/ 2 * (slept + base) >= M \/ 4 * slept + 3 * base >= 3 * e
  BY <1>4 DEF SleptEnough
<1> HIDE DEF M, e
<1>6. base = 0 \/ 2 * (slept + base) >= M
  BY <1>1, <1>2, <1>3, <1>5
<1> QED
  BY <1>6 DEF SleptEnough, M

LEMMA DelayInvInit == Init => DelayInv
<1> SUFFICES ASSUME Init PROVE DelayInv
  OBVIOUS
<1>1. DTypeOK
  BY WidthType, RetryDelayAssumption DEF Init, DTypeOK
<1>2. Ideal(attempt) = base /\ base \in Nat
  BY <1>1, FirstPower, WidthType DEF Init, Ideal, Pow, DTypeOK
<1> QED
  BY <1>1, <1>2 DEF Init, DelayInv

LEMMA DelayInvStep == DelayInv /\ [Next]_vars => DelayInv'
<1> SUFFICES ASSUME DelayInv, [Next]_vars PROVE DelayInv'
  OBVIOUS
<1>1. /\ base \in Nat /\ slept \in Nat /\ delay \in Nat
      /\ attempt \in 0 .. MaxAttempt /\ MaxAttempt \in Nat /\ U64 \subseteq Nat
      /\ 2 ^ W \in Nat
  BY WidthType, RetryDelayAssumption DEF DelayInv, DTypeOK
<1>2. Ideal(attempt) \in Nat /\ Ideal(attempt + 1) = 2 * Ideal(attempt)
  BY <1>1, IdealType DEF DelayInv
<1> DEFINE low == Low(attempt)
           high == High(attempt)
<1>3. /\ low \in Nat /\ high \in Nat /\ 4 * high <= 5 * Ideal(attempt)
      /\ ~ Overflows(attempt) => low <= high /\ 4 * low >= 3 * Ideal(attempt)
      /\ high \in U64
  <2>1. DTypeOK /\ attempt \in Nat
    BY <1>1 DEF DelayInv
  <2>2. /\ low \in Nat /\ high \in U64 /\ 4 * high <= 5 * Ideal(attempt)
        /\ ~ Overflows(attempt) => low <= high /\ 4 * low >= 3 * Ideal(attempt)
    BY <2>1, DelayRange
  <2> QED
    BY <1>1, <2>2
<1>4. CASE Fail
  <2>1. UNCHANGED <<checked, base, attempt, slept, Ideal(attempt), SleptEnough>>
    BY <1>4 DEF Fail, Ideal, SleptEnough
  <2>2. delay' \in low .. high
    BY <1>4 DEF Fail
  <2> HIDE DEF low, high
  <2>3. delay' \in U64 /\ delay' \in Nat /\ low <= delay' /\ delay' <= high
    <3>1. delay' \in Nat /\ low <= delay' /\ delay' <= high
      BY <1>3, <2>2
    <3> QED
      BY <1>3, <3>1, WidthType
  <2>4. 4 * delay' <= 5 * Ideal(attempt)
    BY <1>2, <1>3, <2>3
  <2>5. SleptEnough \/ 4 * delay' >= 3 * Ideal(attempt)
    <3>1. CASE Overflows(attempt)
      BY <3>1, OverflowComesLate
    <3>2. CASE ~ Overflows(attempt)
      BY <1>2, <1>3, <2>3, <3>2
    <3> QED
      BY <3>1, <3>2
  <2>6. state' \in {"sleeping", "done"} /\ (state' = "sleeping" => attempt < MaxAttempt)
    BY <1>4 DEF Fail
  <2> HIDE DEF SleptEnough, Ideal
  <2> QED
    BY <2>1, <2>3, <2>4, <2>5, <2>6 DEF DelayInv, DTypeOK
<1>5. CASE Panic
  <2>1. UNCHANGED <<checked, base, attempt, delay, slept, Ideal(attempt), SleptEnough>>
    BY <1>5 DEF Panic, Ideal, SleptEnough
  <2>2. Overflows(attempt)
    <3>1. Overflows(attempt) \/ low > high
      BY <1>5 DEF Panic, Panics
    <3> HIDE DEF low, high
    <3> QED
      BY <1>3, <3>1
  <2>3. SleptEnough
    BY <2>2, OverflowComesLate
  <2> QED
    BY <1>5, <2>1, <2>3 DEF Panic, DelayInv, DTypeOK
<1>6. CASE Sleep
  <2>1. /\ slept' = slept + delay /\ attempt' = attempt + 1
        /\ state = "sleeping" /\ state' = "calling"
        /\ UNCHANGED <<checked, base, delay>>
    BY <1>6 DEF Sleep
  <2>2. attempt' \in 0 .. MaxAttempt /\ slept' \in Nat
    BY <1>1, <2>1 DEF DelayInv
  <2>3. Ideal(attempt)' = 2 * Ideal(attempt)
    BY <1>2, <2>1 DEF Ideal
  <2>4. SleptEnough => SleptEnough'
    BY <1>1, <2>1 DEF SleptEnough
  <2>5. /\ 4 * slept + 5 * base <= 5 * Ideal(attempt)
        /\ 4 * delay <= 5 * Ideal(attempt)
        /\ SleptEnough \/ 4 * slept + 3 * base >= 3 * Ideal(attempt)
        /\ SleptEnough \/ 4 * delay >= 3 * Ideal(attempt)
    BY <2>1 DEF DelayInv
  <2>6. 4 * slept' + 5 * base <= 5 * (2 * Ideal(attempt))
    BY <1>1, <1>2, <2>1, <2>5
  <2>7. SleptEnough' \/ 4 * slept' + 3 * base >= 3 * (2 * Ideal(attempt))
    BY <1>1, <1>2, <2>1, <2>4, <2>5
  <2>8. 8 * delay <= 5 * (2 * Ideal(attempt))
    BY <1>1, <1>2, <2>5
  <2> QED
    BY <2>1, <2>2, <2>3, <2>6, <2>7, <2>8 DEF DelayInv, DTypeOK
<1>7. CASE Succeed
  <2>1. UNCHANGED <<checked, base, attempt, delay, slept, Ideal(attempt), SleptEnough>>
    BY <1>7 DEF Succeed, Ideal, SleptEnough
  <2> QED
    BY <1>7, <2>1 DEF Succeed, DelayInv, DTypeOK
<1>8. CASE UNCHANGED vars
  BY <1>8 DEF vars, DelayInv, DTypeOK, Ideal, SleptEnough
<1> QED
  BY <1>4, <1>5, <1>6, <1>7, <1>8 DEF Next

LEMMA DelaysFit == Spec => []DelayInv
  BY DelayInvInit, DelayInvStep, PTL DEF Spec

(* Every variable of the retry loop's clock keeps its type: the width of   *)
(* the arithmetic is never left, in any build (retry.rs:74-79).            *)
THEOREM TypeCorrect == Spec => []DTypeOK
<1>1. DelayInv => DTypeOK
  BY DEF DelayInv
<1> QED
  BY <1>1, DelaysFit, PTL

(* The sleeps of a request add up to no more than five quarters of the     *)
(* geometric series (retry.rs:60-79), whether the arithmetic wraps or not. *)
THEOREM SleepsAreBounded == Spec => []WaitBounded
<1>1. DelayInv => WaitBounded
  <2> SUFFICES ASSUME DelayInv PROVE WaitBounded
    OBVIOUS
  <2>1. base \in Nat /\ slept \in Nat /\ attempt \in Nat
    BY WidthType, RetryDelayAssumption DEF DelayInv, DTypeOK
  <2>2. Pow(attempt) \in Nat
    BY <2>1, PowType
  <2>3. \A b, q \in Nat : 5 * b * (q - 1) = 5 * (b * q) - 5 * b /\ b * q \in Nat
    OBVIOUS
  <2>4. 4 * slept + 5 * base <= 5 * (base * Pow(attempt))
    BY DEF DelayInv, Ideal
  <2> QED
    BY <2>1, <2>2, <2>3, <2>4 DEF WaitBounded
<1> QED
  BY <1>1, DelaysFit, PTL

(* With a base of up to a quarter of the range, an overflow finds that a   *)
(* quarter of the range has been slept.                                    *)
SmallBasesSleep ==
  (state = "panicked" \/ Overflows(attempt)) /\ base # 0 /\ 4 * base <= 2 ^ W
    => 4 * slept >= 2 ^ W

(* When a request comes to an overflow, or to the panic it causes in a     *)
(* checked build (retry.rs:75-78), what it has slept and one base make up  *)
(* half the range of a u64, unless the base is zero.  So with a base of up *)
(* to a quarter of the range it has slept for a quarter of it; of a larger *)
(* base this says little, and one above four fifths of the range overflows *)
(* at its first sum, with nothing slept.                                   *)
THEOREM OverflowsComeLate == Spec => [](OverflowIsAgesAway /\ SmallBasesSleep)
<1>1. DelayInv => OverflowIsAgesAway
  BY OverflowComesLate DEF OverflowIsAgesAway, DelayInv, SleptEnough
<1>2. DelayInv /\ OverflowIsAgesAway => SmallBasesSleep
  <2> SUFFICES ASSUME DelayInv, OverflowIsAgesAway,
                      state = "panicked" \/ Overflows(attempt),
                      base # 0, 4 * base <= 2 ^ W
               PROVE  4 * slept >= 2 ^ W
    BY DEF SmallBasesSleep
  <2>1. base \in Nat /\ slept \in Nat /\ 2 ^ W \in Nat
    BY WidthType DEF DelayInv, DTypeOK
  <2>2. 2 * (slept + base) >= 2 ^ W
    BY DEF OverflowIsAgesAway
  <2> QED
    BY <2>1, <2>2
<1> QED
  BY <1>1, <1>2, DelaysFit, PTL

(* Each delay is at least the one before it, although both are drawn at    *)
(* random (retry.rs:74-79): the doubling outweighs the jitter.             *)
THEOREM JitterNeverUndoes == Spec => BacksOff
<1>1. DelayInv /\ [Next]_vars => [Fail /\ ~ Overflows(attempt) => delay' >= delay]_vars
  <2> SUFFICES ASSUME DelayInv, Fail, ~ Overflows(attempt)
               PROVE  delay' >= delay
    OBVIOUS
  <2>1. delay \in Nat /\ attempt \in Nat /\ U64 \subseteq Nat
    BY WidthType, RetryDelayAssumption DEF DelayInv, DTypeOK
  <2>2. /\ Low(attempt) \in Nat /\ High(attempt) \in Nat
        /\ 4 * Low(attempt) >= 3 * Ideal(attempt)
    BY <2>1, DelayRange DEF DelayInv
  <2>3. Ideal(attempt) \in Nat /\ 8 * delay <= 5 * Ideal(attempt)
    BY <2>1, IdealType DEF DelayInv, Fail
  <2>4. delay' \in Nat /\ delay' >= Low(attempt)
    BY <2>2 DEF Fail
  <2> QED
    BY <2>1, <2>2, <2>3, <2>4
<1> QED
  BY <1>1, DelaysFit, PTL DEF Spec, BacksOff
=============================================================================
