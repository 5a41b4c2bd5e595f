---------------------------- MODULE KeyPoolProofs ----------------------------
(***************************************************************************)
(* Proofs about KeyPool and, from "What a scan decides" on, about          *)
(* KeyPoolHistory, for any set of keys and of tasks, any weights and any   *)
(* cooldown.  The last part shows that the pool implements RoundRobin, and *)
(* cites the theorems about it.                                            *)
(***************************************************************************)
EXTENDS KeyPoolHistory, TLAPS, FiniteSetTheorems, SequenceTheorems

(* The initial list of keys is a sequence of keys (KeyPool::new).          *)
LEMMA InitialOrder == ASSUME NEW s \in SetToAllKPermutations(Keys)
                      PROVE  s \in Seq(Keys)
<1>1. PICK S \in SUBSET Keys : s \in SetToSeqs(S)
  BY DEF SetToAllKPermutations
<1>2. Cardinality(S) \in Nat
  BY FS_Subset, FS_CardinalityType, KeyPoolAssumption
<1>3. s \in [1 .. Cardinality(S) -> Keys]
  BY <1>1 DEF SetToSeqs
<1> QED
  BY <1>2, <1>3, SeqDef

(* Taking an element out of a sequence leaves a sequence over the same     *)
(* set: the list of keys stays well-formed under remove_key.               *)
LEMMA RemoveAtType ==
  ASSUME NEW S, NEW s \in Seq(S), NEW i \in 1 .. Len(s)
  PROVE  RemoveAt(s, i) \in Seq(S)
<1>1. SubSeq(s, 1, i-1) \in Seq(S)
  BY SubSeqProperties
<1>2. SubSeq(s, i+1, Len(s)) \in Seq(S)
  BY SubSeqProperties
<1> QED
  BY <1>1, <1>2, ConcatProperties DEF RemoveAt

(* The cursor stays a u32, although no bound is kept on it: it is reduced  *)
(* by a total that is one (key_pool.rs:71).                                *)
LEMMA NextIndexType ==
  ASSUME NEW ws, Usable(ws), NEW r \in Nat
  PROVE  NextIndex(ws, r) \in 0 .. U32 - 1
<1>1. TotalWeight(ws) \in 1 .. U32 - 1
  BY DEF Usable
<1>2. (r + 1) % TotalWeight(ws) \in 0 .. TotalWeight(ws) - 1
  <2> DEFINE T == TotalWeight(ws)
  <2>1. T \in Nat \ {0}
    BY <1>1, U32Assumption
  <2> HIDE DEF T
  <2>2. (r + 1) % T \in 0 .. T - 1
    BY <2>1
  <2> QED
    BY <2>2 DEF T
<1> QED
  BY <1>1, <1>2, U32Assumption DEF NextIndex

(* Every variable of the pool keeps its type.                              *)
THEOREM TypeCorrect == Spec => []TypeOK
<1>1. Init => TypeOK
  <2> SUFFICES ASSUME Init PROVE TypeOK
    OBVIOUS
  <2>1. order \in Seq(Keys)
    BY InitialOrder DEF Init
  <2>2. weight \in [Keys -> 0 .. U32 - 1]
    <3>1. PICK w \in [Keys -> Weights] :
            weight = [k \in Keys |-> IF k \in Members THEN w[k] ELSE 0]
      BY DEF Init
    <3>2. 0 \in 0 .. U32 - 1
      BY U32Assumption
    <3>3. \A k \in Keys : w[k] \in 0 .. U32 - 1
      BY KeyPoolAssumption
    <3> QED
      BY <3>1, <3>2, <3>3
  <2>3. recover \in [Keys -> Seq(0 .. Cooldown)] /\ candidates \in Seq(Keys)
    BY EmptySeq DEF Init
  <2> QED
    BY <2>1, <2>2, <2>3, U32Assumption DEF Init, TypeOK, Threshold
<1>2. TypeOK /\ [Next]_vars => TypeOK'
  <2> SUFFICES ASSUME TypeOK, [Next]_vars PROVE TypeOK'
    OBVIOUS
  <2> USE DEF TypeOK
  <2>1. ASSUME NEW t \in Tasks, StartAcquire(t) PROVE TypeOK'
    BY <2>1 DEF StartAcquire, Goto, health, timers, scan
  <2>2. ASSUME NEW t \in Tasks, Scan(t) PROVE TypeOK'
    <3>1. scanned + 1 \in 1 .. Len(order)
      BY <2>2 DEF Scan
    <3>2. candidates' \in Seq(Keys)
      BY <2>2, <3>1 DEF Scan
    <3>3. scanned' \in Nat
      BY <2>2 DEF Scan
    <3>4. UNCHANGED <<order, weight, healthy, errors, rr, recover, resetting, pc, held>>
      BY <2>2 DEF Scan, health, timers
    <3> QED
      BY <3>2, <3>3, <3>4
  <2>3. ASSUME NEW t \in Tasks, Refuse(t) PROVE TypeOK'
    BY <2>3, EmptySeq DEF Refuse, Goto, EndScan, health, timers
  <2>4. ASSUME NEW t \in Tasks, Lend(t) PROVE TypeOK'
    <3>1. rr' \in 0 .. U32 - 1
      BY <2>4, NextIndexType, U32Assumption DEF Lend
    <3>2. held' \in [Tasks -> Keys \cup {NoKey}]
      BY <2>4 DEF Lend
    <3> QED
      BY <2>4, <3>1, <3>2, EmptySeq DEF Lend, Goto, EndScan, health, timers
  <2>5. ASSUME NEW t \in Tasks, ReportSuccess(t) PROVE TypeOK'
    <3>1. errors' \in [Keys -> 0 .. Threshold]
      <4>1. errors' = errors \/ errors' = [errors EXCEPT ![held[t]] = 0]
        BY <2>5 DEF ReportSuccess
      <4>2. 0 \in 0 .. Threshold
        BY DEF Threshold
      <4> QED
        BY <4>1, <4>2
    <3> QED
      BY <2>5, <3>1 DEF ReportSuccess, Release, Goto, timers, scan
  <2>6. ASSUME NEW t \in Tasks, Bump(t) PROVE TypeOK'
    <3>1. errors' \in [Keys -> 0 .. Threshold]
      <4>1. held[t] \in Keys
        BY <2>6 DEF Bump, Trips, Members, ToSet
      <4>2. errors' = [errors EXCEPT ![held[t]] = IF @ < Threshold THEN @ + 1 ELSE @]
        BY <2>6 DEF Bump, Trips
      <4>3. (IF errors[held[t]] < Threshold THEN errors[held[t]] + 1 ELSE errors[held[t]])
              \in 0 .. Threshold
        BY <4>1 DEF Threshold
      <4> QED
        BY <4>1, <4>2, <4>3
    <3>2. Release(t) \/ (Goto(t, "marking") /\ UNCHANGED held)
      BY <2>6 DEF Bump, Trips
    <3>3. UNCHANGED <<order, weight, healthy, rr, recover, resetting, scanned, candidates>>
      BY <2>6 DEF Bump, Trips, timers, scan
    <3>4. CASE Release(t)
      BY <3>1, <3>3, <3>4 DEF Release, Goto
    <3>5. CASE Goto(t, "marking") /\ UNCHANGED held
      BY <3>1, <3>3, <3>5 DEF Goto
    <3> QED
      BY <3>2, <3>4, <3>5
  <2>7. ASSUME NEW t \in Tasks, MarkUnhealthy(t) PROVE TypeOK'
    BY <2>7 DEF MarkUnhealthy, Goto, timers, scan
  <2>8. ASSUME NEW t \in Tasks, SpawnRecovery(t) PROVE TypeOK'
    <3>1. Cooldown \in 0 .. Cooldown
      BY KeyPoolAssumption
    <3>2. \A k \in Keys : Append(recover[k], Cooldown) \in Seq(0 .. Cooldown)
      BY <3>1, AppendProperties
    <3>3. recover' \in [Keys -> Seq(0 .. Cooldown)]
      BY <2>8, <3>2 DEF SpawnRecovery, Sleep
    <3> QED
      BY <2>8, <3>3 DEF SpawnRecovery, Sleep, Release, Goto, health, scan
  <2>9. ASSUME NEW t \in Tasks, Drop(t) PROVE TypeOK'
    BY <2>9 DEF Drop, Release, Goto, health, timers, scan
  <2>10. ASSUME NEW k \in Keys, RecoverHealthy(k) PROVE TypeOK'
    <3>1. Tail(recover[k]) \in Seq(0 .. Cooldown)
      BY <2>10, HeadTailProperties DEF RecoverHealthy, Revived, Elapsed
    <3>2. recover' \in [Keys -> Seq(0 .. Cooldown)]
      BY <2>10, <3>1 DEF RecoverHealthy, Revived
    <3>3. healthy' \in [Keys -> BOOLEAN]
      BY <2>10 DEF RecoverHealthy, Revived
    <3>4. resetting' \in [Keys -> Nat]
      BY <2>10 DEF RecoverHealthy
    <3> QED
      BY <2>10, <3>2, <3>3, <3>4 DEF RecoverHealthy, scan
  <2>11. ASSUME NEW k \in Keys, RecoverErrors(k) PROVE TypeOK'
    BY <2>11 DEF RecoverErrors, scan, Threshold
  <2>12. ASSUME Tick PROVE TypeOK'
    <3>1. ASSUME NEW k \in Keys
          PROVE  [i \in 1 .. Len(recover[k]) |-> Sooner(recover[k][i])]
                   \in Seq(0 .. Cooldown)
      <4>1. ASSUME NEW i \in 1 .. Len(recover[k])
            PROVE  Sooner(recover[k][i]) \in 0 .. Cooldown
        <5>1. recover[k][i] \in 0 .. Cooldown
          BY ElementOfSeq
        <5> QED
          BY <5>1, KeyPoolAssumption DEF Sooner
      <4> QED
        BY <4>1, LenProperties, IsASeq
    <3> QED
      BY <2>12, <3>1 DEF Tick, health, scan
  <2>13. ASSUME NEW k \in Keys, NEW w \in Weights, AddKey(k, w) PROVE TypeOK'
    <3>1. w \in 0 .. U32 - 1
      BY KeyPoolAssumption
    <3>2. order' \in Seq(Keys)
      BY <2>13, AppendProperties DEF AddKey
    <3>3. errors' \in [Keys -> 0 .. Threshold]
      BY <2>13 DEF AddKey, Threshold
    <3> QED
      BY <2>13, <3>1, <3>2, <3>3 DEF AddKey, timers, scan
  <2>14. ASSUME NEW k \in Keys, RemoveKey(k) PROVE TypeOK'
    <3>1. order' \in Seq(Keys)
      BY <2>14, RemoveAtType DEF RemoveKey
    <3>2. recover' \in [Keys -> Seq(0 .. Cooldown)]
      BY <2>14, EmptySeq DEF RemoveKey
    <3>3. weight' \in [Keys -> 0 .. U32 - 1]
      BY <2>14, U32Assumption DEF RemoveKey
    <3>4. errors' \in [Keys -> 0 .. Threshold] /\ resetting' \in [Keys -> Nat]
      BY <2>14 DEF RemoveKey, Threshold
    <3>5. healthy' \in [Keys -> BOOLEAN]
      BY <2>14 DEF RemoveKey
    <3> QED
      BY <2>14, <3>1, <3>2, <3>3, <3>4, <3>5 DEF RemoveKey, scan
  <2>15. CASE UNCHANGED vars
    BY <2>15 DEF vars, health, timers, scan
  <2> QED
    BY <2>1, <2>2, <2>3, <2>4, <2>5, <2>6, <2>7, <2>8, <2>9, <2>10, <2>11, <2>12,
       <2>13, <2>14, <2>15
       DEF Next, Work, Acquire, Report, Recover, Admin
<1> QED
  BY <1>1, <1>2, PTL DEF Spec

-----------------------------------------------------------------------------
(* No key is lost (key_pool.rs:103-119): CoolingKeyWillRecover is inductive *)
(* as it stands, given the types.  A step that takes a key out of rotation  *)
(* leaves its task about to spawn the recovery; only the end of that sleep, *)
(* or a call that puts the key back, takes the recovery task away.          *)
THEOREM NoKeyIsLost == Spec => []CoolingKeyWillRecover
<1> DEFINE Inv == CoolingKeyWillRecover
<1>1. Init => Inv
  BY DEF Init, CoolingKeyWillRecover
<1>2. TypeOK /\ Inv /\ [Next]_vars => Inv'
  <2> SUFFICES ASSUME TypeOK, Inv, [Next]_vars,
                      NEW k \in Keys, ~ healthy'[k]
               PROVE  \/ recover'[k] # << >>
                      \/ \E t \in Tasks : pc'[t] = "spawning" /\ held'[t] = k
    BY DEF CoolingKeyWillRecover
  <2> DEFINE Goal == \/ recover'[k] # << >>
                     \/ \E t \in Tasks : pc'[t] = "spawning" /\ held'[t] = k
  <2>0. ~ healthy[k] => \/ recover[k] # << >>
                        \/ \E t \in Tasks : pc[t] = "spawning" /\ held[t] = k
    BY DEF CoolingKeyWillRecover
  (* A step of a task that is not about to spawn, and leaves recover and    *)
  (* the flag of k alone.                                                   *)
  <2>a. ASSUME NEW t \in Tasks, pc[t] # "spawning",
               UNCHANGED <<healthy, recover>>,
               \A u \in Tasks \ {t} : pc'[u] = pc[u] /\ held'[u] = held[u]
        PROVE  Goal
    BY <2>0, <2>a
  <2>1. ASSUME NEW t \in Tasks, Acquire(t) PROVE Goal
    <3>1. pc[t] # "spawning" /\ UNCHANGED <<healthy, recover>>
      BY <2>1 DEF Acquire, StartAcquire, Scan, Refuse, Lend, health, timers
    <3>2. \A u \in Tasks \ {t} : pc'[u] = pc[u] /\ held'[u] = held[u]
      BY <2>1 DEF TypeOK, Acquire, StartAcquire, Scan, Refuse, Lend, Goto
    <3> QED
      BY <2>a, <3>1, <3>2
  <2>2. ASSUME NEW t \in Tasks, ReportSuccess(t) \/ Bump(t) \/ Drop(t) PROVE Goal
    <3>1. pc[t] # "spawning" /\ UNCHANGED <<healthy, recover>>
      BY <2>2 DEF ReportSuccess, Bump, Trips, Drop, health, timers
    <3>2. \A u \in Tasks \ {t} : pc'[u] = pc[u] /\ held'[u] = held[u]
      BY <2>2 DEF TypeOK, ReportSuccess, Bump, Trips, Drop, Release, Goto
    <3> QED
      BY <2>a, <3>1, <3>2
  <2>3. ASSUME NEW t \in Tasks, MarkUnhealthy(t) PROVE Goal
    <3>1. CASE held[t] = k
      BY <2>3, <3>1 DEF TypeOK, MarkUnhealthy, Goto
    <3>2. CASE held[t] # k
      BY <2>0, <2>3, <3>2 DEF TypeOK, MarkUnhealthy, Goto, timers
    <3> QED
      BY <3>1, <3>2
  <2>4. ASSUME NEW t \in Tasks, SpawnRecovery(t) PROVE Goal
    <3>1. CASE held[t] = k
      <4>1. recover'[k] = Append(recover[k], Cooldown)
        BY <2>4, <3>1 DEF TypeOK, SpawnRecovery, Sleep
      <4>2. recover[k] \in Seq(0 .. Cooldown) /\ Cooldown \in 0 .. Cooldown
        BY KeyPoolAssumption DEF TypeOK
      <4> QED
        BY <4>1, <4>2, AppendProperties
    <3>2. CASE held[t] # k
      <4>1. healthy' = healthy /\ recover'[k] = recover[k]
        BY <2>4, <3>2 DEF TypeOK, SpawnRecovery, Sleep, health
      <4>2. \A u \in Tasks \ {t} : pc'[u] = pc[u] /\ held'[u] = held[u]
        BY <2>4 DEF TypeOK, SpawnRecovery, Sleep, Release, Goto
      <4> QED
        BY <2>0, <3>2, <4>1, <4>2
    <3> QED
      BY <3>1, <3>2
  <2>5. ASSUME NEW j \in Keys, RecoverHealthy(j) PROVE Goal
    <3>1. j # k
      BY <2>5 DEF TypeOK, RecoverHealthy, Revived
    <3>2. healthy'[k] = healthy[k] /\ recover'[k] = recover[k]
      BY <2>5, <3>1 DEF TypeOK, RecoverHealthy, Revived
    <3> QED
      BY <2>0, <2>5, <3>2 DEF RecoverHealthy, Revived
  <2>6. ASSUME NEW j \in Keys, RecoverErrors(j) PROVE Goal
    BY <2>0, <2>6 DEF RecoverErrors
  <2>7. ASSUME Tick PROVE Goal
    <3>1. CASE recover[k] # << >>
      <4>1. Len(recover[k]) \in Nat \ {0}
        BY <3>1, EmptySeq, LenProperties DEF TypeOK
      <4>2. recover'[k] = [i \in 1 .. Len(recover[k]) |-> Sooner(recover[k][i])]
        BY <2>7 DEF Tick
      <4>3. 1 \in DOMAIN recover'[k]
        BY <4>1, <4>2
      <4> QED
        BY <4>3
    <3>2. CASE recover[k] = << >>
      BY <2>0, <2>7, <3>2 DEF Tick, health
    <3> QED
      BY <3>1, <3>2
  <2>8. ASSUME NEW j \in Keys, Admin(j) PROVE Goal
    <3>1. j # k
      BY <2>8 DEF TypeOK, Admin, AddKey, RemoveKey
    <3>2. healthy'[k] = healthy[k] /\ recover'[k] = recover[k]
      BY <2>8, <3>1 DEF TypeOK, Admin, AddKey, RemoveKey, timers
    <3>3. UNCHANGED <<pc, held>>
      BY <2>8 DEF Admin, AddKey, RemoveKey
    <3> QED
      BY <2>0, <3>2, <3>3
  <2>9. CASE UNCHANGED vars
    BY <2>0, <2>9 DEF vars, health, timers
  <2> QED
    BY <2>1, <2>2, <2>3, <2>4, <2>5, <2>6, <2>7, <2>8, <2>9
       DEF Next, Work, Report, Recover
<1> QED
  BY <1>1, <1>2, TypeCorrect, PTL DEF Spec

(* A key at the threshold is out of rotation (key_pool.rs:101-103, 113-    *)
(* 114), but for the gaps between the atomic operations: ThresholdTrips is *)
(* inductive given the types.                                              *)
THEOREM TrippedKeysRest == Spec => []ThresholdTrips
<1> DEFINE Inv == ThresholdTrips
<1>1. Init => Inv
  BY DEF Init, ThresholdTrips, Threshold
<1>2. TypeOK /\ Inv /\ [Next]_vars => Inv'
  <2> SUFFICES ASSUME TypeOK, Inv, [Next]_vars,
                      NEW k \in Keys, healthy'[k], errors'[k] = Threshold
               PROVE  \/ resetting'[k] > 0
                      \/ \E t \in Tasks : pc'[t] = "marking" /\ held'[t] = k
    BY DEF ThresholdTrips
  <2> DEFINE Goal == \/ resetting'[k] > 0
                     \/ \E t \in Tasks : pc'[t] = "marking" /\ held'[t] = k
  <2>0. healthy[k] /\ errors[k] = Threshold =>
          \/ resetting[k] > 0
          \/ \E t \in Tasks : pc[t] = "marking" /\ held[t] = k
    BY DEF ThresholdTrips
  (* A step of a task that is not about to mark a key, and changes neither  *)
  (* the count of k, nor its flag, nor its recovery tasks in mid-reset.     *)
  <2>a. ASSUME NEW t \in Tasks, pc[t] # "marking",
               healthy'[k] = healthy[k], errors'[k] = errors[k],
               resetting'[k] = resetting[k],
               \A u \in Tasks \ {t} : pc'[u] = pc[u] /\ held'[u] = held[u]
        PROVE  Goal
    BY <2>0, <2>a
  <2>1. ASSUME NEW t \in Tasks, Acquire(t) PROVE Goal
    <3>1. pc[t] # "marking" /\ UNCHANGED <<healthy, errors, resetting>>
      BY <2>1 DEF Acquire, StartAcquire, Scan, Refuse, Lend, health, timers
    <3>2. \A u \in Tasks \ {t} : pc'[u] = pc[u] /\ held'[u] = held[u]
      BY <2>1 DEF TypeOK, Acquire, StartAcquire, Scan, Refuse, Lend, Goto
    <3> QED
      BY <2>a, <3>1, <3>2
  <2>2. ASSUME NEW t \in Tasks, ReportSuccess(t) PROVE Goal
    <3>1. errors'[k] = errors[k]
      BY <2>2 DEF TypeOK, ReportSuccess, Threshold
    <3>2. pc[t] # "marking" /\ UNCHANGED <<healthy, resetting>>
      BY <2>2 DEF ReportSuccess, timers
    <3>3. \A u \in Tasks \ {t} : pc'[u] = pc[u] /\ held'[u] = held[u]
      BY <2>2 DEF TypeOK, ReportSuccess, Release, Goto
    <3> QED
      BY <2>a, <3>1, <3>2, <3>3
  <2>3. ASSUME NEW t \in Tasks, Bump(t) PROVE Goal
    <3>1. errors' = [errors EXCEPT ![held[t]] = IF @ < Threshold THEN @ + 1 ELSE @]
      BY <2>3 DEF Bump, Trips
    <3>2. pc[t] # "marking" /\ UNCHANGED <<healthy, resetting>>
      BY <2>3 DEF Bump, Trips, timers
    <3>3. \A u \in Tasks \ {t} : pc'[u] = pc[u] /\ held'[u] = held[u]
      BY <2>3 DEF TypeOK, Bump, Trips, Release, Goto
    <3>4. CASE held[t] # k
      <4>1. errors'[k] = errors[k]
        BY <3>1, <3>4 DEF TypeOK
      <4> QED
        BY <2>a, <3>2, <3>3, <4>1
    <3>5. CASE held[t] = k
      <4>1. errors[k] + 1 >= Threshold
        BY <3>1, <3>5 DEF TypeOK, Threshold
      <4>2. Goto(t, "marking") /\ UNCHANGED held
        BY <2>3, <3>5, <4>1 DEF TypeOK, Bump, Trips, Threshold
      <4> QED
        BY <3>5, <4>2 DEF TypeOK, Goto
    <3> QED
      BY <3>4, <3>5
  <2>4. ASSUME NEW t \in Tasks, MarkUnhealthy(t) PROVE Goal
    <3>1. held[t] # k
      BY <2>4 DEF TypeOK, MarkUnhealthy
    <3> QED
      BY <2>0, <2>4, <3>1 DEF TypeOK, MarkUnhealthy, Goto, timers
  <2>5. ASSUME NEW t \in Tasks, SpawnRecovery(t) \/ Drop(t) PROVE Goal
    <3>1. pc[t] # "marking" /\ UNCHANGED <<healthy, errors, resetting>>
      BY <2>5 DEF SpawnRecovery, Sleep, Drop, health, timers
    <3>2. \A u \in Tasks \ {t} : pc'[u] = pc[u] /\ held'[u] = held[u]
      BY <2>5 DEF TypeOK, SpawnRecovery, Sleep, Drop, Release, Goto
    <3> QED
      BY <2>a, <3>1, <3>2
  <2>6. ASSUME NEW j \in Keys, RecoverHealthy(j) PROVE Goal
    <3>1. CASE j = k
      BY <2>6, <3>1 DEF TypeOK, RecoverHealthy, Revived
    <3>2. CASE j # k
      BY <2>0, <2>6, <3>2 DEF TypeOK, RecoverHealthy, Revived
    <3> QED
      BY <3>1, <3>2
  <2>7. ASSUME NEW j \in Keys, RecoverErrors(j) PROVE Goal
    <3>1. j # k
      BY <2>7 DEF TypeOK, RecoverErrors, Threshold
    <3> QED
      BY <2>0, <2>7, <3>1 DEF TypeOK, RecoverErrors
  <2>8. ASSUME Tick PROVE Goal
    BY <2>0, <2>8 DEF Tick, health
  <2>9. ASSUME NEW j \in Keys, Admin(j) PROVE Goal
    <3>1. j # k
      BY <2>9 DEF TypeOK, Admin, AddKey, RemoveKey, Threshold
    <3> QED
      BY <2>0, <2>9, <3>1 DEF TypeOK, Admin, AddKey, RemoveKey, timers
  <2>10. CASE UNCHANGED vars
    BY <2>0, <2>10 DEF vars, health, timers
  <2> QED
    BY <2>1, <2>2, <2>3, <2>4, <2>5, <2>6, <2>7, <2>8, <2>9, <2>10
       DEF Next, Work, Report, Recover
<1> QED
  BY <1>1, <1>2, TypeCorrect, PTL DEF Spec
-----------------------------------------------------------------------------
(* The cursor is reduced by the total, which is the last of the            *)
(* accumulated weights: the last entry exceeds it, if no earlier one does. *)
LEMMA LastEntryExceeds ==
  ASSUME NEW ws \in Seq(Int), Usable(ws), NEW r \in Nat
  PROVE  LoopFinds(ws, Index(ws, r))
<1> DEFINE T == TotalWeight(ws)
<1>1. T \in Nat \ {0}
  BY U32Assumption DEF Usable
<1>2. Len(ws) \in 1 .. Len(ws)
  BY EmptySeq, LenProperties DEF Usable
<1>3. Accumulated(ws)[Len(ws)] = T
  BY DEF TotalWeight
<1>4. T > r % T
  <2> HIDE DEF T
  <2> QED
    BY <1>1
<1> QED
  BY <1>2, <1>3, <1>4 DEF LoopFinds, Index

(* The fallback to the first candidate (key_pool.rs:84-88) is dead code,   *)
(* for any keys and weights, also where the sum of the weights wraps and   *)
(* the cursor comes from another list.                                     *)
THEOREM FallbackIsDead == Spec => []LoopAlwaysFinds
<1>1. TypeOK => LoopAlwaysFinds
  <2> SUFFICES ASSUME TypeOK, Usable(CandidateWeights)
               PROVE  LoopFinds(CandidateWeights, Index(CandidateWeights, rr))
    BY DEF LoopAlwaysFinds
  <2>1. CandidateWeights \in Seq(Int)
    <3>1. Len(candidates) \in Nat
      BY LenProperties DEF TypeOK
    <3>2. \A i \in 1 .. Len(candidates) : weight[candidates[i]] \in Int
      BY ElementOfSeq, U32Assumption DEF TypeOK
    <3> QED
      BY <3>1, <3>2, SeqDef DEF CandidateWeights
  <2>2. rr \in Nat
    BY U32Assumption DEF TypeOK
  <2> QED
    BY <2>1, <2>2, LastEntryExceeds
<1> QED
  BY <1>1, TypeCorrect, PTL
-----------------------------------------------------------------------------
(* What a scan decides although the flags change under it, and how long a  *)
(* key cools.  The history variables constrain nothing, so that all of the *)
(* above holds of HSpec.                                                   *)
LEMMA HistoryOnly == HSpec => Spec
<1>1. HInit => Init
  BY DEF HInit
<1>2. [HNext]_hvars => [Next]_vars
  BY DEF HNext, HWork, HTick, Next, hvars
<1> QED
  BY <1>1, <1>2, PTL DEF HSpec, Spec

LEMMA Typed == HSpec => []TypeOK
  BY HistoryOnly, TypeCorrect
-----------------------------------------------------------------------------
(* A scan has sorted the entries it has passed: of those that were steady  *)
(* so far, the healthy ones are candidates, and no others.                 *)
SortedSoFar ==
  /\ scanned <= Len(order)
  /\ \A i \in 1 .. scanned : order[i] \in up => order[i] \in ToSet(candidates)
  /\ up \subseteq Up /\ down \subseteq Down
  /\ down \cap ToSet(candidates) = {}

OneScan == \A t, u \in Tasks : pc[t] = "scan" /\ pc[u] = "scan" => t = u

ScanInv ==
  /\ OneScan
  /\ Scanning => SortedSoFar
  /\ ~ Scanning => scanned = 0 /\ candidates = << >>

LEMMA AppendedMember ==
  ASSUME NEW s \in Seq(Keys), NEW k \in Keys
  PROVE  ToSet(Append(s, k)) = ToSet(s) \cup {k}
<1>1. /\ Append(s, k) \in Seq(Keys)
      /\ Len(Append(s, k)) = Len(s) + 1
      /\ \A i \in 1 .. Len(s) : Append(s, k)[i] = s[i]
      /\ Append(s, k)[Len(s) + 1] = k
  BY AppendProperties
<1>2. Len(s) \in Nat
  BY LenProperties
<1> QED
  BY <1>1, <1>2 DEF ToSet

\* A step under which a scan goes on, and reads no flag.
LEMMA ScanGoesOn ==
  ASSUME TypeOK, ScanInv, Scanning, Scanning',
         ScanHistory, UNCHANGED <<order, scanned, candidates>>
  PROVE  SortedSoFar'
<1>1. up' = Up' \cap up /\ down' = Down' \cap down
  BY DEF ScanHistory
<1> QED
  BY <1>1 DEF ScanInv, SortedSoFar

LEMMA ScanReads ==
  ASSUME TypeOK, ScanInv, ScanHistory, NEW t \in Tasks, Scan(t)
  PROVE  ScanInv'
<1> DEFINE k == order[scanned + 1]
<1>1. Scanning /\ Scanning' /\ OneScan'
  BY DEF Scan, Scanning, ScanInv, OneScan
<1>2. up' = Up' \cap up /\ down' = Down' \cap down
  BY <1>1 DEF ScanHistory
<1>3. /\ scanned \in Nat /\ Len(order) \in Nat /\ scanned < Len(order)
      /\ scanned' = scanned + 1 /\ UNCHANGED <<order, healthy>>
  BY LenProperties DEF Scan, TypeOK, health
<1>4. k \in Keys
  BY <1>3, ElementOfSeq DEF TypeOK
<1>5. candidates' = IF healthy[k] THEN Append(candidates, k) ELSE candidates
  BY DEF Scan, Eligible
<1>6. ToSet(candidates') = IF healthy[k] THEN ToSet(candidates) \cup {k} ELSE ToSet(candidates)
  BY <1>4, <1>5, AppendedMember DEF TypeOK
<1>7. SortedSoFar
  BY <1>1 DEF ScanInv
<1>8. scanned' <= Len(order')
  BY <1>3
<1>9. up' \subseteq Up' /\ down' \subseteq Down'
  BY <1>2
<1>10. \A i \in 1 .. scanned' : order'[i] \in up' => order'[i] \in ToSet(candidates')
  <2> SUFFICES ASSUME NEW i \in 1 .. scanned + 1, order[i] \in up'
               PROVE  order[i] \in ToSet(candidates')
    BY <1>3
  <2>1. CASE i = scanned + 1
    <3>1. healthy[k]
      BY <2>1, <1>2, <1>3 DEF Up
    <3> QED
      BY <2>1, <3>1, <1>6
  <2>2. CASE i # scanned + 1
    <3>1. i \in 1 .. scanned
      BY <2>2, <1>3
    <3> QED
      BY <3>1, <1>2, <1>6, <1>7 DEF SortedSoFar
  <2> QED
    BY <2>1, <2>2
<1>11. down' \cap ToSet(candidates') = {}
  BY <1>2, <1>3, <1>6, <1>7 DEF SortedSoFar, Down
<1> QED
  BY <1>1, <1>8, <1>9, <1>10, <1>11 DEF ScanInv, SortedSoFar

LEMMA ScanStarts ==
  ASSUME TypeOK, ScanInv, ScanHistory, NEW t \in Tasks, StartAcquire(t)
  PROVE  ScanInv'
<1>1. ~ Scanning /\ UNCHANGED <<order, scanned, candidates>>
  BY DEF StartAcquire, Scanning, scan
<1>2. \A u \in Tasks : pc'[u] = IF u = t THEN "scan" ELSE pc[u]
  BY DEF StartAcquire, Goto, TypeOK
<1>3. Scanning' /\ OneScan'
  BY <1>1, <1>2 DEF Scanning, OneScan
<1>4. scanned' = 0 /\ candidates' = << >>
  BY <1>1 DEF ScanInv
<1>5. ToSet(candidates') = {}
  BY <1>4 DEF ToSet
<1>6. up' \subseteq Up' /\ down' \subseteq Down'
  BY <1>1, <1>3 DEF ScanHistory
<1>7. Len(order') \in Nat
  BY <1>1, LenProperties DEF TypeOK
<1> QED
  BY <1>3, <1>4, <1>5, <1>6, <1>7 DEF ScanInv, SortedSoFar

LEMMA ScanEnds ==
  ASSUME TypeOK, ScanInv, NEW t \in Tasks, Refuse(t) \/ Lend(t)
  PROVE  ScanInv'
<1>1. pc[t] = "scan" /\ EndScan
  BY DEF Refuse, Lend
<1>2. \E label \in {"idle", "using"} : pc' = [pc EXCEPT ![t] = label]
  BY DEF Refuse, Lend, Goto
<1>3. \A u \in Tasks : pc'[u] # "scan"
  BY <1>1, <1>2 DEF ScanInv, OneScan, TypeOK
<1> QED
  BY <1>1, <1>3 DEF ScanInv, OneScan, Scanning, EndScan

\* Steps of reports, recovery tasks, administrators and the clock.
LEMMA ScanUndisturbed ==
  ASSUME TypeOK, ScanInv, ScanHistory,
         \/ \E t \in Tasks : Report(t)
         \/ \E k \in Keys : Recover(k) \/ Admin(k)
         \/ Tick
  PROVE  ScanInv'
<1>1. \A u \in Tasks : pc'[u] = "scan" <=> pc[u] = "scan"
  <2>1. ASSUME NEW t \in Tasks, Report(t)
        PROVE  /\ pc[t] # "scan"
               /\ \E label \in {"idle", "marking", "spawning"} : pc' = [pc EXCEPT ![t] = label]
    BY <2>1 DEF Report, ReportSuccess, Bump, MarkUnhealthy, SpawnRecovery, Drop,
                Release, Goto
  <2>2. ASSUME \/ \E k \in Keys : Recover(k) \/ Admin(k)
               \/ Tick
        PROVE  pc' = pc
    BY <2>2 DEF Recover, RecoverHealthy, RecoverErrors, Admin, AddKey, RemoveKey, Tick
  <2> QED
    BY <2>1, <2>2 DEF TypeOK
<1>2. UNCHANGED <<scanned, candidates>>
  BY DEF Report, ReportSuccess, Bump, MarkUnhealthy, SpawnRecovery, Drop, Recover,
         RecoverHealthy, RecoverErrors, Admin, AddKey, RemoveKey, Tick, scan
<1>3. Scanning => UNCHANGED order
  BY DEF Scanning, NoReader, Report, ReportSuccess, Bump, MarkUnhealthy, SpawnRecovery,
         Drop, Recover, RecoverHealthy, RecoverErrors, Admin, AddKey, RemoveKey, Tick
<1>4. (Scanning' <=> Scanning) /\ OneScan'
  BY <1>1 DEF Scanning, ScanInv, OneScan
<1>5. Scanning => SortedSoFar'
  BY <1>2, <1>3, <1>4, ScanGoesOn
<1> QED
  BY <1>2, <1>4, <1>5 DEF ScanInv

LEMMA ScanInvariant == HSpec => []ScanInv
<1>1. HInit => ScanInv
  BY DEF HInit, Init, ScanInv, OneScan, Scanning
<1>2. TypeOK /\ ScanInv /\ [HNext]_hvars => ScanInv'
  <2> SUFFICES ASSUME TypeOK, ScanInv, [HNext]_hvars PROVE ScanInv'
    OBVIOUS
  <2>1. CASE HWork
    BY <2>1, ScanReads, ScanStarts, ScanEnds, ScanUndisturbed DEF HWork, Work, Acquire
  <2>2. CASE HTick
    BY <2>2, ScanUndisturbed DEF HTick
  <2>3. CASE UNCHANGED hvars
    BY <2>3 DEF hvars, vars, history, health, timers, scan, ScanInv, OneScan, Scanning,
                SortedSoFar, Up, Down, Members
  <2> QED
    BY <2>1, <2>2, <2>3 DEF HNext
<1> QED
  BY <1>1, <1>2, Typed, PTL DEF HSpec

(* The filter of acquire_key (key_pool.rs:56-59) never misses a key that   *)
(* stayed healthy throughout its scan, and never takes one that stayed out *)
(* of rotation, for any number of callers storing to the flags meanwhile.  *)
THEOREM SteadyDecide == HSpec => []SteadyKeysDecide
<1>1. TypeOK /\ ScanInv => SteadyKeysDecide
  BY DEF TypeOK, ScanInv, SortedSoFar, SteadyKeysDecide, ScanDone, Up, Members, ToSet
<1> QED
  BY <1>1, ScanInvariant, Typed, PTL
-----------------------------------------------------------------------------
(* A key that was tripped while none of its recovery tasks was asleep has  *)
(* been out, and will be out, for the whole cooldown with each of them.    *)
Rested(k) ==
  ~ healthy[k] /\ lone[k] =>
    \A i \in 1 .. Len(recover[k]) : since[k] + recover[k][i] >= Cooldown

RestInv ==
  /\ since \in [Keys -> 0 .. Cooldown]
  /\ \A k \in Keys : Rested(k)

LEMMA TimerType ==
  ASSUME TypeOK, NEW k \in Keys, NEW i \in 1 .. Len(recover[k])
  PROVE  recover[k][i] \in 0 .. Cooldown
  BY ElementOfSeq DEF TypeOK

\* What the history makes of a step other than a tick, for one key.
LEMMA WorkHistory ==
  ASSUME HWork, NEW k \in Keys
  PROVE  /\ since'[k] = IF healthy'[k] \/ healthy[k] THEN 0 ELSE since[k]
         /\ ~ healthy[k] /\ ~ healthy'[k] => lone'[k] = lone[k]
         /\ healthy[k] /\ ~ healthy'[k] => lone'[k] = (recover[k] = << >>)
  BY DEF HWork, Tripped

LEMMA WorkKeepsType ==
  ASSUME RestInv, HWork PROVE since' \in [Keys -> 0 .. Cooldown]
<1>1. since' = [k \in Keys |-> IF healthy'[k] \/ healthy[k] THEN 0 ELSE since[k]]
  BY DEF HWork
<1>2. 0 \in 0 .. Cooldown
  BY KeyPoolAssumption
<1> QED
  BY <1>1, <1>2 DEF RestInv

\* Steps that neither trip a key nor wake a timer of one that is out.
LEMMA RestUndisturbed ==
  ASSUME TypeOK, RestInv, HWork, NEW k \in Keys,
         healthy'[k] \/ (~ healthy[k] /\ recover'[k] = recover[k])
  PROVE  Rested(k)'
  BY WorkHistory DEF RestInv, Rested

LEMMA RestWhenTripped ==
  ASSUME TypeOK, RestInv, HWork, NEW k \in Keys, NEW t \in Tasks, MarkUnhealthy(t)
  PROVE  Rested(k)'
<1>1. UNCHANGED recover /\ healthy' = [healthy EXCEPT ![held[t]] = FALSE]
  BY DEF MarkUnhealthy, timers
<1>2. CASE healthy'[k]
  BY <1>2 DEF Rested
<1>3. CASE ~ healthy'[k] /\ ~ healthy[k]
  BY <1>1, <1>3, RestUndisturbed
<1>4. CASE ~ healthy'[k] /\ healthy[k]
  <2>1. lone'[k] => recover'[k] = << >>
    BY <1>1, <1>4, WorkHistory
  <2> QED
    BY <2>1 DEF Rested
<1> QED
  BY <1>2, <1>3, <1>4

LEMMA RestWhenSpawned ==
  ASSUME TypeOK, RestInv, HWork, NEW k \in Keys, NEW t \in Tasks, SpawnRecovery(t)
  PROVE  Rested(k)'
<1>1. /\ UNCHANGED healthy
      /\ recover' = [recover EXCEPT ![held[t]] = Append(@, Cooldown)]
  BY DEF SpawnRecovery, Sleep, health
<1>2. CASE healthy[k] \/ held[t] # k
  BY <1>1, <1>2, RestUndisturbed DEF TypeOK
<1>3. CASE ~ healthy[k] /\ held[t] = k
  <2> SUFFICES ASSUME lone'[k], NEW i \in 1 .. Len(recover'[k])
               PROVE  since'[k] + recover'[k][i] >= Cooldown
    BY DEF Rested
  <2>1. since'[k] = since[k] /\ lone[k] /\ since[k] \in 0 .. Cooldown
    BY <1>1, <1>3, WorkHistory DEF RestInv
  <2>2. recover[k] \in Seq(0 .. Cooldown) /\ Cooldown \in 0 .. Cooldown
    BY KeyPoolAssumption DEF TypeOK
  <2>3. recover'[k] = Append(recover[k], Cooldown)
    BY <1>1, <1>3 DEF TypeOK
  <2>4. CASE i = Len(recover[k]) + 1
    <3>1. recover'[k][i] = Cooldown
      BY <2>2, <2>3, <2>4, AppendProperties
    <3> QED
      BY <3>1, <2>1, KeyPoolAssumption
  <2>5. CASE i \in 1 .. Len(recover[k])
    <3>1. recover'[k][i] = recover[k][i]
      BY <2>2, <2>3, <2>5, AppendProperties
    <3> QED
      BY <3>1, <2>1, <2>5, <1>3 DEF RestInv, Rested
  <2>6. Len(recover'[k]) = Len(recover[k]) + 1 /\ Len(recover[k]) \in Nat
    BY <2>2, <2>3, AppendProperties, LenProperties
  <2> QED
    BY <2>4, <2>5, <2>6
<1> QED
  BY <1>2, <1>3

LEMMA RestWhileTicking ==
  ASSUME TypeOK, RestInv, HTick
  PROVE  RestInv'
<1>1. UNCHANGED <<healthy, lone>>
  BY DEF HTick, Tick, health
<1>2. since' = [k \in Keys |-> IF ~ healthy[k] /\ since[k] < Cooldown
                              THEN since[k] + 1 ELSE since[k]]
  BY DEF HTick
<1>3. since' \in [Keys -> 0 .. Cooldown]
  BY <1>2, KeyPoolAssumption DEF RestInv
<1>4. ASSUME NEW k \in Keys PROVE Rested(k)'
  <2> SUFFICES ASSUME ~ healthy[k], lone[k], NEW i \in 1 .. Len(recover'[k])
               PROVE  since'[k] + recover'[k][i] >= Cooldown
    BY <1>1 DEF Rested
  <2>1. recover'[k] = [j \in 1 .. Len(recover[k]) |-> Sooner(recover[k][j])]
    BY DEF HTick, Tick
  <2>2. Len(recover[k]) \in Nat
    BY LenProperties DEF TypeOK
  <2>3. i \in 1 .. Len(recover[k]) /\ recover'[k][i] = Sooner(recover[k][i])
    <3>1. Len(recover'[k]) = Len(recover[k])
      BY <2>1, <2>2
    <3> QED
      BY <2>1, <3>1
  <2>4. recover[k][i] \in 0 .. Cooldown /\ since[k] \in 0 .. Cooldown
    BY <2>3, TimerType DEF RestInv
  <2>5. since[k] + recover[k][i] >= Cooldown
    BY <2>3 DEF RestInv, Rested
  <2>6. since'[k] = IF since[k] < Cooldown THEN since[k] + 1 ELSE since[k]
    BY <1>2
  <2> QED
    BY <2>3, <2>4, <2>5, <2>6, KeyPoolAssumption DEF Sooner
<1> QED
  BY <1>3, <1>4 DEF RestInv

LEMMA RestWhileWorking ==
  ASSUME TypeOK, RestInv, HWork
  PROVE  RestInv'
<1> SUFFICES ASSUME NEW k \in Keys PROVE Rested(k)'
  BY WorkKeepsType DEF RestInv
<1>1. ASSUME NEW t \in Tasks,
             Acquire(t) \/ ReportSuccess(t) \/ Bump(t) \/ Drop(t)
      PROVE  Rested(k)'
  <2>1. UNCHANGED <<healthy, recover>>
    BY <1>1 DEF Acquire, StartAcquire, Scan, Refuse, Lend, ReportSuccess, Bump, Drop,
                health, timers
  <2> QED
    BY <2>1, RestUndisturbed
<1>2. ASSUME NEW t \in Tasks, MarkUnhealthy(t) PROVE Rested(k)'
  BY <1>2, RestWhenTripped
<1>3. ASSUME NEW t \in Tasks, SpawnRecovery(t) PROVE Rested(k)'
  BY <1>3, RestWhenSpawned
<1>4. ASSUME NEW j \in Keys, Recover(j) \/ Admin(j) PROVE Rested(k)'
  <2>1. healthy'[k] \/ (healthy'[k] = healthy[k] /\ recover'[k] = recover[k])
    BY <1>4 DEF TypeOK, Recover, RecoverHealthy, Revived, RecoverErrors, Admin, AddKey,
                RemoveKey, timers
  <2> QED
    BY <2>1, RestUndisturbed
<1> QED
  BY <1>1, <1>2, <1>3, <1>4 DEF HWork, Work, Report

LEMMA RestInvariant == HSpec => []RestInv
<1>1. HInit => RestInv
  BY KeyPoolAssumption DEF HInit, Init, RestInv, Rested
<1>2. TypeOK /\ RestInv /\ [HNext]_hvars => RestInv'
  <2>1. CASE UNCHANGED hvars
    BY <2>1 DEF hvars, vars, history, RestInv, Rested
  <2> QED
    BY <2>1, RestWhileWorking, RestWhileTicking DEF HNext
<1> QED
  BY <1>1, <1>2, Typed, PTL DEF HSpec

(* A recovery task honours the cooldown of the trip it was spawned for     *)
(* (key_pool.rs:111-114), however long the cooldown and however many       *)
(* reports, recoveries and admin calls overlap it, if no recovery task of  *)
(* an earlier trip was asleep: the only way to the violation that the run  *)
(* of CooldownFull finds.                                                  *)
THEOREM CooldownKept == HSpec => CooldownHonoured
<1> DEFINE Honoured == \A k \in Keys : RecoverHealthy(k) /\ ~ healthy[k] /\ lone[k]
                                        => since[k] = Cooldown
<1>1. TypeOK /\ RestInv => Honoured
  <2> SUFFICES ASSUME TypeOK, RestInv, NEW k \in Keys,
                      RecoverHealthy(k), ~ healthy[k], lone[k]
               PROVE  since[k] = Cooldown
    OBVIOUS
  <2>1. recover[k] \in Seq(0 .. Cooldown) /\ recover[k] # << >> /\ Head(recover[k]) = 0
    BY DEF TypeOK, RecoverHealthy, Elapsed
  <2>2. 1 \in 1 .. Len(recover[k]) /\ recover[k][1] = 0
    BY <2>1
  <2>3. since[k] + 0 >= Cooldown /\ since[k] \in 0 .. Cooldown
    BY <2>2 DEF RestInv, Rested
  <2> QED
    BY <2>3, KeyPoolAssumption
<1>2. TypeOK /\ RestInv => [Honoured]_hvars
  BY <1>1
<1> QED
  BY <1>2, RestInvariant, Typed, PTL DEF CooldownHonoured
-----------------------------------------------------------------------------
(* The pool keeps the rotation.  Its acquisition takes as many steps as    *)
(* there are keys, and flags are stored to between them; the flags that it *)
(* has seen are those of its candidates.                                   *)
RotationProofs == INSTANCE RoundRobinProofs

LEMMA RotationAssumptions ==
  /\ RotationProofs!IsFiniteSet(Keys)
  /\ Weights \subseteq 0 .. U32 - 1
  /\ MaxPicks \in Nat
  /\ U32 \in Nat \ {0}
<1>1. RotationProofs!IsFiniteSet(Keys)
  BY KeyPoolAssumption DEF RotationProofs!IsFiniteSet, IsFiniteSet
<1> QED
  BY <1>1, KeyPoolAssumption, MaxPicksAssumption, U32Assumption

\* The operators of the pool and those of the rotation are the same.
LEMMA SameFilter ==
  /\ \A s, f : Collected(s, f) = RotationProofs!Collected(s, f)
  /\ \A s, f : HealthyOf(s, f) = Rotation!HealthyOf(s, f)
  BY DEF Collected, RotationProofs!Collected, Rotation!Collected, HealthyOf, Rotation!HealthyOf

LEMMA SamePick ==
  /\ \A ws : Usable(ws) <=> Rotation!Usable(ws)
  /\ \A ws, r : NextIndex(ws, r) = Rotation!NextIndex(ws, r)
  /\ \A ws, r, i : Picks(ws, Index(ws, r), i) <=> Rotation!Picks(ws, Rotation!Index(ws, r), i)
  BY DEF Usable, Rotation!Usable, NextIndex, Rotation!NextIndex, Picks, Rotation!Picks,
         Index, Rotation!Index, Covers, Rotation!Covers, LoopFinds, Rotation!LoopFinds,
         TotalWeight, Rotation!TotalWeight, Accumulated, Rotation!Accumulated

LEMMA SameLists ==
  /\ \A s : ToSet(s) = RotationProofs!ToSet(s) /\ ToSet(s) = Rotation!ToSet(s)
  /\ \A s, i : RemoveAt(s, i) = RotationProofs!RemoveAt(s, i)
  /\ \A s, i : RemoveAt(s, i) = Rotation!RemoveAt(s, i)
  BY DEF ToSet, RotationProofs!ToSet, Rotation!ToSet, RemoveAt, RotationProofs!RemoveAt,
         Rotation!RemoveAt

LEMMA SamePermutations ==
  /\ SetToAllKPermutations(Keys) = RotationProofs!SetToAllKPermutations(Keys)
  /\ SetToAllKPermutations(Keys) = Rotation!SetToAllKPermutations(Keys)
  BY DEF SetToAllKPermutations, RotationProofs!SetToAllKPermutations,
         Rotation!SetToAllKPermutations, SetToSeqs, RotationProofs!SetToSeqs,
         Rotation!SetToSeqs, Cardinality, RotationProofs!Cardinality, Rotation!Cardinality,
         IsFiniteSet, RotationProofs!IsFiniteSet, Rotation!IsFiniteSet

Distinct(s) == \A i, j \in 1 .. Len(s) : s[i] = s[j] => i = j

LEMMA ListsStayDistinct ==
  ASSUME NEW s \in Seq(Keys), Distinct(s)
  PROVE  /\ \A i \in 1 .. Len(s) : /\ Distinct(RemoveAt(s, i))
                                   /\ ToSet(RemoveAt(s, i)) = ToSet(s) \ {s[i]}
         /\ \A k \in Keys \ ToSet(s) : /\ Distinct(Append(s, k))
                                       /\ ToSet(s) \cup {k} \subseteq ToSet(Append(s, k))
<1>1. RotationProofs!Distinct(s)
  BY DEF Distinct, RotationProofs!Distinct
<1>2. ASSUME NEW i \in 1 .. Len(s)
      PROVE  RotationProofs!Distinct(RemoveAt(s, i)) /\ ToSet(RemoveAt(s, i)) = ToSet(s) \ {s[i]}
  BY <1>1, RotationAssumptions, RotationProofs!RemoveAtKeeps, SameLists
<1>3. ASSUME NEW k \in Keys \ ToSet(s)
      PROVE  /\ RotationProofs!Distinct(Append(s, k))
             /\ ToSet(s) \cup {k} \subseteq ToSet(Append(s, k))
  BY <1>1, RotationAssumptions, RotationProofs!AppendKeeps, SameLists
<1> QED
  BY <1>2, <1>3 DEF Distinct, RotationProofs!Distinct

LEMMA FilterStep ==
  ASSUME NEW s \in Seq(Keys), NEW f \in [Keys -> BOOLEAN]
  PROVE  /\ Collected(s, f)[0] = << >>
         /\ \A i \in 0 .. Len(s) : Collected(s, f)[i] \in Seq(Keys)
         /\ \A i \in 1 .. Len(s) :
              Collected(s, f)[i] = IF f[s[i]] THEN Append(Collected(s, f)[i-1], s[i])
                                   ELSE Collected(s, f)[i-1]
<1>1. /\ RotationProofs!Collected(s, f)[0] = << >>
      /\ \A i \in 0 .. Len(s) : RotationProofs!Collected(s, f)[i] \in Seq(Keys)
      /\ \A i \in 1 .. Len(s) :
           RotationProofs!Collected(s, f)[i]
             = IF f[s[i]] THEN Append(RotationProofs!Collected(s, f)[i-1], s[i])
               ELSE RotationProofs!Collected(s, f)[i-1]
  BY RotationAssumptions, RotationProofs!CollectedStep
<1> QED
  BY <1>1, SameFilter

\* What the filter collects depends on the flags it has read only.
LEMMA FilterAgrees ==
  ASSUME NEW s \in Seq(Keys), NEW f \in [Keys -> BOOLEAN], NEW g \in [Keys -> BOOLEAN],
         NEW n \in 0 .. Len(s), \A i \in 1 .. n : f[s[i]] = g[s[i]]
  PROVE  Collected(s, f)[n] = Collected(s, g)[n]
<1> DEFINE P == {m \in Nat : m <= n => Collected(s, f)[m] = Collected(s, g)[m]}
<1>1. 0 \in P
  BY FilterStep
<1>2. ASSUME NEW m \in Nat, m \in P PROVE m + 1 \in P
  <2> SUFFICES ASSUME m + 1 <= n PROVE Collected(s, f)[m + 1] = Collected(s, g)[m + 1]
    OBVIOUS
  <2>1. m + 1 \in 1 .. n /\ m + 1 \in 1 .. Len(s) /\ (m + 1) - 1 = m /\ m <= n
    OBVIOUS
  <2>2. Collected(s, f)[m] = Collected(s, g)[m]
    BY <1>2, <2>1
  <2> QED
    BY <2>1, <2>2, FilterStep
<1> HIDE DEF P
<1>3. Nat \subseteq P
  BY <1>1, <1>2, RotationAssumptions, RotationProofs!Induction
<1> QED
  BY <1>3 DEF P
-----------------------------------------------------------------------------
(* Only keys of the pool are out of rotation or about to be taken out: a   *)
(* report keeps the read lock from its look-up to its last store.          *)
PooledInv ==
  /\ Distinct(order)
  /\ \A k \in Keys : ~ healthy[k] => k \in Members
  /\ \A t \in Tasks : pc[t] = "marking" => held[t] \in Members

LEMMA PooledAdmin ==
  ASSUME TypeOK, PooledInv, NEW k \in Keys, Admin(k)
  PROVE  PooledInv'
<1>1. \A t \in Tasks : pc'[t] # "marking"
  BY DEF Admin, AddKey, RemoveKey, NoReader
<1>2. CASE RemoveKey(k)
  <2>1. PICK i \in 1 .. Len(order) : order[i] = k /\ order' = RemoveAt(order, i)
    BY <1>2 DEF RemoveKey
  <2>2. Distinct(order') /\ ToSet(order') = ToSet(order) \ {k}
    BY <2>1, ListsStayDistinct DEF TypeOK, PooledInv
  <2>3. healthy' = [healthy EXCEPT ![k] = TRUE]
    BY <1>2 DEF RemoveKey
  <2> QED
    BY <1>1, <2>2, <2>3 DEF TypeOK, PooledInv, Members
<1>3. CASE \E w \in Weights : AddKey(k, w)
  <2>1. order' = (IF k \in Members THEN order ELSE Append(order, k))
    BY <1>3 DEF AddKey
  <2>2. Distinct(order') /\ ToSet(order) \subseteq ToSet(order')
    BY <2>1, ListsStayDistinct DEF TypeOK, PooledInv, Members
  <2>3. healthy' = [healthy EXCEPT ![k] = TRUE]
    BY <1>3 DEF AddKey
  <2> QED
    BY <1>1, <2>2, <2>3 DEF TypeOK, PooledInv, Members
<1> QED
  BY <1>2, <1>3 DEF Admin

LEMMA PooledTasks ==
  ASSUME TypeOK, PooledInv, NEW t \in Tasks, Acquire(t) \/ Report(t)
  PROVE  PooledInv'
<1>1. UNCHANGED order
  BY DEF Acquire, StartAcquire, Scan, Refuse, Lend, Report, ReportSuccess, Bump,
         MarkUnhealthy, SpawnRecovery, Drop
<1>2. \A u \in Tasks \ {t} : pc'[u] = pc[u] /\ held'[u] = held[u]
  BY DEF TypeOK, Acquire, StartAcquire, Scan, Refuse, Lend, Report, ReportSuccess, Bump,
         Trips, MarkUnhealthy, SpawnRecovery, Drop, Release, Goto
<1>3. pc'[t] = "marking" => held'[t] \in Members
  <2>1. CASE Bump(t)
    BY <2>1 DEF TypeOK, Bump, Release, Goto
  <2>2. CASE ~ Bump(t)
    BY <2>2 DEF TypeOK, Acquire, StartAcquire, Scan, Refuse, Lend, Report, ReportSuccess,
                MarkUnhealthy, SpawnRecovery, Drop, Release, Goto
  <2> QED
    BY <2>1, <2>2
<1>4. \A k \in Keys : ~ healthy'[k] => k \in Members
  <2>1. CASE MarkUnhealthy(t)
    BY <2>1 DEF TypeOK, PooledInv, MarkUnhealthy
  <2>2. CASE ~ MarkUnhealthy(t)
    <3>1. UNCHANGED healthy
      BY <2>2 DEF Acquire, StartAcquire, Scan, Refuse, Lend, Report, ReportSuccess, Bump,
                  SpawnRecovery, Drop, health
    <3> QED
      BY <3>1 DEF PooledInv
  <2> QED
    BY <2>1, <2>2
<1> QED
  BY <1>1, <1>2, <1>3, <1>4 DEF PooledInv, Members

LEMMA PooledInvariant == Spec => []PooledInv
<1>1. Init => PooledInv
  <2> SUFFICES ASSUME Init PROVE PooledInv
    OBVIOUS
  <2>1. order \in RotationProofs!SetToAllKPermutations(Keys)
    BY SamePermutations DEF Init
  <2>2. RotationProofs!Distinct(order)
    BY <2>1, RotationAssumptions, RotationProofs!InitialOrder
  <2> QED
    BY <2>2 DEF Init, PooledInv, Distinct, RotationProofs!Distinct
<1>2. TypeOK /\ PooledInv /\ [Next]_vars => PooledInv'
  <2> SUFFICES ASSUME TypeOK, PooledInv, [Next]_vars PROVE PooledInv'
    OBVIOUS
  <2>1. ASSUME NEW k \in Keys, Recover(k) PROVE PooledInv'
    <3>1. UNCHANGED <<order, pc, held>> /\ \A j \in Keys : healthy'[j] \/ healthy'[j] = healthy[j]
      BY <2>1 DEF TypeOK, Recover, RecoverHealthy, Revived, RecoverErrors
    <3> QED
      BY <3>1 DEF PooledInv, Members
  <2>2. CASE Tick
    BY <2>2 DEF Tick, health, PooledInv, Members
  <2>3. CASE UNCHANGED vars
    BY <2>3 DEF vars, health, PooledInv, Members
  <2> QED
    BY <2>1, <2>2, <2>3, PooledAdmin, PooledTasks DEF Next, Work
<1> QED
  BY <1>1, <1>2, TypeCorrect, PTL DEF Spec
-----------------------------------------------------------------------------
(* What a scan has collected is what the filter makes of the entries it    *)
(* has passed and of the flags it has seen.                                *)
SeenBy(c) == [k \in Keys |-> k \in ToSet(c)]

FilterInv ==
  Scanning =>
    /\ scanned <= Len(order)
    /\ candidates = Collected(order, SeenBy(candidates))[scanned]
    /\ \A k \in ToSet(candidates) : \E i \in 1 .. scanned : order[i] = k

LEMMA FilterReads ==
  ASSUME TypeOK, PooledInv, FilterInv, NEW t \in Tasks, Scan(t)
  PROVE  FilterInv'
<1> DEFINE n == scanned + 1
           k == order[n]
           f == SeenBy(candidates)
           g == SeenBy(candidates')
<1>1. /\ Scanning /\ scanned \in Nat /\ Len(order) \in Nat /\ scanned < Len(order)
      /\ scanned' = n /\ UNCHANGED order
  BY LenProperties DEF Scan, Scanning, TypeOK
<1>2. n \in 1 .. Len(order) /\ n - 1 = scanned /\ scanned \in 0 .. Len(order)
  BY <1>1
<1>3. order \in Seq(Keys) /\ candidates \in Seq(Keys) /\ k \in Keys
  BY <1>2, ElementOfSeq DEF TypeOK
<1>4. /\ candidates = Collected(order, f)[scanned]
      /\ \A j \in ToSet(candidates) : \E i \in 1 .. scanned : order[i] = j
  BY <1>1 DEF FilterInv
<1>5. candidates' = IF healthy[k] THEN Append(candidates, k) ELSE candidates
  BY DEF Scan, Eligible
<1>6. ToSet(candidates') = IF healthy[k] THEN ToSet(candidates) \cup {k} ELSE ToSet(candidates)
  BY <1>3, <1>5, AppendedMember
<1>7. \A i \in 1 .. scanned : i \in 1 .. Len(order) /\ order[i] \in Keys /\ order[i] # k
  <2>1. \A i \in 1 .. scanned : i \in 1 .. Len(order) /\ i # n
    BY <1>1
  <2>2. \A i \in 1 .. scanned : order[i] # k
    BY <1>2, <2>1 DEF PooledInv, Distinct
  <2> QED
    BY <1>3, <2>1, <2>2, ElementOfSeq
<1>8. f \in [Keys -> BOOLEAN] /\ g \in [Keys -> BOOLEAN]
  BY DEF SeenBy
<1>9. \A i \in 1 .. scanned : f[order[i]] = g[order[i]]
  BY <1>6, <1>7 DEF SeenBy
<1>10. g[k] <=> healthy[k]
  <2>1. k \notin ToSet(candidates)
    BY <1>4, <1>7
  <2> QED
    BY <1>3, <1>6, <2>1 DEF SeenBy
<1> HIDE DEF n, k, f, g
<1>11. Collected(order, g)[scanned] = candidates
  BY <1>2, <1>3, <1>4, <1>8, <1>9, FilterAgrees
<1>12. Collected(order, g)[n] = IF g[k] THEN Append(candidates, k) ELSE candidates
  BY <1>2, <1>3, <1>8, <1>11, FilterStep DEF k
<1>13. candidates' = Collected(order, g)[n]
  BY <1>5, <1>10, <1>12
<1>14. \A j \in ToSet(candidates') : \E i \in 1 .. n : order[i] = j
  <2> SUFFICES ASSUME NEW j \in ToSet(candidates') PROVE \E i \in 1 .. n : order[i] = j
    OBVIOUS
  <2>1. CASE j = k
    <3>1. n \in 1 .. n
      BY <1>2
    <3> QED
      BY <2>1, <3>1 DEF k
  <2>2. CASE j # k
    <3>1. PICK i \in 1 .. scanned : order[i] = j
      BY <1>4, <1>6, <2>2
    <3>2. i \in 1 .. n
      BY <1>1, <3>1 DEF n
    <3> QED
      BY <3>1, <3>2
  <2> QED
    BY <2>1, <2>2
<1> QED
  BY <1>1, <1>2, <1>13, <1>14 DEF FilterInv, g

LEMMA FilterStarts ==
  ASSUME TypeOK, candidates' = << >>, scanned' = 0, order' \in Seq(Keys)
  PROVE  FilterInv'
<1>1. SeenBy(candidates') \in [Keys -> BOOLEAN] /\ ToSet(candidates') = {}
  BY DEF SeenBy, ToSet
<1>2. Collected(order', SeenBy(candidates'))[0] = << >>
  BY <1>1, FilterStep
<1>3. 0 <= Len(order')
  BY LenProperties
<1> QED
  BY <1>1, <1>2, <1>3 DEF FilterInv

LEMMA FilterInvariant == HSpec => []FilterInv
<1>1. HInit => FilterInv
  BY DEF HInit, Init, FilterInv, Scanning
<1>2. TypeOK /\ TypeOK' /\ ScanInv /\ ScanInv' /\ PooledInv /\ FilterInv /\ [HNext]_hvars
        => FilterInv'
  <2> SUFFICES ASSUME TypeOK, TypeOK', ScanInv, ScanInv', PooledInv, FilterInv, [HNext]_hvars
               PROVE  FilterInv'
    OBVIOUS
  <2>1. ASSUME NEW t \in Tasks, Scan(t) PROVE FilterInv'
    BY <2>1, FilterReads
  <2>2. ASSUME NEW t \in Tasks, StartAcquire(t) PROVE FilterInv'
    <3>1. ~ Scanning /\ UNCHANGED <<scanned, candidates>>
      BY <2>2 DEF StartAcquire, Scanning, scan
    <3>2. candidates' = << >> /\ scanned' = 0
      BY <3>1 DEF ScanInv
    <3> QED
      BY <3>2, FilterStarts DEF TypeOK
  <2>3. ASSUME NEW t \in Tasks, Refuse(t) \/ Lend(t) PROVE FilterInv'
    <3>1. candidates' = << >> /\ scanned' = 0
      BY <2>3 DEF Refuse, Lend, EndScan
    <3> QED
      BY <3>1, FilterStarts DEF TypeOK
  <2>4. ASSUME \/ \E t \in Tasks : Report(t)
               \/ \E k \in Keys : Recover(k) \/ Admin(k)
               \/ Tick
               \/ UNCHANGED hvars
        PROVE  FilterInv'
    <3>1. Scanning' => Scanning
      <4>1. \A u \in Tasks : pc'[u] = "scan" => pc[u] = "scan"
        BY <2>4 DEF Report, ReportSuccess, Bump, MarkUnhealthy, SpawnRecovery, Drop,
                    Recover, RecoverHealthy, RecoverErrors, Admin, AddKey, RemoveKey, Tick,
                    Release, Goto, TypeOK, hvars, vars
      <4> QED
        BY <4>1 DEF Scanning
    <3>2. UNCHANGED <<scanned, candidates>>
      BY <2>4 DEF Report, ReportSuccess, Bump, MarkUnhealthy, SpawnRecovery, Drop, Recover,
             RecoverHealthy, RecoverErrors, Admin, AddKey, RemoveKey, Tick, scan, hvars, vars
    <3>3. Scanning => UNCHANGED order
      BY <2>4 DEF Scanning, NoReader, Report, ReportSuccess, Bump, MarkUnhealthy,
             SpawnRecovery, Drop, Recover, RecoverHealthy, RecoverErrors, Admin, AddKey,
             RemoveKey, Tick, hvars, vars
    <3> QED
      BY <3>1, <3>2, <3>3 DEF FilterInv
  <2> QED
    BY <2>1, <2>2, <2>3, <2>4 DEF HNext, HWork, HTick, Work, Acquire
<1> QED
  BY <1>1, <1>2, Typed, ScanInvariant, HistoryOnly, PooledInvariant, PTL DEF HSpec
-----------------------------------------------------------------------------
\* The scan that ends has seen the flags as they are, if none was stored to.
LEMMA SeenUndisturbed ==
  ASSUME TypeOK, ScanInv, FilterInv, SteadyKeysDecide, ScanDone
  PROVE  /\ candidates = HealthyOf(order, SeenBy(candidates))
         /\ Undisturbed => candidates = HealthyOf(order, healthy)
<1> DEFINE f == SeenBy(candidates)
<1>1. scanned = Len(order) /\ Len(order) \in Nat /\ order \in Seq(Keys)
  BY LenProperties DEF ScanDone, TypeOK
<1>2. candidates = Collected(order, f)[Len(order)]
  BY <1>1 DEF ScanDone, FilterInv
<1>3. f \in [Keys -> BOOLEAN] /\ healthy \in [Keys -> BOOLEAN]
  BY DEF SeenBy, TypeOK
<1>4. ASSUME Undisturbed, NEW i \in 1 .. Len(order) PROVE f[order[i]] = healthy[order[i]]
  <2>1. order[i] \in Members /\ order[i] \in Keys
    BY <1>1, ElementOfSeq DEF Members, ToSet
  <2>2. up \subseteq Up /\ down \subseteq Down
    BY DEF ScanInv, ScanDone, SortedSoFar
  <2>3. CASE order[i] \in up
    <3>1. healthy[order[i]] /\ order[i] \in ToSet(candidates)
      BY <2>2, <2>3 DEF SteadyKeysDecide, Up
    <3> QED
      BY <2>1, <3>1, <1>3 DEF SeenBy
  <2>4. CASE order[i] \in down
    <3>1. ~ healthy[order[i]] /\ order[i] \notin ToSet(candidates)
      BY <2>2, <2>4 DEF SteadyKeysDecide, Down
    <3> QED
      BY <2>1, <3>1, <1>3 DEF SeenBy
  <2> QED
    BY <1>4, <2>1, <2>3, <2>4 DEF Undisturbed
<1> HIDE DEF f
<1>5. Len(order) \in 0 .. Len(order)
  BY <1>1
<1>6. Undisturbed => Collected(order, f)[Len(order)] = Collected(order, healthy)[Len(order)]
  BY <1>1, <1>3, <1>4, <1>5, FilterAgrees
<1> QED
  BY <1>2, <1>6 DEF HealthyOf, f

LEMMA LendRotates ==
  ASSUME TypeOK, ScanInv, FilterInv, SteadyKeysDecide, PickHistory,
         NEW t \in Tasks, Lend(t)
  PROVE  Rotation!RRNext
<1> DEFINE counted == Undisturbed /\ Rotation!Total(picks) < MaxPicks
<1>1. ScanDone
  BY DEF ScanDone, Scanning, Lend
<1>2. /\ candidates = HealthyOf(order, SeenBy(candidates))
      /\ Undisturbed => candidates = HealthyOf(order, healthy)
  BY <1>1, SeenUndisturbed
<1>3. PICK i \in 1 .. Len(candidates) :
        /\ Picks(CandidateWeights, Index(CandidateWeights, rr), i)
        /\ held' = [held EXCEPT ![t] = candidates[i]]
  BY DEF Lend
<1>4. /\ Usable(CandidateWeights) /\ rr' = NextIndex(CandidateWeights, rr)
      /\ UNCHANGED <<order, weight, healthy>>
  BY DEF Lend, health
<1>5. held'[t] = candidates[i]
  BY <1>3 DEF TypeOK
<1>6. \A u \in Tasks : Lends(u) <=> u = t
  BY DEF Lends, Lend, Goto, TypeOK, ScanInv, OneScan
<1>7. picks' = IF counted THEN [picks EXCEPT ![candidates[i]] = @ + 1]
               ELSE [k \in Keys |-> 0]
  BY <1>5, <1>6 DEF PickHistory
<1>8. Rotation!WeightsIn(candidates) = CandidateWeights
  BY DEF Rotation!WeightsIn, CandidateWeights
<1> HIDE DEF counted
<1>9. CASE counted
  <2>1. Rotation!Candidates = candidates
    BY <1>2, <1>9, SameFilter DEF counted, Rotation!Candidates
  <2>2. Rotation!CandidateWeights = CandidateWeights
    BY <1>8, <2>1 DEF Rotation!CandidateWeights
  <2>3. Rotation!AcquireKey
    BY <1>3, <1>4, <1>7, <1>9, <2>1, <2>2, SamePick DEF counted, Rotation!AcquireKey
  <2> QED
    BY <2>3 DEF Rotation!RRNext
<1>10. CASE ~ counted
  <2>1. Rotation!HealthyOf(order, SeenBy(candidates)) = candidates
    BY <1>2, SameFilter
  <2>2. Rotation!NewWindow
    BY <1>7, <1>10 DEF Rotation!NewWindow
  <2>3. Rotation!AcquireAmidStores(SeenBy(candidates))
    BY <1>4, <1>8, <2>1, <2>2, SamePick DEF Rotation!AcquireAmidStores
  <2>4. SeenBy(candidates) \in [Keys -> BOOLEAN]
    BY DEF SeenBy
  <2> QED
    BY <2>3, <2>4 DEF Rotation!RRNext
<1> QED
  BY <1>9, <1>10

\* What becomes of the picks in every other step of the pool.
LEMMA NoLend ==
  ASSUME PickHistory, \A t \in Tasks : ~ Lends(t)
  PROVE  IF UNCHANGED <<order, weight, healthy>> THEN picks' = picks ELSE Rotation!NewWindow
  BY DEF PickHistory, Rotation!NewWindow

LEMMA StoreRotates ==
  ASSUME TypeOK, PooledInv, PickHistory, \A t \in Tasks : ~ Lends(t),
         NEW k \in Members, NEW b \in BOOLEAN,
         healthy' = [healthy EXCEPT ![k] = b], UNCHANGED <<order, weight, rr>>
  PROVE  [Rotation!RRNext]_(Rotation!rrvars)
<1>1. k \in Keys
  BY ElementOfSeq DEF TypeOK, Members, ToSet
<1>2. CASE healthy[k] = b
  <2>1. healthy' = healthy
    BY <1>1, <1>2 DEF TypeOK
  <2> QED
    BY <2>1, NoLend DEF Rotation!rrvars
<1>3. CASE healthy[k] # b
  <2>1. healthy' = [healthy EXCEPT ![k] = ~ @] /\ healthy' # healthy
    BY <1>1, <1>3 DEF TypeOK
  <2>2. k \in Rotation!Members
    BY SameLists DEF Members, Rotation!Members
  <2>3. Rotation!FlipHealth(k)
    BY <2>1, <2>2, NoLend DEF Rotation!FlipHealth
  <2> QED
    BY <1>1, <2>3 DEF Rotation!RRNext
<1> QED
  BY <1>2, <1>3

LEMMA AdminRotates ==
  ASSUME TypeOK, PickHistory, \A t \in Tasks : ~ Lends(t), NEW k \in Keys, Admin(k)
  PROVE  [Rotation!RRNext]_(Rotation!rrvars)
<1>1. UNCHANGED rr
  BY DEF Admin, AddKey, RemoveKey
<1>2. CASE UNCHANGED <<order, weight, healthy>>
  BY <1>1, <1>2, NoLend DEF Rotation!rrvars
<1>3. CASE ~ UNCHANGED <<order, weight, healthy>>
  <2>1. Rotation!NewWindow
    BY <1>3, NoLend
  <2>2. Members = Rotation!Members
    BY SameLists DEF Members, Rotation!Members
  <2>3. Rotation!RemoveKey(k) \/ \E w \in Weights : Rotation!AddKey(k, w)
    BY <1>1, <2>1, <2>2, SameLists DEF Admin, AddKey, RemoveKey, Rotation!AddKey,
                                       Rotation!RemoveKey
  <2> QED
    BY <2>3 DEF Rotation!RRNext
<1> QED
  BY <1>2, <1>3

LEMMA WorkRotates ==
  ASSUME TypeOK, ScanInv, FilterInv, PooledInv, SteadyKeysDecide, HWork
  PROVE  [Rotation!RRNext]_(Rotation!rrvars)
<1>1. PickHistory
  BY DEF HWork
<1>2. ASSUME NEW t \in Tasks, Lend(t) PROVE Rotation!RRNext
  BY <1>1, <1>2, LendRotates
<1>3. ASSUME NEW t \in Tasks, StartAcquire(t) \/ Scan(t) \/ Refuse(t) \/ Report(t)
      PROVE  [Rotation!RRNext]_(Rotation!rrvars)
  <2>1. \A u \in Tasks : ~ Lends(u)
    BY <1>3 DEF Lends, StartAcquire, Scan, Refuse, Report, ReportSuccess, Bump, MarkUnhealthy,
                SpawnRecovery, Drop, Release, Goto, TypeOK
  <2>2. UNCHANGED <<order, weight, rr>>
    BY <1>3 DEF StartAcquire, Scan, Refuse, Report, ReportSuccess, Bump, MarkUnhealthy,
                SpawnRecovery, Drop
  <2>3. CASE MarkUnhealthy(t)
    <3>1. held[t] \in Members /\ healthy' = [healthy EXCEPT ![held[t]] = FALSE]
      BY <2>3 DEF MarkUnhealthy, PooledInv
    <3> QED
      BY <1>1, <2>1, <2>2, <3>1, StoreRotates
  <2>4. CASE ~ MarkUnhealthy(t)
    <3>1. UNCHANGED healthy
      BY <1>3, <2>4 DEF StartAcquire, Scan, Refuse, Report, ReportSuccess, Bump,
                        SpawnRecovery, Drop, health
    <3> QED
      BY <1>1, <2>1, <2>2, <3>1, NoLend DEF Rotation!rrvars
  <2> QED
    BY <2>3, <2>4
<1>4. ASSUME NEW k \in Keys, Recover(k) \/ Admin(k)
      PROVE  [Rotation!RRNext]_(Rotation!rrvars)
  <2>1. \A u \in Tasks : ~ Lends(u)
    BY <1>4 DEF Lends, Recover, RecoverHealthy, RecoverErrors, Admin, AddKey, RemoveKey
  <2>2. CASE Admin(k)
    BY <1>1, <2>1, <2>2, AdminRotates
  <2>3. CASE Recover(k)
    <3>1. UNCHANGED <<order, weight, rr>>
      BY <2>3 DEF Recover, RecoverHealthy, RecoverErrors
    <3>2. UNCHANGED healthy \/ healthy' = [healthy EXCEPT ![k] = TRUE]
      BY <2>3 DEF Recover, RecoverHealthy, Revived, RecoverErrors
    <3>3. CASE k \in Members /\ healthy' = [healthy EXCEPT ![k] = TRUE]
      BY <1>1, <2>1, <3>1, <3>3, StoreRotates
    <3>4. CASE UNCHANGED healthy \/ k \notin Members
      <4>1. UNCHANGED healthy
        BY <3>2, <3>4 DEF TypeOK, PooledInv
      <4> QED
        BY <1>1, <2>1, <3>1, <4>1, NoLend DEF Rotation!rrvars
    <3> QED
      BY <3>2, <3>3, <3>4
  <2> QED
    BY <1>4, <2>2, <2>3
<1> QED
  BY <1>2, <1>3, <1>4 DEF HWork, Work, Acquire

(* The pool, with its lists read under two locks, its flags stored to by   *)
(* anyone and its recovery tasks, is a weighted rotation in which an       *)
(* acquisition is one step (key_pool.rs:54-93).                            *)
THEOREM PoolRotates == HSpec => KeepsRotation
<1>1. HInit => Rotation!RRInit
  <2> SUFFICES ASSUME HInit PROVE Rotation!RRInit
    OBVIOUS
  <2>1. order \in Rotation!SetToAllKPermutations(Keys) /\ Rotation!Members = Members
    BY SamePermutations, SameLists DEF HInit, Init, Members, Rotation!Members
  <2> QED
    BY <2>1 DEF HInit, Init, Rotation!RRInit
<1>2. TypeOK /\ ScanInv /\ FilterInv /\ PooledInv /\ SteadyKeysDecide /\ [HNext]_hvars
        => [Rotation!RRNext]_(Rotation!rrvars)
  <2>1. HTick => UNCHANGED Rotation!rrvars
    BY DEF HTick, Tick, health, Rotation!rrvars
  <2>2. UNCHANGED hvars => UNCHANGED Rotation!rrvars
    BY DEF hvars, vars, history, health, Rotation!rrvars
  <2> QED
    BY <2>1, <2>2, WorkRotates DEF HNext
<1> QED
  BY <1>1, <1>2, Typed, ScanInvariant, FilterInvariant, HistoryOnly, PooledInvariant,
     SteadyDecide, PTL DEF HSpec, KeepsRotation, Rotation!RRSpec

\* What is proved of the rotation holds of the pool.
LEMMA SameRotation ==
  /\ Rotation!RRInit => RotationProofs!RRInit
  /\ [Rotation!RRNext]_(Rotation!rrvars) => [RotationProofs!RRNext]_(RotationProofs!rrvars)
  /\ RotationProofs!ExactShare => Rotation!ExactShare
<1>1. \A f : Rotation!Total(f) = RotationProofs!Total(f)
  BY DEF Rotation!Total, RotationProofs!Total, Rotation!FoldFunctionOnSet,
         RotationProofs!FoldFunctionOnSet, Rotation!MapThenFoldSet,
         RotationProofs!MapThenFoldSet
<1>2. /\ Rotation!Members = RotationProofs!Members
      /\ Rotation!Candidates = RotationProofs!Candidates
      /\ \A s, f : Rotation!HealthyOf(s, f) = RotationProofs!HealthyOf(s, f)
  BY SameLists, SameFilter DEF Rotation!Members, RotationProofs!Members, Rotation!Candidates,
     RotationProofs!Candidates, Rotation!HealthyOf, RotationProofs!HealthyOf,
     Rotation!Collected, RotationProofs!Collected
<1>3. /\ \A c : Rotation!WeightsIn(c) = RotationProofs!WeightsIn(c)
      /\ Rotation!CandidateWeights = RotationProofs!CandidateWeights
  BY <1>2 DEF Rotation!WeightsIn, RotationProofs!WeightsIn, Rotation!CandidateWeights,
     RotationProofs!CandidateWeights
<1>4. /\ \A ws : Rotation!Usable(ws) <=> RotationProofs!Usable(ws)
      /\ \A ws, r : Rotation!NextIndex(ws, r) = RotationProofs!NextIndex(ws, r)
      /\ \A ws, r, i : Rotation!Picks(ws, Rotation!Index(ws, r), i)
                         <=> RotationProofs!Picks(ws, RotationProofs!Index(ws, r), i)
  BY DEF Rotation!Usable, RotationProofs!Usable, Rotation!NextIndex, RotationProofs!NextIndex,
         Rotation!Picks, RotationProofs!Picks, Rotation!Index, RotationProofs!Index,
         Rotation!Covers, RotationProofs!Covers, Rotation!LoopFinds, RotationProofs!LoopFinds,
         Rotation!TotalWeight, RotationProofs!TotalWeight, Rotation!Accumulated,
         RotationProofs!Accumulated
<1>5. Rotation!RRInit => RotationProofs!RRInit
  BY <1>2, SamePermutations DEF Rotation!RRInit, RotationProofs!RRInit
<1>6. Rotation!AcquireKey => RotationProofs!AcquireKey
  BY <1>1, <1>2, <1>3, <1>4 DEF Rotation!AcquireKey, RotationProofs!AcquireKey
<1>7. ASSUME NEW seen, Rotation!AcquireAmidStores(seen)
      PROVE  RotationProofs!AcquireAmidStores(seen)
  BY <1>2, <1>3, <1>4, <1>7 DEF Rotation!AcquireAmidStores, RotationProofs!AcquireAmidStores,
     Rotation!NewWindow, RotationProofs!NewWindow
<1>8. ASSUME NEW k, Rotation!FlipHealth(k) PROVE RotationProofs!FlipHealth(k)
  BY <1>2, <1>8 DEF Rotation!FlipHealth, RotationProofs!FlipHealth, Rotation!NewWindow,
     RotationProofs!NewWindow
<1>9. ASSUME NEW k, Rotation!RemoveKey(k) PROVE RotationProofs!RemoveKey(k)
  BY <1>9, SameLists DEF Rotation!RemoveKey, RotationProofs!RemoveKey, Rotation!NewWindow,
     RotationProofs!NewWindow
<1>10. ASSUME NEW k, NEW w, Rotation!AddKey(k, w) PROVE RotationProofs!AddKey(k, w)
  BY <1>2, <1>10 DEF Rotation!AddKey, RotationProofs!AddKey, Rotation!NewWindow,
     RotationProofs!NewWindow
<1>11. Rotation!RRNext => RotationProofs!RRNext
  BY <1>6, <1>7, <1>8, <1>9, <1>10 DEF Rotation!RRNext, RotationProofs!RRNext
<1>12. UNCHANGED Rotation!rrvars => UNCHANGED RotationProofs!rrvars
  BY DEF Rotation!rrvars, RotationProofs!rrvars
<1>13. RotationProofs!ExactShare => Rotation!ExactShare
  BY <1>1 DEF Rotation!ExactShare, RotationProofs!ExactShare, Rotation!CandidateWeight,
     RotationProofs!CandidateWeight, Rotation!Lesser, RotationProofs!Lesser
<1> QED
  BY <1>5, <1>11, <1>12, <1>13

(* Between two stores to the list, a weight or a flag, the keys the pool   *)
(* lends are shared out by weight (README.md:13, key_pool.rs:65-82).       *)
THEOREM PoolSharesExactly == HSpec => []Rotation!ExactShare
<1>1. /\ RotationProofs!IsFiniteSet(Keys)
      /\ Weights \subseteq 0 .. U32 - 1
      /\ MaxPicks \in Nat
  BY RotationAssumptions
<1>2. U32 \in Nat \ {0}
  BY RotationAssumptions
<1>3. RotationProofs!RRInit /\ [][RotationProofs!RRNext]_(RotationProofs!rrvars)
        => []RotationProofs!ExactShare
  BY RotationProofs!SharesAreExact, <1>1, <1>2, PTL DEF RotationProofs!RRSpec
<1>4. Rotation!RRInit /\ [][Rotation!RRNext]_(Rotation!rrvars) => []Rotation!ExactShare
  BY <1>3, SameRotation, PTL
<1> QED
  BY <1>4, PoolRotates, PTL DEF KeepsRotation, Rotation!RRSpec
=============================================================================
