------------------------------ MODULE KeyPool -------------------------------
(***************************************************************************)
(* The pool of downstream keys, src/src/proxy/key_pool.rs, at the grain of *)
(* its locks and atomics.  acquire_key scans the Vec of keys under the     *)
(* mutex "state" and a read lock on "keys"; report_success and             *)
(* report_failure take the read lock only, so their loads and stores       *)
(* interleave with a scan; add_key and remove_key take the write lock; the *)
(* recovery task spawned by report_failure takes no lock at all.           *)
(*                                                                         *)
(* A Task is any caller of the pool.  What a caller does with a key it has *)
(* acquired is left open here: it may report either way, or never report.  *)
(***************************************************************************)
EXTENDS WeightedPick, FiniteSets, SequencesExt

CONSTANTS
  Keys,           \* downstream keys
  Tasks,          \* concurrent callers
  Weights,        \* the weights a key can be given, u32 values
  Cooldown,       \* the 60 seconds of report_failure, in ticks
  MaxRecoveries,  \* bound: recovery tasks outstanding for one key
  NoKey           \* no key acquired

ASSUME KeyPoolAssumption ==
  /\ IsFiniteSet(Keys) /\ IsFiniteSet(Tasks)
  /\ Weights \subseteq 0 .. U32 - 1
  /\ Cooldown \in Nat \ {0}
  /\ MaxRecoveries \in Nat
  /\ NoKey \notin Keys

VARIABLES
  order,       \* the Vec of pooled keys, without repetition
  weight,      \* PooledKey::weight; 0 for a key that is not pooled
  healthy,     \* PooledKey::healthy; TRUE for a key that is not pooled
  errors,      \* PooledKey::consecutive_errors, counted up to Threshold
  rr,          \* PoolState::round_robin_index
  recover,     \* recover[k]: ticks left in k's sleeping recovery tasks, oldest first
  resetting,   \* resetting[k]: recovery tasks of k between their two stores
  pc,          \* where each task is inside the pool
  held,        \* AcquiredKey of each task
  scanned,     \* entries of order examined by the scan in progress
  candidates   \* healthy_keys of the scan in progress

health == <<healthy, errors>>
timers == <<recover, resetting>>
scan   == <<scanned, candidates>>
vars   == <<order, weight, healthy, errors, rr, recover, resetting, pc, held,
            scanned, candidates>>

Threshold == 3

Members == ToSet(order)

TypeOK ==
  /\ order \in Seq(Keys)
  /\ weight \in [Keys -> 0 .. U32 - 1]
  /\ healthy \in [Keys -> BOOLEAN]
  /\ errors \in [Keys -> 0 .. Threshold]
  /\ rr \in 0 .. U32 - 1
  /\ recover \in [Keys -> Seq(0 .. Cooldown)]
  /\ resetting \in [Keys -> Nat]
  /\ pc \in [Tasks -> {"idle", "scan", "using", "marking", "spawning"}]
  /\ held \in [Tasks -> Keys \cup {NoKey}]
  /\ scanned \in Nat
  /\ candidates \in Seq(Keys)

-----------------------------------------------------------------------------
(* KeyPool::new: the keys of the database or of the configuration, all     *)
(* healthy.                                                                *)
Init ==
  /\ order \in SetToAllKPermutations(Keys)
  /\ weight \in {[k \in Keys |-> IF k \in Members THEN w[k] ELSE 0] :
                   w \in [Keys -> Weights]}
  /\ healthy = [k \in Keys |-> TRUE]
  /\ errors = [k \in Keys |-> 0]
  /\ rr = 0
  /\ recover = [k \in Keys |-> << >>]
  /\ resetting = [k \in Keys |-> 0]
  /\ pc = [t \in Tasks |-> "idle"]
  /\ held = [t \in Tasks |-> NoKey]
  /\ scanned = 0
  /\ candidates = << >>

Goto(t, label) == pc' = [pc EXCEPT ![t] = label]

Release(t) == Goto(t, "idle") /\ held' = [held EXCEPT ![t] = NoKey]

\* Mutant: add_key and remove_key do not wait for readers.
Unlocked == TRUE

(* The write lock of add_key and remove_key: no reader is inside the pool. *)
NoReader == \A t \in Tasks : pc[t] \in {"idle", "using"}

(* Bound: every task inside the pool or holding a key may still start one  *)
(* recovery task.                                                          *)
RoomForRecoveries ==
  \A k \in Keys : Len(recover[k]) + resetting[k]
                    + Cardinality({t \in Tasks : pc[t] # "idle"}) < MaxRecoveries

-----------------------------------------------------------------------------
(* acquire_key.  The mutex lets one scan run at a time; what other tasks   *)
(* and the recovery tasks do to "healthy" meanwhile is seen or missed      *)
(* depending on how far the scan has come.                                 *)
StartAcquire(t) ==
  /\ pc[t] = "idle"
  /\ \A u \in Tasks : pc[u] # "scan"
  /\ RoomForRecoveries
  /\ Goto(t, "scan")
  /\ UNCHANGED <<order, weight, health, rr, timers, held, scan>>

\* Mutant: the last key of the list is never examined.
EligibleShort(i) == healthy[order[i]] /\ i < Len(order)

Eligible(i) == healthy[order[i]]

Scan(t) ==
  /\ pc[t] = "scan"
  /\ scanned < Len(order)
  /\ scanned' = scanned + 1
  /\ candidates' = IF Eligible(scanned + 1)
                   THEN Append(candidates, order[scanned + 1])
                   ELSE candidates
  /\ UNCHANGED <<order, weight, health, rr, timers, pc, held>>

EndScan == scanned' = 0 /\ candidates' = << >>

CandidateWeights == [i \in 1 .. Len(candidates) |-> weight[candidates[i]]]

\* NoKeysAvailable: no candidate, or none with a weight.
Refuse(t) ==
  /\ pc[t] = "scan"
  /\ scanned = Len(order)
  /\ ~ Usable(CandidateWeights)
  /\ Goto(t, "idle")
  /\ EndScan
  /\ UNCHANGED <<order, weight, health, rr, timers, held>>

Lend(t) ==
  /\ pc[t] = "scan"
  /\ scanned = Len(order)
  /\ Usable(CandidateWeights)
  /\ rr' = NextIndex(CandidateWeights, rr)
  /\ \E i \in 1 .. Len(candidates) :
       /\ Picks(CandidateWeights, Index(CandidateWeights, rr), i)
       /\ held' = [held EXCEPT ![t] = candidates[i]]
  /\ Goto(t, "using")
  /\ EndScan
  /\ UNCHANGED <<order, weight, health, timers>>

-----------------------------------------------------------------------------
(* The reports name the key: a key removed meanwhile is ignored, and one   *)
(* removed and added again takes the report of its predecessor.            *)
ReportSuccess(t) ==
  /\ pc[t] = "using"
  /\ errors' = IF held[t] \in Members THEN [errors EXCEPT ![held[t]] = 0] ELSE errors
  /\ Release(t)
  /\ UNCHANGED <<order, weight, healthy, rr, timers, scan>>

\* Mutant: the key is taken out of rotation by one failure too many.
TripsLate(k) == errors[k] >= Threshold

Trips(k) == errors[k] + 1 >= Threshold

(* report_failure is three steps for a key that reaches the threshold: the *)
(* fetch_add, the store to "healthy", the spawn.                           *)
Bump(t) ==
  /\ pc[t] = "using"
  /\ held[t] \in Members
  /\ LET k == held[t] IN
       /\ errors' = [errors EXCEPT ![k] = IF @ < Threshold THEN @ + 1 ELSE @]
       /\ \/ ~ Trips(k) /\ Release(t)
          \/ Trips(k) /\ Goto(t, "marking") /\ UNCHANGED held
  /\ UNCHANGED <<order, weight, healthy, rr, timers, scan>>

MarkUnhealthy(t) ==
  /\ pc[t] = "marking"
  /\ healthy' = [healthy EXCEPT ![held[t]] = FALSE]
  /\ Goto(t, "spawning")
  /\ UNCHANGED <<order, weight, errors, rr, timers, held, scan>>

\* Mutant: the recovery task sleeps one tick short.
ShortSleep == Cooldown - 1

Sleep == Cooldown

SpawnRecovery(t) ==
  /\ pc[t] = "spawning"
  /\ recover' = [recover EXCEPT ![held[t]] = Append(@, Sleep)]
  /\ Release(t)
  /\ UNCHANGED <<order, weight, health, rr, resetting, scan>>

(* The caller is done without a report, or reports the failure of a key    *)
(* that is no longer pooled.                                               *)
Drop(t) ==
  /\ pc[t] = "using"
  /\ Release(t)
  /\ UNCHANGED <<order, weight, health, rr, timers, scan>>

-----------------------------------------------------------------------------
(* The recovery task: it sleeps, then stores twice, whatever happened to   *)
(* the key since it was spawned.                                           *)
Elapsed(k) == recover[k] # << >> /\ Head(recover[k]) = 0

\* Mutant: the recovery task revives the key only while its count still stands.
RevivedIfTripped(k) == healthy[k] \/ errors[k] = Threshold

Revived(k) == TRUE

RecoverHealthy(k) ==
  /\ Elapsed(k)
  /\ recover' = [recover EXCEPT ![k] = Tail(@)]
  /\ healthy' = [healthy EXCEPT ![k] = Revived(k)]
  /\ resetting' = [resetting EXCEPT ![k] = @ + 1]
  /\ UNCHANGED <<order, weight, errors, rr, pc, held, scan>>

RecoverErrors(k) ==
  /\ resetting[k] > 0
  /\ resetting' = [resetting EXCEPT ![k] = @ - 1]
  /\ errors' = [errors EXCEPT ![k] = 0]
  /\ UNCHANGED <<order, weight, healthy, rr, recover, pc, held, scan>>

Sooner(ticks) == IF ticks > 0 THEN ticks - 1 ELSE 0

Tick ==
  /\ \E k \in Keys : \E i \in 1 .. Len(recover[k]) : recover[k][i] > 0
  /\ recover' = [k \in Keys |-> [i \in 1 .. Len(recover[k]) |-> Sooner(recover[k][i])]]
  /\ UNCHANGED <<order, weight, health, rr, resetting, pc, held, scan>>

-----------------------------------------------------------------------------
(* The admin operations.  add_key on a pooled key leaves its recovery      *)
(* tasks running.  The recovery tasks of a removed key act on an object    *)
(* out of the pool's reach: they are forgotten.                            *)
AddKey(k, w) ==
  /\ NoReader
  /\ order' = IF k \in Members THEN order ELSE Append(order, k)
  /\ weight' = [weight EXCEPT ![k] = w]
  /\ healthy' = [healthy EXCEPT ![k] = TRUE]
  /\ errors' = [errors EXCEPT ![k] = 0]
  /\ UNCHANGED <<rr, timers, pc, held, scan>>

RemoveKey(k) ==
  /\ NoReader
  /\ \E i \in 1 .. Len(order) : order[i] = k /\ order' = RemoveAt(order, i)
  /\ weight' = [weight EXCEPT ![k] = 0]
  /\ healthy' = [healthy EXCEPT ![k] = TRUE]
  /\ errors' = [errors EXCEPT ![k] = 0]
  /\ recover' = [recover EXCEPT ![k] = << >>]
  /\ resetting' = [resetting EXCEPT ![k] = 0]
  /\ UNCHANGED <<rr, pc, held, scan>>

-----------------------------------------------------------------------------
Acquire(t) == StartAcquire(t) \/ Scan(t) \/ Refuse(t) \/ Lend(t)

Report(t) ==
  ReportSuccess(t) \/ Bump(t) \/ MarkUnhealthy(t) \/ SpawnRecovery(t) \/ Drop(t)

Recover(k) == RecoverHealthy(k) \/ RecoverErrors(k)

Admin(k) == RemoveKey(k) \/ \E w \in Weights : AddKey(k, w)

Work ==
  \/ \E t \in Tasks : Acquire(t) \/ Report(t)
  \/ \E k \in Keys : Recover(k) \/ Admin(k)

Next == Work \/ Tick

(* Time passes, the runtime runs every task that is ready, and code that   *)
(* does not await runs on.  Callers and administrators owe nothing.        *)
Fairness ==
  /\ WF_vars(Tick)
  /\ \A k \in Keys : WF_vars(RecoverHealthy(k)) /\ WF_vars(RecoverErrors(k))
  /\ \A t \in Tasks : /\ WF_vars(MarkUnhealthy(t) \/ SpawnRecovery(t))
                      /\ WF_vars(Scan(t) \/ Refuse(t) \/ Lend(t))

Spec == Init /\ [][Next]_vars

FairSpec == Spec /\ Fairness

-----------------------------------------------------------------------------
(* No key is lost: a key out of rotation has a recovery task that will     *)
(* revive it, or a caller about to spawn one (key_pool.rs:103-119),        *)
(* whatever reports, recoveries and admin calls overlap.                   *)
CoolingKeyWillRecover ==
  \A k \in Keys : ~ healthy[k] =>
    \/ recover[k] # << >>
    \/ \E t \in Tasks : pc[t] = "spawning" /\ held[t] = k

(* A key whose count has reached the threshold is out of rotation, save    *)
(* while report_failure is about to take it out or a recovery task is      *)
(* about to clear the count (key_pool.rs:101-103, 113-114).                *)
ThresholdTrips ==
  \A k \in Keys : healthy[k] /\ errors[k] = Threshold =>
    \/ resetting[k] > 0
    \/ \E t \in Tasks : pc[t] = "marking" /\ held[t] = k

(* The fallback after the loop (key_pool.rs:84-88) is dead code: the loop  *)
(* always finds a key, although the cursor may come from a larger total    *)
(* and the sum of the weights may wrap around.                             *)
LoopAlwaysFinds ==
  Usable(CandidateWeights) =>
    LoopFinds(CandidateWeights, Index(CandidateWeights, rr))

(* A key taken out of rotation comes back (key_pool.rs:111-114), even if   *)
(* no caller ever asks for one again.                                      *)
EventuallyRecovers == \A k \in Keys : ~ healthy[k] ~> healthy[k]
=============================================================================
