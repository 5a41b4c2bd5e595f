----------------------------- MODULE RoundRobin ------------------------------
(***************************************************************************)
(* The rotation of KeyPool::acquire_key with one acquisition as one step   *)
(* (the mutex "state" makes acquisitions sequential), for what a sequence  *)
(* of acquisitions owes each key.  KeyPool.tla has the same acquisition at *)
(* the grain of its locks.  Health changes are left open here.             *)
(*                                                                         *)
(* A window is a run of acquisitions during which neither the list, nor a  *)
(* weight, nor the health of a key changed; the cursor is inherited from   *)
(* the window before, whose total may have been larger.  KeyPoolHistory    *)
(* shows that the pool implements this.                                    *)
(***************************************************************************)
EXTENDS WeightedPick, FiniteSets, SequencesExt

CONSTANTS
  Keys,       \* downstream keys
  Weights,    \* the weights a key can be given, u32 values
  MaxPicks    \* bound: acquisitions in one window

ASSUME RoundRobinAssumption ==
  /\ IsFiniteSet(Keys)
  /\ Weights \subseteq 0 .. U32 - 1
  /\ MaxPicks \in Nat

VARIABLES
  order,    \* the Vec of pooled keys
  weight,   \* PooledKey::weight; 0 for a key that is not pooled
  healthy,  \* PooledKey::healthy
  rr,       \* PoolState::round_robin_index
  picks     \* picks[k]: increments of request_count since the window opened

rrvars == <<order, weight, healthy, rr, picks>>

Members    == ToSet(order)

Candidates == HealthyOf(order, healthy)

WeightsIn(c) == [i \in 1 .. Len(c) |-> weight[c[i]]]

CandidateWeights == WeightsIn(Candidates)

Total(f) == FoldFunctionOnSet(+, 0, f, Keys)

RRTypeOK ==
  /\ order \in Seq(Keys)
  /\ weight \in [Keys -> 0 .. U32 - 1]
  /\ healthy \in [Keys -> BOOLEAN]
  /\ rr \in 0 .. U32 - 1
  /\ picks \in [Keys -> 0 .. MaxPicks]

NewWindow == picks' = [k \in Keys |-> 0]

RRInit ==
  /\ order \in SetToAllKPermutations(Keys)
  /\ weight \in {[k \in Keys |-> IF k \in Members THEN w[k] ELSE 0] :
                   w \in [Keys -> Weights]}
  /\ healthy = [k \in Keys |-> TRUE]
  /\ rr = 0
  /\ picks = [k \in Keys |-> 0]

(* A whole successful acquire_key.  One that answers NoKeysAvailable       *)
(* changes nothing.                                                        *)
AcquireKey ==
  /\ Total(picks) < MaxPicks
  /\ Usable(CandidateWeights)
  /\ rr' = NextIndex(CandidateWeights, rr)
  /\ \E i \in 1 .. Len(Candidates) :
       /\ Picks(CandidateWeights, Index(CandidateWeights, rr), i)
       /\ picks' = [picks EXCEPT ![Candidates[i]] = @ + 1]
  /\ UNCHANGED <<order, weight, healthy>>

(* One during which flags were stored to: it has seen each as it was when  *)
(* its filter came by.  Or one that is not counted, for the bound.         *)
AcquireAmidStores(seen) ==
  LET c == HealthyOf(order, seen)
  IN  /\ NewWindow
      /\ UNCHANGED <<order, weight, healthy>>
      /\ Usable(WeightsIn(c))
      /\ rr' = NextIndex(WeightsIn(c), rr)

\* report_failure takes a key out of rotation, a recovery task puts it back.
FlipHealth(k) ==
  /\ k \in Members
  /\ healthy' = [healthy EXCEPT ![k] = ~ @]
  /\ NewWindow
  /\ UNCHANGED <<order, weight, rr>>

AddKey(k, w) ==
  /\ order' = IF k \in Members THEN order ELSE Append(order, k)
  /\ weight' = [weight EXCEPT ![k] = w]
  /\ healthy' = [healthy EXCEPT ![k] = TRUE]
  /\ NewWindow
  /\ UNCHANGED rr

RemoveKey(k) ==
  /\ \E i \in 1 .. Len(order) : order[i] = k /\ order' = RemoveAt(order, i)
  /\ weight' = [weight EXCEPT ![k] = 0]
  /\ healthy' = [healthy EXCEPT ![k] = TRUE]
  /\ NewWindow
  /\ UNCHANGED rr

RRNext ==
  \/ AcquireKey
  \/ \E seen \in [Keys -> BOOLEAN] : AcquireAmidStores(seen)
  \/ \E k \in Keys : \/ FlipHealth(k)
                     \/ RemoveKey(k)
                     \/ \E w \in Weights : AddKey(k, w)

RRSpec == RRInit /\ [][RRNext]_rrvars

-----------------------------------------------------------------------------
Lesser(a, b) == IF a < b THEN a ELSE b

CandidateWeight(k) == IF healthy[k] THEN weight[k] ELSE 0

(* What a reader expects of "weighted round robin" (README.md:13), and     *)
(* what acquire_key (key_pool.rs:65-82) gives as long as the weights do    *)
(* not overflow a u32: after n acquisitions of a window, n = q * W + r     *)
(* with W the total weight, a key of weight w has been picked q * w times  *)
(* plus at most r, and at most w, more; never fewer.                       *)
ExactShare ==
  LET W == Total([k \in Keys |-> CandidateWeight(k)])
      n == Total(picks)
  IN  W \in 1 .. U32 - 1 =>
        \A k \in Keys :
          LET w == CandidateWeight(k)
          IN  picks[k] \in (n \div W) * w .. (n \div W) * w + Lesser(n % W, w)
=============================================================================
