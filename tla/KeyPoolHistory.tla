-------------------------- MODULE KeyPoolHistory ----------------------------
(***************************************************************************)
(* KeyPool with history variables, for properties that compare a state of  *)
(* the pool with earlier ones: what was true throughout a scan, how long a *)
(* key has been cooling, and how often each key was lent in a window of    *)
(* RoundRobin.  The history variables constrain nothing.                   *)
(***************************************************************************)
EXTENDS KeyPool

CONSTANT MaxPicks   \* bound: acquisitions counted in one window

ASSUME MaxPicksAssumption == MaxPicks \in Nat

VARIABLES
  up,      \* keys pooled and healthy ever since the scan in progress began
  down,    \* keys out of rotation ever since the scan in progress began
  since,   \* since[k]: ticks k has been out of rotation, up to Cooldown
  lone,    \* lone[k]: no recovery task of k was asleep when k was tripped
  picks    \* picks[k]: times k was lent since the window opened

history == <<up, down, since, lone, picks>>
hvars   == <<vars, history>>

Scanning == \E t \in Tasks : pc[t] = "scan"

Up   == {k \in Members : healthy[k]}
Down == {k \in Members : ~ healthy[k]}

(* The pool with one acquisition as one step.                              *)
Rotation == INSTANCE RoundRobin

Tripped(k) == healthy[k] /\ ~ healthy'[k]

HInit ==
  /\ Init
  /\ up = {} /\ down = {}
  /\ since = [k \in Keys |-> 0]
  /\ lone = [k \in Keys |-> TRUE]
  /\ picks = [k \in Keys |-> 0]

ScanHistory ==
  /\ up'   = IF Scanning' THEN Up'   \cap (IF Scanning THEN up   ELSE Keys) ELSE {}
  /\ down' = IF Scanning' THEN Down' \cap (IF Scanning THEN down ELSE Keys) ELSE {}

Lends(t) == pc[t] = "scan" /\ pc'[t] = "using"

\* No flag was stored to, with effect, since the scan in progress began.
Undisturbed == Members \subseteq up \cup down

PickHistory ==
  LET none == [k \in Keys |-> 0] IN
  IF \E t \in Tasks : Lends(t)
  THEN \E t \in Tasks :
         /\ Lends(t)
         /\ picks' = IF Undisturbed /\ Rotation!Total(picks) < MaxPicks
                     THEN [picks EXCEPT ![held'[t]] = @ + 1] ELSE none
  ELSE picks' = IF UNCHANGED <<order, weight, healthy>> THEN picks ELSE none

HWork ==
  /\ Work
  /\ ScanHistory
  /\ PickHistory
  /\ since' = [k \in Keys |-> IF healthy'[k] \/ healthy[k] THEN 0 ELSE since[k]]
  /\ lone'  = [k \in Keys |-> CASE Tripped(k)   -> recover[k] = << >>
                                [] healthy'[k] -> TRUE
                                [] OTHER       -> lone[k]]

HTick ==
  /\ Tick
  /\ ScanHistory
  /\ since' = [k \in Keys |-> IF ~ healthy[k] /\ since[k] < Cooldown
                              THEN since[k] + 1 ELSE since[k]]
  /\ UNCHANGED <<lone, picks>>

HNext == HWork \/ HTick

HSpec == HInit /\ [][HNext]_hvars

(* Fairness is about the pool's own steps.                                 *)
HFairSpec == HSpec /\ Fairness

-----------------------------------------------------------------------------
ScanDone == Scanning /\ scanned = Len(order)

(* The filter of acquire_key (key_pool.rs:56-59) reads the flags one by    *)
(* one while other threads store to them: yet it never misses a key that   *)
(* stayed healthy, and never takes one that stayed out of rotation.        *)
SteadyKeysDecide ==
  ScanDone => up \subseteq ToSet(candidates) /\ down \cap ToSet(candidates) = {}

(* The pool keeps the rotation: an acquisition that no store to a flag     *)
(* overlapped is one step of the rotation, on the flags as they are, for   *)
(* all that is read under which lock (key_pool.rs:54-82).  One that was    *)
(* overlapped still leaves the cursor of an acquisition behind.            *)
KeepsRotation == Rotation!RRSpec

(* A recovery task revives the key it was spawned for no earlier than the  *)
(* cooldown after the key was tripped, provided no recovery task of an     *)
(* earlier trip was still asleep (key_pool.rs:111-114).                    *)
CooldownHonoured ==
  [][\A k \in Keys : RecoverHealthy(k) /\ ~ healthy[k] /\ lone[k]
                       => since[k] = Cooldown]_hvars

(* What the log line of key_pool.rs:107 says: a key that is taken out of   *)
(* rotation is revived after the whole cooldown.                           *)
CooldownFull ==
  [][\A k \in Keys : RecoverHealthy(k) /\ ~ healthy[k] => since[k] = Cooldown]_hvars
=============================================================================
