------------------------------ MODULE RetryDelay ------------------------------
(***************************************************************************)
(* How long with_retry waits between its attempts (calculate_delay of      *)
(* retry.rs), with the integer arithmetic of the build: a release build    *)
(* wraps, a debug build panics.  The configured base is any value of its   *)
(* type, u64, of W bits here.  Forwarder has the rest of the loop.         *)
(***************************************************************************)
EXTENDS Integers

CONSTANTS
  W,           \* bits of a u64
  MaxAttempt   \* config.downstream.max_retries

ASSUME RetryDelayAssumption == W \in Nat \ {0} /\ MaxAttempt \in Nat

U64 == 0 .. 2 ^ W - 1

VARIABLES
  checked,  \* overflow-checks: the build panics instead of wrapping
  base,     \* config.downstream.retry_base_ms
  attempt,  \* the loop variable
  delay,    \* the delay drawn last
  slept,    \* history: milliseconds slept so far
  state     \* "calling", "sleeping", "done" or "panicked"

vars == <<checked, base, attempt, delay, slept, state>>

DTypeOK ==
  /\ checked \in BOOLEAN
  /\ base \in U64 /\ delay \in U64
  /\ attempt \in 0 .. MaxAttempt
  /\ slept \in Nat
  /\ state \in {"calling", "sleeping", "done", "panicked"}

Init ==
  /\ checked \in BOOLEAN
  /\ base \in U64
  /\ attempt = 0 /\ delay = 0 /\ slept = 0
  /\ state = "calling"

-----------------------------------------------------------------------------
\* Mutant: arithmetic without a width.
Unbounded(n) == n

Wrap(n) == n % 2 ^ W

Pow(a) == 2 ^ a

\* Mutant: half of the delay is random.
JitterHalf(e) == e \div 2

Jitter(e) == e \div 4

\* Mutant: the first delay is already doubled.
ExponentialFromOne(a) == Wrap(base * Wrap(Pow(a + 1)))

Exponential(a) == Wrap(base * Wrap(Pow(a)))

Low(a)  == Exponential(a) - Jitter(Exponential(a))
High(a) == Wrap(Exponential(a) + Jitter(Exponential(a)))

(* The power, the product or the sum leaves the type.                      *)
Overflows(a) ==
  \/ Pow(a) \notin U64
  \/ base * Pow(a) \notin U64
  \/ base * Pow(a) + Jitter(base * Pow(a)) \notin U64

(* gen_range panics on an empty range, in any build.                       *)
Panics(a) == (checked /\ Overflows(a)) \/ Low(a) > High(a)

\* The delay is drawn after the last attempt too, but not slept.
Fail ==
  /\ state = "calling"
  /\ ~ Panics(attempt)
  /\ delay' \in Low(attempt) .. High(attempt)
  /\ state' = IF attempt < MaxAttempt THEN "sleeping" ELSE "done"
  /\ UNCHANGED <<checked, base, attempt, slept>>

Panic ==
  /\ state = "calling"
  /\ Panics(attempt)
  /\ state' = "panicked"
  /\ UNCHANGED <<checked, base, attempt, delay, slept>>

Sleep ==
  /\ state = "sleeping"
  /\ slept' = slept + delay
  /\ attempt' = attempt + 1
  /\ state' = "calling"
  /\ UNCHANGED <<checked, base, delay>>

Succeed ==
  /\ state = "calling"
  /\ state' = "done"
  /\ UNCHANGED <<checked, base, attempt, delay, slept>>

Next == Fail \/ Panic \/ Sleep \/ Succeed

Spec == Init /\ [][Next]_vars

-----------------------------------------------------------------------------
(* The jitter never undoes the back-off: no delay is shorter than the one  *)
(* before it (retry.rs:74-79), short of an overflow.                       *)
BacksOff == [][Fail /\ ~ Overflows(attempt) => delay' >= delay]_vars

(* All the waiting of a request is at most five quarters of the geometric  *)
(* series, overflow or not: the sleeps cannot keep a handler longer.       *)
WaitBounded == 4 * slept <= 5 * base * (Pow(attempt) - 1)

(* An overflow, with its panic or its wrapped delay, is out of reach: a    *)
(* request has slept for half the range of a u64 before it comes to one    *)
(* (retry.rs:75-78), less what a single base is worth.  A base of zero,    *)
(* which only the power can overflow, is the exception.                    *)
OverflowIsAgesAway ==
  state = "panicked" \/ Overflows(attempt)
    => base = 0 \/ 2 * (slept + base) >= 2 ^ W
=============================================================================
