----------------------------- MODULE RateLimiter -----------------------------
(***************************************************************************)
(* The token buckets of rate_limiter.rs and the middleware that asks them  *)
(* (middleware/rate_limit.rs).  "check" reads the clock before it locks    *)
(* the client's bucket: a request can be overtaken between the two, and    *)
(* then applies a time older than the bucket's last refill.                *)
(*                                                                         *)
(* The f64 amounts are scaled to integers, without the rounding of f64: a  *)
(* token is Unit, and Rate is what a bucket gains per tick.  Ticks are as  *)
(* fine as the model likes; a second is Second ticks.                      *)
(***************************************************************************)
EXTENDS Integers

CONSTANTS
  Clients,   \* client keys
  Tasks,     \* concurrent requests
  Unit,      \* one token
  Burst,     \* burst_size, in tokens; the configuration takes 0 as well
  Rate,      \* refill_rate, in 1/Unit tokens per tick
  Second,    \* ticks per second
  MaxClock,  \* bound: the last tick
  NoClient   \* no request under way

ASSUME RateLimiterAssumption ==
  /\ Unit \in Nat \ {0} /\ Burst \in Nat
  /\ Rate \in Nat /\ Second \in Nat \ {0}
  /\ MaxClock \in Nat
  /\ NoClient \notin Clients

VARIABLES
  clock,     \* Instant::now()
  buckets,   \* the clients that have a bucket
  tokens,    \* TokenBucket::tokens
  last,      \* TokenBucket::last_refill
  asking,    \* the client of each request that has read the clock
  now,       \* the time it has read
  start,     \* history: the earliest time a request of the client has read
  rewound,   \* history: by how much last_refill was ever set back
  admitted,  \* history: requests admitted
  promise    \* history: when a rejected client may count on a token, or -1

bucket  == <<buckets, tokens, last>>
history == <<start, rewound, admitted, promise>>
vars    == <<clock, bucket, asking, now, history>>

max_tokens == Burst * Unit

TypeOK ==
  /\ clock \in 0 .. MaxClock
  /\ buckets \subseteq Clients
  /\ tokens \in [Clients -> 0 .. max_tokens]
  /\ last \in [Clients -> 0 .. MaxClock]
  /\ asking \in [Tasks -> Clients \cup {NoClient}]
  /\ now \in [Tasks -> 0 .. MaxClock]
  /\ start \in [Clients -> 0 .. MaxClock]
  /\ rewound \in [Clients -> Nat]
  /\ admitted \in [Clients -> Nat]
  /\ promise \in [Clients -> Nat \cup {-1}]

Init ==
  /\ clock = 0
  /\ buckets = {}
  /\ tokens = [c \in Clients |-> max_tokens]
  /\ last = [c \in Clients |-> 0]
  /\ asking = [t \in Tasks |-> NoClient]
  /\ now = [t \in Tasks |-> 0]
  /\ start = [c \in Clients |-> 0]
  /\ rewound = [c \in Clients |-> 0]
  /\ admitted = [c \in Clients |-> 0]
  /\ promise = [c \in Clients |-> -1]

-----------------------------------------------------------------------------
(* Instant::duration_since is zero for an instant in the future.           *)
Elapsed(from, to) == IF to > from THEN to - from ELSE 0

\* Mutant: the refill is not capped.
RefilledUncapped(c, at) ==
  IF c \in buckets THEN tokens[c] + Rate * Elapsed(last[c], at) ELSE max_tokens

(* The bucket's content at a given time: a new bucket is full, an old one  *)
(* has been refilled since its last refill, up to the burst size.          *)
Refilled(c, at) ==
  IF c \in buckets
  THEN LET t == tokens[c] + Rate * Elapsed(last[c], at)
       IN  IF t < max_tokens THEN t ELSE max_tokens
  ELSE max_tokens

\* Mutant: the wait is rounded down.
RetryAfterRoundedDown(t) == Second * ((Unit - t) \div (Rate * Second))

(* retry_after, as the middleware sends it: rounded up to whole seconds;   *)
(* here in ticks, and for a positive rate only.                            *)
RetryAfter(t) ==
  Second * ((Unit - t + Rate * Second - 1) \div (Rate * Second))

Ask(r, c) ==
  /\ asking[r] = NoClient
  /\ asking' = [asking EXCEPT ![r] = c]
  /\ now' = [now EXCEPT ![r] = clock]
  /\ UNCHANGED <<clock, bucket, history>>

\* The request is answered; what it had read of the clock is gone.
Done(r) ==
  /\ asking' = [asking EXCEPT ![r] = NoClient]
  /\ now' = [now EXCEPT ![r] = 0]

Noted(c, at) ==
  /\ start'   = IF c \in buckets /\ start[c] < at THEN start
                                                   ELSE [start EXCEPT ![c] = at]
  /\ rewound' = IF c \in buckets THEN [rewound EXCEPT ![c] = @ + Elapsed(at, last[c])]
                                 ELSE rewound

\* Mutant: the bucket keeps the time of its first refill.
Unstamped(c, at) == last

Restamped(c, at) == [last EXCEPT ![c] = at]

\* check leaves the client's bucket, refilled at a time, with an amount.
Leaves(c, at, amount) ==
  /\ buckets' = buckets \cup {c}
  /\ tokens' = [tokens EXCEPT ![c] = amount]
  /\ last' = Restamped(c, at)
  /\ Noted(c, at)

Admit(r) ==
  /\ asking[r] # NoClient
  /\ LET c == asking[r]
         t == Refilled(c, now[r])
     IN  /\ t >= Unit
         /\ Leaves(c, now[r], t - Unit)
         /\ admitted' = [admitted EXCEPT ![c] = @ + 1]
         /\ promise' = [promise EXCEPT ![c] = -1]
  /\ Done(r)
  /\ UNCHANGED clock

(* The wait until a token is there; with a rate of zero the quotient is    *)
(* infinite, and nothing is promised.                                      *)
Promising(p, at, t) ==
  IF Rate = 0 \/ (p # -1 /\ p <= at + RetryAfter(t)) THEN p ELSE at + RetryAfter(t)

Reject(r) ==
  /\ asking[r] # NoClient
  /\ LET c == asking[r]
         t == Refilled(c, now[r])
     IN  /\ t < Unit
         /\ Leaves(c, now[r], t)
         /\ promise' = [promise EXCEPT ![c] = Promising(@, now[r], t)]
  /\ Done(r)
  /\ UNCHANGED <<clock, admitted>>

Tick ==
  /\ clock < MaxClock
  /\ clock' = clock + 1
  /\ UNCHANGED <<bucket, asking, now, history>>

Next ==
  \/ \E r \in Tasks : \/ \E c \in Clients : Ask(r, c)
                      \/ Admit(r) \/ Reject(r)
  \/ Tick

Spec == Init /\ [][Next]_vars

-----------------------------------------------------------------------------
(* What a bucket can ever give (rate_limiter.rs:36-41): the burst, and the *)
(* refill of the time since its first request -- plus the time by which    *)
(* overtaken requests have set back last_refill, which is refilled again.  *)
AdmissionsAccounted ==
  \A c \in buckets :
    Unit * admitted[c] + tokens[c]
      <= max_tokens + Rate * ((last[c] - start[c]) + rewound[c])

(* A client that was told to retry after some time, and used no token      *)
(* since, is not rejected after that time (rate_limiter.rs:44,             *)
(* middleware/rate_limit.rs:42), even if its requests overtake each other. *)
(* Not so with a burst_size of 0, which config.rs:106-112 accepts: such a  *)
(* bucket never holds a token, and every wait that is sent is a false one. *)
RetryAfterSuffices ==
  [][\A r \in Tasks : Burst # 0 /\ Reject(r) /\ promise[asking[r]] # -1
                        => now[r] < promise[asking[r]]]_vars

(* What the comments of rate_limiter.rs:7 and 35 say: the bucket gains     *)
(* refill_rate per second of elapsed time; no client gets more requests    *)
(* through than the burst and the time since its first one allow.          *)
RateHonoured ==
  \A c \in buckets :
    Unit * admitted[c] <= max_tokens + Rate * (clock - start[c])
=============================================================================
