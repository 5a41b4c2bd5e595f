-------------------------- MODULE RateLimiterProofs --------------------------
(***************************************************************************)
(* Proofs about RateLimiter, for any clients and requests, any rate, burst *)
(* and clock.                                                              *)
(***************************************************************************)
EXTENDS RateLimiter, TLAPS

(* The arithmetic the proofs need of products, with the factor abstract.   *)
LEMMA Distributes ==
  ASSUME NEW r \in Nat, NEW a \in Int, NEW b \in Int
  PROVE  r * (a + b) = r * a + r * b
  OBVIOUS

LEMMA Monotone ==
  ASSUME NEW r \in Nat, NEW a \in Int, NEW b \in Int, a <= b
  PROVE  r * a <= r * b
<1>1. r * (b - a) >= 0 /\ r * (b - a) = r * b - r * a
  OBVIOUS
<1> QED
  BY <1>1

LEMMA Products ==
  /\ \A a \in Nat : Rate * a \in Nat
  /\ \A a \in Int : Rate * a \in Int /\ Unit * a \in Int
  /\ max_tokens \in Nat
  /\ Burst # 0 => Unit <= max_tokens
<1>1. /\ max_tokens = Unit * Burst
      /\ Burst # 0 => Unit * 1 <= Unit * Burst
  BY RateLimiterAssumption, Monotone DEF max_tokens
<1> QED
  BY <1>1, RateLimiterAssumption

LEMMA RefilledType ==
  ASSUME TypeOK, NEW c \in Clients, NEW at \in 0 .. MaxClock
  PROVE  Refilled(c, at) \in 0 .. max_tokens
<1>1. Elapsed(last[c], at) \in Nat
  BY RateLimiterAssumption DEF Elapsed, TypeOK
<1>2. Rate * Elapsed(last[c], at) \in Nat
  BY <1>1, Products
<1>3. tokens[c] \in 0 .. max_tokens
  BY DEF TypeOK
<1> HIDE DEF max_tokens
<1> QED
  BY <1>2, <1>3, Products DEF Refilled

(* A wait of retry_after is long enough for a token (rate_limiter.rs:44,   *)
(* middleware/rate_limit.rs:42).                                           *)
LEMMA RetryAfterEnough ==
  ASSUME NEW t \in Nat, t < Unit, Rate # 0
  PROVE  RetryAfter(t) \in Nat /\ Unit - t <= Rate * RetryAfter(t)
<1> DEFINE D == Rate * Second
           n == Unit - t + D - 1
           q == n \div D
<1>1. D \in Nat \ {0}
  BY RateLimiterAssumption
<1>2. n \in Nat
  BY <1>1, RateLimiterAssumption
<1>3. q \in Nat /\ n < D * (q + 1)
  <2> HIDE DEF D, n
  <2> QED
    BY <1>1, <1>2
<1>4. D * (q + 1) = D * q + D
  <2> HIDE DEF D, q
  <2> QED
    BY <1>1, <1>3
<1>5. Unit - t <= D * q
  <2>1. Unit - t + D - 1 < D * q + D
    BY <1>3, <1>4
  <2>2. D * q \in Int
    BY <1>1, <1>3
  <2> HIDE DEF D, q, n
  <2> QED
    BY <2>1, <2>2, <1>1, RateLimiterAssumption
<1>6. RetryAfter(t) = Second * q
  <2>1. Unit - t + Rate * Second - 1 = n
    OBVIOUS
  <2> QED
    BY <2>1 DEF RetryAfter
<1>7. Rate * (Second * q) = D * q
  <2> HIDE DEF q, n
  <2> QED
    BY <1>3, RateLimiterAssumption
<1>8. Second * q \in Nat
  <2> HIDE DEF q, n, D
  <2> QED
    BY <1>3, RateLimiterAssumption
<1> HIDE DEF D, n, q
<1> QED
  BY <1>5, <1>6, <1>7, <1>8

-----------------------------------------------------------------------------
LEMMA TypeInit == Init => TypeOK
<1> HIDE DEF max_tokens
<1> QED
  BY RateLimiterAssumption, Products DEF Init, TypeOK

(* What a request does to the bucket it has locked.                        *)
LEMMA Stamped ==
  ASSUME TypeOK, NEW r \in Tasks, Admit(r) \/ Reject(r)
  PROVE  LET c == asking[r]
         IN  /\ c \in Clients /\ now[r] \in 0 .. MaxClock
             /\ buckets' = buckets \cup {c}
             /\ last' = [last EXCEPT ![c] = now[r]]
             /\ Noted(c, now[r])
             /\ Done(r) /\ clock' = clock
  BY DEF Admit, Reject, Leaves, Restamped, TypeOK

LEMMA TypeNext == TypeOK /\ [Next]_vars => TypeOK'
<1> SUFFICES ASSUME TypeOK, [Next]_vars PROVE TypeOK'
  OBVIOUS
<1> USE DEF bucket, history
<1> HIDE DEF max_tokens
<1>1. ASSUME NEW r \in Tasks, NEW c \in Clients, Ask(r, c) PROVE TypeOK'
  BY <1>1 DEF Ask, TypeOK
<1>2. ASSUME NEW r \in Tasks, Admit(r) \/ Reject(r) PROVE TypeOK'
  <2> DEFINE c == asking[r]
             t == Refilled(c, now[r])
  <2>1. c \in Clients /\ now[r] \in 0 .. MaxClock
    BY <1>2, Stamped
  <2>2. /\ buckets' \subseteq Clients /\ last' \in [Clients -> 0 .. MaxClock]
        /\ asking' \in [Tasks -> Clients \cup {NoClient}]
        /\ now' \in [Tasks -> 0 .. MaxClock] /\ clock' \in 0 .. MaxClock
    BY <1>2, <2>1, Stamped, RateLimiterAssumption DEF TypeOK, Done
  <2>3. start' \in [Clients -> 0 .. MaxClock] /\ rewound' \in [Clients -> Nat]
    <3>1. Noted(c, now[r])
      BY <1>2, Stamped
    <3>2. Elapsed(now[r], last[c]) \in Nat
      BY <2>1, RateLimiterAssumption DEF TypeOK, Elapsed
    <3> QED
      BY <2>1, <3>1, <3>2 DEF Noted, TypeOK
  <2>4. t \in 0 .. max_tokens
    BY <2>1, RefilledType
  <2> HIDE DEF c, t
  <2>5. /\ tokens' \in [Clients -> 0 .. max_tokens]
        /\ admitted' \in [Clients -> Nat]
        /\ promise' \in [Clients -> Nat \cup {-1}]
    <3>1. CASE Admit(r)
      <4>1. /\ tokens' = [tokens EXCEPT ![c] = t - Unit] /\ t >= Unit
            /\ admitted' = [admitted EXCEPT ![c] = @ + 1]
            /\ promise' = [promise EXCEPT ![c] = -1]
        BY <3>1 DEF Admit, Leaves, c, t
      <4>2. t - Unit \in 0 .. max_tokens
        BY <4>1, <2>4, Products, RateLimiterAssumption
      <4> QED
        BY <4>1, <4>2, <2>1 DEF TypeOK
    <3>2. CASE Reject(r)
      <4>1. /\ tokens' = [tokens EXCEPT ![c] = t] /\ t < Unit
            /\ admitted' = admitted
            /\ promise' = [promise EXCEPT ![c] = Promising(@, now[r], t)]
        BY <3>2 DEF Reject, Leaves, c, t
      <4>2. Rate # 0 => RetryAfter(t) \in Nat
        BY <4>1, <2>4, RetryAfterEnough, Products
      <4>3. Promising(promise[c], now[r], t) \in Nat \cup {-1}
        BY <4>2, <2>1, RateLimiterAssumption DEF Promising, TypeOK, c
      <4> QED
        BY <4>1, <4>3, <2>4 DEF TypeOK
    <3> QED
      BY <1>2, <3>1, <3>2
  <2> QED
    BY <2>2, <2>3, <2>5 DEF TypeOK
<1>3. CASE Tick
  BY <1>3, RateLimiterAssumption DEF Tick, TypeOK
<1>4. CASE UNCHANGED vars
  BY <1>4 DEF vars, TypeOK
<1> QED
  BY <1>1, <1>2, <1>3, <1>4 DEF Next

(* Every variable of RateLimiter keeps its type; in particular a bucket    *)
(* never holds more than the burst, nor less than nothing.                 *)
THEOREM TypeCorrect == Spec => []TypeOK
  BY TypeInit, TypeNext, PTL DEF Spec
-----------------------------------------------------------------------------
(* The account of a bucket: what it was ever given covers what it gave and *)
(* what it holds.                                                          *)
Span(c) == (last[c] - start[c]) + rewound[c]

Accounted ==
  \A c \in Clients :
    /\ c \notin buckets => admitted[c] = 0 /\ rewound[c] = 0
    /\ c \in buckets => /\ start[c] <= last[c]
                        /\ Unit * admitted[c] + tokens[c] <= max_tokens + Rate * Span(c)

(* A refill is paid for by the time between the two stamps, or, if the new *)
(* one is earlier, by the time set back.                                   *)
LEMMA SpanGrows ==
  ASSUME TypeOK, Accounted, NEW r \in Tasks, Admit(r) \/ Reject(r),
         NEW c \in Clients, c = asking[r], NEW at \in 0 .. MaxClock, at = now[r]
  PROVE  /\ c \in buckets =>
              Rate * Span(c)' >= Rate * Span(c) + Rate * Elapsed(last[c], at)
         /\ c \notin buckets => Span(c)' = 0 /\ rewound'[c] = 0
         /\ start'[c] <= last'[c]
<1>1. /\ at \in Nat /\ last[c] \in Nat /\ start[c] \in Nat /\ rewound[c] \in Nat
  BY RateLimiterAssumption DEF TypeOK
<1>2. /\ last'[c] = at
      /\ start'[c] = IF c \in buckets /\ start[c] < at THEN start[c] ELSE at
      /\ rewound'[c] = IF c \in buckets THEN rewound[c] + Elapsed(at, last[c])
                                        ELSE rewound[c]
  BY Stamped DEF Noted, TypeOK
<1>3. c \notin buckets => rewound'[c] = 0 /\ Span(c)' = 0
  BY <1>1, <1>2 DEF Accounted, Span
<1>4. start'[c] <= last'[c]
  BY <1>1, <1>2
<1>5. ASSUME c \in buckets
      PROVE  Rate * Span(c)' >= Rate * Span(c) + Rate * Elapsed(last[c], at)
  <2>1. start[c] <= last[c]
    BY <1>5 DEF Accounted
  <2>2. Span(c) + Elapsed(last[c], at) <= Span(c)'
    BY <1>1, <1>2, <1>5, <2>1 DEF Span, Elapsed
  <2>3. /\ Span(c) \in Int /\ Elapsed(last[c], at) \in Int /\ Span(c)' \in Int
    BY <1>1, <1>2, <1>5 DEF Span, Elapsed
  <2>4. Rate * (Span(c) + Elapsed(last[c], at))
          = Rate * Span(c) + Rate * Elapsed(last[c], at)
    BY <2>3, Distributes, RateLimiterAssumption
  <2>5. Rate * (Span(c) + Elapsed(last[c], at)) <= Rate * Span(c)'
    <3> HIDE DEF Span, Elapsed
    <3>1. Span(c) + Elapsed(last[c], at) \in Int
      BY <2>3
    <3> QED
      BY <2>2, <2>3, <3>1, Monotone, RateLimiterAssumption
  <2> QED
    BY <2>4, <2>5
<1> QED
  BY <1>3, <1>4, <1>5

LEMMA AccountedNext == TypeOK /\ Accounted /\ [Next]_vars => Accounted'
<1> SUFFICES ASSUME TypeOK, Accounted, [Next]_vars PROVE Accounted'
  OBVIOUS
<1> USE DEF bucket, history
<1> HIDE DEF max_tokens
<1>1. ASSUME NEW r \in Tasks, Admit(r) \/ Reject(r) PROVE Accounted'
  <2>1. PICK c \in Clients : c = asking[r]
    BY <1>1, Stamped
  <2>2. PICK at \in 0 .. MaxClock : at = now[r]
    BY <1>1, Stamped
  <2>3. buckets' = buckets \cup {c}
    BY <1>1, <2>1, Stamped
  <2>4. ASSUME NEW d \in Clients \ {c}
        PROVE  /\ last'[d] = last[d] /\ start'[d] = start[d] /\ rewound'[d] = rewound[d]
               /\ tokens'[d] = tokens[d] /\ admitted'[d] = admitted[d]
               /\ d \in buckets' <=> d \in buckets
    <3>1. last' = [last EXCEPT ![c] = now[r]] /\ Noted(c, now[r])
      BY <1>1, <2>1, Stamped
    <3>2. /\ last'[d] = last[d] /\ start'[d] = start[d] /\ rewound'[d] = rewound[d]
      BY <3>1 DEF Noted, TypeOK
    <3>3. tokens'[d] = tokens[d] /\ admitted'[d] = admitted[d]
      BY <1>1, <2>1 DEF Admit, Reject, Leaves, TypeOK
    <3> QED
      BY <2>3, <3>2, <3>3
  <2>5. Unit * admitted'[c] + tokens'[c] <= max_tokens + Rate * Span(c)'
    <3> DEFINE t == Refilled(c, at)
    <3>1. Unit * admitted'[c] + tokens'[c] = Unit * admitted[c] + t
      <4>1. admitted[c] \in Nat /\ Unit \in Nat /\ t \in Int
        BY RefilledType, Products, RateLimiterAssumption DEF TypeOK
      <4>2. CASE Admit(r)
        <5>1. admitted'[c] = admitted[c] + 1 /\ tokens'[c] = t - Unit
          BY <4>2, <2>1, <2>2 DEF Admit, Leaves, TypeOK
        <5>2. Unit * (admitted[c] + 1) = Unit * admitted[c] + Unit * 1
          BY <4>1, Distributes
        <5>3. Unit * admitted[c] \in Int /\ Unit * 1 = Unit
          BY <4>1
        <5> HIDE DEF t
        <5> QED
          BY <4>1, <5>1, <5>2, <5>3
      <4>3. CASE Reject(r)
        BY <4>3, <2>1, <2>2 DEF Reject, Leaves, TypeOK
      <4> QED
        BY <1>1, <4>2, <4>3
    <3>2. CASE c \notin buckets
      <4>1. t = max_tokens /\ admitted[c] = 0
        BY <3>2 DEF Refilled, Accounted
      <4>2. Span(c)' = 0
        BY <1>1, <2>1, <2>2, <3>2, SpanGrows
      <4>3. Rate * 0 = 0 /\ Unit * 0 = 0
        BY RateLimiterAssumption
      <4> QED
        BY <3>1, <4>1, <4>2, <4>3, Products
    <3>3. CASE c \in buckets
      <4>1. Unit * admitted[c] + tokens[c] <= max_tokens + Rate * Span(c)
        BY <3>3 DEF Accounted
      <4>2. Rate * Span(c)' >= Rate * Span(c) + Rate * Elapsed(last[c], at)
        BY <1>1, <2>1, <2>2, <3>3, SpanGrows
      <4>3. t <= tokens[c] + Rate * Elapsed(last[c], at)
        <5>1. tokens[c] \in Nat /\ Rate * Elapsed(last[c], at) \in Int
          BY Products, RateLimiterAssumption DEF TypeOK, Elapsed
        <5> QED
          BY <3>3, <5>1, Products DEF Refilled
      <4>4. /\ Rate * Span(c) \in Int /\ Rate * Span(c)' \in Int
            /\ Rate * Elapsed(last[c], at) \in Int /\ Unit * admitted[c] \in Int
            /\ tokens[c] \in Int /\ t \in Int
        <5>1. Span(c) \in Int /\ Elapsed(last[c], at) \in Int /\ admitted[c] \in Int
          BY RateLimiterAssumption DEF TypeOK, Span, Elapsed
        <5>2. Span(c)' \in Int
          BY TypeNext, RateLimiterAssumption DEF TypeOK, Span
        <5>3. tokens[c] \in Int /\ t \in Int
          BY RefilledType, Products DEF TypeOK
        <5> QED
          BY <5>1, <5>2, <5>3, Products
      <4> HIDE DEF t
      <4> QED
        BY <3>1, <4>1, <4>2, <4>3, <4>4, Products
    <3> QED
      BY <3>2, <3>3
  <2>6. start'[c] <= last'[c]
    BY <1>1, <2>1, <2>2, SpanGrows
  <2> QED
    BY <2>3, <2>4, <2>5, <2>6 DEF Accounted, Span
<1>2. ASSUME UNCHANGED <<buckets, tokens, last, start, rewound, admitted>>
      PROVE  Accounted'
  BY <1>2 DEF Accounted, Span
<1>3. ASSUME NEW r \in Tasks, NEW c \in Clients, Ask(r, c) PROVE Accounted'
  BY <1>2, <1>3 DEF Ask
<1>4. CASE Tick \/ UNCHANGED vars
  BY <1>2, <1>4 DEF Tick, vars
<1> QED
  BY <1>1, <1>3, <1>4 DEF Next

LEMMA AccountedInit == Init => Accounted
  BY DEF Init, Accounted

(* However requests overtake each other, a bucket gives no more than the   *)
(* burst, the refill of the time since the first request, and that of the  *)
(* time set back (rate_limiter.rs:36-41).                                  *)
THEOREM BucketsBalance == Spec => []AdmissionsAccounted
<1>1. TypeOK /\ Accounted => AdmissionsAccounted
  BY DEF TypeOK, Accounted, Span, AdmissionsAccounted
<1> QED
  BY <1>1, TypeInit, TypeNext, AccountedInit, AccountedNext, PTL DEF Spec
-----------------------------------------------------------------------------
(* What a promise rests on: the bucket will hold a token by then, from     *)
(* what it holds and the refill until then.                                *)
Promised ==
  \A c \in Clients :
    promise[c] # -1 => /\ c \in buckets
                       /\ Unit <= tokens[c] + Rate * Elapsed(last[c], promise[c])

LEMMA ElapsedFacts ==
  ASSUME NEW a \in Nat, NEW b \in Nat, NEW d \in Nat
  PROVE  /\ Elapsed(a, b) \in Nat
         /\ Elapsed(a, d) <= Elapsed(a, b) + Elapsed(b, d)
         /\ d <= b => Elapsed(a, d) <= Elapsed(a, b)
         /\ Elapsed(a, a + b) = b
  BY DEF Elapsed

LEMMA ClockReadings ==
  ASSUME TypeOK, NEW c \in Clients, NEW at \in 0 .. MaxClock
  PROVE  /\ at \in Nat /\ last[c] \in Nat /\ tokens[c] \in Nat
         /\ promise[c] # -1 => promise[c] \in Nat
  BY RateLimiterAssumption, Products DEF TypeOK

(* A bucket that is short of a token has not reached its cap, unless the   *)
(* cap is nothing.                                                         *)
LEMMA ShortOfAToken ==
  ASSUME TypeOK, NEW c \in buckets, NEW at \in 0 .. MaxClock,
         Burst # 0, Refilled(c, at) < Unit
  PROVE  Refilled(c, at) = tokens[c] + Rate * Elapsed(last[c], at)
<1>1. c \in Clients
  BY DEF TypeOK
<1>2. Rate * Elapsed(last[c], at) \in Nat
  BY <1>1, ClockReadings, ElapsedFacts, Products
<1> HIDE DEF max_tokens
<1> QED
  BY <1>1, <1>2, ClockReadings, Products, RateLimiterAssumption DEF Refilled

LEMMA PromisedNext == Burst # 0 /\ TypeOK /\ Promised /\ [Next]_vars => Promised'
<1> SUFFICES ASSUME Burst # 0, TypeOK, Promised, [Next]_vars PROVE Promised'
  OBVIOUS
<1> USE DEF bucket, history
<1> HIDE DEF max_tokens
<1>1. ASSUME NEW r \in Tasks, Admit(r) \/ Reject(r) PROVE Promised'
  <2>1. PICK c \in Clients : c = asking[r]
    BY <1>1, Stamped
  <2>2. PICK at \in 0 .. MaxClock : at = now[r]
    BY <1>1, Stamped
  <2>3. buckets' = buckets \cup {c} /\ last' = [last EXCEPT ![c] = at]
    BY <1>1, <2>1, <2>2, Stamped
  <2>4. ASSUME NEW d \in Clients \ {c}
        PROVE  /\ last'[d] = last[d] /\ tokens'[d] = tokens[d]
               /\ promise'[d] = promise[d]
    BY <1>1, <2>1, <2>3 DEF Admit, Reject, Leaves, TypeOK
  <2>5. last'[c] = at
    BY <2>3 DEF TypeOK
  <2>6. CASE Admit(r)
    <3>1. promise'[c] = -1
      BY <2>6, <2>1 DEF Admit, TypeOK
    <3> QED
      BY <2>3, <2>4, <3>1 DEF Promised, Elapsed
  <2>7. CASE Reject(r)
    <3>1. PICK t \in 0 .. max_tokens : t = Refilled(c, at)
      BY RefilledType
    <3>2. /\ t < Unit /\ tokens'[c] = t
          /\ promise'[c] = Promising(promise[c], at, t)
      BY <2>7, <2>1, <2>2, <3>1 DEF Reject, Leaves, TypeOK
    <3>3. t \in Nat
      BY <3>1, Products
    <3>4. Rate # 0 => RetryAfter(t) \in Nat /\ Unit - t <= Rate * RetryAfter(t)
      BY <3>2, <3>3, RetryAfterEnough
    <3>5. CASE Rate # 0 /\ promise'[c] = at + RetryAfter(t)
      <4>1. Elapsed(at, promise'[c]) = RetryAfter(t)
        BY <3>4, <3>5, ElapsedFacts, ClockReadings
      <4>2. Unit <= tokens'[c] + Rate * Elapsed(last'[c], promise'[c])
        BY <4>1, <2>5, <3>2, <3>3, <3>4, <3>5, Products, RateLimiterAssumption
      <4> QED
        BY <4>2, <2>3, <2>4 DEF Promised, Elapsed
    <3>6. CASE promise[c] # -1 /\ promise'[c] = promise[c]
      <4>1. PICK p \in Nat : p = promise[c]
        BY <3>6, ClockReadings
      <4>2. PICK l \in Nat : l = last[c]
        BY ClockReadings
      <4>3. c \in buckets /\ Unit <= tokens[c] + Rate * Elapsed(l, p)
        BY <3>6, <4>1, <4>2 DEF Promised
      <4>4. t = tokens[c] + Rate * Elapsed(l, at)
        BY <3>1, <3>2, <4>2, <4>3, ShortOfAToken
      <4>5. at \in Nat /\ tokens[c] \in Int
        BY ClockReadings
      <4>6. PICK lp \in Nat, la \in Nat, ap \in Nat :
               /\ lp = Elapsed(l, p) /\ la = Elapsed(l, at) /\ ap = Elapsed(at, p)
               /\ lp <= la + ap
        <5>1. Elapsed(l, p) \in Nat /\ Elapsed(l, at) \in Nat
          BY <4>5, ElapsedFacts
        <5>2. Elapsed(at, p) \in Nat /\ Elapsed(l, p) <= Elapsed(l, at) + Elapsed(at, p)
          BY <4>5, ElapsedFacts
        <5> QED
          BY <5>1, <5>2
      <4>7. Rate * lp <= Rate * la + Rate * ap
        <5>1. Rate * lp <= Rate * (la + ap)
          BY <4>6, Monotone, RateLimiterAssumption
        <5> QED
          BY <5>1, Distributes, RateLimiterAssumption
      <4>8. Rate * lp \in Int /\ Rate * la \in Int /\ Rate * ap \in Int
        BY Products
      <4>9. Unit <= tokens'[c] + Rate * Elapsed(last'[c], promise'[c])
        BY <4>1, <4>3, <4>4, <4>5, <4>6, <4>7, <4>8, <2>5, <3>2, <3>6,
           RateLimiterAssumption
      <4> QED
        BY <4>9, <4>3, <2>3, <2>4 DEF Promised, Elapsed
    <3>7. CASE promise'[c] = -1
      BY <2>3, <2>4, <3>7 DEF Promised, Elapsed
    <3> QED
      BY <3>2, <3>5, <3>6, <3>7 DEF Promising
  <2> QED
    BY <1>1, <2>6, <2>7
<1>2. ASSUME UNCHANGED <<buckets, tokens, last, promise>> PROVE Promised'
  BY <1>2 DEF Promised, Elapsed
<1>3. ASSUME NEW r \in Tasks, NEW c \in Clients, Ask(r, c) PROVE Promised'
  BY <1>2, <1>3 DEF Ask
<1>4. CASE Tick \/ UNCHANGED vars
  BY <1>2, <1>4 DEF Tick, vars
<1> QED
  BY <1>1, <1>3, <1>4 DEF Next

LEMMA PromiseKept ==
  ASSUME Burst # 0, TypeOK, Promised, NEW r \in Tasks, Reject(r),
         promise[asking[r]] # -1
  PROVE  now[r] < promise[asking[r]]
<1>1. PICK c \in Clients : c = asking[r]
  BY Stamped
<1>2. PICK at \in 0 .. MaxClock : at = now[r]
  BY Stamped
<1>3. PICK p \in Nat : p = promise[c]
  BY <1>1, ClockReadings
<1>4. PICK l \in Nat : l = last[c]
  BY ClockReadings
<1>5. c \in buckets /\ Unit <= tokens[c] + Rate * Elapsed(l, p)
  BY <1>1, <1>3, <1>4 DEF Promised
<1>6. tokens[c] + Rate * Elapsed(l, at) < Unit
  <2>1. Refilled(c, at) < Unit
    BY <1>1, <1>2 DEF Reject
  <2> QED
    BY <2>1, <1>4, <1>5, ShortOfAToken
<1>7. SUFFICES ASSUME p <= at PROVE FALSE
  BY <1>1, <1>2, <1>3, ClockReadings
<1>8. at \in Nat /\ tokens[c] \in Int
  BY ClockReadings
<1>9. PICK lp \in Nat, la \in Nat :
         lp = Elapsed(l, p) /\ la = Elapsed(l, at) /\ lp <= la
  BY <1>7, <1>8, ElapsedFacts
<1>10. Rate * lp <= Rate * la /\ Rate * lp \in Int /\ Rate * la \in Int
  BY <1>9, Monotone, Products, RateLimiterAssumption
<1> QED
  BY <1>5, <1>6, <1>8, <1>9, <1>10, RateLimiterAssumption

(* A client that waits as long as it was told to, and used no token since, *)
(* is not rejected again, however its requests overtake each other         *)
(* (rate_limiter.rs:44, middleware/rate_limit.rs:42); any burst but 0.     *)
THEOREM WaitsAreEnough == Spec => RetryAfterSuffices
<1> DEFINE Kept == Burst # 0 => Promised
<1>1. Init => Kept
  BY DEF Init, Promised
<1>2. TypeOK /\ Kept /\ [Next]_vars => Kept'
  BY PromisedNext
<1>3. TypeOK /\ Kept /\ [Next]_vars
        => [\A r \in Tasks : Burst # 0 /\ Reject(r) /\ promise[asking[r]] # -1
                               => now[r] < promise[asking[r]]]_vars
  BY PromiseKept
<1> QED
  BY <1>1, <1>2, <1>3, TypeInit, TypeNext, PTL DEF Spec, RetryAfterSuffices

(* The exception: with a burst of 0 nothing is ever let in, although every *)
(* rejection names a finite wait when the rate is positive                 *)
(* (rate_limiter.rs:36-45, config.rs:106-112).                             *)
THEOREM EmptyBucketsAdmitNobody ==
  Spec => [](Burst = 0 => \A c \in Clients : admitted[c] = 0)
<1> DEFINE Nobody == Burst = 0 => \A c \in Clients : admitted[c] = 0
<1>1. Init => Nobody
  BY DEF Init
<1>2. TypeOK /\ Nobody /\ [Next]_vars => Nobody'
  <2> SUFFICES ASSUME Burst = 0, TypeOK, Nobody, [Next]_vars PROVE Nobody'
    OBVIOUS
  <2>1. ASSUME NEW r \in Tasks, Admit(r) PROVE FALSE
    <3>1. max_tokens = 0
      BY RateLimiterAssumption DEF max_tokens
    <3>2. Refilled(asking[r], now[r]) \in 0 .. max_tokens
      BY <2>1, Stamped, RefilledType
    <3>3. Unit <= Refilled(asking[r], now[r])
      BY <2>1 DEF Admit
    <3> QED
      BY <3>1, <3>2, <3>3, RateLimiterAssumption
  <2>2. UNCHANGED admitted
    BY <2>1 DEF Next, Ask, Reject, Tick, vars, history
  <2> QED
    BY <2>2
<1> QED
  BY <1>1, <1>2, TypeInit, TypeNext, PTL DEF Spec
-----------------------------------------------------------------------------
NothingFromTheFuture ==
  /\ \A r \in Tasks : now[r] <= clock
  /\ \A c \in Clients : last[c] <= clock

LEMMA NothingFromTheFutureNext ==
  TypeOK /\ NothingFromTheFuture /\ [Next]_vars => NothingFromTheFuture'
<1> SUFFICES ASSUME TypeOK, NothingFromTheFuture, [Next]_vars
             PROVE  NothingFromTheFuture'
  OBVIOUS
<1> USE DEF bucket, history
<1>1. ASSUME NEW r \in Tasks, NEW c \in Clients, Ask(r, c)
      PROVE  NothingFromTheFuture'
  BY <1>1, RateLimiterAssumption DEF Ask, NothingFromTheFuture, TypeOK
<1>2. ASSUME NEW r \in Tasks, Admit(r) \/ Reject(r) PROVE NothingFromTheFuture'
  <2>1. PICK c \in Clients : c = asking[r]
    BY <1>2, Stamped
  <2>2. last' = [last EXCEPT ![c] = now[r]] /\ Done(r) /\ clock' = clock
    BY <1>2, <2>1, Stamped
  <2> QED
    BY <2>2, RateLimiterAssumption DEF Done, NothingFromTheFuture, TypeOK
<1>3. CASE Tick
  BY <1>3, RateLimiterAssumption DEF Tick, NothingFromTheFuture, TypeOK
<1>4. CASE UNCHANGED vars
  BY <1>4 DEF vars, NothingFromTheFuture
<1> QED
  BY <1>1, <1>2, <1>3, <1>4 DEF Next

(* Setting last_refill back is the only way past the rate: as long as it   *)
(* has happened to no bucket, the comments of rate_limiter.rs:7 and 35     *)
(* hold.                                                                   *)
THEOREM OnlySettingBackBeatsTheRate ==
  Spec => []((\A c \in Clients : rewound[c] = 0) => RateHonoured)
<1>1. Init => NothingFromTheFuture
  BY DEF Init, NothingFromTheFuture
<1>2. TypeOK /\ Accounted /\ NothingFromTheFuture
        => ((\A c \in Clients : rewound[c] = 0) => RateHonoured)
  <2> SUFFICES ASSUME TypeOK, Accounted, NothingFromTheFuture,
                      \A c \in Clients : rewound[c] = 0,
                      NEW c \in buckets
               PROVE  Unit * admitted[c] <= max_tokens + Rate * (clock - start[c])
    BY DEF RateHonoured
  <2> HIDE DEF max_tokens
  <2>1. c \in Clients
    BY DEF TypeOK
  <2>2. Unit * admitted[c] + tokens[c] <= max_tokens + Rate * (last[c] - start[c])
    <3>1. rewound[c] = 0 /\ last[c] - start[c] \in Int
      BY <2>1, RateLimiterAssumption DEF TypeOK
    <3> QED
      BY <2>1, <3>1 DEF Accounted, Span
  <2>3. PICK a \in Int, b \in Int :
           a = last[c] - start[c] /\ b = clock - start[c] /\ a <= b
    BY <2>1, RateLimiterAssumption DEF TypeOK, NothingFromTheFuture
  <2>4. Rate * a <= Rate * b /\ Rate * a \in Int /\ Rate * b \in Int
    BY <2>3, Monotone, Products, RateLimiterAssumption
  <2>5. tokens[c] \in Nat /\ Unit * admitted[c] \in Int
    <3>1. tokens[c] \in Nat /\ admitted[c] \in Int
      BY <2>1, Products DEF TypeOK
    <3> QED
      BY <3>1, Products
  <2> QED
    BY <2>2, <2>3, <2>4, <2>5, Products
<1> QED
  BY <1>1, <1>2, TypeInit, TypeNext, AccountedInit, AccountedNext,
     NothingFromTheFutureNext, PTL DEF Spec
=============================================================================
