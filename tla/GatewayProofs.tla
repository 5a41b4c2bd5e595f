---------------------------- MODULE GatewayProofs ----------------------------
(***************************************************************************)
(* Proofs about Gateway, for any clients, concurrent requests, rate and    *)
(* number of retries: only issued keys reach the limiter, its tokens bound *)
(* what a client makes the downstream servers do, and a revoked client     *)
(* stops.                                                                  *)
(***************************************************************************)
EXTENDS Gateway, RateLimiterProofs, FiniteSetTheorems

\* Steps that are none of the limiter's, and those that are none of the exchange's.
LimiterIdle ==
  \/ \E t \in Tasks : \/ Unauthorized(t) \/ ReadRequest(t) \/ BeginExchange(t)
                      \/ Handle(t) \/ Respond(t) \/ SendResponse(t)
                      \/ Stall(t) \/ Disconnect(t)
  \/ \E c \in Clients : IssueKey(c) \/ RevokeKey(c)
  \/ CallAdmin \/ EndAdmin \/ Signal \/ Exit

LEMMA LimiterIdles == LimiterIdle => UNCHANGED limiter
  BY DEF LimiterIdle, Unauthorized, ReadRequest, BeginExchange, Handle, Respond,
         SendResponse, Stall, Disconnect, IssueKey, RevokeKey, CallAdmin, EndAdmin,
         Signal, Exit

LEMMA LimiterStep == [GNext]_gvars => [Next]_limiter
<1> SUFFICES ASSUME [GNext]_gvars PROVE [Next]_limiter
  OBVIOUS
<1>1. CASE LimiterIdle
  BY <1>1, LimiterIdles
<1>2. ASSUME NEW t \in Tasks, NEW c \in Clients, Authenticate(t, c) PROVE Next
  BY <1>2 DEF Authenticate, Next
<1>3. ASSUME NEW t \in Tasks, LetIn(t) \/ TurnAway(t) PROVE Next
  BY <1>3 DEF LetIn, TurnAway, Next
<1>4. CASE GTick
  BY <1>4 DEF GTick, Next
<1>5. CASE UNCHANGED gvars
  BY <1>5 DEF gvars
<1> QED
  BY <1>1, <1>2, <1>3, <1>4, <1>5 DEF GNext, Serve, LimiterIdle

(* By construction the gateway asks the limiter as RateLimiter has it      *)
(* asked, so what is proved of the limiter can be used here.               *)
LEMMA LimiterInside == GSpec => Spec
<1>1. GInit => Init
  BY DEF GInit
<1> QED
  BY <1>1, LimiterStep, PTL DEF GSpec, Spec, limiter

(* What is proved of the buckets holds behind the authentication: however  *)
(* requests overtake each other between the two layers, a bucket gives no  *)
(* more than burst, refill and the time set back (rate_limiter.rs:36-41).  *)
THEOREM BucketsBalanceInside == GSpec => []AdmissionsAccounted
  BY LimiterInside, BucketsBalance
-----------------------------------------------------------------------------
(* The layers are in the order of router.rs: what the limiter is asked for *)
(* has been accepted.                                                      *)
IssuedOnly ==
  /\ keys \subseteq issued /\ buckets \subseteq issued
  /\ \A t \in Tasks : asking[t] # NoClient => asking[t] \in issued

LEMMA IssuedOnlyNext == TypeOK /\ IssuedOnly /\ [GNext]_gvars => IssuedOnly'
<1> SUFFICES ASSUME TypeOK, IssuedOnly, [GNext]_gvars PROVE IssuedOnly'
  OBVIOUS
<1>1. ASSUME NEW t \in Tasks, NEW c \in Clients, Authenticate(t, c)
      PROVE  IssuedOnly'
  <2>1. c \in issued /\ asking' = [asking EXCEPT ![t] = c]
    BY <1>1 DEF Authenticate, Accepted, Ask, IssuedOnly
  <2> QED
    BY <1>1, <2>1 DEF Authenticate, Ask, bucket, process, ghosts, IssuedOnly, TypeOK
<1>2. ASSUME NEW t \in Tasks, LetIn(t) \/ TurnAway(t) PROVE IssuedOnly'
  <2>1. /\ buckets' = buckets \cup {asking[t]}
        /\ asking[t] # NoClient
        /\ asking' = [asking EXCEPT ![t] = NoClient]
    BY <1>2 DEF LetIn, TurnAway, Admit, Reject, Leaves, Done
  <2>2. UNCHANGED <<keys, issued>>
    BY <1>2 DEF LetIn, TurnAway, process, ghosts
  <2> QED
    BY <2>1, <2>2 DEF IssuedOnly, TypeOK
<1>3. ASSUME NEW c \in Clients, IssueKey(c) \/ RevokeKey(c) PROVE IssuedOnly'
  BY <1>3 DEF IssueKey, RevokeKey, limiter, vars, bucket, IssuedOnly
<1>4. ASSUME UNCHANGED <<keys, issued, buckets, asking>> PROVE IssuedOnly'
  BY <1>4 DEF IssuedOnly
<1>5. ASSUME NEW t \in Tasks,
             \/ Unauthorized(t) \/ ReadRequest(t) \/ BeginExchange(t) \/ Handle(t)
             \/ Respond(t) \/ SendResponse(t) \/ Stall(t) \/ Disconnect(t)
      PROVE  UNCHANGED <<keys, issued, buckets, asking>>
  BY <1>5 DEF Unauthorized, ReadRequest, BeginExchange, Handle, Respond, SendResponse,
              Stall, Disconnect, limiter, vars, bucket, process, ghosts
<1>6. ASSUME CallAdmin \/ EndAdmin \/ Signal \/ Exit \/ GTick \/ UNCHANGED gvars
      PROVE  UNCHANGED <<keys, issued, buckets, asking>>
  BY <1>6 DEF CallAdmin, EndAdmin, Signal, Exit, GTick, Tick, gvars, limiter, vars, bucket,
              process, ghosts
<1> QED
  BY <1>1, <1>2, <1>3, <1>4, <1>5, <1>6 DEF GNext, Serve

(* A bucket belongs to a key that was issued: the map that nothing empties *)
(* (rate_limiter.rs:49) grows no further than the keys ever issued.        *)
THEOREM IssuedKeysOnly == GSpec => []OnlyIssuedKeysHaveBuckets
<1>1. GInit => TypeOK /\ IssuedOnly
  BY TypeInit DEF GInit, Init, IssuedOnly
<1>2. TypeOK /\ [GNext]_gvars => TypeOK'
  BY LimiterStep, TypeNext DEF limiter
<1>3. IssuedOnly => OnlyIssuedKeysHaveBuckets
  BY DEF IssuedOnly, OnlyIssuedKeysHaveBuckets
<1> QED
  BY <1>1, <1>2, <1>3, IssuedOnlyNext, PTL DEF GSpec
-----------------------------------------------------------------------------
(* The couplings of GTypeOK: how far a request has come says whether the   *)
(* limiter and the exchange are busy with it.                              *)
Placed ==
  /\ place \in [Tasks -> {"idle", "asking", "reading", "handling", "sending"}]
  /\ phase \in [Tasks -> {"idle", "pending", "calling", "replied"}]
  /\ client \in [Tasks -> Clients \cup {NoClient}]
  /\ stalled \in [Tasks -> BOOLEAN]
  /\ \A t \in Tasks : /\ place[t] = "handling" <=> phase[t] # "idle"
                      /\ place[t] = "asking" <=> asking[t] # NoClient
                      /\ place[t] \in {"asking", "reading", "handling"} => client[t] # NoClient

Counted ==
  /\ keys \subseteq issued /\ issued \subseteq Clients
  /\ server \in {"serving", "draining", "exited"}
  /\ admins \in 0 .. MaxAdmins
  /\ exchanges \in [Clients -> Nat]
  /\ allowance \in [Clients -> Int]

LEMMA PlacedNext == TypeOK /\ Placed /\ [GNext]_gvars => Placed'
<1> SUFFICES ASSUME TypeOK, Placed, [GNext]_gvars PROVE Placed'
  OBVIOUS
<1> USE RateLimiterAssumption
        DEF limiter, vars, exchange, request, bucket, Placed, Go, Exchange!Move
<1>1. ASSUME NEW t \in Tasks, NEW c \in Clients, Authenticate(t, c) PROVE Placed'
  BY <1>1 DEF Authenticate, Ask, TypeOK
<1>2. ASSUME NEW t \in Tasks, LetIn(t) \/ TurnAway(t) PROVE Placed'
  BY <1>2 DEF LetIn, TurnAway, Admit, Reject, Done, TypeOK
<1>3. ASSUME NEW t \in Tasks, Unauthorized(t) \/ Stall(t) PROVE Placed'
  BY <1>3 DEF Unauthorized, Stall
<1>4. ASSUME NEW t \in Tasks, ReadRequest(t) PROVE Placed'
  BY <1>4 DEF ReadRequest, Exchange!Request
<1>5. ASSUME NEW t \in Tasks, BeginExchange(t) PROVE Placed'
  BY <1>5 DEF BeginExchange, Exchange!Call
<1>6. ASSUME NEW t \in Tasks, Handle(t) PROVE Placed'
  BY <1>6 DEF Handle, Exchange!Return, Exchange!Reply, Exchange!ReplyAtOnce
<1>7. ASSUME NEW t \in Tasks, Respond(t) PROVE Placed'
  BY <1>7 DEF Respond, Exchange!Collect
<1>8. ASSUME NEW t \in Tasks, SendResponse(t) PROVE Placed'
  BY <1>8 DEF SendResponse, Closed
<1>9. ASSUME NEW t \in Tasks, Disconnect(t) PROVE Placed'
  BY <1>9 DEF Disconnect, Closed, Exchange!Abort
<1>10. ASSUME \/ \E c \in Clients : IssueKey(c) \/ RevokeKey(c)
              \/ CallAdmin \/ EndAdmin \/ Signal \/ Exit \/ GTick \/ UNCHANGED gvars
       PROVE  UNCHANGED <<place, phase, client, stalled, asking>>
  BY <1>10 DEF IssueKey, RevokeKey, CallAdmin, EndAdmin, Signal, Exit, GTick, Tick,
               gvars
<1>11. CASE UNCHANGED <<place, phase, client, stalled, asking>>
  BY <1>11
<1> QED
  BY <1>1, <1>2, <1>3, <1>4, <1>5, <1>6, <1>7, <1>8, <1>9, <1>10, <1>11
     DEF GNext, Serve

LEMMA CountedNext == Placed /\ Counted /\ [GNext]_gvars => Counted'
<1> SUFFICES ASSUME Placed, Counted, [GNext]_gvars PROVE Counted'
  OBVIOUS
<1> USE DEF process, ghosts, Counted
<1>1. ASSUME NEW t \in Tasks, BeginExchange(t) PROVE Counted'
  <2>1. client[t] \in Clients
    BY <1>1 DEF BeginExchange, Placed
  <2> QED
    BY <1>1, <2>1 DEF BeginExchange, Spend
<1>2. ASSUME NEW c \in Clients, IssueKey(c) PROVE Counted'
  BY <1>2, GatewayAssumption DEF IssueKey, AnswerAdmin
<1>3. ASSUME NEW c \in Clients, RevokeKey(c) PROVE Counted'
  <2>1. MaxCalls * Cardinality(InProgress(c)) \in Int
    <3>1. Cardinality(InProgress(c)) \in Nat
      <4>1. IsFiniteSet(InProgress(c))
        BY GatewayAssumption, FS_Subset DEF InProgress
      <4> QED
        BY <4>1, FS_CardinalityType
    <3> QED
      BY <3>1, GatewayAssumption
  <2> QED
    BY <1>3, <2>1, GatewayAssumption DEF RevokeKey, AnswerAdmin
<1>4. CASE CallAdmin \/ EndAdmin \/ Signal \/ Exit
  BY <1>4, GatewayAssumption DEF CallAdmin, EndAdmin, AnswerAdmin, Signal, Exit
<1>5. ASSUME \/ \E t \in Tasks : \/ \E c \in Clients : Authenticate(t, c)
                                \/ Unauthorized(t) \/ LetIn(t) \/ TurnAway(t)
                                \/ ReadRequest(t) \/ Handle(t) \/ Respond(t)
                                \/ SendResponse(t) \/ Stall(t) \/ Disconnect(t)
             \/ GTick \/ UNCHANGED gvars
      PROVE  UNCHANGED <<process, ghosts>>
  BY <1>5 DEF Authenticate, Unauthorized, LetIn, TurnAway, ReadRequest, Handle,
              Respond, SendResponse, Stall, Disconnect, GTick, gvars
<1>6. CASE UNCHANGED <<process, ghosts>>
  BY <1>6
<1> QED
  BY <1>1, <1>2, <1>3, <1>4, <1>5, <1>6 DEF GNext, Serve

(* The layers nest as router.rs:16-30 builds them: a request is with the   *)
(* limiter or with its handler, never with both, the exchange is under way *)
(* exactly while the handler runs, and only for an authenticated client.   *)
THEOREM LayersNest == GSpec => []GTypeOK
<1>1. GInit => TypeOK /\ Placed /\ Counted
  BY TypeInit, RateLimiterAssumption, GatewayAssumption
     DEF GInit, Init, Exchange!Init, Placed, Counted
<1>2. TypeOK /\ [GNext]_gvars => TypeOK'
  BY LimiterStep, TypeNext DEF limiter
<1>3. TypeOK /\ Placed /\ Counted => GTypeOK
  BY DEF Placed, Counted, GTypeOK
<1> QED
  BY <1>1, <1>2, <1>3, PlacedNext, CountedNext, PTL DEF GSpec
-----------------------------------------------------------------------------
(* What a request may still begin, as pairs of its task and of a number of *)
(* an exchange: all of them before its handler runs, if it is at a place   *)
(* of P, and from then on those above the number of exchanges begun.       *)
MayBegin(t, i, P) ==
  \/ place[t] \in P
  \/ phase[t] \in {"pending", "calling"} /\ i > calls[t]

Claims(c, P) ==
  {p \in Tasks \X (1 .. MaxCalls) : client[p[1]] = c /\ MayBegin(p[1], p[2], P)}

Before   == {"asking", "reading"}
Admitted == {"reading"}

Asked ==
  /\ calls \in [Tasks -> Nat]
  /\ \A t \in Tasks : place[t] = "asking" => asking[t] = client[t]

Owed ==
  \A c \in Clients :
    /\ allowance[c] >= 0
    /\ c \notin keys => Cardinality(Claims(c, Before)) <= allowance[c]
    /\ exchanges[c] + Cardinality(Claims(c, Admitted)) <= MaxCalls * admitted[c]


ClaimsInv == TypeOK /\ Placed /\ Counted /\ Asked /\ Owed

LEMMA ClaimsFinite ==
  ASSUME NEW c, NEW P
  PROVE  /\ IsFiniteSet(Claims(c, P))
         /\ Cardinality(Claims(c, P)) \in Nat
<1>1. IsFiniteSet(Tasks) /\ IsFiniteSet(1 .. MaxCalls)
  BY GatewayAssumption, FS_Interval
<1>2. IsFiniteSet(Tasks \X (1 .. MaxCalls))
  BY <1>1, FS_Product
<1>3. Claims(c, P) \in SUBSET (Tasks \X (1 .. MaxCalls))
  BY DEF Claims
<1>4. IsFiniteSet(Claims(c, P))
  BY <1>2, <1>3, FS_Subset
<1> QED
  BY <1>4, FS_CardinalityType

\* A step after which no request of c may begin more than before.
NoNewClaims(c, P) ==
  \A t \in Tasks : \A i \in 1 .. MaxCalls :
    client'[t] = c /\ MayBegin(t, i, P)' => client[t] = c /\ MayBegin(t, i, P)

LEMMA ClaimsShrink ==
  ASSUME NEW c, NEW P, NoNewClaims(c, P)
  PROVE  /\ Cardinality(Claims(c, P)') \in Nat
         /\ Cardinality(Claims(c, P)') <= Cardinality(Claims(c, P))
<1>1. Claims(c, P)' \in SUBSET Claims(c, P)
  <2> SUFFICES ASSUME NEW p \in Tasks \X (1 .. MaxCalls),
                      client'[p[1]] = c, MayBegin(p[1], p[2], P)'
               PROVE  client[p[1]] = c /\ MayBegin(p[1], p[2], P)
    BY DEF Claims
  <2>1. p[1] \in Tasks /\ p[2] \in 1 .. MaxCalls
    OBVIOUS
  <2> QED
    BY <2>1 DEF NoNewClaims
<1>2. IsFiniteSet(Claims(c, P))
  BY ClaimsFinite
<1>3. /\ IsFiniteSet(Claims(c, P)')
      /\ Cardinality(Claims(c, P)') <= Cardinality(Claims(c, P))
  BY <1>1, <1>2, FS_Subset
<1> QED
  BY <1>3, FS_CardinalityType

(* Revoking a key sets its allowance to what its requests may still begin. *)
LEMMA ClaimsBounded ==
  ASSUME Placed, NEW c \in Clients
  PROVE  Cardinality(Claims(c, Before)) <= MaxCalls * Cardinality(InProgress(c))
<1>1. IsFiniteSet(InProgress(c))
  BY GatewayAssumption, FS_Subset DEF InProgress
<1>2. /\ IsFiniteSet(1 .. MaxCalls) /\ Cardinality(1 .. MaxCalls) = MaxCalls
      /\ MaxCalls \in Nat
  BY GatewayAssumption, FS_Interval
<1>3. Claims(c, Before) \in SUBSET (InProgress(c) \X (1 .. MaxCalls))
  <2> SUFFICES ASSUME NEW p \in Tasks \X (1 .. MaxCalls),
                      client[p[1]] = c, MayBegin(p[1], p[2], Before)
               PROVE  p \in InProgress(c) \X (1 .. MaxCalls)
    BY DEF Claims
  <2>1. p[1] \in Tasks /\ p[2] \in 1 .. MaxCalls /\ p = <<p[1], p[2]>>
    OBVIOUS
  <2>2. place[p[1]] # "sending"
    BY <2>1 DEF MayBegin, Before, Placed
  <2> QED
    BY <2>1, <2>2 DEF InProgress
<1>4. Cardinality(InProgress(c)) \in Nat
  BY <1>1, FS_CardinalityType
<1>5. /\ IsFiniteSet(InProgress(c) \X (1 .. MaxCalls))
      /\ Cardinality(InProgress(c) \X (1 .. MaxCalls))
           = Cardinality(InProgress(c)) * MaxCalls
  BY <1>1, <1>2, FS_Product
<1>6. Cardinality(Claims(c, Before)) <= Cardinality(InProgress(c) \X (1 .. MaxCalls))
  BY <1>3, <1>5, FS_Subset
<1> QED
  BY <1>2, <1>4, <1>5, <1>6

(* An exchange that is begun is one of those that might be, and may not be *)
(* begun again.                                                            *)
LEMMA ClaimSpent ==
  ASSUME Placed, Asked, NEW t \in Tasks, BeginExchange(t), NEW c, c = client[t],
         NEW P, "handling" \notin P
  PROVE  /\ Cardinality(Claims(c, P)') \in Nat
         /\ Cardinality(Claims(c, P)') <= Cardinality(Claims(c, P)) - 1
<1> DEFINE one == <<t, calls[t] + 1>>
           C == Claims(c, P)
<1>1. /\ place[t] = "handling" /\ phase[t] = "pending"
      /\ calls[t] < MaxCalls /\ calls[t] \in Nat
      /\ phase' = [phase EXCEPT ![t] = "calling"]
      /\ calls' = [calls EXCEPT ![t] = calls[t] + 1]
      /\ UNCHANGED <<place, client>>
  BY GatewayAssumption
     DEF BeginExchange, Exchange!Call, Exchange!Move, Exchange!Limit, request, Asked
<1>2. one \in C
  BY <1>1, GatewayAssumption DEF Claims, MayBegin
<1>3. Claims(c, P)' \in SUBSET (C \ {one})
  <2> SUFFICES ASSUME NEW p \in Tasks \X (1 .. MaxCalls),
                      client[p[1]] = c, MayBegin(p[1], p[2], P)'
               PROVE  MayBegin(p[1], p[2], P) /\ p # one
    BY <1>1 DEF Claims
  <2>1. p[1] \in Tasks /\ p[2] \in 1 .. MaxCalls /\ p = <<p[1], p[2]>>
    OBVIOUS
  <2>2. CASE p[1] = t
    <3>1. p[2] > calls[t] + 1
      BY <1>1, <2>2 DEF MayBegin, Asked
    <3>2. MayBegin(p[1], p[2], P)
      BY <1>1, <2>1, <2>2, <3>1 DEF MayBegin
    <3> QED
      BY <1>1, <2>1, <3>1, <3>2
  <2>3. CASE p[1] # t
    BY <1>1, <2>1, <2>3 DEF MayBegin, Asked, Placed
  <2> QED
    BY <2>2, <2>3
<1>4. IsFiniteSet(C) /\ Cardinality(C) \in Nat
  BY ClaimsFinite
<1>5. IsFiniteSet(C \ {one}) /\ Cardinality(C \ {one}) = Cardinality(C) - 1
  BY <1>2, <1>4, FS_RemoveElement
<1> QED
  BY <1>3, <1>5, FS_Subset, FS_CardinalityType

(* A token lets a request begin its exchanges, and no others.              *)
LEMMA ClaimsGranted ==
  ASSUME Placed, NEW t \in Tasks, LetIn(t), NEW c, c = client[t]
  PROVE  /\ Cardinality(Claims(c, Admitted)') \in Nat
         /\ Cardinality(Claims(c, Admitted)')
              <= Cardinality(Claims(c, Admitted)) + MaxCalls
<1> DEFINE C == Claims(c, Admitted)
           new == {t} \X (1 .. MaxCalls)
<1>1. /\ place' = [place EXCEPT ![t] = "reading"]
      /\ UNCHANGED <<client, phase, calls>>
  BY DEF LetIn, Go, exchange
<1>2. /\ IsFiniteSet(1 .. MaxCalls) /\ Cardinality(1 .. MaxCalls) = MaxCalls
      /\ MaxCalls \in Nat
  BY GatewayAssumption, FS_Interval
<1>3. IsFiniteSet({t}) /\ Cardinality({t}) = 1
  BY FS_Singleton
<1>4. IsFiniteSet(new) /\ Cardinality(new) = MaxCalls
  <2>1. /\ IsFiniteSet(new)
        /\ Cardinality(new) = Cardinality({t}) * Cardinality(1 .. MaxCalls)
    BY ONLY <1>2, <1>3, FS_Product
  <2> QED
    BY <1>2, <1>3, <2>1
<1>5. IsFiniteSet(C) /\ Cardinality(C) \in Nat
  BY ClaimsFinite
<1>6. Claims(c, Admitted)' \in SUBSET (C \cup new)
  <2> SUFFICES ASSUME NEW p \in Tasks \X (1 .. MaxCalls),
                      client[p[1]] = c, MayBegin(p[1], p[2], Admitted)',
                      p \notin new
               PROVE  MayBegin(p[1], p[2], Admitted)
    BY <1>1 DEF Claims
  <2>1. p[1] \in Tasks /\ p[2] \in 1 .. MaxCalls /\ p = <<p[1], p[2]>>
    OBVIOUS
  <2>2. p[1] # t
    BY <2>1
  <2> QED
    BY <1>1, <2>1, <2>2 DEF MayBegin, Placed
<1> HIDE DEF new, C
<1>7. IsFiniteSet(C \cup new) /\ Cardinality(C \cup new) <= Cardinality(C) + MaxCalls
  <2>1. IsFiniteSet(C \cap new) /\ Cardinality(C \cap new) \in Nat
    BY <1>4, FS_Intersection, FS_CardinalityType
  <2>2. /\ IsFiniteSet(C \cup new)
        /\ Cardinality(C \cup new) = Cardinality(C) + Cardinality(new) - Cardinality(C \cap new)
    BY <1>4, <1>5, FS_Union
  <2> QED
    BY ONLY <1>2, <1>4, <1>5, <2>1, <2>2
<1>8. Cardinality(Claims(c, Admitted)') <= Cardinality(C \cup new)
  BY <1>6, <1>7, FS_Subset
<1>9. Cardinality(C \cup new) \in Nat /\ Cardinality(Claims(c, Admitted)') \in Nat
  BY <1>6, <1>7, FS_Subset, FS_CardinalityType
<1> QED
  BY <1>2, <1>5, <1>7, <1>8, <1>9 DEF C
-----------------------------------------------------------------------------
LEMMA AskedNext == TypeOK /\ Placed /\ Asked /\ [GNext]_gvars => Asked'
<1> SUFFICES ASSUME TypeOK, Placed, Asked, [GNext]_gvars PROVE Asked'
  OBVIOUS
<1> USE RateLimiterAssumption
        DEF limiter, vars, exchange, request, bucket, Placed, Asked, Go, Exchange!Move
<1>1. ASSUME NEW t \in Tasks, NEW c \in Clients, Authenticate(t, c) PROVE Asked'
  BY <1>1 DEF Authenticate, Ask, TypeOK
<1>2. ASSUME NEW t \in Tasks, LetIn(t) \/ TurnAway(t) PROVE Asked'
  BY <1>2 DEF LetIn, TurnAway, Admit, Reject, Done, TypeOK
<1>3. ASSUME NEW t \in Tasks, Unauthorized(t) \/ Stall(t) PROVE Asked'
  BY <1>3 DEF Unauthorized, Stall
<1>4. ASSUME NEW t \in Tasks, ReadRequest(t) PROVE Asked'
  BY <1>4 DEF ReadRequest, Exchange!Request
<1>5. ASSUME NEW t \in Tasks, BeginExchange(t) PROVE Asked'
  BY <1>5 DEF BeginExchange, Exchange!Call
<1>6. ASSUME NEW t \in Tasks, Handle(t) PROVE Asked'
  BY <1>6 DEF Handle, Exchange!Return, Exchange!Reply, Exchange!ReplyAtOnce,
              Exchange!Forget
<1>7. ASSUME NEW t \in Tasks, Respond(t) PROVE Asked'
  BY <1>7 DEF Respond, Exchange!Collect
<1>8. ASSUME NEW t \in Tasks, SendResponse(t) PROVE Asked'
  BY <1>8 DEF SendResponse, Closed
<1>9. ASSUME NEW t \in Tasks, Disconnect(t) PROVE Asked'
  BY <1>9 DEF Disconnect, Closed, Exchange!Abort, Exchange!Forget
<1>10. ASSUME \/ \E c \in Clients : IssueKey(c) \/ RevokeKey(c)
              \/ CallAdmin \/ EndAdmin \/ Signal \/ Exit \/ GTick \/ UNCHANGED gvars
       PROVE  UNCHANGED <<place, calls, client, asking>>
  BY <1>10 DEF IssueKey, RevokeKey, CallAdmin, EndAdmin, Signal, Exit, GTick, Tick,
               gvars
<1>11. CASE UNCHANGED <<place, calls, client, asking>>
  BY <1>11
<1> QED
  BY <1>1, <1>2, <1>3, <1>4, <1>5, <1>6, <1>7, <1>8, <1>9, <1>10, <1>11
     DEF GNext, Serve

\* The steps of a request that neither let it in nor begin an exchange.
Passive(t) ==
  \/ Unauthorized(t) \/ TurnAway(t) \/ ReadRequest(t) \/ Handle(t)
  \/ Respond(t) \/ SendResponse(t) \/ Stall(t) \/ Disconnect(t)

LEMMA PassiveClaims ==
  ASSUME TypeOK, Placed, Asked, NEW t \in Tasks, Passive(t),
         NEW c \in Clients, NEW P \in {Before, Admitted}
  PROVE  NoNewClaims(c, P)
<1> SUFFICES ASSUME NEW u \in Tasks, NEW i \in 1 .. MaxCalls,
                    client'[u] = c, MayBegin(u, i, P)'
             PROVE  client[u] = c /\ MayBegin(u, i, P)
  BY DEF NoNewClaims
<1> USE RateLimiterAssumption
        DEF request, exchange, Placed, Asked, Go, Exchange!Move,
            MayBegin, Before, Admitted
<1>1. CASE Unauthorized(t)
  BY <1>1 DEF Unauthorized
<1>2. CASE TurnAway(t)
  BY <1>2 DEF TurnAway
<1>3. CASE ReadRequest(t)
  BY <1>3 DEF ReadRequest, Exchange!Request
<1>4. CASE Handle(t)
  BY <1>4 DEF Handle, Exchange!Return, Exchange!Reply, Exchange!ReplyAtOnce,
              Exchange!Forget
<1>5. CASE Respond(t)
  BY <1>5 DEF Respond, Exchange!Collect
<1>6. CASE SendResponse(t)
  BY <1>6 DEF SendResponse, Closed
<1>7. CASE Stall(t)
  BY <1>7 DEF Stall
<1>8. CASE Disconnect(t)
  BY <1>8 DEF Disconnect, Closed, Exchange!Abort, Exchange!Forget
<1> QED
  BY <1>1, <1>2, <1>3, <1>4, <1>5, <1>6, <1>7, <1>8 DEF Passive

LEMMA OwedTypes ==
  ASSUME ClaimsInv, NEW c \in Clients
  PROVE  /\ Cardinality(Claims(c, Before)) \in Nat
         /\ Cardinality(Claims(c, Admitted)) \in Nat
         /\ allowance[c] \in Int /\ exchanges[c] \in Nat
         /\ admitted[c] \in Nat /\ MaxCalls * admitted[c] \in Nat
<1>1. admitted[c] \in Nat /\ MaxCalls \in Nat
  BY GatewayAssumption DEF ClaimsInv, TypeOK
<1>2. allowance[c] \in Int /\ exchanges[c] \in Nat
  BY DEF ClaimsInv, Counted
<1> QED
  BY <1>1, <1>2, ClaimsFinite

LEMMA PassiveOwed ==
  ASSUME ClaimsInv, NEW t \in Tasks, Passive(t)
  PROVE  Owed'
<1>1. UNCHANGED <<keys, allowance, exchanges, admitted>>
  BY DEF Passive, Unauthorized, TurnAway, ReadRequest, Handle, Respond, SendResponse,
         Stall, Disconnect, limiter, vars, history, process, ghosts, Reject
<1>2. ASSUME NEW c \in Clients, NEW P \in {Before, Admitted}
      PROVE  /\ Cardinality(Claims(c, P)') \in Nat
             /\ Cardinality(Claims(c, P)') <= Cardinality(Claims(c, P))
  BY <1>2, PassiveClaims, ClaimsShrink DEF ClaimsInv
<1>3. ASSUME NEW c \in Clients
      PROVE  /\ allowance[c] >= 0
             /\ c \notin keys => Cardinality(Claims(c, Before)') <= allowance[c]
             /\ exchanges[c] + Cardinality(Claims(c, Admitted)') <= MaxCalls * admitted[c]
  BY <1>2, OwedTypes DEF ClaimsInv, Owed
<1> QED
  BY <1>1, <1>3 DEF Owed

LEMMA AuthenticateOwed ==
  ASSUME ClaimsInv, NEW t \in Tasks, NEW d \in Clients, Authenticate(t, d)
  PROVE  Owed'
<1>1. UNCHANGED <<keys, allowance, exchanges, admitted>>
  BY DEF Authenticate, Ask, history, process, ghosts
<1>2. /\ d \in keys /\ place[t] = "idle" /\ place' = [place EXCEPT ![t] = "asking"]
      /\ client' = [client EXCEPT ![t] = d] /\ UNCHANGED <<phase, calls>>
  BY DEF Authenticate, Accepted, Go, exchange
<1>3. ASSUME NEW c \in Clients, NEW P \in {Before, Admitted}, c # d \/ P = Admitted
      PROVE  /\ Cardinality(Claims(c, P)') \in Nat
             /\ Cardinality(Claims(c, P)') <= Cardinality(Claims(c, P))
  <2>1. NoNewClaims(c, P)
    BY <1>2, <1>3 DEF NoNewClaims, MayBegin, Before, Admitted, ClaimsInv, Placed
  <2> QED
    BY <2>1, ClaimsShrink
<1>4. ASSUME NEW c \in Clients
      PROVE  /\ allowance[c] >= 0
             /\ c \notin keys => Cardinality(Claims(c, Before)') <= allowance[c]
             /\ exchanges[c] + Cardinality(Claims(c, Admitted)') <= MaxCalls * admitted[c]
  BY <1>2, <1>3, OwedTypes DEF ClaimsInv, Owed
<1> QED
  BY <1>1, <1>4 DEF Owed

LEMMA LetInOwed ==
  ASSUME ClaimsInv, NEW t \in Tasks, LetIn(t)
  PROVE  Owed'
<1>1. UNCHANGED <<keys, allowance, exchanges, client, phase, calls>>
  BY DEF LetIn, process, ghosts, exchange
<1>2. /\ place[t] = "asking" /\ place' = [place EXCEPT ![t] = "reading"]
      /\ client[t] \in Clients
      /\ admitted' = [admitted EXCEPT ![client[t]] = admitted[client[t]] + 1]
  BY DEF LetIn, Go, Admit, ClaimsInv, Asked, TypeOK
<1>3. ASSUME NEW c \in Clients, NEW P \in {Before, Admitted}, c # client[t] \/ P = Before
      PROVE  /\ Cardinality(Claims(c, P)') \in Nat
             /\ Cardinality(Claims(c, P)') <= Cardinality(Claims(c, P))
  <2>1. NoNewClaims(c, P)
    BY <1>1, <1>2, <1>3 DEF NoNewClaims, MayBegin, Before, Admitted, ClaimsInv, Placed
  <2> QED
    BY <2>1, ClaimsShrink
<1>4. ASSUME NEW c \in Clients
      PROVE  /\ allowance[c] >= 0
             /\ c \notin keys => Cardinality(Claims(c, Before)') <= allowance[c]
  BY <1>3, OwedTypes DEF ClaimsInv, Owed
<1>5. ASSUME NEW c \in Clients
      PROVE  exchanges[c] + Cardinality(Claims(c, Admitted)') <= MaxCalls * admitted'[c]
  <2>1. exchanges[c] + Cardinality(Claims(c, Admitted)) <= MaxCalls * admitted[c]
    BY DEF ClaimsInv, Owed
  <2>2. CASE c = client[t]
    <3>1. admitted'[c] = admitted[c] + 1
      BY <1>2, <2>2 DEF ClaimsInv, TypeOK
    <3>2. MaxCalls * admitted'[c] = MaxCalls * admitted[c] + MaxCalls
      BY <3>1, OwedTypes, GatewayAssumption
    <3>3. /\ Cardinality(Claims(c, Admitted)') \in Nat
          /\ Cardinality(Claims(c, Admitted)') <= Cardinality(Claims(c, Admitted)) + MaxCalls
      BY <2>2, ClaimsGranted DEF ClaimsInv
    <3> QED
      BY <2>1, <3>2, <3>3, OwedTypes, GatewayAssumption
  <2>3. CASE c # client[t]
    <3>1. admitted'[c] = admitted[c]
      BY <1>2, <2>3 DEF ClaimsInv, TypeOK
    <3> QED
      BY <1>3, <2>1, <2>3, <3>1, OwedTypes
  <2> QED
    BY <2>2, <2>3
<1> QED
  BY <1>1, <1>4, <1>5 DEF Owed

LEMMA BeginOwed ==
  ASSUME ClaimsInv, NEW t \in Tasks, BeginExchange(t)
  PROVE  Owed'
<1> DEFINE d == client[t]
<1>1. UNCHANGED <<keys, admitted, client, place>>
  BY DEF BeginExchange, process, limiter, vars, history, request
<1>2. /\ d \in Clients
      /\ exchanges' = [exchanges EXCEPT ![d] = exchanges[d] + 1]
      /\ d \in keys => allowance' = allowance
      /\ d \notin keys => allowance' = [allowance EXCEPT ![d] = allowance[d] - 1]
  BY DEF BeginExchange, Spend, ClaimsInv, Placed
<1>3. ASSUME NEW P \in {Before, Admitted}
      PROVE  \A c : c = d => /\ Cardinality(Claims(c, P)') \in Nat
                             /\ Cardinality(Claims(c, P)') <= Cardinality(Claims(c, P)) - 1
  <2>1. "handling" \notin P
    BY <1>3 DEF Before, Admitted
  <2> QED
    BY <2>1, ClaimSpent DEF ClaimsInv
<1>4. ASSUME NEW c \in Clients, NEW P \in {Before, Admitted}, c # d
      PROVE  /\ Cardinality(Claims(c, P)') \in Nat
             /\ Cardinality(Claims(c, P)') <= Cardinality(Claims(c, P))
  <2>1. NoNewClaims(c, P)
    BY <1>1, <1>4
       DEF NoNewClaims, MayBegin, BeginExchange, Exchange!Call, Exchange!Move,
           ClaimsInv, Placed, Asked
  <2> QED
    BY <2>1, ClaimsShrink
<1> HIDE DEF d
<1>5. ASSUME NEW c \in Clients
      PROVE  /\ allowance'[c] >= 0
             /\ c \notin keys => Cardinality(Claims(c, Before)') <= allowance'[c]
             /\ exchanges'[c] + Cardinality(Claims(c, Admitted)') <= MaxCalls * admitted[c]
  <2>1. /\ allowance[c] >= 0
        /\ c \notin keys => Cardinality(Claims(c, Before)) <= allowance[c]
        /\ exchanges[c] + Cardinality(Claims(c, Admitted)) <= MaxCalls * admitted[c]
    BY DEF ClaimsInv, Owed
  <2>2. exchanges \in [Clients -> Nat] /\ allowance \in [Clients -> Int]
    BY DEF ClaimsInv, Counted
  <2>3. CASE c = d
    <3>1. exchanges'[c] = exchanges[c] + 1
      BY <1>2, <2>2, <2>3
    <3>2. c \in keys => allowance'[c] = allowance[c]
      BY <1>2, <2>3
    <3>3. c \notin keys => allowance'[c] = allowance[c] - 1
      BY <1>2, <2>2, <2>3
    <3>4. /\ Cardinality(Claims(c, Before)') \in Nat
          /\ Cardinality(Claims(c, Before)') <= Cardinality(Claims(c, Before)) - 1
          /\ Cardinality(Claims(c, Admitted)') \in Nat
          /\ Cardinality(Claims(c, Admitted)') <= Cardinality(Claims(c, Admitted)) - 1
      BY <1>3, <2>3
    <3> QED
      BY <2>1, <3>1, <3>2, <3>3, <3>4, OwedTypes
  <2>4. CASE c # d
    <3>1. exchanges'[c] = exchanges[c] /\ allowance'[c] = allowance[c]
      BY <1>2, <2>2, <2>4
    <3> QED
      BY <1>4, <2>1, <2>4, <3>1, OwedTypes
  <2> QED
    BY <2>3, <2>4
<1> QED
  BY <1>1, <1>5 DEF Owed

LEMMA AdminOwed ==
  ASSUME ClaimsInv, NEW d \in Clients, IssueKey(d) \/ RevokeKey(d)
  PROVE  Owed'
<1>1. UNCHANGED <<exchanges, admitted, client, place, phase, calls>>
  BY DEF IssueKey, RevokeKey, limiter, vars, history, exchange, request
<1>2. ASSUME NEW c, NEW P PROVE Claims(c, P)' = Claims(c, P)
  BY <1>1 DEF Claims, MayBegin
<1>3. ASSUME NEW c \in Clients
      PROVE  /\ allowance'[c] >= 0
             /\ c \notin keys' => Cardinality(Claims(c, Before)) <= allowance'[c]
  <2>1. CASE IssueKey(d)
    BY <2>1 DEF IssueKey, ClaimsInv, Owed
  <2>2. CASE RevokeKey(d) /\ c = d
    <3>1. allowance'[c] = MaxCalls * Cardinality(InProgress(c))
      BY <2>2 DEF RevokeKey, ClaimsInv, Counted
    <3>2. Cardinality(Claims(c, Before)) <= MaxCalls * Cardinality(InProgress(c))
      BY ClaimsBounded DEF ClaimsInv
    <3>3. MaxCalls * Cardinality(InProgress(c)) \in Nat
      <4>1. IsFiniteSet(InProgress(c))
        BY GatewayAssumption, FS_Subset DEF InProgress
      <4> QED
        BY <4>1, FS_CardinalityType, GatewayAssumption
    <3> QED
      BY <3>1, <3>2, <3>3
  <2>3. CASE RevokeKey(d) /\ c # d
    BY <2>3 DEF RevokeKey, ClaimsInv, Owed, Counted
  <2> QED
    BY <2>1, <2>2, <2>3
<1> QED
  BY <1>1, <1>2, <1>3 DEF Owed, ClaimsInv

LEMMA OwedNext == ClaimsInv /\ [GNext]_gvars => Owed'
<1> SUFFICES ASSUME ClaimsInv, [GNext]_gvars PROVE Owed'
  OBVIOUS
<1>1. ASSUME NEW t \in Tasks, Passive(t) PROVE Owed'
  BY <1>1, PassiveOwed
<1>2. ASSUME NEW t \in Tasks, NEW c \in Clients, Authenticate(t, c) PROVE Owed'
  BY <1>2, AuthenticateOwed
<1>3. ASSUME NEW t \in Tasks, LetIn(t) PROVE Owed'
  BY <1>3, LetInOwed
<1>4. ASSUME NEW t \in Tasks, BeginExchange(t) PROVE Owed'
  BY <1>4, BeginOwed
<1>5. ASSUME NEW c \in Clients, IssueKey(c) \/ RevokeKey(c) PROVE Owed'
  BY <1>5, AdminOwed
<1>6. ASSUME CallAdmin \/ EndAdmin \/ Signal \/ Exit \/ GTick \/ UNCHANGED gvars PROVE Owed'
  <2>1. UNCHANGED <<keys, allowance, exchanges, admitted, client, place, phase, calls>>
    BY <1>6 DEF CallAdmin, EndAdmin, Signal, Exit, GTick, Tick, gvars, limiter, vars,
                history, exchange, request, process, ghosts
  <2> QED
    BY <2>1 DEF ClaimsInv, Owed, Claims, MayBegin
<1> QED
  BY <1>1, <1>2, <1>3, <1>4, <1>5, <1>6 DEF GNext, Serve, Passive

LEMMA ClaimsInit == GInit => ClaimsInv
<1> SUFFICES ASSUME GInit PROVE ClaimsInv
  OBVIOUS
<1>1. TypeOK /\ Placed /\ Counted
  BY TypeInit, RateLimiterAssumption, GatewayAssumption
     DEF GInit, Init, Exchange!Init, Placed, Counted
<1>2. Asked
  BY DEF GInit, Exchange!Init, Asked
<1>3. ASSUME NEW c, NEW P \in {Before, Admitted} PROVE Claims(c, P) = {}
  <2> SUFFICES ASSUME NEW p \in Tasks \X (1 .. MaxCalls), MayBegin(p[1], p[2], P)
               PROVE  FALSE
    BY DEF Claims
  <2>1. p[1] \in Tasks
    OBVIOUS
  <2> QED
    BY <1>3, <2>1 DEF GInit, Exchange!Init, MayBegin, Before, Admitted
<1>4. Cardinality({}) = 0
  BY FS_EmptySet
<1>5. ASSUME NEW c \in Clients
      PROVE  allowance[c] = 0 /\ exchanges[c] = 0 /\ MaxCalls * admitted[c] = 0
  BY GatewayAssumption DEF GInit, Init
<1>6. Owed
  <2> SUFFICES ASSUME NEW c \in Clients
               PROVE  /\ allowance[c] >= 0
                      /\ c \notin keys => Cardinality(Claims(c, Before)) <= allowance[c]
                      /\ exchanges[c] + Cardinality(Claims(c, Admitted)) <= MaxCalls * admitted[c]
    BY DEF Owed
  <2>1. Claims(c, Before) = {} /\ Claims(c, Admitted) = {}
    BY <1>3
  <2> QED
    BY <1>4, <1>5, <2>1
<1> QED
  BY <1>1, <1>2, <1>6 DEF ClaimsInv

LEMMA ClaimsStep == ClaimsInv /\ [GNext]_gvars => ClaimsInv'
<1>1. TypeOK /\ [GNext]_gvars => TypeOK'
  BY LimiterStep, TypeNext DEF limiter
<1> QED
  BY <1>1, PlacedNext, CountedNext, AskedNext, OwedNext DEF ClaimsInv

(* After its key was revoked, a client's requests in progress begin no     *)
(* more exchanges than they had left, until the key is issued again:       *)
(* whatever they are at, and however many others of them break off         *)
(* (admin.rs:140-143, auth.rs:41).                                         *)
THEOREM RevokedClientsStop == GSpec => []RevocationBites
<1>1. ClaimsInv => RevocationBites
  BY DEF ClaimsInv, Owed, RevocationBites
<1> QED
  BY <1>1, ClaimsInit, ClaimsStep, PTL DEF GSpec

LEMMA TimesMonotone ==
  ASSUME NEW m \in Nat, NEW a \in Int, NEW b \in Int, a <= b
  PROVE  m * a <= m * b
  OBVIOUS

(* The tokens of its bucket bound what a client can make the downstream    *)
(* servers do, retries and requests it breaks off included                 *)
(* (rate_limit.rs:22-30, retry.rs:20).                                     *)
THEOREM TokensBoundTheLoad == GSpec => []LoadBounded
<1>1. ClaimsInv /\ AdmissionsAccounted => LoadBounded
  <2> SUFFICES ASSUME ClaimsInv, AdmissionsAccounted, NEW c \in buckets
               PROVE  Unit * exchanges[c]
                        <= MaxCalls * (max_tokens + Rate * ((last[c] - start[c]) + rewound[c]))
    BY DEF LoadBounded
  <2> DEFINE given == max_tokens + Rate * ((last[c] - start[c]) + rewound[c])
  <2>1. /\ c \in Clients
        /\ Unit \in Nat /\ MaxCalls \in Nat
        /\ exchanges[c] \in Nat /\ admitted[c] \in Nat /\ tokens[c] \in Nat
        /\ Cardinality(Claims(c, Admitted)) \in Nat
        /\ Rate \in Nat /\ max_tokens \in Nat
        /\ last[c] \in Nat /\ start[c] \in Nat /\ rewound[c] \in Nat
    BY RateLimiterAssumption, GatewayAssumption, ClaimsFinite
       DEF ClaimsInv, TypeOK, Counted, max_tokens
  <2>2. given \in Int
    BY <2>1
  <2>3. Unit * admitted[c] + tokens[c] <= given
    BY DEF AdmissionsAccounted
  <2> HIDE DEF given
  <2>4. Unit * admitted[c] \in Int /\ Unit * admitted[c] <= given
    BY <2>1, <2>2, <2>3
  <2>5. MaxCalls * (Unit * admitted[c]) <= MaxCalls * given
    BY <2>1, <2>2, <2>4, TimesMonotone
  <2>6. exchanges[c] <= MaxCalls * admitted[c] /\ MaxCalls * admitted[c] \in Int
    BY <2>1 DEF ClaimsInv, Owed
  <2>7. Unit * exchanges[c] <= Unit * (MaxCalls * admitted[c])
    BY <2>1, <2>6, TimesMonotone
  <2>8. Unit * (MaxCalls * admitted[c]) = MaxCalls * (Unit * admitted[c])
    BY <2>1
  <2>9. MaxCalls * (Unit * admitted[c]) \in Int /\ MaxCalls * given \in Int
        /\ Unit * exchanges[c] \in Int
    BY <2>1, <2>2, <2>4
  <2>10. Unit * exchanges[c] <= MaxCalls * given
    BY <2>5, <2>7, <2>8, <2>9
  <2> QED
    BY <2>10 DEF given
<1> QED
  BY <1>1, ClaimsInit, ClaimsStep, BucketsBalanceInside, PTL DEF GSpec
=============================================================================
