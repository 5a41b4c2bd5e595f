---------------------------- MODULE ForwarderProofs ---------------------------
(***************************************************************************)
(* Proofs about Forwarder, for any keys, concurrent handlers, number of    *)
(* retries and outcomes: the handlers use the pool as KeyPool allows, so   *)
(* what is proved of the pool holds under them, and every step of theirs   *)
(* is a step of RequestContract or invisible to the client.                *)
(***************************************************************************)
EXTENDS Forwarder, KeyPoolProofs

\* Steps of a handler that do not touch the pool.
PoolIdle(t) ==
  \/ \E k \in Kinds : Receive(t, k)
  \/ BackOff(t) \/ Wake(t) \/ Exhausted(t) \/ ReadBody(t) \/ ReadErrorBody(t) \/ Finish(t)

LEMMA PoolStep == [FNext]_fvars => [Next]_vars
<1> SUFFICES ASSUME [FNext]_fvars PROVE [Next]_vars
  OBVIOUS
<1>1. ASSUME NEW t \in Tasks, PoolIdle(t) PROVE UNCHANGED vars
  BY <1>1 DEF PoolIdle, Receive, BackOff, Wake, Exhausted, ReadBody, ReadErrorBody, Finish
<1>2. ASSUME NEW t \in Tasks, CallAcquire(t) \/ Send(t) \/ NoKeysAvailable(t)
      PROVE  Acquire(t)
  BY <1>2 DEF CallAcquire, Send, NoKeysAvailable, Acquire
<1>3. ASSUME NEW t \in Tasks, Exchange(t) \/ FinishReport(t) PROVE Report(t)
  BY <1>3 DEF Exchange, Succeed, PassRejection, Fail, StreamTransportError, FinishReport, Report
<1>4. ASSUME NEW t \in Tasks, Disconnect(t) PROVE Report(t) \/ UNCHANGED vars
  BY <1>4 DEF Disconnect, Abandoned, Report
<1>5. ASSUME NEW k \in Keys, FRecover(k) \/ FAdmin(k) PROVE Recover(k) \/ Admin(k)
  BY <1>5 DEF FRecover, FAdmin, Recover
<1>6. CASE FTick
  BY <1>6 DEF FTick, Next
<1>7. CASE UNCHANGED fvars
  BY <1>7 DEF fvars
<1> QED
  BY <1>1, <1>2, <1>3, <1>4, <1>5, <1>6, <1>7 DEF FNext, Handle, PoolIdle, Next, Work

(* By construction a handler is a caller of the pool of KeyPool, so what   *)
(* is proved of the pool can be used here.                                 *)
LEMMA PoolInside == FSpec => Spec
<1>1. FInit => Init
  BY DEF FInit
<1> QED
  BY <1>1, PoolStep, PTL DEF FSpec, Spec

(* So no key is lost (key_pool.rs:103-119) however requests end.           *)
THEOREM NoKeyIsLostInside == FSpec => []CoolingKeyWillRecover
  BY PoolInside, NoKeyIsLost
-----------------------------------------------------------------------------
(* What the place of a handler says about its request.                     *)
PlaceTells ==
  \A t \in Tasks :
    /\ kind[t] = "stream" => attempt[t] = 0
    /\ ctl[t] = "sleep" => kind[t] = "whole" /\ attempt[t] < MaxRetries
    /\ ctl[t] = "body" => kind[t] = "whole" /\ answer[t] \in {"ok", "passed"}
    /\ ctl[t] = "errorBody" => kind[t] = "stream"

HandlerInv == FTypeOK /\ PlaceTells

PastType == streak \in [Keys -> 0 .. Threshold] /\ muted \in [Keys -> BOOLEAN]

LEMMA PastTypeNext ==
  ASSUME TypeOK, PastType, NEW t \in Tasks,
         GoodExchange(t) \/ BadExchange(t) \/ MutedExchange(t)
  PROVE  PastType'
<1>1. held[t] \in Members => held[t] \in Keys
  BY DEF TypeOK, Members, ToSet
<1>2. CASE held[t] \notin Members
  BY <1>2 DEF GoodExchange, BadExchange, MutedExchange, FailedExchange, past, PastType
<1>3. CASE held[t] \in Members
  <2>1. streak' \in [Keys -> 0 .. Threshold]
    BY <1>1, <1>3
       DEF GoodExchange, BadExchange, MutedExchange, FailedExchange, Clears, PastType, Threshold
  <2>2. muted' \in [Keys -> BOOLEAN]
    BY <1>1, <1>3 DEF GoodExchange, BadExchange, MutedExchange, Clears, PastType
  <2> QED
    BY <2>1, <2>2 DEF PastType
<1> QED
  BY <1>2, <1>3

LEMMA HandlerInvNext == HandlerInv /\ TypeOK' /\ [FNext]_fvars => HandlerInv'
<1> SUFFICES ASSUME HandlerInv, TypeOK', [FNext]_fvars PROVE HandlerInv'
  OBVIOUS
<1> USE DEF HandlerInv, FTypeOK, PlaceTells, PastType, past
<1>1. ASSUME NEW t \in Tasks, NEW k \in Kinds, Receive(t, k) PROVE HandlerInv'
  <2>1. k \in {"whole", "stream"} /\ 0 \in 0 .. MaxRetries
    BY ForwarderAssumption
  <2>2. received' \in [Tasks -> 0 .. MaxRequests]
    BY <1>1, ForwarderAssumption DEF Receive
  <2>3. kind' \in [Tasks -> {"whole", "stream"}] /\ attempt' \in [Tasks -> 0 .. MaxRetries]
    BY <1>1, <2>1 DEF Receive
  <2>4. UNCHANGED past
    BY <1>1 DEF Receive
  <2> QED
    BY <1>1, <2>2, <2>3, <2>4 DEF Receive, At, Answer, Answers
<1>2. ASSUME NEW t \in Tasks, CallAcquire(t) \/ FinishReport(t) PROVE HandlerInv'
  BY <1>2 DEF CallAcquire, FinishReport, handler
<1>3. ASSUME NEW t \in Tasks, Send(t) \/ NoKeysAvailable(t) PROVE HandlerInv'
  BY <1>3 DEF Send, NoKeysAvailable, At, Answer, Answers
<1>4. ASSUME NEW t \in Tasks, Succeed(t) PROVE HandlerInv'
  <2>1. PastType'
    BY <1>4, PastTypeNext DEF PastType, Succeed
  <2> QED
    BY <1>4, <2>1 DEF Succeed, At, Answer, Answers
<1>5. ASSUME NEW t \in Tasks, PassRejection(t) \/ Fail(t) \/ StreamTransportError(t)
      PROVE  HandlerInv'
  <2>1. PastType'
    BY <1>5, PastTypeNext DEF PastType, PassRejection, Fail, StreamTransportError
  <2> QED
    BY <1>5, <2>1 DEF PassRejection, Fail, StreamTransportError, At, Answer, Answers
<1>6. ASSUME NEW t \in Tasks, BackOff(t) \/ Exhausted(t) \/ Finish(t) PROVE HandlerInv'
  BY <1>6 DEF BackOff, AttemptsLeft, Exhausted, Finish, At, Answer, Answers
<1>7. ASSUME NEW t \in Tasks, Wake(t) PROVE HandlerInv'
  <2>1. attempt[t] + 1 \in 0 .. MaxRetries /\ kind[t] = "whole"
    BY <1>7, ForwarderAssumption DEF Wake, At
  <2> QED
    BY <1>7, <2>1 DEF Wake, At
<1>8. ASSUME NEW t \in Tasks, ReadBody(t) \/ ReadErrorBody(t) PROVE HandlerInv'
  BY <1>8 DEF ReadBody, ReadErrorBody, At, Answer, Answers
<1>9. ASSUME NEW t \in Tasks, Disconnect(t) PROVE HandlerInv'
  BY <1>9 DEF Disconnect, Awaits, At, Answer, Answers
<1>10. ASSUME NEW k \in Keys, FRecover(k) \/ FAdmin(k) PROVE HandlerInv'
  <2>1. UNCHANGED past \/ Clears(k)
    BY <1>10 DEF FRecover, FAdmin
  <2>2. streak' \in [Keys -> 0 .. Threshold]
    BY <2>1 DEF Clears, Threshold
  <2>3. muted' \in [Keys -> BOOLEAN]
    BY <2>1 DEF Clears
  <2> QED
    BY <1>10, <2>2, <2>3 DEF FRecover, FAdmin, handler
<1>11. CASE FTick
  BY <1>11 DEF FTick, handler
<1>12. CASE UNCHANGED fvars
  BY <1>12 DEF fvars, handler
<1> QED
  BY <1>1, <1>2, <1>3, <1>4, <1>5, <1>6, <1>7, <1>8, <1>9, <1>10, <1>11, <1>12
     DEF FNext, Handle, Exchange

LEMMA HandlerInvariant == FSpec => []HandlerInv
<1>1. FSpec => []TypeOK
  BY PoolInside, TypeCorrect
<1>2. FInit /\ TypeOK => HandlerInv
  BY ForwarderAssumption
     DEF FInit, HandlerInv, FTypeOK, PlaceTells, Answers, Threshold
<1> QED
  BY <1>1, <1>2, HandlerInvNext, PTL DEF FSpec

-----------------------------------------------------------------------------
(* What the place of a handler says about its call of the pool: it holds a *)
(* key only during an exchange, and is inside the pool only at the head of *)
(* the loop and while it reports a failure.                                *)
PlaceInPool ==
  \A t \in Tasks :
    /\ pc[t] = "using" <=> ctl[t] = "sent"
    /\ pc[t] = "scan" => ctl[t] = "call"
    /\ pc[t] \in {"marking", "spawning"} => ctl[t] = "failed"

LEMMA PlaceInPoolNext ==
  ASSUME HandlerInv, PlaceInPool, [FNext]_fvars
  PROVE  PlaceInPool'
<1> USE DEF HandlerInv, FTypeOK, TypeOK, PlaceInPool
<1>1. ASSUME NEW t \in Tasks, NEW k \in Kinds, Receive(t, k) PROVE PlaceInPool'
  BY <1>1 DEF Receive, At, vars
<1>2. ASSUME NEW t \in Tasks, CallAcquire(t) PROVE PlaceInPool'
  BY <1>2 DEF CallAcquire, StartAcquire, Scan, Goto, handler
<1>3. ASSUME NEW t \in Tasks, Send(t) PROVE PlaceInPool'
  BY <1>3 DEF Send, Lend, At, Goto
<1>4. ASSUME NEW t \in Tasks, NoKeysAvailable(t) PROVE PlaceInPool'
  BY <1>4 DEF NoKeysAvailable, Refuse, At, Goto
<1>5. ASSUME NEW t \in Tasks, Succeed(t) \/ PassRejection(t) \/ StreamTransportError(t)
      PROVE  PlaceInPool'
  BY <1>5 DEF Succeed, PassRejection, StreamTransportError, ReportSuccess, Drop, Release,
              Goto, At
<1>6. ASSUME NEW t \in Tasks, Fail(t) PROVE PlaceInPool'
  BY <1>6 DEF Fail, Bump, Drop, Release, Goto, At
<1>7. ASSUME NEW t \in Tasks, FinishReport(t) PROVE PlaceInPool'
  BY <1>7 DEF FinishReport, MarkUnhealthy, SpawnRecovery, Release, Goto, handler
<1>8. ASSUME NEW t \in Tasks, \/ BackOff(t) \/ Wake(t) \/ Exhausted(t)
                              \/ ReadBody(t) \/ ReadErrorBody(t) \/ Finish(t)
      PROVE  PlaceInPool'
  BY <1>8 DEF BackOff, Wake, Exhausted, ReadBody, ReadErrorBody, Finish, At, vars
<1>9. ASSUME NEW t \in Tasks, Disconnect(t) PROVE PlaceInPool'
  BY <1>9 DEF Disconnect, Abandoned, Drop, Release, Goto, Awaits, At, vars
<1>10. ASSUME \/ \E k \in Keys : FRecover(k) \/ FAdmin(k)
              \/ FTick \/ UNCHANGED fvars
       PROVE  PlaceInPool'
  BY <1>10 DEF FRecover, RecoverHealthy, RecoverErrors, FAdmin, Admin, AddKey, RemoveKey,
               FTick, Tick, fvars, vars, handler
<1> QED
  BY <1>1, <1>2, <1>3, <1>4, <1>5, <1>6, <1>7, <1>8, <1>9, <1>10 DEF FNext, Handle, Exchange

(* Every variable of the handlers keeps its type, no handler gets past the *)
(* last attempt (retry.rs:20, 60), and what one has recorded agrees with   *)
(* the place it is at: only a whole request with attempts left sleeps      *)
(* (retry.rs:37), only a whole request that completed reads a body, and a  *)
(* handler uses an acquired key exactly while its exchange is under way    *)
(* (retry.rs:21-23, forwarder.rs:82-91).                                   *)
THEOREM HandlersTyped == FSpec => [](FTypeOK /\ PlaceTells /\ PlaceInPool)
<1>1. FInit => PlaceInPool
  BY DEF FInit, Init, PlaceInPool
<1> QED
  BY <1>1, HandlerInvariant, PlaceInPoolNext, PTL DEF FSpec, HandlerInv
-----------------------------------------------------------------------------
(* The pool's count of a key against the exchanges that failed with it.    *)
CountsMatch ==
  \A k \in Keys : /\ errors[k] <= streak[k]
                  /\ ~ muted[k] => errors[k] = streak[k]

LEMMA CountsMatchNext ==
  ASSUME HandlerInv, CountsMatch, [FNext]_fvars
  PROVE  CountsMatch'
<1> USE DEF HandlerInv, FTypeOK, TypeOK, Threshold
<1>1. ASSUME UNCHANGED <<errors, past>> PROVE CountsMatch'
  BY <1>1 DEF CountsMatch, past
<1>2. ASSUME NEW t \in Tasks, PoolIdle(t) PROVE UNCHANGED <<errors, past>>
  BY <1>2 DEF PoolIdle, Receive, BackOff, Wake, Exhausted, ReadBody, ReadErrorBody, Finish,
              vars
<1>3. ASSUME NEW t \in Tasks,
             CallAcquire(t) \/ Send(t) \/ NoKeysAvailable(t) \/ FinishReport(t) \/ Disconnect(t)
      PROVE  UNCHANGED <<errors, past>>
  BY <1>3 DEF CallAcquire, StartAcquire, Scan, Send, Lend, NoKeysAvailable, Refuse,
              FinishReport, MarkUnhealthy, SpawnRecovery, Disconnect, Abandoned, Drop,
              health, vars
<1>4. ASSUME NEW t \in Tasks, held[t] \notin Members, Exchange(t)
      PROVE  UNCHANGED <<errors, past>>
  BY <1>4 DEF Exchange, Succeed, PassRejection, Fail, StreamTransportError, ReportSuccess,
              Bump, Drop, GoodExchange, BadExchange, MutedExchange, FailedExchange, past,
              health
<1>5. ASSUME NEW t \in Tasks, held[t] \in Members, Exchange(t) PROVE CountsMatch'
  <2>1. held[t] \in Keys
    BY <1>5 DEF Members, ToSet
  <2> DEFINE h == held[t]
             Others == \A k \in Keys \ {h} : /\ errors'[k] = errors[k]
                                             /\ streak'[k] = streak[k]
                                             /\ muted'[k] = muted[k]
  <2>a. ASSUME Others, errors'[h] <= streak'[h], muted'[h] \/ errors'[h] = streak'[h]
        PROVE  CountsMatch'
    BY <2>a DEF CountsMatch
  <2>b. errors[h] \in 0 .. 3 /\ streak[h] \in 0 .. 3 /\ errors[h] <= streak[h]
    BY <2>1 DEF CountsMatch
  <2>c. ~ muted[h] => errors[h] = streak[h]
    BY <2>1 DEF CountsMatch
  <2>d. FailedExchange(t) =>
          /\ streak' = [streak EXCEPT ![h] = IF @ < 3 THEN @ + 1 ELSE @]
          /\ streak'[h] = IF streak[h] < 3 THEN streak[h] + 1 ELSE streak[h]
    BY <1>5, <2>1 DEF FailedExchange
  <2>2. CASE Succeed(t)
    <3>1. errors' = [errors EXCEPT ![h] = 0]
      BY <1>5, <2>2 DEF Succeed, ReportSuccess
    <3>2. streak' = [streak EXCEPT ![h] = 0] /\ muted' = [muted EXCEPT ![h] = FALSE]
      BY <1>5, <2>2 DEF Succeed, GoodExchange, Clears
    <3>3. Others
      BY <3>1, <3>2
    <3>4. errors'[h] = 0 /\ streak'[h] = 0
      BY <2>1, <3>1, <3>2
    <3> QED
      BY <3>3, <3>4, <2>a
  <2>3. CASE PassRejection(t)
    <3>1. errors' = [errors EXCEPT ![h] = 0]
      BY <1>5, <2>3 DEF PassRejection, ReportSuccess
    <3>2. FailedExchange(t) /\ muted' = [muted EXCEPT ![h] = TRUE]
      BY <1>5, <2>3 DEF PassRejection, MutedExchange
    <3>3. Others
      BY <2>d, <3>1, <3>2
    <3>4. errors'[h] <= streak'[h]
      BY <2>1, <2>b, <2>d, <3>1, <3>2
    <3>5. muted'[h]
      BY <2>1, <3>2
    <3> QED
      BY <3>3, <3>4, <3>5, <2>a
  <2>4. CASE StreamTransportError(t)
    <3>1. errors' = errors
      BY <2>4 DEF StreamTransportError, Drop, health
    <3>2. FailedExchange(t) /\ muted' = [muted EXCEPT ![h] = TRUE]
      BY <1>5, <2>4 DEF StreamTransportError, MutedExchange
    <3>3. Others
      BY <2>d, <3>1, <3>2
    <3>4. errors'[h] <= streak'[h]
      BY <2>b, <2>d, <3>1, <3>2
    <3>5. muted'[h]
      BY <2>1, <3>2
    <3> QED
      BY <3>3, <3>4, <3>5, <2>a
  <2>5. CASE Fail(t)
    <3>1. errors' = [errors EXCEPT ![h] = IF @ < 3 THEN @ + 1 ELSE @]
      BY <1>5, <2>5 DEF Fail, Bump
    <3>2. FailedExchange(t) /\ muted' = muted
      BY <2>5 DEF Fail, BadExchange
    <3>3. Others
      BY <2>d, <3>1, <3>2
    <3>4. errors'[h] = IF errors[h] < 3 THEN errors[h] + 1 ELSE errors[h]
      BY <2>1, <3>1
    <3>5. errors'[h] <= streak'[h] /\ (errors[h] = streak[h] => errors'[h] = streak'[h])
      BY <2>b, <2>d, <3>2, <3>4
    <3>6. muted[h] = muted'[h]
      BY <3>2
    <3> QED
      BY <2>c, <3>3, <3>5, <3>6, <2>a
  <2> QED
    BY <1>5, <2>2, <2>3, <2>4, <2>5 DEF Exchange
<1>6. ASSUME NEW k \in Keys, FRecover(k) \/ FAdmin(k) PROVE CountsMatch'
  <2>1. CASE RecoverHealthy(k) /\ UNCHANGED <<handler, past>>
    BY <1>1, <2>1 DEF RecoverHealthy, past
  <2>2. CASE Clears(k) /\ (RecoverErrors(k) \/ Admin(k))
    <3>1. errors' = [errors EXCEPT ![k] = 0]
      BY <2>2 DEF RecoverErrors, Admin, AddKey, RemoveKey
    <3> QED
      BY <2>2, <3>1 DEF Clears, CountsMatch
  <2> QED
    BY <1>6, <2>1, <2>2 DEF FRecover, FAdmin
<1>7. CASE FTick \/ UNCHANGED fvars
  BY <1>1, <1>7 DEF FTick, Tick, health, fvars, vars, past
<1> QED
  BY <1>1, <1>2, <1>3, <1>4, <1>5, <1>6, <1>7 DEF FNext, Handle, PoolIdle

LEMMA CountsMatchInvariant == FSpec => [](HandlerInv /\ CountsMatch)
<1>1. FInit => CountsMatch
  BY DEF FInit, Init, CountsMatch
<1> QED
  BY <1>1, HandlerInvariant, CountsMatchNext, PTL DEF FSpec

(* A key is tripped only by the third failed exchange in a row with it     *)
(* (key_pool.rs:101-103, retry.rs:23-58): no overlap, retry or disconnect  *)
(* makes the pool count more than what failed.                             *)
THEOREM KeysCooledForCause == FSpec => CooledForCause
<1>1. ASSUME HandlerInv, CountsMatch, [FNext]_fvars,
             NEW t \in Tasks, pc[t] # "marking", pc'[t] = "marking"
      PROVE  streak'[held[t]] = Threshold
  <2> USE <1>1 DEF HandlerInv, FTypeOK, TypeOK
  <2>1. ASSUME NEW u \in Tasks, CallAcquire(u) \/ Send(u) \/ NoKeysAvailable(u)
        PROVE  FALSE
    BY <2>1 DEF CallAcquire, StartAcquire, Scan, Send, Lend, NoKeysAvailable, Refuse, Goto
  <2>2. ASSUME NEW u \in Tasks, \/ Succeed(u) \/ PassRejection(u) \/ StreamTransportError(u)
                                \/ FinishReport(u) \/ Disconnect(u)
        PROVE  FALSE
    BY <2>2 DEF Succeed, PassRejection, StreamTransportError, FinishReport, Disconnect,
                Abandoned, ReportSuccess, MarkUnhealthy, SpawnRecovery, Drop, Release, Goto, vars
  <2>3. ASSUME NEW u \in Tasks, PoolIdle(u) PROVE FALSE
    BY <2>3 DEF PoolIdle, Receive, BackOff, Wake, Exhausted, ReadBody, ReadErrorBody, Finish,
                vars
  <2>4. ASSUME NEW u \in Tasks, Fail(u) PROVE streak'[held[t]] = Threshold
    <3>1. u = t /\ Bump(t) /\ Trips(held[t]) /\ BadExchange(t)
      BY <2>4 DEF Fail, Bump, Drop, Release, Goto
    <3>2. held[t] \in Members /\ held[t] \in Keys
      BY <3>1 DEF Bump, Members, ToSet
    <3>3. streak'[held[t]] = IF streak[held[t]] < 3 THEN streak[held[t]] + 1 ELSE streak[held[t]]
      BY <3>1, <3>2 DEF BadExchange, FailedExchange, Threshold
    <3>4. errors[held[t]] + 1 >= 3 /\ errors[held[t]] <= streak[held[t]]
      BY <3>1, <3>2 DEF Trips, CountsMatch, Threshold
    <3>5. errors[held[t]] \in 0 .. 3 /\ streak[held[t]] \in 0 .. 3
      BY <3>2 DEF Threshold
    <3> QED
      BY <3>3, <3>4, <3>5 DEF Threshold
  <2>5. ASSUME \/ \E k \in Keys : FRecover(k) \/ FAdmin(k)
               \/ FTick \/ UNCHANGED fvars
        PROVE  FALSE
    BY <2>5 DEF FRecover, RecoverHealthy, RecoverErrors, FAdmin, Admin, AddKey, RemoveKey,
                FTick, Tick, fvars, vars
  <2> QED
    BY <2>1, <2>2, <2>3, <2>4, <2>5 DEF FNext, Handle, Exchange, PoolIdle
<1>2. HandlerInv /\ CountsMatch /\ [FNext]_fvars =>
        [\A t \in Tasks : pc[t] # "marking" /\ pc'[t] = "marking" =>
           streak'[held[t]] = Threshold]_fvars
  BY <1>1
<1> QED
  BY <1>2, CountsMatchInvariant, PTL DEF FSpec, CooledForCause

(* Only the exchanges that are not reported as failures (retry.rs:46-50,   *)
(* forwarder.rs:85-91) keep a key that fails Threshold times in a row in   *)
(* rotation: while there is none, the pool's count is the row itself, and  *)
(* ThresholdTrips does the rest.                                           *)
THEOREM SilenceAlone == FSpec => []OnlySilenceHides
<1>1. HandlerInv /\ CountsMatch /\ ThresholdTrips => OnlySilenceHides
  BY DEF CountsMatch, ThresholdTrips, OnlySilenceHides
<1>2. FSpec => []ThresholdTrips
  BY PoolInside, TrippedKeysRest
<1> QED
  BY <1>1, <1>2, CountsMatchInvariant, PTL
-----------------------------------------------------------------------------
\* The variables of RequestContract, as Contract has them.
MPhase  == [t \in Tasks |-> Phase(t)]
MStream == [t \in Tasks |-> kind[t] = "stream"]
MCalls  == [t \in Tasks |-> CallsMade(t)]
MLast   == [t \in Tasks |-> LastExchange(t)]
MReply  == [t \in Tasks |-> IF ctl[t] = "done" THEN answer[t] ELSE "none"]

Mapped == <<MPhase, MStream, MCalls, MLast, MReply, received>>

LEMMA NothingSeen == UNCHANGED handler => UNCHANGED Mapped
  BY DEF handler, Mapped, MPhase, MStream, MCalls, MLast, MReply, Phase, CallsMade,
         LastExchange

(* What a step of the handler of t leaves alone, and where it takes it.    *)
Steps(t, from, to) ==
  /\ ctl[t] = from /\ ctl'[t] = to
  /\ \A u \in Tasks \ {t} : /\ ctl'[u] = ctl[u] /\ kind'[u] = kind[u]
                            /\ attempt'[u] = attempt[u] /\ answer'[u] = answer[u]

(* What it then does to the mapped variables.                              *)
LEMMA OneHandler ==
  ASSUME NEW t \in Tasks, NEW from, NEW to, Steps(t, from, to)
  PROVE  /\ MPhase' = [MPhase EXCEPT ![t] = Phase(t)']
         /\ MCalls' = [MCalls EXCEPT ![t] = CallsMade(t)']
         /\ MLast'  = [MLast EXCEPT ![t] = LastExchange(t)']
<1> USE DEF Steps
<1>1. \A u \in Tasks \ {t} : Phase(u)' = Phase(u)
  BY DEF Phase
<1>2. \A u \in Tasks \ {t} : CallsMade(u)' = CallsMade(u)
  BY DEF CallsMade
<1>3. \A u \in Tasks \ {t} : LastExchange(u)' = LastExchange(u)
  BY DEF LastExchange
<1>4. MPhase' = [MPhase EXCEPT ![t] = Phase(t)']
  BY <1>1 DEF MPhase
<1>5. MCalls' = [MCalls EXCEPT ![t] = CallsMade(t)']
  BY <1>2 DEF MCalls
<1>6. MLast' = [MLast EXCEPT ![t] = LastExchange(t)']
  BY <1>3 DEF MLast
<1> QED
  BY <1>4, <1>5, <1>6

(* And what it may leave alone.                                            *)
LEMMA OneHandlerKeeps ==
  ASSUME NEW t \in Tasks, NEW from, NEW to, Steps(t, from, to)
  PROVE  /\ Phase(t)' = Phase(t) => MPhase' = MPhase
         /\ CallsMade(t)' = CallsMade(t) => MCalls' = MCalls
         /\ LastExchange(t)' = LastExchange(t) => MLast' = MLast
         /\ kind'[t] = kind[t] => MStream' = MStream
         /\ from # "done" /\ to # "done" => MReply' = MReply
<1> USE DEF Steps
<1>1. \A u \in Tasks \ {t} : /\ Phase(u)' = Phase(u)
                             /\ CallsMade(u)' = CallsMade(u)
                             /\ LastExchange(u)' = LastExchange(u)
  BY DEF Phase, CallsMade, LastExchange
<1>2. Phase(t)' = Phase(t) => MPhase' = MPhase
  BY <1>1 DEF MPhase
<1>3. CallsMade(t)' = CallsMade(t) => MCalls' = MCalls
  BY <1>1 DEF MCalls
<1>4. LastExchange(t)' = LastExchange(t) => MLast' = MLast
  BY <1>1 DEF MLast
<1>5. kind'[t] = kind[t] => MStream' = MStream
  BY DEF MStream
<1>6. from # "done" /\ to # "done" => MReply' = MReply
  BY DEF MReply
<1> QED
  BY <1>2, <1>3, <1>4, <1>5, <1>6

LEMMA ReceiveMaps ==
  ASSUME HandlerInv, NEW t \in Tasks, NEW k \in Kinds, Receive(t, k)
  PROVE  Contract!Request(t)
<1>1. Steps(t, "ready", "call") /\ kind' = [kind EXCEPT ![t] = k] /\ attempt'[t] = 0
  BY DEF HandlerInv, FTypeOK, Receive, At, Answer, Steps
<1>2. /\ Phase(t) = "idle" /\ Phase(t)' = "pending"
      /\ CallsMade(t) = 0 /\ CallsMade(t)' = 0
      /\ LastExchange(t) = "none" /\ LastExchange(t)' = "none"
  BY <1>1 DEF Steps, Phase, CallsMade, LastExchange
<1>3. MPhase[t] = "idle" /\ MPhase' = [MPhase EXCEPT ![t] = "pending"]
  BY <1>1, <1>2, OneHandler DEF MPhase
<1>4. \E s \in BOOLEAN : MStream' = [MStream EXCEPT ![t] = s]
  <2>1. CASE k = "stream"
    <3>1. MStream' = [MStream EXCEPT ![t] = TRUE]
      BY <1>1, <2>1 DEF MStream, HandlerInv, FTypeOK
    <3> QED
      BY <3>1
  <2>2. CASE k # "stream"
    <3>1. MStream' = [MStream EXCEPT ![t] = FALSE]
      BY <1>1, <2>2 DEF MStream, HandlerInv, FTypeOK
    <3> QED
      BY <3>1
  <2> QED
    BY <2>1, <2>2
<1>5. UNCHANGED <<MCalls, MLast, MReply>>
  BY <1>1, <1>2, OneHandlerKeeps
<1>6. received[t] < MaxRequests /\ received' = [received EXCEPT ![t] = @ + 1]
  BY DEF Receive
<1> QED
  BY <1>3, <1>4, <1>5, <1>6
     DEF Contract!Request, Contract!Move, MPhase, MStream, MCalls, MLast, MReply

(* The number of exchanges a request may still make.                       *)
LEMMA LimitIs ==
  ASSUME HandlerInv, NEW t \in Tasks
  PROVE  /\ kind[t] = "stream" => Contract!Limit(t) = 1
         /\ kind[t] = "whole" => Contract!Limit(t) = MaxRetries + 1
  BY DEF Contract!Limit

LEMMA SendMaps ==
  ASSUME HandlerInv, NEW t \in Tasks, Send(t)
  PROVE  Contract!Call(t)
<1>1. Steps(t, "call", "sent") /\ UNCHANGED <<kind, attempt, answer, received>>
  BY DEF HandlerInv, FTypeOK, Send, At, Steps
<1>2. /\ Phase(t) = "pending" /\ Phase(t)' = "calling"
      /\ CallsMade(t) = attempt[t] /\ CallsMade(t)' = attempt[t] + 1
      /\ LastExchange(t) \in {"none", "bad"} /\ LastExchange(t)' = LastExchange(t)
  BY <1>1 DEF Steps, Phase, CallsMade, LastExchange
<1>3. MPhase[t] = "pending" /\ MPhase' = [MPhase EXCEPT ![t] = "calling"]
  BY <1>1, <1>2, OneHandler DEF MPhase
<1>4. MCalls[t] = attempt[t] /\ MCalls' = [MCalls EXCEPT ![t] = MCalls[t] + 1]
  BY <1>1, <1>2, OneHandler DEF MCalls
<1>5. UNCHANGED <<MStream, MLast, MReply, received>>
  BY <1>1, <1>2, OneHandlerKeeps
<1>6. attempt[t] < Contract!Limit(t)
  BY LimitIs, ForwarderAssumption DEF HandlerInv, FTypeOK, PlaceTells
<1>7. MLast[t] \in {"none", "bad"}
  BY <1>2 DEF MLast
<1> QED
  BY <1>3, <1>4, <1>5, <1>6, <1>7
     DEF Contract!Call, Contract!Move, MPhase, MStream, MCalls, MLast, MReply

\* The answers that fit, by how the last exchange ended.
LEMMA FitsIs ==
  ASSUME NEW t \in Tasks
  PROVE  /\ LastExchange(t) = "good" => Contract!Fits(t) = {"ok", "passed", "downstream"}
         /\ LastExchange(t) = "bad" /\ CallsMade(t) = Contract!Limit(t)
              => Contract!Fits(t) = {"downstream"}
         /\ LastExchange(t) # "good" /\ CallsMade(t) # Contract!Limit(t)
              => Contract!Fits(t) = {"noKeys"}
         /\ LastExchange(t) = "none" => Contract!Fits(t) = {"noKeys"}
  BY DEF Contract!Fits

LEMMA Finishes ==
  ASSUME NEW t \in Tasks, NEW from, from # "done", Steps(t, from, "done"),
         UNCHANGED <<kind, received>>
  PROVE  /\ MPhase' = [MPhase EXCEPT ![t] = "replied"]
         /\ MCalls' = [MCalls EXCEPT ![t] = 0]
         /\ MLast'  = [MLast EXCEPT ![t] = "none"]
         /\ MReply' = [MReply EXCEPT ![t] = answer'[t]]
         /\ UNCHANGED <<MStream, received>>
<1>1. Phase(t)' = "replied" /\ CallsMade(t)' = 0 /\ LastExchange(t)' = "none"
  BY DEF Steps, Phase, CallsMade, LastExchange
<1>2. MReply' = [MReply EXCEPT ![t] = answer'[t]]
  BY DEF Steps, MReply
<1> QED
  BY <1>1, <1>2, OneHandler, OneHandlerKeeps

LEMMA ReplyMaps ==
  ASSUME NEW t \in Tasks, NEW from \in {"call", "failed", "errorBody", "body"},
         Steps(t, from, "done"), UNCHANGED <<kind, received>>,
         answer'[t] \in Contract!Fits(t)
  PROVE  Contract!Reply(t)
<1>1. MPhase[t] = "pending"
  BY DEF Steps, Phase, MPhase
<1> QED
  BY <1>1, Finishes
     DEF Contract!Reply, Contract!Move, Contract!Forget, MPhase, MStream, MCalls, MLast, MReply

LEMMA ReplyAtOnceMaps ==
  ASSUME HandlerInv, NEW t \in Tasks, Steps(t, "sent", "done"), kind[t] = "stream",
         UNCHANGED <<kind, received>>, answer'[t] \in {"ok", "downstream"}
  PROVE  Contract!ReplyAtOnce(t)
<1>1. MPhase[t] = "calling" /\ MStream[t]
  BY DEF Steps, Phase, MPhase, MStream
<1> QED
  BY <1>1, Finishes
     DEF Contract!ReplyAtOnce, Contract!Move, Contract!Forget,
         MPhase, MStream, MCalls, MLast, MReply

\* An exchange that does not end the request.
LEMMA ReturnMaps ==
  ASSUME NEW t \in Tasks, NEW to \in {"body", "failed"}, Steps(t, "sent", to),
         UNCHANGED <<kind, attempt, received>>
  PROVE  Contract!Return(t)
<1>1. /\ Phase(t) = "calling" /\ Phase(t)' = "pending"
      /\ CallsMade(t)' = CallsMade(t)
      /\ LastExchange(t)' \in {"good", "bad"}
  BY DEF Steps, Phase, CallsMade, LastExchange
<1>2. MPhase[t] = "calling" /\ MPhase' = [MPhase EXCEPT ![t] = "pending"]
  BY <1>1, OneHandler DEF MPhase
<1>3. \E result \in {"good", "bad"} : MLast' = [MLast EXCEPT ![t] = result]
  BY <1>1, OneHandler
<1>4. UNCHANGED <<MStream, MCalls, MReply, received>>
  BY <1>1, OneHandlerKeeps
<1> QED
  BY <1>2, <1>3, <1>4
     DEF Contract!Return, Contract!Move, MPhase, MStream, MCalls, MLast, MReply

LEMMA AbortMaps ==
  ASSUME NEW t \in Tasks, NEW from \in {"sent"} \cup Awaits, Steps(t, from, "ready"),
         UNCHANGED <<kind, received>>
  PROVE  Contract!Abort(t)
<1>1. from # "done" /\ Phase(t) \in {"pending", "calling"}
  BY DEF Steps, Phase, Awaits
<1>2. Phase(t)' = "idle" /\ CallsMade(t)' = 0 /\ LastExchange(t)' = "none"
  BY DEF Steps, Phase, CallsMade, LastExchange
<1>3. MPhase[t] \in {"pending", "calling"} /\ MPhase' = [MPhase EXCEPT ![t] = "idle"]
  BY <1>1, <1>2, OneHandler DEF MPhase
<1>4. MCalls' = [MCalls EXCEPT ![t] = 0] /\ MLast' = [MLast EXCEPT ![t] = "none"]
  BY <1>2, OneHandler
<1>5. UNCHANGED <<MStream, MReply, received>>
  BY <1>1, OneHandlerKeeps
<1> QED
  BY <1>3, <1>4, <1>5
     DEF Contract!Abort, Contract!Forget, MPhase, MStream, MCalls, MLast, MReply

LEMMA FinishMaps ==
  ASSUME HandlerInv, NEW t \in Tasks, Finish(t)
  PROVE  Contract!Collect(t)
<1>1. Steps(t, "done", "ready") /\ UNCHANGED <<kind, received>>
  BY DEF HandlerInv, FTypeOK, Finish, At, Steps
<1>2. /\ Phase(t) = "replied" /\ Phase(t)' = "idle"
      /\ CallsMade(t) = CallsMade(t)' /\ LastExchange(t) = LastExchange(t)'
  BY <1>1 DEF Steps, Phase, CallsMade, LastExchange
<1>3. MPhase[t] = "replied" /\ MPhase' = [MPhase EXCEPT ![t] = "idle"]
  BY <1>1, <1>2, OneHandler DEF MPhase
<1>4. UNCHANGED <<MStream, MCalls, MLast, received>>
  BY <1>1, <1>2, OneHandlerKeeps
<1>5. MReply' = [MReply EXCEPT ![t] = "none"]
  BY <1>1 DEF Steps, MReply
<1> QED
  BY <1>3, <1>4, <1>5
     DEF Contract!Collect, Contract!Move, MPhase, MStream, MCalls, MLast, MReply

LEMMA NoKeysMaps ==
  ASSUME HandlerInv, NEW t \in Tasks, NoKeysAvailable(t)
  PROVE  Contract!Reply(t)
<1>1. /\ Steps(t, "call", "done") /\ UNCHANGED <<kind, received>>
      /\ answer'[t] = "noKeys"
  BY DEF HandlerInv, FTypeOK, NoKeysAvailable, At, Answer, Steps
<1>2. LastExchange(t) # "good" /\ CallsMade(t) = attempt[t]
  BY <1>1 DEF Steps, LastExchange, CallsMade
<1>3. attempt[t] # Contract!Limit(t)
  BY LimitIs, ForwarderAssumption DEF HandlerInv, FTypeOK, PlaceTells
<1> QED
  BY <1>1, <1>2, <1>3, FitsIs, ReplyMaps

LEMMA ExchangeMaps ==
  ASSUME HandlerInv, NEW t \in Tasks, Exchange(t)
  PROVE  Contract!Return(t) \/ Contract!ReplyAtOnce(t)
<1>1. CASE Succeed(t) /\ kind[t] = "stream"
  <2>1. /\ Steps(t, "sent", "done") /\ UNCHANGED <<kind, received>>
        /\ answer'[t] = "ok"
    BY <1>1 DEF HandlerInv, FTypeOK, Succeed, At, Answer, Steps
  <2> QED
    BY <1>1, <2>1, ReplyAtOnceMaps
<1>2. CASE \/ Succeed(t) /\ kind[t] # "stream"
           \/ PassRejection(t)
  <2>1. Steps(t, "sent", "body") /\ UNCHANGED <<kind, attempt, received>>
    BY <1>2 DEF HandlerInv, FTypeOK, Succeed, PassRejection, At, Answer, Steps
  <2> QED
    BY <2>1, ReturnMaps
<1>3. CASE Fail(t)
  <2>1. Steps(t, "sent", "failed") /\ UNCHANGED <<kind, attempt, received>>
    BY <1>3 DEF HandlerInv, FTypeOK, Fail, At, Steps
  <2> QED
    BY <2>1, ReturnMaps
<1>4. CASE StreamTransportError(t)
  <2>1. /\ Steps(t, "sent", "done") /\ UNCHANGED <<kind, received>>
        /\ kind[t] = "stream" /\ answer'[t] = "downstream"
    BY <1>4 DEF HandlerInv, FTypeOK, StreamTransportError, At, Answer, Steps
  <2> QED
    BY <2>1, ReplyAtOnceMaps
<1> QED
  BY <1>1, <1>2, <1>3, <1>4 DEF Exchange

\* Nothing the client can see: the back-off, and the start of the next attempt.
LEMMA RetryMaps ==
  ASSUME HandlerInv, NEW t \in Tasks, BackOff(t) \/ Wake(t)
  PROVE  UNCHANGED Mapped
<1>1. CASE BackOff(t)
  <2>1. Steps(t, "failed", "sleep") /\ UNCHANGED <<kind, attempt, received>>
    BY <1>1 DEF HandlerInv, FTypeOK, BackOff, At, Steps
  <2>2. /\ Phase(t)' = Phase(t) /\ CallsMade(t)' = CallsMade(t)
        /\ LastExchange(t)' = LastExchange(t)
    BY <2>1 DEF Steps, Phase, CallsMade, LastExchange
  <2> QED
    BY <2>1, <2>2, OneHandlerKeeps DEF Mapped
<1>2. CASE Wake(t)
  <2>1. /\ Steps(t, "sleep", "call") /\ UNCHANGED <<kind, received>>
        /\ attempt'[t] = attempt[t] + 1 /\ attempt[t] \in Nat
    BY <1>2, ForwarderAssumption DEF HandlerInv, FTypeOK, Wake, At, Steps
  <2>2. Phase(t)' = Phase(t) /\ CallsMade(t)' = CallsMade(t)
    BY <2>1 DEF Steps, Phase, CallsMade
  <2>3. LastExchange(t) = "bad" /\ LastExchange(t)' = "bad"
    BY <2>1 DEF Steps, LastExchange
  <2> QED
    BY <2>1, <2>2, <2>3, OneHandlerKeeps DEF Mapped
<1> QED
  BY <1>1, <1>2

LEMMA ExhaustedMaps ==
  ASSUME HandlerInv, NEW t \in Tasks, Exhausted(t)
  PROVE  Contract!Reply(t)
<1>1. /\ Steps(t, "failed", "done") /\ UNCHANGED <<kind, received>>
      /\ kind[t] = "whole" /\ attempt[t] = MaxRetries /\ answer'[t] = "downstream"
  BY DEF HandlerInv, FTypeOK, Exhausted, At, Answer, Steps
<1>2. LastExchange(t) = "bad" /\ CallsMade(t) = MaxRetries + 1
  BY <1>1 DEF Steps, LastExchange, CallsMade
<1> QED
  BY <1>1, <1>2, LimitIs, FitsIs, ReplyMaps

LEMMA ErrorBodyMaps ==
  ASSUME HandlerInv, NEW t \in Tasks, ReadErrorBody(t)
  PROVE  Contract!Reply(t) \/ UNCHANGED Mapped
<1>1. kind[t] = "stream" /\ attempt[t] = 0 /\ UNCHANGED <<kind, attempt, received>>
  BY DEF HandlerInv, PlaceTells, ReadErrorBody
<1>2. CASE At(t, "failed", "errorBody") /\ UNCHANGED answer
  <2>1. Steps(t, "failed", "errorBody")
    BY <1>1, <1>2 DEF HandlerInv, FTypeOK, At, Steps
  <2>2. /\ Phase(t)' = Phase(t) /\ CallsMade(t)' = CallsMade(t)
        /\ LastExchange(t)' = LastExchange(t)
    BY <1>1, <2>1 DEF Steps, Phase, CallsMade, LastExchange
  <2> QED
    BY <1>1, <2>1, <2>2, OneHandlerKeeps DEF Mapped
<1>3. CASE At(t, "errorBody", "done") /\ Answer(t, "downstream")
  <2>1. Steps(t, "errorBody", "done") /\ answer'[t] = "downstream"
    BY <1>1, <1>3 DEF HandlerInv, FTypeOK, At, Answer, Steps
  <2>2. LastExchange(t) = "bad" /\ CallsMade(t) = 1
    BY <1>1, <2>1 DEF Steps, LastExchange, CallsMade
  <2> QED
    BY <1>1, <2>1, <2>2, LimitIs, FitsIs, ReplyMaps
<1> QED
  BY <1>2, <1>3 DEF ReadErrorBody

LEMMA BodyMaps ==
  ASSUME HandlerInv, NEW t \in Tasks, ReadBody(t)
  PROVE  Contract!Reply(t)
<1>1. /\ Steps(t, "body", "done") /\ UNCHANGED <<kind, received>>
      /\ answer'[t] \in {"ok", "passed", "downstream"}
  BY DEF HandlerInv, FTypeOK, PlaceTells, ReadBody, At, Answer, Steps
<1>2. LastExchange(t) = "good"
  BY <1>1 DEF Steps, LastExchange
<1> QED
  BY <1>1, <1>2, FitsIs, ReplyMaps

LEMMA DisconnectMaps ==
  ASSUME HandlerInv, NEW t \in Tasks, Disconnect(t)
  PROVE  Contract!Abort(t)
<1>1. PICK from \in {"sent"} \cup Awaits : At(t, from, "ready")
  BY DEF Disconnect
<1>2. Steps(t, from, "ready") /\ UNCHANGED <<kind, received>>
  BY <1>1 DEF HandlerInv, FTypeOK, Disconnect, At, Answer, Steps
<1> QED
  BY <1>2, AbortMaps

LEMMA ContractStep == HandlerInv /\ [FNext]_fvars => [Contract!Next]_Mapped
<1> SUFFICES ASSUME HandlerInv, [FNext]_fvars PROVE [Contract!Next]_Mapped
  OBVIOUS
<1>1. ASSUME NEW t \in Tasks, NEW k \in Kinds, Receive(t, k) PROVE Contract!Next
  BY <1>1, ReceiveMaps DEF Contract!Next
<1>2. ASSUME NEW t \in Tasks, CallAcquire(t) \/ FinishReport(t) PROVE UNCHANGED Mapped
  BY <1>2, NothingSeen DEF CallAcquire, FinishReport
<1>3. ASSUME NEW t \in Tasks, Send(t) PROVE Contract!Next
  BY <1>3, SendMaps DEF Contract!Next, Contract!Progress
<1>4. ASSUME NEW t \in Tasks, NoKeysAvailable(t) \/ Exhausted(t) \/ ReadBody(t)
      PROVE  Contract!Next
  BY <1>4, NoKeysMaps, ExhaustedMaps, BodyMaps DEF Contract!Next, Contract!Progress
<1>5. ASSUME NEW t \in Tasks, Exchange(t) PROVE Contract!Next
  BY <1>5, ExchangeMaps DEF Contract!Next, Contract!Progress
<1>6. ASSUME NEW t \in Tasks, BackOff(t) \/ Wake(t) PROVE UNCHANGED Mapped
  BY <1>6, RetryMaps
<1>7. ASSUME NEW t \in Tasks, ReadErrorBody(t) PROVE [Contract!Next]_Mapped
  BY <1>7, ErrorBodyMaps DEF Contract!Next, Contract!Progress
<1>8. ASSUME NEW t \in Tasks, Finish(t) PROVE Contract!Next
  BY <1>8, FinishMaps DEF Contract!Next
<1>9. ASSUME NEW t \in Tasks, Disconnect(t) PROVE Contract!Next
  BY <1>9, DisconnectMaps DEF Contract!Next
<1>10. ASSUME \/ \E k \in Keys : FRecover(k) \/ FAdmin(k)
              \/ FTick \/ UNCHANGED fvars
       PROVE  UNCHANGED Mapped
  BY <1>10, NothingSeen DEF FRecover, FAdmin, FTick, fvars
<1> QED
  BY <1>1, <1>2, <1>3, <1>4, <1>5, <1>6, <1>7, <1>8, <1>9, <1>10 DEF FNext, Handle

(* The handlers keep the client's contract (retry.rs:20-67,                *)
(* forwarder.rs:45-119): every one of their steps is a step of             *)
(* RequestContract or shows the client nothing, for any number of retries, *)
(* keys and concurrent requests.  That they also keep going, the rest of   *)
(* ImplementsContract, is a matter of fairness and is model-checked.       *)
THEOREM ContractKept == FSpec => Contract!Init /\ [][Contract!Next]_(Contract!cvars)
<1>1. FInit => Contract!Init
  BY DEF FInit, Contract!Init, Phase, CallsMade, LastExchange
<1>2. HandlerInv /\ [FNext]_fvars => [Contract!Next]_(Contract!cvars)
  <2>1. UNCHANGED Mapped => UNCHANGED Contract!cvars
    BY DEF Contract!cvars, Mapped, MPhase, MStream, MCalls, MLast, MReply
  <2> QED
    BY <2>1, ContractStep
<1> QED
  BY <1>1, <1>2, HandlerInvariant, PTL DEF FSpec
=============================================================================
