------------------------------ MODULE Forwarder ------------------------------
(***************************************************************************)
(* Requests on their way to a downstream server: with_retry (retry.rs) and *)
(* forward_request and forward_streaming (forwarder.rs), as callers of the *)
(* pool of KeyPool.tla.  Each step of the pool is taken by the request     *)
(* that makes the call.  The downstream server may answer anything, or not *)
(* at all: the HTTP client times out, which is a transport error.  A       *)
(* client that disconnects cancels the handler at whatever await it is in. *)
(***************************************************************************)
EXTENDS KeyPool

CONSTANTS
  MaxRetries,   \* config.downstream.max_retries
  Kinds,        \* requests the clients make: "whole" and "stream"
  Outcomes,     \* what an exchange may end in
  MaxRequests   \* bound: requests handled by one task

ASSUME ForwarderAssumption ==
  /\ MaxRetries \in Nat
  /\ Kinds \subseteq {"whole", "stream"}
  /\ Outcomes \subseteq {"success", "retryable", "rejected", "transport"}
  /\ MaxRequests \in Nat

VARIABLES
  ctl,       \* where the handler of each task is
  kind,      \* forward_request ("whole") or forward_streaming ("stream")
  attempt,   \* the loop variable of with_retry
  answer,    \* what the client gets, or is about to get once the body is read
  received,  \* requests each task has been given
  streak,    \* history: failed exchanges with a key since the last good one
  muted      \* history: one of them was not reported as a failure

handler == <<ctl, kind, attempt, answer, received>>
past    == <<streak, muted>>
fvars   == <<vars, handler, past>>

Answers == {"none", "ok", "passed", "downstream", "noKeys"}

FTypeOK ==
  /\ TypeOK
  /\ ctl \in [Tasks -> {"ready", "call", "sent", "failed", "sleep", "body",
                        "errorBody", "done"}]
  /\ kind \in [Tasks -> {"whole", "stream"}]
  /\ attempt \in [Tasks -> 0 .. MaxRetries]
  /\ answer \in [Tasks -> Answers]
  /\ received \in [Tasks -> 0 .. MaxRequests]
  /\ streak \in [Keys -> 0 .. Threshold]
  /\ muted \in [Keys -> BOOLEAN]

FInit ==
  /\ Init
  /\ ctl = [t \in Tasks |-> "ready"]
  /\ kind = [t \in Tasks |-> "whole"]
  /\ attempt = [t \in Tasks |-> 0]
  /\ answer = [t \in Tasks |-> "none"]
  /\ received = [t \in Tasks |-> 0]
  /\ streak = [k \in Keys |-> 0]
  /\ muted = [k \in Keys |-> FALSE]

At(t, from, to) == ctl[t] = from /\ ctl' = [ctl EXCEPT ![t] = to]

Answer(t, a) == answer' = [answer EXCEPT ![t] = a]

Clears(k) == streak' = [streak EXCEPT ![k] = 0] /\ muted' = [muted EXCEPT ![k] = FALSE]

\* An exchange with the key t holds went well, or badly.
GoodExchange(t) ==
  \/ held[t] \in Members /\ Clears(held[t])
  \/ held[t] \notin Members /\ UNCHANGED past

FailedExchange(t) ==
  streak' = IF held[t] \in Members
            THEN [streak EXCEPT ![held[t]] = IF @ < Threshold THEN @ + 1 ELSE @]
            ELSE streak

BadExchange(t) == FailedExchange(t) /\ UNCHANGED muted

\* It went badly, and the pool is not told so.
MutedExchange(t) ==
  /\ FailedExchange(t)
  /\ muted' = IF held[t] \in Members THEN [muted EXCEPT ![held[t]] = TRUE] ELSE muted

-----------------------------------------------------------------------------
Receive(t, k) ==
  /\ At(t, "ready", "call")
  /\ received[t] < MaxRequests
  /\ received' = [received EXCEPT ![t] = @ + 1]
  /\ kind' = [kind EXCEPT ![t] = k]
  /\ attempt' = [attempt EXCEPT ![t] = 0]
  /\ Answer(t, "none")
  /\ UNCHANGED <<vars, past>>

(* acquire_key, called at the head of the loop or once for a stream; "?"   *)
(* returns NoKeysAvailable to the client, whatever was tried before.       *)
CallAcquire(t) ==
  /\ ctl[t] = "call"
  /\ StartAcquire(t) \/ Scan(t)
  /\ UNCHANGED <<handler, past>>

Send(t) ==
  /\ At(t, "call", "sent")
  /\ Lend(t)
  /\ UNCHANGED <<kind, attempt, answer, received, past>>

NoKeysAvailable(t) ==
  /\ At(t, "call", "done")
  /\ Refuse(t)
  /\ Answer(t, "noKeys")
  /\ UNCHANGED <<kind, attempt, received, past>>

-----------------------------------------------------------------------------
(* The exchange ends.  A 2xx is a success for both kinds.                  *)
Succeed(t) ==
  /\ "success" \in Outcomes
  /\ At(t, "sent", IF kind[t] = "stream" THEN "done" ELSE "body")
  /\ ReportSuccess(t)
  /\ Answer(t, "ok")
  /\ GoodExchange(t)
  /\ UNCHANGED <<kind, attempt, received>>

(* with_retry: a status that is not worth a retry goes back to the client  *)
(* as it is, and the key is reported as good.                              *)
PassRejection(t) ==
  /\ "rejected" \in Outcomes
  /\ kind[t] = "whole"
  /\ At(t, "sent", "body")
  /\ ReportSuccess(t)
  /\ Answer(t, "passed")
  /\ MutedExchange(t)
  /\ UNCHANGED <<kind, attempt, received>>

IsRetryable(outcome) == outcome \in {"retryable", "transport"}

(* with_retry reports the retryable statuses and the transport errors,     *)
(* forward_streaming every status that is not 2xx.                         *)
Counted(t, outcome) == IF kind[t] = "whole" THEN IsRetryable(outcome)
                                            ELSE outcome \in {"retryable", "rejected"}

Fail(t) ==
  /\ \E outcome \in Outcomes : Counted(t, outcome)
  /\ At(t, "sent", "failed")
  /\ Bump(t) \/ (held[t] \notin Members /\ Drop(t))
  /\ BadExchange(t)
  /\ UNCHANGED <<kind, attempt, answer, received>>

(* forward_streaming: "send().await?" returns a transport error to the     *)
(* client without a report.                                                *)
StreamTransportError(t) ==
  /\ "transport" \in Outcomes
  /\ kind[t] = "stream"
  /\ At(t, "sent", "done")
  /\ Drop(t)
  /\ Answer(t, "downstream")
  /\ MutedExchange(t)
  /\ UNCHANGED <<kind, attempt, received>>

FinishReport(t) ==
  /\ MarkUnhealthy(t) \/ SpawnRecovery(t)
  /\ UNCHANGED <<handler, past>>

\* Mutant: the last attempt is followed by a sleep and one more attempt.
AttemptsLeftLate(t) == attempt[t] <= MaxRetries

AttemptsLeft(t) == attempt[t] < MaxRetries

BackOff(t) ==
  /\ pc[t] = "idle"
  /\ kind[t] = "whole"
  /\ AttemptsLeft(t)
  /\ At(t, "failed", "sleep")
  /\ UNCHANGED <<vars, kind, attempt, answer, received, past>>

Wake(t) ==
  /\ At(t, "sleep", "call")
  /\ attempt' = [attempt EXCEPT ![t] = @ + 1]
  /\ UNCHANGED <<vars, kind, answer, received, past>>

\* Err(last_error), after the last attempt.
Exhausted(t) ==
  /\ pc[t] = "idle"
  /\ kind[t] = "whole"
  /\ attempt[t] = MaxRetries
  /\ At(t, "failed", "done")
  /\ Answer(t, "downstream")
  /\ UNCHANGED <<vars, kind, attempt, received, past>>

\* forward_streaming reads the body of the error for its message.
ReadErrorBody(t) ==
  /\ pc[t] = "idle"
  /\ kind[t] = "stream"
  /\ \/ At(t, "failed", "errorBody") /\ UNCHANGED answer
     \/ At(t, "errorBody", "done") /\ Answer(t, "downstream")
  /\ UNCHANGED <<vars, kind, attempt, received, past>>

(* resp.bytes().await of forward_request: the connection may still break,  *)
(* after the key has been reported as good.                                *)
ReadBody(t) ==
  /\ At(t, "body", "done")
  /\ UNCHANGED answer \/ Answer(t, "downstream")
  /\ UNCHANGED <<vars, kind, attempt, received, past>>

\* Besides the exchange itself; the calls of the pool do not await.
Awaits == {"sleep", "body", "errorBody"}

\* Mutant: a drop guard that counts an error for the key of the exchange.
AbandonedCounting(t) ==
  /\ Release(t)
  /\ errors' = [errors EXCEPT ![held[t]] = IF @ < Threshold THEN @ + 1 ELSE @]
  /\ UNCHANGED <<order, weight, healthy, rr, timers, scan>>

\* Mutant: a drop guard that reports the exchange as a good one.
AbandonedGood(t) == ReportSuccess(t)

(* A handler that is dropped in the middle of an exchange reports nothing. *)
Abandoned(t) == Drop(t)

Disconnect(t) ==
  /\ \/ At(t, "sent", "ready") /\ Abandoned(t)
     \/ /\ \E at \in Awaits : At(t, at, "ready")
        /\ UNCHANGED vars
  /\ Answer(t, "none")
  /\ UNCHANGED <<kind, attempt, received, past>>

Finish(t) ==
  /\ At(t, "done", "ready")
  /\ UNCHANGED <<vars, kind, attempt, answer, received, past>>

-----------------------------------------------------------------------------
FRecover(k) ==
  \/ RecoverHealthy(k) /\ UNCHANGED <<handler, past>>
  \/ RecoverErrors(k) /\ Clears(k) /\ UNCHANGED handler

FAdmin(k) == Admin(k) /\ Clears(k) /\ UNCHANGED handler

FTick == Tick /\ UNCHANGED <<handler, past>>

Exchange(t) ==
  Succeed(t) \/ PassRejection(t) \/ Fail(t) \/ StreamTransportError(t)

Handle(t) ==
  \/ CallAcquire(t) \/ Send(t) \/ NoKeysAvailable(t)
  \/ Exchange(t)
  \/ FinishReport(t)
  \/ BackOff(t) \/ Wake(t) \/ Exhausted(t)
  \/ ReadBody(t) \/ ReadErrorBody(t)
  \/ Finish(t)

FNext ==
  \/ \E t \in Tasks : \/ \E k \in Kinds : Receive(t, k)
                      \/ Handle(t)
                      \/ Disconnect(t)
  \/ \E k \in Keys : FRecover(k) \/ FAdmin(k)
  \/ FTick

FSpec == FInit /\ [][FNext]_fvars

(* Handlers run whenever they can: no await of theirs lasts for ever (the  *)
(* HTTP client has a timeout, a sleep ends).  Timers as in KeyPool.        *)
FFairness ==
  /\ \A t \in Tasks : WF_fvars(Handle(t))
  /\ \A k \in Keys : WF_fvars(FRecover(k))
  /\ WF_fvars(FTick)

FFairSpec == FSpec /\ FFairness

-----------------------------------------------------------------------------
\* Exchanges begun for the request of t, as long as it is not answered.
CallsMade(t) ==
  CASE ctl[t] \in {"ready", "done"} -> 0
    [] ctl[t] = "call"              -> attempt[t]
    [] OTHER                        -> attempt[t] + 1

LastExchange(t) ==
  CASE ctl[t] = "body"                              -> "good"
    [] ctl[t] \in {"failed", "sleep", "errorBody"} -> "bad"
    [] ctl[t] \in {"call", "sent"} /\ attempt[t] > 0 -> "bad"
    [] OTHER                                        -> "none"

Phase(t) ==
  CASE ctl[t] = "ready" -> "idle"
    [] ctl[t] = "sent"  -> "calling"
    [] ctl[t] = "done"  -> "replied"
    [] OTHER            -> "pending"

Contract == INSTANCE RequestContract WITH
  Clients  <- Tasks,
  MaxCalls <- MaxRetries + 1,
  phase    <- [t \in Tasks |-> Phase(t)],
  stream   <- [t \in Tasks |-> kind[t] = "stream"],
  calls    <- [t \in Tasks |-> CallsMade(t)],
  last     <- [t \in Tasks |-> LastExchange(t)],
  reply    <- [t \in Tasks |-> IF ctl[t] = "done" THEN answer[t] ELSE "none"],
  requests <- received

(* Every request is carried out as RequestContract says, and answered:     *)
(* with_retry makes no more than max_retries + 1 exchanges, gives up only  *)
(* after the last or for lack of keys (retry.rs:20-67), and a stream makes *)
(* one (forwarder.rs:79-119), whatever happens to the keys meanwhile.      *)
ImplementsContract == Contract!Spec

(* A key is tripped for cause (key_pool.rs:101-103 with retry.rs:23-58):   *)
(* whatever requests overlap, are retried or vanish, the report that takes *)
(* it out of rotation is at least the third failed exchange in a row with  *)
(* it.  An exchange is not counted twice, and one that the client broke    *)
(* off not at all.                                                         *)
CooledForCause ==
  [][\A t \in Tasks : pc[t] # "marking" /\ pc'[t] = "marking" =>
       streak'[held[t]] = Threshold]_fvars

(* A key that keeps failing stays in rotation only through the exchanges   *)
(* that are not reported as failures: the statuses with_retry passes on    *)
(* (retry.rs:46-50) and the transport errors of a stream                   *)
(* (forwarder.rs:85-91).  Nothing else, a disconnect or a late answer,     *)
(* breaks a row of Threshold failures.                                     *)
OnlySilenceHides ==
  \A k \in Keys : streak[k] = Threshold /\ ~ muted[k] /\ healthy[k] =>
    \/ resetting[k] > 0
    \/ \E t \in Tasks : pc[t] = "marking" /\ held[t] = k

(* What README.md:14 says: the proxy tracks the failures of a key, and a   *)
(* key that keeps returning errors is cooled down.  A key with Threshold   *)
(* failed exchanges in a row is out of rotation, unless a request is just  *)
(* taking it out or a recovery task is just giving it a fresh start.       *)
FailuresCool ==
  \A k \in Keys : streak[k] = Threshold /\ healthy[k] =>
    \/ resetting[k] > 0
    \/ \E t \in Tasks : pc[t] = "marking" /\ held[t] = k
=============================================================================
