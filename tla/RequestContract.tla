--------------------------- MODULE RequestContract ---------------------------
(***************************************************************************)
(* What a client may count on: its request causes a bounded number of      *)
(* exchanges with downstream servers, one at a time, stops at the first    *)
(* one that a server completed, and is answered once, with an answer that  *)
(* fits the exchanges made.  Nothing is said of keys.                      *)
(***************************************************************************)
EXTENDS Integers

CONSTANTS
  Clients,     \* requests in progress, one per client
  MaxCalls,    \* exchanges made for an ordinary request
  MaxRequests  \* bound: requests of one client

VARIABLES
  phase,    \* "idle", "pending", "calling" or "replied"
  stream,   \* the request asks for a stream
  calls,    \* exchanges begun for the request
  last,     \* how the last one ended
  reply,    \* the answer
  requests  \* requests made by each client

cvars == <<phase, stream, calls, last, reply, requests>>

Limit(c) == IF stream[c] THEN 1 ELSE MaxCalls

Init ==
  /\ phase = [c \in Clients |-> "idle"]
  /\ stream = [c \in Clients |-> FALSE]
  /\ calls = [c \in Clients |-> 0]
  /\ last = [c \in Clients |-> "none"]
  /\ reply = [c \in Clients |-> "none"]
  /\ requests = [c \in Clients |-> 0]

Move(c, from, to) == phase[c] = from /\ phase' = [phase EXCEPT ![c] = to]

Forget(c) ==
  /\ calls' = [calls EXCEPT ![c] = 0]
  /\ last' = [last EXCEPT ![c] = "none"]

Request(c) ==
  /\ Move(c, "idle", "pending")
  /\ requests[c] < MaxRequests
  /\ requests' = [requests EXCEPT ![c] = @ + 1]
  /\ \E s \in BOOLEAN : stream' = [stream EXCEPT ![c] = s]
  /\ UNCHANGED <<calls, last, reply>>

Call(c) ==
  /\ Move(c, "pending", "calling")
  /\ last[c] \in {"none", "bad"}
  /\ calls[c] < Limit(c)
  /\ calls' = [calls EXCEPT ![c] = @ + 1]
  /\ UNCHANGED <<stream, last, reply, requests>>

Return(c) ==
  /\ Move(c, "calling", "pending")
  /\ \E result \in {"good", "bad"} : last' = [last EXCEPT ![c] = result]
  /\ UNCHANGED <<stream, calls, reply, requests>>

(* The answers that fit: a server's answer, or the news that it broke off, *)
(* after a completed exchange; an error after the last failed one; the     *)
(* lack of a key before any exchange.                                      *)
Fits(c) ==
  CASE last[c] = "good" -> {"ok", "passed", "downstream"}
    [] last[c] = "bad" /\ calls[c] = Limit(c) -> {"downstream"}
    [] OTHER -> {"noKeys"}

Reply(c) ==
  /\ Move(c, "pending", "replied")
  /\ \E a \in Fits(c) : reply' = [reply EXCEPT ![c] = a]
  /\ Forget(c)
  /\ UNCHANGED <<stream, requests>>

(* A stream's exchange and its answer are one step: the headers are sent   *)
(* to the client as soon as they are received.                             *)
ReplyAtOnce(c) ==
  /\ stream[c]
  /\ Move(c, "calling", "replied")
  /\ \E a \in {"ok", "downstream"} : reply' = [reply EXCEPT ![c] = a]
  /\ Forget(c)
  /\ UNCHANGED <<stream, requests>>

Abort(c) ==
  /\ phase[c] \in {"pending", "calling"}
  /\ phase' = [phase EXCEPT ![c] = "idle"]
  /\ Forget(c)
  /\ UNCHANGED <<stream, reply, requests>>

Collect(c) ==
  /\ Move(c, "replied", "idle")
  /\ reply' = [reply EXCEPT ![c] = "none"]
  /\ UNCHANGED <<stream, calls, last, requests>>

Progress(c) == Call(c) \/ Return(c) \/ Reply(c) \/ ReplyAtOnce(c)

Next ==
  \E c \in Clients : Request(c) \/ Progress(c) \/ Abort(c) \/ Collect(c)

Spec == Init /\ [][Next]_cvars /\ \A c \in Clients : WF_cvars(Progress(c))
=============================================================================
