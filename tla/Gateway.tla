------------------------------- MODULE Gateway -------------------------------
(***************************************************************************)
(* The whole path of a request: the layers of router.rs in their order     *)
(* (authentication, rate limit, handler), around an exchange of which only *)
(* RequestContract is known, which Forwarder implements; administrators,   *)
(* whose calls await the remote database and issue and revoke client keys; *)
(* and the graceful shutdown of main.rs.  Each step of the limiter or of   *)
(* the exchange is taken together with the step of the request that it     *)
(* belongs to.                                                             *)
(***************************************************************************)
EXTENDS RateLimiter, FiniteSets

CONSTANTS
  MaxCalls,    \* max_retries + 1
  MaxRequests, \* bound: requests forwarded by one task
  MaxAdmins    \* bound: admin calls under way

ASSUME GatewayAssumption ==
  /\ IsFiniteSet(Tasks)
  /\ MaxCalls \in Nat \ {0} /\ MaxRequests \in Nat /\ MaxAdmins \in Nat

VARIABLES
  place,     \* how far the request of each task has come
  client,    \* its ClientKey extension, set by the authentication
  stalled,   \* its client neither sends, nor reads, nor closes the connection
  keys,      \* AppState::client_keys
  server,    \* "serving", "draining" after a signal, or "exited"
  admins,    \* calls of the admin routes that have not been answered
  phase, stream, calls, outcome, reply, made,    \* see RequestContract
  issued,    \* history: every key that was ever in keys
  exchanges, \* history: exchanges begun for each client
  allowance  \* history: those a revoked client's requests in progress may begin

Exchange == INSTANCE RequestContract WITH
  Clients <- Tasks, last <- outcome, requests <- made

limiter  == vars
exchange == <<phase, stream, calls, outcome, reply, made>>
request  == <<place, client, stalled>>
process  == <<keys, server, admins>>
ghosts   == <<issued, exchanges, allowance>>
gvars    == <<limiter, exchange, request, process, ghosts>>

GTypeOK ==
  /\ TypeOK
  /\ place \in [Tasks -> {"idle", "asking", "reading", "handling", "sending"}]
  /\ client \in [Tasks -> Clients \cup {NoClient}]
  /\ stalled \in [Tasks -> BOOLEAN]
  /\ keys \subseteq issued /\ issued \subseteq Clients
  /\ server \in {"serving", "draining", "exited"}
  /\ admins \in 0 .. MaxAdmins
  /\ \A t \in Tasks : /\ place[t] = "handling" <=> phase[t] # "idle"
                      /\ place[t] = "asking" <=> asking[t] # NoClient
                      /\ place[t] \in {"asking", "reading", "handling"} => client[t] # NoClient
  /\ exchanges \in [Clients -> Nat]
  /\ allowance \in [Clients -> Int]

GInit ==
  /\ Init /\ Exchange!Init
  /\ place = [t \in Tasks |-> "idle"]
  /\ client = [t \in Tasks |-> NoClient]
  /\ stalled = [t \in Tasks |-> FALSE]
  /\ keys \in SUBSET Clients
  /\ server = "serving"
  /\ admins = 0
  /\ issued = keys
  /\ exchanges = [c \in Clients |-> 0]
  /\ allowance = [c \in Clients |-> 0]

Go(t, from, to) == place[t] = from /\ place' = [place EXCEPT ![t] = to]

-----------------------------------------------------------------------------
\* Mutant: a key that was once issued lets a request in.
KnownOnce(c) == c \in issued

\* Mutant: the rate limit is applied before the key is looked up.
Known(c) == c \in Clients

Accepted(c) == c \in keys

(* auth: the read lock is released before the limiter is asked.            *)
Authenticate(t, c) ==
  /\ server = "serving"
  /\ Accepted(c)
  /\ Go(t, "idle", "asking")
  /\ client' = [client EXCEPT ![t] = c]
  /\ Ask(t, c)
  /\ UNCHANGED <<exchange, stalled, process, ghosts>>

\* AppError::Unauthorized.
Unauthorized(t) ==
  /\ server = "serving"
  /\ \E c \in Clients : ~ Accepted(c)
  /\ Go(t, "idle", "sending")
  /\ UNCHANGED <<limiter, exchange, client, stalled, process, ghosts>>

LetIn(t) ==
  /\ Go(t, "asking", "reading")
  /\ Admit(t)
  /\ UNCHANGED <<exchange, client, stalled, process, ghosts>>

\* Mutant: the answer 429 is prepared, but the request goes on.
TurnAwayLate(t) ==
  /\ Go(t, "asking", "reading")
  /\ Reject(t)
  /\ UNCHANGED <<exchange, client, stalled, process, ghosts>>

TurnAway(t) ==
  /\ Go(t, "asking", "sending")
  /\ Reject(t)
  /\ UNCHANGED <<exchange, client, stalled, process, ghosts>>

(* The Json extractor awaits the client's whole body.  One that is no JSON *)
(* is answered at once; its token is spent.                                *)
ReadRequest(t) ==
  /\ ~ stalled[t]
  /\ \/ Go(t, "reading", "handling") /\ Exchange!Request(t)
     \/ Go(t, "reading", "sending") /\ UNCHANGED exchange
  /\ UNCHANGED <<limiter, client, stalled, process, ghosts>>

Spend(c) == IF c \in keys THEN allowance
                          ELSE [allowance EXCEPT ![c] = @ - 1]

BeginExchange(t) ==
  /\ place[t] = "handling"
  /\ Exchange!Call(t)
  /\ exchanges' = [exchanges EXCEPT ![client[t]] = @ + 1]
  /\ allowance' = Spend(client[t])
  /\ UNCHANGED <<limiter, request, process, issued>>

Handle(t) ==
  /\ place[t] = "handling"
  /\ Exchange!Return(t) \/ Exchange!Reply(t) \/ Exchange!ReplyAtOnce(t)
  /\ UNCHANGED <<limiter, request, process, ghosts>>

\* The handler returns its response; rate_limit adds a header to it.
Respond(t) ==
  /\ Go(t, "handling", "sending")
  /\ Exchange!Collect(t)
  /\ UNCHANGED <<limiter, client, stalled, process, ghosts>>

Closed(t) == /\ client' = [client EXCEPT ![t] = NoClient]
             /\ stalled' = [stalled EXCEPT ![t] = FALSE]

\* Mutant: the HTTP client puts no limit on the time of a stream.
SendResponseUnlimited(t) ==
  /\ ~ stalled[t] /\ ~ stream[t]
  /\ Go(t, "sending", "idle")
  /\ Closed(t)
  /\ UNCHANGED <<limiter, exchange, process, ghosts>>

(* The response, or the stream that is piped through, has been sent: the   *)
(* HTTP client's timeout ends a stream that the server does not end.       *)
SendResponse(t) ==
  /\ ~ stalled[t]
  /\ Go(t, "sending", "idle")
  /\ Closed(t)
  /\ UNCHANGED <<limiter, exchange, process, ghosts>>

Stall(t) ==
  /\ place[t] \in {"reading", "sending"}
  /\ stalled' = [stalled EXCEPT ![t] = TRUE]
  /\ UNCHANGED <<limiter, exchange, place, client, process, ghosts>>

\* Mutant: the exchange is left under way.
DisconnectOnly(t) ==
  /\ \E p \in {"reading", "handling", "sending"} : Go(t, p, "idle")
  /\ Closed(t)
  /\ UNCHANGED <<limiter, exchange, process, ghosts>>

Disconnect(t) ==
  /\ \/ Go(t, "handling", "idle") /\ Exchange!Abort(t)
     \/ /\ \E p \in {"reading", "sending"} : Go(t, p, "idle")
        /\ UNCHANGED exchange
  /\ Closed(t)
  /\ UNCHANGED <<limiter, process, ghosts>>

-----------------------------------------------------------------------------
(* A call of an admin route: its handler awaits the remote database, which *)
(* is given no time limit.                                                 *)
CallAdmin ==
  /\ server = "serving" /\ admins < MaxAdmins
  /\ admins' = admins + 1
  /\ UNCHANGED <<limiter, exchange, request, keys, server, ghosts>>

AnswerAdmin == admins > 0 /\ admins' = admins - 1

\* A call that changes no client key, fails, or is given up by its client.
EndAdmin ==
  /\ AnswerAdmin
  /\ UNCHANGED <<limiter, exchange, request, keys, server, ghosts>>

(* The last step of add_client_key and of delete_client_key.               *)
IssueKey(c) ==
  /\ AnswerAdmin /\ c \notin keys
  /\ keys' = keys \cup {c}
  /\ issued' = issued \cup {c}
  /\ UNCHANGED <<limiter, exchange, request, server, exchanges, allowance>>

InProgress(c) == {t \in Tasks : client[t] = c /\ place[t] # "sending"}

RevokeKey(c) ==
  /\ AnswerAdmin /\ c \in keys
  /\ keys' = keys \ {c}
  /\ allowance' = [allowance EXCEPT ![c] = MaxCalls * Cardinality(InProgress(c))]
  /\ UNCHANGED <<limiter, exchange, request, server, issued, exchanges>>

(* shutdown_signal: no request is taken any more.                          *)
Signal ==
  /\ server = "serving"
  /\ server' = "draining"
  /\ UNCHANGED <<limiter, exchange, request, keys, admins, ghosts>>

(* serve returns when the last connection is closed, those of the admin    *)
(* routes included.                                                        *)
Exit ==
  /\ server = "draining"
  /\ admins = 0 /\ \A t \in Tasks : place[t] = "idle"
  /\ server' = "exited"
  /\ UNCHANGED <<limiter, exchange, request, keys, admins, ghosts>>

GTick == Tick /\ UNCHANGED <<exchange, request, process, ghosts>>

Serve(t) ==
  \/ LetIn(t) \/ TurnAway(t) \/ ReadRequest(t)
  \/ BeginExchange(t) \/ Handle(t) \/ Respond(t) \/ SendResponse(t)

GNext ==
  \/ \E t \in Tasks : \/ \E c \in Clients : Authenticate(t, c)
                      \/ Unauthorized(t)
                      \/ Serve(t)
                      \/ Stall(t) \/ Disconnect(t)
  \/ \E c \in Clients : IssueKey(c) \/ RevokeKey(c)
  \/ CallAdmin \/ EndAdmin \/ Signal \/ Exit \/ GTick

GSpec == GInit /\ [][GNext]_gvars

(* The server's own steps are taken; the exchange ends by RequestContract. *)
(* Clients, administrators and the database owe nothing, and a signal need *)
(* not come.                                                               *)
GFairSpec == GSpec /\ WF_gvars(Exit) /\ \A t \in Tasks : WF_gvars(Serve(t))

-----------------------------------------------------------------------------
(* The limiter only ever sees keys that were issued (router.rs:24-28):     *)
(* the map of buckets, which nothing empties (rate_limiter.rs:49 has no    *)
(* caller), grows with the keys issued and not with what clients send.     *)
OnlyIssuedKeysHaveBuckets == buckets \subseteq issued

(* What a client can make the downstream servers do is bounded by its      *)
(* bucket: no exchange without a token, no more than MaxCalls for one      *)
(* (rate_limit.rs:22-30, retry.rs:20), whatever it breaks off.             *)
LoadBounded ==
  \A c \in buckets :
    Unit * exchanges[c] <= MaxCalls * (max_tokens + Rate * ((last[c] - start[c]) + rewound[c]))

(* Revoking a key (admin.rs:140-143) bites: afterwards no more exchanges   *)
(* are begun for it than its requests in progress may still make, until    *)
(* the key is issued again (auth.rs:41).                                   *)
RevocationBites == \A c \in Clients : allowance[c] >= 0

\* Nobody keeps a connection of the server open.
Unheld == admins = 0 /\ \A t \in Tasks : ~ stalled[t]

(* A shutdown completes (main.rs:48-50) once nobody keeps a connection     *)
(* open, even if every downstream server and every key fails.  There is no *)
(* deadline for those who do: a client that stalls, and an admin call that *)
(* waits for the database, hold the server up as long as they like.        *)
ShutdownCompletes == <>[]Unheld => (server = "draining" ~> server = "exited")
=============================================================================
