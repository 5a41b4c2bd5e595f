----------------------------- MODULE RequestLog ------------------------------
(***************************************************************************)
(* The request log: the handlers that record a request (openai.rs,         *)
(* anthropic.rs), the table request_logs (db.rs), and the dashboard page   *)
(* that reads the table a page at a time by offset, while it grows         *)
(* (admin.rs get_logs, admin_dashboard.html).                              *)
(*                                                                         *)
(* A row carries the second of its insertion, and the query orders by it:  *)
(* the order of the rows of one second is the database's, but rows once    *)
(* ordered stay so.  Filters are left out: they stand for another table.   *)
(***************************************************************************)
EXTENDS Integers, FiniteSets, SequencesExt

CONSTANTS
  Requests,   \* requests answered by a downstream server
  Endpoints,  \* the endpoints they are made to
  PageSize,   \* LOGS_PAGE_SIZE; get_logs caps it at 500
  Slots,      \* bound: page loads of the dashboard at one time
  MaxShown    \* bound: rows in the table, or skipped, when more are loaded

\* The endpoints that record a request, and all that forward one.
Recorders  == {"/chat/completions", "/messages"}
Forwarders == Recorders \cup {"/completions", "/embeddings", "/models"}

ASSUME RequestLogAssumption ==
  /\ Endpoints \subseteq Forwarders
  /\ IsFiniteSet(Requests) /\ IsFiniteSet(Slots)
  /\ PageSize \in 1 .. 500
  /\ MaxShown \in Nat

VARIABLES
  task,     \* the recording of each request: "none", "spawned" or "over"
  rows,     \* request_logs in the order of query_logs, newest first
  fresh,    \* how many of them were inserted within the current second
  offset,   \* logsOffset of the dashboard
  table,    \* logs-table-body
  more,     \* load-more-btn is visible
  load,     \* page loads under way
  first,    \* history: the rows when the first page in the table was read
  orderly   \* history: since the last refresh no load failed or overlapped

log   == <<task, rows, fresh>>
page  == <<offset, table, more, load>>
vars  == <<log, page, first, orderly>>

NoLoad == [state |-> "none", offset |-> 0, replace |-> FALSE, logs |-> << >>]

Loads == [state : {"none", "sent", "answered"}, offset : Nat, replace : BOOLEAN,
          logs : Seq(Requests)]

TypeOK ==
  /\ task \in [Requests -> {"none", "spawned", "over"}]
  /\ rows \in Seq(Requests) /\ IsInjective(rows)
  /\ fresh \in 0 .. Len(rows)
  /\ offset \in Nat
  /\ table \in Seq(Requests)
  /\ more \in BOOLEAN
  /\ load \in [Slots -> Loads]
  /\ first \in Seq(Requests)
  /\ orderly \in BOOLEAN

Init ==
  /\ task = [r \in Requests |-> "none"]
  /\ rows = << >>
  /\ fresh = 0
  /\ offset = 0
  /\ table = << >>
  /\ more = FALSE
  /\ load = [s \in Slots |-> NoLoad]
  /\ first = << >>
  /\ orderly = FALSE

-----------------------------------------------------------------------------
(* A handler has the downstream's whole answer.  It spawns the recording   *)
(* and answers the client; a stream, and the other endpoints, are never    *)
(* recorded.                                                               *)
Serve(r, endpoint, streamed) ==
  /\ task[r] = "none"
  /\ task' = [task EXCEPT ![r] = IF endpoint \in Recorders /\ ~ streamed
                                 THEN "spawned" ELSE "over"]
  /\ UNCHANGED <<rows, fresh, page, first, orderly>>

\* Mutant: the insertion is tried again although it was executed.
RetriedOnce(r) == task

Recorded(r) == [task EXCEPT ![r] = "over"]

RecordRequest(r) ==
  /\ task[r] = "spawned"
  /\ task' = Recorded(r)
  /\ \E i \in 1 .. fresh + 1 : rows' = InsertAt(rows, i, r)
  /\ fresh' = fresh + 1
  /\ UNCHANGED <<page, first, orderly>>

(* The insertion fails, which nobody is told.                              *)
RecordFails(r) ==
  /\ task[r] = "spawned"
  /\ task' = [task EXCEPT ![r] = "over"]
  /\ UNCHANGED <<rows, fresh, page, first, orderly>>

(* The process exits: a graceful shutdown waits for the connections, and   *)
(* not for the recordings.                                                 *)
Exit ==
  /\ \E r \in Requests : task[r] = "spawned"
  /\ task' = [r \in Requests |-> IF task[r] = "spawned" THEN "over" ELSE task[r]]
  /\ UNCHANGED <<rows, fresh, page, first, orderly>>

NextSecond ==
  /\ fresh > 0
  /\ fresh' = 0
  /\ UNCHANGED <<task, rows, page, first, orderly>>

-----------------------------------------------------------------------------
Under(state) == {s \in Slots : load[s].state = state}

Alone == Under("none") = Slots

Send(s, from, replacing) ==
  /\ load[s].state = "none"
  /\ load' = [load EXCEPT ![s] = [NoLoad EXCEPT !.state = "sent", !.offset = from,
                                                !.replace = replacing]]

\* Mutant: a refresh goes on from the page reached.
PageReached == offset

FirstPage == 0

(* loadRequestLogs: the tab is opened, refreshed, or given a new filter.   *)
LoadRequestLogs(s) ==
  /\ offset' = FirstPage
  /\ more' = FALSE
  /\ Send(s, offset', TRUE)
  /\ orderly' = Alone
  /\ UNCHANGED <<log, table, first>>

(* loadMoreLogs moves the offset before it knows that the page arrives,    *)
(* and leaves the button where it is.                                      *)
LoadMoreLogs(s) ==
  /\ more
  /\ Len(table) < MaxShown /\ offset < MaxShown
  /\ offset' = offset + PageSize
  /\ Send(s, offset', FALSE)
  /\ orderly' = (orderly /\ Alone)
  /\ UNCHANGED <<log, table, more, first>>

\* ORDER BY timestamp DESC LIMIT PageSize OFFSET from.
QueryLogs(from) == SubSeq(rows, from + 1, Min({from + PageSize, Len(rows)}))

(* get_logs reads the table.                                               *)
GetLogs(s) ==
  /\ load[s].state = "sent"
  /\ load' = [load EXCEPT ![s].state = "answered", ![s].logs = QueryLogs(load[s].offset)]
  /\ first' = IF load[s].replace THEN rows ELSE first
  /\ UNCHANGED <<log, offset, table, more, orderly>>

EndLoad(s) == load' = [load EXCEPT ![s] = NoLoad]

\* Mutant: a refresh does not clear the table.
AppendedTo(l) == table \o l.logs

ShownWith(l) == IF l.replace THEN l.logs ELSE table \o l.logs

(* The answer reaches the dashboard, in any order; has_more shows the      *)
(* button or hides it.                                                     *)
Show(s) ==
  /\ load[s].state = "answered"
  /\ table' = ShownWith(load[s])
  /\ more' = (Len(load[s].logs) = PageSize)
  /\ EndLoad(s)
  /\ UNCHANGED <<log, offset, first, orderly>>

\* A toast is all the user sees of it: neither the offset nor the table moves back.
LoadFails(s) ==
  /\ load[s].state # "none"
  /\ EndLoad(s)
  /\ orderly' = FALSE
  /\ UNCHANGED <<log, offset, table, more, first>>

Next ==
  \/ \E r \in Requests : \/ \E e \in Endpoints : \E b \in BOOLEAN : Serve(r, e, b)
                         \/ RecordRequest(r) \/ RecordFails(r)
  \/ Exit
  \/ NextSecond
  \/ \E s \in Slots : \/ LoadRequestLogs(s) \/ LoadMoreLogs(s)
                      \/ GetLogs(s) \/ Show(s) \/ LoadFails(s)

Spec == Init /\ [][Next]_vars

-----------------------------------------------------------------------------
Settled == orderly /\ Alone

(* Paging by offset skips nothing although the table grows between two     *)
(* pages (db.rs:141-147, admin_dashboard.html:921-930): of the rows that   *)
(* existed when the first page was read, the table shows all that the      *)
(* pages so far reach, and every one when the button is gone, unless a     *)
(* load failed or overlapped another.                                      *)
PagesCoverTheLog ==
  Settled =>
    LET grown == Len(rows) - Len(first)
    IN  \A i \in 1 .. Len(first) :
          i <= offset + PageSize - grown \/ ~ more => first[i] \in ToSet(table)

(* What growth does do: rows shown twice, but no more of them than rows    *)
(* were inserted since the first page was read.                            *)
RepeatsAccounted ==
  Settled => Len(table) - Cardinality(ToSet(table)) <= Len(rows) - Len(first)
=============================================================================
