--------------------------- MODULE RequestLogProofs --------------------------
(***************************************************************************)
(* Proofs about RequestLog, for any number of requests and of page loads   *)
(* and any page size: paging by offset skips nothing of a log that grows.  *)
(***************************************************************************)
EXTENDS RequestLog, TLAPS, FiniteSetTheorems, SequenceTheorems

\* SequencesExt!InsertAt: the elements from i on move up by one.
LEMMA Inserted ==
  ASSUME NEW s \in Seq(Requests), NEW i \in 1 .. Len(s) + 1, NEW r \in Requests
  PROVE  /\ InsertAt(s, i, r) \in Seq(Requests)
         /\ Len(InsertAt(s, i, r)) = Len(s) + 1
         /\ \A p \in 1 .. Len(s) + 1 :
              InsertAt(s, i, r)[p] = IF p < i THEN s[p]
                                     ELSE IF p = i THEN r ELSE s[p - 1]
<1> DEFINE low == SubSeq(s, 1, i - 1)
           high == SubSeq(s, i, Len(s))
           both == low \o <<r>>
<1>0. Len(s) \in Nat /\ i \in Int /\ \A p \in 1 .. Len(s) : s[p] \in Requests
  BY LenProperties, ElementOfSeq
<1>1. /\ low \in Seq(Requests) /\ Len(low) = i - 1
      /\ \A p \in 1 .. i - 1 : low[p] = s[p]
  BY <1>0, SubSeqProperties
<1>2. /\ high \in Seq(Requests) /\ Len(high) = Len(s) - i + 1
      /\ \A p \in 1 .. Len(s) - i + 1 : high[p] = s[i + p - 1]
  BY <1>0, SubSeqProperties
<1>3. <<r>> \in Seq(Requests) /\ Len(<<r>>) = 1 /\ <<r>>[1] = r
  OBVIOUS
<1>4. /\ both \in Seq(Requests) /\ Len(both) = i
      /\ \A p \in 1 .. i : both[p] = IF p < i THEN s[p] ELSE r
  <2> HIDE DEF low
  <2>1. /\ both \in Seq(Requests) /\ Len(both) = Len(low) + 1
        /\ \A p \in 1 .. Len(low) + 1 :
             both[p] = IF p <= Len(low) THEN low[p] ELSE <<r>>[p - Len(low)]
    BY <1>1, <1>3, ConcatProperties
  <2> HIDE DEF both
  <2> QED
    BY <1>0, <1>1, <1>3, <2>1
<1>5. InsertAt(s, i, r) = both \o high
  BY DEF InsertAt
<1> HIDE DEF both, high
<1>6. /\ both \o high \in Seq(Requests) /\ Len(both \o high) = Len(both) + Len(high)
      /\ \A p \in 1 .. Len(both) + Len(high) :
           (both \o high)[p] = IF p <= Len(both) THEN both[p] ELSE high[p - Len(both)]
  BY <1>2, <1>4, ConcatProperties
<1> QED
  BY <1>0, <1>2, <1>4, <1>5, <1>6

LEMMA MinOfTwo ==
  ASSUME NEW a \in Int, NEW b \in Int
  PROVE  Min({a, b}) = IF a <= b THEN a ELSE b
  BY DEF Min

\* query_logs: the page from an offset on, as far as there are rows.
LEMMA Queried ==
  ASSUME TypeOK, NEW from \in Nat
  PROVE  /\ QueryLogs(from) \in Seq(Requests)
         /\ \A p \in 1 .. Len(rows) :
              from < p /\ p <= from + PageSize => rows[p] \in ToSet(QueryLogs(from))
         /\ Len(QueryLogs(from)) # PageSize => Len(rows) < from + PageSize
         /\ Len(QueryLogs(from)) <= PageSize
         /\ Len(QueryLogs(from)) = 0 \/ from + Len(QueryLogs(from)) <= Len(rows)
<1> DEFINE to == IF from + PageSize <= Len(rows) THEN from + PageSize ELSE Len(rows)
           page1 == SubSeq(rows, from + 1, to)
<1>1. PageSize \in Nat /\ PageSize > 0 /\ Len(rows) \in Nat
  BY RequestLogAssumption, LenProperties DEF TypeOK
<1>2. QueryLogs(from) = page1
  BY <1>1, MinOfTwo DEF QueryLogs
<1>3. to \in Nat /\ to <= Len(rows)
  BY <1>1
<1>4. \A p \in from + 1 .. to : rows[p] \in Requests
  BY <1>1, <1>3, ElementOfSeq DEF TypeOK
<1>5. /\ page1 \in Seq(Requests)
      /\ Len(page1) = IF from + 1 <= to THEN to - (from + 1) + 1 ELSE 0
      /\ \A q \in 1 .. to - (from + 1) + 1 : page1[q] = rows[(from + 1) + q - 1]
  BY <1>3, <1>4, SubSeqProperties
<1>6. ASSUME NEW p \in 1 .. Len(rows), from < p, p <= from + PageSize
      PROVE  rows[p] \in ToSet(page1)
  <2>1. p <= to
    BY <1>1, <1>6
  <2> HIDE DEF to, page1
  <2>2. p - from \in 1 .. Len(page1) /\ page1[p - from] = rows[p]
    BY <1>3, <1>5, <1>6, <2>1
  <2> QED
    BY <2>2 DEF ToSet
<1>7. Len(page1) # PageSize => Len(rows) < from + PageSize
  <2> HIDE DEF page1
  <2> QED
    BY <1>1, <1>5
<1>8. Len(page1) <= PageSize /\ (Len(page1) = 0 \/ from + Len(page1) <= Len(rows))
  <2> HIDE DEF page1
  <2> QED
    BY <1>1, <1>5
<1> QED
  BY <1>2, <1>5, <1>6, <1>7, <1>8
-----------------------------------------------------------------------------
(* A request whose row is in the table is over.                            *)
RowsOver == \A p \in 1 .. Len(rows) : task[rows[p]] = "over"

LogInv == TypeOK /\ RowsOver

LEMMA SendType ==
  ASSUME TypeOK, NEW s \in Slots, NEW from \in Nat, NEW b \in BOOLEAN, Send(s, from, b)
  PROVE  load' \in [Slots -> Loads]
<1>1. [NoLoad EXCEPT !.state = "sent", !.offset = from, !.replace = b] \in Loads
  BY EmptySeq DEF NoLoad, Loads
<1> QED
  BY <1>1 DEF Send, TypeOK

LEMMA EndLoadType ==
  ASSUME TypeOK, NEW s \in Slots, EndLoad(s)
  PROVE  load' \in [Slots -> Loads]
<1>1. NoLoad \in Loads
  BY EmptySeq DEF NoLoad, Loads
<1> QED
  BY <1>1 DEF EndLoad, TypeOK

LEMMA RowInserted ==
  ASSUME LogInv, NEW r \in Requests, RecordRequest(r)
  PROVE  /\ LogInv'
         /\ Len(rows') = Len(rows) + 1
         /\ \E i \in 1 .. Len(rows) + 1 : \A p \in 1 .. Len(rows) + 1 :
              rows'[p] = IF p < i THEN rows[p] ELSE IF p = i THEN r ELSE rows[p - 1]
<1>0. Len(rows) \in Nat /\ fresh \in 0 .. Len(rows)
  BY LenProperties DEF LogInv, TypeOK
<1>1. PICK i \in 1 .. fresh + 1 : rows' = InsertAt(rows, i, r)
  BY DEF RecordRequest
<1>2. i \in 1 .. Len(rows) + 1
  BY <1>0
<1>3. /\ rows' \in Seq(Requests) /\ Len(rows') = Len(rows) + 1
      /\ \A p \in 1 .. Len(rows) + 1 :
           rows'[p] = IF p < i THEN rows[p] ELSE IF p = i THEN r ELSE rows[p - 1]
  <2>1. rows \in Seq(Requests)
    BY DEF LogInv, TypeOK
  <2> HIDE DEF LogInv
  <2>2. /\ InsertAt(rows, i, r) \in Seq(Requests)
        /\ Len(InsertAt(rows, i, r)) = Len(rows) + 1
        /\ \A p \in 1 .. Len(rows) + 1 :
             InsertAt(rows, i, r)[p] = IF p < i THEN rows[p]
                                       ELSE IF p = i THEN r ELSE rows[p - 1]
    BY ONLY <1>2, <2>1, Inserted, r \in Requests
  <2> QED
    BY ONLY <1>1, <2>2
<1>4. task' = [task EXCEPT ![r] = "over"] /\ task[r] = "spawned"
  BY DEF RecordRequest, Recorded
<1>5. RowsOver'
  <2> SUFFICES ASSUME NEW p \in 1 .. Len(rows) + 1 PROVE task'[rows'[p]] = "over"
    BY <1>3 DEF RowsOver
  <2>1. CASE p < i
    <3>1. p \in 1 .. Len(rows) /\ rows'[p] = rows[p]
      BY <2>1, <1>0, <1>2, <1>3
    <3>2. rows[p] \in Requests /\ task[rows[p]] = "over"
      BY <3>1, ElementOfSeq DEF LogInv, RowsOver, TypeOK
    <3> QED
      BY <3>1, <3>2, <1>4 DEF LogInv, TypeOK
  <2>2. CASE p = i
    BY <2>2, <1>2, <1>3, <1>4 DEF LogInv, TypeOK
  <2>3. CASE p > i
    <3>1. p - 1 \in 1 .. Len(rows) /\ rows'[p] = rows[p - 1]
      BY <2>3, <1>0, <1>2, <1>3
    <3>2. rows[p - 1] \in Requests /\ task[rows[p - 1]] = "over"
      BY <3>1, ElementOfSeq DEF LogInv, RowsOver, TypeOK
    <3> QED
      BY <3>1, <3>2, <1>4 DEF LogInv, TypeOK
  <2> QED
    BY <2>1, <2>2, <2>3, <1>0, <1>2
<1>6. \A p \in 1 .. Len(rows) : rows[p] # r
  BY <1>4 DEF LogInv, RowsOver
<1>7. IsInjective(rows')
  <2>1. \A p, q \in 1 .. Len(rows) : rows[p] = rows[q] => p = q
    BY DEF LogInv, TypeOK, IsInjective
  <2>2. DOMAIN rows' = 1 .. Len(rows) + 1
    BY <1>3, LenProperties
  <2> DEFINE was(p) == IF p < i THEN p ELSE p - 1
  <2>3. ASSUME NEW p \in 1 .. Len(rows) + 1, p # i
        PROVE  was(p) \in 1 .. Len(rows) /\ rows'[p] = rows[was(p)]
    BY <2>3, <1>0, <1>2, <1>3
  <2>4. \A p, q \in 1 .. Len(rows) + 1 : p # i /\ q # i /\ was(p) = was(q) => p = q
    BY <1>0, <1>2
  <2>5. rows'[i] = r
    BY <1>0, <1>2, <1>3
  <2> HIDE DEF was
  <2>6. ASSUME NEW p \in 1 .. Len(rows) + 1, NEW q \in 1 .. Len(rows) + 1,
               rows'[p] = rows'[q]
        PROVE  p = q
    <3>1. CASE p = i
      BY <2>3, <2>5, <2>6, <3>1, <1>6
    <3>2. CASE q = i
      BY <2>3, <2>5, <2>6, <3>2, <1>6
    <3>3. CASE p # i /\ q # i
      BY <2>1, <2>3, <2>4, <2>6, <3>3
    <3> QED
      BY <3>1, <3>2, <3>3
  <2> QED
    BY <2>2, <2>6 DEF IsInjective
<1>8. fresh' \in 0 .. Len(rows')
  BY <1>0, <1>3 DEF RecordRequest
<1>9. TypeOK'
  BY <1>3, <1>4, <1>7, <1>8 DEF LogInv, TypeOK, RecordRequest, page
<1> QED
  BY <1>2, <1>3, <1>5, <1>9 DEF LogInv

LEMMA LogTypeStep ==
  ASSUME LogInv, [Next]_vars
  PROVE  LogInv'
<1>1. ASSUME NEW r \in Requests, NEW e \in Endpoints, NEW b \in BOOLEAN, Serve(r, e, b)
      PROVE  LogInv'
  BY <1>1 DEF Serve, LogInv, TypeOK, RowsOver, page
<1>2. ASSUME NEW r \in Requests, RecordRequest(r) PROVE LogInv'
  BY <1>2, RowInserted
<1>3. ASSUME NEW r \in Requests, RecordFails(r) PROVE LogInv'
  BY <1>3 DEF RecordFails, LogInv, TypeOK, RowsOver, page
<1>4. CASE Exit
  BY <1>4 DEF Exit, LogInv, TypeOK, RowsOver, page
<1>5. CASE NextSecond
  BY <1>5, LenProperties DEF NextSecond, LogInv, TypeOK, RowsOver, page
<1>6. ASSUME NEW s \in Slots, LoadRequestLogs(s) PROVE LogInv'
  <2>1. offset' = 0 /\ Send(s, 0, TRUE)
    BY <1>6 DEF LoadRequestLogs, FirstPage
  <2>2. load' \in [Slots -> Loads]
    BY <2>1, SendType DEF LogInv
  <2> QED
    <3>1. orderly' = (Under("none") = Slots)
      BY <1>6 DEF LoadRequestLogs, Alone
    <3>2. orderly' \in BOOLEAN
      BY <3>1
    <3>3. more' \in BOOLEAN
      BY <1>6 DEF LoadRequestLogs
    <3> QED
      BY <1>6, <2>1, <2>2, <3>2, <3>3 DEF LoadRequestLogs, LogInv, TypeOK, RowsOver, log
<1>7. ASSUME NEW s \in Slots, LoadMoreLogs(s) PROVE LogInv'
  <2>1. offset' \in Nat
    BY <1>7, RequestLogAssumption DEF LoadMoreLogs, LogInv, TypeOK
  <2>2. Send(s, offset', FALSE)
    BY <1>7 DEF LoadMoreLogs
  <2>3. load' \in [Slots -> Loads]
    BY <2>1, <2>2, SendType DEF LogInv
  <2>4. orderly' \in BOOLEAN
    BY <1>7 DEF LoadMoreLogs
  <2> QED
    BY <1>7, <2>1, <2>3, <2>4 DEF LoadMoreLogs, LogInv, TypeOK, RowsOver, log
<1>8. ASSUME NEW s \in Slots, GetLogs(s) PROVE LogInv'
  <2>1. load[s] \in Loads /\ load[s].offset \in Nat
    BY DEF LogInv, TypeOK, Loads
  <2>2. QueryLogs(load[s].offset) \in Seq(Requests)
    BY <2>1, Queried DEF LogInv
  <2>3. load' \in [Slots -> Loads]
    BY <1>8, <2>1, <2>2 DEF GetLogs, LogInv, TypeOK, Loads
  <2>4. first' \in Seq(Requests)
    BY <1>8 DEF GetLogs, LogInv, TypeOK
  <2> QED
    BY <1>8, <2>3, <2>4 DEF GetLogs, LogInv, TypeOK, RowsOver, log
<1>9. ASSUME NEW s \in Slots, Show(s) PROVE LogInv'
  <2>1. load' \in [Slots -> Loads]
    BY <1>9, EndLoadType DEF Show, LogInv
  <2>2. load[s].logs \in Seq(Requests)
    BY DEF LogInv, TypeOK, Loads
  <2>3. table' \in Seq(Requests)
    BY <1>9, <2>2, ConcatProperties DEF Show, ShownWith, LogInv, TypeOK
  <2>4. more' \in BOOLEAN
    BY <1>9 DEF Show
  <2> QED
    BY <1>9, <2>1, <2>3, <2>4 DEF Show, LogInv, TypeOK, RowsOver, log
<1>10. ASSUME NEW s \in Slots, LoadFails(s) PROVE LogInv'
  <2>1. load' \in [Slots -> Loads]
    BY <1>10, EndLoadType DEF LoadFails, LogInv
  <2> QED
    BY <1>10, <2>1 DEF LoadFails, LogInv, TypeOK, RowsOver, log
<1>11. CASE UNCHANGED vars
  BY <1>11 DEF vars, log, page, LogInv, TypeOK, RowsOver
<1> QED
  BY <1>1, <1>2, <1>3, <1>4, <1>5, <1>6, <1>7, <1>8, <1>9, <1>10, <1>11 DEF Next

LEMMA LogTypeInit == Init => LogInv
<1> SUFFICES ASSUME Init PROVE LogInv
  OBVIOUS
<1>1. << >> \in Seq(Requests) /\ Len(<< >>) = 0
  BY EmptySeq
<1>2. load \in [Slots -> Loads]
  BY <1>1 DEF Init, NoLoad, Loads
<1>3. IsInjective(<< >>)
  BY DEF IsInjective
<1>4. TypeOK
  <2>1. task \in [Requests -> {"none", "spawned", "over"}]
    BY DEF Init
  <2>2. more \in BOOLEAN /\ orderly \in BOOLEAN /\ offset \in Nat
    BY DEF Init
  <2>3. /\ rows \in Seq(Requests) /\ IsInjective(rows)
        /\ table \in Seq(Requests) /\ first \in Seq(Requests)
    BY <1>1, <1>3 DEF Init
  <2>4. fresh \in 0 .. Len(rows)
    BY <1>1 DEF Init
  <2> QED
    BY <1>2, <2>1, <2>2, <2>3, <2>4 DEF TypeOK
<1>5. RowsOver
  BY <1>1 DEF Init, RowsOver
<1> QED
  BY <1>4, <1>5 DEF LogInv

(* Type correctness for any number of requests and page loads: the table   *)
(* holds a request at most once, since one insertion is executed for each. *)
THEOREM TypeCorrect == Spec => []TypeOK
<1>1. LogInv /\ [Next]_vars => LogInv'
  BY LogTypeStep
<1>2. LogInv => TypeOK
  BY DEF LogInv
<1> QED
  BY <1>1, <1>2, LogTypeInit, PTL DEF Spec
-----------------------------------------------------------------------------
(* Paging.  What was in the table when the first page was read is in it    *)
(* still, moved down by no more than the table has grown.                  *)
Kept ==
  /\ Len(first) <= Len(rows)
  /\ \A i \in 1 .. Len(first) : \E p \in 1 .. Len(rows) :
       rows[p] = first[i] /\ p <= i + (Len(rows) - Len(first))

(* Of the rows there were then, S has those that are now among the first   *)
(* n of the table.                                                         *)
Covered(S, n) ==
  \A p \in 1 .. Len(rows) : rows[p] \in ToSet(first) /\ p <= n => rows[p] \in S

Complete(S) == ToSet(first) \subseteq S

\* What the dashboard's table will hold besides the rows that a load brings.
Base(l) == IF l.replace THEN {} ELSE ToSet(table)

Lone(s) == \A t \in Slots \ {s} : load[t].state = "none"

LoadInv(s) ==
  orderly /\ load[s].state # "none" =>
    /\ Lone(s)
    /\ load[s].offset = offset
    /\ load[s].replace => offset = 0
    /\ load[s].state = "sent" => Covered(Base(load[s]), offset)
    /\ load[s].state = "answered" =>
         /\ Covered(Base(load[s]) \cup ToSet(load[s].logs), offset + PageSize)
         /\ Len(load[s].logs) # PageSize => Complete(Base(load[s]) \cup ToSet(load[s].logs))

ShownInv ==
  Settled => /\ Covered(ToSet(table), offset + PageSize)
             /\ ~ more => Complete(ToSet(table))

PagesInv == LogInv /\ Kept /\ ShownInv /\ \A s \in Slots : LoadInv(s)

LEMMA FirstInRows ==
  ASSUME LogInv, Kept, NEW x \in ToSet(first)
  PROVE  \E p \in 1 .. Len(rows) : rows[p] = x
<1>1. PICK i \in 1 .. Len(first) : first[i] = x
  BY LenProperties DEF ToSet, LogInv, TypeOK
<1> QED
  BY <1>1 DEF Kept

LEMMA CoveredWhole ==
  ASSUME LogInv, Kept, NEW S, NEW n \in Nat, Covered(S, n), Len(rows) <= n
  PROVE  Complete(S)
<1>1. ASSUME NEW x \in ToSet(first) PROVE x \in S
  <2>1. PICK p \in 1 .. Len(rows) : rows[p] = x
    BY FirstInRows
  <2>2. Len(rows) \in Nat
    BY LenProperties DEF LogInv, TypeOK
  <2> QED
    BY <1>1, <2>1, <2>2 DEF Covered
<1> QED
  BY <1>1 DEF Complete

LEMMA InsertKeeps ==
  ASSUME LogInv, Kept, NEW r \in Requests, RecordRequest(r)
  PROVE  /\ Kept'
         /\ \A S : \A n \in Nat : Covered(S, n) =>
              \A p \in 1 .. Len(rows') :
                rows'[p] \in ToSet(first') /\ p <= n => rows'[p] \in S
<1>1. PICK i \in 1 .. Len(rows) + 1 : \A p \in 1 .. Len(rows) + 1 :
        rows'[p] = IF p < i THEN rows[p] ELSE IF p = i THEN r ELSE rows[p - 1]
  BY RowInserted
<1>2. Len(rows') = Len(rows) + 1 /\ Len(rows) \in Nat /\ Len(first) \in Nat
  BY RowInserted, LenProperties DEF LogInv, TypeOK
<1>3. first' = first
  BY DEF RecordRequest
<1>4. Kept'
  <2> SUFFICES ASSUME NEW j \in 1 .. Len(first)
               PROVE  \E p \in 1 .. Len(rows) + 1 :
                        rows'[p] = first[j] /\ p <= j + (Len(rows) + 1 - Len(first))
    BY <1>2, <1>3 DEF Kept
  <2>1. PICK p \in 1 .. Len(rows) :
          rows[p] = first[j] /\ p <= j + (Len(rows) - Len(first))
    BY DEF Kept
  <2>2. CASE p < i
    BY <2>1, <2>2, <1>1, <1>2
  <2>3. CASE p >= i
    <3>1. /\ p + 1 \in 1 .. Len(rows) + 1
          /\ rows'[p + 1] = rows[p]
      BY <2>1, <2>3, <1>1, <1>2
    <3> QED
      BY <2>1, <3>1, <1>2
  <2> QED
    BY <2>1, <2>2, <2>3, <1>1, <1>2
<1>5. r \notin ToSet(first)
  <2> SUFFICES ASSUME r \in ToSet(first) PROVE FALSE
    OBVIOUS
  <2>1. PICK p \in 1 .. Len(rows) : rows[p] = r
    BY FirstInRows
  <2>2. task[r] = "spawned"
    BY DEF RecordRequest
  <2> QED
    BY <2>1, <2>2 DEF LogInv, RowsOver
<1>6. ASSUME NEW S, NEW n \in Nat, Covered(S, n), NEW p \in 1 .. Len(rows) + 1,
             rows'[p] \in ToSet(first), p <= n
      PROVE  rows'[p] \in S
  <2>1. CASE p < i
    BY <1>1, <1>2, <1>6, <2>1 DEF Covered
  <2>2. CASE p > i
    BY <1>1, <1>2, <1>6, <2>2 DEF Covered
  <2> QED
    BY <1>1, <1>2, <1>5, <1>6, <2>1, <2>2
<1> QED
  BY <1>2, <1>3, <1>4, <1>6

LEMMA RecordPages ==
  ASSUME PagesInv, NEW r \in Requests, RecordRequest(r)
  PROVE  PagesInv'
<1>1. LogInv' /\ Kept'
  BY RowInserted, InsertKeeps DEF PagesInv
<1>2. UNCHANGED <<offset, table, more, load, first, orderly>>
  BY DEF RecordRequest, page
<1>3. offset \in Nat /\ offset + PageSize \in Nat
  BY RequestLogAssumption DEF PagesInv, LogInv, TypeOK
<1>4. ASSUME NEW S, NEW n \in Nat, Covered(S, n)
      PROVE  \A p \in 1 .. Len(rows') :
                rows'[p] \in ToSet(first) /\ p <= n => rows'[p] \in S
  BY <1>2, <1>4, InsertKeeps DEF PagesInv
<1>5. ShownInv'
  BY <1>2, <1>3, <1>4 DEF PagesInv, ShownInv, Settled, Alone, Under, Covered, Complete
<1>6. ASSUME NEW s \in Slots PROVE LoadInv(s)'
  <2>1. LoadInv(s)
    BY DEF PagesInv
  <2> DEFINE S1 == Base(load[s])
             S2 == Base(load[s]) \cup ToSet(load[s].logs)
  <2>2. S1' = S1 /\ S2' = S2
    BY <1>2 DEF Base
  <2>3. Covered(S1, offset) => Covered(S1, offset)'
    BY <1>2, <1>3, <1>4, <2>2 DEF Covered
  <2>4. Covered(S2, offset + PageSize) => Covered(S2, offset + PageSize)'
    BY <1>2, <1>3, <1>4, <2>2 DEF Covered
  <2>5. Complete(S2) => Complete(S2)'
    BY <1>2, <2>2 DEF Complete
  <2>6. Lone(s) => Lone(s)'
    BY <1>2 DEF Lone
  <2> QED
    BY <1>2, <2>1, <2>3, <2>4, <2>5, <2>6 DEF LoadInv
<1> QED
  BY <1>1, <1>5, <1>6 DEF PagesInv

(* A step that touches neither the table of the log nor the page.          *)
LEMMA StillPages ==
  ASSUME PagesInv, LogInv', UNCHANGED <<rows, offset, table, more, load, first, orderly>>
  PROVE  PagesInv'
<1>1. Kept' /\ ShownInv'
  BY DEF PagesInv, Kept, ShownInv, Settled, Alone, Under, Covered, Complete
<1>2. ASSUME NEW s \in Slots PROVE LoadInv(s)'
  BY DEF PagesInv, LoadInv, Lone, Covered, Complete, Base
<1> QED
  BY <1>1, <1>2 DEF PagesInv

LEMMA SendPages ==
  ASSUME PagesInv, LogInv', NEW s \in Slots, NEW from \in Nat, NEW b \in BOOLEAN,
         Send(s, from, b), offset' = from, UNCHANGED <<rows, first, table>>,
         orderly' => Alone,
         b => from = 0,
         orderly' /\ ~ b => Covered(ToSet(table), from)
  PROVE  PagesInv'
<1>1. Kept'
  BY DEF PagesInv, Kept
<1>2. /\ load[s].state = "none"
      /\ load'[s].state = "sent" /\ load'[s].offset = from /\ load'[s].replace = b
      /\ \A t \in Slots \ {s} : load'[t] = load[t]
  BY DEF Send, NoLoad, PagesInv, LogInv, TypeOK
<1>3. ShownInv'
  BY <1>2 DEF ShownInv, Settled, Alone, Under
<1>4. orderly' => \A t \in Slots : load[t].state = "none"
  BY DEF Alone, Under
<1>5. ASSUME NEW t \in Slots PROVE LoadInv(t)'
  <2>1. CASE t = s
    <3>1. Len(rows) \in Nat
      BY LenProperties DEF PagesInv, LogInv, TypeOK
    <3>2. orderly' => Lone(s)'
      BY <1>2, <1>4 DEF Lone
    <3>3. orderly' => Covered(Base(load[s]), offset)'
      <4>1. CASE b
        BY <4>1, <1>2, <3>1 DEF Covered, Base
      <4>2. CASE ~ b
        BY <4>2, <1>2 DEF Covered, Base
      <4> QED
        BY <4>1, <4>2
    <3> QED
      BY <1>2, <2>1, <3>2, <3>3 DEF LoadInv
  <2>2. CASE t # s
    BY <1>2, <1>4, <2>2 DEF LoadInv
  <2> QED
    BY <2>1, <2>2
<1> QED
  BY <1>1, <1>3, <1>5 DEF PagesInv

LEMMA RefreshPages ==
  ASSUME PagesInv, LogInv', NEW s \in Slots, LoadRequestLogs(s)
  PROVE  PagesInv'
<1>1. offset' = 0 /\ Send(s, 0, TRUE)
  BY DEF LoadRequestLogs, FirstPage
<1>2. UNCHANGED <<rows, first, table>> /\ (orderly' => Alone)
  BY DEF LoadRequestLogs, log
<1> QED
  BY <1>1, <1>2, SendPages

LEMMA MorePages ==
  ASSUME PagesInv, LogInv', NEW s \in Slots, LoadMoreLogs(s)
  PROVE  PagesInv'
<1>1. offset' = offset + PageSize /\ offset' \in Nat /\ Send(s, offset', FALSE)
  BY DEF LoadMoreLogs, LogInv, TypeOK
<1>2. UNCHANGED <<rows, first, table>>
  BY DEF LoadMoreLogs, log
<1>3. orderly' => orderly /\ Alone
  BY DEF LoadMoreLogs
<1>4. orderly' => Covered(ToSet(table), offset')
  BY <1>1, <1>3 DEF PagesInv, ShownInv, Settled
<1> QED
  BY <1>1, <1>2, <1>3, <1>4, SendPages

LEMMA ReadPages ==
  ASSUME PagesInv, LogInv', NEW s \in Slots, GetLogs(s)
  PROVE  PagesInv'
<1> DEFINE logs == QueryLogs(load[s].offset)
           S == Base(load[s]) \cup ToSet(logs)
<1>1. /\ load[s].state = "sent"
      /\ load'[s].state = "answered" /\ load'[s].logs = logs
      /\ load'[s].offset = load[s].offset /\ load'[s].replace = load[s].replace
      /\ \A t \in Slots \ {s} : load'[t] = load[t]
  BY DEF GetLogs, PagesInv, LogInv, TypeOK, Loads
<1>2. UNCHANGED <<rows, offset, table, more, orderly>>
  BY DEF GetLogs, log
<1>3. /\ load[s].replace => first' = rows
      /\ ~ load[s].replace => first' = first
  BY DEF GetLogs
<1>4. rows \in Seq(Requests) /\ Len(rows) \in Nat /\ load[s].offset \in Nat
  BY LenProperties DEF PagesInv, LogInv, TypeOK, Loads
<1>5. Kept'
  <2>1. CASE load[s].replace
    BY <1>2, <1>3, <1>4, <2>1 DEF Kept
  <2>2. CASE ~ load[s].replace
    BY <1>2, <1>3, <2>2 DEF Kept, PagesInv
  <2> QED
    BY <2>1, <2>2
<1>6. ShownInv'
  BY <1>1 DEF ShownInv, Settled, Alone, Under
<1>7. ASSUME orderly
      PROVE  /\ \A p \in 1 .. Len(rows) :
                  rows[p] \in ToSet(first') /\ p <= offset + PageSize => rows[p] \in S
             /\ Len(logs) # PageSize => ToSet(first') \subseteq S
  <2>1. load[s].offset = offset /\ Covered(Base(load[s]), offset)
    BY <1>1, <1>7 DEF PagesInv, LoadInv
  <2>2. load[s].replace => offset = 0
    BY <1>1, <1>7 DEF PagesInv, LoadInv
  <2>3. /\ \A p \in 1 .. Len(rows) :
             offset < p /\ p <= offset + PageSize => rows[p] \in ToSet(logs)
        /\ Len(logs) # PageSize => Len(rows) < offset + PageSize
    BY <1>4, <2>1, Queried DEF PagesInv, LogInv
  <2>4. \A p \in 1 .. Len(rows) :
          rows[p] \in ToSet(first') /\ p <= offset => rows[p] \in Base(load[s])
    BY <1>3, <1>4, <2>1, <2>2 DEF Covered
  <2>5. \A p \in 1 .. Len(rows) :
          rows[p] \in ToSet(first') /\ p <= offset + PageSize => rows[p] \in S
    BY <1>4, <2>1, <2>3, <2>4
  <2>6. ASSUME Len(logs) # PageSize, NEW x \in ToSet(first') PROVE x \in S
    <3>1. PICK i \in 1 .. Len(first') : first'[i] = x
      BY <2>6, LenProperties DEF ToSet, LogInv, TypeOK
    <3>2. PICK p \in 1 .. Len(rows) : rows[p] = x
      BY <1>2, <1>5, <3>1 DEF Kept
    <3>3. p <= offset + PageSize
      <4> HIDE DEF logs
      <4> QED
        BY <1>4, <2>1, <2>3, <2>6, <3>2, RequestLogAssumption
    <3> QED
      BY <2>5, <2>6, <3>2, <3>3
  <2> QED
    BY <2>5, <2>6
<1>8. ASSUME NEW t \in Slots PROVE LoadInv(t)'
  <2>1. CASE t = s
    <3>1. orderly => Lone(s)'
      BY <1>1 DEF PagesInv, LoadInv, Lone
    <3>2. S = (Base(load[s]) \cup ToSet(load[s].logs))'
      BY <1>1, <1>2 DEF Base
    <3>3. orderly => /\ Covered(Base(load[s]) \cup ToSet(load[s].logs), offset + PageSize)'
                     /\ (Len(load[s].logs) # PageSize =>
                            Complete(Base(load[s]) \cup ToSet(load[s].logs)))'
      <4> HIDE DEF S, logs
      <4> QED
        BY <1>1, <1>2, <1>7, <3>2 DEF Covered, Complete
    <3>4. orderly => load[s].offset = offset /\ (load[s].replace => offset = 0)
      BY <1>1 DEF PagesInv, LoadInv
    <3> QED
      BY <1>1, <1>2, <2>1, <3>1, <3>3, <3>4 DEF LoadInv
  <2>2. CASE t # s
    BY <1>1, <1>2, <2>2 DEF PagesInv, LoadInv, Lone
  <2> QED
    BY <2>1, <2>2
<1> QED
  BY <1>5, <1>6, <1>8 DEF PagesInv

LEMMA ConcatSet ==
  ASSUME NEW s \in Seq(Requests), NEW t \in Seq(Requests)
  PROVE  ToSet(s \o t) = ToSet(s) \cup ToSet(t)
<1>0. Len(s) \in Nat /\ Len(t) \in Nat
  BY LenProperties
<1>1. /\ s \o t \in Seq(Requests) /\ Len(s \o t) = Len(s) + Len(t)
      /\ \A p \in 1 .. Len(s) + Len(t) :
           (s \o t)[p] = IF p <= Len(s) THEN s[p] ELSE t[p - Len(s)]
  BY ConcatProperties
<1>2. \A u \in Seq(Requests) : ToSet(u) = {u[p] : p \in 1 .. Len(u)}
  BY LenProperties DEF ToSet
<1>3. \A p \in 1 .. Len(t) : /\ Len(s) + p \in 1 .. Len(s) + Len(t)
                              /\ (s \o t)[Len(s) + p] = t[p]
  BY <1>0, <1>1
<1>4. \A p \in 1 .. Len(s) : /\ p \in 1 .. Len(s) + Len(t)
                              /\ (s \o t)[p] = s[p]
  BY <1>0, <1>1
<1>5. \A p \in 1 .. Len(s) + Len(t) :
        \/ p \in 1 .. Len(s) /\ (s \o t)[p] = s[p]
        \/ p - Len(s) \in 1 .. Len(t) /\ (s \o t)[p] = t[p - Len(s)]
  BY <1>0, <1>1
<1>6. ToSet(s) = {s[p] : p \in 1 .. Len(s)} /\ ToSet(t) = {t[p] : p \in 1 .. Len(t)}
  BY <1>2
<1>7. ToSet(s \o t) = {(s \o t)[p] : p \in 1 .. Len(s) + Len(t)}
  BY <1>1, <1>2
<1>8. ASSUME NEW x \in ToSet(s \o t) PROVE x \in ToSet(s) \cup ToSet(t)
  <2>1. PICK p \in 1 .. Len(s) + Len(t) : x = (s \o t)[p]
    BY <1>7, <1>8
  <2>2. CASE p \in 1 .. Len(s) /\ (s \o t)[p] = s[p]
    BY <1>6, <2>1, <2>2
  <2>3. CASE p - Len(s) \in 1 .. Len(t) /\ (s \o t)[p] = t[p - Len(s)]
    BY <1>6, <2>1, <2>3
  <2> QED
    BY <1>5, <2>2, <2>3
<1>9. ASSUME NEW x \in ToSet(s) \cup ToSet(t) PROVE x \in ToSet(s \o t)
  <2>1. CASE x \in ToSet(s)
    BY <1>4, <1>6, <1>7, <2>1
  <2>2. CASE x \in ToSet(t)
    BY <1>3, <1>6, <1>7, <2>2
  <2> QED
    BY <1>9, <2>1, <2>2
<1> QED
  BY <1>8, <1>9

LEMMA ShowPages ==
  ASSUME PagesInv, LogInv', NEW s \in Slots, Show(s)
  PROVE  PagesInv'
<1> DEFINE S == Base(load[s]) \cup ToSet(load[s].logs)
<1>1. /\ load[s].state = "answered" /\ load'[s].state = "none"
      /\ \A t \in Slots \ {s} : load'[t] = load[t]
  BY DEF Show, EndLoad, NoLoad, PagesInv, LogInv, TypeOK
<1>2. UNCHANGED <<rows, offset, first, orderly>>
  BY DEF Show, log
<1>3. ToSet(table') = S
  <2>1. table \in Seq(Requests) /\ load[s].logs \in Seq(Requests)
    BY DEF PagesInv, LogInv, TypeOK, Loads
  <2>2. table' = ShownWith(load[s])
    BY DEF Show
  <2>3. CASE load[s].replace
    BY <2>2, <2>3 DEF ShownWith, Base
  <2>4. CASE ~ load[s].replace
    BY <2>1, <2>2, <2>4, ConcatSet DEF ShownWith, Base
  <2> QED
    BY <2>3, <2>4
<1>4. more' = (Len(load[s].logs) = PageSize)
  BY DEF Show
<1>5. Kept'
  BY <1>2 DEF PagesInv, Kept
<1>6. ShownInv'
  <2>1. orderly => /\ Covered(S, offset + PageSize)
                   /\ Len(load[s].logs) # PageSize => Complete(S)
    BY <1>1 DEF PagesInv, LoadInv
  <2> HIDE DEF S
  <2> QED
    BY <1>2, <1>3, <1>4, <2>1 DEF ShownInv, Settled, Covered, Complete
<1>7. ASSUME NEW t \in Slots PROVE LoadInv(t)'
  <2>1. LoadInv(s)
    BY DEF PagesInv
  <2>2. orderly => \A u \in Slots : load'[u].state = "none"
    BY <1>1, <2>1 DEF LoadInv, Lone
  <2> QED
    BY <1>2, <2>2 DEF LoadInv
<1> QED
  BY <1>5, <1>6, <1>7 DEF PagesInv

LEMMA FailPages ==
  ASSUME PagesInv, LogInv', NEW s \in Slots, LoadFails(s)
  PROVE  PagesInv'
<1>1. orderly' = FALSE /\ UNCHANGED <<rows, first>>
  BY DEF LoadFails, log
<1>2. Kept'
  BY <1>1 DEF PagesInv, Kept
<1> QED
  BY <1>1, <1>2 DEF PagesInv, ShownInv, Settled, LoadInv

LEMMA PagesStep ==
  ASSUME PagesInv, [Next]_vars
  PROVE  PagesInv'
<1>0. LogInv'
  BY LogTypeStep DEF PagesInv
<1>1. ASSUME NEW r \in Requests, NEW e \in Endpoints, NEW b \in BOOLEAN, Serve(r, e, b)
      PROVE  PagesInv'
  BY <1>0, <1>1, StillPages DEF Serve, page
<1>2. ASSUME NEW r \in Requests, RecordRequest(r) PROVE PagesInv'
  BY <1>2, RecordPages
<1>3. ASSUME NEW r \in Requests, RecordFails(r) PROVE PagesInv'
  BY <1>0, <1>3, StillPages DEF RecordFails, page
<1>4. CASE Exit
  BY <1>0, <1>4, StillPages DEF Exit, page
<1>5. CASE NextSecond
  BY <1>0, <1>5, StillPages DEF NextSecond, page
<1>6. ASSUME NEW s \in Slots, LoadRequestLogs(s) PROVE PagesInv'
  BY <1>0, <1>6, RefreshPages
<1>7. ASSUME NEW s \in Slots, LoadMoreLogs(s) PROVE PagesInv'
  BY <1>0, <1>7, MorePages
<1>8. ASSUME NEW s \in Slots, GetLogs(s) PROVE PagesInv'
  BY <1>0, <1>8, ReadPages
<1>9. ASSUME NEW s \in Slots, Show(s) PROVE PagesInv'
  BY <1>0, <1>9, ShowPages
<1>10. ASSUME NEW s \in Slots, LoadFails(s) PROVE PagesInv'
  BY <1>0, <1>10, FailPages
<1>11. CASE UNCHANGED vars
  BY <1>0, <1>11, StillPages DEF vars, log, page
<1> QED
  BY <1>1, <1>2, <1>3, <1>4, <1>5, <1>6, <1>7, <1>8, <1>9, <1>10, <1>11 DEF Next

LEMMA PagesInit == Init => PagesInv
<1> SUFFICES ASSUME Init PROVE PagesInv
  OBVIOUS
<1>1. LogInv
  BY LogTypeInit
<1>2. ~ orderly /\ first = << >> /\ rows = << >>
  BY DEF Init
<1>3. Kept
  BY <1>2, EmptySeq DEF Kept
<1> QED
  BY <1>1, <1>2, <1>3 DEF PagesInv, ShownInv, Settled, LoadInv

LEMMA PagesImply ==
  ASSUME PagesInv
  PROVE  PagesCoverTheLog
<1> DEFINE grown == Len(rows) - Len(first)
<1> SUFFICES ASSUME Settled, NEW i \in 1 .. Len(first),
                    i <= offset + PageSize - grown \/ ~ more
             PROVE  first[i] \in ToSet(table)
  BY DEF PagesCoverTheLog
<1>1. first \in Seq(Requests) /\ Len(rows) \in Nat /\ Len(first) \in Nat /\ offset \in Nat
      /\ PageSize \in Nat
  BY LenProperties, RequestLogAssumption DEF PagesInv, LogInv, TypeOK
<1>2. first[i] \in ToSet(first)
  BY <1>1, LenProperties DEF ToSet
<1>3. CASE i <= offset + PageSize - grown
  <2>1. PICK p \in 1 .. Len(rows) : rows[p] = first[i] /\ p <= i + grown
    BY DEF PagesInv, Kept
  <2>2. p <= offset + PageSize
    BY <1>1, <1>3, <2>1
  <2> QED
    BY <1>2, <2>1, <2>2 DEF PagesInv, ShownInv, Covered
<1>4. CASE ~ more
  BY <1>2, <1>4 DEF PagesInv, ShownInv, Complete
<1> QED
  BY <1>3, <1>4

(* Of the rows that existed when the first page was read, the dashboard    *)
(* has shown all that its pages reach, and all when no more are offered,   *)
(* however many are inserted between two pages.                            *)
THEOREM PagingSkipsNothing == Spec => []PagesCoverTheLog
<1>1. PagesInv /\ [Next]_vars => PagesInv'
  BY PagesStep
<1>2. PagesInv => PagesCoverTheLog
  BY PagesImply
<1> QED
  BY <1>1, <1>2, PagesInit, PTL DEF Spec
-----------------------------------------------------------------------------
(* Repeats.  The table of the dashboard is never longer than the pages it  *)
(* was read from, nor than the log was when the last of them was read.     *)
Short(n) == n <= offset + PageSize /\ n <= Len(rows)

LoadShort(s) ==
  orderly =>
    /\ load[s].state = "sent" /\ ~ load[s].replace =>
         Len(table) <= offset /\ Len(table) <= Len(rows)
    /\ load[s].state = "answered" =>
         Short(Len(load[s].logs) + (IF load[s].replace THEN 0 ELSE Len(table)))

RepeatsInv ==
  /\ IsInjective(first)
  /\ Settled => Short(Len(table))
  /\ \A s \in Slots : LoadShort(s)

LEMMA Lengths ==
  ASSUME LogInv
  PROVE  /\ Len(rows) \in Nat /\ Len(table) \in Nat /\ Len(first) \in Nat
         /\ offset \in Nat /\ PageSize \in Nat
         /\ \A s \in Slots : Len(load[s].logs) \in Nat
<1>1. \A s \in Slots : load[s].logs \in Seq(Requests)
  BY DEF LogInv, TypeOK, Loads
<1> QED
  BY <1>1, LenProperties, RequestLogAssumption DEF LogInv, TypeOK

\* Steps that at most let the log grow.
LEMMA StillRepeats ==
  ASSUME LogInv, RepeatsInv, UNCHANGED <<offset, table, more, load, first, orderly>>,
         Len(rows') = Len(rows) \/ Len(rows') = Len(rows) + 1
  PROVE  RepeatsInv'
<1>1. ASSUME NEW n \in Nat, Short(n)
      PROVE  n <= offset + PageSize /\ n <= Len(rows')
  BY <1>1, Lengths DEF Short
<1>2. (Settled => Short(Len(table)))'
  <2>1. Len(table) \in Nat
    BY Lengths
  <2>2. Settled' => Settled
    BY DEF Settled, Alone, Under
  <2> QED
    BY <1>1, <2>1, <2>2 DEF RepeatsInv, Short
<1>3. ASSUME NEW s \in Slots PROVE LoadShort(s)'
  <2> DEFINE k == Len(load[s].logs) + (IF load[s].replace THEN 0 ELSE Len(table))
  <2>1. k \in Nat
    <3>1. Len(load[s].logs) \in Nat /\ Len(table) \in Nat
      BY Lengths
    <3>2. CASE load[s].replace
      BY ONLY <3>1, <3>2
    <3>3. CASE ~ load[s].replace
      BY ONLY <3>1, <3>3
    <3> QED
      BY ONLY <3>2, <3>3
  <2>2. LoadShort(s)
    BY DEF RepeatsInv
  <2>3. orderly /\ load[s].state = "answered" => k <= offset + PageSize /\ k <= Len(rows')
    BY <1>1, <2>1, <2>2 DEF LoadShort
  <2>4. orderly /\ load[s].state = "sent" /\ ~ load[s].replace
          => Len(table) <= offset /\ Len(table) <= Len(rows')
    BY <2>2, Lengths DEF LoadShort
  <2> QED
    BY <2>3, <2>4 DEF LoadShort, Short
<1> QED
  BY <1>2, <1>3 DEF RepeatsInv

LEMMA SendRepeats ==
  ASSUME PagesInv, RepeatsInv, NEW s \in Slots, NEW from \in Nat, NEW b \in BOOLEAN,
         Send(s, from, b), offset' = from, UNCHANGED <<rows, first, table>>,
         orderly' => Alone,
         orderly' /\ ~ b => Len(table) <= from /\ Len(table) <= Len(rows)
  PROVE  RepeatsInv'
<1>1. /\ load[s].state = "none"
      /\ load'[s].state = "sent" /\ load'[s].replace = b
      /\ \A t \in Slots \ {s} : load'[t] = load[t]
  BY DEF Send, NoLoad, PagesInv, LogInv, TypeOK
<1>2. ~ Settled'
  BY <1>1 DEF Settled, Alone, Under
<1>3. orderly' => \A t \in Slots : load[t].state = "none"
  BY DEF Alone, Under
<1>4. ASSUME NEW t \in Slots PROVE LoadShort(t)'
  BY <1>1, <1>3 DEF LoadShort
<1> QED
  BY <1>2, <1>4 DEF RepeatsInv

LEMMA ReadRepeats ==
  ASSUME PagesInv, RepeatsInv, NEW s \in Slots, GetLogs(s)
  PROVE  RepeatsInv'
<1> DEFINE logs == QueryLogs(load[s].offset)
<1>1. /\ load[s].state = "sent"
      /\ load'[s].state = "answered" /\ load'[s].logs = logs
      /\ load'[s].replace = load[s].replace
      /\ \A t \in Slots \ {s} : load'[t] = load[t]
  BY DEF GetLogs, PagesInv, LogInv, TypeOK, Loads
<1>2. UNCHANGED <<rows, offset, table, more, orderly>>
  BY DEF GetLogs, log
<1>3. IsInjective(first')
  BY DEF GetLogs, PagesInv, LogInv, TypeOK, RepeatsInv
<1>4. ~ Settled'
  BY <1>1 DEF Settled, Alone, Under
<1>5. load[s].offset \in Nat /\ logs \in Seq(Requests) /\ Len(logs) \in Nat
  BY Queried, LenProperties DEF PagesInv, LogInv, TypeOK, Loads
<1>6. /\ Len(logs) <= PageSize
      /\ Len(logs) = 0 \/ load[s].offset + Len(logs) <= Len(rows)
  BY <1>5, Queried DEF PagesInv, LogInv
<1> HIDE DEF logs
<1>7. LoadShort(s)'
  <2> SUFFICES ASSUME orderly
               PROVE  Short(Len(logs) + (IF load[s].replace THEN 0 ELSE Len(table)))
    BY <1>1, <1>2 DEF LoadShort, Short
  <2>1. load[s].offset = offset /\ (load[s].replace => offset = 0)
    BY <1>1 DEF PagesInv, LoadInv
  <2>2. ~ load[s].replace => Len(table) <= offset /\ Len(table) <= Len(rows)
    BY <1>1 DEF RepeatsInv, LoadShort
  <2>3. LogInv
    BY DEF PagesInv
  <2>4. CASE load[s].replace
    BY <1>5, <1>6, <2>1, <2>3, <2>4, Lengths DEF Short
  <2>5. CASE ~ load[s].replace
    BY <1>5, <1>6, <2>1, <2>2, <2>3, <2>5, Lengths DEF Short
  <2> QED
    BY <2>4, <2>5
<1>8. ASSUME NEW t \in Slots \ {s} PROVE LoadShort(t)'
  BY <1>1, <1>2 DEF PagesInv, LoadInv, Lone, LoadShort
<1> QED
  BY <1>3, <1>4, <1>7, <1>8 DEF RepeatsInv

LEMMA ShowRepeats ==
  ASSUME PagesInv, RepeatsInv, NEW s \in Slots, Show(s)
  PROVE  RepeatsInv'
<1>1. /\ load[s].state = "answered" /\ load'[s].state = "none"
      /\ \A t \in Slots \ {s} : load'[t] = load[t]
  BY DEF Show, EndLoad, NoLoad, PagesInv, LogInv, TypeOK
<1>2. UNCHANGED <<rows, offset, first, orderly>>
  BY DEF Show, log
<1>3. table \in Seq(Requests) /\ load[s].logs \in Seq(Requests)
  BY DEF PagesInv, LogInv, TypeOK, Loads
<1>4. Len(table') = Len(load[s].logs) + (IF load[s].replace THEN 0 ELSE Len(table))
  <2>1. table' = ShownWith(load[s])
    BY DEF Show
  <2>2. Len(table \o load[s].logs) = Len(table) + Len(load[s].logs)
    BY <1>3, ConcatProperties
  <2>3. Len(table) \in Nat /\ Len(load[s].logs) \in Nat
    BY <1>3, LenProperties
  <2>4. CASE load[s].replace
    BY <2>1, <2>3, <2>4 DEF ShownWith
  <2>5. CASE ~ load[s].replace
    BY <2>1, <2>2, <2>3, <2>5 DEF ShownWith
  <2> QED
    BY <2>4, <2>5
<1>5. orderly => Short(Len(table'))
  BY <1>1, <1>4 DEF RepeatsInv, LoadShort
<1>6. (Settled => Short(Len(table)))'
  BY <1>2, <1>5 DEF Settled, Short
<1>7. ASSUME NEW t \in Slots PROVE LoadShort(t)'
  <2>1. LoadInv(s)
    BY DEF PagesInv
  <2> QED
    BY <1>1, <1>2, <2>1 DEF LoadInv, Lone, LoadShort
<1> QED
  BY <1>2, <1>6, <1>7 DEF RepeatsInv

LEMMA RepeatsStep ==
  ASSUME PagesInv, RepeatsInv, [Next]_vars
  PROVE  RepeatsInv'
<1>0. LogInv
  BY DEF PagesInv
<1>1. ASSUME NEW r \in Requests, NEW e \in Endpoints, NEW b \in BOOLEAN, Serve(r, e, b)
      PROVE  RepeatsInv'
  BY <1>0, <1>1, StillRepeats DEF Serve, page
<1>2. ASSUME NEW r \in Requests, RecordRequest(r) PROVE RepeatsInv'
  BY <1>0, <1>2, RowInserted, StillRepeats DEF RecordRequest, page
<1>3. ASSUME NEW r \in Requests, RecordFails(r) PROVE RepeatsInv'
  BY <1>0, <1>3, StillRepeats DEF RecordFails, page
<1>4. CASE Exit
  BY <1>0, <1>4, StillRepeats DEF Exit, page
<1>5. CASE NextSecond
  BY <1>0, <1>5, StillRepeats DEF NextSecond, page
<1>6. ASSUME NEW s \in Slots, LoadRequestLogs(s) PROVE RepeatsInv'
  <2>1. offset' = 0 /\ Send(s, 0, TRUE) /\ UNCHANGED <<rows, first, table>>
    BY <1>6 DEF LoadRequestLogs, FirstPage, log
  <2>2. orderly' => Alone
    BY <1>6 DEF LoadRequestLogs
  <2> QED
    BY <2>1, <2>2, SendRepeats
<1>7. ASSUME NEW s \in Slots, LoadMoreLogs(s) PROVE RepeatsInv'
  <2>1. /\ offset' = offset + PageSize /\ Send(s, offset', FALSE)
        /\ UNCHANGED <<rows, first, table>>
    BY <1>7 DEF LoadMoreLogs, log
  <2>2. offset' \in Nat
    BY <1>0, <2>1, Lengths
  <2>3. orderly' => orderly /\ Alone
    BY <1>7 DEF LoadMoreLogs
  <2>4. orderly' => Len(table) <= offset' /\ Len(table) <= Len(rows)
    BY <2>1, <2>3 DEF RepeatsInv, Settled, Short
  <2> QED
    BY <2>1, <2>2, <2>3, <2>4, SendRepeats
<1>8. ASSUME NEW s \in Slots, GetLogs(s) PROVE RepeatsInv'
  BY <1>8, ReadRepeats
<1>9. ASSUME NEW s \in Slots, Show(s) PROVE RepeatsInv'
  BY <1>9, ShowRepeats
<1>10. ASSUME NEW s \in Slots, LoadFails(s) PROVE RepeatsInv'
  BY <1>10 DEF LoadFails, RepeatsInv, Settled, LoadShort
<1>11. CASE UNCHANGED vars
  BY <1>0, <1>11, StillRepeats DEF vars, log, page
<1> QED
  BY <1>1, <1>2, <1>3, <1>4, <1>5, <1>6, <1>7, <1>8, <1>9, <1>10, <1>11 DEF Next

LEMMA RepeatsInit == Init => RepeatsInv
<1> SUFFICES ASSUME Init PROVE RepeatsInv
  OBVIOUS
<1>1. IsInjective(<< >>)
  BY DEF IsInjective
<1> QED
  BY <1>1 DEF Init, RepeatsInv, Settled, LoadShort

\* The first n elements of a sequence without repeats are n.
LEMMA InjectiveCount ==
  ASSUME NEW s \in Seq(Requests), IsInjective(s), NEW n \in 0 .. Len(s)
  PROVE  /\ IsFiniteSet({s[p] : p \in 1 .. n})
         /\ Cardinality({s[p] : p \in 1 .. n}) = n
<1> DEFINE T == {s[p] : p \in 1 .. n}
           f == [p \in 1 .. n |-> s[p]]
<1>1. Len(s) \in Nat /\ DOMAIN s = 1 .. Len(s) /\ 1 .. n \subseteq 1 .. Len(s)
  BY LenProperties
<1>2. f \in Injection(1 .. n, T)
  BY <1>1 DEF Injection, IsInjective
<1>3. f \in Surjection(1 .. n, T)
  BY DEF Surjection
<1>4. IsFiniteSet(1 .. n) /\ Cardinality(1 .. n) = n
  BY FS_Interval
<1> HIDE DEF T, f
<1>5. IsFiniteSet(T) /\ Cardinality(T) = Cardinality(1 .. n)
  BY <1>2, <1>3, <1>4, FS_Surjection
<1> QED
  BY <1>4, <1>5 DEF T

LEMMA RepeatsImply ==
  ASSUME PagesInv, RepeatsInv
  PROVE  RepeatsAccounted
<1> SUFFICES ASSUME Settled
             PROVE  Len(table) - Cardinality(ToSet(table)) <= Len(rows) - Len(first)
  BY DEF RepeatsAccounted
<1> DEFINE n == Len(table)
           R == {rows[p] : p \in 1 .. Len(rows)}
           F == {first[p] : p \in 1 .. Len(first)}
           N == {rows[p] : p \in 1 .. n}
<1>1. /\ rows \in Seq(Requests) /\ first \in Seq(Requests) /\ table \in Seq(Requests)
      /\ IsInjective(rows) /\ IsInjective(first)
  BY DEF PagesInv, LogInv, TypeOK, RepeatsInv
<1>2. /\ Len(rows) \in Nat /\ n \in Nat /\ Len(first) \in Nat
      /\ n <= Len(rows) /\ n <= offset + PageSize
      /\ offset \in Nat /\ PageSize \in Nat
  BY Lengths DEF PagesInv, RepeatsInv, Short
<1>3. IsFiniteSet(R) /\ Cardinality(R) = Len(rows)
  <2>1. Len(rows) \in 0 .. Len(rows)
    BY <1>2
  <2> QED
    BY ONLY <1>1, <2>1, InjectiveCount
<1>4. IsFiniteSet(F) /\ Cardinality(F) = Len(first)
  <2>1. Len(first) \in 0 .. Len(first)
    BY <1>2
  <2> QED
    BY ONLY <1>1, <2>1, InjectiveCount
<1>5. IsFiniteSet(N) /\ Cardinality(N) = n
  <2>1. n \in 0 .. Len(rows)
    BY <1>2
  <2> QED
    BY <1>1, <2>1, InjectiveCount
<1>6. ToSet(first) = F
  BY <1>1, LenProperties DEF ToSet
<1>7. F \subseteq R
  <2>1. LogInv /\ Kept
    BY DEF PagesInv
  <2> QED
    BY <1>6, <2>1, FirstInRows
<1>8. N \cap F \subseteq ToSet(table)
  <2> SUFFICES ASSUME NEW p \in 1 .. n, rows[p] \in ToSet(first)
               PROVE  rows[p] \in ToSet(table)
    BY <1>6
  <2>1. p \in 1 .. Len(rows) /\ p <= offset + PageSize
    BY <1>2
  <2> QED
    BY <2>1 DEF PagesInv, ShownInv, Covered
<1>9. N \subseteq R
  BY <1>2
<1>10. IsFiniteSet(ToSet(table))
  <2>1. IsFiniteSet(1 .. n)
    BY <1>2, FS_Interval
  <2>2. ToSet(table) = {table[p] : p \in 1 .. n}
    BY <1>1, LenProperties DEF ToSet
  <2>3. [p \in 1 .. n |-> table[p]] \in Surjection(1 .. n, {table[p] : p \in 1 .. n})
    BY DEF Surjection
  <2> QED
    BY <2>1, <2>2, <2>3, FS_Surjection
<1> HIDE DEF n, R, F, N
<1>11. Cardinality(R \ F) = Len(rows) - Len(first)
  <2>1. R \cap F = F
    BY <1>7
  <2>2. Cardinality(R \ F) = Cardinality(R) - Cardinality(R \cap F)
    BY ONLY <1>3, FS_Difference
  <2> QED
    BY ONLY <1>3, <1>4, <2>1, <2>2
<1>12. Cardinality(N \ F) = n - Cardinality(N \cap F)
  BY <1>5, FS_Difference
<1>13. Cardinality(N \ F) <= Cardinality(R \ F)
  <2>1. IsFiniteSet(R \ F)
    BY <1>3, FS_Difference
  <2>2. N \ F \in SUBSET (R \ F)
    BY <1>9
  <2> QED
    BY <2>1, <2>2, FS_Subset
<1>14. Cardinality(N \cap F) <= Cardinality(ToSet(table))
  BY <1>8, <1>10, FS_Subset
<1>15. /\ Cardinality(N \cap F) \in Nat /\ Cardinality(ToSet(table)) \in Nat
  BY <1>5, <1>10, FS_Intersection, FS_CardinalityType
<1> QED
  BY <1>2, <1>11, <1>12, <1>13, <1>14, <1>15 DEF n

(* The price of paging by offset: a dashboard that shows rows twice does   *)
(* so no oftener than rows were inserted since its first page was read.    *)
THEOREM RepeatsAreGrowth == Spec => []RepeatsAccounted
<1>1. PagesInv /\ RepeatsInv /\ [Next]_vars => RepeatsInv'
  BY RepeatsStep
<1>2. PagesInv /\ [Next]_vars => PagesInv'
  BY PagesStep
<1>3. PagesInv /\ RepeatsInv => RepeatsAccounted
  BY RepeatsImply
<1> QED
  BY <1>1, <1>2, <1>3, PagesInit, RepeatsInit, PTL DEF Spec
=============================================================================
