--------------------------- MODULE KeyTableProofs ----------------------------
(***************************************************************************)
(* Proofs about KeyTable, for any keys, weights, administrators and        *)
(* configuration.                                                          *)
(***************************************************************************)
EXTENDS KeyTable, TLAPS, SequenceTheorems

AnyStatement == [op : {"add", "update", "delete"}, key : Keys, weight : Int]

Served == 0 .. U32 - 1 \cup {Absent}

LEMMA StatementsAreAny == /\ Statements \subseteq AnyStatement
                          /\ NoStmt \notin Statements
<1>1. Weights \cup {1} \subseteq Int
  BY KeyTableAssumption
<1>2. ASSUME NEW s \in Statements PROVE s \in AnyStatement
  BY <1>1, KeyTableAssumption DEF Statements, AnyStatement
<1>3. ASSUME NEW s \in Statements PROVE s # NoStmt
  BY KeyTableAssumption DEF Statements, NoStmt
<1> QED
  BY <1>2, <1>3

(* What a statement makes of a row, and a handler of the copy.             *)
LEMMA RowType ==
  ASSUME NEW s \in AnyStatement
  PROVE  Row(s) \in Int \cup {Absent}
  BY SMT DEF Row, AnyStatement

LEMMA AsU32Type == ASSUME NEW w \in Int PROVE AsU32(w) \in 0 .. U32 - 1
  BY KeyTableAssumption, SMT DEF AsU32

LEMMA CopyType ==
  ASSUME NEW s \in AnyStatement
  PROVE  Copy(s) \in Served
  BY AsU32Type DEF Copy, AnyStatement, Served

LEMMA CopyOfRowType ==
  ASSUME NEW row \in Int \cup {Absent}
  PROVE  CopyOfRow(row) \in Served
  BY AsU32Type DEF CopyOfRow, Served

(* A start that seeds the configuration has a key left to seed.            *)
SeedingProceeds ==
  /\ server # "seeding" => seeded = 0
  /\ server = "seeding" => seeded < Len(config)

Typed == TypeOK /\ SeedingProceeds

LEMMA ConfigType == ASSUME TypeOK PROVE config \in Seq(Keys)
<1>1. << >> \in Seq(Keys)
  BY EmptySeq
<1> QED
  BY <1>1, KeyTableAssumption DEF TypeOK

LEMMA NextSeedType ==
  ASSUME Typed, server = "seeding"
  PROVE  NextSeed \in AnyStatement /\ NextSeed.key \in Configured
<1>1. config \in Seq(Keys)
  BY ConfigType DEF Typed
<1>2. seeded + 1 \in 1 .. Len(config) /\ config \in Configs
  <2>1. seeded < Len(config) /\ seeded \in Nat
    BY DEF Typed, TypeOK, SeedingProceeds
  <2>2. config # << >> /\ Len(config) \in Nat
    BY <1>1, <2>1, EmptySeq, LenProperties
  <2> QED
    BY <2>1, <2>2 DEF Typed, TypeOK
<1>3. config[seeded + 1] \in Keys
  BY <1>1, <1>2, ElementOfSeq
<1>4. config[seeded + 1] \in Configured
  <2>1. config[seeded + 1] \in ToSet(config)
    BY <1>2 DEF ToSet
  <2> QED
    BY <1>2, <2>1 DEF Configured
<1> QED
  BY <1>3, <1>4 DEF NextSeed, AnyStatement

LEMMA ExecutedType ==
  ASSUME TypeOK, NEW s \in AnyStatement, Executed(s)
  PROVE  db' \in [Keys -> Int \cup {Absent}]
  BY RowType, SMT DEF Executed, TypeOK, AnyStatement

LEMMA OrphanedType ==
  ASSUME TypeOK, NEW S \in SUBSET AnyStatement, Orphaned(S)
  PROVE  orphans' \subseteq AnyStatement
  BY DEF Orphaned, TypeOK, AnyStatement

LEMMA HandledStatement ==
  ASSUME TypeOK, NEW a \in Admins, stage[a] # "idle"
  PROVE  stmt[a] \in Statements /\ stmt[a] \in AnyStatement
  BY StatementsAreAny DEF TypeOK

LEMMA HandlersEnd ==
  ASSUME TypeOK, NEW a \in Admins, EndHandler(a)
  PROVE  /\ stage' \in [Admins -> {"idle", "sent", "executed"}]
         /\ stmt' \in [Admins -> Statements \cup {NoStmt}]
         /\ \A b \in Admins : stage'[b] = "idle" <=> stmt'[b] = NoStmt
  BY DEF EndHandler, TypeOK

(* The state of the tables and of the handlers keeps its type.             *)
LEMMA TypedInit == Init => Typed
  BY KeyTableAssumption, SMT DEF Init, Typed, TypeOK, SeedingProceeds

LEMMA TypedNext == Typed /\ [Next]_vars => Typed'
<1> SUFFICES ASSUME Typed, [Next]_vars PROVE Typed'
  OBVIOUS
<1> USE DEF Typed, start, handlers, history
<1>1. CASE Start
  <2>1. memory' \in [Keys -> Served]
    BY <1>1, CopyOfRowType DEF Start, Loaded, TypeOK
  <2>2. config' # << >> => 0 < Len(config')
    BY <1>1, KeyTableAssumption, EmptySeq DEF Start
  <2> QED
    BY <1>1, <2>1, <2>2 DEF Start, TypeOK, SeedingProceeds, Served
<1>2. CASE Seed
  <2>1. db' \in [Keys -> Int \cup {Absent}] /\ memory' \in [Keys -> Served]
    BY <1>2, NextSeedType, ExecutedType, CopyType DEF Seed, TypeOK, Served
  <2>2. Len(config) \in Nat
    BY ConfigType, LenProperties
  <2> QED
    BY <1>2, <2>1, <2>2 DEF Seed, TypeOK, SeedingProceeds, Served
<1>3. CASE SeedFails
  <2>1. db' \in [Keys -> Int \cup {Absent}] /\ orphans' \subseteq AnyStatement
    <3>1. CASE Executed(NextSeed) /\ UNCHANGED orphans
      BY <1>3, <3>1, NextSeedType, ExecutedType DEF SeedFails, TypeOK, AnyStatement
    <3>2. CASE UNCHANGED db /\ Orphaned({NextSeed})
      <4>1. {NextSeed} \in SUBSET AnyStatement
        BY <1>3, NextSeedType DEF SeedFails
      <4> QED
        BY <3>2, <4>1, OrphanedType DEF TypeOK
    <3> QED
      BY <1>3, <3>1, <3>2 DEF SeedFails
  <2> QED
    BY <1>3, <2>1, KeyTableAssumption
       DEF SeedFails, Emptied, TypeOK, SeedingProceeds, AnyStatement
<1>4. CASE Crash
  <2>1. Unexecuted \in SUBSET AnyStatement
    BY HandledStatement DEF Unexecuted
  <2>2. orphans' \subseteq AnyStatement
    BY <1>4, <2>1, OrphanedType DEF Crash
  <2> QED
    BY <1>4, <2>2, KeyTableAssumption
       DEF Crash, Emptied, TypeOK, SeedingProceeds, AnyStatement
<1>5. ASSUME NEW a \in Admins, Handler(a) PROVE Typed'
  <2>1. ASSUME NEW op \in Ops, NEW k \in Keys, NEW w \in Weights, Begin(a, op, k, w)
        PROVE  Typed'
    <3> DEFINE s == [op |-> op, key |-> k, weight |-> Weight(op, w)]
    <3>1. s \in Statements
      BY DEF Statements, Weight
    <3>2. s # NoStmt
      BY <3>1, StatementsAreAny
    <3>3. /\ stage' = [stage EXCEPT ![a] = "sent"]
          /\ stmt' = [stmt EXCEPT ![a] = s]
      BY <2>1 DEF Begin
    <3> HIDE DEF s
    <3> QED
      BY <2>1, <3>1, <3>2, <3>3 DEF Begin, TypeOK, SeedingProceeds
  <2>2. CASE Execute(a)
    <3>1. stmt[a] \in AnyStatement /\ stmt[a].key \in Keys
      BY <2>2, HandledStatement DEF Execute, AnyStatement
    <3>2. db' \in [Keys -> Int \cup {Absent}]
      BY <2>2, <3>1, ExecutedType DEF Execute
    <3> QED
      BY <2>2, <3>1, <3>2 DEF Execute, TypeOK, SeedingProceeds
  <2>3. CASE Reply(a)
    <3>1. stmt[a] \in AnyStatement /\ stmt[a].key \in Keys
      BY <2>3, HandledStatement DEF Reply, AnyStatement
    <3>2. memory' \in [Keys -> Served]
      BY <2>3, <3>1, CopyType DEF Reply, TypeOK, Served
    <3> QED
      BY <2>3, <3>1, <3>2, HandlersEnd DEF Reply, TypeOK, SeedingProceeds, Served
  <2>4. CASE GiveUp(a)
    <3>1. stmt[a] \in AnyStatement /\ stmt[a].key \in Keys
      BY <2>4, HandledStatement DEF GiveUp, AnyStatement
    <3>2. orphans' \subseteq AnyStatement
      BY <2>4, <3>1, OrphanedType DEF GiveUp, TypeOK, AnyStatement
    <3> QED
      BY <2>4, <3>1, <3>2, HandlersEnd DEF GiveUp, TypeOK, SeedingProceeds, AnyStatement
  <2> QED
    BY <1>5, <2>1, <2>2, <2>3, <2>4 DEF Handler
<1>6. ASSUME NEW s \in orphans, ExecuteOrphan(s) PROVE Typed'
  <2>1. s \in AnyStatement
    BY DEF TypeOK, AnyStatement
  <2>2. db' \in [Keys -> Int \cup {Absent}]
    BY <1>6, <2>1, ExecutedType DEF ExecuteOrphan
  <2> QED
    BY <1>6, <2>1, <2>2 DEF ExecuteOrphan, TypeOK, SeedingProceeds, AnyStatement
<1>7. ASSUME NEW s \in orphans, LoseOrphan(s) PROVE Typed'
  BY <1>7 DEF LoseOrphan, TypeOK, SeedingProceeds
<1>8. CASE UNCHANGED vars
  BY <1>8 DEF vars, TypeOK, SeedingProceeds
<1> QED
  BY <1>1, <1>2, <1>3, <1>4, <1>5, <1>6, <1>7, <1>8 DEF Next

(* Every variable of KeyTable keeps its type.                              *)
THEOREM TypeCorrect == Spec => []TypeOK
<1>1. Typed => TypeOK
  BY DEF Typed
<1> QED
  BY <1>1, TypedInit, TypedNext, PTL DEF Spec
-----------------------------------------------------------------------------
(* The invariant.  Handlers work while the process serves; two of them on  *)
(* one key taint it; so the table and the copy can differ, about a key     *)
(* that is neither tainted nor a phantom, only by the one statement that   *)
(* has been executed and not yet been replied to.                          *)
OnlyWhenServing == server # "serving" => \A a \in Admins : stage[a] = "idle"

OneHandlerPerKey ==
  \A a, b \in Admins :
    stage[a] # "idle" /\ stage[b] # "idle" /\ stmt[a].key = stmt[b].key /\ a # b
      => stmt[a].key \in tainted

Underway(k) == \E a \in Admins : stage[a] = "executed" /\ stmt[a].key = k

AgreeOrUnderway ==
  server # "down" =>
    \A k \in Keys \ (tainted \cup phantom) : Underway(k) \/ Agree(k)

ExecutedStands ==
  \A a \in Admins : stage[a] = "executed" /\ stmt[a].key \notin tainted =>
    /\ stmt[a].key \notin phantom => CopyOfRow(db[stmt[a].key]) = Copy(stmt[a])
    /\ stmt[a].op = "delete" => stmt[a].key \notin phantom

FollowsInv == Typed /\ OnlyWhenServing /\ OneHandlerPerKey /\ AgreeOrUnderway
                    /\ ExecutedStands

(* A statement that finds its row leaves in it what its handler will make  *)
(* of the copy.                                                            *)
LEMMA RowIsCopied ==
  ASSUME NEW s \in AnyStatement, s.op = "update" => db[s.key] # Absent
  PROVE  CopyOfRow(Row(s)) = Copy(s)
<1>1. s.op \in {"add", "update", "delete"} /\ s.weight \in Int /\ s.weight # Absent
  BY KeyTableAssumption DEF AnyStatement
<1>2. CASE s.op = "delete"
  BY <1>2 DEF Row, Copy, CopyOfRow
<1>3. CASE s.op # "delete"
  <2>1. Row(s) = s.weight
    BY <1>1, <1>3 DEF Row
  <2> QED
    BY <1>1, <1>3, <2>1 DEF Copy, CopyOfRow
<1> QED
  BY <1>2, <1>3

LEMMA ExecutedElsewhere ==
  ASSUME TypeOK, NEW s \in AnyStatement, Executed(s)
  PROVE  /\ \A k \in Keys \ {s.key} : db'[k] = db[k]
         /\ db'[s.key] = Row(s)
  BY DEF Executed, TypeOK, AnyStatement

LEMMA HandlerEnds ==
  ASSUME TypeOK, NEW a \in Admins, EndHandler(a)
  PROVE  /\ stage'[a] = "idle"
         /\ \A b \in Admins \ {a} : stage'[b] = stage[b] /\ stmt'[b] = stmt[b]
  BY DEF EndHandler, TypeOK

LEMMA FollowsInit == Init => FollowsInv
  BY TypedInit DEF Init, FollowsInv, OnlyWhenServing, OneHandlerPerKey,
                   AgreeOrUnderway, ExecutedStands

LEMMA FollowsNext == FollowsInv /\ [Next]_vars => FollowsInv'
<1> SUFFICES ASSUME FollowsInv, [Next]_vars PROVE FollowsInv'
  OBVIOUS
<1> USE DEF start, handlers, history
<1>t. TypeOK /\ TypeOK' /\ Typed /\ Typed'
  BY TypedNext DEF FollowsInv, Typed
<1>i. ASSUME server # "serving", UNCHANGED <<stage, stmt>>
      PROVE  OnlyWhenServing' /\ OneHandlerPerKey' /\ ExecutedStands'
  BY <1>i DEF FollowsInv, OnlyWhenServing, OneHandlerPerKey, ExecutedStands
<1>1. CASE Start
  <2>1. AgreeOrUnderway'
    BY <1>1, <1>t DEF Start, Loaded, AgreeOrUnderway, Agree, CopyOfRow, TypeOK
  <2> QED
    BY <1>1, <1>i, <1>t, <2>1 DEF Start, FollowsInv
<1>2. CASE Seed
  <2>1. PICK s \in AnyStatement : s = NextSeed /\ s.op = "add"
    BY <1>2, <1>t, NextSeedType DEF Seed, NextSeed
  <2>2. Executed(s) /\ memory' = [memory EXCEPT ![s.key] = Copy(s)] /\ s.key \in Keys
    BY <1>2, <2>1 DEF Seed, AnyStatement
  <2>3. Agree(s.key)'
    <3>1. CopyOfRow(Row(s)) = Copy(s)
      BY <2>1, RowIsCopied
    <3>2. db'[s.key] = Row(s) /\ memory'[s.key] = Copy(s)
      BY <2>1, <2>2, <1>t, ExecutedElsewhere DEF TypeOK
    <3> QED
      BY <3>1, <3>2 DEF Agree, CopyOfRow
  <2>4. ASSUME NEW k \in Keys, k # s.key PROVE Agree(k)' <=> Agree(k)
    <3>1. db'[k] = db[k] /\ memory'[k] = memory[k]
      BY <2>1, <2>2, <2>4, <1>t, ExecutedElsewhere DEF TypeOK
    <3> QED
      BY <3>1 DEF Agree, CopyOfRow
  <2>5. AgreeOrUnderway'
    BY <1>2, <2>3, <2>4 DEF Seed, FollowsInv, AgreeOrUnderway, Underway
  <2> QED
    BY <1>2, <1>i, <1>t, <2>5 DEF Seed, FollowsInv
<1>3. CASE SeedFails
  BY <1>3, <1>i, <1>t DEF SeedFails, FollowsInv, AgreeOrUnderway
<1>4. CASE Crash
  <2>1. \A a \in Admins : stage'[a] = "idle"
    BY <1>4 DEF Crash
  <2> QED
    BY <1>4, <2>1, <1>t DEF Crash, FollowsInv, OnlyWhenServing, OneHandlerPerKey,
                            AgreeOrUnderway, ExecutedStands
<1>5. ASSUME NEW a \in Admins, NEW op \in Ops, NEW k \in Keys, NEW w \in Weights,
             Begin(a, op, k, w)
      PROVE  FollowsInv'
  <2>1. /\ server = "serving" /\ server' = server
        /\ stage[a] = "idle" /\ stage'[a] = "sent" /\ stmt'[a].key = k
        /\ \A b \in Admins \ {a} : stage'[b] = stage[b] /\ stmt'[b] = stmt[b]
        /\ tainted \subseteq tainted' /\ phantom' = phantom
        /\ db' = db /\ memory' = memory
    BY <1>5, <1>t DEF Begin, TypeOK
  <2>2. OnlyWhenServing'
    BY <2>1 DEF OnlyWhenServing
  <2>3. OneHandlerPerKey'
    <3>1. ASSUME NEW b \in Admins \ {a}, stage[b] # "idle", stmt[b].key = k
          PROVE  k \in tainted'
      BY <1>5, <3>1 DEF Begin, InFlight
    <3> QED
      BY <2>1, <3>1 DEF OneHandlerPerKey, FollowsInv
  <2>4. AgreeOrUnderway'
    BY <2>1 DEF AgreeOrUnderway, FollowsInv, Underway, Agree, CopyOfRow
  <2>5. ExecutedStands'
    BY <2>1 DEF ExecutedStands, FollowsInv, CopyOfRow, Copy
  <2> QED
    BY <1>t, <2>2, <2>3, <2>4, <2>5 DEF FollowsInv
<1>6. ASSUME NEW a \in Admins, Execute(a) PROVE FollowsInv'
  <2> DEFINE s == stmt[a]
  <2>1. /\ s \in AnyStatement /\ s.key \in Keys
        /\ stage[a] = "sent" /\ stage'[a] = "executed" /\ stmt' = stmt
        /\ \A b \in Admins \ {a} : stage'[b] = stage[b]
        /\ server' = server /\ tainted' = tainted /\ memory' = memory
        /\ Executed(s)
    BY <1>6, <1>t, HandledStatement DEF Execute, TypeOK, AnyStatement
  <2>2. /\ \A k \in Keys \ {s.key} : k \in phantom' <=> k \in phantom
        /\ s.key \in phantom' <=> s.op = "update" /\ db[s.key] = Absent
    BY <1>6 DEF Execute
  <2>3. /\ \A k \in Keys \ {s.key} : db'[k] = db[k]
        /\ db'[s.key] = Row(s)
    BY <2>1, <1>t, ExecutedElsewhere
  <2>4. OnlyWhenServing' /\ OneHandlerPerKey'
    BY <2>1 DEF OnlyWhenServing, OneHandlerPerKey, FollowsInv
  <2>5. AgreeOrUnderway'
    BY <2>1, <2>2, <2>3 DEF AgreeOrUnderway, FollowsInv, Underway, Agree, CopyOfRow
  <2>6. ExecutedStands'
    <3> SUFFICES ASSUME NEW b \in Admins, stage'[b] = "executed",
                        stmt[b].key \notin tainted
                 PROVE  /\ stmt[b].key \notin phantom'
                             => CopyOfRow(db'[stmt[b].key]) = Copy(stmt[b])
                        /\ stmt[b].op = "delete" => stmt[b].key \notin phantom'
      BY <2>1 DEF ExecutedStands, CopyOfRow, Copy
    <3>1. CASE b = a
      BY <2>1, <2>2, <2>3, <3>1, RowIsCopied
    <3>2. CASE b # a
      <4>1. stage[b] = "executed" /\ stmt[b].key # s.key
        BY <2>1, <3>2 DEF FollowsInv, OneHandlerPerKey
      <4>2. stmt[b].key \in Keys
        BY <4>1, <1>t, HandledStatement DEF AnyStatement
      <4> QED
        BY <2>2, <2>3, <4>1, <4>2 DEF FollowsInv, ExecutedStands
    <3> QED
      BY <3>1, <3>2
  <2> QED
    BY <1>t, <2>4, <2>5, <2>6 DEF FollowsInv
<1>7. ASSUME NEW a \in Admins, Reply(a) PROVE FollowsInv'
  <2> DEFINE k == stmt[a].key
  <2>1. /\ k \in Keys /\ stage[a] = "executed" /\ stage'[a] = "idle"
        /\ \A b \in Admins \ {a} : stage'[b] = stage[b] /\ stmt'[b] = stmt[b]
        /\ server' = server /\ tainted' = tainted /\ phantom' = phantom /\ db' = db
    BY <1>7, <1>t, HandledStatement, HandlerEnds DEF Reply, AnyStatement
  <2>2. /\ memory'[k] = Copy(stmt[a])
        /\ \A j \in Keys \ {k} : memory'[j] = memory[j]
    BY <1>7, <2>1, <1>t DEF Reply, TypeOK
  <2>3. OnlyWhenServing' /\ OneHandlerPerKey'
    BY <2>1 DEF OnlyWhenServing, OneHandlerPerKey, FollowsInv
  <2>4. AgreeOrUnderway'
    <3> SUFFICES ASSUME server # "down", NEW j \in Keys \ (tainted \cup phantom)
                 PROVE  Underway(j)' \/ Agree(j)'
      BY <2>1 DEF AgreeOrUnderway
    <3>1. CASE j = k
      BY <2>1, <2>2, <3>1 DEF FollowsInv, ExecutedStands, Agree, CopyOfRow
    <3>2. CASE j # k
      BY <2>1, <2>2, <3>2 DEF FollowsInv, AgreeOrUnderway, Underway, Agree, CopyOfRow
    <3> QED
      BY <3>1, <3>2
  <2>5. ExecutedStands'
    BY <2>1 DEF ExecutedStands, FollowsInv, CopyOfRow, Copy
  <2> QED
    BY <1>t, <2>3, <2>4, <2>5 DEF FollowsInv
<1>8. ASSUME NEW a \in Admins, GiveUp(a) PROVE FollowsInv'
  <2> DEFINE k == stmt[a].key
  <2>1. /\ stage'[a] = "idle"
        /\ \A b \in Admins \ {a} : stage'[b] = stage[b] /\ stmt'[b] = stmt[b]
        /\ server' = server /\ phantom' = phantom /\ db' = db /\ memory' = memory
        /\ tainted \subseteq tainted'
        /\ stage[a] = "sent" \/ (stage[a] = "executed" /\ k \in tainted')
    BY <1>8, <1>t, HandlerEnds DEF GiveUp
  <2>2. OnlyWhenServing' /\ OneHandlerPerKey'
    BY <2>1 DEF OnlyWhenServing, OneHandlerPerKey, FollowsInv
  <2>3. AgreeOrUnderway'
    BY <2>1 DEF AgreeOrUnderway, FollowsInv, Underway, Agree, CopyOfRow
  <2>4. ExecutedStands'
    BY <2>1 DEF ExecutedStands, FollowsInv, CopyOfRow, Copy
  <2> QED
    BY <1>t, <2>2, <2>3, <2>4 DEF FollowsInv
<1>9. ASSUME NEW s \in orphans, ExecuteOrphan(s) PROVE FollowsInv'
  <2>1. /\ s \in AnyStatement /\ Executed(s) /\ tainted' = tainted \cup {s.key}
        /\ UNCHANGED <<server, memory, stage, stmt, phantom>>
    BY <1>9, <1>t DEF ExecuteOrphan, TypeOK, AnyStatement
  <2>2. \A k \in Keys \ {s.key} : db'[k] = db[k]
    BY <2>1, <1>t, ExecutedElsewhere
  <2>3. OnlyWhenServing' /\ OneHandlerPerKey'
    BY <2>1 DEF OnlyWhenServing, OneHandlerPerKey, FollowsInv
  <2>4. AgreeOrUnderway'
    BY <2>1, <2>2 DEF AgreeOrUnderway, FollowsInv, Underway, Agree, CopyOfRow
  <2>5. ExecutedStands'
    <3>1. \A b \in Admins : stage[b] = "executed" => stmt[b].key \in Keys
      BY <1>t, HandledStatement DEF AnyStatement
    <3> QED
      BY <2>1, <2>2, <3>1 DEF ExecutedStands, FollowsInv, CopyOfRow, Copy
  <2> QED
    BY <1>t, <2>3, <2>4, <2>5 DEF FollowsInv
<1>10. CASE \E s \in orphans : LoseOrphan(s)
  BY <1>10, <1>t DEF LoseOrphan, FollowsInv, OnlyWhenServing, OneHandlerPerKey,
                AgreeOrUnderway, ExecutedStands, Underway, Agree, CopyOfRow, Copy
<1>11. CASE UNCHANGED vars
  BY <1>11, <1>t DEF vars, FollowsInv, OnlyWhenServing, OneHandlerPerKey,
                AgreeOrUnderway, ExecutedStands, Underway, Agree, CopyOfRow, Copy
<1> QED
  BY <1>1, <1>2, <1>3, <1>4, <1>5, <1>6, <1>7, <1>8, <1>9, <1>10, <1>11
     DEF Next, Handler

(* Between two handlers, memory and table agree about every key that was   *)
(* neither interfered with nor updated without a row (admin.rs:107-189,    *)
(* state.rs:39-74), however many keys and administrators there are.        *)
THEOREM MemoryFollows == Spec => []MemoryFollowsTable
<1>1. FollowsInv => MemoryFollowsTable
  BY DEF FollowsInv, AgreeOrUnderway, MemoryFollowsTable, Underway, InFlight
<1> QED
  BY <1>1, FollowsInit, FollowsNext, PTL DEF Spec
-----------------------------------------------------------------------------
(* A revoked key has left both places, and no handler is about to bring it *)
(* back; a statement that still could is nobody's, and ends its revocation *)
(* when it is executed.                                                    *)
RevokedGone ==
  \A k \in revoked \ Configured :
    /\ db[k] = Absent /\ memory[k] = Absent
    /\ \A a \in Admins : stage[a] # "idle" /\ stmt[a].key = k => stmt[a].op = "delete"

LEMMA RevokedNext ==
  FollowsInv /\ RevokedGone /\ [Next]_vars => RevokedGone'
<1> SUFFICES ASSUME FollowsInv, RevokedGone, [Next]_vars PROVE RevokedGone'
  OBVIOUS
<1> USE DEF start, handlers, history
<1>t. TypeOK /\ Typed
  BY DEF FollowsInv, Typed
<1>1. CASE Start
  BY <1>1, <1>t DEF Start, Loaded, CopyOfRow, RevokedGone, TypeOK
<1>2. CASE Seed
  <2>1. PICK s \in AnyStatement : s = NextSeed /\ s.key \in Configured
    BY <1>2, <1>t, NextSeedType DEF Seed
  <2>2. Executed(s) /\ memory' = [memory EXCEPT ![s.key] = Copy(s)]
    BY <1>2, <2>1 DEF Seed
  <2>3. \A k \in Keys \ Configured : db'[k] = db[k] /\ memory'[k] = memory[k]
    BY <2>1, <2>2, <1>t, ExecutedElsewhere DEF TypeOK
  <2> QED
    BY <1>2, <2>3, <1>t DEF Seed, RevokedGone, TypeOK
<1>3. CASE SeedFails
  <2>1. PICK s \in AnyStatement : s = NextSeed /\ s.key \in Configured
    BY <1>3, <1>t, NextSeedType DEF SeedFails
  <2>2. \A k \in Keys \ Configured : db'[k] = db[k]
    BY <1>3, <2>1, <1>t, ExecutedElsewhere DEF SeedFails
  <2> QED
    BY <1>3, <2>2, <1>t DEF SeedFails, Emptied, RevokedGone, TypeOK
<1>4. CASE Crash
  BY <1>4, <1>t DEF Crash, Emptied, RevokedGone, TypeOK
<1>5. ASSUME NEW a \in Admins, NEW op \in Ops, NEW k \in Keys, NEW w \in Weights,
             Begin(a, op, k, w)
      PROVE  RevokedGone'
  <2>1. /\ stmt'[a].key = k /\ stmt'[a].op = op
        /\ \A b \in Admins \ {a} : stage'[b] = stage[b] /\ stmt'[b] = stmt[b]
        /\ db' = db /\ memory' = memory
    BY <1>5, <1>t DEF Begin, TypeOK
  <2>2. /\ revoked' \subseteq revoked
        /\ op # "delete" => k \notin revoked'
    BY <1>5 DEF Begin
  <2> QED
    BY <2>1, <2>2 DEF RevokedGone
<1>6. ASSUME NEW a \in Admins, Execute(a) PROVE RevokedGone'
  <2>1. /\ stmt[a] \in AnyStatement /\ stage[a] = "sent"
        /\ \A b \in Admins \ {a} : stage'[b] = stage[b]
        /\ UNCHANGED <<stmt, memory, revoked>> /\ Executed(stmt[a])
    BY <1>6, <1>t, HandledStatement DEF Execute, TypeOK
  <2>2. /\ \A k \in Keys \ {stmt[a].key} : db'[k] = db[k]
        /\ stmt[a].op = "delete" => db'[stmt[a].key] = Absent
    BY <2>1, <1>t, ExecutedElsewhere DEF Row
  <2> QED
    BY <2>1, <2>2, <1>t DEF RevokedGone, TypeOK
<1>7. ASSUME NEW a \in Admins, Reply(a) PROVE RevokedGone'
  <2> DEFINE k == stmt[a].key
  <2>1. /\ k \in Keys /\ stage[a] = "executed" /\ stage'[a] = "idle"
        /\ \A b \in Admins \ {a} : stage'[b] = stage[b] /\ stmt'[b] = stmt[b]
        /\ db' = db
    BY <1>7, <1>t, HandledStatement, HandlerEnds DEF Reply, AnyStatement
  <2>2. /\ memory'[k] = Copy(stmt[a])
        /\ \A j \in Keys \ {k} : memory'[j] = memory[j]
    BY <1>7, <2>1, <1>t DEF Reply, TypeOK
  <2>3. ASSUME NEW j \in revoked \ Configured PROVE memory'[j] = Absent
    BY <2>1, <2>2, <2>3, <1>t DEF RevokedGone, Copy, TypeOK
  <2>4. CASE revoked' = revoked
    BY <2>1, <2>3, <2>4 DEF RevokedGone
  <2>5. CASE Undisturbed(stmt[a]) /\ revoked' = revoked \cup {k}
    <3>1. k \notin tainted /\ stmt[a].op = "delete"
      BY <2>5 DEF Undisturbed
    <3>2. memory'[k] = Absent
      BY <2>2, <3>1 DEF Copy
    <3>3. db[k] = Absent
      <4>1. CopyOfRow(db[k]) = Absent
        BY <2>1, <3>1 DEF FollowsInv, ExecutedStands, Copy
      <4>2. db[k] \in Int \cup {Absent}
        BY <2>1, <1>t DEF TypeOK
      <4>3. ASSUME NEW w \in Int PROVE AsU32(w) # Absent
        BY AsU32Type, KeyTableAssumption
      <4> QED
        BY <4>1, <4>2, <4>3 DEF CopyOfRow
    <3>4. \A b \in Admins \ {a} : stage[b] # "idle" => stmt[b].key # k
      BY <2>1, <3>1 DEF FollowsInv, OneHandlerPerKey
    <3> QED
      BY <2>1, <2>3, <2>5, <3>2, <3>3, <3>4 DEF RevokedGone
  <2> QED
    BY <1>7, <2>4, <2>5 DEF Reply
<1>8. ASSUME NEW a \in Admins, GiveUp(a) PROVE RevokedGone'
  <2>1. /\ stage'[a] = "idle"
        /\ \A b \in Admins \ {a} : stage'[b] = stage[b] /\ stmt'[b] = stmt[b]
        /\ UNCHANGED <<db, memory, revoked>>
    BY <1>8, <1>t, HandlerEnds DEF GiveUp
  <2> QED
    BY <2>1 DEF RevokedGone
<1>9. ASSUME NEW s \in orphans, ExecuteOrphan(s) PROVE RevokedGone'
  <2>1. /\ s \in AnyStatement /\ Executed(s) /\ UNCHANGED <<memory, stage, stmt>>
        /\ revoked' = IF s.op = "delete" THEN revoked ELSE revoked \ {s.key}
    BY <1>9, <1>t DEF ExecuteOrphan, TypeOK, AnyStatement
  <2>2. /\ \A k \in Keys \ {s.key} : db'[k] = db[k]
        /\ s.op = "delete" => db'[s.key] = Absent
    BY <2>1, <1>t, ExecutedElsewhere DEF Row
  <2> QED
    BY <2>1, <2>2, <1>t DEF RevokedGone, TypeOK
<1>10. CASE \E s \in orphans : LoseOrphan(s)
  BY <1>10 DEF LoseOrphan, RevokedGone
<1>11. CASE UNCHANGED vars
  BY <1>11 DEF vars, RevokedGone
<1> QED
  BY <1>1, <1>2, <1>3, <1>4, <1>5, <1>6, <1>7, <1>8, <1>9, <1>10, <1>11
     DEF Next, Handler

(* A revoked key that the configuration does not list is out of use until  *)
(* it is sent again, through crashes, restarts and lost replies            *)
(* (admin.rs:136-146, 179-189).                                            *)
THEOREM RevokedKeysStayOut == Spec => []RevokedIsGone
<1>1. Init => RevokedGone
  BY DEF Init, RevokedGone
<1>2. RevokedGone => RevokedIsGone
  BY DEF RevokedGone, RevokedIsGone
<1> QED
  BY <1>1, <1>2, FollowsInit, FollowsNext, RevokedNext, PTL DEF Spec
=============================================================================
