------------------------------- MODULE KeyTable ------------------------------
(***************************************************************************)
(* A table of keys in the database, and its copy in memory.  The program   *)
(* has two: client_keys with the set that authentication reads, and        *)
(* downstream_keys with the list and the weights of the key pool.  Both    *)
(* are kept in the same way: AppState::new fills the copy (state.rs), and  *)
(* each admin handler changes the table first, awaits its reply, and then  *)
(* changes the copy (admin.rs).                                            *)
(*                                                                         *)
(* The database is remote.  A reply can be lost, and a statement whose     *)
(* handler has given up, or died with the process, can still be executed   *)
(* later, or never.  A row holds an i64 weight, the copy the u32 it is     *)
(* cast to; a client key is a row of which only the presence counts.       *)
(***************************************************************************)
EXTENDS Integers, FiniteSets, SequencesExt

CONSTANTS
  Keys,
  Ops,         \* handlers: "add", "update", "delete"; no "update" of client keys
  Weights,     \* the weights an admin may send, i64 values
  U32,         \* the number of values of a u32
  Admins,      \* concurrent admin requests
  Configs,     \* the lists of keys that file and environment may configure
  MaxOrphans,  \* bound: statements that outlive their handlers at one time
  Absent,      \* no row, no copy
  NoKey

ASSUME KeyTableAssumption ==
  /\ Ops \subseteq {"add", "update", "delete"}
  /\ Weights \subseteq Int
  /\ U32 \in Nat /\ U32 > 1
  /\ Configs \subseteq Seq(Keys)
  /\ MaxOrphans \in Nat
  /\ Absent \notin Int
  /\ NoKey \notin Keys

VARIABLES
  server,    \* "down", "seeding" or "serving"
  config,    \* the configuration of the last start
  seeded,    \* entries of it seeded by the start in progress
  db,        \* the table
  memory,    \* the copy
  stage,     \* of each admin handler: "idle", "sent" or "executed"
  stmt,      \* the statement of each admin handler
  orphans,   \* statements under way that no handler waits for
  tainted,   \* history: keys whose statements overlapped or were not replied to
  phantom,   \* history: keys last "updated" while they had no row
  revoked    \* history: keys deleted without interference, and not sent since

handlers == <<stage, stmt>>
history  == <<tainted, phantom, revoked>>
start    == <<server, config, seeded>>
vars     == <<start, db, memory, handlers, orphans, history>>

Statements == [op : Ops, key : Keys, weight : Weights \cup {1}]
NoStmt     == [op |-> "none", key |-> NoKey, weight |-> 1]

\* The keys that some start may find in the configuration.
Configured == UNION {ToSet(c) : c \in Configs}

AsU32(w) == w % U32    \* the cast "as u32"

TypeOK ==
  /\ server \in {"down", "seeding", "serving"}
  /\ config \in Configs \cup {<< >>}
  /\ seeded \in 0 .. Len(config)
  /\ db \in [Keys -> Int \cup {Absent}]
  /\ memory \in [Keys -> 0 .. U32 - 1 \cup {Absent}]
  /\ stage \in [Admins -> {"idle", "sent", "executed"}]
  /\ stmt \in [Admins -> Statements \cup {NoStmt}]
  /\ \A a \in Admins : stage[a] = "idle" <=> stmt[a] = NoStmt
  /\ orphans \subseteq [op : {"add", "update", "delete"}, key : Keys, weight : Int]
  /\ tainted \subseteq Keys /\ phantom \subseteq Keys /\ revoked \subseteq Keys

Init ==
  /\ server = "down" /\ config = << >> /\ seeded = 0
  /\ db = [k \in Keys |-> Absent]
  /\ memory = [k \in Keys |-> Absent]
  /\ stage = [a \in Admins |-> "idle"]
  /\ stmt = [a \in Admins |-> NoStmt]
  /\ orphans = {}
  /\ tainted = {} /\ phantom = {} /\ revoked = {}

-----------------------------------------------------------------------------
(* INSERT OR REPLACE, UPDATE ... WHERE key = ... and DELETE.               *)
Row(s) ==
  CASE s.op = "add"    -> s.weight
    [] s.op = "update" -> IF db[s.key] = Absent THEN Absent ELSE s.weight
    [] OTHER           -> Absent

\* Mutant: the weight reaches the copy without the cast.
CopyUncast(s) == IF s.op = "delete" THEN Absent ELSE s.weight

\* Mutant: a deletion leaves the copy alone.
CopyKept(s) == IF s.op = "delete" THEN memory[s.key] ELSE AsU32(s.weight)

\* What the handler makes of the copy: add_key serves add and update alike.
Copy(s) == IF s.op = "delete" THEN Absent ELSE AsU32(s.weight)

CopyOfRow(row) == IF row = Absent THEN Absent ELSE AsU32(row)

Executed(s) == db' = [db EXCEPT ![s.key] = Row(s)]

Loaded == memory' = [k \in Keys |-> CopyOfRow(db[k])]

Emptied == memory' = [k \in Keys |-> Absent]

\* A statement that nobody waits for any more is lost, or is still under way.
Orphaned(S) ==
  \E T \in SUBSET S : /\ orphans' = orphans \cup T
                      /\ Cardinality(orphans') <= MaxOrphans

-----------------------------------------------------------------------------
(* Config::load, then AppState::new: it reads the table into memory,       *)
(* unless that is empty and the configuration has keys: then these are     *)
(* seeded one by one.  The configuration may have changed since the last   *)
(* start.                                                                  *)
Start ==
  /\ server = "down"
  /\ config' \in Configs
  /\ server' = IF (\A k \in Keys : db[k] = Absent) /\ config' # << >>
               THEN "seeding" ELSE "serving"
  /\ Loaded
  /\ tainted' = {} /\ phantom' = {}
  /\ UNCHANGED <<seeded, db, handlers, orphans, revoked>>

NextSeed == [op |-> "add", key |-> config[seeded + 1], weight |-> 1]

Seed ==
  /\ server = "seeding"
  /\ Executed(NextSeed)
  /\ memory' = [memory EXCEPT ![NextSeed.key] = Copy(NextSeed)]
  /\ seeded' = IF seeded + 1 = Len(config) THEN 0 ELSE seeded + 1
  /\ server' = IF seeded + 1 = Len(config) THEN "serving" ELSE "seeding"
  /\ UNCHANGED <<config, handlers, orphans, history>>

\* The start fails at an insertion, which may have been, or may yet be, executed.
SeedFails ==
  /\ server = "seeding"
  /\ server' = "down"
  /\ \/ Executed(NextSeed) /\ UNCHANGED orphans
     \/ UNCHANGED db /\ Orphaned({NextSeed})
  /\ Emptied
  /\ seeded' = 0
  /\ UNCHANGED <<config, handlers, history>>

Unexecuted == {stmt[a] : a \in {b \in Admins : stage[b] = "sent"}}

\* The process dies or is stopped, in whatever it is doing.
Crash ==
  /\ server # "down"
  /\ server' = "down"
  /\ Emptied
  /\ seeded' = 0
  /\ Orphaned(Unexecuted)
  /\ stage' = [a \in Admins |-> "idle"]
  /\ stmt' = [a \in Admins |-> NoStmt]
  /\ UNCHANGED <<config, db, history>>

-----------------------------------------------------------------------------
InFlight(k) == {a \in Admins : stmt[a].key = k}

EndHandler(a) ==
  /\ stage' = [stage EXCEPT ![a] = "idle"]
  /\ stmt' = [stmt EXCEPT ![a] = NoStmt]

(* update_downstream_key raises the weight to 1; add_downstream_key takes  *)
(* any; a deletion has none.                                               *)
Weight(op, w) == IF op = "delete" \/ (op = "update" /\ w < 1) THEN 1 ELSE w

(* A handler sends its statement.                                          *)
Begin(a, op, k, w) ==
  /\ server = "serving"
  /\ stage[a] = "idle"
  /\ stage' = [stage EXCEPT ![a] = "sent"]
  /\ stmt' = [stmt EXCEPT ![a] = [op |-> op, key |-> k, weight |-> Weight(op, w)]]
  /\ tainted' = IF InFlight(k) = {} THEN tainted ELSE tainted \cup {k}
  /\ revoked' = IF op = "delete" THEN revoked ELSE revoked \ {k}
  /\ UNCHANGED <<start, db, memory, orphans, phantom>>

Execute(a) ==
  /\ stage[a] = "sent"
  /\ Executed(stmt[a])
  /\ stage' = [stage EXCEPT ![a] = "executed"]
  /\ phantom' = IF stmt[a].op = "update" /\ db[stmt[a].key] = Absent
                THEN phantom \cup {stmt[a].key} ELSE phantom \ {stmt[a].key}
  /\ UNCHANGED <<start, memory, stmt, orphans, tainted, revoked>>

Undisturbed(s) == s.op = "delete" /\ s.key \notin tainted

(* The database's reply arrives; the handler changes the copy and answers. *)
Reply(a) ==
  /\ stage[a] = "executed"
  /\ memory' = [memory EXCEPT ![stmt[a].key] = Copy(stmt[a])]
  /\ revoked' = IF Undisturbed(stmt[a]) THEN revoked \cup {stmt[a].key} ELSE revoked
  /\ EndHandler(a)
  /\ UNCHANGED <<start, db, orphans, tainted, phantom>>

\* Mutant: the handler changes the copy although it got no reply.
GiveUpCopying(a) ==
  /\ stage[a] = "sent"
  /\ memory' = [memory EXCEPT ![stmt[a].key] = Copy(stmt[a])]
  /\ Orphaned({stmt[a]})
  /\ EndHandler(a)
  /\ UNCHANGED <<start, db, history>>

(* The handler gets an error, or is dropped because the admin has gone.    *)
GiveUp(a) ==
  /\ \/ stage[a] = "sent" /\ Orphaned({stmt[a]}) /\ UNCHANGED tainted
     \/ stage[a] = "executed" /\ tainted' = tainted \cup {stmt[a].key}
        /\ UNCHANGED orphans
  /\ EndHandler(a)
  /\ UNCHANGED <<start, db, memory, phantom, revoked>>

ExecuteOrphan(s) ==
  /\ Executed(s)
  /\ orphans' = orphans \ {s}
  /\ tainted' = tainted \cup {s.key}
  /\ revoked' = IF s.op = "delete" THEN revoked ELSE revoked \ {s.key}
  /\ UNCHANGED <<start, memory, handlers, phantom>>

LoseOrphan(s) ==
  /\ orphans' = orphans \ {s}
  /\ UNCHANGED <<start, db, memory, handlers, history>>

Handler(a) ==
  \/ \E op \in Ops : \E k \in Keys : \E w \in Weights : Begin(a, op, k, w)
  \/ Execute(a) \/ Reply(a) \/ GiveUp(a)

Next ==
  \/ Start \/ Seed \/ SeedFails \/ Crash
  \/ \E a \in Admins : Handler(a)
  \/ \E s \in orphans : ExecuteOrphan(s) \/ LoseOrphan(s)

Spec == Init /\ [][Next]_vars

-----------------------------------------------------------------------------
Agree(k) == memory[k] = CopyOfRow(db[k])

(* The copy agrees with the table (admin.rs:123-128, 140-143, 156-159,     *)
(* 171-174, 183-186; state.rs:39-74) about every key whose statements did  *)
(* not overlap and were all replied to since the process started, between  *)
(* two handlers; except for a key that was updated while it had no row.    *)
MemoryFollowsTable ==
  server = "serving" =>
    \A k \in Keys \ (tainted \cup phantom) : InFlight(k) = {} => Agree(k)

(* A key that was deleted, and not sent since, is not in use, however      *)
(* often the process was restarted; save for the keys of the configuration *)
(* (admin.rs:136-146, 179-189; state.rs:43, 60).                           *)
RevokedIsGone == \A k \in revoked \ Configured : memory[k] = Absent

(* What the dashboard says (admin_dashboard.html:772): clients using a     *)
(* revoked key are blocked.                                                *)
RevokedStaysBlocked ==
  server = "serving" => \A k \in revoked : memory[k] = Absent
=============================================================================
