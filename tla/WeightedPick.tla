---------------------------- MODULE WeightedPick ----------------------------
(***************************************************************************)
(* The arithmetic of KeyPool::acquire_key: the candidates it filters out   *)
(* of the list, a cursor over the sum of their weights, and the candidate  *)
(* the cursor falls on.                                                    *)
(* A list of candidates is given by the sequence ws of their weights.      *)
(***************************************************************************)
EXTENDS Integers, Sequences

CONSTANT U32    \* the number of values of a u32: 2^32 in the program

ASSUME U32Assumption == U32 \in Nat \ {0}

(* The filter of acquire_key on a list s of keys: what it has collected    *)
(* after each entry, and in the end.                                       *)
Collected(s, up) ==
  LET taken[i \in 0 .. Len(s)] == IF i = 0 THEN << >>
                                  ELSE IF up[s[i]] THEN Append(taken[i-1], s[i])
                                  ELSE taken[i-1]
  IN  taken

HealthyOf(s, up) == Collected(s, up)[Len(s)]

(* The values "accumulated" takes in the loop of acquire_key.  The sum is  *)
(* a u32: the release build wraps around.                                  *)
Accumulated(ws) ==
  LET acc[i \in 0 .. Len(ws)] == IF i = 0 THEN 0 ELSE (acc[i-1] + ws[i]) % U32
  IN  acc

TotalWeight(ws) == Accumulated(ws)[Len(ws)]

(* With no candidate, or a zero total, acquire_key answers                 *)
(* NoKeysAvailable.                                                        *)
Usable(ws) == ws # << >> /\ TotalWeight(ws) \in 1 .. U32 - 1

\* Mutant: the cursor is trusted to be below a total that may have shrunk.
UnreducedIndex(ws, rr) == rr

(* The cursor as this list of candidates sees it.                          *)
Index(ws, rr) == rr % TotalWeight(ws)

\* Mutant: ">=" for ">" in the loop, the boundary belongs to the wrong key.
CoversInclusive(ws, index, i) ==
  /\ Accumulated(ws)[i] >= index
  /\ \A j \in 1 .. i-1 : Accumulated(ws)[j] < index

(* Entry i is the first whose accumulated weight exceeds the cursor.       *)
Covers(ws, index, i) ==
  /\ Accumulated(ws)[i] > index
  /\ \A j \in 1 .. i-1 : Accumulated(ws)[j] <= index

LoopFinds(ws, index) == \E i \in 1 .. Len(ws) : Accumulated(ws)[i] > index

(* Entry i is the one acquire_key returns: the one the loop finds, or the  *)
(* first if the loop finds none.                                           *)
Picks(ws, index, i) == Covers(ws, index, i) \/ (i = 1 /\ ~ LoopFinds(ws, index))

\* Mutant: the cursor is stored without wrapping around.
UnwrappedNextIndex(ws, rr) == rr + 1

(* round_robin_index after an acquisition.                                 *)
NextIndex(ws, rr) == (rr + 1) % TotalWeight(ws)
=============================================================================
