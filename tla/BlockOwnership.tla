--------------------------- MODULE BlockOwnership ---------------------------
(***************************************************************************)
(* What the block manager promises its clients, without tables, reference  *)
(* counts or a free list: at any time a block is free, owned by exactly    *)
(* one sequence that may write it, or cached, immutable and readable by    *)
(* any number of sequences.                                                *)
(***************************************************************************)
EXTENDS Integers, FiniteSets

CONSTANTS
  Block,        (* physical blocks                                         *)
  Slot,         (* sequences that may hold blocks                          *)
  BlockSize     (* rows per block                                          *)

VARIABLES
  owned,        (* per sequence: the blocks it alone may write             *)
  reading,      (* per sequence: the cached blocks it reads                *)
  cached,       (* immutable blocks an index retains                       *)
  rows          (* per block: rows written                                 *)

ownershipVars == <<owned, reading, cached, rows>>

Free == Block \ (cached \cup UNION {owned[s] : s \in Slot})

OwnershipInit ==
  /\ owned = [s \in Slot |-> {}]
  /\ reading = [s \in Slot |-> {}]
  /\ cached = {}
  /\ rows = [b \in Block |-> 0]

(* A sequence starts over a cached prefix.                                 *)
Borrow(s, B) ==
  /\ owned[s] = {} /\ reading[s] = {}
  /\ B \subseteq cached
  /\ reading' = [reading EXCEPT ![s] = B]
  /\ UNCHANGED <<owned, cached, rows>>

(* Free blocks, all empty, become the sequence's own.                      *)
Take(s, B) ==
  /\ B \subseteq Free
  /\ \A b \in B : rows[b] = 0
  /\ owned' = [owned EXCEPT ![s] = @ \cup B]
  /\ UNCHANGED <<reading, cached, rows>>

(* Rows are written only in blocks the sequence owns.                      *)
Fill(s, r) ==
  /\ \A b \in Block : r[b] # rows[b] => b \in owned[s] /\ r[b] > rows[b]
  /\ rows' = r
  /\ UNCHANGED <<owned, reading, cached>>

(* A full block becomes immutable; its owner goes on as a reader.          *)
Retain(s, b) ==
  /\ b \in owned[s] /\ rows[b] = BlockSize
  /\ owned' = [owned EXCEPT ![s] = @ \ {b}]
  /\ reading' = [reading EXCEPT ![s] = @ \cup {b}]
  /\ cached' = cached \cup {b}
  /\ UNCHANGED rows

(* Sequences give blocks back.  A block given back by its owner is empty;  *)
(* a block kept may only lose rows, and only its owner's; cached blocks    *)
(* stay as they are.                                                       *)
GiveBack(own, read, r) ==
  /\ \A s \in Slot : own[s] \subseteq owned[s] /\ read[s] \subseteq reading[s]
  /\ \A s \in Slot : \A b \in owned[s] \ own[s] : r[b] = 0
  /\ \A b \in Block : r[b] # rows[b] => r[b] < rows[b] /\ b \notin cached
  /\ owned' = own /\ reading' = read /\ rows' = r
  /\ UNCHANGED cached

(* The index gives up a block nobody reads.                                *)
Evict(b) ==
  /\ b \in cached
  /\ \A s \in Slot : b \notin reading[s]
  /\ cached' = cached \ {b}
  /\ rows' = [rows EXCEPT ![b] = 0]
  /\ UNCHANGED <<owned, reading>>

(* The next values of a step are handed to the action that constrains      *)
(* them, so that no set of functions is enumerated.                        *)
OwnershipNext ==
  \/ \E s \in Slot : Borrow(s, reading'[s])
  \/ \E s \in Slot : Take(s, owned'[s] \ owned[s])
  \/ \E s \in Slot : Fill(s, rows')
  \/ \E s \in Slot, b \in Block : Retain(s, b)
  \/ GiveBack(owned', reading', rows')
  \/ \E b \in Block : Evict(b)

OwnershipSpec == OwnershipInit /\ [][OwnershipNext]_ownershipVars
=============================================================================
