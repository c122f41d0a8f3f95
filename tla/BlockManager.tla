---------------------------- MODULE BlockManager ----------------------------
(***************************************************************************)
(* Which KV blocks each sequence holds (serving/blocks.mojo) together with *)
(* the written counts of the pool those blocks live in                     *)
(* (serving/kv_pool.mojo).                                                 *)
(*                                                                         *)
(* A client first reserves blocks for new positions, then a runner         *)
(* enqueues the writes and advances the pool's counts, and only then the   *)
(* client commits the new length.  Operations on other sequences may run   *)
(* between those three calls, so `enqueued' keeps, for each sequence, the  *)
(* extent the pool's counts already stand for.                             *)
(*                                                                         *)
(* Every operation of the code validates before it changes anything: a     *)
(* rejected call is a disabled action.  A call that gives blocks back is   *)
(* modelled with the caller's clearing of their counts, which the contract *)
(* of the manager asks for in the same breath.                             *)
(*                                                                         *)
(* Tables are 1-based here: entry i holds positions (i-1)*BlockSize up to  *)
(* i*BlockSize - 1.                                                        *)
(***************************************************************************)
EXTENDS Integers, Sequences, FiniteSets, Functions

CONSTANTS
  Block,        (* physical block IDs of the pool                          *)
  MaxSlots,     (* bound on the sequence slots a client keeps in use       *)
  BlockSize,    (* positions per block                                     *)
  MaxLength,    (* longest reservation of one sequence                     *)
  SeedOrder     (* the free list a seed starts with, allocation from the   *)
                (* end                                                     *)

ASSUME GeometryAssumption ==
  /\ IsFiniteSet(Block) /\ Block # {}
  /\ MaxSlots \in Nat \ {0}
  /\ BlockSize \in Nat \ {0}
  /\ MaxLength \in Nat \ {0}
  /\ SeedOrder \in Seq(Block) /\ IsInjective(SeedOrder) /\ Range(SeedOrder) = Block

RESET      == "Reset"
PARTIAL    == "Partial"
COMPLETE   == "Complete"
REGISTERED == "Registered"

VARIABLES
  free,         (* free list; allocation takes the last one                *)
  states,       (* state of every block                                    *)
  refs,         (* table references to every block                         *)
  tables,       (* per slot: its blocks in position order                  *)
  lengths,      (* per slot: positions committed                           *)
  reserved,     (* per slot: positions its blocks were reserved for        *)
  active,       (* per slot: whether it holds a sequence                   *)
  written,      (* per block: slots whose writes have been enqueued        *)
  enqueued      (* per slot: positions written, committed or not           *)

vars == <<free, states, refs, tables, lengths, reserved, active, written, enqueued>>

Slot  == 1..MaxSlots
State == {RESET, PARTIAL, COMPLETE, REGISTERED}

CeilDiv(n, d)     == (n + d - 1) \div d
Larger(x, y)      == IF x >= y THEN x ELSE y
(* Mutant: no upper end, so a block counts the rows of those after it.      *)
ClampBelow(n)     == IF n <= 0 THEN 0 ELSE n
Clamp(n)          == IF n <= 0 THEN 0 ELSE IF n >= BlockSize THEN BlockSize ELSE n

(* Slots of table entry i that lie below position `length'.                *)
Covered(length, i) == Clamp(length - (i - 1) * BlockSize)

Holders(b)  == {s \in Slot : b \in Range(tables[s])}
Registered  == {b \in Block : states[b] = REGISTERED}

TypeOK ==
  /\ free \in Seq(Block)
  /\ states \in [Block -> State]
  /\ refs \in [Block -> Nat]
  /\ tables \in [Slot -> Seq(Block)]
  /\ lengths \in [Slot -> Nat]
  /\ reserved \in [Slot -> Nat]
  /\ active \in [Slot -> BOOLEAN]
  /\ written \in [Block -> 0..BlockSize]
  /\ enqueued \in [Slot -> Nat]

Init ==
  /\ free = SeedOrder
  /\ states = [b \in Block |-> RESET]
  /\ refs = [b \in Block |-> 0]
  /\ tables = [s \in Slot |-> <<>>]
  /\ lengths = [s \in Slot |-> 0]
  /\ reserved = [s \in Slot |-> 0]
  /\ active = [s \in Slot |-> FALSE]
  /\ written = [b \in Block |-> 0]
  /\ enqueued = [s \in Slot |-> 0]
-----------------------------------------------------------------------------
(* The slot `add' uses: the first one no sequence holds.                   *)
FirstIdle(s) ==
  /\ ~active[s]
  /\ \A r \in Slot : r < s => active[r]

(* Mutant: any full block may be borrowed, private ones too.                *)
FullPrefixes ==
  LET full == {b \in Block : states[b] \in {COMPLETE, REGISTERED}}
  IN  {c \in UNION {[1..n -> full] : n \in 0..(MaxLength \div BlockSize)} : IsInjective(c)}

(* Prefixes a client may borrow: distinct immutable blocks, within the     *)
(* per-sequence limit.  The empty prefix is a plain `add'.                 *)
CachedPrefixes ==
  {c \in UNION {[1..n -> Registered] : n \in 0..(MaxLength \div BlockSize)} : IsInjective(c)}

Attach(s, cached) ==
  /\ FirstIdle(s)
  /\ tables' = [tables EXCEPT ![s] = cached]
  /\ refs' = [b \in Block |-> IF b \in Range(cached) THEN refs[b] + 1 ELSE refs[b]]
  /\ lengths' = [lengths EXCEPT ![s] = Len(cached) * BlockSize]
  /\ reserved' = [reserved EXCEPT ![s] = Len(cached) * BlockSize]
  /\ enqueued' = [enqueued EXCEPT ![s] = Len(cached) * BlockSize]
  /\ active' = [active EXCEPT ![s] = TRUE]
  /\ UNCHANGED <<free, states, written>>

(* The `count' blocks allocation pops off the free list, in that order.    *)
Popped(count) == [i \in 1..count |-> free[Len(free) + 1 - i]]

Reserve(s, length) ==
  LET needed == CeilDiv(length, BlockSize) - Len(tables[s])
      new    == Popped(Larger(needed, 0))
  IN  /\ active[s]
      /\ lengths[s] <= length /\ length <= MaxLength
      /\ needed <= Len(free)
      /\ free' = SubSeq(free, 1, Len(free) - Len(new))
      /\ states' = [b \in Block |-> IF b \in Range(new) THEN PARTIAL ELSE states[b]]
      /\ refs' = [b \in Block |-> IF b \in Range(new) THEN 1 ELSE refs[b]]
      /\ tables' = [tables EXCEPT ![s] = @ \o new]
      /\ reserved' = [reserved EXCEPT ![s] = Larger(@, length)]
      /\ UNCHANGED <<lengths, active, written, enqueued>>

(* A runner's step over one sequence: it accepts the append only where the *)
(* pool's counts end exactly at the committed length, then enqueues writes *)
(* up to `length' inside the reservation.                                  *)
AppendPoint(s) ==
  \A i \in DOMAIN tables[s] : written[tables[s][i]] = Covered(lengths[s], i)

Write(s, length) ==
  /\ active[s]
  /\ lengths[s] < length /\ length <= reserved[s]
  /\ AppendPoint(s)
  /\ written' = [b \in Block |->
       IF \E i \in DOMAIN tables[s] : tables[s][i] = b /\ i * BlockSize > lengths[s]
       THEN Covered(length, CHOOSE i \in DOMAIN tables[s] : tables[s][i] = b)
       ELSE written[b]]
  /\ enqueued' = [enqueued EXCEPT ![s] = length]
  /\ UNCHANGED <<free, states, refs, tables, lengths, reserved, active>>

(* Mutants: the partial tail counts as full; a block just filled does not.  *)
FullAndTail(s, length) == {tables[s][i] : i \in 1..CeilDiv(length, BlockSize)}
FullBefore(s, length)  == {tables[s][i] : i \in 1..((length - 1) \div BlockSize)}

(* The client commits what its runner enqueued.                            *)
FullBlocks(s, length) == {tables[s][i] : i \in 1..(length \div BlockSize)}

Commit(s) ==
  LET length == enqueued[s]
  IN  /\ active[s]
      /\ lengths[s] <= length /\ length <= reserved[s]
      /\ lengths' = [lengths EXCEPT ![s] = length]
      /\ states' = [b \in Block |->
           IF b \in FullBlocks(s, length) /\ states[b] # REGISTERED THEN COMPLETE ELSE states[b]]
      /\ UNCHANGED <<free, refs, tables, reserved, active, written, enqueued>>

Register(s, ordinal) ==
  /\ active[s]
  /\ ordinal \in 1..(lengths[s] \div BlockSize)
  /\ LET b == tables[s][ordinal]
     IN  /\ states[b] = COMPLETE /\ refs[b] = 1
         /\ states' = [states EXCEPT ![b] = REGISTERED]
  /\ UNCHANGED <<free, refs, tables, lengths, reserved, active, written, enqueued>>

(* Mutants: the pool keeps counting the rows; a reader does not count.      *)
EvictKeepingRows(b) ==
  /\ states[b] = REGISTERED /\ refs[b] = 0
  /\ states' = [states EXCEPT ![b] = RESET]
  /\ free' = Append(free, b)
  /\ UNCHANGED <<refs, tables, lengths, reserved, active, written, enqueued>>

EvictUnderReader(b) ==
  /\ states[b] = REGISTERED
  /\ states' = [states EXCEPT ![b] = RESET]
  /\ free' = Append(free, b)
  /\ written' = [written EXCEPT ![b] = 0]
  /\ UNCHANGED <<refs, tables, lengths, reserved, active, enqueued>>

EvictRegistered(b) ==
  /\ states[b] = REGISTERED /\ refs[b] = 0
  /\ states' = [states EXCEPT ![b] = RESET]
  /\ free' = Append(free, b)
  /\ written' = [written EXCEPT ![b] = 0]
  /\ UNCHANGED <<refs, tables, lengths, reserved, active, enqueued>>
-----------------------------------------------------------------------------
(* Giving table entries back.  `entries' is a set of <<slot, index>>: the   *)
(* private blocks among them go to the free list, slot by slot and within  *)
(* a slot last entry first; Registered ones only lose a reader.            *)
Entries(s, keep) == {s} \X ((keep + 1)..Len(tables[s]))
At(e)            == tables[e[1]][e[2]]
AnyEntry(entries) == entries    (* Mutant: immutable blocks are freed too.  *)
Private(entries) == {e \in entries : states[At(e)] # REGISTERED}
Freed(entries)   == {At(e) : e \in Private(entries)}

Precedes(e, f) == e[1] < f[1] \/ (e[1] = f[1] /\ e[2] > f[2])

ReturnOrders(P) ==
  {f \in [1..Cardinality(P) -> P] :
     Range(f) = P /\ \A i, j \in DOMAIN f : i < j => Precedes(f[i], f[j])}

Return(entries) ==
  /\ \E order \in ReturnOrders(Private(entries)) :
       free' = free \o [i \in DOMAIN order |-> At(order[i])]
  /\ refs' = [b \in Block |-> refs[b] - Cardinality({e \in entries : At(e) = b})]

Kept(s, keep) == SubSeq(tables[s], 1, keep)

(* truncate, with the pool's truncate_table for the blocks it frees or     *)
(* leaves partial.  No queued work may depend on the removed positions.    *)
Truncate(s, length) ==
  LET keep  == CeilDiv(length, BlockSize)
      freed == Freed(Entries(s, keep))
      inner == length % BlockSize # 0
  IN  /\ active[s]
      /\ enqueued[s] = lengths[s]
      /\ length <= lengths[s]
      /\ inner => states[tables[s][keep]] # REGISTERED
      /\ Return(Entries(s, keep))
      /\ tables' = [tables EXCEPT ![s] = Kept(s, keep)]
      /\ states' = [b \in Block |->
           CASE b \in freed -> RESET
             [] inner /\ b = tables[s][keep] -> PARTIAL
             [] OTHER -> states[b]]
      /\ written' = [b \in Block |->
           CASE b \in freed -> 0
             [] inner /\ b = tables[s][keep] -> length % BlockSize
             [] OTHER -> written[b]]
      /\ lengths' = [lengths EXCEPT ![s] = length]
      /\ reserved' = [reserved EXCEPT ![s] = length]
      /\ enqueued' = [enqueued EXCEPT ![s] = length]
      /\ UNCHANGED active

(* Dropping every entry of the sequences in S and clearing the counts of   *)
(* exactly the blocks that come back.  It may hit a sequence whose step    *)
(* never committed.                                                        *)
ReleaseAll(S) ==
  LET entries == UNION {Entries(s, 0) : s \in S}
      Zeroed(f) == [s \in Slot |-> IF s \in S THEN 0 ELSE f[s]]
  IN  /\ Return(entries)
      /\ tables' = [s \in Slot |-> IF s \in S THEN <<>> ELSE tables[s]]
      /\ states' = [b \in Block |-> IF b \in Freed(entries) THEN RESET ELSE states[b]]
      /\ written' = [b \in Block |-> IF b \in Freed(entries) THEN 0 ELSE written[b]]
      /\ lengths' = Zeroed(lengths)
      /\ reserved' = Zeroed(reserved)
      /\ enqueued' = Zeroed(enqueued)
      /\ active' = [s \in Slot |-> s \notin S /\ active[s]]

Detach(s) == active[s] /\ ReleaseAll({s})

(* A session's reset: every sequence goes, and the pool forgets every      *)
(* block.  Sessions that reset keep no prefix index.                       *)
Reset ==
  /\ Registered = {}
  /\ ReleaseAll({s \in Slot : active[s]})
-----------------------------------------------------------------------------
Next ==
  \/ \E s \in Slot, cached \in CachedPrefixes : Attach(s, cached)
  \/ \E s \in Slot, length \in 0..MaxLength : Reserve(s, length)
  \/ \E s \in Slot, length \in 0..MaxLength : Write(s, length)
  \/ \E s \in Slot : Commit(s)
  \/ \E s \in Slot, ordinal \in 1..(MaxLength \div BlockSize) : Register(s, ordinal)
  \/ \E b \in Block : EvictRegistered(b)
  \/ \E s \in Slot, length \in 0..MaxLength : Truncate(s, length)
  \/ \E s \in Slot : Detach(s)
  \/ Reset

Spec == Init /\ [][Next]_vars
-----------------------------------------------------------------------------
(* check(): the free list is exactly the Reset blocks, each once.          *)
FreeOnce ==
  /\ IsInjective(free)
  /\ Range(free) = {b \in Block : states[b] = RESET}

(* check(): a released slot holds nothing; a live table is exactly as long *)
(* as its reservation needs.                                               *)
Extents ==
  \A s \in Slot :
    /\ ~active[s] => reserved[s] = 0
    /\ lengths[s] <= enqueued[s] /\ enqueued[s] <= reserved[s] /\ reserved[s] <= MaxLength
    /\ Len(tables[s]) = CeilDiv(reserved[s], BlockSize)

(* check(): the entries below the committed length are full and the others *)
(* Partial; an immutable block appears only in fully committed history.    *)
HeldStates ==
  \A s \in Slot : \A i \in DOMAIN tables[s] :
    states[tables[s][i]] \in IF i <= lengths[s] \div BlockSize
                             THEN {COMPLETE, REGISTERED} ELSE {PARTIAL}

(* check(): no table repeats a block, stored references count the tables   *)
(* exactly, and a private block has exactly one owner.                     *)
RefsExact ==
  /\ \A s \in Slot : IsInjective(tables[s])
  /\ \A b \in Block : refs[b] = Cardinality(Holders(b))
  /\ \A b \in Block : states[b] \in {PARTIAL, COMPLETE} => refs[b] = 1

(* The manager's own audit (check, run by the engine around every step)    *)
(* never fails: not between two steps, and not between the calls of one.   *)
Consistent == FreeOnce /\ Extents /\ HeldStates /\ RefsExact

(* check_pool, strengthened to the middle of a step: the pool's counts     *)
(* stand exactly for what was enqueued, an idle Registered block stays     *)
(* full, and every free or merely reserved block is empty.  So a runner's  *)
(* append check can never reject a sequence for what another one did.      *)
PoolAgrees ==
  /\ \A s \in Slot : \A i \in DOMAIN tables[s] :
       written[tables[s][i]] = Covered(enqueued[s], i)
  /\ \A b \in Block : states[b] = REGISTERED => written[b] = BlockSize
  /\ \A b \in Block : states[b] = RESET => written[b] = 0

(* Writes are enqueued only into a block one sequence owns and no prefix   *)
(* index retains (the batch's and the engine's private-write checks).      *)
PrivateWrites ==
  [][\A b \in Block : written'[b] > written[b] =>
       states[b] = PARTIAL /\ refs[b] = 1]_vars

(* Queued work and cached keys name blocks by table position: while a      *)
(* sequence lives its table only grows or shrinks at the end.              *)
NoRemap ==
  [][\A s \in Slot : active[s] /\ active'[s] =>
       \A i \in DOMAIN tables[s] \cap DOMAIN tables'[s] : tables'[s][i] = tables[s][i]]_vars

(* A Registered block keeps its full contents for as long as anything      *)
(* reads it; only an idle one leaves the index, straight to the free list. *)
RegisteredImmutable ==
  [][\A b \in Registered :
       \/ states'[b] = REGISTERED /\ written'[b] = written[b]
       \/ Holders(b) = {} /\ states'[b] = RESET /\ b \in Range(free')]_vars
-----------------------------------------------------------------------------
(* The manager implements the ownership discipline: a private table entry  *)
(* is owned, a Registered one is read, and the Registered blocks are the   *)
(* cache.                                                                  *)
Ownership == INSTANCE BlockOwnership WITH
  owned   <- [s \in Slot |-> Range(tables[s]) \ Registered],
  reading <- [s \in Slot |-> Range(tables[s]) \cap Registered],
  cached  <- Registered,
  rows    <- written

KeepsOwnership == Ownership!OwnershipSpec
=============================================================================
