--------------------------- MODULE KVCache_proofs ---------------------------
(***************************************************************************)
(* The block manager and the prefix index over it, for every pool, block   *)
(* size, number of slots, length limit, capacity and clock.                *)
(*                                                                         *)
(* The first part is the manager's: its audit and its agreement with the   *)
(* pool's counts hold in every reachable state.  The audit is inductive    *)
(* only together with the pool's counts and with the types: the counts     *)
(* tell a truncation that the tail it keeps was full, and the exact        *)
(* references tell that what one sequence gives back no other one holds.   *)
(* What no step may do (write a shared or immutable block, move a live     *)
(* table's entries, touch what the prefix index retains) then follows from *)
(* the invariant of the state the step starts in, and so does that every   *)
(* step is one of BlockOwnership's.                                        *)
(*                                                                         *)
(* The second part is the index's: it is exact, and every operation keeps  *)
(* what its validation established.  An operation validates everything     *)
(* before its first change and then takes many steps.  CacheInv therefore  *)
(* says, of each operation in progress, what its remaining steps rely on:  *)
(* how much room is left to reclaim, that a matched prefix is still        *)
(* Registered, that what is left to publish is filed under the sequence's  *)
(* own history or private.                                                 *)
(*                                                                         *)
(* The last is about the rows of the pool: which steps keep the rows a     *)
(* sequence reads (Quiet), and that those that attach, run or register     *)
(* keep them rows of the sequence's own history.  Any client of the index  *)
(* can use these lemmas; the salts S and the tokens T are its own.         *)
(***************************************************************************)
EXTENDS KVRows, FiniteSetTheorems, SequenceTheorems, WellFoundedInduction, TLAPS
-----------------------------------------------------------------------------
(* What the operators of BlockManager compute: how many blocks a length    *)
(* needs, how many of them it fills, and how many rows of one of them it   *)
(* covers; and what cutting and joining block lists does.                  *)

(* The first n entries of a sequence.                                      *)
LEMMA FirstEntries ==
  ASSUME NEW S, NEW seq \in Seq(S), NEW n \in 0..Len(seq)
  PROVE  /\ SubSeq(seq, 1, n) \in Seq(S)
         /\ Len(SubSeq(seq, 1, n)) = n
         /\ DOMAIN SubSeq(seq, 1, n) = 1..n
         /\ \A i \in 1..n : SubSeq(seq, 1, n)[i] = seq[i]
<1>1. n \in Nat /\ Len(seq) \in Nat /\ n - 1 + 1 = n
  OBVIOUS
<1>2. \A i \in 1..n : seq[i] \in S
  BY <1>1
<1>3. /\ SubSeq(seq, 1, n) \in Seq(S)
      /\ Len(SubSeq(seq, 1, n)) = IF 1 <= n THEN n - 1 + 1 ELSE 0
      /\ \A i \in 1..(n - 1 + 1) : SubSeq(seq, 1, n)[i] = seq[1 + i - 1]
  BY <1>1, <1>2, SubSeqProperties
<1>4. Len(SubSeq(seq, 1, n)) = n
  BY <1>1, <1>3
<1>5. \A i \in 1..n : SubSeq(seq, 1, n)[i] = seq[i]
  <2>1. TAKE i \in 1..n
  <2>2. 1 + i - 1 = i
    BY <1>1
  <2> QED BY <1>1, <1>3, <2>2
<1>6. DOMAIN SubSeq(seq, 1, n) = 1..n
  BY <1>3, <1>4, LenProperties
<1> QED BY <1>3, <1>4, <1>5, <1>6

(* Injective sequences without a common entry stay injective end to end.   *)
LEMMA Concatenation ==
  ASSUME NEW S, NEW seq \in Seq(S), NEW more \in Seq(S)
  PROVE  /\ seq \o more \in Seq(S)
         /\ Len(seq \o more) = Len(seq) + Len(more)
         /\ DOMAIN (seq \o more) = 1..(Len(seq) + Len(more))
         /\ \A i \in 1..Len(seq) : (seq \o more)[i] = seq[i]
         /\ \A i \in 1..Len(more) : (seq \o more)[Len(seq) + i] = more[i]
         /\ \A i \in 1..(Len(seq) + Len(more)) : i > Len(seq) =>
              i - Len(seq) \in 1..Len(more) /\ (seq \o more)[i] = more[i - Len(seq)]
         /\ Range(seq \o more) = Range(seq) \cup Range(more)
         /\ IsInjective(seq) /\ IsInjective(more) /\ Range(seq) \cap Range(more) = {} => IsInjective(seq \o more)
<1>1. /\ seq \o more \in Seq(S)
      /\ Len(seq \o more) = Len(seq) + Len(more)
      /\ \A i \in 1..(Len(seq) + Len(more)) :
           (seq \o more)[i] = IF i <= Len(seq) THEN seq[i] ELSE more[i - Len(seq)]
  BY ConcatProperties
<1>2. /\ Len(seq) \in Nat /\ Len(more) \in Nat
      /\ DOMAIN seq = 1..Len(seq) /\ DOMAIN more = 1..Len(more)
      /\ DOMAIN (seq \o more) = 1..(Len(seq) + Len(more))
  BY <1>1, LenProperties
<1>3. \A i \in 1..Len(seq) : (seq \o more)[i] = seq[i]
  <2>1. TAKE i \in 1..Len(seq)
  <2>2. i \in 1..(Len(seq) + Len(more)) /\ i <= Len(seq)
    BY <1>2
  <2> QED BY <1>1, <2>2
<1>4. \A i \in 1..(Len(seq) + Len(more)) : i > Len(seq) =>
        i - Len(seq) \in 1..Len(more) /\ (seq \o more)[i] = more[i - Len(seq)]
  <2>1. TAKE i \in 1..(Len(seq) + Len(more))
  <2>2. HAVE i > Len(seq)
  <2>3. ~(i <= Len(seq)) /\ i - Len(seq) \in 1..Len(more)
    BY <1>2, <2>2
  <2> QED BY <1>1, <2>3
<1>5. \A i \in 1..Len(more) : (seq \o more)[Len(seq) + i] = more[i]
  <2>1. TAKE i \in 1..Len(more)
  <2>2. Len(seq) + i \in 1..(Len(seq) + Len(more)) /\ Len(seq) + i > Len(seq) /\ Len(seq) + i - Len(seq) = i
    BY <1>2
  <2> QED BY <1>4, <2>2
<1>6. Range(seq \o more) = Range(seq) \cup Range(more)
  BY RangeConcatenation
<1>7. ASSUME IsInjective(seq), IsInjective(more), Range(seq) \cap Range(more) = {}
      PROVE  IsInjective(seq \o more)
  <2>1. ASSUME NEW i \in 1..(Len(seq) + Len(more)), NEW j \in 1..(Len(seq) + Len(more)),
               (seq \o more)[i] = (seq \o more)[j]
        PROVE  i = j
    <3>1. \A a, b \in 1..Len(seq) : seq[a] = seq[b] => a = b
      BY <1>2, <1>7 DEF IsInjective
    <3>2. \A a, b \in 1..Len(more) : more[a] = more[b] => a = b
      BY <1>2, <1>7 DEF IsInjective
    <3>3. \A a \in 1..Len(seq) : \A b \in 1..Len(more) : seq[a] # more[b]
      BY <1>2, <1>7 DEF Range
    <3>4. CASE i <= Len(seq) /\ j <= Len(seq)
      BY <1>2, <1>3, <2>1, <3>1, <3>4
    <3>5. CASE i > Len(seq) /\ j > Len(seq)
      <4>1. i - Len(seq) = j - Len(seq)
        BY <1>4, <2>1, <3>2, <3>5
      <4> QED BY <1>2, <4>1
    <3>6. CASE i <= Len(seq) /\ j > Len(seq)
      <4>1. i \in 1..Len(seq)
        BY <1>2, <3>6
      <4> QED BY <1>3, <1>4, <2>1, <3>3, <3>6, <4>1
    <3>7. CASE i > Len(seq) /\ j <= Len(seq)
      <4>1. j \in 1..Len(seq)
        BY <1>2, <3>7
      <4> QED BY <1>3, <1>4, <2>1, <3>3, <3>7, <4>1
    <3> QED BY <1>2, <3>4, <3>5, <3>6, <3>7
  <2> QED BY <1>2, <2>1 DEF IsInjective
<1> QED BY <1>1, <1>2, <1>3, <1>4, <1>5, <1>6, <1>7

(* Euclidean division by a positive divisor.                               *)
LEMMA Division ==
  ASSUME NEW n \in Nat, NEW d \in Nat \ {0}
  PROVE  /\ n \div d \in Nat
         /\ n % d \in 0..(d - 1)
         /\ n = (n \div d) * d + (n % d)
  OBVIOUS

(* Multiplication by a natural number is monotone.                         *)
LEMMA TimesMonotone ==
  ASSUME NEW a \in Int, NEW b \in Int, NEW d \in Nat, a <= b
  PROVE  a * d <= b * d
  OBVIOUS

(* n \div d is the number of whole blocks of size d in n.                  *)
LEMMA FloorBound ==
  ASSUME NEW n \in Nat, NEW d \in Nat \ {0}, NEW i \in Int
  PROVE  i * d <= n <=> i <= n \div d
<1> DEFINE q == n \div d
<1>1. q \in Nat /\ n % d \in 0..(d - 1) /\ n = q * d + (n % d)
  BY Division
<1> HIDE DEF q
<1>2. q * d <= n /\ n < (q + 1) * d
  BY <1>1
<1>3. CASE i <= q
  BY <1>1, <1>2, <1>3, TimesMonotone
<1>4. CASE i > q
  <2>1. (q + 1) * d <= i * d
    BY <1>1, <1>4, TimesMonotone
  <2> QED BY <2>1, <1>1, <1>2, <1>4
<1> QED BY <1>1, <1>3, <1>4 DEF q

(* CeilDiv(n, d) is the least number of blocks of size d that hold n.      *)
LEMMA CeilBound ==
  ASSUME NEW n \in Nat, NEW d \in Nat \ {0}, NEW i \in Int
  PROVE  /\ CeilDiv(n, d) \in Nat
         /\ n <= i * d <=> CeilDiv(n, d) <= i
<1>1. n + d - 1 \in Nat
  OBVIOUS
<1>2. CeilDiv(n, d) \in Nat
  BY <1>1, Division DEF CeilDiv
<1>3. (i + 1) * d <= n + d - 1 <=> i + 1 <= (n + d - 1) \div d
  BY <1>1, FloorBound
<1>4. (i + 1) * d <= n + d - 1 <=> i * d < n
  OBVIOUS
<1> QED BY <1>2, <1>3, <1>4 DEF CeilDiv

(* A number of blocks is a natural number.                                 *)
LEMMA CeilType ==
  ASSUME NEW n \in Nat, NEW d \in Nat \ {0}
  PROVE  CeilDiv(n, d) \in Nat
  BY CeilBound, 0 \in Int

(* A longer sequence needs no fewer blocks and fills no fewer.             *)
LEMMA DivMonotone ==
  ASSUME NEW m \in Nat, NEW n \in Nat, NEW d \in Nat \ {0}, m <= n
  PROVE  /\ CeilDiv(m, d) <= CeilDiv(n, d)
         /\ m \div d <= n \div d
<1>1. n <= CeilDiv(n, d) * d /\ CeilDiv(n, d) \in Nat
  BY CeilBound
<1>2. m <= CeilDiv(n, d) * d
  <2>1. CeilDiv(n, d) * d \in Nat
    BY <1>1
  <2> QED BY <1>1, <2>1
<1>3. CeilDiv(m, d) <= CeilDiv(n, d)
  BY <1>1, <1>2, CeilBound
<1>4. (m \div d) * d <= m /\ m \div d \in Nat
  BY FloorBound, Division
<1>5. (m \div d) * d <= n
  <2>1. (m \div d) * d \in Nat
    BY <1>4
  <2> QED BY <1>4, <2>1
<1>6. m \div d <= n \div d
  BY <1>4, <1>5, FloorBound
<1> QED BY <1>3, <1>6

(* A whole number of blocks is what it needs and what it fills.            *)
LEMMA WholeBlocks ==
  ASSUME NEW k \in Nat, NEW d \in Nat \ {0}
  PROVE  k * d \in Nat /\ CeilDiv(k * d, d) = k /\ (k * d) \div d = k
<1>1. k * d \in Nat
  OBVIOUS
<1>2. CeilDiv(k * d, d) \in Nat /\ CeilDiv(k * d, d) <= k
  BY <1>1, CeilBound
<1>3. k * d <= CeilDiv(k * d, d) * d
  <2>1. \A n \in Nat : n <= CeilDiv(n, d) * d
    <3>1. TAKE n \in Nat
    <3>2. CeilDiv(n, d) \in Nat
      BY CeilBound
    <3> QED BY <3>2, CeilBound
  <2> QED BY <1>1, <2>1
<1>4. CeilDiv(k * d, d) >= k
  <2>1. SUFFICES ASSUME CeilDiv(k * d, d) < k PROVE FALSE
    BY <1>2
  <2>2. (CeilDiv(k * d, d) + 1) * d <= k * d
    BY <1>2, <2>1, TimesMonotone
  <2> QED BY <1>1, <1>2, <1>3, <2>2
<1>5. (k * d) \div d \in Nat /\ k <= (k * d) \div d
  BY <1>1, FloorBound, Division
<1>6. ((k * d) \div d) * d <= k * d
  BY <1>1, <1>5, FloorBound
<1>7. (k * d) \div d <= k
  <2>1. SUFFICES ASSUME (k * d) \div d > k PROVE FALSE
    BY <1>5
  <2>2. (k + 1) * d <= ((k * d) \div d) * d
    BY <1>5, <2>1, TimesMonotone
  <2> QED BY <1>1, <1>5, <1>6, <2>2
<1> QED BY <1>1, <1>2, <1>4, <1>5, <1>7

(* At most one block of those a length needs is not full.                  *)
LEMMA FloorAndCeil ==
  ASSUME NEW n \in Nat, NEW d \in Nat \ {0}
  PROVE  CeilDiv(n, d) = IF n % d = 0 THEN n \div d ELSE (n \div d) + 1
<1> DEFINE q == n \div d
           c == CeilDiv(n, d)
<1>1. q \in Nat /\ n % d \in 0..(d - 1) /\ n = q * d + (n % d)
  BY Division
<1>2. c \in Nat /\ n <= c * d /\ (n <= q * d <=> c <= q) /\ (n <= (q + 1) * d <=> c <= q + 1)
                /\ (n <= (q - 1) * d <=> c <= q - 1)
  <2>1. c \in Nat
    BY CeilBound
  <2>2. q \in Int /\ q + 1 \in Int /\ q - 1 \in Int
    BY <1>1
  <2>3. \A i \in Int : n <= i * d <=> c <= i
    BY CeilBound
  <2> HIDE DEF q, c
  <2> QED BY <2>1, <2>2, <2>3
<1> HIDE DEF q, c
<1>3. CASE n % d = 0
  <2>1. n = q * d
    BY <1>1, <1>3
  <2>2. c <= q
    BY <1>1, <1>2, <2>1
  <2>3. ~ (n <= (q - 1) * d)
    BY <1>1, <2>1
  <2> QED BY <1>1, <1>2, <1>3, <2>2, <2>3 DEF q, c
<1>4. CASE n % d # 0
  <2>1. n > q * d /\ n <= (q + 1) * d
    BY <1>1, <1>4
  <2> QED BY <1>1, <1>2, <1>4, <2>1 DEF q, c
<1> QED BY <1>3, <1>4
-----------------------------------------------------------------------------
(* Block i is full exactly if its last row lies within the length.         *)
LEMMA FullBound ==
  ASSUME NEW n \in Nat, NEW i \in Nat
  PROVE  /\ n \div BlockSize \in Nat
         /\ i * BlockSize > n <=> i > n \div BlockSize
<1>1. BlockSize \in Nat \ {0}
  BY GeometryAssumption
<1>2. n \div BlockSize \in Nat
  BY <1>1, Division
<1>3. i * BlockSize <= n <=> i <= n \div BlockSize
  BY <1>1, FloorBound
<1>4. i * BlockSize \in Nat
  BY <1>1
<1> QED BY <1>2, <1>3, <1>4

(* The longer of two lengths fills no fewer blocks of this pool.           *)
LEMMA FullMonotone ==
  ASSUME NEW m \in Nat, NEW n \in Nat, m <= n
  PROVE  /\ m \div BlockSize <= n \div BlockSize
         /\ m \div BlockSize \in Nat /\ n \div BlockSize \in Nat
         /\ n \div BlockSize <= CeilDiv(n, BlockSize)
<1>1. BlockSize \in Nat \ {0}
  BY GeometryAssumption
<1>2. m \div BlockSize \in Nat /\ n \div BlockSize \in Nat
  BY <1>1, Division
<1>3. m \div BlockSize <= n \div BlockSize
  BY <1>1, DivMonotone
<1>4. n \div BlockSize <= CeilDiv(n, BlockSize)
  BY <1>1, <1>2, FloorAndCeil
<1> QED BY <1>2, <1>3, <1>4

(* A block's count is one of its row numbers, or all of them.              *)
LEMMA CoveredType ==
  ASSUME NEW n \in Nat, NEW i \in Nat \ {0}
  PROVE  Covered(n, i) \in 0..BlockSize
<1>1. BlockSize \in Nat \ {0}
  BY GeometryAssumption
<1>2. n - (i - 1) * BlockSize \in Int
  BY <1>1
<1> QED BY <1>1, <1>2 DEF Covered, Clamp

(* A length covers all rows of the blocks it fills.                        *)
LEMMA CoveredFull ==
  ASSUME NEW n \in Nat, NEW i \in Nat \ {0}, i <= n \div BlockSize
  PROVE  Covered(n, i) = BlockSize
<1>1. BlockSize \in Nat \ {0}
  BY GeometryAssumption
<1>2. i * BlockSize <= n
  BY <1>1, FloorBound
<1>3. n - (i - 1) * BlockSize >= BlockSize /\ n - (i - 1) * BlockSize \in Int
  BY <1>1, <1>2
<1> QED BY <1>1, <1>3 DEF Covered, Clamp

(* A length covers no row of a block it does not need.                     *)
LEMMA CoveredNone ==
  ASSUME NEW n \in Nat, NEW i \in Nat \ {0}, i > CeilDiv(n, BlockSize)
  PROVE  Covered(n, i) = 0
<1>1. BlockSize \in Nat \ {0}
  BY GeometryAssumption
<1>2. CeilDiv(n, BlockSize) <= i - 1
  BY <1>1, CeilBound
<1>3. n <= (i - 1) * BlockSize
  BY <1>1, <1>2, CeilBound
<1>4. n - (i - 1) * BlockSize \in Int /\ n - (i - 1) * BlockSize <= 0
  BY <1>1, <1>3
<1> QED BY <1>4 DEF Covered, Clamp

(* Of the one block it needs and does not fill, it covers the remainder.   *)
LEMMA CoveredTail ==
  ASSUME NEW n \in Nat, n % BlockSize # 0
  PROVE  Covered(n, CeilDiv(n, BlockSize)) = n % BlockSize
<1>1. BlockSize \in Nat \ {0}
  BY GeometryAssumption
<1>2. CeilDiv(n, BlockSize) = (n \div BlockSize) + 1
  BY <1>1, FloorAndCeil
<1>3. /\ n \div BlockSize \in Nat
      /\ n % BlockSize \in 1..(BlockSize - 1)
      /\ n = (n \div BlockSize) * BlockSize + (n % BlockSize)
  BY <1>1, Division
<1>4. ((n \div BlockSize) + 1 - 1) * BlockSize = (n \div BlockSize) * BlockSize
  BY <1>3
<1>5. n - ((n \div BlockSize) + 1 - 1) * BlockSize = n % BlockSize
  BY <1>1, <1>3, <1>4
<1> QED BY <1>1, <1>2, <1>3, <1>5 DEF Covered, Clamp
-----------------------------------------------------------------------------

IInv == TypeOK /\ Consistent /\ PoolAgrees

USE DEF Slot, State, RESET, PARTIAL, COMPLETE, REGISTERED
-----------------------------------------------------------------------------
(* Consequences of the invariant in a single state.                        *)

(* The holders of a block are finitely many slots, each with an index.     *)
LEMMA HolderIndex ==
  ASSUME TypeOK, NEW b \in Block
  PROVE  /\ IsFiniteSet(Holders(b)) /\ Holders(b) \subseteq Slot
         /\ \A s \in Slot : s \in Holders(b) <=> \E i \in 1..Len(tables[s]) : tables[s][i] = b
<1>1. IsFiniteSet(Slot)
  BY GeometryAssumption, FS_Interval
<1>2. Holders(b) \subseteq Slot
  BY DEF Holders
<1>3. IsFiniteSet(Holders(b))
  BY <1>1, <1>2, FS_Subset
<1>4. \A s \in Slot : DOMAIN tables[s] = 1..Len(tables[s])
  BY DEF TypeOK
<1> QED BY <1>2, <1>3, <1>4 DEF Holders, Range

(* Held entries are full up to the committed length and Partial after it.  *)
LEMMA HeldState ==
  ASSUME TypeOK, HeldStates, NEW s \in Slot, NEW i \in 1..Len(tables[s])
  PROVE  /\ tables[s][i] \in Block
         /\ lengths[s] \div BlockSize \in Nat
         /\ i <= lengths[s] \div BlockSize => states[tables[s][i]] \in {COMPLETE, REGISTERED}
         /\ i > lengths[s] \div BlockSize => states[tables[s][i]] = PARTIAL
<1>1. DOMAIN tables[s] = 1..Len(tables[s]) /\ tables[s][i] \in Block /\ i \in Nat
  <2>1. tables[s] \in Seq(Block)
    BY DEF TypeOK
  <2> QED BY <2>1
<1>2. lengths[s] \div BlockSize \in Nat
  BY GeometryAssumption, Division DEF TypeOK
<1>3. states[tables[s][i]] \in IF i <= lengths[s] \div BlockSize
                                THEN {COMPLETE, REGISTERED} ELSE {PARTIAL}
  BY <1>1 DEF HeldStates
<1>4. CASE i <= lengths[s] \div BlockSize
  BY <1>1, <1>2, <1>3, <1>4
<1>5. CASE ~(i <= lengths[s] \div BlockSize)
  BY <1>1, <1>2, <1>3, <1>5
<1> QED BY <1>4, <1>5

(* A table holds no Reset block: nothing refers to a free one.             *)
LEMMA FreeUnheld ==
  ASSUME TypeOK, Consistent, NEW b \in Block, states[b] = RESET
  PROVE  Holders(b) = {} /\ refs[b] = 0
<1>1. \A s \in Slot : \A i \in 1..Len(tables[s]) : tables[s][i] # b
  <2>1. TAKE s \in Slot
  <2>2. TAKE i \in 1..Len(tables[s])
  <2>3. i \in Nat
    BY DEF TypeOK
  <2> QED BY <2>3, HeldState DEF Consistent
<1>2. Holders(b) = {}
  BY <1>1, HolderIndex
<1>3. refs[b] = 0
  BY <1>2, FS_EmptySet DEF Consistent, RefsExact
<1> QED BY <1>2, <1>3

(* A private block is in one table only.                                   *)
LEMMA PrivateSole ==
  ASSUME TypeOK, Consistent, NEW b \in Block, states[b] \in {PARTIAL, COMPLETE}
  PROVE  \E s \in Slot : Holders(b) = {s}
<1>1. Cardinality(Holders(b)) = 1
  BY DEF Consistent, RefsExact
<1>2. IsFiniteSet(Holders(b)) /\ Holders(b) \subseteq Slot
  BY HolderIndex
<1>3. \E s : Holders(b) = {s}
  BY <1>1, <1>2, FS_Singleton
<1> QED BY <1>2, <1>3

(* A slot without a sequence has an empty table.                           *)
LEMMA IdleEmpty ==
  ASSUME TypeOK, Consistent, NEW s \in Slot, ~active[s]
  PROVE  Len(tables[s]) = 0 /\ reserved[s] = 0
<1>1. reserved[s] = 0 /\ Len(tables[s]) = CeilDiv(0, BlockSize)
  BY DEF Consistent, Extents
<1>2. CeilDiv(0, BlockSize) = 0
  BY GeometryAssumption, WholeBlocks, 0 * BlockSize = 0
<1> QED BY <1>1, <1>2
-----------------------------------------------------------------------------
(* A fresh manager (__init__) and a fresh pool agree.                      *)
THEOREM InitIInv == Init => IInv
<1> SUFFICES ASSUME Init PROVE IInv
  OBVIOUS
<1> USE DEF Init
<1>0. BlockSize \in Nat \ {0} /\ MaxLength \in Nat
  BY GeometryAssumption
<1>1. TypeOK
  BY <1>0, GeometryAssumption DEF TypeOK
<1>2. FreeOnce
  BY GeometryAssumption DEF FreeOnce
<1>3. Extents
  <2>1. CeilDiv(0, BlockSize) = 0
    BY <1>0, WholeBlocks, 0 * BlockSize = 0
  <2> QED BY <1>0, <2>1 DEF Extents
<1>4. HeldStates
  BY DEF HeldStates
<1>5. RefsExact
  <2>1. \A b \in Block : Holders(b) = {}
    BY DEF Holders, Range
  <2>2. \A s \in Slot : IsInjective(tables[s])
    BY DEF IsInjective
  <2> QED BY <2>1, <2>2, FS_EmptySet DEF RefsExact
<1>6. PoolAgrees
  BY DEF PoolAgrees
<1> QED BY <1>1, <1>2, <1>3, <1>4, <1>5, <1>6 DEF IInv, Consistent
-----------------------------------------------------------------------------
(* Lemmas shared by the steps.                                             *)

(* The indices and entries of a table.                                     *)
LEMMA TableType ==
  ASSUME TypeOK, NEW s \in Slot
  PROVE  /\ tables[s] \in Seq(Block) /\ Len(tables[s]) \in Nat
         /\ DOMAIN tables[s] = 1..Len(tables[s])
         /\ \A i \in 1..Len(tables[s]) : tables[s][i] \in Block /\ i \in Nat \ {0}
<1>1. tables[s] \in Seq(Block)
  BY DEF TypeOK
<1> QED BY <1>1

(* Committed, enqueued and reserved positions of a slot, and its table.    *)
LEMMA ExtentType ==
  ASSUME TypeOK, Extents, NEW s \in Slot
  PROVE  /\ lengths[s] \in Nat /\ enqueued[s] \in Nat /\ reserved[s] \in Nat
         /\ lengths[s] <= enqueued[s] /\ enqueued[s] <= reserved[s] /\ reserved[s] <= MaxLength
         /\ Len(tables[s]) = CeilDiv(reserved[s], BlockSize)
  BY DEF TypeOK, Extents

(* A private entry is in its own place only.                               *)
LEMMA PrivatePlace ==
  ASSUME TypeOK, Consistent, NEW s \in Slot, NEW i \in 1..Len(tables[s]),
         states[tables[s][i]] \in {PARTIAL, COMPLETE},
         NEW r \in Slot, NEW j \in 1..Len(tables[r]), tables[r][j] = tables[s][i]
  PROVE  r = s /\ j = i
<1> DEFINE b == tables[s][i]
<1>1. b \in Block
  BY TableType
<1>2. PICK o \in Slot : Holders(b) = {o}
  BY <1>1, PrivateSole
<1>3. s \in Holders(b) /\ r \in Holders(b)
  BY <1>1, HolderIndex
<1>4. r = s
  BY <1>2, <1>3
<1>5. IsInjective(tables[s]) /\ DOMAIN tables[s] = 1..Len(tables[s])
  BY TableType DEF Consistent, RefsExact
<1>6. j = i
  BY <1>4, <1>5 DEF IsInjective
<1> QED BY <1>4, <1>6

-----------------------------------------------------------------------------
(* A step over one sequence: the counts of the blocks behind its committed *)
(* length move to the new extent.                                          *)
LEMMA WriteIInv ==
  ASSUME IInv, NEW s \in Slot, NEW length \in 0..MaxLength, Write(s, length)
  PROVE  IInv'
<1> USE DEF IInv
<1> DEFINE full == lengths[s] \div BlockSize
           Moves(b) == \E i \in 1..Len(tables[s]) : tables[s][i] = b /\ i > full
<1>0. BlockSize \in Nat \ {0} /\ length \in Nat /\ MaxLength \in Nat
  BY GeometryAssumption
<1>1. UNCHANGED <<free, states, refs, tables, lengths, reserved, active>>
  BY DEF Write
<1>2. /\ lengths[s] < length /\ length <= reserved[s]
      /\ enqueued' \in [Slot -> Nat]
      /\ \A r \in Slot : enqueued'[r] = IF r = s THEN length ELSE enqueued[r]
  BY <1>0 DEF Write, TypeOK
<1>3. full \in Nat /\ lengths[s] \in Nat /\ enqueued[s] \in Nat /\ lengths[s] <= enqueued[s]
  BY ExtentType, FullMonotone DEF Consistent
<1>4. \A i \in 1..Len(tables[s]) : i * BlockSize > lengths[s] <=> i > full
  BY <1>3, FullBound, TableType
<1> HIDE DEF full
<1>5. DOMAIN tables[s] = 1..Len(tables[s]) /\ IsInjective(tables[s])
  BY TableType DEF Consistent, RefsExact
<1>6. \A b \in Block : ~Moves(b) => written'[b] = written[b]
  BY <1>4, <1>5 DEF Write
<1>7. \A i \in 1..Len(tables[s]) : i > full =>
        written'[tables[s][i]] = Covered(length, i) /\ states[tables[s][i]] = PARTIAL
  <2>1. TAKE i \in 1..Len(tables[s])
  <2>2. HAVE i > full
  <2>3. (CHOOSE j \in DOMAIN tables[s] : tables[s][j] = tables[s][i]) = i
    BY <1>5 DEF IsInjective
  <2>4. written'[tables[s][i]] = Covered(length, i)
    BY <1>4, <1>5, <2>2, <2>3, TableType DEF Write
  <2>5. states[tables[s][i]] = PARTIAL
    BY <2>2, HeldState DEF full, Consistent
  <2> QED BY <2>4, <2>5
<1>8. \A b \in Block : written'[b] \in 0..BlockSize
  <2>1. TAKE b \in Block
  <2>2. CASE Moves(b)
    <3>1. PICK i \in 1..Len(tables[s]) : tables[s][i] = b /\ i > full
      BY <2>2
    <3>2. Covered(length, i) \in 0..BlockSize
      BY <1>0, TableType, CoveredType
    <3> QED BY <1>7, <3>1, <3>2
  <2>3. CASE ~Moves(b)
    BY <1>6, <2>3 DEF TypeOK
  <2> QED BY <2>2, <2>3
<1>9. TypeOK'
  <2>1. written' \in [Block -> 0..BlockSize]
    BY <1>8 DEF Write
  <2> QED BY <1>1, <1>2, <2>1 DEF TypeOK
<1>10. FreeOnce' /\ HeldStates' /\ RefsExact'
  BY <1>1 DEF Consistent, FreeOnce, HeldStates, RefsExact, Holders
<1>11. Extents'
  <2>1. ASSUME NEW r \in Slot
        PROVE  lengths[r] <= enqueued'[r] /\ enqueued'[r] <= reserved[r]
    BY <1>0, <1>2, <1>3, ExtentType DEF Consistent
  <2> QED BY <1>1, <2>1 DEF Consistent, Extents
<1>12. \A r \in Slot : \A i \in 1..Len(tables[r]) :
         written'[tables[r][i]] = Covered(enqueued'[r], i)
  <2>1. TAKE r \in Slot
  <2>2. TAKE i \in 1..Len(tables[r])
  <2>3. /\ tables[r][i] \in Block /\ i \in Nat \ {0}
        /\ written[tables[r][i]] = Covered(enqueued[r], i)
    BY TableType DEF PoolAgrees
  <2>4. CASE r = s /\ i > full
    BY <1>2, <1>7, <2>4
  <2>5. CASE r = s /\ ~(i > full)
    <3>1. i <= length \div BlockSize /\ i <= enqueued[s] \div BlockSize
      <4>1. /\ full <= length \div BlockSize /\ length \div BlockSize \in Nat
            /\ full <= enqueued[s] \div BlockSize /\ enqueued[s] \div BlockSize \in Nat
        <5>1. lengths[s] <= length /\ lengths[s] <= enqueued[s]
          BY <1>0, <1>2, <1>3
        <5>2. \A n \in Nat : lengths[s] <= n =>
                full <= n \div BlockSize /\ n \div BlockSize \in Nat
          BY <1>3, FullMonotone DEF full
        <5> QED BY <1>0, <1>3, <5>1, <5>2
      <4> QED BY <1>3, <2>3, <2>5, <4>1
    <3>2. Covered(length, i) = Covered(enqueued[s], i)
      BY <1>0, <1>3, <2>3, <3>1, CoveredFull
    <3>3. ~Moves(tables[s][i])
      BY <1>5, <2>5 DEF IsInjective
    <3> QED BY <1>2, <1>6, <2>3, <2>5, <3>2, <3>3
  <2>6. CASE r # s
    <3>1. ~Moves(tables[r][i])
      BY <1>7, <2>6, PrivatePlace
    <3> QED BY <1>2, <1>6, <2>3, <2>6, <3>1
  <2> QED BY <2>4, <2>5, <2>6
<1>13. PoolAgrees'
  <2>1. ASSUME NEW b \in Block, states[b] # PARTIAL
        PROVE  written'[b] = written[b]
    BY <1>6, <1>7, <2>1
  <2>2. ASSUME NEW b \in Block
        PROVE  /\ states'[b] = REGISTERED => written'[b] = BlockSize
               /\ states'[b] = RESET => written'[b] = 0
    BY <1>1, <2>1 DEF PoolAgrees
  <2>3. ASSUME NEW r \in Slot, NEW i \in DOMAIN tables'[r]
        PROVE  written'[tables'[r][i]] = Covered(enqueued'[r], i)
    BY <1>1, <1>12, TableType
  <2> QED BY <2>2, <2>3 DEF PoolAgrees
<1> QED BY <1>9, <1>10, <1>11, <1>13 DEF Consistent
-----------------------------------------------------------------------------
(* Committing what was enqueued: the blocks it fills become Complete.      *)
LEMMA CommitIInv ==
  ASSUME IInv, NEW s \in Slot, Commit(s)
  PROVE  IInv'
<1> USE DEF IInv
<1> DEFINE length == enqueued[s]
           full == length \div BlockSize
<1>1. /\ UNCHANGED <<free, refs, tables, reserved, active, written, enqueued>>
      /\ lengths' \in [Slot -> Nat]
      /\ \A r \in Slot : lengths'[r] = IF r = s THEN length ELSE lengths[r]
  BY DEF Commit, TypeOK
<1>2. /\ length \in Nat /\ lengths[s] \in Nat /\ lengths[s] <= length
      /\ full \in Nat /\ lengths[s] \div BlockSize <= full /\ full <= Len(tables[s])
  <2>1. reserved[s] \in Nat /\ length <= reserved[s] /\ length \in Nat
    BY ExtentType DEF Consistent
  <2>2. full <= CeilDiv(length, BlockSize) /\ full \in Nat
    BY <2>1, FullMonotone
  <2>3. CeilDiv(length, BlockSize) <= CeilDiv(reserved[s], BlockSize)
    BY <2>1, GeometryAssumption, DivMonotone
  <2>4. CeilDiv(length, BlockSize) \in Nat /\ CeilDiv(reserved[s], BlockSize) \in Nat
    BY <2>1, GeometryAssumption, CeilBound
  <2>5. lengths[s] \in Nat /\ lengths[s] <= length /\ Len(tables[s]) = CeilDiv(reserved[s], BlockSize)
    BY ExtentType DEF Consistent
  <2>6. lengths[s] \div BlockSize <= full
    BY <2>1, <2>5, FullMonotone
  <2> QED BY <2>1, <2>2, <2>3, <2>4, <2>5, <2>6
<1>3. FullBlocks(s, length) = {tables[s][i] : i \in 1..full}
  BY DEF FullBlocks
<1>4. \A b \in Block : states'[b] =
        IF b \in {tables[s][i] : i \in 1..full} /\ states[b] # REGISTERED
        THEN COMPLETE ELSE states[b]
  BY <1>3 DEF Commit
<1> HIDE DEF length, full
<1>5. 1..full \subseteq 1..Len(tables[s])
  BY <1>2
<1>6. TypeOK'
  <2>1. states' \in [Block -> State]
    BY <1>4 DEF Commit, TypeOK
  <2> QED BY <1>1, <2>1 DEF TypeOK
<1>7. \A b \in Block : states'[b] # states[b] => states[b] = PARTIAL /\ states'[b] = COMPLETE
  <2>1. TAKE b \in Block
  <2>2. HAVE states'[b] # states[b]
  <2>3. PICK i \in 1..full : b = tables[s][i] /\ states[b] # REGISTERED /\ states'[b] = COMPLETE
    BY <1>4, <2>2
  <2>4. states[b] \in {PARTIAL, COMPLETE, REGISTERED}
    BY <1>5, <2>3, TableType, HeldState DEF Consistent
  <2> QED BY <2>2, <2>3, <2>4
<1>8. FreeOnce'
  BY <1>1, <1>7 DEF Consistent, FreeOnce
<1>9. Extents'
  BY <1>1, <1>2, ExtentType DEF Consistent, Extents, length
<1>10. HeldStates'
  <2>1. ASSUME NEW r \in Slot, NEW i \in 1..Len(tables[r])
        PROVE  states'[tables[r][i]] \in IF i <= lengths'[r] \div BlockSize
                                          THEN {COMPLETE, REGISTERED} ELSE {PARTIAL}
    <3>1. tables[r][i] \in Block /\ i \in Nat \ {0}
      BY TableType
    <3>2. lengths[r] \div BlockSize \in Nat
      BY HeldState DEF Consistent
    <3>3. CASE r = s /\ i <= full
      <4>1. tables[r][i] \in {tables[s][j] : j \in 1..full}
        BY <3>1, <3>3
      <4>2. states'[tables[r][i]] \in {COMPLETE, REGISTERED}
        BY <1>4, <3>1, <4>1
      <4> QED BY <1>1, <3>3, <4>2 DEF full
    <3>4. CASE r = s /\ ~(i <= full)
      <4>1. states[tables[r][i]] = PARTIAL
        BY <1>2, <3>1, <3>2, <3>4, HeldState DEF Consistent
      <4>2. tables[r][i] \notin {tables[s][j] : j \in 1..full}
        <5>1. IsInjective(tables[s]) /\ DOMAIN tables[s] = 1..Len(tables[s])
          BY TableType DEF Consistent, RefsExact
        <5> QED BY <1>5, <3>4, <5>1 DEF IsInjective
      <4>3. states'[tables[r][i]] = PARTIAL
        BY <1>4, <3>1, <4>1, <4>2
      <4> QED BY <1>1, <3>4, <4>3 DEF full
    <3>5. CASE r # s
      <4>1. states'[tables[r][i]] = states[tables[r][i]]
        <5>1. SUFFICES ASSUME states'[tables[r][i]] # states[tables[r][i]] PROVE FALSE
          OBVIOUS
        <5>2. states[tables[r][i]] = PARTIAL
          BY <1>7, <3>1, <5>1
        <5>3. PICK j \in 1..full : tables[r][i] = tables[s][j]
          BY <1>4, <3>1, <5>1
        <5> QED BY <1>5, <3>5, <5>2, <5>3, PrivatePlace
      <4>2. lengths'[r] = lengths[r]
        BY <1>1, <3>5
      <4> QED BY <3>1, <4>1, <4>2, TableType DEF Consistent, HeldStates
    <3> QED BY <3>3, <3>4, <3>5
  <2> QED BY <1>1, <2>1, TableType DEF HeldStates
<1>11. RefsExact'
  <2>1. \A b \in Block : Holders(b)' = Holders(b)
    BY <1>1 DEF Holders
  <2> QED BY <1>1, <1>7, <2>1 DEF Consistent, RefsExact
<1>12. PoolAgrees'
  BY <1>1, <1>7 DEF PoolAgrees
<1> QED BY <1>6, <1>8, <1>9, <1>10, <1>11, <1>12 DEF Consistent
-----------------------------------------------------------------------------
(* Retaining one complete private block for the prefix index.              *)
LEMMA RegisterIInv ==
  ASSUME IInv, NEW s \in Slot, NEW ordinal \in Nat, Register(s, ordinal)
  PROVE  IInv'
<1> USE DEF IInv
<1> DEFINE b == tables[s][ordinal]
<1>1. /\ UNCHANGED <<free, refs, tables, lengths, reserved, active, written, enqueued>>
      /\ ordinal \in 1..(lengths[s] \div BlockSize)
      /\ states[b] = COMPLETE /\ refs[b] = 1
      /\ states' = [states EXCEPT ![b] = REGISTERED]
  BY DEF Register
<1>2. ordinal \in 1..Len(tables[s])
  <2>1. /\ lengths[s] \in Nat /\ reserved[s] \in Nat /\ lengths[s] <= reserved[s]
        /\ Len(tables[s]) = CeilDiv(reserved[s], BlockSize)
    BY ExtentType DEF Consistent
  <2>2. /\ lengths[s] \div BlockSize <= reserved[s] \div BlockSize
        /\ reserved[s] \div BlockSize <= CeilDiv(reserved[s], BlockSize)
        /\ lengths[s] \div BlockSize \in Nat /\ reserved[s] \div BlockSize \in Nat
    BY <2>1, FullMonotone
  <2> QED BY <1>1, <2>1, <2>2, TableType
<1>3. b \in Block
  BY <1>2, TableType
<1> HIDE DEF b
<1>4. \A c \in Block : states'[c] = IF c = b THEN REGISTERED ELSE states[c]
  BY <1>1, <1>3 DEF TypeOK
<1>5. TypeOK'
  BY <1>1 DEF TypeOK
<1>6. FreeOnce'
  BY <1>1, <1>3, <1>4 DEF Consistent, FreeOnce
<1>7. Extents'
  BY <1>1 DEF Consistent, Extents
<1>8. HeldStates'
  <2>1. ASSUME NEW r \in Slot, NEW i \in 1..Len(tables[r])
        PROVE  states'[tables[r][i]] \in IF i <= lengths[r] \div BlockSize
                                          THEN {COMPLETE, REGISTERED} ELSE {PARTIAL}
    <3>1. tables[r][i] \in Block /\ i \in Nat \ {0} /\ lengths[r] \div BlockSize \in Nat
      BY TableType, HeldState DEF Consistent
    <3>2. CASE i <= lengths[r] \div BlockSize
      BY <1>4, <3>1, <3>2, HeldState DEF Consistent
    <3>3. CASE ~(i <= lengths[r] \div BlockSize)
      <4>1. states[tables[r][i]] = PARTIAL
        BY <3>1, <3>3, HeldState DEF Consistent
      <4>2. tables[r][i] # b
        BY <1>1, <4>1 DEF b
      <4> QED BY <1>4, <3>1, <3>3, <4>1, <4>2
    <3> QED BY <3>2, <3>3
  <2> QED BY <1>1, <2>1, TableType DEF HeldStates
<1>9. RefsExact'
  <2>1. \A c \in Block : Holders(c)' = Holders(c)
    BY <1>1 DEF Holders
  <2> QED BY <1>1, <1>4, <2>1 DEF Consistent, RefsExact
<1>10. PoolAgrees'
  <2>1. written[b] = BlockSize
    <3>1. /\ written[b] = Covered(enqueued[s], ordinal)
          /\ ordinal \in Nat \ {0}
      BY <1>2, TableType DEF PoolAgrees, b
    <3>2. /\ enqueued[s] \in Nat /\ enqueued[s] \div BlockSize \in Nat
          /\ lengths[s] \div BlockSize \in Nat
          /\ lengths[s] \div BlockSize <= enqueued[s] \div BlockSize
      BY ExtentType, FullMonotone DEF Consistent
    <3>3. ordinal <= enqueued[s] \div BlockSize
      BY <1>1, <3>1, <3>2
    <3> QED BY <3>1, <3>2, <3>3, CoveredFull
  <2> QED BY <1>1, <1>4, <2>1 DEF PoolAgrees
<1> QED BY <1>5, <1>6, <1>7, <1>8, <1>9, <1>10 DEF Consistent
-----------------------------------------------------------------------------
(* An idle Registered block goes back to the free list, its rows forgotten. *)
LEMMA EvictIInv ==
  ASSUME IInv, NEW b \in Block, EvictRegistered(b)
  PROVE  IInv'
<1> USE DEF IInv
<1>1. /\ UNCHANGED <<refs, tables, lengths, reserved, active, enqueued>>
      /\ states[b] = REGISTERED /\ refs[b] = 0 /\ free' = Append(free, b)
  BY DEF EvictRegistered
<1>2. /\ \A c \in Block : states'[c] = IF c = b THEN RESET ELSE states[c]
      /\ \A c \in Block : written'[c] = IF c = b THEN 0 ELSE written[c]
  BY DEF EvictRegistered, TypeOK
<1>3. Holders(b) = {}
  BY <1>1, HolderIndex, FS_EmptySet DEF Consistent, RefsExact
<1>4. \A r \in Slot : \A i \in 1..Len(tables[r]) : tables[r][i] # b
  BY <1>3, HolderIndex
<1>5. free \in Seq(Block) /\ DOMAIN free = 1..Len(free) /\ Len(free) \in Nat
      /\ IsInjective(free) /\ Range(free) = {c \in Block : states[c] = RESET}
  BY DEF TypeOK, Consistent, FreeOnce
<1>6. /\ free' \in Seq(Block) /\ DOMAIN free' = 1..(Len(free) + 1)
      /\ \A i \in 1..Len(free) : free'[i] = free[i]
      /\ free'[Len(free) + 1] = b
  BY <1>1, <1>5
<1>7. TypeOK'
  <2>1. states' \in [Block -> State]
    BY DEF EvictRegistered, TypeOK
  <2>2. written' \in [Block -> 0..BlockSize]
    BY GeometryAssumption DEF EvictRegistered, TypeOK
  <2> QED BY <1>1, <1>6, <2>1, <2>2 DEF TypeOK
<1>8. FreeOnce'
  <2>1. b \notin Range(free)
    BY <1>1, <1>5
  <2>2. IsInjective(free')
    BY <1>5, <1>6, <2>1 DEF IsInjective, Range
  <2>3. Range(free') = Range(free) \cup {b}
    <3>1. \A i \in DOMAIN free' : free'[i] \in Range(free) \cup {b}
      BY <1>5, <1>6 DEF Range
    <3>2. \A i \in DOMAIN free : i \in DOMAIN free' /\ free'[i] = free[i]
      BY <1>5, <1>6
    <3>3. Len(free) + 1 \in DOMAIN free'
      BY <1>5, <1>6
    <3> QED BY <1>6, <3>1, <3>2, <3>3 DEF Range
  <2> QED BY <1>2, <1>5, <2>2, <2>3 DEF FreeOnce
<1>9. Extents'
  BY <1>1 DEF Consistent, Extents
<1>10. HeldStates'
  <2>1. \A r \in Slot : \A i \in DOMAIN tables[r] : states'[tables[r][i]] = states[tables[r][i]]
    BY <1>2, <1>4, TableType
  <2> QED BY <1>1, <2>1 DEF Consistent, HeldStates
<1>11. RefsExact'
  <2>1. \A c \in Block : Holders(c)' = Holders(c)
    BY <1>1 DEF Holders
  <2> QED BY <1>1, <1>2, <2>1 DEF Consistent, RefsExact
<1>12. PoolAgrees'
  <2>1. \A r \in Slot : \A i \in DOMAIN tables[r] : written'[tables[r][i]] = written[tables[r][i]]
    BY <1>2, <1>4, TableType
  <2> QED BY <1>1, <1>2, <2>1 DEF PoolAgrees
<1> QED BY <1>7, <1>8, <1>9, <1>10, <1>11, <1>12 DEF Consistent
-----------------------------------------------------------------------------
(* A new sequence over borrowed immutable blocks, or none.                 *)
LEMMA AttachIInv ==
  ASSUME IInv, NEW s \in Slot, NEW cached \in CachedPrefixes, Attach(s, cached)
  PROVE  IInv'
<1> USE DEF IInv
<1> DEFINE k == Len(cached)
<1>1. /\ cached \in Seq(Block) /\ k \in Nat /\ DOMAIN cached = 1..k
      /\ IsInjective(cached)
      /\ \A i \in 1..k : cached[i] \in Block /\ states[cached[i]] = REGISTERED
      /\ k <= MaxLength \div BlockSize
  <2>1. PICK n \in 0..(MaxLength \div BlockSize) : cached \in [1..n -> Registered]
    BY DEF CachedPrefixes
  <2>2. MaxLength \div BlockSize \in Nat
    BY GeometryAssumption, Division
  <2>3. n \in Nat /\ n <= MaxLength \div BlockSize
    BY <2>1, <2>2
  <2>4. \A i \in 1..n : cached[i] \in Block /\ states[cached[i]] = REGISTERED
    BY <2>1 DEF Registered
  <2>5. cached \in [1..n -> Block]
    BY <2>1, <2>4
  <2>6. cached \in Seq(Block) /\ Len(cached) = n
    BY <2>3, <2>5
  <2> QED BY <2>1, <2>3, <2>4, <2>6 DEF CachedPrefixes
<1>2. /\ k * BlockSize \in Nat /\ k * BlockSize <= MaxLength
      /\ CeilDiv(k * BlockSize, BlockSize) = k /\ (k * BlockSize) \div BlockSize = k
  <2>1. k \in Nat /\ k <= MaxLength \div BlockSize /\ BlockSize \in Nat \ {0} /\ MaxLength \in Nat
    BY <1>1, GeometryAssumption
  <2> HIDE DEF k
  <2>2. k * BlockSize <= MaxLength
    BY <2>1, FloorBound
  <2> QED BY <2>1, <2>2, WholeBlocks
<1>3. Len(tables[s]) = 0 /\ ~active[s]
  BY IdleEmpty DEF Attach, FirstIdle
<1> DEFINE n == k * BlockSize
<1>4. /\ UNCHANGED <<free, states, written>>
      /\ \A r \in Slot :
           r # s => /\ tables'[r] = tables[r] /\ lengths'[r] = lengths[r]
                    /\ reserved'[r] = reserved[r] /\ enqueued'[r] = enqueued[r]
                    /\ active'[r] = active[r]
      /\ tables'[s] = cached /\ lengths'[s] = n /\ reserved'[s] = n /\ enqueued'[s] = n
      /\ active'[s] = TRUE
      /\ \A b \in Block : refs'[b] = IF b \in Range(cached) THEN refs[b] + 1 ELSE refs[b]
  BY DEF Attach, TypeOK
<1>5. TypeOK'
  <2>1. tables' \in [Slot -> Seq(Block)]
    BY <1>1 DEF Attach, TypeOK
  <2>2. refs' \in [Block -> Nat]
    <3>1. \A b \in Block : refs[b] \in Nat
      BY DEF TypeOK
    <3> QED BY <3>1 DEF Attach
  <2>3. lengths' \in [Slot -> Nat] /\ reserved' \in [Slot -> Nat] /\ enqueued' \in [Slot -> Nat]
    BY <1>2 DEF Attach, TypeOK
  <2>4. active' \in [Slot -> BOOLEAN]
    BY DEF Attach, TypeOK
  <2> QED BY <1>4, <2>1, <2>2, <2>3, <2>4 DEF TypeOK
<1> HIDE DEF k, n
<1>6. FreeOnce'
  BY <1>4 DEF Consistent, FreeOnce
<1>7. Extents'
  <2>1. n \in Nat /\ n <= MaxLength /\ CeilDiv(n, BlockSize) = k
    BY <1>2 DEF n
  <2>2. Len(cached) = k
    BY DEF k
  <2>3. ASSUME NEW r \in Slot
        PROVE  /\ ~active'[r] => reserved'[r] = 0
               /\ lengths'[r] <= enqueued'[r] /\ enqueued'[r] <= reserved'[r]
               /\ reserved'[r] <= MaxLength
               /\ Len(tables'[r]) = CeilDiv(reserved'[r], BlockSize)
    <3>1. CASE r = s
      BY <1>4, <2>1, <2>2, <3>1
    <3>2. CASE r # s
      <4>1. /\ ~active[r] => reserved[r] = 0
            /\ lengths[r] <= enqueued[r] /\ enqueued[r] <= reserved[r] /\ reserved[r] <= MaxLength
            /\ Len(tables[r]) = CeilDiv(reserved[r], BlockSize)
        BY DEF Consistent, Extents
      <4> QED BY <1>4, <3>2, <4>1
    <3> QED BY <3>1, <3>2
  <2> QED BY <2>3 DEF Extents
<1>8. HeldStates'
  <2>1. ASSUME NEW r \in Slot, NEW i \in DOMAIN tables'[r]
        PROVE  states'[tables'[r][i]] \in IF i <= lengths'[r] \div BlockSize
                                           THEN {COMPLETE, REGISTERED} ELSE {PARTIAL}
    <3>1. CASE r = s
      <4>1. tables'[r] = cached /\ lengths'[r] \div BlockSize = k
        BY <1>2, <1>4, <3>1 DEF n, k
      <4>2. i \in 1..k /\ k \in Nat
        BY <1>1, <2>1, <4>1 DEF k
      <4>3. i <= lengths'[r] \div BlockSize /\ states'[tables'[r][i]] = REGISTERED
        BY <1>1, <1>4, <4>1, <4>2 DEF k
      <4> QED BY <4>3
    <3>2. CASE r # s
      BY <1>4, <2>1, <3>2 DEF Consistent, HeldStates
    <3> QED BY <3>1, <3>2
  <2> QED BY <2>1 DEF HeldStates
<1>9. RefsExact'
  <2>1. \A r \in Slot : IsInjective(tables'[r])
    BY <1>1, <1>4 DEF Consistent, RefsExact
  <2>2. ASSUME NEW b \in Block
        PROVE  refs'[b] = Cardinality(Holders(b)')
    <3>1. s \notin Holders(b)
      BY <1>3, HolderIndex
    <3>2. CASE b \in Range(cached)
      <4>1. Holders(b)' = Holders(b) \cup {s}
        BY <1>4, <3>1, <3>2 DEF Holders
      <4>2. Cardinality(Holders(b) \cup {s}) = Cardinality(Holders(b)) + 1
        BY <3>1, HolderIndex, FS_AddElement
      <4> QED BY <1>4, <3>2, <4>1, <4>2 DEF Consistent, RefsExact
    <3>3. CASE b \notin Range(cached)
      <4>1. Holders(b)' = Holders(b)
        BY <1>4, <3>1, <3>3 DEF Holders
      <4> QED BY <1>4, <3>3, <4>1 DEF Consistent, RefsExact
    <3> QED BY <3>2, <3>3
  <2>3. ASSUME NEW b \in Block, states'[b] \in {PARTIAL, COMPLETE}
        PROVE  refs'[b] = 1
    <3>1. b \notin Range(cached)
      BY <1>1, <1>4, <2>3 DEF Range
    <3> QED BY <1>4, <2>3, <3>1 DEF Consistent, RefsExact
  <2> QED BY <2>1, <2>2, <2>3 DEF RefsExact
<1>10. PoolAgrees'
  <2>1. ASSUME NEW r \in Slot, NEW i \in DOMAIN tables'[r]
        PROVE  written'[tables'[r][i]] = Covered(enqueued'[r], i)
    <3>1. CASE r = s
      <4>1. tables'[r] = cached /\ enqueued'[r] = n
        BY <1>4, <3>1
      <4>2. i \in 1..k /\ k \in Nat
        BY <1>1, <2>1, <4>1 DEF k
      <4>3. n \in Nat /\ n \div BlockSize = k /\ i \in Nat \ {0} /\ i <= k
        BY <1>2, <4>2 DEF n, k
      <4>4. Covered(n, i) = BlockSize
        BY <4>3, CoveredFull
      <4>5. written[cached[i]] = BlockSize
        BY <1>1, <4>2 DEF PoolAgrees, k
      <4> QED BY <1>4, <4>1, <4>4, <4>5
    <3>2. CASE r # s
      <4>1. tables'[r] = tables[r] /\ enqueued'[r] = enqueued[r] /\ i \in DOMAIN tables[r]
        BY <1>4, <2>1, <3>2
      <4> QED BY <1>4, <4>1 DEF PoolAgrees
    <3> QED BY <3>1, <3>2
  <2> QED BY <1>4, <2>1 DEF PoolAgrees
<1> QED BY <1>5, <1>6, <1>7, <1>8, <1>9, <1>10 DEF Consistent
-----------------------------------------------------------------------------
(* The blocks a reservation takes are the last ones of the free list.      *)
LEMMA PoppedBlocks ==
  ASSUME TypeOK, FreeOnce, NEW count \in Nat, count <= Len(free)
  PROVE  LET new  == Popped(count)
             rest == SubSeq(free, 1, Len(free) - count)
         IN  /\ new \in Seq(Block) /\ Len(new) = count /\ IsInjective(new)
             /\ rest \in Seq(Block) /\ IsInjective(rest)
             /\ Range(rest) \cap Range(new) = {}
             /\ Range(rest) \cup Range(new) = Range(free)
<1> DEFINE m    == Len(free) - count
           new  == Popped(count)
           rest == SubSeq(free, 1, m)
<1>1. free \in Seq(Block) /\ Len(free) \in Nat /\ DOMAIN free = 1..Len(free) /\ m \in Nat
      /\ Len(free) = m + count
  BY DEF TypeOK
<1>2. \A i, j \in 1..Len(free) : free[i] = free[j] => i = j
  BY <1>1 DEF FreeOnce, IsInjective
<1>3. new = [i \in 1..count |-> free[m + count + 1 - i]]
  BY <1>1 DEF Popped
<1>4. new \in Seq(Block) /\ Len(new) = count /\ DOMAIN new = 1..count
      /\ \A i \in 1..count : /\ m + count + 1 - i \in 1..Len(free) /\ m + count + 1 - i > m
                              /\ new[i] = free[m + count + 1 - i]
  <2>1. \A i \in 1..count : /\ m + count + 1 - i \in 1..Len(free) /\ m + count + 1 - i > m
                             /\ free[m + count + 1 - i] \in Block
    BY <1>1
  <2> QED BY <1>3, <2>1
<1>5. rest \in Seq(Block) /\ Len(rest) = m /\ DOMAIN rest = 1..m /\ \A i \in 1..m : rest[i] = free[i]
  <2>1. m \in 0..Len(free)
    BY <1>1
  <2> HIDE DEF m
  <2> QED BY <1>1, <2>1, FirstEntries
<1> HIDE DEF m, new, rest
<1>6. IsInjective(new)
  <2>1. ASSUME NEW i \in 1..count, NEW j \in 1..count, new[i] = new[j]
        PROVE  i = j
    <3>1. m + count + 1 - i = m + count + 1 - j
      BY <1>1, <1>2, <1>4, <2>1
    <3> QED BY <1>1, <3>1
  <2> QED BY <1>4, <2>1 DEF IsInjective
<1>7. IsInjective(rest)
  BY <1>1, <1>2, <1>5 DEF IsInjective
<1>8. ASSUME NEW i \in 1..m, NEW j \in 1..count
      PROVE  rest[i] # new[j]
  <2>1. i \in 1..Len(free) /\ rest[i] = free[i]
    BY <1>1, <1>5
  <2>2. PICK x \in 1..Len(free) : x > m /\ new[j] = free[x]
    BY <1>4
  <2>3. i # x
    BY <1>1, <2>2
  <2> QED BY <1>2, <2>1, <2>2, <2>3
<1>9. ASSUME NEW i \in 1..Len(free)
      PROVE  free[i] \in Range(rest) \cup Range(new)
  <2>1. CASE i <= m
    BY <1>1, <1>5, <2>1 DEF Range
  <2>2. CASE i > m
    <3>1. m + count + 1 - i \in 1..count /\ m + count + 1 - (m + count + 1 - i) = i
      BY <1>1, <2>2
    <3>2. new[m + count + 1 - i] = free[i]
      BY <1>4, <3>1
    <3> QED BY <1>4, <3>1, <3>2 DEF Range
  <2> QED BY <1>1, <2>1, <2>2
<1>10. Range(rest) \subseteq Range(free) /\ Range(new) \subseteq Range(free)
  <2>1. \A i \in 1..count : new[i] \in Range(free)
    BY <1>1, <1>4 DEF Range
  <2>2. \A i \in 1..m : rest[i] \in Range(free)
    BY <1>1, <1>5 DEF Range
  <2>3. Range(new) = {new[i] : i \in 1..count} /\ Range(rest) = {rest[i] : i \in 1..m}
    BY <1>4, <1>5 DEF Range
  <2> QED BY <2>1, <2>2, <2>3
<1>11. Range(rest) \cap Range(new) = {}
  BY <1>4, <1>5, <1>8 DEF Range
<1>12. Range(free) \subseteq Range(rest) \cup Range(new)
  BY <1>1, <1>9 DEF Range
<1> QED BY <1>4, <1>5, <1>6, <1>7, <1>10, <1>11, <1>12 DEF m, new, rest
(* Reserving blocks for the positions up to `length'.                      *)
LEMMA ReserveIInv ==
  ASSUME IInv, NEW s \in Slot, NEW length \in 0..MaxLength, Reserve(s, length)
  PROVE  IInv'
<1> USE DEF IInv
<1> DEFINE held  == Len(tables[s])
           count == Larger(CeilDiv(length, BlockSize) - held, 0)
           new   == Popped(count)
           rest  == SubSeq(free, 1, Len(free) - count)
<1>1. /\ length \in Nat /\ length <= MaxLength /\ lengths[s] <= length
      /\ CeilDiv(length, BlockSize) \in Nat /\ BlockSize \in Nat \ {0}
  <2>1. length \in Nat /\ length <= MaxLength /\ BlockSize \in Nat \ {0}
    BY GeometryAssumption
  <2>2. CeilDiv(length, BlockSize) \in Nat
    BY <2>1, CeilType
  <2> QED BY <2>1, <2>2 DEF Reserve
<1>2. /\ held \in Nat /\ held = CeilDiv(reserved[s], BlockSize) /\ reserved[s] \in Nat
      /\ lengths[s] \in Nat /\ enqueued[s] \in Nat
      /\ lengths[s] <= enqueued[s] /\ enqueued[s] <= reserved[s] /\ reserved[s] <= MaxLength
  BY ExtentType, TableType DEF Consistent
<1>3. count \in Nat /\ count <= Len(free) /\ Len(free) \in Nat
      /\ count = IF CeilDiv(length, BlockSize) >= held THEN CeilDiv(length, BlockSize) - held ELSE 0
  <2>1. Len(free) \in Nat /\ CeilDiv(length, BlockSize) - held <= Len(free)
    BY DEF TypeOK, Reserve
  <2> QED BY <1>1, <1>2, <2>1 DEF Larger
<1> HIDE DEF held, count
<1>4. /\ new \in Seq(Block) /\ Len(new) = count /\ IsInjective(new)
      /\ rest \in Seq(Block) /\ IsInjective(rest)
      /\ Range(rest) \cap Range(new) = {} /\ Range(rest) \cup Range(new) = Range(free)
  BY <1>3, PoppedBlocks DEF Consistent
<1>5. \A b \in Range(new) : b \in Block /\ states[b] = RESET
  BY <1>4 DEF Consistent, FreeOnce
<1> HIDE DEF new, rest
<1>6. /\ UNCHANGED <<lengths, active, written, enqueued>> /\ active[s] /\ free' = rest
      /\ tables' = [tables EXCEPT ![s] = tables[s] \o new]
      /\ reserved' = [reserved EXCEPT ![s] = Larger(reserved[s], length)]
      /\ states' = [b \in Block |-> IF b \in Range(new) THEN PARTIAL ELSE states[b]]
      /\ refs' = [b \in Block |-> IF b \in Range(new) THEN 1 ELSE refs[b]]
  BY <1>4 DEF Reserve, held, count, new, rest
<1>7. /\ tables'[s] = tables[s] \o new /\ reserved'[s] = Larger(reserved[s], length)
      /\ \A r \in Slot : r # s => tables'[r] = tables[r] /\ reserved'[r] = reserved[r]
      /\ \A b \in Block : b \in Range(new) => states'[b] = PARTIAL /\ refs'[b] = 1
      /\ \A b \in Block : b \notin Range(new) => states'[b] = states[b] /\ refs'[b] = refs[b]
  BY <1>6 DEF TypeOK
<1>8. tables[s] \in Seq(Block)
  BY TableType
<1>9. /\ tables'[s] \in Seq(Block) /\ Len(tables'[s]) = held + count
      /\ DOMAIN tables'[s] = 1..(held + count)
      /\ \A i \in 1..held : tables'[s][i] = tables[s][i]
      /\ \A i \in 1..(held + count) : i > held =>
           i - held \in 1..count /\ tables'[s][i] = new[i - held]
      /\ Range(tables'[s]) = Range(tables[s]) \cup Range(new)
  <2> DEFINE t == tables[s] \o new
  <2>1. /\ t \in Seq(Block) /\ Len(t) = Len(tables[s]) + Len(new)
        /\ DOMAIN t = 1..(Len(tables[s]) + Len(new))
        /\ \A i \in 1..Len(tables[s]) : t[i] = tables[s][i]
        /\ \A i \in 1..(Len(tables[s]) + Len(new)) : i > Len(tables[s]) =>
             i - Len(tables[s]) \in 1..Len(new) /\ t[i] = new[i - Len(tables[s])]
        /\ Range(t) = Range(tables[s]) \cup Range(new)
    <3>1. new \in Seq(Block) /\ tables[s] \in Seq(Block)
      BY <1>4, <1>8
    <3>2. t \in Seq(Block) /\ Len(t) = Len(tables[s]) + Len(new)
      BY <3>1
    <3>3. DOMAIN t = 1..(Len(tables[s]) + Len(new))
      BY <3>1, Concatenation
    <3>4. \A i \in 1..Len(tables[s]) : t[i] = tables[s][i]
      BY <3>1
    <3>5. \A i \in 1..(Len(tables[s]) + Len(new)) : i > Len(tables[s]) =>
             i - Len(tables[s]) \in 1..Len(new) /\ t[i] = new[i - Len(tables[s])]
      BY <3>1
    <3>6. Range(t) = Range(tables[s]) \cup Range(new)
      BY <3>1, RangeConcatenation
    <3> QED BY <3>2, <3>3, <3>4, <3>5, <3>6
  <2>2. tables'[s] = t /\ Len(tables[s]) = held /\ Len(new) = count
    BY <1>4, <1>7 DEF held
  <2> HIDE DEF t
  <2> QED BY <2>1, <2>2
<1>10. \A r \in Slot : \A i \in 1..Len(tables[r]) : tables[r][i] \notin Range(new)
  <2>1. TAKE r \in Slot
  <2>2. TAKE i \in 1..Len(tables[r])
  <2>3. r \in Holders(tables[r][i]) /\ tables[r][i] \in Block
    BY TableType, HolderIndex
  <2> QED BY <1>5, <2>3, FreeUnheld
<1>11. Larger(reserved[s], length) \in Nat /\ Larger(reserved[s], length) <= MaxLength
       /\ reserved[s] <= Larger(reserved[s], length)
       /\ CeilDiv(Larger(reserved[s], length), BlockSize) = held + count
  <2>1. CASE reserved[s] >= length
    <3>1. CeilDiv(length, BlockSize) <= held
      BY <1>1, <1>2, <2>1, DivMonotone
    <3>2. count = 0
      BY <1>1, <1>2, <1>3, <3>1
    <3> QED BY <1>1, <1>2, <2>1, <3>2 DEF Larger
  <2>2. CASE reserved[s] < length
    <3>1. held <= CeilDiv(length, BlockSize)
      BY <1>1, <1>2, <2>2, DivMonotone
    <3> QED BY <1>1, <1>2, <1>3, <2>2, <3>1 DEF Larger
  <2> QED BY <1>1, <1>2, <2>1, <2>2
<1>12. TypeOK'
  <2>1. states' \in [Block -> State]
    BY <1>6 DEF TypeOK
  <2>2. refs' \in [Block -> Nat]
    BY <1>6 DEF TypeOK
  <2>3. tables' \in [Slot -> Seq(Block)] /\ reserved' \in [Slot -> Nat]
    BY <1>6, <1>7, <1>9, <1>11 DEF TypeOK
  <2> QED BY <1>4, <1>6, <2>1, <2>2, <2>3 DEF TypeOK
<1>13. FreeOnce'
  <2>1. Range(rest) = {b \in Block : states'[b] = RESET}
    <3>1. \A b \in Block : b \in Range(free) <=> states[b] = RESET
      BY DEF Consistent, FreeOnce
    <3>2. Range(free) \subseteq Block
      BY DEF Consistent, FreeOnce
    <3>3. \A b \in Block : states'[b] = RESET <=> states[b] = RESET /\ b \notin Range(new)
      BY <1>7
    <3> QED BY <1>4, <3>1, <3>2, <3>3
  <2> QED BY <1>4, <1>6, <2>1 DEF FreeOnce
<1>14. Extents'
  <2>1. ASSUME NEW r \in Slot
        PROVE  /\ ~active[r] => reserved'[r] = 0
               /\ lengths[r] <= enqueued[r] /\ enqueued[r] <= reserved'[r]
               /\ reserved'[r] <= MaxLength
               /\ Len(tables'[r]) = CeilDiv(reserved'[r], BlockSize)
    <3>1. CASE r = s
      BY <1>2, <1>6, <1>7, <1>9, <1>11, <3>1
    <3>2. CASE r # s
      <4>1. /\ ~active[r] => reserved[r] = 0
            /\ lengths[r] <= enqueued[r] /\ enqueued[r] <= reserved[r] /\ reserved[r] <= MaxLength
            /\ Len(tables[r]) = CeilDiv(reserved[r], BlockSize)
        BY DEF Consistent, Extents
      <4> QED BY <1>7, <3>2, <4>1
    <3> QED BY <3>1, <3>2
  <2> QED BY <1>6, <2>1 DEF Extents
<1>15. \A i \in 1..(held + count) : i > held =>
         /\ tables'[s][i] \in Range(new) /\ i \in Nat \ {0}
         /\ i > CeilDiv(enqueued[s], BlockSize) /\ i > lengths[s] \div BlockSize
  <2>1. TAKE i \in 1..(held + count)
  <2>2. HAVE i > held
  <2>3. CeilDiv(enqueued[s], BlockSize) <= held /\ CeilDiv(enqueued[s], BlockSize) \in Nat
    <3>1. CeilDiv(enqueued[s], BlockSize) \in Nat
      BY <1>1, <1>2, CeilType
    <3>2. CeilDiv(enqueued[s], BlockSize) <= CeilDiv(reserved[s], BlockSize)
      BY <1>1, <1>2, DivMonotone
    <3> QED BY <1>2, <3>1, <3>2
  <2>4. lengths[s] \div BlockSize <= enqueued[s] \div BlockSize
        /\ lengths[s] \div BlockSize \in Nat /\ enqueued[s] \div BlockSize \in Nat
        /\ enqueued[s] \div BlockSize <= CeilDiv(enqueued[s], BlockSize)
    BY <1>2, FullMonotone
  <2>5. DOMAIN new = 1..count
    BY <1>4, LenProperties
  <2>6. tables'[s][i] \in Range(new)
    <3>1. i - held \in DOMAIN new /\ tables'[s][i] = new[i - held]
      BY <1>9, <2>2, <2>5
    <3> QED BY <3>1 DEF Range
  <2>7. i \in Nat \ {0} /\ i > held /\ held \in Nat
    BY <1>2, <1>3, <2>2
  <2>8. \A a, b, c \in Nat : a <= b /\ b <= c /\ c <= held => i > a /\ i > c
    BY <2>7
  <2> QED BY <2>3, <2>4, <2>6, <2>7, <2>8
<1>16. ASSUME NEW r \in Slot, NEW i \in DOMAIN tables'[r]
       PROVE  \/ i \in 1..Len(tables[r]) /\ tables'[r][i] = tables[r][i]
                 /\ states'[tables[r][i]] = states[tables[r][i]]
              \/ r = s /\ i > held /\ i \in 1..(held + count)
  <2>1. \A j \in 1..Len(tables[r]) : states'[tables[r][j]] = states[tables[r][j]]
    BY <1>7, <1>10, TableType
  <2>2. CASE r = s
    <3>1. i \in 1..(held + count) /\ (i <= held => i \in 1..held)
      BY <1>2, <1>3, <1>9, <1>16, <2>2
    <3>2. CASE i <= held
      <4>1. i \in 1..held /\ held = Len(tables[s])
        BY <3>1, <3>2 DEF held
      <4>2. tables'[s][i] = tables[s][i]
        BY <1>9, <4>1
      <4> QED BY <2>1, <2>2, <4>1, <4>2
    <3>3. CASE i > held
      BY <2>2, <3>1, <3>3
    <3> QED BY <1>2, <3>1, <3>2, <3>3
  <2>3. CASE r # s
    BY <1>7, <1>16, <2>1, <2>3, TableType
  <2> QED BY <2>2, <2>3
<1>17. HeldStates'
  <2>1. ASSUME NEW r \in Slot, NEW i \in DOMAIN tables'[r]
        PROVE  states'[tables'[r][i]] \in IF i <= lengths[r] \div BlockSize
                                           THEN {COMPLETE, REGISTERED} ELSE {PARTIAL}
    <3>1. CASE i \in 1..Len(tables[r]) /\ tables'[r][i] = tables[r][i]
                 /\ states'[tables[r][i]] = states[tables[r][i]]
      BY <3>1, TableType DEF Consistent, HeldStates
    <3>2. CASE r = s /\ i > held /\ i \in 1..(held + count)
      <4>1. ~(i <= lengths[r] \div BlockSize)
        BY <1>2, <1>15, <3>2, FullMonotone
      <4>2. states'[tables'[r][i]] = PARTIAL
        BY <1>5, <1>7, <1>15, <3>2
      <4> QED BY <4>1, <4>2
    <3> QED BY <1>16, <3>1, <3>2
  <2> QED BY <1>6, <2>1 DEF HeldStates
<1>18. RefsExact'
  <2>1. ASSUME NEW r \in Slot
        PROVE  IsInjective(tables'[r])
    <3>1. CASE r = s
      <4>1. Range(tables[s]) \cap Range(new) = {}
        BY <1>10, TableType DEF Range
      <4>2. IsInjective(tables[s])
        BY DEF Consistent, RefsExact
      <4>3. IsInjective(tables[s] \o new)
        BY <1>4, <1>8, <4>1, <4>2, Concatenation
      <4> QED BY <1>7, <3>1, <4>3
    <3>2. CASE r # s
      BY <1>7, <3>2 DEF Consistent, RefsExact
    <3> QED BY <3>1, <3>2
  <2>2. ASSUME NEW b \in Block
        PROVE  /\ refs'[b] = Cardinality(Holders(b)')
               /\ states'[b] \in {PARTIAL, COMPLETE} => refs'[b] = 1
    <3>1. CASE b \in Range(new)
      <4>1. Holders(b) = {}
        BY <1>5, <3>1, FreeUnheld
      <4>2. Holders(b)' = {s}
        BY <1>7, <1>9, <3>1, <4>1 DEF Holders
      <4> QED BY <1>7, <3>1, <4>2, FS_Singleton
    <3>2. CASE b \notin Range(new)
      <4>1. Holders(b)' = Holders(b)
        BY <1>7, <1>9, <3>2 DEF Holders
      <4> QED BY <1>7, <3>2, <4>1 DEF Consistent, RefsExact
    <3> QED BY <3>1, <3>2
  <2> QED BY <2>1, <2>2 DEF RefsExact
<1>19. PoolAgrees'
  <2>1. ASSUME NEW r \in Slot, NEW i \in DOMAIN tables'[r]
        PROVE  written[tables'[r][i]] = Covered(enqueued[r], i)
    <3>1. CASE i \in 1..Len(tables[r]) /\ tables'[r][i] = tables[r][i]
                 /\ states'[tables[r][i]] = states[tables[r][i]]
      BY <3>1, TableType DEF PoolAgrees
    <3>2. CASE r = s /\ i > held /\ i \in 1..(held + count)
      <4>1. Covered(enqueued[r], i) = 0
        BY <1>2, <1>15, <3>2, CoveredNone
      <4>2. written[tables'[r][i]] = 0
        BY <1>5, <1>15, <3>2 DEF PoolAgrees
      <4> QED BY <4>1, <4>2
    <3> QED BY <1>16, <3>1, <3>2
  <2>2. ASSUME NEW b \in Block
        PROVE  /\ states'[b] = REGISTERED => written[b] = BlockSize
               /\ states'[b] = RESET => written[b] = 0
    BY <1>7 DEF PoolAgrees
  <2> QED BY <1>6, <2>1, <2>2 DEF PoolAgrees
<1> QED BY <1>12, <1>13, <1>14, <1>17, <1>18, <1>19 DEF Consistent
-----------------------------------------------------------------------------
(* Giving table entries back, in the generality truncation and release     *)
(* share: slot r keeps its first kept[r] entries.                          *)
Dropped(kept) ==
  {e \in Slot \X Nat : e[2] \in (kept[e[1]] + 1)..Len(tables[e[1]])}

IsCut(kept) == kept \in [Slot -> Nat] /\ \A r \in Slot : kept[r] <= Len(tables[r])

(* A dropped entry is an entry, and names a held block.                    *)
LEMMA DroppedEntry ==
  ASSUME TypeOK, Consistent, NEW kept, IsCut(kept), NEW e \in Dropped(kept)
  PROVE  /\ e[1] \in Slot /\ e[2] \in 1..Len(tables[e[1]]) /\ e[2] > kept[e[1]]
         /\ e = <<e[1], e[2]>> /\ At(e) = tables[e[1]][e[2]]
         /\ At(e) \in Block /\ states[At(e)] \in {PARTIAL, COMPLETE, REGISTERED}
         /\ e[1] \in Holders(At(e))
<1>1. e[1] \in Slot /\ e[2] \in Nat /\ e = <<e[1], e[2]>>
      /\ e[2] \in (kept[e[1]] + 1)..Len(tables[e[1]])
  BY DEF Dropped
<1>2. kept[e[1]] \in Nat /\ Len(tables[e[1]]) \in Nat
  BY <1>1, TableType DEF IsCut
<1>3. e[2] \in 1..Len(tables[e[1]]) /\ e[2] > kept[e[1]]
  BY <1>1, <1>2
<1>4. At(e) = tables[e[1]][e[2]] /\ At(e) \in Block
  BY <1>1, <1>3, TableType DEF At
<1>5. states[At(e)] # RESET /\ e[1] \in Holders(At(e))
  BY <1>1, <1>3, <1>4, HolderIndex, FreeUnheld
<1>6. states[At(e)] \in State
  BY <1>4 DEF TypeOK
<1> QED BY <1>1, <1>3, <1>4, <1>5, <1>6

(* Private dropped entries name distinct blocks, finitely many.            *)
LEMMA PrivateDropped ==
  ASSUME TypeOK, Consistent, NEW kept, IsCut(kept)
  PROVE  LET P == Private(Dropped(kept))
         IN  /\ IsFiniteSet(P)
             /\ \A e, f \in P : At(e) = At(f) => e = f
             /\ \A e \in P : At(e) \in Block /\ states[At(e)] \in {PARTIAL, COMPLETE}
<1> DEFINE P == Private(Dropped(kept))
<1>1. \A e \in P : e \in Dropped(kept) /\ At(e) \in Block /\ states[At(e)] \in {PARTIAL, COMPLETE}
  BY DroppedEntry DEF Private
<1>2. ASSUME NEW e \in P, NEW f \in P, At(e) = At(f)
      PROVE  e = f
  <2>1. /\ e[1] \in Slot /\ e[2] \in 1..Len(tables[e[1]])
        /\ At(e) = tables[e[1]][e[2]] /\ e = <<e[1], e[2]>>
    BY <1>1, DroppedEntry
  <2>2. /\ f[1] \in Slot /\ f[2] \in 1..Len(tables[f[1]])
        /\ At(f) = tables[f[1]][f[2]] /\ f = <<f[1], f[2]>>
    BY <1>1, DroppedEntry
  <2>3. f[1] = e[1] /\ f[2] = e[2]
    <3>1. /\ states[tables[e[1]][e[2]]] \in {PARTIAL, COMPLETE}
          /\ tables[f[1]][f[2]] = tables[e[1]][e[2]]
      BY <1>1, <1>2, <2>1, <2>2
    <3>2. \A r \in Slot : \A j \in 1..Len(tables[r]) :
            tables[r][j] = tables[e[1]][e[2]] => r = e[1] /\ j = e[2]
      BY <2>1, <3>1, PrivatePlace
    <3> QED BY <2>2, <3>1, <3>2
  <2> QED BY <2>1, <2>2, <2>3
<1> HIDE DEF P
<1>3. IsFiniteSet(P)
  <2> DEFINE block == [e \in P |-> At(e)]
  <2>1. block \in Injection(P, Block)
    BY <1>1, <1>2 DEF Injection, IsInjective
  <2> QED BY <2>1, GeometryAssumption, FS_Injection
<1> QED BY <1>1, <1>2, <1>3 DEF P

(* They reach the free list once each, in whatever order.                  *)
LEMMA ReturnedFree ==
  ASSUME TypeOK, Consistent, NEW kept, IsCut(kept), Return(Dropped(kept))
  PROVE  /\ free' \in Seq(Block) /\ IsInjective(free')
         /\ Range(free') = Range(free) \cup Freed(Dropped(kept))
<1> DEFINE P == Private(Dropped(kept))
<1>1. /\ IsFiniteSet(P)
      /\ \A e, f \in P : At(e) = At(f) => e = f
      /\ \A e \in P : At(e) \in Block /\ states[At(e)] \in {PARTIAL, COMPLETE}
  BY PrivateDropped
<1>2. \A e \in P : e[1] \in Slot /\ e[2] \in Nat
  BY DEF Private, Dropped
<1>3. Freed(Dropped(kept)) = {At(e) : e \in P}
  BY DEF Freed
<1>4. PICK order \in ReturnOrders(P) : free' = free \o [i \in DOMAIN order |-> At(order[i])]
  BY DEF Return
<1> HIDE DEF P
<1>5. Cardinality(P) \in Nat
  BY <1>1, FS_CardinalityType
<1>6. /\ order \in [1..Cardinality(P) -> P] /\ Range(order) = P
      /\ \A i, j \in 1..Cardinality(P) : i < j => Precedes(order[i], order[j])
  BY DEF ReturnOrders
<1>7. \A e \in P : ~Precedes(e, e)
  BY <1>2 DEF Precedes
<1>8. \A i, j \in 1..Cardinality(P) : order[i] = order[j] => i = j
  <2>1. TAKE i, j \in 1..Cardinality(P)
  <2>2. HAVE order[i] = order[j]
  <2>3. ~(i < j) /\ ~(j < i)
    BY <1>6, <1>7, <2>2
  <2> QED BY <1>5, <2>3
<1> DEFINE back == [i \in 1..Cardinality(P) |-> At(order[i])]
<1>9. back \in [1..Cardinality(P) -> Block]
  BY <1>1, <1>6
<1>10. back \in Seq(Block)
  BY <1>5, <1>9
<1>11. IsInjective(back)
  BY <1>1, <1>6, <1>8 DEF IsInjective
<1>12. Range(back) = {At(e) : e \in P}
  BY <1>6 DEF Range
<1>13. free' = free \o back
  BY <1>4, <1>6
<1>14. free \in Seq(Block) /\ IsInjective(free) /\ Range(free) \cap Range(back) = {}
  BY <1>1, <1>12 DEF TypeOK, Consistent, FreeOnce
<1> HIDE DEF back
<1> QED BY <1>3, <1>10, <1>11, <1>12, <1>13, <1>14, Concatenation

(* A table keeps the holders its kept entries name.                        *)
LEMMA KeptHolders ==
  ASSUME TypeOK, Consistent, NEW kept, IsCut(kept),
         tables' \in [Slot -> Seq(Block)],
         \A r \in Slot : /\ Len(tables'[r]) = kept[r]
                         /\ \A i \in 1..kept[r] : tables'[r][i] = tables[r][i],
         NEW b \in Block
  PROVE  LET gone == {r \in Slot : \E e \in Dropped(kept) : e[1] = r /\ At(e) = b}
         IN  gone \subseteq Holders(b) /\ Holders(b)' = Holders(b) \ gone
<1> DEFINE gone == {r \in Slot : \E e \in Dropped(kept) : e[1] = r /\ At(e) = b}
<1>1. ASSUME NEW r \in Slot
      PROVE  /\ r \in gone <=> \E i \in (kept[r] + 1)..Len(tables[r]) : tables[r][i] = b
             /\ r \in Holders(b)' <=> \E i \in 1..kept[r] : tables[r][i] = b
             /\ r \in Holders(b) <=> \E i \in 1..Len(tables[r]) : tables[r][i] = b
  <2>1. ASSUME r \in gone
        PROVE  \E i \in (kept[r] + 1)..Len(tables[r]) : tables[r][i] = b
    BY <2>1 DEF Dropped, At
  <2>2. ASSUME NEW i \in (kept[r] + 1)..Len(tables[r]), tables[r][i] = b
        PROVE  r \in gone
    <3>1. i \in Nat
      BY TableType DEF IsCut
    <3>2. <<r, i>> \in Dropped(kept) /\ At(<<r, i>>) = b
      BY <2>2, <3>1 DEF Dropped, At
    <3> QED BY <3>2
  <2>3. DOMAIN tables'[r] = 1..kept[r]
    BY LenProperties
  <2>4. r \in Holders(b)' <=> b \in Range(tables'[r])
    BY DEF Holders
  <2>5. b \in Range(tables'[r]) <=> \E i \in 1..kept[r] : tables[r][i] = b
    BY <2>3 DEF Range
  <2> QED BY <2>1, <2>2, <2>4, <2>5, HolderIndex
<1>2. ASSUME NEW r \in Slot
      PROVE  /\ r \in gone => r \in Holders(b)
             /\ r \in Holders(b)' <=> r \in Holders(b) /\ r \notin gone
  <2>1. kept[r] \in Nat /\ Len(tables[r]) \in Nat /\ kept[r] <= Len(tables[r])
    BY TableType DEF IsCut
  <2>2. \A i, j \in 1..Len(tables[r]) : tables[r][i] = tables[r][j] => i = j
    BY TableType DEF Consistent, RefsExact, IsInjective
  <2> QED BY <1>1, <2>1, <2>2
<1>3. Holders(b)' \subseteq Slot /\ Holders(b) \subseteq Slot
  BY DEF Holders
<1> QED BY <1>2, <1>3

(* The references of a block follow its tables.                            *)
LEMMA ReturnedRefs ==
  ASSUME TypeOK, Consistent, NEW kept, IsCut(kept), Return(Dropped(kept)),
         tables' \in [Slot -> Seq(Block)],
         \A r \in Slot : /\ Len(tables'[r]) = kept[r]
                         /\ \A i \in 1..kept[r] : tables'[r][i] = tables[r][i],
         NEW b \in Block
  PROVE  refs'[b] = Cardinality(Holders(b)') /\ refs'[b] \in Nat
<1> DEFINE E    == {e \in Dropped(kept) : At(e) = b}
           gone == {r \in Slot : \E e \in Dropped(kept) : e[1] = r /\ At(e) = b}
           slot == [e \in E |-> e[1]]
<1>1. gone \subseteq Holders(b) /\ Holders(b)' = Holders(b) \ gone /\ IsFiniteSet(Holders(b))
  BY KeptHolders, HolderIndex
<1>2. \A e \in E : /\ e[1] \in Slot /\ e[2] \in 1..Len(tables[e[1]]) /\ e = <<e[1], e[2]>>
                   /\ tables[e[1]][e[2]] = b
  BY DroppedEntry
<1>3. \A e, f \in E : e[1] = f[1] => e = f
  <2>1. TAKE e, f \in E
  <2>2. HAVE e[1] = f[1]
  <2>3. \A i, j \in 1..Len(tables[e[1]]) : tables[e[1]][i] = tables[e[1]][j] => i = j
    BY <1>2, TableType DEF Consistent, RefsExact, IsInjective
  <2>4. e[2] = f[2]
    BY <1>2, <2>2, <2>3
  <2> QED BY <1>2, <2>2, <2>4
<1>4. slot \in Injection(E, gone)
  BY <1>2, <1>3 DEF Injection, IsInjective
<1>5. slot \in Surjection(E, gone)
  BY <1>4 DEF Surjection, Injection
<1>6. IsFiniteSet(gone)
  BY <1>1, FS_Subset
<1> HIDE DEF E, gone, slot
<1>7. IsFiniteSet(E) /\ Cardinality(E) = Cardinality(gone)
  BY <1>4, <1>5, <1>6, FS_Injection
<1>8. Cardinality(Holders(b) \ gone) = Cardinality(Holders(b)) - Cardinality(gone)
  <2>1. Holders(b) \cap gone = gone
    BY <1>1
  <2> QED BY <1>1, <2>1, FS_Difference
<1>9. refs'[b] = refs[b] - Cardinality(E)
  BY DEF Return, E
<1>10. refs[b] = Cardinality(Holders(b))
  BY DEF Consistent, RefsExact
<1>11. IsFiniteSet(Holders(b)')
  BY <1>1, FS_Difference
<1> QED BY <1>1, <1>7, <1>8, <1>9, <1>10, <1>11, FS_CardinalityType
(* What a step that gives entries back leaves of the audit, whatever else  *)
(* it does to lengths and counts: freed blocks become Reset, and no block  *)
(* turns private or Reset otherwise.                                       *)
LEMMA GiveBack ==
  ASSUME TypeOK, Consistent, NEW kept, IsCut(kept), Return(Dropped(kept)),
         tables' \in [Slot -> Seq(Block)],
         \A r \in Slot : /\ Len(tables'[r]) = kept[r]
                         /\ \A i \in 1..kept[r] : tables'[r][i] = tables[r][i],
         \A b \in Freed(Dropped(kept)) : states'[b] = RESET,
         \A b \in Block \ Freed(Dropped(kept)) :
           /\ states'[b] = RESET => states[b] = RESET
           /\ states[b] = RESET => states'[b] = RESET
           /\ states'[b] \in {PARTIAL, COMPLETE} => states[b] \in {PARTIAL, COMPLETE}
  PROVE  /\ FreeOnce' /\ RefsExact' /\ free' \in Seq(Block) /\ refs' \in [Block -> Nat]
         /\ \A r \in Slot : \A i \in 1..kept[r] :
              /\ i \in 1..Len(tables[r]) /\ tables[r][i] \in Block
              /\ tables[r][i] \notin Freed(Dropped(kept))
<1> DEFINE freed == Freed(Dropped(kept))
<1>1. freed = {At(e) : e \in Private(Dropped(kept))} /\ freed \subseteq Block
      /\ \A b \in freed : states[b] \in {PARTIAL, COMPLETE}
  BY PrivateDropped DEF Freed
<1>2. ASSUME NEW b \in Block
      PROVE  /\ b \in freed => Holders(b)' = {}
             /\ b \notin freed /\ states[b] \in {PARTIAL, COMPLETE} => Holders(b)' = Holders(b)
  <2> DEFINE gone == {r \in Slot : \E e \in Dropped(kept) : e[1] = r /\ At(e) = b}
  <2>1. gone \subseteq Holders(b) /\ Holders(b)' = Holders(b) \ gone
    BY KeptHolders
  <2>2. CASE b \in freed
    <3>1. PICK e \in Dropped(kept) : At(e) = b /\ states[b] \in {PARTIAL, COMPLETE}
      BY <1>1, <2>2 DEF Private
    <3>2. e[1] \in gone
      BY <3>1, DroppedEntry
    <3>3. \E o \in Slot : Holders(b) = {o}
      BY <3>1, PrivateSole
    <3> QED BY <2>1, <2>2, <3>2, <3>3
  <2>3. CASE b \notin freed /\ states[b] \in {PARTIAL, COMPLETE}
    <3>1. gone = {}
      <4>1. SUFFICES ASSUME NEW e \in Dropped(kept), At(e) = b PROVE FALSE
        OBVIOUS
      <4>2. e \in Private(Dropped(kept))
        BY <2>3, <4>1 DEF Private
      <4> QED BY <1>1, <2>3, <4>1, <4>2
    <3> QED BY <2>1, <2>3, <3>1
  <2> QED BY <2>2, <2>3
<1>3. \A b \in Block : refs'[b] = Cardinality(Holders(b)') /\ refs'[b] \in Nat
  BY ReturnedRefs
<1> HIDE DEF freed
<1>4. /\ free' \in Seq(Block) /\ IsInjective(free') /\ Range(free') = Range(free) \cup freed
  BY ReturnedFree DEF freed
<1>5. \A b \in freed : states'[b] = RESET
  BY DEF freed
<1>6. \A b \in Block \ freed :
           /\ states'[b] = RESET <=> states[b] = RESET
           /\ states'[b] \in {PARTIAL, COMPLETE} => states[b] \in {PARTIAL, COMPLETE}
  BY DEF freed
<1>7. FreeOnce'
  <2>1. Range(free) = {b \in Block : states[b] = RESET}
    BY DEF Consistent, FreeOnce
  <2>2. Range(free') = {b \in Block : states'[b] = RESET}
    BY <1>1, <1>4, <1>5, <1>6, <2>1
  <2> QED BY <1>4, <2>2 DEF FreeOnce
<1>8. RefsExact'
  <2>1. ASSUME NEW r \in Slot
        PROVE  IsInjective(tables'[r])
    <3>1. \A i, j \in 1..Len(tables[r]) : tables[r][i] = tables[r][j] => i = j
      BY TableType DEF Consistent, RefsExact, IsInjective
    <3>2. DOMAIN tables'[r] = 1..kept[r] /\ 1..kept[r] \subseteq 1..Len(tables[r])
      <4>1. kept[r] \in Nat /\ Len(tables[r]) \in Nat /\ kept[r] <= Len(tables[r])
        BY TableType DEF IsCut
      <4> QED BY <4>1, LenProperties
    <3> QED BY <3>1, <3>2 DEF IsInjective
  <2>2. ASSUME NEW b \in Block, states'[b] \in {PARTIAL, COMPLETE}
        PROVE  refs'[b] = 1
    <3>1. b \notin freed
      BY <1>5, <2>2
    <3>2. states[b] \in {PARTIAL, COMPLETE}
      BY <1>6, <2>2, <3>1
    <3>3. Holders(b)' = Holders(b)
      BY <1>2, <3>1, <3>2 DEF freed
    <3> QED BY <1>3, <3>2, <3>3 DEF Consistent, RefsExact
  <2> QED BY <1>3, <2>1, <2>2 DEF RefsExact
<1>9. refs' \in [Block -> Nat]
  <2>1. refs' = [b \in Block |-> refs[b] - Cardinality({e \in Dropped(kept) : At(e) = b})]
    BY DEF Return
  <2> QED BY <1>3, <2>1
<1>10. ASSUME NEW r \in Slot, NEW i \in 1..kept[r]
       PROVE  /\ i \in 1..Len(tables[r]) /\ tables[r][i] \in Block
              /\ tables[r][i] \notin freed
  <2>1. i \in 1..Len(tables[r]) /\ tables[r][i] \in Block
    <3>1. kept[r] \in Nat /\ Len(tables[r]) \in Nat /\ kept[r] <= Len(tables[r])
      BY TableType DEF IsCut
    <3> QED BY <3>1, TableType
  <2>2. r \in Holders(tables[r][i])'
    <3>1. i \in DOMAIN tables'[r] /\ tables'[r][i] = tables[r][i]
      BY LenProperties
    <3>2. tables[r][i] \in Range(tables'[r])
      BY <3>1 DEF Range
    <3> QED BY <3>2 DEF Holders
  <2> QED BY <1>2, <2>1, <2>2 DEF freed
<1> QED BY <1>4, <1>7, <1>8, <1>9, <1>10 DEF freed
-----------------------------------------------------------------------------
(* Releasing whole sequences, one of them or all.                          *)
LEMMA ReleaseIInv ==
  ASSUME IInv, NEW S \in SUBSET Slot, ReleaseAll(S)
  PROVE  IInv'
<1> USE DEF IInv
<1> DEFINE kept == [r \in Slot |-> IF r \in S THEN 0 ELSE Len(tables[r])]
           givenBack == UNION {Entries(r, 0) : r \in S}
           freed == Freed(Dropped(kept))
<1>1. IsCut(kept)
  BY TableType DEF IsCut
<1>2. givenBack = Dropped(kept)
  <2>1. ASSUME NEW e \in givenBack
        PROVE  e \in Dropped(kept)
    <3>1. PICK r \in S : e \in {r} \X ((0 + 1)..Len(tables[r]))
      BY <2>1 DEF Entries
    <3>2. e[1] = r /\ e[2] \in Nat /\ e[2] \in (0 + 1)..Len(tables[r]) /\ e = <<e[1], e[2]>>
      BY <3>1, TableType
    <3> QED BY <3>1, <3>2 DEF Dropped
  <2>2. ASSUME NEW e \in Dropped(kept)
        PROVE  e \in givenBack
    <3>1. /\ e[1] \in Slot /\ e[2] \in Nat /\ e = <<e[1], e[2]>>
          /\ e[2] \in (kept[e[1]] + 1)..Len(tables[e[1]])
      BY <2>2 DEF Dropped
    <3>2. e[1] \in S
      BY <3>1, TableType
    <3>3. e \in Entries(e[1], 0)
      BY <3>1, <3>2 DEF Entries
    <3> QED BY <3>2, <3>3
  <2> QED BY <2>1, <2>2
<1>3. /\ Return(Dropped(kept))
      /\ tables' = [r \in Slot |-> IF r \in S THEN <<>> ELSE tables[r]]
      /\ states' = [b \in Block |-> IF b \in freed THEN RESET ELSE states[b]]
      /\ written' = [b \in Block |-> IF b \in freed THEN 0 ELSE written[b]]
      /\ lengths' = [r \in Slot |-> IF r \in S THEN 0 ELSE lengths[r]]
      /\ reserved' = [r \in Slot |-> IF r \in S THEN 0 ELSE reserved[r]]
      /\ enqueued' = [r \in Slot |-> IF r \in S THEN 0 ELSE enqueued[r]]
      /\ active' = [r \in Slot |-> r \notin S /\ active[r]]
  BY <1>2 DEF ReleaseAll
<1>4. \A r \in Slot : kept[r] = IF r \in S THEN 0 ELSE Len(tables[r])
  OBVIOUS
<1> HIDE DEF kept, freed, givenBack
<1>5. /\ tables' \in [Slot -> Seq(Block)]
      /\ \A r \in Slot : /\ Len(tables'[r]) = kept[r]
                         /\ \A i \in 1..kept[r] : tables'[r][i] = tables[r][i]
  BY <1>3, <1>4, TableType
<1>6. /\ \A b \in freed : states'[b] = RESET
      /\ freed \subseteq Block
      /\ \A b \in Block \ freed : states'[b] = states[b]
  <2>1. freed \subseteq Block
    BY <1>1, PrivateDropped DEF freed, Freed
  <2> QED BY <1>3, <2>1
<1>7. /\ FreeOnce' /\ RefsExact' /\ free' \in Seq(Block) /\ refs' \in [Block -> Nat]
      /\ \A r \in Slot : \A i \in 1..kept[r] :
           i \in 1..Len(tables[r]) /\ tables[r][i] \in Block /\ tables[r][i] \notin freed
  BY <1>1, <1>3, <1>5, <1>6, GiveBack DEF freed
<1>8. TypeOK'
  <2>1. states' \in [Block -> State]
    BY <1>3 DEF TypeOK
  <2>2. written' \in [Block -> 0..BlockSize]
    BY <1>3, GeometryAssumption DEF TypeOK
  <2>3. lengths' \in [Slot -> Nat] /\ reserved' \in [Slot -> Nat] /\ enqueued' \in [Slot -> Nat]
        /\ active' \in [Slot -> BOOLEAN]
    BY <1>3 DEF TypeOK
  <2> QED BY <1>5, <1>7, <2>1, <2>2, <2>3 DEF TypeOK
<1>9. Extents'
  <2>1. CeilDiv(0, BlockSize) = 0 /\ MaxLength \in Nat
    BY GeometryAssumption, WholeBlocks, 0 * BlockSize = 0
  <2>2. ASSUME NEW r \in Slot
        PROVE  /\ ~active'[r] => reserved'[r] = 0
               /\ lengths'[r] <= enqueued'[r] /\ enqueued'[r] <= reserved'[r]
               /\ reserved'[r] <= MaxLength
               /\ Len(tables'[r]) = CeilDiv(reserved'[r], BlockSize)
    <3>1. CASE r \in S
      BY <1>3, <1>4, <1>5, <2>1, <3>1
    <3>2. CASE r \notin S
      <4>1. /\ ~active[r] => reserved[r] = 0
            /\ lengths[r] <= enqueued[r] /\ enqueued[r] <= reserved[r] /\ reserved[r] <= MaxLength
            /\ Len(tables[r]) = CeilDiv(reserved[r], BlockSize)
        BY DEF Consistent, Extents
      <4> QED BY <1>3, <3>2, <4>1
    <3> QED BY <3>1, <3>2
  <2> QED BY <2>2 DEF Extents
<1>10. ASSUME NEW r \in Slot, NEW i \in DOMAIN tables'[r]
       PROVE  /\ r \notin S /\ i \in DOMAIN tables[r] /\ tables'[r][i] = tables[r][i]
              /\ tables[r][i] \in Block /\ tables[r][i] \notin freed
              /\ lengths'[r] = lengths[r] /\ enqueued'[r] = enqueued[r]
  <2>1. DOMAIN tables'[r] = 1..kept[r]
    BY <1>5, LenProperties
  <2>2. r \notin S
    BY <1>4, <1>10, <2>1
  <2> QED BY <1>3, <1>5, <1>7, <1>10, <2>1, <2>2, TableType
<1>11. HeldStates'
  BY <1>6, <1>10 DEF Consistent, HeldStates
<1>12. PoolAgrees'
  BY <1>3, <1>6, <1>10 DEF PoolAgrees
<1> QED BY <1>7, <1>8, <1>9, <1>11, <1>12 DEF Consistent
-----------------------------------------------------------------------------
(* Truncation keeps a prefix whose last block may become Partial again.    *)
LEMMA TruncateIInv ==
  ASSUME IInv, NEW s \in Slot, NEW length \in 0..MaxLength, Truncate(s, length)
  PROVE  IInv'
<1> USE DEF IInv
<1> DEFINE keep  == CeilDiv(length, BlockSize)
           full  == length \div BlockSize
           inner == length % BlockSize # 0
           tail  == tables[s][keep]
           kept  == [r \in Slot |-> IF r = s THEN keep ELSE Len(tables[r])]
           freed == Freed(Dropped(kept))
<1>1. /\ BlockSize \in Nat \ {0} /\ length \in Nat /\ full \in Nat /\ length <= MaxLength
      /\ keep = (IF inner THEN full + 1 ELSE full)
      /\ length % BlockSize \in 0..(BlockSize - 1)
  <2>1. BlockSize \in Nat \ {0} /\ length \in Nat /\ length <= MaxLength
    BY GeometryAssumption
  <2>2. full \in Nat /\ length % BlockSize \in 0..(BlockSize - 1)
    BY <2>1, Division
  <2>3. keep = (IF inner THEN full + 1 ELSE full)
    BY <2>1, FloorAndCeil
  <2> QED BY <2>1, <2>2, <2>3
<1>2. /\ lengths[s] \in Nat /\ length <= lengths[s] /\ enqueued[s] = lengths[s]
      /\ lengths[s] <= reserved[s] /\ reserved[s] \in Nat
      /\ Len(tables[s]) = CeilDiv(reserved[s], BlockSize) /\ Len(tables[s]) \in Nat
  BY ExtentType, TableType DEF Consistent, Truncate
<1>3. keep \in Nat /\ keep <= Len(tables[s])
  <2>1. keep <= CeilDiv(reserved[s], BlockSize)
    <3>1. length <= reserved[s]
      BY <1>1, <1>2
    <3> QED BY <1>1, <1>2, <3>1, DivMonotone
  <2> QED BY <1>1, <1>2, <2>1
<1>4. full <= lengths[s] \div BlockSize /\ lengths[s] \div BlockSize \in Nat
  BY <1>1, <1>2, FullMonotone
<1>5. IsCut(kept)
  BY <1>3, TableType DEF IsCut
<1>6. Entries(s, keep) = Dropped(kept)
  <2>1. ASSUME NEW e \in Entries(s, keep)
        PROVE  e \in Dropped(kept)
    <3>1. e[1] = s /\ e[2] \in (keep + 1)..Len(tables[s]) /\ e = <<e[1], e[2]>>
      BY <2>1 DEF Entries
    <3>2. e[2] \in Nat
      BY <1>2, <1>3, <3>1
    <3> QED BY <3>1, <3>2 DEF Dropped
  <2>2. ASSUME NEW e \in Dropped(kept)
        PROVE  e \in Entries(s, keep)
    <3>1. /\ e[1] \in Slot /\ e[2] \in Nat /\ e = <<e[1], e[2]>>
          /\ e[2] \in (kept[e[1]] + 1)..Len(tables[e[1]])
      BY <2>2 DEF Dropped
    <3>2. e[1] = s
      BY <3>1, TableType
    <3> QED BY <3>1, <3>2 DEF Entries
  <2> QED BY <2>1, <2>2
<1>7. /\ Return(Dropped(kept)) /\ UNCHANGED active /\ active[s]
      /\ inner => states[tail] # REGISTERED
      /\ tables' = [tables EXCEPT ![s] = SubSeq(tables[s], 1, keep)]
      /\ states' = [b \in Block |-> CASE b \in freed -> RESET
                                      [] inner /\ b = tail -> PARTIAL
                                      [] OTHER -> states[b]]
      /\ written' = [b \in Block |-> CASE b \in freed -> 0
                                       [] inner /\ b = tail -> length % BlockSize
                                       [] OTHER -> written[b]]
      /\ lengths' = [lengths EXCEPT ![s] = length]
      /\ reserved' = [reserved EXCEPT ![s] = length]
      /\ enqueued' = [enqueued EXCEPT ![s] = length]
  BY <1>6 DEF Truncate, Kept
<1>8. kept[s] = keep /\ \A r \in Slot : r # s => kept[r] = Len(tables[r])
  OBVIOUS
<1> HIDE DEF keep, full, inner, tail, kept, freed
<1>9. inner => /\ keep \in 1..Len(tables[s]) /\ tail = tables[s][keep] /\ tail \in Block
               /\ states[tail] \in {PARTIAL, COMPLETE} /\ tail \notin freed
  <2>1. SUFFICES ASSUME inner
                 PROVE  /\ keep \in 1..Len(tables[s]) /\ tail = tables[s][keep] /\ tail \in Block
                        /\ states[tail] \in {PARTIAL, COMPLETE} /\ tail \notin freed
    OBVIOUS
  <2>2. keep \in 1..Len(tables[s])
    BY <1>1, <1>2, <1>3, <2>1
  <2>3. tail = tables[s][keep] /\ tail \in Block
    BY <2>2, TableType DEF tail
  <2>4. states[tail] \in {PARTIAL, COMPLETE}
    <3>1. states[tables[s][keep]] \in {PARTIAL, COMPLETE, REGISTERED}
      BY <1>3, <1>4, <2>2, HeldState DEF Consistent
    <3> QED BY <1>7, <2>1, <2>3, <3>1
  <2>5. ASSUME NEW e \in Private(Dropped(kept)), At(e) = tail
        PROVE  FALSE
    <3>1. e \in Dropped(kept)
      BY DEF Private
    <3>2. /\ e[1] \in Slot /\ e[2] \in 1..Len(tables[e[1]]) /\ e[2] > kept[e[1]]
          /\ At(e) = tables[e[1]][e[2]]
      BY <1>5, <3>1, DroppedEntry
    <3>3. \A r \in Slot : \A j \in 1..Len(tables[r]) :
            tables[r][j] = tables[s][keep] => r = s /\ j = keep
      BY <2>2, <2>3, <2>4, PrivatePlace
    <3>4. e[1] = s /\ e[2] = keep
      BY <2>3, <2>5, <3>2, <3>3
    <3> QED BY <1>3, <1>8, <3>2, <3>4
  <2> QED BY <2>2, <2>3, <2>4, <2>5 DEF freed, Freed
<1>10. freed \subseteq Block
  BY <1>5, PrivateDropped DEF freed, Freed
<1>11. ASSUME NEW b \in Block
       PROVE  /\ b \in freed => states'[b] = RESET /\ written'[b] = 0
              /\ inner /\ b = tail => states'[b] = PARTIAL /\ written'[b] = length % BlockSize
              /\ b \notin freed /\ ~(inner /\ b = tail) =>
                   states'[b] = states[b] /\ written'[b] = written[b]
  BY <1>7, <1>9
<1>12. /\ tables' \in [Slot -> Seq(Block)]
       /\ \A r \in Slot : /\ Len(tables'[r]) = kept[r]
                          /\ \A i \in 1..kept[r] : tables'[r][i] = tables[r][i]
  <2>1. /\ SubSeq(tables[s], 1, keep) \in Seq(Block)
        /\ Len(SubSeq(tables[s], 1, keep)) = keep
        /\ \A i \in 1..keep : SubSeq(tables[s], 1, keep)[i] = tables[s][i]
    <3>1. keep \in 0..Len(tables[s]) /\ tables[s] \in Seq(Block)
      BY <1>2, <1>3, TableType
    <3> QED BY <3>1, FirstEntries
  <2>2. /\ tables'[s] = SubSeq(tables[s], 1, keep)
        /\ \A r \in Slot : r # s => tables'[r] = tables[r]
        /\ tables' \in [Slot -> Seq(Block)]
    BY <1>7, <2>1 DEF TypeOK
  <2> QED BY <1>8, <2>1, <2>2
<1>13. /\ FreeOnce' /\ RefsExact' /\ free' \in Seq(Block) /\ refs' \in [Block -> Nat]
       /\ \A r \in Slot : \A i \in 1..kept[r] :
            i \in 1..Len(tables[r]) /\ tables[r][i] \in Block /\ tables[r][i] \notin freed
  <2>1. \A b \in freed : states'[b] = RESET
    BY <1>10, <1>11
  <2>2. \A b \in Block \ freed :
           /\ states'[b] = RESET => states[b] = RESET
           /\ states[b] = RESET => states'[b] = RESET
           /\ states'[b] \in {PARTIAL, COMPLETE} => states[b] \in {PARTIAL, COMPLETE}
    BY <1>9, <1>11
  <2> QED BY <1>5, <1>7, <1>12, <2>1, <2>2, GiveBack DEF freed
<1>14. TypeOK'
  <2>1. states' \in [Block -> State]
    <3>1. \A b \in Block : states'[b] \in State
      BY <1>11 DEF TypeOK
    <3> QED BY <1>7, <3>1
  <2>2. written' \in [Block -> 0..BlockSize]
    <3>1. \A b \in Block : written'[b] \in 0..BlockSize
      <4>1. TAKE b \in Block
      <4>2. written[b] \in 0..BlockSize /\ 0 \in 0..BlockSize /\ length % BlockSize \in 0..BlockSize
        BY <1>1 DEF TypeOK
      <4> QED BY <1>11, <4>2
    <3> QED BY <1>7, <3>1
  <2>3. lengths' \in [Slot -> Nat] /\ reserved' \in [Slot -> Nat] /\ enqueued' \in [Slot -> Nat]
        /\ active' \in [Slot -> BOOLEAN]
    BY <1>1, <1>7 DEF TypeOK
  <2> QED BY <1>12, <1>13, <2>1, <2>2, <2>3 DEF TypeOK
<1>15. /\ lengths'[s] = length /\ reserved'[s] = length /\ enqueued'[s] = length
       /\ \A r \in Slot : r # s => /\ lengths'[r] = lengths[r] /\ reserved'[r] = reserved[r]
                                   /\ enqueued'[r] = enqueued[r] /\ tables'[r] = tables[r]
  BY <1>7 DEF TypeOK
<1>16. Extents'
  <2>1. ASSUME NEW r \in Slot
        PROVE  /\ ~active[r] => reserved'[r] = 0
               /\ lengths'[r] <= enqueued'[r] /\ enqueued'[r] <= reserved'[r]
               /\ reserved'[r] <= MaxLength
               /\ Len(tables'[r]) = CeilDiv(reserved'[r], BlockSize)
    <3>1. CASE r = s
      BY <1>1, <1>7, <1>8, <1>12, <1>15, <3>1 DEF keep
    <3>2. CASE r # s
      <4>1. /\ ~active[r] => reserved[r] = 0
            /\ lengths[r] <= enqueued[r] /\ enqueued[r] <= reserved[r] /\ reserved[r] <= MaxLength
            /\ Len(tables[r]) = CeilDiv(reserved[r], BlockSize)
        BY DEF Consistent, Extents
      <4> QED BY <1>15, <3>2, <4>1
    <3> QED BY <3>1, <3>2
  <2> QED BY <1>7, <2>1 DEF Extents
<1>17. ASSUME NEW r \in Slot, NEW i \in DOMAIN tables'[r]
       PROVE  /\ i \in 1..Len(tables[r]) /\ i \in Nat \ {0} /\ tables'[r][i] = tables[r][i]
              /\ tables[r][i] \in Block /\ tables[r][i] \notin freed
              /\ r = s => i <= keep
              /\ inner /\ tables[r][i] = tail => r = s /\ i = keep
  <2>1. DOMAIN tables'[r] = 1..kept[r]
    BY <1>12, LenProperties
  <2>2. /\ i \in 1..Len(tables[r]) /\ tables'[r][i] = tables[r][i]
        /\ tables[r][i] \in Block /\ tables[r][i] \notin freed
    BY <1>12, <1>13, <1>17, <2>1
  <2>3. i \in Nat \ {0}
    BY <2>2, TableType
  <2>4. r = s => i <= keep
    BY <1>3, <1>8, <1>17, <2>1
  <2>5. inner /\ tables[r][i] = tail => r = s /\ i = keep
    BY <1>9, <2>2, PrivatePlace
  <2> QED BY <2>2, <2>3, <2>4, <2>5
<1>18. ASSUME NEW i \in DOMAIN tables'[s]
       PROVE  \/ i <= full /\ ~(inner /\ tables[s][i] = tail)
              \/ inner /\ i = keep /\ tables[s][i] = tail /\ i > full
  <2>1. i \in Nat \ {0} /\ i <= keep
    BY <1>17
  <2>2. CASE i <= full
    BY <1>1, <1>17, <2>1, <2>2
  <2>3. CASE i > full
    <3>1. inner /\ i = keep
      BY <1>1, <2>1, <2>3
    <3> QED BY <1>9, <2>3, <3>1
  <2> QED BY <1>1, <2>1, <2>2, <2>3
<1>19. HeldStates'
  <2>1. ASSUME NEW r \in Slot, NEW i \in DOMAIN tables'[r]
        PROVE  states'[tables'[r][i]] \in IF i <= lengths'[r] \div BlockSize
                                           THEN {COMPLETE, REGISTERED} ELSE {PARTIAL}
    <3>1. CASE r = s /\ i <= full /\ ~(inner /\ tables[s][i] = tail)
      <4>1. i <= lengths[s] \div BlockSize
        BY <1>1, <1>4, <1>17, <2>1, <3>1
      <4>2. states[tables[s][i]] \in {COMPLETE, REGISTERED}
        BY <1>17, <2>1, <3>1, <4>1, HeldState DEF Consistent
      <4>3. states'[tables'[r][i]] = states[tables[s][i]]
        BY <1>11, <1>17, <2>1, <3>1
      <4>4. lengths'[r] \div BlockSize = full
        BY <1>15, <3>1 DEF full
      <4> QED BY <3>1, <4>2, <4>3, <4>4
    <3>2. CASE r = s /\ inner /\ i = keep /\ tables[s][i] = tail /\ i > full
      <4>1. states'[tables'[r][i]] = PARTIAL
        BY <1>11, <1>17, <2>1, <3>2
      <4>2. lengths'[r] \div BlockSize = full
        BY <1>15, <3>2 DEF full
      <4>3. ~(i <= full)
        BY <1>1, <1>3, <3>2
      <4> QED BY <4>1, <4>2, <4>3
    <3>3. CASE r # s
      <4>1. states'[tables'[r][i]] = states[tables[r][i]] /\ i \in DOMAIN tables[r]
        BY <1>11, <1>17, <2>1, <3>3, TableType
      <4>2. lengths'[r] = lengths[r]
        BY <1>15, <3>3
      <4>3. states[tables[r][i]] \in IF i <= lengths[r] \div BlockSize
                                      THEN {COMPLETE, REGISTERED} ELSE {PARTIAL}
        BY <4>1 DEF Consistent, HeldStates
      <4> QED BY <4>1, <4>2, <4>3
    <3> QED BY <1>18, <2>1, <3>1, <3>2, <3>3
  <2> QED BY <2>1 DEF HeldStates
<1>20. PoolAgrees'
  <2>1. ASSUME NEW r \in Slot, NEW i \in DOMAIN tables'[r]
        PROVE  written'[tables'[r][i]] = Covered(enqueued'[r], i)
    <3>1. CASE r = s /\ i <= full /\ ~(inner /\ tables[s][i] = tail)
      <4>1. i <= lengths[s] \div BlockSize /\ i \in Nat \ {0} /\ i \in 1..Len(tables[s])
        BY <1>1, <1>4, <1>17, <2>1, <3>1
      <4>2. Covered(lengths[s], i) = BlockSize
        BY <1>2, <4>1, CoveredFull
      <4>3. Covered(length, i) = BlockSize
        BY <1>1, <3>1, <4>1, CoveredFull DEF full
      <4>4. written[tables[s][i]] = BlockSize
        BY <1>2, <4>1, <4>2, TableType DEF PoolAgrees
      <4>5. written'[tables'[r][i]] = written[tables[s][i]]
        BY <1>11, <1>17, <2>1, <3>1
      <4> QED BY <1>15, <3>1, <4>3, <4>4, <4>5
    <3>2. CASE r = s /\ inner /\ i = keep /\ tables[s][i] = tail /\ i > full
      <4>1. Covered(length, keep) = length % BlockSize
        BY <1>1, <3>2, CoveredTail DEF inner, keep
      <4>2. written'[tables'[r][i]] = length % BlockSize
        BY <1>11, <1>17, <2>1, <3>2
      <4> QED BY <1>15, <3>2, <4>1, <4>2
    <3>3. CASE r # s
      <4>1. written'[tables'[r][i]] = written[tables[r][i]] /\ i \in DOMAIN tables[r]
        BY <1>11, <1>17, <2>1, <3>3, TableType
      <4>2. enqueued'[r] = enqueued[r]
        BY <1>15, <3>3
      <4> QED BY <4>1, <4>2 DEF PoolAgrees
    <3> QED BY <1>18, <2>1, <3>1, <3>2, <3>3
  <2>2. ASSUME NEW b \in Block
        PROVE  /\ states'[b] = REGISTERED => written'[b] = BlockSize
               /\ states'[b] = RESET => written'[b] = 0
    BY <1>9, <1>11 DEF PoolAgrees
  <2> QED BY <2>1, <2>2 DEF PoolAgrees
<1> QED BY <1>13, <1>14, <1>16, <1>19, <1>20 DEF Consistent
-----------------------------------------------------------------------------
(* Every call within the contract keeps manager and pool in agreement: no  *)
(* operation depends on anything the others may have left out.             *)
THEOREM NextIInv == IInv /\ [Next]_vars => IInv'
<1> SUFFICES ASSUME IInv, [Next]_vars PROVE IInv'
  OBVIOUS
<1>1. ASSUME NEW s \in Slot, NEW cached \in CachedPrefixes, Attach(s, cached)
      PROVE  IInv'
  BY <1>1, AttachIInv
<1>2. ASSUME NEW s \in Slot, NEW length \in 0..MaxLength, Reserve(s, length)
      PROVE  IInv'
  BY <1>2, ReserveIInv
<1>3. ASSUME NEW s \in Slot, NEW length \in 0..MaxLength, Write(s, length)
      PROVE  IInv'
  BY <1>3, WriteIInv
<1>4. ASSUME NEW s \in Slot, Commit(s)
      PROVE  IInv'
  BY <1>4, CommitIInv
<1>5. ASSUME NEW s \in Slot, NEW ordinal \in 1..(MaxLength \div BlockSize), Register(s, ordinal)
      PROVE  IInv'
  <2>1. ordinal \in Nat
    BY GeometryAssumption, Division
  <2> QED BY <1>5, <2>1, RegisterIInv
<1>6. ASSUME NEW b \in Block, EvictRegistered(b)
      PROVE  IInv'
  BY <1>6, EvictIInv
<1>7. ASSUME NEW s \in Slot, NEW length \in 0..MaxLength, Truncate(s, length)
      PROVE  IInv'
  BY <1>7, TruncateIInv
<1>8. ASSUME NEW s \in Slot, Detach(s)
      PROVE  IInv'
  BY <1>8, ReleaseIInv DEF Detach
<1>9. ASSUME Reset
      PROVE  IInv'
  <2>1. {s \in Slot : active[s]} \in SUBSET Slot
    OBVIOUS
  <2> QED BY <1>9, <2>1, ReleaseIInv DEF Reset
<1>10. CASE UNCHANGED vars
  BY <1>10 DEF vars, IInv, TypeOK, Consistent, FreeOnce, Extents, HeldStates, RefsExact,
               PoolAgrees, Holders
<1> QED BY <1>1, <1>2, <1>3, <1>4, <1>5, <1>6, <1>7, <1>8, <1>9, <1>10 DEF Next
-----------------------------------------------------------------------------
(* The strengthened invariant holds throughout.                            *)
THEOREM Inductive == Spec => []IInv
<1>1. Init => IInv
  BY InitIInv
<1>2. IInv /\ [Next]_vars => IInv'
  BY NextIInv
<1> QED BY <1>1, <1>2, PTL DEF Spec

(* Reference counts never go below zero, and the pool counts no more rows  *)
(* than a block has.                                                       *)
THEOREM TypeCorrect == Spec => []TypeOK
<1>1. IInv => TypeOK
  BY DEF IInv
<1> QED BY <1>1, Inductive, PTL

(* The manager's own audit never fails: no block is free twice, lost, or   *)
(* held by two private owners, and every stored reference is a real one.   *)
THEOREM AuditNeverFails == Spec => []Consistent
<1>1. IInv => Consistent
  BY DEF IInv
<1> QED BY <1>1, Inductive, PTL

(* The pool's counts stand for exactly what was enqueued, so a runner can  *)
(* trust them whatever happened to other sequences since the reservation.  *)
THEOREM PoolCountsAgree == Spec => []PoolAgrees
<1>1. IInv => PoolAgrees
  BY DEF IInv
<1> QED BY <1>1, Inductive, PTL
-----------------------------------------------------------------------------
(* Giving entries back frees no Registered block.                          *)
LEMMA FreedPrivate ==
  ASSUME NEW givenBack, NEW b \in Freed(givenBack)
  PROVE  states[b] # REGISTERED
  BY DEF Freed, Private

(* A runner's step changes the counts of Partial blocks only.              *)
LEMMA WriteTouches ==
  ASSUME IInv, NEW s \in Slot, NEW length \in 0..MaxLength, Write(s, length),
         NEW b \in Block, written'[b] # written[b]
  PROVE  states[b] = PARTIAL /\ refs[b] = 1
<1>1. PICK i \in DOMAIN tables[s] : tables[s][i] = b /\ i * BlockSize > lengths[s]
  BY DEF Write
<1>2. i \in 1..Len(tables[s]) /\ i \in Nat /\ lengths[s] \in Nat /\ lengths[s] \div BlockSize \in Nat
  BY TableType, ExtentType, FullMonotone DEF IInv, Consistent
<1>3. i > lengths[s] \div BlockSize
  BY <1>1, <1>2, FullBound
<1>4. states[b] = PARTIAL
  BY <1>1, <1>2, <1>3, HeldState DEF IInv, Consistent
<1> QED BY <1>4 DEF IInv, Consistent, RefsExact

(* The block a truncation leaves Partial is one of the table's.            *)
LEMMA TruncateTailHeld ==
  ASSUME IInv, NEW s \in Slot, NEW length \in 0..MaxLength, Truncate(s, length),
         length % BlockSize # 0
  PROVE  LET keep == CeilDiv(length, BlockSize)
         IN  /\ keep \in 1..Len(tables[s]) /\ tables[s][keep] \in Block
             /\ s \in Holders(tables[s][keep])
<1> DEFINE keep == CeilDiv(length, BlockSize)
<1>1. length \in Nat /\ BlockSize \in Nat \ {0} /\ length \div BlockSize \in Nat
  <2>1. length \in Nat /\ BlockSize \in Nat \ {0}
    BY GeometryAssumption
  <2> QED BY <2>1, Division
<1>2. keep = (length \div BlockSize) + 1
  BY <1>1, FloorAndCeil
<1>3. /\ reserved[s] \in Nat /\ length <= reserved[s]
      /\ Len(tables[s]) = CeilDiv(reserved[s], BlockSize)
  <2>1. length <= lengths[s]
    BY DEF Truncate
  <2>2. lengths[s] \in Nat /\ enqueued[s] \in Nat /\ reserved[s] \in Nat
        /\ lengths[s] <= enqueued[s] /\ enqueued[s] <= reserved[s]
        /\ Len(tables[s]) = CeilDiv(reserved[s], BlockSize)
    BY ExtentType DEF IInv, Consistent
  <2> QED BY <1>1, <2>1, <2>2
<1>4. keep <= CeilDiv(reserved[s], BlockSize) /\ CeilDiv(reserved[s], BlockSize) \in Nat
  BY <1>1, <1>3, DivMonotone, CeilType
<1> HIDE DEF keep
<1>5. keep \in 1..Len(tables[s])
  BY <1>1, <1>2, <1>3, <1>4
<1>6. tables[s][keep] \in Block
  BY <1>5, TableType DEF IInv
<1> QED BY <1>5, <1>6, HolderIndex DEF keep, IInv

(* Truncation never raises a count of a block that is not Partial.         *)
LEMMA TruncateTouches ==
  ASSUME IInv, NEW s \in Slot, NEW length \in 0..MaxLength, Truncate(s, length),
         NEW b \in Block
  PROVE  /\ states[b] = COMPLETE => written'[b] <= written[b]
         /\ states[b] = REGISTERED => states'[b] = REGISTERED /\ written'[b] = written[b]
<1> DEFINE keep  == CeilDiv(length, BlockSize)
           freed == Freed(Entries(s, keep))
           inner == length % BlockSize # 0
<1>1. length \in Nat /\ BlockSize \in Nat \ {0} /\ length % BlockSize \in 0..(BlockSize - 1)
      /\ length \div BlockSize \in Nat
  <2>1. length \in Nat /\ BlockSize \in Nat \ {0}
    BY GeometryAssumption
  <2> QED BY <2>1, Division
<1>2. inner => states[tables[s][keep]] # REGISTERED
  BY DEF Truncate
<1>3. /\ written'[b] = CASE b \in freed -> 0
                         [] inner /\ b = tables[s][keep] -> length % BlockSize
                         [] OTHER -> written[b]
      /\ states'[b] = CASE b \in freed -> RESET
                        [] inner /\ b = tables[s][keep] -> PARTIAL
                        [] OTHER -> states[b]
  BY DEF Truncate
<1>4. inner => keep \in 1..Len(tables[s])
  BY TruncateTailHeld
<1>5. written[b] \in 0..BlockSize
  BY DEF IInv, TypeOK
<1>6. CASE states[b] = REGISTERED
  <2>1. b \notin freed
    BY <1>6, FreedPrivate
  <2>2. ~(inner /\ b = tables[s][keep])
    BY <1>2, <1>6
  <2> QED BY <1>3, <1>6, <2>1, <2>2
<1>7. CASE states[b] = COMPLETE
  <2>1. CASE b \in freed
    <3>1. inner /\ b = tables[s][keep] => written'[b] \in {0, length % BlockSize}
      BY <1>3
    <3>2. PICK e \in Private(Entries(s, keep)) : At(e) = b
      BY <2>1 DEF Freed
    <3>3. e[1] = s /\ e[2] \in (keep + 1)..Len(tables[s]) /\ tables[s][e[2]] = b
      BY <3>2 DEF Private, Entries, At
    <3>4. ~(inner /\ b = tables[s][keep])
      <4>1. \A i, j \in 1..Len(tables[s]) : tables[s][i] = tables[s][j] => i = j
        BY TableType DEF IInv, Consistent, RefsExact, IsInjective
      <4>2. keep \in Nat
        BY <1>1, CeilType
      <4> QED BY <1>4, <3>3, <4>1, <4>2, TableType DEF IInv
    <3>5. written'[b] = 0
      BY <1>3, <2>1, <3>4
    <3> QED BY <1>5, <1>7, <3>5
  <2>2. CASE b \notin freed /\ inner /\ b = tables[s][keep]
    <3>1. keep \in 1..Len(tables[s]) /\ keep \in Nat \ {0}
      BY <1>4, <2>2, TableType DEF IInv
    <3>2. keep <= lengths[s] \div BlockSize
      BY <1>7, <2>2, <3>1, HeldState DEF IInv, Consistent
    <3>3. enqueued[s] = lengths[s] /\ lengths[s] \in Nat
      BY ExtentType DEF Truncate, IInv, Consistent
    <3>4. written[b] = BlockSize
      <4>1. Covered(lengths[s], keep) = BlockSize
        BY <3>1, <3>2, <3>3, CoveredFull
      <4> QED BY <2>2, <3>1, <3>3, <4>1, TableType DEF IInv, PoolAgrees
    <3>5. written'[b] = length % BlockSize
      BY <1>3, <2>2
    <3> QED BY <1>1, <1>7, <3>4, <3>5
  <2>3. CASE b \notin freed /\ ~(inner /\ b = tables[s][keep])
    BY <1>3, <1>5, <1>7, <2>3
  <2> QED BY <2>1, <2>2, <2>3
<1> QED BY <1>6, <1>7
-----------------------------------------------------------------------------
(* Nothing but a runner's step or a truncation changes a positive count,   *)
(* and what is given back counts no row.                                   *)
LEMMA ReleaseTouches ==
  ASSUME IInv, NEW S, ReleaseAll(S), NEW b \in Block
  PROVE  /\ written'[b] <= written[b]
         /\ states[b] = REGISTERED => states'[b] = REGISTERED /\ written'[b] = written[b]
<1> DEFINE freed == Freed(UNION {Entries(s, 0) : s \in S})
<1>1. /\ written'[b] = IF b \in freed THEN 0 ELSE written[b]
      /\ states'[b] = IF b \in freed THEN RESET ELSE states[b]
  BY DEF ReleaseAll
<1>2. written[b] \in Nat /\ 0 <= written[b]
  BY GeometryAssumption DEF IInv, TypeOK
<1>3. states[b] = REGISTERED => b \notin freed
  BY FreedPrivate
<1> QED BY <1>1, <1>2, <1>3

(* One step, seen from one block.                                          *)
LEMMA BlockStep ==
  ASSUME IInv, Next, NEW b \in Block
  PROVE  /\ written'[b] > written[b] => states[b] = PARTIAL /\ refs[b] = 1
         /\ states[b] = REGISTERED =>
              \/ states'[b] = REGISTERED /\ written'[b] = written[b]
              \/ Holders(b) = {} /\ states'[b] = RESET /\ b \in Range(free')
<1> DEFINE Rises    == written'[b] > written[b] => states[b] = PARTIAL /\ refs[b] = 1
           Retained == states[b] = REGISTERED =>
              \/ states'[b] = REGISTERED /\ written'[b] = written[b]
              \/ Holders(b) = {} /\ states'[b] = RESET /\ b \in Range(free')
<1>0. written[b] \in Nat /\ states[b] \in State
  BY GeometryAssumption DEF IInv, TypeOK
<1>1. ASSUME NEW s \in Slot, NEW cached \in CachedPrefixes, Attach(s, cached)
      PROVE  Rises /\ Retained
  BY <1>0, <1>1 DEF Attach
<1>2. ASSUME NEW s \in Slot, NEW length \in 0..MaxLength, Reserve(s, length)
      PROVE  Rises /\ Retained
  <2> DEFINE count == Larger(CeilDiv(length, BlockSize) - Len(tables[s]), 0)
  <2>1. UNCHANGED written
    BY <1>2 DEF Reserve
  <2>2. count \in Nat /\ count <= Len(free) /\ Len(free) \in Nat
    <3>1. /\ CeilDiv(length, BlockSize) \in Nat /\ Len(tables[s]) \in Nat /\ Len(free) \in Nat
          /\ CeilDiv(length, BlockSize) - Len(tables[s]) <= Len(free)
      <4>1. length \in Nat /\ BlockSize \in Nat \ {0}
        BY GeometryAssumption
      <4>2. CeilDiv(length, BlockSize) \in Nat
        BY <4>1, CeilType
      <4> QED BY <1>2, <4>2, TableType DEF Reserve, IInv, TypeOK
    <3> QED BY <3>1 DEF Larger
  <2>3. Range(Popped(count)) \subseteq Range(free)
    BY <2>2, PoppedBlocks DEF IInv, Consistent
  <2>4. states'[b] = IF b \in Range(Popped(count)) THEN PARTIAL ELSE states[b]
    BY <1>2 DEF Reserve
  <2>5. states[b] = REGISTERED => b \notin Range(Popped(count))
    BY <2>3 DEF IInv, Consistent, FreeOnce
  <2> QED BY <1>0, <2>1, <2>4, <2>5
<1>3. ASSUME NEW s \in Slot, NEW length \in 0..MaxLength, Write(s, length)
      PROVE  Rises /\ Retained
  <2>1. written'[b] # written[b] => states[b] = PARTIAL /\ refs[b] = 1
    BY <1>3, WriteTouches
  <2>2. UNCHANGED states
    BY <1>3 DEF Write
  <2> QED BY <1>0, <2>1, <2>2
<1>4. ASSUME NEW s \in Slot, Commit(s)
      PROVE  Rises /\ Retained
  BY <1>0, <1>4 DEF Commit
<1>5. ASSUME NEW s \in Slot, NEW ordinal \in 1..(MaxLength \div BlockSize), Register(s, ordinal)
      PROVE  Rises /\ Retained
  <2>1. UNCHANGED written
    BY <1>5 DEF Register
  <2>2. states[b] = REGISTERED => states'[b] = REGISTERED
    BY <1>5 DEF Register, IInv, TypeOK
  <2> QED BY <1>0, <2>1, <2>2
<1>6. ASSUME NEW c \in Block, EvictRegistered(c)
      PROVE  Rises /\ Retained
  <2>1. /\ written'[b] = IF b = c THEN 0 ELSE written[b]
        /\ states'[b] = IF b = c THEN RESET ELSE states[b]
        /\ free' = Append(free, c) /\ refs[c] = 0
    BY <1>6 DEF EvictRegistered, IInv, TypeOK
  <2>2. Holders(c) = {}
    BY <2>1, HolderIndex, FS_EmptySet DEF IInv, Consistent, RefsExact
  <2>3. c \in Range(free')
    <3>1. free \in Seq(Block) /\ Len(free) \in Nat
      BY DEF IInv, TypeOK
    <3>2. DOMAIN free' = 1..(Len(free) + 1) /\ free'[Len(free) + 1] = c
      BY <2>1, <3>1
    <3>3. Len(free) + 1 \in DOMAIN free'
      BY <3>1, <3>2
    <3> QED BY <3>2, <3>3 DEF Range
  <2> QED BY <1>0, <2>1, <2>2, <2>3
<1>7. ASSUME NEW s \in Slot, NEW length \in 0..MaxLength, Truncate(s, length)
      PROVE  Rises /\ Retained
  <2>1. /\ states[b] = COMPLETE => written'[b] <= written[b]
        /\ states[b] = REGISTERED => states'[b] = REGISTERED /\ written'[b] = written[b]
    BY <1>7, TruncateTouches
  <2>2. states[b] \in {PARTIAL, COMPLETE} => refs[b] = 1
    BY DEF IInv, Consistent, RefsExact
  <2>3. states[b] = RESET => written'[b] <= written[b]
    <3>1. SUFFICES ASSUME states[b] = RESET PROVE written'[b] = written[b] \/ written'[b] = 0
      BY <1>0
    <3>2. Holders(b) = {}
      BY <3>1, FreeUnheld DEF IInv
    <3>3. ~(length % BlockSize # 0 /\ b = tables[s][CeilDiv(length, BlockSize)])
      BY <1>7, <3>1, <3>2, TruncateTailHeld
    <3> QED BY <1>7, <3>3 DEF Truncate
  <2>4. written'[b] \in Nat
    <3>1. IInv'
      BY <1>7, TruncateIInv
    <3>2. written'[b] \in 0..BlockSize
      BY <3>1 DEF IInv, TypeOK
    <3> QED BY <3>2, GeometryAssumption
  <2> QED BY <1>0, <2>1, <2>2, <2>3, <2>4
<1>8. ASSUME NEW S, ReleaseAll(S)
      PROVE  Rises /\ Retained
  <2>1. written'[b] \in Nat
    BY <1>0, <1>8 DEF ReleaseAll
  <2> QED BY <1>0, <1>8, <2>1, ReleaseTouches
<1> QED BY <1>1, <1>2, <1>3, <1>4, <1>5, <1>6, <1>7, <1>8 DEF Next, Detach, Reset
(* One step, seen from one live table.                                     *)
LEMMA TableStep ==
  ASSUME IInv, Next, NEW s \in Slot, active[s], active'[s],
         NEW i \in DOMAIN tables[s] \cap DOMAIN tables'[s]
  PROVE  tables'[s][i] = tables[s][i]
<1>0. tables[s] \in Seq(Block) /\ DOMAIN tables[s] = 1..Len(tables[s])
  BY TableType DEF IInv
<1>1. ASSUME NEW r \in Slot, NEW cached \in CachedPrefixes, Attach(r, cached)
      PROVE  tables'[s][i] = tables[s][i]
  BY <1>1 DEF Attach, FirstIdle, IInv, TypeOK
<1>2. ASSUME NEW r \in Slot, NEW length \in 0..MaxLength, Reserve(r, length)
      PROVE  tables'[s][i] = tables[s][i]
  <2> DEFINE count == Larger(CeilDiv(length, BlockSize) - Len(tables[r]), 0)
  <2>1. tables' = [tables EXCEPT ![r] = tables[r] \o Popped(count)]
    BY <1>2 DEF Reserve
  <2>2. CASE r = s
    <3>1. count \in Nat /\ count <= Len(free)
      <4>1. length \in Nat /\ BlockSize \in Nat \ {0}
        BY GeometryAssumption
      <4>2. CeilDiv(length, BlockSize) \in Nat
        BY <4>1, CeilType
      <4>3. Len(tables[r]) \in Nat /\ Len(free) \in Nat
            /\ CeilDiv(length, BlockSize) - Len(tables[r]) <= Len(free)
        BY <1>2, TableType DEF Reserve, IInv, TypeOK
      <4> QED BY <4>2, <4>3 DEF Larger
    <3>2. Popped(count) \in Seq(Block)
      BY <3>1, PoppedBlocks DEF IInv, Consistent
    <3>3. tables'[s] = tables[s] \o Popped(count)
      BY <2>1, <2>2 DEF IInv, TypeOK
    <3> HIDE DEF count
    <3> QED BY <1>0, <3>2, <3>3
  <2>3. CASE r # s
    BY <2>1, <2>3 DEF IInv, TypeOK
  <2> QED BY <2>2, <2>3
<1>3. ASSUME NEW r \in Slot, NEW length \in 0..MaxLength, Truncate(r, length)
      PROVE  tables'[s][i] = tables[s][i]
  <2> DEFINE keep == CeilDiv(length, BlockSize)
  <2>1. tables' = [tables EXCEPT ![r] = SubSeq(tables[r], 1, keep)]
    BY <1>3 DEF Truncate, Kept
  <2>2. CASE r = s
    <3>1. tables'[s] = SubSeq(tables[s], 1, keep)
      BY <2>1, <2>2 DEF IInv, TypeOK
    <3>2. keep \in Nat
      <4>1. length \in Nat /\ BlockSize \in Nat \ {0}
        BY GeometryAssumption
      <4> QED BY <4>1, CeilType
    <3> HIDE DEF keep
    <3> QED BY <1>0, <3>1, <3>2
  <2>3. CASE r # s
    BY <2>1, <2>3 DEF IInv, TypeOK
  <2> QED BY <2>2, <2>3
<1>4. ASSUME NEW S, ReleaseAll(S)
      PROVE  tables'[s][i] = tables[s][i]
  BY <1>4 DEF ReleaseAll
<1>5. ASSUME NEW r \in Slot, NEW length \in 0..MaxLength, Write(r, length)
      PROVE  tables'[s][i] = tables[s][i]
  BY <1>5 DEF Write
<1>6. ASSUME NEW r \in Slot, Commit(r)
      PROVE  tables'[s][i] = tables[s][i]
  BY <1>6 DEF Commit
<1>7. ASSUME NEW r \in Slot, NEW ordinal, Register(r, ordinal)
      PROVE  tables'[s][i] = tables[s][i]
  BY <1>7 DEF Register
<1>8. ASSUME NEW b \in Block, EvictRegistered(b)
      PROVE  tables'[s][i] = tables[s][i]
  BY <1>8 DEF EvictRegistered
<1> QED BY <1>1, <1>2, <1>3, <1>4, <1>5, <1>6, <1>7, <1>8 DEF Next, Detach, Reset
-----------------------------------------------------------------------------
(* Writes reach only a Partial block with one owner: never a borrowed or a *)
(* retained one, and never the full history of the sequence itself.        *)
THEOREM WritesArePrivate == Spec => PrivateWrites
<1>1. IInv /\ [Next]_vars =>
        [\A b \in Block : written'[b] > written[b] => states[b] = PARTIAL /\ refs[b] = 1]_vars
  BY BlockStep
<1> QED BY <1>1, Inductive, PTL DEF Spec, PrivateWrites

(* A Registered block keeps its full contents while anything reads it; an  *)
(* idle one leaves the index only for the free list.                       *)
THEOREM RegisteredStays == Spec => RegisteredImmutable
<1>1. IInv /\ [Next]_vars =>
        [\A b \in Registered :
           \/ states'[b] = REGISTERED /\ written'[b] = written[b]
           \/ Holders(b) = {} /\ states'[b] = RESET /\ b \in Range(free')]_vars
  BY BlockStep DEF Registered
<1> QED BY <1>1, Inductive, PTL DEF Spec, RegisteredImmutable

(* While a sequence lives, position i of its table stays the same block,   *)
(* so queued work and cached keys may name blocks by position.             *)
THEOREM TablesKeepTheirPlaces == Spec => NoRemap
<1>1. IInv /\ [Next]_vars =>
        [\A s \in Slot : active[s] /\ active'[s] =>
           \A i \in DOMAIN tables[s] \cap DOMAIN tables'[s] : tables'[s][i] = tables[s][i]]_vars
  BY TableStep
<1> QED BY <1>1, Inductive, PTL DEF Spec, NoRemap
-----------------------------------------------------------------------------
(* What a sequence owns and what it reads.                                 *)
OwnBlocks(s)  == Range(tables[s]) \ Registered
ReadBlocks(s) == Range(tables[s]) \cap Registered

(* A block is in a table when an entry names it.                           *)
LEMMA TableRange ==
  ASSUME TypeOK, NEW s \in Slot
  PROVE  /\ Range(tables[s]) \subseteq Block
         /\ \A b : b \in Range(tables[s]) <=> \E i \in 1..Len(tables[s]) : tables[s][i] = b
         /\ \A b : b \in Range(tables[s]) <=> b \in Block /\ s \in Holders(b)
<1>1. \A b : b \in Range(tables[s]) <=> \E i \in 1..Len(tables[s]) : tables[s][i] = b
  BY TableType DEF Range
<1>2. Range(tables[s]) \subseteq Block
  BY <1>1, TableType
<1>3. \A b \in Block : s \in Holders(b) <=> b \in Range(tables[s])
  BY DEF Holders
<1> QED BY <1>1, <1>2, <1>3

(* Where states change between private ones only, the cache stays.         *)
LEMMA SameRegistered ==
  ASSUME \A b \in Block : states'[b] = REGISTERED <=> states[b] = REGISTERED
  PROVE  Registered' = Registered
  BY DEF Registered

(* A sequence starts over Registered blocks, and holds nothing before.     *)
LEMMA AttachBorrows ==
  ASSUME IInv, NEW s \in Slot, NEW cached \in CachedPrefixes, Attach(s, cached)
  PROVE  /\ Registered' = Registered /\ written' = written
         /\ Range(tables[s]) = {} /\ Range(tables'[s]) \subseteq Registered
         /\ \A r \in Slot : r # s => Range(tables'[r]) = Range(tables[r])
<1>1. /\ tables' = [tables EXCEPT ![s] = cached] /\ states' = states /\ written' = written
      /\ ~active[s]
  BY DEF Attach, FirstIdle
<1>2. Range(tables[s]) = {}
  <2>1. Len(tables[s]) = 0
    BY <1>1, IdleEmpty DEF IInv
  <2>2. \A b : b \in Range(tables[s]) => \E i \in 1..Len(tables[s]) : tables[s][i] = b
    BY TableRange DEF IInv
  <2>3. \A i : i \notin 1..Len(tables[s])
    BY <2>1
  <2> QED BY <2>2, <2>3
<1>3. Range(cached) \subseteq Registered
  BY DEF CachedPrefixes, Range
<1>4. tables'[s] = cached /\ \A r \in Slot : r # s => tables'[r] = tables[r]
  BY <1>1 DEF IInv, TypeOK
<1>5. Registered' = Registered
  BY <1>1 DEF Registered
<1> QED BY <1>1, <1>2, <1>3, <1>4, <1>5

(* What a reservation adds was free and empty.                             *)
LEMMA ReserveTakes ==
  ASSUME IInv, NEW s \in Slot, NEW length \in 0..MaxLength, Reserve(s, length)
  PROVE  /\ Registered' = Registered /\ written' = written
         /\ Range(tables[s]) \subseteq Range(tables'[s])
         /\ \A b \in Range(tables'[s]) \ Range(tables[s]) :
              b \in Block /\ states[b] = RESET /\ Holders(b) = {} /\ written[b] = 0
         /\ \A r \in Slot : r # s => Range(tables'[r]) = Range(tables[r])
<1> DEFINE count == Larger(CeilDiv(length, BlockSize) - Len(tables[s]), 0)
           new   == Popped(count)
<1>1. /\ tables' = [tables EXCEPT ![s] = tables[s] \o new] /\ written' = written
      /\ states' = [b \in Block |-> IF b \in Range(new) THEN PARTIAL ELSE states[b]]
  BY DEF Reserve
<1>2. count \in Nat /\ count <= Len(free)
  <2>1. length \in Nat /\ BlockSize \in Nat \ {0}
    BY GeometryAssumption
  <2>2. CeilDiv(length, BlockSize) \in Nat
    BY <2>1, CeilType
  <2>3. Len(tables[s]) \in Nat /\ Len(free) \in Nat
        /\ CeilDiv(length, BlockSize) - Len(tables[s]) <= Len(free)
    BY TableType DEF Reserve, IInv, TypeOK
  <2> QED BY <2>2, <2>3 DEF Larger
<1>3. new \in Seq(Block) /\ Range(new) \subseteq Range(free)
  BY <1>2, PoppedBlocks DEF IInv, Consistent
<1> HIDE DEF count, new
<1>4. \A b \in Range(new) : b \in Block /\ states[b] = RESET /\ Holders(b) = {} /\ written[b] = 0
  BY <1>3, FreeUnheld DEF IInv, Consistent, FreeOnce, PoolAgrees
<1>5. tables'[s] = tables[s] \o new /\ \A r \in Slot : r # s => tables'[r] = tables[r]
  BY <1>1 DEF IInv, TypeOK
<1>6. Range(tables'[s]) = Range(tables[s]) \cup Range(new)
  BY <1>3, <1>5, TableType, Concatenation DEF IInv
<1>7. Registered' = Registered
  BY <1>1, <1>4, SameRegistered
<1> QED BY <1>1, <1>4, <1>5, <1>6, <1>7

(* A runner's step only adds rows, to blocks of the sequence's own.        *)
LEMMA WriteFills ==
  ASSUME IInv, NEW s \in Slot, NEW length \in 0..MaxLength, Write(s, length),
         NEW b \in Block, written'[b] # written[b]
  PROVE  b \in OwnBlocks(s) /\ written'[b] > written[b]
<1>1. PICK i \in DOMAIN tables[s] : tables[s][i] = b /\ i * BlockSize > lengths[s]
  BY DEF Write
<1>2. i \in 1..Len(tables[s]) /\ i \in Nat \ {0} /\ lengths[s] \in Nat
  BY <1>1, TableType, ExtentType DEF IInv, Consistent
<1>3. \A j \in DOMAIN tables[s] : tables[s][j] = b => j = i
  BY <1>1 DEF IInv, Consistent, RefsExact, IsInjective
<1>4. written'[b] = Covered(length, i)
  <2>1. (CHOOSE j \in DOMAIN tables[s] : tables[s][j] = b) = i
    BY <1>1, <1>3
  <2> QED BY <1>1, <2>1 DEF Write
<1>5. written[b] = Covered(lengths[s], i)
  BY <1>1 DEF Write, AppendPoint
<1>6. lengths[s] < length /\ length \in Nat /\ BlockSize \in Nat \ {0}
  BY GeometryAssumption DEF Write
<1>7. Covered(lengths[s], i) <= Covered(length, i)
  <2>1. (i - 1) * BlockSize \in Int
    BY <1>2, <1>6
  <2>2. lengths[s] - (i - 1) * BlockSize <= length - (i - 1) * BlockSize
    BY <1>2, <1>6, <2>1
  <2> QED BY <1>2, <1>6, <2>1, <2>2 DEF Covered, Clamp
<1>8. Covered(lengths[s], i) \in Int /\ Covered(length, i) \in Int
  <2>1. Covered(lengths[s], i) \in 0..BlockSize /\ Covered(length, i) \in 0..BlockSize
    BY <1>2, <1>6, CoveredType
  <2> QED BY <1>6, <2>1
<1>9. states[b] = PARTIAL
  BY WriteTouches
<1>10. b \in Range(tables[s])
  BY <1>1, <1>2, TableRange DEF IInv
<1> QED BY <1>4, <1>5, <1>7, <1>8, <1>9, <1>10 DEF OwnBlocks, Registered

(* A commit moves no block between owner, readers and cache.               *)
LEMMA CommitKeeps ==
  ASSUME IInv, NEW s \in Slot, Commit(s)
  PROVE  Registered' = Registered /\ written' = written /\ tables' = tables
<1>1. \A b \in Block : states'[b] = REGISTERED <=> states[b] = REGISTERED
  BY DEF Commit
<1> QED BY <1>1, SameRegistered DEF Commit

(* Registration makes a full block of one owner immutable.                 *)
LEMMA RegisterRetains ==
  ASSUME IInv, NEW s \in Slot, NEW ordinal \in Nat, Register(s, ordinal)
  PROVE  /\ written' = written /\ tables' = tables
         /\ \E b \in OwnBlocks(s) :
              /\ b \in Block /\ written[b] = BlockSize /\ Registered' = Registered \cup {b}
              /\ \A r \in Slot : r # s => b \notin Range(tables[r])
<1> DEFINE b == tables[s][ordinal]
<1>1. /\ ordinal \in 1..(lengths[s] \div BlockSize)
      /\ states[b] = COMPLETE /\ states' = [states EXCEPT ![b] = REGISTERED]
      /\ written' = written /\ tables' = tables
  BY DEF Register
<1>2. /\ lengths[s] \in Nat /\ enqueued[s] \in Nat /\ reserved[s] \in Nat
      /\ lengths[s] <= enqueued[s] /\ enqueued[s] <= reserved[s]
      /\ Len(tables[s]) = CeilDiv(reserved[s], BlockSize)
  BY ExtentType DEF IInv, Consistent
<1>3. /\ lengths[s] \div BlockSize <= enqueued[s] \div BlockSize
      /\ enqueued[s] \div BlockSize <= reserved[s] \div BlockSize
      /\ reserved[s] \div BlockSize <= CeilDiv(reserved[s], BlockSize)
      /\ lengths[s] \div BlockSize \in Nat /\ enqueued[s] \div BlockSize \in Nat
      /\ reserved[s] \div BlockSize \in Nat /\ CeilDiv(reserved[s], BlockSize) \in Nat
  BY <1>2, FullMonotone, CeilType, GeometryAssumption
<1>4. ordinal \in 1..Len(tables[s]) /\ ordinal \in Nat \ {0} /\ ordinal <= enqueued[s] \div BlockSize
  BY <1>1, <1>2, <1>3
<1>5. b \in Block /\ b \in Range(tables[s])
  BY <1>4, TableType, TableRange DEF IInv
<1>6. written[b] = BlockSize
  <2>1. written[b] = Covered(enqueued[s], ordinal)
    BY <1>4, TableType DEF IInv, PoolAgrees
  <2> QED BY <1>2, <1>4, <2>1, CoveredFull
<1>7. \A r \in Slot : r # s => b \notin Range(tables[r])
  <2>1. \A r \in Slot : \A j \in 1..Len(tables[r]) : tables[r][j] = b => r = s
    BY <1>1, <1>4, PrivatePlace DEF IInv
  <2> QED BY <2>1, TableRange DEF IInv
<1>8. b \in OwnBlocks(s)
  BY <1>1, <1>5 DEF OwnBlocks, Registered
<1>9. Registered' = Registered \cup {b}
  <2> HIDE DEF b
  <2>1. \A c \in Block : states'[c] = IF c = b THEN REGISTERED ELSE states[c]
    BY <1>1, <1>5 DEF IInv, TypeOK
  <2> QED BY <1>5, <2>1 DEF Registered
<1> QED BY <1>1, <1>5, <1>6, <1>7, <1>8, <1>9

(* Eviction takes a block that nobody reads.                               *)
LEMMA EvictUnread ==
  ASSUME IInv, NEW b \in Block, EvictRegistered(b)
  PROVE  /\ b \in Registered /\ Registered' = Registered \ {b} /\ tables' = tables
         /\ written' = [written EXCEPT ![b] = 0]
         /\ \A s \in Slot : b \notin Range(tables[s])
<1>1. /\ states[b] = REGISTERED /\ refs[b] = 0 /\ states' = [states EXCEPT ![b] = RESET]
      /\ written' = [written EXCEPT ![b] = 0] /\ tables' = tables
  BY DEF EvictRegistered
<1>2. Holders(b) = {}
  BY <1>1, HolderIndex, FS_EmptySet DEF IInv, Consistent, RefsExact
<1>3. \A s \in Slot : b \notin Range(tables[s])
  BY <1>2, TableRange DEF IInv
<1>4. \A c \in Block : states'[c] = IF c = b THEN RESET ELSE states[c]
  BY <1>1 DEF IInv, TypeOK
<1>5. Registered' = Registered \ {b}
  BY <1>4 DEF Registered
<1> QED BY <1>1, <1>3, <1>5 DEF Registered

(* Truncation and release give blocks back: those that leave their owner   *)
(* are empty, the others lose rows at most, and the cache stays.           *)
GivesBack ==
  /\ Registered' = Registered
  /\ \A s \in Slot : Range(tables'[s]) \subseteq Range(tables[s])
  /\ \A s \in Slot : \A b \in Range(tables[s]) \ Range(tables'[s]) :
       b \notin Registered => written'[b] = 0
  /\ \A b \in Block : written'[b] # written[b] => written'[b] < written[b] /\ b \notin Registered

(* Ending sequences gives their blocks back.                               *)
LEMMA ReleaseGivesBack ==
  ASSUME IInv, NEW S \in SUBSET Slot, ReleaseAll(S)
  PROVE  GivesBack
<1> DEFINE givenBack == UNION {Entries(s, 0) : s \in S}
           freed   == Freed(givenBack)
<1>1. /\ tables' = [s \in Slot |-> IF s \in S THEN <<>> ELSE tables[s]]
      /\ states' = [b \in Block |-> IF b \in freed THEN RESET ELSE states[b]]
      /\ written' = [b \in Block |-> IF b \in freed THEN 0 ELSE written[b]]
  BY DEF ReleaseAll
<1>2. \A b \in freed : states[b] # REGISTERED
  BY FreedPrivate
<1>3. ASSUME NEW s \in S, NEW b \in Range(tables[s]), b \notin Registered
      PROVE  b \in freed
  <2>1. PICK i \in 1..Len(tables[s]) : tables[s][i] = b
    BY TableRange DEF IInv
  <2>2. <<s, i>> \in Entries(s, 0) /\ At(<<s, i>>) = b
    BY <2>1 DEF Entries, At
  <2>3. b \in Block /\ states[b] # REGISTERED
    BY <1>3, TableRange DEF IInv, Registered
  <2>4. <<s, i>> \in Private(givenBack)
    BY <2>2, <2>3 DEF Private
  <2> QED BY <2>2, <2>4 DEF Freed
<1> HIDE DEF givenBack, freed
<1>4. Registered' = Registered
  BY <1>1, <1>2, SameRegistered
<1>5. \A s \in Slot : Range(tables'[s]) = IF s \in S THEN {} ELSE Range(tables[s])
  BY <1>1 DEF Range
<1>6. \A b \in Block : written[b] \in Nat
  BY GeometryAssumption DEF IInv, TypeOK
<1>7. \A b \in Block : written'[b] # written[b] => written'[b] < written[b] /\ b \notin Registered
  BY <1>1, <1>2, <1>6 DEF Registered
<1>8. \A s \in Slot : \A b \in Range(tables[s]) \ Range(tables'[s]) :
        b \notin Registered => written'[b] = 0
  BY <1>1, <1>3, <1>5, TableRange DEF IInv
<1> QED BY <1>4, <1>5, <1>7, <1>8 DEF GivesBack

(* So does shortening one, but for the blocks it keeps.                    *)
LEMMA TruncateGivesBack ==
  ASSUME IInv, NEW s \in Slot, NEW length \in 0..MaxLength, Truncate(s, length)
  PROVE  GivesBack
<1> DEFINE keep  == CeilDiv(length, BlockSize)
           freed == Freed(Entries(s, keep))
           inner == length % BlockSize # 0
           tail  == tables[s][keep]
<1>1. /\ BlockSize \in Nat \ {0} /\ length \in Nat /\ keep \in Nat
      /\ length % BlockSize \in 0..(BlockSize - 1)
  <2>1. length \in Nat /\ BlockSize \in Nat \ {0}
    BY GeometryAssumption
  <2> QED BY <2>1, CeilType, Division
<1>2. /\ tables' = [tables EXCEPT ![s] = SubSeq(tables[s], 1, keep)]
      /\ states' = [b \in Block |-> CASE b \in freed -> RESET
                                      [] inner /\ b = tail -> PARTIAL
                                      [] OTHER -> states[b]]
      /\ written' = [b \in Block |-> CASE b \in freed -> 0
                                       [] inner /\ b = tail -> length % BlockSize
                                       [] OTHER -> written[b]]
      /\ inner => states[tail] # REGISTERED
      /\ length <= lengths[s] /\ enqueued[s] = lengths[s]
  BY DEF Truncate, Kept
<1>3. \A b \in freed : states[b] # REGISTERED
  BY FreedPrivate
<1>4. inner => keep \in 1..Len(tables[s]) /\ tail \in Block
  BY TruncateTailHeld
<1>5. keep <= Len(tables[s]) /\ Len(tables[s]) \in Nat /\ lengths[s] \in Nat
  <2>1. /\ lengths[s] \in Nat /\ enqueued[s] \in Nat /\ reserved[s] \in Nat
        /\ lengths[s] <= enqueued[s] /\ enqueued[s] <= reserved[s]
        /\ Len(tables[s]) = CeilDiv(reserved[s], BlockSize) /\ Len(tables[s]) \in Nat
    BY ExtentType, TableType DEF IInv, Consistent
  <2>2. length <= reserved[s]
    BY <1>1, <1>2, <2>1
  <2> QED BY <1>1, <2>1, <2>2, DivMonotone
<1>6. \A i, j \in 1..Len(tables[s]) : tables[s][i] = tables[s][j] => i = j
  BY TableType DEF IInv, Consistent, RefsExact, IsInjective
<1>7. ASSUME NEW b \in freed
      PROVE  \E i \in 1..Len(tables[s]) : i > keep /\ tables[s][i] = b
  <2>1. PICK e \in Private(Entries(s, keep)) : At(e) = b
    BY DEF Freed
  <2>2. e[1] = s /\ e[2] \in (keep + 1)..Len(tables[s]) /\ tables[s][e[2]] = b
    BY <2>1 DEF Private, Entries, At
  <2>3. e[2] \in 1..Len(tables[s]) /\ e[2] > keep
    BY <1>1, <1>5, <2>2
  <2> QED BY <2>2, <2>3
<1>8. ASSUME NEW i \in 1..Len(tables[s]), i > keep, tables[s][i] \notin Registered
      PROVE  tables[s][i] \in freed
  <2>1. i \in (keep + 1)..Len(tables[s])
    BY <1>1, <1>5, <1>8
  <2>2. <<s, i>> \in Entries(s, keep) /\ At(<<s, i>>) = tables[s][i]
    BY <2>1 DEF Entries, At
  <2>3. states[tables[s][i]] # REGISTERED
    BY <1>8, TableType DEF IInv, Registered
  <2>4. <<s, i>> \in Private(Entries(s, keep))
    BY <2>2, <2>3 DEF Private
  <2> QED BY <2>2, <2>4 DEF Freed
<1>9. inner => Covered(lengths[s], keep) >= length % BlockSize /\ written[tail] = Covered(lengths[s], keep)
  <2>1. SUFFICES ASSUME inner
                 PROVE  /\ Covered(lengths[s], keep) >= length % BlockSize
                        /\ written[tail] = Covered(lengths[s], keep)
    OBVIOUS
  <2>2. keep \in 1..Len(tables[s]) /\ keep \in Nat \ {0}
    BY <1>4, <2>1, TableType DEF IInv
  <2>3. Covered(length, keep) = length % BlockSize
    BY <1>1, <2>1, CoveredTail
  <2>4. Covered(length, keep) <= Covered(lengths[s], keep)
    <3> HIDE DEF keep
    <3>1. (keep - 1) * BlockSize \in Int
      BY <1>1, <2>2
    <3>2. length - (keep - 1) * BlockSize <= lengths[s] - (keep - 1) * BlockSize
      BY <1>1, <1>2, <1>5, <3>1
    <3> QED BY <1>1, <1>5, <3>1, <3>2 DEF Covered, Clamp
  <2>5. written[tail] = Covered(lengths[s], keep)
    BY <1>2, <2>2, TableType DEF IInv, PoolAgrees
  <2>6. Covered(length, keep) \in Int /\ Covered(lengths[s], keep) \in Int
    <3>1. Covered(length, keep) \in 0..BlockSize /\ Covered(lengths[s], keep) \in 0..BlockSize
      BY <1>1, <1>5, <2>2, CoveredType
    <3> QED BY <1>1, <3>1
  <2> QED BY <2>3, <2>4, <2>5, <2>6
<1> HIDE DEF keep, freed, inner, tail
<1>10. Registered' = Registered
  BY <1>2, <1>3, SameRegistered
<1>11. /\ tables'[s] = SubSeq(tables[s], 1, keep)
       /\ \A r \in Slot : r # s => tables'[r] = tables[r]
  BY <1>2 DEF IInv, TypeOK
<1>12. /\ DOMAIN tables'[s] = 1..keep
       /\ \A i \in 1..keep : tables'[s][i] = tables[s][i] /\ i \in 1..Len(tables[s])
  <2>1. tables[s] \in Seq(Block) /\ keep \in 0..Len(tables[s])
    BY <1>1, <1>5, TableType DEF IInv
  <2>2. \A i \in 1..keep : i \in 1..Len(tables[s])
    BY <1>1, <1>5
  <2> QED BY <1>11, <2>1, <2>2, FirstEntries
<1>13. \A b : b \in Range(tables'[s]) <=> \E i \in 1..keep : tables[s][i] = b
  BY <1>12 DEF Range
<1>14. \A r \in Slot : Range(tables'[r]) \subseteq Range(tables[r])
  <2>1. Range(tables'[s]) \subseteq Range(tables[s])
    BY <1>12, <1>13, TableRange DEF IInv
  <2> QED BY <1>11, <2>1
<1>15. ASSUME NEW r \in Slot, NEW b \in Range(tables[r]) \ Range(tables'[r]), b \notin Registered
       PROVE  written'[b] = 0
  <2>1. r = s
    BY <1>11, <1>15
  <2>2. PICK i \in 1..Len(tables[s]) : tables[s][i] = b
    BY <1>15, <2>1, TableRange DEF IInv
  <2>3. i > keep
    BY <1>1, <1>13, <1>15, <2>1, <2>2, TableType DEF IInv
  <2>4. b \in freed /\ b \in Block
    BY <1>8, <1>15, <2>2, <2>3, TableType DEF IInv
  <2>5. ~(inner /\ b = tail)
    BY <1>1, <1>4, <1>6, <2>2, <2>3 DEF tail
  <2> QED BY <1>2, <2>4, <2>5
<1>16. ASSUME NEW b \in Block, written'[b] # written[b]
       PROVE  written'[b] < written[b] /\ b \notin Registered
  <2>1. written[b] \in Nat
    BY GeometryAssumption DEF IInv, TypeOK
  <2>2. CASE b \in freed
    <3>1. PICK i \in 1..Len(tables[s]) : i > keep /\ tables[s][i] = b
      BY <1>7, <2>2
    <3>2. ~(inner /\ b = tail)
      BY <1>1, <1>4, <1>6, <3>1, TableType DEF tail, IInv
    <3>3. written'[b] = 0
      BY <1>2, <2>2, <3>2
    <3> QED BY <1>3, <1>16, <2>1, <2>2, <3>3 DEF Registered
  <2>3. CASE b \notin freed
    <3>1. inner /\ b = tail /\ written'[b] = length % BlockSize
      BY <1>2, <1>16, <2>3
    <3>2. b \notin Registered
      BY <1>2, <3>1 DEF Registered
    <3>3. written[b] >= length % BlockSize
      BY <1>9, <3>1
    <3>4. length % BlockSize \in Int
      BY <1>1
    <3> QED BY <1>16, <2>1, <3>1, <3>2, <3>3, <3>4
  <2> QED BY <2>2, <2>3
<1> QED BY <1>10, <1>14, <1>15, <1>16 DEF GivesBack
-----------------------------------------------------------------------------
(* Every step of the manager is one of the ownership discipline's, or      *)
(* moves nothing between owners, readers and the cache.                    *)
LEMMA OwnershipStep ==
  ASSUME IInv, [Next]_vars
  PROVE  [Ownership!OwnershipNext]_(Ownership!ownershipVars)
<1> DEFINE own  == [s \in Slot |-> Range(tables[s]) \ Registered]
           read == [s \in Slot |-> Range(tables[s]) \cap Registered]
           A    == Ownership!OwnershipNext
           Same == UNCHANGED Ownership!ownershipVars
<1>0. \A s \in Slot : Range(tables[s]) \subseteq Block
  BY TableRange DEF IInv
<1>1. ASSUME NEW s \in Slot, NEW cached \in CachedPrefixes, Attach(s, cached)
      PROVE  A
  <2>1. /\ Registered' = Registered /\ written' = written
        /\ Range(tables[s]) = {} /\ Range(tables'[s]) \subseteq Registered
        /\ \A r \in Slot : r # s => Range(tables'[r]) = Range(tables[r])
    BY <1>1, AttachBorrows
  <2>2. own' = own /\ read' = [read EXCEPT ![s] = read'[s]]
    BY <2>1
  <2>3. own[s] = {} /\ read[s] = {} /\ read'[s] \subseteq Registered
    BY <2>1
  <2>4. Ownership!Borrow(s, read'[s])
    BY <2>1, <2>2, <2>3 DEF Ownership!Borrow
  <2> QED BY <2>4 DEF Ownership!OwnershipNext
<1>2. ASSUME NEW s \in Slot, NEW length \in 0..MaxLength, Reserve(s, length)
      PROVE  A
  <2>1. /\ Registered' = Registered /\ written' = written
        /\ Range(tables[s]) \subseteq Range(tables'[s])
        /\ \A b \in Range(tables'[s]) \ Range(tables[s]) :
             b \in Block /\ states[b] = RESET /\ Holders(b) = {} /\ written[b] = 0
        /\ \A r \in Slot : r # s => Range(tables'[r]) = Range(tables[r])
    BY <1>2, ReserveTakes
  <2>2. \A b \in own'[s] \ own[s] :
          /\ b \in Block /\ states[b] = RESET /\ written[b] = 0
          /\ \A r \in Slot : b \notin Range(tables[r])
    BY <2>1, TableRange DEF IInv
  <2>3. read' = read
    BY <2>1, <2>2 DEF Registered
  <2>4. own' = [own EXCEPT ![s] = own[s] \cup (own'[s] \ own[s])]
    BY <2>1
  <2>5. own'[s] \ own[s] \subseteq Ownership!Free
    BY <2>2 DEF Ownership!Free, Registered
  <2>6. Ownership!Take(s, own'[s] \ own[s])
    BY <2>1, <2>2, <2>3, <2>4, <2>5 DEF Ownership!Take
  <2> QED BY <2>6 DEF Ownership!OwnershipNext
<1>3. ASSUME NEW s \in Slot, NEW length \in 0..MaxLength, Write(s, length)
      PROVE  A
  <2>1. tables' = tables /\ states' = states
    BY <1>3 DEF Write
  <2>2. own' = own /\ read' = read /\ Registered' = Registered
    BY <2>1 DEF Registered
  <2>3. \A b \in Block : written'[b] # written[b] => b \in own[s] /\ written'[b] > written[b]
    BY <1>3, WriteFills DEF OwnBlocks
  <2>4. Ownership!Fill(s, written')
    BY <2>2, <2>3 DEF Ownership!Fill
  <2> QED BY <2>4 DEF Ownership!OwnershipNext
<1>4. ASSUME NEW s \in Slot, Commit(s)
      PROVE  Same
  BY <1>4, CommitKeeps DEF Ownership!ownershipVars
<1>5. ASSUME NEW s \in Slot, NEW ordinal \in 1..(MaxLength \div BlockSize), Register(s, ordinal)
      PROVE  A
  <2>1. MaxLength \div BlockSize \in Nat /\ ordinal \in Nat
    BY GeometryAssumption, Division
  <2>2. PICK b \in OwnBlocks(s) :
              /\ b \in Block /\ written[b] = BlockSize /\ Registered' = Registered \cup {b}
              /\ \A r \in Slot : r # s => b \notin Range(tables[r])
    BY <1>5, <2>1, RegisterRetains
  <2>3. written' = written /\ tables' = tables
    BY <1>5, <2>1, RegisterRetains
  <2>4. b \in own[s] /\ b \in Range(tables[s])
    BY <2>2 DEF OwnBlocks
  <2>5. own' = [own EXCEPT ![s] = own[s] \ {b}]
    BY <2>2, <2>3, <2>4
  <2>6. read' = [read EXCEPT ![s] = read[s] \cup {b}]
    BY <2>2, <2>3, <2>4
  <2>7. Ownership!Retain(s, b)
    BY <2>2, <2>3, <2>4, <2>5, <2>6 DEF Ownership!Retain
  <2> QED BY <2>2, <2>7 DEF Ownership!OwnershipNext
<1>6. ASSUME NEW b \in Block, EvictRegistered(b)
      PROVE  A
  <2>1. /\ b \in Registered /\ Registered' = Registered \ {b} /\ tables' = tables
        /\ written' = [written EXCEPT ![b] = 0]
        /\ \A s \in Slot : b \notin Range(tables[s])
    BY <1>6, EvictUnread
  <2>2. own' = own /\ read' = read /\ \A s \in Slot : b \notin read[s]
    BY <2>1
  <2>3. Ownership!Evict(b)
    BY <2>1, <2>2 DEF Ownership!Evict
  <2> QED BY <2>3 DEF Ownership!OwnershipNext
<1>7. ASSUME GivesBack
      PROVE  A
  <2>1. \A s \in Slot : own'[s] \subseteq own[s] /\ read'[s] \subseteq read[s]
    BY <1>7 DEF GivesBack
  <2>2. \A s \in Slot : \A b \in own[s] \ own'[s] : written'[b] = 0
    BY <1>7 DEF GivesBack
  <2>3. Ownership!GiveBack(own', read', written')
    BY <1>7, <2>1, <2>2 DEF GivesBack, Ownership!GiveBack
  <2> QED BY <2>3 DEF Ownership!OwnershipNext
<1>8. ASSUME UNCHANGED vars
      PROVE  Same
  BY <1>8 DEF vars, Ownership!ownershipVars, Registered
<1>9. ASSUME NEW s \in Slot, Detach(s)
      PROVE  GivesBack
  BY <1>9, ReleaseGivesBack DEF Detach
<1>10. ASSUME Reset
       PROVE  GivesBack
  BY <1>10, ReleaseGivesBack DEF Reset
<1> HIDE DEF A, Same
<1>11. A \/ Same
  BY <1>1, <1>2, <1>3, <1>4, <1>5, <1>6, <1>7, <1>8, <1>9, <1>10, TruncateGivesBack DEF Next
<1> QED BY <1>11 DEF A, Same

(* The manager keeps the ownership discipline, whatever its clients do: a  *)
(* block is free, one sequence's own, or cached; only its owner writes it; *)
(* only a cached block that nobody reads is reclaimed, and a block that an *)
(* owner gives back is empty.                                              *)
THEOREM ManagerImplementsOwnership == Spec => KeepsOwnership
<1>1. Init => Ownership!OwnershipInit
  BY DEF Init, Ownership!OwnershipInit, Registered, Range
<1>2. IInv /\ [Next]_vars => [Ownership!OwnershipNext]_(Ownership!ownershipVars)
  BY OwnershipStep
<1> QED BY <1>1, <1>2, Inductive, PTL DEF Spec, KeepsOwnership, Ownership!OwnershipSpec
-----------------------------------------------------------------------------
(* The prefix index.                                                       *)
USE DEF Slot, State, RESET, PARTIAL, COMPLETE, REGISTERED
-----------------------------------------------------------------------------
(* The index is a sequence of records, over any salts and tokens.          *)
Entry(S, T) == [salt : S, tokens : Seq(T), block : Block, lastUsed : Nat]

IndexTyped(S, T) == entries \in Seq(Entry(S, T)) /\ clock \in Nat

(* Block b is the one the index names for a history of one tenant.         *)
Filed(b, salt, key) ==
  \E k \in DOMAIN entries :
    entries[k].block = b /\ entries[k].salt = salt /\ entries[k].tokens = key

(* What the operation in progress still relies on.                         *)
ReclaimCall(n) ==
  /\ call = [op |-> "reclaim", required |-> n, protected |-> {}]
  /\ n <= Len(free) + Reclaimable({})

AdmitCall(n, cached, length) ==
  /\ call = [op |-> "admit", required |-> n, protected |-> Range(cached),
             cached |-> cached, length |-> length]
  /\ Len(cached) * BlockSize <= length
  /\ IsInjective(cached)
  /\ \A i \in 1..Len(cached) : states[cached[i]] = REGISTERED
  /\ CeilDiv(length, BlockSize) - Len(cached) <= n
  /\ n <= Len(free) + Reclaimable(Range(cached))

ReserveCall(s, cached, length) ==
  /\ call = [op |-> "reserve", sequence |-> s, cached |-> cached, length |-> length]
  /\ active[s] /\ tables[s] = cached /\ lengths[s] = Len(cached) * BlockSize
  /\ lengths[s] <= length
  /\ CeilDiv(length, BlockSize) - Len(cached) <= Len(free)

(* A full block of the sequence is filed under its own history, or still   *)
(* private.                                                                *)
Fileable(b, salt, key) ==
  \/ states[b] = REGISTERED /\ Filed(b, salt, key)
  \/ states[b] = COMPLETE /\ refs[b] = 1

Remaining(s, tokens, salt, j) ==
  \A i \in j..(lengths[s] \div BlockSize) :
    Fileable(tables[s][i], salt, Prefix(tokens, i * BlockSize))

PublishCall(s, tokens, salt, j) ==
  /\ call = [op |-> "publish", sequence |-> s, tokens |-> tokens, salt |-> salt, ordinal |-> j]
  /\ active[s] /\ lengths[s] <= Len(tokens)
  /\ j <= lengths[s] \div BlockSize + 1
  /\ Remaining(s, tokens, salt, j)

ClearCall ==
  /\ call = [op |-> "clear"]
  /\ \A k \in DOMAIN entries : refs[entries[k].block] = 0

CallOK(S, T) ==
  \/ call = Idle
  \/ \E n \in Int : ReclaimCall(n)
  \/ \E n \in Int, cached \in Seq(Block), length \in 0..MaxLength : AdmitCall(n, cached, length)
  \/ \E s \in Slot, cached \in Seq(Block), length \in 0..MaxLength : ReserveCall(s, cached, length)
  \/ \E s \in Slot, tokens \in Seq(T), salt \in S, j \in Nat \ {0} : PublishCall(s, tokens, salt, j)
  \/ ClearCall

CacheInv(S, T) == IInv /\ IndexTyped(S, T) /\ IndexExact /\ CallOK(S, T)
-----------------------------------------------------------------------------
(* A non-empty set of naturals has a least element.                        *)
LEMMA LeastNatural ==
  ASSUME NEW T \in SUBSET Nat, T # {}
  PROVE  \E m \in T : \A k \in T : m <= k
<1> DEFINE Below(n) == 0..n
           Intervals == {Below(n) : n \in T}
<1>1. IsWellFoundedOn(StrictSubsetOrdering(Nat), FiniteSubsetsOf(Nat))
  BY FS_StrictSubsetOrderingWellFounded
<1>2. Intervals \subseteq FiniteSubsetsOf(Nat) /\ Intervals # {}
  <2>1. \A n \in T : Below(n) \subseteq Nat /\ IsFiniteSet(Below(n))
    BY FS_Interval
  <2> QED BY <2>1 DEF FiniteSubsetsOf
<1>3. PICK x \in Intervals : \A y \in Intervals : ~(<<y, x>> \in StrictSubsetOrdering(Nat))
  <2> HIDE DEF Intervals
  <2> QED BY <1>1, <1>2, WFMin
<1>4. PICK m \in T : x = Below(m)
  BY <1>3
<1>5. ASSUME NEW k \in T, k < m
      PROVE  FALSE
  <2>1. Below(k) \subseteq Below(m) /\ m \in Below(m) /\ m \notin Below(k) /\ Below(m) \subseteq Nat
    BY <1>5
  <2>2. <<Below(k), Below(m)>> \in StrictSubsetOrdering(Nat)
    BY <2>1 DEF StrictSubsetOrdering
  <2> QED BY <1>3, <1>4, <2>2
<1> QED BY <1>5

(* Index j of a list comes from index Shifted(k, j) of the list with k.    *)
Shifted(k, j) == IF j < k THEN j ELSE j + 1

(* Removing entry k keeps every other one, in its order.                   *)
LEMMA Removal ==
  ASSUME NEW E, entries \in Seq(E), NEW k \in 1..Len(entries)
  PROVE  /\ RemoveEntry(k) \in Seq(E)
         /\ Len(RemoveEntry(k)) = Len(entries) - 1
         /\ \A j \in 1..(Len(entries) - 1) :
              /\ Shifted(k, j) \in 1..Len(entries) /\ Shifted(k, j) # k
              /\ RemoveEntry(k)[j] = entries[Shifted(k, j)]
         /\ \A i \in 1..Len(entries) : i # k =>
              \E j \in 1..(Len(entries) - 1) : Shifted(k, j) = i
<1> DEFINE n    == Len(entries)
           head == SubSeq(entries, 1, k - 1)
           tail == SubSeq(entries, k + 1, n)
<1>1. n \in Nat /\ k - 1 \in 0..n /\ k - 1 \in Nat /\ k \in Nat
  OBVIOUS
<1>2. head \in Seq(E) /\ Len(head) = k - 1 /\ \A j \in 1..(k - 1) : head[j] = entries[j]
  BY <1>1, FirstEntries
<1>3. /\ tail \in Seq(E) /\ Len(tail) = n - k
      /\ \A j \in 1..(n - k) : tail[j] = entries[k + j]
  <2>1. \A i \in (k + 1)..n : entries[i] \in E
    BY <1>1
  <2>2. /\ tail \in Seq(E) /\ Len(tail) = IF k + 1 <= n THEN n - (k + 1) + 1 ELSE 0
        /\ \A j \in 1..(n - (k + 1) + 1) : tail[j] = entries[k + 1 + j - 1]
    BY <1>1, <2>1, SubSeqProperties
  <2> HIDE DEF tail
  <2>3. Len(tail) = n - k /\ n - (k + 1) + 1 = n - k
    BY <1>1, <2>2
  <2>4. \A j \in 1..(n - k) : k + 1 + j - 1 = k + j
    BY <1>1
  <2> QED BY <2>2, <2>3, <2>4
<1>4. RemoveEntry(k) = head \o tail
  BY DEF RemoveEntry
<1> HIDE DEF head, tail
<1>5. /\ head \o tail \in Seq(E) /\ Len(head \o tail) = n - 1
      /\ \A j \in 1..(n - 1) : (head \o tail)[j] = IF j <= k - 1 THEN head[j] ELSE tail[j - (k - 1)]
  <2>1. Len(head) + Len(tail) = n - 1
    BY <1>1, <1>2, <1>3
  <2>2. /\ head \o tail \in Seq(E) /\ Len(head \o tail) = Len(head) + Len(tail)
        /\ \A j \in 1..(Len(head) + Len(tail)) :
             (head \o tail)[j] = IF j <= Len(head) THEN head[j] ELSE tail[j - Len(head)]
    BY <1>2, <1>3, ConcatProperties
  <2> QED BY <1>2, <2>1, <2>2
<1>6. ASSUME NEW j \in 1..(n - 1)
      PROVE  /\ Shifted(k, j) \in 1..n /\ Shifted(k, j) # k
             /\ RemoveEntry(k)[j] = entries[Shifted(k, j)]
  <2>1. CASE j < k
    <3>1. Shifted(k, j) = j /\ j \in 1..(k - 1) /\ j <= k - 1
      BY <1>1, <2>1 DEF Shifted
    <3> QED BY <1>1, <1>2, <1>4, <1>5, <3>1
  <2>2. CASE ~(j < k)
    <3>1. /\ Shifted(k, j) = j + 1 /\ j - (k - 1) \in 1..(n - k) /\ ~(j <= k - 1)
          /\ k + (j - (k - 1)) = j + 1 /\ j + 1 \in 1..n /\ j + 1 # k
      BY <1>1, <2>2 DEF Shifted
    <3> QED BY <1>3, <1>4, <1>5, <3>1
  <2> QED BY <2>1, <2>2
<1>7. ASSUME NEW i \in 1..n, i # k
      PROVE  \E j \in 1..(n - 1) : Shifted(k, j) = i
  <2>1. CASE i < k
    BY <1>1, <1>7, <2>1 DEF Shifted
  <2>2. CASE ~(i < k)
    <3>1. i - 1 \in 1..(n - 1) /\ Shifted(k, i - 1) = i
      BY <1>1, <1>7, <2>2 DEF Shifted
    <3> QED BY <3>1
  <2> QED BY <2>1, <2>2
<1> QED BY <1>4, <1>5, <1>6, <1>7

(* Two indices of the shorter list come from two of the longer one.        *)
LEMMA ShiftedInjective ==
  ASSUME NEW k \in Nat, NEW i \in Nat, NEW j \in Nat, Shifted(k, i) = Shifted(k, j)
  PROVE  i = j
  BY DEF Shifted

(* Room can be counted, and where there is some there is a next victim.    *)
LEMMA VictimExists ==
  ASSUME NEW S, NEW T, IndexTyped(S, T), NEW protected
  PROVE  /\ IsFiniteSet(Evictable(protected)) /\ Reclaimable(protected) \in Nat
         /\ Reclaimable(protected) > 0 => Victims(protected) # {}
<1> DEFINE X == Evictable(protected)
<1>1. X \subseteq 1..Len(entries) /\ Len(entries) \in Nat
      /\ \A k \in 1..Len(entries) : entries[k].lastUsed \in Nat
  <2>1. entries \in Seq(Entry(S, T))
    BY DEF IndexTyped
  <2>2. Len(entries) \in Nat /\ DOMAIN entries = 1..Len(entries)
        /\ \A k \in 1..Len(entries) : entries[k] \in Entry(S, T)
    BY <2>1
  <2>3. X \subseteq 1..Len(entries)
    BY <2>2 DEF Evictable
  <2> QED BY <2>2, <2>3 DEF Entry
<1>2. IsFiniteSet(X) /\ Cardinality(X) \in Nat
  <2>1. IsFiniteSet(1..Len(entries))
    BY <1>1, FS_Interval
  <2>2. IsFiniteSet(X)
    <3> HIDE DEF X
    <3> QED BY <1>1, <2>1, FS_Subset
  <2> QED BY <2>2, FS_CardinalityType
<1>3. ASSUME Cardinality(X) > 0
      PROVE  Victims(protected) # {}
  <2>1. X # {}
    BY <1>2, <1>3, FS_EmptySet
  <2> DEFINE Uses == {entries[k].lastUsed : k \in X}
  <2>2. PICK u \in Uses : \A v \in Uses : u <= v
    <3>1. Uses \in SUBSET Nat /\ Uses # {}
      BY <1>1, <2>1
    <3> HIDE DEF Uses
    <3> QED BY <3>1, LeastNatural
  <2> DEFINE Oldest == {k \in X : entries[k].lastUsed = u}
  <2>3. PICK m \in Oldest : \A k \in Oldest : m <= k
    <3>1. Oldest \in SUBSET Nat /\ Oldest # {}
      BY <1>1, <2>2
    <3> HIDE DEF Oldest
    <3> QED BY <3>1, LeastNatural
  <2>4. ASSUME NEW j \in X
        PROVE  OlderUse(m, j)
    <3>1. entries[j].lastUsed \in Nat /\ u \in Nat /\ u <= entries[j].lastUsed
      BY <1>1, <2>2
    <3>2. entries[m].lastUsed = u
      BY <2>3
    <3>3. entries[j].lastUsed = u => m <= j
      BY <2>3
    <3> QED BY <3>1, <3>2, <3>3 DEF OlderUse
  <2>5. m \in X
    BY <2>3
  <2> HIDE DEF Uses, Oldest
  <2> QED BY <2>4, <2>5 DEF Victims
<1> QED BY <1>2, <1>3 DEF Reclaimable
-----------------------------------------------------------------------------
(* Giving up an entry.                                                     *)

(* The fields of an entry, and its place.                                  *)
LEMMA EntryAt ==
  ASSUME NEW S, NEW T, IndexTyped(S, T)
  PROVE  /\ entries \in Seq(Entry(S, T)) /\ clock \in Nat
         /\ Len(entries) \in Nat /\ DOMAIN entries = 1..Len(entries)
         /\ \A k \in 1..Len(entries) :
              /\ k \in Nat /\ entries[k] \in Entry(S, T)
              /\ entries[k].salt \in S /\ entries[k].tokens \in Seq(T)
              /\ entries[k].block \in Block /\ entries[k].lastUsed \in Nat
<1>1. entries \in Seq(Entry(S, T)) /\ clock \in Nat
  BY DEF IndexTyped
<1>2. Len(entries) \in Nat /\ DOMAIN entries = 1..Len(entries)
      /\ \A k \in 1..Len(entries) : entries[k] \in Entry(S, T) /\ k \in Nat
  BY <1>1
<1> QED BY <1>1, <1>2 DEF Entry

(* What is left after entry k goes: the others, each once.                 *)
Without(k) ==
  /\ Len(entries') = Len(entries) - 1 /\ DOMAIN entries' = 1..(Len(entries) - 1)
  /\ \A j \in 1..(Len(entries) - 1) :
       Shifted(k, j) \in 1..Len(entries) /\ Shifted(k, j) # k /\ entries'[j] = entries[Shifted(k, j)]
  /\ \A i \in 1..Len(entries) : i # k => \E j \in 1..(Len(entries) - 1) : Shifted(k, j) = i

(* _remove gives the block back and takes its entry out of the index.      *)
LEMMA EvictWithout ==
  ASSUME NEW S, NEW T, IndexTyped(S, T), NEW k \in 1..Len(entries), Evict(k)
  PROVE  /\ Without(k) /\ entries' \in Seq(Entry(S, T))
         /\ EvictRegistered(entries[k].block)
         /\ entries[k].block \in Block /\ refs[entries[k].block] = 0
         /\ k \in Nat
<1>1. entries \in Seq(Entry(S, T)) /\ entries[k].block \in Block /\ k \in Nat /\ Len(entries) \in Nat
  BY EntryAt
<1>2. entries' = RemoveEntry(k) /\ EvictRegistered(entries[k].block)
  BY DEF Evict
<1>3. /\ entries' \in Seq(Entry(S, T))
      /\ Len(entries') = Len(entries) - 1
      /\ \A j \in 1..(Len(entries) - 1) :
           Shifted(k, j) \in 1..Len(entries) /\ Shifted(k, j) # k /\ entries'[j] = entries[Shifted(k, j)]
      /\ \A i \in 1..Len(entries) : i # k => \E j \in 1..(Len(entries) - 1) : Shifted(k, j) = i
  BY <1>1, <1>2, Removal
<1>4. DOMAIN entries' = 1..Len(entries')
  BY <1>3
<1> QED BY <1>1, <1>2, <1>3, <1>4 DEF Without, EvictRegistered

(* The index stays exact when an idle entry leaves with its block.         *)
LEMMA EvictIndex ==
  ASSUME NEW S, NEW T, IInv, IndexTyped(S, T), IndexExact,
         NEW k \in 1..Len(entries), Evict(k), clock' = clock
  PROVE  /\ IInv' /\ IndexTyped(S, T)' /\ IndexExact'
         /\ Len(free') = Len(free) + 1 /\ Len(free) \in Nat
         /\ UNCHANGED <<refs, tables, lengths, reserved, active, enqueued>>
<1> DEFINE b == entries[k].block
<1>1. /\ Without(k) /\ entries' \in Seq(Entry(S, T)) /\ EvictRegistered(b)
      /\ b \in Block /\ k \in Nat
  BY EvictWithout
<1>2. /\ entries \in Seq(Entry(S, T)) /\ clock \in Nat /\ Len(entries) \in Nat
      /\ DOMAIN entries = 1..Len(entries)
      /\ \A j \in 1..Len(entries) : entries[j].block \in Block
  BY EntryAt
<1>3. IndexTyped(S, T)'
  BY <1>1, <1>2 DEF IndexTyped
<1>4. IInv'
  BY <1>1, EvictIInv
<1>5. Len(free') = Len(free) + 1 /\ Len(free) \in Nat
  <2>1. free' = Append(free, b) /\ free \in Seq(Block)
    BY <1>1 DEF EvictRegistered, IInv, TypeOK
  <2> HIDE DEF b
  <2> QED BY <1>1, <2>1, AppendProperties
<1>6. /\ UNCHANGED <<refs, tables, lengths, reserved, active, enqueued>>
      /\ states' = [states EXCEPT ![b] = RESET] /\ states \in [Block -> State]
  BY <1>1 DEF EvictRegistered, IInv, TypeOK
<1>7. Registered' = Registered \ {b}
  <2> HIDE DEF b
  <2> QED BY <1>1, <1>6 DEF Registered
<1>8. /\ Len(entries) <= Capacity /\ Capacity \in Nat
      /\ \A i, j \in 1..Len(entries) : i # j =>
           /\ entries[i].block # entries[j].block
           /\ <<entries[i].salt, entries[i].tokens>> # <<entries[j].salt, entries[j].tokens>>
      /\ {entries[i].block : i \in 1..Len(entries)} = Registered
  <2>1. Capacity \in Nat
    BY CacheAssumption, GeometryAssumption, FS_CardinalityType
  <2> QED BY <1>2, <2>1 DEF IndexExact
<1>9. DOMAIN entries' = 1..(Len(entries) - 1) /\ Len(entries') = Len(entries) - 1
  BY <1>1 DEF Without
<1>10. \A j \in 1..(Len(entries) - 1) :
         Shifted(k, j) \in 1..Len(entries) /\ Shifted(k, j) # k /\ entries'[j] = entries[Shifted(k, j)]
  BY <1>1 DEF Without
<1>11. \A i \in 1..Len(entries) : i # k => \E j \in 1..(Len(entries) - 1) : Shifted(k, j) = i
  BY <1>1 DEF Without
<1>12. ASSUME NEW i \in DOMAIN entries', NEW j \in DOMAIN entries', i # j
       PROVE  /\ entries'[i].block # entries'[j].block
              /\ <<entries'[i].salt, entries'[i].tokens>> # <<entries'[j].salt, entries'[j].tokens>>
  <2>1. Shifted(k, i) # Shifted(k, j)
    BY <1>1, <1>9, <1>12, ShiftedInjective, <1>2
  <2>2. PICK p \in 1..Len(entries), q \in 1..Len(entries) :
          p # q /\ entries'[i] = entries[p] /\ entries'[j] = entries[q]
    BY <1>9, <1>10, <2>1
  <2> QED BY <1>8, <2>2
<1>13. {entries'[i].block : i \in DOMAIN entries'} = Registered \ {b}
  <2>1. ASSUME NEW i \in DOMAIN entries'
        PROVE  entries'[i].block \in Registered \ {b}
    <3>1. PICK p \in 1..Len(entries) : p # k /\ entries'[i] = entries[p]
      BY <1>9, <1>10, <2>1
    <3>2. entries[p].block \in Registered /\ entries[p].block # entries[k].block
      BY <1>1, <1>8, <3>1
    <3> QED BY <3>1, <3>2
  <2>2. ASSUME NEW c \in Registered \ {b}
        PROVE  \E j \in DOMAIN entries' : entries'[j].block = c
    <3>1. PICK i \in 1..Len(entries) : entries[i].block = c
      BY <1>8
    <3>2. i # k
      BY <3>1
    <3> QED BY <1>9, <1>10, <1>11, <3>1, <3>2
  <2> QED BY <2>1, <2>2
<1>14. Len(entries') <= Capacity
  BY <1>2, <1>8, <1>9
<1>15. IndexExact'
  <2>1. {entries'[i].block : i \in DOMAIN entries'} = Registered'
    BY <1>7, <1>13
  <2> QED BY <1>12, <1>14, <2>1 DEF IndexExact
<1> QED BY <1>3, <1>4, <1>5, <1>6, <1>15

(* An eviction turns one idle entry into one free block: the room an       *)
(* operation counted on stays what it was.                                 *)
LEMMA EvictRoom ==
  ASSUME NEW S, NEW T, IndexTyped(S, T), NEW k \in 1..Len(entries), Evict(k),
         NEW protected, entries[k].block \notin protected
  PROVE  Reclaimable(protected) \in Nat /\ Reclaimable(protected)' = Reclaimable(protected) - 1
<1> DEFINE X == Evictable(protected)
           Y == {j \in DOMAIN entries' : refs'[entries'[j].block] = 0
                                         /\ entries'[j].block \notin protected}
           f == [j \in Y |-> Shifted(k, j)]
<1>1. /\ Without(k) /\ refs[entries[k].block] = 0 /\ refs' = refs /\ k \in Nat
  BY EvictWithout DEF EvictRegistered
<1>2. DOMAIN entries = 1..Len(entries) /\ Len(entries) \in Nat
  BY EntryAt
<1>3. /\ DOMAIN entries' = 1..(Len(entries) - 1)
      /\ \A j \in 1..(Len(entries) - 1) :
           Shifted(k, j) \in 1..Len(entries) /\ Shifted(k, j) # k /\ entries'[j] = entries[Shifted(k, j)]
      /\ \A i \in 1..Len(entries) : i # k => \E j \in 1..(Len(entries) - 1) : Shifted(k, j) = i
  BY <1>1 DEF Without
<1>4. k \in X /\ IsFiniteSet(X) /\ Cardinality(X) \in Nat
  <2>1. k \in X
    BY <1>1, <1>2 DEF Evictable
  <2> QED BY <2>1, VictimExists DEF Reclaimable
<1>5. IsFiniteSet(Y)
  <2>1. IsFiniteSet(1..(Len(entries) - 1))
    BY <1>2, FS_Interval
  <2>2. Y \subseteq 1..(Len(entries) - 1)
    BY <1>3
  <2> HIDE DEF Y
  <2> QED BY <2>1, <2>2, FS_Subset
<1>6. f \in [Y -> X \ {k}]
  <2>1. ASSUME NEW j \in Y
        PROVE  Shifted(k, j) \in X \ {k}
    BY <1>1, <1>2, <1>3 DEF Evictable
  <2> QED BY <2>1
<1>7. \A i, j \in Y : f[i] = f[j] => i = j
  <2>1. \A j \in Y : j \in Nat
    BY <1>2, <1>3
  <2> QED BY <1>1, <2>1, ShiftedInjective
<1>8. \A x \in X \ {k} : \E j \in Y : f[j] = x
  <2>1. TAKE x \in X \ {k}
  <2>2. x \in 1..Len(entries) /\ x # k /\ refs[entries[x].block] = 0 /\ entries[x].block \notin protected
    BY <1>2 DEF Evictable
  <2>3. PICK j \in 1..(Len(entries) - 1) : Shifted(k, j) = x
    BY <1>3, <2>2
  <2>4. j \in Y
    BY <1>1, <1>3, <2>2, <2>3
  <2> QED BY <2>3, <2>4
<1>9. ExistsBijection(Y, X \ {k})
  <2> HIDE DEF X, Y, f
  <2>1. f \in Bijection(Y, X \ {k})
    BY <1>6, <1>7, <1>8 DEF Bijection, Injection, Surjection, IsInjective
  <2> QED BY <2>1 DEF ExistsBijection
<1>10. Cardinality(Y) = Cardinality(X) - 1
  <2> HIDE DEF X, Y, f
  <2>1. Cardinality(X \ {k}) = Cardinality(Y)
    BY <1>5, <1>9, FS_Bijection
  <2> QED BY <1>4, <2>1, FS_RemoveElement
<1> QED BY <1>4, <1>10 DEF Reclaimable, Evictable

(* Every other block stays filed under its history, and no entry appears.  *)
LEMMA EvictFiled ==
  ASSUME NEW S, NEW T, IndexTyped(S, T), NEW k \in 1..Len(entries), Evict(k)
  PROVE  /\ \A b, salt, key : Filed(b, salt, key) /\ b # entries[k].block => Filed(b, salt, key)'
         /\ \A j \in DOMAIN entries' : \E i \in 1..Len(entries) : i # k /\ entries'[j] = entries[i]
<1>1. Without(k)
  BY EvictWithout
<1>2. DOMAIN entries = 1..Len(entries) /\ Len(entries) \in Nat
  BY EntryAt
<1>3. /\ DOMAIN entries' = 1..(Len(entries) - 1)
      /\ \A j \in 1..(Len(entries) - 1) :
           Shifted(k, j) \in 1..Len(entries) /\ Shifted(k, j) # k /\ entries'[j] = entries[Shifted(k, j)]
      /\ \A i \in 1..Len(entries) : i # k => \E j \in 1..(Len(entries) - 1) : Shifted(k, j) = i
  BY <1>1 DEF Without
<1>4. ASSUME NEW b, NEW salt, NEW key, Filed(b, salt, key), b # entries[k].block
      PROVE  Filed(b, salt, key)'
  <2>1. PICK i \in 1..Len(entries) :
          entries[i].block = b /\ entries[i].salt = salt /\ entries[i].tokens = key
    BY <1>2, <1>4 DEF Filed
  <2>2. PICK j \in 1..(Len(entries) - 1) : Shifted(k, j) = i
    BY <1>3, <1>4, <2>1
  <2>3. j \in DOMAIN entries' /\ entries'[j] = entries[i]
    BY <1>3, <2>2
  <2> QED BY <2>1, <2>3 DEF Filed
<1> QED BY <1>3, <1>4
-----------------------------------------------------------------------------
(* The operation in progress.                                              *)

(* An operation is known by its name.                                      *)
LEMMA WhichCall ==
  ASSUME NEW S, NEW T, CallOK(S, T)
  PROVE  /\ call.op = "reclaim" => \E n \in Int : ReclaimCall(n)
         /\ call.op = "admit" => \E n \in Int, cached \in Seq(Block), length \in 0..MaxLength :
                                   AdmitCall(n, cached, length)
         /\ call.op = "reserve" => \E s \in Slot, cached \in Seq(Block), length \in 0..MaxLength :
                                     ReserveCall(s, cached, length)
         /\ call.op = "publish" => \E s \in Slot, tokens \in Seq(T), salt \in S, j \in Nat \ {0} :
                                     PublishCall(s, tokens, salt, j)
         /\ call.op = "clear" => ClearCall
<1>1. call = Idle => call.op = "none"
  BY DEF Idle
<1>2. (\E n \in Int : ReclaimCall(n)) => call.op = "reclaim"
  BY DEF ReclaimCall
<1>3. (\E n \in Int, cached \in Seq(Block), length \in 0..MaxLength : AdmitCall(n, cached, length))
      => call.op = "admit"
  BY DEF AdmitCall
<1>4. (\E s \in Slot, cached \in Seq(Block), length \in 0..MaxLength : ReserveCall(s, cached, length))
      => call.op = "reserve"
  BY DEF ReserveCall
<1>5. (\E s \in Slot, tokens \in Seq(T), salt \in S, j \in Nat \ {0} : PublishCall(s, tokens, salt, j))
      => call.op = "publish"
  BY DEF PublishCall
<1>6. ClearCall => call.op = "clear"
  BY DEF ClearCall
<1> QED BY <1>1, <1>2, <1>3, <1>4, <1>5, <1>6 DEF CallOK

(* The audit does not change while neither blocks nor entries do.          *)
LEMMA StillIInv ==
  ASSUME IInv, UNCHANGED vars
  PROVE  IInv' /\ Registered' = Registered
<1>1. UNCHANGED <<free, states, refs, tables, lengths, reserved, active, written, enqueued>>
  BY DEF vars
<1>2. TypeOK'
  BY <1>1 DEF IInv, TypeOK
<1>3. FreeOnce'
  BY <1>1 DEF IInv, Consistent, FreeOnce
<1>4. Extents'
  BY <1>1 DEF IInv, Consistent, Extents
<1>5. HeldStates'
  BY <1>1 DEF IInv, Consistent, HeldStates
<1>6. RefsExact'
  BY <1>1 DEF IInv, Consistent, RefsExact, Holders
<1>7. PoolAgrees'
  BY <1>1 DEF IInv, PoolAgrees
<1> QED BY <1>1, <1>2, <1>3, <1>4, <1>5, <1>6, <1>7 DEF IInv, Consistent, Registered

(* Nor does the index while its blocks stay Registered and no others do.   *)
LEMMA StillIndex ==
  ASSUME NEW S, NEW T, IndexTyped(S, T), IndexExact, UNCHANGED <<entries, clock>>,
         Registered' = Registered
  PROVE  /\ IndexTyped(S, T)' /\ IndexExact'
         /\ \A b, salt, key : Filed(b, salt, key) => Filed(b, salt, key)'
<1>1. IndexTyped(S, T)'
  BY DEF IndexTyped
<1>2. IndexExact'
  BY DEF IndexExact
<1> QED BY <1>1, <1>2 DEF Filed

(* A step that begins or ends an operation changes nothing else.           *)
LEMMA OnlyCall ==
  ASSUME NEW S, NEW T, CacheInv(S, T), UNCHANGED <<entries, clock, vars>>
  PROVE  /\ IInv' /\ IndexTyped(S, T)' /\ IndexExact'
         /\ UNCHANGED <<free, states, refs, tables, lengths, active>>
         /\ \A b, salt, key : Filed(b, salt, key) => Filed(b, salt, key)'
  BY StillIInv, StillIndex DEF CacheInv, vars

(* Nothing of the index or the manager changes.                            *)
LEMMA StillCacheInv ==
  ASSUME NEW S, NEW T, CacheInv(S, T), UNCHANGED <<vars, cacheVars>>
  PROVE  CacheInv(S, T)'
<1>1. UNCHANGED <<vars, entries, clock, call>>
  BY DEF cacheVars
<1>2. IInv' /\ IndexTyped(S, T)' /\ IndexExact'
  BY <1>1, OnlyCall
<1>3. CallOK(S, T)'
  <2>1. UNCHANGED <<free, states, refs, tables, lengths, active, entries, call>>
    BY <1>1 DEF vars
  <2>2. \A p : Evictable(p)' = Evictable(p)
    BY <2>1 DEF Evictable
  <2>3. \A p : Reclaimable(p)' = Reclaimable(p)
    BY <2>2 DEF Reclaimable
  <2>4. \A b, salt, key : Fileable(b, salt, key) => Fileable(b, salt, key)'
    BY <2>1 DEF Fileable, Filed
  <2>5. \A n \in Int : ReclaimCall(n) => ReclaimCall(n)'
    BY <2>1, <2>3 DEF ReclaimCall
  <2>6. \A n \in Int, cached \in Seq(Block), length \in 0..MaxLength :
          AdmitCall(n, cached, length) => AdmitCall(n, cached, length)'
    BY <2>1, <2>3 DEF AdmitCall
  <2>7. \A s \in Slot, cached \in Seq(Block), length \in 0..MaxLength :
          ReserveCall(s, cached, length) => ReserveCall(s, cached, length)'
    BY <2>1 DEF ReserveCall
  <2>8. ASSUME NEW s \in Slot, NEW tokens \in Seq(T), NEW salt \in S, NEW j \in Nat \ {0},
               PublishCall(s, tokens, salt, j)
        PROVE  PublishCall(s, tokens, salt, j)'
    <3>1. Remaining(s, tokens, salt, j)'
      BY <2>1, <2>8 DEF PublishCall, Remaining, Fileable, Filed, Prefix
    <3> QED BY <2>1, <2>8, <3>1 DEF PublishCall
  <2>9. ClearCall => ClearCall'
    BY <2>1 DEF ClearCall
  <2>10. (call = Idle)' <=> call = Idle
    BY <2>1 DEF Idle
  <2> QED BY <1>1, <2>5, <2>6, <2>7, <2>8, <2>9, <2>10 DEF CacheInv, CallOK
<1> QED BY <1>2, <1>3 DEF CacheInv

(* An operation has ended.                                                 *)
LEMMA EndCall ==
  ASSUME NEW S, NEW T, IInv', IndexTyped(S, T)', IndexExact', call' = Idle
  PROVE  CacheInv(S, T)'
  BY DEF CacheInv, CallOK

(* Another call on the manager, between two operations of the index.       *)
LEMMA Between ==
  ASSUME NEW S, NEW T, CacheInv(S, T), call = Idle, UNCHANGED cacheVars,
         IInv', Registered' = Registered
  PROVE  CacheInv(S, T)'
<1>1. UNCHANGED <<entries, clock>> /\ call' = Idle
  BY DEF cacheVars
<1> QED BY <1>1, StillIndex, EndCall DEF CacheInv

(* reclaim: the room it promises is there before it starts.                *)
LEMMA BeginReclaimOK ==
  ASSUME NEW S, NEW T, CacheInv(S, T), NEW required \in Int, BeginReclaim(required)
  PROVE  CacheInv(S, T)'
<1>1. /\ UNCHANGED <<entries, clock, vars>>
      /\ call' = [op |-> "reclaim", required |-> required, protected |-> {}]
      /\ required <= Len(free) + Reclaimable({})
  BY DEF BeginReclaim, CanReclaim
<1>2. IInv' /\ IndexTyped(S, T)' /\ IndexExact' /\ UNCHANGED <<free, refs>>
  BY <1>1, OnlyCall
<1>3. Reclaimable({})' = Reclaimable({})
  BY <1>1, <1>2 DEF Reclaimable, Evictable
<1>4. ReclaimCall(required)'
  BY <1>1, <1>2, <1>3 DEF ReclaimCall
<1> QED BY <1>2, <1>4 DEF CacheInv, CallOK

(* admit: likewise, and its prefix is distinct Registered blocks.          *)
LEMMA BeginAdmitOK ==
  ASSUME NEW S, NEW T, CacheInv(S, T), NEW cached \in Seq(Block), NEW length \in 0..MaxLength,
         NEW watermark, BeginAdmit(cached, length, watermark)
  PROVE  CacheInv(S, T)'
<1> DEFINE required == CeilDiv(length, BlockSize) - Len(cached) + watermark
<1>1. /\ UNCHANGED <<entries, clock, vars>>
      /\ call' = [op |-> "admit", required |-> required, protected |-> Range(cached),
                  cached |-> cached, length |-> length]
      /\ required <= Len(free) + Reclaimable(Range(cached))
      /\ Len(cached) * BlockSize <= length /\ watermark \in 0..Cardinality(Block)
      /\ PrefixTable(cached)
  BY DEF BeginAdmit, CanReclaim
<1>2. IInv' /\ IndexTyped(S, T)' /\ IndexExact' /\ UNCHANGED <<free, refs, states>>
  BY <1>1, OnlyCall
<1>3. Reclaimable(Range(cached))' = Reclaimable(Range(cached))
  BY <1>1, <1>2 DEF Reclaimable, Evictable
<1>4. Len(cached) \in Nat /\ DOMAIN cached = 1..Len(cached)
  OBVIOUS
<1>5. IsInjective(cached) /\ \A i \in 1..Len(cached) : states[cached[i]] = REGISTERED
  BY <1>1, <1>4 DEF PrefixTable
<1>6. required \in Int /\ CeilDiv(length, BlockSize) - Len(cached) <= required
  <2>1. CeilDiv(length, BlockSize) \in Nat
    BY GeometryAssumption, CeilType
  <2>2. watermark \in Nat
    BY <1>1, GeometryAssumption, FS_CardinalityType
  <2> QED BY <1>4, <2>1, <2>2
<1> HIDE DEF required
<1>7. AdmitCall(required, cached, length)'
  BY <1>1, <1>2, <1>3, <1>5, <1>6 DEF AdmitCall
<1> QED BY <1>2, <1>6, <1>7 DEF CacheInv, CallOK

(* An operation that evicts loses no room: what it still needs is there.   *)
LEMMA ReclaimOneOK ==
  ASSUME NEW S, NEW T, CacheInv(S, T), ReclaimOne
  PROVE  CacheInv(S, T)'
<1>1. PICK k \in Victims(call.protected) : Evict(k)
  BY DEF ReclaimOne
<1>2. /\ UNCHANGED <<clock, call>> /\ call.op \in {"reclaim", "admit"}
      /\ IInv /\ IndexTyped(S, T) /\ IndexExact /\ CallOK(S, T)
  BY DEF ReclaimOne, CacheInv
<1>3. k \in 1..Len(entries) /\ entries[k].block \notin call.protected
  BY <1>2, EntryAt DEF Victims, Evictable
<1>4. /\ IInv' /\ IndexTyped(S, T)' /\ IndexExact'
      /\ Len(free') = Len(free) + 1 /\ Len(free) \in Nat
  BY <1>1, <1>2, <1>3, EvictIndex
<1>5. \A P : P = call.protected =>
         Reclaimable(P) \in Nat /\ Reclaimable(P)' = Reclaimable(P) - 1
  BY <1>1, <1>2, <1>3, EvictRoom
<1>6. CASE call.op = "reclaim"
  <2>1. PICK n \in Int : ReclaimCall(n)
    BY <1>2, <1>6, WhichCall
  <2>2. call.protected = {} /\ n <= Len(free) + Reclaimable({})
    BY <2>1 DEF ReclaimCall
  <2>3. Reclaimable({}) \in Nat /\ Reclaimable({})' = Reclaimable({}) - 1
    BY <1>5, <2>2
  <2>4. n <= Len(free') + Reclaimable({})'
    BY <1>4, <2>2, <2>3
  <2>5. ReclaimCall(n)'
    BY <1>2, <2>1, <2>4 DEF ReclaimCall
  <2> QED BY <1>4, <2>5 DEF CacheInv, CallOK
<1>7. CASE call.op = "admit"
  <2>1. PICK n \in Int, cached \in Seq(Block), length \in 0..MaxLength : AdmitCall(n, cached, length)
    BY <1>2, <1>7, WhichCall
  <2>2. PICK P : P = Range(cached)
    OBVIOUS
  <2>3. call.protected = P /\ n <= Len(free) + Reclaimable(P)
    BY <2>1, <2>2 DEF AdmitCall
  <2>4. Reclaimable(P) \in Nat /\ Reclaimable(P)' = Reclaimable(P) - 1
    BY <1>5, <2>3
  <2>5. n <= Len(free') + Reclaimable(P)'
    BY <1>4, <2>3, <2>4
  <2>6. n <= Len(free') + Reclaimable(Range(cached))'
    BY <2>2, <2>5 DEF Reclaimable, Evictable
  <2>7. \A i \in 1..Len(cached) : states'[cached[i]] = REGISTERED
    <3>1. TAKE i \in 1..Len(cached)
    <3>2. cached[i] \in P /\ states[cached[i]] = REGISTERED /\ cached[i] \in Block
      BY <2>1, <2>2 DEF AdmitCall, Range
    <3>3. cached[i] # entries[k].block
      BY <1>3, <2>3, <3>2
    <3>4. states' = [states EXCEPT ![entries[k].block] = RESET] /\ states \in [Block -> State]
      BY <1>1, <1>2 DEF Evict, EvictRegistered, IInv, TypeOK
    <3> QED BY <3>2, <3>3, <3>4
  <2>8. AdmitCall(n, cached, length)'
    BY <1>2, <2>1, <2>6, <2>7 DEF AdmitCall
  <2> QED BY <1>4, <2>8 DEF CacheInv, CallOK
<1> QED BY <1>2, <1>6, <1>7

(* Attaching a matched prefix makes its readers, and leaves the room for   *)
(* the private tail that reservation takes next.                           *)
LEMMA AdmitAttachOK ==
  ASSUME NEW S, NEW T, CacheInv(S, T), NEW s \in Slot, AdmitAttach(s)
  PROVE  CacheInv(S, T)'
<1>1. /\ call.op = "admit" /\ call.required <= Len(free) /\ Attach(s, call.cached)
      /\ call' = [op |-> "reserve", sequence |-> s, cached |-> call.cached, length |-> call.length]
      /\ UNCHANGED <<entries, clock>>
      /\ IInv /\ IndexTyped(S, T) /\ IndexExact /\ CallOK(S, T)
  BY DEF AdmitAttach, CacheInv
<1>2. PICK n \in Int, cached \in Seq(Block), length \in 0..MaxLength : AdmitCall(n, cached, length)
  BY <1>1, WhichCall
<1>3. /\ call.cached = cached /\ call.length = length /\ call.required = n
      /\ Len(cached) * BlockSize <= length /\ IsInjective(cached)
      /\ \A i \in 1..Len(cached) : states[cached[i]] = REGISTERED
      /\ CeilDiv(length, BlockSize) - Len(cached) <= n
  BY <1>2 DEF AdmitCall
<1>4. Attach(s, cached)
  BY <1>1, <1>3
<1>5. cached \in CachedPrefixes
  <2>1. BlockSize \in Nat \ {0} /\ MaxLength \in Nat
    BY GeometryAssumption
  <2>2. Len(cached) \in Nat /\ cached \in [1..Len(cached) -> Block]
    OBVIOUS
  <2>3. Len(cached) <= MaxLength \div BlockSize
    <3>1. Len(cached) * BlockSize <= MaxLength
      <4>1. Len(cached) * BlockSize \in Nat
        BY <2>1, <2>2
      <4> QED BY <1>3, <2>1, <4>1
    <3> QED BY <2>1, <2>2, <3>1, FloorBound
  <2>4. MaxLength \div BlockSize \in Nat
    BY <2>1, Division
  <2>5. cached \in [1..Len(cached) -> Registered]
    BY <1>3, <2>2 DEF Registered
  <2>6. Len(cached) \in 0..(MaxLength \div BlockSize)
    BY <2>2, <2>3, <2>4
  <2> QED BY <1>3, <2>5, <2>6 DEF CachedPrefixes
<1>6. IInv'
  BY <1>1, <1>4, <1>5, AttachIInv
<1>7. Registered' = Registered
  BY <1>4 DEF Attach, Registered
<1>8. IndexTyped(S, T)' /\ IndexExact'
  BY <1>1, <1>7, StillIndex
<1>9. /\ active'[s] /\ tables'[s] = cached /\ lengths'[s] = Len(cached) * BlockSize
      /\ free' = free
  BY <1>1, <1>4 DEF Attach, IInv, TypeOK
<1>10. CeilDiv(length, BlockSize) - Len(cached) <= Len(free')
  <2>1. CeilDiv(length, BlockSize) \in Nat
    <3>1. length \in Nat /\ BlockSize \in Nat \ {0}
      BY GeometryAssumption
    <3> QED BY <3>1, CeilType
  <2>2. Len(free) \in Nat /\ Len(cached) \in Nat
    BY <1>1 DEF IInv, TypeOK
  <2> QED BY <1>1, <1>3, <1>9, <2>1, <2>2
<1>11. ReserveCall(s, cached, length)'
  BY <1>1, <1>3, <1>9, <1>10 DEF ReserveCall
<1> QED BY <1>6, <1>8, <1>11 DEF CacheInv, CallOK

(* Restamping moves no entry.                                              *)
LEMMA StampKeeps ==
  ASSUME NEW S, NEW T, IndexTyped(S, T), NEW cached, entries' = Stamped(cached), clock' = Tick
  PROVE  /\ IndexTyped(S, T)' /\ DOMAIN entries' = DOMAIN entries /\ Len(entries') = Len(entries)
         /\ \A k \in DOMAIN entries :
              /\ entries'[k].block = entries[k].block
              /\ entries'[k].salt = entries[k].salt
              /\ entries'[k].tokens = entries[k].tokens
<1>1. /\ entries \in Seq(Entry(S, T)) /\ clock \in Nat
      /\ Len(entries) \in Nat /\ DOMAIN entries = 1..Len(entries)
      /\ \A k \in 1..Len(entries) : entries[k] \in Entry(S, T)
  BY EntryAt
<1>2. Tick \in Nat
  BY <1>1, CacheAssumption DEF Tick
<1>3. /\ DOMAIN entries' = 1..Len(entries)
      /\ \A k \in 1..Len(entries) : entries'[k] = IF entries[k].block \in Range(cached)
           THEN [entries[k] EXCEPT !.lastUsed = Tick] ELSE entries[k]
      /\ entries' = [k \in 1..Len(entries) |-> entries'[k]]
  BY <1>1 DEF Stamped
<1>4. \A e \in Entry(S, T) :
        /\ [e EXCEPT !.lastUsed = Tick] \in Entry(S, T)
        /\ [e EXCEPT !.lastUsed = Tick].block = e.block
        /\ [e EXCEPT !.lastUsed = Tick].salt = e.salt
        /\ [e EXCEPT !.lastUsed = Tick].tokens = e.tokens
  BY <1>2 DEF Entry
<1>5. \A k \in 1..Len(entries) :
        /\ entries'[k] \in Entry(S, T) /\ entries'[k].block = entries[k].block
        /\ entries'[k].salt = entries[k].salt /\ entries'[k].tokens = entries[k].tokens
  <2>1. TAKE k \in 1..Len(entries)
  <2>2. entries[k] \in Entry(S, T)
    BY <1>1
  <2>3. \/ entries'[k] = [entries[k] EXCEPT !.lastUsed = Tick]
        \/ entries'[k] = entries[k]
    BY <1>3
  <2> QED BY <1>4, <2>2, <2>3
<1>6. entries' \in [1..Len(entries) -> Entry(S, T)]
  BY <1>3, <1>5
<1>7. entries' \in Seq(Entry(S, T)) /\ Len(entries') = Len(entries)
  BY <1>1, <1>6
<1> QED BY <1>1, <1>2, <1>3, <1>5, <1>7 DEF IndexTyped

(* Reservation takes free blocks, and those are not in the index.          *)
LEMMA ReserveRegistered ==
  ASSUME IInv, NEW s \in Slot, NEW length \in 0..MaxLength, Reserve(s, length)
  PROVE  /\ Registered' = Registered
         /\ \A b \in Block : states[b] # RESET => states'[b] = states[b]
<1> DEFINE count == Larger(CeilDiv(length, BlockSize) - Len(tables[s]), 0)
           new   == Popped(count)
<1>1. TypeOK /\ FreeOnce
  BY DEF IInv, Consistent
<1>2. count \in Nat /\ count <= Len(free)
  <2>1. free \in Seq(Block)
    BY <1>1 DEF TypeOK
  <2>2. Len(tables[s]) \in Nat
    BY <1>1, TableType
  <2>3. CeilDiv(length, BlockSize) \in Nat
    BY GeometryAssumption, CeilType
  <2>4. CeilDiv(length, BlockSize) - Len(tables[s]) <= Len(free)
    BY DEF Reserve
  <2> QED BY <2>1, <2>2, <2>3, <2>4 DEF Larger
<1>3. states' = [b \in Block |-> IF b \in Range(new) THEN PARTIAL ELSE states[b]]
  BY DEF Reserve
<1> HIDE DEF count
<1>4. Range(new) \subseteq Range(free)
  BY <1>1, <1>2, PoppedBlocks
<1>5. \A b \in Range(new) : b \in Block /\ states[b] = RESET
  BY <1>1, <1>4 DEF FreeOnce
<1> HIDE DEF new
<1> QED BY <1>3, <1>5 DEF Registered

(* Nor do the manager's other calls touch the index's blocks.              *)
LEMMA OthersRegistered ==
  ASSUME IInv
  PROVE  /\ \A s \in Slot, length \in 0..MaxLength : Write(s, length) => Registered' = Registered
         /\ \A s \in Slot : Commit(s) => Registered' = Registered
         /\ \A s \in Slot : Detach(s) => Registered' = Registered
<1>1. ASSUME NEW s \in Slot, NEW length \in 0..MaxLength, Write(s, length)
      PROVE  Registered' = Registered
  BY <1>1 DEF Write, Registered
<1>2. ASSUME NEW s \in Slot, Commit(s)
      PROVE  Registered' = Registered
  BY <1>2 DEF Commit, Registered
<1>3. ASSUME NEW s \in Slot, Detach(s)
      PROVE  Registered' = Registered
  <2>1. PICK given : states' = [b \in Block |-> IF b \in Freed(given) THEN RESET ELSE states[b]]
    BY <1>3 DEF Detach, ReleaseAll
  <2> QED BY <2>1, FreedPrivate DEF Registered
<1> QED BY <1>1, <1>2, <1>3

(* The last step of an admission takes the private tail.                   *)
LEMMA AdmitReserveOK ==
  ASSUME NEW S, NEW T, CacheInv(S, T), AdmitReserve
  PROVE  /\ CacheInv(S, T)' /\ Registered' = Registered
         /\ \A b, salt, key : Filed(b, salt, key) => Filed(b, salt, key)'
         /\ \A k \in DOMAIN entries' : k \in DOMAIN entries
              /\ entries'[k].block = entries[k].block /\ entries'[k].tokens = entries[k].tokens
<1>0. call.op = "reserve"
  BY DEF AdmitReserve
<1>1. /\ Reserve(call.sequence, call.length) /\ clock' = Tick
      /\ entries' = Stamped(call.cached) /\ call' = Idle
      /\ IInv /\ IndexTyped(S, T) /\ IndexExact /\ CallOK(S, T)
  BY DEF AdmitReserve, CacheInv
<1>2. PICK s \in Slot, cached \in Seq(Block), length \in 0..MaxLength : ReserveCall(s, cached, length)
  BY <1>0, <1>1, WhichCall
<1>3. call.sequence = s /\ call.length = length /\ call.cached = cached
  BY <1>2 DEF ReserveCall
<1>4. Reserve(s, length) /\ entries' = Stamped(cached)
  BY <1>1, <1>3
<1>5. IInv'
  BY <1>1, <1>4, ReserveIInv
<1>6. /\ IndexTyped(S, T)' /\ DOMAIN entries' = DOMAIN entries /\ Len(entries') = Len(entries)
      /\ \A k \in DOMAIN entries :
           /\ entries'[k].block = entries[k].block
           /\ entries'[k].salt = entries[k].salt
           /\ entries'[k].tokens = entries[k].tokens
  BY <1>1, <1>4, StampKeeps
<1>7. Registered' = Registered
  BY <1>1, <1>4, ReserveRegistered
<1>8. \A b, salt, key : Filed(b, salt, key) => Filed(b, salt, key)'
  BY <1>6 DEF Filed
<1>9. IndexExact'
  <2>1. Len(entries') <= Capacity
    BY <1>1, <1>6 DEF IndexExact
  <2>2. ASSUME NEW i \in DOMAIN entries', NEW j \in DOMAIN entries', i # j
        PROVE  /\ entries'[i].block # entries'[j].block
               /\ <<entries'[i].salt, entries'[i].tokens>> # <<entries'[j].salt, entries'[j].tokens>>
    BY <1>1, <1>6, <2>2 DEF IndexExact
  <2>3. {entries'[k].block : k \in DOMAIN entries'} = {entries[k].block : k \in DOMAIN entries}
    BY <1>6
  <2>4. {entries[k].block : k \in DOMAIN entries} = Registered
    BY <1>1 DEF IndexExact
  <2> QED BY <1>7, <2>1, <2>2, <2>3, <2>4 DEF IndexExact
<1> QED BY <1>1, <1>5, <1>6, <1>7, <1>8, <1>9, EndCall

(* clear: no entry has a reader, and none gains one.                       *)
LEMMA BeginClearOK ==
  ASSUME NEW S, NEW T, CacheInv(S, T), BeginClear
  PROVE  CacheInv(S, T)'
<1>1. /\ UNCHANGED <<entries, clock, vars>> /\ call' = [op |-> "clear"]
      /\ Evictable({}) = DOMAIN entries
  BY DEF BeginClear
<1>2. IInv' /\ IndexTyped(S, T)' /\ IndexExact' /\ UNCHANGED refs
  BY <1>1, OnlyCall
<1>3. \A k \in DOMAIN entries : refs[entries[k].block] = 0
  BY <1>1 DEF Evictable
<1>4. ClearCall'
  BY <1>1, <1>2, <1>3 DEF ClearCall
<1> QED BY <1>2, <1>4 DEF CacheInv, CallOK

(* The entries go first to last, each back to the free list.               *)
LEMMA ClearOneOK ==
  ASSUME NEW S, NEW T, CacheInv(S, T), ClearOne
  PROVE  CacheInv(S, T)'
<1>1. /\ call.op = "clear" /\ entries # <<>> /\ Evict(1) /\ UNCHANGED <<clock, call>>
      /\ IInv /\ IndexTyped(S, T) /\ IndexExact /\ CallOK(S, T)
  BY DEF ClearOne, CacheInv
<1>2. ClearCall
  BY <1>1, WhichCall
<1>3. 1 \in 1..Len(entries) /\ DOMAIN entries = 1..Len(entries)
  <2>1. entries \in Seq(Entry(S, T)) /\ DOMAIN entries = 1..Len(entries)
    BY <1>1, EntryAt
  <2> QED BY <1>1, <2>1, EmptySeq
<1>4. IInv' /\ IndexTyped(S, T)' /\ IndexExact' /\ refs' = refs
  BY <1>1, <1>3, EvictIndex
<1>5. \A j \in DOMAIN entries' : \E i \in 1..Len(entries) : entries'[j] = entries[i]
  BY <1>1, <1>3, EvictFiled
<1>6. \A j \in DOMAIN entries' : refs'[entries'[j].block] = 0
  BY <1>2, <1>3, <1>4, <1>5 DEF ClearCall
<1>7. ClearCall'
  BY <1>1, <1>2, <1>6 DEF ClearCall
<1> QED BY <1>4, <1>7 DEF CacheInv, CallOK

(* An operation that has nothing left to do ends.                          *)
LEMMA EndOK ==
  ASSUME NEW S, NEW T, CacheInv(S, T), EndReclaim \/ EndPublish \/ EndClear
  PROVE  CacheInv(S, T)'
<1>1. UNCHANGED <<entries, clock, vars>> /\ call' = Idle
  BY DEF EndReclaim, EndPublish, EndClear
<1> QED BY <1>1, OnlyCall, EndCall
-----------------------------------------------------------------------------
(* Publication.                                                            *)

(* A key that is in the index names one block.                             *)
LEMMA FoundIsFiled ==
  ASSUME NEW tokens, NEW salt, NEW i,
         Indexed(tokens, salt, i)
  PROVE  Filed(BlockAt(tokens, salt, i), salt, Prefix(tokens, i * BlockSize))
<1>1. PICK k : k = CHOOSE j \in Find(Prefix(tokens, i * BlockSize), salt) : TRUE
  OBVIOUS
<1>2. k \in Find(Prefix(tokens, i * BlockSize), salt)
  BY <1>1 DEF Indexed
<1>3. BlockAt(tokens, salt, i) = entries[k].block
  BY <1>1 DEF BlockAt
<1> QED BY <1>2, <1>3 DEF Filed, Find

(* The blocks of a live sequence are read, so never an idle entry's.       *)
LEMMA HeldIsRead ==
  ASSUME IInv, NEW s \in Slot, NEW i \in 1..Len(tables[s])
  PROVE  tables[s][i] \in Block /\ refs[tables[s][i]] # 0 /\ s \in Holders(tables[s][i])
<1>1. TypeOK /\ RefsExact
  BY DEF IInv, Consistent
<1>2. PICK b : b = tables[s][i]
  OBVIOUS
<1>3. b \in Block
  BY <1>1, <1>2, TableType
<1>4. s \in Holders(b) /\ IsFiniteSet(Holders(b))
  BY <1>1, <1>2, <1>3, HolderIndex
<1>5. refs[b] = Cardinality(Holders(b))
  BY <1>1, <1>3 DEF RefsExact
<1>6. refs[b] # 0
  BY <1>4, <1>5, FS_EmptySet
<1> QED BY <1>2, <1>3, <1>4, <1>6

(* The full blocks of a sequence are entries of its table.                 *)
LEMMA FullHeld ==
  ASSUME IInv, NEW s \in Slot, NEW i \in 1..(lengths[s] \div BlockSize)
  PROVE  i \in 1..Len(tables[s])
<1>1. TypeOK /\ Extents
  BY DEF IInv, Consistent
<1>2. /\ lengths[s] \in Nat /\ reserved[s] \in Nat /\ lengths[s] <= reserved[s]
      /\ Len(tables[s]) = CeilDiv(reserved[s], BlockSize)
  BY <1>1, ExtentType
<1>3. /\ lengths[s] \div BlockSize <= reserved[s] \div BlockSize
      /\ lengths[s] \div BlockSize \in Nat /\ reserved[s] \div BlockSize \in Nat
      /\ reserved[s] \div BlockSize <= CeilDiv(reserved[s], BlockSize)
  BY <1>2, FullMonotone
<1>4. CeilDiv(reserved[s], BlockSize) \in Nat
  BY <1>2, GeometryAssumption, CeilType
<1> QED BY <1>2, <1>3, <1>4

(* What is left to publish, after a step that moves no table.              *)
LEMMA StillRemaining ==
  ASSUME NEW s, NEW tokens, NEW salt, NEW m, UNCHANGED <<tables, lengths>>,
         \A i \in m..(lengths[s] \div BlockSize) : \A b, key :
           b = tables[s][i] /\ key = Prefix(tokens, i * BlockSize) => Fileable(b, salt, key)'
  PROVE  Remaining(s, tokens, salt, m)'
<1>1. ASSUME NEW i \in m..(lengths[s] \div BlockSize)
      PROVE  Fileable(tables[s][i], salt, Prefix(tokens, i * BlockSize))'
  <2>1. PICK b, key : b = tables[s][i] /\ key = Prefix(tokens, i * BlockSize)
    OBVIOUS
  <2>2. Fileable(b, salt, key)' /\ tables'[s][i] = b
    BY <1>1, <2>1
  <2> QED BY <2>1, <2>2 DEF Fileable, Filed, Prefix
<1> QED BY <1>1 DEF Remaining

(* publish: validation leaves every full block filed under the sequence's  *)
(* own history or private.                                                 *)
LEMMA BeginPublishOK ==
  ASSUME NEW S, NEW T, CacheInv(S, T), NEW s \in Slot, NEW tokens \in Seq(T), NEW salt \in S,
         BeginPublish(s, tokens, salt)
  PROVE  CacheInv(S, T)'
<1>1. /\ UNCHANGED <<entries, clock, vars>> /\ active[s] /\ lengths[s] <= Len(tokens)
      /\ call' = [op |-> "publish", sequence |-> s, tokens |-> tokens, salt |-> salt, ordinal |-> 1]
      /\ \A i \in 1..(lengths[s] \div BlockSize) :
           IF states[tables[s][i]] = REGISTERED
           THEN Indexed(tokens, salt, i) /\ BlockAt(tokens, salt, i) = tables[s][i]
           ELSE states[tables[s][i]] = COMPLETE /\ refs[tables[s][i]] = 1
  <2>1. lengths[s] \in Nat /\ Len(tokens) \in Nat
    <3>1. lengths[s] \in Nat
      BY DEF CacheInv, IInv, TypeOK
    <3> QED BY <3>1
  <2>2. Publishable(s, tokens, salt)
    BY DEF BeginPublish
  <2>3. Len(tokens) >= lengths[s]
    BY <2>2 DEF Publishable
  <2> QED BY <2>1, <2>2, <2>3 DEF BeginPublish, Publishable
<1>2. /\ IInv' /\ IndexTyped(S, T)' /\ IndexExact'
      /\ UNCHANGED <<refs, states, tables, lengths, active>>
      /\ \A b, t, key : Filed(b, t, key) => Filed(b, t, key)'
  BY <1>1, OnlyCall
<1>3. \A i \in 1..(lengths[s] \div BlockSize) :
        Fileable(tables[s][i], salt, Prefix(tokens, i * BlockSize))
  BY <1>1, FoundIsFiled DEF Fileable
<1>4. \A b, t, key : Fileable(b, t, key) => Fileable(b, t, key)'
  BY <1>2 DEF Fileable
<1>5. Remaining(s, tokens, salt, 1)'
  BY <1>2, <1>3, <1>4, StillRemaining
<1>6. 1 <= lengths'[s] \div BlockSize + 1
  <2>1. lengths[s] \div BlockSize \in Nat
    BY GeometryAssumption, Division DEF CacheInv, IInv, TypeOK
  <2> QED BY <1>2, <2>1
<1>7. PublishCall(s, tokens, salt, 1)'
  BY <1>1, <1>2, <1>5, <1>6 DEF PublishCall
<1> QED BY <1>2, <1>7 DEF CacheInv, CallOK

(* The publication in progress and the block it has reached.               *)
LEMMA PublishingAt ==
  ASSUME NEW S, NEW T, CacheInv(S, T), Publishing
  PROVE  \E s \in Slot, tokens \in Seq(T), salt \in S, j \in Nat \ {0} :
           /\ PublishCall(s, tokens, salt, j)
           /\ call.sequence = s /\ call.tokens = tokens /\ call.salt = salt /\ call.ordinal = j
           /\ j \in 1..(lengths[s] \div BlockSize) /\ lengths[s] \div BlockSize \in Nat
<1>1. call.op = "publish" /\ call.ordinal <= lengths[call.sequence] \div BlockSize
  BY DEF Publishing
<1>2. PICK s \in Slot, tokens \in Seq(T), salt \in S, j \in Nat \ {0} : PublishCall(s, tokens, salt, j)
  BY <1>1, WhichCall DEF CacheInv
<1>3. call.sequence = s /\ call.tokens = tokens /\ call.salt = salt /\ call.ordinal = j
  BY <1>2 DEF PublishCall
<1>4. lengths[s] \div BlockSize \in Nat
  BY GeometryAssumption, Division DEF CacheInv, IInv, TypeOK
<1>5. j \in 1..(lengths[s] \div BlockSize)
  BY <1>1, <1>3, <1>4
<1> QED BY <1>2, <1>3, <1>4, <1>5

(* A block skipped stays as it is.                                         *)
LEMMA PublishSkipOK ==
  ASSUME NEW S, NEW T, CacheInv(S, T), PublishSkip
  PROVE  CacheInv(S, T)'
<1>1. Publishing /\ call' = [call EXCEPT !.ordinal = @ + 1] /\ UNCHANGED <<entries, clock, vars>>
  BY DEF PublishSkip
<1>2. /\ IInv' /\ IndexTyped(S, T)' /\ IndexExact'
      /\ UNCHANGED <<refs, states, tables, lengths, active>>
      /\ \A b, t, key : Filed(b, t, key) => Filed(b, t, key)'
  BY <1>1, OnlyCall
<1>3. PICK s \in Slot, tokens \in Seq(T), salt \in S, j \in Nat \ {0} :
        PublishCall(s, tokens, salt, j) /\ j \in 1..(lengths[s] \div BlockSize)
        /\ lengths[s] \div BlockSize \in Nat
  BY <1>1, PublishingAt
<1>4. call' = [op |-> "publish", sequence |-> s, tokens |-> tokens, salt |-> salt, ordinal |-> j + 1]
  BY <1>1, <1>3 DEF PublishCall
<1>5. j + 1 \in Nat \ {0} /\ j + 1 <= lengths'[s] \div BlockSize + 1
  BY <1>2, <1>3
<1>6. \A b, t, key : Fileable(b, t, key) => Fileable(b, t, key)'
  BY <1>2 DEF Fileable
<1>7. Remaining(s, tokens, salt, j + 1)'
  <2>1. \A i \in (j + 1)..(lengths[s] \div BlockSize) : i \in j..(lengths[s] \div BlockSize)
    BY <1>3
  <2>2. \A i \in j..(lengths[s] \div BlockSize) :
          Fileable(tables[s][i], salt, Prefix(tokens, i * BlockSize))
    BY <1>3 DEF PublishCall, Remaining
  <2> QED BY <1>2, <1>6, <2>1, <2>2, StillRemaining
<1>8. active'[s] /\ lengths'[s] <= Len(tokens)
  BY <1>2, <1>3 DEF PublishCall
<1>9. PublishCall(s, tokens, salt, j + 1)'
  BY <1>4, <1>5, <1>7, <1>8 DEF PublishCall
<1> QED BY <1>2, <1>5, <1>9 DEF CacheInv, CallOK

(* Making room in a full index never takes a block of the sequence.        *)
LEMMA PublishEvictOK ==
  ASSUME NEW S, NEW T, CacheInv(S, T), PublishEvict
  PROVE  CacheInv(S, T)'
<1>1. PICK k \in Victims({}) : Evict(k)
  BY DEF PublishEvict
<1>2. /\ Publishing /\ UNCHANGED <<clock, call>>
      /\ IInv /\ IndexTyped(S, T) /\ IndexExact
  BY DEF PublishEvict, CacheInv
<1>3. k \in 1..Len(entries)
  BY <1>2, EntryAt DEF Victims, Evictable
<1>4. PICK s \in Slot, tokens \in Seq(T), salt \in S, j \in Nat \ {0} :
        PublishCall(s, tokens, salt, j) /\ j \in 1..(lengths[s] \div BlockSize)
        /\ lengths[s] \div BlockSize \in Nat
  BY <1>2, PublishingAt
<1>5. /\ IInv' /\ IndexTyped(S, T)' /\ IndexExact'
      /\ UNCHANGED <<refs, tables, lengths, active>>
  BY <1>1, <1>2, <1>3, EvictIndex
<1>6. \A b, t, key : Filed(b, t, key) /\ b # entries[k].block => Filed(b, t, key)'
  BY <1>1, <1>2, <1>3, EvictFiled
<1>7. refs[entries[k].block] = 0
  BY <1>1, <1>2, <1>3, EvictWithout
<1>8. states' = [states EXCEPT ![entries[k].block] = RESET] /\ states \in [Block -> State]
  BY <1>1, <1>2 DEF Evict, EvictRegistered, IInv, TypeOK
<1>9. \A i \in j..(lengths[s] \div BlockSize) : \A b, key :
        b = tables[s][i] /\ key = Prefix(tokens, i * BlockSize) => Fileable(b, salt, key)'
  <2>1. TAKE i \in j..(lengths[s] \div BlockSize)
  <2>2. TAKE b, key
  <2>3. HAVE b = tables[s][i] /\ key = Prefix(tokens, i * BlockSize)
  <2>4. i \in 1..(lengths[s] \div BlockSize)
    BY <1>4
  <2>5. b \in Block /\ refs[b] # 0
    BY <1>2, <2>3, <2>4, FullHeld, HeldIsRead
  <2>6. states'[b] = states[b] /\ refs'[b] = refs[b] /\ b # entries[k].block
    BY <1>5, <1>7, <1>8, <2>5
  <2>7. Fileable(b, salt, key)
    BY <1>4, <2>3 DEF PublishCall, Remaining
  <2> QED BY <1>6, <2>6, <2>7 DEF Fileable
<1>10. Remaining(s, tokens, salt, j)'
  BY <1>5, <1>9, StillRemaining
<1>11. PublishCall(s, tokens, salt, j)'
  BY <1>2, <1>4, <1>5, <1>10 DEF PublishCall
<1> QED BY <1>5, <1>11 DEF CacheInv, CallOK

(* The entry a published block gets, after those already there.            *)
LEMMA NewEntry ==
  ASSUME NEW S, NEW T, IndexTyped(S, T), NEW e \in Entry(S, T),
         entries' = Append(entries, e), clock' = Tick
  PROVE  /\ IndexTyped(S, T)' /\ Len(entries) \in Nat
         /\ Len(entries') = Len(entries) + 1 /\ DOMAIN entries' = 1..(Len(entries) + 1)
         /\ \A k \in 1..Len(entries) : entries'[k] = entries[k]
         /\ entries'[Len(entries) + 1] = e
         /\ Filed(e.block, e.salt, e.tokens)'
         /\ \A b, salt, key : Filed(b, salt, key) => Filed(b, salt, key)'
<1>1. entries \in Seq(Entry(S, T)) /\ Len(entries) \in Nat /\ DOMAIN entries = 1..Len(entries)
      /\ clock \in Nat
  BY EntryAt
<1>2. /\ entries' \in Seq(Entry(S, T)) /\ Len(entries') = Len(entries) + 1
      /\ \A k \in 1..Len(entries) : entries'[k] = entries[k]
      /\ entries'[Len(entries) + 1] = e
  BY <1>1, AppendProperties
<1>3. DOMAIN entries' = 1..(Len(entries) + 1)
  BY <1>2
<1>4. IndexTyped(S, T)'
  BY <1>1, <1>2, CacheAssumption DEF IndexTyped, Tick
<1>5. Filed(e.block, e.salt, e.tokens)'
  <2>1. Len(entries) + 1 \in DOMAIN entries'
    BY <1>1, <1>3
  <2> QED BY <1>2, <2>1 DEF Filed
<1>6. \A b, salt, key : Filed(b, salt, key) => Filed(b, salt, key)'
  <2>1. \A k \in DOMAIN entries : k \in DOMAIN entries' /\ entries'[k] = entries[k]
    BY <1>1, <1>2, <1>3
  <2> QED BY <2>1 DEF Filed
<1> QED BY <1>1, <1>2, <1>3, <1>4, <1>5, <1>6

(* Registering one full block files it under the sequence's own history.   *)
Registers(T, s, tokens, salt, j) ==
  /\ PublishCall(s, tokens, salt, j)
  /\ j \in 1..(lengths[s] \div BlockSize) /\ lengths[s] \div BlockSize \in Nat
  /\ j * BlockSize <= lengths[s] /\ lengths[s] <= Len(tokens)
  /\ j \in 1..Len(tables[s]) /\ tables[s][j] \in Block
  /\ Register(s, j) /\ ~Indexed(tokens, salt, j) /\ ~Full
  /\ Prefix(tokens, j * BlockSize) \in Seq(T)
  /\ entries' = Append(entries, [salt |-> salt, tokens |-> Prefix(tokens, j * BlockSize),
                                 block |-> tables[s][j], lastUsed |-> Tick])
  /\ clock' = Tick
  /\ call' = [op |-> "publish", sequence |-> s, tokens |-> tokens, salt |-> salt,
              ordinal |-> j + 1]

(* That is what the step does.                                             *)
LEMMA RegisterStep ==
  ASSUME NEW S, NEW T, CacheInv(S, T), PublishRegister
  PROVE  \E s \in Slot, tokens \in Seq(T), salt \in S, j \in Nat \ {0} :
           Registers(T, s, tokens, salt, j)
<1>1. Publishing /\ ~Known /\ ~Full /\ Register(call.sequence, call.ordinal) /\ clock' = Tick
      /\ entries' = Append(entries,
           [salt |-> call.salt, tokens |-> Prefix(call.tokens, call.ordinal * BlockSize),
            block |-> tables[call.sequence][call.ordinal], lastUsed |-> Tick])
      /\ call' = [call EXCEPT !.ordinal = @ + 1]
  BY DEF PublishRegister
<1>2. PICK s \in Slot, tokens \in Seq(T), salt \in S, j \in Nat \ {0} :
        /\ PublishCall(s, tokens, salt, j)
        /\ call.sequence = s /\ call.tokens = tokens /\ call.salt = salt /\ call.ordinal = j
        /\ j \in 1..(lengths[s] \div BlockSize) /\ lengths[s] \div BlockSize \in Nat
  BY <1>1, PublishingAt
<1>3. IInv /\ lengths[s] \in Nat /\ lengths[s] <= Len(tokens) /\ Len(tokens) \in Nat
  <2>1. IInv /\ lengths[s] \in Nat
    BY DEF CacheInv, IInv, TypeOK
  <2>2. lengths[s] <= Len(tokens)
    BY <1>2 DEF PublishCall
  <2> QED BY <2>1, <2>2
<1>4. j \in 1..Len(tables[s]) /\ tables[s][j] \in Block
  BY <1>2, <1>3, FullHeld, HeldIsRead
<1>5. j * BlockSize <= lengths[s] /\ j * BlockSize \in Nat
  BY <1>2, <1>3, GeometryAssumption, FloorBound
<1>6. Prefix(tokens, j * BlockSize) \in Seq(T)
  <2>1. j * BlockSize \in 0..Len(tokens)
    BY <1>3, <1>5
  <2> QED BY <2>1, FirstEntries DEF Prefix
<1>7. Register(s, j) /\ ~Indexed(tokens, salt, j)
      /\ entries' = Append(entries, [salt |-> salt, tokens |-> Prefix(tokens, j * BlockSize),
                                     block |-> tables[s][j], lastUsed |-> Tick])
  BY <1>1, <1>2 DEF Known
<1>8. call' = [op |-> "publish", sequence |-> s, tokens |-> tokens, salt |-> salt,
               ordinal |-> j + 1]
  BY <1>1, <1>2 DEF PublishCall
<1>9. Registers(T, s, tokens, salt, j)
  BY <1>1, <1>2, <1>3, <1>4, <1>5, <1>6, <1>7, <1>8 DEF Registers
<1> QED BY <1>9

(* A block enters the index once, under a key that was not there.          *)
LEMMA PublishRegisterOK ==
  ASSUME NEW S, NEW T, CacheInv(S, T), PublishRegister
  PROVE  CacheInv(S, T)'
<1>0. PICK s \in Slot, tokens \in Seq(T), salt \in S, j \in Nat \ {0} : Registers(T, s, tokens, salt, j)
  BY RegisterStep
<1>1. /\ PublishCall(s, tokens, salt, j)
      /\ j \in 1..(lengths[s] \div BlockSize) /\ lengths[s] \div BlockSize \in Nat
      /\ j * BlockSize <= lengths[s] /\ lengths[s] <= Len(tokens)
      /\ j \in 1..Len(tables[s]) /\ tables[s][j] \in Block
      /\ Register(s, j) /\ ~Indexed(tokens, salt, j) /\ ~Full
      /\ Prefix(tokens, j * BlockSize) \in Seq(T)
      /\ entries' = Append(entries, [salt |-> salt, tokens |-> Prefix(tokens, j * BlockSize),
                                     block |-> tables[s][j], lastUsed |-> Tick])
      /\ clock' = Tick
      /\ call' = [op |-> "publish", sequence |-> s, tokens |-> tokens, salt |-> salt,
                  ordinal |-> j + 1]
  BY <1>0 DEF Registers
<1>2. IInv /\ IndexTyped(S, T) /\ IndexExact
  BY DEF CacheInv
<1>3. PICK b, key : b = tables[s][j] /\ key = Prefix(tokens, j * BlockSize)
  OBVIOUS
<1>4. PICK e : e = [salt |-> salt, tokens |-> key, block |-> b, lastUsed |-> Tick]
  OBVIOUS
<1>5. e \in Entry(S, T) /\ entries' = Append(entries, e)
      /\ e.block = b /\ e.salt = salt /\ e.tokens = key
  <2>1. Tick \in Nat
    BY <1>2, EntryAt, CacheAssumption DEF Tick
  <2>2. b \in Block /\ key \in Seq(T)
    BY <1>1, <1>3
  <2> QED BY <1>1, <1>3, <1>4, <2>1, <2>2 DEF Entry
<1>6. /\ IndexTyped(S, T)' /\ Len(entries) \in Nat
      /\ Len(entries') = Len(entries) + 1 /\ DOMAIN entries' = 1..(Len(entries) + 1)
      /\ \A k \in 1..Len(entries) : entries'[k] = entries[k]
      /\ entries'[Len(entries) + 1] = e
      /\ \A c, t, x : Filed(c, t, x) => Filed(c, t, x)'
  BY <1>1, <1>2, <1>5, NewEntry
<1>7. IInv'
  BY <1>1, <1>2, RegisterIInv
<1>8. /\ states[b] = COMPLETE /\ states' = [states EXCEPT ![b] = REGISTERED]
      /\ UNCHANGED <<refs, tables, lengths, active>> /\ states \in [Block -> State] /\ b \in Block
  BY <1>1, <1>2, <1>3 DEF Register, IInv, TypeOK
<1>9. Registered' = Registered \cup {b}
  BY <1>8 DEF Registered
<1>10. DOMAIN entries = 1..Len(entries)
  BY <1>2, EntryAt
<1>11. /\ Len(entries) <= Capacity /\ Capacity \in Nat /\ Len(entries) # Capacity
       /\ \A p, q \in 1..Len(entries) : p # q =>
            /\ entries[p].block # entries[q].block
            /\ <<entries[p].salt, entries[p].tokens>> # <<entries[q].salt, entries[q].tokens>>
       /\ {entries[p].block : p \in 1..Len(entries)} = Registered
  <2>1. Capacity \in Nat
    BY CacheAssumption, GeometryAssumption, FS_CardinalityType
  <2> QED BY <1>1, <1>2, <1>10, <2>1 DEF IndexExact, Full
<1>12. \A p \in 1..Len(entries) :
         entries[p].block # b /\ <<entries[p].salt, entries[p].tokens>> # <<salt, key>>
  <2>1. TAKE p \in 1..Len(entries)
  <2>2. entries[p].block \in Registered /\ b \notin Registered
    BY <1>8, <1>11 DEF Registered
  <2>3. p \notin Find(key, salt)
    BY <1>1, <1>3 DEF Indexed
  <2> QED BY <1>10, <2>2, <2>3 DEF Find
<1>13. IndexExact'
  <2>1. Len(entries') <= Capacity
    BY <1>6, <1>11
  <2>2. ASSUME NEW p \in DOMAIN entries', NEW q \in DOMAIN entries', p # q
        PROVE  /\ entries'[p].block # entries'[q].block
               /\ <<entries'[p].salt, entries'[p].tokens>> # <<entries'[q].salt, entries'[q].tokens>>
    <3>1. p \in 1..Len(entries) \/ p = Len(entries) + 1
      BY <1>6
    <3>2. q \in 1..Len(entries) \/ q = Len(entries) + 1
      BY <1>6
    <3>3. CASE p \in 1..Len(entries) /\ q \in 1..Len(entries)
      BY <1>6, <1>11, <2>2, <3>3
    <3>4. CASE p = Len(entries) + 1 /\ q \in 1..Len(entries)
      BY <1>5, <1>6, <1>12, <3>4
    <3>5. CASE p \in 1..Len(entries) /\ q = Len(entries) + 1
      BY <1>5, <1>6, <1>12, <3>5
    <3> QED BY <2>2, <3>1, <3>2, <3>3, <3>4, <3>5
  <2>3. {entries'[p].block : p \in DOMAIN entries'} = Registered \cup {b}
    <3>1. ASSUME NEW p \in DOMAIN entries'
          PROVE  entries'[p].block \in Registered \cup {b}
      <4>1. p \in 1..Len(entries) \/ p = Len(entries) + 1
        BY <1>6
      <4> QED BY <1>5, <1>6, <1>11, <4>1
    <3>2. ASSUME NEW c \in Registered \cup {b}
          PROVE  \E p \in DOMAIN entries' : entries'[p].block = c
      <4>1. CASE c = b
        <5>1. Len(entries) + 1 \in DOMAIN entries'
          BY <1>6
        <5> QED BY <1>5, <1>6, <4>1, <5>1
      <4>2. CASE c # b
        <5>1. PICK p \in 1..Len(entries) : entries[p].block = c
          BY <1>11, <3>2, <4>2
        <5>2. p \in DOMAIN entries'
          BY <1>6
        <5> QED BY <1>6, <5>1, <5>2
      <4> QED BY <4>1, <4>2
    <3> QED BY <3>1, <3>2
  <2> QED BY <1>9, <2>1, <2>2, <2>3 DEF IndexExact
<1>14. \A i \in (j + 1)..(lengths[s] \div BlockSize) : \A c, x :
         c = tables[s][i] /\ x = Prefix(tokens, i * BlockSize) => Fileable(c, salt, x)'
  <2>1. TAKE i \in (j + 1)..(lengths[s] \div BlockSize)
  <2>2. TAKE c, x
  <2>3. HAVE c = tables[s][i] /\ x = Prefix(tokens, i * BlockSize)
  <2>4. i \in 1..(lengths[s] \div BlockSize) /\ i \in j..(lengths[s] \div BlockSize) /\ i # j
    BY <1>1
  <2>5. i \in 1..Len(tables[s]) /\ c \in Block
    BY <1>2, <2>3, <2>4, FullHeld, HeldIsRead
  <2>6. c # b
    <3>1. c = b => i = j
      BY <1>1, <1>2, <1>3, <1>8, <2>3, <2>5, PrivatePlace DEF IInv
    <3> QED BY <2>4, <3>1
  <2>7. Fileable(c, salt, x)
    BY <1>1, <2>3, <2>4 DEF PublishCall, Remaining
  <2>8. states'[c] = states[c] /\ refs'[c] = refs[c]
    BY <1>8, <2>5, <2>6
  <2> QED BY <1>6, <2>7, <2>8 DEF Fileable
<1>15. Remaining(s, tokens, salt, j + 1)'
  BY <1>8, <1>14, StillRemaining
<1>16. active'[s] /\ lengths'[s] <= Len(tokens) /\ j + 1 <= lengths'[s] \div BlockSize + 1
       /\ j + 1 \in Nat \ {0}
  BY <1>1, <1>8 DEF PublishCall
<1>17. PublishCall(s, tokens, salt, j + 1)'
  BY <1>1, <1>15, <1>16 DEF PublishCall
<1> QED BY <1>6, <1>7, <1>13, <1>16, <1>17 DEF CacheInv, CallOK

(* Every step of an operation of the index keeps the index exact and what  *)
(* the operation relies on.                                                *)
LEMMA CacheStepOK ==
  ASSUME NEW S, NEW T, CacheInv(S, T), CacheStep
  PROVE  CacheInv(S, T)'
  BY ReclaimOneOK, EndOK, PublishSkipOK, PublishEvictOK, PublishRegisterOK, ClearOneOK
  DEF CacheStep

(* Short of free blocks, an operation finds a victim.                      *)
LEMMA ShortHasVictim ==
  ASSUME NEW S, NEW T, CacheInv(S, T), call.op \in {"reclaim", "admit"}, call.required > Len(free)
  PROVE  Victims(call.protected) # {}
<1>1. IndexTyped(S, T) /\ CallOK(S, T) /\ Len(free) \in Nat
  <2>1. free \in Seq(Block)
    BY DEF CacheInv, IInv, TypeOK
  <2> QED BY <2>1 DEF CacheInv
<1>2. PICK n, P : n \in Int /\ call.required = n /\ call.protected = P /\ n <= Len(free) + Reclaimable(P)
  <2>1. CASE call.op = "reclaim"
    <3>1. PICK n \in Int : ReclaimCall(n)
      BY <1>1, <2>1, WhichCall
    <3> QED BY <3>1 DEF ReclaimCall
  <2>2. CASE call.op = "admit"
    <3>1. PICK n \in Int, cached \in Seq(Block), length \in 0..MaxLength : AdmitCall(n, cached, length)
      BY <1>1, <2>2, WhichCall
    <3> QED BY <3>1 DEF AdmitCall
  <2> QED BY <2>1, <2>2
<1>3. Reclaimable(P) \in Nat /\ (Reclaimable(P) > 0 => Victims(P) # {})
  BY <1>1, VictimExists
<1> QED BY <1>1, <1>2, <1>3

(* An admission that attached its prefix can reserve the rest.             *)
LEMMA AttachedFits ==
  ASSUME NEW S, NEW T, CacheInv(S, T), call.op = "reserve"
  PROVE  CeilDiv(call.length, BlockSize) - Len(tables[call.sequence]) <= Len(free)
<1>1. PICK s \in Slot, cached \in Seq(Block), length \in 0..MaxLength : ReserveCall(s, cached, length)
  BY WhichCall DEF CacheInv
<1> QED BY <1>1 DEF ReserveCall

(* A block whose key is new is still private, so it can be registered.     *)
LEMMA NewIsPrivate ==
  ASSUME NEW S, NEW T, CacheInv(S, T), Publishing, ~Known
  PROVE  LET b == tables[call.sequence][call.ordinal]
         IN  states[b] = COMPLETE /\ refs[b] = 1
<1>1. PICK s \in Slot, tokens \in Seq(T), salt \in S, j \in Nat \ {0} :
        /\ PublishCall(s, tokens, salt, j)
        /\ call.sequence = s /\ call.tokens = tokens /\ call.salt = salt /\ call.ordinal = j
        /\ j \in 1..(lengths[s] \div BlockSize) /\ lengths[s] \div BlockSize \in Nat
  BY PublishingAt
<1>2. j \in j..(lengths[s] \div BlockSize)
  BY <1>1
<1>3. Fileable(tables[s][j], salt, Prefix(tokens, j * BlockSize))
  BY <1>1, <1>2 DEF PublishCall, Remaining
<1>4. ~Filed(tables[s][j], salt, Prefix(tokens, j * BlockSize))
  BY <1>1 DEF Known, Indexed, Find, Filed
<1> QED BY <1>1, <1>3, <1>4 DEF Fileable
-----------------------------------------------------------------------------
(* The rows of the pool: every block holds as many as the pool counts.     *)
RowsTyped(T) ==
  /\ image \in [Block -> Seq(Seq(T))]
  /\ \A b \in Block : Len(image[b]) = written[b]

(* A sequence with this history and tenant reads only rows of its own, and *)
(* what it shares is filed under its own key.                              *)
SharesOwn(s, tokens, salt) ==
  \A i \in 1..Len(tables[s]) : states[tables[s][i]] = REGISTERED =>
    Filed(tables[s][i], salt, Prefix(tokens, i * BlockSize))

OwnRows(s, tokens, salt) ==
  /\ enqueued[s] <= Len(tokens)
  /\ HoldsHistory(s, tokens)
  /\ SharesOwn(s, tokens, salt)

(* Every key names rows of exactly its history.                            *)
EntriesOwnRows == \A k \in DOMAIN entries : EntryRows(entries[k])

(* A list of rows is a piece of history when it agrees row by row.         *)
LEMMA RowByRow ==
  ASSUME NEW X, NEW r \in Seq(X), NEW tokens, NEW i, NEW n \in Nat
  PROVE  r = HistoryRows(tokens, i, n) <=>
           Len(r) = n /\ \A j \in 1..n : r[j] = Prefix(tokens, (i - 1) * BlockSize + j)
<1> DEFINE h == [j \in 1..n |-> Prefix(tokens, (i - 1) * BlockSize + j)]
<1>1. HistoryRows(tokens, i, n) = h /\ DOMAIN h = 1..n
      /\ \A j \in 1..n : h[j] = Prefix(tokens, (i - 1) * BlockSize + j)
  BY DEF HistoryRows
<1>2. r = [j \in 1..Len(r) |-> r[j]] /\ DOMAIN r = 1..Len(r) /\ Len(r) \in Nat
  OBVIOUS
<1>3. ASSUME r = h
      PROVE  Len(r) = n /\ \A j \in 1..n : r[j] = h[j]
  <2> HIDE DEF h
  <2>1. 1..Len(r) = 1..n
    BY <1>1, <1>2, <1>3
  <2>2. Len(r) = n
    BY <1>2, <2>1
  <2> QED BY <1>3, <2>2
<1>4. ASSUME Len(r) = n, \A j \in 1..n : r[j] = Prefix(tokens, (i - 1) * BlockSize + j)
      PROVE  r = h
  BY <1>2, <1>4
<1> HIDE DEF h
<1> QED BY <1>1, <1>3, <1>4

(* Row j of table entry i is there when its position is.                   *)
LEMMA CoveredRow ==
  ASSUME NEW n \in Nat, NEW i \in Nat \ {0}, NEW j \in 1..BlockSize
  PROVE  j <= Covered(n, i) <=> (i - 1) * BlockSize + j <= n
<1>1. BlockSize \in Nat \ {0}
  BY GeometryAssumption
<1>2. (i - 1) * BlockSize \in Nat
  BY <1>1
<1> QED BY <1>1, <1>2 DEF Covered, Clamp

(* A prefix of a prefix.                                                   *)
LEMMA PrefixOfPrefix ==
  ASSUME NEW T, NEW tokens \in Seq(T), NEW n \in 0..Len(tokens), NEW m \in 0..n
  PROVE  /\ Prefix(tokens, n) \in Seq(T) /\ Len(Prefix(tokens, n)) = n
         /\ Prefix(Prefix(tokens, n), m) = Prefix(tokens, m)
<1> DEFINE p == SubSeq(tokens, 1, n)
<1>1. p \in Seq(T) /\ Len(p) = n /\ \A i \in 1..n : p[i] = tokens[i]
  BY FirstEntries
<1> HIDE DEF p
<1>2. m \in 0..Len(tokens) /\ m \in 0..Len(p)
  BY <1>1
<1>3. /\ SubSeq(p, 1, m) \in Seq(T) /\ Len(SubSeq(p, 1, m)) = m
      /\ \A i \in 1..m : SubSeq(p, 1, m)[i] = p[i]
  BY <1>1, <1>2, FirstEntries
<1>4. /\ SubSeq(tokens, 1, m) \in Seq(T) /\ Len(SubSeq(tokens, 1, m)) = m
      /\ \A i \in 1..m : SubSeq(tokens, 1, m)[i] = tokens[i]
  BY <1>2, FirstEntries
<1>5. SubSeq(p, 1, m) = SubSeq(tokens, 1, m)
  <2>1. \A i \in 1..m : SubSeq(p, 1, m)[i] = SubSeq(tokens, 1, m)[i]
    BY <1>1, <1>3, <1>4
  <2> QED BY <1>3, <1>4, <2>1, SeqEqual
<1> QED BY <1>1, <1>5 DEF Prefix, p

(* The rows of a full block are those its key names, whichever sequence    *)
(* they were read through.                                                 *)
LEMMA KeyRows ==
  ASSUME NEW T, NEW tokens \in Seq(T), NEW i \in Nat \ {0}, i * BlockSize <= Len(tokens)
  PROVE  LET key == Prefix(tokens, i * BlockSize)
         IN  /\ key \in Seq(T) /\ Len(key) \div BlockSize = i
             /\ HistoryRows(key, Len(key) \div BlockSize, BlockSize) = HistoryRows(tokens, i, BlockSize)
<1> DEFINE key == Prefix(tokens, i * BlockSize)
<1>1. BlockSize \in Nat \ {0} /\ i * BlockSize \in 0..Len(tokens) /\ (i - 1) * BlockSize \in Nat
      /\ i * BlockSize = (i - 1) * BlockSize + BlockSize
  BY GeometryAssumption
<1>2. key \in Seq(T) /\ Len(key) = i * BlockSize
      /\ \A m \in 0..(i * BlockSize) : Prefix(key, m) = Prefix(tokens, m)
  <2>1. i * BlockSize \in 0..(i * BlockSize)
    BY <1>1
  <2> QED BY <1>1, <2>1, PrefixOfPrefix
<1>3. Len(key) \div BlockSize = i
  BY <1>1, <1>2, WholeBlocks
<1> HIDE DEF key
<1>4. \A j \in 1..BlockSize : (i - 1) * BlockSize + j \in 0..(i * BlockSize)
  BY <1>1
<1>5. HistoryRows(key, i, BlockSize) = HistoryRows(tokens, i, BlockSize)
  BY <1>2, <1>4 DEF HistoryRows
<1> QED BY <1>2, <1>3, <1>5 DEF key

(* A step that enqueues no writes keeps the rows of every block whose      *)
(* count stays, and forgets those of the blocks given back.                *)
LEMMA KeptRows ==
  ASSUME NEW T, IInv, IInv', RowsTyped(T), KeepRows,
         \A b \in Block : written'[b] <= written[b]
  PROVE  /\ RowsTyped(T)'
         /\ \A b \in Block : written'[b] = written[b] => image'[b] = image[b]
<1>1. /\ \A b \in Block : written[b] \in Nat /\ written'[b] \in Nat
      /\ image' = [b \in Block |-> SubSeq(image[b], 1, written'[b])]
  BY GeometryAssumption DEF IInv, TypeOK, KeepRows
<1>2. ASSUME NEW b \in Block
      PROVE  /\ image'[b] \in Seq(Seq(T)) /\ Len(image'[b]) = written'[b]
             /\ written'[b] = written[b] => image'[b] = image[b]
  <2>1. image[b] \in Seq(Seq(T)) /\ Len(image[b]) = written[b] /\ image'[b] = SubSeq(image[b], 1, written'[b])
    BY <1>1 DEF RowsTyped
  <2>2. written'[b] \in 0..Len(image[b])
    BY <1>1, <2>1
  <2>3. image'[b] \in Seq(Seq(T)) /\ Len(image'[b]) = written'[b]
    BY <2>1, <2>2, FirstEntries
  <2> QED BY <2>1, <2>3, SubSeqFull
<1> QED BY <1>1, <1>2 DEF RowsTyped

(* The counts of a table's blocks follow what its sequence enqueued.       *)
LEMMA TableCounts ==
  ASSUME IInv, NEW s \in Slot, NEW i \in 1..Len(tables[s])
  PROVE  written[tables[s][i]] = Covered(enqueued[s], i) /\ tables[s][i] \in Block
         /\ DOMAIN tables[s] = 1..Len(tables[s]) /\ i \in Nat \ {0} /\ enqueued[s] \in Nat
  BY TableType DEF IInv, PoolAgrees, TypeOK

(* A sequence whose table and extent stay keeps its rows.                  *)
LEMMA OthersKeepRows ==
  ASSUME NEW T, IInv, IInv', RowsTyped(T), RowsTyped(T)',
         \A b \in Block : written'[b] = written[b] => image'[b] = image[b],
         NEW s \in Slot, tables'[s] = tables[s], enqueued'[s] = enqueued[s],
         NEW tokens, HoldsHistory(s, tokens)
  PROVE  HoldsHistory(s, tokens)'
<1>1. ASSUME NEW i \in 1..Len(tables[s])
      PROVE  image'[tables'[s][i]] = HistoryRows(tokens, i, Covered(enqueued'[s], i))
  <2>1. /\ written[tables[s][i]] = Covered(enqueued[s], i) /\ tables[s][i] \in Block
        /\ DOMAIN tables[s] = 1..Len(tables[s])
    BY TableCounts
  <2>2. written'[tables[s][i]] = Covered(enqueued[s], i)
    <3>1. i \in DOMAIN tables'[s]
      BY <2>1
    <3> QED BY <3>1 DEF IInv, PoolAgrees
  <2>3. image'[tables[s][i]] = image[tables[s][i]]
    BY <2>1, <2>2
  <2>4. image[tables[s][i]] = HistoryRows(tokens, i, Covered(enqueued[s], i))
    BY <2>1 DEF HoldsHistory
  <2> QED BY <2>3, <2>4
<1>2. DOMAIN tables'[s] = 1..Len(tables[s])
  <2>1. TypeOK
    BY DEF IInv
  <2> QED BY <2>1, TableType
<1> QED BY <1>1, <1>2 DEF HoldsHistory, HistoryRows

(* What a sequence shares stays filed unless it is evicted.                *)
LEMMA OthersKeepKeys ==
  ASSUME NEW s \in Slot, tables'[s] = tables[s], NEW tokens, NEW salt, SharesOwn(s, tokens, salt),
         \A i \in 1..Len(tables[s]) : \A b, key : b = tables[s][i] /\ states'[b] = REGISTERED =>
           states[b] = REGISTERED /\ (Filed(b, salt, key) => Filed(b, salt, key)')
  PROVE  SharesOwn(s, tokens, salt)'
<1>1. ASSUME NEW i \in 1..Len(tables[s]), states'[tables[s][i]] = REGISTERED
      PROVE  Filed(tables[s][i], salt, Prefix(tokens, i * BlockSize))'
  <2>1. PICK b, key : b = tables[s][i] /\ key = Prefix(tokens, i * BlockSize)
    OBVIOUS
  <2>2. Filed(b, salt, key)
    BY <1>1, <2>1 DEF SharesOwn
  <2>3. Filed(b, salt, key)' /\ b = tables'[s][i]
    BY <1>1, <2>1, <2>2
  <2> QED BY <2>1, <2>3 DEF Filed, Prefix
<1> QED BY <1>1 DEF SharesOwn

(* The entries that stay name the same rows.                               *)
LEMMA EntriesKeepRows ==
  ASSUME NEW S, NEW T, IInv, IInv', IndexExact, IndexExact',
         \A b \in Block : written'[b] = written[b] => image'[b] = image[b],
         EntriesOwnRows,
         \A j \in DOMAIN entries' : \E k \in DOMAIN entries :
           entries'[j].block = entries[k].block /\ entries'[j].tokens = entries[k].tokens
  PROVE  EntriesOwnRows'
<1>1. ASSUME NEW j \in DOMAIN entries'
      PROVE  EntryRows(entries[j])'
  <2>1. PICK k \in DOMAIN entries :
          entries'[j].block = entries[k].block /\ entries'[j].tokens = entries[k].tokens
    BY <1>1
  <2>2. PICK b, key : b = entries'[j].block /\ key = entries'[j].tokens
    OBVIOUS
  <2>3. b \in Registered /\ b \in Registered'
    BY <1>1, <2>1, <2>2 DEF IndexExact
  <2>4. b \in Block /\ written[b] = BlockSize /\ written'[b] = BlockSize
    BY <2>3 DEF Registered, IInv, PoolAgrees
  <2>5. image'[b] = image[b]
    BY <2>4
  <2>6. image[b] = HistoryRows(key, Len(key) \div BlockSize, BlockSize)
    BY <2>1, <2>2 DEF EntriesOwnRows, EntryRows
  <2> QED BY <2>2, <2>5, <2>6 DEF EntryRows, HistoryRows, Prefix
<1> QED BY <1>1 DEF EntriesOwnRows

(* A sequence's history grows; what it has read stays.                     *)
LEMMA LongerHistory ==
  ASSUME NEW T, IInv, NEW s \in Slot, NEW tokens \in Seq(T), NEW salt, OwnRows(s, tokens, salt),
         NEW more \in Seq(T), Len(tokens) <= Len(more),
         \A m \in 0..Len(tokens) : Prefix(more, m) = Prefix(tokens, m)
  PROVE  OwnRows(s, more, salt)
<1>1. /\ enqueued[s] \in Nat /\ lengths[s] \in Nat /\ lengths[s] <= enqueued[s]
      /\ enqueued[s] <= Len(tokens) /\ Len(tokens) \in Nat /\ Len(more) \in Nat
      /\ BlockSize \in Nat \ {0} /\ TypeOK /\ HeldStates
  <2>1. TypeOK /\ Extents /\ HeldStates
    BY DEF IInv, Consistent
  <2> QED BY <2>1, ExtentType, GeometryAssumption DEF OwnRows
<1>2. DOMAIN tables[s] = 1..Len(tables[s]) /\ Len(tables[s]) \in Nat
  BY <1>1, TableType
<1>3. ASSUME NEW i \in 1..Len(tables[s])
      PROVE  image[tables[s][i]] = HistoryRows(more, i, Covered(enqueued[s], i))
  <2>1. image[tables[s][i]] = HistoryRows(tokens, i, Covered(enqueued[s], i))
    BY <1>2 DEF OwnRows, HoldsHistory
  <2>2. i \in Nat \ {0} /\ Covered(enqueued[s], i) \in 0..BlockSize /\ (i - 1) * BlockSize \in Nat
    <3>1. i \in Nat \ {0} /\ i - 1 \in Nat
      BY <1>2
    <3>2. (i - 1) * BlockSize \in Nat
      BY <1>1, <3>1
    <3> QED BY <1>1, <3>1, <3>2, CoveredType
  <2>3. ASSUME NEW j \in 1..Covered(enqueued[s], i)
        PROVE  (i - 1) * BlockSize + j \in 0..Len(tokens)
    <3>1. j \in 1..BlockSize /\ j <= Covered(enqueued[s], i) /\ j \in Nat
      BY <1>1, <2>2
    <3>2. (i - 1) * BlockSize + j <= enqueued[s]
      BY <1>1, <2>2, <3>1, CoveredRow
    <3> DEFINE p == (i - 1) * BlockSize + j
    <3>3. p \in Nat
      BY <2>2, <3>1
    <3> HIDE DEF p
    <3>4. p <= enqueued[s]
      BY <3>2 DEF p
    <3>5. p \in 0..Len(tokens)
      BY <1>1, <3>3, <3>4
    <3> QED BY <3>5 DEF p
  <2>4. HistoryRows(more, i, Covered(enqueued[s], i)) = HistoryRows(tokens, i, Covered(enqueued[s], i))
    BY <2>3 DEF HistoryRows
  <2> QED BY <2>1, <2>4
<1>4. ASSUME NEW i \in 1..Len(tables[s]), states[tables[s][i]] = REGISTERED
      PROVE  Filed(tables[s][i], salt, Prefix(more, i * BlockSize))
  <2>1. lengths[s] \div BlockSize \in Nat /\ i <= lengths[s] \div BlockSize
    <3>1. TypeOK /\ HeldStates
      BY <1>1
    <3>2. lengths[s] \div BlockSize \in Nat
          /\ (i > lengths[s] \div BlockSize => states[tables[s][i]] = PARTIAL)
      BY <3>1, HeldState
    <3> QED BY <1>2, <1>4, <3>2
  <2>2. i * BlockSize <= lengths[s] /\ i * BlockSize \in Nat
    BY <1>1, <1>2, <2>1, FloorBound
  <2>3. Prefix(more, i * BlockSize) = Prefix(tokens, i * BlockSize)
    BY <1>1, <2>2
  <2> QED BY <1>4, <2>3 DEF OwnRows, SharesOwn
<1> QED BY <1>1, <1>2, <1>3, <1>4 DEF OwnRows, HoldsHistory, SharesOwn

(* One more token.                                                         *)
LEMMA SampledHistory ==
  ASSUME NEW T, NEW tokens \in Seq(T), NEW token \in T
  PROVE  /\ Append(tokens, token) \in Seq(T) /\ Len(tokens) <= Len(Append(tokens, token))
         /\ \A m \in 0..Len(tokens) : Prefix(Append(tokens, token), m) = Prefix(tokens, m)
<1> DEFINE more == Append(tokens, token)
<1>1. more \in Seq(T) /\ Len(more) = Len(tokens) + 1 /\ Len(tokens) \in Nat
      /\ \A i \in 1..Len(tokens) : more[i] = tokens[i]
  BY AppendProperties
<1> HIDE DEF more
<1>2. ASSUME NEW m \in 0..Len(tokens)
      PROVE  Prefix(more, m) = Prefix(tokens, m)
  <2>1. m \in 0..Len(more)
    BY <1>1
  <2>2. /\ SubSeq(more, 1, m) \in Seq(T) /\ Len(SubSeq(more, 1, m)) = m
        /\ \A i \in 1..m : SubSeq(more, 1, m)[i] = more[i]
    BY <1>1, <2>1, FirstEntries
  <2>3. /\ SubSeq(tokens, 1, m) \in Seq(T) /\ Len(SubSeq(tokens, 1, m)) = m
        /\ \A i \in 1..m : SubSeq(tokens, 1, m)[i] = tokens[i]
    BY FirstEntries
  <2>4. \A i \in 1..m : SubSeq(more, 1, m)[i] = SubSeq(tokens, 1, m)[i]
    BY <1>1, <2>2, <2>3
  <2> QED BY <2>2, <2>3, <2>4, SeqEqual DEF Prefix
<1> QED BY <1>1, <1>2 DEF more

(* A matched prefix: every block is filed under the key of its place.      *)
Matched(cached, tokens, salt) ==
  /\ Len(cached) * BlockSize <= Len(tokens)
  /\ \A i \in 1..Len(cached) : Filed(cached[i], salt, Prefix(tokens, i * BlockSize))

(* A sequence attached to it starts with rows of its own history.          *)
LEMMA AttachedRows ==
  ASSUME NEW T, IInv, IInv', NEW s \in Slot, NEW cached \in Seq(Block), Attach(s, cached),
         UNCHANGED entries, RowsTyped(T), EntriesOwnRows,
         \A b \in Block : written'[b] = written[b] => image'[b] = image[b],
         NEW tokens \in Seq(T), NEW salt, Matched(cached, tokens, salt)
  PROVE  OwnRows(s, tokens, salt)'
<1>1. /\ tables'[s] = cached /\ enqueued'[s] = Len(cached) * BlockSize
      /\ written' = written /\ states' = states
      /\ Len(cached) \in Nat /\ DOMAIN cached = 1..Len(cached)
      /\ \A i \in 1..Len(cached) : cached[i] \in Block
  <2>1. tables \in [Slot -> Seq(Block)] /\ enqueued \in [Slot -> Nat]
    BY DEF IInv, TypeOK
  <2> QED BY <2>1 DEF Attach
<1>2. BlockSize \in Nat \ {0} /\ Len(cached) * BlockSize \in Nat
      /\ (Len(cached) * BlockSize) \div BlockSize = Len(cached)
  BY <1>1, GeometryAssumption, WholeBlocks
<1>3. ASSUME NEW i \in 1..Len(cached)
      PROVE  /\ image'[cached[i]] = HistoryRows(tokens, i, Covered(Len(cached) * BlockSize, i))
             /\ Filed(cached[i], salt, Prefix(tokens, i * BlockSize))
  <2>1. PICK key : key = Prefix(tokens, i * BlockSize)
    OBVIOUS
  <2>2. PICK k \in DOMAIN entries :
          entries[k].block = cached[i] /\ entries[k].salt = salt /\ entries[k].tokens = key
    BY <1>3, <2>1 DEF Matched, Filed
  <2>3. image[cached[i]] = HistoryRows(key, Len(key) \div BlockSize, BlockSize)
    BY <2>2 DEF EntriesOwnRows, EntryRows
  <2>4. i \in Nat \ {0} /\ i <= Len(cached)
    BY <1>1
  <2>5. i * BlockSize <= Len(cached) * BlockSize
    <3>1. i \in Int
      BY <2>4
    <3>2. Len(cached) \in Int
      OBVIOUS
    <3>3. BlockSize \in Nat
      BY <1>2
    <3>4. i <= Len(cached)
      BY <2>4
    <3> QED BY <3>1, <3>2, <3>3, <3>4, TimesMonotone
  <2>6. i * BlockSize <= Len(tokens)
    <3>1. Len(cached) * BlockSize <= Len(tokens) /\ Len(tokens) \in Nat /\ i * BlockSize \in Nat
      BY <1>2, <2>4 DEF Matched
    <3> QED BY <1>2, <2>5, <3>1
  <2>7. HistoryRows(key, Len(key) \div BlockSize, BlockSize) = HistoryRows(tokens, i, BlockSize)
    BY <2>1, <2>4, <2>6, KeyRows
  <2>8. Covered(Len(cached) * BlockSize, i) = BlockSize
    BY <1>2, <2>4, CoveredFull
  <2>9. image'[cached[i]] = image[cached[i]]
    BY <1>1
  <2> QED BY <1>3, <2>3, <2>7, <2>8, <2>9 DEF Matched
<1>4. HoldsHistory(s, tokens)'
  BY <1>1, <1>3 DEF HoldsHistory, HistoryRows
<1>5. SharesOwn(s, tokens, salt)'
  <2>1. ASSUME NEW i \in 1..Len(cached)
        PROVE  Filed(tables[s][i], salt, Prefix(tokens, i * BlockSize))'
    <3>1. Filed(cached[i], salt, Prefix(tokens, i * BlockSize))
      BY <1>3
    <3> QED BY <1>1, <3>1 DEF Filed, Prefix
  <2> QED BY <1>1, <2>1 DEF SharesOwn
<1>6. enqueued'[s] <= Len(tokens)
  BY <1>1 DEF Matched
<1> QED BY <1>4, <1>5, <1>6 DEF OwnRows

(* The row a runner reads to go on from is the sequence's own last one.    *)
LEMMA LastRow ==
  ASSUME IInv, NEW s \in Slot, NEW tokens, HoldsHistory(s, tokens),
         enqueued[s] = lengths[s], lengths[s] > 0
  PROVE  Row(s, lengths[s]) = Prefix(tokens, lengths[s])
<1> DEFINE past == lengths[s]
           i    == EntryIndex(past)
           j    == past - (i - 1) * BlockSize
<1>1. /\ past \in Nat \ {0} /\ BlockSize \in Nat \ {0} /\ reserved[s] \in Nat /\ past <= reserved[s]
      /\ Len(tables[s]) = CeilDiv(reserved[s], BlockSize) /\ TypeOK
  <2>1. TypeOK /\ Extents
    BY DEF IInv, Consistent
  <2>2. /\ lengths[s] \in Nat /\ enqueued[s] \in Nat /\ reserved[s] \in Nat
        /\ lengths[s] <= enqueued[s] /\ enqueued[s] <= reserved[s]
        /\ Len(tables[s]) = CeilDiv(reserved[s], BlockSize)
    BY <2>1, ExtentType
  <2>3. lengths[s] <= reserved[s] /\ lengths[s] # 0
    BY <2>2
  <2> QED BY <2>1, <2>2, <2>3, GeometryAssumption
<1> HIDE DEF past
<1>2. i \in Nat /\ past <= i * BlockSize /\ ~(past <= (i - 1) * BlockSize) /\ i # 0
  <2>1. PICK x : x = CeilDiv(past, BlockSize)
    OBVIOUS
  <2>2. x \in Nat /\ x \in Int /\ x - 1 \in Int
    BY <1>1, <2>1, CeilType
  <2>3. past <= x * BlockSize <=> CeilDiv(past, BlockSize) <= x
    BY <1>1, <2>2, CeilBound
  <2>4. past <= (x - 1) * BlockSize <=> CeilDiv(past, BlockSize) <= x - 1
    BY <1>1, <2>2, CeilBound
  <2>5. past <= x * BlockSize /\ ~(past <= (x - 1) * BlockSize)
    BY <2>1, <2>2, <2>3, <2>4
  <2>6. x # 0
    BY <1>1, <2>5
  <2> QED BY <2>1, <2>2, <2>5, <2>6 DEF EntryIndex
<1>3. i \in 1..Len(tables[s])
  <2>1. CeilDiv(past, BlockSize) <= CeilDiv(reserved[s], BlockSize)
    BY <1>1, DivMonotone
  <2>2. CeilDiv(reserved[s], BlockSize) \in Nat
    BY <1>1, CeilType
  <2> QED BY <1>1, <1>2, <2>1, <2>2 DEF EntryIndex
<1> HIDE DEF i
<1>4. j \in 1..BlockSize /\ (i - 1) * BlockSize + j = past
  <2> DEFINE base == (i - 1) * BlockSize
  <2>1. base \in Nat /\ i * BlockSize = base + BlockSize
    BY <1>1, <1>2
  <2> HIDE DEF base
  <2>2. past - base \in 1..BlockSize /\ base + (past - base) = past
    BY <1>1, <1>2, <2>1 DEF base
  <2> QED BY <2>2 DEF base
<1> HIDE DEF j
<1>5. j <= Covered(past, i) /\ j \in 1..Covered(past, i)
  <2>1. past \in Nat /\ i \in Nat \ {0}
    BY <1>1, <1>2
  <2>2. past <= past
    BY <2>1
  <2>3. j <= Covered(past, i)
    BY <1>4, <2>1, <2>2, CoveredRow
  <2>4. Covered(past, i) \in 0..BlockSize
    BY <2>1, CoveredType
  <2> QED BY <1>1, <1>4, <2>3, <2>4
<1>6. image[tables[s][i]] = HistoryRows(tokens, i, Covered(past, i))
  <2>1. DOMAIN tables[s] = 1..Len(tables[s])
    BY <1>1, TableType
  <2> QED BY <1>3, <2>1 DEF HoldsHistory, past
<1>7. HistoryRows(tokens, i, Covered(past, i))[j] = Prefix(tokens, (i - 1) * BlockSize + j)
  BY <1>5 DEF HistoryRows
<1>8. Row(s, past) = image[tables[s][i]][j]
  BY DEF Row, i, j
<1> QED BY <1>4, <1>6, <1>7, <1>8 DEF past

(* Every row a runner adds is computed from the sequence's own history.    *)
LEMMA WrittenRows ==
  ASSUME NEW T, IInv, IInv', RowsTyped(T), NEW s \in Slot, NEW length \in 0..MaxLength,
         NEW tokens \in Seq(T), HoldsHistory(s, tokens), enqueued[s] = lengths[s],
         length <= Len(tokens), WriteRows(s, length, tokens)
  PROVE  /\ RowsTyped(T)' /\ HoldsHistory(s, tokens)'
         /\ \A b \in Block : written'[b] = written[b] => image'[b] = image[b]
<1> DEFINE past == lengths[s]
           read == IF past = 0 THEN <<>> ELSE Row(s, past)
           at(b) == CHOOSE i \in DOMAIN tables[s] : tables[s][i] = b
           new(b) == [j \in 1..written'[b] |->
                        IF j <= written[b] THEN image[b][j]
                        ELSE read \o SubSeq(tokens, past + 1, (at(b) - 1) * BlockSize + j)]
<1>1. /\ Write(s, length)
      /\ image' = [b \in Block |-> IF written'[b] = written[b] THEN image[b] ELSE new(b)]
  BY DEF WriteRows
<1>2. /\ tables' = tables /\ enqueued'[s] = length /\ past < length
      /\ DOMAIN tables[s] = 1..Len(tables[s]) /\ TypeOK
      /\ past \in Nat /\ length \in Nat /\ Len(tokens) \in Nat /\ BlockSize \in Nat \ {0}
  <2>1. TypeOK
    BY DEF IInv
  <2>2. DOMAIN tables[s] = 1..Len(tables[s])
    BY <2>1, TableType
  <2>3. enqueued' = [enqueued EXCEPT ![s] = length] /\ enqueued \in [Slot -> Nat]
        /\ lengths[s] \in Nat
    BY <1>1, <2>1 DEF Write, TypeOK
  <2> QED BY <1>1, <2>1, <2>2, <2>3, GeometryAssumption DEF Write
<1>3. \A b \in Block : written'[b] = written[b] => image'[b] = image[b]
  BY <1>1
<1>4. \A b \in Block : written[b] \in 0..BlockSize /\ written'[b] \in 0..BlockSize
  BY DEF IInv, TypeOK
<1>5. \A m \in past..Len(tokens) :
        read \o SubSeq(tokens, past + 1, m) = Prefix(tokens, m)
  <2>1. read = SubSeq(tokens, 1, past)
    <3>1. CASE past = 0
      <4>1. SubSeq(tokens, 1, 0) = <<>>
        BY SubSeqEmpty
      <4> QED BY <3>1, <4>1
    <3>2. CASE past # 0
      <4>1. past > 0
        BY <1>2, <3>2
      <4> QED BY <3>2, <4>1, LastRow DEF Prefix
    <3> QED BY <3>1, <3>2
  <2> HIDE DEF read, past
  <2>2. ASSUME NEW m \in past..Len(tokens)
        PROVE  read \o SubSeq(tokens, past + 1, m) = Prefix(tokens, m)
    <3>1. /\ 1 \in 1..(Len(tokens) + 1) /\ past \in (1 - 1)..Len(tokens) /\ m \in past..Len(tokens)
      BY <1>2
    <3>2. SubSeq(tokens, 1, past) \o SubSeq(tokens, past + 1, m) = SubSeq(tokens, 1, m)
      BY <3>1, ConcatAdjacentSubSeq
    <3> QED BY <2>1, <3>2 DEF Prefix
  <2> QED BY <2>2
<1> HIDE DEF read
<1>6. ASSUME NEW b \in Block, written'[b] # written[b]
      PROVE  \E i \in 1..Len(tables[s]) :
               /\ tables[s][i] = b /\ at(b) = i
               /\ image'[b] \in Seq(Seq(T))
               /\ image'[b] = HistoryRows(tokens, i, Covered(length, i))
  <2>1. PICK i \in 1..Len(tables[s]) : tables[s][i] = b
    BY <1>1, <1>2, <1>6 DEF Write
  <2>2. at(b) = i
    <3>1. IsInjective(tables[s])
      BY DEF IInv, Consistent, RefsExact
    <3>2. \A x, y \in DOMAIN tables[s] : tables[s][x] = tables[s][y] => x = y
      BY <3>1 DEF IsInjective
    <3> QED BY <1>2, <2>1, <3>2
  <2>3. /\ written[b] = Covered(past, i) /\ written'[b] = Covered(length, i) /\ i \in Nat \ {0}
    <3>1. written[b] = Covered(enqueued[s], i) /\ i \in Nat \ {0}
      BY <2>1, TableCounts
    <3>2. i \in 1..Len(tables'[s]) /\ tables'[s][i] = b
      BY <1>2, <2>1
    <3>3. written'[b] = Covered(enqueued'[s], i)
      BY <1>2, <3>2 DEF IInv, PoolAgrees
    <3> QED BY <1>2, <3>1, <3>3
  <2>4. /\ image'[b] = new(b)
        /\ new(b) = [j \in 1..written'[b] |->
                       IF j <= written[b] THEN image[b][j]
                       ELSE read \o SubSeq(tokens, past + 1, (i - 1) * BlockSize + j)]
    <3> HIDE DEF at
    <3>1. new(b) = [j \in 1..written'[b] |->
                       IF j <= written[b] THEN image[b][j]
                       ELSE read \o SubSeq(tokens, past + 1, (i - 1) * BlockSize + j)]
      BY <2>2
    <3> HIDE DEF new
    <3>2. image'[b] = new(b)
      BY <1>1, <1>6
    <3> QED BY <3>1, <3>2
  <2> HIDE DEF new, at, past
  <2>5. ASSUME NEW j \in 1..written'[b]
        PROVE  /\ image'[b][j] = Prefix(tokens, (i - 1) * BlockSize + j)
               /\ Prefix(tokens, (i - 1) * BlockSize + j) \in Seq(T)
    <3> DEFINE m == (i - 1) * BlockSize + j
    <3>0. written'[b] \in 0..BlockSize
      BY <1>4
    <3>1. j \in 1..BlockSize /\ j <= Covered(length, i) /\ j \in Nat
      BY <1>2, <2>3, <3>0
    <3>2. m <= length /\ m \in Nat
      <4>1. m <= length
        BY <1>2, <2>3, <3>1, CoveredRow
      <4>2. i - 1 \in Nat
        BY <2>3
      <4>3. (i - 1) * BlockSize \in Nat
        BY <1>2, <4>2
      <4> QED BY <3>1, <4>1, <4>3
    <3>3. Prefix(tokens, m) \in Seq(T)
      <4> HIDE DEF m
      <4>1. m \in 0..Len(tokens)
        BY <1>2, <3>2
      <4> QED BY <4>1, FirstEntries DEF Prefix
    <3>4. CASE j <= written[b]
      <4>1. image[b] = HistoryRows(tokens, i, Covered(past, i))
        BY <1>2, <2>1 DEF HoldsHistory, past
      <4>2. j \in 1..Covered(past, i)
        BY <1>4, <2>3, <3>1, <3>4
      <4>3. image[b][j] = Prefix(tokens, m)
        BY <4>1, <4>2 DEF HistoryRows
      <4> QED BY <2>4, <3>3, <3>4, <4>3
    <3>5. CASE ~(j <= written[b])
      <4>1. ~(m <= past)
        BY <1>2, <2>3, <3>1, <3>5, CoveredRow
      <4> HIDE DEF m
      <4>2. m \in past..Len(tokens)
        BY <1>2, <3>2, <4>1
      <4>3. image'[b][j] = read \o SubSeq(tokens, past + 1, m)
        BY <2>4, <3>5 DEF m
      <4> QED BY <1>5, <3>3, <4>2, <4>3 DEF m
    <3> QED BY <3>4, <3>5
  <2>6. image'[b] \in Seq(Seq(T)) /\ image'[b] = HistoryRows(tokens, i, Covered(length, i))
    <3>1. DOMAIN image'[b] = 1..written'[b] /\ written'[b] \in Nat
          /\ image'[b] = [j \in 1..written'[b] |-> image'[b][j]]
      BY <1>4, <2>4
    <3>2. PICK r, n : r = image'[b] /\ n = written'[b]
      OBVIOUS
    <3>3. \A j \in 1..n : r[j] \in Seq(T) /\ r[j] = Prefix(tokens, (i - 1) * BlockSize + j)
      BY <2>5, <3>2
    <3>4. r = [j \in 1..n |-> r[j]] /\ n \in Nat
      BY <3>1, <3>2
    <3>5. r \in [1..n -> Seq(T)]
      BY <3>3, <3>4
    <3>6. r \in Seq(Seq(T)) /\ Len(r) = n
      BY <3>4, <3>5
    <3>7. \A j \in 1..n : r[j] = Prefix(tokens, (i - 1) * BlockSize + j)
      BY <3>3
    <3>8. n \in Nat /\ r \in Seq(Seq(T)) /\ Len(r) = n
      BY <3>4, <3>6
    <3>9. r = HistoryRows(tokens, i, n)
      BY <3>7, <3>8, RowByRow, Zenon
    <3> QED BY <2>3, <3>2, <3>6, <3>9
  <2> QED BY <2>1, <2>2, <2>6
<1> HIDE DEF new, at
<1>7. RowsTyped(T)'
  <2>1. ASSUME NEW b \in Block
        PROVE  image'[b] \in Seq(Seq(T)) /\ Len(image'[b]) = written'[b]
    <3>1. CASE written'[b] = written[b]
      BY <1>3, <3>1 DEF RowsTyped
    <3>2. CASE written'[b] # written[b]
      <4>1. PICK i \in 1..Len(tables[s]) : tables[s][i] = b /\ image'[b] \in Seq(Seq(T))
                                           /\ image'[b] = HistoryRows(tokens, i, Covered(length, i))
        BY <1>6, <3>2
      <4>2. Covered(length, i) = written'[b]
        <5>1. i \in DOMAIN tables'[s] /\ tables'[s][i] = b
          BY <1>2, <4>1
        <5> QED BY <1>2, <5>1 DEF IInv, PoolAgrees
      <4>3. Len(image'[b]) = written'[b]
        BY <1>4, <4>1, <4>2, RowByRow
      <4> QED BY <4>1, <4>3
    <3> QED BY <3>1, <3>2
  <2> QED BY <1>1, <2>1 DEF RowsTyped
<1>8. ASSUME NEW i \in 1..Len(tables[s])
      PROVE  image'[tables[s][i]] = HistoryRows(tokens, i, Covered(length, i))
  <2>1. PICK b : b = tables[s][i]
    OBVIOUS
  <2>2. b \in Block /\ written[b] = Covered(past, i)
    BY <1>2, <2>1, TableCounts
  <2>3. written'[b] = Covered(length, i)
    <3>1. i \in DOMAIN tables'[s] /\ tables'[s][i] = b
      BY <1>2, <2>1
    <3> QED BY <1>2, <3>1 DEF IInv, PoolAgrees
  <2>4. CASE written'[b] = written[b]
    <3>1. image[b] = HistoryRows(tokens, i, Covered(past, i))
      BY <1>2, <2>1 DEF HoldsHistory
    <3> QED BY <1>3, <2>1, <2>2, <2>3, <2>4, <3>1
  <2>5. CASE written'[b] # written[b]
    <3>1. PICK x \in 1..Len(tables[s]) : tables[s][x] = b
                                         /\ image'[b] = HistoryRows(tokens, x, Covered(length, x))
      BY <1>6, <2>2, <2>5
    <3>2. IsInjective(tables[s])
      BY DEF IInv, Consistent, RefsExact
    <3>3. x = i
      BY <1>2, <2>1, <3>1, <3>2 DEF IsInjective
    <3> QED BY <2>1, <3>1, <3>3
  <2> QED BY <2>4, <2>5
<1>9. HoldsHistory(s, tokens)'
  BY <1>2, <1>8 DEF HoldsHistory, HistoryRows
<1> QED BY <1>3, <1>7, <1>9
-----------------------------------------------------------------------------
(* Steps that neither write rows nor register a block: entries may leave   *)
(* with their blocks, and all that stays registered stays filed.           *)
Quiet ==
  /\ \A b \in Block : written'[b] <= written[b]
  /\ \A b \in Block : states'[b] = REGISTERED =>
       states[b] = REGISTERED /\ \A salt, key : Filed(b, salt, key) => Filed(b, salt, key)'
  /\ \A j \in DOMAIN entries' : \E k \in DOMAIN entries :
       entries'[j].block = entries[k].block /\ entries'[j].tokens = entries[k].tokens

(* Such a step keeps the rows entries name.                                *)
LEMMA QuietRows ==
  ASSUME NEW S, NEW T, CacheInv(S, T), CacheInv(S, T)', Quiet, KeepRows,
         RowsTyped(T), EntriesOwnRows
  PROVE  /\ RowsTyped(T)' /\ EntriesOwnRows'
         /\ \A b \in Block : written'[b] = written[b] => image'[b] = image[b]
<1>1. IInv /\ IInv' /\ IndexExact /\ IndexExact'
  BY DEF CacheInv
<1>2. /\ RowsTyped(T)'
      /\ \A b \in Block : written'[b] = written[b] => image'[b] = image[b]
  BY <1>1, KeptRows DEF Quiet
<1>3. EntriesOwnRows'
  BY <1>1, <1>2, EntriesKeepRows DEF Quiet
<1> QED BY <1>2, <1>3

(* And those of every sequence whose table and extent it leaves alone.     *)
LEMMA QuietOwn ==
  ASSUME NEW S, NEW T, CacheInv(S, T), CacheInv(S, T)', Quiet, KeepRows,
         RowsTyped(T), EntriesOwnRows,
         NEW s \in Slot, tables'[s] = tables[s], enqueued'[s] = enqueued[s],
         NEW tokens, NEW salt, OwnRows(s, tokens, salt)
  PROVE  OwnRows(s, tokens, salt)'
<1>1. IInv /\ IInv' /\ enqueued[s] <= Len(tokens) /\ HoldsHistory(s, tokens)
      /\ SharesOwn(s, tokens, salt)
  BY DEF CacheInv, OwnRows
<1>2. /\ RowsTyped(T)'
      /\ \A b \in Block : written'[b] = written[b] => image'[b] = image[b]
  BY QuietRows
<1>3. HoldsHistory(s, tokens)'
  BY <1>1, <1>2, OthersKeepRows
<1>4. SharesOwn(s, tokens, salt)'
  <2>1. \A i \in 1..Len(tables[s]) : \A b, key : b = tables[s][i] /\ states'[b] = REGISTERED =>
          states[b] = REGISTERED /\ (Filed(b, salt, key) => Filed(b, salt, key)')
    <3>1. \A i \in 1..Len(tables[s]) : tables[s][i] \in Block
      BY <1>1, TableCounts
    <3> QED BY <3>1 DEF Quiet
  <2> QED BY <1>1, <2>1, OthersKeepKeys
<1>5. enqueued'[s] <= Len(tokens)
  BY <1>1
<1> QED BY <1>3, <1>4, <1>5 DEF OwnRows

(* A reservation adds empty blocks at the end of the table.                *)
LEMMA ReservedRows ==
  ASSUME NEW S, NEW T, CacheInv(S, T), CacheInv(S, T)', Quiet, KeepRows,
         RowsTyped(T), EntriesOwnRows,
         NEW s \in Slot, NEW length \in 0..MaxLength, Reserve(s, length),
         NEW tokens, NEW salt, OwnRows(s, tokens, salt)
  PROVE  OwnRows(s, tokens, salt)'
<1> DEFINE held == Len(tables[s])
           more == Popped(Larger(CeilDiv(length, BlockSize) - held, 0))
<1>1. IInv /\ IInv' /\ TypeOK /\ TypeOK' /\ enqueued[s] <= Len(tokens)
      /\ HoldsHistory(s, tokens) /\ SharesOwn(s, tokens, salt)
  BY DEF CacheInv, OwnRows, IInv
<1>2. /\ RowsTyped(T)'
      /\ \A b \in Block : written'[b] = written[b] => image'[b] = image[b]
  BY QuietRows
<1>3. /\ tables'[s] = tables[s] \o more /\ enqueued' = enqueued /\ written' = written
      /\ states' = [b \in Block |-> IF b \in Range(more) THEN PARTIAL ELSE states[b]]
  BY <1>1 DEF Reserve, TypeOK
<1>4. /\ more \in Seq(Block) /\ Range(more) \subseteq Range(free) /\ held \in Nat
      /\ tables[s] \in Seq(Block) /\ DOMAIN tables[s] = 1..held
  <2> DEFINE count == Larger(CeilDiv(length, BlockSize) - held, 0)
  <2>1. held \in Nat /\ tables[s] \in Seq(Block) /\ DOMAIN tables[s] = 1..held
    BY <1>1, TableType
  <2>2. count \in Nat /\ count <= Len(free)
    <3>1. Len(free) \in Nat
      <4>1. free \in Seq(Block)
        BY <1>1 DEF TypeOK
      <4> QED BY <4>1
    <3>2. CeilDiv(length, BlockSize) \in Nat
      BY GeometryAssumption, CeilType
    <3>3. CeilDiv(length, BlockSize) - held <= Len(free)
      BY DEF Reserve
    <3> HIDE DEF held
    <3> QED BY <2>1, <3>1, <3>2, <3>3 DEF Larger
  <2> HIDE DEF count
  <2>3. FreeOnce
    BY <1>1 DEF IInv, Consistent
  <2>4. Popped(count) \in Seq(Block) /\ Range(Popped(count)) \subseteq Range(free)
    BY <1>1, <2>2, <2>3, PoppedBlocks
  <2> QED BY <2>1, <2>4 DEF count
<1> HIDE DEF more
<1>5. /\ Len(tables'[s]) = held + Len(more) /\ Len(more) \in Nat
      /\ DOMAIN tables'[s] = 1..(held + Len(more))
      /\ \A i \in 1..held : tables'[s][i] = tables[s][i]
      /\ \A i \in 1..(held + Len(more)) : i > held =>
           i - held \in 1..Len(more) /\ tables'[s][i] = more[i - held]
  BY <1>3, <1>4, Concatenation
<1>6. \A i \in 1..held : tables[s][i] \in Block /\ states[tables[s][i]] # RESET
  <2>1. TAKE i \in 1..held
  <2>2. HeldStates
    BY <1>1 DEF IInv, Consistent
  <2> QED BY <1>1, <2>2, HeldState
<1> HIDE DEF held
<1>7. ASSUME NEW i \in 1..Len(tables'[s])
      PROVE  image'[tables'[s][i]] = HistoryRows(tokens, i, Covered(enqueued'[s], i))
  <2>1. PICK b : b = tables'[s][i]
    OBVIOUS
  <2>2. /\ written'[b] = Covered(enqueued'[s], i) /\ b \in Block /\ i \in Nat \ {0}
    <3>1. i \in DOMAIN tables'[s]
      BY <1>5
    <3>2. written'[b] = Covered(enqueued'[s], i)
      BY <1>1, <2>1, <3>1 DEF IInv, PoolAgrees
    <3>3. tables' \in [Slot -> Seq(Block)]
      BY <1>1 DEF TypeOK
    <3> QED BY <2>1, <3>2, <3>3
  <2>3. image'[b] = image[b]
    BY <1>2, <1>3, <2>2
  <2>4. CASE i \in 1..held
    BY <1>3, <1>4, <1>5, <1>1, <2>1, <2>3, <2>4 DEF HoldsHistory
  <2>5. CASE ~(i \in 1..held)
    <3>1. i > held /\ i \in 1..(held + Len(more))
      BY <1>4, <1>5, <2>2, <2>5
    <3>2. b = more[i - held] /\ i - held \in 1..Len(more)
      BY <1>5, <2>1, <3>1
    <3>3. b \in Range(more)
      BY <1>4, <3>2 DEF Range
    <3>4. states[b] = RESET
      BY <1>1, <1>4, <3>3 DEF IInv, Consistent, FreeOnce
    <3>5. written[b] = 0
      BY <1>1, <2>2, <3>4 DEF IInv, PoolAgrees
    <3>6. image'[b] \in Seq(Seq(T)) /\ Len(image'[b]) = 0
      BY <1>2, <1>3, <2>2, <3>5 DEF RowsTyped
    <3>7. image'[b] = HistoryRows(tokens, i, 0)
      BY <3>6, RowByRow
    <3> QED BY <1>3, <2>1, <2>2, <3>5, <3>7
  <2> QED BY <2>4, <2>5
<1>8. ASSUME NEW i \in 1..Len(tables'[s]), states'[tables'[s][i]] = REGISTERED
      PROVE  Filed(tables[s][i], salt, Prefix(tokens, i * BlockSize))'
  <2>1. PICK b, key : b = tables'[s][i] /\ key = Prefix(tokens, i * BlockSize)
    OBVIOUS
  <2>2. b \in Block
    <3>1. tables' \in [Slot -> Seq(Block)]
      BY <1>1 DEF TypeOK
    <3> QED BY <2>1, <3>1
  <2>3. i \in 1..held
    <3>1. CASE i > held
      <4>1. b = more[i - held] /\ i - held \in 1..Len(more)
        BY <1>5, <2>1, <3>1
      <4>2. b \in Range(more)
        BY <1>4, <4>1 DEF Range
      <4>3. states'[b] = PARTIAL
        BY <1>3, <2>2, <4>2
      <4> QED BY <1>8, <2>1, <4>3
    <3> QED BY <1>4, <1>5, <3>1
  <2>4. states[b] = REGISTERED /\ (Filed(b, salt, key) => Filed(b, salt, key)')
    BY <1>8, <2>1, <2>2 DEF Quiet
  <2>5. Filed(b, salt, key)
    BY <1>1, <1>5, <2>1, <2>3, <2>4 DEF SharesOwn, held
  <2> QED BY <2>1, <2>4, <2>5 DEF Filed, Prefix
<1>9. HoldsHistory(s, tokens)'
  BY <1>5, <1>7 DEF HoldsHistory, HistoryRows
<1>10. SharesOwn(s, tokens, salt)'
  BY <1>8 DEF SharesOwn
<1>11. enqueued'[s] <= Len(tokens)
  BY <1>1, <1>3
<1> QED BY <1>9, <1>10, <1>11 DEF OwnRows

(* Which steps are quiet: those that leave the index alone, ...            *)
LEMMA QuietBetween ==
  ASSUME IInv, UNCHANGED entries, Registered' = Registered,
         \A b \in Block : written'[b] <= written[b]
  PROVE  Quiet
<1>1. \A b \in Block : states'[b] = REGISTERED => states[b] = REGISTERED
  BY DEF Registered
<1>2. \A b, salt, key : Filed(b, salt, key) => Filed(b, salt, key)'
  BY DEF Filed
<1> QED BY <1>1, <1>2 DEF Quiet

(* ... the manager's calls, ...                                            *)
LEMMA ManagerQuiet ==
  ASSUME IInv, IInv', UNCHANGED entries
  PROVE  /\ UNCHANGED vars => Quiet
         /\ \A s \in Slot, length \in 0..MaxLength : Reserve(s, length) => Quiet
         /\ \A s \in Slot : Commit(s) => Quiet
         /\ \A s \in Slot : Detach(s) => Quiet
         /\ \A s \in Slot, cached \in Seq(Block) : Attach(s, cached) => Quiet
<1>1. \A b \in Block : written[b] \in Nat /\ written'[b] \in Nat
  BY GeometryAssumption DEF IInv, TypeOK
<1>2. written' = written => \A b \in Block : written'[b] <= written[b]
  BY <1>1
<1>3. ASSUME UNCHANGED vars
      PROVE  Quiet
  BY <1>2, <1>3, StillIInv, QuietBetween DEF vars
<1>4. ASSUME NEW s \in Slot, NEW length \in 0..MaxLength, Reserve(s, length)
      PROVE  Quiet
  <2>1. written' = written
    BY <1>4 DEF Reserve
  <2> QED BY <1>2, <1>4, <2>1, ReserveRegistered, QuietBetween
<1>5. ASSUME NEW s \in Slot, Commit(s)
      PROVE  Quiet
  <2>1. written' = written
    BY <1>5 DEF Commit
  <2> QED BY <1>2, <1>5, <2>1, OthersRegistered, QuietBetween
<1>6. ASSUME NEW s \in Slot, Detach(s)
      PROVE  Quiet
  <2>1. ReleaseAll({s})
    BY <1>6 DEF Detach
  <2>2. \A b \in Block : written'[b] <= written[b]
    BY <2>1, ReleaseTouches
  <2> QED BY <1>6, <2>2, OthersRegistered, QuietBetween
<1>7. ASSUME NEW s \in Slot, NEW cached \in Seq(Block), Attach(s, cached)
      PROVE  Quiet
  <2>1. written' = written /\ states' = states
    BY <1>7 DEF Attach
  <2>2. Registered' = Registered
    BY <2>1 DEF Registered
  <2> QED BY <1>2, <2>1, <2>2, QuietBetween
<1> QED BY <1>3, <1>4, <1>5, <1>6, <1>7

(* ... an eviction, ...                                                    *)
LEMMA EvictQuiet ==
  ASSUME NEW S, NEW T, IInv, IndexTyped(S, T), NEW k \in 1..Len(entries), Evict(k)
  PROVE  Quiet /\ UNCHANGED <<tables, enqueued>>
<1> DEFINE gone == entries[k].block
<1>1. /\ gone \in Block /\ EvictRegistered(gone)
      /\ \A b, salt, key : Filed(b, salt, key) /\ b # gone => Filed(b, salt, key)'
      /\ \A j \in DOMAIN entries' : \E i \in 1..Len(entries) : i # k /\ entries'[j] = entries[i]
      /\ DOMAIN entries = 1..Len(entries)
  BY EvictWithout, EvictFiled, EntryAt
<1> HIDE DEF gone
<1>2. /\ states' = [states EXCEPT ![gone] = RESET] /\ states \in [Block -> State]
      /\ written' = [written EXCEPT ![gone] = 0] /\ written \in [Block -> 0..BlockSize]
      /\ UNCHANGED <<tables, enqueued>>
  BY <1>1 DEF EvictRegistered, IInv, TypeOK
<1>3. \A b \in Block : written'[b] <= written[b]
  <2>1. TAKE b \in Block
  <2>2. written[b] \in Nat
    BY <1>2, GeometryAssumption
  <2>3. CASE b = gone
    BY <1>2, <2>2, <2>3
  <2>4. CASE b # gone
    BY <1>2, <2>2, <2>4
  <2> QED BY <2>3, <2>4
<1>4. \A b \in Block : states'[b] = REGISTERED => b # gone /\ states[b] = REGISTERED
  BY <1>1, <1>2
<1>5. \A j \in DOMAIN entries' : \E i \in DOMAIN entries :
        entries'[j].block = entries[i].block /\ entries'[j].tokens = entries[i].tokens
  <2>1. TAKE j \in DOMAIN entries'
  <2>2. PICK i \in 1..Len(entries) : entries'[j] = entries[i]
    BY <1>1
  <2> QED BY <1>1, <2>2
<1> QED BY <1>1, <1>2, <1>3, <1>4, <1>5 DEF Quiet

(* ... and every step of an operation of the index but a registration.     *)
LEMMA CacheQuiet ==
  ASSUME NEW S, NEW T, CacheInv(S, T), CacheStep, ~PublishRegister
  PROVE  Quiet /\ UNCHANGED <<tables, enqueued>>
<1>1. IInv /\ IndexTyped(S, T) /\ DOMAIN entries = 1..Len(entries)
  BY EntryAt DEF CacheInv
<1>2. CASE UNCHANGED <<entries, vars>>
  BY <1>1, <1>2, StillIInv, ManagerQuiet DEF vars
<1>3. CASE \E k \in 1..Len(entries) : Evict(k)
  BY <1>1, <1>3, EvictQuiet
<1>4. CASE ReclaimOne \/ PublishEvict
  BY <1>1, <1>3, <1>4 DEF ReclaimOne, PublishEvict, Victims, Evictable
<1>5. CASE ClearOne
  <2>1. entries \in Seq(Entry(S, T)) /\ entries # <<>> /\ Evict(1)
    BY <1>1, <1>5, EntryAt DEF ClearOne
  <2>2. 1 \in 1..Len(entries)
    BY <2>1, EmptySeq
  <2> QED BY <1>3, <2>1, <2>2
<1>6. CASE EndReclaim \/ PublishSkip \/ EndPublish \/ EndClear
  BY <1>2, <1>6 DEF EndReclaim, PublishSkip, EndPublish, EndClear
<1> QED BY <1>4, <1>5, <1>6 DEF CacheStep

(* The last step of an admission is quiet as well.                         *)
LEMMA AdmitReserveQuiet ==
  ASSUME NEW S, NEW T, CacheInv(S, T), AdmitReserve
  PROVE  /\ Quiet
         /\ \E s \in Slot, length \in 0..MaxLength : Reserve(s, length)
<1>1. /\ Registered' = Registered
      /\ \A b, salt, key : Filed(b, salt, key) => Filed(b, salt, key)'
      /\ \A k \in DOMAIN entries' : k \in DOMAIN entries
           /\ entries'[k].block = entries[k].block /\ entries'[k].tokens = entries[k].tokens
  BY AdmitReserveOK
<1>2. PICK s \in Slot, cached \in Seq(Block), length \in 0..MaxLength : ReserveCall(s, cached, length)
  BY WhichCall DEF CacheInv, AdmitReserve
<1>3. Reserve(s, length)
  BY <1>2 DEF AdmitReserve, ReserveCall
<1>4. \A b \in Block : written'[b] <= written[b]
  <2>1. written' = written /\ \A b \in Block : written[b] \in Nat
    BY <1>3, GeometryAssumption DEF Reserve, CacheInv, IInv, TypeOK
  <2> QED BY <2>1
<1>5. \A b \in Block : states'[b] = REGISTERED => states[b] = REGISTERED
  BY <1>1 DEF Registered
<1>6. Quiet
  BY <1>1, <1>4, <1>5 DEF Quiet
<1> QED BY <1>3, <1>6

(* A registration files rows the sequence computed, and nobody else held   *)
(* the block.                                                              *)
LEMMA RegisteredRows ==
  ASSUME NEW S, NEW T, CacheInv(S, T), CacheInv(S, T)', PublishRegister, KeepRows,
         RowsTyped(T), EntriesOwnRows, HoldsHistory(call.sequence, call.tokens)
  PROVE  /\ RowsTyped(T)' /\ EntriesOwnRows' /\ UNCHANGED <<tables, enqueued>>
         /\ \A b \in Block : image'[b] = image[b]
         /\ \A s \in Slot : \A tokens, salt : OwnRows(s, tokens, salt)
              /\ (call.sequence = s => call.tokens = tokens /\ call.salt = salt)
              => OwnRows(s, tokens, salt)'
<1>1. PICK s \in Slot, tokens \in Seq(T), salt \in S, j \in Nat \ {0} : Registers(T, s, tokens, salt, j)
  BY RegisterStep
<1>2. /\ call.sequence = s /\ call.tokens = tokens /\ call.salt = salt
      /\ j \in 1..(lengths[s] \div BlockSize) /\ lengths[s] \div BlockSize \in Nat
      /\ j * BlockSize <= lengths[s] /\ lengths[s] <= Len(tokens)
      /\ j \in 1..Len(tables[s]) /\ tables[s][j] \in Block /\ Register(s, j)
      /\ Prefix(tokens, j * BlockSize) \in Seq(T) /\ clock' = Tick
  BY <1>1 DEF Registers, PublishCall
<1>3. PICK b, key : b = tables[s][j] /\ key = Prefix(tokens, j * BlockSize)
  OBVIOUS
<1>4. PICK e : e = [salt |-> salt, tokens |-> key, block |-> b, lastUsed |-> Tick]
  OBVIOUS
<1>5. IInv /\ IInv' /\ IndexTyped(S, T) /\ TypeOK /\ IndexTyped(S, T)'
  BY DEF CacheInv, IInv
<1>6. e \in Entry(S, T) /\ entries' = Append(entries, e)
      /\ e.block = b /\ e.salt = salt /\ e.tokens = key
  <2>1. Tick \in Nat
    BY <1>5, EntryAt, CacheAssumption DEF Tick
  <2>2. b \in Block /\ key \in Seq(T)
    BY <1>2, <1>3
  <2>3. entries' = Append(entries, [salt |-> salt, tokens |-> Prefix(tokens, j * BlockSize),
                                    block |-> tables[s][j], lastUsed |-> Tick])
    BY <1>1 DEF Registers
  <2> QED BY <1>3, <1>4, <2>1, <2>2, <2>3 DEF Entry
<1>7. /\ Len(entries) \in Nat /\ DOMAIN entries' = 1..(Len(entries) + 1)
      /\ \A k \in 1..Len(entries) : entries'[k] = entries[k]
      /\ entries'[Len(entries) + 1] = e
      /\ Filed(e.block, e.salt, e.tokens)'
      /\ \A c, t, x : Filed(c, t, x) => Filed(c, t, x)'
  BY <1>2, <1>5, <1>6, NewEntry
<1>8. /\ states[b] = COMPLETE /\ states' = [states EXCEPT ![b] = REGISTERED]
      /\ UNCHANGED <<tables, enqueued, written>> /\ states \in [Block -> State] /\ b \in Block
  BY <1>2, <1>3, <1>5 DEF Register, TypeOK
<1>9. \A c \in Block : written[c] \in Nat /\ written'[c] <= written[c]
  BY <1>5, <1>8, GeometryAssumption DEF TypeOK
<1>10. RowsTyped(T)' /\ \A c \in Block : image'[c] = image[c]
  BY <1>5, <1>8, <1>9, KeptRows
<1>11. image[b] = HistoryRows(tokens, j, BlockSize)
  <2>1. DOMAIN tables[s] = 1..Len(tables[s]) /\ j \in Nat \ {0}
    BY <1>5, TableType
  <2>2. image[b] = HistoryRows(tokens, j, Covered(enqueued[s], j))
    BY <1>2, <1>3, <2>1 DEF HoldsHistory
  <2>3. lengths[s] \in Nat /\ enqueued[s] \in Nat /\ lengths[s] <= enqueued[s]
    <3>1. Extents
      BY <1>5 DEF IInv, Consistent
    <3> QED BY <1>5, <3>1, ExtentType
  <2>4. j <= enqueued[s] \div BlockSize
    <3>1. lengths[s] \div BlockSize <= enqueued[s] \div BlockSize /\ enqueued[s] \div BlockSize \in Nat
      BY <2>3, FullMonotone
    <3>2. j <= lengths[s] \div BlockSize
      BY <1>2
    <3> QED BY <1>2, <2>1, <3>1, <3>2
  <2>5. Covered(enqueued[s], j) = BlockSize
    BY <2>1, <2>3, <2>4, CoveredFull
  <2> QED BY <2>2, <2>5
<1>12. EntryRows(e)'
  <2>1. j * BlockSize <= Len(tokens)
    <3>1. lengths[s] \in Nat /\ Len(tokens) \in Nat /\ j * BlockSize \in Nat
      <4>1. lengths[s] \in Nat
        BY <1>5 DEF TypeOK
      <4>2. BlockSize \in Nat
        BY GeometryAssumption
      <4> QED BY <4>1, <4>2
    <3> QED BY <1>2, <3>1
  <2>2. HistoryRows(key, Len(key) \div BlockSize, BlockSize) = HistoryRows(tokens, j, BlockSize)
    BY <1>3, <2>1, KeyRows
  <2>3. image'[b] = HistoryRows(key, Len(key) \div BlockSize, BlockSize)
    BY <1>8, <1>10, <1>11, <2>2
  <2> QED BY <1>6, <2>3 DEF EntryRows, HistoryRows, Prefix
<1>13. EntriesOwnRows'
  <2>1. DOMAIN entries = 1..Len(entries) /\ \A k \in 1..Len(entries) : entries[k].block \in Block
    BY <1>5, EntryAt
  <2>2. ASSUME NEW k \in 1..Len(entries)
        PROVE  EntryRows(entries[k])'
    <3>1. entries'[k] = entries[k] /\ image'[entries[k].block] = image[entries[k].block]
      BY <1>7, <1>10, <2>1
    <3>2. EntryRows(entries[k])
      BY <2>1 DEF EntriesOwnRows
    <3> QED BY <3>1, <3>2 DEF EntryRows, HistoryRows, Prefix
  <2>3. \A k \in DOMAIN entries' : EntryRows(entries[k])'
    <3>1. TAKE k \in DOMAIN entries'
    <3>2. k \in 1..Len(entries) \/ k = Len(entries) + 1
      BY <1>7
    <3>3. CASE k \in 1..Len(entries)
      BY <2>2, <3>3
    <3>4. CASE k = Len(entries) + 1
      BY <1>7, <1>12, <3>4 DEF EntryRows, HistoryRows, Prefix
    <3> QED BY <3>2, <3>3, <3>4
  <2> QED BY <2>3 DEF EntriesOwnRows
<1>14. ASSUME NEW r \in Slot, NEW history, NEW tenant, OwnRows(r, history, tenant),
              call.sequence = r => call.tokens = history /\ call.salt = tenant
       PROVE  OwnRows(r, history, tenant)'
  <2>1. HoldsHistory(r, history)'
    BY <1>5, <1>8, <1>10, <1>14, OthersKeepRows DEF OwnRows
  <2>2. ASSUME NEW i \in 1..Len(tables[r]), states'[tables[r][i]] = REGISTERED
        PROVE  Filed(tables[r][i], tenant, Prefix(history, i * BlockSize))'
    <3>1. PICK c, x : c = tables[r][i] /\ x = Prefix(history, i * BlockSize)
      OBVIOUS
    <3>2. c \in Block
      BY <1>5, <3>1, TableType
    <3>3. CASE c = b
      <4>1. r = s /\ i = j
        <5>1. /\ tables[r][i] = tables[s][j] /\ states[tables[s][j]] \in {PARTIAL, COMPLETE}
              /\ j \in 1..Len(tables[s]) /\ i \in 1..Len(tables[r])
          BY <1>2, <1>3, <1>8, <2>2, <3>1, <3>3
        <5>2. TypeOK /\ Consistent
          BY <1>5 DEF IInv
        <5> QED BY <5>1, <5>2, PrivatePlace
      <4>2. e.block = c /\ e.salt = tenant /\ e.tokens = x
        BY <1>2, <1>3, <1>6, <1>14, <3>1, <3>3, <4>1
      <4> QED BY <1>7, <1>8, <3>1, <4>2 DEF Filed, Prefix
    <3>4. CASE c # b
      <4>1. states[c] = REGISTERED
        BY <1>8, <2>2, <3>1, <3>2, <3>4
      <4>2. Filed(c, tenant, x)
        BY <1>14, <3>1, <4>1 DEF OwnRows, SharesOwn
      <4>3. Filed(c, tenant, x)'
        BY <1>7, <4>2
      <4> QED BY <1>8, <3>1, <4>3 DEF Filed, Prefix
    <3> QED BY <3>3, <3>4
  <2>3. SharesOwn(r, history, tenant)'
    BY <1>8, <2>2 DEF SharesOwn
  <2>4. enqueued'[r] <= Len(history)
    BY <1>8, <1>14 DEF OwnRows
  <2> QED BY <2>1, <2>3, <2>4 DEF OwnRows
<1> QED BY <1>8, <1>10, <1>13, <1>14
-----------------------------------------------------------------------------
(* Matching stops at the first gap, and what it returns is filed under the *)
(* prompt's own prefixes, all of it before the last token.                 *)
LEMMA MatchIsFiled ==
  ASSUME NEW S, NEW T, IndexTyped(S, T), NEW tokens \in Seq(T), tokens # <<>>, NEW salt
  PROVE  /\ Match(tokens, salt) \in Seq(Block)
         /\ Matched(Match(tokens, salt), tokens, salt)
<1> DEFINE limit   == MatchLimit(tokens)
           Ends(n) == /\ Matches(tokens, salt, n)
                      /\ n < limit => ~Matches(tokens, salt, n + 1)
           Stops   == {n \in 0..limit : n < limit => ~Matches(tokens, salt, n + 1)}
<1>1. /\ limit \in Nat /\ limit * BlockSize <= Len(tokens) /\ BlockSize \in Nat \ {0}
      /\ Len(tokens) \in Nat
  <2>1. Len(tokens) \in Nat \ {0} /\ BlockSize \in Nat \ {0} /\ MaxLength \in Nat
    BY EmptySeq, GeometryAssumption
  <2> DEFINE most == IF Len(tokens) - 1 <= MaxLength THEN Len(tokens) - 1 ELSE MaxLength
  <2>2. most \in Nat /\ most <= Len(tokens)
    BY <2>1
  <2>3. limit = most \div BlockSize
    BY DEF MatchLimit
  <2> HIDE DEF most, limit
  <2>4. limit \in Nat /\ limit <= most \div BlockSize
    <3>1. most \in Int /\ BlockSize \in Nat \ {0}
      BY <2>1, <2>2
    <3>2. most \div BlockSize \in Nat
      BY <2>1, <2>2, SMTT(30)
    <3> QED BY <2>3, <3>2
  <2>5. limit * BlockSize <= most
    BY <2>1, <2>2, <2>4, FloorBound
  <2>6. limit * BlockSize \in Nat
    BY <2>1, <2>4
  <2> QED BY <2>1, <2>2, <2>4, <2>5, <2>6
<1> HIDE DEF limit
<1>2. \E n \in 0..limit : Ends(n)
  <2>1. PICK n \in Stops : \A m \in Stops : n <= m
    <3>1. limit \in Stops
      BY <1>1
    <3>2. Stops \in SUBSET Nat
      BY <1>1
    <3> HIDE DEF Stops
    <3> QED BY <3>1, <3>2, LeastNatural
  <2>2. CASE n = 0
    <3>1. Matches(tokens, salt, 0)
      BY DEF Matches, Chain, IsInjective
    <3> QED BY <2>1, <2>2, <3>1
  <2>3. CASE n # 0
    <3>1. n - 1 \in 0..limit /\ n - 1 < limit /\ n - 1 + 1 = n /\ n - 1 \notin Stops
      BY <1>1, <2>1, <2>3
    <3>2. Matches(tokens, salt, n)
      BY <3>1
    <3> QED BY <2>1, <3>2
  <2> QED BY <2>2, <2>3
<1>3. PICK n : n = CHOOSE m \in 0..limit : Ends(m)
  OBVIOUS
<1>4. n \in 0..limit /\ Matches(tokens, salt, n)
  BY <1>2, <1>3
<1>5. Match(tokens, salt) = Chain(tokens, salt, n)
  BY <1>3 DEF Match, limit
<1>6. ASSUME NEW i \in 1..n
      PROVE  /\ BlockAt(tokens, salt, i) \in Block
             /\ Filed(BlockAt(tokens, salt, i), salt, Prefix(tokens, i * BlockSize))
  <2>1. Indexed(tokens, salt, i)
    BY <1>4 DEF Matches
  <2>2. Filed(BlockAt(tokens, salt, i), salt, Prefix(tokens, i * BlockSize))
    BY <2>1, FoundIsFiled
  <2> QED BY <2>2, EntryAt DEF Filed
<1> DEFINE c == [i \in 1..n |-> BlockAt(tokens, salt, i)]
<1>7. n \in Nat /\ n <= limit
  BY <1>1, <1>4
<1>8. c \in [1..n -> Block] /\ c \in Seq(Block) /\ Len(c) = n
  BY <1>6, <1>7
<1>9. \A i \in 1..n : c[i] = BlockAt(tokens, salt, i)
  OBVIOUS
<1>10. Match(tokens, salt) = c
  BY <1>5 DEF Chain
<1> HIDE DEF c
<1>11. n * BlockSize <= Len(tokens)
  <2>1. n * BlockSize <= limit * BlockSize
    <3>1. n \in Int /\ limit \in Int /\ BlockSize \in Nat
      BY <1>1, <1>7
    <3> QED BY <1>7, <3>1, TimesMonotone
  <2>2. n * BlockSize \in Nat /\ limit * BlockSize \in Nat
    BY <1>1, <1>7
  <2> QED BY <1>1, <2>1, <2>2
<1> QED BY <1>6, <1>8, <1>9, <1>10, <1>11 DEF Matched

(* A step that changes neither blocks nor rows.                            *)
LEMMA StillRows ==
  ASSUME NEW T, RowsTyped(T), IInv, UNCHANGED <<vars, image>>
  PROVE  KeepRows
<1>1. written' = written /\ image' = image /\ image \in [Block -> Seq(Seq(T))]
      /\ \A b \in Block : Len(image[b]) = written[b]
  BY DEF vars, RowsTyped
<1>2. \A b \in Block : SubSeq(image[b], 1, written'[b]) = image[b]
  BY <1>1, SubSeqFull
<1>3. image = [b \in Block |-> image[b]]
  BY <1>1
<1> QED BY <1>1, <1>2, <1>3 DEF KeepRows

(* A matched prefix stays filed while its blocks stay registered.          *)
LEMMA StillMatched ==
  ASSUME Quiet, NEW cached \in Seq(Block), NEW tokens, NEW salt, Matched(cached, tokens, salt),
         \A i \in 1..Len(cached) : states'[cached[i]] = REGISTERED
  PROVE  Matched(cached, tokens, salt)'
<1>1. ASSUME NEW i \in 1..Len(cached)
      PROVE  Filed(cached[i], salt, Prefix(tokens, i * BlockSize))'
  <2>1. cached[i] \in Block /\ states'[cached[i]] = REGISTERED
        /\ Filed(cached[i], salt, Prefix(tokens, i * BlockSize))
    BY DEF Matched
  <2>2. PICK b, key : b = cached[i] /\ key = Prefix(tokens, i * BlockSize)
    OBVIOUS
  <2>3. Filed(b, salt, key)'
    BY <2>1, <2>2 DEF Quiet
  <2> QED BY <2>2, <2>3 DEF Filed, Prefix
<1> QED BY <1>1 DEF Matched
=============================================================================
