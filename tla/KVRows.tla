------------------------------- MODULE KVRows -------------------------------
(***************************************************************************)
(* What the rows of the KV pool hold.  The device is not modelled; a row   *)
(* is identified by the token history its keys and values were computed    *)
(* from.  A runner that appends to a sequence reads the history through    *)
(* the sequence's table, so a wrong table or a stale block shows up in     *)
(* every later row.                                                        *)
(***************************************************************************)
EXTENDS PrefixCache

VARIABLE image  (* per block: the history behind each row below `written'  *)

RowsInit == image = [b \in Block |-> <<>>]

(* The row of table position p (1-based), and the table entry holding it.  *)
EntryIndex(p) == CeilDiv(p, BlockSize)
Row(s, p)     == image[tables[s][EntryIndex(p)]][p - (EntryIndex(p) - 1) * BlockSize]

(* The runner runs tokens lengths[s]+1..length of the sequence.            *)
WriteRows(s, length, tokens) ==
  LET past == lengths[s]
      read == IF past = 0 THEN <<>> ELSE Row(s, past)
      NewRows(b) ==
        LET i == CHOOSE i \in DOMAIN tables[s] : tables[s][i] = b
        IN  [j \in 1..written'[b] |->
               IF j <= written[b] THEN image[b][j]
               ELSE read \o SubSeq(tokens, past + 1, (i - 1) * BlockSize + j)]
  IN  /\ Write(s, length)
      /\ image' = [b \in Block |-> IF written'[b] = written[b] THEN image[b] ELSE NewRows(b)]

(* Any other step: rows past a count are gone, the others stay.            *)
KeepRows == image' = [b \in Block |-> SubSeq(image[b], 1, written'[b])]

(* Rows 1..n of the i-th block of a history.                               *)
HistoryRows(tokens, i, n) == [j \in 1..n |-> Prefix(tokens, (i - 1) * BlockSize + j)]

(* Every row a sequence would attend to was computed from its own history. *)
HoldsHistory(s, tokens) ==
  \A i \in DOMAIN tables[s] :
    image[tables[s][i]] = HistoryRows(tokens, i, Covered(enqueued[s], i))

(* A cached block's rows are those its key names.                          *)
EntryRows(e) == image[e.block] = HistoryRows(e.tokens, Len(e.tokens) \div BlockSize, BlockSize)
=============================================================================
