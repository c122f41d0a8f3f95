---------------------------- MODULE ColumnArchive ----------------------------
(***************************************************************************)
(* The columnar archive of an evaluation's numerical records               *)
(* (compact_checks and column_records in validation/decoder.py): lines are *)
(* taken in blocks; a block keeps each layout of keys once, the values of  *)
(* the records of that layout by column, and the layout of every record in *)
(* order.  A record is its keys and their values, in order.                *)
(***************************************************************************)
EXTENDS Naturals, Sequences, FiniteSets

LOCAL INSTANCE Functions
LOCAL INSTANCE SequencesExt

CONSTANTS
  Records,       \* the lines a source may have, among them
  Noncanonical,  \* those that are not one canonical nonempty record
  MaxRecords,    \* bound on a source's lines
  BlockRecords,  \* lines of a block
  NoArchive

ASSUME BlockAssumption == BlockRecords \in Nat \ {0}

VARIABLES
  lines,      \* the source
  archive,    \* the destination: [blocks, closed], or NoArchive
  writer,     \* lines taken by the compaction under way, or NoArchive
  reported    \* the compaction has returned
archiveVars == <<lines, archive, writer, reported>>

ArchiveInit ==
  /\ lines \in UNION {[1..n -> Records] : n \in 0..MaxRecords}
  /\ archive = NoArchive /\ writer = NoArchive /\ reported = FALSE
-----------------------------------------------------------------------------
(* The layouts of a block, as they first appear in it.  Mutant: the order  *)
(* of the keys does not matter.                                            *)
SameKeys(keys, layout)   == Range(keys) = Range(layout)
SameLayout(keys, layout) == keys = layout

LayoutsOf(block) ==
  LET First(p) == \A q \in 1..(p - 1) : ~SameLayout(block[q].keys, block[p].keys)
  IN  [k \in 1..Cardinality({p \in DOMAIN block : First(p)}) |->
         block[CHOOSE p \in DOMAIN block :
                 First(p) /\ Cardinality({q \in 1..p : First(q)}) = k].keys]

Encode(block) ==
  LET layouts == LayoutsOf(block)
      Of(keys) == SelectSeq(block, LAMBDA record : SameLayout(record.keys, keys))
  IN  [order  |-> [p \in DOMAIN block |-> CHOOSE k \in DOMAIN layouts :
                                            SameLayout(block[p].keys, layouts[k])],
       tables |-> [k \in DOMAIN layouts |->
         [keys    |-> layouts[k],
          columns |-> [c \in DOMAIN layouts[k] |->
                         [n \in DOMAIN Of(layouts[k]) |-> Of(layouts[k])[n].values[c]]]]]]

(* The reader's checks of a block.                                         *)
Extent(table) == Len(table.columns[1])
Uses(encoded, k) == Cardinality({p \in DOMAIN encoded.order : encoded.order[p] = k})
ValidBlock(encoded) ==
  /\ Len(encoded.order) \in 1..BlockRecords /\ encoded.tables # <<>>
  /\ \A k \in DOMAIN encoded.tables :
       LET table == encoded.tables[k] IN
       /\ table.keys # <<>> /\ IsInjective(table.keys) /\ Len(table.columns) = Len(table.keys)
       /\ Extent(table) > 0 /\ \A c \in DOMAIN table.columns : Len(table.columns[c]) = Extent(table)
       /\ Uses(encoded, k) = Extent(table)
  /\ Range(encoded.order) \subseteq DOMAIN encoded.tables

(* The next record of a layout is the one after those already yielded.     *)
Position(order, p) == Cardinality({q \in 1..p : order[q] = order[p]})

Decode(encoded) ==
  [p \in DOMAIN encoded.order |->
     LET table == encoded.tables[encoded.order[p]] IN
     [keys   |-> table.keys,
      values |-> [c \in DOMAIN table.columns |-> table.columns[c][Position(encoded.order, p)]]]]

Decoded(blocks) == FlattenSeq([b \in DOMAIN blocks |-> Decode(blocks[b])])
-----------------------------------------------------------------------------
(* open("xb"): an artifact that exists is not touched.                     *)
StartCompaction ==
  /\ writer = NoArchive /\ archive = NoArchive /\ ~reported
  /\ archive' = [blocks |-> <<>>, closed |-> FALSE] /\ writer' = 0
  /\ UNCHANGED <<lines, reported>>

NextBlock == SubSeq(lines, writer + 1, Min({writer + BlockRecords, Len(lines)}))

WriteBlock ==
  /\ writer # NoArchive /\ ~archive.closed /\ writer < Len(lines)
  /\ Range(NextBlock) \cap Noncanonical = {}
  /\ archive' = [archive EXCEPT !.blocks = Append(@, Encode(NextBlock))]
  /\ writer' = writer + Len(NextBlock)
  /\ UNCHANGED <<lines, reported>>

CloseArchive ==
  /\ writer # NoArchive /\ ~archive.closed /\ writer = Len(lines)
  /\ archive' = [archive EXCEPT !.closed = TRUE]
  /\ UNCHANGED <<lines, writer, reported>>

(* What was written is read back before it is reported.                    *)
Reproduces == (\A b \in DOMAIN archive.blocks : ValidBlock(archive.blocks[b])) /\ Decoded(archive.blocks) = lines
ReportArchive ==
  /\ writer # NoArchive /\ archive.closed /\ Reproduces
  /\ reported' = TRUE /\ writer' = NoArchive
  /\ UNCHANGED <<lines, archive>>

(* A line is not canonical, the archive does not reproduce the source, or  *)
(* writing fails: it is unlinked.                                          *)
CompactionRaises ==
  /\ writer # NoArchive
  /\ archive' = NoArchive /\ writer' = NoArchive
  /\ UNCHANGED <<lines, reported>>

CompactionKilled ==
  /\ writer # NoArchive
  /\ writer' = NoArchive
  /\ UNCHANGED <<lines, archive, reported>>

(* Someone clears away what a killed compaction left.                      *)
ClearArchive ==
  /\ writer = NoArchive /\ archive # NoArchive /\ ~reported
  /\ archive' = NoArchive
  /\ UNCHANGED <<lines, writer, reported>>

ArchiveNext ==
  \/ StartCompaction
  \/ WriteBlock
  \/ CloseArchive
  \/ ReportArchive
  \/ CompactionRaises
  \/ CompactionKilled
  \/ ClearArchive
-----------------------------------------------------------------------------
(* An archive, also one a killed compaction left, yields the records of    *)
(* its source in their order, each with its own values: all of them once   *)
(* it is complete, and then the reader's checks and the read-back accept   *)
(* it ("Losslessly transpose canonical JSONL").                            *)
ArchiveIsSource ==
  archive # NoArchive =>
    /\ \A b \in DOMAIN archive.blocks : ValidBlock(archive.blocks[b])
    /\ IsPrefix(Decoded(archive.blocks), lines)
    /\ archive.closed => Reproduces
=============================================================================
