--------------------------- MODULE MCBlockManager ---------------------------
(* The block manager on a small pool.  Blocks are interchangeable: every   *)
(* order of the free list is a renaming of the one it starts with.         *)
EXTENDS BlockManager, SequencesExt, TLC

MCSeedOrder == SetToSeq(Block)
Symmetry  == Permutations(Block)
=============================================================================
