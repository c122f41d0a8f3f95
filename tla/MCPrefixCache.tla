---------------------------- MODULE MCPrefixCache ----------------------------
(* Two tenants, an index smaller than the pool, and histories that share   *)
(* one block and part at the end of the second.                            *)
EXTENDS CachedSequences, SequencesExt, TLC

MCPrompts == {<<0, 0, 0>>, <<0, 0, 0, 0, 0>>}
MCSalts   == {"a", "b"}
MCSeedOrder == SetToSeq(Block)
Symmetry  == Permutations(Block)
=============================================================================
