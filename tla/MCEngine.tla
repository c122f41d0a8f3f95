------------------------------ MODULE MCEngine ------------------------------
(* The engine on a pool too small for all its requests at once.            *)
EXTENDS EngineSync, SequencesExt, TLC

Standalone  == [mixed : {FALSE}, lifetime : {FALSE}, prefix : {FALSE}]
Cached      == [mixed : {TRUE}, lifetime : {FALSE}, prefix : {TRUE}]
Reserving   == Cached \cup {[mixed |-> m, lifetime |-> TRUE, prefix |-> m] : m \in BOOLEAN}

(* A prompt shorter than a block and one longer; a block that one fills    *)
(* with generated tokens is not the block the other's prompt begins with.  *)
MixedPrompts  == {<<0>>, <<0, 0, 0>>}
CachedPrompts == {<<0>>, <<0, 0, 1>>}

MCSeedOrder == SetToSeq(Block)
Symmetry    == Permutations(Block) \cup Permutations(Ids)
Tenants     == Symmetry \cup Permutations(Salts)
=============================================================================
