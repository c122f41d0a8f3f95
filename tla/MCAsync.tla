------------------------------- MODULE MCAsync -------------------------------
(* Asynchronous stepping on a pool too small for all its requests at once. *)
EXTENDS EngineAsync, SequencesExt, TLC

Incremental  == [mixed : BOOLEAN, lifetime : {FALSE}, prefix : {FALSE}]
Cached       == [mixed : {TRUE}, lifetime : {FALSE}, prefix : {TRUE}]
ServiceModes == Incremental \cup Cached \cup [mixed : {TRUE}, lifetime : {TRUE}, prefix : {FALSE}]
LiveModes    == [mixed : BOOLEAN, lifetime : BOOLEAN, prefix : {FALSE}] \cup Cached

(* A prompt shorter than a block and one longer than a block; one only.    *)
MixedPrompts == {<<0>>, <<0, 0, 0>>}
LongPrompts  == {<<0, 0, 0>>}

MCSeedOrder == SetToSeq(Block)
Symmetry    == Permutations(Block) \cup Permutations(Ids)
=============================================================================
