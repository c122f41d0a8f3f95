------------------------------ MODULE MCSetup ------------------------------
(* Two commands at a time, in one checkout or in two.                      *)
EXTENDS Setup, TLC

(* A new checkout, and one that is linked to another store but has a model *)
(* of its own.                                                             *)
MCLayouts == {[checkpoint |-> "missing", model |-> "missing"],
              [checkpoint |-> "foreign", model |-> "local"]}

Symmetry == Permutations(Process) \cup Permutations(Checkout)
=============================================================================
