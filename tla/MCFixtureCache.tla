--------------------------- MODULE MCFixtureCache ---------------------------
(* Two worktrees, two versions of the generators.                          *)
EXTENDS FixtureCache, TLC

=============================================================================
