--------------------------- MODULE MCCleanupTask ----------------------------
(***************************************************************************)
(* Small instances of CleanupTask for TLC.                                 *)
(***************************************************************************)
EXTENDS CleanupTask, TLC

Symmetry == Permutations(Loop) \union Permutations(Instance)

=============================================================================
