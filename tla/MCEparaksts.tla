---------------------------- MODULE MCEparaksts -----------------------------
(***************************************************************************)
(* Small instances of Eparaksts for TLC.                                   *)
(***************************************************************************)
EXTENDS Eparaksts, TLC

Symmetry ==
    Permutations(Call) \union Permutations(RequestID) \union Permutations(Session)

=============================================================================
