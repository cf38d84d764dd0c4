--------------------------- MODULE MCRegistration ---------------------------
(***************************************************************************)
(* Small instances of Registration for TLC.                                *)
(***************************************************************************)
EXTENDS Registration, TLC

Symmetry ==
    Permutations(Request) \union Permutations(Nonce) \union Permutations(Key)
        \union Permutations(Session)

=============================================================================
