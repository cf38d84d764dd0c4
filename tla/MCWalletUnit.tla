---------------------------- MODULE MCWalletUnit ----------------------------
(***************************************************************************)
(* Small instances of WalletUnit for TLC.                                  *)
(***************************************************************************)
EXTENDS WalletUnit, TLC

Symmetry ==
    Permutations(Tag) \union Permutations(Person) \union Permutations(Wua)
        \union Permutations(Cred)

=============================================================================
