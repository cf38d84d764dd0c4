------------------------------ MODULE MCNonce -------------------------------
(***************************************************************************)
(* Small instances of Nonce for TLC.  The sets are chosen in the .cfg      *)
(* files; requests, nonces and replicas are interchangeable.               *)
(***************************************************************************)
EXTENDS Nonce, TLC

Symmetry ==
    Permutations(Request) \union Permutations(Nonce) \union Permutations(Replica)

=============================================================================
