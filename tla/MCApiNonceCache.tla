-------------------------- MODULE MCApiNonceCache ---------------------------
(* Instances of ApiNonceCache for TLC. *)
EXTENDS ApiNonceCache, TLC

Symmetry == Permutations(Nonces)
=============================================================================
