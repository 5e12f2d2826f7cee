------------------------------- MODULE MCGate -------------------------------
(***************************************************************************)
(* Two connections, three nonces and a cache of two, so that nonces are    *)
(* evicted and come back; two failures lock the verifier.                  *)
(***************************************************************************)
EXTENDS Gate, TLC

Symmetry == Permutations(Connection) \cup Permutations(Nonce)
===========================================================================
