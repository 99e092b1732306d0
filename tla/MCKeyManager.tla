---------------------------- MODULE MCKeyManager ----------------------------
(* The blob storage has as many keys as the cache holds, the newest of which *)
(* may share its second with an added key, or an answer that holds none.     *)
EXTENDS KeyManager, TLC

CONSTANTS k1, k2

MCBlobs == {(0 :> k1) @@ (1 :> k2) @@ (2 :> k1), <<>>}
KeySymmetry == Permutations(Adders)
=============================================================================
