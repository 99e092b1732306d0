--------------------------- MODULE MCContentSync ---------------------------
(* Instances of ContentSync for TLC. *)
EXTENDS ContentSync

CONSTANTS s1, s2, s3, c1, c2

(* The key of the Deleted record of a content. *)
MCDL(c) == <<"DL_", c>>
MCDeleteKeys == {MCDL(c) : c \in Contents}

(* c1 is broadcast under two satellite ids, c2 under one. *)
MCContentOf == [s \in Sids |-> IF s = s3 THEN c2 ELSE c1]
=============================================================================
