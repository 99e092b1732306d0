-------------------------- MODULE MCServeMetadata --------------------------
(* A file that takes a full buffer and a rest, and an empty one. *)
EXTENDS ServeMetadata

MCFileSizes == <<3, 0>>
=============================================================================
