---------------------------- MODULE MCChunkTransfer ----------------------------
(* Model values for ChunkTransfer.                                         *)
EXTENDS ChunkTransfer

CONSTANTS r1, r2
=============================================================================
