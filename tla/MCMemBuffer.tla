---------------------------- MODULE MCMemBuffer -----------------------------
(***************************************************************************)
(* Two buffers, which the serialiser and the reader move between them,     *)
(* one more block than buffers for the moment a buffer grows, two bytes    *)
(* to tell their order, and room for a buffer that was constructed small   *)
(* or empty to grow twice.                                                 *)
(***************************************************************************)
EXTENDS MemBuffer, TLC

CONSTANTS first, second, k1, k2, k3

TheBuffers == {first, second}
TheBlocks == {k1, k2, k3}
Interchangeable == Permutations(TheBuffers) \cup Permutations(TheBlocks)
=============================================================================
