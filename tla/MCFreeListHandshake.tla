------------------------ MODULE MCFreeListHandshake ------------------------
(***************************************************************************)
(* Four chunks, two on each list at the start.                             *)
(***************************************************************************)
EXTENDS FreeListHandshake

CONSTANTS c1, c2, c3, c4

MCChunk     == {c1, c2, c3, c4}
MCFirstHalf == {c1, c2}
=============================================================================
