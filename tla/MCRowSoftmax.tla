---------------------------- MODULE MCRowSoftmax ----------------------------
(* Five keys, blocks of two rows, every tile height from one key to the     *)
(* whole row (3 leaves a partial last tile), every score row over a small   *)
(* range, so that the maximum moves at every tile, at some, or never.       *)
EXTENDS RowSoftmax

MCTileSizes == 1 .. 4
MCRawScores == -1 .. 1
=============================================================================
