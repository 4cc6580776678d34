---------------------------- MODULE MCTiledProduct ----------------------------
(***************************************************************************)
(* Tiles of 4 x 4 by four threads, chunks of 2 and vectors of 2: the ratios *)
(* of the real tiles (64, 256, 16 and 4).  Six keys leave the last tile    *)
(* half empty in both directions, and put one tile above the diagonal.     *)
(***************************************************************************)
EXTENDS TiledProduct
===============================================================================
