--------------------------- MODULE MCTiledReference ---------------------------
(***************************************************************************)
(* TiledReference for three queries and keys: every mask of the first two  *)
(* queries, the third with all keys or none.                               *)
(***************************************************************************)
EXTENDS TiledReference

\* A maximum that moves up with each key, down with each key, and ties.
MCScoreChoices ==
  { [i \in Query |-> [j \in Key |-> j - i]],
    [i \in Query |-> [j \in Key |-> 2 * i - j]],
    [i \in Query |-> [j \in Key |-> (i + j) % 2]] }
MCMaskChoices == {mask \in [Query -> SUBSET Key] : mask[2] \in {{}, Key}}
===============================================================================
