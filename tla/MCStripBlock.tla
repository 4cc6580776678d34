------------------------------ MODULE MCStripBlock ------------------------------
(***************************************************************************)
(* StripBlock on small blocks: two warps of one row each, and one warp of  *)
(* two rows.  The last block is partial, and so is the last tile.          *)
(***************************************************************************)
EXTENDS StripBlock

\* The elements of a row go round the lanes, never to the lanes of the row in
\* the row's order.
MCHolder ==
  [n \in {1, 2} |-> [x \in 0 .. n - 1 |-> [c \in 0 .. Dim - 1 |-> (2 * x + c + 1) % (2 * n)]]]

\* The first row's maximum moves with every key while the second row's stays,
\* and a matrix with neither pattern.
MCScoreChoices ==
  { [q \in 0 .. N - 1 |-> [k \in 0 .. N - 1 |-> IF q % 2 = 0 THEN k ELSE 0 - k]],
    [q \in 0 .. N - 1 |-> [k \in 0 .. N - 1 |-> (2 * q + 3 * k) % 4]] }
===============================================================================
