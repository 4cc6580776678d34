------------------------------ MODULE MCFusedBlock ------------------------------
(***************************************************************************)
(* FusedBlock on 4 keys: the first block is full, the second has one row   *)
(* and two threads past N.  The tile heights make the last tile partial,   *)
(* exact and longer than the sequence.                                     *)
(***************************************************************************)
EXTENDS FusedBlock

\* Scores rising along a row (every tile moves the maximum), falling (only
\* the first does), and neither.
MCScoreChoices ==
  { [q \in 0 .. N - 1 |-> [k \in 0 .. N - 1 |-> k - q]],
    [q \in 0 .. N - 1 |-> [k \in 0 .. N - 1 |-> q - 2 * k]],
    [q \in 0 .. N - 1 |-> [k \in 0 .. N - 1 |-> (2 * q + 3 * k) % 4]] }
===============================================================================
