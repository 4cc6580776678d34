------------------------------- MODULE Attention -------------------------------
(***************************************************************************)
(* What every stage of the ladder promises for the query rows it is given: *)
(* each element of their output row and their log-sum-exp is written once, *)
(* with the softmax over the visible keys, and no other row is touched.    *)
(* How the row is tiled, which thread writes which element and in which    *)
(* order is left open.                                                     *)
(***************************************************************************)
EXTENDS Integers

CONSTANTS
  N,          (* sequence length, of queries and of keys                  *)
  Row,        (* the rows of the o and lse buffers: this head's 0 .. N-1  *)
              (* and the rows of the next head behind them                *)
  Col,        (* the elements of an output row                            *)
  Unwritten   (* what the caller's o and lse hold before the call         *)

VARIABLES
  score,      (* score[i][j]: the raw score q_i . k_j                     *)
  causal,     (* key j is visible to query i iff j <= i                   *)
  rows,       (* the rows this actor owns                                 *)
  o,          (* o[i][d]: element d of output row i                       *)
  lse         (* lse[i]                                                   *)

inputs == <<score, causal, rows>>
vars   == <<score, causal, rows, o, lse>>

Key == 0 .. N - 1

Visible(i) == {j \in Key : causal => j <= i}

\* softmax(S_i) V, in the notation of ExpWeights: the coefficient of V[k] by
\* the score differences to it.
SoftmaxRow(i) == [k \in Visible(i) |-> [k2 \in Visible(i) |-> score[i][k2] - score[i][k]]]
LseRow(i)     == [k \in Visible(i) |-> score[i][k]]

Init ==
  /\ o = [i \in Row |-> [d \in Col |-> Unwritten]]
  /\ lse = [i \in Row |-> Unwritten]

\* Any of the owned elements that are still unwritten receive their value.
Write ==
  /\ \A i \in Row, d \in Col :
       \/ o'[i][d] = o[i][d]
       \/ i \in rows /\ o[i][d] = Unwritten /\ o'[i][d] = SoftmaxRow(i)
  /\ \A i \in Row :
       \/ lse'[i] = lse[i]
       \/ i \in rows /\ lse[i] = Unwritten /\ lse'[i] = LseRow(i)
  /\ UNCHANGED inputs

Spec == Init /\ [][Write]_vars

\* Every owned row is complete.
Written == \A i \in rows : /\ \A d \in Col : o[i][d] = SoftmaxRow(i)
                           /\ lse[i] = LseRow(i)
Complete == <>[]Written
===============================================================================
