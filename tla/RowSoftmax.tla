------------------------------ MODULE RowSoftmax ------------------------------
(***************************************************************************)
(* One query row of the fused kernels: the running maximum m, the running  *)
(* sum l and the un-normalised output acc, carried over the K/V tiles of   *)
(* the row's block (src/src/stage3_fused.cu, the tile loop of fa_s3_fused; *)
(* S4 and S5 carry the same recurrence).  One step consumes one tile.      *)
(***************************************************************************)
EXTENDS ExpWeights

CONSTANTS
  N,           (* sequence length                                         *)
  Br,          (* query rows per block                                    *)
  TileSizes,   (* the K/V tile heights a launch may choose                *)
  RawScores,   (* the raw scores a q_i . k_j may be                       *)
  NotYet       (* the row's result before its epilogue                    *)

ASSUME SizeAssumption ==
  /\ N \in Nat \ {0}
  /\ Br \in Nat \ {0}
  /\ TileSizes \subseteq Nat \ {0}
  /\ RawScores \subseteq Int

VARIABLES
  i0, i,       (* the block's first row and this row, global indices      *)
  causal, bc,  (* the launch's mask flag and tile height                  *)
  score,       (* this row's raw scores                                   *)
  t,           (* the next tile                                           *)
  m, l, acc,   (* the running state                                       *)
  result       (* the row's output and log-sum-exp                        *)

inputs == <<i0, i, causal, bc, score>>
vars   == <<i0, i, causal, bc, score, t, m, l, acc, result>>

Key == 0 .. N - 1

\* MUTANT: the last, partial tile is lost.
n_tiles_floor == (IF causal THEN Min2(i0 + Br, N) ELSE N) \div bc

\* The first key no row of the block sees, and the tiles before it.
kv_end  == IF causal THEN Min2(i0 + Br, N) ELSE N
n_tiles == (kv_end + bc - 1) \div bc

\* The tile's slots, by the global key index; those past N hold zeroes.
j0       == t * bc
TileKeys == j0 .. j0 + bc - 1
Raw(jj)  == IF jj \in Key THEN score[jj] ELSE 0

\* The block-uniform test that skips masking, and the mask inside it.
NeedsMask_diagonalOnly == causal /\ j0 + bc - 1 > i0  \* MUTANT: partial tiles unmasked
Masked_diagonal(jj)    == jj >= N \/ (causal /\ jj >= i)  \* MUTANT: the diagonal is masked

NeedsMask  == j0 + bc > N \/ (causal /\ j0 + bc - 1 > i0)
Masked(jj) == jj >= N \/ (causal /\ jj > i)
s == [jj \in TileKeys |-> IF NeedsMask /\ Masked(jj) THEN NegInf ELSE Raw(jj)]

\* The running state before the first tile.
Start ==
  /\ t = 0
  /\ m = NegInf
  /\ l = EmptySum
  /\ acc = EmptySum
  /\ result = NotYet

Init ==
  /\ causal \in BOOLEAN
  /\ bc \in TileSizes
  /\ i0 \in {b * Br : b \in 0 .. (N - 1) \div Br}
  /\ i \in i0 .. i0 + Br - 1
  /\ score \in [Key -> RawScores]
  /\ Start

\* MUTANT: acc misses the rescale l gets.
Tile_accNotRescaled ==
  /\ t < n_tiles
  /\ \E mNew \in {m} \cup {s[jj] : jj \in TileKeys} :
       /\ IsMax(mNew, {m} \cup {s[jj] : jj \in TileKeys})
       /\ LET p == [jj \in TileKeys |-> p_from_score(s[jj], mNew)]
          IN  /\ l' = AddTerms(Scale(l, rescale_alpha(m, mNew)), p)
              /\ acc' = AddTerms(acc, p)
       /\ m' = mNew
  /\ t' = t + 1
  /\ UNCHANGED <<inputs, result>>

\* MUTANT: the loop runs once too often.
Tile_oneMore ==
  /\ t <= n_tiles
  /\ t' = t + 1
  /\ UNCHANGED <<inputs, m, l, acc, result>>

\* The update of one tile: the new maximum first, then both sums rescaled by
\* the same alpha, then the tile's terms relative to the new maximum.
Tile ==
  /\ t < n_tiles
  /\ \E mNew \in {m} \cup {s[jj] : jj \in TileKeys} :
       /\ IsMax(mNew, {m} \cup {s[jj] : jj \in TileKeys})
       /\ LET alpha == rescale_alpha(m, mNew)
              p     == [jj \in TileKeys |-> p_from_score(s[jj], mNew)]
          IN  /\ l' = AddTerms(Scale(l, alpha), p)
              /\ acc' = AddTerms(Scale(acc, alpha), p)
       /\ m' = mNew
  /\ t' = t + 1
  /\ UNCHANGED <<inputs, result>>

\* The deferred normalisation and the log-sum-exp, for every row of the
\* block, also the rows past N nobody stores.
Epilogue ==
  /\ t = n_tiles
  /\ result = NotYet
  /\ result' = [o |-> NormalisedRow(acc, l), lse |-> finalize_lse(m, l)]
  /\ UNCHANGED <<inputs, t, m, l, acc>>

Next == Tile \/ Epilogue
Spec == Init /\ [][Next]_vars

-------------------------------------------------------------------------------
\* The keys a row sees: all of them, or under the causal mask those up to it.
Visible == {k \in Key : causal => k <= i}
\* Those of the tiles consumed so far.
Seen == {k \in Visible : k < j0}

TypeOK ==
  /\ causal \in BOOLEAN
  /\ bc \in TileSizes
  /\ i0 \in 0 .. N - 1
  /\ i \in i0 .. i0 + Br - 1
  /\ score \in [Key -> RawScores]
  /\ t \in 0 .. n_tiles
  /\ m \in Score

\* m is the maximum of the raw scores of the visible keys in the tiles
\* consumed, and -inf exactly before the first one: neither a masked key nor
\* a zero-filled slot past N ever sets it (the mask block of the tile loop).
RunningMax ==
  IF t = 0 THEN m = NegInf
  ELSE /\ m \in {score[k] : k \in Seen}
       /\ \A k \in Seen : score[k] <= m

\* l and acc hold exactly one term per visible key consumed, every one of
\* them relative to the present maximum: a moved maximum has rescaled both
\* sums, whatever the tiles and the order of the scores (the update of l and
\* acc by alpha, "forgetting acc is BUG 1").
SumsExact ==
  /\ l = [k \in Seen |-> score[k] - m]
  /\ acc = [k \in Seen |-> score[k] - m]

\* After the first tile the -inf guards are idle, every exponent is at most 0
\* (p and alpha never exceed 1, so P fits half precision) and one of them is
\* 0, so l >= 1 and the epilogue's 1/l is an ordinary division
\* (softmax_math.cuh: "cannot happen for top-left causal").
SumAtLeastOne ==
  t > 0 => /\ m # NegInf
           /\ \A k \in DOMAIN l : l[k] <= 0
           /\ \E k \in DOMAIN l : l[k] = 0

\* The finished row is the softmax over exactly the visible keys and its
\* log-sum-exp, independently of Br, bc and the tiles skipped.
RowExact ==
  result # NotYet =>
    result = [o   |-> [k \in Visible |-> [k2 \in Visible |-> score[k2] - score[k]]],
              lse |-> [k \in Visible |-> score[k]]]
===============================================================================
