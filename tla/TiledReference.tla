---------------------------- MODULE TiledReference ----------------------------
(***************************************************************************)
(* The CPU references: tiled_online_softmax_reference of reference.py and  *)
(* fa::ref::attention_tiled of cpu_reference.cpp, tile by tile, for one    *)
(* head.  Unlike the kernels the first takes an arbitrary "attend" mask    *)
(* and query and key lengths that differ, so that a row may see nothing    *)
(* in its first tiles, in the last ones, or at all: the only program in    *)
(* which the guards for an empty prefix decide anything.  The second has   *)
(* the causal mask only, leaves the tile loop where the first goes on, and *)
(* guards its exponentials where the first replaces the maximum.           *)
(***************************************************************************)
EXTENDS ExpWeights

CONSTANTS
  Nq, Nkv,        (* numbers of queries and of keys                        *)
  BlockM, BlockN, (* the tile heights and widths considered                *)
  ScoreChoices,   (* the score matrices q_i . k_j considered               *)
  MaskChoices,    (* the attend masks: per query, the set of its keys      *)
  NotYet          (* a row of the result before it is stored               *)

Query == 0 .. Nq - 1
Key   == 0 .. Nkv - 1

ASSUME ReferenceAssumption ==
  /\ Nq \in Nat \ {0} /\ Nkv \in Nat \ {0}
  /\ BlockM \subseteq Nat \ {0} /\ BlockN \subseteq Nat \ {0}   \* ValueError otherwise
  /\ ScoreChoices \subseteq [Query -> [Key -> Int]]
  /\ MaskChoices \subseteq [Query -> SUBSET Key]

VARIABLES
  code,                    (* "torch" or "cpp": whose text runs            *)
  is_causal, attn_mask, block_m, block_n, skip_masked_blocks, score,
  i0, j0,                  (* the query tile and the next key tile         *)
  m, l, acc,               (* running state, by row                        *)
  result                   (* o and lse, by row                            *)

inputs == <<code, is_causal, attn_mask, block_m, block_n, skip_masked_blocks, score>>
vars   == <<inputs, i0, j0, m, l, acc, result>>

\* _keep_mask: the causal mask is aligned top left, also if Nq # Nkv.
keep(i) == {j \in Key : (is_causal => j <= i) /\ j \in attn_mask[i]}

i1       == Min2(i0 + block_m, Nq)
j1       == Min2(j0 + block_n, Nkv)
Rows     == i0 .. i1 - 1
TileKeys == j0 .. j1 - 1

s(i, K) == [j \in K |-> IF j \in keep(i) THEN score[i][j] ELSE NegInf]

Init ==
  /\ code \in {"torch", "cpp"}
  /\ is_causal \in BOOLEAN /\ skip_masked_blocks \in BOOLEAN
  /\ attn_mask \in MaskChoices
  /\ block_m \in BlockM /\ block_n \in BlockN
  /\ score \in ScoreChoices
  /\ code = "cpp" => Nq = Nkv /\ skip_masked_blocks /\ \A i \in Query : attn_mask[i] = Key
  /\ i0 = 0 /\ j0 = 0
  /\ m = [i \in Query |-> NegInf]
  /\ l = [i \in Query |-> EmptySum]
  /\ acc = [i \in Query |-> EmptySum]
  /\ result = [i \in Query |-> NotYet]

\* MUTANT: above the diagonal of the tile's first row.
Masked_firstRow == is_causal /\ skip_masked_blocks /\ j0 > i0

\* A key tile wholly above the causal diagonal is skipped before it is
\* loaded. The torch text goes on with the next tile, the C++ text leaves the
\* loop.
Masked == is_causal /\ skip_masked_blocks /\ j0 > i1 - 1
SkipTile ==
  /\ i0 < Nq /\ j0 < Nkv
  /\ Masked
  /\ j0' = IF code = "torch" THEN j0 + block_n ELSE Nkv
  /\ UNCHANGED <<inputs, i0, m, l, acc, result>>

\* The new maxima of the tile's rows; the rows of other tiles keep theirs.
NewMaxima ==
  {mNew \in [Query -> {NegInf} \cup UNION {{score[i][j] : j \in Key} : i \in Query}] :
     \A i \in Query : IF i \in Rows
                        THEN IsMax(mNew[i], {m[i]} \cup {s(i, TileKeys)[j] : j \in TileKeys})
                        ELSE mNew[i] = m[i]}

Updated(x, alpha, p) == AddTerms(Scale(x, alpha), p)
UpdateRows(x, alpha, p) ==
  [i \in Query |-> IF i \in Rows THEN Updated(x[i], alpha[i], p[i]) ELSE x[i]]

m_safe_none(x) == x  \* MUTANT: -inf - -inf in the rows that have seen nothing

\* The torch text: 0 stands for the maximum of a row that has seen no key.
m_safe(x) == IF x = NegInf THEN 0 ELSE x

TileTorch ==
  /\ code = "torch" /\ i0 < Nq /\ j0 < Nkv /\ ~Masked
  /\ \E mNew \in NewMaxima :
       LET alpha == [i \in Rows |-> exp2_scaled(m[i], m_safe(mNew[i]))]
           p     == [i \in Rows |-> [j \in TileKeys |->
                                      exp2_scaled(s(i, TileKeys)[j], m_safe(mNew[i]))]]
       IN  /\ l' = UpdateRows(l, alpha, p)
           /\ acc' = UpdateRows(acc, alpha, p)
           /\ m' = mNew
  /\ j0' = j0 + block_n
  /\ UNCHANGED <<inputs, i0, result>>

\* The C++ text: such a row is left as it is, and each exponential of -inf
\* is a 0 of its own.
TileCpp ==
  /\ code = "cpp" /\ i0 < Nq /\ j0 < Nkv /\ ~Masked
  /\ \E mNew \in NewMaxima :
       LET alpha == [i \in Rows |-> IF mNew[i] = NegInf THEN 0
                                    ELSE rescale_alpha(m[i], mNew[i])]
           p     == [i \in Rows |-> [j \in TileKeys |->
                                      IF s(i, TileKeys)[j] = NegInf THEN Zero
                                      ELSE exp2_scaled(s(i, TileKeys)[j], mNew[i])]]
       IN  /\ l' = UpdateRows(l, alpha, p)
           /\ acc' = UpdateRows(acc, alpha, p)
           /\ m' = mNew
  /\ j0' = j0 + block_n
  /\ UNCHANGED <<inputs, i0, result>>

\* o = acc / l and lse of the tile's rows, with 1/l = 0 where l = 0.
FinishBlock ==
  /\ i0 < Nq /\ j0 >= Nkv
  /\ result' = [i \in Query |-> IF i \in Rows THEN [o   |-> NormalisedRow(acc[i], l[i]),
                                                   lse |-> finalize_lse(m[i], l[i])]
                                ELSE result[i]]
  /\ i0' = i0 + block_m
  /\ j0' = 0
  /\ UNCHANGED <<inputs, m, l, acc>>

Returned == i0 >= Nq /\ UNCHANGED vars

Next == SkipTile \/ TileTorch \/ TileCpp \/ FinishBlock \/ Returned
Spec == Init /\ [][Next]_vars

-------------------------------------------------------------------------------
(* The un-tiled references                                                 *)

WholeMax(i) == CHOOSE x \in {s(i, Key)[j] : j \in Key} : IsMax(x, {s(i, Key)[j] : j \in Key})

\* One pass over the row, relative to x for its maximum.
WholeSum(i, x) == AddTerms(EmptySum, [j \in Key |-> exp2_scaled(s(i, Key)[j], x)])

math_reference(i) ==
  LET l_row == WholeSum(i, m_safe(WholeMax(i)))
  IN  [o |-> NormalisedRow(l_row, l_row), lse |-> finalize_lse(WholeMax(i), l_row)]

\* torch's own softmax has no guard.
unfused_reference(i) == LET l_row == WholeSum(i, WholeMax(i)) IN NormalisedRow(l_row, l_row)

\* MUTANT: torch's own result may be anything.
error_ratio_anyTorch(out) ==
  \A i \in Query : ~IsPoisoned(out[i]) /\ out[i] = math_reference(i).o

\* The tolerance rule. Nothing is rounded here, so an error is 0 or not a
\* number.
error_ratio(out) ==
  \A i \in Query : /\ ~IsPoisoned(out[i])
                   /\ ~IsPoisoned(unfused_reference(i))
                   /\ out[i] = math_reference(i).o

-------------------------------------------------------------------------------
TypeOK ==
  /\ block_m \in Nat \ {0} /\ block_n \in Nat \ {0}
  /\ score \in [Query -> [Key -> Int]]
  /\ attn_mask \in [Query -> SUBSET Key]
  /\ i0 \in Nat /\ j0 \in Nat
  /\ m \in [Query -> Score]

\* The keys a row has consumed: of those it keeps, all in the query tiles that
\* are finished, and those of the key tiles done in the present one.
Seen(i) == {j \in keep(i) : i < i0 \/ (i \in Rows /\ j < j0)}

\* After any number of tiles that showed the row nothing, before, between or
\* after the others, m is the maximum of the keys it kept and both sums hold
\* them once, relative to it: the -inf guards turn an empty tile into the
\* identity and neither lose nor poison what was there.
RunningExact ==
  \A i \in Query :
    /\ IF Seen(i) = {} THEN m[i] = NegInf
       ELSE m[i] \in {score[i][j] : j \in Seen(i)} /\ \A j \in Seen(i) : score[i][j] <= m[i]
    /\ l[i] = [j \in Seen(i) |-> score[i][j] - m[i]]
    /\ acc[i] = l[i]

\* Every finished row is the softmax over the keys it keeps, and 0 with an
\* lse of +inf if it keeps none, for every tile shape, with and without the
\* skipping of masked tiles, in both texts.
RowsExact ==
  \A i \in Query : result[i] # NotYet =>
    result[i] = IF keep(i) = {} THEN [o |-> EmptySum, lse |-> PosInf]
                ELSE [o   |-> [j \in keep(i) |-> [k \in keep(i) |-> score[i][k] - score[i][j]]],
                      lse |-> [j \in keep(i) |-> score[i][j]]]

\* The tiled result is what math_reference computes in one pass, and the
\* ratio rule accepts it unless some row keeps no key: there torch's own
\* result is NaN and the rule does not apply.
RatioVerdict ==
  i0 >= Nq =>
    /\ \A i \in Query : result[i] = math_reference(i)
    /\ error_ratio([i \in Query |-> result[i].o]) <=> \A i \in Query : keep(i) # {}
===============================================================================
