--------------------------- MODULE RowSoftmaxProofs ---------------------------
(***************************************************************************)
(* The recurrence is exact for every sequence length, block height, tile   *)
(* height, mask flag and score row.  The invariants are inductive together:*)
(* the sums are relative to m, and m is a maximum of exactly the keys that *)
(* are in the sums.                                                        *)
(***************************************************************************)
EXTENDS RowSoftmax, TLAPS

USE SentinelAssumption, SizeAssumption

\* A tile count rounded up covers its keys, one rounded down would not.
LEMMA CeilingCovers ==
  ASSUME NEW x \in Nat, NEW b \in Nat \ {0}
  PROVE  /\ (x + b - 1) \div b \in Nat
         /\ x <= ((x + b - 1) \div b) * b
<1>1. /\ (x + b - 1) \div b \in Int
      /\ (x + b - 1) = (b * ((x + b - 1) \div b)) + ((x + b - 1) % b)
      /\ (x + b - 1) % b \in 0 .. b - 1
  OBVIOUS
<1>2. (x + b - 1) \div b >= 0
  OBVIOUS
<1>3. ((x + b - 1) \div b) * b = b * ((x + b - 1) \div b)
  BY <1>1
<1>. QED
  BY <1>1, <1>2, <1>3

\* Consuming a tile advances the first key not yet seen by its height.
LEMMA NextTileStart ==
  ASSUME NEW x \in Nat, NEW b \in Nat \ {0}
  PROVE  /\ x * b \in Nat
         /\ (x + 1) * b = x * b + b
         /\ x > 0 => x * b >= b
         /\ 0 * b = 0
  OBVIOUS

\* What the epilogue and the next tile start from: the visible keys of the
\* tiles before key j.
SeenBefore(j) == {k \in Visible : k < j}

\* The block-uniform test skips the mask only on tiles no key of which is
\* masked for any row of the block: either way a slot holds its raw score
\* when its key is visible to the row and NegInf when it is not.
LEMMA SlotScores ==
  ASSUME TypeOK, NEW jj \in TileKeys
  PROVE  /\ jj \in Nat
         /\ s[jj] = IF jj \in Visible THEN score[jj] ELSE NegInf
         /\ jj \in Visible => score[jj] \in Int
<1>1. /\ bc \in Nat \ {0} /\ t \in Nat /\ i0 \in Nat /\ i \in Nat /\ i0 <= i
  BY DEF TypeOK
<1>2. j0 \in Nat
  BY <1>1, NextTileStart DEF j0
<1>3. /\ jj \in Nat /\ j0 <= jj /\ jj <= j0 + bc - 1
  BY <1>1, <1>2 DEF TileKeys
<1>4. jj \in Visible <=> ~ Masked(jj)
  BY <1>1, <1>3 DEF Visible, Key, Masked, TypeOK
<1>5. Masked(jj) => NeedsMask
  BY <1>1, <1>2, <1>3 DEF Masked, NeedsMask, TypeOK
<1>6. s[jj] = IF Masked(jj) THEN NegInf ELSE Raw(jj)
  BY <1>5 DEF s
<1>7. jj \in Visible => Raw(jj) = score[jj] /\ score[jj] \in Int
  BY DEF Raw, Visible, TypeOK
<1>. QED
  BY <1>3, <1>4, <1>6, <1>7

\* The maximum over a tile and the tiles before it: key 0 is visible to every
\* row and in the first tile, so it is a score and never the sentinel.
LEMMA NewMaximum ==
  ASSUME TypeOK, RunningMax,
         NEW mNew \in {m} \cup {s[jj] : jj \in TileKeys},
         IsMax(mNew, {m} \cup {s[jj] : jj \in TileKeys})
  PROVE  /\ mNew \in Int
         /\ mNew \in {score[k] : k \in SeenBefore(j0 + bc)}
         /\ \A k \in SeenBefore(j0 + bc) : score[k] <= mNew
         /\ m # NegInf => m \in Int
<1>1. /\ bc \in Nat \ {0} /\ t \in Nat /\ i \in Nat /\ j0 \in Nat
      /\ t > 0 => j0 >= bc
      /\ t = 0 => j0 = 0
  BY NextTileStart DEF TypeOK, j0
<1>2. TileKeys = {k \in Nat : j0 <= k /\ k < j0 + bc}
  BY <1>1 DEF TileKeys
<1>3. \A k \in Visible : k \in Nat /\ score[k] \in Int
  <2>1. Visible \subseteq Key /\ Key \subseteq Nat
    BY DEF Visible, Key
  <2>. QED
    BY <2>1 DEF TypeOK
<1>4. m = NegInf \/ m \in Int
  BY DEF TypeOK, Score
<1>5. \A jj \in TileKeys : s[jj] = IF jj \in Visible THEN score[jj] ELSE NegInf
  BY SlotScores
<1>6. 0 \in Visible
  BY <1>1 DEF Visible, Key
<1>7. \A y \in {m} \cup {s[jj] : jj \in TileKeys} : Max2(mNew, y) = mNew
  BY DEF IsMax
<1>8. mNew \in Int
  <2>1. CASE t = 0
    <3>1. 0 \in TileKeys /\ s[0] = score[0] /\ score[0] \in Int
      BY <1>1, <1>2, <1>3, <1>5, <1>6, <2>1
    <3>2. Max2(mNew, s[0]) = mNew
      BY <1>7, <3>1
    <3>3. mNew # NegInf
      BY <3>1, <3>2 DEF Max2
    <3>4. mNew \in Int \cup {NegInf}
      BY <1>3, <1>4, <1>5
    <3>. QED
      BY <3>3, <3>4
  <2>2. CASE t > 0
    <3>1. m \in Int
      BY <1>3, <2>2 DEF RunningMax, Seen
    <3>2. Max2(mNew, m) = mNew
      BY <1>7
    <3>3. mNew # NegInf
      BY <3>1, <3>2 DEF Max2
    <3>4. mNew \in Int \cup {NegInf}
      BY <1>3, <1>4, <1>5
    <3>. QED
      BY <3>3, <3>4
  <2>. QED
    BY <1>1, <2>1, <2>2
<1>9. \A y \in {m} \cup {s[jj] : jj \in TileKeys} : y \in Int => y <= mNew
  BY <1>7, <1>8 DEF Max2
<1>10. SeenBefore(j0 + bc) = Seen \cup (TileKeys \cap Visible)
  BY <1>1, <1>2, <1>3 DEF SeenBefore, Seen
<1>11. mNew \in {score[k] : k \in SeenBefore(j0 + bc)}
  <2>1. CASE mNew = m
    <3>1. t > 0
      BY <1>1, <1>8, <2>1 DEF RunningMax
    <3>. QED
      BY <1>10, <2>1, <3>1 DEF RunningMax
  <2>2. CASE \E jj \in TileKeys : mNew = s[jj]
    <3>1. PICK jj \in TileKeys : mNew = s[jj]
      BY <2>2
    <3>2. jj \in Visible /\ mNew = score[jj]
      BY <1>5, <1>8, <3>1
    <3>. QED
      BY <1>10, <3>1, <3>2
  <2>. QED
    BY <2>1, <2>2
<1>12. ASSUME NEW k \in SeenBefore(j0 + bc)
       PROVE  score[k] <= mNew
  <2>1. CASE k \in Seen
    <3>1. t > 0
      BY <1>1, <1>3, <2>1 DEF Seen
    <3>2. score[k] <= m /\ m \in Int /\ score[k] \in Int
      BY <1>3, <2>1, <3>1 DEF RunningMax, Seen
    <3>3. m <= mNew
      BY <1>9, <3>2
    <3>. QED
      BY <1>8, <3>2, <3>3
  <2>2. CASE k \in TileKeys \cap Visible
    <3>1. s[k] = score[k] /\ score[k] \in Int
      BY <1>3, <1>5, <2>2
    <3>. QED
      BY <1>9, <2>2, <3>1
  <2>. QED
    BY <1>10, <2>1, <2>2
<1>. QED
  BY <1>4, <1>8, <1>11, <1>12

\* One tile on one sum: rescaling moves the old terms to the new maximum, the
\* tile's visible keys join them, its masked and padded slots add nothing and
\* no key is in twice.
LEMMA SumAfterTile ==
  ASSUME TypeOK, RunningMax,
         NEW mNew \in Int,
         m # NegInf => m \in Int,
         NEW x, x = [k \in Seen |-> score[k] - m],
         NEW p, p = [jj \in TileKeys |-> p_from_score(s[jj], mNew)]
  PROVE  AddTerms(Scale(x, rescale_alpha(m, mNew)), p)
           = [k \in SeenBefore(j0 + bc) |-> score[k] - mNew]
<1>. DEFINE tile == TileKeys \cap Visible
            live == {k \in DOMAIN p : p[k] # Zero}
            moved == [k \in Seen |-> score[k] - mNew]
<1>1. /\ bc \in Nat \ {0} /\ t \in Nat /\ j0 \in Nat
      /\ t = 0 => j0 = 0
  BY NextTileStart DEF TypeOK, j0
<1>2. TileKeys = {k \in Nat : j0 <= k /\ k < j0 + bc}
  BY <1>1 DEF TileKeys
<1>3. \A k \in Visible : k \in Nat /\ score[k] \in Int
  <2>1. Visible \subseteq Key /\ Key \subseteq Nat
    BY DEF Visible, Key
  <2>. QED
    BY <2>1 DEF TypeOK
<1>4. /\ SeenBefore(j0 + bc) = Seen \cup tile
      /\ Seen \cap tile = {}
      /\ NaN \notin Seen
  BY <1>1, <1>2, <1>3 DEF SeenBefore, Seen
<1>5. \A jj \in TileKeys : p[jj] = IF jj \in Visible THEN score[jj] - mNew ELSE Zero
  <2>. SUFFICES ASSUME NEW jj \in TileKeys
                PROVE  p[jj] = IF jj \in Visible THEN score[jj] - mNew ELSE Zero
    OBVIOUS
  <2>1. /\ s[jj] = IF jj \in Visible THEN score[jj] ELSE NegInf
        /\ jj \in Visible => score[jj] # NegInf
        /\ mNew # NegInf
    BY <1>3, SlotScores
  <2>2. p[jj] = p_from_score(s[jj], mNew)
    OBVIOUS
  <2>. QED
    BY <2>1, <2>2 DEF p_from_score, exp2_scaled
<1>6. \A k \in tile : score[k] - mNew \in Int /\ p[k] = score[k] - mNew
  BY <1>3, <1>5
<1>7. live = tile /\ \A k \in live : p[k] # NaN
  BY <1>5, <1>6
<1>8. Scale(x, rescale_alpha(m, mNew)) = moved
  <2>1. DOMAIN x = Seen /\ ~ IsPoisoned(x)
    BY <1>4 DEF IsPoisoned
  <2>2. CASE m = NegInf
    <3>1. Seen = {}
      <4>1. t = 0
        BY <1>1, <1>3, <2>2 DEF RunningMax, Seen
      <4>. QED
        BY <1>1, <1>3, <4>1 DEF Seen
    <3>2. Scale(x, rescale_alpha(m, mNew)) = EmptySum
      BY <2>1, <2>2 DEF Scale, rescale_alpha
    <3>. QED
      BY <3>1, <3>2 DEF EmptySum
  <2>3. CASE m # NegInf
    <3>1. m \in Int /\ rescale_alpha(m, mNew) = m - mNew /\ m - mNew \in Int
      BY <2>3 DEF rescale_alpha, exp2_scaled
    <3>2. Scale(x, rescale_alpha(m, mNew)) = [k \in Seen |-> x[k] + (m - mNew)]
      BY <2>1, <3>1 DEF Scale
    <3>3. \A k \in Seen : x[k] + (m - mNew) = score[k] - mNew
      <4>. SUFFICES ASSUME NEW k \in Seen
                    PROVE  x[k] + (m - mNew) = score[k] - mNew
        OBVIOUS
      <4>1. score[k] \in Int /\ x[k] = score[k] - m
        BY <1>3 DEF Seen
      <4>. QED
        BY <3>1, <4>1
    <3>. QED
      BY <3>2, <3>3
  <2>. QED
    BY <2>2, <2>3
<1>9. DOMAIN moved = Seen /\ ~ IsPoisoned(moved)
  BY <1>4 DEF IsPoisoned
<1>10. AddTerms(moved, p)
         = [k \in Seen \cup live |-> IF k \in live THEN p[k] ELSE moved[k]]
  BY <1>4, <1>7, <1>9 DEF AddTerms
<1>11. \A k \in Seen \cup tile :
         (IF k \in live THEN p[k] ELSE moved[k]) = score[k] - mNew
  BY <1>4, <1>6, <1>7
<1>. QED
  BY <1>4, <1>7, <1>8, <1>10, <1>11

-------------------------------------------------------------------------------
\* The inductive invariant: the maximum, the sums relative to it and the
\* finished row hold each other up.
IInv == TypeOK /\ RunningMax /\ SumsExact /\ RowExact

\* The tiles streamed reach past every key the row sees.
LEMMA TilesCoverVisible ==
  ASSUME TypeOK
  PROVE  /\ n_tiles \in Nat
         /\ t = n_tiles => Seen = Visible
<1>1. /\ bc \in Nat \ {0} /\ t \in Nat /\ i0 \in Nat /\ i \in Nat
      /\ i < i0 + Br /\ i0 < N
  BY DEF TypeOK
<1>2. kv_end \in Nat /\ \A k \in Visible : k \in Nat /\ k < kv_end
  BY <1>1 DEF kv_end, Visible, Key, Min2, TypeOK
<1>3. n_tiles \in Nat /\ kv_end <= n_tiles * bc /\ n_tiles * bc \in Nat
  BY <1>1, <1>2, CeilingCovers, NextTileStart DEF n_tiles
<1>. QED
  BY <1>2, <1>3 DEF Seen, j0

\* A block starts at one of the first N rows.
LEMMA BlockStart ==
  ASSUME NEW b \in 0 .. (N - 1) \div Br
  PROVE  b * Br \in 0 .. N - 1
<1>. DEFINE q == (N - 1) \div Br
<1>1. /\ q \in Int
      /\ N - 1 = (Br * q) + ((N - 1) % Br)
      /\ (N - 1) % Br \in 0 .. Br - 1
  OBVIOUS
<1>2. b \in Nat /\ b <= q
  BY <1>1
<1>3. q * Br = Br * q
  BY <1>1
<1>. HIDE DEF q
<1>4. b * Br \in Nat /\ b * Br <= q * Br
  BY <1>1, <1>2
<1>. QED
  BY <1>1, <1>3, <1>4

LEMMA InitInv == Init => IInv
<1>. SUFFICES ASSUME Init PROVE IInv
  OBVIOUS
<1>1. /\ i0 \in 0 .. N - 1 /\ bc \in Nat \ {0}
  BY BlockStart DEF Init, Start
<1>2. kv_end \in Nat
  BY <1>1 DEF kv_end, Min2, Init, Start
<1>3. n_tiles \in Nat
  BY <1>1, <1>2, CeilingCovers DEF n_tiles
<1>4. TypeOK
  BY <1>1, <1>3 DEF Init, Start, TypeOK, Score
<1>5. j0 = 0
  BY <1>1 DEF Init, Start, j0
<1>6. Seen = {}
  BY <1>5 DEF Seen, Visible, Key
<1>. QED
  BY <1>4, <1>6 DEF Init, Start, IInv, RunningMax, SumsExact, RowExact, EmptySum

LEMMA TileInv == IInv /\ Tile => IInv'
<1>. SUFFICES ASSUME IInv, Tile PROVE IInv'
  OBVIOUS
<1>1. PICK mNew \in {m} \cup {s[jj] : jj \in TileKeys} :
        /\ IsMax(mNew, {m} \cup {s[jj] : jj \in TileKeys})
        /\ LET p == [jj \in TileKeys |-> p_from_score(s[jj], mNew)]
           IN  /\ l' = AddTerms(Scale(l, rescale_alpha(m, mNew)), p)
               /\ acc' = AddTerms(Scale(acc, rescale_alpha(m, mNew)), p)
        /\ m' = mNew
  BY DEF Tile
<1>2. /\ t < n_tiles /\ t' = t + 1 /\ UNCHANGED <<inputs, result>>
  BY DEF Tile
<1>3. /\ mNew \in Int
      /\ mNew \in {score[k] : k \in SeenBefore(j0 + bc)}
      /\ \A k \in SeenBefore(j0 + bc) : score[k] <= mNew
      /\ m # NegInf => m \in Int
  BY <1>1, NewMaximum DEF IInv
<1>4. /\ t \in Nat /\ n_tiles \in Nat /\ bc \in Nat \ {0}
  BY TilesCoverVisible DEF IInv, TypeOK
<1>5. /\ Visible' = Visible /\ n_tiles' = n_tiles /\ j0' = j0 + bc
  <2>1. Visible' = Visible /\ n_tiles' = n_tiles
    BY <1>2 DEF inputs, Visible, n_tiles, kv_end, Key
  <2>2. j0' = j0 + bc
    BY <1>2, <1>4, NextTileStart DEF j0, inputs
  <2>. QED
    BY <2>1, <2>2
<1>6. Seen' = SeenBefore(j0 + bc)
  BY <1>5 DEF Seen, SeenBefore
<1>7. TypeOK'
  BY <1>1, <1>2, <1>3, <1>4, <1>5 DEF IInv, TypeOK, inputs, Score, Key
<1>8. RunningMax'
  BY <1>1, <1>2, <1>3, <1>4, <1>6 DEF RunningMax, inputs
<1>9. SumsExact'
  <2>1. /\ l' = [k \in SeenBefore(j0 + bc) |-> score[k] - mNew]
        /\ acc' = [k \in SeenBefore(j0 + bc) |-> score[k] - mNew]
    BY <1>1, <1>3, SumAfterTile DEF IInv, SumsExact
  <2>. QED
    BY <1>1, <1>2, <1>6, <2>1 DEF SumsExact, inputs
<1>10. RowExact'
  BY <1>2, <1>5 DEF IInv, RowExact, inputs
<1>. QED
  BY <1>7, <1>8, <1>9, <1>10 DEF IInv

LEMMA EpilogueInv == IInv /\ Epilogue => IInv'
<1>. SUFFICES ASSUME IInv, Epilogue PROVE IInv'
  OBVIOUS
<1>1. /\ UNCHANGED <<inputs, t, m, l, acc>>
      /\ result' = [o |-> NormalisedRow(acc, l), lse |-> finalize_lse(m, l)]
      /\ t = n_tiles
  BY DEF Epilogue
<1>2. TypeOK' /\ RunningMax' /\ SumsExact'
  <2>1. n_tiles' = n_tiles /\ Seen' = Seen
    BY <1>1 DEF inputs, n_tiles, kv_end, Seen, Visible, Key, j0
  <2>2. TypeOK'
    BY <1>1, <2>1 DEF IInv, TypeOK, inputs
  <2>. QED
    BY <1>1, <2>1, <2>2 DEF IInv, RunningMax, SumsExact, inputs
<1>3. RowExact'
  <2>1. Seen = Visible
    BY <1>1, TilesCoverVisible DEF IInv
  <2>2. 0 \in Visible /\ \A k \in Visible : k \in Nat /\ score[k] \in Int
    <3>1. Visible \subseteq Key /\ Key \subseteq Nat /\ 0 \in Key
      BY DEF Visible, Key
    <3>2. 0 \in Visible
      BY <3>1 DEF IInv, TypeOK, Visible
    <3>. QED
      BY <3>1, <3>2 DEF IInv, TypeOK
  <2>3. t > 0 /\ m \in Int
    <3>1. t # 0
      BY <2>1, <2>2 DEF Seen, j0, IInv, TypeOK
    <3>. QED
      BY <2>1, <2>2, <3>1 DEF IInv, TypeOK, RunningMax
  <2>4. /\ DOMAIN l = Visible /\ DOMAIN acc = Visible
        /\ \A k \in Visible : l[k] = score[k] - m /\ acc[k] = score[k] - m
    BY <2>1 DEF IInv, SumsExact
  <2>5. ~ IsPoisoned(l) /\ ~ IsPoisoned(acc) /\ l # EmptySum /\ m # NegInf
    BY <2>2, <2>3, <2>4 DEF IsPoisoned, EmptySum
  <2>6. \A k, k2 \in Visible : l[k2] - acc[k] = score[k2] - score[k] /\ l[k] + m = score[k]
    BY <2>2, <2>3, <2>4
  <2>7. NormalisedRow(acc, l) = [k \in Visible |-> [k2 \in Visible |-> score[k2] - score[k]]]
    BY <2>4, <2>5, <2>6 DEF NormalisedRow
  <2>8. finalize_lse(m, l) = [k \in Visible |-> score[k]]
    BY <2>4, <2>5, <2>6 DEF finalize_lse
  <2>9. Visible' = Visible /\ score' = score
    BY <1>1 DEF inputs, Visible, Key
  <2>. QED
    BY <1>1, <2>7, <2>8, <2>9 DEF RowExact
<1>. QED
  BY <1>2, <1>3 DEF IInv

\* The inductive invariant holds throughout.
THEOREM RowInvariant == Spec => []IInv
<1>1. IInv /\ [Next]_vars => IInv'
  <2>. SUFFICES ASSUME IInv, [Next]_vars PROVE IInv'
    OBVIOUS
  <2>1. CASE Tile
    BY <2>1, TileInv
  <2>2. CASE Epilogue
    BY <2>2, EpilogueInv
  <2>3. CASE UNCHANGED vars
    <3>1. UNCHANGED <<i0, i, causal, bc, score, t, m, l, acc, result>>
      BY <2>3 DEF vars
    <3>2. n_tiles' = n_tiles /\ Visible' = Visible /\ Seen' = Seen
      BY <3>1 DEF n_tiles, kv_end, Visible, Seen, Key, j0
    <3>3. TypeOK'
      BY <3>1, <3>2 DEF IInv, TypeOK
    <3>4. RunningMax' /\ SumsExact'
      BY <3>1, <3>2 DEF IInv, RunningMax, SumsExact
    <3>5. RowExact'
      BY <3>1, <3>2 DEF IInv, RowExact
    <3>. QED
      BY <3>3, <3>4, <3>5 DEF IInv
  <2>. QED
    BY <2>1, <2>2, <2>3 DEF Next
<1>. QED
  BY <1>1, InitInv, PTL DEF Spec

\* The parameters stay in range and the loop never passes its last tile.
THEOREM RowTypeCorrect == Spec => []TypeOK
BY RowInvariant, PTL DEF IInv

\* The running maximum is that of exactly the visible keys consumed.
THEOREM RowMaximumCorrect == Spec => []RunningMax
BY RowInvariant, PTL DEF IInv

\* l and acc stay exact: one term per visible key consumed, none of them
\* relative to a maximum that has moved since.
THEOREM RowSumsCorrect == Spec => []SumsExact
BY RowInvariant, PTL DEF IInv

\* No guard fires after the first tile, and no exponential exceeds 1.
THEOREM RowGuardsIdle == Spec => []SumAtLeastOne
<1>1. IInv => SumAtLeastOne
  <2>. SUFFICES ASSUME IInv, t > 0 PROVE SumAtLeastOne
    BY DEF SumAtLeastOne
  <2>1. /\ m \in {score[k] : k \in Seen}
        /\ \A k \in Seen : score[k] <= m
    BY DEF IInv, RunningMax
  <2>2. \A k \in Seen : score[k] \in Int
    <3>1. Seen \subseteq Key
      BY DEF Seen, Visible
    <3>. QED
      BY <3>1 DEF IInv, TypeOK
  <2>3. m \in Int
    BY <2>1, <2>2
  <2>4. DOMAIN l = Seen /\ \A k \in Seen : l[k] = score[k] - m
    BY DEF IInv, SumsExact
  <2>5. \E k \in Seen : l[k] = 0
    BY <2>1, <2>2, <2>4
  <2>. QED
    BY <2>1, <2>2, <2>3, <2>4, <2>5 DEF SumAtLeastOne
<1>. QED
  BY <1>1, RowInvariant, PTL

\* Whatever the tiling, the finished row is the softmax over its visible keys.
THEOREM RowResultExact == Spec => []RowExact
BY RowInvariant, PTL DEF IInv

===============================================================================
