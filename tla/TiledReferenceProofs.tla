------------------------ MODULE TiledReferenceProofs ------------------------
(***************************************************************************)
(* Both texts of the tiled reference are exact for all lengths, tiles,     *)
(* scores and attend masks.  Here a row may see nothing for any number of  *)
(* tiles: each lemma about a row has the two cases "something seen" and    *)
(* "nothing seen", and in the second the guards alone decide.              *)
(***************************************************************************)
EXTENDS TiledReference, TLAPS

USE SentinelAssumption, ReferenceAssumption

KeptBefore(i, j) == {k \in keep(i) : k < j}

\* x is the maximum of the scores of row i over the keys S.
MaxOver(x, i, S) ==
  IF S = {} THEN x = NegInf
  ELSE x \in {score[i][k] : k \in S} /\ \A k \in S : score[i][k] <= x

\* The exact sum of row i over the keys S, relative to x.
SumOver(i, S, x) == [k \in S |-> score[i][k] - x]

\* The terms a tile adds to row i: one for each key it keeps, 0 for the others.
TileTerms(w, i, x) ==
  /\ DOMAIN w = TileKeys
  /\ \A k \in TileKeys : w[k] = IF k \in keep(i) THEN score[i][k] - x ELSE Zero

\* The row of the result that belongs to row i.
ExactRow(i) ==
  IF keep(i) = {} THEN [o |-> EmptySum, lse |-> PosInf]
  ELSE [o   |-> [j \in keep(i) |-> [k \in keep(i) |-> score[i][k] - score[i][j]]],
        lse |-> [j \in keep(i) |-> score[i][j]]]

IInv == TypeOK /\ RunningExact /\ RowsExact

\* The tiles, cut off at the last query and key.
LEMMA Tiles ==
  ASSUME TypeOK
  PROVE  /\ Query \subseteq Nat /\ Key \subseteq Nat
         /\ i1 \in Nat
         /\ Rows = {i \in Query : i0 <= i /\ i < i0 + block_m}
         /\ \A i \in Rows : i <= i1 - 1
         /\ TileKeys = {k \in Key : j0 <= k /\ k < j0 + block_n}
<1>1. /\ block_m \in Nat \ {0} /\ block_n \in Nat \ {0} /\ i0 \in Nat /\ j0 \in Nat
      /\ Nq \in Nat \ {0} /\ Nkv \in Nat \ {0}
  BY DEF TypeOK
<1>2. i1 \in Nat /\ i1 = (IF i0 + block_m < Nq THEN i0 + block_m ELSE Nq)
  BY <1>1 DEF i1, Min2
<1>3. j1 \in Nat /\ j1 = (IF j0 + block_n < Nkv THEN j0 + block_n ELSE Nkv)
  BY <1>1 DEF j1, Min2
<1>. QED
  BY <1>1, <1>2, <1>3 DEF Query, Key, Rows, TileKeys

\* What a row keeps are keys with a score.
LEMMA KeptKeys ==
  ASSUME TypeOK, NEW i \in Query
  PROVE  /\ keep(i) \subseteq Key
         /\ \A k \in keep(i) : k \in Nat /\ score[i][k] \in Int
         /\ \A k \in Key : score[i][k] \in Int
  BY Tiles DEF keep, TypeOK

\* A row's scores in the tile: its own where it keeps the key, else -inf.
LEMMA TileScores ==
  ASSUME TypeOK, NEW i \in Query, NEW k \in TileKeys
  PROVE  s(i, TileKeys)[k] = IF k \in keep(i) THEN score[i][k] ELSE NegInf
  BY DEF s

\* The maximum moves on by one tile, also from nothing and to nothing.
LEMMA NextMaximum ==
  ASSUME TypeOK, NEW i \in Rows,
         MaxOver(m[i], i, KeptBefore(i, j0)),
         NEW mN, IsMax(mN, {m[i]} \cup {s(i, TileKeys)[k] : k \in TileKeys})
  PROVE  /\ MaxOver(mN, i, KeptBefore(i, j0 + block_n))
         /\ mN \in Score
         /\ KeptBefore(i, j0) # {} => m[i] \in Int /\ mN \in Int
         /\ TileKeys \cap keep(i) # {} => mN \in Int
<1>. DEFINE S == KeptBefore(i, j0)
            T == KeptBefore(i, j0 + block_n)
            tile == TileKeys \cap keep(i)
<1>1. i \in Query /\ j0 \in Nat /\ block_n \in Nat \ {0} /\ m[i] \in Score
  BY Tiles DEF TypeOK
<1>2. \A k \in keep(i) : k \in Key /\ k \in Nat /\ score[i][k] \in Int
  BY <1>1, KeptKeys
<1>3. T = S \cup tile
  BY <1>1, <1>2, Tiles DEF KeptBefore
<1>4. \A k \in TileKeys : s(i, TileKeys)[k] = IF k \in keep(i) THEN score[i][k] ELSE NegInf
  BY <1>1, TileScores
<1>5. /\ mN \in {m[i]} \cup {s(i, TileKeys)[k] : k \in TileKeys}
      /\ \A y \in {m[i]} \cup {s(i, TileKeys)[k] : k \in TileKeys} : Max2(mN, y) = mN
  BY DEF IsMax
<1>6. mN \in Score
  BY <1>1, <1>2, <1>4, <1>5 DEF Score
<1>7. ASSUME NEW y \in Int, Max2(mN, y) = mN
      PROVE  mN \in Int /\ y <= mN
  BY <1>6, <1>7 DEF Max2, Score
<1>8. \A k \in tile : mN \in Int /\ score[i][k] <= mN
  <2>. SUFFICES ASSUME NEW k \in tile
                PROVE  mN \in Int /\ score[i][k] <= mN
    OBVIOUS
  <2>1. s(i, TileKeys)[k] = score[i][k] /\ score[i][k] \in Int
    BY <1>2, <1>4
  <2>2. Max2(mN, score[i][k]) = mN
    BY <1>5, <2>1
  <2>. QED
    BY <1>7, <2>1, <2>2
<1>9. S # {} => m[i] \in Int /\ mN \in Int /\ m[i] <= mN
  <2>. SUFFICES ASSUME S # {} PROVE m[i] \in Int /\ mN \in Int /\ m[i] <= mN
    OBVIOUS
  <2>1. m[i] \in {score[i][k] : k \in S}
    BY DEF MaxOver
  <2>2. m[i] \in Int
    BY <1>2, <2>1 DEF KeptBefore
  <2>3. Max2(mN, m[i]) = mN
    BY <1>5
  <2>. QED
    BY <1>7, <2>2, <2>3
<1>10. \A k \in S : score[i][k] <= mN
  <2>. SUFFICES ASSUME NEW k \in S PROVE score[i][k] <= mN
    OBVIOUS
  <2>1. score[i][k] <= m[i] /\ score[i][k] \in Int
    BY <1>2 DEF MaxOver, KeptBefore
  <2>. QED
    BY <1>9, <2>1
<1>11. CASE T = {}
  <2>1. S = {} /\ tile = {} /\ m[i] = NegInf
    BY <1>3, <1>11 DEF MaxOver
  <2>2. mN = NegInf
    BY <1>4, <1>5, <2>1
  <2>. QED
    BY <1>6, <1>11, <2>1, <2>2 DEF MaxOver
<1>12. CASE T # {}
  <2>1. mN \in Int
    BY <1>3, <1>8, <1>9, <1>12
  <2>2. mN \in {score[i][k] : k \in T}
    <3>1. CASE mN = m[i]
      <4>1. S # {}
        BY <2>1, <3>1 DEF MaxOver
      <4>2. m[i] \in {score[i][k] : k \in S}
        BY <4>1 DEF MaxOver
      <4>. QED
        BY <1>3, <3>1, <4>2
    <3>2. CASE \E k \in TileKeys : mN = s(i, TileKeys)[k]
      <4>1. PICK k \in TileKeys : mN = s(i, TileKeys)[k]
        BY <3>2
      <4>2. k \in tile /\ mN = score[i][k]
        BY <1>4, <2>1, <4>1
      <4>. QED
        BY <1>3, <4>2
    <3>. QED
      BY <1>5, <3>1, <3>2
  <2>3. \A k \in T : score[i][k] <= mN
    BY <1>3, <1>8, <1>10
  <2>4. MaxOver(mN, i, T)
    BY <1>12, <2>2, <2>3 DEF MaxOver
  <2>. QED
    BY <1>6, <1>8, <1>9, <2>4
<1>. QED
  BY <1>11, <1>12

\* One tile on one sum, for any factor a that is right when something has been
\* seen and a number otherwise, and any terms that are right for the keys kept
\* and 0 for the others.
LEMMA SumAfterTile ==
  ASSUME TypeOK, NEW i \in Rows, NEW mN,
         KeptBefore(i, j0) # {} => m[i] \in Int /\ mN \in Int,
         TileKeys \cap keep(i) # {} => mN \in Int,
         NEW a, a # NaN, KeptBefore(i, j0) # {} => a = m[i] - mN,
         NEW w, TileTerms(w, i, mN)
  PROVE  Updated(SumOver(i, KeptBefore(i, j0), m[i]), a, w)
           = SumOver(i, KeptBefore(i, j0 + block_n), mN)
<1>. DEFINE S == KeptBefore(i, j0)
            T == KeptBefore(i, j0 + block_n)
            x == SumOver(i, S, m[i])
            tile == TileKeys \cap keep(i)
            live == {k \in DOMAIN w : w[k] # Zero}
            moved == [k \in S |-> score[i][k] - mN]
<1>1. i \in Query /\ j0 \in Nat /\ block_n \in Nat \ {0}
  BY Tiles DEF TypeOK
<1>2. \A k \in keep(i) : k \in Key /\ k \in Nat /\ score[i][k] \in Int
  BY <1>1, KeptKeys
<1>3. T = S \cup tile /\ S \cap tile = {} /\ NaN \notin S
  BY <1>1, <1>2, Tiles DEF KeptBefore
<1>4. \A k \in tile : score[i][k] - mN \in Int /\ w[k] = score[i][k] - mN
  BY <1>2 DEF TileTerms
<1>5. live = tile /\ \A k \in live : w[k] # NaN
  BY <1>4 DEF TileTerms
<1>6. DOMAIN x = S /\ ~ IsPoisoned(x)
  BY <1>3 DEF IsPoisoned, SumOver
<1>7. Scale(x, a) = moved
  <2>1. CASE S = {}
    <3>1. Scale(x, a) = EmptySum \/ Scale(x, a) = [k \in S |-> x[k] + a]
      BY <1>6 DEF Scale
    <3>. QED
      BY <2>1, <3>1 DEF EmptySum
  <2>2. CASE S # {}
    <3>1. m[i] \in Int /\ mN \in Int /\ a = m[i] - mN /\ a \in Int
      BY <2>2
    <3>2. Scale(x, a) = [k \in S |-> x[k] + a]
      BY <1>6, <3>1 DEF Scale
    <3>3. \A k \in S : x[k] + a = score[i][k] - mN
      <4>. SUFFICES ASSUME NEW k \in S PROVE x[k] + a = score[i][k] - mN
        OBVIOUS
      <4>1. score[i][k] \in Int /\ x[k] = score[i][k] - m[i]
        BY <1>2 DEF KeptBefore, SumOver
      <4>. QED
        BY <3>1, <4>1
    <3>. QED
      BY <3>2, <3>3
  <2>. QED
    BY <2>1, <2>2
<1>8. DOMAIN moved = S /\ ~ IsPoisoned(moved)
  BY <1>3 DEF IsPoisoned
<1>9. AddTerms(moved, w) = [k \in S \cup live |-> IF k \in live THEN w[k] ELSE moved[k]]
  BY <1>3, <1>5, <1>8 DEF AddTerms
<1>10. \A k \in S \cup tile : (IF k \in live THEN w[k] ELSE moved[k]) = score[i][k] - mN
  BY <1>3, <1>4, <1>5
<1>. QED
  BY <1>3, <1>5, <1>7, <1>9, <1>10 DEF Updated, SumOver

\* The invariant of the sums, row by row.
LEMMA RowsRunning ==
  RunningExact <=>
    \A i \in Query : /\ MaxOver(m[i], i, Seen(i))
                     /\ l[i] = SumOver(i, Seen(i), m[i])
                     /\ acc[i] = l[i]
  BY DEF RunningExact, MaxOver, SumOver

\* What a row has seen while its query tile is worked on, and otherwise.
LEMMA SeenNow ==
  ASSUME TypeOK, NEW i \in Query
  PROVE  /\ i \in Rows => Seen(i) = KeptBefore(i, j0)
         /\ i < i0 => Seen(i) = keep(i)
         /\ ~ (i < i0 \/ i \in Rows) => Seen(i) = {}
<1>1. i \in Nat /\ i0 \in Nat /\ (i \in Rows => i0 <= i)
  BY Tiles DEF TypeOK
<1>. QED
  BY <1>1 DEF Seen, KeptBefore

\* A step of the tile loop that gives the tile's rows the sums of one more
\* tile, and leaves the others alone, keeps the invariant.
LEMMA TileKeepsInv ==
  ASSUME IInv, NEW mNew \in NewMaxima, m' = mNew,
         j0' = j0 + block_n, UNCHANGED <<inputs, i0, result>>,
         l' = [i \in Query |-> IF i \in Rows
                 THEN SumOver(i, KeptBefore(i, j0 + block_n), mNew[i]) ELSE l[i]],
         acc' = [i \in Query |-> IF i \in Rows
                 THEN SumOver(i, KeptBefore(i, j0 + block_n), mNew[i]) ELSE acc[i]]
  PROVE  IInv'
<1>1. TypeOK /\ RunningExact /\ RowsExact
  BY DEF IInv
<1>2. /\ UNCHANGED <<is_causal, attn_mask, block_m, block_n, score, i0, result>>
      /\ i1' = i1 /\ Rows' = Rows
      /\ \A i \in Query : keep(i)' = keep(i)
  BY DEF inputs, i1, Rows, keep
<1>3. /\ mNew \in [Query -> {NegInf} \cup UNION {{score[i][j] : j \in Key} : i \in Query}]
      /\ \A i \in Query : i \in Rows => IsMax(mNew[i], {m[i]} \cup {s(i, TileKeys)[j] : j \in TileKeys})
      /\ \A i \in Query : i \notin Rows => mNew[i] = m[i]
  BY DEF NewMaxima
<1>4. mNew \in [Query -> Score]
  <2>1. \A i \in Query, j \in Key : score[i][j] \in Int
    BY <1>1 DEF TypeOK
  <2>. QED
    BY <1>3, <2>1 DEF Score
<1>5. TypeOK'
  <2>1. j0' \in Nat
    BY <1>1 DEF TypeOK
  <2>. QED
    BY <1>1, <1>2, <1>4, <2>1 DEF TypeOK
<1>6. ASSUME NEW i \in Query
      PROVE  /\ MaxOver(m[i], i, Seen(i))'
             /\ l'[i] = SumOver(i, Seen(i)', m'[i])
             /\ acc'[i] = l'[i]
  <2>1. /\ MaxOver(m[i], i, Seen(i))
        /\ l[i] = SumOver(i, Seen(i), m[i])
        /\ acc[i] = l[i]
    BY <1>1, RowsRunning
  <2>2. CASE i \in Rows
    <3>1. Seen(i) = KeptBefore(i, j0)
      BY <1>1, <2>2, SeenNow
    <3>2. Seen(i)' = KeptBefore(i, j0 + block_n)
      <4>1. i0 \in Nat /\ i \in Nat /\ i0 <= i
        BY <1>1, <2>2, Tiles DEF TypeOK
      <4>. QED
        BY <1>2, <2>2, <4>1 DEF Seen, KeptBefore
    <3>3. MaxOver(mNew[i], i, KeptBefore(i, j0 + block_n))
      <4>1. IsMax(mNew[i], {m[i]} \cup {s(i, TileKeys)[j] : j \in TileKeys})
        BY <1>3, <2>2
      <4>2. MaxOver(m[i], i, KeptBefore(i, j0))
        BY <2>1, <3>1
      <4>. QED
        BY <1>1, <2>2, <4>1, <4>2, NextMaximum
    <3>. QED
      BY <1>2, <2>2, <3>2, <3>3 DEF MaxOver
  <2>3. CASE i \notin Rows
    <3>1. Seen(i)' = Seen(i)
      BY <1>2, <2>3 DEF Seen
    <3>2. mNew[i] = m[i]
      BY <1>3, <2>3
    <3>. QED
      BY <1>2, <2>1, <2>3, <3>1, <3>2 DEF MaxOver
  <2>. QED
    BY <2>2, <2>3
<1>7. RunningExact'
  BY <1>2, <1>6 DEF RunningExact, MaxOver, SumOver
<1>8. RowsExact'
  BY <1>1, <1>2 DEF RowsExact
<1>. QED
  BY <1>5, <1>7, <1>8 DEF IInv

\* The torch text: with 0 for the maximum of a row that has seen no key, the
\* factor of the empty sum is 0 and masked keys give 0.
LEMMA TorchInv == IInv /\ TileTorch => IInv'
<1>. SUFFICES ASSUME IInv, TileTorch PROVE IInv'
  OBVIOUS
<1>. DEFINE alpha(i, x) == exp2_scaled(m[i], m_safe(x))
            p(sc, x)    == exp2_scaled(sc, m_safe(x))
<1>1. TypeOK /\ RunningExact
  BY DEF IInv
<1>2. PICK mNew \in NewMaxima :
        /\ l' = UpdateRows(l, [i \in Rows |-> alpha(i, mNew[i])],
                              [i \in Rows |-> [j \in TileKeys |-> p(s(i, TileKeys)[j], mNew[i])]])
        /\ acc' = UpdateRows(acc, [i \in Rows |-> alpha(i, mNew[i])],
                              [i \in Rows |-> [j \in TileKeys |-> p(s(i, TileKeys)[j], mNew[i])]])
        /\ m' = mNew
  BY DEF TileTorch
<1>3. ASSUME NEW i \in Rows, NEW x, x = l[i]
      PROVE  Updated(x, exp2_scaled(m[i], m_safe(mNew[i])),
                     [j \in TileKeys |-> exp2_scaled(s(i, TileKeys)[j], m_safe(mNew[i]))])
               = SumOver(i, KeptBefore(i, j0 + block_n), mNew[i])
  <2>. SUFFICES ASSUME NEW mN, mN = mNew[i],
                       NEW a, a = exp2_scaled(m[i], m_safe(mN)),
                       NEW w, w = [j \in TileKeys |-> exp2_scaled(s(i, TileKeys)[j], m_safe(mN))]
                PROVE  Updated(x, a, w) = SumOver(i, KeptBefore(i, j0 + block_n), mN)
    OBVIOUS
  <2>1. i \in Query /\ Seen(i) = KeptBefore(i, j0)
    BY <1>1, SeenNow, Tiles
  <2>2. MaxOver(m[i], i, KeptBefore(i, j0))
    BY <1>1, <2>1, RowsRunning
  <2>3. x = SumOver(i, KeptBefore(i, j0), m[i])
    BY <1>1, <1>3, <2>1, RowsRunning
  <2>4. IsMax(mN, {m[i]} \cup {s(i, TileKeys)[j] : j \in TileKeys})
    BY <2>1 DEF NewMaxima
  <2>5. /\ mN \in Score
        /\ KeptBefore(i, j0) # {} => m[i] \in Int /\ mN \in Int
        /\ TileKeys \cap keep(i) # {} => mN \in Int
    BY <1>1, <2>2, <2>4, NextMaximum
  <2>6. m_safe(mN) \in Int /\ m_safe(mN) # NegInf
    BY <2>5 DEF m_safe, Score
  <2>7. a # NaN
    <3>1. CASE KeptBefore(i, j0) = {}
      BY <2>2, <2>6, <3>1 DEF MaxOver, exp2_scaled
    <3>2. CASE KeptBefore(i, j0) # {}
      BY <2>5, <3>2 DEF m_safe, exp2_scaled
    <3>. QED
      BY <3>1, <3>2
  <2>8. KeptBefore(i, j0) # {} => a = m[i] - mN
    BY <2>5 DEF m_safe, exp2_scaled
  <2>9. TileTerms(w, i, mN)
    <3>. SUFFICES ASSUME NEW k \in TileKeys
                  PROVE  w[k] = IF k \in keep(i) THEN score[i][k] - mN ELSE Zero
      BY DEF TileTerms
    <3>1. /\ s(i, TileKeys)[k] = IF k \in keep(i) THEN score[i][k] ELSE NegInf
          /\ k \in keep(i) => score[i][k] \in Int /\ mN \in Int
      BY <1>1, <2>1, <2>5, TileScores, KeptKeys
    <3>2. w[k] = exp2_scaled(s(i, TileKeys)[k], m_safe(mN))
      OBVIOUS
    <3>. QED
      BY <2>6, <3>1, <3>2 DEF m_safe, exp2_scaled
  <2>. QED
    BY <1>1, <2>3, <2>5, <2>7, <2>8, <2>9, SumAfterTile
<1>4. \A i \in Rows : acc[i] = l[i]
  BY <1>1, Tiles, RowsRunning
<1>5. l' = [i \in Query |-> IF i \in Rows
              THEN SumOver(i, KeptBefore(i, j0 + block_n), mNew[i]) ELSE l[i]]
  BY <1>2, <1>3 DEF UpdateRows
<1>6. acc' = [i \in Query |-> IF i \in Rows
              THEN SumOver(i, KeptBefore(i, j0 + block_n), mNew[i]) ELSE acc[i]]
  BY <1>2, <1>3, <1>4 DEF UpdateRows
<1>. QED
  BY <1>2, <1>5, <1>6, TileKeepsInv DEF TileTorch

\* The C++ text: a row that has still seen nothing is left as it is, and the
\* exponential of -inf is never taken.
LEMMA CppInv == IInv /\ TileCpp => IInv'
<1>. SUFFICES ASSUME IInv, TileCpp PROVE IInv'
  OBVIOUS
<1>. DEFINE alpha(i, x) == IF x = NegInf THEN 0 ELSE rescale_alpha(m[i], x)
            p(sc, x)    == IF sc = NegInf THEN Zero ELSE exp2_scaled(sc, x)
<1>1. TypeOK /\ RunningExact
  BY DEF IInv
<1>2. PICK mNew \in NewMaxima :
        /\ l' = UpdateRows(l, [i \in Rows |-> alpha(i, mNew[i])],
                              [i \in Rows |-> [j \in TileKeys |-> p(s(i, TileKeys)[j], mNew[i])]])
        /\ acc' = UpdateRows(acc, [i \in Rows |-> alpha(i, mNew[i])],
                              [i \in Rows |-> [j \in TileKeys |-> p(s(i, TileKeys)[j], mNew[i])]])
        /\ m' = mNew
  BY DEF TileCpp
<1>3. ASSUME NEW i \in Rows, NEW x, x = l[i]
      PROVE  Updated(x, alpha(i, mNew[i]), [j \in TileKeys |-> p(s(i, TileKeys)[j], mNew[i])])
               = SumOver(i, KeptBefore(i, j0 + block_n), mNew[i])
  <2>. SUFFICES ASSUME NEW mN, mN = mNew[i],
                       NEW a, a = alpha(i, mN),
                       NEW w, w = [j \in TileKeys |-> p(s(i, TileKeys)[j], mN)]
                PROVE  Updated(x, a, w) = SumOver(i, KeptBefore(i, j0 + block_n), mN)
    OBVIOUS
  <2>1. i \in Query /\ Seen(i) = KeptBefore(i, j0)
    BY <1>1, SeenNow, Tiles
  <2>2. MaxOver(m[i], i, KeptBefore(i, j0))
    BY <1>1, <2>1, RowsRunning
  <2>3. x = SumOver(i, KeptBefore(i, j0), m[i])
    BY <1>1, <1>3, <2>1, RowsRunning
  <2>4. IsMax(mN, {m[i]} \cup {s(i, TileKeys)[j] : j \in TileKeys})
    BY <2>1 DEF NewMaxima
  <2>5. /\ mN \in Score /\ m[i] \in Score
        /\ KeptBefore(i, j0) # {} => m[i] \in Int /\ mN \in Int
        /\ TileKeys \cap keep(i) # {} => mN \in Int
    BY <1>1, <2>1, <2>2, <2>4, NextMaximum DEF TypeOK
  <2>6. a # NaN
    <3>1. mN = NegInf => a = 0
      OBVIOUS
    <3>2. mN \in Int => a \in Int \cup {Zero}
      BY <2>5 DEF rescale_alpha, exp2_scaled, Score
    <3>. QED
      BY <2>5, <3>1, <3>2 DEF Score
  <2>7. KeptBefore(i, j0) # {} => a = m[i] - mN
    BY <2>5 DEF rescale_alpha, exp2_scaled
  <2>8. TileTerms(w, i, mN)
    <3>. SUFFICES ASSUME NEW k \in TileKeys
                  PROVE  w[k] = IF k \in keep(i) THEN score[i][k] - mN ELSE Zero
      BY DEF TileTerms
    <3>1. /\ s(i, TileKeys)[k] = IF k \in keep(i) THEN score[i][k] ELSE NegInf
          /\ k \in keep(i) => score[i][k] \in Int /\ mN \in Int
      BY <1>1, <2>1, <2>5, TileScores, KeptKeys
    <3>2. w[k] = p(s(i, TileKeys)[k], mN)
      OBVIOUS
    <3>. QED
      BY <3>1, <3>2 DEF exp2_scaled
  <2>. QED
    BY <1>1, <2>3, <2>5, <2>6, <2>7, <2>8, SumAfterTile
<1>4. \A i \in Rows : acc[i] = l[i]
  BY <1>1, Tiles, RowsRunning
<1>5. l' = [i \in Query |-> IF i \in Rows
              THEN SumOver(i, KeptBefore(i, j0 + block_n), mNew[i]) ELSE l[i]]
  BY <1>2, <1>3 DEF UpdateRows
<1>6. acc' = [i \in Query |-> IF i \in Rows
              THEN SumOver(i, KeptBefore(i, j0 + block_n), mNew[i]) ELSE acc[i]]
  BY <1>2, <1>3, <1>4 DEF UpdateRows
<1>. QED
  BY <1>2, <1>5, <1>6, TileKeepsInv DEF TileCpp

\* A tile above the diagonal of the last row of the query tile holds no key
\* that one of its rows keeps, so nothing is lost by not visiting it, nor, in
\* the C++ text, the tiles after it.
LEMMA SkipInv == IInv /\ SkipTile => IInv'
<1>. SUFFICES ASSUME IInv, SkipTile PROVE IInv'
  OBVIOUS
<1>1. /\ TypeOK /\ RunningExact /\ RowsExact
      /\ is_causal /\ j0 > i1 - 1 /\ j0 < Nkv
      /\ j0' = (IF code = "torch" THEN j0 + block_n ELSE Nkv)
      /\ UNCHANGED <<is_causal, attn_mask, block_m, block_n, score, i0, m, l, acc, result>>
  BY DEF IInv, SkipTile, Masked, inputs
<1>2. /\ i1' = i1 /\ Rows' = Rows
      /\ \A i \in Query : keep(i)' = keep(i)
  BY <1>1 DEF i1, Rows, keep
<1>3. j0 \in Nat /\ j0' \in Nat /\ j0 <= j0'
  BY <1>1 DEF TypeOK
<1>4. ASSUME NEW i \in Query PROVE Seen(i)' = Seen(i)
  <2>1. \A k \in keep(i) : k \in Nat /\ k <= i
    BY <1>1, KeptKeys DEF keep
  <2>2. i \in Rows => \A k \in keep(i) : k < j0
    BY <1>1, <1>3, <2>1, Tiles
  <2>. QED
    BY <1>1, <1>2, <1>3, <2>1, <2>2 DEF Seen
<1>5. TypeOK'
  BY <1>1, <1>3 DEF TypeOK
<1>6. RunningExact'
  BY <1>1, <1>4 DEF RunningExact
<1>7. RowsExact'
  BY <1>1, <1>2 DEF RowsExact
<1>. QED
  BY <1>5, <1>6, <1>7 DEF IInv

\* What is stored for a row whose maximum and sum are those of all it keeps: a
\* row that keeps nothing has an empty sum, the guard's case.
LEMMA FinishedRow ==
  ASSUME TypeOK, NEW i \in Query,
         NEW mi, MaxOver(mi, i, keep(i)), NEW x, x = SumOver(i, keep(i), mi)
  PROVE  [o |-> NormalisedRow(x, x), lse |-> finalize_lse(mi, x)] = ExactRow(i)
<1>1. x = [k \in keep(i) |-> score[i][k] - mi]
  BY DEF SumOver
<1>2. \A k \in keep(i) : k \in Nat /\ score[i][k] \in Int
  BY KeptKeys
<1>3. ~ IsPoisoned(x)
  BY <1>1, <1>2 DEF IsPoisoned
<1>4. CASE keep(i) = {}
  <2>1. x = EmptySum
    BY <1>1, <1>4 DEF EmptySum
  <2>. QED
    BY <1>3, <1>4, <2>1 DEF NormalisedRow, finalize_lse, ExactRow
<1>5. CASE keep(i) # {}
  <2>1. mi \in Int
    BY <1>2, <1>5 DEF MaxOver
  <2>2. DOMAIN x = keep(i) /\ x # EmptySum
    BY <1>1, <1>5 DEF EmptySum
  <2>3. NormalisedRow(x, x) = [j \in keep(i) |-> [k \in keep(i) |-> x[k] - x[j]]]
    BY <1>3, <2>2 DEF NormalisedRow
  <2>4. finalize_lse(mi, x) = [j \in keep(i) |-> x[j] + mi]
    BY <1>3, <2>1, <2>2 DEF finalize_lse
  <2>5. \A j \in keep(i) : x[j] + mi = score[i][j]
    BY <1>1, <1>2, <2>1
  <2>6. \A j \in keep(i), k \in keep(i) : x[k] - x[j] = score[i][k] - score[i][j]
    BY <1>1, <1>2, <2>1
  <2>7. finalize_lse(mi, x) = [j \in keep(i) |-> score[i][j]]
    BY <2>4, <2>5
  <2>8. \A j \in keep(i) : [k \in keep(i) |-> x[k] - x[j]]
                             = [k \in keep(i) |-> score[i][k] - score[i][j]]
    BY <2>6
  <2>9. NormalisedRow(x, x)
          = [j \in keep(i) |-> [k \in keep(i) |-> score[i][k] - score[i][j]]]
    BY <2>3, <2>8, Zenon
  <2>. QED
    BY <1>5, <2>7, <2>9, Zenon DEF ExactRow
<1>. QED
  BY <1>4, <1>5

\* When the key tiles are done, the rows of the query tile have seen what they
\* keep, and what is stored for them is exact.
LEMMA FinishedTile ==
  ASSUME IInv, FinishBlock
  PROVE  \A i \in Rows : i \in Query /\ Seen(i) = keep(i) /\ result'[i] = ExactRow(i)
<1>1. TypeOK /\ RunningExact /\ j0 >= Nkv /\ Rows \subseteq Query
  BY Tiles DEF IInv, FinishBlock
<1>2. \A i \in Rows : result'[i] = [o   |-> NormalisedRow(acc[i], l[i]),
                                    lse |-> finalize_lse(m[i], l[i])]
  BY <1>1 DEF FinishBlock
<1>3. ASSUME NEW i \in Rows PROVE Seen(i) = keep(i)
  <2>1. i \in Query /\ Seen(i) = KeptBefore(i, j0)
    BY <1>1, SeenNow
  <2>2. \A k \in keep(i) : k < j0
    BY <1>1, <2>1, KeptKeys DEF Key, TypeOK
  <2>. QED
    BY <2>1, <2>2 DEF KeptBefore
<1>4. ASSUME NEW i \in Rows PROVE result'[i] = ExactRow(i)
  <2>1. /\ i \in Query /\ MaxOver(m[i], i, keep(i))
        /\ l[i] = SumOver(i, keep(i), m[i]) /\ acc[i] = l[i]
    BY <1>1, <1>3, RowsRunning
  <2>2. [o |-> NormalisedRow(l[i], l[i]), lse |-> finalize_lse(m[i], l[i])] = ExactRow(i)
    BY <1>1, <2>1, FinishedRow
  <2>. QED
    BY <1>2, <2>1, <2>2
<1>. QED
  BY <1>1, <1>3, <1>4

\* A finished query tile keeps the invariant.
LEMMA FinishInv == IInv /\ FinishBlock => IInv'
<1>. SUFFICES ASSUME IInv, FinishBlock PROVE IInv'
  OBVIOUS
<1>1. /\ TypeOK /\ RunningExact /\ RowsExact
      /\ j0 >= Nkv /\ i0' = i0 + block_m /\ j0' = 0
      /\ UNCHANGED <<is_causal, attn_mask, block_m, block_n, score, m, l, acc>>
      /\ result' = [i \in Query |-> IF i \in Rows THEN [o   |-> NormalisedRow(acc[i], l[i]),
                                                       lse |-> finalize_lse(m[i], l[i])]
                                    ELSE result[i]]
  BY DEF IInv, FinishBlock, inputs
<1>2. \A i \in Query : keep(i)' = keep(i)
  BY <1>1 DEF keep
<1>3. /\ i0 \in Nat /\ block_m \in Nat \ {0}
      /\ Rows = {i \in Query : i0 <= i /\ i < i0 + block_m}
  BY <1>1, Tiles DEF TypeOK
<1>4. TypeOK'
  BY <1>1, <1>3 DEF TypeOK
<1>5. \A i \in Rows : i \in Query /\ Seen(i) = keep(i)
  BY FinishedTile
<1>6. ASSUME NEW i \in Query PROVE Seen(i)' = Seen(i)
  <2>1. i \in Nat
    BY <1>1, Tiles
  <2>2. \A k \in keep(i) : k \in Nat /\ ~ (k < 0)
    BY <1>1, KeptKeys
  <2>3. Seen(i)' = {k \in keep(i) : i < i0 + block_m}
    BY <1>1, <1>2, <2>2 DEF Seen
  <2>4. CASE i \in Rows
    BY <1>3, <1>5, <2>3, <2>4
  <2>5. CASE i < i0
    <3>1. Seen(i) = keep(i)
      BY <1>1, <2>5, SeenNow
    <3>2. i < i0 + block_m
      BY <1>3, <2>1, <2>5
    <3>. QED
      BY <2>3, <3>1, <3>2
  <2>6. CASE ~ (i < i0 \/ i \in Rows)
    <3>1. Seen(i) = {}
      BY <1>1, <2>6, SeenNow
    <3>2. ~ (i < i0 + block_m)
      BY <1>3, <2>1, <2>6
    <3>. QED
      BY <2>3, <3>1, <3>2
  <2>. QED
    BY <2>4, <2>5, <2>6
<1>7. RunningExact'
  BY <1>1, <1>6 DEF RunningExact
<1>8. \A i \in Rows : result'[i] = ExactRow(i)
  BY FinishedTile
<1>9. RowsExact'
  <2>. SUFFICES ASSUME NEW i \in Query, result'[i] # NotYet
                PROVE  result'[i] = ExactRow(i)
    BY <1>1, <1>2 DEF RowsExact, ExactRow
  <2>1. CASE i \in Rows
    BY <1>8, <2>1
  <2>2. CASE i \notin Rows
    BY <1>1, <2>2 DEF RowsExact, ExactRow
  <2>. QED
    BY <2>1, <2>2
<1>. QED
  BY <1>4, <1>7, <1>9 DEF IInv

\* Before the first tile no row has seen a key.
LEMMA InitInv == Init => IInv
<1>. SUFFICES ASSUME Init PROVE IInv
  OBVIOUS
<1>1. TypeOK
  BY DEF Init, TypeOK, Score
<1>2. \A i \in Query : Seen(i) = {}
  <2>. SUFFICES ASSUME NEW i \in Query PROVE Seen(i) = {}
    OBVIOUS
  <2>1. i \in Nat /\ \A k \in keep(i) : k \in Nat
    BY <1>1, KeptKeys, Tiles
  <2>2. i0 = 0 /\ j0 = 0
    BY DEF Init
  <2>. QED
    BY <2>1, <2>2 DEF Seen
<1>3. RunningExact
  <2>1. \A i \in Query : m[i] = NegInf /\ l[i] = EmptySum /\ acc[i] = EmptySum
    BY DEF Init
  <2>. QED
    BY <1>2, <2>1 DEF RunningExact, EmptySum
<1>4. RowsExact
  BY DEF Init, RowsExact
<1>. QED
  BY <1>1, <1>3, <1>4 DEF IInv

\* Types, running state and finished rows together are an inductive invariant
\* of both texts.
THEOREM ReferenceInvariant == Spec => []IInv
<1>1. IInv /\ [Next]_vars => IInv'
  <2>. SUFFICES ASSUME IInv, [Next]_vars PROVE IInv'
    OBVIOUS
  <2>1. ASSUME UNCHANGED vars PROVE IInv'
    <3>1. UNCHANGED <<is_causal, attn_mask, block_m, block_n, score, i0, j0, m, l, acc, result>>
      BY <2>1 DEF vars, inputs
    <3>2. \A i \in Query : keep(i)' = keep(i) /\ Seen(i)' = Seen(i)
      BY <3>1 DEF keep, Seen, Rows, i1
    <3>. QED
      BY <3>1, <3>2 DEF IInv, TypeOK, RunningExact, RowsExact
  <2>. QED
    BY <2>1, SkipInv, TorchInv, CppInv, FinishInv DEF Next, Returned
<1>. QED
  BY <1>1, InitInv, PTL DEF Spec

\* After each tile a row holds the maximum and the sums of exactly the keys it
\* has kept so far, whatever its mask hides before, between or after them.
THEOREM ReferenceSumsExact == Spec => []RunningExact
  BY ReferenceInvariant, PTL DEF IInv

\* Each finished row of either text is the softmax over the keys it keeps, or
\* zeroes with an lse of +inf.
THEOREM ReferenceRowsExact == Spec => []RowsExact
  BY ReferenceInvariant, PTL DEF IInv-------------------------------------------------------------------------------
(* The references that take the row in one pass.                           *)

Stored == \A i \in Query : i < i0 => result[i] = ExactRow(i)

\* The rows of a finished query tile are stored.
THEOREM FinishedRowsStored == Spec => []Stored
<1>1. Init => Stored
  <2>. SUFFICES ASSUME Init PROVE Stored
    OBVIOUS
  <2>1. TypeOK /\ i0 = 0
    BY InitInv DEF Init, IInv
  <2>. QED
    BY <2>1, Tiles DEF Stored
<1>2. IInv /\ Stored /\ [Next]_vars => Stored'
  <2>. SUFFICES ASSUME IInv, Stored, [Next]_vars PROVE Stored'
    OBVIOUS
  <2>1. UNCHANGED <<is_causal, attn_mask, score>>
    BY DEF Next, SkipTile, TileTorch, TileCpp, FinishBlock, Returned, vars, inputs
  <2>2. \A i \in Query : ExactRow(i)' = ExactRow(i)
    BY <2>1 DEF ExactRow, keep
  <2>3. CASE UNCHANGED <<i0, result>>
    BY <2>2, <2>3 DEF Stored
  <2>4. CASE FinishBlock
    <3>. SUFFICES ASSUME NEW i \in Query, i < i0' PROVE result'[i] = ExactRow(i)
      BY <2>2 DEF Stored
    <3>1. TypeOK /\ i0' = i0 + block_m /\ (i \notin Rows => result'[i] = result[i])
      BY <2>4 DEF IInv, FinishBlock
    <3>2. i \in Nat /\ i0 \in Nat /\ block_m \in Nat
      BY <3>1, Tiles DEF TypeOK
    <3>3. CASE i \in Rows
      BY <2>4, <3>3, FinishedTile
    <3>4. CASE i \notin Rows
      <4>1. i < i0
        BY <3>1, <3>2, <3>4, Tiles
      <4>. QED
        BY <3>1, <3>4, <4>1 DEF Stored
    <3>. QED
      BY <3>3, <3>4
  <2>. QED
    BY <2>3, <2>4 DEF Next, SkipTile, TileTorch, TileCpp, Returned, vars
<1>. QED
  BY <1>1, <1>2, ReferenceInvariant, PTL DEF Spec

\* The maximum of a whole row: one exists, because the tiles have found it.
LEMMA WholeMaximum ==
  ASSUME TypeOK, NEW i \in Query, NEW y, MaxOver(y, i, keep(i))
  PROVE  MaxOver(WholeMax(i), i, keep(i))
<1>. DEFINE S == {s(i, Key)[j] : j \in Key}
<1>1. \A k \in keep(i) : k \in Key /\ score[i][k] \in Int
  BY KeptKeys
<1>2. \A k \in Key : s(i, Key)[k] = IF k \in keep(i) THEN score[i][k] ELSE NegInf
  BY DEF s
<1>3. 0 \in Key
  BY DEF Key
<1>4. IsMax(y, S)
  <2>1. CASE keep(i) = {}
    <3>1. S = {NegInf} /\ y = NegInf
      BY <1>2, <1>3, <2>1 DEF MaxOver
    <3>. QED
      BY <3>1 DEF IsMax, Max2
  <2>2. CASE keep(i) # {}
    <3>1. y \in {score[i][k] : k \in keep(i)} /\ \A k \in keep(i) : score[i][k] <= y
      BY <2>2 DEF MaxOver
    <3>2. y \in S /\ y \in Int
      BY <1>1, <1>2, <3>1
    <3>3. ASSUME NEW k \in Key PROVE Max2(y, s(i, Key)[k]) = y
      <4>1. CASE k \in keep(i)
        <5>1. s(i, Key)[k] = score[i][k] /\ score[i][k] \in Int /\ score[i][k] <= y
          BY <1>1, <1>2, <3>1, <4>1
        <5>. QED
          BY <3>2, <5>1 DEF Max2
      <4>2. CASE k \notin keep(i)
        BY <1>2, <3>2, <4>2 DEF Max2
      <4>. QED
        BY <4>1, <4>2
    <3>. QED
      BY <3>2, <3>3 DEF IsMax
  <2>. QED
    BY <2>1, <2>2
<1>5. PICK x : x = WholeMax(i) /\ IsMax(x, S)
  BY <1>4 DEF WholeMax, IsMax
<1>6. x \in S /\ \A k \in Key : Max2(x, s(i, Key)[k]) = x
  BY <1>5 DEF IsMax
<1>7. CASE keep(i) = {}
  BY <1>2, <1>5, <1>6, <1>7 DEF MaxOver
<1>8. CASE keep(i) # {}
  <2>1. PICK k \in keep(i) : TRUE
    BY <1>8
  <2>2. x \in Int
    <3>1. x \in Int \cup {NegInf}
      BY <1>1, <1>2, <1>6
    <3>2. Max2(x, score[i][k]) = x /\ score[i][k] \in Int
      BY <1>1, <1>2, <1>6
    <3>. QED
      BY <3>1, <3>2 DEF Max2
  <2>3. x \in {score[i][j] : j \in keep(i)}
    BY <1>2, <1>6, <2>2
  <2>4. ASSUME NEW j \in keep(i) PROVE score[i][j] <= x
    <3>1. Max2(x, score[i][j]) = x /\ score[i][j] \in Int
      BY <1>1, <1>2, <1>6
    <3>. QED
      BY <2>2, <3>1 DEF Max2
  <2>. QED
    BY <1>5, <1>8, <2>3, <2>4 DEF MaxOver
<1>. QED
  BY <1>7, <1>8

\* One pass over the row, relative to a number that is the maximum if there is
\* one.
LEMMA OnePass ==
  ASSUME TypeOK, NEW i \in Query, NEW mi, MaxOver(mi, i, keep(i)),
         NEW x \in Int, keep(i) # {} => x = mi
  PROVE  WholeSum(i, x) = SumOver(i, keep(i), mi)
<1>. DEFINE w == [j \in Key |-> exp2_scaled(s(i, Key)[j], x)]
            live == {k \in DOMAIN w : w[k] # Zero}
<1>1. keep(i) \subseteq Key /\ \A k \in keep(i) : score[i][k] \in Int
  BY KeptKeys
<1>2. \A k \in Key : s(i, Key)[k] = IF k \in keep(i) THEN score[i][k] ELSE NegInf
  BY DEF s
<1>3. ASSUME NEW k \in Key PROVE w[k] = IF k \in keep(i) THEN score[i][k] - x ELSE Zero
  <2>1. w[k] = exp2_scaled(s(i, Key)[k], x)
    OBVIOUS
  <2>. QED
    BY <1>1, <1>2, <2>1 DEF exp2_scaled
<1>4. DOMAIN w = Key /\ WholeSum(i, x) = AddTerms(EmptySum, w)
  BY DEF WholeSum
<1>. HIDE DEF w
<1>5. live = keep(i) /\ \A k \in live : w[k] # NaN
  <2>1. \A k \in keep(i) : score[i][k] - x \in Int
    BY <1>1
  <2>. QED
    BY <1>1, <1>3, <1>4, <2>1
<1>6. AddTerms(EmptySum, w) = [k \in keep(i) |-> w[k]]
  <2>1. DOMAIN EmptySum = {} /\ ~ IsPoisoned(EmptySum)
    BY DEF EmptySum, IsPoisoned
  <2>2. AddTerms(EmptySum, w) =
          [k \in DOMAIN EmptySum \cup live |-> IF k \in live THEN w[k] ELSE EmptySum[k]]
    BY <1>5, <2>1 DEF AddTerms
  <2>. QED
    BY <1>5, <2>1, <2>2
<1>7. \A k \in keep(i) : w[k] = score[i][k] - mi
  BY <1>1, <1>3
<1>. QED
  BY <1>4, <1>6, <1>7 DEF SumOver

\* torch's own softmax is a number for the row exactly if it keeps a key.
LEMMA UnguardedRow ==
  ASSUME TypeOK, NEW i \in Query, MaxOver(WholeMax(i), i, keep(i))
  PROVE  ~ IsPoisoned(unfused_reference(i)) <=> keep(i) # {}
<1>1. \A k \in keep(i) : k \in Nat /\ score[i][k] \in Int
  BY KeptKeys
<1>2. PICK mi : mi = WholeMax(i) /\ MaxOver(mi, i, keep(i))
  OBVIOUS
<1>3. PICK x : x = WholeSum(i, mi)
  OBVIOUS
<1>4. unfused_reference(i) = NormalisedRow(x, x)
  BY <1>2, <1>3 DEF unfused_reference
<1>5. CASE keep(i) # {}
  <2>1. mi \in Int
    BY <1>1, <1>2, <1>5 DEF MaxOver
  <2>2. x = SumOver(i, keep(i), mi)
    BY <1>2, <1>3, <2>1, OnePass
  <2>3. DOMAIN x = keep(i) /\ NaN \notin keep(i) /\ x # EmptySum
    BY <1>1, <1>5, <2>2 DEF SumOver, EmptySum
  <2>4. DOMAIN NormalisedRow(x, x) = keep(i)
    BY <2>3 DEF NormalisedRow, IsPoisoned
  <2>. QED
    BY <1>4, <1>5, <2>3, <2>4 DEF IsPoisoned
<1>6. CASE keep(i) = {}
  <2>1. mi = NegInf
    BY <1>2, <1>6 DEF MaxOver
  <2>2. PICK w : w = [j \in Key |-> exp2_scaled(s(i, Key)[j], mi)]
    OBVIOUS
  <2>3. 0 \in DOMAIN w /\ w[0] = NaN
    BY <2>1, <2>2 DEF Key, exp2_scaled
  <2>4. AddTerms(EmptySum, w) = Poisoned
    BY <2>3 DEF AddTerms
  <2>5. IsPoisoned(x)
    BY <1>3, <2>2, <2>4 DEF WholeSum, IsPoisoned, Poisoned
  <2>6. NormalisedRow(x, x) = Poisoned
    BY <2>5 DEF NormalisedRow
  <2>. QED
    BY <1>4, <1>6, <2>6 DEF IsPoisoned, Poisoned
<1>. QED
  BY <1>5, <1>6

\* Either text returns what math_reference computes in one pass; the ratio rule
\* rejects the result exactly if some row keeps no key, and then only because
\* torch's own is NaN.
THEOREM ReferencesAgree == Spec => []RatioVerdict
<1>1. IInv /\ Stored => RatioVerdict
  <2>. SUFFICES ASSUME IInv, Stored, i0 >= Nq PROVE RatioVerdict
    BY DEF RatioVerdict
  <2>1. TypeOK /\ RunningExact
    BY DEF IInv
  <2>2. ASSUME NEW i \in Query
        PROVE  /\ result[i] = ExactRow(i) /\ math_reference(i) = ExactRow(i)
               /\ ~ IsPoisoned(unfused_reference(i)) <=> keep(i) # {}
               /\ ~ IsPoisoned(ExactRow(i).o)
    <3>1. i < i0
      BY <2>1 DEF TypeOK, Query
    <3>2. MaxOver(m[i], i, keep(i))
      BY <2>1, <3>1, SeenNow, RowsRunning
    <3>3. PICK mi : mi = WholeMax(i) /\ MaxOver(mi, i, keep(i))
      BY <2>1, <3>2, WholeMaximum
    <3>4. \A k \in keep(i) : k \in Nat /\ score[i][k] \in Int
      BY <2>1, KeptKeys
    <3>5. m_safe(mi) \in Int /\ (keep(i) # {} => m_safe(mi) = mi)
      BY <3>3, <3>4 DEF MaxOver, m_safe
    <3>6. PICK x : x = WholeSum(i, m_safe(mi)) /\ x = SumOver(i, keep(i), mi)
      BY <2>1, <3>3, <3>5, OnePass
    <3>7. math_reference(i) = [o |-> NormalisedRow(x, x), lse |-> finalize_lse(mi, x)]
      BY <3>3, <3>6 DEF math_reference
    <3>8. math_reference(i) = ExactRow(i)
      BY <2>1, <3>3, <3>6, <3>7, FinishedRow
    <3>9. ~ IsPoisoned(ExactRow(i).o)
      <4>1. DOMAIN ExactRow(i).o = keep(i)
        BY DEF ExactRow, EmptySum
      <4>. QED
        BY <3>4, <4>1 DEF IsPoisoned
    <3>10. ~ IsPoisoned(unfused_reference(i)) <=> keep(i) # {}
      BY <2>1, <3>3, UnguardedRow
    <3>. QED
      BY <3>1, <3>8, <3>9, <3>10 DEF Stored
  <2>3. \A i \in Query : result[i] = math_reference(i)
    BY <2>2
  <2>4. ASSUME NEW out, out = [i \in Query |-> result[i].o]
        PROVE  error_ratio(out) <=> \A i \in Query : keep(i) # {}
    <3>1. \A i \in Query : /\ ~ IsPoisoned(out[i]) /\ out[i] = math_reference(i).o
                           /\ ~ IsPoisoned(unfused_reference(i)) <=> keep(i) # {}
      BY <2>2, <2>4
    <3>. QED
      BY <3>1 DEF error_ratio
  <2>. QED
    BY <2>3, <2>4 DEF RatioVerdict
<1>. QED
  BY <1>1, ReferenceInvariant, FinishedRowsStored, PTL

===============================================================================
