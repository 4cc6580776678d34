---------------------------- MODULE StageBlockProofs ----------------------------
(***************************************************************************)
(* The thread blocks of the materialising stages, from the inside, for     *)
(* every size of row, tile, chunk, vector and block: what a block of a     *)
(* tiled product stores is the whole product of its row and column, and    *)
(* what a block of the row softmax stores is the softmax of its row,       *)
(* whatever the interleaving of their threads.                             *)
(***************************************************************************)
EXTENDS SoftmaxBlock, TiledProduct, TLAPS

-------------------------------------------------------------------------------
(* The tiled products, whose threads share their operands between two      *)
(* barriers.  All of them are in the same phase of the same chunk, which   *)
(* begins with what has been staged right and the sums so far complete.    *)

\* Euclid's division.
LEMMA Division ==
  ASSUME NEW x \in Nat, NEW b \in Nat \ {0}
  PROVE  x \div b \in Nat /\ x % b \in 0 .. b - 1 /\ x = b * (x \div b) + (x % b)
  OBVIOUS

\* The multiples of a number are as far apart as it is large.
LEMMA ProductBelow ==
  ASSUME NEW q \in Nat, NEW b \in Nat, NEW n \in Nat, q < n
  PROVE  b * q + b <= b * n
<1>1. q + 1 <= n
  OBVIOUS
<1>2. PICK e \in Nat : n = q + 1 + e
  <2>1. n - (q + 1) \in Nat /\ n = q + 1 + (n - (q + 1))
    BY <1>1
  <2>. QED
    BY <2>1
<1>3. b * n = b * q + b + b * e
  BY <1>2
<1>4. b * e \in Nat
  OBVIOUS
<1>. QED
  BY <1>3, <1>4

\* Division and remainder undo the flattening of a pair.
LEMMA Unflatten ==
  ASSUME NEW q \in Nat, NEW b \in Nat \ {0}, NEW r \in 0 .. b - 1
  PROVE  (b * q + r) \div b = q /\ (b * q + r) % b = r
<1>. DEFINE x == b * q + r
<1>1. x \in Nat
  OBVIOUS
<1>2. PICK p \in Nat : p = x \div b
  BY ONLY <1>1, Division, b \in Nat \ {0}
<1>3. PICK rest \in 0 .. b - 1 : rest = x % b
  BY ONLY <1>1, Division, b \in Nat \ {0}
<1>4. x = b * p + rest
  BY ONLY <1>1, <1>2, <1>3, Division, b \in Nat \ {0}
<1>5. ~ (p < q)
  <2>1. p < q => b * p + b <= b * q
    BY ONLY ProductBelow, p \in Nat, q \in Nat, b \in Nat \ {0}
  <2>. QED
    BY <1>4, <2>1
<1>6. ~ (q < p)
  <2>1. q < p => b * q + b <= b * p
    BY ONLY ProductBelow, p \in Nat, q \in Nat, b \in Nat \ {0}
  <2>. QED
    BY <1>4, <2>1
<1>7. p = q
  BY ONLY <1>5, <1>6, p \in Nat, q \in Nat
<1>. QED
  BY <1>2, <1>3, <1>4, <1>7

\* The edges of a tile are whole vectors, and there are as many vectors in a
\* chunk of either operand as there are threads.
LEMMA TileShape ==
  ASSUME TileAssumption
  PROVE  /\ PerEdge \in Nat \ {0} /\ PerDepth \in Nat \ {0}
         /\ Edge = PerEdge * Vec /\ Depth = PerDepth * Vec
         /\ Edge * PerDepth = PerEdge * PerEdge
         /\ Depth = PerEdge
<1>1. {N, D, Edge, Depth, Vec} \subseteq Nat \ {0}
  BY DEF TileAssumption
<1>2. PICK e \in Nat : e = PerEdge /\ Edge = Vec * e
  <2>1. Edge \in Nat /\ Vec \in Nat \ {0} /\ (Edge % Vec) = 0
    BY <1>1 DEF TileAssumption
  <2>2. Edge \div Vec \in Nat /\ Edge = Vec * (Edge \div Vec) + (Edge % Vec)
    BY ONLY <2>1, Division
  <2>3. Edge = Vec * (Edge \div Vec)
    BY ONLY <2>1, <2>2
  <2>. QED
    BY ONLY <2>2, <2>3 DEF PerEdge
<1>3. PICK d \in Nat : d = PerDepth /\ Depth = Vec * d
  <2>1. Depth \in Nat /\ Vec \in Nat \ {0} /\ (Depth % Vec) = 0
    BY <1>1 DEF TileAssumption
  <2>2. Depth \div Vec \in Nat /\ Depth = Vec * (Depth \div Vec) + (Depth % Vec)
    BY ONLY <2>1, Division
  <2>3. Depth = Vec * (Depth \div Vec)
    BY ONLY <2>1, <2>2
  <2>. QED
    BY ONLY <2>2, <2>3 DEF PerDepth
<1>4. e # 0 /\ d # 0
  BY <1>1, <1>2, <1>3
<1>5. Edge * Depth = e * e * Vec
  BY <1>2 DEF TileAssumption
<1>6. ASSUME NEW a \in Nat, NEW b \in Nat, NEW v \in Nat \ {0}, v * a = v * b PROVE a = b
  <2>1. ~ (a < b)
    <3>1. a < b => v * a + v <= v * b
      BY ONLY ProductBelow, a \in Nat, b \in Nat, v \in Nat \ {0}
    <3>. QED
      BY <1>6, <3>1
  <2>2. ~ (b < a)
    <3>1. b < a => v * b + v <= v * a
      BY ONLY ProductBelow, a \in Nat, b \in Nat, v \in Nat \ {0}
    <3>. QED
      BY <1>6, <3>1
  <2>. QED
    BY <2>1, <2>2
<1>7. Edge * d = e * e
  <2>1. Vec * (Edge * d) = Vec * (e * e)
    BY <1>1, <1>2, <1>3, <1>5
  <2>2. Edge * d \in Nat /\ e * e \in Nat
    BY <1>1
  <2>. QED
    BY ONLY <1>1, <1>6, <2>1, <2>2
<1>8. Depth = e
  <2>1. e * (Vec * Depth) = e * (Vec * e)
    BY <1>1, <1>2, <1>5
  <2>2. Vec * Depth \in Nat /\ Vec * e \in Nat
    BY <1>1
  <2>3. Vec * Depth = Vec * e
    BY ONLY <1>4, <1>6, <2>1, <2>2, e \in Nat
  <2>. QED
    BY ONLY <1>1, <1>6, <2>3, e \in Nat
<1>. QED
  BY <1>1, <1>2, <1>3, <1>4, <1>7, <1>8

\* A thread's register tile lies in the tile of its block.
LEMMA ThreadPlace ==
  ASSUME TileAssumption, NEW tid \in TileThread, NEW y \in 0 .. Vec - 1
  PROVE  /\ ty(tid) \in 0 .. PerEdge - 1 /\ tx(tid) \in 0 .. PerEdge - 1
         /\ ty(tid) * Vec + y \in 0 .. Edge - 1
         /\ tx(tid) * Vec + y \in 0 .. Edge - 1
<1>1. PICK e \in Nat \ {0} : e = PerEdge
  BY TileShape
<1>2. Vec \in Nat \ {0} /\ Edge = e * Vec
  BY <1>1, TileShape DEF TileAssumption
<1>3. tid \in Nat /\ tid < e * e
  BY <1>1 DEF TileThread
<1>4. PICK p \in Nat : p = ty(tid)
  BY ONLY <1>1, <1>3, Division DEF ty
<1>5. PICK r \in 0 .. e - 1 : r = tx(tid)
  BY ONLY <1>1, <1>3, Division DEF tx
<1>6. tid = e * p + r
  BY ONLY <1>1, <1>3, <1>4, <1>5, Division DEF tx, ty
<1>7. p < e
  <2>1. e < p + 1 => e * e + e <= e * (p + 1)
    BY ONLY ProductBelow, e \in Nat \ {0}, p \in Nat
  <2>2. e * (p + 1) = e * p + e
    OBVIOUS
  <2>3. e * p \in Nat /\ e * e \in Nat
    OBVIOUS
  <2>4. e = p => e * e = e * p
    OBVIOUS
  <2>. QED
    BY ONLY <1>3, <1>6, <2>1, <2>2, <2>3, <2>4, e \in Nat \ {0}, p \in Nat, r \in 0 .. e - 1
<1>8. ASSUME NEW q \in 0 .. e - 1 PROVE q * Vec + y \in 0 .. Edge - 1
  <2>1. Vec * q + Vec <= Vec * e
    BY ONLY ProductBelow, <1>1, <1>2, q \in 0 .. e - 1
  <2>2. Vec * q = q * Vec /\ Vec * e = e * Vec /\ q * Vec \in Nat
    BY <1>2
  <2>. QED
    BY ONLY <1>2, <2>1, <2>2, y \in 0 .. Vec - 1
<1>. QED
  BY ONLY <1>1, <1>4, <1>5, <1>7, <1>8

\* Between them the threads stage every element of both operands.
LEMMA EveryElementStaged ==
  ASSUME TileAssumption, NEW r \in 0 .. Edge - 1, NEW z \in 0 .. Depth - 1
  PROVE  /\ \E tid \in TileThread : <<r, z>> \in AMine(tid)
         /\ \E tid \in TileThread : <<z, r>> \in BMine(tid)
<1>1. PICK e \in Nat \ {0} : e = PerEdge
  BY TileShape
<1>2. PICK d \in Nat \ {0} : d = PerDepth
  BY TileShape
<1>3. /\ Vec \in Nat \ {0} /\ Edge = Vec * e /\ Depth = Vec * d
      /\ Edge * d = e * e /\ Depth = e /\ Edge \in Nat /\ Depth \in Nat
  BY <1>1, <1>2, TileShape DEF TileAssumption
<1>4. TileThread = 0 .. e * e - 1
  BY <1>1 DEF TileThread
\* Vector q of n, and element v of it.
<1>5. ASSUME NEW n \in Nat \ {0}, NEW top \in Nat, top = Vec * n, NEW x \in 0 .. top - 1
      PROVE  \E q \in 0 .. n - 1, v \in 0 .. Vec - 1 : x = q * Vec + v
  <2>1. x \in Nat
    OBVIOUS
  <2>2. PICK q \in Nat, v \in 0 .. Vec - 1 : x = Vec * q + v
    <3>1. x \div Vec \in Nat /\ (x % Vec) \in 0 .. Vec - 1 /\ x = Vec * (x \div Vec) + (x % Vec)
      BY ONLY <1>3, <2>1, Division
    <3>. QED
      BY ONLY <3>1
  <2>3. q < n
    <3>1. n < q => Vec * n + Vec <= Vec * q
      BY ONLY ProductBelow, <1>3, n \in Nat, q \in Nat
    <3>2. Vec * n \in Nat /\ Vec * q \in Nat /\ (n = q => Vec * n = Vec * q)
      BY <1>3
    <3>. QED
      BY ONLY <1>3, <1>5, <2>2, <3>1, <3>2, x \in 0 .. top - 1, top \in Nat, n \in Nat, q \in Nat
  <2>4. Vec * q = q * Vec
    BY <1>3
  <2>. QED
    BY ONLY <2>2, <2>3, <2>4, n \in Nat \ {0}, q \in Nat
\* The thread of row i and vector q of n, when there are as many as threads.
<1>6. ASSUME NEW h \in Nat, NEW n \in Nat \ {0}, h * n = e * e,
             NEW i \in 0 .. h - 1, NEW q \in 0 .. n - 1
      PROVE  \E tid \in TileThread : tid \div n = i /\ (tid % n) = q
  <2>1. n * i + n <= n * h
    BY ONLY ProductBelow, h \in Nat, n \in Nat \ {0}, i \in 0 .. h - 1
  <2>2. n * h = h * n /\ n * i \in Nat /\ h * n \in Nat
    OBVIOUS
  <2>3. n * i + q \in TileThread
    BY ONLY <1>4, <1>6, <2>1, <2>2, n \in Nat \ {0}, q \in 0 .. n - 1
  <2>4. (n * i + q) \div n = i /\ ((n * i + q) % n) = q
    BY ONLY Unflatten, n \in Nat \ {0}, i \in 0 .. h - 1, h \in Nat, q \in 0 .. n - 1
  <2>. QED
    BY <2>3, <2>4
<1>7. \E tid \in TileThread : <<r, z>> \in AMine(tid)
  <2>1. PICK q \in 0 .. d - 1, v \in 0 .. Vec - 1 : z = q * Vec + v
    BY ONLY <1>3, <1>5, z \in 0 .. Depth - 1, d \in Nat \ {0}
  <2>2. PICK tid \in TileThread : tid \div d = r /\ (tid % d) = q
    BY ONLY <1>3, <1>6, r \in 0 .. Edge - 1, d \in Nat \ {0}, q \in 0 .. d - 1
  <2>. QED
    BY <1>2, <2>1, <2>2 DEF AMine
<1>8. \E tid \in TileThread : <<z, r>> \in BMine(tid)
  <2>1. CASE kernel = "qk"
    <3>1. PICK q \in 0 .. d - 1, v \in 0 .. Vec - 1 : z = q * Vec + v
      BY ONLY <1>3, <1>5, z \in 0 .. Depth - 1, d \in Nat \ {0}
    <3>2. PICK tid \in TileThread : tid \div d = r /\ (tid % d) = q
      BY ONLY <1>3, <1>6, r \in 0 .. Edge - 1, d \in Nat \ {0}, q \in 0 .. d - 1
    <3>. QED
      BY <1>2, <2>1, <3>1, <3>2 DEF BMine
  <2>2. CASE kernel # "qk"
    <3>1. PICK q \in 0 .. e - 1, v \in 0 .. Vec - 1 : r = q * Vec + v
      BY ONLY <1>3, <1>5, r \in 0 .. Edge - 1, e \in Nat \ {0}
    <3>2. PICK tid \in TileThread : tid \div e = z /\ (tid % e) = q
      <4>1. Depth * e = e * e
        BY <1>3
      <4>. QED
        BY ONLY <1>3, <1>6, <4>1, z \in 0 .. Depth - 1, e \in Nat \ {0}, q \in 0 .. e - 1
    <3>. QED
      BY <1>1, <2>2, <3>1, <3>2 DEF BMine
  <2>. QED
    BY <2>1, <2>2
<1>. QED
  BY <1>7, <1>8

Row(tid, x) == ty(tid) * Vec + x[1]      \* of the tile, for an element of
Col(tid, x) == tx(tid) * Vec + x[2]      \* the register tile
Chunk    == (0 .. Edge - 1) \X (0 .. Depth - 1)
ChunkT   == (0 .. Depth - 1) \X (0 .. Edge - 1)
Place    == {"masked", "load", "loaded", "add", "added", "store", "done"}

\* The first k products of an element's sum.
Summed(tid, k) ==
  [x \in Register |->
    [z \in 1 .. k |-> <<Left(0, Row(tid, x), z - 1), Right(0, z - 1, Col(tid, x))>>]]

\* Where the tile lies, and the shape of the state.
TileTyped ==
  /\ kernel \in {"qk", "pv"} /\ causal \in BOOLEAN
  /\ i0 \in Nat /\ c0 \in Nat
  /\ \E b \in Nat : c0 = Vec * b
  /\ kernel = "pv" => c0 + Edge <= D
  /\ DOMAIN A = Chunk /\ DOMAIN B = ChunkT
  /\ pc \in [TileThread -> Place] /\ k0 \in [TileThread -> Nat]
  /\ acc = [tid \in TileThread |-> acc[tid]]

\* The block above the diagonal.
TileMasked == \A tid \in TileThread : Masked(tid) /\ pc[tid] \in {"masked", "done"}

\* Before the first barrier of chunk k: what has been staged is right.
Loading(k) ==
  /\ k < Length
  /\ \A tid \in TileThread :
       /\ pc[tid] \in {"load", "loaded"} /\ k0[tid] = k /\ acc[tid] = Summed(tid, k)
       /\ pc[tid] = "loaded" =>
            /\ \A x \in AMine(tid) \cap Chunk : A[x] = Left(k, x[1], x[2])
            /\ \A x \in BMine(tid) \cap ChunkT : B[x] = Right(k, x[1], x[2])

\* Between its barriers: everything has been.
Adding(k) ==
  /\ k < Length
  /\ \A x \in Chunk : A[x] = Left(k, x[1], x[2])
  /\ \A x \in ChunkT : B[x] = Right(k, x[1], x[2])
  /\ \A tid \in TileThread :
       \/ pc[tid] = "add" /\ k0[tid] = k /\ acc[tid] = Summed(tid, k)
       \/ pc[tid] = "added" /\ k0[tid] = k + Depth /\ acc[tid] = Summed(tid, k + Depth)

Storing ==
  \A tid \in TileThread : /\ pc[tid] \in {"store", "done"}
                          /\ pc[tid] = "store" => acc[tid] = Summed(tid, Length)

TileInv ==
  /\ TileTyped /\ ProductExact
  /\ \/ TileMasked
     \/ \E q \in Nat : Loading(Depth * q) \/ Adding(Depth * q)
     \/ Storing

\* A sum is a whole number of chunks.
LEMMA WholeChunks ==
  ASSUME TileAssumption, NEW q \in Nat, Depth * q < Length
  PROVE  /\ Depth \in Nat \ {0} /\ Length \in Nat
         /\ Depth * (q + 1) = Depth * q + Depth
         /\ Depth * (q + 1) <= Length
<1>1. /\ Depth \in Nat \ {0} /\ N \in Nat /\ D \in Nat
      /\ (N % Depth) = 0 /\ (D % Depth) = 0
  BY DEF TileAssumption
<1>2. Length \in Nat /\ (Length % Depth) = 0
  BY <1>1 DEF Length
<1>3. PICK w \in Nat : Length = Depth * w
  <2>1. Length \div Depth \in Nat /\ Length = Depth * (Length \div Depth) + (Length % Depth)
    BY ONLY <1>1, <1>2, Division
  <2>2. Length = Depth * (Length \div Depth)
    BY ONLY <1>1, <1>2, <2>1
  <2>. QED
    BY ONLY <2>1, <2>2
<1>4. q < w
  <2>1. w < q => Depth * w + Depth <= Depth * q
    BY ONLY ProductBelow, <1>1, w \in Nat, q \in Nat
  <2>2. w = q => Depth * w = Depth * q
    OBVIOUS
  <2>3. Depth * w \in Nat /\ Depth * q \in Nat
    BY <1>1
  <2>. QED
    BY ONLY <1>1, <1>3, <2>1, <2>2, <2>3, Depth * q < Length, w \in Nat, q \in Nat
<1>5. Depth * q + Depth <= Depth * w
  BY ONLY <1>1, <1>4, ProductBelow, q \in Nat, w \in Nat
<1>6. Depth * (q + 1) = Depth * q + Depth
  BY ONLY <1>1, q \in Nat
<1>. QED
  BY ONLY <1>1, <1>2, <1>3, <1>5, <1>6

\* A sum and the products of the next chunk.
LEMMA ExtendedSum ==
  ASSUME NEW F, NEW k \in Nat, NEW d \in Nat
  PROVE  [z \in 1 .. k |-> F[z]] \o [z \in 1 .. d |-> F[k + z]] = [z \in 1 .. k + d |-> F[z]]
<1>. DEFINE a == [z \in 1 .. k |-> F[z]]
            b == [z \in 1 .. d |-> F[k + z]]
            S == {F[z] : z \in 1 .. k + d}
<1>1. a \in Seq(S) /\ Len(a) = k
  OBVIOUS
<1>2. b \in Seq(S) /\ Len(b) = d
  OBVIOUS
<1>3. \A z \in 1 .. k : a[z] = F[z]
  OBVIOUS
<1>4. \A z \in 1 .. d : b[z] = F[k + z]
  OBVIOUS
<1>. HIDE DEF a, b, S
<1>5. a \o b \in Seq(S) /\ Len(a \o b) = k + d
  BY <1>1, <1>2
<1>6. \A z \in 1 .. k + d : (a \o b)[z] = F[z]
  <2>. TAKE z \in 1 .. k + d
  <2>1. (a \o b)[z] = IF z <= k THEN a[z] ELSE b[z - k]
    BY <1>1, <1>2
  <2>. QED
    BY <1>3, <1>4, <2>1
<1>7. a \o b = [z \in 1 .. k + d |-> (a \o b)[z]]
  <2>1. PICK t : t = a \o b
    OBVIOUS
  <2>2. t \in Seq(S) /\ Len(t) = k + d
    BY ONLY <1>5, <2>1
  <2>3. t \in [1 .. k + d -> S]
    BY ONLY <2>2
  <2>4. t = [z \in 1 .. k + d |-> t[z]]
    BY ONLY <2>3
  <2>. QED
    BY ONLY <2>1, <2>4
<1>. QED
  BY <1>6, <1>7 DEF a, b

\* Of what a block is about nothing ever changes.
LEMMA SameBlock ==
  ASSUME UNCHANGED <<kernel, causal, i0, c0>>
  PROVE  /\ \A t : AMine(t)' = AMine(t) /\ BMine(t)' = BMine(t)
         /\ \A t, n : Summed(t, n)' = Summed(t, n)
         /\ \A x, y, z : Left(x, y, z)' = Left(x, y, z) /\ Right(x, y, z)' = Right(x, y, z)
         /\ Length' = Length
         /\ \A i, j : Product(i, j)' = Product(i, j) /\ Addr(i, j)' = Addr(i, j)
         /\ OwnRow' = OwnRow /\ OwnColumn' = OwnColumn
<1>1. \A t : AMine(t)' = AMine(t) /\ BMine(t)' = BMine(t)
  BY DEF AMine, BMine
<1>2. \A x, y, z : Left(x, y, z)' = Left(x, y, z) /\ Right(x, y, z)' = Right(x, y, z)
  BY DEF Left, Right
<1>3. \A t, n : Summed(t, n)' = Summed(t, n)
  BY DEF Summed, Row, Col, Left, Right
<1>4. Length' = Length /\ Width' = Width
  BY DEF Length, Width
<1>5. \A i, j : Product(i, j)' = Product(i, j)
  BY <1>4 DEF Product
<1>6. \A i, j : Addr(i, j)' = Addr(i, j)
  BY <1>4 DEF Addr
<1>7. OwnRow' = OwnRow /\ OwnColumn' = OwnColumn
  BY <1>4 DEF OwnRow, OwnColumn
<1>. QED
  BY <1>1, <1>2, <1>3, <1>4, <1>5, <1>6, <1>7

\* A step that stores nothing keeps what is stored exact.
LEMMA SameOutput ==
  ASSUME UNCHANGED <<kernel, causal, i0, c0, out>>, ProductExact
  PROVE  ProductExact'
BY SameBlock DEF ProductExact

\* The block's tile lies where its columns are.
LEMMA TileInit ==
  ASSUME TileAssumption, ProductInit
  PROVE  TileInv
<1>1. /\ N \in Nat \ {0} /\ D \in Nat \ {0} /\ Edge \in Nat \ {0} /\ Depth \in Nat \ {0}
      /\ Vec \in Nat \ {0} /\ (D % Edge) = 0 /\ Kernels \subseteq {"qk", "pv"}
  BY DEF TileAssumption
<1>2. PICK e \in Nat \ {0} : Edge = Vec * e
  <2>1. PICK e \in Nat \ {0} : Edge = e * Vec
    BY TileShape
  <2>2. e * Vec = Vec * e
    BY ONLY <1>1, e \in Nat
  <2>. QED
    BY <2>1, <2>2
<1>3. kernel \in {"qk", "pv"} /\ causal \in BOOLEAN
  BY <1>1 DEF ProductInit
<1>4. Width \in Nat \ {0}
  BY <1>1 DEF Width
<1>5. \A n \in Nat \ {0} : Tiles(n) \in Nat
  <2>. TAKE n \in Nat \ {0}
  <2>1. n + Edge - 1 \in Nat
    BY <1>1
  <2>. QED
    BY ONLY <1>1, <2>1, Division DEF Tiles
<1>6. PICK b \in 0 .. Tiles(N) - 1 : i0 = b * Edge
  BY DEF ProductInit
<1>7. PICK c \in 0 .. Tiles(Width) - 1 : c0 = c * Edge
  BY DEF ProductInit
<1>8. b \in Nat /\ c \in Nat
  BY <1>1, <1>4, <1>5
<1>9. i0 \in Nat /\ c0 \in Nat
  BY <1>1, <1>6, <1>7, <1>8
<1>10. \E x \in Nat : c0 = Vec * x
  <2>1. c * (Vec * e) = Vec * (c * e)
    BY <1>1, <1>8
  <2>2. c * e \in Nat
    BY <1>8
  <2>. QED
    BY <1>2, <1>7, <2>1, <2>2
<1>11. ASSUME kernel = "pv" PROVE c0 + Edge <= D
  <2>1. PICK w \in Nat : D = Edge * w
    <3>1. D \div Edge \in Nat /\ D = Edge * (D \div Edge) + (D % Edge)
      BY ONLY <1>1, Division
    <3>2. D = Edge * (D \div Edge)
      BY ONLY <1>1, <3>1
    <3>. QED
      BY ONLY <3>1, <3>2
  <2>2. Tiles(D) = w
    <3>1. D + Edge - 1 = Edge * w + (Edge - 1)
      BY <1>1, <2>1
    <3>2. (Edge * w + (Edge - 1)) \div Edge = w
      <4>1. Edge - 1 \in 0 .. Edge - 1
        BY <1>1
      <4>. QED
        BY ONLY <1>1, <4>1, Unflatten, w \in Nat
    <3>. QED
      BY <3>1, <3>2 DEF Tiles
  <2>3. c < w
    BY <1>7, <1>8, <1>11, <2>2 DEF Width
  <2>4. Edge * c + Edge <= Edge * w
    BY ONLY <1>1, <1>8, <2>3, ProductBelow, w \in Nat
  <2>5. c * Edge = Edge * c
    BY <1>1, <1>8
  <2>. QED
    BY <1>7, <2>1, <2>4, <2>5
<1>12. \A tid \in TileThread : acc[tid] = Summed(tid, 0)
  <2>1. \A tid \in TileThread : acc[tid] = [x \in Register |-> <<>>]
    BY DEF ProductInit
  <2>2. ASSUME NEW F PROVE [z \in 1 .. 0 |-> F[z]] = <<>>
    OBVIOUS
  <2>3. \A tid \in TileThread : Summed(tid, 0) = [x \in Register |-> <<>>]
    BY DEF Summed
  <2>. QED
    BY <2>1, <2>3
<1>13. TileTyped
  <2>1. DOMAIN A = Chunk /\ DOMAIN B = ChunkT
    BY DEF ProductInit, Chunk, ChunkT
  <2>2. pc \in [TileThread -> Place] /\ k0 \in [TileThread -> Nat]
    BY DEF ProductInit, Place
  <2>3. acc = [tid \in TileThread |-> acc[tid]]
    BY DEF ProductInit
  <2>. QED
    BY <1>3, <1>9, <1>10, <1>11, <2>1, <2>2, <2>3 DEF TileTyped, ProductInit
<1>14. ProductExact
  BY DEF ProductInit, ProductExact
<1>15. CASE \A tid \in TileThread : Masked(tid)
  BY <1>13, <1>14, <1>15 DEF TileInv, TileMasked, ProductInit
<1>16. CASE ~ (\A tid \in TileThread : Masked(tid))
  <2>1. \A tid \in TileThread : ~ Masked(tid)
    BY <1>16 DEF Masked
  <2>2. \A tid \in TileThread : pc[tid] = "load" /\ k0[tid] = 0
    BY <2>1 DEF ProductInit
  <2>3. 0 < Length /\ Depth * 0 = 0
    BY <1>1 DEF Length
  <2>4. Loading(Depth * 0)
    BY <1>12, <2>2, <2>3 DEF Loading
  <2>. QED
    BY <1>13, <1>14, <2>4 DEF TileInv
<1>. QED
  BY <1>15, <1>16

\* One operand vector of one thread.
LEMMA TileLoad ==
  ASSUME TileAssumption, TileInv, NEW tid \in TileThread, Load(tid)
  PROVE  TileInv'
<1>1. /\ UNCHANGED <<kernel, causal, i0, c0, k0, acc, out>> /\ pc[tid] = "load"
      /\ pc' = [pc EXCEPT ![tid] = "loaded"]
      /\ A' = [x \in DOMAIN A |-> IF x \in AMine(tid) THEN Left(k0[tid], x[1], x[2]) ELSE A[x]]
      /\ B' = [x \in DOMAIN B |-> IF x \in BMine(tid) THEN Right(k0[tid], x[1], x[2]) ELSE B[x]]
  BY DEF Load, Go, block
<1>2. DOMAIN A = Chunk /\ DOMAIN B = ChunkT /\ pc \in [TileThread -> Place]
  BY DEF TileInv, TileTyped
<1>3. PICK q \in Nat : Loading(Depth * q)
  BY <1>1 DEF TileInv, TileMasked, Adding, Storing
<1>. DEFINE k == Depth * q
<1>4. k0[tid] = k
  BY <1>3 DEF Loading
<1>5. /\ \A t : AMine(t)' = AMine(t) /\ BMine(t)' = BMine(t)
      /\ \A t, n : Summed(t, n)' = Summed(t, n)
      /\ \A x, y, z : Left(x, y, z)' = Left(x, y, z) /\ Right(x, y, z)' = Right(x, y, z)
      /\ Length' = Length
  BY <1>1, SameBlock
<1>6. TileTyped'
  BY <1>1, <1>2 DEF TileInv, TileTyped, Place
<1>7. ProductExact'
  BY <1>1, SameOutput DEF TileInv
<1>8. Loading(k)'
  <2>. HIDE DEF k
  <2>1. (k < Length)'
    BY <1>3, <1>5 DEF Loading, k
  <2>2. ASSUME NEW t \in TileThread
        PROVE  pc'[t] \in {"load", "loaded"} /\ k0'[t] = k /\ acc'[t] = Summed(t, k)
    BY <1>1, <1>2, <1>3 DEF Loading, k
  <2>3. ASSUME NEW t \in TileThread, pc'[t] = "loaded", NEW x \in AMine(t) \cap Chunk
        PROVE  A'[x] = Left(k, x[1], x[2])
    BY <1>1, <1>2, <1>3, <1>4, <2>3 DEF Loading, k
  <2>4. ASSUME NEW t \in TileThread, pc'[t] = "loaded", NEW x \in BMine(t) \cap ChunkT
        PROVE  B'[x] = Right(k, x[1], x[2])
    BY <1>1, <1>2, <1>3, <1>4, <2>4 DEF Loading, k
  <2>. QED
    BY <1>5, <2>1, <2>2, <2>3, <2>4 DEF Loading
<1>. QED
  BY <1>6, <1>7, <1>8 DEF TileInv

\* A thread adds the products of the chunk that all of them have staged.
LEMMA TileAdd ==
  ASSUME TileAssumption, TileInv, NEW tid \in TileThread, AddProducts(tid)
  PROVE  TileInv'
<1>1. /\ UNCHANGED <<kernel, causal, i0, c0, A, B, out>> /\ pc[tid] = "add"
      /\ pc' = [pc EXCEPT ![tid] = "added"]
      /\ k0' = [k0 EXCEPT ![tid] = @ + Depth]
  BY DEF AddProducts, Go, AfterProducts, block
<1>2. PICK new :
        /\ acc' = [acc EXCEPT ![tid] = new]
        /\ new = [x \in Register |-> acc[tid][x] \o
              [z \in 1 .. Depth |-> <<A[<<Row(tid, x), z - 1>>], B[<<z - 1, Col(tid, x)>>]>>]]
  BY DEF AddProducts, Row, Col
<1>3. PICK q \in Nat : Adding(Depth * q)
  BY <1>1 DEF TileInv, TileMasked, Loading, Storing
<1>4. Depth \in Nat \ {0} /\ Vec \in Nat \ {0}
  BY DEF TileAssumption
<1>5. PICK k \in Nat : k = Depth * q
  BY <1>4
<1>6. k0[tid] = k /\ acc[tid] = Summed(tid, k)
  BY <1>1, <1>3, <1>5 DEF Adding
<1>7. new = Summed(tid, k + Depth)
  <2>1. ASSUME NEW x \in Register
        PROVE  new[x] = Summed(tid, k + Depth)[x]
    <3>. DEFINE F == [z \in Nat |-> <<Left(0, Row(tid, x), z - 1), Right(0, z - 1, Col(tid, x))>>]
    <3>1. Summed(tid, k)[x] = [z \in 1 .. k |-> F[z]]
      BY <2>1 DEF Summed
    <3>2. Summed(tid, k + Depth)[x] = [z \in 1 .. k + Depth |-> F[z]]
      BY <1>4, <2>1 DEF Summed
    <3>3. Row(tid, x) \in 0 .. Edge - 1 /\ Col(tid, x) \in 0 .. Edge - 1
      <4>1. x[1] \in 0 .. Vec - 1 /\ x[2] \in 0 .. Vec - 1
        BY <2>1 DEF Register
      <4>. QED
        BY <4>1, ThreadPlace DEF Row, Col
    <3>4. ASSUME NEW z \in 1 .. Depth
          PROVE  <<A[<<Row(tid, x), z - 1>>], B[<<z - 1, Col(tid, x)>>]>> = F[k + z]
      <4>1. z - 1 \in 0 .. Depth - 1
        BY <1>4
      <4>2. A[<<Row(tid, x), z - 1>>] = Left(k, Row(tid, x), z - 1)
        BY <1>3, <1>5, <3>3, <4>1 DEF Adding, Chunk
      <4>3. B[<<z - 1, Col(tid, x)>>] = Right(k, z - 1, Col(tid, x))
        BY <1>3, <1>5, <3>3, <4>1 DEF Adding, ChunkT
      <4>4. k + z \in Nat /\ k + (z - 1) = 0 + ((k + z) - 1)
        BY <1>4
      <4>5. /\ Left(k, Row(tid, x), z - 1) = Left(0, Row(tid, x), (k + z) - 1)
            /\ Right(k, z - 1, Col(tid, x)) = Right(0, (k + z) - 1, Col(tid, x))
        BY <4>4 DEF Left, Right
      <4>. QED
        BY <4>2, <4>3, <4>4, <4>5
    <3>5. new[x] = [z \in 1 .. k |-> F[z]] \o [z \in 1 .. Depth |-> F[k + z]]
      <4>1. new[x] = acc[tid][x] \o
              [z \in 1 .. Depth |-> <<A[<<Row(tid, x), z - 1>>], B[<<z - 1, Col(tid, x)>>]>>]
        BY <1>2, <2>1
      <4>. HIDE DEF F
      <4>2. [z \in 1 .. Depth |-> <<A[<<Row(tid, x), z - 1>>], B[<<z - 1, Col(tid, x)>>]>>]
              = [z \in 1 .. Depth |-> F[k + z]]
        BY <3>4
      <4>3. acc[tid][x] = [z \in 1 .. k |-> F[z]]
        BY <1>6, <3>1
      <4>. QED
        BY ONLY <4>1, <4>2, <4>3
    <3>. HIDE DEF F
    <3>. QED
      BY ONLY <1>4, <3>2, <3>5, ExtendedSum, k \in Nat
  <2>2. Summed(tid, k + Depth) = [x \in Register |-> Summed(tid, k + Depth)[x]]
    BY DEF Summed
  <2>3. new = [x \in Register |-> new[x]]
    BY <1>2
  <2>. QED
    BY ONLY <2>1, <2>2, <2>3
<1>8. TileTyped'
  <2>1. acc' = [t \in TileThread |-> acc'[t]]
    BY <1>2 DEF TileInv, TileTyped
  <2>2. k0' \in [TileThread -> Nat]
    BY <1>1, <1>4 DEF TileInv, TileTyped
  <2>3. pc' \in [TileThread -> Place]
    BY <1>1 DEF TileInv, TileTyped, Place
  <2>. QED
    BY <1>1, <2>1, <2>2, <2>3 DEF TileInv, TileTyped
<1>9. ProductExact'
  BY <1>1, SameOutput DEF TileInv
<1>10. Adding(k)'
  <2>1. (k < Length)'
    BY <1>1, <1>3, <1>5, SameBlock DEF Adding
  <2>2. /\ \A x \in Chunk : A'[x] = Left(k, x[1], x[2])'
        /\ \A x \in ChunkT : B'[x] = Right(k, x[1], x[2])'
    BY <1>1, <1>3, <1>5, SameBlock DEF Adding
  <2>3. ASSUME NEW t \in TileThread
        PROVE  \/ pc'[t] = "add" /\ k0'[t] = k /\ acc'[t] = Summed(t, k)
               \/ pc'[t] = "added" /\ k0'[t] = k + Depth /\ acc'[t] = Summed(t, k + Depth)
    <3>1. /\ pc \in [TileThread -> Place] /\ k0 \in [TileThread -> Nat]
          /\ acc = [u \in TileThread |-> acc[u]]
      BY DEF TileInv, TileTyped
    <3>2. CASE t = tid
      BY <1>1, <1>2, <1>6, <1>7, <3>1, <3>2
    <3>3. CASE t # tid
      BY <1>1, <1>2, <1>3, <1>5, <3>1, <3>3 DEF Adding
    <3>. QED
      BY <3>2, <3>3
  <2>4. \A t, n : Summed(t, n)' = Summed(t, n)
    BY <1>1, SameBlock
  <2>. QED
    BY <2>1, <2>2, <2>3, <2>4 DEF Adding
<1>. QED
  BY <1>5, <1>8, <1>9, <1>10 DEF TileInv

\* The two barriers of the loop, and its end.
LEMMA TileBarrier ==
  ASSUME TileAssumption, TileInv, LoopBarrier
  PROVE  TileInv'
<1>1. /\ UNCHANGED <<kernel, causal, i0, c0, k0, acc, A, B, out>>
      /\ \A tid \in TileThread : pc[tid] \in {"loaded", "added"}
      /\ pc' = [tid \in TileThread |-> IF pc[tid] = "loaded" THEN "add"
                                        ELSE IF More(k0[tid]) THEN "load" ELSE "store"]
  BY DEF LoopBarrier, block
<1>2. TileTyped'
  BY <1>1 DEF TileInv, TileTyped, Place
<1>3. ProductExact'
  BY <1>1, SameOutput DEF TileInv
<1>4. /\ \A t, n : Summed(t, n)' = Summed(t, n)
      /\ \A x, y, z : Left(x, y, z)' = Left(x, y, z) /\ Right(x, y, z)' = Right(x, y, z)
      /\ Length' = Length
  BY <1>1, SameBlock
<1>5. CASE TileMasked \/ Storing
  <2>1. \A tid \in TileThread : FALSE
    BY <1>1, <1>5 DEF TileMasked, Storing
  <2>. QED
    BY <1>2, <1>3, <2>1 DEF TileInv, Storing
<1>6. ASSUME NEW q \in Nat, Loading(Depth * q)
      PROVE  TileInv'
  <2>1. PICK k : k = Depth * q
    OBVIOUS
  <2>2. ASSUME NEW x \in Chunk PROVE A[x] = Left(k, x[1], x[2])
    <3>1. PICK r \in 0 .. Edge - 1, z \in 0 .. Depth - 1 : x = <<r, z>>
      BY DEF Chunk
    <3>2. PICK tid \in TileThread : x \in AMine(tid)
      BY <3>1, EveryElementStaged
    <3>3. pc[tid] = "loaded"
      BY <1>1, <1>6 DEF Loading
    <3>. QED
      BY <1>6, <2>1, <3>2, <3>3 DEF Loading
  <2>3. ASSUME NEW x \in ChunkT PROVE B[x] = Right(k, x[1], x[2])
    <3>1. PICK r \in 0 .. Edge - 1, z \in 0 .. Depth - 1 : x = <<z, r>>
      BY DEF ChunkT
    <3>2. PICK tid \in TileThread : x \in BMine(tid)
      BY <3>1, EveryElementStaged
    <3>3. pc[tid] = "loaded"
      BY <1>1, <1>6 DEF Loading
    <3>. QED
      BY <1>6, <2>1, <3>2, <3>3 DEF Loading
  <2>4. k < Length
    BY <1>6, <2>1 DEF Loading
  <2>5. \A tid \in TileThread : pc'[tid] = "add" /\ k0[tid] = k /\ acc[tid] = Summed(tid, k)
    BY <1>1, <1>6, <2>1 DEF Loading
  <2>6. Adding(k)'
    BY <1>1, <1>4, <2>2, <2>3, <2>4, <2>5 DEF Adding
  <2>. QED
    BY <1>2, <1>3, <2>1, <2>6 DEF TileInv
<1>7. ASSUME NEW q \in Nat, Adding(Depth * q)
      PROVE  TileInv'
  <2>1. /\ Depth \in Nat \ {0} /\ Length \in Nat
        /\ Depth * (q + 1) = Depth * q + Depth /\ Depth * (q + 1) <= Length
    BY <1>7, WholeChunks DEF Adding
  <2>2. PICK k \in Nat : k = Depth * (q + 1)
    BY <2>1
  <2>3. \A tid \in TileThread :
          /\ pc[tid] = "added" /\ k0[tid] = k /\ acc[tid] = Summed(tid, k)
          /\ pc'[tid] = IF k < Length THEN "load" ELSE "store"
    BY <1>1, <1>7, <2>1, <2>2 DEF Adding, More, Length
  <2>4. CASE k < Length
    <3>1. Loading(k)'
      BY <1>1, <1>4, <2>3, <2>4 DEF Loading
    <3>2. q + 1 \in Nat
      OBVIOUS
    <3>. QED
      BY <1>2, <1>3, <2>2, <3>1, <3>2 DEF TileInv
  <2>5. CASE ~ (k < Length)
    <3>1. k = Length
      BY <2>1, <2>2, <2>5
    <3>2. Storing'
      BY <1>1, <1>4, <2>3, <2>5, <3>1 DEF Storing
    <3>. QED
      BY <1>2, <1>3, <3>2 DEF TileInv
  <2>. QED
    BY <2>4, <2>5
<1>. QED
  BY <1>5, <1>6, <1>7 DEF TileInv

\* Where an element lies that a thread stores: in the part of its block, whole
\* vectors at a time, at its address and on its side of the diagonal.
LEMMA StoredElement ==
  ASSUME TileAssumption, TileTyped, NEW tid \in TileThread, NEW x \in Stored(tid)
  PROVE  /\ i0 + Row(tid, x) \in OwnRow /\ c0 + Col(tid, x) \in OwnColumn
         /\ AddrOf(tid, x) = Addr(i0 + Row(tid, x), c0 + Col(tid, x))
         /\ AboveDiagonal(tid, x) <=>
              kernel = "qk" /\ causal /\ c0 + Col(tid, x) > i0 + Row(tid, x)
<1>1. x[1] \in 0 .. Vec - 1 /\ x[2] \in 0 .. Vec - 1
  BY DEF Stored, Register
<1>2. /\ Row(tid, x) \in 0 .. Edge - 1 /\ Col(tid, x) \in 0 .. Edge - 1
      /\ ty(tid) \in Nat /\ tx(tid) \in Nat
  BY <1>1, ThreadPlace, TileShape DEF Row, Col
<1>3. /\ Vec \in Nat \ {0} /\ N \in Nat \ {0} /\ D \in Nat \ {0} /\ Edge \in Nat \ {0}
      /\ (N % Vec) = 0 /\ i0 \in Nat /\ c0 \in Nat
  BY DEF TileAssumption, TileTyped
<1>4. /\ i0 + ty(tid) * Vec + x[1] = i0 + Row(tid, x)
      /\ c0 + tx(tid) * Vec + x[2] = c0 + Col(tid, x)
  <2>1. ty(tid) * Vec \in Nat /\ tx(tid) * Vec \in Nat
    BY <1>2, <1>3
  <2>. QED
    BY <1>1, <1>3, <2>1 DEF Row, Col
<1>5. i0 + Row(tid, x) \in OwnRow
  BY <1>2, <1>3, <1>4 DEF Stored, OwnRow
<1>6. c0 + Col(tid, x) < Width
  <2>1. CASE kernel = "pv"
    <3>1. c0 + Edge <= D /\ Width = D
      BY <2>1 DEF TileTyped, Width
    <3>. QED
      BY <1>2, <1>3, <3>1
  <2>2. CASE kernel # "pv"
    <3>1. kernel = "qk" /\ Width = N /\ c0 + tx(tid) * Vec < N
      BY <2>2 DEF TileTyped, Width, Stored
    <3>2. PICK b \in Nat : c0 = Vec * b
      BY DEF TileTyped
    <3>3. PICK w \in Nat : N = Vec * w
      <4>1. N \div Vec \in Nat /\ N = Vec * (N \div Vec) + (N % Vec)
        BY ONLY <1>3, Division
      <4>2. N = Vec * (N \div Vec)
        BY ONLY <1>3, <4>1
      <4>. QED
        BY ONLY <4>1, <4>2
    <3>4. PICK u \in Nat : u = b + tx(tid)
      BY <1>2
    <3>5. c0 + tx(tid) * Vec = Vec * u
      BY <1>2, <1>3, <3>2, <3>4
    <3>6. u < w
      <4>1. w < u => Vec * w + Vec <= Vec * u
        BY ONLY ProductBelow, <1>3, u \in Nat, w \in Nat
      <4>2. (w = u => Vec * w = Vec * u) /\ Vec * w \in Nat /\ Vec * u \in Nat
        BY <1>3
      <4>. QED
        BY ONLY <1>3, <3>1, <3>3, <3>5, <4>1, <4>2, u \in Nat, w \in Nat
    <3>7. Vec * u + Vec <= N
      BY ONLY <1>3, <3>3, <3>6, ProductBelow, u \in Nat, w \in Nat
    <3>8. Vec * u \in Nat
      BY <1>3
    <3>. QED
      BY ONLY <1>1, <1>3, <1>4, <3>1, <3>5, <3>7, <3>8
  <2>. QED
    BY <2>1, <2>2
<1>7. c0 + Col(tid, x) \in OwnColumn
  BY <1>2, <1>3, <1>6 DEF OwnColumn
<1>. QED
  BY <1>4, <1>5, <1>7 DEF AddrOf, AboveDiagonal

\* What a thread stores are whole elements of its block's part.
LEMMA TileStored ==
  ASSUME TileAssumption, TileTyped, ProductExact, UNCHANGED <<kernel, causal, i0, c0>>,
         NEW tid \in TileThread, NEW tile, StoreTile(tid, tile),
         \A x \in Stored(tid) : tile[x] = Product(i0 + Row(tid, x), c0 + Col(tid, x))
  PROVE  ProductExact'
<1>1. ASSUME NEW x \in Stored(tid)
      PROVE  /\ i0 + Row(tid, x) \in OwnRow /\ c0 + Col(tid, x) \in OwnColumn
             /\ AddrOf(tid, x) = Addr(i0 + Row(tid, x), c0 + Col(tid, x))
  BY StoredElement
<1>2. SUFFICES ASSUME NEW a \in DOMAIN out
               PROVE  \/ out'[a] = Unwritten
                      \/ \E i \in OwnRow, j \in OwnColumn :
                           a = Addr(i, j) /\ out'[a] = Product(i, j)
  <2>1. DOMAIN out' = DOMAIN out
    BY DEF StoreTile
  <2>. QED
    BY <2>1, SameBlock DEF ProductExact
<1>3. CASE \E x \in Stored(tid) : AddrOf(tid, x) = a
  <2>1. PICK x \in Stored(tid) : AddrOf(tid, x) = a /\ out'[a] = tile[x]
    BY <1>2, <1>3 DEF StoreTile
  <2>. QED
    BY <1>1, <2>1
<1>4. CASE ~ \E x \in Stored(tid) : AddrOf(tid, x) = a
  <2>1. out'[a] = out[a]
    BY <1>2, <1>4 DEF StoreTile
  <2>. QED
    BY <1>2, <2>1 DEF ProductExact
<1>. QED
  BY <1>3, <1>4

\* A masked tile is all above the diagonal.
LEMMA TileStoreMasked ==
  ASSUME TileAssumption, TileInv, NEW tid \in TileThread, StoreMasked(tid)
  PROVE  TileInv'
<1>1. /\ UNCHANGED <<kernel, causal, i0, c0, k0, acc, A, B>> /\ pc[tid] = "masked"
      /\ pc' = [pc EXCEPT ![tid] = "done"]
      /\ StoreTile(tid, [x \in Register |-> NegInf])
  BY DEF StoreMasked, Go, block
<1>2. TileMasked
  BY <1>1 DEF TileInv, Loading, Adding, Storing
<1>3. TileTyped'
  BY <1>1 DEF TileInv, TileTyped, Place
<1>4. TileMasked'
  <2>1. \A t \in TileThread : Masked(t)' = Masked(t)
    BY <1>1 DEF Masked
  <2>. QED
    BY <1>1, <1>2, <2>1 DEF TileInv, TileTyped, TileMasked
<1>5. ASSUME NEW x \in Stored(tid)
      PROVE  [y \in Register |-> NegInf][x] = Product(i0 + Row(tid, x), c0 + Col(tid, x))
  <2>1. x \in Register /\ x[1] \in 0 .. Vec - 1 /\ x[2] \in 0 .. Vec - 1
    BY DEF Stored, Register
  <2>2. Row(tid, x) \in 0 .. Edge - 1 /\ Col(tid, x) \in 0 .. Edge - 1
    BY <2>1, ThreadPlace DEF Row, Col
  <2>3. kernel = "qk" /\ causal /\ c0 > i0 + Edge - 1
    BY <1>2 DEF TileMasked, Masked
  <2>4. c0 + Col(tid, x) > i0 + Row(tid, x)
    BY <2>2, <2>3 DEF TileInv, TileTyped, TileAssumption
  <2>. QED
    BY <2>1, <2>3, <2>4 DEF Product
<1>6. ProductExact'
  <2>1. PICK tile : tile = [y \in Register |-> NegInf]
    OBVIOUS
  <2>. QED
    BY <1>1, <1>5, <2>1, TileStored DEF TileInv
<1>. QED
  BY <1>3, <1>4, <1>6 DEF TileInv

\* A stutter changes nothing.
LEMMA TileStutter ==
  ASSUME TileInv, UNCHANGED <<kernel, causal, i0, c0, pc, k0, acc, A, B, out>>
  PROVE  TileInv'
<1>1. TileTyped'
  BY DEF TileInv, TileTyped
<1>2. ProductExact'
  BY SameOutput DEF TileInv
<1>3. /\ \A t, n : Summed(t, n)' = Summed(t, n)
      /\ \A x, y, z : Left(x, y, z)' = Left(x, y, z) /\ Right(x, y, z)' = Right(x, y, z)
      /\ \A t : AMine(t)' = AMine(t) /\ BMine(t)' = BMine(t)
  BY SameBlock
<1>4. PICK n : n = Length /\ n = Length'
  BY SameBlock
<1>5. TileMasked => TileMasked'
  BY DEF TileMasked, Masked
<1>6. ASSUME NEW k, Loading(k) PROVE Loading(k)'
  BY <1>3, <1>4, <1>6 DEF Loading
<1>7. ASSUME NEW k, Adding(k) PROVE Adding(k)'
  BY <1>3, <1>4, <1>7 DEF Adding
<1>8. Storing => Storing'
  <2>. SUFFICES ASSUME Storing PROVE Storing'
    OBVIOUS
  <2>1. \A t \in TileThread : /\ pc[t] \in {"store", "done"}
                              /\ pc[t] = "store" => acc[t] = Summed(t, n)
    BY <1>4 DEF Storing
  <2>2. \A t : Summed(t, n)' = Summed(t, n)
    BY <1>3
  <2>. QED
    BY <1>4, <2>1, <2>2 DEF Storing
<1>9. ASSUME NEW q \in Nat, Loading(Depth * q) \/ Adding(Depth * q) PROVE TileInv'
  <2>1. PICK k : k = Depth * q
    OBVIOUS
  <2>2. Loading(k)' \/ Adding(k)'
    BY <1>6, <1>7, <1>9, <2>1
  <2>. QED
    BY <1>1, <1>2, <2>1, <2>2 DEF TileInv
<1>. QED
  BY <1>1, <1>2, <1>5, <1>8, <1>9 DEF TileInv

\* What has been summed up to the end is the product.
LEMMA TileStore ==
  ASSUME TileAssumption, TileInv, NEW tid \in TileThread, Store(tid)
  PROVE  TileInv'
<1>1. PICK tile :
        /\ UNCHANGED <<kernel, causal, i0, c0, k0, acc, A, B>> /\ pc[tid] = "store"
        /\ pc' = [pc EXCEPT ![tid] = "done"]
        /\ StoreTile(tid, tile)
        /\ tile = [x \in Register |-> IF AboveDiagonal(tid, x) THEN NegInf ELSE acc[tid][x]]
  BY DEF Store, Go, block
<1>2. Storing /\ acc[tid] = Summed(tid, Length)
  BY <1>1 DEF TileInv, TileMasked, Loading, Adding, Storing
<1>3. TileTyped'
  BY <1>1 DEF TileInv, TileTyped, Place
<1>4. Storing'
  <2>1. PICK n : n = Length /\ n = Length'
    BY <1>1, SameBlock
  <2>2. \A t : Summed(t, n)' = Summed(t, n)
    BY <1>1, SameBlock
  <2>3. ASSUME NEW t \in TileThread
        PROVE  pc'[t] \in {"store", "done"} /\ (pc'[t] = "store" => acc'[t] = Summed(t, n))
    BY <1>1, <1>2, <2>1 DEF TileInv, TileTyped, Storing
  <2>. QED
    BY <2>1, <2>2, <2>3 DEF Storing
<1>5. ASSUME NEW x \in Stored(tid)
      PROVE  tile[x] = Product(i0 + Row(tid, x), c0 + Col(tid, x))
  <2>1. x \in Register
    BY DEF Stored
  <2>2. /\ i0 + Row(tid, x) \in OwnRow /\ c0 + Col(tid, x) \in OwnColumn
        /\ AboveDiagonal(tid, x) <=>
             kernel = "qk" /\ causal /\ c0 + Col(tid, x) > i0 + Row(tid, x)
    BY StoredElement DEF TileInv
  <2>3. CASE AboveDiagonal(tid, x)
    BY <1>1, <2>1, <2>2, <2>3 DEF Product
  <2>4. CASE ~ AboveDiagonal(tid, x)
    <3>1. tile[x] = Summed(tid, Length)[x]
      BY <1>1, <1>2, <2>1, <2>4
    <3>2. ASSUME NEW z \in 1 .. Length
          PROVE  /\ Left(0, Row(tid, x), z - 1) = <<i0 + Row(tid, x), z - 1>>
                 /\ Right(0, z - 1, Col(tid, x)) = <<z - 1, c0 + Col(tid, x)>>
      <4>1. i0 + Row(tid, x) < N /\ (kernel = "pv" \/ c0 + Col(tid, x) < N) /\ 0 + (z - 1) = z - 1
        BY <2>2 DEF OwnRow, OwnColumn, Width, TileInv, TileTyped
      <4>. QED
        BY <4>1 DEF Left, Right
    <3>3. Summed(tid, Length)[x]
            = [z \in 1 .. Length |-> <<<<i0 + Row(tid, x), z - 1>>, <<z - 1, c0 + Col(tid, x)>>>>]
      BY <2>1, <3>2 DEF Summed
    <3>4. Product(i0 + Row(tid, x), c0 + Col(tid, x))
            = [z \in 1 .. Length |-> <<<<i0 + Row(tid, x), z - 1>>, <<z - 1, c0 + Col(tid, x)>>>>]
      BY <2>2, <2>4 DEF Product, Length
    <3>. QED
      BY ONLY <3>1, <3>3, <3>4
  <2>. QED
    BY <2>3, <2>4
<1>6. ProductExact'
  BY <1>1, <1>5, TileStored DEF TileInv
<1>. QED
  BY <1>3, <1>4, <1>6 DEF TileInv

\* What a block of either product has stored is exact at every step: for
\* every size of the matrices, of the tile, of the chunk and of a vector the
\* kernels are compiled for, whatever the interleaving of the threads.
THEOREM ProductsExact == ProductSpec => []ProductExact
<1>. USE TileAssumption
<1>1. ProductInit => TileInv
  BY TileInit
<1>2. TileInv /\ [ProductNext]_productVars => TileInv'
  <2>. SUFFICES ASSUME TileInv, [ProductNext]_productVars PROVE TileInv'
    OBVIOUS
  <2>1. CASE \E tid \in TileThread : TileStep(tid)
    BY <2>1, TileStoreMasked, TileLoad, TileAdd, TileStore DEF TileStep
  <2>2. CASE LoopBarrier
    BY <2>2, TileBarrier
  <2>3. CASE UNCHANGED productVars
    <3>1. UNCHANGED <<kernel, causal, i0, c0, pc, k0, acc, A, B, out>>
      BY <2>3 DEF productVars
    <3>. QED
      BY <3>1, TileStutter
  <2>. QED
    BY <2>1, <2>2, <2>3 DEF ProductNext, TileDone
<1>3. TileInv => ProductExact
  BY DEF TileInv
<1>. QED
  BY <1>1, <1>2, <1>3, PTL DEF ProductSpec

-------------------------------------------------------------------------------
(* The row softmax of either stage.  A reduction is exact because each     *)
(* slot holds its warp's part from the barrier behind its filling until    *)
(* every thread has folded it.                                             *)

WarpOf(tid) == tid \div WarpSize
WarpKeys(w) == UNION {Mine(tid) : tid \in LanesOf(w)}

\* x is the maximum of the keys in S, -inf if all of them are masked.
Top(x, S) == IsMax(x, {NegInf} \cup {s[j] : j \in S})
RowMax    == CHOOSE x : Top(x, Key)

\* The terms of the keys in S, relative to the maximum of the row.
Terms(S)  == [j \in S \cap Visible |-> s[j] - RowMax]
TermAt(j) == IF s[j] = NegInf THEN Zero ELSE s[j] - RowMax
RowWeight(j) == [p |-> IF j \in Visible
                       THEN [k \in Visible |-> s[k] - s[j]] ELSE Zero]
RowLse    == IF Visible = {} THEN PosInf ELSE [k \in Visible |-> s[k]]

\* The slot of a warp holds the maximum, or the sum, of the warp's keys.
MaxSlot(w) == \E x : red[ArrayOf("max")][w] = [max |-> x] /\ Top(x, WarpKeys(w))
SumSlot(w) == red[ArrayOf("sum")][w] = [sum |-> Terms(WarpKeys(w))]

Summing == {"exp", "shuffle_sum", "filled_sum"}
Known   == Summing \cup {"folded_max", "empty", "fold_sum", "folded_sum", "normalise", "done"}

SoftTyped ==
  /\ stage \in {1, 2}
  /\ s \in [Key -> Int \cup {NegInf}]
  /\ pc \in [Thread -> Known \cup {"max", "shuffle_max", "filled_max", "fold_max"}]
  /\ DOMAIN m = Thread /\ DOMAIN l = Thread
  /\ DOMAIN red = {"red", "max", "sum"}
  /\ \A a \in {"red", "max", "sum"} : DOMAIN red[a] = Warp

\* What a thread has, and has left in shared and global memory, at each place.
ThreadHolds(tid) ==
  /\ pc[tid] \in {"shuffle_max", "filled_max"} => Top(m[tid], Mine(tid))
  /\ pc[tid] = "filled_max" => MaxSlot(WarpOf(tid))
  /\ pc[tid] \in Known => Top(m[tid], Key)
  /\ pc[tid] \in Summing \cup {"fold_sum", "folded_sum", "normalise"} =>
       stage = 1 \/ RowMax # NegInf
  /\ pc[tid] = "empty" => RowMax = NegInf
  /\ pc[tid] \in {"shuffle_sum", "filled_sum"} => l[tid] = Terms(Mine(tid))
  /\ pc[tid] = "filled_sum" => SumSlot(WarpOf(tid))
  /\ pc[tid] \in {"folded_sum", "normalise"} => l[tid] = Terms(Key)
  /\ stage = 1 /\ pc[tid] \in {"shuffle_sum", "filled_sum", "fold_sum", "folded_sum", "normalise"}
       => \A j \in Mine(tid) : P[j] = [term |-> TermAt(j)]
  /\ pc[tid] = "done" => \A j \in Mine(tid) : P[j] = RowWeight(j)

Together(S) == \A tid \in Thread : pc[tid] \in S

\* Where the threads are between two barriers: S1 has one on each side of a
\* fold; in S2 a fold and what follows it are not kept apart.
Comparing == Together({"max", "shuffle_max", "filled_max"})
MaxRead   == /\ \A w \in Warp : MaxSlot(w)
             /\ Together(IF stage = 1 THEN {"fold_max", "folded_max"}
                         ELSE {"fold_max", "empty", "done"} \cup Summing)
Exponents == stage = 1 /\ Together(Summing)
SumRead   == /\ \A w \in Warp : SumSlot(w)
             /\ Together(IF stage = 1 THEN {"fold_sum", "folded_sum"}
                         ELSE {"fold_sum", "normalise", "done"})
Finishing == stage = 1 /\ Together({"normalise", "done"})

SoftInv ==
  /\ SoftTyped
  /\ \A tid \in Thread : ThreadHolds(tid)
  /\ Comparing \/ MaxRead \/ Exponents \/ SumRead \/ Finishing
  /\ lse \in {Unwritten, RowLse}

USE SentinelAssumption

\* The maximum of keys, in terms of the order of the scores.
LEMMA TopFacts ==
  ASSUME s \in [Key -> Int \cup {NegInf}], NEW S \in SUBSET Key, NEW x
  PROVE  Top(x, S) <=>
           /\ x \in Int \cup {NegInf}
           /\ x = NegInf \/ \E j \in S : s[j] = x
           /\ \A j \in S : s[j] = NegInf \/ (x # NegInf /\ s[j] <= x)
<1>1. \A j \in S : s[j] \in Int \cup {NegInf}
  OBVIOUS
<1>2. ASSUME Top(x, S)
      PROVE  /\ x \in Int \cup {NegInf}
             /\ x = NegInf \/ \E j \in S : s[j] = x
  BY <1>1, <1>2 DEF Top, IsMax
<1>3. ASSUME NEW j \in S, x \in Int \cup {NegInf}
      PROVE  Max2(x, s[j]) = x <=>
               s[j] = NegInf \/ (x # NegInf /\ s[j] <= x)
  BY <1>1, <1>3 DEF Max2
<1>4. x \in Int \cup {NegInf} => Max2(x, NegInf) = x
  BY DEF Max2
<1>. QED
  BY <1>2, <1>3, <1>4 DEF Top, IsMax

\* There is but one.
LEMMA TopUnique ==
  ASSUME s \in [Key -> Int \cup {NegInf}], NEW S \in SUBSET Key,
         NEW x, NEW y, Top(x, S), Top(y, S)
  PROVE  x = y
<1>1. /\ x \in Int \cup {NegInf} /\ y \in Int \cup {NegInf}
      /\ x = NegInf \/ \E j \in S : s[j] = x
      /\ y = NegInf \/ \E j \in S : s[j] = y
      /\ \A j \in S : s[j] = NegInf \/ (x # NegInf /\ s[j] <= x)
      /\ \A j \in S : s[j] = NegInf \/ (y # NegInf /\ s[j] <= y)
  BY TopFacts
<1>. QED
  BY <1>1

\* The maximum of the maxima of several sets of keys is that of their union.
LEMMA TopUnion ==
  ASSUME s \in [Key -> Int \cup {NegInf}], NEW I, NEW S, NEW x, NEW y, NEW X, NEW U,
         \A i \in I : S[i] \in SUBSET Key /\ Top(x[i], S[i]),
         X = {x[i] : i \in I}, U = UNION {S[i] : i \in I}, IsMax(y, X)
  PROVE  Top(y, U)
<1>1. U \in SUBSET Key
  OBVIOUS
<1>2. PICK n \in I : y = x[n]
  BY DEF IsMax
<1>3. \A i \in I : /\ x[i] \in Int \cup {NegInf}
                   /\ x[i] = NegInf \/ \E j \in S[i] : s[j] = x[i]
                   /\ \A j \in S[i] : s[j] = NegInf \/ (x[i] # NegInf /\ s[j] <= x[i])
  <2>. TAKE i \in I
  <2>. QED
    BY TopFacts
<1>4. \A i \in I : x[i] = NegInf \/ (y # NegInf /\ x[i] <= y)
  <2>. TAKE i \in I
  <2>1. Max2(y, x[i]) = y
    BY DEF IsMax
  <2>2. x[i] \in Int \cup {NegInf} /\ y \in Int \cup {NegInf}
    BY <1>2, <1>3
  <2>. QED
    BY <2>1, <2>2 DEF Max2
<1>5. y = NegInf \/ \E j \in U : s[j] = y
  BY <1>2, <1>3
<1>6. ASSUME NEW j \in U
      PROVE  s[j] = NegInf \/ (y # NegInf /\ s[j] <= y)
  <2>1. PICK i \in I : j \in S[i]
    OBVIOUS
  <2>2. s[j] \in Int \cup {NegInf}
    BY <1>1
  <2>3. x[i] \in Int \cup {NegInf} /\ y \in Int \cup {NegInf}
    BY <1>2, <1>3
  <2>4. s[j] = NegInf \/ (x[i] # NegInf /\ s[j] <= x[i])
    BY <1>3, <2>1
  <2>5. x[i] = NegInf \/ (y # NegInf /\ x[i] <= y)
    BY <1>4
  <2>. QED
    BY ONLY <2>2, <2>3, <2>4, <2>5, SentinelAssumption
<1>. QED
  BY <1>1, <1>2, <1>3, <1>5, <1>6, TopFacts

\* The row's maximum is what every thread that has one holds.
LEMMA TopRow ==
  ASSUME SoftTyped, NEW x, Top(x, Key)
  PROVE  x = RowMax /\ RowMax \in Int \cup {NegInf} /\ (RowMax = NegInf => Visible = {})
<1>1. Top(RowMax, Key)
  BY DEF RowMax
<1>2. s \in [Key -> Int \cup {NegInf}]
  BY DEF SoftTyped
<1>3. x = RowMax
  BY <1>1, <1>2, TopUnique
<1>4. /\ RowMax \in Int \cup {NegInf}
      /\ \A j \in Key : s[j] = NegInf \/ (RowMax # NegInf /\ s[j] <= RowMax)
  BY <1>1, <1>2, TopFacts
<1>. QED
  BY <1>3, <1>4 DEF Visible

\* Every lane is of one warp, every warp has lanes.
LEMMA Lanes ==
  ASSUME RowBlockAssumption
  PROVE  /\ \A tid \in Thread : WarpOf(tid) \in Warp /\ tid \in LanesOf(WarpOf(tid))
         /\ \A w, tid : tid \in LanesOf(w) => tid \in Thread /\ w = WarpOf(tid)
         /\ \A w \in Warp : LanesOf(w) # {}
<1>1. Warps \in Nat \ {0} /\ WarpSize \in Nat \ {0}
  BY DEF RowBlockAssumption
<1>2. ASSUME NEW tid \in Thread PROVE WarpOf(tid) \in Warp
  <2>1. tid \in Nat /\ tid < Warps * WarpSize /\ Warps * WarpSize \in Nat
    BY <1>1 DEF Thread
  <2>2. PICK q \in Nat : q = tid \div WarpSize
    BY ONLY <1>1, <2>1, Division
  <2>3. tid >= WarpSize * q
    BY ONLY <1>1, <2>1, <2>2, Division
  <2>4. q < Warps
    <3>1. Warps < q => WarpSize * Warps + WarpSize <= WarpSize * q
      BY ONLY <1>1, ProductBelow, q \in Nat
    <3>2. WarpSize * Warps = Warps * WarpSize /\ WarpSize * q \in Nat
      BY <1>1
    <3>3. Warps = q => WarpSize * Warps = WarpSize * q
      OBVIOUS
    <3>. QED
      BY ONLY <1>1, <2>1, <2>3, <3>1, <3>2, <3>3, q \in Nat
  <2>. QED
    BY <1>1, <2>2, <2>4 DEF WarpOf, Warp
<1>3. ASSUME NEW w \in Warp PROVE LanesOf(w) # {}
  <2>1. w \in Nat /\ w < Warps
    BY <1>1 DEF Warp
  <2>2. (WarpSize * w + 0) \div WarpSize = w
    BY ONLY <1>1, <2>1, Unflatten, 0 \in 0 .. WarpSize - 1
  <2>3. WarpSize * w + WarpSize <= WarpSize * Warps
    BY ONLY <1>1, <2>1, ProductBelow
  <2>4. WarpSize * w \in Nat /\ WarpSize * Warps = Warps * WarpSize /\ Warps * WarpSize \in Nat
    BY <1>1, <2>1
  <2>5. WarpSize * w + 0 \in Thread
    BY ONLY <1>1, <2>3, <2>4 DEF Thread
  <2>. QED
    BY <2>2, <2>5 DEF LanesOf
<1>. QED
  BY <1>2, <1>3 DEF LanesOf, WarpOf

\* Every key is one thread's and one warp's.
LEMMA Shares ==
  ASSUME RowBlockAssumption
  PROVE  /\ UNION {WarpKeys(w) : w \in Warp} = Key
         /\ \A tid : Mine(tid) \subseteq Key
         /\ \A w : WarpKeys(w) \subseteq Key
         /\ \A t, u : t # u => Mine(t) \cap Mine(u) = {}
         /\ \A v, w : v # w => WarpKeys(v) \cap WarpKeys(w) = {}
<1>1. Warps \in Nat \ {0} /\ WarpSize \in Nat \ {0}
  BY DEF RowBlockAssumption
<1>2. PICK n \in Nat \ {0} : n = Warps * WarpSize
  BY <1>1
<1>3. /\ \A tid : Mine(tid) \subseteq Key
      /\ \A t, u : t # u => Mine(t) \cap Mine(u) = {}
  BY DEF Mine
<1>4. ASSUME NEW j \in Key PROVE \E tid \in Thread : j \in Mine(tid)
  <2>1. j \in Nat
    BY DEF Key
  <2>2. (j % n) \in 0 .. n - 1
    BY ONLY <2>1, Division, n \in Nat \ {0}
  <2>. QED
    BY <1>2, <2>2 DEF Mine, Thread
<1>5. ASSUME NEW v, NEW w, NEW j \in WarpKeys(v) \cap WarpKeys(w) PROVE v = w
  <2>1. PICK t \in LanesOf(v) : j \in Mine(t)
    BY DEF WarpKeys
  <2>2. PICK u \in LanesOf(w) : j \in Mine(u)
    BY DEF WarpKeys
  <2>3. t = u
    BY <1>3, <2>1, <2>2
  <2>. QED
    BY <2>3, Lanes
<1>6. \A w : WarpKeys(w) \subseteq Key
  BY <1>3 DEF WarpKeys
<1>7. ASSUME NEW j \in Key PROVE \E w \in Warp : j \in WarpKeys(w)
  BY <1>4, Lanes DEF WarpKeys
<1>. QED
  BY <1>3, <1>5, <1>6, <1>7

\* The total of the sums over disjoint sets of keys is that over their union.
LEMMA TotalOfTerms ==
  ASSUME SoftTyped, RowBlockAssumption, NEW I, NEW S, NEW part,
         \A i \in I : S[i] \in SUBSET Key,
         \A i, j \in I : i # j => S[i] \cap S[j] = {},
         part = [i \in I |-> Terms(S[i])]
  PROVE  Total(part) = Terms(UNION {S[i] : i \in I})
<1>1. DOMAIN part = I /\ \A i \in I : part[i] = Terms(S[i])
  OBVIOUS
<1>2. \A i \in I : DOMAIN part[i] = S[i] \cap Visible
  BY <1>1 DEF Terms
<1>3. ~ \E x, y \in I : \/ IsPoisoned(part[x])
                        \/ x # y /\ DOMAIN part[x] \cap DOMAIN part[y] # {}
  <2>1. NaN \notin Key
    BY DEF Key, RowBlockAssumption
  <2>. QED
    BY <1>2, <2>1 DEF IsPoisoned
<1>4. UNION {DOMAIN part[x] : x \in I} = (UNION {S[i] : i \in I}) \cap Visible
  <2>1. {DOMAIN part[x] : x \in I} = {S[x] \cap Visible : x \in I}
    BY ONLY <1>2
  <2>2. UNION {S[x] \cap Visible : x \in I} = (UNION {S[x] : x \in I}) \cap Visible
    BY ONLY TRUE
  <2>. QED
    BY ONLY <2>1, <2>2
<1>5. ASSUME NEW k \in UNION {DOMAIN part[x] : x \in I}
      PROVE  part[CHOOSE x \in I : k \in DOMAIN part[x]][k] = s[k] - RowMax
  <2>1. PICK x : x = CHOOSE y \in I : k \in DOMAIN part[y]
    OBVIOUS
  <2>2. x \in I /\ k \in DOMAIN part[x]
    BY <1>5, <2>1
  <2>3. part[x][k] = s[k] - RowMax
    BY <1>1, <1>2, <2>2 DEF Terms
  <2>. QED
    BY <2>1, <2>3
<1>6. Total(part) = [k \in UNION {DOMAIN part[x] : x \in I} |-> s[k] - RowMax]
  <2>1. DOMAIN part = I
    OBVIOUS
  <2>2. Total(part) = [k \in UNION {DOMAIN part[x] : x \in I} |->
                              part[CHOOSE x \in I : k \in DOMAIN part[x]][k]]
    BY ONLY <1>3, <2>1 DEF Total
  <2>. QED
    BY <1>5, <2>2
<1>. QED
  BY <1>4, <1>6 DEF Terms
\* What a thread adds up, and keeps, are the terms of its keys.
LEMMA ThreadTerms ==
  ASSUME SoftTyped, RowBlockAssumption, NEW tid \in Thread,
         Top(m[tid], Key), stage = 1 \/ RowMax # NegInf
  PROVE  /\ \A j \in Key : Term(tid, j) = TermAt(j)
         /\ AddTerms(EmptySum, [j \in Mine(tid) |-> Term(tid, j)])
              = Terms(Mine(tid))
<1>1. /\ m[tid] = RowMax /\ RowMax \in Int \cup {NegInf}
      /\ RowMax = NegInf => Visible = {}
  BY TopRow
<1>2. RowMax # NaN
  BY <1>1 DEF RowBlockAssumption
<1>3. ASSUME NEW j \in Key PROVE Term(tid, j) = TermAt(j)
  <2>1. RowMax = NegInf => s[j] = NegInf
    BY <1>1 DEF Visible
  <2>. QED
    BY <1>1, <1>2, <2>1 DEF Term, TermAt, p_from_score, exp2_scaled
<1>4. PICK w : w = [j \in Mine(tid) |-> Term(tid, j)]
  OBVIOUS
<1>5. Mine(tid) \subseteq Key
  BY DEF Mine
<1>6. w = [j \in Mine(tid) |-> TermAt(j)]
  BY <1>3, <1>4, <1>5
<1>7. ASSUME NEW j \in Mine(tid)
      PROVE  /\ j \in Visible => w[j] \in Int /\ w[j] = s[j] - RowMax
             /\ j \notin Visible => w[j] = Zero
  <2>1. s[j] \in Int \cup {NegInf}
    BY <1>5 DEF SoftTyped
  <2>2. j \in Visible <=> s[j] # NegInf
    BY <1>5 DEF Visible
  <2>. QED
    BY <1>1, <1>6, <2>1, <2>2 DEF TermAt
<1>8. {k \in DOMAIN w : w[k] # Zero} = Mine(tid) \cap Visible
  <2>1. DOMAIN w = Mine(tid)
    BY <1>6
  <2>. QED
    BY <1>7, <2>1
<1>9. /\ ~ IsPoisoned(EmptySum) /\ DOMAIN EmptySum = {}
      /\ \A k \in Mine(tid) \cap Visible : w[k] # NaN
  BY <1>7 DEF IsPoisoned, EmptySum
<1>10. AddTerms(EmptySum, w) = [k \in Mine(tid) \cap Visible |-> w[k]]
  BY <1>8, <1>9 DEF AddTerms
<1>11. AddTerms(EmptySum, w) = Terms(Mine(tid))
  BY <1>7, <1>10 DEF Terms
<1>. QED
  BY <1>3, <1>4, <1>11

\* Divided by the sum of the row they are the row of P, and what is
\* stored for the row is its log-sum-exp.
LEMMA RowResult ==
  ASSUME SoftTyped, RowBlockAssumption, NEW x, Top(x, Key)
  PROVE  /\ \A j \in Key : [p |-> Normalised(TermAt(j), Terms(Key))] = RowWeight(j)
         /\ finalize_lse(x, Terms(Key)) = RowLse
<1>1. /\ x = RowMax /\ RowMax \in Int \cup {NegInf}
      /\ RowMax = NegInf => Visible = {}
  BY TopRow
<1>2. Terms(Key) = [k \in Visible |-> s[k] - RowMax]
  <2>1. Key \cap Visible = Visible
    BY DEF Visible
  <2>. QED
    BY <2>1 DEF Terms
<1>3. ~ IsPoisoned(Terms(Key))
  <2>1. NaN \notin Visible
    BY DEF Visible, Key, RowBlockAssumption
  <2>. QED
    BY <1>2, <2>1 DEF IsPoisoned
<1>4. \A j \in Visible : s[j] \in Int /\ RowMax \in Int
  BY <1>1 DEF Visible, SoftTyped
<1>5. ASSUME NEW j \in Key
      PROVE  [p |-> Normalised(TermAt(j), Terms(Key))] = RowWeight(j)
  <2>1. CASE j \in Visible
    <3>1. TermAt(j) = s[j] - RowMax /\ TermAt(j) \in Int
      BY <1>4, <2>1 DEF TermAt, Visible
    <3>2. Normalised(TermAt(j), Terms(Key))
            = [k \in Visible |-> Terms(Key)[k] - TermAt(j)]
      BY <1>2, <1>3, <3>1 DEF Normalised
    <3>3. ASSUME NEW k \in Visible
          PROVE  Terms(Key)[k] - TermAt(j) = s[k] - s[j]
      BY <1>2, <1>4, <2>1, <3>1
    <3>4. Normalised(TermAt(j), Terms(Key)) = [k \in Visible |-> s[k] - s[j]]
      BY ONLY <3>2, <3>3
    <3>. QED
      BY <2>1, <3>4 DEF RowWeight
  <2>2. CASE j \notin Visible
    <3>1. TermAt(j) = Zero
      BY <2>2 DEF TermAt, Visible
    <3>. QED
      BY <1>3, <2>2, <3>1 DEF Normalised, RowWeight
  <2>. QED
    BY <2>1, <2>2
<1>6. CASE Visible = {}
  <2>1. Terms(Key) = EmptySum
    <3>1. Terms(Key) = [k \in {} |-> s[k] - RowMax]
      BY <1>2, <1>6
    <3>2. [k \in {} |-> s[k] - RowMax] = [k \in {} |-> 0]
      OBVIOUS
    <3>. QED
      BY <3>1, <3>2 DEF EmptySum
  <2>. QED
    BY <1>3, <1>5, <1>6, <2>1 DEF finalize_lse, RowLse
<1>7. CASE Visible # {}
  <2>1. x # NegInf /\ x = RowMax
    BY <1>1, <1>7
  <2>2. DOMAIN Terms(Key) # {} /\ DOMAIN EmptySum = {}
    BY <1>2, <1>7 DEF EmptySum
  <2>3. finalize_lse(x, Terms(Key)) = [k \in Visible |-> Terms(Key)[k] + x]
    BY <1>2, <1>3, <2>1, <2>2 DEF finalize_lse
  <2>4. ASSUME NEW k \in Visible PROVE Terms(Key)[k] + x = s[k]
    BY <1>2, <1>4, <2>1
  <2>5. finalize_lse(x, Terms(Key)) = [k \in Visible |-> s[k]]
    BY ONLY <2>3, <2>4
  <2>. QED
    BY <1>5, <1>7, <2>5 DEF RowLse
<1>. QED
  BY <1>6, <1>7

\* Of the row nothing ever changes.
LEMMA SameScores ==
  ASSUME UNCHANGED <<stage, s>>
  PROVE  /\ Visible' = Visible
         /\ \A x, S : Top(x, S)' = Top(x, S)
         /\ RowMax' = RowMax
         /\ \A S : Terms(S)' = Terms(S)
         /\ \A j : TermAt(j)' = TermAt(j)
         /\ \A j : RowWeight(j)' = RowWeight(j)
         /\ RowLse' = RowLse
         /\ \A a : ArrayOf(a)' = ArrayOf(a)
<1>1. Visible' = Visible
  BY DEF Visible
<1>2. \A x, S : Top(x, S)' = Top(x, S)
  BY DEF Top
<1>3. RowMax' = RowMax
  BY DEF RowMax, Top
<1>4. \A S : Terms(S)' = Terms(S)
  BY <1>1, <1>3 DEF Terms
<1>5. \A j : TermAt(j)' = TermAt(j)
  BY <1>3 DEF TermAt
<1>6. \A j : RowWeight(j)' = RowWeight(j)
  BY <1>1 DEF RowWeight
<1>7. RowLse' = RowLse
  BY <1>1 DEF RowLse
<1>8. \A a : ArrayOf(a)' = ArrayOf(a)
  BY DEF ArrayOf
<1>. QED
  BY <1>1, <1>2, <1>3, <1>4, <1>5, <1>6, <1>7, <1>8

\* A slot keeps what it holds until it is filled again.
LEMMA SlotKept ==
  ASSUME UNCHANGED <<stage, s>>, NEW w
  PROVE  /\ MaxSlot(w) /\ red'[ArrayOf("max")][w] = red[ArrayOf("max")][w] => MaxSlot(w)'
         /\ SumSlot(w) /\ red'[ArrayOf("sum")][w] = red[ArrayOf("sum")][w] => SumSlot(w)'
<1>1. \A x, S : Top(x, S)' = Top(x, S)
  BY SameScores
<1>2. \A S : Terms(S)' = Terms(S)
  BY SameScores
<1>3. ArrayOf("max")' = ArrayOf("max") /\ ArrayOf("sum")' = ArrayOf("sum")
  BY SameScores
<1>4. WarpKeys(w)' = WarpKeys(w)
  OBVIOUS
<1>. QED
  BY <1>1, <1>2, <1>3, <1>4 DEF MaxSlot, SumSlot

\* A thread that a step does not concern keeps what it has.
LEMMA ThreadKept ==
  ASSUME UNCHANGED <<stage, s>>, NEW tid \in Thread, ThreadHolds(tid),
         pc'[tid] = pc[tid], m'[tid] = m[tid], l'[tid] = l[tid],
         \A j \in Mine(tid) : P'[j] = P[j],
         pc[tid] = "filled_max" => MaxSlot(WarpOf(tid))',
         pc[tid] = "filled_sum" => SumSlot(WarpOf(tid))'
  PROVE  ThreadHolds(tid)'
<1>1. /\ \A x, S : Top(x, S)' = Top(x, S)
      /\ RowMax' = RowMax
      /\ \A S : Terms(S)' = Terms(S)
      /\ \A j : TermAt(j)' = TermAt(j)
      /\ \A j : RowWeight(j)' = RowWeight(j)
  BY SameScores
<1>. QED
  BY <1>1 DEF ThreadHolds

\* At the start all threads compare scores.
LEMMA SoftInit ==
  ASSUME RowBlockAssumption, Init
  PROVE  SoftInv
<1>1. stage \in {1, 2}
  BY DEF Init, RowBlockAssumption
<1>2. s \in [Key -> Int \cup {NegInf}]
  BY DEF Init, RowBlockAssumption
<1>3. SoftTyped
  BY <1>1, <1>2 DEF Init, SoftTyped
<1>4. \A tid \in Thread : pc[tid] = "max"
  BY DEF Init
<1>5. \A tid \in Thread : ThreadHolds(tid)
  BY <1>4 DEF ThreadHolds, Known, Summing
<1>6. Comparing
  BY <1>4 DEF Comparing, Together
<1>. QED
  BY <1>3, <1>5, <1>6 DEF SoftInv, Init

\* What the step of a thread leaves alone: the other threads, the slots and,
\* but for its own keys, the row of P.
LEMMA OthersKept ==
  ASSUME SoftInv, UNCHANGED <<stage, s, red>>, NEW tid \in Thread,
         NEW to, pc' = [pc EXCEPT ![tid] = to],
         \A t \in Thread \ {tid} :
           /\ m'[t] = m[t] /\ l'[t] = l[t]
           /\ \A j \in Mine(t) : P'[j] = P[j]
  PROVE  /\ \A t \in Thread \ {tid} : pc'[t] = pc[t] /\ ThreadHolds(t)'
         /\ pc'[tid] = to
         /\ \A w : (MaxSlot(w) => MaxSlot(w)') /\ (SumSlot(w) => SumSlot(w)')
<1>1. \A w : (MaxSlot(w) => MaxSlot(w)') /\ (SumSlot(w) => SumSlot(w)')
  BY SlotKept
<1>2. pc'[tid] = to /\ \A t \in Thread \ {tid} : pc'[t] = pc[t]
  BY DEF SoftInv, SoftTyped
<1>3. ASSUME NEW t \in Thread \ {tid} PROVE ThreadHolds(t)'
  <2>1. ThreadHolds(t)
    BY DEF SoftInv
  <2>2. /\ pc[t] = "filled_max" => MaxSlot(WarpOf(t))'
        /\ pc[t] = "filled_sum" => SumSlot(WarpOf(t))'
    BY <1>1, <2>1 DEF ThreadHolds
  <2>. QED
    BY <1>2, <2>1, <2>2, ThreadKept
<1>. QED
  BY <1>1, <1>2, <1>3

\* Pass 1.
LEMMA SoftLocalMax ==
  ASSUME RowBlockAssumption, SoftInv, NEW tid \in Thread, LocalMax(tid)
  PROVE  SoftInv'
<1>1. PICK x : /\ Top(x, Mine(tid)) /\ m' = [m EXCEPT ![tid] = x]
               /\ pc[tid] = "max" /\ pc' = [pc EXCEPT ![tid] = "shuffle_max"]
               /\ UNCHANGED <<stage, s, l, red, P, lse>>
  BY DEF LocalMax, Go, inputs, Top
<1>2. SoftTyped'
  BY <1>1 DEF SoftInv, SoftTyped
<1>3. m'[tid] = x /\ \A t \in Thread \ {tid} : m'[t] = m[t]
  BY <1>1 DEF SoftInv, SoftTyped
<1>4. /\ \A t \in Thread \ {tid} : pc'[t] = pc[t] /\ ThreadHolds(t)'
      /\ pc'[tid] = "shuffle_max"
      /\ \A w : (MaxSlot(w) => MaxSlot(w)') /\ (SumSlot(w) => SumSlot(w)')
  BY <1>1, <1>3, OthersKept
<1>5. ThreadHolds(tid)'
  <2>1. Top(x, Mine(tid))'
    BY <1>1, SameScores
  <2>. QED
    BY <1>3, <1>4, <2>1 DEF ThreadHolds, Known, Summing
<1>6. Comparing'
  <2>1. Comparing
    BY <1>1 DEF SoftInv, Comparing, MaxRead, Exponents, SumRead, Finishing, Together, Summing
  <2>. QED
    BY <1>4, <2>1 DEF Comparing, Together
<1>7. lse' \in {Unwritten, RowLse'}
  BY <1>1, SameScores DEF SoftInv
<1>. QED
  BY <1>2, <1>4, <1>5, <1>6, <1>7 DEF SoftInv

\* A warp's slot is filled when all its lanes have their share.
LEMMA SoftWarpMax ==
  ASSUME RowBlockAssumption, SoftInv, NEW w \in Warp, WarpMax(w)
  PROVE  SoftInv'
<1>1. PICK y, slots :
        /\ \A tid \in LanesOf(w) : pc[tid] = "shuffle_max"
        /\ IsMax(y, {m[tid] : tid \in LanesOf(w)})
        /\ red' = [red EXCEPT ![ArrayOf("max")] = slots]
        /\ slots = [red[ArrayOf("max")] EXCEPT ![w] = [max |-> y]]
        /\ pc' = [tid \in Thread |-> IF tid \in LanesOf(w) THEN "filled_max" ELSE pc[tid]]
        /\ UNCHANGED <<stage, s, m, l, P, lse>>
  BY DEF WarpMax, Slot, WarpGoes, inputs
<1>2. PICK lane \in LanesOf(w) : lane \in Thread /\ pc[lane] = "shuffle_max"
  BY <1>1, Lanes
<1>3. Comparing
  BY <1>2 DEF SoftInv, Comparing, MaxRead, Exponents, SumRead, Finishing, Together, Summing
<1>4. PICK a \in {"red", "max", "sum"} : a = ArrayOf("max")
  BY DEF ArrayOf
<1>5. red'[a] = slots /\ DOMAIN slots = Warp /\ slots[w] = [max |-> y]
      /\ \A v \in Warp \ {w} : slots[v] = red[a][v]
  BY <1>1, <1>4 DEF SoftInv, SoftTyped
<1>6. SoftTyped'
  <2>1. /\ DOMAIN red' = {"red", "max", "sum"}
        /\ \A b \in {"red", "max", "sum"} : DOMAIN red'[b] = Warp
    BY <1>1, <1>4, <1>5 DEF SoftInv, SoftTyped
  <2>2. pc' \in [Thread -> Known \cup {"max", "shuffle_max", "filled_max", "fold_max"}]
    BY <1>1 DEF SoftInv, SoftTyped
  <2>. QED
    BY <1>1, <2>1, <2>2 DEF SoftInv, SoftTyped
<1>7. Top(y, WarpKeys(w))
  <2>1. PICK S : S = [tid \in LanesOf(w) |-> Mine(tid)]
    OBVIOUS
  <2>2. \A tid \in LanesOf(w) : S[tid] \in SUBSET Key /\ Top(m[tid], S[tid])
    <3>. TAKE tid \in LanesOf(w)
    <3>1. tid \in Thread /\ pc[tid] = "shuffle_max"
      BY <1>1, Lanes
    <3>2. ThreadHolds(tid)
      BY <3>1 DEF SoftInv
    <3>. QED
      BY <2>1, <3>1, <3>2, Shares DEF ThreadHolds
  <2>3. WarpKeys(w) = UNION {S[tid] : tid \in LanesOf(w)}
    BY <2>1 DEF WarpKeys
  <2>4. PICK I, U, X, x : /\ I = LanesOf(w) /\ U = WarpKeys(w)
                          /\ X = {x[tid] : tid \in I} /\ IsMax(y, X)
                          /\ x = m
    BY <1>1
  <2>5. s \in [Key -> Int \cup {NegInf}]
    BY DEF SoftInv, SoftTyped
  <2>6. /\ \A tid \in I : S[tid] \in SUBSET Key /\ Top(x[tid], S[tid])
        /\ U = UNION {S[tid] : tid \in I}
    BY <2>2, <2>3, <2>4
  <2>7. X = {x[tid] : tid \in I} /\ IsMax(y, X)
    BY ONLY <2>4
  <2>8. Top(y, U)
    BY ONLY <2>5, <2>6, <2>7, TopUnion
  <2>. QED
    BY <2>4, <2>8
<1>8. MaxSlot(w)'
  <2>1. a = ArrayOf("max")' /\ Top(y, WarpKeys(w))' /\ red'[a][w] = [max |-> y]
    BY <1>1, <1>4, <1>5, <1>7, SameScores
  <2>. QED
    BY <2>1 DEF MaxSlot
<1>9. \A v \in Warp \ {w} : MaxSlot(v) => MaxSlot(v)'
  BY <1>1, <1>4, <1>5, SlotKept
<1>10. ASSUME NEW tid \in Thread PROVE ThreadHolds(tid)'
  <2>1. ThreadHolds(tid) /\ pc[tid] \in {"max", "shuffle_max", "filled_max"}
    BY <1>3 DEF SoftInv, Comparing, Together
  <2>2. CASE tid \in LanesOf(w)
    <3>1. pc'[tid] = "filled_max" /\ WarpOf(tid) = w
      BY <1>1, <2>2, Lanes
    <3>2. Top(m[tid], Mine(tid))'
      BY <1>1, <2>1, <2>2, SameScores DEF ThreadHolds
    <3>. QED
      BY <1>8, <3>1, <3>2 DEF ThreadHolds, Known, Summing
  <2>3. CASE tid \notin LanesOf(w)
    <3>1. pc'[tid] = pc[tid] /\ WarpOf(tid) \in Warp \ {w}
      BY <1>1, <2>3, Lanes
    <3>2. pc[tid] = "filled_max" => MaxSlot(WarpOf(tid))'
      BY <1>9, <2>1, <3>1 DEF ThreadHolds
    <3>. QED
      BY <1>1, <2>1, <3>1, <3>2, ThreadKept
  <2>. QED
    BY <2>2, <2>3
<1>11. Comparing'
  BY <1>1, <1>3 DEF Comparing, Together
<1>12. lse' \in {Unwritten, RowLse'}
  BY <1>1, SameScores DEF SoftInv
<1>. QED
  BY <1>6, <1>10, <1>11, <1>12 DEF SoftInv

\* A thread that folds the slots of all warps has the maximum of the row.
LEMMA FoldedMax ==
  ASSUME RowBlockAssumption, SoftInv, NEW tid \in Thread, FoldMax(tid)
  PROVE  /\ MaxRead
         /\ \E x : /\ Top(x, Key) /\ m' = [m EXCEPT ![tid] = x]
                   /\ pc' = [pc EXCEPT ![tid] = AfterMax(tid, x)]
<1>1. pc[tid] = "fold_max"
  BY DEF FoldMax
<1>2. MaxRead
  BY <1>1 DEF SoftInv, Comparing, MaxRead, Exponents, SumRead, Finishing, Together, Summing
<1>3. PICK slot : slot = red[ArrayOf("max")]
  OBVIOUS
<1>4. \A w \in Warp : \E x : slot[w] = [max |-> x] /\ Top(x, WarpKeys(w))
  BY <1>2, <1>3 DEF MaxRead, MaxSlot
<1>5. ASSUME NEW w \in Warp
      PROVE  slot[w] = [max |-> slot[w].max] /\ Top(slot[w].max, WarpKeys(w))
  <2>1. PICK x : slot[w] = [max |-> x] /\ Top(x, WarpKeys(w))
    BY <1>4
  <2>2. slot[w].max = x
    BY ONLY <2>1
  <2>. QED
    BY ONLY <2>1, <2>2
<1>6. PICK got : got = {red[ArrayOf("max")][w] : w \in Warp} /\ got = {slot[w] : w \in Warp}
  BY <1>3
<1>7. ~ \E c \in got : "max" \notin DOMAIN c
  <2>. SUFFICES ASSUME NEW c \in got PROVE "max" \in DOMAIN c
    OBVIOUS
  <2>1. PICK v : c = [max |-> v]
    BY <1>5, <1>6
  <2>. QED
    BY ONLY <2>1
<1>8. PICK x : /\ IsMax(x, {c.max : c \in got})
               /\ m' = [m EXCEPT ![tid] = x]
               /\ pc' = [pc EXCEPT ![tid] = AfterMax(tid, x)]
  <2>1. PICK x \in Folded(got) : /\ m' = [m EXCEPT ![tid] = x]
                                 /\ pc' = [pc EXCEPT ![tid] = AfterMax(tid, x)]
    BY ONLY <1>6, FoldMax(tid) DEF FoldMax, Go
  <2>2. Folded(got) = {y \in {c.max : c \in got} : IsMax(y, {c.max : c \in got})}
    BY ONLY <1>7 DEF Folded
  <2>3. IsMax(x, {c.max : c \in got})
    BY ONLY <2>1, <2>2
  <2>. QED
    BY <2>1, <2>3
<1>9. PICK y, S : y = [w \in Warp |-> slot[w].max] /\ S = [w \in Warp |-> WarpKeys(w)]
  OBVIOUS
<1>10. {c.max : c \in got} = {y[w] : w \in Warp}
  <2>1. got = {slot[w] : w \in Warp}
    BY <1>6
  <2>2. {c.max : c \in got} = {slot[w].max : w \in Warp}
    BY ONLY <2>1
  <2>. QED
    BY ONLY <1>9, <2>2
<1>11. \A w \in Warp : S[w] \in SUBSET Key /\ Top(y[w], S[w])
  BY <1>5, <1>9, Shares
<1>12. Key = UNION {S[w] : w \in Warp}
  BY <1>9, Shares
<1>13. s \in [Key -> Int \cup {NegInf}]
  BY DEF SoftInv, SoftTyped
<1>14. Top(x, Key)
  BY ONLY <1>8, <1>10, <1>11, <1>12, <1>13, TopUnion
<1>. QED
  BY <1>2, <1>8, <1>14

\* So it may go on, or leave, with it.
LEMMA SoftFoldMax ==
  ASSUME RowBlockAssumption, SoftInv, NEW tid \in Thread, FoldMax(tid)
  PROVE  SoftInv'
<1>1. PICK x : /\ Top(x, Key) /\ m' = [m EXCEPT ![tid] = x]
               /\ pc' = [pc EXCEPT ![tid] = AfterMax(tid, x)]
  BY FoldedMax
<1>2. MaxRead /\ UNCHANGED <<stage, s, l, red, P, lse>>
  BY FoldedMax DEF FoldMax, inputs
<1>3. PICK to : to = AfterMax(tid, x)
  OBVIOUS
<1>4. /\ to \in {"folded_max", "empty", "exp"}
      /\ stage = 1 => to = "folded_max"
      /\ stage # 1 => to \in {"empty", "exp"} /\ (to = "empty" <=> x = NegInf)
  BY <1>3 DEF AfterMax
<1>5. SoftTyped'
  <2>1. pc' \in [Thread -> Known \cup {"max", "shuffle_max", "filled_max", "fold_max"}]
    BY <1>1, <1>3, <1>4 DEF SoftInv, SoftTyped, Known, Summing
  <2>. QED
    BY <1>1, <1>2, <2>1 DEF SoftInv, SoftTyped
<1>6. m'[tid] = x /\ \A t \in Thread \ {tid} : m'[t] = m[t]
  BY <1>1 DEF SoftInv, SoftTyped
<1>7. /\ \A t \in Thread \ {tid} : pc'[t] = pc[t] /\ ThreadHolds(t)'
      /\ pc'[tid] = to
      /\ \A w : (MaxSlot(w) => MaxSlot(w)') /\ (SumSlot(w) => SumSlot(w)')
  BY <1>1, <1>2, <1>3, <1>6, OthersKept
<1>8. ThreadHolds(tid)'
  <2>1. Top(x, Key)' /\ RowMax' = x /\ stage' = stage
    BY <1>1, <1>2, SameScores, TopRow DEF SoftInv
  <2>. QED
    BY <1>4, <1>6, <1>7, <2>1 DEF ThreadHolds, Known, Summing
<1>9. MaxRead'
  BY <1>2, <1>4, <1>7 DEF MaxRead, Together, Summing
<1>10. lse' \in {Unwritten, RowLse'}
  BY <1>2, SameScores DEF SoftInv
<1>. QED
  BY <1>5, <1>7, <1>8, <1>9, <1>10 DEF SoftInv

\* Pass 2.
LEMMA SoftExp ==
  ASSUME RowBlockAssumption, SoftInv, NEW tid \in Thread, Exp(tid)
  PROVE  SoftInv'
<1>1. PICK x : /\ x = AddTerms(EmptySum, [j \in Mine(tid) |-> Term(tid, j)])
               /\ l' = [l EXCEPT ![tid] = x]
               /\ pc[tid] = "exp" /\ pc' = [pc EXCEPT ![tid] = "shuffle_sum"]
               /\ UNCHANGED <<stage, s, m, red, lse>>
               /\ P' = [j \in Key |-> IF stage = 1 /\ j \in Mine(tid)
                                                 THEN [term |-> Term(tid, j)] ELSE P[j]]
  BY DEF Exp, Go, inputs
<1>2. SoftTyped'
  BY <1>1 DEF SoftInv, SoftTyped, Known, Summing
<1>3. /\ l'[tid] = x
      /\ \A t \in Thread \ {tid} : l'[t] = l[t]
  BY <1>1 DEF SoftInv, SoftTyped
<1>4. \A t \in Thread \ {tid} : \A j \in Mine(t) : P'[j] = P[j]
  <2>. TAKE t \in Thread \ {tid}
  <2>. TAKE j \in Mine(t)
  <2>1. j \in Key /\ j \notin Mine(tid)
    BY Shares
  <2>. QED
    BY <1>1, <2>1
<1>5. /\ \A t \in Thread \ {tid} : pc'[t] = pc[t] /\ ThreadHolds(t)'
      /\ pc'[tid] = "shuffle_sum"
      /\ \A w : (MaxSlot(w) => MaxSlot(w)') /\ (SumSlot(w) => SumSlot(w)')
  BY <1>1, <1>3, <1>4, OthersKept
<1>6. Top(m[tid], Key) /\ (stage = 1 \/ RowMax # NegInf)
  BY <1>1 DEF SoftInv, ThreadHolds, Known, Summing
<1>7. ThreadHolds(tid)'
  <2>1. /\ \A j \in Key : Term(tid, j) = TermAt(j)
        /\ x = Terms(Mine(tid))
    BY <1>1, <1>6, ThreadTerms DEF SoftInv
  <2>2. stage = 1 => \A j \in Mine(tid) : P'[j] = [term |-> TermAt(j)]
    BY <1>1, <2>1, Shares
  <2>3. Top(m[tid], Key)'
    <3>1. PICK y : y = m[tid] /\ y = m'[tid]
      BY <1>1
    <3>2. Top(y, Key)'
      BY <1>1, <1>6, <3>1, SameScores
    <3>. QED
      BY <3>1, <3>2
  <2>4. /\ \A S : Terms(S)' = Terms(S)
        /\ \A j : TermAt(j)' = TermAt(j)
        /\ RowMax' = RowMax /\ stage' = stage
    BY <1>1, SameScores
  <2>. QED
    BY <1>3, <1>5, <1>6, <2>1, <2>2, <2>3, <2>4 DEF ThreadHolds, Known, Summing
<1>8. (MaxRead \/ Exponents)'
  <2>1. MaxRead \/ Exponents
    BY <1>1 DEF SoftInv, Comparing, MaxRead, Exponents, SumRead, Finishing, Together, Summing
  <2>. QED
    BY <1>1, <1>5, <2>1 DEF MaxRead, Exponents, Together, Summing
<1>9. lse' \in {Unwritten, RowLse'}
  BY <1>1, SameScores DEF SoftInv
<1>. QED
  BY <1>2, <1>5, <1>7, <1>8, <1>9 DEF SoftInv

\* The sum of a warp goes to its slot: in S1 to that of its maximum, which
\* every thread has read by then.
LEMMA SoftWarpSum ==
  ASSUME RowBlockAssumption, SoftInv, NEW w \in Warp, WarpSum(w)
  PROVE  SoftInv'
<1>1. PICK y, slots :
        /\ \A tid \in LanesOf(w) : pc[tid] = "shuffle_sum"
        /\ y = Total([tid \in LanesOf(w) |-> l[tid]])
        /\ red' = [red EXCEPT ![ArrayOf("sum")] = slots]
        /\ slots = [red[ArrayOf("sum")] EXCEPT ![w] = [sum |-> y]]
        /\ pc' = [tid \in Thread |-> IF tid \in LanesOf(w) THEN "filled_sum" ELSE pc[tid]]
        /\ UNCHANGED <<stage, s, m, l, P, lse>>
  BY DEF WarpSum, Slot, WarpGoes, inputs
<1>2. PICK lane \in LanesOf(w) : lane \in Thread /\ pc[lane] = "shuffle_sum"
  BY <1>1, Lanes
<1>3. MaxRead \/ Exponents
  BY <1>2 DEF SoftInv, Comparing, MaxRead, Exponents, SumRead, Finishing, Together, Summing
<1>4. PICK a \in {"red", "max", "sum"} : a = ArrayOf("sum") /\ (stage # 1 => a = "sum")
  BY DEF ArrayOf
<1>5. red'[a] = slots /\ DOMAIN slots = Warp /\ slots[w] = [sum |-> y]
      /\ (\A v \in Warp \ {w} : slots[v] = red[a][v])
      /\ \A b \in {"red", "max", "sum"} \ {a} : red'[b] = red[b]
  BY <1>1, <1>4 DEF SoftInv, SoftTyped
<1>6. SoftTyped'
  <2>1. /\ DOMAIN red' = {"red", "max", "sum"}
        /\ \A b \in {"red", "max", "sum"} : DOMAIN red'[b] = Warp
    BY <1>1, <1>4, <1>5 DEF SoftInv, SoftTyped
  <2>2. pc' \in [Thread -> Known \cup {"max", "shuffle_max", "filled_max", "fold_max"}]
    BY <1>1 DEF SoftInv, SoftTyped, Known, Summing
  <2>. QED
    BY <1>1, <2>1, <2>2 DEF SoftInv, SoftTyped
<1>7. y = Terms(WarpKeys(w))
  <2>1. PICK I : I = LanesOf(w)
    OBVIOUS
  <2>2. PICK S : S = [tid \in I |-> Mine(tid)]
    OBVIOUS
  <2>3. PICK part : part = [tid \in I |-> l[tid]]
    OBVIOUS
  <2>4. ASSUME NEW tid \in I PROVE l[tid] = Terms(S[tid])
    <3>1. tid \in Thread /\ pc[tid] = "shuffle_sum"
      BY <1>1, <2>1, <2>4, Lanes
    <3>2. ThreadHolds(tid)
      BY <3>1 DEF SoftInv
    <3>. QED
      BY <2>2, <2>4, <3>1, <3>2 DEF ThreadHolds
  <2>5. part = [tid \in I |-> Terms(S[tid])]
    BY <2>3, <2>4
  <2>6. /\ \A t \in I : S[t] \in SUBSET Key
        /\ \A t, u \in I : t # u => S[t] \cap S[u] = {}
    BY <2>2, Shares
  <2>7. Total(part) = Terms(UNION {S[tid] : tid \in I})
    BY ONLY <2>5, <2>6, TotalOfTerms, SoftInv, RowBlockAssumption DEF SoftInv
  <2>8. WarpKeys(w) = UNION {S[tid] : tid \in I}
    BY <2>1, <2>2 DEF WarpKeys
  <2>. QED
    BY <1>1, <2>1, <2>3, <2>7, <2>8
<1>8. SumSlot(w)'
  <2>1. a = ArrayOf("sum")' /\ Terms(WarpKeys(w))' = Terms(WarpKeys(w)) /\ red'[a][w] = [sum |-> y]
    BY <1>1, <1>4, <1>5, SameScores
  <2>. QED
    BY <1>7, <2>1 DEF SumSlot
<1>9. \A v \in Warp \ {w} : SumSlot(v) => SumSlot(v)'
  <2>. TAKE v \in Warp \ {w}
  <2>1. red'[ArrayOf("sum")][v] = red[ArrayOf("sum")][v]
    BY <1>4, <1>5
  <2>. QED
    BY <1>1, <2>1, SlotKept
<1>10. ASSUME NEW tid \in Thread PROVE ThreadHolds(tid)'
  <2>1. ThreadHolds(tid) /\ pc[tid] \in Known \cup {"fold_max"}
    BY <1>3 DEF SoftInv, MaxRead, Exponents, Together, Known, Summing
  <2>2. CASE tid \in LanesOf(w)
    <3>1. pc[tid] = "shuffle_sum" /\ pc'[tid] = "filled_sum" /\ WarpOf(tid) = w
      BY <1>1, <2>2, Lanes
    <3>2. PICK x : x = m[tid] /\ x = m'[tid]
      BY <1>1
    <3>3. Top(x, Key)'
      BY <1>1, <2>1, <3>1, <3>2, SameScores DEF ThreadHolds, Known, Summing
    <3>4. /\ \A S : Terms(S)' = Terms(S)
          /\ \A j : TermAt(j)' = TermAt(j)
          /\ RowMax' = RowMax
      BY <1>1, SameScores
    <3>. QED
      BY <1>1, <1>8, <2>1, <3>1, <3>2, <3>3, <3>4 DEF ThreadHolds, Known, Summing
  <2>3. CASE tid \notin LanesOf(w)
    <3>1. pc'[tid] = pc[tid] /\ WarpOf(tid) \in Warp \ {w}
      BY <1>1, <2>3, Lanes
    <3>2. pc[tid] = "filled_sum" => SumSlot(WarpOf(tid))'
      BY <1>9, <2>1, <3>1 DEF ThreadHolds
    <3>3. pc[tid] # "filled_max"
      BY <2>1 DEF Known, Summing
    <3>. QED
      BY <1>1, <2>1, <3>1, <3>2, <3>3, ThreadKept
  <2>. QED
    BY <2>2, <2>3
<1>11. (MaxRead \/ Exponents)'
  <2>1. CASE stage = 1
    BY <1>1, <1>2, <1>3, <2>1 DEF MaxRead, Exponents, Together, Summing
  <2>2. CASE stage # 1
    <3>1. ArrayOf("max") = "max"
      BY <2>2 DEF ArrayOf
    <3>2. \A v : MaxSlot(v) => MaxSlot(v)'
      BY <1>1, <1>4, <1>5, <2>2, <3>1, SlotKept
    <3>3. MaxRead
      BY <1>3, <2>2 DEF Exponents
    <3>. QED
      BY <1>1, <2>2, <3>2, <3>3 DEF MaxRead, Together, Summing
  <2>. QED
    BY <2>1, <2>2
<1>12. lse' \in {Unwritten, RowLse'}
  BY <1>1, SameScores DEF SoftInv
<1>. QED
  BY <1>6, <1>10, <1>11, <1>12 DEF SoftInv

\* The sum of the row.
LEMMA SoftFoldSum ==
  ASSUME RowBlockAssumption, SoftInv, NEW tid \in Thread, FoldSum(tid)
  PROVE  SoftInv'
<1>1. pc[tid] = "fold_sum"
  BY DEF FoldSum
<1>2. SumRead
  BY <1>1 DEF SoftInv, Comparing, MaxRead, Exponents, SumRead, Finishing, Together, Summing
<1>3. PICK slot : slot = red[ArrayOf("sum")]
  OBVIOUS
<1>4. \A w \in Warp : slot[w] = [sum |-> Terms(WarpKeys(w))]
  BY <1>2, <1>3 DEF SumRead, SumSlot
<1>5. PICK to : /\ to = IF stage = 1 THEN "folded_sum" ELSE "normalise"
                /\ pc' = [pc EXCEPT ![tid] = to]
                /\ UNCHANGED <<stage, s, m, red, P, lse>>
  BY DEF FoldSum, Go, inputs
<1>6. l' = [l EXCEPT ![tid] = Terms(Key)]
  <2>1. ~ \E w \in Warp : "sum" \notin DOMAIN slot[w]
    <3>. SUFFICES ASSUME NEW w \in Warp PROVE "sum" \in DOMAIN slot[w]
      OBVIOUS
    <3>1. PICK v : slot[w] = [sum |-> v]
      BY <1>4
    <3>. QED
      BY ONLY <3>1
  <2>2. PICK part : part = [w \in Warp |-> slot[w].sum]
    OBVIOUS
  <2>3. l' = [l EXCEPT ![tid] = Total(part)]
    BY <1>3, <2>1, <2>2 DEF FoldSum
  <2>4. PICK S : S = [w \in Warp |-> WarpKeys(w)]
    OBVIOUS
  <2>5. ASSUME NEW w \in Warp PROVE slot[w].sum = Terms(S[w])
    <3>1. PICK v : v = Terms(WarpKeys(w)) /\ slot[w] = [sum |-> v]
      BY <1>4
    <3>2. slot[w].sum = v
      BY ONLY <3>1
    <3>. QED
      BY <2>4, <3>1, <3>2
  <2>6. part = [w \in Warp |-> Terms(S[w])]
    BY <2>2, <2>5
  <2>7. /\ \A w \in Warp : S[w] \in SUBSET Key
        /\ \A v, w \in Warp : v # w => S[v] \cap S[w] = {}
    BY <2>4, Shares
  <2>8. PICK I : I = Warp
    OBVIOUS
  <2>9. Total(part) = Terms(UNION {S[w] : w \in I})
    BY ONLY <2>6, <2>7, <2>8, TotalOfTerms, SoftInv, RowBlockAssumption DEF SoftInv
  <2>10. Key = UNION {S[w] : w \in I}
    BY <2>4, <2>8, Shares
  <2>. QED
    BY <2>3, <2>9, <2>10
<1>7. SoftTyped'
  BY <1>5, <1>6 DEF SoftInv, SoftTyped, Known, Summing
<1>8. /\ l'[tid] = Terms(Key)
      /\ \A t \in Thread \ {tid} : l'[t] = l[t]
  BY <1>6 DEF SoftInv, SoftTyped
<1>9. /\ \A t \in Thread \ {tid} : pc'[t] = pc[t] /\ ThreadHolds(t)'
      /\ pc'[tid] = to
      /\ \A w : (MaxSlot(w) => MaxSlot(w)') /\ (SumSlot(w) => SumSlot(w)')
  BY <1>5, <1>8, OthersKept
<1>10. ThreadHolds(tid)'
  <2>1. ThreadHolds(tid)
    BY DEF SoftInv
  <2>2. PICK y : y = m[tid] /\ y = m'[tid]
    BY <1>5
  <2>3. Top(y, Key)'
    BY <1>1, <1>5, <2>1, <2>2, SameScores DEF ThreadHolds, Known, Summing
  <2>4. /\ \A S : Terms(S)' = Terms(S)
        /\ \A j : TermAt(j)' = TermAt(j)
        /\ RowMax' = RowMax /\ stage' = stage
    BY <1>5, SameScores
  <2>. QED
    BY <1>1, <1>5, <1>8, <1>9, <2>1, <2>2, <2>3, <2>4 DEF ThreadHolds, Known, Summing
<1>11. SumRead'
  BY <1>2, <1>5, <1>9 DEF SumRead, Together
<1>12. lse' \in {Unwritten, RowLse'}
  BY <1>5, SameScores DEF SoftInv
<1>. QED
  BY <1>7, <1>9, <1>10, <1>11, <1>12 DEF SoftInv

\* Pass 3, and S2's early return.
LEMMA SoftNormalise ==
  ASSUME RowBlockAssumption, SoftInv, NEW tid \in Thread,
         Normalise(tid) \/ Empty(tid)
  PROVE  SoftInv'
<1>1. /\ pc[tid] \in {"normalise", "empty"} /\ pc' = [pc EXCEPT ![tid] = "done"]
      /\ UNCHANGED <<stage, s, m, l, red>>
  BY DEF Normalise, Empty, Go, inputs
<1>2. PICK x : x = m[tid] /\ Top(x, Key)
  BY <1>1 DEF SoftInv, ThreadHolds, Known, Summing
<1>3. /\ x = RowMax /\ (RowMax = NegInf => Visible = {})
      /\ \A j \in Key : [p |-> Normalised(TermAt(j), Terms(Key))] = RowWeight(j)
      /\ finalize_lse(x, Terms(Key)) = RowLse
  BY <1>2, TopRow, RowResult DEF SoftInv
<1>4. /\ \A j \in Key \ Mine(tid) : P'[j] = P[j]
      /\ \A j \in Mine(tid) : P'[j] = RowWeight(j)
      /\ lse' \in {lse, RowLse}
  <2>1. CASE Normalise(tid)
    <3>1. pc[tid] = "normalise"
      BY <2>1 DEF Normalise
    <3>2. /\ l[tid] = Terms(Key) /\ (stage = 1 \/ RowMax # NegInf)
          /\ stage = 1 => \A j \in Mine(tid) : P[j] = [term |-> TermAt(j)]
      BY <3>1 DEF SoftInv, ThreadHolds, Summing
    <3>3. \A j \in Key : Term(tid, j) = TermAt(j)
      BY <1>2, <3>2, ThreadTerms DEF SoftInv
    <3>4. lse' = IF tid = 0 THEN finalize_lse(m[tid], l[tid]) ELSE lse
      BY <2>1 DEF Normalise
    <3>5. \A j \in Key \ Mine(tid) : P'[j] = P[j]
      BY <2>1 DEF Normalise
    <3>6. ASSUME NEW j \in Mine(tid) PROVE P'[j] = RowWeight(j)
      <4>1. j \in Key
        BY Shares
      <4>2. PICK w : /\ w = IF stage = 1 THEN P[j].term ELSE Term(tid, j)
                     /\ P'[j] = [p |-> Normalised(w, l[tid])]
        BY <2>1, <4>1 DEF Normalise
      <4>3. PICK v : v = TermAt(j)
        OBVIOUS
      <4>4. P[j] = [term |-> v] => P[j].term = v
        OBVIOUS
      <4>5. w = v
        BY <3>2, <3>3, <4>1, <4>2, <4>3, <4>4
      <4>. QED
        BY <1>3, <3>2, <4>1, <4>2, <4>3, <4>5
    <3>. QED
      BY <1>2, <1>3, <3>2, <3>4, <3>5, <3>6
  <2>2. CASE Empty(tid)
    <3>1. pc[tid] = "empty"
      BY <2>2 DEF Empty
    <3>2. Visible = {}
      BY <1>3, <3>1 DEF SoftInv, ThreadHolds
    <3>3. \A j \in Key : RowWeight(j) = [p |-> Zero]
      BY <3>2 DEF RowWeight
    <3>4. RowLse = PosInf
      BY <3>2 DEF RowLse
    <3>5. /\ P' = [j \in Key |-> IF j \in Mine(tid) THEN [p |-> Zero] ELSE P[j]]
          /\ lse' = IF tid = 0 THEN PosInf ELSE lse
      BY <2>2 DEF Empty
    <3>6. Mine(tid) \subseteq Key
      BY Shares
    <3>. QED
      BY ONLY <3>3, <3>4, <3>5, <3>6
  <2>. QED
    BY <2>1, <2>2
<1>5. SoftTyped'
  BY <1>1 DEF SoftInv, SoftTyped, Known, Summing
<1>6. \A t \in Thread \ {tid} : \A j \in Mine(t) : P'[j] = P[j]
  <2>. TAKE t \in Thread \ {tid}
  <2>. TAKE j \in Mine(t)
  <2>1. j \in Key \ Mine(tid)
    BY Shares
  <2>. QED
    BY <1>4, <2>1
<1>7. /\ \A t \in Thread \ {tid} : pc'[t] = pc[t] /\ ThreadHolds(t)'
      /\ pc'[tid] = "done"
      /\ \A w : (MaxSlot(w) => MaxSlot(w)') /\ (SumSlot(w) => SumSlot(w)')
  BY <1>1, <1>6, OthersKept
<1>8. ThreadHolds(tid)'
  <2>1. Top(x, Key)' /\ x = m'[tid]
    BY <1>1, <1>2, SameScores
  <2>2. \A j \in Mine(tid) : P'[j] = RowWeight(j)'
    BY <1>1, <1>4, SameScores
  <2>. QED
    BY <1>7, <2>1, <2>2 DEF ThreadHolds, Known, Summing
<1>9. (MaxRead \/ SumRead \/ Finishing)'
  <2>1. MaxRead \/ SumRead \/ Finishing
    BY <1>1 DEF SoftInv, Comparing, MaxRead, Exponents, SumRead, Finishing, Together, Summing
  <2>2. CASE MaxRead
    <3>1. stage # 1
      BY <1>1, <2>2 DEF MaxRead, Together
    <3>. QED
      BY <1>1, <1>7, <2>2, <3>1 DEF MaxRead, Together
  <2>3. CASE SumRead
    <3>1. stage # 1
      BY <1>1, <2>3 DEF SumRead, Together
    <3>. QED
      BY <1>1, <1>7, <2>3, <3>1 DEF SumRead, Together
  <2>4. CASE Finishing
    BY <1>1, <1>7, <2>4 DEF Finishing, Together
  <2>. QED
    BY <2>1, <2>2, <2>3, <2>4
<1>10. lse' \in {Unwritten, RowLse'}
  BY <1>1, <1>4, SameScores DEF SoftInv
<1>. QED
  BY <1>5, <1>7, <1>8, <1>9, <1>10 DEF SoftInv

\* The block barriers: what each thread has done for its warp, all have done.
LEMMA SoftBarrier ==
  ASSUME RowBlockAssumption, SoftInv, Syncthreads
  PROVE  SoftInv'
<1>1. /\ UNCHANGED <<stage, s, m, l, red, P, lse>>
      /\ \A tid \in Thread : pc[tid] \in {"filled_max", "folded_max", "filled_sum", "folded_sum"}
      /\ pc' = [tid \in Thread |-> AfterBarrier[pc[tid]]]
  BY DEF Syncthreads, AfterBarrier, inputs
<1>2. /\ AfterBarrier["filled_max"] = "fold_max" /\ AfterBarrier["folded_max"] = "exp"
      /\ AfterBarrier["filled_sum"] = "fold_sum" /\ AfterBarrier["folded_sum"] = "normalise"
  BY DEF AfterBarrier
<1>3. \A w : (MaxSlot(w) => MaxSlot(w)') /\ (SumSlot(w) => SumSlot(w)')
  BY <1>1, SlotKept
<1>4. /\ \A x, S : Top(x, S)' = Top(x, S)
      /\ \A S : Terms(S)' = Terms(S)
      /\ \A j : TermAt(j)' = TermAt(j)
      /\ RowMax' = RowMax /\ RowLse' = RowLse
  BY <1>1, SameScores
<1>5. SoftTyped'
  BY <1>1, <1>2 DEF SoftInv, SoftTyped, Known, Summing
<1>6. ASSUME NEW tid \in Thread PROVE ThreadHolds(tid)'
  <2>1. ThreadHolds(tid)
    BY DEF SoftInv
  <2>2. /\ pc[tid] = "filled_max" => pc'[tid] = "fold_max"
        /\ pc[tid] = "folded_max" => pc'[tid] = "exp"
        /\ pc[tid] = "filled_sum" => pc'[tid] = "fold_sum"
        /\ pc[tid] = "folded_sum" => pc'[tid] = "normalise"
    BY <1>1, <1>2
  <2>3. pc[tid] = "folded_max" => stage = 1
    BY DEF SoftInv, Comparing, MaxRead, Exponents, SumRead, Finishing, Together, Summing
  <2>4. PICK x, y : x = m[tid] /\ x = m'[tid] /\ y = l[tid] /\ y = l'[tid]
    BY <1>1
  <2>5. pc[tid] \in Known => Top(x, Key)'
    BY <1>4, <2>1, <2>4 DEF ThreadHolds
  <2>6. CASE pc[tid] = "filled_max"
    BY <2>2, <2>6 DEF ThreadHolds, Known, Summing
  <2>7. CASE pc[tid] = "folded_max"
    BY <1>1, <2>2, <2>3, <2>4, <2>5, <2>7 DEF ThreadHolds, Known, Summing
  <2>8. CASE pc[tid] = "filled_sum"
    BY <1>1, <1>4, <2>1, <2>2, <2>4, <2>5, <2>8 DEF ThreadHolds, Known, Summing
  <2>9. CASE pc[tid] = "folded_sum"
    BY <1>1, <1>4, <2>1, <2>2, <2>4, <2>5, <2>9 DEF ThreadHolds, Known, Summing
  <2>. QED
    BY <1>1, <2>6, <2>7, <2>8, <2>9
<1>7. (MaxRead \/ Exponents \/ SumRead \/ Finishing)'
  <2>1. CASE Comparing
    <3>1. \A tid \in Thread : pc[tid] = "filled_max" /\ pc'[tid] = "fold_max"
      BY <1>1, <1>2, <2>1 DEF Comparing, Together
    <3>2. \A w \in Warp : MaxSlot(w)'
      <4>. TAKE w \in Warp
      <4>1. PICK tid \in Thread : WarpOf(tid) = w
        BY Lanes
      <4>. QED
        BY <1>3, <3>1, <4>1 DEF SoftInv, ThreadHolds
    <3>. QED
      BY <3>1, <3>2 DEF MaxRead, Together
  <2>2. CASE (MaxRead /\ stage # 1) \/ Exponents
    <3>1. \A tid \in Thread : pc[tid] = "filled_sum" /\ pc'[tid] = "fold_sum"
      BY <1>1, <1>2, <2>2 DEF MaxRead, Exponents, Together, Summing
    <3>2. \A w \in Warp : SumSlot(w)'
      <4>. TAKE w \in Warp
      <4>1. PICK tid \in Thread : WarpOf(tid) = w
        BY Lanes
      <4>. QED
        BY <1>3, <3>1, <4>1 DEF SoftInv, ThreadHolds
    <3>. QED
      BY <3>1, <3>2 DEF SumRead, Together
  <2>3. CASE MaxRead /\ stage = 1
    <3>1. \A tid \in Thread : pc'[tid] = "exp"
      BY <1>1, <1>2, <2>3 DEF MaxRead, Together
    <3>. QED
      BY <1>1, <2>3, <3>1 DEF Exponents, Together, Summing
  <2>4. CASE SumRead
    <3>1. \A tid \in Thread : pc[tid] = "folded_sum" /\ pc'[tid] = "normalise"
      BY <1>1, <1>2, <2>4 DEF SumRead, Together
    <3>2. PICK tid \in Thread : TRUE
      <4>1. 0 \in Warp
        BY DEF Warp, RowBlockAssumption
      <4>. QED
        BY <4>1, Lanes
    <3>3. stage = 1
      BY <2>4, <3>1, <3>2 DEF SumRead, Together
    <3>. QED
      BY <1>1, <3>1, <3>3 DEF Finishing, Together
  <2>5. CASE Finishing
    <3>1. \A tid \in Thread : FALSE
      BY <1>1, <2>5 DEF Finishing, Together
    <3>. QED
      BY <1>1, <2>5, <3>1 DEF Finishing, Together
  <2>. QED
    BY <2>1, <2>2, <2>3, <2>4, <2>5 DEF SoftInv
<1>8. lse' \in {Unwritten, RowLse'}
  BY <1>1, <1>4 DEF SoftInv
<1>. QED
  BY <1>5, <1>6, <1>7, <1>8 DEF SoftInv

\* A stutter changes nothing.
LEMMA SoftStutter ==
  ASSUME SoftInv, UNCHANGED <<stage, s, pc, m, l, red, P, lse>>
  PROVE  SoftInv'
<1>1. SoftTyped'
  BY DEF SoftInv, SoftTyped
<1>2. \A w : (MaxSlot(w) => MaxSlot(w)') /\ (SumSlot(w) => SumSlot(w)')
  BY SlotKept
<1>3. ASSUME NEW tid \in Thread PROVE ThreadHolds(tid)'
  <2>1. ThreadHolds(tid)
    BY DEF SoftInv
  <2>2. /\ pc[tid] = "filled_max" => MaxSlot(WarpOf(tid))'
        /\ pc[tid] = "filled_sum" => SumSlot(WarpOf(tid))'
    BY <1>2, <2>1 DEF ThreadHolds
  <2>. QED
    BY <2>1, <2>2, ThreadKept
<1>4. (Comparing \/ MaxRead \/ Exponents \/ SumRead \/ Finishing)'
  BY <1>2 DEF SoftInv, Comparing, MaxRead, Exponents, SumRead, Finishing, Together
<1>5. lse' \in {Unwritten, RowLse'}
  BY SameScores DEF SoftInv
<1>. QED
  BY <1>1, <1>3, <1>4, <1>5 DEF SoftInv

\* The inductive invariant of the row softmax.
THEOREM SoftInvariant == Spec => []SoftInv
<1>. USE RowBlockAssumption
<1>1. Init => SoftInv
  BY SoftInit
<1>2. SoftInv /\ [Next]_vars => SoftInv'
  <2>. SUFFICES ASSUME SoftInv, [Next]_vars PROVE SoftInv'
    OBVIOUS
  <2>1. CASE \E tid \in Thread : Step(tid)
    BY <2>1, SoftLocalMax, SoftFoldMax, SoftExp, SoftFoldSum, SoftNormalise DEF Step
  <2>2. CASE \E w \in Warp : WarpStep(w)
    BY <2>2, SoftWarpMax, SoftWarpSum DEF WarpStep
  <2>3. CASE Syncthreads
    BY <2>3, SoftBarrier
  <2>4. CASE UNCHANGED vars
    <3>1. UNCHANGED <<stage, s, pc, m, l, red, P, lse>>
      BY <2>4 DEF vars
    <3>. QED
      BY <3>1, SoftStutter
  <2>. QED
    BY <2>1, <2>2, <2>3, <2>4 DEF Next, Retired
<1>. QED
  BY <1>1, <1>2, PTL DEF Spec

\* After each reduction of the row softmax every thread holds the maximum,
\* and the sum, of the whole row, in both kernels and for every number of
\* warps, lanes and keys: no slot is read before it is filled or after it is
\* used again.
THEOREM ReductionsWhole == Spec => []ReductionsAgree
<1>. USE RowBlockAssumption
<1>1. SoftInv => ReductionsAgree
  <2>. SUFFICES ASSUME SoftInv, NEW tid \in Thread
                PROVE  /\ pc[tid] \notin {"max", "shuffle_max", "filled_max", "fold_max"} =>
                            /\ \A j \in Visible : m[tid] # NegInf /\ s[j] <= m[tid]
                            /\ m[tid] = NegInf \/ \E j \in Visible : s[j] = m[tid]
                       /\ pc[tid] \in {"folded_sum", "normalise"} =>
                            l[tid] = [j \in Visible |-> s[j] - m[tid]]
    BY DEF ReductionsAgree
  <2>1. ThreadHolds(tid) /\ pc[tid] \in Known \cup {"max", "shuffle_max", "filled_max", "fold_max"}
    BY DEF SoftInv, SoftTyped
  <2>2. s \in [Key -> Int \cup {NegInf}]
    BY DEF SoftInv, SoftTyped
  <2>3. ASSUME pc[tid] \in Known
        PROVE  /\ \A j \in Visible : m[tid] # NegInf /\ s[j] <= m[tid]
               /\ m[tid] = NegInf \/ \E j \in Visible : s[j] = m[tid]
               /\ m[tid] = RowMax
    <3>1. PICK x : x = m[tid] /\ Top(x, Key)
      BY <2>1, <2>3 DEF ThreadHolds
    <3>2. /\ x = NegInf \/ \E j \in Key : s[j] = x
          /\ \A j \in Key : s[j] = NegInf \/ (x # NegInf /\ s[j] <= x)
      BY <2>2, <3>1, TopFacts
    <3>3. x = RowMax
      BY <3>1, TopRow DEF SoftInv
    <3>. QED
      BY <3>1, <3>2, <3>3 DEF Visible
  <2>4. ASSUME pc[tid] \in {"folded_sum", "normalise"}
        PROVE  l[tid] = [j \in Visible |-> s[j] - m[tid]]
    <3>1. m[tid] = RowMax /\ l[tid] = Terms(Key)
      BY <2>1, <2>3, <2>4 DEF ThreadHolds, Known
    <3>2. Key \cap Visible = Visible
      BY DEF Visible
    <3>. QED
      BY <3>1, <3>2 DEF Terms
  <2>. QED
    BY <2>1, <2>3, <2>4
<1>. QED
  BY <1>1, SoftInvariant, PTL

\* A retired thread's keys hold their softmax weight over the visible keys,
\* and the row's log-sum-exp is that of the visible scores.
THEOREM SoftmaxRowsExact == Spec => []RowExact
<1>1. SoftInv => RowExact
  <2>. SUFFICES ASSUME SoftInv PROVE RowExact
    OBVIOUS
  <2>1. \A tid \in Thread : pc[tid] = "done" => \A j \in Mine(tid) : P[j] = RowWeight(j)
    BY DEF SoftInv, ThreadHolds
  <2>2. lse \in {Unwritten, RowLse}
    BY DEF SoftInv
  <2>. QED
    BY <2>1, <2>2 DEF RowExact, RowWeight, RowLse
<1>. QED
  BY <1>1, SoftInvariant, PTL
===============================================================================
