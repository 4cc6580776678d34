------------------------------ MODULE TileTheorems ------------------------------
(***************************************************************************)
(* What the proofs about the attention kernels share: the arithmetic of    *)
(* flat tile buffers, and one tile of the online-softmax recurrence over   *)
(* any set of keys.  They hold for every tile shape and every score row.   *)
(***************************************************************************)
EXTENDS TileMemory, TLAPS, WellFoundedInduction

USE SentinelAssumption, MemoryAssumption

-------------------------------------------------------------------------------
(* Flat buffers                                                            *)

\* Every element of a flat buffer is in the share of exactly one thread.
LEMMA SliceOwner ==
  ASSUME NEW threads \in Nat \ {0}, NEW n \in Nat, NEW e \in 0 .. n - 1
  PROVE  e % threads \in 0 .. threads - 1 /\ e \in SliceOf(e % threads, threads, n)
<1>1. e % threads \in 0 .. threads - 1
  OBVIOUS
<1>. QED
  BY <1>1 DEF SliceOf

LEMMA SlicesDisjoint ==
  ASSUME NEW a, NEW b, a # b, NEW threads, NEW n, NEW e \in SliceOf(a, threads, n)
  PROVE  e \notin SliceOf(b, threads, n)
  BY DEF SliceOf

\* Dividing undoes the flattening of a slot and an element.
LEMMA Quotient ==
  ASSUME NEW j \in Nat, NEW b \in Nat \ {0}, NEW d \in 0 .. b - 1
  PROVE  (j * b + d) \div b = j
<1>1. \A x \in Nat : \E q, r \in Nat : r < b /\ x = (b * q) + r /\ x \div b = q
  OBVIOUS
<1>2. j * b + d \in Nat
  OBVIOUS
<1>3. PICK q, r \in Nat : r < b /\ j * b + d = (b * q) + r /\ (j * b + d) \div b = q
  BY <1>1, <1>2
<1>4. ~ (q < j)
  <2>1. q + 1 <= j => b * (q + 1) <= b * j
    OBVIOUS
  <2>2. b * (q + 1) = b * q + b /\ j * b = b * j /\ b * q \in Nat /\ b * j \in Nat
    OBVIOUS
  <2>. QED
    BY <1>3, <2>1, <2>2
<1>5. ~ (j < q)
  <2>1. j + 1 <= q => b * (j + 1) <= b * q
    OBVIOUS
  <2>2. b * (j + 1) = b * j + b /\ j * b = b * j /\ b * q \in Nat /\ b * j \in Nat
    OBVIOUS
  <2>. QED
    BY <1>3, <2>1, <2>2
<1>. QED
  BY <1>3, <1>4, <1>5

\* Element d of slot j of a tile is the buffer's cell j * Dim + d, and that
\* cell comes from the tile's row j.
LEMMA CellOfSlot ==
  ASSUME Dim \in Nat \ {0}, NEW j \in Nat, NEW d \in 0 .. Dim - 1
  PROVE  /\ j * Dim + d \in Nat
         /\ (j * Dim + d) \div Dim = j
<1>1. d \in 0 .. Dim - 1 /\ j * Dim \in Nat
  OBVIOUS
<1>. QED
  BY <1>1, Quotient

\* What the copy puts into the cells of slot j: row r0 + j, or zeroes past
\* the rows that exist.
LEMMA CellContent ==
  ASSUME Dim \in Nat \ {0}, NEW j \in Nat, NEW d \in 0 .. Dim - 1, NEW r0 \in Nat, NEW rows \in Int
  PROVE  TileCell(j * Dim + d, r0, rows) = IF j < rows THEN r0 + j ELSE Pad
<1>1. /\ d \in 0 .. Dim - 1 /\ Dim > 0 /\ j * Dim \in Nat
  OBVIOUS
<1>2. CASE j < rows
  <2>1. (j + 1) * Dim <= rows * Dim
    BY <1>2
  <2>2. (j + 1) * Dim = j * Dim + Dim
    OBVIOUS
  <2>3. j * Dim + d < rows * Dim
    BY <1>1, <2>1, <2>2
  <2>. QED
    BY <1>2, <2>3, CellOfSlot DEF TileCell
<1>3. CASE j >= rows
  <2>1. rows * Dim <= j * Dim
    BY <1>3
  <2>2. ~ (j * Dim + d < rows * Dim)
    BY <1>1, <2>1
  <2>. QED
    BY <1>3, <2>2 DEF TileCell
<1>. QED
  BY <1>2, <1>3

\* A slot of a tile is one of the buffer's rows.
LEMMA SlotCells ==
  ASSUME Dim \in Nat \ {0}, NEW n \in Nat, NEW j \in 0 .. n - 1,
         NEW d \in 0 .. Dim - 1
  PROVE  j * Dim + d \in 0 .. n * Dim - 1
<1>1. /\ d \in 0 .. Dim - 1 /\ j \in Nat /\ j * Dim \in Nat
  OBVIOUS
<1>2. (j + 1) * Dim <= n * Dim
  BY <1>1
<1>3. (j + 1) * Dim = j * Dim + Dim
  BY <1>1
<1>. QED
  BY <1>1, <1>2, <1>3

\* A slot whose cells all came from the tile reads as the tile's row.
LEMMA ReadsWhole ==
  ASSUME Dim \in Nat \ {0}, NEW buf, NEW j \in Nat, NEW v,
         \A d \in 0 .. Dim - 1 : buf[j * Dim + d] = v
  PROVE  RowAt(buf, j) = v
<1>1. 0 \in 0 .. Dim - 1 /\ j * Dim \in Nat
  OBVIOUS
<1>2. buf[j * Dim] = v
  <2>1. j * Dim + 0 = j * Dim
    BY <1>1
  <2>. QED
    BY <1>1, <2>1
<1>. QED
  BY <1>1, <1>2 DEF RowAt

-------------------------------------------------------------------------------
(* One tile of the recurrence: S the keys seen before, T its own.          *)

Values(f, S) == {f[k] : k \in S}
MaxOver(x, S, f) ==
  IF S = {} THEN x = NegInf ELSE x \in Values(f, S) /\ \A k \in S : f[k] <= x
\* The scores a thread compares with its old maximum.
Candidates(numbers, x, f, T) == /\ {x} \cup Values(f, T) \subseteq numbers
                                /\ numbers \subseteq {x, NegInf} \cup Values(f, T)
SumOver(S, f, x) == [k \in S |-> f[k] - x]

\* The maximum moves on to the union.
LEMMA NextMax ==
  ASSUME NEW S, NEW T, NEW f, \A k \in S \cup T : f[k] \in Int, T # {} \/ S # {},
         NEW x \in Score, MaxOver(x, S, f),
         NEW numbers, Candidates(numbers, x, f, T), NEW y, IsMax(y, numbers)
  PROVE  y \in Int /\ MaxOver(y, S \cup T, f) /\ (S # {} => x \in Int)
<1>. USE DEF Candidates
<1>1. y \in numbers /\ \A z \in numbers : Max2(y, z) = y
  BY DEF IsMax
<1>2. y \in Score
  BY <1>1 DEF Score
<1>3. S # {} => x \in Int
  BY DEF MaxOver, Values
<1>4. \A z \in numbers : z \in Int => y \in Int /\ z <= y
  BY <1>1, <1>2 DEF Max2, Score
<1>5. \A k \in T : y \in Int /\ f[k] <= y
  BY <1>4 DEF Values
<1>6. S # {} => y \in Int /\ x <= y
  BY <1>3, <1>4
<1>7. y \in Int
  BY <1>5, <1>6
<1>8. \A k \in S : f[k] <= y
  BY <1>3, <1>6, <1>7 DEF MaxOver
<1>9. y \in Values(f, S \cup T)
  <2>1. CASE y = x
    <3>1. S # {}
      BY <1>7, <2>1 DEF MaxOver
    <3>2. x \in Values(f, S)
      BY <3>1 DEF MaxOver
    <3>. QED
      BY <2>1, <3>2 DEF Values
  <2>2. CASE y # x
    <3>1. y \in Values(f, T)
      BY <1>1, <1>7, <2>2
    <3>. QED
      BY <3>1 DEF Values
  <2>. QED
    BY <2>1, <2>2
<1>10. S \cup T # {}
  OBVIOUS
<1>. QED
  BY <1>3, <1>5, <1>7, <1>8, <1>9, <1>10 DEF MaxOver

\* A set of numbers has a least one.
LEMMA LeastNumber ==
  ASSUME NEW T \in SUBSET Nat, T # {}
  PROVE  \E x \in T : \A y \in T : x <= y
<1>. DEFINE R == {p \in Nat \X Nat : p[1] < p[2]}
<1>1. IsWellFoundedOn(R, Nat)
  BY NatLessThanWellFounded DEF OpToRel
<1>2. \E x \in T : \A y \in T : ~ (<<y, x>> \in R)
  <2>. HIDE DEF R
  <2>. QED
    BY <1>1, WFMin
<1>3. PICK x \in T : \A y \in T : ~ (<<y, x>> \in R)
  BY <1>2
<1>4. \A y \in T : x <= y
  <2>. TAKE y \in T
  <2>1. x \in Nat /\ y \in Nat /\ ~ (<<y, x>> \in R)
    BY <1>3
  <2>2. ~ (y < x)
    BY <2>1
  <2>. QED
    BY <2>1, <2>2
<1>. QED
  BY <1>4

\* A set of keys below a bound has a maximum score: of the bounds up to which
\* it had none, the least would not be one.
Bounded(S) == \E n \in Nat : \A k \in S : k \in Nat /\ k < n

LEMMA MaxExists ==
  ASSUME NEW S, Bounded(S), NEW f, \A k \in S : f[k] \in Int
  PROVE  \E x : MaxOver(x, S, f)
<1>. PICK n \in Nat : \A k \in S : k \in Nat /\ k < n
  BY DEF Bounded
<1>. DEFINE Below(b) == {k \in S : k < b}
            Bad      == {b \in Nat : ~ \E x : MaxOver(x, Below(b), f)}
<1>0. \A k \in S : k \in Nat /\ k < n
  OBVIOUS
<1>1. Bad = {}
  <2>. SUFFICES ASSUME Bad # {} PROVE FALSE
    OBVIOUS
  <2>1. PICK b \in Bad : \A c \in Bad : b <= c
    <3>1. Bad \in SUBSET Nat
      OBVIOUS
    <3>. HIDE DEF Bad
    <3>. QED
      BY <3>1, LeastNumber
  <2>2. b # 0
    <3>0. \A k \in S : ~ (k < 0)
      BY <1>0
    <3>1. Below(0) = {}
      BY <3>0
    <3>2. MaxOver(NegInf, Below(0), f)
      BY <3>1 DEF MaxOver
    <3>. QED
      BY <3>2
  <2>3. b \in Nat /\ b - 1 \in Nat /\ b - 1 \notin Bad
    <3>. HIDE DEF Below
    <3>1. b \in Nat
      OBVIOUS
    <3>2. b - 1 \in Nat /\ ~ (b <= b - 1)
      BY <2>2, <3>1
    <3>. QED
      BY <2>1, <3>1, <3>2
  <2>4. PICK x : MaxOver(x, Below(b - 1), f)
    BY <2>3
  <2>5. CASE b - 1 \notin S
    <3>1. \A k \in S : k < b <=> k < b - 1
      BY <1>0, <2>3, <2>5
    <3>2. Below(b) = Below(b - 1)
      BY <3>1
    <3>. QED
      BY <2>4, <3>2
  <2>6. CASE b - 1 \in S
    <3>0. \A k \in S : k < b <=> k < b - 1 \/ k = b - 1
      BY <1>0, <2>3
    <3>1. Below(b) = Below(b - 1) \cup {b - 1}
      BY <2>3, <2>6, <3>0
    <3>2. CASE Below(b - 1) = {} \/ x <= f[b - 1]
      <4>1. MaxOver(f[b - 1], Below(b), f)
        <5>1. f[b - 1] \in Int /\ Below(b) # {} /\ b - 1 \in Below(b)
          BY <2>6, <3>1
        <5>2. \A k \in Below(b - 1) : f[k] \in Int /\ f[k] <= x /\ x \in Int
          BY <2>4 DEF MaxOver, Values
        <5>. HIDE DEF Below
        <5>3. \A k \in Below(b - 1) : f[k] <= f[b - 1]
          BY <3>2, <5>1, <5>2
        <5>4. \A k \in Below(b) : f[k] <= f[b - 1]
          BY <3>1, <5>1, <5>3
        <5>. QED
          BY <5>1, <5>4 DEF MaxOver, Values
      <4>. QED
        BY <2>1, <4>1
    <3>3. CASE Below(b - 1) # {} /\ ~ (x <= f[b - 1])
      <4>1. x \in Values(f, Below(b - 1)) /\ \A k \in Below(b - 1) : f[k] <= x
        BY <2>4, <3>3 DEF MaxOver
      <4>2. x \in Int /\ f[b - 1] \in Int
        BY <2>6, <4>1 DEF Values
      <4>3. \A k \in Below(b) : f[k] <= x
        <5>. HIDE DEF Below
        <5>. QED
          BY <3>1, <3>3, <4>1, <4>2
      <4>4. x \in Values(f, Below(b)) /\ Below(b) # {}
        <5>. HIDE DEF Below
        <5>. QED
          BY <3>1, <4>1 DEF Values
      <4>5. MaxOver(x, Below(b), f)
        <5>. HIDE DEF Below
        <5>. QED
          BY <4>3, <4>4 DEF MaxOver
      <4>. QED
        BY <2>1, <4>5
    <3>. QED
      BY <3>2, <3>3
  <2>. QED
    BY <2>5, <2>6
<1>2. Below(n) = S
  BY <1>0
<1>3. \E x : MaxOver(x, Below(n), f)
  BY <1>1
<1>. QED
  BY <1>2, <1>3

\* It is the score that is named by choice.
MaxOf(S, f) == CHOOSE x : MaxOver(x, S, f)

LEMMA MaxIsMaxOf ==
  ASSUME NEW S, Bounded(S), NEW f, \A k \in S : f[k] \in Int
  PROVE  /\ MaxOver(MaxOf(S, f), S, f)
         /\ MaxOf(S, f) \in Score
         /\ S = {} <=> MaxOf(S, f) = NegInf
         /\ \A x : MaxOver(x, S, f) => x = MaxOf(S, f)
<1>1. MaxOver(MaxOf(S, f), S, f)
  <2>1. \E x : MaxOver(x, S, f)
    BY MaxExists
  <2>. QED
    BY <2>1 DEF MaxOf
<1>. DEFINE y == MaxOf(S, f)
<1>. HIDE DEF y
<1>2. MaxOver(y, S, f)
  BY <1>1 DEF y
<1>3. S = {} => y = NegInf
  BY <1>2 DEF MaxOver
<1>4. S # {} => y \in Int /\ \E k \in S : f[k] = y
  BY <1>2 DEF MaxOver, Values
<1>5. ASSUME NEW x, MaxOver(x, S, f) PROVE x = y
  <2>1. CASE S = {}
    BY <1>3, <1>5, <2>1 DEF MaxOver
  <2>2. CASE S # {}
    <3>1. x \in Int /\ \E k \in S : f[k] = x
      BY <1>5, <2>2 DEF MaxOver, Values
    <3>2. x <= y /\ y <= x
      BY <1>2, <1>4, <1>5, <2>2, <3>1 DEF MaxOver
    <3>. QED
      BY <1>4, <2>2, <3>1, <3>2
  <2>. QED
    BY <2>1, <2>2
<1>. QED
  BY <1>2, <1>3, <1>4, <1>5 DEF y, Score

\* Rescaling by the step of the maximum makes a sum relative to the new one.
LEMMA RescaledSum ==
  ASSUME NEW S, NaN \notin S, NEW f, \A k \in S : f[k] \in Int,
         NEW x \in Score, S # {} => x \in Int, S = {} => x = NegInf, NEW y \in Int
  PROVE  Scale(SumOver(S, f, x), rescale_alpha(x, y)) = SumOver(S, f, y)
<1>. DEFINE old   == SumOver(S, f, x)
            moved == SumOver(S, f, y)
<1>1. DOMAIN old = S /\ ~ IsPoisoned(old)
  BY DEF IsPoisoned, SumOver
<1>2. CASE S = {}
  <2>1. rescale_alpha(x, y) = Zero
    BY <1>2 DEF rescale_alpha
  <2>2. Scale(old, Zero) = EmptySum
    BY <1>1 DEF Scale
  <2>3. moved = EmptySum
    BY <1>2 DEF EmptySum, SumOver
  <2>. QED
    BY <2>1, <2>2, <2>3
<1>3. CASE S # {}
  <2>1. x \in Int /\ rescale_alpha(x, y) = x - y /\ x - y \in Int
    BY <1>3 DEF rescale_alpha, exp2_scaled
  <2>2. Scale(old, x - y) = [k \in S |-> old[k] + (x - y)]
    BY <1>1, <2>1 DEF Scale
  <2>3. \A k \in S : old[k] + (x - y) = f[k] - y
    BY <2>1 DEF SumOver
  <2>4. [k \in S |-> old[k] + (x - y)] = moved
    BY <2>3 DEF SumOver
  <2>. QED
    BY <2>1, <2>2, <2>4
<1>. QED
  BY <1>2, <1>3

\* Added to, a sum is that of the union.
LEMMA AddedSum ==
  ASSUME NEW S, NEW T, S \cap T = {}, NaN \notin S \cup T,
         NEW f, \A k \in S \cup T : f[k] \in Int, NEW y \in Int
  PROVE  AddTerms(SumOver(S, f, y), SumOver(T, f, y)) = SumOver(S \cup T, f, y)
<1>. DEFINE moved == SumOver(S, f, y)
            w     == SumOver(T, f, y)
<1>1. DOMAIN moved = S /\ ~ IsPoisoned(moved)
  BY DEF IsPoisoned, SumOver
<1>2. DOMAIN w = T /\ \A k \in T : w[k] = f[k] - y /\ w[k] \in Int
  BY DEF SumOver
<1>3. \A k \in S : moved[k] = f[k] - y
  BY DEF SumOver
<1>. HIDE DEF moved, w
<1>4. {k \in DOMAIN w : w[k] # Zero} = T
  BY <1>2
<1>5. \A k \in T : w[k] # NaN /\ k \notin DOMAIN moved
  BY <1>1, <1>2
<1>6. AddTerms(moved, w) = [k \in S \cup T |-> IF k \in T THEN w[k] ELSE moved[k]]
  BY <1>1, <1>4, <1>5 DEF AddTerms
<1>7. [k \in S \cup T |-> IF k \in T THEN w[k] ELSE moved[k]] = SumOver(S \cup T, f, y)
  BY <1>2, <1>3 DEF SumOver
<1>. QED
  BY <1>6, <1>7 DEF moved, w

\* The weights of a whole tile add the terms of its live slots and no other.
LEMMA AddedTile ==
  ASSUME NEW S, NEW T, S \cap T = {}, NaN \notin S \cup T,
         NEW f, \A k \in S \cup T : f[k] \in Int, NEW y \in Int,
         NEW p, T \subseteq DOMAIN p,
         \A jj \in DOMAIN p : p[jj] = IF jj \in T THEN f[jj] - y ELSE Zero
  PROVE  AddTerms(SumOver(S, f, y), p) = SumOver(S \cup T, f, y)
<1>. DEFINE moved == SumOver(S, f, y)
<1>1. DOMAIN moved = S /\ ~ IsPoisoned(moved) /\ \A k \in S : moved[k] = f[k] - y
  BY DEF IsPoisoned, SumOver
<1>. HIDE DEF moved
<1>2. \A k \in T : p[k] = f[k] - y /\ p[k] \in Int
  OBVIOUS
<1>3. {k \in DOMAIN p : p[k] # Zero} = T
  <2>1. \A k \in DOMAIN p : k \notin T => p[k] = Zero
    OBVIOUS
  <2>2. \A k \in T : p[k] # Zero
    BY <1>2
  <2>. QED
    BY ONLY T \subseteq DOMAIN p, <2>1, <2>2
<1>4. \A k \in T : p[k] # NaN /\ k \notin DOMAIN moved
  BY <1>1, <1>2
<1>5. AddTerms(moved, p) = [k \in S \cup T |-> IF k \in T THEN p[k] ELSE moved[k]]
  BY <1>1, <1>3, <1>4 DEF AddTerms
<1>6. [k \in S \cup T |-> IF k \in T THEN p[k] ELSE moved[k]] = SumOver(S \cup T, f, y)
  BY <1>1, <1>2 DEF SumOver
<1>. QED
  BY <1>5, <1>6 DEF moved

\* A tile of b slots from key `base` on: its keys, its weights, and which keys
\* of V are in it.
KeySlots(b, base, n)           == [j \in 0 .. b - 1 |-> IF base + j < n THEN base + j ELSE Pad]
WeightSlots(b, base, V, f, y) == [j \in 0 .. b - 1 |-> IF base + j \in V THEN f[base + j] - y ELSE Zero]
Within(b, base, V)            == {k \in V : base <= k /\ k < base + b}

\* The terms of a tile are those of its visible keys, in l by the K rows and
\* in acc by the V rows: zeroes behind N count in neither.
LEMMA TileTerms ==
  ASSUME NEW n \in Nat, NEW b \in Nat, NEW base \in Nat,
         NEW V, \A k \in V : k \in Nat /\ k < n,
         NEW f, \A k \in V : f[k] \in Int, NEW y \in Int,
         NEW key, key = KeySlots(b, base, n), NEW p, p = WeightSlots(b, base, V, f, y),
         NEW T, T = Within(b, base, V)
  PROVE  RowTerms(key, p) = SumOver(T, f, y) /\ OutputTerms(key, p) = SumOver(T, f, y)
<1>. USE DEF KeySlots, WeightSlots, Within
<1>. DEFINE live == {j \in 0 .. b - 1 : base + j \in V}
<1>1. \A j \in 0 .. b - 1 : p[j] # Zero <=> j \in live
  <2>. TAKE j \in 0 .. b - 1
  <2>1. base + j \in V => f[base + j] - y \in Int
    OBVIOUS
  <2>. QED
    BY <2>1
<1>2. {j \in DOMAIN p : p[j] # Zero} = live
  BY <1>1
<1>3. \A j \in live : base + j < n /\ key[j] = base + j /\ key[j] # Pad /\ key[j] # Undef
  <2>. TAKE j \in live
  <2>1. base + j \in 0 .. n - 1 /\ j \in 0 .. b - 1
    OBVIOUS
  <2>2. base + j < n /\ base + j \in Int
    BY <2>1
  <2>3. key[j] = base + j
    BY <2>1, <2>2
  <2>. QED
    BY <2>2, <2>3
<1>4. \A j \in DOMAIN key : key[j] # Pad => key[j] # Undef
  <2>. TAKE j \in DOMAIN key
  <2>1. j \in 0 .. b - 1 /\ base + j \in Int
    OBVIOUS
  <2>. QED
    BY <2>1
<1>5. {j \in DOMAIN key : key[j] # Pad /\ (p[j] # Zero \/ key[j] = Undef)} = live
  <2>1. DOMAIN key = 0 .. b - 1
    OBVIOUS
  <2>. HIDE DEF live
  <2>2. live \subseteq 0 .. b - 1
    BY DEF live
  <2>. QED
    BY <1>1, <1>3, <1>4, <2>1, <2>2
<1>6. \A k \in T : k - base \in live /\ base + (k - base) = k
  OBVIOUS
<1>7. {key[j] : j \in live} = T
  <2>1. \A j \in live : base + j \in T
    OBVIOUS
  <2>. HIDE DEF live
  <2>2. \A j \in live : key[j] \in T
    BY <1>3, <2>1
  <2>3. \A k \in T : \E j \in live : key[j] = k
    <3>. TAKE k \in T
    <3>1. k - base \in live /\ key[k - base] = base + (k - base)
      BY <1>3, <1>6
    <3>. QED
      BY <1>6, <3>1
  <2>4. {key[j] : j \in live} \subseteq T
    BY <2>2
  <2>5. T \subseteq {key[j] : j \in live}
    BY <2>3, Zenon
  <2>. QED
    BY <2>4, <2>5
<1>8. ASSUME NEW k \in T
      PROVE  /\ {j \in live : key[j] = k} = {k - base}
             /\ k # Undef /\ p[k - base] = f[k] - y
  <2>1. k \in Int /\ k - base \in live /\ base + (k - base) = k
    BY <1>6
  <2>2. \A j \in live : base + j = k => j = k - base
    OBVIOUS
  <2>3. k - base \in 0 .. b - 1 /\ base + (k - base) \in V
    BY <2>1
  <2>4. p[k - base] = f[k] - y
    BY <2>1, <2>3
  <2>5. k - base \in Int /\ k - base \in live
    BY <2>1
  <2>6. \A j \in live : key[j] = k <=> j = k - base
    <3>. HIDE DEF live
    <3>1. \A j \in live : key[j] = base + j
      BY <1>3
    <3>2. key[k - base] = k
      BY ONLY <2>1, <3>1
    <3>. QED
      BY ONLY <2>2, <3>1, <3>2
  <2>7. {j \in live : key[j] = k} = {k - base}
    <3>. HIDE DEF live
    <3>. QED
      BY ONLY <2>5, <2>6
  <2>. QED
    BY <2>1, <2>4, <2>7
<1>. HIDE DEF live
<1>9. Gather(live, key, p) = SumOver(T, f, y)
  <2>. DEFINE from(k) == {j \in live : key[j] = k}
              term(k) == IF k = Undef \/ \E j, j2 \in from(k) : j # j2 THEN NaN
                         ELSE p[CHOOSE j \in from(k) : TRUE]
  <2>1. Gather(live, key, p) = [k \in T |-> term(k)]
    BY <1>7 DEF Gather
  <2>2. ASSUME NEW k \in T PROVE term(k) = f[k] - y
    <3>1. from(k) = {k - base} /\ k # Undef /\ p[k - base] = f[k] - y
      BY <1>8
    <3>2. (CHOOSE j \in {k - base} : TRUE) = k - base
      OBVIOUS
    <3>. QED
      BY <3>1, <3>2
  <2>. HIDE DEF term
  <2>3. [k \in T |-> term(k)] = [k \in T |-> f[k] - y]
    BY <2>2
  <2>. QED
    BY <2>1, <2>3 DEF SumOver
<1>. QED
  BY <1>2, <1>5, <1>9 DEF RowTerms, OutputTerms

\* The candidates for the new maximum leave it no choice.
LEMMA NextMaxOf ==
  ASSUME NEW S, NEW T, Bounded(S \cup T), S \cup T # {},
         NEW f, \A k \in S \cup T : f[k] \in Int,
         NEW numbers, Candidates(numbers, MaxOf(S, f), f, T)
  PROVE  /\ MaxOf(S \cup T, f) \in Int
         /\ MaxOf(S \cup T, f) \in numbers
         /\ \A y \in numbers : IsMax(y, numbers) <=> y = MaxOf(S \cup T, f)
<1>. DEFINE x == MaxOf(S, f)
            z == MaxOf(S \cup T, f)
<1>1. /\ MaxOver(x, S, f) /\ x \in Score
      /\ S = {} <=> x = NegInf
      /\ \A y : MaxOver(y, S \cup T, f) => y = z
      /\ MaxOver(z, S \cup T, f)
  <2>1. Bounded(S)
    BY DEF Bounded
  <2>. QED
    BY <2>1, MaxIsMaxOf
<1>2. /\ \A k \in S \cup T : f[k] <= z
      /\ \E k \in S \cup T : f[k] = z
      /\ z \in Int
  BY <1>1 DEF MaxOver, Values
<1>. HIDE DEF x, z
<1>3. ASSUME NEW y \in numbers, IsMax(y, numbers)
      PROVE  y = z
  <2>1. MaxOver(y, S \cup T, f)
    BY <1>1, <1>3, NextMax DEF x
  <2>. QED
    BY <1>1, <2>1
<1>4. z \in numbers
  <2>1. CASE \E k \in T : f[k] = z
    BY <2>1 DEF Candidates, Values
  <2>2. CASE \E k \in S : f[k] = z
    <3>1. z <= x /\ x \in Int /\ \E k \in S : f[k] = x
      BY <1>1, <2>2 DEF MaxOver, Values
    <3>2. z = x
      BY <1>2, <3>1
    <3>. QED
      BY <3>2 DEF Candidates, x
  <2>. QED
    BY <1>2, <2>1, <2>2
<1>5. \A y \in numbers : Max2(z, y) = z
  <2>. TAKE y \in numbers
  <2>1. y = NegInf \/ y = x \/ \E k \in T : f[k] = y
    BY DEF Candidates, Values, x
  <2>2. y = NegInf \/ (y \in Int /\ y <= z)
    <3>1. CASE y = x
      BY <1>1, <1>2, <3>1 DEF MaxOver, Values
    <3>2. CASE \E k \in T : f[k] = y
      BY <1>2, <3>2
    <3>. QED
      BY <2>1, <3>1, <3>2
  <2>. QED
    BY <1>2, <2>2 DEF Max2
<1>. QED
  BY <1>2, <1>3, <1>4, <1>5 DEF IsMax, z

-------------------------------------------------------------------------------
(* The end of a row.                                                       *)

\* A tile count rounded up covers its keys.
LEMMA TilesReach ==
  ASSUME NEW x \in Nat, NEW b \in Nat \ {0}, NEW n \in Nat, (x + b - 1) \div b <= n
  PROVE  x <= n * b
<1>. DEFINE c == (x + b - 1) \div b
<1>1. /\ c \in Int
      /\ (x + b - 1) = (b * c) + ((x + b - 1) % b)
      /\ (x + b - 1) % b \in 0 .. b - 1
  OBVIOUS
<1>. HIDE DEF c
<1>2. b * c <= b * n
  BY <1>1 DEF c
<1>3. b * n = n * b /\ b * c \in Int
  BY <1>1
<1>. QED
  BY <1>1, <1>2, <1>3

\* What a row that saw a key computes from its exact sum: the softmax and the
\* log-sum-exp, whatever maximum the sum is relative to.
LEMMA FinishedSum ==
  ASSUME NEW V, V # {}, NaN \notin V, NEW f, \A k \in V : f[k] \in Int, NEW x \in Int,
         NEW sum, sum = SumOver(V, f, x)
  PROVE  /\ NormalisedRow(sum, sum) = [k \in V |-> [k2 \in V |-> f[k2] - f[k]]]
         /\ finalize_lse(x, sum) = [k \in V |-> f[k]]
<1>1. DOMAIN sum = V /\ \A k \in V : sum[k] = f[k] - x
  BY DEF SumOver
<1>2. ~ IsPoisoned(sum) /\ sum # EmptySum /\ x # NegInf
  BY <1>1 DEF IsPoisoned, EmptySum
<1>3. NormalisedRow(sum, sum) = [k \in V |-> [k2 \in V |-> f[k2] - f[k]]]
  <2>1. NormalisedRow(sum, sum) = [k \in V |-> [k2 \in V |-> sum[k2] - sum[k]]]
    BY <1>1, <1>2 DEF NormalisedRow
  <2>2. \A k, k2 \in V : sum[k2] - sum[k] = f[k2] - f[k]
    BY <1>1
  <2>3. \A k \in V : [k2 \in V |-> sum[k2] - sum[k]] = [k2 \in V |-> f[k2] - f[k]]
    BY <2>2
  <2>. QED
    BY <2>1, <2>3
<1>4. finalize_lse(x, sum) = [k \in V |-> f[k]]
  <2>1. finalize_lse(x, sum) = [k \in V |-> sum[k] + x]
    BY <1>1, <1>2 DEF finalize_lse
  <2>2. \A k \in V : sum[k] + x = f[k]
    BY <1>1
  <2>. QED
    BY <2>1, <2>2
<1>. QED
  BY <1>3, <1>4

===============================================================================
