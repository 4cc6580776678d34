--------------------------- MODULE StripBlockProofs ---------------------------
(***************************************************************************)
(* The tensor-core block keeps the promise of Attention for every shape    *)
(* the launch may choose, every assignment of fragment elements to lanes   *)
(* and every order of the lanes.  Everything a lane finds in shared memory *)
(* or in its registers is a function of the launch, a row and a tile; the  *)
(* invariant says which of these functions each lane's share holds at each *)
(* point, and a barrier turns "every lane its share" into "all of it".     *)
(***************************************************************************)
EXTENDS StripBlock, TileTheorems

USE SentinelAssumption, MemoryAssumption, StripAssumption

-------------------------------------------------------------------------------
(* The phases of the kernel between two block barriers, and those of a     *)
(* warp between two of its own.                                            *)

Beginning   == {"loadQ", "qTile"}
Loading     == {"fragments", "load", "raw"}
Scoring     == {"fetch", "mma", "sync_S"}
Reading     == {"readS", "shfl"}
Weighing    == {"storeP", "vote"}
Voted       == {"sync_vote"}
Spilling    == {"storeO", "sync_O"}
Scaling     == {"scaleO", "sync_scaled"}
Refilling   == {"loadO", "sync_P"}
Adding      == {"mmaPV", "war"}
Staging     == {"stageO", "sync_stage"}
Normalising == {"normalise", "staged"}
Storing     == {"store", "done"}

Using  == Scoring \cup Reading \cup Weighing \cup Voted \cup Spilling \cup Scaling
            \cup Refilling \cup Adding
Ending == Staging \cup Normalising

BlockPhases == {Beginning, Loading, Using, Ending, Storing}
WarpPhases  == {Scoring, Reading, Weighing, Voted, Spilling, Scaling, Refilling, Adding,
                Staging, Normalising}
Labels      == (UNION BlockPhases) \cup {"stageTile"}

\* A lane that still has to put its staged tile away is counted where it is
\* about to go: it passes no barrier on the way.
at(a)    == IF pc[a] = "stageTile" THEN LoopTop(a, t[a] + 1) ELSE pc[a]
Round(a) == IF pc[a] = "stageTile" THEN t[a] + 1 ELSE t[a]

Launch ==
  /\ strip_rows \in StripChoices
  /\ causal \in BOOLEAN
  /\ bc \in TileSizes
  /\ prefetch \in BOOLEAN
  /\ i0 \in 0 .. N - 1
  /\ score \in [0 .. N - 1 -> [0 .. N - 1 -> Int]]

\* The block is in one phase and on one tile, and each warp is in one of its
\* phases.
Control ==
  /\ pc \in [Thread -> Labels]
  /\ t \in [Thread -> Nat]
  /\ \A a, b \in Thread : Round(a) = Round(b)
  /\ \A a, b \in Thread, ph \in BlockPhases : at(a) \in ph => at(b) \in ph
  /\ \A a, b \in Thread : warp(a) = warp(b) =>
       \A ph \in WarpPhases : at(a) \in ph => at(b) \in ph
  /\ \A a \in Thread :
       /\ pc[a] \in Beginning \cup {"fragments"} => t[a] = 0
       /\ at(a) \in Beginning \cup Loading \cup Using => Round(a) < n_tiles
       /\ at(a) \in Ending \cup Storing => n_tiles <= Round(a)

Shapes ==
  /\ DOMAIN Qs = 0 .. Br * (Dim + RowPad) - 1
  /\ DOMAIN Ks = 0 .. bc * Dim - 1 /\ DOMAIN Vs = 0 .. bc * Dim - 1
  /\ DOMAIN Ss = (0 .. Br - 1) \X Elem
  /\ DOMAIN qf = Thread /\ DOMAIN stage = Thread /\ DOMAIN s = Thread
  /\ DOMAIN m = Thread /\ DOMAIN l = Thread /\ DOMAIN alpha = Thread
  /\ DOMAIN oacc = Thread
  /\ DOMAIN lse = GlobalRow

-------------------------------------------------------------------------------
(* What there is to hold, as functions of the launch, a row and a tile.    *)

Vis(x)    == {k \in Key : causal => k <= i0 + x}
Scores(x) == [k \in Key |-> ScoreOf(x, k)]

\* The row's maximum over the first n tiles, its sum relative to that, and
\* the same sum relative to the maximum of one tile more.
TopOf(x, n) == MaxOf(Seen(x, n), Scores(x))
Sum(x, n)   == SumOver(Seen(x, n), Scores(x), TopOf(x, n))
Moved(x, n) == SumOver(Seen(x, n), Scores(x), TopOf(x, n + 1))
Alpha(x, n) == [by |-> rescale_alpha(TopOf(x, n), TopOf(x, n + 1)),
                trivial |-> rescale_alpha(TopOf(x, n), TopOf(x, n + 1)) = 0
                              \/ TopOf(x, n) = NegInf]

RawCell(x, c, n)  == [k |-> TileRow(n, c), s |-> Dot(QRow(x), TileRow(n, c))]
Shown(x, c, n)    == IF j0(n) + c \in Vis(x) THEN Scores(x)[j0(n) + c] ELSE NegInf
SCell(x, c, n)    == [k |-> TileRow(n, c), s |-> Shown(x, c, n)]
WeightCell(x, c, n) == [k |-> TileRow(n, c), p |-> p_from_score(Shown(x, c, n), TopOf(x, n + 1))]

\* A lane's share of the strip, by where it is, and what is in it.
HalfRow(a, n) == {r(a)} \X HalfOf(a, n)
OwnCells(a) ==
  IF pc[a] = "sync_S" THEN Held(a, Slot)
  ELSE IF pc[a] = "readS" THEN HalfRow(a, bc)
  ELSE IF pc[a] \in {"sync_O", "loadO", "sync_stage"} THEN Held(a, Elem)
  ELSE IF pc[a] \in {"scaleO", "sync_scaled", "normalise"} THEN HalfRow(a, Dim)
  ELSE IF pc[a] \in {"staged"} \cup Storing /\ row_valid(a) THEN HalfRow(a, Dim)
  ELSE {}
CellAt(a, x, c) ==
  IF pc[a] \in {"sync_S", "readS"} THEN RawCell(x, c, t[a])
  ELSE IF pc[a] \in {"sync_O", "scaleO", "sync_stage", "normalise"} THEN [o |-> Sum(x, t[a])]
  ELSE IF pc[a] \in {"sync_scaled", "loadO"} THEN [o |-> Moved(x, t[a])]
  ELSE [y |-> Promise!SoftmaxRow(i0 + x)]

-------------------------------------------------------------------------------
(* What each lane holds.                                                   *)

QHeld(a) ==
  pc[a] = "qTile" \/ (pc[a] \in Loading /\ t[a] = 0) =>
    \A e \in SliceOf(a, Threads, Br * Dim) :
      Qs[QAddr(e \div Dim, e % Dim)] = [q |-> TileCell(e, i0, rows_q)]
FragHeld(a) ==
  pc[a] \notin Beginning \cup {"fragments"} => qf[a] = [x \in StripOf(warp(a)) |-> QRow(x)]

KVHeld(a) ==
  pc[a] \in {"raw"} \cup Using =>
    \A e \in SliceOf(a, Threads, bc * Dim) :
      /\ Ks[e] = TileCell(e, j0(t[a]), rows_kv(t[a]))
      /\ Vs[e] = TileCell(e, j0(t[a]), rows_kv(t[a]))
StageHeld(a) ==
  pc[a] \in (Using \ {"fetch"}) \cup {"stageTile"} /\ has_next(a) =>
    stage[a] = Fetched(a, t[a] + 1, rows_kv(t[a] + 1))

StripHeld(a) == \A e \in OwnCells(a) : Ss[e] = CellAt(a, e[1], e[2])
RowHeld(a) ==
  /\ pc[a] = "shfl"   => s[a] = [c \in HalfOf(a, bc) |-> SCell(r(a), c, t[a])]
  /\ pc[a] = "storeP" => s[a] = [c \in HalfOf(a, bc) |-> WeightCell(r(a), c, t[a])]
PHeld(a) ==
  pc[a] \in {"vote"} \cup Voted \cup Spilling \cup Scaling \cup Refilling \cup Adding =>
    \A c \in HalfOf(a, bc) : Qs[PAddr(r(a), c)] = WeightCell(r(a), c, t[a])

\* Pending: the maximum has moved on and O has not.
Pending == Weighing \cup Voted \cup Spilling \cup Scaling \cup {"loadO"}
Ahead   == Pending \cup {"sync_P"} \cup Adding
Done(a) == IF pc[a] \in Ahead THEN t[a] + 1 ELSE Round(a)

StateHeld(a) == m[a] = TopOf(r(a), Done(a)) /\ l[a] = Sum(r(a), Done(a))
AlphaHeld(a) == pc[a] \in Pending => alpha[a] = Alpha(r(a), t[a])
OHolds(a, x) ==
  IF pc[a] \in {"sync_P", "mmaPV"} THEN Moved(x, t[a])
  ELSE IF pc[a] \in {"war", "stageTile"} THEN Sum(x, t[a] + 1) ELSE Sum(x, t[a])
OaccHeld(a) == oacc[a] = [e \in Held(a, Elem) |-> OHolds(a, e[1])]

LaneHolds(a) ==
  /\ QHeld(a) /\ FragHeld(a) /\ KVHeld(a) /\ StageHeld(a)
  /\ StripHeld(a) /\ RowHeld(a) /\ PHeld(a)
  /\ StateHeld(a) /\ AlphaHeld(a) /\ OaccHeld(a)

\* Each element of the output is unwritten until the lane that stores it has
\* done so, and so is each log-sum-exp.
Past == {"staged"} \cup Storing
OHeld ==
  \A x \in 0 .. Br - 1, d \in Elem :
    i0 + x < N /\ pc[(x * Dim + d) % Threads] # "done" => o[i0 + x][d] = Unwritten
LseHeld ==
  \A a \in Thread : StoresLse(a) /\ pc[a] \notin Past => lse[i_of(a)] = Unwritten

BlockOK == Launch /\ Control /\ Shapes
LanesHold == \A a \in Thread : LaneHolds(a)
StripInv == BlockOK /\ LanesHold /\ OHeld /\ LseHeld
-------------------------------------------------------------------------------
(* The geometry of lanes, warps and strips.                                *)

\* Quotient and remainder, as the facts the solvers need of them.
LEMMA Division ==
  ASSUME NEW x \in Nat, NEW n \in Nat \ {0}
  PROVE  /\ x \div n \in Nat /\ x % n \in 0 .. n - 1
         /\ x = n * (x \div n) + (x % n)
  OBVIOUS

LEMMA Multiples ==
  ASSUME NEW k \in Nat, NEW x \in Nat
  PROVE  /\ k * x \in Nat /\ k * x = x * k /\ (x + 1) * k = x * k + k
         /\ (2 * k) * x = 2 * (x * k)
         /\ \A y \in Nat : x <= y => k * x <= k * y
  OBVIOUS

\* They are the only ones.
LEMMA DivisionUnique ==
  ASSUME NEW n \in Nat \ {0}, NEW k \in Nat, NEW d \in 0 .. n - 1
  PROVE  (k * n + d) \div n = k /\ ((k * n + d) % n) = d /\ k * n + d \in Nat
<1>. DEFINE x == k * n + d
<1>1. x \div n = k
  BY Quotient
<1>2. x \in Nat /\ n * k = k * n /\ k * n \in Nat /\ x = k * n + d
  BY Multiples
<1>. HIDE DEF x
<1>3. x = n * (x \div n) + (x % n) /\ (x % n) \in 0 .. n - 1
  BY <1>2, Division
<1>4. (x % n) = d
  BY <1>1, <1>2, <1>3
<1>. QED
  BY <1>1, <1>2, <1>4 DEF x

\* The block's lanes are whole warps, two lanes to a row.
LEMMA LaunchFacts ==
  ASSUME Launch
  PROVE  /\ strip_rows \in Nat \ {0} /\ strip_rows <= Br /\ Lanes \in Nat \ {0}
         /\ Lanes = 2 * strip_rows
         /\ Br \in Nat \ {0} /\ Threads = 2 * Br
         /\ Threads \div Lanes \in Nat \ {0}
         /\ Threads = Lanes * (Threads \div Lanes)
         /\ bc \in Nat \ {0} /\ bc <= Dim /\ bc % 2 = 0
         /\ i0 \in Nat /\ i0 < N /\ causal \in BOOLEAN
         /\ score \in [0 .. N - 1 -> [0 .. N - 1 -> Int]]
         /\ \A x \in 0 .. Br - 1 : x \in Nat
         /\ \A c \in Slot : c \in 0 .. bc - 1 /\ c \in Nat
<1>1. strip_rows \in 1 .. Br /\ Threads % Lanes = 0 /\ bc \in 1 .. Dim /\ bc % 2 = 0
  BY DEF Launch, Lanes
<1>2. Br \in Nat /\ strip_rows \in Nat \ {0} /\ Lanes \in Nat \ {0}
  BY <1>1 DEF Br, Lanes
<1>3. /\ Threads \div Lanes \in Nat
      /\ Threads = Lanes * (Threads \div Lanes)
  BY <1>1, <1>2, Division
<1>4. Threads \div Lanes # 0
  BY <1>2, <1>3
<1>5. Threads = 2 * (strip_rows * (Threads \div Lanes))
  BY <1>2, <1>3 DEF Lanes
<1>6. Threads = 2 * Br
  BY <1>3, <1>5, <1>2 DEF Br
<1>7. /\ \A x \in 0 .. Br - 1 : x \in Nat
      /\ \A c \in Slot : c \in 0 .. bc - 1 /\ c \in Nat
  BY <1>1, <1>2 DEF Slot
<1>. QED
  BY <1>1, <1>2, <1>3, <1>4, <1>6, <1>7 DEF Launch, Lanes

\* A lane, its row, its half and its warp.
LEMMA LaneFacts ==
  ASSUME Launch, NEW a \in Thread
  PROVE  /\ a \in Nat /\ r(a) \in 0 .. Br - 1 /\ half(a) \in {0, 1} /\ a = 2 * r(a) + half(a)
         /\ warp(a) \in Warp /\ warp(a) \in Nat /\ (a % Lanes) \in 0 .. Lanes - 1
         /\ a = Lanes * warp(a) + (a % Lanes)
         /\ r(a) \in StripOf(warp(a))
<1>1. /\ a \in Nat /\ a < Threads /\ Lanes \in Nat \ {0} /\ Threads = 2 * Br /\ Br \in Nat
      /\ strip_rows \in Nat \ {0} /\ Lanes = 2 * strip_rows
  BY LaunchFacts DEF Thread
<1>2. r(a) \in 0 .. Br - 1 /\ half(a) \in {0, 1} /\ a = 2 * r(a) + half(a)
  BY <1>1 DEF r, half
<1>3. warp(a) \in Nat /\ (a % Lanes) \in 0 .. Lanes - 1 /\ a = Lanes * warp(a) + (a % Lanes)
  BY <1>1, Division DEF warp
<1>4. warp(a) \in Warp
  <2>1. /\ Threads \div Lanes \in Nat
        /\ Threads = Lanes * (Threads \div Lanes)
    BY LaunchFacts
  <2>2. warp(a) < Threads \div Lanes
    <3>. DEFINE W == Threads \div Lanes
                v == warp(a)
    <3>1. Lanes \in Nat /\ W \in Nat /\ v \in Nat /\ Threads = Lanes * W
          /\ a = Lanes * v + (a % Lanes) /\ (a % Lanes) \in 0 .. Lanes - 1
      BY <1>1, <1>3, <2>1
    <3>. HIDE DEF W, v
    <3>2. W <= v => Lanes * W <= Lanes * v
      BY <3>1, Multiples
    <3>3. Lanes * v \in Nat
      BY <3>1, Multiples
    <3>4. v < W
      BY <1>1, <3>1, <3>2, <3>3
    <3>. QED
      BY <3>4 DEF v, W
  <2>. QED
    BY <1>3, <2>1, <2>2 DEF Warp
<1>5. r(a) \in StripOf(warp(a))
  <2>. DEFINE w == warp(a)
              q == a % Lanes
  <2>1. w \in Nat /\ q \in 0 .. Lanes - 1 /\ a = Lanes * w + q
    BY <1>3 DEF w, q
  <2>. HIDE DEF w, q
  <2>2. w * strip_rows \in Nat /\ Lanes * w = 2 * (w * strip_rows)
        /\ (w + 1) * strip_rows = w * strip_rows + strip_rows
    BY <1>1, <2>1, Multiples
  <2>3. 2 * (w * strip_rows) + q = 2 * r(a) + half(a)
    BY <1>2, <2>1, <2>2
  <2>4. r(a) \in Nat /\ w * strip_rows <= r(a) /\ r(a) <= w * strip_rows + strip_rows - 1
    BY <1>1, <1>2, <2>1, <2>2, <2>3
  <2>5. r(a) \in StripOf(w)
    BY <1>1, <2>2, <2>4 DEF StripOf
  <2>. QED
    BY <2>5 DEF w
<1>. QED
  BY <1>1, <1>2, <1>3, <1>4, <1>5

\* The two lanes of a row of a strip, in the strip's warp.
LEMMA RowLanes ==
  ASSUME Launch, NEW w \in Warp, NEW x \in StripOf(w)
  PROVE  /\ x \in 0 .. Br - 1
         /\ \A h \in {0, 1} : /\ 2 * x + h \in LanesOf(w) /\ 2 * x + h \in Thread
                              /\ warp(2 * x + h) = w
                              /\ r(2 * x + h) = x /\ half(2 * x + h) = h
         /\ 2 * x \in LanesOf(w) /\ 2 * x \in Thread /\ r(2 * x) = x /\ warp(2 * x) = w
<1>. DEFINE W == Threads \div Lanes
<1>1. /\ strip_rows \in Nat \ {0} /\ Lanes = 2 * strip_rows /\ Lanes \in Nat \ {0}
      /\ Br \in Nat /\ Threads = 2 * Br /\ W \in Nat \ {0} /\ Threads = Lanes * W
  BY LaunchFacts
<1>2. w \in Nat /\ w + 1 <= W
  BY <1>1 DEF Warp
<1>. HIDE DEF W
<1>3. /\ w * strip_rows \in Nat /\ Lanes * w = 2 * (w * strip_rows)
      /\ (w + 1) * strip_rows = w * strip_rows + strip_rows
  BY <1>1, <1>2, Multiples
<1>4. x \in Nat /\ w * strip_rows <= x /\ x <= w * strip_rows + strip_rows - 1
  BY <1>1, <1>3 DEF StripOf
<1>5. (w + 1) * strip_rows <= Br
  <2>1. (w + 1) * strip_rows <= W * strip_rows
    BY <1>1, <1>2
  <2>2. Lanes * W = 2 * (W * strip_rows) /\ W * strip_rows \in Nat
    BY <1>1
  <2>. QED
    BY <1>1, <1>3, <2>1, <2>2
<1>6. x \in 0 .. Br - 1
  BY <1>1, <1>3, <1>4, <1>5
<1>7. ASSUME NEW h \in {0, 1}
      PROVE  /\ 2 * x + h \in LanesOf(w) /\ 2 * x + h \in Thread /\ warp(2 * x + h) = w
             /\ r(2 * x + h) = x /\ half(2 * x + h) = h
  <2>1. 2 * x + h \in Thread
    BY <1>1, <1>6 DEF Thread
  <2>2. r(2 * x + h) = x /\ half(2 * x + h) = h
    BY <1>4 DEF r, half
  <2>. DEFINE d == 2 * x + h - 2 * (w * strip_rows)
  <2>3. d \in 0 .. Lanes - 1
    BY <1>1, <1>3, <1>4
  <2>4. 2 * x + h = w * Lanes + d
    BY <1>1, <1>2, <1>3, <1>4
  <2>. HIDE DEF d
  <2>5. (w * Lanes + d) \div Lanes = w
    BY <1>1, <1>2, <2>3, DivisionUnique
  <2>6. warp(2 * x + h) = w
    BY <2>4, <2>5 DEF warp
  <2>. QED
    BY <2>1, <2>2, <2>6 DEF LanesOf
<1>8. 2 * x + 0 = 2 * x
  BY <1>4
<1>. QED
  BY <1>6, <1>7, <1>8

\* Strips of different warps share no row.
LEMMA StripsDisjoint ==
  ASSUME Launch, NEW v \in Warp, NEW w \in Warp, NEW x \in StripOf(v), x \in StripOf(w)
  PROVE  v = w
  BY RowLanes

\* Every element of a strip is held by a lane of its warp, and by one only.
LEMMA HeldByOne ==
  ASSUME Launch, NEW cols \in SUBSET Elem
  PROVE  /\ \A w \in Warp : \A x \in StripOf(w), c \in cols :
              \E b \in LanesOf(w) : <<x, c>> \in Held(b, cols)
         /\ \A a, b \in Thread, more \in SUBSET Elem :
              a # b => Held(a, cols) \cap Held(b, more) = {}
         /\ \A a \in Thread : Held(a, cols) \subseteq StripOf(warp(a)) \X cols
<1>1. /\ strip_rows \in Nat \ {0} /\ Lanes = 2 * strip_rows /\ Lanes \in Nat \ {0}
      /\ strip_rows \in StripChoices
  BY LaunchFacts DEF Launch
<1>2. ASSUME NEW w \in Warp, NEW x \in StripOf(w), NEW c \in cols
      PROVE  \E b \in LanesOf(w) : <<x, c>> \in Held(b, cols)
  <2>. DEFINE h == Holder[strip_rows][x % strip_rows][c]
              b == w * Lanes + h
  <2>1. x \in Nat /\ w \in Nat /\ c \in 0 .. Dim - 1
    BY RowLanes, LaunchFacts DEF Warp, Elem
  <2>2. x % strip_rows \in 0 .. strip_rows - 1
    BY <1>1, <2>1
  <2>3. h \in 0 .. Lanes - 1
    BY <1>1, <2>1, <2>2
  <2>. HIDE DEF h
  <2>4. b \div Lanes = w /\ b % Lanes = h /\ b \in Nat
    <3>1. Lanes \in Nat \ {0} /\ w \in Nat /\ h \in 0 .. Lanes - 1
      BY <1>1, <2>1, <2>3
    <3>. QED
      BY ONLY <3>1, DivisionUnique
  <2>5. b \in Thread
    <3>. DEFINE W == Threads \div Lanes
    <3>1. W \in Nat /\ Threads = Lanes * W /\ w + 1 <= W
      BY LaunchFacts DEF Warp
    <3>. HIDE DEF W
    <3>2. Lanes * (w + 1) <= Lanes * W /\ Lanes * (w + 1) = w * Lanes + Lanes
      BY <1>1, <2>1, <3>1, Multiples
    <3>3. w * Lanes \in Nat
      BY <1>1, <2>1, Multiples
    <3>4. w * Lanes + h < Threads
      BY <1>1, <2>3, <3>1, <3>2, <3>3
    <3>. QED
      BY <2>3, <3>3, <3>4 DEF Thread
  <2>. HIDE DEF b
  <2>6. b \in LanesOf(w) /\ warp(b) = w
    BY <2>4, <2>5 DEF LanesOf, warp
  <2>7. <<x, c>> \in Held(b, cols)
    BY <2>4, <2>6 DEF Held, h
  <2>. QED
    BY <2>6, <2>7
<1>3. \A a \in Thread : Held(a, cols) \subseteq StripOf(warp(a)) \X cols
  BY DEF Held
<1>4. ASSUME NEW a \in Thread, NEW b \in Thread, NEW more \in SUBSET Elem, a # b,
             NEW e \in Held(a, cols) \cap Held(b, more)
      PROVE  FALSE
  <2>1. /\ e[1] \in StripOf(warp(a)) /\ e[1] \in StripOf(warp(b))
        /\ Holder[strip_rows][e[1] % strip_rows][e[2]] = a % Lanes
        /\ Holder[strip_rows][e[1] % strip_rows][e[2]] = b % Lanes
    BY DEF Held
  <2>2. warp(a) = warp(b)
    BY <2>1, LaneFacts, StripsDisjoint
  <2>3. /\ a = Lanes * warp(a) + (a % Lanes)
        /\ b = Lanes * warp(b) + (b % Lanes)
    BY LaneFacts
  <2>4. a = b
    <3>1. a % Lanes = b % Lanes
      BY <2>1
    <3>. HIDE DEF Thread
    <3>. QED
      BY <2>2, <2>3, <3>1, Zenon
  <2>. QED
    BY <2>4, <1>4
<1>. QED
  BY <1>2, <1>3, <1>4

\* The halves of a row: every element is in one lane's, and in one only.
LEMMA HalvesOfRow ==
  ASSUME Launch, NEW n \in Nat, n % 2 = 0
  PROVE  /\ \A c \in 0 .. n - 1 : \E h \in {0, 1} :
              \A a \in Thread : half(a) = h => c \in HalfOf(a, n)
         /\ \A a \in Thread : HalfOf(a, n) \subseteq 0 .. n - 1
         /\ \A a, b \in Thread : half(a) # half(b) => HalfOf(a, n) \cap HalfOf(b, n) = {}
         /\ \A a, b \in Thread : half(a) = half(b) => HalfOf(a, n) = HalfOf(b, n)
<1>1. ASSUME NEW c \in 0 .. n - 1
      PROVE  c \div (n \div 2) \in {0, 1}
  <2>. DEFINE k == n \div 2
              q == c \div k
  <2>1. n = 2 * k /\ k \in Nat \ {0} /\ c \in Nat
    OBVIOUS
  <2>. HIDE DEF k
  <2>2. q \in Nat /\ k * q <= c
    BY <2>1
  <2>. HIDE DEF q
  <2>3. 2 <= q => k * 2 <= k * q
    BY <2>1, <2>2
  <2>4. k * q \in Nat
    BY <2>1, <2>2
  <2>5. q < 2
    BY <2>1, <2>2, <2>3, <2>4
  <2>. QED
    BY <2>2, <2>5 DEF k, q
<1>2. \A c \in 0 .. n - 1 : \E h \in {0, 1} :
        \A a \in Thread : half(a) = h => c \in HalfOf(a, n)
  BY <1>1 DEF HalfOf
<1>. QED
  BY <1>2 DEF HalfOf

\* Both lanes of a row, and a lane's partner.
LEMMA PartnerFacts ==
  ASSUME Launch, NEW a \in Thread
  PROVE  /\ partner(a) \in Thread /\ warp(partner(a)) = warp(a) /\ r(partner(a)) = r(a)
         /\ half(partner(a)) # half(a)
<1>1. /\ half(a) \in {0, 1} /\ r(a) \in Nat /\ a = 2 * r(a) + half(a)
      /\ warp(a) \in Warp /\ r(a) \in StripOf(warp(a))
  BY LaneFacts, LaunchFacts
<1>2. partner(a) = 2 * r(a) + (1 - half(a)) /\ 1 - half(a) \in {0, 1}
  BY <1>1 DEF partner
<1>. HIDE DEF Launch
<1>3. 1 - half(a) # half(a)
  BY <1>1
<1>. QED
  BY <1>1, <1>2, <1>3, RowLanes

\* Lanes that agree on row and half are one.
LEMMA LaneByHalf ==
  ASSUME Launch, NEW a \in Thread, NEW b \in Thread, r(a) = r(b), half(a) = half(b)
  PROVE  a = b
  BY LaneFacts

-------------------------------------------------------------------------------
(* A row over the tiles.                                                   *)

LEMMA RowFacts ==
  ASSUME Launch, NEW x \in 0 .. Br - 1
  PROVE  /\ DOMAIN Scores(x) = Key /\ \A k \in Key : Scores(x)[k] \in Int
         /\ Vis(x) \in SUBSET (0 .. N - 1) /\ 0 \in Vis(x)
         /\ \A n : Seen(x, n) = {k \in Vis(x) : k < j0(n)}
         /\ \A n : /\ Bounded(Seen(x, n)) /\ Seen(x, n) \in SUBSET (0 .. N - 1)
                   /\ \A k \in Seen(x, n) : Scores(x)[k] \in Int
<1>1. x \in Nat /\ i0 \in Nat /\ score \in [0 .. N - 1 -> [0 .. N - 1 -> Int]]
  BY LaunchFacts
<1>2. QRow(x) # Undef
  <2>1. QRow(x) \in [q : Int \cup {Pad}]
    BY <1>1 DEF QRow
  <2>. QED
    BY <2>1
<1>3. \A k \in Key : ScoreOf(x, k) \in Int
  <2>. TAKE k \in Key
  <2>1. k \in 0 .. N - 1 /\ k \in Int /\ k # Pad /\ k # Undef
    BY DEF Key
  <2>2. CASE i0 + x < N
    <3>1. QRow(x).q = i0 + x /\ i0 + x \in 0 .. N - 1
      BY <1>1, <2>2 DEF QRow
    <3>. QED
      BY <1>1, <1>2, <2>1, <3>1 DEF ScoreOf, Dot
  <2>3. CASE ~ (i0 + x < N)
    <3>1. QRow(x).q = Pad
      BY <2>3 DEF QRow
    <3>. QED
      BY <1>2, <2>1, <3>1 DEF ScoreOf, Dot
  <2>. QED
    BY <2>2, <2>3
<1>4. Vis(x) \in SUBSET (0 .. N - 1) /\ 0 \in Vis(x)
  BY <1>1 DEF Vis, Key
<1>5. \A n : Seen(x, n) = {k \in Vis(x) : k < j0(n)}
  BY DEF Seen, Vis
<1>6. ASSUME NEW n
      PROVE  /\ Bounded(Seen(x, n)) /\ Seen(x, n) \in SUBSET (0 .. N - 1)
             /\ \A k \in Seen(x, n) : ScoreOf(x, k) \in Int
  <2>1. \A k \in Seen(x, n) : k \in Nat /\ k < N /\ k \in Key
    BY <1>4, <1>5 DEF Key
  <2>. QED
    BY <1>3, <2>1 DEF Bounded
<1>. QED
  BY <1>3, <1>4, <1>5, <1>6 DEF Scores, Key

\* The row's maximum is the maximum of the keys seen.
LEMMA TopFacts ==
  ASSUME Launch, NEW x \in 0 .. Br - 1, NEW n
  PROVE  /\ MaxOver(TopOf(x, n), Seen(x, n), Scores(x))
         /\ TopOf(x, n) \in Score
         /\ Seen(x, n) = {} <=> TopOf(x, n) = NegInf
<1>1. Bounded(Seen(x, n)) /\ \A k \in Seen(x, n) : Scores(x)[k] \in Int
  BY RowFacts
<1>. QED
  BY <1>1, MaxIsMaxOf DEF TopOf

LEMMA TileStart ==
  ASSUME Launch, NEW n \in Nat
  PROVE  j0(n) \in Nat /\ j0(n + 1) = j0(n) + bc /\ j0(0) = 0
<1>1. bc \in Nat
  BY LaunchFacts
<1>2. n * bc \in Nat /\ (n + 1) * bc = n * bc + bc /\ 0 * bc = 0
  BY <1>1, Multiples
<1>. QED
  BY <1>2 DEF j0

\* Tile n shows a row its visible keys, and with the first tile it has seen one.
TileKeys(x, n) == Within(bc, j0(n), Vis(x))

LEMMA NextSeen ==
  ASSUME Launch, NEW x \in 0 .. Br - 1, NEW n \in Nat
  PROVE  /\ Seen(x, n + 1) = Seen(x, n) \cup TileKeys(x, n)
         /\ Seen(x, n) \cap TileKeys(x, n) = {}
         /\ Seen(x, n + 1) # {}
         /\ Seen(x, 0) = {}
         /\ TileKeys(x, n) \in SUBSET (0 .. N - 1)
<1>1. /\ bc \in Nat \ {0} /\ j0(n) \in Nat /\ j0(n + 1) = j0(n) + bc /\ j0(0) = 0
  BY LaunchFacts, TileStart
<1>2. /\ \A k \in Vis(x) : k \in Nat
      /\ 0 \in Vis(x) /\ Vis(x) \in SUBSET (0 .. N - 1)
      /\ Seen(x, n) = {k \in Vis(x) : k < j0(n)}
      /\ Seen(x, n + 1) = {k \in Vis(x) : k < j0(n + 1)}
      /\ Seen(x, 0) = {k \in Vis(x) : k < j0(0)}
  <2>1. \A k \in 0 .. N - 1 : k \in Nat
    OBVIOUS
  <2>. QED
    BY RowFacts, <2>1
<1>3. \A k \in Vis(x) : /\ ~ (k < j0(n) /\ j0(n) <= k)
                        /\ k < j0(n + 1) <=> k < j0(n) \/ (j0(n) <= k /\ k < j0(n) + bc)
                        /\ ~ (k < j0(0))
  BY <1>1, <1>2
<1>4. 0 < j0(n + 1)
  BY <1>1
<1>. QED
  BY <1>1, <1>2, <1>3, <1>4 DEF TileKeys, Within

\* The maximum over one tile more is the only maximum of the candidates.
LEMMA NextTop ==
  ASSUME Launch, NEW x \in 0 .. Br - 1, NEW n \in Nat
  PROVE  /\ TopOf(x, n + 1) \in Int
         /\ \A numbers : Candidates(numbers, TopOf(x, n), Scores(x), TileKeys(x, n)) =>
              {y \in numbers : IsMax(y, numbers)} = {TopOf(x, n + 1)}
<1>. DEFINE S == Seen(x, n)
            T == TileKeys(x, n)
            f == Scores(x)
<1>1. /\ Seen(x, n + 1) = S \cup T /\ S \cup T # {}
      /\ Bounded(S \cup T)
      /\ \A k \in S \cup T : f[k] \in Int
  <2>1. Seen(x, n + 1) = S \cup T /\ Seen(x, n + 1) # {}
    BY NextSeen
  <2>2. Bounded(Seen(x, n + 1)) /\ \A k \in Seen(x, n + 1) : f[k] \in Int
    BY RowFacts
  <2>. QED
    BY <2>1, <2>2
<1>2. ASSUME NEW numbers, Candidates(numbers, TopOf(x, n), Scores(x), TileKeys(x, n))
      PROVE  {y \in numbers : IsMax(y, numbers)} = {TopOf(x, n + 1)}
  <2>1. TopOf(x, n) = MaxOf(S, f) /\ TopOf(x, n + 1) = MaxOf(S \cup T, f)
    BY <1>1 DEF TopOf
  <2>2. Candidates(numbers, MaxOf(S, f), f, T)
    BY <1>2, <2>1
  <2>3. Bounded(S \cup T) /\ S \cup T # {} /\ \A k \in S \cup T : f[k] \in Int
    BY <1>1
  <2>. HIDE DEF S, T, f
  <2>4. /\ MaxOf(S \cup T, f) \in numbers
        /\ \A y \in numbers : IsMax(y, numbers) <=> y = MaxOf(S \cup T, f)
    BY <2>2, <2>3, NextMaxOf
  <2>. QED
    BY <2>1, <2>4
<1>3. TopOf(x, n + 1) \in Int
  BY <1>1, TopFacts DEF MaxOver, Values
<1>. QED
  BY <1>2, <1>3

\* Rescaled, the sum of the tiles seen is relative to the new maximum, and
\* with the tile's terms it is the next sum.
LEMMA NextSumOf ==
  ASSUME Launch, NEW x \in 0 .. Br - 1, NEW n \in Nat
  PROVE  /\ Scale(Sum(x, n), Alpha(x, n).by) = Moved(x, n)
         /\ AddTerms(Moved(x, n), SumOver(TileKeys(x, n), Scores(x), TopOf(x, n + 1)))
              = Sum(x, n + 1)
<1>. DEFINE S == Seen(x, n)
            T == TileKeys(x, n)
            f == Scores(x)
            old == TopOf(x, n)
            new == TopOf(x, n + 1)
<1>1. /\ Seen(x, n + 1) = S \cup T /\ S \cap T = {}
      /\ S \cup T \in SUBSET (0 .. N - 1)
      /\ \A k \in S \cup T : f[k] \in Int
      /\ new \in Int /\ old \in Score
      /\ S = {} <=> old = NegInf
  <2>1. Seen(x, n + 1) = S \cup T /\ S \cap T = {}
    BY NextSeen
  <2>2. S \cup T \in SUBSET (0 .. N - 1) /\ \A k \in S \cup T : f[k] \in Int
    BY <2>1, RowFacts
  <2>. QED
    BY <2>1, <2>2, NextTop, TopFacts
<1>. HIDE DEF S, T, f, old, new
<1>2. NaN \notin S \cup T
  BY <1>1
<1>3. S # {} => old \in Int
  BY <1>1 DEF Score
<1>4. Scale(SumOver(S, f, old), rescale_alpha(old, new)) = SumOver(S, f, new)
  BY <1>1, <1>2, <1>3, RescaledSum
<1>5. AddTerms(SumOver(S, f, new), SumOver(T, f, new)) = SumOver(S \cup T, f, new)
  BY <1>1, <1>2, AddedSum
<1>. QED
  BY <1>1, <1>4, <1>5 DEF Sum, Moved, Alpha, S, T, f, old, new

\* Where the vote may skip the rescale, the rescale is the identity.
LEMMA SkipIsIdentity ==
  ASSUME Launch, NEW x \in 0 .. Br - 1, NEW n \in Nat, Alpha(x, n).trivial
  PROVE  Moved(x, n) = Sum(x, n)
<1>1. /\ TopOf(x, n) \in Score /\ TopOf(x, n + 1) \in Int
      /\ Seen(x, n) = {} <=> TopOf(x, n) = NegInf
  BY TopFacts, NextTop
<1>2. CASE TopOf(x, n) = NegInf
  BY <1>1, <1>2 DEF Moved, Sum, SumOver
<1>3. CASE TopOf(x, n) # NegInf
  <2>1. TopOf(x, n) \in Int /\ rescale_alpha(TopOf(x, n), TopOf(x, n + 1)) = 0
    BY <1>1, <1>3 DEF Alpha, Score
  <2>2. TopOf(x, n) - TopOf(x, n + 1) = 0
    BY <1>1, <2>1 DEF rescale_alpha, exp2_scaled
  <2>3. TopOf(x, n) = TopOf(x, n + 1)
    BY <1>1, <2>1, <2>2
  <2>. QED
    BY <2>3 DEF Moved, Sum
<1>. QED
  BY <1>2, <1>3

\* A slot is masked exactly when its row does not see its key: the test that
\* skips masking for the whole tile skips nothing a row must not see.
LEMMA MaskIsHidden ==
  ASSUME Launch, NEW a \in Thread, NEW n \in Nat, NEW c \in Slot
  PROVE  /\ Masked(a, n, c) <=> j0(n) + c \notin Vis(r(a))
         /\ Masked(a, n, c) => NeedsMask(n)
<1>1. /\ bc \in Nat \ {0} /\ j0(n) \in Nat /\ c \in 0 .. bc - 1 /\ i0 \in Nat /\ r(a) \in Nat
      /\ causal \in BOOLEAN
  BY LaunchFacts, LaneFacts, TileStart
<1>2. Masked(a, n, c) <=> j0(n) + c >= N \/ (causal /\ j0(n) + c > i0 + r(a))
  BY DEF Masked, i_of
<1>3. j0(n) + c \in Vis(r(a)) <=> j0(n) + c < N /\ (causal => j0(n) + c <= i0 + r(a))
  <2>1. j0(n) + c \in Key <=> j0(n) + c < N
    BY <1>1 DEF Key
  <2>. QED
    BY <2>1 DEF Vis
<1>4. NeedsMask(n) <=> Min2(bc, N - j0(n)) < bc \/ (causal /\ j0(n) + bc - 1 > i0)
  BY DEF NeedsMask, rows_kv
<1>5. Masked(a, n, c) => NeedsMask(n)
  BY <1>1, <1>2, <1>4 DEF Min2
<1>6. Masked(a, n, c) <=> ~ (j0(n) + c < N /\ (causal => j0(n) + c <= i0 + r(a)))
  BY <1>1, <1>2
<1>. QED
  BY <1>3, <1>5, <1>6

\* The row of a slot of a tile, and the score there.
LEMMA ShownFacts ==
  ASSUME Launch, NEW x \in 0 .. Br - 1, NEW n \in Nat, NEW c \in Slot
  PROVE  /\ TileRow(n, c) \in Key \cup {Pad}
         /\ Shown(x, c, n) \in Score
         /\ j0(n) + c \in Vis(x) =>
              /\ TileRow(n, c) = j0(n) + c
              /\ Dot(QRow(x), TileRow(n, c)) = Shown(x, c, n)
<1>1. /\ bc \in Nat \ {0} /\ j0(n) \in Nat /\ c \in 0 .. bc - 1 /\ c \in Nat
  BY LaunchFacts, TileStart
<1>2. TileRow(n, c) \in Key \cup {Pad}
  BY <1>1 DEF TileRow, Key
<1>3. j0(n) + c \in Vis(x) => j0(n) + c \in Key /\ j0(n) + c < N
  BY RowFacts, <1>1 DEF Key
<1>. QED
  BY <1>2, <1>3, RowFacts DEF Shown, TileRow, Scores, ScoreOf, Score

\* The terms of a tile, as the weights stand in the strip or in registers.
LEMMA TermsOfTile ==
  ASSUME Launch, NEW x \in 0 .. Br - 1, NEW n \in Nat,
         NEW key, key = [c \in Slot |-> TileRow(n, c)],
         NEW p, p = [c \in Slot |-> p_from_score(Shown(x, c, n), TopOf(x, n + 1))]
  PROVE  /\ RowTerms(key, p) = SumOver(TileKeys(x, n), Scores(x), TopOf(x, n + 1))
         /\ OutputTerms(key, p) = SumOver(TileKeys(x, n), Scores(x), TopOf(x, n + 1))
<1>. DEFINE y == TopOf(x, n + 1)
<1>1. /\ bc \in Nat /\ j0(n) \in Nat /\ y \in Int /\ N \in Nat
      /\ Vis(x) \in SUBSET (0 .. N - 1) /\ \A k \in Vis(x) : Scores(x)[k] \in Int
  <2>1. \A k \in Vis(x) : k \in Key
    BY RowFacts DEF Key
  <2>. QED
    BY <2>1, LaunchFacts, TileStart, NextTop, RowFacts
<1>. HIDE DEF y
<1>2. key = KeySlots(bc, j0(n), N)
  BY DEF KeySlots, Slot, TileRow
<1>3. p = WeightSlots(bc, j0(n), Vis(x), Scores(x), y)
  <2>1. \A c \in Slot : p_from_score(Shown(x, c, n), y)
          = IF j0(n) + c \in Vis(x) THEN Scores(x)[j0(n) + c] - y ELSE Zero
    <3>. TAKE c \in Slot
    <3>1. y # NegInf
      BY <1>1
    <3>2. CASE j0(n) + c \in Vis(x)
      <4>1. Shown(x, c, n) \in Int /\ Shown(x, c, n) = Scores(x)[j0(n) + c]
        BY <1>1, <3>2 DEF Shown
      <4>2. Shown(x, c, n) # NegInf
        BY <4>1
      <4>. QED
        BY <3>1, <3>2, <4>1, <4>2 DEF p_from_score, exp2_scaled
    <3>3. CASE j0(n) + c \notin Vis(x)
      BY <3>1, <3>3 DEF Shown, p_from_score, exp2_scaled
    <3>. QED
      BY <3>2, <3>3
  <2>2. p = [c \in Slot |-> IF j0(n) + c \in Vis(x) THEN Scores(x)[j0(n) + c] - y ELSE Zero]
    BY <2>1 DEF y
  <2>. QED
    BY <2>2 DEF WeightSlots, Slot
<1>4. RowTerms(key, p) = SumOver(TileKeys(x, n), Scores(x), y)
        /\ OutputTerms(key, p) = SumOver(TileKeys(x, n), Scores(x), y)
  <2>. DEFINE T    == TileKeys(x, n)
              V    == Vis(x)
              f    == Scores(x)
              base == j0(n)
  <2>1. /\ T = Within(bc, base, V) /\ key = KeySlots(bc, base, N)
        /\ p = WeightSlots(bc, base, V, f, y)
        /\ base \in Nat /\ \A k \in V : k \in Nat /\ k < N
        /\ \A k \in V : f[k] \in Int
    BY <1>1, <1>2, <1>3 DEF TileKeys
  <2>2. N \in Nat /\ bc \in Nat /\ y \in Int
    BY <1>1
  <2>. HIDE DEF T, V, f, base
  <2>3. RowTerms(key, p) = SumOver(T, f, y) /\ OutputTerms(key, p) = SumOver(T, f, y)
    BY ONLY <2>1, <2>2, MemoryAssumption, SentinelAssumption, TileTerms
  <2>. QED
    BY <2>3 DEF T, f
<1>. QED
  BY <1>4 DEF y

\* Behind the loop a row has seen all it may see, and what it computes from
\* its state is its result.
LEMMA FinishedRow ==
  ASSUME Launch, NEW x \in 0 .. Br - 1, i0 + x < N, NEW n \in Nat, n_tiles <= n
  PROVE  /\ NormalisedRow(Sum(x, n), Sum(x, n)) = Promise!SoftmaxRow(i0 + x)
         /\ finalize_lse(TopOf(x, n), Sum(x, n)) = Promise!LseRow(i0 + x)
<1>1. bc \in Nat \ {0} /\ i0 \in Nat /\ x \in Nat /\ causal \in BOOLEAN
  BY LaunchFacts
<1>2. Seen(x, n) = Vis(x)
  <2>0. Br \in Nat /\ x < Br
    BY <1>1, LaunchFacts
  <2>1. kv_end \in Nat /\ \A k \in Vis(x) : k \in Nat /\ k < kv_end
    BY <1>1, <2>0 DEF Vis, Key, kv_end, Min2
  <2>2. kv_end <= j0(n) /\ j0(n) \in Nat
    BY <1>1, <2>1, TilesReach, TileStart DEF n_tiles, j0
  <2>3. \A k \in Vis(x) : k < j0(n)
    BY <2>1, <2>2
  <2>4. Seen(x, n) = {k \in Vis(x) : k < j0(n)}
    BY RowFacts
  <2>. QED
    BY <2>3, <2>4
<1>. DEFINE V == Vis(x)
            f == Scores(x)
            y == TopOf(x, n)
<1>3. V # {} /\ NaN \notin V /\ \A k \in V : f[k] \in Int
  BY RowFacts DEF Key
<1>4. y \in Int
  BY <1>2, <1>3, TopFacts DEF MaxOver, Values
<1>5. Sum(x, n) = SumOver(V, f, y)
  BY <1>2 DEF Sum
<1>6. V = Promise!Visible(i0 + x)
  BY DEF Vis, Key, Promise!Visible, Promise!Key
<1>7. \A k \in V : f[k] = score[i0 + x][k]
  <2>. TAKE k \in V
  <2>1. k \in Key /\ k # Pad /\ k # Undef
    BY RowFacts DEF Vis, Key
  <2>2. QRow(x) \in [q : Int \cup {Pad}] /\ QRow(x).q = i0 + x /\ i0 + x # Pad
    BY <1>1 DEF QRow
  <2>. QED
    BY <2>1, <2>2 DEF Scores, ScoreOf, Dot
<1>. HIDE DEF V, f, y
<1>8. /\ NormalisedRow(Sum(x, n), Sum(x, n)) = [k \in V |-> [k2 \in V |-> f[k2] - f[k]]]
      /\ finalize_lse(y, Sum(x, n)) = [k \in V |-> f[k]]
  <2>. DEFINE sum == Sum(x, n)
  <2>1. sum = SumOver(V, f, y)
    BY <1>5
  <2>. HIDE DEF sum
  <2>2. /\ NormalisedRow(sum, sum) = [k \in V |-> [k2 \in V |-> f[k2] - f[k]]]
        /\ finalize_lse(y, sum) = [k \in V |-> f[k]]
    BY <1>3, <1>4, <2>1, FinishedSum
  <2>. QED
    BY <2>2 DEF sum
<1>9. Promise!SoftmaxRow(i0 + x) = [k \in V |-> [k2 \in V |-> f[k2] - f[k]]]
  <2>1. \A k \in V : [k2 \in V |-> score[i0 + x][k2] - score[i0 + x][k]]
                       = [k2 \in V |-> f[k2] - f[k]]
    BY <1>7
  <2>. QED
    BY <1>6, <2>1 DEF Promise!SoftmaxRow
<1>10. Promise!LseRow(i0 + x) = [k \in V |-> f[k]]
  BY <1>6, <1>7 DEF Promise!LseRow
<1>. QED
  BY <1>8, <1>9, <1>10 DEF y
-------------------------------------------------------------------------------
(* The launch and its block stay as they are, and with them all that is a  *)
(* function of them.                                                       *)

LEMMA LaunchKept ==
  ASSUME inputs' = inputs
  PROVE  /\ strip_rows' = strip_rows /\ i0' = i0 /\ causal' = causal /\ bc' = bc
         /\ prefetch' = prefetch /\ score' = score
         /\ Launch' = Launch /\ Lanes' = Lanes /\ Warp' = Warp /\ Slot' = Slot
         /\ rows_q' = rows_q /\ n_tiles' = n_tiles
         /\ \A a : /\ warp(a)' = warp(a) /\ i_of(a)' = i_of(a)
                   /\ row_valid(a)' = row_valid(a) /\ StoresLse(a)' = StoresLse(a)
         /\ \A w : StripOf(w)' = StripOf(w) /\ LanesOf(w)' = LanesOf(w)
         /\ \A a, cols : Held(a, cols)' = Held(a, cols)
         /\ \A x, c : PAddr(x, c)' = PAddr(x, c)
         /\ \A n : j0(n)' = j0(n) /\ rows_kv(n)' = rows_kv(n)
         /\ \A a, n : /\ More(a, n)' = More(a, n) /\ LoopTop(a, n)' = LoopTop(a, n)
         /\ \A a, n, rows : Fetched(a, n, rows)' = Fetched(a, n, rows)
<1>1. /\ strip_rows' = strip_rows /\ i0' = i0 /\ causal' = causal /\ bc' = bc
      /\ prefetch' = prefetch /\ score' = score
  BY DEF inputs
<1>2. Launch' = Launch /\ Lanes' = Lanes /\ Slot' = Slot /\ rows_q' = rows_q
  BY <1>1 DEF Launch, Lanes, Slot, rows_q
<1>3. Warp' = Warp /\ \A a : warp(a)' = warp(a)
  BY <1>2 DEF Warp, warp
<1>4. \A a : i_of(a)' = i_of(a)
  BY <1>1 DEF i_of
<1>5. \A a : row_valid(a)' = row_valid(a) /\ StoresLse(a)' = StoresLse(a)
  BY <1>4 DEF row_valid, StoresLse
<1>6. \A w : StripOf(w)' = StripOf(w) /\ LanesOf(w)' = LanesOf(w)
  BY <1>1, <1>3 DEF StripOf, LanesOf
<1>7. \A a, cols : Held(a, cols)' = Held(a, cols)
  BY <1>1, <1>2, <1>3, <1>6 DEF Held
<1>8. \A x, c : PAddr(x, c)' = PAddr(x, c)
  BY <1>1 DEF PAddr
<1>9. \A n : j0(n)' = j0(n)
  BY <1>1 DEF j0
<1>10. \A n : rows_kv(n)' = rows_kv(n)
  BY <1>1, <1>9 DEF rows_kv
<1>11. n_tiles' = n_tiles
  BY <1>1 DEF n_tiles, kv_end
<1>12. \A a, n : More(a, n)' = More(a, n)
  BY <1>11 DEF More
<1>13. \A a, n : LoopTop(a, n)' = LoopTop(a, n)
  BY <1>1, <1>12 DEF LoopTop
<1>14. \A a, n, rows : Fetched(a, n, rows)' = Fetched(a, n, rows)
  BY <1>1, <1>9 DEF Fetched
<1>. QED
  BY <1>1, <1>2, <1>3, <1>4, <1>5, <1>6, <1>7, <1>8, <1>9, <1>10, <1>11, <1>12, <1>13, <1>14

LEMMA RowsKept ==
  ASSUME inputs' = inputs
  PROVE  /\ \A x : QRow(x)' = QRow(x) /\ Vis(x)' = Vis(x) /\ Scores(x)' = Scores(x)
         /\ \A n, c : TileRow(n, c)' = TileRow(n, c)
         /\ \A x, k : Dot(x, k)' = Dot(x, k)
         /\ \A x, n : /\ TopOf(x, n)' = TopOf(x, n) /\ Sum(x, n)' = Sum(x, n)
                      /\ Moved(x, n)' = Moved(x, n) /\ Alpha(x, n)' = Alpha(x, n)
         /\ \A x, c, n : /\ RawCell(x, c, n)' = RawCell(x, c, n)
                         /\ SCell(x, c, n)' = SCell(x, c, n)
                         /\ WeightCell(x, c, n)' = WeightCell(x, c, n)
         /\ \A x : Promise!SoftmaxRow(x)' = Promise!SoftmaxRow(x)
<1>1. i0' = i0 /\ causal' = causal /\ score' = score /\ \A n : j0(n)' = j0(n)
  BY LaunchKept
<1>2. \A x : QRow(x)' = QRow(x) /\ Vis(x)' = Vis(x)
  BY <1>1 DEF QRow, Vis
<1>3. \A x, k : Dot(x, k)' = Dot(x, k)
  BY <1>1 DEF Dot
<1>4. \A x, k : ScoreOf(x, k)' = ScoreOf(x, k)
  BY <1>2, <1>3 DEF ScoreOf
<1>5. \A x : Scores(x)' = Scores(x)
  BY <1>4 DEF Scores
<1>6. \A n, c : TileRow(n, c)' = TileRow(n, c)
  BY <1>1 DEF TileRow
<1>7. \A x, n : Seen(x, n)' = Seen(x, n)
  BY <1>1 DEF Seen
<1>8. \A x, n : TopOf(x, n)' = TopOf(x, n)
  BY <1>5, <1>7 DEF TopOf
<1>9. \A x, n : Sum(x, n)' = Sum(x, n) /\ Moved(x, n)' = Moved(x, n)
  BY <1>5, <1>7, <1>8 DEF Sum, Moved
<1>10. \A x, n : Alpha(x, n)' = Alpha(x, n)
  BY <1>8 DEF Alpha
<1>11. \A x, c, n : Shown(x, c, n)' = Shown(x, c, n)
  BY <1>1, <1>2, <1>5 DEF Shown
<1>12. \A x, c, n : /\ RawCell(x, c, n)' = RawCell(x, c, n) /\ SCell(x, c, n)' = SCell(x, c, n)
                    /\ WeightCell(x, c, n)' = WeightCell(x, c, n)
  BY <1>2, <1>3, <1>6, <1>8, <1>11 DEF RawCell, SCell, WeightCell
<1>13. \A x : Promise!SoftmaxRow(x)' = Promise!SoftmaxRow(x)
  BY <1>1 DEF Promise!SoftmaxRow, Promise!Visible, Promise!Key
<1>. QED
  BY <1>2, <1>3, <1>5, <1>6, <1>8, <1>9, <1>10, <1>12, <1>13

-------------------------------------------------------------------------------
(* Control: a lane alone never leaves a phase.                             *)

Moves == {<<"loadQ", "qTile">>, <<"fragments", "load">>, <<"load", "raw">>, <<"fetch", "mma">>,
          <<"mma", "sync_S">>, <<"readS", "shfl">>, <<"storeP", "vote">>, <<"storeO", "sync_O">>,
          <<"scaleO", "sync_scaled">>, <<"loadO", "sync_P">>, <<"mmaPV", "war">>,
          <<"stageO", "sync_stage">>, <<"normalise", "staged">>, <<"store", "done">>}
Phases == BlockPhases \cup WarpPhases

LEMMA MovesStay ==
  ASSUME NEW from, NEW to, <<from, to>> \in Moves
  PROVE  /\ from \in Labels /\ to \in Labels
         /\ from # "stageTile" /\ to # "stageTile"
         /\ \A ph \in Phases : from \in ph <=> to \in ph
         /\ to \in Beginning \cup {"fragments"} => from \in Beginning \cup {"fragments"}
<1>. USE DEF Beginning, Loading, Scoring, Reading, Weighing, Voted, Spilling, Scaling, Refilling,
             Adding, Staging, Normalising, Storing, Using, Ending
<1>1. from \in Labels /\ to \in Labels
  BY DEF Labels, BlockPhases, Moves
<1>2. /\ from # "stageTile" /\ to # "stageTile"
      /\ to \in Beginning \cup {"fragments"} => from \in Beginning \cup {"fragments"}
  BY DEF Moves
<1>3. \A ph \in BlockPhases : from \in ph <=> to \in ph
  BY DEF Moves, BlockPhases
<1>4. \A ph \in WarpPhases : from \in ph <=> to \in ph
  BY DEF Moves, WarpPhases
<1>. QED
  BY <1>1, <1>2, <1>3, <1>4 DEF Phases

LEMMA LaneControl ==
  ASSUME Control, inputs' = inputs, NEW a \in Thread, NEW to \in Labels, Go(a, to),
         t' \in [Thread -> Nat], \A b \in Thread : b # a => t'[b] = t[b],
         Round(a)' = Round(a), \A ph \in Phases : at(a) \in ph <=> at(a)' \in ph,
         to \in Beginning \cup {"fragments"} => t'[a] = 0
  PROVE  Control' /\ \A b \in Thread : pc'[b] = IF b = a THEN to ELSE pc[b]
<1>1. \A b \in Thread : pc'[b] = IF b = a THEN to ELSE pc[b]
  BY DEF Control, Go
<1>2. pc' \in [Thread -> Labels]
  BY DEF Control, Go, Labels, BlockPhases
<1>3. \A b \in Thread : b # a => Round(b)' = Round(b) /\ at(b)' = at(b)
  BY <1>1, LaunchKept DEF Round, at
<1>4. \A b \in Thread : Round(b)' = Round(b) /\ \A ph \in Phases : at(b) \in ph <=> at(b)' \in ph
  BY <1>3
<1>5. n_tiles' = n_tiles /\ \A b \in Thread : warp(b)' = warp(b)
  BY LaunchKept
<1>6. \A b, c \in Thread : Round(b)' = Round(c)'
  BY <1>4 DEF Control
<1>7. \A b, c \in Thread, ph \in BlockPhases : at(b)' \in ph => at(c)' \in ph
  BY <1>4 DEF Control, Phases
<1>8. \A b, c \in Thread : warp(b)' = warp(c)' =>
        \A ph \in WarpPhases : at(b)' \in ph => at(c)' \in ph
  BY <1>4, <1>5 DEF Control, Phases
<1>9. \A b \in Thread : /\ pc'[b] \in Beginning \cup {"fragments"} => t'[b] = 0
                        /\ at(b)' \in Beginning \cup Loading \cup Using => Round(b)' < n_tiles
                        /\ at(b)' \in Ending \cup Storing => n_tiles <= Round(b)'
  <2>. TAKE b \in Thread
  <2>1. pc'[b] \in Beginning \cup {"fragments"} => t'[b] = 0
    BY <1>1 DEF Control
  <2>2. \A ph \in BlockPhases : at(b) \in ph <=> at(b)' \in ph
    BY <1>4 DEF Phases
  <2>3. /\ at(b)' \in Beginning \cup Loading \cup Using => at(b) \in Beginning \cup Loading \cup Using
        /\ at(b)' \in Ending \cup Storing => at(b) \in Ending \cup Storing
    BY <2>2 DEF BlockPhases
  <2>. QED
    BY <1>4, <2>1, <2>3 DEF Control
<1>. QED
  BY <1>1, <1>2, <1>5, <1>6, <1>7, <1>8, <1>9 DEF Control, Beginning, Loading, Using, Ending, Storing

LEMMA MoveControl ==
  ASSUME Control, inputs' = inputs, t' = t, NEW a \in Thread, NEW to,
         <<pc[a], to>> \in Moves, Go(a, to)
  PROVE  Control' /\ \A b \in Thread : pc'[b] = IF b = a THEN to ELSE pc[b]
<1>. DEFINE from == pc[a]
<1>1. /\ from \in Labels /\ to \in Labels
      /\ from # "stageTile" /\ to # "stageTile"
      /\ \A ph \in Phases : from \in ph <=> to \in ph
      /\ to \in Beginning \cup {"fragments"} => from \in Beginning \cup {"fragments"}
  BY MovesStay
<1>2. pc'[a] = to
  BY DEF Control, Go
<1>3. Round(a)' = Round(a) /\ at(a) = from /\ at(a)' = to
  BY <1>1, <1>2 DEF Round, at
<1>4. to \in Beginning \cup {"fragments"} => t'[a] = 0
  BY <1>1 DEF Control
<1>5. t' \in [Thread -> Nat] /\ \A b \in Thread : b # a => t'[b] = t[b]
  BY DEF Control
<1>. QED
  BY <1>1, <1>3, <1>4, <1>5, LaneControl

\* While one lane uses a tile the whole block uses that tile, and before the
\* first tile no lane has passed it.
LEMMA BlockTogether ==
  ASSUME Control, NEW a \in Thread, NEW b \in Thread
  PROVE  /\ pc[a] \in Using => pc[b] \in Using /\ t[b] = t[a]
         /\ pc[a] \in Beginning => pc[b] \in Beginning /\ t[b] = 0
         /\ pc[a] = "fragments" => pc[b] \in Loading /\ t[b] = 0
<1>. USE DEF Beginning, Loading, Scoring, Reading, Weighing, Voted, Spilling, Scaling, Refilling,
             Adding, Using
<1>1. LoopTop(b, t[b] + 1) \in {"stageO", "raw", "load"} /\ t[b] \in Nat /\ t[a] \in Nat
  BY DEF LoopTop, Control
<1>2. Round(a) = Round(b) /\ \A ph \in BlockPhases : at(a) \in ph => at(b) \in ph
  BY DEF Control
<1>3. pc[a] \in Using => pc[b] \in Using /\ t[b] = t[a]
  <2>1. pc[a] \in Using => at(b) \in Using
    BY <1>2 DEF at, BlockPhases
  <2>. QED
    BY <1>1, <1>2, <2>1 DEF Round, at
<1>4. pc[a] \in Beginning => pc[b] \in Beginning
  <2>1. pc[a] \in Beginning => at(b) \in Beginning
    BY <1>2 DEF at, BlockPhases
  <2>. QED
    BY <1>1, <2>1 DEF at
<1>5. pc[a] = "fragments" => pc[b] \in Loading /\ t[b] = 0
  <2>1. pc[a] = "fragments" => at(b) \in Loading /\ t[a] = 0
    BY <1>2 DEF at, BlockPhases, Control
  <2>. QED
    BY <1>1, <1>2, <2>1 DEF Round, at
<1>. QED
  BY <1>3, <1>4, <1>5 DEF Control

\* The lanes of a warp are in one of its phases.
LEMMA WarpTogether ==
  ASSUME Control, NEW a \in Thread, NEW b \in Thread, warp(a) = warp(b),
         NEW ph \in WarpPhases, pc[a] \in ph
  PROVE  pc[b] \in ph \/ (pc[b] = "stageTile" /\ ph = Staging)
<1>. USE DEF WarpPhases, Scoring, Reading, Weighing, Voted, Spilling, Scaling, Refilling, Adding,
             Staging, Normalising
<1>1. LoopTop(b, t[b] + 1) \in {"stageO", "raw", "load"}
  BY DEF LoopTop
<1>2. at(a) = pc[a]
  BY DEF at
<1>3. at(b) \in ph
  BY <1>2 DEF Control
<1>. QED
  BY <1>1, <1>3 DEF at

\* At the barriers of a warp, and of the block, a phase is one call.
LEMMA WarpBarrier ==
  ASSUME Launch, Control, NEW w \in Warp, \A c \in LanesOf(w) : pc[c] \in DOMAIN AfterWarp,
         NEW a \in LanesOf(w), NEW b \in LanesOf(w)
  PROVE  pc[a] = pc[b]
<1>. USE DEF AfterWarp, WarpPhases, Scoring, Reading, Weighing, Voted, Spilling, Scaling,
             Refilling, Adding, Staging, Normalising
<1>1. a \in Thread /\ b \in Thread /\ warp(a) = warp(b)
  BY DEF LanesOf
<1>2. pc[a] \in DOMAIN AfterWarp /\ pc[b] \in DOMAIN AfterWarp
  OBVIOUS
<1>3. \A ph \in WarpPhases : pc[a] \in ph => pc[b] \in ph
  BY <1>1, <1>2, WarpTogether
<1>. QED
  BY <1>2, <1>3

LEMMA BlockBarrier ==
  ASSUME Control, \A c \in Thread : pc[c] \in DOMAIN AfterBlock,
         NEW a \in Thread, NEW b \in Thread
  PROVE  pc[a] = pc[b] /\ t[a] = t[b] /\ at(a) = pc[a] /\ Round(a) = t[a]
<1>. USE DEF AfterBlock, BlockPhases, Beginning, Loading, Scoring, Reading, Weighing, Voted,
             Spilling, Scaling, Refilling, Adding, Staging, Normalising, Storing, Using, Ending
<1>1. pc[a] \in DOMAIN AfterBlock /\ pc[b] \in DOMAIN AfterBlock
  OBVIOUS
<1>2. at(a) = pc[a] /\ at(b) = pc[b] /\ Round(a) = t[a] /\ Round(b) = t[b]
  BY <1>1 DEF at, Round
<1>3. t[a] = t[b] /\ \A ph \in BlockPhases : pc[a] \in ph => pc[b] \in ph
  BY <1>2 DEF Control
<1>. QED
  BY <1>1, <1>2, <1>3

LEMMA TileCount ==
  ASSUME Launch
  PROVE  n_tiles \in Int /\ 0 < n_tiles
<1>1. /\ N \in Nat \ {0} /\ Br \in Nat \ {0} /\ i0 \in Nat /\ bc \in Nat \ {0}
  BY LaunchFacts
<1>2. kv_end \in Nat \ {0}
  BY <1>1 DEF kv_end, Min2
<1>3. n_tiles \in Int
  BY <1>1, <1>2 DEF n_tiles
<1>4. ~ (n_tiles <= 0)
  <2>1. n_tiles <= 0 => kv_end <= 0 * bc
    BY <1>1, <1>2, TilesReach DEF n_tiles
  <2>2. 0 * bc = 0
    BY <1>1
  <2>. QED
    BY <1>2, <2>1, <2>2
<1>. QED
  BY <1>3, <1>4

\* A warp moves on as one, and so does the block.
WarpMoves == {<<"shfl", "storeP">>, <<"vote", "sync_P">>, <<"vote", "sync_vote">>,
              <<"sync_S", "readS">>, <<"sync_vote", "storeO">>, <<"sync_O", "scaleO">>,
              <<"sync_scaled", "loadO">>, <<"sync_P", "mmaPV">>, <<"sync_stage", "normalise">>}

LEMMA WarpControl ==
  ASSUME Launch, Control, inputs' = inputs, t' = t, NEW w \in Warp, NEW from, NEW to,
         <<from, to>> \in WarpMoves, \A c \in LanesOf(w) : pc[c] = from,
         pc' = [c \in Thread |-> IF c \in LanesOf(w) THEN to ELSE pc[c]]
  PROVE  Control' /\ \A b \in Thread : pc'[b] = IF warp(b) = w THEN to ELSE pc[b]
<1>1. /\ to \in Labels /\ from # "stageTile" /\ to # "stageTile"
      /\ to \notin Beginning \cup {"fragments"}
      /\ \A ph \in BlockPhases : from \in ph <=> to \in ph
  <2>. USE DEF Beginning, Loading, Scoring, Reading, Weighing, Voted, Spilling, Scaling,
               Refilling, Adding, Staging, Normalising, Storing, Using, Ending
  <2>1. to \in Labels
    BY DEF Labels, BlockPhases, WarpMoves
  <2>2. /\ from # "stageTile" /\ to # "stageTile" /\ to \notin Beginning \cup {"fragments"}
    BY DEF WarpMoves
  <2>3. \A ph \in BlockPhases : from \in ph <=> to \in ph
    BY DEF BlockPhases, WarpMoves
  <2>. QED
    BY <2>1, <2>2, <2>3
<1>2. \A b \in Thread : b \in LanesOf(w) <=> warp(b) = w
  BY DEF LanesOf
<1>3. \A b \in Thread : pc'[b] = IF warp(b) = w THEN to ELSE pc[b]
  BY <1>2
<1>4. pc' \in [Thread -> Labels]
  <2>1. \A b \in Thread : pc[b] \in Labels
    BY DEF Control
  <2>. HIDE DEF Labels
  <2>. QED
    BY <1>1, <2>1
<1>5. n_tiles' = n_tiles /\ \A b \in Thread : warp(b)' = warp(b)
  BY LaunchKept
<1>6. \A b \in Thread : IF warp(b) = w THEN at(b) = from /\ at(b)' = to ELSE at(b)' = at(b)
  BY <1>1, <1>2, <1>3, LaunchKept DEF at
<1>7. \A b \in Thread : Round(b)' = Round(b)
  BY <1>1, <1>2, <1>3 DEF Round
<1>8. \A b \in Thread, ph \in BlockPhases : at(b) \in ph <=> at(b)' \in ph
  BY <1>1, <1>6
<1>9. \A b, c \in Thread : warp(b)' = warp(c)' =>
        \A ph \in WarpPhases : at(b)' \in ph => at(c)' \in ph
  BY <1>5, <1>6 DEF Control
<1>10. \A b, c \in Thread : /\ Round(b)' = Round(c)'
                            /\ \A ph \in BlockPhases : at(b)' \in ph => at(c)' \in ph
  BY <1>7, <1>8 DEF Control
<1>11. \A b \in Thread : /\ pc'[b] \in Beginning \cup {"fragments"} => t'[b] = 0
                         /\ at(b)' \in Beginning \cup Loading \cup Using => Round(b)' < n_tiles
                         /\ at(b)' \in Ending \cup Storing => n_tiles <= Round(b)'
  <2>. TAKE b \in Thread
  <2>1. pc'[b] \in Beginning \cup {"fragments"} => t'[b] = 0
    BY <1>1, <1>3 DEF Control
  <2>2. /\ at(b)' \in Beginning \cup Loading \cup Using => at(b) \in Beginning \cup Loading \cup Using
        /\ at(b)' \in Ending \cup Storing => at(b) \in Ending \cup Storing
    BY <1>8 DEF BlockPhases
  <2>. QED
    BY <1>7, <2>1, <2>2 DEF Control
<1>12. t' \in [Thread -> Nat]
  BY DEF Control
<1>. QED
  BY <1>3, <1>4, <1>5, <1>9, <1>10, <1>11, <1>12 DEF Control, Beginning, Loading, Using, Ending, Storing

LEMMA StageTileControl ==
  ASSUME Control, NEW a \in Thread, StageTile(a)
  PROVE  /\ Control' /\ t'[a] = t[a] + 1 /\ \A b \in Thread : b # a => t'[b] = t[b]
         /\ \A b \in Thread : pc'[b] = IF b = a THEN LoopTop(a, t[a] + 1) ELSE pc[b]
<1>1. /\ pc[a] = "stageTile" /\ inputs' = inputs /\ t' = [t EXCEPT ![a] = @ + 1]
      /\ Go(a, LoopTop(a, t'[a])) /\ t \in [Thread -> Nat]
  BY DEF StageTile, Control
<1>2. t'[a] = t[a] + 1 /\ t' \in [Thread -> Nat] /\ \A b \in Thread : b # a => t'[b] = t[b]
  BY <1>1
<1>. DEFINE to == LoopTop(a, t[a] + 1)
<1>3. to \in {"stageO", "raw", "load"}
  BY DEF LoopTop
<1>. HIDE DEF to
<1>4. Go(a, to) /\ pc'[a] = to /\ to \in Labels
  <2>1. Go(a, to)
    BY <1>1, <1>2 DEF to
  <2>2. pc'[a] = to
    BY <2>1 DEF Go, Control
  <2>3. to \in Labels
    BY <1>3 DEF Labels, BlockPhases, Loading, Ending, Staging
  <2>. QED
    BY <2>1, <2>2, <2>3
<1>5. Round(a)' = Round(a) /\ at(a)' = at(a)
  BY <1>1, <1>2, <1>3, <1>4 DEF Round, at, to
<1>6. to \notin Beginning \cup {"fragments"}
  BY <1>3 DEF Beginning
<1>7. Control' /\ \A b \in Thread : pc'[b] = IF b = a THEN to ELSE pc[b]
  BY <1>1, <1>2, <1>4, <1>5, <1>6, LaneControl
<1>. QED
  BY <1>2, <1>7 DEF to

LEMMA BlockControl ==
  ASSUME Launch, Control, Syncthreads
  PROVE  Control' /\ \A b \in Thread : pc'[b] = AfterBlock[pc[b]]
<1>. USE DEF AfterBlock
<1>1. /\ \A b \in Thread : pc[b] \in {"qTile", "raw", "war", "staged"} /\ pc'[b] = AfterBlock[pc[b]]
      /\ inputs' = inputs /\ t' = t /\ pc' = [b \in Thread |-> AfterBlock[pc[b]]]
  BY DEF Syncthreads
<1>2. n_tiles' = n_tiles /\ \A b, n : LoopTop(b, n)' = LoopTop(b, n)
  BY <1>1, LaunchKept
<1>3. \A b, c \in Thread : pc[b] = pc[c] /\ t[b] = t[c] /\ t[b] \in Nat
                           /\ at(b) = pc[b] /\ Round(b) = t[b]
  <2>1. \A b, c \in Thread : pc[b] = pc[c] /\ t[b] = t[c] /\ at(b) = pc[b] /\ Round(b) = t[b]
    BY BlockBarrier DEF Syncthreads
  <2>. QED
    BY <2>1 DEF Control
<1>4. pc' \in [Thread -> Labels]
  BY <1>1 DEF Labels, BlockPhases, Loading, Using, Scoring, Storing
<1>5. \A b, c \in Thread : pc'[b] = pc'[c] /\ t'[b] = t'[c]
  BY <1>1, <1>3
<1>6. \A b, c \in Thread : Round(b)' = Round(c)' /\ at(b)' = at(c)'
  BY <1>2, <1>5 DEF Round, at, LoopTop, More
<1>7. \A b \in Thread : /\ pc'[b] \in Beginning \cup {"fragments"} => t'[b] = 0
                        /\ at(b)' \in Beginning \cup Loading \cup Using => Round(b)' < n_tiles
                        /\ at(b)' \in Ending \cup Storing => n_tiles <= Round(b)'
  <2>. TAKE b \in Thread
  <2>. USE DEF Beginning, Loading, Scoring, Reading, Weighing, Voted, Spilling, Scaling,
               Refilling, Adding, Staging, Normalising, Storing, Using, Ending
  <2>1. /\ pc[b] \in Beginning => t[b] = 0
        /\ at(b) \in Beginning \cup Loading \cup Using => Round(b) < n_tiles
        /\ at(b) \in Ending => n_tiles <= Round(b)
    BY DEF Control
  <2>2. CASE pc[b] = "qTile"
    BY <1>1, <1>3, <2>1, <2>2 DEF at, Round
  <2>3. CASE pc[b] = "raw"
    BY <1>1, <1>3, <2>1, <2>3 DEF at, Round
  <2>4. CASE pc[b] = "staged"
    BY <1>1, <1>3, <2>1, <2>4 DEF at, Round
  <2>5. CASE pc[b] = "war"
    <3>1. at(b)' = LoopTop(b, t[b] + 1) /\ Round(b)' = t[b] + 1 /\ pc'[b] = "stageTile"
      BY <1>1, <1>2, <2>5 DEF at, Round
    <3>2. t[b] < n_tiles
      BY <1>3, <2>1, <2>5
    <3>3. n_tiles \in Int
      BY TileCount
    <3>4. IF t[b] + 1 < n_tiles THEN at(b)' \in {"raw", "load"} ELSE at(b)' = "stageO"
      BY <3>1 DEF LoopTop, More
    <3>. QED
      BY <1>3, <3>1, <3>2, <3>3, <3>4
  <2>. QED
    BY <1>1, <2>2, <2>3, <2>4, <2>5
<1>. QED
  BY <1>1, <1>2, <1>4, <1>5, <1>6, <1>7 DEF Control, Beginning, Loading, Using, Ending, Storing

-------------------------------------------------------------------------------
(* A lane that stands still, and whose registers and cells nobody touches, *)
(* still holds what it held.                                               *)

Idle(b) == /\ pc'[b] = pc[b] /\ t'[b] = t[b]
           /\ qf'[b] = qf[b] /\ stage'[b] = stage[b] /\ s'[b] = s[b]
           /\ m'[b] = m[b] /\ l'[b] = l[b] /\ alpha'[b] = alpha[b] /\ oacc'[b] = oacc[b]
TileCells(b) == SliceOf(b, Threads, bc * Dim)
QCells(b)    == {QAddr(e \div Dim, e % Dim) : e \in SliceOf(b, Threads, Br * Dim)}
PCells(b)    == {PAddr(r(b), c) : c \in HalfOf(b, bc)}
Untouched(b) ==
  /\ \A e \in TileCells(b) : Ks'[e] = Ks[e] /\ Vs'[e] = Vs[e]
  /\ \A e \in OwnCells(b) : Ss'[e] = Ss[e]
  /\ pc[b] \in Beginning \cup Loading => \A e \in QCells(b) : Qs'[e] = Qs[e]
  /\ pc[b] \in Using => \A e \in PCells(b) : Qs'[e] = Qs[e]

LEMMA OtherLane ==
  ASSUME inputs' = inputs, NEW b \in Thread, LaneHolds(b), Idle(b), Untouched(b)
  PROVE  LaneHolds(b)'
<1>1. /\ bc' = bc /\ rows_q' = rows_q /\ prefetch' = prefetch /\ i0' = i0
      /\ warp(b)' = warp(b) /\ row_valid(b)' = row_valid(b)
      /\ \A w : StripOf(w)' = StripOf(w)
      /\ \A cols : Held(b, cols)' = Held(b, cols)
      /\ \A x, c : PAddr(x, c)' = PAddr(x, c)
      /\ \A n : j0(n)' = j0(n) /\ rows_kv(n)' = rows_kv(n)
      /\ \A n : More(b, n)' = More(b, n)
      /\ \A n, rows : Fetched(b, n, rows)' = Fetched(b, n, rows)
  BY LaunchKept
<1>2. /\ pc'[b] = pc[b] /\ t'[b] = t[b] /\ Round(b)' = Round(b)
  BY DEF Idle, Round
<1>3. Done(b)' = Done(b) /\ OwnCells(b)' = OwnCells(b)
  <2>1. Done(b)' = Done(b)
    BY <1>2 DEF Done
  <2>2. Held(b, Slot)' = Held(b, Slot) /\ HalfRow(b, bc)' = HalfRow(b, bc)
    BY <1>1, LaunchKept DEF HalfRow
  <2>. QED
    BY <1>1, <1>2, <2>1, <2>2 DEF OwnCells
<1>4. \A x, c : CellAt(b, x, c)' = CellAt(b, x, c)
  BY <1>1, <1>2, RowsKept DEF CellAt
<1>5. \A x : OHolds(b, x)' = OHolds(b, x)
  BY <1>2, RowsKept DEF OHolds
<1>6. QHeld(b)'
  <2>1. \A e \in SliceOf(b, Threads, Br * Dim) : QAddr(e \div Dim, e % Dim) \in QCells(b)
    BY DEF QCells
  <2>. QED
    BY <1>1, <1>2, <2>1 DEF LaneHolds, QHeld, Untouched, Beginning, Loading
<1>7. FragHeld(b)'
  BY <1>1, <1>2, RowsKept DEF LaneHolds, FragHeld, Idle
<1>8. KVHeld(b)'
  BY <1>1, <1>2 DEF LaneHolds, KVHeld, Untouched, TileCells
<1>9. StageHeld(b)'
  BY <1>1, <1>2 DEF LaneHolds, StageHeld, Idle, has_next
<1>10. StripHeld(b)'
  BY <1>3, <1>4 DEF LaneHolds, StripHeld, Untouched
<1>11. RowHeld(b)'
  BY <1>1, <1>2, RowsKept DEF LaneHolds, RowHeld, Idle
<1>12. PHeld(b)'
  <2>1. \A c \in HalfOf(b, bc) : PAddr(r(b), c) \in PCells(b)
    BY DEF PCells
  <2>2. pc[b] \in {"vote"} \cup Voted \cup Spilling \cup Scaling \cup Refilling \cup Adding
          => pc[b] \in Using
    BY DEF Using, Weighing
  <2>. QED
    BY <1>1, <1>2, <2>1, <2>2, RowsKept DEF LaneHolds, PHeld, Untouched
<1>13. StateHeld(b)' /\ AlphaHeld(b)'
  BY <1>2, <1>3, RowsKept DEF LaneHolds, StateHeld, AlphaHeld, Idle
<1>14. OaccHeld(b)'
  BY <1>1, <1>5 DEF LaneHolds, OaccHeld, Idle
<1>. QED
  BY <1>6, <1>7, <1>8, <1>9, <1>10, <1>11, <1>12, <1>13, <1>14 DEF LaneHolds

-------------------------------------------------------------------------------
(* Shares of the strip.                                                    *)

LEMMA Columns ==
  ASSUME Launch
  PROVE  /\ Slot \in SUBSET Elem /\ Elem \in SUBSET Elem
         /\ \A a \in Thread : HalfOf(a, bc) \subseteq Slot /\ HalfOf(a, Dim) \subseteq Elem
         /\ \A a \in Thread : /\ HalfRow(a, bc) \subseteq StripOf(warp(a)) \X Elem
                              /\ HalfRow(a, Dim) \subseteq StripOf(warp(a)) \X Elem
                              /\ StripOf(warp(a)) \subseteq 0 .. Br - 1
<1>1. Slot \in SUBSET Elem
  <2>1. bc \in Nat /\ bc <= Dim
    BY LaunchFacts
  <2>2. Dim \in Nat
    OBVIOUS
  <2>3. \A c \in 0 .. bc - 1 : c \in 0 .. Dim - 1
    BY <2>1, <2>2
  <2>. QED
    BY <2>3 DEF Slot, Elem
<1>2. \A a \in Thread : HalfOf(a, bc) \subseteq Slot /\ HalfOf(a, Dim) \subseteq Elem
  BY DEF HalfOf, Slot, Elem
<1>3. \A a \in Thread : r(a) \in StripOf(warp(a)) /\ StripOf(warp(a)) \subseteq 0 .. Br - 1
  BY LaneFacts, RowLanes
<1>. QED
  BY <1>1, <1>2, <1>3 DEF HalfRow

LEMMA HalfRowsApart ==
  ASSUME Launch, NEW a \in Thread, NEW b \in Thread, a # b, NEW n \in Nat, n % 2 = 0
  PROVE  HalfRow(a, n) \cap HalfRow(b, n) = {}
<1>1. r(a) # r(b) \/ half(a) # half(b)
  BY LaneByHalf
<1>2. half(a) # half(b) => HalfOf(a, n) \cap HalfOf(b, n) = {}
  BY HalvesOfRow
<1>. QED
  BY <1>1, <1>2 DEF HalfRow

LEMMA OwnInStrip ==
  ASSUME Launch, NEW a \in Thread
  PROVE  OwnCells(a) \subseteq StripOf(warp(a)) \X Elem
<1>1. Held(a, Slot) \subseteq StripOf(warp(a)) \X Elem
      /\ Held(a, Elem) \subseteq StripOf(warp(a)) \X Elem
  BY Columns DEF Held
<1>2. /\ HalfRow(a, bc) \subseteq StripOf(warp(a)) \X Elem
      /\ HalfRow(a, Dim) \subseteq StripOf(warp(a)) \X Elem
  BY Columns
<1>. QED
  BY <1>1, <1>2 DEF OwnCells

\* What a lane puts into the strip is no other lane's share.
WriteSet(a) ==
  IF pc[a] = "mma" THEN Held(a, Slot)
  ELSE IF pc[a] \in {"storeO", "stageO"} THEN Held(a, Elem) ELSE HalfRow(a, Dim)

LEMMA WritesApart ==
  ASSUME Launch, Control, NEW a \in Thread, NEW b \in Thread, a # b,
         pc[a] \in {"mma", "storeO", "stageO", "scaleO", "normalise"}
  PROVE  OwnCells(b) \cap WriteSet(a) = {}
<1>1. WriteSet(a) \subseteq StripOf(warp(a)) \X Elem
  BY Columns DEF WriteSet, Held
<1>2. CASE warp(a) # warp(b)
  <2>1. StripOf(warp(a)) \cap StripOf(warp(b)) = {}
    BY <1>2, LaneFacts, StripsDisjoint
  <2>. QED
    BY <1>1, <2>1, OwnInStrip
<1>3. CASE warp(a) = warp(b)
  <2>1. /\ Held(a, Slot) \cap Held(b, Slot) = {}
        /\ Held(a, Elem) \cap Held(b, Elem) = {}
    BY HeldByOne, Columns
  <2>2. HalfRow(a, Dim) \cap HalfRow(b, Dim) = {}
    BY HalfRowsApart
  <2>3. \A ph \in WarpPhases : pc[a] \in ph => pc[b] \in ph \/ (pc[b] = "stageTile" /\ ph = Staging)
    BY <1>3, WarpTogether
  <2>. USE DEF WarpPhases, Scoring, Spilling, Scaling, Staging, Normalising
  <2>4. CASE pc[a] = "mma"
    <3>1. pc[b] \in Scoring
      BY <2>3, <2>4
    <3>. QED
      BY <2>1, <2>4, <3>1 DEF OwnCells, WriteSet, Storing
  <2>5. CASE pc[a] = "storeO"
    <3>1. pc[b] \in Spilling
      BY <2>3, <2>5
    <3>. QED
      BY <2>1, <2>5, <3>1 DEF OwnCells, WriteSet, Storing
  <2>6. CASE pc[a] = "stageO"
    <3>1. pc[b] \in Staging \cup {"stageTile"}
      BY <2>3, <2>6
    <3>. QED
      BY <2>1, <2>6, <3>1 DEF OwnCells, WriteSet, Storing
  <2>7. CASE pc[a] = "scaleO"
    <3>1. pc[b] \in Scaling
      BY <2>3, <2>7
    <3>. QED
      BY <2>2, <2>7, <3>1 DEF OwnCells, WriteSet, Storing
  <2>8. CASE pc[a] = "normalise"
    <3>1. pc[b] \in Normalising
      BY <2>3, <2>8
    <3>. QED
      BY <2>2, <2>8, <3>1 DEF OwnCells, WriteSet, Storing
  <2>. QED
    BY <2>4, <2>5, <2>6, <2>7, <2>8
<1>. QED
  BY <1>2, <1>3

\* Every cell of a strip is held by a lane of its warp, as an element of a
\* fragment and as a cell of a half row.
LEMMA StripCovered ==
  ASSUME Launch, NEW w \in Warp, NEW x \in StripOf(w)
  PROVE  /\ \A c \in Slot : \E b \in LanesOf(w) : <<x, c>> \in Held(b, Slot)
         /\ \A c \in Elem : \E b \in LanesOf(w) : <<x, c>> \in Held(b, Elem)
         /\ \A c \in Slot : \E b \in LanesOf(w) : r(b) = x /\ c \in HalfOf(b, bc)
         /\ \A c \in Elem : \E b \in LanesOf(w) : r(b) = x /\ c \in HalfOf(b, Dim)
<1>1. /\ \A c \in Slot : \E b \in LanesOf(w) : <<x, c>> \in Held(b, Slot)
      /\ \A c \in Elem : \E b \in LanesOf(w) : <<x, c>> \in Held(b, Elem)
  BY HeldByOne, Columns
<1>2. \A h \in {0, 1} : /\ 2 * x + h \in LanesOf(w) /\ 2 * x + h \in Thread
                        /\ r(2 * x + h) = x /\ half(2 * x + h) = h
  BY RowLanes
<1>3. ASSUME NEW n \in Nat, n % 2 = 0, NEW c \in 0 .. n - 1
      PROVE  \E b \in LanesOf(w) : r(b) = x /\ c \in HalfOf(b, n)
  <2>1. PICK h \in {0, 1} : \A a \in Thread : half(a) = h => c \in HalfOf(a, n)
    BY <1>3, HalvesOfRow
  <2>2. c \in HalfOf(2 * x + h, n)
    BY <1>2, <2>1
  <2>. QED
    BY <1>2, <2>2
<1>. QED
  BY <1>1, <1>3, LaunchFacts DEF Slot, Elem

-------------------------------------------------------------------------------
(* Shares of the tiles.                                                    *)

LEMMA Address ==
  ASSUME NEW k \in Nat \ {0}, NEW n \in Nat, NEW x \in 0 .. n - 1, NEW c \in 0 .. k - 1
  PROVE  /\ x * k + c \in 0 .. n * k - 1
         /\ (x * k + c) \div k = x /\ ((x * k + c) % k) = c
<1>1. x \in Nat /\ c \in Nat /\ c < k /\ x + 1 <= n
  OBVIOUS
<1>2. (x * k + c) \div k = x /\ ((x * k + c) % k) = c /\ x * k + c \in Nat
  BY <1>1, DivisionUnique
<1>3. k * (x + 1) <= k * n /\ (x + 1) * k = x * k + k /\ k * (x + 1) = (x + 1) * k
      /\ k * n = n * k /\ n * k \in Nat /\ x * k \in Nat
  BY <1>1, Multiples
<1>. QED
  BY <1>1, <1>2, <1>3

\* An address in Qs, in either of its layouts, belongs to one place.
LEMMA QAddress ==
  ASSUME Launch, NEW x \in 0 .. Br - 1
  PROVE  /\ \A d \in Elem : /\ QAddr(x, d) \in 0 .. Br * (Dim + RowPad) - 1
                            /\ QAddr(x, d) \div (Dim + RowPad) = x
                            /\ (QAddr(x, d) % (Dim + RowPad)) = d
         /\ \A c \in Slot : /\ PAddr(x, c) \in 0 .. Br * (Dim + RowPad) - 1
                            /\ PAddr(x, c) \div (bc + RowPad) = x
                            /\ (PAddr(x, c) % (bc + RowPad)) = c
<1>. DEFINE k == Dim + RowPad
            p == bc + RowPad
<1>1. /\ k \in Nat \ {0} /\ p \in Nat \ {0} /\ p <= k /\ Br \in Nat
      /\ \A d \in Elem : d \in 0 .. k - 1
      /\ \A c \in Slot : c \in 0 .. p - 1
  <2>1. bc \in Nat \ {0} /\ bc <= Dim /\ Dim \in Nat \ {0} /\ RowPad \in Nat /\ Br \in Nat
    BY LaunchFacts
  <2>. QED
    BY <2>1 DEF Elem, Slot
<1>. HIDE DEF k, p
<1>2. \A d \in Elem : /\ x * k + d \in 0 .. Br * k - 1
                      /\ (x * k + d) \div k = x /\ ((x * k + d) % k) = d
  <2>. TAKE d \in Elem
  <2>1. d \in 0 .. k - 1
    BY <1>1
  <2>. QED
    BY ONLY <1>1, <2>1, x \in 0 .. Br - 1, Address
<1>3. \A c \in Slot : /\ x * p + c \in 0 .. Br * p - 1
                      /\ (x * p + c) \div p = x /\ ((x * p + c) % p) = c
  <2>. TAKE c \in Slot
  <2>1. c \in 0 .. p - 1
    BY <1>1
  <2>. QED
    BY ONLY <1>1, <2>1, x \in 0 .. Br - 1, Address
<1>4. Br * p <= Br * k /\ Br * k \in Nat /\ Br * p \in Nat
  BY <1>1, Multiples
<1>5. \A c \in Slot : x * p + c \in 0 .. Br * k - 1
  BY <1>3, <1>4
<1>. QED
  BY <1>2, <1>3, <1>5 DEF QAddr, PAddr, k, p

\* The cells of a flat copy are pairs of a row and an element.
LEMMA FlatCell ==
  ASSUME NEW n \in Nat, NEW e \in 0 .. n * Dim - 1
  PROVE  e \div Dim \in 0 .. n - 1 /\ e % Dim \in Elem /\ e = (e \div Dim) * Dim + (e % Dim)
<1>. DEFINE q == e \div Dim
<1>1. Dim \in Nat \ {0} /\ n * Dim \in Nat /\ e \in Nat
  OBVIOUS
<1>2. q \in Nat /\ (e % Dim) \in 0 .. Dim - 1 /\ e = Dim * q + (e % Dim)
  BY <1>1, Division
<1>. HIDE DEF q
<1>3. Dim * q = q * Dim /\ Dim * q \in Nat /\ Dim * n = n * Dim
  BY <1>1, <1>2, Multiples
<1>4. ~ (n <= q)
  <2>1. n <= q => Dim * n <= Dim * q
    BY <1>1, <1>2, Multiples
  <2>. QED
    BY <1>1, <1>2, <1>3, <2>1
<1>. QED
  BY <1>2, <1>3, <1>4 DEF Elem, q

LEMMA QShareApart ==
  ASSUME Launch, NEW a \in Thread
  PROVE  /\ \A b \in Thread : b # a => QCells(a) \cap QCells(b) = {}
         /\ QCells(a) \subseteq 0 .. Br * (Dim + RowPad) - 1
         /\ \A e, e2 \in SliceOf(a, Threads, Br * Dim) :
              QAddr(e \div Dim, e % Dim) = QAddr(e2 \div Dim, e2 % Dim) => e = e2
<1>. DEFINE cells == 0 .. Br * Dim - 1
<1>1. Br \in Nat
  BY LaunchFacts
<1>2. \A e \in cells : /\ e \div Dim \in 0 .. Br - 1 /\ e % Dim \in Elem
                       /\ e = (e \div Dim) * Dim + (e % Dim)
  BY <1>1, FlatCell
<1>3. \A e \in cells : /\ QAddr(e \div Dim, e % Dim) \in 0 .. Br * (Dim + RowPad) - 1
                       /\ QAddr(e \div Dim, e % Dim) \div (Dim + RowPad) = e \div Dim
                       /\ (QAddr(e \div Dim, e % Dim) % (Dim + RowPad)) = e % Dim
  BY <1>2, QAddress
<1>. HIDE DEF cells
<1>4. \A e, e2 \in cells : QAddr(e \div Dim, e % Dim) = QAddr(e2 \div Dim, e2 % Dim) => e = e2
  <2>. TAKE e, e2 \in cells
  <2>. HAVE QAddr(e \div Dim, e % Dim) = QAddr(e2 \div Dim, e2 % Dim)
  <2>1. e \div Dim = e2 \div Dim /\ (e % Dim) = (e2 % Dim)
    BY <1>3
  <2>. QED
    BY <1>2, <2>1, Zenon
<1>5. \A c \in Thread : SliceOf(c, Threads, Br * Dim) \subseteq cells
  BY DEF SliceOf, cells
<1>6. \A b \in Thread : b # a =>
        SliceOf(a, Threads, Br * Dim) \cap SliceOf(b, Threads, Br * Dim) = {}
  BY SlicesDisjoint
<1>7. \A b \in Thread : b # a => QCells(a) \cap QCells(b) = {}
  BY <1>4, <1>5, <1>6 DEF QCells
<1>8. QCells(a) \subseteq 0 .. Br * (Dim + RowPad) - 1
  <2>1. \A e \in SliceOf(a, Threads, Br * Dim) :
          QAddr(e \div Dim, e % Dim) \in 0 .. Br * (Dim + RowPad) - 1
    BY <1>3, <1>5
  <2>. QED
    BY ONLY <2>1 DEF QCells
<1>9. \A e, e2 \in SliceOf(a, Threads, Br * Dim) :
        QAddr(e \div Dim, e % Dim) = QAddr(e2 \div Dim, e2 % Dim) => e = e2
  BY <1>4, <1>5
<1>. QED
  BY ONLY <1>7, <1>8, <1>9

LEMMA PShareApart ==
  ASSUME Launch, NEW a \in Thread
  PROVE  /\ \A b \in Thread : b # a => PCells(a) \cap PCells(b) = {}
         /\ PCells(a) \subseteq 0 .. Br * (Dim + RowPad) - 1
         /\ \A c, c2 \in HalfOf(a, bc) : PAddr(r(a), c) = PAddr(r(a), c2) => c = c2
<1>1. \A b \in Thread : \A c \in Slot :
        /\ PAddr(r(b), c) \in 0 .. Br * (Dim + RowPad) - 1
        /\ PAddr(r(b), c) \div (bc + RowPad) = r(b)
        /\ (PAddr(r(b), c) % (bc + RowPad)) = c
  BY LaneFacts, QAddress
<1>2. \A b \in Thread : HalfOf(b, bc) \subseteq Slot
  BY Columns
<1>3. \A b \in Thread : b # a => r(a) # r(b) \/ HalfOf(a, bc) \cap HalfOf(b, bc) = {}
  BY LaneByHalf, HalvesOfRow, LaunchFacts
<1>4. \A b \in Thread : \A c, c2 \in Slot :
        PAddr(r(a), c) = PAddr(r(b), c2) => r(a) = r(b) /\ c = c2
  BY <1>1
<1>5. \A c, c2 \in Slot : PAddr(r(a), c) = PAddr(r(a), c2) => c = c2
  BY <1>4
<1>. HIDE DEF Slot
<1>6. \A b \in Thread : b # a => PCells(a) \cap PCells(b) = {}
  BY <1>2, <1>3, <1>4 DEF PCells
<1>7. PCells(a) \subseteq 0 .. Br * (Dim + RowPad) - 1
  <2>1. \A c \in HalfOf(a, bc) : PAddr(r(a), c) \in 0 .. Br * (Dim + RowPad) - 1
    BY <1>1, <1>2
  <2>. QED
    BY ONLY <2>1 DEF PCells
<1>8. \A c, c2 \in HalfOf(a, bc) : PAddr(r(a), c) = PAddr(r(a), c2) => c = c2
  BY <1>2, <1>5
<1>. QED
  BY <1>6, <1>7, <1>8

\* Once every lane has put its share there, a tile is the tile.
LEMMA TileWhole ==
  ASSUME Launch, NEW n \in Nat, NEW buf,
         \A b \in Thread : \A e \in TileCells(b) : buf[e] = TileCell(e, j0(n), rows_kv(n)),
         NEW c \in Slot
  PROVE  /\ \A d \in Elem : buf[c * Dim + d] = TileRow(n, c)
         /\ RowAt(buf, c) = TileRow(n, c)
<1>0. bc \in Nat /\ c \in 0 .. bc - 1 /\ j0(n) \in Nat
  BY LaunchFacts, TileStart
<1>1. /\ bc \in Nat /\ c \in 0 .. bc - 1 /\ c \in Nat /\ c < bc /\ j0(n) \in Nat
      /\ Threads \in Nat \ {0} /\ rows_kv(n) = Min2(bc, N - j0(n))
  BY <1>0 DEF rows_kv
<1>2. ASSUME NEW d \in Elem
      PROVE  buf[c * Dim + d] = TileRow(n, c)
  <2>. DEFINE e == c * Dim + d
              own == e % Threads
  <2>1. d \in 0 .. Dim - 1
    BY DEF Elem
  <2>2. e \in 0 .. bc * Dim - 1 /\ bc * Dim \in Nat
    BY ONLY <1>1, <2>1, Dim \in Nat \ {0}, SlotCells
  <2>3. own \in Thread /\ e \in TileCells(own)
    <3>. HIDE DEF e
    <3>. QED
      BY <1>1, <2>2, SliceOwner DEF Thread, TileCells
  <2>4. rows_kv(n) \in Int /\ (c < rows_kv(n) <=> j0(n) + c < N)
    BY <1>1 DEF Min2
  <2>5. TileCell(e, j0(n), rows_kv(n)) = IF c < rows_kv(n) THEN j0(n) + c ELSE Pad
    BY <1>1, <2>1, <2>4, CellContent
  <2>. HIDE DEF own
  <2>6. buf[e] = TileCell(e, j0(n), rows_kv(n))
    BY <2>3
  <2>. QED
    BY <2>4, <2>5, <2>6 DEF TileRow
<1>3. RowAt(buf, c) = TileRow(n, c)
  BY <1>1, <1>2, ReadsWhole DEF Elem
<1>. QED
  BY <1>2, <1>3

LEMMA QTileWhole ==
  ASSUME Launch, NEW buf,
         \A b \in Thread : \A e \in SliceOf(b, Threads, Br * Dim) :
           buf[QAddr(e \div Dim, e % Dim)] = [q |-> TileCell(e, i0, rows_q)],
         NEW x \in 0 .. Br - 1, NEW d \in Elem
  PROVE  buf[QAddr(x, d)] = QRow(x)
<1>. DEFINE e == x * Dim + d
            own == e % Threads
<1>1. /\ Br \in Nat /\ x \in Nat /\ x < Br /\ d \in 0 .. Dim - 1 /\ i0 \in Nat
      /\ Threads \in Nat \ {0} /\ Dim \in Nat \ {0}
  BY LaunchFacts DEF Elem
<1>2. e \in 0 .. Br * Dim - 1 /\ Br * Dim \in Nat /\ e \div Dim = x /\ (e % Dim) = d
  BY ONLY <1>1, x \in 0 .. Br - 1, Address
<1>3. own \in Thread /\ e \in SliceOf(own, Threads, Br * Dim)
  <2>. HIDE DEF e
  <2>. QED
    BY <1>1, <1>2, SliceOwner DEF Thread
<1>4. rows_q \in Int /\ (x < rows_q <=> i0 + x < N)
  BY <1>1 DEF rows_q, Min2
<1>5. TileCell(e, i0, rows_q) = IF x < rows_q THEN i0 + x ELSE Pad
  BY <1>1, <1>4, CellContent
<1>. HIDE DEF own, e
<1>6. buf[QAddr(x, d)] = [q |-> TileCell(e, i0, rows_q)]
  BY <1>2, <1>3
<1>. QED
  BY <1>4, <1>5, <1>6 DEF QRow

-------------------------------------------------------------------------------
(* The steps of a lane, one lemma each: what it holds afterwards, and that *)
(* no other lane's share is touched.                                       *)

\* Enough for every step that writes no global memory.
Good == BlockOK /\ LanesHold

LEMMA LanesAfter ==
  ASSUME Good, NEW a \in Thread, inputs' = inputs, Control', Shapes', LaneHolds(a)',
         \A b \in Thread : b # a => Idle(b) /\ Untouched(b)
  PROVE  Good'
<1>1. Launch'
  BY LaunchKept DEF Good, BlockOK
<1>2. \A b \in Thread : LaneHolds(b)'
  BY OtherLane DEF Good, LanesHold
<1>. QED
  BY <1>1, <1>2 DEF Good, BlockOK, LanesHold

\* A move changes what it is made for, and leaves the lane the rest.
Leaves(a, to) ==
  /\ m'[a] = m[a] /\ l'[a] = l[a] /\ alpha'[a] = alpha[a]
  /\ to = "load" \/ qf'[a] = qf[a]
  /\ to = "mma" \/ stage'[a] = stage[a]
  /\ to \in {"sync_P", "war"} \/ oacc'[a] = oacc[a]
  /\ to = "raw" \/ \A e \in TileCells(a) : Ks'[e] = Ks[e] /\ Vs'[e] = Vs[e]
  /\ to \in {"load", "raw"} => Qs' = Qs
  /\ to \notin {"qTile", "vote"} => Qs' = Qs
  /\ to = "done" => Ss' = Ss
Gains(a, to) ==
  /\ to = "qTile" => QHeld(a)'
  /\ to = "load" => FragHeld(a)'
  /\ to = "raw" => KVHeld(a)'
  /\ to = "mma" => StageHeld(a)'
  /\ to = "shfl" => RowHeld(a)'
  /\ to = "vote" => PHeld(a)'
  /\ to \in {"sync_P", "war"} => OaccHeld(a)'
  /\ to \in {"sync_S", "sync_O", "sync_scaled", "sync_stage", "staged"} => StripHeld(a)'

LEMMA MoveHolds ==
  ASSUME NEW a \in Thread, LaneHolds(a), inputs' = inputs, t' = t, NEW to,
         <<pc[a], to>> \in Moves, pc'[a] = to, Leaves(a, to), Gains(a, to)
  PROVE  LaneHolds(a)'
<1>. USE DEF Beginning, Loading, Scoring, Reading, Weighing, Voted, Spilling, Scaling, Refilling,
             Adding, Staging, Normalising, Storing, Using, Ending, Moves
<1>1. /\ bc' = bc /\ rows_q' = rows_q /\ prefetch' = prefetch /\ i0' = i0
      /\ warp(a)' = warp(a) /\ row_valid(a)' = row_valid(a)
      /\ \A w : StripOf(w)' = StripOf(w)
      /\ \A cols : Held(a, cols)' = Held(a, cols)
      /\ \A x, c : PAddr(x, c)' = PAddr(x, c)
      /\ \A n : j0(n)' = j0(n) /\ rows_kv(n)' = rows_kv(n)
      /\ \A n : More(a, n)' = More(a, n)
      /\ \A n, rows : Fetched(a, n, rows)' = Fetched(a, n, rows)
  BY LaunchKept
<1>2. t'[a] = t[a] /\ Round(a)' = Round(a)
  BY DEF Round
<1>3. QHeld(a)'
  BY <1>1, <1>2 DEF LaneHolds, QHeld, Leaves, Gains
<1>4. FragHeld(a)'
  BY <1>1, <1>2, RowsKept DEF LaneHolds, FragHeld, Leaves, Gains
<1>5. KVHeld(a)'
  BY <1>1, <1>2 DEF LaneHolds, KVHeld, Leaves, Gains, TileCells
<1>6. StageHeld(a)'
  BY <1>1, <1>2 DEF LaneHolds, StageHeld, has_next, Leaves, Gains
<1>7. StripHeld(a)'
  <2>1. CASE to \in {"qTile", "load", "raw", "mma", "shfl", "vote", "sync_P", "war"}
    BY <2>1 DEF StripHeld, OwnCells
  <2>2. CASE to = "done"
    <3>1. OwnCells(a)' = OwnCells(a)
      BY <1>1, <2>2 DEF OwnCells, HalfRow
    <3>2. \A x, c : CellAt(a, x, c)' = CellAt(a, x, c)
      BY <1>1, <2>2, RowsKept DEF CellAt
    <3>. QED
      BY <2>2, <3>1, <3>2 DEF LaneHolds, StripHeld, Leaves
  <2>. QED
    BY <2>1, <2>2 DEF Gains
<1>8. RowHeld(a)'
  BY <1>1, <1>2 DEF LaneHolds, RowHeld, Gains
<1>9. PHeld(a)'
  BY <1>1, <1>2, RowsKept DEF LaneHolds, PHeld, Leaves, Gains
<1>10. StateHeld(a)'
  <2>1. Done(a)' = Done(a)
    BY <1>2 DEF Done, Ahead, Pending
  <2>. QED
    BY <2>1, RowsKept DEF LaneHolds, StateHeld, Leaves
<1>11. AlphaHeld(a)'
  BY <1>2, RowsKept DEF LaneHolds, AlphaHeld, Leaves, Pending
<1>12. OaccHeld(a)'
  <2>1. to \notin {"sync_P", "war"} => \A x : OHolds(a, x)' = OHolds(a, x)
    BY <1>2, RowsKept DEF OHolds
  <2>. QED
    BY <1>1, <2>1 DEF LaneHolds, OaccHeld, Leaves, Gains
<1>. QED
  BY <1>3, <1>4, <1>5, <1>6, <1>7, <1>8, <1>9, <1>10, <1>11, <1>12 DEF LaneHolds

LEMMA MoveGood ==
  ASSUME Good, NEW a \in Thread, NEW to, <<pc[a], to>> \in Moves, Go(a, to),
         inputs' = inputs, t' = t, Shapes', Leaves(a, to), Gains(a, to),
         \A b \in Thread : b # a =>
           /\ qf'[b] = qf[b] /\ stage'[b] = stage[b] /\ s'[b] = s[b]
           /\ m'[b] = m[b] /\ l'[b] = l[b] /\ alpha'[b] = alpha[b] /\ oacc'[b] = oacc[b]
           /\ Untouched(b)
  PROVE  Good'
<1>1. Control' /\ \A b \in Thread : pc'[b] = IF b = a THEN to ELSE pc[b]
  BY MoveControl DEF Good, BlockOK
<1>2. LaneHolds(a)'
  BY <1>1, MoveHolds DEF Good, LanesHold
<1>3. \A b \in Thread : b # a => Idle(b) /\ Untouched(b)
  BY <1>1 DEF Idle
<1>. QED
  BY <1>1, <1>2, <1>3, LanesAfter

\* LoadQ: other lanes are loading Q too, or wait for it.
LEMMA LoadQGood ==
  ASSUME Good, NEW a \in Thread, LoadQ(a)
  PROVE  Good'
<1>. USE DEF Good, BlockOK
<1>1. /\ pc[a] = "loadQ" /\ Go(a, "qTile") /\ inputs' = inputs /\ t' = t
      /\ UNCHANGED <<qf, stage, s, m, l, alpha, oacc, Ks, Vs, Ss, o, lse>>
  BY DEF LoadQ, registers, outputs
<1>. DEFINE cells == SliceOf(a, Threads, Br * Dim)
            addr(e) == QAddr(e \div Dim, e % Dim)
            val(e) == [q |-> TileCell(e, i0, rows_q)]
<1>2. /\ \A e \in cells : Qs'[addr(e)] = val(e)
      /\ \A e \in DOMAIN Qs : e \notin QCells(a) => Qs'[e] = Qs[e]
      /\ DOMAIN Qs' = DOMAIN Qs
  <2>1. Qs' = [e \in DOMAIN Qs |->
                IF \E e2 \in cells : e = addr(e2)
                  THEN [e2 \in cells |-> val(e2)][CHOOSE e2 \in cells : e = addr(e2)]
                  ELSE Qs[e]]
    BY DEF LoadQ
  <2>2. /\ \A e, e2 \in cells : addr(e) = addr(e2) => e = e2
        /\ \A e \in cells : addr(e) \in DOMAIN Qs /\ addr(e) \in QCells(a)
    BY QShareApart DEF QCells, Shapes
  <2>3. \A e \in DOMAIN Qs : e \notin QCells(a) => ~ \E e2 \in cells : e = addr(e2)
    BY <2>2
  <2>. HIDE DEF cells, addr, val
  <2>4. \A e \in DOMAIN Qs : e \notin QCells(a) => Qs'[e] = Qs[e]
    BY <2>1, <2>3
  <2>5. \A e \in cells : (CHOOSE e2 \in cells : addr(e) = addr(e2)) = e
    BY <2>2
  <2>6. \A e \in cells : Qs'[addr(e)] = val(e)
    BY <2>1, <2>2, <2>5
  <2>. QED
    BY <2>1, <2>4, <2>6
<1>3. Shapes'
  BY <1>1, <1>2, LaunchKept DEF Shapes
<1>4. QHeld(a)'
  <2>1. rows_q' = rows_q /\ i0' = i0
    BY <1>1, LaunchKept
  <2>. QED
    BY <1>2, <2>1 DEF QHeld
<1>5. ASSUME NEW b \in Thread, b # a PROVE Untouched(b)
  <2>1. pc[b] \in Beginning
    BY <1>1, BlockTogether DEF Beginning
  <2>2. QCells(b) \subseteq DOMAIN Qs /\ QCells(a) \cap QCells(b) = {}
    BY <1>5, QShareApart DEF Shapes
  <2>3. pc[b] \notin Using
    BY <2>1 DEF Beginning, Using, Scoring, Reading, Weighing, Voted, Spilling, Scaling,
                Refilling, Adding
  <2>4. \A e \in QCells(b) : Qs'[e] = Qs[e]
    BY <1>2, <2>2
  <2>. QED
    BY <1>1, <2>3, <2>4 DEF Untouched
<1>6. Gains(a, "qTile") /\ Leaves(a, "qTile")
  BY <1>1, <1>4 DEF Gains, Leaves
<1>. QED
  BY <1>1, <1>3, <1>5, <1>6, MoveGood DEF Moves

\* LoadFragments: every lane has loaded its share of the Q tile.
LEMMA LoadFragmentsGood ==
  ASSUME Good, NEW a \in Thread, LoadFragments(a)
  PROVE  Good'
<1>. USE DEF Good, BlockOK
<1>1. /\ pc[a] = "fragments" /\ Go(a, "load") /\ inputs' = inputs /\ t' = t
      /\ UNCHANGED <<stage, s, m, l, alpha, oacc, Qs, Ks, Vs, Ss, o, lse>>
      /\ \A b \in Thread : b # a => qf'[b] = qf[b]
      /\ DOMAIN qf' = Thread
      /\ qf'[a] = [x \in StripOf(warp(a)) |->
                     IF \A d \in Elem : Qs[QAddr(x, d)] = Qs[QAddr(x, 0)]
                       THEN Qs[QAddr(x, 0)] ELSE Undef]
  BY DEF LoadFragments, shared, outputs, Shapes
<1>2. Shapes'
  BY <1>1, LaunchKept DEF Shapes
<1>3. \A b \in Thread : \A e \in SliceOf(b, Threads, Br * Dim) :
        Qs[QAddr(e \div Dim, e % Dim)] = [q |-> TileCell(e, i0, rows_q)]
  <2>1. \A b \in Thread : pc[b] \in Loading /\ t[b] = 0
    BY <1>1, BlockTogether
  <2>. QED
    BY <2>1 DEF LanesHold, LaneHolds, QHeld
<1>4. FragHeld(a)'
  <2>1. \A x \in StripOf(warp(a)) : \A d \in Elem : Qs[QAddr(x, d)] = QRow(x)
    BY <1>3, QTileWhole, Columns
  <2>2. 0 \in Elem
    BY DEF Elem
  <2>3. qf'[a] = [x \in StripOf(warp(a)) |-> QRow(x)]
    BY <1>1, <2>1, <2>2
  <2>4. /\ \A x : QRow(x)' = QRow(x)
        /\ StripOf(warp(a))' = StripOf(warp(a))
    BY <1>1, LaunchKept, RowsKept
  <2>. QED
    BY <2>3, <2>4 DEF FragHeld
<1>5. \A b \in Thread : Untouched(b)
  BY <1>1 DEF Untouched
<1>6. Gains(a, "load") /\ Leaves(a, "load")
  BY <1>1, <1>4 DEF Gains, Leaves
<1>. QED
  BY <1>1, <1>2, <1>5, <1>6, MoveGood DEF Moves

\* The cells of a K/V tile that a lane does not copy keep what they hold.
LEMMA StoredApart ==
  ASSUME NEW buf, NEW regs, NEW a, DOMAIN regs = TileCells(a)
  PROVE  /\ DOMAIN StoredIn(buf, regs) = DOMAIN buf
         /\ \A e \in DOMAIN buf : e \in TileCells(a) => StoredIn(buf, regs)[e] = regs[e]
         /\ \A b \in Thread : b # a =>
              \A e \in TileCells(b) : e \in DOMAIN buf => StoredIn(buf, regs)[e] = buf[e]
<1>1. \A b \in Thread : b # a => \A e \in TileCells(b) : e \notin TileCells(a)
  BY SlicesDisjoint DEF TileCells
<1>. QED
  BY <1>1 DEF StoredIn

\* LoadTile.
LEMMA LoadTileGood ==
  ASSUME Good, NEW a \in Thread, LoadTile(a)
  PROVE  Good'
<1>. USE DEF Good, BlockOK
<1>. DEFINE regs == Fetched(a, t[a], rows_kv(t[a]))
<1>1. /\ pc[a] = "load" /\ Go(a, "raw") /\ inputs' = inputs /\ t' = t
      /\ UNCHANGED <<qf, stage, s, m, l, alpha, oacc, Qs, Ss, o, lse>>
      /\ Ks' = StoredIn(Ks, regs) /\ Vs' = StoredIn(Vs, regs)
  BY DEF LoadTile, registers, outputs
<1>2. /\ DOMAIN regs = TileCells(a)
      /\ \A e \in TileCells(a) : regs[e] = TileCell(e, j0(t[a]), rows_kv(t[a]))
      /\ \A b : TileCells(b) \subseteq DOMAIN Ks /\ TileCells(b) \subseteq DOMAIN Vs
  BY DEF Fetched, TileCells, SliceOf, Shapes
<1>. HIDE DEF regs
<1>3. Shapes'
  BY <1>1, <1>2, StoredApart, LaunchKept DEF Shapes
<1>4. KVHeld(a)'
  <2>1. \A e \in TileCells(a) : /\ Ks'[e] = TileCell(e, j0(t[a]), rows_kv(t[a]))
                                /\ Vs'[e] = TileCell(e, j0(t[a]), rows_kv(t[a]))
    BY <1>1, <1>2, StoredApart
  <2>2. bc' = bc /\ \A n : j0(n)' = j0(n) /\ rows_kv(n)' = rows_kv(n)
    BY <1>1, LaunchKept
  <2>. QED
    BY <1>1, <2>1, <2>2 DEF KVHeld, TileCells
<1>5. ASSUME NEW b \in Thread, b # a PROVE Untouched(b)
  <2>1. \A e \in TileCells(b) : Ks'[e] = Ks[e] /\ Vs'[e] = Vs[e]
    BY <1>1, <1>2, <1>5, StoredApart
  <2>. QED
    BY <1>1, <2>1 DEF Untouched
<1>6. Gains(a, "raw") /\ Leaves(a, "raw")
  BY <1>1, <1>4 DEF Gains, Leaves
<1>. QED
  BY <1>1, <1>3, <1>5, <1>6, MoveGood DEF Moves

\* Fetch: only registers change.
LEMMA FetchGood ==
  ASSUME Good, NEW a \in Thread, Fetch(a)
  PROVE  Good'
<1>. USE DEF Good, BlockOK
<1>1. /\ pc[a] = "fetch" /\ Go(a, "mma") /\ inputs' = inputs /\ t' = t
      /\ UNCHANGED <<qf, s, m, l, alpha, oacc, Qs, Ks, Vs, Ss, o, lse>>
      /\ \A b \in Thread : b # a => stage'[b] = stage[b]
      /\ DOMAIN stage' = Thread
      /\ has_next(a) => stage'[a] = Fetched(a, t[a] + 1, rows_kv(t[a] + 1))
  BY DEF Fetch, shared, outputs, Shapes, NextRows
<1>2. Shapes'
  BY <1>1, LaunchKept DEF Shapes
<1>3. StageHeld(a)'
  <2>1. /\ has_next(a)' = has_next(a) /\ \A n : rows_kv(n)' = rows_kv(n)
        /\ \A n, rows : Fetched(a, n, rows)' = Fetched(a, n, rows)
    BY <1>1, LaunchKept DEF has_next
  <2>. QED
    BY <1>1, <2>1 DEF StageHeld
<1>4. \A b \in Thread : Untouched(b)
  BY <1>1 DEF Untouched
<1>5. Gains(a, "mma") /\ Leaves(a, "mma")
  BY <1>1, <1>3 DEF Gains, Leaves
<1>. QED
  BY <1>1, <1>2, <1>4, <1>5, MoveGood DEF Moves

\* StageTile: no lane reads the tile, the others have yet to store theirs.
LEMMA StageTileGood ==
  ASSUME Good, NEW a \in Thread, StageTile(a)
  PROVE  Good'
<1>. USE DEF Good, BlockOK
<1>. DEFINE to == LoopTop(a, t[a] + 1)
<1>1. /\ pc[a] = "stageTile" /\ inputs' = inputs
      /\ UNCHANGED <<qf, stage, s, m, l, alpha, oacc, Qs, Ss, o, lse>>
      /\ Ks' = IF has_next(a) THEN StoredIn(Ks, stage[a]) ELSE Ks
      /\ Vs' = IF has_next(a) THEN StoredIn(Vs, stage[a]) ELSE Vs
      /\ t[a] \in Nat
  BY DEF StageTile, registers, outputs, Control
<1>2. /\ Control' /\ t'[a] = t[a] + 1 /\ \A b \in Thread : b # a => t'[b] = t[b]
      /\ \A b \in Thread : pc'[b] = IF b = a THEN to ELSE pc[b]
  BY StageTileControl
<1>3. /\ to \in {"stageO", "raw", "load"}
      /\ to = "raw" => has_next(a)
  BY DEF LoopTop, has_next
<1>. HIDE DEF to
<1>4. LaneHolds(a)
  BY DEF LanesHold
<1>5. has_next(a) => /\ DOMAIN stage[a] = TileCells(a)
                     /\ \A e \in TileCells(a) :
                          stage[a][e] = TileCell(e, j0(t[a] + 1), rows_kv(t[a] + 1))
  BY <1>1, <1>4 DEF LaneHolds, StageHeld, Fetched, TileCells
<1>6. \A b : TileCells(b) \subseteq DOMAIN Ks /\ TileCells(b) \subseteq DOMAIN Vs
  BY DEF TileCells, SliceOf, Shapes
<1>7. /\ DOMAIN Ks' = DOMAIN Ks /\ DOMAIN Vs' = DOMAIN Vs
      /\ has_next(a) => \A e \in TileCells(a) :
           /\ Ks'[e] = TileCell(e, j0(t[a] + 1), rows_kv(t[a] + 1))
           /\ Vs'[e] = TileCell(e, j0(t[a] + 1), rows_kv(t[a] + 1))
      /\ \A b \in Thread : b # a => \A e \in TileCells(b) : Ks'[e] = Ks[e] /\ Vs'[e] = Vs[e]
  <2>1. CASE has_next(a)
    BY <1>1, <1>5, <1>6, <2>1, StoredApart
  <2>2. CASE ~ has_next(a)
    BY <1>1, <2>2
  <2>. QED
    BY <2>1, <2>2
<1>8. Shapes'
  BY <1>1, <1>7, LaunchKept DEF Shapes
<1>9. \A b \in Thread : b # a => Idle(b) /\ Untouched(b)
  BY <1>1, <1>2, <1>7 DEF Idle, Untouched
<1>10. LaneHolds(a)'
  <2>. USE DEF Beginning, Loading, Scoring, Reading, Weighing, Voted, Spilling, Scaling, Refilling,
               Adding, Staging, Normalising, Storing, Using, Ending
  <2>1. /\ bc' = bc /\ warp(a)' = warp(a) /\ pc'[a] = to /\ t'[a] # 0
        /\ \A w : StripOf(w)' = StripOf(w)
        /\ \A cols : Held(a, cols)' = Held(a, cols)
        /\ \A n : j0(n)' = j0(n) /\ rows_kv(n)' = rows_kv(n)
    BY <1>1, <1>2, LaunchKept
  <2>2. QHeld(a)' /\ StageHeld(a)' /\ RowHeld(a)' /\ PHeld(a)' /\ AlphaHeld(a)'
    BY <1>3, <2>1 DEF QHeld, StageHeld, RowHeld, PHeld, AlphaHeld, Pending
  <2>3. FragHeld(a)'
    BY <1>1, <1>4, <2>1, RowsKept DEF LaneHolds, FragHeld
  <2>4. KVHeld(a)'
    BY <1>2, <1>3, <1>7, <2>1 DEF KVHeld, TileCells
  <2>5. StripHeld(a)'
    BY <1>3, <2>1 DEF StripHeld, OwnCells
  <2>6. StateHeld(a)'
    <3>1. Done(a) = t[a] + 1 /\ Done(a)' = t[a] + 1
      BY <1>1, <1>2, <1>3, <2>1 DEF Done, Round, Ahead, Pending
    <3>. QED
      BY <1>1, <1>4, <3>1, RowsKept DEF LaneHolds, StateHeld
  <2>7. OaccHeld(a)'
    <3>1. \A x : OHolds(a, x)' = OHolds(a, x)
      BY <1>1, <1>2, <1>3, <2>1, RowsKept DEF OHolds
    <3>. QED
      BY <1>1, <1>4, <2>1, <3>1 DEF LaneHolds, OaccHeld
  <2>. QED
    BY <2>2, <2>3, <2>4, <2>5, <2>6, <2>7 DEF LaneHolds
<1>. QED
  BY <1>1, <1>2, <1>8, <1>9, <1>10, LanesAfter

\* A write to the strip, element by element, of what no other lane holds.
LEMMA StripWrite ==
  ASSUME Good, NEW a \in Thread, inputs' = inputs,
         pc[a] \in {"mma", "storeO", "stageO", "scaleO", "normalise"},
         UNCHANGED <<Qs, Ks, Vs>>,
         DOMAIN Ss' = DOMAIN Ss, \A e \in DOMAIN Ss : e \notin WriteSet(a) => Ss'[e] = Ss[e]
  PROVE  \A b \in Thread : b # a => Untouched(b)
<1>1. ASSUME NEW b \in Thread, b # a
      PROVE  OwnCells(b) \subseteq DOMAIN Ss /\ OwnCells(b) \cap WriteSet(a) = {}
  BY <1>1, WritesApart, OwnInStrip, Columns DEF Good, BlockOK, Shapes
<1>2. \A b \in Thread : b # a => \A e \in OwnCells(b) : Ss'[e] = Ss[e]
  BY <1>1
<1>. QED
  BY <1>2 DEF Untouched

\* StoreS: the tile is whole, and so is the lane's view of Q.
LEMMA StoreSGood ==
  ASSUME Good, NEW a \in Thread, StoreS(a)
  PROVE  Good'
<1>. USE DEF Good, BlockOK
<1>. DEFINE key == [j \in Slot |-> RowAt(Ks, j)]
            cell(e) == [k |-> key[e[2]], s |-> Dot(qf[a][e[1]], key[e[2]])]
<1>1. /\ pc[a] = "mma" /\ Go(a, "sync_S") /\ inputs' = inputs /\ t' = t
      /\ UNCHANGED <<qf, stage, s, m, l, alpha, oacc, Qs, Ks, Vs, o, lse>>
      /\ Ss' = [e \in DOMAIN Ss |-> IF e \in Held(a, Slot) THEN cell(e) ELSE Ss[e]]
  BY DEF StoreS, registers, outputs, Scattered
<1>2. t[a] \in Nat /\ pc[a] \in Using
  BY <1>1 DEF Control, Using, Scoring
<1>3. \A j \in Slot : RowAt(Ks, j) = TileRow(t[a], j)
  <2>1. \A b \in Thread : pc[b] \in Using /\ t[b] = t[a]
    BY <1>2, BlockTogether
  <2>2. \A b \in Thread : \A e \in TileCells(b) : Ks[e] = TileCell(e, j0(t[a]), rows_kv(t[a]))
    BY <2>1 DEF LanesHold, LaneHolds, KVHeld, TileCells
  <2>. QED
    BY <1>2, <2>2, TileWhole
<1>4. \A e \in Held(a, Slot) : e \in DOMAIN Ss /\ cell(e) = RawCell(e[1], e[2], t[a])
  <2>1. /\ \A e \in Held(a, Slot) : e[1] \in StripOf(warp(a)) /\ e[2] \in Slot
        /\ Held(a, Slot) \subseteq DOMAIN Ss
    BY Columns DEF Held, Shapes
  <2>2. qf[a] = [x \in StripOf(warp(a)) |-> QRow(x)]
    BY <1>1 DEF LanesHold, LaneHolds, FragHeld, Beginning
  <2>. QED
    BY <1>3, <2>1, <2>2 DEF RawCell
<1>. HIDE DEF cell
<1>5. Shapes'
  BY <1>1, LaunchKept DEF Shapes
<1>6. StripHeld(a)'
  <2>1. OwnCells(a)' = Held(a, Slot) /\ \A x, c : CellAt(a, x, c)' = RawCell(x, c, t[a])
    <3>1. pc'[a] = "sync_S"
      BY <1>1 DEF Go, Control
    <3>. QED
      BY <1>1, <3>1, LaunchKept, RowsKept DEF OwnCells, CellAt
  <2>2. \A e \in Held(a, Slot) : Ss'[e] = RawCell(e[1], e[2], t[a])
    BY <1>1, <1>4
  <2>. QED
    BY <2>1, <2>2 DEF StripHeld
<1>7. \A b \in Thread : b # a => Untouched(b)
  BY <1>1, StripWrite DEF WriteSet
<1>8. Gains(a, "sync_S") /\ Leaves(a, "sync_S")
  BY <1>1, <1>6 DEF Gains, Leaves
<1>. QED
  BY <1>1, <1>5, <1>7, <1>8, MoveGood DEF Moves

\* What the block writes is told from uninitialised memory when it is read.
LEMMA CellFacts ==
  ASSUME Launch, NEW x \in 0 .. Br - 1, NEW n \in Nat
  PROVE  /\ \A c \in Slot : /\ RawCell(x, c, n) # Undef
                            /\ WeightCell(x, c, n) # Undef
         /\ \A z \in {Sum(x, n), Moved(x, n)} : [o |-> z] # Undef
         /\ i0 + x < N => [y |-> Promise!SoftmaxRow(i0 + x)] # Undef
<1>1. TopOf(x, n + 1) \in Int /\ TopOf(x, n) \in Score
      /\ Seen(x, n) \in SUBSET (0 .. N - 1) /\ \A k \in Seen(x, n) : Scores(x)[k] \in Int
      /\ (Seen(x, n) = {} <=> TopOf(x, n) = NegInf)
  BY NextTop, TopFacts, RowFacts
<1>2. ASSUME NEW c \in Slot
      PROVE  RawCell(x, c, n) # Undef /\ WeightCell(x, c, n) # Undef
  <2>1. TileRow(n, c) \in Key \cup {Pad} /\ Shown(x, c, n) \in Score
    BY ShownFacts
  <2>2. Dot(QRow(x), TileRow(n, c)) \in Int
    <3>1. CASE TileRow(n, c) = Pad
      <4>1. i0 + x \in Int
        BY LaunchFacts
      <4>2. QRow(x) \in [q : Int \cup {Pad}]
        BY <4>1 DEF QRow
      <4>3. QRow(x) # Undef
        BY <4>2
      <4>. QED
        BY <3>1, <4>3 DEF Dot
    <3>2. CASE TileRow(n, c) \in Key
      BY <3>2, RowFacts DEF Scores, ScoreOf
    <3>. QED
      BY <2>1, <3>1, <3>2
  <2>3. p_from_score(Shown(x, c, n), TopOf(x, n + 1)) \in Int \cup {Zero}
    <3>1. TopOf(x, n + 1) # NegInf
      BY <1>1
    <3>2. CASE Shown(x, c, n) = NegInf
      BY <3>1, <3>2 DEF p_from_score, exp2_scaled
    <3>3. CASE Shown(x, c, n) \in Int
      <4>1. Shown(x, c, n) # NegInf
        BY <3>3
      <4>. QED
        BY <1>1, <3>1, <3>3, <4>1 DEF p_from_score, exp2_scaled
    <3>. QED
      BY <2>1, <3>2, <3>3 DEF Score
  <2>. USE CellAssumption
  <2>4. RawCell(x, c, n) \in [k : Int \cup {Pad}, s : Int]
    BY <2>1, <2>2 DEF RawCell, Key
  <2>5. WeightCell(x, c, n) \in [k : Int \cup {Pad}, p : Int \cup {Zero}]
    BY <2>1, <2>3 DEF WeightCell, Key
  <2>. QED
    BY <2>4, <2>5
<1>3. Sum(x, n) \in [Seen(x, n) -> Int] /\ Moved(x, n) \in [Seen(x, n) -> Int]
  <2>1. Seen(x, n) # {} => TopOf(x, n) \in Int
    BY <1>1 DEF Score
  <2>. QED
    BY <1>1, <2>1 DEF Sum, Moved, SumOver
<1>4. \A z \in {Sum(x, n), Moved(x, n)} : [o |-> z] # Undef
  <2>. DEFINE keys == Seen(x, n)
  <2>1. \A z \in [keys -> Int] : [o |-> z] \in [o : [keys -> Int]]
    OBVIOUS
  <2>2. Undef \notin [o : [keys -> Int]]
    BY <1>1, CellAssumption
  <2>. HIDE DEF keys
  <2>3. \A z \in [keys -> Int] : [o |-> z] # Undef
    BY <2>1, <2>2
  <2>. QED
    BY <1>3, <2>3 DEF keys
<1>5. i0 + x < N => [y |-> Promise!SoftmaxRow(i0 + x)] # Undef
  <2>. HAVE i0 + x < N
  <2>. DEFINE keys == Promise!Visible(i0 + x)
              row == Promise!SoftmaxRow(i0 + x)
  <2>0. i0 \in Nat /\ x \in Nat /\ score \in [0 .. N - 1 -> [0 .. N - 1 -> Int]]
    BY LaunchFacts
  <2>1. i0 + x \in 0 .. N - 1 /\ score \in [0 .. N - 1 -> [0 .. N - 1 -> Int]]
    BY <2>0
  <2>2. keys \in SUBSET (0 .. N - 1)
    BY DEF Promise!Visible, Promise!Key
  <2>3. \A k, k2 \in keys : score[i0 + x][k2] - score[i0 + x][k] \in Int
    <3>1. \A k \in 0 .. N - 1 : score[i0 + x][k] \in Int
      <4>. DEFINE i == i0 + x
      <4>1. i \in 0 .. N - 1
        BY <2>1
      <4>. HIDE DEF i
      <4>2. \A k \in 0 .. N - 1 : score[i][k] \in Int
        BY <2>1, <4>1
      <4>. QED
        BY <4>2 DEF i
    <3>. HIDE DEF keys
    <3>. QED
      BY <2>2, <3>1
  <2>4. row \in [keys -> [keys -> Int]]
    BY <2>3 DEF Promise!SoftmaxRow
  <2>5. Undef \notin [y : [keys -> [keys -> Int]]]
    BY <2>2, CellAssumption
  <2>. HIDE DEF keys, row
  <2>6. [y |-> row] \in [y : [keys -> [keys -> Int]]]
    BY <2>4
  <2>7. [y |-> row] # Undef
    BY <2>5, <2>6
  <2>. QED
    BY <2>7 DEF row
<1>. QED
  BY <1>2, <1>4, <1>5

\* ReadS: the tile's mask, or none where the whole tile is visible.
LEMMA ReadSGood ==
  ASSUME Good, NEW a \in Thread, ReadS(a)
  PROVE  Good'
<1>. USE DEF Good, BlockOK
<1>. DEFINE masked(c) == NeedsMask(t[a]) /\ Masked(a, t[a], c)
            read(c) == IF Ss[<<r(a), c>>] = Undef \/ "s" \notin DOMAIN Ss[<<r(a), c>>]
                         THEN [k |-> Undef, s |-> Undef]
                       ELSE IF masked(c) THEN [Ss[<<r(a), c>>] EXCEPT !.s = NegInf] ELSE Ss[<<r(a), c>>]
<1>1. /\ pc[a] = "readS" /\ Go(a, "shfl") /\ inputs' = inputs /\ t' = t
      /\ UNCHANGED <<qf, stage, m, l, alpha, oacc, Qs, Ks, Vs, Ss, o, lse>>
      /\ \A b \in Thread : b # a => s'[b] = s[b]
      /\ DOMAIN s' = Thread
      /\ s'[a] = [c \in HalfOf(a, bc) |-> read(c)]
  BY DEF ReadS, shared, outputs, Shapes
<1>2. t[a] \in Nat /\ r(a) \in 0 .. Br - 1 /\ HalfOf(a, bc) \subseteq Slot
  BY LaneFacts, Columns DEF Control
<1>3. ASSUME NEW c \in HalfOf(a, bc)
      PROVE  read(c) = SCell(r(a), c, t[a])
  <2>1. Ss[<<r(a), c>>] = RawCell(r(a), c, t[a]) /\ Ss[<<r(a), c>>] # Undef
    <3>1. <<r(a), c>> \in OwnCells(a)
      BY <1>1 DEF OwnCells, HalfRow
    <3>2. Ss[<<r(a), c>>] = CellAt(a, r(a), c)
      BY <3>1 DEF LanesHold, LaneHolds, StripHeld
    <3>3. CellAt(a, r(a), c) = RawCell(r(a), c, t[a])
      BY <1>1 DEF CellAt
    <3>. QED
      BY <1>2, <3>2, <3>3, CellFacts
  <2>2. /\ Masked(a, t[a], c) <=> j0(t[a]) + c \notin Vis(r(a))
        /\ Masked(a, t[a], c) => NeedsMask(t[a])
    BY <1>2, MaskIsHidden
  <2>3. masked(c) <=> j0(t[a]) + c \notin Vis(r(a))
    BY <2>2
  <2>. HIDE DEF masked
  <2>4. j0(t[a]) + c \in Vis(r(a)) => Dot(QRow(r(a)), TileRow(t[a], c)) = Shown(r(a), c, t[a])
    BY <1>2, ShownFacts
  <2>5. j0(t[a]) + c \notin Vis(r(a)) => Shown(r(a), c, t[a]) = NegInf
    BY DEF Shown
  <2>. QED
    BY <2>1, <2>3, <2>4, <2>5 DEF RawCell, SCell
<1>. HIDE DEF read
<1>4. Shapes'
  BY <1>1, LaunchKept DEF Shapes
<1>5. RowHeld(a)'
  <2>1. s'[a] = [c \in HalfOf(a, bc) |-> SCell(r(a), c, t[a])]
    BY <1>1, <1>3
  <2>2. pc'[a] = "shfl" /\ bc' = bc /\ \A x, c, n : SCell(x, c, n)' = SCell(x, c, n)
    BY <1>1, LaunchKept, RowsKept DEF Go, Control
  <2>. QED
    BY <1>1, <2>1, <2>2 DEF RowHeld
<1>6. \A b \in Thread : Untouched(b)
  BY <1>1 DEF Untouched
<1>7. Gains(a, "shfl") /\ Leaves(a, "shfl")
  BY <1>1, <1>5 DEF Gains, Leaves
<1>. QED
  BY <1>1, <1>4, <1>6, <1>7, MoveGood DEF Moves

\* StoreP: the block is using a tile, so nobody loads Q any more.
LEMMA StorePGood ==
  ASSUME Good, NEW a \in Thread, StoreP(a)
  PROVE  Good'
<1>. USE DEF Good, BlockOK
<1>. DEFINE cols == HalfOf(a, bc)
            addr(c) == PAddr(r(a), c)
<1>1. /\ pc[a] = "storeP" /\ Go(a, "vote") /\ inputs' = inputs /\ t' = t
      /\ UNCHANGED <<qf, stage, m, l, alpha, oacc, Ks, Vs, Ss, o, lse>>
      /\ \A b \in Thread : b # a => s'[b] = s[b]
      /\ DOMAIN s' = Thread
  BY DEF StoreP, outputs, Shapes
<1>2. s[a] = [c \in cols |-> WeightCell(r(a), c, t[a])]
  BY <1>1 DEF LanesHold, LaneHolds, RowHeld
<1>3. /\ \A c \in cols : Qs'[addr(c)] = s[a][c]
      /\ \A e \in DOMAIN Qs : e \notin PCells(a) => Qs'[e] = Qs[e]
      /\ DOMAIN Qs' = DOMAIN Qs
  <2>1. Qs' = [e \in DOMAIN Qs |->
                IF \E c \in cols : e = addr(c)
                  THEN s[a][CHOOSE c \in cols : e = addr(c)] ELSE Qs[e]]
    BY DEF StoreP
  <2>2. /\ \A c, c2 \in cols : addr(c) = addr(c2) => c = c2
        /\ \A c \in cols : addr(c) \in DOMAIN Qs /\ addr(c) \in PCells(a)
    BY PShareApart DEF PCells, Shapes
  <2>. HIDE DEF cols, addr
  <2>3. \A e \in DOMAIN Qs : e \notin PCells(a) => Qs'[e] = Qs[e]
    BY <2>1, <2>2
  <2>4. \A c \in cols : (CHOOSE c2 \in cols : addr(c) = addr(c2)) = c
    BY <2>2
  <2>5. \A c \in cols : Qs'[addr(c)] = s[a][c]
    BY <2>1, <2>2, <2>4
  <2>. QED
    BY <2>1, <2>3, <2>5
<1>4. Shapes'
  BY <1>1, <1>3, LaunchKept DEF Shapes
<1>5. PHeld(a)'
  <2>1. \A c \in cols : Qs'[addr(c)] = WeightCell(r(a), c, t[a])
    BY <1>2, <1>3
  <2>2. /\ bc' = bc /\ \A x, c, n : WeightCell(x, c, n)' = WeightCell(x, c, n)
        /\ \A x, c : PAddr(x, c)' = PAddr(x, c)
    BY <1>1, LaunchKept, RowsKept
  <2>. QED
    BY <1>1, <2>1, <2>2 DEF PHeld
<1>6. ASSUME NEW b \in Thread, b # a PROVE Untouched(b)
  <2>1. pc[b] \in Using
    BY <1>1, BlockTogether DEF Using, Weighing
  <2>2. pc[b] \notin Beginning \cup Loading
    BY <2>1 DEF Beginning, Loading, Using, Scoring, Reading, Weighing, Voted, Spilling, Scaling,
                Refilling, Adding
  <2>3. PCells(b) \subseteq DOMAIN Qs /\ PCells(a) \cap PCells(b) = {}
    BY <1>6, PShareApart DEF Shapes
  <2>4. \A e \in PCells(b) : Qs'[e] = Qs[e]
    BY <1>3, <2>3
  <2>. QED
    BY <1>1, <2>2, <2>4 DEF Untouched
<1>7. Gains(a, "vote") /\ Leaves(a, "vote")
  BY <1>1, <1>5 DEF Gains, Leaves
<1>. QED
  BY <1>1, <1>4, <1>6, <1>7, MoveGood DEF Moves

\* StoreO, for the rescale and in the epilogue.
LEMMA StoreOGood ==
  ASSUME Good, NEW a \in Thread, StoreO(a)
  PROVE  Good'
<1>. USE DEF Good, BlockOK
<1>. DEFINE to == IF pc[a] = "storeO" THEN "sync_O" ELSE "sync_stage"
<1>1. /\ pc[a] \in {"storeO", "stageO"} /\ Go(a, to) /\ inputs' = inputs /\ t' = t
      /\ UNCHANGED <<qf, stage, s, m, l, alpha, oacc, Qs, Ks, Vs, o, lse>>
      /\ Ss' = [e \in DOMAIN Ss |-> IF e \in Held(a, Elem) THEN [o |-> oacc[a][e]] ELSE Ss[e]]
  BY DEF StoreO, registers, outputs, Scattered
<1>2. /\ pc'[a] = to /\ to \in {"sync_O", "sync_stage"} /\ <<pc[a], to>> \in Moves
  BY <1>1 DEF Go, Control, Moves
<1>. HIDE DEF to
<1>3. \A e \in Held(a, Elem) : e \in DOMAIN Ss /\ Ss'[e] = [o |-> Sum(e[1], t[a])]
  <2>1. Held(a, Elem) \subseteq DOMAIN Ss
    BY Columns DEF Held, Shapes
  <2>2. oacc[a] = [e \in Held(a, Elem) |-> Sum(e[1], t[a])]
    BY <1>1 DEF LanesHold, LaneHolds, OaccHeld, OHolds
  <2>. QED
    BY <1>1, <2>1, <2>2
<1>4. Shapes'
  BY <1>1, LaunchKept DEF Shapes
<1>5. StripHeld(a)'
  <2>1. OwnCells(a)' = Held(a, Elem) /\ \A x, c : CellAt(a, x, c)' = [o |-> Sum(x, t[a])]
    BY <1>1, <1>2, LaunchKept, RowsKept DEF OwnCells, CellAt
  <2>. QED
    BY <1>3, <2>1 DEF StripHeld
<1>6. \A b \in Thread : b # a => Untouched(b)
  BY <1>1, StripWrite DEF WriteSet
<1>7. Gains(a, to) /\ Leaves(a, to)
  BY <1>1, <1>2, <1>5 DEF Gains, Leaves
<1>. QED
  BY <1>1, <1>2, <1>4, <1>6, <1>7, MoveGood

\* ScaleO: the lane's half row, from the old maximum to the new one.
LEMMA ScaleOGood ==
  ASSUME Good, NEW a \in Thread, ScaleO(a)
  PROVE  Good'
<1>. USE DEF Good, BlockOK
<1>1. /\ pc[a] = "scaleO" /\ Go(a, "sync_scaled") /\ inputs' = inputs /\ t' = t
      /\ UNCHANGED <<qf, stage, s, m, l, alpha, oacc, Qs, Ks, Vs, o, lse>>
      /\ Ss' = [e \in DOMAIN Ss |-> IF e[1] = r(a) /\ e[2] \in HalfOf(a, Dim)
                  THEN [o |-> Scale(OCell(e[1], e[2]), alpha[a].by)] ELSE Ss[e]]
  BY DEF ScaleO, registers, outputs, HalfRowO, AfterScale
<1>2. /\ t[a] \in Nat /\ r(a) \in 0 .. Br - 1 /\ HalfOf(a, Dim) \subseteq Elem
      /\ HalfRow(a, Dim) \subseteq DOMAIN Ss
  BY LaneFacts, Columns DEF Control, Shapes
<1>3. \A e \in HalfRow(a, Dim) : OCell(e[1], e[2]) = Sum(e[1], t[a])
  <2>. TAKE e \in HalfRow(a, Dim)
  <2>1. e = <<e[1], e[2]>> /\ e[1] = r(a)
    BY DEF HalfRow
  <2>2. OwnCells(a) = HalfRow(a, Dim) /\ CellAt(a, e[1], e[2]) = [o |-> Sum(e[1], t[a])]
    BY <1>1 DEF OwnCells, CellAt
  <2>3. Ss[e] = [o |-> Sum(e[1], t[a])]
    BY <2>2 DEF LanesHold, LaneHolds, StripHeld
  <2>4. [o |-> Sum(e[1], t[a])] # Undef
    BY <1>2, <2>1, CellFacts
  <2>. QED
    BY <2>1, <2>3, <2>4 DEF OCell
<1>4. alpha[a].by = Alpha(r(a), t[a]).by
  BY <1>1 DEF LanesHold, LaneHolds, AlphaHeld, Pending, Scaling
<1>5. \A e \in HalfRow(a, Dim) : Ss'[e] = [o |-> Moved(e[1], t[a])]
  <2>. TAKE e \in HalfRow(a, Dim)
  <2>1. e[1] = r(a) /\ e[2] \in HalfOf(a, Dim) /\ e \in DOMAIN Ss
    BY <1>2 DEF HalfRow
  <2>2. Scale(Sum(r(a), t[a]), Alpha(r(a), t[a]).by) = Moved(r(a), t[a])
    BY <1>2, NextSumOf
  <2>. QED
    BY <1>1, <1>3, <1>4, <2>1, <2>2
<1>6. Shapes'
  BY <1>1, LaunchKept DEF Shapes
<1>7. StripHeld(a)'
  <2>1. OwnCells(a)' = HalfRow(a, Dim) /\ \A x, c : CellAt(a, x, c)' = [o |-> Moved(x, t[a])]
    <3>1. pc'[a] = "sync_scaled"
      BY <1>1 DEF Go, Control
    <3>. QED
      BY <1>1, <3>1, LaunchKept, RowsKept DEF OwnCells, CellAt, HalfRow
  <2>. QED
    BY <1>5, <2>1 DEF StripHeld
<1>8. \A b \in Thread : b # a => Untouched(b)
  <2>1. \A e \in DOMAIN Ss : e \notin HalfRow(a, Dim) => Ss'[e] = Ss[e]
    <3>. TAKE e \in DOMAIN Ss
    <3>1. e = <<e[1], e[2]>>
      BY DEF Shapes
    <3>2. e[1] = r(a) /\ e[2] \in HalfOf(a, Dim) => e \in HalfRow(a, Dim)
      BY <3>1 DEF HalfRow
    <3>. QED
      BY <1>1, <3>2
  <2>. QED
    BY <1>1, <2>1, StripWrite DEF WriteSet
<1>9. Gains(a, "sync_scaled") /\ Leaves(a, "sync_scaled")
  BY <1>1, <1>7 DEF Gains, Leaves
<1>. QED
  BY <1>1, <1>6, <1>8, <1>9, MoveGood DEF Moves

\* LoadO: the elements the lane holds, rescaled.
LEMMA LoadOGood ==
  ASSUME Good, NEW a \in Thread, LoadO(a)
  PROVE  Good'
<1>. USE DEF Good, BlockOK
<1>1. /\ pc[a] = "loadO" /\ Go(a, "sync_P") /\ inputs' = inputs /\ t' = t
      /\ UNCHANGED <<qf, stage, s, m, l, alpha, Qs, Ks, Vs, Ss, o, lse>>
      /\ \A b \in Thread : b # a => oacc'[b] = oacc[b]
      /\ DOMAIN oacc' = Thread
      /\ oacc'[a] = [e \in Held(a, Elem) |-> OCell(e[1], e[2])]
  BY DEF LoadO, shared, outputs, Shapes
<1>2. \A e \in Held(a, Elem) : OCell(e[1], e[2]) = Moved(e[1], t[a])
  <2>. TAKE e \in Held(a, Elem)
  <2>1. e = <<e[1], e[2]>> /\ e[1] \in 0 .. Br - 1 /\ t[a] \in Nat
    BY Columns DEF Held, Control
  <2>2. OwnCells(a) = Held(a, Elem) /\ CellAt(a, e[1], e[2]) = [o |-> Moved(e[1], t[a])]
    BY <1>1 DEF OwnCells, CellAt
  <2>3. Ss[e] = [o |-> Moved(e[1], t[a])]
    BY <2>2 DEF LanesHold, LaneHolds, StripHeld
  <2>4. [o |-> Moved(e[1], t[a])] # Undef
    BY <2>1, CellFacts
  <2>. QED
    BY <2>1, <2>3, <2>4 DEF OCell
<1>3. Shapes'
  BY <1>1, LaunchKept DEF Shapes
<1>4. OaccHeld(a)'
  <2>1. /\ \A cols : Held(a, cols)' = Held(a, cols)
        /\ \A x : OHolds(a, x)' = Moved(x, t[a])
    <3>1. pc'[a] = "sync_P"
      BY <1>1 DEF Go, Control
    <3>. QED
      BY <1>1, <3>1, LaunchKept, RowsKept DEF OHolds
  <2>. QED
    BY <1>1, <1>2, <2>1 DEF OaccHeld
<1>5. \A b \in Thread : Untouched(b)
  BY <1>1 DEF Untouched
<1>6. Gains(a, "sync_P") /\ Leaves(a, "sync_P")
  BY <1>1, <1>4 DEF Gains, Leaves
<1>. QED
  BY <1>1, <1>3, <1>5, <1>6, MoveGood DEF Moves

\* Behind its barrier a warp finds the weights of all of its strip, and the V
\* tile whole.
LEMMA OperandsOfPV ==
  ASSUME Good, NEW a \in Thread, pc[a] = "mmaPV"
  PROVE  /\ \A x \in StripOf(warp(a)), c \in Slot : PCell(x, c) = WeightCell(x, c, t[a])
         /\ \A c \in Slot : /\ \A d \in Elem : Vs[c * Dim + d] = TileRow(t[a], c)
                            /\ RowAt(Vs, c) = TileRow(t[a], c)
<1>. USE DEF Good, BlockOK
<1>1. /\ t[a] \in Nat /\ warp(a) \in Warp
      /\ \A b \in Thread : pc[b] \in Using /\ t[b] = t[a]
  <2>1. pc[a] \in Using
    BY DEF Using, Adding
  <2>. QED
    BY <2>1, BlockTogether, LaneFacts DEF Control
<1>2. ASSUME NEW x \in StripOf(warp(a)), NEW c \in Slot
      PROVE  PCell(x, c) = WeightCell(x, c, t[a])
  <2>1. PICK b \in LanesOf(warp(a)) : r(b) = x /\ c \in HalfOf(b, bc)
    BY <1>1, StripCovered
  <2>2. b \in Thread /\ warp(b) = warp(a)
    BY DEF LanesOf
  <2>3. pc[b] \in Adding
    <3>1. Adding \in WarpPhases /\ pc[a] \in Adding /\ Adding # Staging
      BY DEF WarpPhases, Adding, Staging
    <3>. QED
      BY <2>2, <3>1, WarpTogether
  <2>4. Qs[PAddr(r(b), c)] = WeightCell(r(b), c, t[a])
    BY <1>1, <2>1, <2>2, <2>3 DEF LanesHold, LaneHolds, PHeld
  <2>5. Qs[PAddr(x, c)] # Undef
    BY <1>1, <1>2, <2>1, <2>4, CellFacts, RowLanes
  <2>. QED
    BY <2>1, <2>4, <2>5 DEF PCell, WeightCell
<1>3. \A b \in Thread : \A e \in TileCells(b) : Vs[e] = TileCell(e, j0(t[a]), rows_kv(t[a]))
  BY <1>1 DEF LanesHold, LaneHolds, KVHeld, TileCells
<1>4. \A c \in Slot : /\ \A d \in Elem : Vs[c * Dim + d] = TileRow(t[a], c)
                      /\ RowAt(Vs, c) = TileRow(t[a], c)
  BY <1>1, <1>3, TileWhole
<1>. QED
  BY <1>2, <1>4

\* AddPV: with the tile's terms the elements are the sum of one tile more.
LEMMA AddPVGood ==
  ASSUME Good, NEW a \in Thread, AddPV(a)
  PROVE  Good'
<1>. USE DEF Good, BlockOK
<1>. DEFINE vkey(e) == [c \in Slot |-> Vs[c * Dim + e[2]]]
            p(e)    == [c \in Slot |-> PCell(e[1], c).p]
            added(e) == AddTerms(oacc[a][e], OutputTerms(vkey(e), p(e)))
<1>1. /\ pc[a] = "mmaPV" /\ Go(a, "war") /\ inputs' = inputs /\ t' = t
      /\ UNCHANGED <<qf, stage, s, m, l, alpha, Qs, Ks, Vs, Ss, o, lse>>
      /\ \A b \in Thread : b # a => oacc'[b] = oacc[b]
      /\ DOMAIN oacc' = Thread
      /\ oacc'[a] = [e \in Held(a, Elem) |-> added(e)]
  BY DEF AddPV, shared, outputs, Shapes
<1>2. t[a] \in Nat
  BY DEF Control
<1>3. \A e \in Held(a, Elem) :
        added(e) = AddTerms(Moved(e[1], t[a]), OutputTerms(vkey(e), p(e)))
  <2>1. oacc[a] = [e \in Held(a, Elem) |-> Moved(e[1], t[a])]
    <3>. HIDE DEF vkey, p, added
    <3>1. oacc[a] = [e \in Held(a, Elem) |-> OHolds(a, e[1])]
      BY DEF LanesHold, LaneHolds, OaccHeld
    <3>2. \A x : OHolds(a, x) = Moved(x, t[a])
      BY <1>1 DEF OHolds
    <3>. QED
      BY <3>1, <3>2
  <2>. HIDE DEF vkey, p
  <2>. QED
    BY <2>1
<1>10. \A e \in Held(a, Elem) : added(e) = Sum(e[1], t[a] + 1)
  <2>. TAKE e \in Held(a, Elem)
  <2>. DEFINE x == e[1]
              n == t[a]
              key == vkey(e)
              w   == p(e)
  <2>1. /\ e[1] \in StripOf(warp(a)) /\ e[2] \in Elem /\ x \in 0 .. Br - 1
    BY Columns DEF Held
  <2>2. key = [c \in Slot |-> TileRow(n, c)]
    BY <1>1, <2>1, OperandsOfPV
  <2>3. w = [c \in Slot |-> p_from_score(Shown(x, c, n), TopOf(x, n + 1))]
    <3>1. \A c \in Slot : PCell(x, c) = WeightCell(x, c, n)
      BY <1>1, <2>1, OperandsOfPV
    <3>. HIDE DEF x, n
    <3>2. \A c \in Slot : PCell(x, c).p = p_from_score(Shown(x, c, n), TopOf(x, n + 1))
      BY <3>1 DEF WeightCell
    <3>3. w = [c \in Slot |-> PCell(x, c).p]
      BY DEF x
    <3>. QED
      BY <3>2, <3>3
  <2>4. added(e) = AddTerms(Moved(x, n), OutputTerms(key, w)) /\ n \in Nat /\ Launch
    BY <1>2, <1>3
  <2>. HIDE DEF x, n, key, w, vkey, p, added
  <2>5. OutputTerms(key, w) = SumOver(TileKeys(x, n), Scores(x), TopOf(x, n + 1))
    BY <2>1, <2>2, <2>3, <2>4, TermsOfTile
  <2>6. added(e) = Sum(x, n + 1)
    BY <2>1, <2>4, <2>5, NextSumOf
  <2>. QED
    BY <2>6 DEF x, n
<1>. HIDE DEF added
<1>4. Shapes'
  BY <1>1, LaunchKept DEF Shapes
<1>5. OaccHeld(a)'
  <2>1. /\ \A cols : Held(a, cols)' = Held(a, cols)
        /\ \A x : OHolds(a, x)' = Sum(x, t[a] + 1)
    <3>1. pc'[a] = "war"
      BY <1>1 DEF Go, Control
    <3>. QED
      BY <1>1, <3>1, LaunchKept, RowsKept DEF OHolds
  <2>. QED
    BY <1>1, <1>10, <2>1 DEF OaccHeld
<1>6. \A b \in Thread : Untouched(b)
  BY <1>1 DEF Untouched
<1>7. Gains(a, "war") /\ Leaves(a, "war")
  BY <1>1, <1>5 DEF Gains, Leaves
<1>. QED
  BY <1>1, <1>4, <1>6, <1>7, MoveGood DEF Moves

\* Normalise: behind the loop a row's sums are those of all it may see.
LEMMA NormaliseGood ==
  ASSUME Good, NEW a \in Thread, Normalise(a)
  PROVE  /\ Good'
         /\ row_valid(a) => /\ finalize_lse(m[a], l[a]) = Promise!LseRow(i_of(a))
                            /\ \A e \in HalfRow(a, Dim) :
                                 Ss'[e] = [y |-> Promise!SoftmaxRow(i_of(a))]
<1>. USE DEF Good, BlockOK
<1>1. /\ pc[a] = "normalise" /\ Go(a, "staged") /\ inputs' = inputs /\ t' = t
      /\ UNCHANGED <<qf, stage, s, m, l, alpha, oacc, Qs, Ks, Vs>>
      /\ DOMAIN lse' = DOMAIN lse
      /\ Ss' = [e \in DOMAIN Ss |-> IF e[1] = r(a) /\ e[2] \in HalfOf(a, Dim)
                  THEN [y |-> NormalisedRow(OCell(e[1], e[2]), l[a])] ELSE Ss[e]]
  BY DEF Normalise, registers, HalfRowO
<1>2. /\ t[a] \in Nat /\ r(a) \in 0 .. Br - 1 /\ HalfOf(a, Dim) \subseteq Elem
      /\ HalfRow(a, Dim) \subseteq DOMAIN Ss
  BY LaneFacts, Columns DEF Control, Shapes
<1>3. \A e \in HalfRow(a, Dim) : OCell(e[1], e[2]) = Sum(r(a), t[a])
  <2>. TAKE e \in HalfRow(a, Dim)
  <2>1. e = <<e[1], e[2]>> /\ e[1] = r(a)
    BY DEF HalfRow
  <2>2. OwnCells(a) = HalfRow(a, Dim) /\ CellAt(a, e[1], e[2]) = [o |-> Sum(e[1], t[a])]
    BY <1>1 DEF OwnCells, CellAt
  <2>3. Ss[e] = [o |-> Sum(e[1], t[a])]
    BY <2>2 DEF LanesHold, LaneHolds, StripHeld
  <2>4. [o |-> Sum(e[1], t[a])] # Undef
    BY <1>2, <2>1, CellFacts
  <2>. QED
    BY <2>1, <2>3, <2>4 DEF OCell
<1>4. m[a] = TopOf(r(a), t[a]) /\ l[a] = Sum(r(a), t[a]) /\ n_tiles <= t[a]
  <2>1. Done(a) = t[a] /\ at(a) \in Ending /\ Round(a) = t[a]
    BY <1>1 DEF Done, Round, at, Ending, Normalising, Ahead, Pending, Weighing, Voted, Spilling,
                Scaling, Adding
  <2>. QED
    BY <2>1 DEF LanesHold, LaneHolds, StateHeld, Control
<1>5. row_valid(a) => /\ finalize_lse(m[a], l[a]) = Promise!LseRow(i_of(a))
                      /\ \A e \in HalfRow(a, Dim) :
                           Ss'[e] = [y |-> Promise!SoftmaxRow(i_of(a))]
  <2>. HAVE row_valid(a)
  <2>1. i0 + r(a) < N /\ i_of(a) = i0 + r(a)
    BY DEF row_valid, i_of
  <2>2. /\ NormalisedRow(Sum(r(a), t[a]), Sum(r(a), t[a])) = Promise!SoftmaxRow(i_of(a))
        /\ finalize_lse(TopOf(r(a), t[a]), Sum(r(a), t[a])) = Promise!LseRow(i_of(a))
    BY <1>2, <1>4, <2>1, FinishedRow
  <2>3. \A e \in HalfRow(a, Dim) : e[1] = r(a) /\ e[2] \in HalfOf(a, Dim) /\ e \in DOMAIN Ss
    BY <1>2 DEF HalfRow
  <2>. QED
    BY <1>1, <1>3, <1>4, <2>2, <2>3
<1>6. Shapes'
  BY <1>1, LaunchKept DEF Shapes
<1>7. StripHeld(a)'
  <2>1. /\ OwnCells(a)' = IF row_valid(a) THEN HalfRow(a, Dim) ELSE {}
        /\ \A x, c : CellAt(a, x, c)' = [y |-> Promise!SoftmaxRow(i0 + x)]
    <3>1. pc'[a] = "staged"
      BY <1>1 DEF Go, Control
    <3>. QED
      BY <1>1, <3>1, LaunchKept, RowsKept DEF OwnCells, CellAt, HalfRow
  <2>2. \A e \in HalfRow(a, Dim) : i0 + e[1] = i_of(a)
    BY DEF HalfRow, i_of
  <2>. QED
    BY <1>5, <2>1, <2>2 DEF StripHeld
<1>8. \A b \in Thread : b # a => Untouched(b)
  <2>1. \A e \in DOMAIN Ss : e \notin HalfRow(a, Dim) => Ss'[e] = Ss[e]
    <3>. TAKE e \in DOMAIN Ss
    <3>1. e = <<e[1], e[2]>>
      BY DEF Shapes
    <3>2. e[1] = r(a) /\ e[2] \in HalfOf(a, Dim) => e \in HalfRow(a, Dim)
      BY <3>1 DEF HalfRow
    <3>. QED
      BY <1>1, <3>2
  <2>. QED
    BY <1>1, <2>1, StripWrite DEF WriteSet
<1>9. Gains(a, "staged") /\ Leaves(a, "staged")
  BY <1>1, <1>7 DEF Gains, Leaves
<1>10. Good'
  <2>1. <<pc[a], "staged">> \in Moves
    BY <1>1 DEF Moves
  <2>. QED
    BY <1>1, <1>6, <1>8, <1>9, <2>1, MoveGood
<1>. QED
  BY <1>5, <1>10

\* Store: only global memory changes.
LEMMA StoreGood ==
  ASSUME Good, NEW a \in Thread, Store(a)
  PROVE  Good'
<1>. USE DEF Good, BlockOK
<1>1. /\ pc[a] = "store" /\ Go(a, "done") /\ inputs' = inputs /\ t' = t
      /\ UNCHANGED <<qf, stage, s, m, l, alpha, oacc, Qs, Ks, Vs, Ss, lse>>
  BY DEF Store, registers, shared
<1>2. Shapes'
  BY <1>1, LaunchKept DEF Shapes
<1>3. \A b \in Thread : Untouched(b)
  BY <1>1 DEF Untouched
<1>4. Gains(a, "done") /\ Leaves(a, "done")
  BY <1>1 DEF Gains, Leaves
<1>. QED
  BY <1>1, <1>2, <1>3, <1>4, MoveGood DEF Moves
-------------------------------------------------------------------------------
(* The steps of a warp and of the block: behind a barrier what every lane  *)
(* has put down is there for all of them.                                  *)

LaneStill(b) == /\ t'[b] = t[b] /\ qf'[b] = qf[b] /\ stage'[b] = stage[b] /\ s'[b] = s[b]
                /\ m'[b] = m[b] /\ l'[b] = l[b] /\ alpha'[b] = alpha[b] /\ oacc'[b] = oacc[b]

Openings == {<<"vote", "sync_P">>, <<"vote", "sync_vote">>,
             <<"sync_S", "readS">>, <<"sync_vote", "storeO">>, <<"sync_O", "scaleO">>,
             <<"sync_scaled", "loadO">>, <<"sync_P", "mmaPV">>, <<"sync_stage", "normalise">>,
             <<"qTile", "fragments">>, <<"raw", "fetch">>, <<"war", "stageTile">>,
             <<"staged", "store">>}

\* A lane let through holds what it held; what it gains is the strip of all
\* lanes, or that a skipped rescale was one by nothing.
LEMMA OpeningHolds ==
  ASSUME NEW a \in Thread, LaneHolds(a), inputs' = inputs, LaneStill(a), UNCHANGED shared,
         NEW to, <<pc[a], to>> \in Openings, pc'[a] = to,
         to \in {"readS", "scaleO", "loadO", "normalise"} => StripHeld(a)',
         to = "sync_P" => OaccHeld(a)',
         to = "fragments" => t[a] = 0, t[a] \in Nat
  PROVE  LaneHolds(a)'
<1>. USE DEF Beginning, Loading, Scoring, Reading, Weighing, Voted, Spilling, Scaling, Refilling,
             Adding, Staging, Normalising, Storing, Using, Ending, Openings
<1>0. /\ t'[a] = t[a] /\ qf'[a] = qf[a] /\ stage'[a] = stage[a] /\ s'[a] = s[a]
      /\ m'[a] = m[a] /\ l'[a] = l[a] /\ alpha'[a] = alpha[a] /\ oacc'[a] = oacc[a]
      /\ Qs' = Qs /\ Ks' = Ks /\ Vs' = Vs /\ Ss' = Ss
  BY DEF LaneStill, shared
<1>1. /\ bc' = bc /\ rows_q' = rows_q /\ prefetch' = prefetch /\ i0' = i0
      /\ warp(a)' = warp(a) /\ row_valid(a)' = row_valid(a)
      /\ \A w : StripOf(w)' = StripOf(w)
      /\ \A cols : Held(a, cols)' = Held(a, cols)
      /\ \A x, c : PAddr(x, c)' = PAddr(x, c)
      /\ \A n : j0(n)' = j0(n) /\ rows_kv(n)' = rows_kv(n)
      /\ \A n : More(a, n)' = More(a, n)
      /\ \A n, rows : Fetched(a, n, rows)' = Fetched(a, n, rows)
  BY LaunchKept
<1>3. QHeld(a)'
  BY <1>0, <1>1 DEF LaneHolds, QHeld
<1>4. FragHeld(a)'
  BY <1>0, <1>1, RowsKept DEF LaneHolds, FragHeld
<1>5. KVHeld(a)'
  BY <1>0, <1>1 DEF LaneHolds, KVHeld
<1>6. StageHeld(a)'
  BY <1>0, <1>1 DEF LaneHolds, StageHeld, has_next
<1>7. StripHeld(a)'
  <2>1. CASE to \in {"sync_P", "sync_vote", "storeO", "mmaPV", "fragments", "fetch", "stageTile"}
    BY <2>1 DEF StripHeld, OwnCells
  <2>2. CASE to = "store"
    <3>1. OwnCells(a)' = OwnCells(a)
      BY <1>1, <2>2 DEF OwnCells, HalfRow
    <3>2. \A x, c : CellAt(a, x, c)' = CellAt(a, x, c)
      BY <1>1, <2>2, RowsKept DEF CellAt
    <3>. QED
      BY <1>0, <2>2, <3>1, <3>2 DEF LaneHolds, StripHeld
  <2>. QED
    BY <2>1, <2>2
<1>8. RowHeld(a)'
  BY DEF RowHeld
<1>9. PHeld(a)'
  BY <1>0, <1>1, RowsKept DEF LaneHolds, PHeld
<1>10. StateHeld(a)'
  <2>1. Done(a)' = Done(a)
    BY <1>0 DEF Done, Ahead, Pending, Round
  <2>. QED
    BY <1>0, <2>1, RowsKept DEF LaneHolds, StateHeld
<1>11. AlphaHeld(a)'
  BY <1>0, RowsKept DEF LaneHolds, AlphaHeld, Pending
<1>12. OaccHeld(a)'
  <2>1. to # "sync_P" => \A x : OHolds(a, x)' = OHolds(a, x)
    BY <1>0, RowsKept DEF OHolds
  <2>. QED
    BY <1>0, <1>1, <2>1 DEF LaneHolds, OaccHeld
<1>. QED
  BY <1>3, <1>4, <1>5, <1>6, <1>7, <1>8, <1>9, <1>10, <1>11, <1>12 DEF LaneHolds

LEMMA OpeningGood ==
  ASSUME Good, inputs' = inputs, t' = t, UNCHANGED registers, UNCHANGED shared, lse' = lse, Control',
         \A b \in Thread : pc'[b] = pc[b] \/ LaneHolds(b)'
  PROVE  Good'
<1>. USE DEF Good, BlockOK
<1>1. UNCHANGED <<qf, stage, s, m, l, alpha, oacc, Qs, Ks, Vs, Ss>>
  BY DEF registers, shared
<1>2. Launch' /\ Shapes'
  BY <1>1, LaunchKept DEF Shapes
<1>3. \A b \in Thread : pc'[b] = pc[b] => Idle(b) /\ Untouched(b)
  BY <1>1 DEF Idle, Untouched
<1>4. \A b \in Thread : LaneHolds(b)'
  BY <1>3, OtherLane DEF LanesHold
<1>. QED
  BY <1>2, <1>4 DEF LanesHold

\* Where all lanes of a warp have put their share into the strip, the strip
\* is what they meant.
LEMMA StripWhole ==
  ASSUME Good, NEW w \in Warp, NEW from \in {"sync_S", "sync_O", "sync_scaled", "sync_stage"},
         \A b \in LanesOf(w) : pc[b] = from,
         NEW a \in LanesOf(w), NEW x \in StripOf(w),
         NEW c \in IF from = "sync_S" THEN Slot ELSE Elem
  PROVE  Ss[<<x, c>>] = CellAt(a, x, c)
<1>. USE DEF Good, BlockOK
<1>1. \A b \in LanesOf(w) : b \in Thread /\ pc[b] = from /\ t[b] = t[a]
  <2>1. \A b \in LanesOf(w) : b \in Thread /\ pc[b] = from /\ Round(b) = t[b] /\ Round(b) = Round(a)
    BY DEF LanesOf, Round, Control
  <2>. QED
    BY <2>1
<1>2. PICK b \in LanesOf(w) : <<x, c>> \in OwnCells(b)
  <2>1. CASE from = "sync_S"
    BY <1>1, <2>1, StripCovered DEF OwnCells
  <2>2. CASE from \in {"sync_O", "sync_stage"}
    BY <1>1, <2>2, StripCovered DEF OwnCells
  <2>3. CASE from = "sync_scaled"
    BY <1>1, <2>3, StripCovered DEF OwnCells, HalfRow
  <2>. QED
    BY <2>1, <2>2, <2>3
<1>3. Ss[<<x, c>>] = CellAt(b, x, c)
  BY <1>1, <1>2 DEF LanesHold, LaneHolds, StripHeld
<1>4. CellAt(b, x, c) = CellAt(a, x, c)
  BY <1>1 DEF CellAt
<1>. QED
  BY <1>3, <1>4

\* Vote: where the warp agrees to skip, no row of its strip needs rescaling.
LEMMA VoteGood ==
  ASSUME Good, NEW w \in Warp, Vote(w)
  PROVE  Good'
<1>. USE DEF Good, BlockOK
<1>. DEFINE to == IF SkipRescale(w) THEN "sync_P" ELSE "sync_vote"
<1>1. /\ inputs' = inputs /\ t' = t /\ UNCHANGED registers /\ UNCHANGED shared /\ lse' = lse
      /\ \A b \in LanesOf(w) : pc[b] = "vote"
      /\ pc' = [b \in Thread |-> IF b \in LanesOf(w) THEN to ELSE pc[b]]
  BY DEF Vote, outputs
<1>2. to \in {"sync_P", "sync_vote"} /\ (to = "sync_P" => SkipRescale(w))
  OBVIOUS
<1>. HIDE DEF to
<1>3. Control' /\ \A b \in Thread : pc'[b] = IF warp(b) = w THEN to ELSE pc[b]
  <2>1. <<"vote", to>> \in WarpMoves
    BY <1>2 DEF WarpMoves
  <2>2. Launch /\ Control /\ inputs' = inputs /\ t' = t
    BY <1>1
  <2>3. /\ \A b \in LanesOf(w) : pc[b] = "vote"
        /\ pc' = [b \in Thread |-> IF b \in LanesOf(w) THEN to ELSE pc[b]]
    BY <1>1
  <2>. QED
    BY ONLY <2>1, <2>2, <2>3, w \in Warp, WarpControl
<1>4. ASSUME NEW a \in Thread, warp(a) = w PROVE LaneHolds(a)'
  <2>1. a \in LanesOf(w) /\ pc[a] = "vote" /\ pc'[a] = to
    BY <1>1, <1>3, <1>4 DEF LanesOf
  <2>2. LaneStill(a) /\ UNCHANGED shared
    BY <1>1 DEF LaneStill, registers
  <2>3. to = "sync_P" => OaccHeld(a)'
    <3>. HAVE to = "sync_P"
    <3>1. ASSUME NEW x \in StripOf(w) PROVE Sum(x, t[a]) = Moved(x, t[a])
      <4>1. /\ 2 * x \in LanesOf(w) /\ 2 * x \in Thread /\ r(2 * x) = x
            /\ x \in 0 .. Br - 1
        BY <3>1, RowLanes
      <4>2. pc[2 * x] = "vote" /\ alpha[2 * x].trivial
        BY <1>1, <1>2, <4>1 DEF SkipRescale
      <4>3. t[2 * x] = t[a] /\ t[a] \in Nat
        <5>1. Round(2 * x) = t[2 * x] /\ Round(a) = t[a]
          BY <2>1, <4>2 DEF Round
        <5>. QED
          BY <4>1, <5>1 DEF Control
      <4>4. alpha[2 * x] = Alpha(x, t[a])
        BY <4>1, <4>2, <4>3 DEF LanesHold, LaneHolds, AlphaHeld, Pending, Weighing
      <4>. QED
        BY <4>1, <4>2, <4>3, <4>4, SkipIsIdentity
    <3>2. /\ \A cols : Held(a, cols)' = Held(a, cols)
          /\ \A x : OHolds(a, x)' = Moved(x, t[a])
      BY <1>1, <2>1, LaunchKept, RowsKept DEF OHolds
    <3>3. \A e \in Held(a, Elem) : e[1] \in StripOf(w)
      BY <1>4 DEF Held
    <3>4. oacc'[a] = oacc[a]
      BY <2>2 DEF LaneStill
    <3>5. oacc[a] = [e \in Held(a, Elem) |-> OHolds(a, e[1])]
      BY DEF LanesHold, LaneHolds, OaccHeld
    <3>6. \A x : OHolds(a, x) = Sum(x, t[a])
      BY <2>1 DEF OHolds
    <3>7. oacc'[a] = [e \in Held(a, Elem) |-> Moved(e[1], t[a])]
      BY <3>1, <3>3, <3>4, <3>5, <3>6
    <3>. QED
      BY <3>2, <3>7 DEF OaccHeld
  <2>4. <<pc[a], to>> \in Openings /\ t[a] \in Nat
    BY <1>2, <2>1 DEF Openings, Control
  <2>5. to \notin {"readS", "scaleO", "loadO", "normalise", "fragments"}
    BY <1>2
  <2>. QED
    BY <1>1, <2>1, <2>2, <2>3, <2>4, <2>5, OpeningHolds DEF LanesHold
<1>. QED
  BY <1>1, <1>3, <1>4, OpeningGood

\* __syncwarp.
LEMMA SyncwarpGood ==
  ASSUME Good, NEW w \in Warp, Syncwarp(w)
  PROVE  Good'
<1>. USE DEF Good, BlockOK
<1>1. /\ inputs' = inputs /\ t' = t /\ UNCHANGED registers /\ UNCHANGED shared /\ lse' = lse
      /\ \A b \in LanesOf(w) : pc[b] \in DOMAIN AfterWarp
      /\ pc' = [b \in Thread |-> IF b \in LanesOf(w) THEN AfterWarp[pc[b]] ELSE pc[b]]
  BY DEF Syncwarp, outputs
<1>2. PICK one \in LanesOf(w) : TRUE
  <2>1. w * strip_rows \in StripOf(w)
    <3>1. strip_rows \in Nat \ {0} /\ w \in Nat
      BY LaunchFacts DEF Warp
    <3>2. w * strip_rows \in Nat /\ (w + 1) * strip_rows = w * strip_rows + strip_rows
      BY <3>1, Multiples
    <3>. QED
      BY <3>1, <3>2 DEF StripOf
  <2>. QED
    BY <2>1, RowLanes
<1>3. PICK from, to : /\ from \in DOMAIN AfterWarp /\ to = AfterWarp[from]
                      /\ \A b \in LanesOf(w) : pc[b] = from
  BY <1>1, WarpBarrier
<1>4. <<from, to>> \in WarpMoves /\ <<from, to>> \in Openings
  BY <1>3 DEF AfterWarp, WarpMoves, Openings
<1>5. pc' = [b \in Thread |-> IF b \in LanesOf(w) THEN to ELSE pc[b]]
  BY <1>1, <1>3
<1>6. /\ to # "sync_P" /\ to # "fragments"
      /\ to = "readS" => from = "sync_S"
      /\ to = "scaleO" => from = "sync_O"
      /\ to = "loadO" => from = "sync_scaled"
      /\ to = "normalise" => from = "sync_stage"
  BY <1>3 DEF AfterWarp
<1>7. Control' /\ \A b \in Thread : pc'[b] = IF warp(b) = w THEN to ELSE pc[b]
  <2>1. Launch /\ Control /\ inputs' = inputs /\ t' = t
    BY <1>1
  <2>2. \A b \in LanesOf(w) : pc[b] = from
    BY <1>3
  <2>. QED
    BY ONLY <1>4, <1>5, <2>1, <2>2, w \in Warp, WarpControl
<1>8. ASSUME NEW a \in Thread, warp(a) = w PROVE LaneHolds(a)'
  <2>1. a \in LanesOf(w) /\ pc[a] = from /\ pc'[a] = to
    BY <1>3, <1>7, <1>8 DEF LanesOf
  <2>2. LaneStill(a) /\ UNCHANGED shared
    BY <1>1 DEF LaneStill, registers
  <2>3. to \in {"readS", "scaleO", "loadO", "normalise"} => StripHeld(a)'
    <3>. HAVE to \in {"readS", "scaleO", "loadO", "normalise"}
    <3>1. from \in {"sync_S", "sync_O", "sync_scaled", "sync_stage"}
      BY <1>6
    <3>2. ASSUME NEW x \in StripOf(w), NEW c \in IF from = "sync_S" THEN Slot ELSE Elem
          PROVE  Ss[<<x, c>>] = CellAt(a, x, c)
      <4>1. \A b \in LanesOf(w) : pc[b] = from
        BY <1>3
      <4>. HIDE DEF Good
      <4>. QED
        BY ONLY Good, w \in Warp, x \in StripOf(w), c \in (IF from = "sync_S" THEN Slot ELSE Elem),
                <2>1, <3>1, <4>1, StripWhole
    <3>3. \A x, c : CellAt(a, x, c)' = CellAt(a, x, c)
      <4>1. t'[a] = t[a]
        BY <1>1
      <4>. QED
        BY <1>1, <1>6, <2>1, <4>1, RowsKept DEF CellAt
    <3>4. \A e \in OwnCells(a)' : /\ e = <<e[1], e[2]>> /\ e[1] \in StripOf(w)
                                  /\ e[2] \in IF from = "sync_S" THEN Slot ELSE Elem
      <4>1. OwnCells(a)' = IF from = "sync_S" THEN HalfRow(a, bc)
                           ELSE IF from = "sync_scaled" THEN Held(a, Elem)
                           ELSE HalfRow(a, Dim)
        BY <1>1, <1>6, <2>1, LaunchKept DEF OwnCells, HalfRow
      <4>2. HalfOf(a, bc) \subseteq Slot /\ HalfOf(a, Dim) \subseteq Elem /\ r(a) \in StripOf(w)
        BY <1>8, Columns, LaneFacts
      <4>3. Held(a, Elem) \subseteq StripOf(w) \X Elem
        BY <1>8 DEF Held
      <4>4. HalfRow(a, bc) \subseteq StripOf(w) \X Slot /\ HalfRow(a, Dim) \subseteq StripOf(w) \X Elem
        BY <4>2 DEF HalfRow
      <4>. QED
        BY <4>1, <4>3, <4>4
    <3>5. Ss' = Ss
      BY <1>1 DEF shared
    <3>. QED
      BY <3>2, <3>3, <3>4, <3>5 DEF StripHeld
  <2>4. t[a] \in Nat
    BY DEF Control
  <2>. QED
    BY <1>1, <1>4, <1>6, <2>1, <2>2, <2>3, <2>4, OpeningHolds DEF LanesHold
<1>. QED
  BY <1>1, <1>7, <1>8, OpeningGood

\* __syncthreads.
LEMMA SyncthreadsGood ==
  ASSUME Good, Syncthreads
  PROVE  Good'
<1>. USE DEF Good, BlockOK
<1>1. /\ inputs' = inputs /\ t' = t /\ UNCHANGED registers /\ UNCHANGED shared /\ lse' = lse
      /\ \A b \in Thread : pc[b] \in DOMAIN AfterBlock
  BY DEF Syncthreads, outputs
<1>2. Control' /\ \A b \in Thread : pc'[b] = AfterBlock[pc[b]]
  BY BlockControl
<1>3. ASSUME NEW a \in Thread PROVE LaneHolds(a)'
  <2>. DEFINE to == AfterBlock[pc[a]]
  <2>1. /\ <<pc[a], to>> \in Openings
        /\ to \notin {"readS", "scaleO", "loadO", "normalise", "sync_P"}
        /\ to = "fragments" => pc[a] = "qTile"
    <3>1. pc[a] \in DOMAIN AfterBlock
      BY <1>1
    <3>. QED
      BY <3>1 DEF AfterBlock, Openings
  <2>2. pc'[a] = to
    BY <1>2
  <2>. HIDE DEF to
  <2>3. LaneStill(a) /\ UNCHANGED shared
    BY <1>1 DEF LaneStill, registers
  <2>4. t[a] \in Nat /\ (to = "fragments" => t[a] = 0)
    BY <2>1 DEF Control, Beginning
  <2>. QED
    BY <1>1, <2>1, <2>2, <2>3, <2>4, OpeningHolds DEF LanesHold
<1>. QED
  BY <1>1, <1>2, <1>3, OpeningGood

\* What the two lanes of a row exchange is the row's masked scores of the
\* tile, and so both find the maximum over one tile more.
KeyOf(a)       == [c \in Slot |-> RowOfS(a)[c].k]
WeightOf(a, y) == [c \in Slot |-> SlotWeight(RowOfS(a)[c].s, y)]
Gained(a, y)   == AddTerms(Scale(l[a], rescale_alpha(m[a], y)), RowTerms(KeyOf(a), WeightOf(a, y)))

LEMMA ExchangedRow ==
  ASSUME Good, NEW w \in Warp, \A b \in LanesOf(w) : pc[b] = "shfl", NEW a \in LanesOf(w)
  PROVE  /\ a \in Thread /\ warp(a) = w /\ r(a) \in 0 .. Br - 1 /\ t[a] \in Nat
         /\ m[a] = TopOf(r(a), t[a]) /\ l[a] = Sum(r(a), t[a])
         /\ \A c \in Slot : RowOfS(a)[c].k = TileRow(t[a], c)
         /\ \A c \in Slot : RowOfS(a)[c].s = Shown(r(a), c, t[a])
         /\ \A c \in Slot : Shown(r(a), c, t[a]) # Undef
<1>. USE DEF Good, BlockOK
<1>1. a \in Thread /\ warp(a) = w /\ r(a) \in 0 .. Br - 1 /\ t[a] \in Nat
  BY LaneFacts DEF LanesOf, Control
<1>2. /\ partner(a) \in LanesOf(w) /\ partner(a) \in Thread
      /\ r(partner(a)) = r(a) /\ half(partner(a)) # half(a)
  BY <1>1, PartnerFacts DEF LanesOf
<1>3. t[partner(a)] = t[a]
  <2>1. Round(partner(a)) = t[partner(a)] /\ Round(a) = t[a]
    BY <1>2 DEF Round
  <2>. QED
    BY <1>1, <1>2, <2>1 DEF Control
<1>4. /\ s[a] = [c \in HalfOf(a, bc) |-> SCell(r(a), c, t[a])]
      /\ s[partner(a)] = [c \in HalfOf(partner(a), bc) |-> SCell(r(a), c, t[a])]
  BY <1>1, <1>2, <1>3 DEF LanesHold, LaneHolds, RowHeld
<1>5. \A c \in Slot : c \in HalfOf(a, bc) \/ c \in HalfOf(partner(a), bc)
  <2>. TAKE c \in Slot
  <2>1. PICK h \in {0, 1} : \A b \in Thread : half(b) = h => c \in HalfOf(b, bc)
    BY LaunchFacts, HalvesOfRow
  <2>2. half(a) \in {0, 1} /\ half(partner(a)) \in {0, 1}
    BY <1>1, <1>2, LaneFacts
  <2>. QED
    BY <1>1, <1>2, <2>1, <2>2
<1>6. \A c \in Slot : RowOfS(a)[c] = SCell(r(a), c, t[a])
  BY <1>4, <1>5 DEF RowOfS
<1>7. m[a] = TopOf(r(a), t[a]) /\ l[a] = Sum(r(a), t[a])
  <2>1. Done(a) = t[a]
    BY DEF Done, Round, Ahead, Pending, Weighing, Voted, Spilling, Scaling, Adding
  <2>. QED
    BY <1>1, <2>1 DEF LanesHold, LaneHolds, StateHeld
<1>8. \A c \in Slot : Shown(r(a), c, t[a]) # Undef
  <2>. TAKE c \in Slot
  <2>1. Shown(r(a), c, t[a]) \in Score
    BY <1>1, ShownFacts
  <2>. QED
    BY <2>1 DEF Score
<1>9. \A c \in Slot : /\ RowOfS(a)[c].k = TileRow(t[a], c)
                     /\ RowOfS(a)[c].s = Shown(r(a), c, t[a])
  <2>1. \A x, c, n : SCell(x, c, n).k = TileRow(n, c) /\ SCell(x, c, n).s = Shown(x, c, n)
    BY DEF SCell
  <2>. QED
    BY <1>6, <2>1
<1>. QED
  BY <1>1, <1>7, <1>8, <1>9

LEMMA ExchangedMaximum ==
  ASSUME Good, NEW w \in Warp, \A b \in LanesOf(w) : pc[b] = "shfl", NEW a \in LanesOf(w)
  PROVE  NewMaximum(a) = TopOf(r(a), t[a] + 1)
<1>. USE DEF Good, BlockOK
<1>. DEFINE x == r(a)
            n == t[a]
            shown == [c \in Slot |-> RowOfS(a)[c].s]
            numbers == {m[a]} \cup ({shown[j] : j \in DOMAIN shown} \ {Undef})
            f == Scores(x)
            T == TileKeys(x, n)
            top == TopOf(x, n)
<1>1. /\ x \in 0 .. Br - 1 /\ n \in Nat /\ m[a] = top
      /\ \A c \in Slot : RowOfS(a)[c].k = TileRow(n, c)
      /\ \A c \in Slot : RowOfS(a)[c].s = Shown(x, c, n)
      /\ \A c \in Slot : Shown(x, c, n) # Undef
  BY ExchangedRow
<1>2. DOMAIN shown = Slot /\ \A c \in Slot : shown[c] = Shown(x, c, n)
  BY <1>1
<1>3. numbers = {m[a]} \cup ({shown[c] : c \in Slot} \ {Undef})
  BY <1>2
<1>4. /\ bc \in Nat /\ j0(n) \in Nat /\ Slot = 0 .. bc - 1
  BY <1>1, LaunchFacts, TileStart DEF Slot
<1>5. \A k \in T : \E c \in Slot : Shown(x, c, n) = f[k]
  <2>. TAKE k \in T
  <2>1. k \in Vis(x) /\ j0(n) <= k /\ k < j0(n) + bc /\ k \in Int
    BY <1>1, RowFacts DEF TileKeys, Within
  <2>2. k - j0(n) \in Slot /\ j0(n) + (k - j0(n)) = k
    BY <1>4, <2>1
  <2>3. Shown(x, k - j0(n), n) = f[k]
    BY <2>1, <2>2 DEF Shown
  <2>. QED
    BY <2>2, <2>3
<1>6. \A c \in Slot : Shown(x, c, n) = NegInf \/ \E k \in T : Shown(x, c, n) = f[k]
  <2>. TAKE c \in Slot
  <2>1. CASE j0(n) + c \in Vis(x)
    <3>1. j0(n) + c \in T
      BY <1>4, <2>1 DEF TileKeys, Within
    <3>. QED
      BY <2>1, <3>1 DEF Shown
  <2>2. CASE j0(n) + c \notin Vis(x)
    BY <2>2 DEF Shown
  <2>. QED
    BY <2>1, <2>2
<1>7. NewMaximum(a) = CHOOSE y \in {y \in numbers : IsMax(y, numbers)} : TRUE
  BY DEF NewMaximum, NewMax
<1>. HIDE DEF x, n, shown, numbers, f, T, top
<1>8. Candidates(numbers, top, f, T)
  <2>1. {top} \cup Values(f, T) \subseteq numbers
    BY <1>1, <1>2, <1>3, <1>5 DEF Values
  <2>2. numbers \subseteq {top, NegInf} \cup Values(f, T)
    BY <1>1, <1>2, <1>3, <1>6 DEF Values
  <2>. QED
    BY <2>1, <2>2 DEF Candidates
<1>9. {y \in numbers : IsMax(y, numbers)} = {TopOf(x, n + 1)}
  <2>1. Candidates(numbers, TopOf(x, n), Scores(x), TileKeys(x, n))
    BY <1>8 DEF top, f, T
  <2>2. \A z : Candidates(z, TopOf(x, n), Scores(x), TileKeys(x, n)) =>
                 {y \in z : IsMax(y, z)} = {TopOf(x, n + 1)}
    BY <1>1, NextTop
  <2>. QED
    BY <2>1, <2>2, Zenon
<1>10. (CHOOSE y \in {TopOf(x, n + 1)} : TRUE) = TopOf(x, n + 1)
  OBVIOUS
<1>. QED
  BY <1>7, <1>9, <1>10 DEF x, n

LEMMA ExchangedSum ==
  ASSUME Good, NEW w \in Warp, \A b \in LanesOf(w) : pc[b] = "shfl", NEW a \in LanesOf(w),
         NEW y, y = TopOf(r(a), t[a] + 1)
  PROVE  /\ Gained(a, y) = Sum(r(a), t[a] + 1)
         /\ \A c \in Slot : [k |-> KeyOf(a)[c], p |-> WeightOf(a, y)[c]]
                              = WeightCell(r(a), c, t[a])
<1>. USE DEF Good, BlockOK
<1>. DEFINE x == r(a)
            n == t[a]
            key == KeyOf(a)
            w2  == WeightOf(a, y)
<1>1. /\ x \in 0 .. Br - 1 /\ n \in Nat /\ m[a] = TopOf(x, n) /\ l[a] = Sum(x, n)
      /\ \A c \in Slot : RowOfS(a)[c].k = TileRow(n, c)
      /\ \A c \in Slot : RowOfS(a)[c].s = Shown(x, c, n)
      /\ \A c \in Slot : Shown(x, c, n) # Undef
  BY ExchangedRow
<1>2. y = TopOf(x, n + 1)
  OBVIOUS
<1>. HIDE DEF x, n
<1>3. key = [c \in Slot |-> TileRow(n, c)]
  BY <1>1 DEF KeyOf
<1>4. w2 = [c \in Slot |-> p_from_score(Shown(x, c, n), TopOf(x, n + 1))]
  <2>1. \A c \in Slot : SlotWeight(RowOfS(a)[c].s, y) = p_from_score(Shown(x, c, n), TopOf(x, n + 1))
    BY <1>1, <1>2 DEF SlotWeight
  <2>. QED
    BY <2>1 DEF WeightOf
<1>5. \A c \in Slot : [k |-> key[c], p |-> w2[c]] = WeightCell(x, c, n)
  BY <1>3, <1>4 DEF WeightCell
<1>6. Gained(a, y) = AddTerms(Scale(Sum(x, n), Alpha(x, n).by), RowTerms(key, w2))
  BY <1>1, <1>2 DEF Gained, Alpha
<1>. HIDE DEF key, w2
<1>7. RowTerms(key, w2) = SumOver(TileKeys(x, n), Scores(x), TopOf(x, n + 1))
  BY <1>1, <1>3, <1>4, TermsOfTile
<1>8. Gained(a, y) = Sum(x, n + 1)
  BY <1>1, <1>6, <1>7, NextSumOf
<1>. QED
  BY <1>5, <1>8 DEF x, n, key, w2

\* Softmax: both lanes of a row move on to the maximum and the sum of one
\* tile more, and keep their half of the weights.
LEMMA SoftmaxEffect ==
  ASSUME Good, NEW w \in Warp, Softmax(w), NEW a \in LanesOf(w)
  PROVE  /\ l'[a] = Gained(a, NewMaximum(a)) /\ m'[a] = NewMaximum(a)
         /\ alpha'[a] = [by |-> rescale_alpha(m[a], NewMaximum(a)),
                         trivial |-> rescale_alpha(m[a], NewMaximum(a)) = 0 \/ m[a] = NegInf]
         /\ s'[a] = [c \in HalfOf(a, bc) |-> [k |-> KeyOf(a)[c], p |-> WeightOf(a, NewMaximum(a))[c]]]
<1>1. a \in Thread
  BY DEF LanesOf
<1>3. PICK mNew \in {[b \in LanesOf(w) |-> NewMaximum(b)]} :
      /\ l' = [b \in Thread |-> IF b \notin LanesOf(w) THEN l[b]
                  ELSE AddTerms(Scale(l[b], rescale_alpha(m[b], mNew[b])),
                                RowTerms([c \in Slot |-> RowOfS(b)[c].k],
                                         [c \in Slot |-> SlotWeight(RowOfS(b)[c].s, mNew[b])]))]
      /\ s' = [b \in Thread |-> IF b \notin LanesOf(w) THEN s[b]
                  ELSE [c \in HalfOf(b, bc) |->
                          [k |-> [c2 \in Slot |-> RowOfS(b)[c2].k][c],
                           p |-> [c2 \in Slot |-> SlotWeight(RowOfS(b)[c2].s, mNew[b])][c]]]]
      /\ alpha' = [b \in Thread |-> IF b \notin LanesOf(w) THEN alpha[b]
                     ELSE [by |-> rescale_alpha(m[b], mNew[b]),
                           trivial |-> rescale_alpha(m[b], mNew[b]) = 0 \/ m[b] = NegInf]]
      /\ m' = [b \in Thread |-> IF b \notin LanesOf(w) THEN m[b] ELSE mNew[b]]
  BY Zenon DEF Softmax
<1>2. mNew[a] = NewMaximum(a)
  OBVIOUS
<1>4. l'[a] = AddTerms(Scale(l[a], rescale_alpha(m[a], mNew[a])),
                       RowTerms([c \in Slot |-> RowOfS(a)[c].k],
                                [c \in Slot |-> SlotWeight(RowOfS(a)[c].s, mNew[a])]))
  BY <1>1, <1>3, Zenon
<1>5. l'[a] = Gained(a, mNew[a])
  BY <1>4, Zenon DEF Gained, KeyOf, WeightOf
<1>6. s'[a] = [c \in HalfOf(a, bc) |->
                          [k |-> [c2 \in Slot |-> RowOfS(a)[c2].k][c],
                           p |-> [c2 \in Slot |-> SlotWeight(RowOfS(a)[c2].s, mNew[a])][c]]]
  BY <1>1, <1>3, Zenon
<1>7. s'[a] = [c \in HalfOf(a, bc) |-> [k |-> KeyOf(a)[c], p |-> WeightOf(a, mNew[a])[c]]]
  BY <1>6, Zenon DEF KeyOf, WeightOf
<1>8. /\ alpha'[a] = [by |-> rescale_alpha(m[a], mNew[a]),
                      trivial |-> rescale_alpha(m[a], mNew[a]) = 0 \/ m[a] = NegInf]
      /\ m'[a] = mNew[a]
  BY <1>1, <1>3, Zenon
<1>. QED
  BY <1>2, <1>5, <1>7, <1>8, Zenon

LEMMA SoftmaxGood ==
  ASSUME Good, NEW w \in Warp, Softmax(w)
  PROVE  Good'
<1>. USE DEF Good, BlockOK
<1>1. /\ inputs' = inputs /\ t' = t /\ qf' = qf /\ stage' = stage /\ oacc' = oacc
      /\ Qs' = Qs /\ Ks' = Ks /\ Vs' = Vs /\ Ss' = Ss /\ lse' = lse
      /\ \A b \in LanesOf(w) : pc[b] = "shfl"
      /\ pc' = [b \in Thread |-> IF b \in LanesOf(w) THEN "storeP" ELSE pc[b]]
  BY DEF Softmax, shared, outputs
<1>2. /\ DOMAIN l' = Thread /\ DOMAIN s' = Thread /\ DOMAIN alpha' = Thread /\ DOMAIN m' = Thread
      /\ \A b \in Thread : b \notin LanesOf(w) =>
           l'[b] = l[b] /\ s'[b] = s[b] /\ alpha'[b] = alpha[b] /\ m'[b] = m[b]
  BY DEF Softmax
<1>3. Control' /\ \A b \in Thread : pc'[b] = IF warp(b) = w THEN "storeP" ELSE pc[b]
  <2>1. <<"shfl", "storeP">> \in WarpMoves
    BY DEF WarpMoves
  <2>2. Launch /\ Control /\ inputs' = inputs /\ t' = t
    BY <1>1
  <2>3. /\ \A b \in LanesOf(w) : pc[b] = "shfl"
        /\ pc' = [b \in Thread |-> IF b \in LanesOf(w) THEN "storeP" ELSE pc[b]]
    BY <1>1
  <2>. QED
    BY ONLY <2>1, <2>2, <2>3, w \in Warp, WarpControl
<1>4. Launch' /\ Shapes'
  BY <1>1, <1>2, LaunchKept DEF Shapes
<1>5. ASSUME NEW a \in LanesOf(w) PROVE LaneHolds(a)'
  <2>. DEFINE x == r(a)
              n == t[a]
  <2>1. /\ a \in Thread /\ x \in 0 .. Br - 1 /\ n \in Nat /\ m[a] = TopOf(x, n)
        /\ NewMaximum(a) = TopOf(x, n + 1)
    BY <1>1, ExchangedRow, ExchangedMaximum
  <2>2. /\ l'[a] = Sum(x, n + 1) /\ m'[a] = TopOf(x, n + 1) /\ alpha'[a] = Alpha(x, n)
    <3>1. Gained(a, NewMaximum(a)) = Sum(x, n + 1)
      BY <1>1, <2>1, ExchangedSum
    <3>. QED
      BY <2>1, <3>1, SoftmaxEffect DEF Alpha
  <2>3. s'[a] = [c \in HalfOf(a, bc) |-> WeightCell(x, c, n)]
    <3>1. \A c \in Slot : [k |-> KeyOf(a)[c], p |-> WeightOf(a, NewMaximum(a))[c]]
                            = WeightCell(x, c, n)
      BY <1>1, <2>1, ExchangedSum
    <3>2. HalfOf(a, bc) \subseteq Slot
      BY <2>1, Columns
    <3>3. s'[a] = [c \in HalfOf(a, bc) |-> [k |-> KeyOf(a)[c], p |-> WeightOf(a, NewMaximum(a))[c]]]
      BY SoftmaxEffect
    <3>. HIDE DEF x, n
    <3>. QED
      BY <3>1, <3>2, <3>3
  <2>4. pc[a] = "shfl" /\ pc'[a] = "storeP" /\ t'[a] = t[a]
    BY <1>1, <2>1
  <2>5. LaneHolds(a)
    BY <2>1 DEF LanesHold
  <2>6. /\ bc' = bc /\ warp(a)' = warp(a) /\ prefetch' = prefetch
        /\ \A v : StripOf(v)' = StripOf(v)
        /\ \A cols : Held(a, cols)' = Held(a, cols)
        /\ \A k : j0(k)' = j0(k) /\ rows_kv(k)' = rows_kv(k)
        /\ \A k : More(a, k)' = More(a, k)
        /\ \A k, rows : Fetched(a, k, rows)' = Fetched(a, k, rows)
    BY <1>1, LaunchKept
  <2>. HIDE DEF x, n
  <2>. USE DEF Beginning, Loading, Scoring, Reading, Weighing, Voted, Spilling, Scaling, Refilling,
               Adding, Using
  <2>7. QHeld(a)' /\ StripHeld(a)' /\ PHeld(a)'
    BY <2>4 DEF QHeld, StripHeld, OwnCells, PHeld, Storing
  <2>8. FragHeld(a)'
    BY <1>1, <2>4, <2>5, <2>6, RowsKept DEF LaneHolds, FragHeld
  <2>9. KVHeld(a)'
    BY <1>1, <2>4, <2>5, <2>6 DEF LaneHolds, KVHeld
  <2>10. StageHeld(a)'
    BY <1>1, <2>4, <2>5, <2>6 DEF LaneHolds, StageHeld, has_next
  <2>11. RowHeld(a)'
    BY <1>1, <2>3, <2>4, <2>6, RowsKept DEF RowHeld, x, n
  <2>12. StateHeld(a)'
    <3>1. Done(a)' = n + 1
      BY <2>4 DEF Done, Ahead, Pending, n
    <3>. QED
      BY <1>1, <2>2, <3>1, RowsKept DEF StateHeld, x, n
  <2>13. AlphaHeld(a)'
    BY <1>1, <2>2, <2>4, RowsKept DEF AlphaHeld, x, n
  <2>14. OaccHeld(a)'
    <3>1. \A z : OHolds(a, z)' = OHolds(a, z)
      BY <1>1, <2>4, RowsKept DEF OHolds
    <3>. QED
      BY <1>1, <2>5, <2>6, <3>1 DEF LaneHolds, OaccHeld
  <2>. QED
    BY <2>7, <2>8, <2>9, <2>10, <2>11, <2>12, <2>13, <2>14 DEF LaneHolds
<1>6. ASSUME NEW b \in Thread, b \notin LanesOf(w) PROVE LaneHolds(b)'
  <2>1. Idle(b)
    BY <1>1, <1>2, <1>6 DEF Idle
  <2>2. Untouched(b)
    BY <1>1 DEF Untouched
  <2>. QED
    BY <1>1, <2>1, <2>2, OtherLane DEF LanesHold
<1>. QED
  BY <1>3, <1>4, <1>5, <1>6 DEF LanesHold

-------------------------------------------------------------------------------
(* The inductive invariant.                                                *)

LEMMA EmptyRow ==
  ASSUME Launch, NEW x \in 0 .. Br - 1
  PROVE  TopOf(x, 0) = NegInf /\ Sum(x, 0) = EmptySum
<1>1. Seen(x, 0) = {} /\ TopOf(x, 0) = NegInf
  BY NextSeen, TopFacts
<1>. QED
  BY <1>1 DEF Sum, SumOver, EmptySum

LEMMA InitLaunch == Init => Launch
<1>. SUFFICES ASSUME Init PROVE Launch
  OBVIOUS
<1>1. PICK b \in 0 .. (N - 1) \div Br : i0 = b * Br
  BY DEF Init
<1>2. Br \in Nat \ {0}
  <2>1. strip_rows \in 1 .. Br
    BY DEF Init
  <2>2. Br \in Nat
    BY DEF Br
  <2>. QED
    BY <2>1, <2>2
<1>3. /\ N - 1 \in Nat /\ (N - 1) \div Br \in Nat /\ (N - 1) % Br \in Nat
      /\ N - 1 = Br * ((N - 1) \div Br) + ((N - 1) % Br)
  <2>. DEFINE x == N - 1
  <2>1. x \in Nat
    OBVIOUS
  <2>. HIDE DEF x
  <2>2. x \div Br \in Nat /\ x % Br \in 0 .. Br - 1 /\ x = Br * (x \div Br) + (x % Br)
    BY <1>2, <2>1, Division
  <2>3. x % Br \in Nat
    BY <1>2, <2>2
  <2>. QED
    BY <2>1, <2>2, <2>3 DEF x
<1>4. Br * b <= Br * ((N - 1) \div Br) /\ Br * b = b * Br /\ Br * b \in Nat
  BY <1>1, <1>2, <1>3, Multiples
<1>5. Br * ((N - 1) \div Br) \in Nat
  BY <1>2, <1>3
<1>6. i0 \in 0 .. N - 1
  BY <1>1, <1>3, <1>4, <1>5
<1>. QED
  BY <1>6 DEF Init, Launch

LEMMA InitGood == Init => StripInv
<1>. SUFFICES ASSUME Init PROVE StripInv
  OBVIOUS
<1>. USE DEF Beginning, Loading, Scoring, Reading, Weighing, Voted, Spilling, Scaling, Refilling,
             Adding, Staging, Normalising, Storing, Using, Ending
<1>1. Launch
  BY InitLaunch
<1>2. \A a \in Thread : pc[a] = "loadQ" /\ t[a] = 0 /\ at(a) = "loadQ" /\ Round(a) = 0
  BY DEF Init, at, Round
<1>3. Control
  <2>1. pc \in [Thread -> Labels] /\ t \in [Thread -> Nat]
    BY DEF Init, Labels, BlockPhases
  <2>2. 0 < n_tiles
    BY <1>1, TileCount
  <2>. QED
    BY <1>2, <2>1, <2>2 DEF Control
<1>4. Shapes
  BY DEF Init, Shapes
<1>5. ASSUME NEW a \in Thread PROVE LaneHolds(a)
  <2>1. /\ m[a] = NegInf /\ l[a] = EmptySum
        /\ oacc[a] = [e \in Held(a, Elem) |-> EmptySum]
    BY DEF Init
  <2>2. StateHeld(a)
    <3>1. Done(a) = 0 /\ r(a) \in 0 .. Br - 1
      BY <1>1, <1>2, LaneFacts DEF Done, Ahead, Pending
    <3>. QED
      BY <1>1, <2>1, <3>1, EmptyRow DEF StateHeld
  <2>3. OaccHeld(a)
    <3>1. \A e \in Held(a, Elem) : e[1] \in 0 .. Br - 1
      BY <1>1, Columns DEF Held
    <3>2. \A e \in Held(a, Elem) : OHolds(a, e[1]) = EmptySum
      BY <1>1, <1>2, <3>1, EmptyRow DEF OHolds
    <3>. QED
      BY <2>1, <3>2 DEF OaccHeld
  <2>4. QHeld(a) /\ FragHeld(a) /\ KVHeld(a) /\ StageHeld(a)
    BY <1>2 DEF QHeld, FragHeld, KVHeld, StageHeld
  <2>5. StripHeld(a) /\ RowHeld(a) /\ PHeld(a) /\ AlphaHeld(a)
    BY <1>2 DEF StripHeld, OwnCells, RowHeld, PHeld, AlphaHeld, Pending
  <2>. QED
    BY <2>2, <2>3, <2>4, <2>5 DEF LaneHolds
<1>6. OHeld /\ LseHeld
  <2>1. /\ \A i \in GlobalRow : \A d \in Elem : o[i][d] = Unwritten
        /\ \A i \in GlobalRow : lse[i] = Unwritten
    BY DEF Init
  <2>2. \A x \in 0 .. Br - 1 : i0 + x \in GlobalRow
    <3>1. i0 \in Nat /\ i0 < N /\ Br \in Nat /\ N \in Nat
      BY <1>1, LaunchFacts
    <3>. QED
      BY <3>1 DEF GlobalRow
  <2>. QED
    BY <1>1, <2>1, <2>2, LaneFacts DEF OHeld, LseHeld, i_of
<1>. QED
  BY <1>1, <1>3, <1>4, <1>5, <1>6 DEF StripInv, BlockOK, LanesHold

\* Only Store writes o and ends a lane; only Normalise writes lse and takes a
\* lane past it.
LEMMA OtherOutputs ==
  ASSUME Control, Next
  PROVE  /\ inputs' = inputs
         /\ \/ \E a \in Thread : Store(a)
            \/ o' = o /\ \A b \in Thread : pc'[b] # "done" => pc[b] # "done"
         /\ \/ \E a \in Thread : Normalise(a)
            \/ lse' = lse /\ \A b \in Thread : pc'[b] \notin Past => pc[b] \notin Past
<1>. USE DEF Past, Storing
<1>0. pc \in [Thread -> Labels]
  BY DEF Control
<1>2. ASSUME NEW a \in Thread, LaneStep(a), ~ Store(a), ~ Normalise(a)
      PROVE  /\ inputs' = inputs /\ o' = o /\ lse' = lse
             /\ \E from, to : /\ pc[a] = from /\ Go(a, to) /\ from \notin Past
  <2>1. CASE LoadQ(a)
    BY <2>1 DEF LoadQ, outputs
  <2>2. CASE LoadFragments(a)
    BY <2>2 DEF LoadFragments, outputs
  <2>3. CASE LoadTile(a)
    BY <2>3 DEF LoadTile, outputs
  <2>4. CASE Fetch(a)
    BY <2>4 DEF Fetch, outputs
  <2>5. CASE StageTile(a)
    BY <2>5 DEF StageTile, outputs
  <2>6. CASE StoreS(a)
    BY <2>6 DEF StoreS, outputs
  <2>7. CASE ReadS(a)
    BY <2>7 DEF ReadS, outputs
  <2>8. CASE StoreP(a)
    BY <2>8 DEF StoreP, outputs
  <2>9. CASE StoreO(a)
    BY <2>9 DEF StoreO, outputs
  <2>10. CASE ScaleO(a)
    BY <2>10 DEF ScaleO, outputs
  <2>11. CASE LoadO(a)
    BY <2>11 DEF LoadO, outputs
  <2>12. CASE AddPV(a)
    BY <2>12 DEF AddPV, outputs
  <2>. QED
    BY <1>2, <2>1, <2>2, <2>3, <2>4, <2>5, <2>6, <2>7, <2>8, <2>9, <2>10, <2>11, <2>12 DEF LaneStep
<1>3. ASSUME NEW a \in Thread, Store(a)
      PROVE  inputs' = inputs /\ lse' = lse /\ \A b \in Thread : pc'[b] \notin Past => pc[b] \notin Past
  BY <1>0, <1>3 DEF Store, Go
<1>4. ASSUME NEW a \in Thread, Normalise(a)
      PROVE  inputs' = inputs /\ o' = o /\ \A b \in Thread : pc'[b] # "done" => pc[b] # "done"
  BY <1>0, <1>4 DEF Normalise, Go
<1>5. ASSUME NEW w \in Warp, WarpStep(w)
      PROVE  /\ inputs' = inputs /\ o' = o /\ lse' = lse
             /\ \A b \in Thread : pc'[b] \notin Past => pc[b] \notin Past
             /\ \A b \in Thread : pc'[b] # "done" => pc[b] # "done"
  <2>1. CASE Softmax(w)
    BY <2>1 DEF Softmax, outputs
  <2>2. CASE Vote(w)
    BY <2>2 DEF Vote, outputs
  <2>3. CASE Syncwarp(w)
    BY <2>3 DEF Syncwarp, outputs, AfterWarp
  <2>. QED
    BY <1>5, <2>1, <2>2, <2>3 DEF WarpStep
<1>6. ASSUME Syncthreads
      PROVE  /\ inputs' = inputs /\ o' = o /\ lse' = lse
             /\ \A b \in Thread : pc'[b] \notin Past => pc[b] \notin Past
             /\ \A b \in Thread : pc'[b] # "done" => pc[b] # "done"
  BY <1>6 DEF Syncthreads, outputs, AfterBlock
<1>7. ASSUME Retired
      PROVE  inputs' = inputs /\ o' = o /\ lse' = lse /\ pc' = pc
  BY <1>7 DEF Retired, vars, outputs
<1>8. ASSUME NEW a \in Thread, LaneStep(a), ~ Store(a), ~ Normalise(a)
      PROVE  /\ inputs' = inputs /\ o' = o /\ lse' = lse
             /\ \A b \in Thread : pc'[b] \notin Past => pc[b] \notin Past
             /\ \A b \in Thread : pc'[b] # "done" => pc[b] # "done"
  <2>1. PICK from, to : pc[a] = from /\ Go(a, to) /\ from \notin Past
    BY <1>2, <1>8
  <2>. QED
    BY <1>0, <1>2, <1>8, <2>1 DEF Go
<1>. QED
  BY <1>3, <1>4, <1>5, <1>6, <1>7, <1>8 DEF Next, Step

\* What a lane stores: the result of a row that exists, for an element nobody
\* has stored before it.
LEMMA StoresResult ==
  ASSUME Good, OHeld, NEW a \in Thread, Store(a), NEW x \in GlobalRow, NEW d \in Elem
  PROVE  \/ o'[x][d] = o[x][d]
         \/ /\ x \in i0 .. i0 + rows_q - 1
            /\ (x - i0) \in 0 .. Br - 1 /\ ((x - i0) * Dim + d) % Threads = a
            /\ o[x][d] = Unwritten /\ o'[x][d] = Promise!SoftmaxRow(x)
<1>. USE DEF Good, BlockOK
<1>. DEFINE y == x - i0
            cell == Ss[<<y, d>>]
            mine == y \in 0 .. rows_q - 1 /\ y * Dim + d \in SliceOf(a, Threads, Br * Dim)
<1>1. /\ pc[a] = "store"
      /\ o'[x][d] = IF mine THEN IF cell = Undef \/ "y" \notin DOMAIN cell THEN Undef ELSE cell.y
                    ELSE o[x][d]
  BY DEF Store
<1>2. CASE ~ mine
  BY <1>1, <1>2
<1>3. CASE mine
  <2>1. /\ i0 \in Nat /\ Br \in Nat /\ x \in Nat /\ N \in Nat /\ i0 < N
    BY LaunchFacts DEF GlobalRow
  <2>2. rows_q \in Nat /\ rows_q <= Br /\ rows_q <= N - i0
    BY <2>1 DEF rows_q, Min2
  <2>3. y \in 0 .. Br - 1 /\ i0 + y = x /\ x < N /\ x \in i0 .. i0 + rows_q - 1
    <3>1. y \in 0 .. rows_q - 1 /\ y = x - i0
      BY <1>3
    <3>. HIDE DEF y
    <3>. QED
      BY ONLY <2>1, <2>2, <3>1
  <2>4. (y * Dim + d) % Threads = a
    BY <1>3 DEF SliceOf
  <2>. HIDE DEF y
  <2>5. o[x][d] = Unwritten
    BY <1>1, <2>3, <2>4 DEF OHeld
  <2>6. cell = [y |-> Promise!SoftmaxRow(x)]
    <3>1. PICK w \in Warp : y \in StripOf(w)
      <4>1. 2 * y \in Thread /\ r(2 * y) = y
        <5>1. Threads = 2 * Br /\ y \in Nat
          BY <2>3, LaunchFacts
        <5>. QED
          BY <2>1, <2>3, <5>1 DEF Thread, r
      <4>. QED
        BY <4>1, LaneFacts
    <3>2. PICK b \in LanesOf(w) : r(b) = y /\ d \in HalfOf(b, Dim)
      BY <3>1, StripCovered
    <3>3. b \in Thread /\ pc[b] \in Storing
      <4>1. b \in Thread
        BY DEF LanesOf
      <4>2. at(a) \in Storing
        BY <1>1 DEF at, Storing
      <4>3. at(b) \in Storing
        BY <4>1, <4>2 DEF Control, BlockPhases
      <4>4. LoopTop(b, t[b] + 1) \in {"stageO", "raw", "load"}
        BY DEF LoopTop
      <4>. QED
        BY <4>1, <4>3, <4>4 DEF at, Storing
    <3>4. row_valid(b)
      BY <2>3, <3>2 DEF row_valid, i_of
    <3>5. <<y, d>> \in OwnCells(b) /\ CellAt(b, y, d) = [y |-> Promise!SoftmaxRow(i0 + y)]
      BY <3>2, <3>3, <3>4 DEF OwnCells, HalfRow, CellAt, Storing
    <3>6. Ss[<<y, d>>] = CellAt(b, y, d)
      BY <3>3, <3>5 DEF LanesHold, LaneHolds, StripHeld
    <3>. QED
      BY <2>3, <3>5, <3>6
  <2>7. [y |-> Promise!SoftmaxRow(x)] # Undef
    BY <2>3, CellFacts
  <2>8. o'[x][d] = Promise!SoftmaxRow(x)
    BY <1>1, <1>3, <2>6, <2>7
  <2>. QED
    BY <2>3, <2>4, <2>5, <2>8 DEF y
<1>. QED
  BY <1>2, <1>3

\* What a lane stores for its row: the log-sum-exp, once.
LEMMA StoresOneLse ==
  ASSUME Good, LseHeld, NEW a \in Thread, Normalise(a), NEW x \in GlobalRow
  PROVE  \/ lse'[x] = lse[x]
         \/ /\ StoresLse(a) /\ x = i_of(a) /\ x \in i0 .. i0 + rows_q - 1
            /\ lse[x] = Unwritten /\ lse'[x] = Promise!LseRow(x)
<1>. USE DEF Good, BlockOK
<1>1. /\ pc[a] = "normalise" /\ DOMAIN lse = GlobalRow
      /\ lse' = IF StoresLse(a)
                  THEN [lse EXCEPT ![i_of(a)] = finalize_lse(m[a], l[a])] ELSE lse
  BY DEF Normalise, Shapes
<1>2. CASE ~ (StoresLse(a) /\ x = i_of(a))
  BY <1>1, <1>2
<1>3. CASE StoresLse(a) /\ x = i_of(a)
  <2>1. lse[x] = Unwritten
    BY <1>1, <1>3 DEF LseHeld, Past, Storing
  <2>2. row_valid(a) /\ finalize_lse(m[a], l[a]) = Promise!LseRow(x)
    BY <1>3, NormaliseGood DEF StoresLse
  <2>3. lse'[x] = Promise!LseRow(x)
    BY <1>1, <1>3, <2>2
  <2>4. x \in i0 .. i0 + rows_q - 1
    <3>1. i0 \in Nat /\ Br \in Nat /\ r(a) \in 0 .. Br - 1
      BY LaunchFacts, LaneFacts
    <3>2. x = i0 + r(a) /\ x < N
      BY <1>3, <2>2 DEF row_valid, i_of
    <3>. QED
      BY <3>1, <3>2 DEF rows_q, Min2
  <2>. QED
    BY <1>3, <2>1, <2>3, <2>4
<1>. QED
  BY <1>2, <1>3

LEMMA StutterGood ==
  ASSUME Good, UNCHANGED vars
  PROVE  Good'
<1>. USE DEF Good, BlockOK
<1>1. /\ inputs' = inputs /\ pc' = pc /\ t' = t /\ lse' = lse
      /\ UNCHANGED <<qf, stage, s, m, l, alpha, oacc, Qs, Ks, Vs, Ss>>
  BY DEF vars, registers, shared, outputs
<1>2. Launch' /\ Shapes'
  BY <1>1, LaunchKept DEF Shapes
<1>3. Control'
  <2>1. \A a : at(a)' = at(a) /\ Round(a)' = Round(a) /\ warp(a)' = warp(a)
    BY <1>1, LaunchKept DEF at, Round
  <2>2. n_tiles' = n_tiles
    BY <1>1, LaunchKept
  <2>. QED
    BY <1>1, <2>1, <2>2 DEF Control
<1>4. \A b \in Thread : LaneHolds(b)'
  <2>1. \A b \in Thread : Idle(b) /\ Untouched(b)
    BY <1>1 DEF Idle, Untouched
  <2>. QED
    BY <1>1, <2>1, OtherLane DEF LanesHold
<1>. QED
  BY <1>2, <1>3, <1>4 DEF LanesHold

\* Every step keeps what the lanes hold.
LEMMA StepGood ==
  ASSUME Good, Next
  PROVE  Good'
<1>1. ASSUME NEW a \in Thread, LaneStep(a) PROVE Good'
  BY <1>1, LoadQGood, LoadFragmentsGood, LoadTileGood, FetchGood, StageTileGood, StoreSGood,
     ReadSGood, StorePGood, StoreOGood, ScaleOGood, LoadOGood, AddPVGood, NormaliseGood, StoreGood
     DEF LaneStep
<1>2. ASSUME NEW w \in Warp, WarpStep(w) PROVE Good'
  BY <1>2, SoftmaxGood, VoteGood, SyncwarpGood DEF WarpStep
<1>3. CASE Syncthreads
  BY <1>3, SyncthreadsGood
<1>4. CASE Retired
  BY <1>4, StutterGood DEF Retired
<1>. QED
  BY <1>1, <1>2, <1>3, <1>4 DEF Next, Step

LEMMA OutputsHeld ==
  ASSUME Good, OHeld, LseHeld, Next
  PROVE  OHeld' /\ LseHeld'
<1>. USE DEF Good, BlockOK
<1>1. /\ inputs' = inputs
      /\ \/ \E a \in Thread : Store(a)
         \/ o' = o /\ \A b \in Thread : pc'[b] # "done" => pc[b] # "done"
      /\ \/ \E a \in Thread : Normalise(a)
         \/ lse' = lse /\ \A b \in Thread : pc'[b] \notin Past => pc[b] \notin Past
  BY OtherOutputs
<1>2. /\ i0' = i0 /\ \A a : i_of(a)' = i_of(a) /\ StoresLse(a)' = StoresLse(a)
  BY <1>1, LaunchKept
<1>3. \A x \in 0 .. Br - 1 : i0 + x \in GlobalRow
  <2>1. i0 \in Nat /\ i0 < N /\ Br \in Nat /\ N \in Nat
    BY LaunchFacts
  <2>. QED
    BY <2>1 DEF GlobalRow
<1>4. \A x \in 0 .. Br - 1, d \in Elem : (x * Dim + d) % Threads \in Thread
  <2>. TAKE x \in 0 .. Br - 1, d \in Elem
  <2>1. x \in Nat /\ d \in Nat /\ Dim \in Nat
    BY LaunchFacts DEF Elem
  <2>2. x * Dim + d \in Nat
    BY <2>1
  <2>. QED
    BY <2>2 DEF Thread
<1>5. OHeld'
  <2>1. CASE o' = o /\ \A b \in Thread : pc'[b] # "done" => pc[b] # "done"
    BY <1>2, <1>4, <2>1 DEF OHeld
  <2>2. ASSUME NEW a \in Thread, Store(a)
        PROVE  OHeld'
    <3>1. /\ pc'[a] = "done" /\ \A b \in Thread : b # a => pc'[b] = pc[b]
      BY <2>2 DEF Store, Go, Control
    <3>2. ASSUME NEW x \in 0 .. Br - 1, NEW d \in Elem, i0 + x < N,
                 pc'[(x * Dim + d) % Threads] # "done"
          PROVE  o'[i0 + x][d] = Unwritten
      <4>1. (x * Dim + d) % Threads # a /\ pc[(x * Dim + d) % Threads] # "done"
        BY <1>4, <3>1, <3>2
      <4>2. o[i0 + x][d] = Unwritten
        BY <3>2, <4>1 DEF OHeld
      <4>3. (i0 + x) - i0 = x
        BY LaunchFacts
      <4>4. o'[i0 + x][d] = o[i0 + x][d]
        BY <1>3, <2>2, <4>1, <4>3, StoresResult
      <4>. QED
        BY <4>2, <4>4
    <3>. QED
      BY <1>2, <3>2 DEF OHeld
  <2>. QED
    BY <1>1, <2>1, <2>2
<1>6. LseHeld'
  <2>1. CASE lse' = lse /\ \A b \in Thread : pc'[b] \notin Past => pc[b] \notin Past
    BY <1>2, <2>1 DEF LseHeld
  <2>2. ASSUME NEW a \in Thread, Normalise(a)
        PROVE  LseHeld'
    <3>1. /\ pc'[a] = "staged" /\ \A b \in Thread : b # a => pc'[b] = pc[b]
      BY <2>2 DEF Normalise, Go, Control
    <3>2. ASSUME NEW b \in Thread, StoresLse(b), pc'[b] \notin Past
          PROVE  lse'[i_of(b)] = Unwritten
      <4>1. b # a /\ pc[b] \notin Past
        BY <3>1, <3>2 DEF Past
      <4>2. lse[i_of(b)] = Unwritten
        BY <3>2, <4>1 DEF LseHeld
      <4>3. r(b) \in 0 .. Br - 1 /\ r(a) \in 0 .. Br - 1 /\ i0 \in Nat /\ Br \in Nat
            /\ i_of(b) = i0 + r(b) /\ i_of(a) = i0 + r(a)
        BY LaunchFacts, LaneFacts DEF i_of
      <4>4. StoresLse(a) => i_of(b) # i_of(a)
        <5>1. StoresLse(a) => half(a) = half(b)
          BY <3>2 DEF StoresLse
        <5>2. half(a) = half(b) => r(a) # r(b)
          BY <4>1, LaneByHalf
        <5>. QED
          BY <4>3, <5>1, <5>2
      <4>5. i_of(b) \in GlobalRow
        BY <1>3, <4>3
      <4>6. lse'[i_of(b)] = lse[i_of(b)]
        BY <2>2, <4>4, <4>5, StoresOneLse
      <4>. QED
        BY <4>2, <4>6
    <3>. QED
      BY <1>2, <3>2 DEF LseHeld
  <2>. QED
    BY <1>1, <2>1, <2>2
<1>. QED
  BY <1>5, <1>6

\* The invariant holds in every reachable state: it is what all of the
\* properties below rest on, for every shape, Holder and order of the lanes.
THEOREM StripInvariant == Spec => []StripInv
<1>1. ASSUME StripInv, [Next]_vars PROVE StripInv'
  <2>1. CASE Next
    BY <1>1, <2>1, StepGood, OutputsHeld DEF StripInv, Good
  <2>2. CASE UNCHANGED vars
    <3>1. Good'
      BY <1>1, <2>2, StutterGood DEF StripInv, Good
    <3>2. OHeld' /\ LseHeld'
      <4>1. inputs' = inputs /\ pc' = pc /\ o' = o /\ lse' = lse
        BY <2>2 DEF vars, outputs
      <4>2. i0' = i0 /\ \A a : i_of(a)' = i_of(a) /\ StoresLse(a)' = StoresLse(a)
        BY <4>1, LaunchKept
      <4>. QED
        BY <1>1, <4>1, <4>2 DEF StripInv, OHeld, LseHeld
    <3>. QED
      BY <3>1, <3>2 DEF StripInv, Good
  <2>. QED
    BY <1>1, <2>1, <2>2
<1>. QED
  BY InitGood, <1>1, PTL DEF Spec

-------------------------------------------------------------------------------
(* What it gives.                                                          *)

\* Barriers and collectives are reached together: no lane of a block waits at
\* one __syncthreads while another passes a different one, and no warp is let
\* through two of its __syncwarp calls at once.
THEOREM CollectivesTogether == Spec => []CollectivesUniform
<1>1. ASSUME StripInv PROVE CollectivesUniform
  <2>. USE <1>1 DEF StripInv, BlockOK
  <2>1. (\A a \in Thread : pc[a] \in DOMAIN AfterBlock) =>
          \A a, b \in Thread : pc[a] = pc[b] /\ t[a] = t[b]
    BY BlockBarrier
  <2>2. \A w \in Warp : (\A a \in LanesOf(w) : pc[a] \in DOMAIN AfterWarp) =>
          \A a, b \in LanesOf(w) : pc[a] = pc[b]
    BY WarpBarrier
  <2>. QED
    BY <2>1, <2>2 DEF CollectivesUniform
<1>. QED
  BY <1>1, StripInvariant, PTL

\* Whatever a lane reads from shared memory is what its program means it to
\* be, at each of the places where it reads it.
THEOREM ReadsAreFresh == Spec => []OperandsFresh
<1>1. ASSUME StripInv, NEW a \in Thread
      PROVE  /\ pc[a] \in {"fetch", "mma"} => qf[a] = [x \in StripOf(warp(a)) |-> QRow(x)]
             /\ pc[a] = "mma" => \A c \in Slot : RowAt(Ks, c) = TileRow(t[a], c)
             /\ pc[a] = "readS" => \A c \in HalfOf(a, bc) :
                  Ss[<<r(a), c>>] = [k |-> TileRow(t[a], c), s |-> Dot(QRow(r(a)), TileRow(t[a], c))]
             /\ pc[a] = "mmaPV" => \A c \in Slot :
                  /\ RowAt(Vs, c) = TileRow(t[a], c)
                  /\ \A x \in StripOf(warp(a)) :
                       PCell(x, c) = [k |-> TileRow(t[a], c),
                                      p |-> p_from_score(IF Masked(2 * x, t[a], c) THEN NegInf
                                                         ELSE Dot(QRow(x), TileRow(t[a], c)), m[2 * x])]
  <2>. USE <1>1 DEF StripInv, BlockOK
  <2>0. t[a] \in Nat /\ LaneHolds(a)
    BY DEF Control, LanesHold
  <2>1. pc[a] \in {"fetch", "mma"} => qf[a] = [x \in StripOf(warp(a)) |-> QRow(x)]
    BY <2>0 DEF LaneHolds, FragHeld, Beginning
  <2>2. ASSUME pc[a] = "mma" PROVE \A c \in Slot : RowAt(Ks, c) = TileRow(t[a], c)
    <3>1. \A b \in Thread : pc[b] \in Using /\ t[b] = t[a]
      BY <2>2, BlockTogether DEF Using, Scoring
    <3>2. \A b \in Thread : \A e \in TileCells(b) : Ks[e] = TileCell(e, j0(t[a]), rows_kv(t[a]))
      BY <3>1 DEF LanesHold, LaneHolds, KVHeld, TileCells
    <3>. QED
      BY <2>0, <3>2, TileWhole
  <2>3. ASSUME pc[a] = "readS", NEW c \in HalfOf(a, bc)
        PROVE  Ss[<<r(a), c>>] = [k |-> TileRow(t[a], c), s |-> Dot(QRow(r(a)), TileRow(t[a], c))]
    <3>1. <<r(a), c>> \in OwnCells(a) /\ CellAt(a, r(a), c) = RawCell(r(a), c, t[a])
      BY <2>3 DEF OwnCells, HalfRow, CellAt
    <3>. QED
      BY <2>0, <3>1 DEF LaneHolds, StripHeld, RawCell
  <2>4. ASSUME pc[a] = "mmaPV", NEW c \in Slot PROVE RowAt(Vs, c) = TileRow(t[a], c)
    BY <2>4, OperandsOfPV DEF Good
  <2>5. ASSUME pc[a] = "mmaPV", NEW c \in Slot, NEW x \in StripOf(warp(a))
        PROVE  PCell(x, c) = [k |-> TileRow(t[a], c),
                              p |-> p_from_score(IF Masked(2 * x, t[a], c) THEN NegInf
                                                 ELSE Dot(QRow(x), TileRow(t[a], c)), m[2 * x])]
    <3>1. PCell(x, c) = WeightCell(x, c, t[a])
      BY <2>5, OperandsOfPV DEF Good
    <3>2. /\ warp(a) \in Warp /\ x \in 0 .. Br - 1
          /\ 2 * x \in Thread /\ r(2 * x) = x /\ warp(2 * x) = warp(a)
      BY <2>5, LaneFacts, RowLanes
    <3>3. m[2 * x] = TopOf(x, t[a] + 1)
      <4>1. pc[2 * x] \in Adding
        <5>1. Adding \in WarpPhases /\ pc[a] \in Adding /\ Adding # Staging
          BY <2>5 DEF WarpPhases, Adding, Staging
        <5>. QED
          BY <3>2, <5>1, WarpTogether
      <4>2. t[2 * x] = t[a]
        BY <2>5, <3>2, BlockTogether DEF Using, Adding
      <4>3. Done(2 * x) = t[a] + 1
        BY <4>1, <4>2 DEF Done, Ahead
      <4>. QED
        BY <3>2, <4>3 DEF LanesHold, LaneHolds, StateHeld
    <3>4. Shown(x, c, t[a]) = IF Masked(2 * x, t[a], c) THEN NegInf
                              ELSE Dot(QRow(x), TileRow(t[a], c))
      <4>1. Masked(2 * x, t[a], c) <=> j0(t[a]) + c \notin Vis(x)
        BY <2>0, <3>2, MaskIsHidden
      <4>2. j0(t[a]) + c \in Vis(x) => Dot(QRow(x), TileRow(t[a], c)) = Shown(x, c, t[a])
        BY <2>0, <3>2, ShownFacts
      <4>. QED
        BY <4>1, <4>2 DEF Shown
    <3>. QED
      BY <3>1, <3>3, <3>4 DEF WeightCell
  <2>. QED
    BY <2>1, <2>2, <2>3, <2>4, <2>5
<1>2. ASSUME StripInv PROVE OperandsFresh
  BY <1>1, <1>2 DEF OperandsFresh
<1>. QED
  BY <1>2, StripInvariant, PTL

\* Between two tiles a row's maximum and sum, and O over all of its lanes, are
\* those of the keys seen.
THEOREM StateIsExact == Spec => []StateExact
<1>1. ASSUME StripInv, NEW a \in Thread,
             pc[a] \in {"war", "stageTile", "load", "raw", "stageO"},
             NEW n, n = t[a] + (IF pc[a] \in {"war", "stageTile"} THEN 1 ELSE 0)
      PROVE  /\ n \in Nat /\ m[a] = TopOf(r(a), n) /\ l[a] = Sum(r(a), n)
             /\ oacc[a] = [e \in Held(a, Elem) |-> Sum(e[1], n)]
             /\ \A x \in StripOf(warp(a)) : m[2 * x] = TopOf(x, n)
  <2>. USE <1>1 DEF StripInv, BlockOK
  <2>. USE DEF Beginning, Loading, Scoring, Reading, Weighing, Voted, Spilling, Scaling, Refilling,
               Adding, Staging, Normalising, Using, Ending
  <2>1. t[a] \in Nat /\ LaneHolds(a) /\ n \in Nat
    BY DEF Control, LanesHold
  <2>2. Done(a) = n
    BY <2>1 DEF Done, Ahead, Pending, Round
  <2>3. oacc[a] = [e \in Held(a, Elem) |-> Sum(e[1], n)]
    <3>1. \A x : OHolds(a, x) = Sum(x, n)
      BY <2>1 DEF OHolds
    <3>. QED
      BY <2>1, <3>1 DEF LaneHolds, OaccHeld
  <2>4. ASSUME NEW b \in Thread, warp(b) = warp(a) PROVE Done(b) = n
    <3>1. Round(b) = Round(a) /\ t[b] \in Nat
      BY DEF Control
    <3>2. CASE pc[a] = "war"
      <4>1. pc[b] \in Adding
        <5>1. Adding \in WarpPhases /\ pc[a] \in Adding /\ Adding # Staging
          BY <3>2 DEF WarpPhases
        <5>. QED
          BY <2>4, <5>1, WarpTogether
      <4>2. t[b] = t[a]
        BY <3>1, <3>2, <4>1 DEF Round
      <4>. QED
        BY <3>2, <4>1, <4>2 DEF Done, Ahead
    <3>3. CASE pc[a] # "war"
      <4>1. at(a) \in Loading \/ at(a) \in Ending
        BY <3>3 DEF at, LoopTop
      <4>2. at(b) \in Loading \/ at(b) \in Ending
        BY <4>1 DEF Control, BlockPhases
      <4>3. pc[b] \notin Ahead
        BY <4>2 DEF at, Ahead, Pending
      <4>4. Round(a) = n
        BY <2>1, <3>3 DEF Round
      <4>. QED
        BY <3>1, <4>3, <4>4 DEF Done
    <3>. QED
      BY <3>2, <3>3
  <2>5. ASSUME NEW x \in StripOf(warp(a)) PROVE m[2 * x] = TopOf(x, n)
    <3>1. 2 * x \in Thread /\ r(2 * x) = x /\ warp(2 * x) = warp(a)
      BY <2>5, LaneFacts, RowLanes
    <3>. QED
      BY <2>4, <3>1 DEF LanesHold, LaneHolds, StateHeld
  <2>. QED
    BY <2>1, <2>2, <2>3, <2>5 DEF LaneHolds, StateHeld
<1>2. ASSUME StripInv PROVE StateExact
  <2>. DEFINE K(a) == t[a] + (IF pc[a] \in {"war", "stageTile"} THEN 1 ELSE 0)
              total(x, n) == [k \in Seen(x, n) |-> ScoreOf(x, k) - m[2 * x]]
  <2>1. ASSUME NEW a \in Thread, pc[a] \in {"war", "stageTile", "load", "raw", "stageO"},
               NEW n, n = K(a)
        PROVE  /\ IF n = 0 THEN m[a] = NegInf
                  ELSE /\ m[a] \in {ScoreOf(r(a), k) : k \in Seen(r(a), n)}
                       /\ \A k \in Seen(r(a), n) : ScoreOf(r(a), k) <= m[a]
               /\ l[a] = total(r(a), n)
               /\ \A e \in Held(a, Elem) : oacc[a][e] = total(e[1], n)
    <3>. USE <1>2 DEF StripInv, BlockOK
    <3>1. /\ n \in Nat /\ m[a] = TopOf(r(a), n) /\ l[a] = Sum(r(a), n)
          /\ oacc[a] = [e \in Held(a, Elem) |-> Sum(e[1], n)]
          /\ \A x \in StripOf(warp(a)) : m[2 * x] = TopOf(x, n)
      BY <1>1, <2>1
    <3>. HIDE DEF K
    <3>2. r(a) \in StripOf(warp(a)) /\ r(a) \in 0 .. Br - 1 /\ StripOf(warp(a)) \subseteq 0 .. Br - 1
      BY LaneFacts, Columns
    <3>3. \A x \in 0 .. Br - 1 : \A k \in Seen(x, n) : Scores(x)[k] = ScoreOf(x, k)
      <4>. TAKE x \in 0 .. Br - 1
      <4>1. Seen(x, n) \subseteq Key
        BY DEF Seen
      <4>. QED
        BY <4>1 DEF Scores
    <3>4. \A x \in StripOf(warp(a)) : Sum(x, n) = total(x, n)
      BY <3>1, <3>2, <3>3 DEF Sum, SumOver
    <3>. HIDE DEF total
    <3>5. l[a] = total(r(a), n)
      BY <3>1, <3>2, <3>4
    <3>6. \A e \in Held(a, Elem) : oacc[a][e] = total(e[1], n)
      <4>1. \A e \in Held(a, Elem) : e[1] \in StripOf(warp(a))
        BY DEF Held
      <4>. QED
        BY <3>1, <3>4, <4>1
    <3>7. n = 0 => m[a] = NegInf
      BY <3>1, <3>2, EmptyRow
    <3>8. ASSUME n # 0
          PROVE  /\ m[a] \in {ScoreOf(r(a), k) : k \in Seen(r(a), n)}
                 /\ \A k \in Seen(r(a), n) : ScoreOf(r(a), k) <= m[a]
      <4>1. Seen(r(a), n) # {}
        <5>1. n - 1 \in Nat /\ (n - 1) + 1 = n
          BY <3>1, <3>8
        <5>. QED
          BY <3>2, <5>1, NextSeen
      <4>2. MaxOver(TopOf(r(a), n), Seen(r(a), n), Scores(r(a)))
        BY <3>2, TopFacts
      <4>. QED
        BY <3>1, <3>2, <3>3, <4>1, <4>2 DEF MaxOver, Values
    <3>. QED
      BY <3>5, <3>6, <3>7, <3>8
  <2>. QED
    BY <2>1 DEF StateExact
<1>. QED
  BY <1>2, StripInvariant, PTL

\* Every step of the block is a step of Attention's Write, or none it can see.
LEMMA StepWrites ==
  ASSUME StripInv, Next
  PROVE  Promise!Write \/ UNCHANGED Promise!vars
<1>. USE DEF StripInv, BlockOK
<1>1. /\ inputs' = inputs
      /\ (\E a \in Thread : Store(a)) \/ o' = o
      /\ (\E a \in Thread : Normalise(a)) \/ lse' = lse
  BY OtherOutputs
<1>2. UNCHANGED <<score, causal, i0 .. i0 + rows_q - 1>>
  BY <1>1, LaunchKept
<1>3. CASE o' = o /\ lse' = lse
  BY <1>2, <1>3 DEF Promise!vars
<1>4. ASSUME NEW a \in Thread, Store(a)
      PROVE  Promise!Write
  <2>1. \A x \in GlobalRow, d \in Elem :
          \/ o'[x][d] = o[x][d]
          \/ x \in i0 .. i0 + rows_q - 1 /\ o[x][d] = Unwritten /\ o'[x][d] = Promise!SoftmaxRow(x)
    BY <1>4, StoresResult DEF Good
  <2>2. lse' = lse
    BY <1>4 DEF Store
  <2>. QED
    BY <1>2, <2>1, <2>2 DEF Promise!Write, Promise!inputs
<1>5. ASSUME NEW a \in Thread, Normalise(a)
      PROVE  Promise!Write
  <2>1. \A x \in GlobalRow :
          \/ lse'[x] = lse[x]
          \/ x \in i0 .. i0 + rows_q - 1 /\ lse[x] = Unwritten /\ lse'[x] = Promise!LseRow(x)
    BY <1>5, StoresOneLse DEF Good
  <2>2. o' = o
    BY <1>5 DEF Normalise
  <2>. QED
    BY <1>2, <2>1, <2>2 DEF Promise!Write, Promise!inputs
<1>. QED
  BY <1>1, <1>3, <1>4, <1>5

\* The tensor-core block implements Attention: it writes each element of its
\* rows and their log-sum-exp once, with the softmax over the visible keys, and
\* nothing else.
THEOREM StripImplements == Spec => ImplementsAttention
<1>1. Init => Promise!Init
  BY DEF Init, Promise!Init
<1>2. ASSUME StripInv, [Next]_vars PROVE [Promise!Write]_(Promise!vars)
  <2>1. CASE UNCHANGED vars
    <3>1. inputs' = inputs /\ o' = o /\ lse' = lse
      BY <2>1 DEF vars, outputs
    <3>2. UNCHANGED <<score, causal, i0 .. i0 + rows_q - 1>>
      BY <3>1, LaunchKept
    <3>. QED
      BY <3>1, <3>2 DEF Promise!vars
  <2>. QED
    BY <1>2, <2>1, StepWrites
<1>. QED
  BY <1>1, <1>2, StripInvariant, PTL DEF Spec, ImplementsAttention, Promise!Spec

===============================================================================
