--------------------------- MODULE FusedBlockProofs ---------------------------
(***************************************************************************)
(* fa_s3_fused keeps the promise of Attention, for every sequence length,  *)
(* block height, tile height, row width and score matrix.  First the       *)
(* barriers: the threads go through the tile loop together, and none of    *)
(* them ever reads a row of a tile that is not there as a whole (which     *)
(* part of the buffers each thread has filled is in the invariant; a       *)
(* barrier turns "every thread its share" into "all").  On whole tiles the *)
(* registers of a thread hold the exact running state of its row, and the  *)
(* epilogue writes each row's result once and nowhere else.  Seen alone, a *)
(* thread runs the recurrence of RowSoftmax, whatever the others do.       *)
(***************************************************************************)
EXTENDS FusedBlock, TileTheorems

USE SentinelAssumption, BlockAssumption

-------------------------------------------------------------------------------
\* The stretches of the kernel between two barriers that every thread passes.
Loading == {"loadQ", "load", "raw"}
Using   == {"scores", "update", "war"}
Staging == {"stage", "staged"}
Storing == {"store", "done"}
Together == {Loading, Using, Staging, Storing}

LaunchOK ==
  /\ causal \in BOOLEAN
  /\ bc \in TileSizes
  /\ i0 \in 0 .. N - 1
  /\ score \in [0 .. N - 1 -> [0 .. N - 1 -> Int]]
  /\ DOMAIN Qs = 0 .. Br * Dim - 1
  /\ DOMAIN Ks = 0 .. bc * Dim - 1
  /\ DOMAIN Vs = 0 .. bc * Dim - 1

\* The threads are in one stretch and on one tile.
Control ==
  /\ pc \in [Thread -> Loading \cup Using \cup Staging \cup Storing]
  /\ t \in [Thread -> Nat]
  /\ \A a, b \in Thread : t[a] = t[b]
  /\ \A a, b \in Thread, ph \in Together : pc[a] \in ph => pc[b] \in ph
  /\ \A a \in Thread : pc[a] \in Loading \cup Using => t[a] < n_tiles(a)

\* A thread that is past its loads has filled its share of the buffers.
QHeld ==
  \A a \in Thread : pc[a] \in {"load", "raw"} \cup Using =>
    \A e \in SliceOf(a, Br, Br * Dim) : Qs[e] = [q |-> TileCell(e, i0, rows_q)]
KVHeld ==
  \A a \in Thread : pc[a] \in {"raw"} \cup Using =>
    \A e \in SliceOf(a, Br, bc * Dim) :
      Ks[e] = TileCell(e, j0(a), rows_kv(a)) /\ Vs[e] = TileCell(e, j0(a), rows_kv(a))

BInv == LaunchOK /\ Control /\ QHeld /\ KVHeld

\* A block starts inside the sequence.
LEMMA BlockStart ==
  ASSUME NEW b \in 0 .. (N - 1) \div Br
  PROVE  b * Br \in 0 .. N - 1
<1>1. \A x \in Nat : (x \div Br) \in Nat /\ Br * (x \div Br) <= x
  OBVIOUS
<1>2. b \in Nat /\ b <= (N - 1) \div Br
  BY <1>1
<1>3. Br * b <= Br * ((N - 1) \div Br)
  BY <1>1, <1>2
<1>. QED
  BY <1>1, <1>2, <1>3

LEMMA InitBInv == Init => BInv
<1>. SUFFICES ASSUME Init PROVE BInv
  OBVIOUS
<1>1. LaunchOK
  BY BlockStart DEF Init, LaunchOK
<1>2. \A a \in Thread : 0 < n_tiles(a)
  <2>. TAKE a \in Thread
  <2>1. bc \in Nat \ {0} /\ i0 \in 0 .. N - 1
    BY <1>1 DEF LaunchOK
  <2>2. kv_end \in Nat \ {0}
    BY <2>1 DEF kv_end, Min2
  <2>3. (kv_end + bc - 1) \div bc >= 1
    <3>1. \A x \in Nat : x >= bc => x \div bc >= 1
      BY <2>1
    <3>. QED
      BY <2>1, <2>2, <3>1
  <2>. QED
    BY <2>1, <2>2, <2>3 DEF n_tiles
<1>3. Control
  BY <1>2 DEF Init, Control, Together, Loading, Using, Staging, Storing
<1>4. QHeld /\ KVHeld
  BY DEF Init, QHeld, KVHeld, Using
<1>. QED
  BY <1>1, <1>3, <1>4 DEF BInv

LEMMA LoadQInv ==
  ASSUME BInv, NEW tid \in Thread, LoadQ(tid)
  PROVE  BInv'
<1>. USE DEF BInv
<1>1. LaunchOK'
  BY DEF LoadQ, LaunchOK, inputs
<1>2. Control'
  BY DEF LoadQ, Go, Control, Loading, Using, Staging, Storing, Together,
         n_tiles, kv_end, inputs
<1>3. Br * Dim \in Nat /\ DOMAIN Qs = 0 .. Br * Dim - 1
  BY DEF LaunchOK
<1>4. \A e \in 0 .. Br * Dim - 1 :
        Qs'[e] = IF e \in SliceOf(tid, Br, Br * Dim)
                   THEN [q |-> TileCell(e, i0, rows_q)] ELSE Qs[e]
  BY <1>3 DEF LoadQ
<1>5. ASSUME NEW a \in Thread, pc'[a] \in {"load", "raw"} \cup Using,
             NEW e \in SliceOf(a, Br, Br * Dim)
      PROVE  Qs'[e] = [q |-> TileCell(e, i0, rows_q)]
  <2>1. e \in 0 .. Br * Dim - 1
    BY DEF SliceOf
  <2>2. CASE a = tid
    BY <1>4, <1>5, <2>1, <2>2
  <2>3. CASE a # tid
    <3>1. pc[a] = pc'[a]
      BY <2>3 DEF LoadQ, Go, Control
    <3>2. e \notin SliceOf(tid, Br, Br * Dim)
      BY ONLY <1>5, <2>3, SlicesDisjoint
    <3>. QED
      BY <1>4, <1>5, <2>1, <3>1, <3>2 DEF QHeld
  <2>. QED
    BY <2>2, <2>3
<1>6. QHeld'
  BY <1>5 DEF QHeld, LoadQ, inputs, TileCell, rows_q
<1>7. KVHeld'
  <2>1. \A a \in Thread : pc'[a] \in {"raw"} \cup Using => pc[a] \in {"raw"} \cup Using
    BY DEF LoadQ, Go, Control, Using
  <2>. QED
    BY <2>1 DEF KVHeld, LoadQ, inputs, TileCell, rows_kv, j0
<1>. QED
  BY <1>1, <1>2, <1>6, <1>7

LEMMA LoadTileInv ==
  ASSUME BInv, NEW tid \in Thread, LoadTile(tid)
  PROVE  BInv'
<1>. USE DEF BInv
<1>1. LaunchOK'
  BY DEF LoadTile, LaunchOK, inputs
<1>2. Control'
  BY DEF LoadTile, Go, Control, Loading, Using, Staging, Storing, Together,
         n_tiles, kv_end, inputs
<1>3. bc * Dim \in Nat /\ DOMAIN Ks = 0 .. bc * Dim - 1 /\ DOMAIN Vs = 0 .. bc * Dim - 1
  BY DEF LaunchOK
<1>4. \A e \in 0 .. bc * Dim - 1 :
        /\ Ks'[e] = IF e \in SliceOf(tid, Br, bc * Dim)
                      THEN TileCell(e, j0(tid), rows_kv(tid)) ELSE Ks[e]
        /\ Vs'[e] = IF e \in SliceOf(tid, Br, bc * Dim)
                      THEN TileCell(e, j0(tid), rows_kv(tid)) ELSE Vs[e]
  BY <1>3 DEF LoadTile
<1>5. ASSUME NEW a \in Thread, pc'[a] \in {"raw"} \cup Using,
             NEW e \in SliceOf(a, Br, bc * Dim)
      PROVE  /\ Ks'[e] = TileCell(e, j0(a), rows_kv(a))
             /\ Vs'[e] = TileCell(e, j0(a), rows_kv(a))
  <2>1. e \in 0 .. bc * Dim - 1
    BY DEF SliceOf
  <2>2. CASE a = tid
    BY <1>4, <1>5, <2>1, <2>2
  <2>3. CASE a # tid
    <3>1. pc[a] = pc'[a]
      BY <2>3 DEF LoadTile, Go, Control
    <3>2. e \notin SliceOf(tid, Br, bc * Dim)
      BY ONLY <1>5, <2>3, SlicesDisjoint
    <3>. QED
      BY <1>4, <1>5, <2>1, <3>1, <3>2 DEF KVHeld
  <2>. QED
    BY <2>2, <2>3
<1>6. KVHeld'
  <2>1. bc' = bc /\ t' = t
    BY DEF LoadTile, inputs
  <2>2. \A a \in Thread : j0(a)' = j0(a) /\ rows_kv(a)' = rows_kv(a)
    BY <2>1 DEF j0, rows_kv
  <2>. QED
    BY ONLY <1>5, <2>1, <2>2 DEF KVHeld
<1>7. QHeld'
  <2>1. \A a \in Thread : pc'[a] \in {"load", "raw"} \cup Using
                           => pc[a] \in {"load", "raw"} \cup Using
    BY DEF LoadTile, Go, Control, Using
  <2>. QED
    BY <2>1 DEF QHeld, LoadTile, inputs, TileCell, rows_q
<1>. QED
  BY <1>1, <1>2, <1>6, <1>7

\* Computing a tile changes only the thread's registers.
LEMMA ScoresInv ==
  ASSUME BInv, NEW tid \in Thread, Scores(tid)
  PROVE  BInv'
<1>. USE DEF BInv
<1>1. LaunchOK'
  BY DEF Scores, LaunchOK, inputs, shared
<1>2. Control'
  BY DEF Scores, Go, Control, Loading, Using, Staging, Storing, Together,
         n_tiles, kv_end, inputs
<1>3. \A a \in Thread : pc[a] \in Using <=> pc'[a] \in Using
  BY DEF Scores, Go, Control, Using
<1>4. \A a \in Thread : pc'[a] # pc[a] => a = tid
  BY DEF Scores, Go, Control
<1>5. pc[tid] \in Using
  BY DEF Scores, Using
<1>6. QHeld'
  BY <1>3, <1>4, <1>5 DEF QHeld, Scores, inputs, shared, TileCell, rows_q
<1>7. KVHeld'
  BY <1>3, <1>4, <1>5 DEF KVHeld, Scores, inputs, shared, TileCell, rows_kv, j0
<1>. QED
  BY <1>1, <1>2, <1>6, <1>7

LEMMA UpdateInv ==
  ASSUME BInv, NEW tid \in Thread, Update(tid)
  PROVE  BInv'
<1>. USE DEF BInv
<1>1. LaunchOK'
  BY DEF Update, LaunchOK, inputs, shared
<1>2. Control'
  BY DEF Update, Go, Control, Loading, Using, Staging, Storing, Together,
         n_tiles, kv_end, inputs
<1>3. \A a \in Thread : pc[a] \in Using <=> pc'[a] \in Using
  BY DEF Update, Go, Control, Using
<1>4. \A a \in Thread : pc'[a] # pc[a] => a = tid
  BY DEF Update, Go, Control
<1>5. pc[tid] \in Using
  BY DEF Update, Using
<1>6. QHeld'
  BY <1>3, <1>4, <1>5 DEF QHeld, Update, inputs, shared, TileCell, rows_q
<1>7. KVHeld'
  BY <1>3, <1>4, <1>5 DEF KVHeld, Update, inputs, shared, TileCell, rows_kv, j0
<1>. QED
  BY <1>1, <1>2, <1>6, <1>7

\* The epilogue overwrites Qs when nobody reads it as Q any more.
LEMMA StageInv ==
  ASSUME BInv, NEW tid \in Thread, Stage(tid)
  PROVE  BInv'
<1>. USE DEF BInv
<1>1. LaunchOK'
  BY DEF Stage, LaunchOK, inputs
<1>2. Control'
  BY DEF Stage, Go, Control, Loading, Using, Staging, Storing, Together,
         n_tiles, kv_end, inputs
<1>3. \A a \in Thread : pc'[a] \in Staging
  BY <1>2 DEF Stage, Go, Control, Together, Staging
<1>. QED
  BY <1>1, <1>2, <1>3 DEF QHeld, KVHeld, Using, Staging

LEMMA StoreInv ==
  ASSUME BInv, NEW tid \in Thread, Store(tid)
  PROVE  BInv'
<1>. USE DEF BInv
<1>1. LaunchOK'
  BY DEF Store, LaunchOK, inputs, shared
<1>2. Control'
  BY DEF Store, Go, Control, Loading, Using, Staging, Storing, Together,
         n_tiles, kv_end, inputs
<1>3. \A a \in Thread : pc'[a] \in Storing
  BY <1>2 DEF Store, Go, Control, Together, Storing
<1>. QED
  BY <1>1, <1>2, <1>3 DEF QHeld, KVHeld, Using, Storing

\* Threads in one stretch that have all arrived are at one barrier.
LEMMA SameBarrier ==
  ASSUME BInv, \A a \in Thread : pc[a] \in BarrierAt
  PROVE  \E w \in BarrierAt : \A a \in Thread : pc[a] = w
<1>1. 0 \in Thread
  BY DEF Thread
<1>2. \A a \in Thread : pc[a] = pc[0]
  BY <1>1 DEF BInv, Control, Together, BarrierAt, Loading, Using, Staging, Storing
<1>. QED
  BY <1>1, <1>2

LEMMA SyncInv ==
  ASSUME BInv, Sync
  PROVE  BInv'
<1>1. LaunchOK'
  BY DEF BInv, Sync, LaunchOK, inputs, shared
<1>2. PICK w \in BarrierAt : \A a \in Thread : pc[a] = w
  BY SameBarrier DEF Sync
<1>3. /\ pc \in [Thread -> Loading \cup Using \cup Staging \cup Storing]
      /\ t \in [Thread -> Nat]
      /\ \A a, b \in Thread : t[a] = t[b]
      /\ \A a \in Thread : pc[a] \in Loading \cup Using => t[a] < n_tiles(a)
  BY DEF BInv, Control
<1>4. n_tiles(0) = n_tiles(0)' /\ \A a \in Thread : n_tiles(a) = n_tiles(0) /\ n_tiles(a)' = n_tiles(0)
  BY DEF Sync, n_tiles, kv_end, inputs
<1>5. CASE w = "raw"
  <2>1. t' = t /\ pc' = [a \in Thread |-> "scores"]
    BY <1>2, <1>3, <1>5 DEF Sync
  <2>2. Control'
    BY <1>2, <1>3, <1>4, <1>5, <2>1
       DEF Control, Together, Loading, Using, Staging, Storing
  <2>3. QHeld' /\ KVHeld'
    BY <1>2, <1>5, <2>1
       DEF BInv, QHeld, KVHeld, Sync, inputs, shared, TileCell, rows_q, rows_kv, j0, Using
  <2>. QED
    BY <1>1, <2>2, <2>3 DEF BInv
<1>6. CASE w = "war"
  <2>1. t' = [a \in Thread |-> t[a] + 1]
    BY <1>2, <1>3, <1>6 DEF Sync
  <2>2. pc' = [a \in Thread |-> IF t'[a] < n_tiles(0) THEN "load" ELSE "stage"]
    BY <1>2, <1>4, <1>6 DEF Sync, More
  <2>3. \A a, b \in Thread : t'[a] = t'[b] /\ t'[a] \in Nat
    BY <1>3, <2>1
  <2>4. \/ pc' = [a \in Thread |-> "load"] /\ \A a \in Thread : t'[a] < n_tiles(0)
        \/ pc' = [a \in Thread |-> "stage"]
    <3>1. 0 \in Thread
      BY DEF Thread
    <3>2. CASE t'[0] < n_tiles(0)
      BY <2>2, <2>3, <3>1, <3>2
    <3>3. CASE ~ (t'[0] < n_tiles(0))
      BY <2>2, <2>3, <3>1, <3>3
    <3>. QED
      BY <3>2, <3>3
  <2>5. Control'
    BY <1>4, <2>1, <2>3, <2>4 DEF Control, Together, Loading, Using, Staging, Storing
  <2>6. QHeld'
    BY <1>2, <1>6, <2>4 DEF BInv, QHeld, Sync, inputs, shared, TileCell, rows_q, Using
  <2>7. KVHeld'
    BY <2>4 DEF KVHeld, Using
  <2>. QED
    BY <1>1, <2>5, <2>6, <2>7 DEF BInv
<1>7. CASE w = "staged"
  <2>1. t' = t /\ pc' = [a \in Thread |-> "store"]
    BY <1>2, <1>3, <1>7 DEF Sync
  <2>2. Control'
    BY <1>3, <2>1 DEF Control, Together, Loading, Using, Staging, Storing
  <2>3. QHeld' /\ KVHeld'
    BY <2>1 DEF QHeld, KVHeld, Using
  <2>. QED
    BY <1>1, <2>2, <2>3 DEF BInv
<1>. QED
  BY <1>5, <1>6, <1>7 DEF BarrierAt

LEMMA StepBInv == BInv /\ [Next]_vars => BInv'
<1>. SUFFICES ASSUME BInv, [Next]_vars PROVE BInv'
  OBVIOUS
<1>1. CASE \E tid \in Thread : Step(tid)
  BY <1>1, LoadQInv, LoadTileInv, ScoresInv, UpdateInv, StageInv, StoreInv DEF Step
<1>2. CASE Sync
  BY <1>2, SyncInv
<1>3. CASE UNCHANGED vars
  BY <1>3 DEF vars, inputs, shared, BInv, LaunchOK, Control, QHeld, KVHeld,
              n_tiles, kv_end, j0, TileCell, rows_q, rows_kv
<1>. QED
  BY <1>1, <1>2, <1>3 DEF Next, Retired

\* The inductive invariant BInv holds throughout fa_s3_fused, for every tile
\* shape, sequence length and score matrix.
THEOREM BlockInvariant == Spec => []BInv
  BY InitBInv, StepBInv, PTL DEF Spec

\* Whenever a barrier opens, all threads of the block are at the same call of
\* it, on the same tile.
THEOREM BarriersUniform == Spec => []BarrierUniform
<1>1. BInv => BarrierUniform
  <2>. SUFFICES ASSUME BInv, \A a \in Thread : pc[a] \in BarrierAt
                PROVE  \A a, b \in Thread : pc[a] = pc[b] /\ t[a] = t[b]
    BY DEF BarrierUniform
  <2>. QED
    BY SameBarrier DEF BInv, Control
<1>. QED
  BY <1>1, BlockInvariant, PTL

\* While any thread uses a tile, the buffers hold Q and that tile as a whole.
LEMMA TilesHeld ==
  ASSUME BInv, NEW tid \in Thread, pc[tid] \in Using
  PROVE  /\ RowAt(Qs, tid) = [q |-> IF row_valid(tid) THEN i_of(tid) ELSE Pad]
         /\ \A j \in Slot : /\ RowAt(Ks, j) = TileRow(t[tid], j)
                           /\ RowAt(Vs, j) = TileRow(t[tid], j)
<1>1. /\ bc \in Nat \ {0} /\ i0 \in Nat /\ i0 < N /\ t[tid] \in Nat
      /\ t[tid] * bc \in Nat /\ tid \in 0 .. Br - 1
      /\ bc * Dim \in Nat /\ Br * Dim \in Nat
  BY DEF BInv, LaunchOK, Control, Thread
<1>2. \A a \in Thread : pc[a] \in Using /\ t[a] = t[tid]
  BY DEF BInv, Control, Together
<1>3. \A e \in 0 .. Br * Dim - 1 : Qs[e] = [q |-> TileCell(e, i0, rows_q)]
  <2>. TAKE e \in 0 .. Br * Dim - 1
  <2>1. e % Br \in Thread /\ e \in SliceOf(e % Br, Br, Br * Dim)
    BY <1>1, SliceOwner DEF Thread
  <2>. QED
    BY <1>2, <2>1 DEF BInv, QHeld
<1>4. \A e \in 0 .. bc * Dim - 1 :
        /\ Ks[e] = TileCell(e, t[tid] * bc, Min2(bc, N - t[tid] * bc))
        /\ Vs[e] = TileCell(e, t[tid] * bc, Min2(bc, N - t[tid] * bc))
  <2>. TAKE e \in 0 .. bc * Dim - 1
  <2>1. e % Br \in Thread /\ e \in SliceOf(e % Br, Br, bc * Dim)
    BY <1>1, SliceOwner DEF Thread
  <2>2. /\ Ks[e] = TileCell(e, j0(e % Br), rows_kv(e % Br))
        /\ Vs[e] = TileCell(e, j0(e % Br), rows_kv(e % Br))
    BY <1>2, <2>1 DEF BInv, KVHeld
  <2>. QED
    BY <1>2, <2>1, <2>2 DEF j0, rows_kv
<1>5. RowAt(Qs, tid) = [q |-> IF row_valid(tid) THEN i_of(tid) ELSE Pad]
  <2>. DEFINE here == IF row_valid(tid) THEN i_of(tid) ELSE Pad
  <2>1. tid \in Nat /\ rows_q \in Int
    BY <1>1 DEF rows_q, Min2
  <2>2. here = IF tid < rows_q THEN i0 + tid ELSE Pad
    BY <1>1 DEF rows_q, Min2, row_valid, i_of
  <2>3. \A d \in Elem : tid * Dim + d \in 0 .. Br * Dim - 1
    BY <1>1, SlotCells DEF Elem
  <2>. HIDE DEF here
  <2>4. \A d \in Elem : TileCell(tid * Dim + d, i0, rows_q) = here
    BY <1>1, <2>1, <2>2, CellContent DEF Elem
  <2>5. \A d \in Elem : Qs[tid * Dim + d] = [q |-> here]
    BY <1>3, <2>3, <2>4
  <2>6. RowAt(Qs, tid) = [q |-> here]
    BY <2>1, <2>5, ReadsWhole DEF Elem
  <2>. QED
    BY <2>6 DEF here
<1>6. ASSUME NEW j \in Slot
      PROVE  RowAt(Ks, j) = TileRow(t[tid], j) /\ RowAt(Vs, j) = TileRow(t[tid], j)
  <2>. DEFINE r0 == t[tid] * bc
              rows == Min2(bc, N - r0)
  <2>1. /\ j \in 0 .. bc - 1 /\ j \in Nat /\ r0 \in Nat /\ rows \in Int
        /\ j < rows <=> r0 + j < N
    BY <1>1 DEF Slot, Min2
  <2>2. \A d \in Elem : j * Dim + d \in 0 .. bc * Dim - 1
    BY <1>1, <2>1, SlotCells DEF Elem
  <2>3. TileRow(t[tid], j) = IF j < rows THEN r0 + j ELSE Pad
    BY <2>1 DEF TileRow
  <2>4. \A d \in Elem : TileCell(j * Dim + d, r0, rows) = TileRow(t[tid], j)
    <3>. HIDE DEF r0, rows
    <3>. QED
      BY <2>1, <2>3, CellContent DEF Elem
  <2>5. \A d \in Elem : /\ Ks[j * Dim + d] = TileRow(t[tid], j)
                        /\ Vs[j * Dim + d] = TileRow(t[tid], j)
    BY <1>4, <2>2, <2>4
  <2>. QED
    BY <2>1, <2>5, ReadsWhole DEF Elem
<1>. QED
  BY <1>5, <1>6

\* No thread ever reads a torn or a stale tile.
THEOREM TilesWhole == Spec => []WholeTiles
<1>1. BInv => WholeTiles
  BY TilesHeld DEF WholeTiles, Using
<1>. QED
  BY <1>1, BlockInvariant, PTL

-------------------------------------------------------------------------------
\* Type correctness: what the registers and the K/V cells may hold.
Typed ==
  /\ m \in [Thread -> Score]
  /\ DOMAIN s = Thread
  /\ \A a \in Thread : pc[a] = "update" => \A j \in DOMAIN s[a] : s[a][j] \in Score \cup {Undef}
  /\ \A a \in Thread : t[a] <= n_tiles(a)
  /\ \A e \in 0 .. bc * Dim - 1 : {Ks[e], Vs[e]} \subseteq Key \cup {Pad, Undef}

LEMMA TileCountInt ==
  ASSUME LaunchOK, NEW a \in Thread
  PROVE  n_tiles(a) \in Int
<1>1. bc \in Nat \ {0} /\ i0 \in Nat
  BY DEF LaunchOK
<1>. QED
  BY <1>1 DEF n_tiles, kv_end, Min2

\* The score of a thread's row against a row of its tile is a number.
LEMMA ScoreOfTile ==
  ASSUME BInv, NEW tid \in Thread, pc[tid] \in Using, NEW j \in Slot
  PROVE  Dot(RowAt(Qs, tid), RowAt(Ks, j)) \in Score \cup {Undef}
<1>1. /\ bc \in Nat \ {0} /\ i0 \in Nat /\ t[tid] * bc \in Nat
      /\ tid \in 0 .. Br - 1 /\ j \in 0 .. bc - 1
      /\ score \in [0 .. N - 1 -> [0 .. N - 1 -> Int]]
  BY DEF BInv, LaunchOK, Control, Thread, Slot
<1>. DEFINE here == IF row_valid(tid) THEN i_of(tid) ELSE Pad
            k == TileRow(t[tid], j)
<1>2. here = Pad \/ here \in 0 .. N - 1
  <2>1. row_valid(tid) => i_of(tid) \in 0 .. N - 1
    BY <1>1 DEF row_valid, i_of
  <2>. QED
    BY <2>1
<1>3. k = Pad \/ k \in 0 .. N - 1
  <2>1. \A x, y \in Nat : x + y < N => x + y \in 0 .. N - 1
    OBVIOUS
  <2>2. j \in Nat
    BY <1>1
  <2>. QED
    BY <1>1, <2>1, <2>2 DEF TileRow
<1>4. RowAt(Qs, tid) = [q |-> here] /\ RowAt(Ks, j) = k
  BY TilesHeld
<1>. HIDE DEF here, k
<1>5. Dot([q |-> here], k) \in Int \cup {Undef}
  BY <1>1, <1>2, <1>3 DEF Dot
<1>. QED
  BY <1>4, <1>5 DEF Score

\* A tile's cell is a key or padding.
LEMMA CellIsKey ==
  ASSUME BInv, NEW a \in Thread, NEW e \in 0 .. bc * Dim - 1
  PROVE  TileCell(e, j0(a), rows_kv(a)) \in Key \cup {Pad}
<1>1. /\ bc \in Nat \ {0} /\ t[a] * bc \in Nat /\ e \in Nat
  BY DEF BInv, LaunchOK, Control
<1>2. /\ e \div Dim \in Nat /\ Dim * (e \div Dim) <= e
  <2>1. \A x \in Nat : x \div Dim \in Nat /\ Dim * (x \div Dim) <= x
    OBVIOUS
  <2>. QED
    BY <1>1, <2>1
<1>3. rows_kv(a) \in Int /\ rows_kv(a) <= N - j0(a) /\ j0(a) \in Nat
  BY <1>1 DEF rows_kv, Min2, j0
<1>4. CASE e < rows_kv(a) * Dim
  <2>1. e \div Dim < rows_kv(a)
    <3>1. rows_kv(a) <= e \div Dim => Dim * rows_kv(a) <= Dim * (e \div Dim)
      BY <1>2, <1>3
    <3>2. Dim * rows_kv(a) = rows_kv(a) * Dim /\ Dim * rows_kv(a) \in Int
      BY <1>3
    <3>. QED
      BY <1>1, <1>2, <1>3, <1>4, <3>1, <3>2
  <2>. QED
    BY <1>2, <1>3, <1>4, <2>1 DEF TileCell, Key
<1>5. CASE ~ (e < rows_kv(a) * Dim)
  BY <1>5 DEF TileCell
<1>. QED
  BY <1>4, <1>5

\* The step of the running maximum stays among the scores.
LEMMA UpdateTyped ==
  ASSUME BInv, Typed, NEW tid \in Thread, Update(tid)
  PROVE  Typed'
<1>1. /\ m \in [Thread -> Score] /\ pc[tid] = "update"
      /\ \A j \in DOMAIN s[tid] : s[tid][j] \in Score \cup {Undef}
  BY DEF Typed, Update
<1>2. PICK mNew \in NewMax(m[tid], s[tid]) : m' = [m EXCEPT ![tid] = mNew]
  BY DEF Update, Consume
<1>3. mNew \in Score
  BY <1>1 DEF NewMax
<1>4. m' \in [Thread -> Score]
  BY <1>1, <1>2, <1>3
<1>5. DOMAIN s' = Thread
  BY DEF Typed, Update, Consume
<1>6. \A a \in Thread : pc'[a] = "update" => a # tid /\ pc[a] = "update"
  BY DEF BInv, Control, Update, Go
<1>7. \A a \in Thread : a # tid => s'[a] = s[a]
  BY DEF Typed, Update, Consume
<1>8. \A a \in Thread : pc'[a] = "update" => \A j \in DOMAIN s'[a] : s'[a][j] \in Score \cup {Undef}
  BY <1>6, <1>7 DEF Typed
<1>. QED
  BY <1>4, <1>5, <1>8 DEF Typed, Update, inputs, shared, n_tiles, kv_end

LEMMA ScoresTyped ==
  ASSUME BInv, Typed, NEW tid \in Thread, Scores(tid)
  PROVE  Typed'
<1>1. pc[tid] \in Using /\ DOMAIN s = Thread
  BY DEF Scores, Using, Typed
<1>2. DOMAIN s' = Thread /\ \A a \in Thread : a # tid => s'[a] = s[a] /\ pc'[a] = pc[a]
  BY <1>1 DEF Scores, Go, BInv, Control
<1>3. \A j \in DOMAIN s'[tid] : s'[tid][j] \in Score \cup {Undef}
  <2>1. s'[tid] = [j \in Slot |-> IF NeedsMask(tid) /\ Masked(tid, j) THEN NegInf
                                  ELSE Dot(RowAt(Qs, tid), RowAt(Ks, j))]
    BY <1>1 DEF Scores
  <2>2. \A j \in Slot : Dot(RowAt(Qs, tid), RowAt(Ks, j)) \in Score \cup {Undef}
    BY <1>1, ScoreOfTile
  <2>. QED
    BY <2>1, <2>2 DEF Score
<1>4. \A a \in Thread : pc'[a] = "update" => \A j \in DOMAIN s'[a] : s'[a][j] \in Score \cup {Undef}
  BY <1>2, <1>3 DEF Typed
<1>. QED
  BY <1>2, <1>4 DEF Typed, Scores, inputs, shared, n_tiles, kv_end

LEMMA LoadTileTyped ==
  ASSUME BInv, Typed, NEW tid \in Thread, LoadTile(tid)
  PROVE  Typed'
<1>1. \A a \in Thread : pc'[a] = "update" => pc[a] = "update"
  BY DEF LoadTile, Go, BInv, Control
<1>2. /\ DOMAIN Ks = 0 .. bc * Dim - 1 /\ DOMAIN Vs = 0 .. bc * Dim - 1
      /\ \A e \in 0 .. bc * Dim - 1 : TileCell(e, j0(tid), rows_kv(tid)) \in Key \cup {Pad}
  BY CellIsKey DEF BInv, LaunchOK
<1>3. \A e \in 0 .. bc * Dim - 1 :
        /\ Ks'[e] \in {Ks[e], TileCell(e, j0(tid), rows_kv(tid))}
        /\ Vs'[e] \in {Vs[e], TileCell(e, j0(tid), rows_kv(tid))}
  BY <1>2 DEF LoadTile
<1>4. \A e \in 0 .. bc * Dim - 1 : {Ks'[e], Vs'[e]} \subseteq Key \cup {Pad, Undef}
  BY <1>2, <1>3 DEF Typed
<1>. QED
  BY <1>1, <1>4 DEF Typed, LoadTile, inputs, registers, n_tiles, kv_end

LEMMA SyncTyped ==
  ASSUME BInv, Typed, Sync
  PROVE  Typed'
<1>1. \A a \in Thread : pc'[a] # "update"
  BY DEF Sync, BarrierAt
<1>2. \A a \in Thread : t'[a] <= n_tiles(a)
  <2>. TAKE a \in Thread
  <2>1. n_tiles(a) \in Int /\ t[a] \in Nat /\ t[a] <= n_tiles(a)
    BY TileCountInt DEF BInv, Control, Typed
  <2>2. CASE pc[a] = "war"
    <3>1. t[a] < n_tiles(a) /\ t'[a] = t[a] + 1
      BY <2>2 DEF Sync, BInv, Control, Using
    <3>. QED
      BY <2>1, <3>1
  <2>3. CASE pc[a] # "war"
    BY <2>1, <2>3 DEF Sync
  <2>. QED
    BY <2>2, <2>3
<1>. QED
  BY <1>1, <1>2 DEF Typed, Sync, inputs, registers, shared, n_tiles, kv_end

LEMMA InitTyped == Init => Typed
<1>. SUFFICES ASSUME Init PROVE Typed
  OBVIOUS
<1>1. \A a \in Thread : t[a] <= n_tiles(a)
  <2>. TAKE a \in Thread
  <2>1. t[a] = 0 /\ t[a] < n_tiles(a) /\ n_tiles(a) \in Int
    BY InitBInv, TileCountInt DEF BInv, Control, Init, Loading
  <2>. QED
    BY <2>1
<1>2. bc * Dim \in Int
  BY DEF Init
<1>. QED
  BY <1>1 DEF Init, Typed, Score

LEMMA StepTyped == BInv /\ Typed /\ [Next]_vars => Typed'
<1>. SUFFICES ASSUME BInv, Typed, [Next]_vars PROVE Typed'
  OBVIOUS
<1>1. ASSUME NEW tid \in Thread, LoadQ(tid) PROVE Typed'
  BY <1>1 DEF LoadQ, Go, BInv, Control, Typed, inputs, registers, n_tiles, kv_end
<1>2. ASSUME NEW tid \in Thread, Stage(tid) PROVE Typed'
  BY <1>2 DEF Stage, Go, BInv, Control, Typed, inputs, n_tiles, kv_end
<1>3. ASSUME NEW tid \in Thread, Store(tid) PROVE Typed'
  BY <1>3 DEF Store, Go, BInv, Control, Typed, inputs, registers, shared, n_tiles, kv_end
<1>4. CASE UNCHANGED vars
  BY <1>4 DEF vars, inputs, registers, shared, Typed, n_tiles, kv_end
<1>. QED
  BY <1>1, <1>2, <1>3, <1>4, LoadTileTyped, ScoresTyped, UpdateTyped, SyncTyped
     DEF Next, Step, Retired

\* The registers, the tile index and the shared K/V cells stay in range.
THEOREM BlockTypeCorrect == Spec => []TypeOK
<1>1. BInv /\ Typed => TypeOK
  <2>. SUFFICES ASSUME BInv, Typed PROVE TypeOK
    OBVIOUS
  <2>1. pc \in [Thread -> {"loadQ", "load", "scores", "update", "stage", "store", "done"}
                             \cup BarrierAt]
    BY DEF BInv, Control, Loading, Using, Staging, Storing, BarrierAt
  <2>2. \A a \in Thread : t[a] \in 0 .. n_tiles(a) /\ m[a] \in Score
    <3>1. \A a \in Thread : n_tiles(a) \in Int
      BY TileCountInt DEF BInv
    <3>. QED
      BY <3>1 DEF BInv, Control, Typed
  <2>. QED
    BY <2>1, <2>2 DEF TypeOK, BInv, LaunchOK, Typed
<1>. QED
  BY <1>1, InitTyped, StepTyped, BlockInvariant, PTL DEF Spec

-------------------------------------------------------------------------------
(* The registers of every thread, also of those whose row is past N.       *)

USE MemoryAssumption

\* The row's scores (0 against the zero q of a row past N), the keys it sees,
\* and those of the tiles consumed.
ScoreRow(a) == IF row_valid(a) THEN score[i_of(a)] ELSE [k \in Key |-> 0]
Vis(a)      == Promise!Visible(i_of(a))
Consumed(a) == t[a] + (IF pc[a] = "war" THEN 1 ELSE 0)
SeenBy(a)   == {k \in Vis(a) : k < Consumed(a) * bc}

Shapes ==
  /\ DOMAIN l = Thread /\ DOMAIN acc = Thread /\ DOMAIN kkey = Thread
  /\ DOMAIN res = Thread /\ DOMAIN lse = GlobalRow

\* m, l and acc are exact over the keys seen.
RowState ==
  \A a \in Thread :
    /\ MaxOver(m[a], SeenBy(a), ScoreRow(a))
    /\ l[a] = SumOver(SeenBy(a), ScoreRow(a), m[a])
    /\ acc[a] = l[a]

\* Between its reads of Ks and of Vs a thread holds its row's scores of the
\* tile, and -inf for the keys it does not see.
SlotsOf(a) ==
  /\ kkey[a] = [j \in Slot |-> TileRow(t[a], j)]
  /\ s[a] = [j \in Slot |-> IF t[a] * bc + j \in Vis(a) THEN ScoreRow(a)[t[a] * bc + j]
                            ELSE NegInf]
SlotsHeld == \A a \in Thread : pc[a] = "update" => SlotsOf(a)

\* Threads leave the loop after its last tile.
LoopDone == \A a \in Thread : pc[a] \in Staging \cup Storing => n_tiles(a) <= t[a]

Regs == Shapes /\ RowState /\ SlotsHeld /\ LoopDone

\* The launch never changes, and nothing defined by it does.
LEMMA LaunchKept ==
  ASSUME inputs' = inputs
  PROVE  /\ i0' = i0 /\ causal' = causal /\ bc' = bc /\ score' = score
         /\ rows_q' = rows_q
         /\ \A a \in Thread : /\ i_of(a)' = i_of(a) /\ row_valid(a)' = row_valid(a)
                              /\ ScoreRow(a)' = ScoreRow(a) /\ Vis(a)' = Vis(a)
                              /\ n_tiles(a)' = n_tiles(a)
                              /\ Promise!SoftmaxRow(i_of(a))' = Promise!SoftmaxRow(i_of(a))
<1>1. /\ i0' = i0 /\ causal' = causal /\ bc' = bc /\ score' = score
      /\ rows_q' = rows_q
      /\ \A a \in Thread : /\ i_of(a)' = i_of(a) /\ row_valid(a)' = row_valid(a)
                           /\ Vis(a)' = Vis(a) /\ n_tiles(a)' = n_tiles(a)
                           /\ Promise!SoftmaxRow(i_of(a))' = Promise!SoftmaxRow(i_of(a))
  BY DEF inputs, rows_q, i_of, row_valid, Vis, n_tiles, kv_end,
         Promise!SoftmaxRow, Promise!Visible, Promise!Key
<1>2. \A a \in Thread : ScoreRow(a)' = ScoreRow(a)
  BY <1>1 DEF ScoreRow
<1>. QED
  BY <1>1, <1>2

LEMMA ValidRow ==
  ASSUME LaunchOK, NEW a \in Thread, row_valid(a)
  PROVE  i_of(a) \in 0 .. N - 1
  BY DEF LaunchOK, row_valid, i_of, Thread

LEMMA RowOfThread ==
  ASSUME LaunchOK, NEW a \in Thread
  PROVE  /\ i_of(a) \in Nat /\ i0 <= i_of(a) /\ i_of(a) <= i0 + Br - 1
         /\ ScoreRow(a) \in [0 .. N - 1 -> Int]
         /\ Vis(a) \in SUBSET (0 .. N - 1) /\ 0 \in Vis(a)
         /\ \A k \in 0 .. N - 1 : k \in Vis(a) <=> (causal => k <= i_of(a))
<1>1. i_of(a) \in Nat /\ i0 <= i_of(a) /\ i_of(a) <= i0 + Br - 1
  BY DEF LaunchOK, i_of, Thread
<1>2. ScoreRow(a) \in [0 .. N - 1 -> Int]
  <2>1. CASE row_valid(a)
    BY <2>1, ValidRow DEF LaunchOK, ScoreRow
  <2>2. CASE ~ row_valid(a)
    BY <2>2 DEF ScoreRow, Key
  <2>. QED
    BY <2>1, <2>2
<1>3. Vis(a) = {k \in 0 .. N - 1 : causal => k <= i_of(a)}
  BY DEF Vis, Promise!Visible, Promise!Key
<1>. QED
  BY <1>1, <1>2, <1>3

\* A slot is masked exactly when its row does not see its key: the test that
\* skips masking for the whole tile skips nothing a row must not see.
LEMMA MaskIsVisible ==
  ASSUME BInv, NEW a \in Thread, NEW j \in Slot
  PROVE  NeedsMask(a) /\ Masked(a, j) <=> t[a] * bc + j \notin Vis(a)
<1>. DEFINE base == t[a] * bc
<1>1. /\ bc \in Nat \ {0} /\ base \in Nat /\ j \in 0 .. bc - 1 /\ i0 \in Nat
      /\ causal \in BOOLEAN
  BY DEF BInv, LaunchOK, Control, Slot
<1>2. i_of(a) \in Nat /\ i0 <= i_of(a)
  BY RowOfThread DEF BInv
<1>3. base + j \in Vis(a) <=> base + j < N /\ (causal => base + j <= i_of(a))
  <2>1. base + j \in Nat
    BY <1>1
  <2>2. CASE base + j < N
    <3>1. base + j \in 0 .. N - 1
      BY <2>1, <2>2
    <3>. QED
      BY <2>2, <3>1, RowOfThread DEF BInv
  <2>3. CASE ~ (base + j < N)
    <3>1. base + j \notin 0 .. N - 1
      BY <2>1, <2>3
    <3>2. Vis(a) \subseteq 0 .. N - 1
      BY RowOfThread DEF BInv
    <3>. QED
      BY <2>3, <3>1, <3>2
  <2>. QED
    BY <2>2, <2>3
<1>4. Masked(a, j) <=> base + j >= N \/ (causal /\ base + j > i_of(a))
  BY DEF Masked, j0
<1>5. NeedsMask(a) <=> Min2(bc, N - base) < bc \/ (causal /\ base + bc - 1 > i0)
  BY DEF NeedsMask, rows_kv, j0
<1>. HIDE DEF base
<1>6. ~ NeedsMask(a) => base + j < N /\ (causal => base + j <= i_of(a))
  BY <1>1, <1>2, <1>5 DEF Min2
<1>7. Masked(a, j) <=> ~ (base + j < N /\ (causal => base + j <= i_of(a)))
  BY <1>1, <1>2, <1>4
<1>. QED
  BY <1>3, <1>6, <1>7 DEF base

\* The scores a thread takes from a whole tile.
LEMMA ScoresOfTile ==
  ASSUME BInv, Shapes, DOMAIN s = Thread, NEW a \in Thread, Scores(a)
  PROVE  /\ kkey'[a] = [j \in Slot |-> TileRow(t[a], j)]
         /\ s'[a] = [j \in Slot |-> IF t[a] * bc + j \in Vis(a) THEN ScoreRow(a)[t[a] * bc + j]
                                    ELSE NegInf]
<1>1. pc[a] \in Using
  BY DEF Scores, Using
<1>. DEFINE here == IF row_valid(a) THEN i_of(a) ELSE Pad
<1>2. /\ RowAt(Qs, a) = [q |-> here]
      /\ \A j \in Slot : RowAt(Ks, j) = TileRow(t[a], j)
  BY <1>1, TilesHeld
<1>. HIDE DEF here
<1>3. kkey'[a] = [j \in Slot |-> TileRow(t[a], j)]
  BY <1>2 DEF Scores, Shapes
<1>4. s'[a] = [j \in Slot |-> IF NeedsMask(a) /\ Masked(a, j) THEN NegInf
                              ELSE Dot([q |-> here], TileRow(t[a], j))]
  BY <1>2 DEF Scores
<1>5. ASSUME NEW j \in Slot, t[a] * bc + j \in Vis(a)
      PROVE  Dot([q |-> here], TileRow(t[a], j)) = ScoreRow(a)[t[a] * bc + j]
  <2>1. t[a] * bc + j \in 0 .. N - 1
    BY <1>5, RowOfThread DEF BInv
  <2>2. TileRow(t[a], j) = t[a] * bc + j
    BY <2>1 DEF TileRow
  <2>3. CASE row_valid(a)
    <3>1. here = i_of(a) /\ i_of(a) \in 0 .. N - 1
      BY <2>3, ValidRow DEF BInv, here
    <3>2. [q |-> here] \in [q : Int \cup {Pad}]
      BY <3>1
    <3>. QED
      BY <2>1, <2>2, <2>3, <3>1, <3>2 DEF Dot, ScoreRow
  <2>4. CASE ~ row_valid(a)
    <3>1. here = Pad
      BY <2>4 DEF here
    <3>2. [q |-> here] \in [q : Int \cup {Pad}]
      BY <3>1
    <3>. QED
      BY <2>1, <2>2, <2>4, <3>1, <3>2 DEF Dot, ScoreRow, Key
  <2>. QED
    BY <2>3, <2>4
<1>6. \A j \in Slot : (IF NeedsMask(a) /\ Masked(a, j) THEN NegInf
                       ELSE Dot([q |-> here], TileRow(t[a], j)))
                    = (IF t[a] * bc + j \in Vis(a) THEN ScoreRow(a)[t[a] * bc + j] ELSE NegInf)
  BY <1>5, MaskIsVisible
<1>. QED
  BY <1>3, <1>4, <1>6

\* The keys a row sees in a tile.
TileKeys(a) == Within(bc, t[a] * bc, Vis(a))

\* The numbers a thread reckons its tile from.
LEMMA TileNumbers ==
  ASSUME BInv, NEW a \in Thread
  PROVE  /\ bc \in Nat \ {0} /\ t[a] \in Nat /\ i0 \in Nat /\ causal \in BOOLEAN
         /\ t[a] * bc \in Nat /\ (t[a] + 1) * bc = t[a] * bc + bc
<1>1. bc \in Nat \ {0} /\ i0 \in Nat /\ causal \in BOOLEAN
  BY DEF BInv, LaunchOK
<1>2. t[a] \in Nat
  BY DEF BInv, Control
<1>3. \A x \in Nat, b \in Nat : x * b \in Nat /\ (x + 1) * b = x * b + b
  BY ONLY TRUE
<1>. QED
  BY ONLY <1>1, <1>2, <1>3

\* A row sees key 0, so from its first tile on it has seen something.
LEMMA KeysOfTile ==
  ASSUME BInv, NEW a \in Thread, pc[a] = "update"
  PROVE  /\ TileKeys(a) # {} \/ SeenBy(a) # {}
         /\ SeenBy(a) \cap TileKeys(a) = {}
         /\ SeenBy(a) \cup TileKeys(a) = {k \in Vis(a) : k < (t[a] + 1) * bc}
<1>1. /\ bc \in Nat \ {0} /\ t[a] \in Nat /\ t[a] * bc \in Nat
      /\ (t[a] + 1) * bc = t[a] * bc + bc
  BY TileNumbers
<1>2. Vis(a) \subseteq Int /\ 0 \in Vis(a)
  BY RowOfThread DEF BInv
<1>3. SeenBy(a) = {k \in Vis(a) : k < t[a] * bc}
  BY <1>1 DEF SeenBy, Consumed
<1>. DEFINE base == t[a] * bc
<1>. HIDE DEF base
<1>4. \A k \in Vis(a) : /\ ~ (k < base /\ base <= k)
                        /\ k < base + bc <=> k < base \/ (base <= k /\ k < base + bc)
  BY <1>1, <1>2 DEF base
<1>5. 0 < base \/ (base <= 0 /\ 0 < base + bc)
  BY <1>1 DEF base
<1>. QED
  BY <1>1, <1>2, <1>3, <1>4, <1>5 DEF TileKeys, Within, base

\* On whole tiles, one update of the registers is exact.
LEMMA UpdateOfTile ==
  ASSUME BInv, Typed, Regs, NEW a \in Thread, Update(a),
         NEW S, S = {k \in Vis(a) : k < (t[a] + 1) * bc}
  PROVE  /\ MaxOver(m'[a], S, ScoreRow(a))
         /\ l'[a] = SumOver(S, ScoreRow(a), m'[a])
         /\ acc'[a] = l'[a]
<1>. DEFINE base == t[a] * bc
            V    == Vis(a)
            f    == ScoreRow(a)
            old  == SeenBy(a)
            T    == TileKeys(a)
            key  == KeySlots(bc, base, N)
            sc   == [j \in 0 .. bc - 1 |-> IF base + j \in V THEN f[base + j] ELSE NegInf]
<1>1. pc[a] = "update" /\ a \in Thread
  BY DEF Update
<1>2. /\ bc \in Nat \ {0} /\ base \in Nat /\ V \in SUBSET (0 .. N - 1)
      /\ \A k \in V : f[k] \in Int
  <2>1. bc \in Nat \ {0} /\ t[a] \in Nat
    BY DEF BInv, LaunchOK, Control
  <2>2. V \in SUBSET (0 .. N - 1) /\ f \in [0 .. N - 1 -> Int]
    BY RowOfThread DEF BInv
  <2>. HIDE DEF V, f
  <2>. QED
    BY <2>1, <2>2
<1>3. /\ kkey[a] = key /\ s[a] = sc
      /\ [j \in Slot |-> RowAt(Vs, j)] = key
  <2>1. \A j \in Slot : RowAt(Vs, j) = TileRow(t[a], j)
    BY <1>1, TilesHeld DEF Using
  <2>. QED
    BY <1>1, <2>1 DEF Regs, SlotsHeld, SlotsOf, Slot, TileRow, KeySlots
<1>4. /\ MaxOver(m[a], old, f) /\ l[a] = SumOver(old, f, m[a]) /\ acc[a] = l[a]
      /\ m[a] \in Score
  BY DEF Regs, RowState, Typed
<1>5. /\ T # {} \/ old # {}
      /\ old \cap T = {} /\ old \cup T = S
  BY <1>1, KeysOfTile
<1>6. old \subseteq V /\ T \subseteq V /\ T = {k \in V : base <= k /\ k < base + bc}
  BY DEF SeenBy, TileKeys, Within
<1>. DEFINE numbers == {m[a]} \cup ({sc[j] : j \in DOMAIN sc} \ {Undef})
<1>7. PICK y \in NewMax(m[a], sc) :
        LET alpha == rescale_alpha(m[a], y)
            p     == [j \in Slot |-> SlotWeight(sc[j], y)]
            vkey  == IF y = NegInf THEN <<>> ELSE key
        IN  /\ l' = [l EXCEPT ![a] = AddTerms(Scale(@, alpha), RowTerms(key, p))]
            /\ acc' = [acc EXCEPT ![a] = AddTerms(Scale(@, alpha), OutputTerms(vkey, p))]
            /\ m' = [m EXCEPT ![a] = y]
  <2>. HIDE DEF key, sc
  <2>. QED
    BY <1>3 DEF Update, Consume
<1>8. IsMax(y, numbers)
  BY <1>7 DEF NewMax
<1>9. Candidates(numbers, m[a], f, T)
  <2>1. ASSUME NEW k \in T PROVE f[k] \in numbers
    <3>1. k - base \in 0 .. bc - 1 /\ base + (k - base) = k /\ f[k] \in Int /\ k \in V
      BY <1>2, <1>6
    <3>2. sc[k - base] = f[k] /\ k - base \in DOMAIN sc
      BY <3>1
    <3>3. f[k] # Undef
      BY <3>1
    <3>. QED
      BY <3>2, <3>3
  <2>2. ASSUME NEW j \in DOMAIN sc PROVE sc[j] = NegInf \/ sc[j] \in Values(f, T)
    <3>1. CASE base + j \in V
      <4>1. base + j \in T
        BY <1>2, <1>6, <3>1
      <4>2. sc[j] = f[base + j]
        BY <3>1
      <4>. QED
        BY <4>1, <4>2 DEF Values
    <3>2. CASE base + j \notin V
      BY <3>2
    <3>. QED
      BY <3>1, <3>2
  <2>. HIDE DEF sc, T, f
  <2>. QED
    BY <2>1, <2>2 DEF Values, Candidates
<1>. HIDE DEF numbers
<1>10. y \in Int /\ MaxOver(y, S, f) /\ (old # {} => m[a] \in Int)
  <2>. HIDE DEF T, old, f
  <2>1. \A k \in old \cup T : f[k] \in Int
    BY <1>2, <1>6
  <2>2. y \in Int /\ MaxOver(y, old \cup T, f) /\ (old # {} => m[a] \in Int)
    <3>. HIDE DEF base, V, key, sc
    <3>. QED
      BY <1>4, <1>5, <1>8, <1>9, <2>1, NextMax
  <2>. QED
    BY <1>5, <2>2
<1>11. y # NegInf
  BY <1>10
<1>. DEFINE p == WeightSlots(bc, base, V, f, y)
<1>12. [j \in Slot |-> SlotWeight(sc[j], y)] = p
  <2>. USE DEF WeightSlots
  <2>1. ASSUME NEW j \in 0 .. bc - 1 PROVE SlotWeight(sc[j], y) = p[j]
    <3>1. CASE base + j \in V
      <4>1. sc[j] = f[base + j] /\ sc[j] \in Int
        BY <1>2, <3>1
      <4>2. SlotWeight(sc[j], y) = sc[j] - y
        BY <1>11, <4>1 DEF SlotWeight, p_from_score, exp2_scaled
      <4>. QED
        BY <3>1, <4>1, <4>2
    <3>2. CASE base + j \notin V
      <4>1. sc[j] = NegInf /\ NegInf # Undef
        BY <3>2
      <4>. QED
        BY <1>11, <3>2, <4>1 DEF SlotWeight, p_from_score, exp2_scaled
    <3>. QED
      BY <3>1, <3>2
  <2>. HIDE DEF sc
  <2>. QED
    BY <2>1 DEF Slot
<1>13. RowTerms(key, p) = SumOver(T, f, y) /\ OutputTerms(key, p) = SumOver(T, f, y)
  <2>1. T = Within(bc, base, V)
    BY DEF TileKeys
  <2>. HIDE DEF T, V, f, base
  <2>2. bc \in Nat /\ base \in Nat /\ N \in Nat /\ y \in Int
    BY <1>2, <1>10
  <2>3. \A k \in V : k \in Nat /\ k < N /\ f[k] \in Int
    BY <1>2
  <2>4. key = KeySlots(bc, base, N) /\ p = WeightSlots(bc, base, V, f, y)
    OBVIOUS
  <2>. HIDE DEF key, p
  <2>. QED
    BY ONLY <2>1, <2>2, <2>3, <2>4, TileTerms
<1>14. AddTerms(Scale(SumOver(old, f, m[a]), rescale_alpha(m[a], y)), SumOver(T, f, y))
         = SumOver(S, f, y)
  <2>1. NaN \notin old \cup T
    BY <1>2, <1>6
  <2>2. \A k \in old \cup T : f[k] \in Int
    BY <1>2, <1>6
  <2>3. old = {} => m[a] = NegInf
    BY <1>4 DEF MaxOver
  <2>. HIDE DEF T, old, f
  <2>4. Scale(SumOver(old, f, m[a]), rescale_alpha(m[a], y)) = SumOver(old, f, y)
    BY <1>4, <1>10, <2>1, <2>2, <2>3, RescaledSum
  <2>5. AddTerms(SumOver(old, f, y), SumOver(T, f, y)) = SumOver(old \cup T, f, y)
    BY <1>5, <1>10, <2>1, <2>2, AddedSum
  <2>. QED
    BY <1>5, <2>4, <2>5
<1>. HIDE DEF key, sc, p, f, old, T
<1>15. /\ l' = [l EXCEPT ![a] = AddTerms(Scale(@, rescale_alpha(m[a], y)), RowTerms(key, p))]
       /\ acc' = [acc EXCEPT ![a] = AddTerms(Scale(@, rescale_alpha(m[a], y)), OutputTerms(key, p))]
       /\ m' = [m EXCEPT ![a] = y]
  BY <1>7, <1>11, <1>12
<1>16. l'[a] = SumOver(S, f, y) /\ acc'[a] = SumOver(S, f, y) /\ m'[a] = y
  BY <1>4, <1>13, <1>14, <1>15 DEF Regs, Shapes, Typed
<1>. QED
  BY <1>10, <1>16 DEF f

LEMMA SlotsStay ==
  ASSUME inputs' = inputs, NEW a \in Thread, SlotsOf(a),
         t'[a] = t[a], s'[a] = s[a], kkey'[a] = kkey[a]
  PROVE  SlotsOf(a)'
<1>1. bc' = bc /\ ScoreRow(a)' = ScoreRow(a) /\ Vis(a)' = Vis(a)
  BY LaunchKept
<1>2. Slot' = Slot /\ \A j \in Slot : TileRow(t[a], j)' = TileRow(t[a], j)
  BY <1>1 DEF Slot, TileRow
<1>. QED
  BY <1>1, <1>2 DEF SlotsOf

\* The registers stay exact in a step that touches none of them.
LEMMA RegsKept ==
  ASSUME Regs, inputs' = inputs, UNCHANGED <<m, l, acc, s, kkey>>,
         \A a \in Thread : Consumed(a)' = Consumed(a),
         \A a \in Thread : pc'[a] = "update" => pc[a] = "update" /\ t'[a] = t[a]
  PROVE  RowState' /\ SlotsHeld'
<1>1. bc' = bc /\ \A a \in Thread : /\ row_valid(a)' = row_valid(a) /\ ScoreRow(a)' = ScoreRow(a)
                                    /\ Vis(a)' = Vis(a)
  BY LaunchKept
<1>2. \A a \in Thread : SeenBy(a)' = SeenBy(a)
  BY <1>1 DEF SeenBy
<1>3. RowState'
  BY <1>1, <1>2 DEF Regs, RowState, MaxOver, Values, SumOver
<1>4. SlotsHeld'
  BY <1>1, SlotsStay DEF Regs, SlotsHeld
<1>. QED
  BY <1>3, <1>4

\* A thread alone neither begins nor leaves the loop's last stretch.
LEMMA LoopKept ==
  ASSUME BInv, LoopDone, inputs' = inputs, t' = t,
         \A a \in Thread : pc'[a] \in Staging \cup Storing => pc[a] \in Staging \cup Storing
  PROVE  LoopDone'
  BY LaunchKept DEF LoopDone

LEMMA LoadQRegs ==
  ASSUME BInv, Regs, NEW tid \in Thread, LoadQ(tid)
  PROVE  Regs'
<1>1. \A a \in Thread : pc'[a] = IF a = tid THEN "load" ELSE pc[a]
  BY DEF LoadQ, Go, BInv, Control
<1>2. inputs' = inputs /\ t' = t /\ UNCHANGED <<m, l, acc, s, kkey, res, lse>> /\ pc[tid] = "loadQ"
  BY DEF LoadQ, registers, outputs
<1>3. RowState' /\ SlotsHeld'
  BY <1>1, <1>2, RegsKept DEF Consumed
<1>4. LoopDone'
  BY <1>1, <1>2, LoopKept DEF Regs, Staging, Storing
<1>. QED
  BY <1>2, <1>3, <1>4 DEF Regs, Shapes

LEMMA LoadTileRegs ==
  ASSUME BInv, Regs, NEW tid \in Thread, LoadTile(tid)
  PROVE  Regs'
<1>1. \A a \in Thread : pc'[a] = IF a = tid THEN "raw" ELSE pc[a]
  BY DEF LoadTile, Go, BInv, Control
<1>2. inputs' = inputs /\ t' = t /\ UNCHANGED <<m, l, acc, s, kkey, res, lse>> /\ pc[tid] = "load"
  BY DEF LoadTile, registers, outputs
<1>3. RowState' /\ SlotsHeld'
  BY <1>1, <1>2, RegsKept DEF Consumed
<1>4. LoopDone'
  BY <1>1, <1>2, LoopKept DEF Regs, Staging, Storing
<1>. QED
  BY <1>2, <1>3, <1>4 DEF Regs, Shapes

LEMMA StageRegs ==
  ASSUME BInv, Regs, NEW tid \in Thread, Stage(tid)
  PROVE  Regs'
<1>1. \A a \in Thread : pc'[a] = IF a = tid THEN "staged" ELSE pc[a]
  BY DEF Stage, Go, BInv, Control
<1>2. inputs' = inputs /\ t' = t /\ UNCHANGED <<m, l, acc, s, kkey>> /\ pc[tid] = "stage"
  BY DEF Stage
<1>3. DOMAIN res' = DOMAIN res /\ DOMAIN lse' = DOMAIN lse
  BY DEF Stage
<1>4. RowState' /\ SlotsHeld'
  BY <1>1, <1>2, RegsKept DEF Consumed
<1>5. LoopDone'
  BY <1>1, <1>2, LoopKept DEF Regs, Staging, Storing
<1>. QED
  BY <1>2, <1>3, <1>4, <1>5 DEF Regs, Shapes

LEMMA StoreRegs ==
  ASSUME BInv, Regs, NEW tid \in Thread, Store(tid)
  PROVE  Regs'
<1>1. \A a \in Thread : pc'[a] = IF a = tid THEN "done" ELSE pc[a]
  BY DEF Store, Go, BInv, Control
<1>2. inputs' = inputs /\ t' = t /\ UNCHANGED <<m, l, acc, s, kkey, res, lse>> /\ pc[tid] = "store"
  BY DEF Store, registers
<1>3. RowState' /\ SlotsHeld'
  BY <1>1, <1>2, RegsKept DEF Consumed
<1>4. LoopDone'
  BY <1>1, <1>2, LoopKept DEF Regs, Staging, Storing
<1>. QED
  BY <1>2, <1>3, <1>4 DEF Regs, Shapes

\* The barrier that counts a tile changes no register, and opens the way out
\* of the loop only after the last tile.
LEMMA SyncRegs ==
  ASSUME BInv, Regs, Sync
  PROVE  Regs'
<1>1. inputs' = inputs /\ UNCHANGED <<m, l, acc, s, kkey, res, lse>>
  BY DEF Sync, registers, outputs
<1>2. /\ \A a \in Thread : t'[a] = IF pc[a] = "war" THEN t[a] + 1 ELSE t[a]
      /\ \A a \in Thread : pc'[a] = CASE pc[a] = "raw"    -> "scores"
                                      [] pc[a] = "war"    -> IF More(a, t'[a]) THEN "load" ELSE "stage"
                                      [] pc[a] = "staged" -> "store"
      /\ \A a \in Thread : pc[a] \in {"raw", "war", "staged"} /\ t[a] \in Nat
  BY DEF Sync, BarrierAt, BInv, Control
<1>3. \A a \in Thread : Consumed(a)' = Consumed(a)
  BY <1>2 DEF Consumed
<1>4. \A a \in Thread : pc'[a] # "update"
  BY <1>2
<1>5. RowState' /\ SlotsHeld'
  BY <1>1, <1>3, <1>4, RegsKept
<1>6. ASSUME NEW a \in Thread, pc'[a] \in Staging \cup Storing
      PROVE  n_tiles(a)' <= t'[a]
  <2>1. n_tiles(a)' = n_tiles(a) /\ n_tiles(a) \in Int
    BY <1>1, LaunchKept, TileCountInt DEF BInv
  <2>2. CASE pc[a] = "war"
    <3>1. ~ More(a, t'[a]) /\ t'[a] = t[a] + 1
      BY <1>2, <1>6, <2>2 DEF Staging, Storing
    <3>. QED
      BY <1>2, <2>1, <3>1 DEF More
  <2>3. CASE pc[a] = "staged"
    BY <1>2, <2>1, <2>3 DEF Regs, LoopDone, Staging
  <2>4. CASE pc[a] = "raw"
    BY <1>2, <1>6, <2>4 DEF Staging, Storing
  <2>. QED
    BY <1>2, <2>2, <2>3, <2>4
<1>7. LoopDone'
  BY <1>6 DEF LoopDone
<1>. QED
  BY <1>1, <1>5, <1>7 DEF Regs, Shapes

LEMMA ScoresRegs ==
  ASSUME BInv, Typed, Regs, NEW tid \in Thread, Scores(tid)
  PROVE  Regs'
<1>1. \A a \in Thread : pc'[a] = IF a = tid THEN "update" ELSE pc[a]
  BY DEF Scores, Go, BInv, Control
<1>2. inputs' = inputs /\ t' = t /\ UNCHANGED <<m, l, acc, res, lse>> /\ pc[tid] = "scores"
  BY DEF Scores, outputs
<1>3. bc' = bc /\ \A a \in Thread : /\ row_valid(a)' = row_valid(a) /\ ScoreRow(a)' = ScoreRow(a)
                                    /\ Vis(a)' = Vis(a)
  BY <1>2, LaunchKept
<1>4. \A a \in Thread : SeenBy(a)' = SeenBy(a)
  BY <1>1, <1>2, <1>3 DEF SeenBy, Consumed
<1>5. RowState'
  BY <1>2, <1>3, <1>4 DEF Regs, RowState, MaxOver, Values, SumOver
<1>6. /\ \A a \in Thread : a # tid => s'[a] = s[a] /\ kkey'[a] = kkey[a]
      /\ DOMAIN kkey' = Thread
  BY DEF Scores, Typed, Regs, Shapes
<1>7. ASSUME NEW a \in Thread, pc'[a] = "update"
      PROVE  SlotsOf(a)'
  <2>1. CASE a = tid
    <3>1. /\ kkey'[a] = [j \in Slot |-> TileRow(t[a], j)]
          /\ s'[a] = [j \in Slot |-> IF t[a] * bc + j \in Vis(a) THEN ScoreRow(a)[t[a] * bc + j]
                                     ELSE NegInf]
      BY <1>7, <2>1, ScoresOfTile DEF Regs, Typed
    <3>2. Slot' = Slot /\ \A j \in Slot : TileRow(t[a], j)' = TileRow(t[a], j)
      BY <1>2, <1>3 DEF Slot, TileRow
    <3>. QED
      BY <1>2, <1>3, <3>1, <3>2 DEF SlotsOf
  <2>2. CASE a # tid
    BY <1>1, <1>2, <1>6, <1>7, <2>2, SlotsStay DEF Regs, SlotsHeld
  <2>. QED
    BY <2>1, <2>2
<1>8. SlotsHeld'
  BY <1>3, <1>7 DEF SlotsHeld
<1>9. LoopDone'
  BY <1>1, <1>2, LoopKept DEF Regs, Staging, Storing
<1>. QED
  BY <1>2, <1>5, <1>6, <1>8, <1>9 DEF Regs, Shapes

LEMMA UpdateRegs ==
  ASSUME BInv, Typed, Regs, NEW tid \in Thread, Update(tid)
  PROVE  Regs'
<1>1. \A a \in Thread : pc'[a] = IF a = tid THEN "war" ELSE pc[a]
  BY DEF Update, Go, BInv, Control
<1>2. inputs' = inputs /\ t' = t /\ UNCHANGED <<res, lse>> /\ pc[tid] = "update"
  BY DEF Update, outputs
<1>3. bc' = bc /\ \A a \in Thread : /\ row_valid(a)' = row_valid(a) /\ ScoreRow(a)' = ScoreRow(a)
                                    /\ Vis(a)' = Vis(a)
  BY <1>2, LaunchKept
<1>4. /\ \A a \in Thread : a # tid => /\ m'[a] = m[a] /\ l'[a] = l[a] /\ acc'[a] = acc[a]
                                     /\ s'[a] = s[a] /\ kkey'[a] = kkey[a]
      /\ DOMAIN l' = Thread /\ DOMAIN acc' = Thread /\ DOMAIN kkey' = Thread
  BY DEF Update, Consume, Typed, Regs, Shapes
<1>5. ASSUME NEW a \in Thread
      PROVE  /\ MaxOver(m'[a], SeenBy(a)', ScoreRow(a))
             /\ l'[a] = SumOver(SeenBy(a)', ScoreRow(a), m'[a])
             /\ acc'[a] = l'[a]
  <2>1. CASE a = tid
    <3>1. SeenBy(a)' = {k \in Vis(a) : k < (t[a] + 1) * bc}
      BY <1>1, <1>2, <1>3, <2>1 DEF SeenBy, Consumed
    <3>. QED
      BY <1>5, <2>1, <3>1, UpdateOfTile
  <2>2. CASE a # tid
    <3>1. SeenBy(a)' = SeenBy(a)
      BY <1>1, <1>2, <1>3, <2>2 DEF SeenBy, Consumed
    <3>. QED
      BY <1>4, <1>5, <2>2, <3>1 DEF Regs, RowState
  <2>. QED
    BY <2>1, <2>2
<1>6. RowState'
  BY <1>3, <1>5 DEF RowState, MaxOver, Values, SumOver
<1>7. SlotsHeld'
  BY <1>1, <1>2, <1>3, <1>4, SlotsStay DEF SlotsHeld, Regs
<1>8. LoopDone'
  BY <1>1, <1>2, LoopKept DEF Regs, Staging, Storing
<1>. QED
  BY <1>2, <1>4, <1>6, <1>7, <1>8 DEF Regs, Shapes

-------------------------------------------------------------------------------
(* The epilogue.                                                           *)

\* A thread that has left the loop has seen every key of its row.
LEMMA AllSeen ==
  ASSUME BInv, Regs, NEW a \in Thread, pc[a] = "stage"
  PROVE  SeenBy(a) = Vis(a)
<1>1. /\ bc \in Nat \ {0} /\ t[a] \in Nat /\ i0 \in Nat /\ causal \in BOOLEAN
      /\ n_tiles(a) <= t[a]
  BY TileNumbers DEF Regs, LoopDone, Staging
<1>2. kv_end \in Nat /\ \A k \in Vis(a) : k \in Nat /\ k < kv_end
  BY <1>1, RowOfThread DEF BInv, kv_end, Min2
<1>3. kv_end <= t[a] * bc /\ t[a] * bc \in Nat
  <2>1. (kv_end + bc - 1) \div bc <= t[a]
    BY <1>1 DEF n_tiles
  <2>2. kv_end <= t[a] * bc
    BY <1>1, <1>2, <2>1, TilesReach
  <2>. QED
    BY <1>1, <2>2
<1>. QED
  BY <1>1, <1>2, <1>3 DEF SeenBy, Consumed

\* What it then computes from its registers is the row's result.
LEMMA FinishedExact ==
  ASSUME BInv, Typed, Regs, NEW a \in Thread, row_valid(a), pc[a] = "stage"
  PROVE  Finished(a) = [o |-> Promise!SoftmaxRow(i_of(a)), lse |-> Promise!LseRow(i_of(a))]
<1>. DEFINE V == Vis(a)
            f == ScoreRow(a)
            x == m[a]
<1>1. /\ MaxOver(x, V, f) /\ l[a] = SumOver(V, f, x) /\ acc[a] = SumOver(V, f, x)
  BY AllSeen DEF Regs, RowState
<1>2. /\ 0 \in V /\ NaN \notin V /\ \A k \in V : f[k] \in Int
  <2>1. V \in SUBSET (0 .. N - 1) /\ 0 \in V /\ f \in [0 .. N - 1 -> Int]
    BY RowOfThread DEF BInv
  <2>. HIDE DEF V, f, x
  <2>2. NaN \notin Int
    OBVIOUS
  <2>3. \A k \in 0 .. N - 1 : k \in Int
    OBVIOUS
  <2>. QED
    BY ONLY <2>1, <2>2, <2>3
<1>. HIDE DEF V, f, x
<1>3. x \in Int
  BY <1>1, <1>2 DEF MaxOver, Values
<1>. DEFINE sum == SumOver(V, f, x)
<1>4. /\ NormalisedRow(sum, sum) = [k \in V |-> [k2 \in V |-> f[k2] - f[k]]]
      /\ finalize_lse(x, sum) = [k \in V |-> f[k]]
  <2>1. sum = SumOver(V, f, x) /\ V # {}
    BY <1>2
  <2>. HIDE DEF sum
  <2>. QED
    BY ONLY <1>2, <1>3, <2>1, FinishedSum
<1>5. Finished(a) = [o |-> NormalisedRow(sum, sum), lse |-> finalize_lse(x, sum)]
  BY <1>1 DEF Finished, sum, x
<1>6. /\ Promise!SoftmaxRow(i_of(a)) = [k \in V |-> [k2 \in V |-> f[k2] - f[k]]]
      /\ Promise!LseRow(i_of(a)) = [k \in V |-> f[k]]
  BY DEF Promise!SoftmaxRow, Promise!LseRow, V, Vis, f, ScoreRow
<1>. QED
  BY <1>4, <1>5, <1>6

-------------------------------------------------------------------------------
(* The output.                                                             *)

Past == {"staged", "store", "done"}

\* A finished row stands in its row of Qs until it is stored, each element of
\* o is unwritten until the thread that stores it has done so, and so is lse.
StagedHeld ==
  \A a \in Thread : row_valid(a) /\ pc[a] \in Past =>
    \A e \in 0 .. Br * Dim - 1 : e \div Dim = a =>
      Qs[e] = [staged |-> Promise!SoftmaxRow(i_of(a))]
OHeld ==
  \A a \in Thread, d \in Elem :
    row_valid(a) /\ pc[(a * Dim + d) % Br] # "done" => o[i_of(a)][d] = Unwritten
LseHeld ==
  \A a \in Thread : row_valid(a) /\ pc[a] \notin Past => lse[i_of(a)] = Unwritten

OutHeld == StagedHeld /\ OHeld /\ LseHeld

\* An element of the block's rows, its place in the staged tile, and the
\* thread that stores it.
LEMMA OwnedElement ==
  ASSUME LaunchOK, NEW r \in GlobalRow, r - i0 \in 0 .. rows_q - 1, NEW d \in Elem
  PROVE  /\ r - i0 \in Thread /\ row_valid(r - i0) /\ i_of(r - i0) = r
         /\ r \in i0 .. i0 + rows_q - 1
         /\ (r - i0) * Dim + d \in 0 .. Br * Dim - 1
         /\ ((r - i0) * Dim + d) \div Dim = r - i0
<1>1. /\ i0 \in Nat /\ r \in Int /\ r - i0 < Br /\ r - i0 < N - i0 /\ r - i0 \in Nat
      /\ rows_q \in Int
  BY DEF LaunchOK, rows_q, Min2, GlobalRow
<1>. DEFINE a == r - i0
<1>2. a \in 0 .. Br - 1 /\ a \in Nat /\ i0 + a = r
  BY <1>1
<1>3. r < N /\ r \in i0 .. i0 + rows_q - 1
  BY <1>1
<1>. HIDE DEF a
<1>4. a * Dim + d \in 0 .. Br * Dim - 1 /\ (a * Dim + d) \div Dim = a
  BY <1>2, SlotCells, CellOfSlot DEF Elem
<1>. QED
  BY <1>2, <1>3, <1>4 DEF a, Thread, row_valid, i_of

LEMMA OwnerOf ==
  ASSUME NEW a \in Thread, NEW d \in Elem
  PROVE  (a * Dim + d) % Br \in Thread
<1>1. a \in Nat
  BY DEF Thread
<1>2. a * Dim + d \in Nat
  BY <1>1, CellOfSlot DEF Elem
<1>3. \A x \in Nat : x % Br \in 0 .. Br - 1
  OBVIOUS
<1>. QED
  BY <1>2, <1>3 DEF Thread

\* A step that writes neither the tile of Q nor the outputs.
LEMMA OutKept ==
  ASSUME OutHeld, inputs' = inputs, UNCHANGED <<Qs, o, lse>>,
         \A a \in Thread : /\ pc'[a] \in Past <=> pc[a] \in Past
                           /\ pc'[a] = "done" <=> pc[a] = "done"
  PROVE  OutHeld'
<1>1. \A a \in Thread : /\ i_of(a)' = i_of(a) /\ row_valid(a)' = row_valid(a)
                        /\ Promise!SoftmaxRow(i_of(a))' = Promise!SoftmaxRow(i_of(a))
  BY LaunchKept
<1>2. StagedHeld'
  BY <1>1 DEF OutHeld, StagedHeld
<1>3. OHeld'
  BY <1>1, OwnerOf DEF OutHeld, OHeld
<1>4. LseHeld'
  BY <1>1 DEF OutHeld, LseHeld
<1>. QED
  BY <1>2, <1>3, <1>4 DEF OutHeld

\* Q is loaded before any row is staged.
LEMMA LoadQOut ==
  ASSUME BInv, OutHeld, NEW tid \in Thread, LoadQ(tid)
  PROVE  OutHeld'
<1>1. \A a \in Thread : pc'[a] = IF a = tid THEN "load" ELSE pc[a]
  BY DEF LoadQ, Go, BInv, Control
<1>2. \A a \in Thread : pc[a] \in Loading
  BY DEF LoadQ, BInv, Control, Together, Loading
<1>3. inputs' = inputs /\ o' = o /\ lse' = lse
  BY DEF LoadQ, outputs
<1>4. \A a \in Thread : /\ i_of(a)' = i_of(a) /\ row_valid(a)' = row_valid(a)
  BY <1>3, LaunchKept
<1>5. StagedHeld'
  BY <1>1, <1>2 DEF StagedHeld, Past, Loading
<1>6. OHeld'
  BY <1>1, <1>2, <1>3, <1>4, OwnerOf DEF OutHeld, OHeld, Loading
<1>7. LseHeld'
  BY <1>1, <1>2, <1>3, <1>4 DEF OutHeld, LseHeld, Loading, Past
<1>. QED
  BY <1>5, <1>6, <1>7 DEF OutHeld

\* The epilogue of a thread stages its own row and writes its own lse.
LEMMA StageOut ==
  ASSUME BInv, Typed, Regs, OutHeld, NEW tid \in Thread, Stage(tid)
  PROVE  OutHeld' /\ Promise!Write
<1>1. \A a \in Thread : pc'[a] = IF a = tid THEN "staged" ELSE pc[a]
  BY DEF Stage, Go, BInv, Control
<1>2. inputs' = inputs /\ o' = o /\ pc[tid] = "stage"
  BY DEF Stage
<1>3. \A a \in Thread : /\ i_of(a)' = i_of(a) /\ row_valid(a)' = row_valid(a)
                        /\ Promise!SoftmaxRow(i_of(a))' = Promise!SoftmaxRow(i_of(a))
  BY <1>2, LaunchKept
<1>4. res'[tid] = Finished(tid)
  BY DEF Stage, Regs, Shapes
<1>5. row_valid(tid) =>
        /\ res'[tid].o = Promise!SoftmaxRow(i_of(tid))
        /\ res'[tid].lse = Promise!LseRow(i_of(tid))
  BY <1>2, <1>4, FinishedExact
<1>6. \A e \in 0 .. Br * Dim - 1 :
        Qs'[e] = IF e \div Dim = tid THEN [staged |-> res'[tid].o] ELSE Qs[e]
  BY DEF Stage, BInv, LaunchOK
<1>7. StagedHeld'
  <2>. SUFFICES ASSUME NEW a \in Thread, row_valid(a), pc'[a] \in Past,
                       NEW e \in 0 .. Br * Dim - 1, e \div Dim = a
                PROVE  Qs'[e] = [staged |-> Promise!SoftmaxRow(i_of(a))]
    BY <1>3 DEF StagedHeld
  <2>1. CASE a = tid
    BY <1>5, <1>6, <2>1
  <2>2. CASE a # tid
    BY <1>1, <1>6, <2>2 DEF OutHeld, StagedHeld
  <2>. QED
    BY <2>1, <2>2
<1>8. OHeld'
  BY <1>1, <1>2, <1>3, OwnerOf DEF OutHeld, OHeld
<1>9. /\ lse' = IF row_valid(tid) THEN [lse EXCEPT ![i_of(tid)] = res'[tid].lse] ELSE lse
      /\ DOMAIN lse = GlobalRow
  BY DEF Stage, Regs, Shapes
<1>10. \A a, b \in Thread : i_of(a) = i_of(b) => a = b
  BY DEF i_of, Thread, BInv, LaunchOK
<1>11. \A a \in Thread : row_valid(a) => i_of(a) \in GlobalRow
  BY ValidRow DEF BInv, GlobalRow
<1>12. LseHeld'
  <2>. SUFFICES ASSUME NEW a \in Thread, row_valid(a), pc'[a] \notin Past
                PROVE  lse'[i_of(a)] = Unwritten
    BY <1>3 DEF LseHeld
  <2>1. a # tid /\ lse[i_of(a)] = Unwritten
    BY <1>1 DEF OutHeld, LseHeld, Past
  <2>. QED
    BY <1>9, <1>10, <1>11, <2>1
<1>13. ASSUME NEW r \in GlobalRow
       PROVE  \/ lse'[r] = lse[r]
              \/ /\ r \in i0 .. i0 + rows_q - 1
                 /\ lse[r] = Unwritten /\ lse'[r] = Promise!LseRow(r)
  <2>1. CASE row_valid(tid) /\ r = i_of(tid)
    <3>1. lse[r] = Unwritten
      BY <1>2, <2>1 DEF OutHeld, LseHeld, Past
    <3>2. lse'[r] = Promise!LseRow(r)
      BY <1>5, <1>9, <2>1
    <3>3. r \in i0 .. i0 + rows_q - 1
      BY <2>1 DEF BInv, LaunchOK, Thread, row_valid, i_of, rows_q, Min2
    <3>. QED
      BY <3>1, <3>2, <3>3
  <2>2. CASE ~ (row_valid(tid) /\ r = i_of(tid))
    BY <1>9, <2>2
  <2>. QED
    BY <2>1, <2>2
<1>14. UNCHANGED Promise!inputs
  BY <1>2, LaunchKept DEF Promise!inputs
<1>15. Promise!Write
  BY <1>2, <1>13, <1>14 DEF Promise!Write
<1>. QED
  BY <1>7, <1>8, <1>12, <1>15 DEF OutHeld

\* A thread stores its share of the block's rows, those of others included.
LEMMA StoreOut ==
  ASSUME BInv, OutHeld, NEW tid \in Thread, Store(tid)
  PROVE  OutHeld' /\ Promise!Write
<1>1. \A a \in Thread : pc'[a] = IF a = tid THEN "done" ELSE pc[a]
  BY DEF Store, Go, BInv, Control
<1>2. inputs' = inputs /\ Qs' = Qs /\ lse' = lse /\ pc[tid] = "store"
  BY DEF Store, shared
<1>3. \A a \in Thread : /\ i_of(a)' = i_of(a) /\ row_valid(a)' = row_valid(a)
                        /\ Promise!SoftmaxRow(i_of(a))' = Promise!SoftmaxRow(i_of(a))
  BY <1>2, LaunchKept
<1>4. \A a \in Thread : pc[a] \in Past
  BY <1>2 DEF BInv, Control, Together, Storing, Past
<1>5. StagedHeld'
  BY <1>2, <1>3, <1>4 DEF OutHeld, StagedHeld
<1>6. LseHeld'
  BY <1>1, <1>4 DEF LseHeld, Past
<1>7. \A r \in GlobalRow, d \in Elem :
        o'[r][d] = LET e == (r - i0) * Dim + d
                   IN  IF r - i0 \in 0 .. rows_q - 1 /\ e \in SliceOf(tid, Br, Br * Dim)
                         THEN IF "staged" \in DOMAIN Qs[e] THEN Qs[e].staged ELSE Undef
                         ELSE o[r][d]
  BY DEF Store
<1>8. ASSUME NEW r \in GlobalRow, NEW d \in Elem, r - i0 \in 0 .. rows_q - 1,
             (r - i0) * Dim + d \in SliceOf(tid, Br, Br * Dim)
      PROVE  /\ r \in i0 .. i0 + rows_q - 1
             /\ o[r][d] = Unwritten /\ o'[r][d] = Promise!SoftmaxRow(r)
  <2>. DEFINE a == r - i0
              e == a * Dim + d
  <2>1. /\ a \in Thread /\ row_valid(a) /\ i_of(a) = r /\ r \in i0 .. i0 + rows_q - 1
        /\ e \in 0 .. Br * Dim - 1 /\ e \div Dim = a
    BY <1>8, OwnedElement DEF BInv
  <2>2. e % Br = tid
    BY <1>8 DEF SliceOf
  <2>3. o'[r][d] = IF "staged" \in DOMAIN Qs[e] THEN Qs[e].staged ELSE Undef
    BY <1>7, <1>8
  <2>. HIDE DEF a
  <2>4. o[r][d] = Unwritten
    BY <1>2, <2>1, <2>2 DEF OutHeld, OHeld
  <2>. HIDE DEF e
  <2>5. Qs[e] = [staged |-> Promise!SoftmaxRow(i_of(a))]
    BY <1>4, <2>1 DEF OutHeld, StagedHeld
  <2>. QED
    BY <2>1, <2>3, <2>4, <2>5
<1>9. OHeld'
  <2>. SUFFICES ASSUME NEW a \in Thread, NEW d \in Elem, row_valid(a),
                       pc'[(a * Dim + d) % Br] # "done"
                PROVE  o'[i_of(a)][d] = Unwritten
    BY <1>3 DEF OHeld
  <2>1. (a * Dim + d) % Br \in Thread
    BY OwnerOf
  <2>2. (a * Dim + d) % Br # tid /\ o[i_of(a)][d] = Unwritten
    BY <1>1, <2>1 DEF OutHeld, OHeld
  <2>3. i_of(a) \in GlobalRow /\ i_of(a) - i0 = a
    <3>1. i_of(a) \in 0 .. N - 1
      BY ValidRow DEF BInv
    <3>2. i0 \in Int /\ a \in Int
      BY DEF BInv, LaunchOK, Thread
    <3>. QED
      BY <3>1, <3>2 DEF GlobalRow, i_of
  <2>4. a * Dim + d \notin SliceOf(tid, Br, Br * Dim)
    BY <2>2 DEF SliceOf
  <2>. QED
    BY <1>7, <2>2, <2>3, <2>4
<1>10. UNCHANGED Promise!inputs
  BY <1>2, LaunchKept DEF Promise!inputs
<1>11. Promise!Write
  BY <1>2, <1>7, <1>8, <1>10 DEF Promise!Write
<1>. QED
  BY <1>5, <1>6, <1>9, <1>11 DEF OutHeld

\* A barrier is passed by all threads at once, at the same call.
LEMMA SyncOut ==
  ASSUME BInv, OutHeld, Sync
  PROVE  OutHeld'
<1>1. inputs' = inputs /\ UNCHANGED <<Qs, o, lse>>
  BY DEF Sync, shared, outputs
<1>2. \A a \in Thread : pc[a] \in {"raw", "war", "staged"} /\ pc'[a] = CASE pc[a] = "raw" -> "scores"
        [] pc[a] = "war"    -> IF More(a, t'[a]) THEN "load" ELSE "stage"
        [] pc[a] = "staged" -> "store"
  BY DEF Sync, BarrierAt
<1>3. \A a \in Thread : /\ pc'[a] \in Past <=> pc[a] \in Past
                        /\ pc'[a] = "done" <=> pc[a] = "done"
  BY <1>2 DEF Past
<1>. QED
  BY <1>1, <1>3, OutKept

\* A thread that loads or computes a tile touches no output.
LEMMA TileOut ==
  ASSUME BInv, OutHeld, NEW tid \in Thread, LoadTile(tid) \/ Scores(tid) \/ Update(tid)
  PROVE  OutHeld' /\ UNCHANGED <<inputs, o, lse>>
<1>1. inputs' = inputs /\ UNCHANGED <<Qs, o, lse>>
  BY DEF LoadTile, Scores, Update, shared, outputs
<1>2. /\ pc[tid] \notin Past /\ pc'[tid] \notin Past
      /\ \A a \in Thread : a # tid => pc'[a] = pc[a]
  BY DEF LoadTile, Scores, Update, Go, Past, BInv, Control
<1>3. \A a \in Thread : /\ pc'[a] \in Past <=> pc[a] \in Past
                        /\ pc'[a] = "done" <=> pc[a] = "done"
  BY <1>2 DEF Past
<1>. QED
  BY <1>1, <1>3, OutKept

BlockInv == BInv /\ Typed /\ Regs /\ OutHeld

LEMMA InitOut == Init => Regs /\ OutHeld
<1>. SUFFICES ASSUME Init PROVE Regs /\ OutHeld
  OBVIOUS
<1>1. LaunchOK
  BY InitBInv DEF BInv
<1>2. Shapes /\ SlotsHeld /\ LoopDone
  BY DEF Init, Shapes, SlotsHeld, LoopDone, Staging, Storing
<1>3. ASSUME NEW a \in Thread
      PROVE  /\ MaxOver(m[a], SeenBy(a), ScoreRow(a))
             /\ l[a] = SumOver(SeenBy(a), ScoreRow(a), m[a]) /\ acc[a] = l[a]
  <2>1. Consumed(a) = 0 /\ bc \in Nat
    BY <1>1 DEF Init, Consumed, LaunchOK
  <2>2. Vis(a) \in SUBSET (0 .. N - 1)
    BY <1>1, <1>3, RowOfThread
  <2>3. SeenBy(a) = {}
    BY <2>1, <2>2 DEF SeenBy
  <2>. QED
    BY <2>3 DEF Init, MaxOver, SumOver, EmptySum
<1>4. RowState
  BY <1>3 DEF RowState
<1>5. \A a \in Thread : row_valid(a) => i_of(a) \in GlobalRow
  BY <1>1, ValidRow DEF GlobalRow
<1>6. OutHeld
  BY <1>5 DEF Init, OutHeld, StagedHeld, OHeld, LseHeld, Past
<1>. QED
  BY <1>2, <1>4, <1>6 DEF Regs

LEMMA StepOut ==
  ASSUME BlockInv, [Next]_vars
  PROVE  Regs' /\ OutHeld' /\ [Promise!Write]_(Promise!vars)
<1>. USE DEF BlockInv
<1>1. inputs' = inputs /\ o' = o /\ lse' = lse => UNCHANGED Promise!vars
  BY LaunchKept DEF Promise!vars
<1>2. ASSUME NEW tid \in Thread, LoadQ(tid)
      PROVE  Regs' /\ OutHeld' /\ UNCHANGED Promise!vars
  BY <1>1, <1>2, LoadQRegs, LoadQOut DEF LoadQ, outputs
<1>3. ASSUME NEW tid \in Thread, LoadTile(tid) \/ Scores(tid) \/ Update(tid)
      PROVE  Regs' /\ OutHeld' /\ UNCHANGED Promise!vars
  BY <1>1, <1>3, LoadTileRegs, ScoresRegs, UpdateRegs, TileOut
<1>4. ASSUME NEW tid \in Thread, Stage(tid)
      PROVE  Regs' /\ OutHeld' /\ Promise!Write
  BY <1>4, StageRegs, StageOut
<1>5. ASSUME NEW tid \in Thread, Store(tid)
      PROVE  Regs' /\ OutHeld' /\ Promise!Write
  BY <1>5, StoreRegs, StoreOut
<1>6. ASSUME Sync
      PROVE  Regs' /\ OutHeld' /\ UNCHANGED Promise!vars
  BY <1>1, <1>6, SyncRegs, SyncOut DEF Sync, outputs
<1>7. ASSUME UNCHANGED vars
      PROVE  Regs' /\ OutHeld' /\ UNCHANGED Promise!vars
  <2>1. /\ inputs' = inputs /\ t' = t /\ pc' = pc
        /\ UNCHANGED <<m, l, acc, s, kkey, res, Qs, o, lse>>
    BY <1>7 DEF vars, registers, shared, outputs
  <2>2. RowState' /\ SlotsHeld'
    BY <2>1, RegsKept DEF Consumed
  <2>3. LoopDone'
    BY <2>1, LoopKept DEF Regs
  <2>. QED
    BY <1>1, <2>1, <2>2, <2>3, OutKept DEF Regs, Shapes
<1>. QED
  BY <1>2, <1>3, <1>4, <1>5, <1>6, <1>7 DEF Next, Step, Retired

\* The inductive invariant of the block with its registers and outputs.
THEOREM OutputInvariant == Spec => []BlockInv
<1>1. Init => BlockInv
  BY InitBInv, InitTyped, InitOut DEF BlockInv
<1>2. BlockInv /\ [Next]_vars => BlockInv'
  BY StepBInv, StepTyped, StepOut DEF BlockInv
<1>. QED
  BY <1>1, <1>2, PTL DEF Spec

\* A block of fa_s3_fused writes each element of its rows once, with the
\* softmax over the row's visible keys, and its log-sum-exp likewise, and
\* nothing else, in whatever order its threads run.
THEOREM FusedImplementsAttention == Spec => ImplementsAttention
<1>1. Init => Promise!Init
  BY DEF Init, Promise!Init
<1>2. BlockInv /\ [Next]_vars => [Promise!Write]_(Promise!vars)
  BY StepOut
<1>. QED
  BY <1>1, <1>2, OutputInvariant, PTL DEF Spec, ImplementsAttention, Promise!Spec

-------------------------------------------------------------------------------
(* Every thread runs the row recurrence.                                   *)

\* A thread has no result before its epilogue.
ResultHeld == \A a \in Thread : pc[a] \notin Past => res[a] = NotYet

LEMMA InitResult == Init => ResultHeld
  BY DEF Init, ResultHeld

LEMMA StepResult ==
  ASSUME BInv, ResultHeld, [Next]_vars
  PROVE  ResultHeld'
<1>1. ASSUME NEW tid \in Thread, LoadQ(tid) \/ LoadTile(tid) \/ Scores(tid) \/ Update(tid)
      PROVE  ResultHeld'
  <2>1. res' = res /\ \A a \in Thread : a # tid => pc'[a] = pc[a]
    BY <1>1 DEF LoadQ, LoadTile, Scores, Update, Go, registers, BInv, Control
  <2>2. pc[tid] \notin Past
    BY <1>1 DEF LoadQ, LoadTile, Scores, Update, Past
  <2>. QED
    BY <2>1, <2>2 DEF ResultHeld
<1>2. ASSUME NEW tid \in Thread, Stage(tid) PROVE ResultHeld'
  <2>1. \A a \in Thread : a # tid => pc'[a] = pc[a] /\ res'[a] = res[a]
    BY <1>2 DEF Stage, Go, BInv, Control
  <2>2. pc'[tid] \in Past
    BY <1>2 DEF Stage, Go, BInv, Control, Past
  <2>. QED
    BY <2>1, <2>2 DEF ResultHeld
<1>3. ASSUME NEW tid \in Thread, Store(tid) PROVE ResultHeld'
  BY <1>3 DEF Store, Go, registers, BInv, Control, Past, ResultHeld
<1>4. ASSUME Sync PROVE ResultHeld'
  <2>1. res' = res /\ \A a \in Thread : pc[a] \in Past => pc'[a] \in Past
    BY <1>4 DEF Sync, registers, Past, BarrierAt
  <2>. QED
    BY <2>1 DEF ResultHeld
<1>5. ASSUME UNCHANGED vars PROVE ResultHeld'
  BY <1>5 DEF vars, registers, ResultHeld
<1>. QED
  BY <1>1, <1>2, <1>3, <1>4, <1>5 DEF Next, Step, Retired

\* The recurrence reckons with the same numbers.
LEMMA RowNumbers ==
  ASSUME NEW a \in Thread
  PROVE  /\ RowOf(a)!EmptySum = EmptySum
         /\ \A x, y : RowOf(a)!Min2(x, y) = Min2(x, y)
         /\ \A x, S : RowOf(a)!IsMax(x, S) <=> IsMax(x, S)
         /\ \A x, y : RowOf(a)!rescale_alpha(x, y) = rescale_alpha(x, y)
         /\ \A x, y : RowOf(a)!p_from_score(x, y) = p_from_score(x, y)
         /\ \A x, y : RowOf(a)!Scale(x, y) = Scale(x, y)
         /\ \A x, w : RowOf(a)!AddTerms(x, w) = AddTerms(x, w)
         /\ \A x, y : RowOf(a)!NormalisedRow(x, y) = NormalisedRow(x, y)
         /\ \A x, y : RowOf(a)!finalize_lse(x, y) = finalize_lse(x, y)
<1>1. RowOf(a)!EmptySum = EmptySum /\ RowOf(a)!Poisoned = Poisoned
  BY DEF RowOf!EmptySum, RowOf!Poisoned, EmptySum, Poisoned
<1>2. \A x : RowOf(a)!IsPoisoned(x) <=> IsPoisoned(x)
  BY DEF RowOf!IsPoisoned, IsPoisoned
<1>3. \A x, y : RowOf(a)!Max2(x, y) = Max2(x, y) /\ RowOf(a)!Min2(x, y) = Min2(x, y)
  BY DEF RowOf!Max2, RowOf!Min2, Max2, Min2
<1>4. \A x, S : RowOf(a)!IsMax(x, S) <=> IsMax(x, S)
  BY <1>3 DEF RowOf!IsMax, IsMax
<1>5. \A x, y : RowOf(a)!exp2_scaled(x, y) = exp2_scaled(x, y)
  BY DEF RowOf!exp2_scaled, exp2_scaled
<1>6. \A x, y : /\ RowOf(a)!rescale_alpha(x, y) = rescale_alpha(x, y)
                /\ RowOf(a)!p_from_score(x, y) = p_from_score(x, y)
  BY <1>5 DEF RowOf!rescale_alpha, RowOf!p_from_score, rescale_alpha, p_from_score
<1>7. \A x, y : RowOf(a)!Scale(x, y) = Scale(x, y)
  BY <1>1, <1>2 DEF RowOf!Scale, Scale
<1>8. \A x, w : RowOf(a)!AddTerms(x, w) = AddTerms(x, w)
  BY <1>1, <1>2 DEF RowOf!AddTerms, AddTerms
<1>9. \A x, y : RowOf(a)!NormalisedRow(x, y) = NormalisedRow(x, y)
  BY <1>1, <1>2 DEF RowOf!NormalisedRow, NormalisedRow
<1>10. \A x, y : RowOf(a)!finalize_lse(x, y) = finalize_lse(x, y)
  BY <1>1, <1>2 DEF RowOf!finalize_lse, finalize_lse
<1>. QED
  BY <1>1, <1>3, <1>4, <1>6, <1>7, <1>8, <1>9, <1>10

\* The recurrence has the same last tile.
LEMMA RowTiles ==
  ASSUME NEW a \in Thread
  PROVE  RowOf(a)!n_tiles = n_tiles(a)
<1>1. RowOf(a)!kv_end = kv_end
  BY RowNumbers DEF RowOf!kv_end, kv_end
<1>. QED
  BY <1>1 DEF RowOf!n_tiles, n_tiles

\* The row's inputs, as the recurrence names them.
LEMMA RowInputsKept ==
  ASSUME inputs' = inputs, NEW a \in Thread
  PROVE  UNCHANGED RowOf(a)!inputs
<1>1. /\ i0' = i0 /\ i_of(a)' = i_of(a) /\ causal' = causal /\ bc' = bc
      /\ ScoreRow(a)' = ScoreRow(a)
  BY LaunchKept
<1>. QED
  BY <1>1 DEF RowOf!inputs, ScoreRow

\* A thread whose registers and consumed tiles stay is at the same state of
\* its row.
LEMMA RowKept ==
  ASSUME inputs' = inputs, NEW a \in Thread, Consumed(a)' = Consumed(a),
         m'[a] = m[a], l'[a] = l[a], acc'[a] = acc[a], res'[a] = res[a]
  PROVE  UNCHANGED RowOf(a)!vars
<1>1. UNCHANGED RowOf(a)!inputs
  BY RowInputsKept
<1>. QED
  BY <1>1 DEF RowOf!vars, RowOf!inputs, Consumed

\* The recurrence masks the slots of a tile whose keys the row does not see.
LEMMA RowTile ==
  ASSUME BInv, NEW a \in Thread, pc[a] = "update"
  PROVE  /\ RowOf(a)!TileKeys = t[a] * bc .. t[a] * bc + bc - 1
         /\ RowOf(a)!s = [jj \in t[a] * bc .. t[a] * bc + bc - 1 |->
                            IF jj \in Vis(a) THEN ScoreRow(a)[jj] ELSE NegInf]
<1>. DEFINE base == t[a] * bc
<1>1. bc \in Nat \ {0} /\ base \in Nat /\ i0 \in Nat /\ causal \in BOOLEAN
  BY TileNumbers
<1>2. RowOf(a)!j0 = base
  BY <1>1, TileNumbers DEF RowOf!j0
<1>3. RowOf(a)!TileKeys = base .. base + bc - 1
  BY <1>2 DEF RowOf!TileKeys
<1>4. ASSUME NEW jj \in base .. base + bc - 1
      PROVE  (IF RowOf(a)!NeedsMask /\ RowOf(a)!Masked(jj) THEN NegInf ELSE RowOf(a)!Raw(jj))
               = IF jj \in Vis(a) THEN ScoreRow(a)[jj] ELSE NegInf
  <2>1. i_of(a) \in Nat /\ i0 <= i_of(a) /\ Vis(a) \in SUBSET (0 .. N - 1)
        /\ \A k \in 0 .. N - 1 : k \in Vis(a) <=> (causal => k <= i_of(a))
    BY RowOfThread DEF BInv
  <2>2. RowOf(a)!NeedsMask <=> base + bc > N \/ (causal /\ base + bc - 1 > i0)
    BY <1>2 DEF RowOf!NeedsMask
  <2>3. RowOf(a)!Masked(jj) <=> jj >= N \/ (causal /\ jj > i_of(a))
    BY DEF RowOf!Masked
  <2>4. jj \in 0 .. N - 1 => RowOf(a)!Raw(jj) = ScoreRow(a)[jj]
    BY DEF RowOf!Raw, RowOf!Key, ScoreRow
  <2>. HIDE DEF base
  <2>5. jj \in Nat
    BY <1>1
  <2>6. jj \in Vis(a) <=> jj < N /\ (causal => jj <= i_of(a))
    BY <2>1, <2>5
  <2>7. RowOf(a)!NeedsMask /\ RowOf(a)!Masked(jj) <=> jj \notin Vis(a)
    BY <1>1, <2>1, <2>2, <2>3, <2>5, <2>6
  <2>. QED
    BY <2>1, <2>4, <2>7
<1>. QED
  BY <1>3, <1>4 DEF RowOf!s

\* On whole tiles, Update is the recurrence's Tile.
LEMMA UpdateIsTile ==
  ASSUME BInv, Typed, Regs, NEW a \in Thread, Update(a)
  PROVE  RowOf(a)!Tile
<1>. DEFINE base == t[a] * bc
            V    == Vis(a)
            f    == ScoreRow(a)
            old  == SeenBy(a)
            T    == TileKeys(a)
            D    == base .. base + bc - 1
            sc   == [jj \in D |-> IF jj \in V THEN f[jj] ELSE NegInf]
            y    == m'[a]
            numbers == {m[a]} \cup {sc[jj] : jj \in D}
<1>1. pc[a] = "update" /\ pc' = [pc EXCEPT ![a] = "war"] /\ inputs' = inputs
      /\ t' = t /\ res' = res
  BY DEF Update, Go
<1>2. bc \in Nat \ {0} /\ t[a] \in Nat /\ base \in Nat
  BY TileNumbers
<1>3. V \in SUBSET (0 .. N - 1) /\ f \in [0 .. N - 1 -> Int]
  BY RowOfThread DEF BInv
<1>4. /\ MaxOver(m[a], old, f) /\ l[a] = SumOver(old, f, m[a]) /\ acc[a] = l[a]
      /\ m[a] \in Score
  BY DEF Regs, RowState, Typed
<1>5. /\ T # {} \/ old # {}
      /\ old \cup T = {k \in V : k < (t[a] + 1) * bc}
  BY <1>1, KeysOfTile
<1>6. old \cap T = {}
  BY <1>1, KeysOfTile
<1>7. /\ MaxOver(y, old \cup T, f)
      /\ l'[a] = SumOver(old \cup T, f, y) /\ acc'[a] = l'[a]
  <2>1. old \cup T = {k \in V : k < (t[a] + 1) * bc}
    BY <1>5
  <2>. HIDE DEF old, T
  <2>. QED
    BY <2>1, UpdateOfTile
<1>8. Bounded(old \cup T) /\ NaN \notin old \cup T /\ \A k \in old \cup T : f[k] \in Int
  <2>1. old \cup T \subseteq V
    BY <1>5
  <2>. HIDE DEF old, T, V, f
  <2>2. \A k \in V : k \in Nat /\ k < N /\ f[k] \in Int
    BY <1>3
  <2>3. Bounded(old \cup T)
    BY ONLY BlockAssumption, <2>1, <2>2 DEF Bounded
  <2>4. NaN \notin Nat
    OBVIOUS
  <2>. QED
    BY ONLY <2>1, <2>2, <2>3, <2>4
<1>9. T = {jj \in D : jj \in V} /\ T \subseteq D
  BY <1>2, <1>3 DEF TileKeys, Within
<1>10. Candidates(numbers, m[a], f, T)
  <2>. HIDE DEF T, D, V, f
  <2>1. \A jj \in D : sc[jj] = IF jj \in T THEN f[jj] ELSE NegInf
    BY <1>9
  <2>. HIDE DEF sc
  <2>2. \A k \in T : f[k] \in numbers
    BY <1>9, <2>1
  <2>3. \A jj \in D : sc[jj] \in {NegInf} \cup Values(f, T)
    BY <2>1 DEF Values
  <2>. QED
    BY <2>2, <2>3 DEF Candidates, Values
<1>. HIDE DEF V, f, old, T, D, y, numbers
<1>11. y \in numbers /\ IsMax(y, numbers) /\ y \in Int
  <2>1. Bounded(old) /\ \A k \in old : f[k] \in Int
    BY <1>8 DEF Bounded
  <2>2. m[a] = MaxOf(old, f)
    BY <1>4, <2>1, MaxIsMaxOf
  <2>3. y = MaxOf(old \cup T, f)
    BY <1>7, <1>8, MaxIsMaxOf
  <2>4. Candidates(numbers, MaxOf(old, f), f, T)
    BY <1>10, <2>2
  <2>5. old \cup T # {}
    BY <1>5
  <2>. QED
    BY <1>8, <2>3, <2>4, <2>5, NextMaxOf
<1>. DEFINE p == [jj \in D |-> p_from_score(sc[jj], y)]
<1>12. DOMAIN p = D /\ \A jj \in D : p[jj] = IF jj \in T THEN f[jj] - y ELSE Zero
  <2>1. \A jj \in D : p_from_score(sc[jj], y) = IF jj \in T THEN f[jj] - y ELSE Zero
    <3>. TAKE jj \in D
    <3>1. y # NegInf
      BY <1>11
    <3>2. CASE jj \in T
      <4>1. sc[jj] = f[jj] /\ f[jj] \in Int
        BY <1>8, <1>9, <3>2
      <4>2. f[jj] # NegInf
        BY <4>1
      <4>. QED
        BY <3>1, <3>2, <4>1, <4>2 DEF p_from_score, exp2_scaled
    <3>3. CASE jj \notin T
      BY <1>9, <3>1, <3>3 DEF p_from_score, exp2_scaled
    <3>. QED
      BY <3>2, <3>3
  <2>. QED
    BY <2>1
<1>13. AddTerms(Scale(SumOver(old, f, m[a]), rescale_alpha(m[a], y)), p)
         = SumOver(old \cup T, f, y)
  <2>1. Scale(SumOver(old, f, m[a]), rescale_alpha(m[a], y)) = SumOver(old, f, y)
    <3>1. (old # {} => m[a] \in Int) /\ (old = {} => m[a] = NegInf)
      BY <1>4, <1>8 DEF MaxOver, Values
    <3>. QED
      BY <1>4, <1>8, <1>11, <3>1, RescaledSum
  <2>. HIDE DEF p
  <2>2. old \cap T = {} /\ T \subseteq DOMAIN p /\ y \in Int
    BY <1>6, <1>9, <1>11, <1>12
  <2>3. AddTerms(SumOver(old, f, y), p) = SumOver(old \cup T, f, y)
    BY ONLY <1>8, <1>12, <2>2, AddedTile
  <2>. QED
    BY <2>1, <2>3
<1>14. /\ l'[a] = AddTerms(Scale(l[a], rescale_alpha(m[a], y)), p)
       /\ acc'[a] = AddTerms(Scale(acc[a], rescale_alpha(m[a], y)), p)
  BY <1>4, <1>7, <1>13
<1>15. RowOf(a)!TileKeys = D /\ RowOf(a)!s = sc
  BY <1>1, RowTile DEF D, V, f
<1>16. /\ Consumed(a) = t[a] /\ Consumed(a)' = t[a] + 1
       /\ t[a] < n_tiles(a) /\ res'[a] = res[a]
  BY <1>1, <1>2 DEF Consumed, BInv, Control, Using
<1>17. UNCHANGED RowOf(a)!inputs
  BY <1>1, RowInputsKept
<1>18. t[a] + (IF pc[a] = "war" THEN 1 ELSE 0) < RowOf(a)!n_tiles
  BY <1>16, RowTiles DEF Consumed
<1>19. (t[a] + (IF pc[a] = "war" THEN 1 ELSE 0))' = t[a] + (IF pc[a] = "war" THEN 1 ELSE 0) + 1
  BY <1>16 DEF Consumed
<1>20. \E mNew \in {m[a]} \cup {RowOf(a)!s[jj] : jj \in RowOf(a)!TileKeys} :
         /\ RowOf(a)!IsMax(mNew, {m[a]} \cup {RowOf(a)!s[jj] : jj \in RowOf(a)!TileKeys})
         /\ LET alpha == RowOf(a)!rescale_alpha(m[a], mNew)
                q == [jj \in RowOf(a)!TileKeys |-> RowOf(a)!p_from_score(RowOf(a)!s[jj], mNew)]
            IN  /\ l'[a] = RowOf(a)!AddTerms(RowOf(a)!Scale(l[a], alpha), q)
                /\ acc'[a] = RowOf(a)!AddTerms(RowOf(a)!Scale(acc[a], alpha), q)
         /\ m'[a] = mNew
  <2>1. numbers = {m[a]} \cup {RowOf(a)!s[jj] : jj \in RowOf(a)!TileKeys}
    BY <1>15 DEF numbers
  <2>2. p = [jj \in RowOf(a)!TileKeys |-> RowOf(a)!p_from_score(RowOf(a)!s[jj], y)]
    BY <1>15, RowNumbers
  <2>. HIDE DEF p, sc
  <2>3. /\ RowOf(a)!IsMax(y, numbers)
        /\ l'[a] = RowOf(a)!AddTerms(RowOf(a)!Scale(l[a], RowOf(a)!rescale_alpha(m[a], y)), p)
        /\ acc'[a] = RowOf(a)!AddTerms(RowOf(a)!Scale(acc[a], RowOf(a)!rescale_alpha(m[a], y)), p)
    BY <1>11, <1>14, RowNumbers
  <2>. QED
    BY ONLY <1>11, <2>1, <2>2, <2>3 DEF y
<1>. QED
  BY ONLY <1>16, <1>17, <1>18, <1>19, <1>20 DEF RowOf!Tile, RowOf!inputs

\* The epilogue of a thread is that of its row.
LEMMA StageIsEpilogue ==
  ASSUME BInv, Typed, Regs, ResultHeld, NEW a \in Thread, Stage(a)
  PROVE  RowOf(a)!Epilogue
<1>1. /\ inputs' = inputs /\ UNCHANGED <<t, m, l, acc>> /\ pc[a] = "stage"
      /\ pc'[a] = "staged" /\ res'[a] = Finished(a)
  BY DEF Stage, Go, BInv, Control, Regs, Shapes
<1>2. res[a] = NotYet
  BY <1>1 DEF ResultHeld, Past
<1>3. t[a] = n_tiles(a)
  <2>1. t[a] \in Nat /\ n_tiles(a) \in Int /\ n_tiles(a) <= t[a] /\ t[a] <= n_tiles(a)
    BY <1>1, TileCountInt DEF BInv, Control, Typed, Regs, LoopDone, Staging
  <2>. QED
    BY <2>1
<1>4. t[a] + (IF pc[a] = "war" THEN 1 ELSE 0) = RowOf(a)!n_tiles
  <2>1. t[a] + (IF pc[a] = "war" THEN 1 ELSE 0) = t[a]
    BY <1>1 DEF BInv, Control
  <2>. QED
    BY <1>3, <2>1, RowTiles
<1>5. (t[a] + (IF pc[a] = "war" THEN 1 ELSE 0))' = t[a] + (IF pc[a] = "war" THEN 1 ELSE 0)
  BY <1>1
<1>6. UNCHANGED RowOf(a)!inputs
  BY <1>1, RowInputsKept
<1>7. res'[a] = [o   |-> RowOf(a)!NormalisedRow(acc[a], l[a]),
                 lse |-> RowOf(a)!finalize_lse(m[a], l[a])]
  BY <1>1, RowNumbers DEF Finished
<1>. QED
  BY <1>1, <1>2, <1>4, <1>5, <1>6, <1>7 DEF RowOf!Epilogue

\* Each step of the block is one step of the recurrence for the thread that
\* computes, and none for the others.
LEMMA StepRows ==
  ASSUME BlockInv, ResultHeld, [Next]_vars, NEW a \in Thread
  PROVE  UNCHANGED RowOf(a)!vars \/ RowOf(a)!Next
<1>. USE DEF BlockInv
<1>1. ASSUME NEW tid \in Thread, LoadQ(tid) \/ LoadTile(tid) \/ Scores(tid) \/ Store(tid)
      PROVE  UNCHANGED RowOf(a)!vars
  <2>1. /\ inputs' = inputs /\ UNCHANGED <<t, m, l, acc, res>>
        /\ pc'[a] = "war" <=> pc[a] = "war"
    BY <1>1 DEF LoadQ, LoadTile, Scores, Store, registers, Go, BInv, Control
  <2>. QED
    BY <2>1, RowKept DEF Consumed
<1>2. ASSUME NEW tid \in Thread, Update(tid) PROVE UNCHANGED RowOf(a)!vars \/ RowOf(a)!Next
  <2>1. CASE a = tid
    BY <1>2, <2>1, UpdateIsTile DEF RowOf!Next
  <2>2. CASE a # tid
    <3>1. /\ inputs' = inputs /\ t' = t /\ res' = res /\ pc'[a] = pc[a]
          /\ m'[a] = m[a] /\ l'[a] = l[a] /\ acc'[a] = acc[a]
      BY <1>2, <2>2 DEF Update, Consume, Go, BInv, Control, Typed, Regs, Shapes
    <3>. QED
      BY <3>1, RowKept DEF Consumed
  <2>. QED
    BY <2>1, <2>2
<1>3. ASSUME NEW tid \in Thread, Stage(tid) PROVE UNCHANGED RowOf(a)!vars \/ RowOf(a)!Next
  <2>1. CASE a = tid
    BY <1>3, <2>1, StageIsEpilogue DEF RowOf!Next
  <2>2. CASE a # tid
    <3>1. /\ inputs' = inputs /\ UNCHANGED <<t, m, l, acc>> /\ pc'[a] = pc[a] /\ res'[a] = res[a]
      BY <1>3, <2>2 DEF Stage, Go, BInv, Control, Regs, Shapes
    <3>. QED
      BY <3>1, RowKept DEF Consumed
  <2>. QED
    BY <2>1, <2>2
<1>4. ASSUME Sync PROVE UNCHANGED RowOf(a)!vars
  <2>1. /\ inputs' = inputs /\ UNCHANGED <<m, l, acc, res>> /\ pc[a] \in BarrierAt
        /\ t'[a] = IF pc[a] = "war" THEN t[a] + 1 ELSE t[a]
        /\ pc'[a] # "war" /\ t[a] \in Nat
    BY <1>4 DEF Sync, registers, BarrierAt, BInv, Control
  <2>2. Consumed(a)' = Consumed(a)
    BY <2>1 DEF Consumed
  <2>. QED
    BY <2>1, <2>2, RowKept
<1>5. ASSUME UNCHANGED vars PROVE UNCHANGED RowOf(a)!vars
  BY <1>5, RowKept DEF vars, registers, Consumed
<1>. QED
  BY <1>1, <1>2, <1>3, <1>4, <1>5 DEF Next, Step, Retired

\* In every run of the block, each thread runs the row recurrence of
\* RowSoftmax on its row, tile by tile, whatever the others do meanwhile:
\* also a thread whose row is past N, on a zero row.
THEOREM RowsRunRecurrence == Spec => RowsAreRowSoftmax
<1>1. Init => \A tid \in Thread : RowOf(tid)!Start
  BY RowNumbers DEF Init, RowOf!Start
<1>2. BlockInv /\ ResultHeld /\ [Next]_vars
        => [\A tid \in Thread : UNCHANGED RowOf(tid)!vars \/ RowOf(tid)!Next]_vars
  BY StepRows
<1>3. BlockInv /\ ResultHeld /\ [Next]_vars => ResultHeld'
  BY StepResult DEF BlockInv
<1>4. Spec => []ResultHeld
  BY InitResult, <1>3, OutputInvariant, PTL DEF Spec
<1>. QED
  BY <1>1, <1>2, <1>4, OutputInvariant, PTL DEF Spec, RowsAreRowSoftmax

===============================================================================
