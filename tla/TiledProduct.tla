------------------------------ MODULE TiledProduct ------------------------------
(***************************************************************************)
(* One thread block of the tiled products of stage 2, fa_s2_qk_tiled and   *)
(* fa_s2_pv_tiled (src/src/stage2_tiled.cu): the threads stage a chunk of  *)
(* both operands through shared memory, accumulate it into their register  *)
(* tiles between two block barriers, and store the tile at the end.  What  *)
(* is stored is kept as the products it adds up, in order.                 *)
(***************************************************************************)
EXTENDS StageBlock, Sequences

CONSTANTS
  D,           (* head dimension                                          *)
  Edge,        (* rows and columns of the output tile (64)                *)
  Depth,       (* the chunk of the reduction held in shared memory (16)   *)
  Vec,         (* a vector access, and the edge of a register tile (4)    *)
  Kernels,     (* the kernels considered: qk, pv                          *)
  Undef        (* uninitialised shared memory                             *)

PerEdge    == Edge \div Vec
PerDepth   == Depth \div Vec
TileThread == 0 .. PerEdge * PerEdge - 1

\* The static assertions of the file, and N % 32 = 0 for its tiles of 64.
ASSUME TileAssumption ==
  /\ {N, D, Edge, Depth, Vec} \subseteq Nat \ {0}
  /\ Edge % Vec = 0 /\ Depth % Vec = 0
  /\ Edge * Depth = PerEdge * PerEdge * Vec
  /\ 2 * N % Edge = 0 /\ N % Vec = 0 /\ N % Depth = 0
  /\ D % Edge = 0 /\ D % Depth = 0
  /\ Kernels \subseteq {"qk", "pv"}

VARIABLES
  kernel, causal, i0, c0,  (* the block: its first row and column         *)
  k0, acc,                 (* per thread: the chunk, and its register tile *)
  A, B,                    (* shared memory: Qs and Ks, or Ps and Vs      *)
  out                      (* global memory: this head of S or O, and     *)
                           (* what lies behind it                         *)

block       == <<kernel, causal, i0, c0>>
productVars == <<kernel, causal, i0, c0, pc, k0, acc, A, B, out>>

ty(tid) == tid \div PerEdge
tx(tid) == tid % PerEdge

Width  == IF kernel = "qk" THEN N ELSE D        \* columns of the output
Length == IF kernel = "qk" THEN D ELSE N        \* terms of each sum
Tiles(n) == (n + Edge - 1) \div Edge
Addr(i, j) == i * Width + j
Register == (0 .. Vec - 1) \X (0 .. Vec - 1)

\* An element of a chunk: row and depth of the left operand, depth and column
\* of the right one.  Rows past N are zeroed; V has none, since N is a
\* multiple of the chunk.
Left(k, r, x)  == IF i0 + r < N THEN <<i0 + r, k + x>> ELSE Zero
Right(k, x, c) == IF kernel = "pv" \/ c0 + c < N THEN <<k + x, c0 + c>> ELSE Zero

\* The vectors a thread stages.
AMine(tid) == {<<tid \div PerDepth, (tid % PerDepth) * Vec + y>> : y \in 0 .. Vec - 1}
BMine(tid) == IF kernel = "qk"
              THEN {<<(tid % PerDepth) * Vec + y, tid \div PerDepth>> : y \in 0 .. Vec - 1}
              ELSE {<<tid \div PerEdge, (tid % PerEdge) * Vec + y>> : y \in 0 .. Vec - 1}

Masked_ownTile(tid) ==  \* MUTANT: decided by each thread for its register tile
  kernel = "qk" /\ causal /\ c0 + tx(tid) * Vec > i0 + ty(tid) * Vec + Vec - 1

\* The whole tile lies above the diagonal.
Masked(tid) == kernel = "qk" /\ causal /\ c0 > i0 + Edge - 1

More(k) == k < Length

ProductInit ==
  /\ kernel \in Kernels
  /\ causal \in (IF kernel = "qk" THEN BOOLEAN ELSE {FALSE})
  /\ i0 \in {x * Edge : x \in 0 .. Tiles(N) - 1}
  /\ c0 \in {x * Edge : x \in 0 .. Tiles(Width) - 1}
  /\ pc = [tid \in TileThread |-> IF Masked(tid) THEN "masked" ELSE "load"]
  /\ k0 = [tid \in TileThread |-> 0]
  /\ acc = [tid \in TileThread |-> [x \in Register |-> <<>>]]
  /\ A = [x \in (0 .. Edge - 1) \X (0 .. Depth - 1) |-> Undef]
  /\ B = [x \in (0 .. Depth - 1) \X (0 .. Edge - 1) |-> Undef]
  /\ out = [a \in 0 .. Addr(Tiles(N) * Edge, 0) - 1 |-> Unwritten]

\* The elements of its register tile that a thread stores: rows past N are
\* left out, and so are columns past N, which are whole vectors.
Stored(tid) ==
  {x \in Register : /\ i0 + ty(tid) * Vec + x[1] < N
                    /\ kernel = "pv" \/ c0 + tx(tid) * Vec < N}
AddrOf(tid, x) == Addr(i0 + ty(tid) * Vec + x[1], c0 + tx(tid) * Vec + x[2])
StoreTile(tid, tile) ==
  out' = [a \in DOMAIN out |->
            IF \E x \in Stored(tid) : AddrOf(tid, x) = a
            THEN tile[CHOOSE x \in Stored(tid) : AddrOf(tid, x) = a] ELSE out[a]]

\* A masked tile still defines its part of S.
StoreMasked(tid) ==
  /\ pc[tid] = "masked"
  /\ StoreTile(tid, [x \in Register |-> NegInf])
  /\ Go(tid, "done")
  /\ UNCHANGED <<block, k0, acc, A, B>>

\* One vector of each operand.
Load(tid) ==
  /\ pc[tid] = "load"
  /\ A' = [x \in DOMAIN A |-> IF x \in AMine(tid) THEN Left(k0[tid], x[1], x[2]) ELSE A[x]]
  /\ B' = [x \in DOMAIN B |-> IF x \in BMine(tid) THEN Right(k0[tid], x[1], x[2]) ELSE B[x]]
  /\ Go(tid, "loaded")
  /\ UNCHANGED <<block, k0, acc, out>>

AfterProducts_noBarrier(k) == IF More(k) THEN "load" ELSE "added"  \* MUTANT: no WAR barrier

\* Where a thread goes when it has added the chunk before k.
AfterProducts(k) == "added"

\* The chunk's products, in the order of the depth.
AddProducts(tid) ==
  /\ pc[tid] = "add"
  /\ acc' = [acc EXCEPT ![tid] = [x \in Register |-> @[x] \o
              [z \in 1 .. Depth |-> <<A[<<ty(tid) * Vec + x[1], z - 1>>],
                                      B[<<z - 1, tx(tid) * Vec + x[2]>>]>>]]]
  /\ k0' = [k0 EXCEPT ![tid] = @ + Depth]
  /\ Go(tid, AfterProducts(k0[tid] + Depth))
  /\ UNCHANGED <<block, A, B, out>>

\* The mask of an element, applied as it is stored.
AboveDiagonal(tid, x) ==
  kernel = "qk" /\ causal /\ c0 + tx(tid) * Vec + x[2] > i0 + ty(tid) * Vec + x[1]

Store(tid) ==
  /\ pc[tid] = "store"
  /\ StoreTile(tid, [x \in Register |-> IF AboveDiagonal(tid, x) THEN NegInf ELSE acc[tid][x]])
  /\ Go(tid, "done")
  /\ UNCHANGED <<block, k0, acc, A, B>>

\* The two barriers of the loop.
LoopBarrier ==
  /\ \A tid \in TileThread : pc[tid] \in {"loaded", "added"}
  /\ pc' = [tid \in TileThread |-> IF pc[tid] = "loaded" THEN "add"
                                   ELSE IF More(k0[tid]) THEN "load" ELSE "store"]
  /\ UNCHANGED <<block, k0, acc, A, B, out>>

\* The block has retired.
TileDone == (\A tid \in TileThread : pc[tid] = "done") /\ UNCHANGED productVars

TileStep(tid) == StoreMasked(tid) \/ Load(tid) \/ AddProducts(tid) \/ Store(tid)
ProductNext == (\E tid \in TileThread : TileStep(tid)) \/ LoopBarrier \/ TileDone
ProductSpec == ProductInit /\ [][ProductNext]_productVars

\* Resident threads are never starved, and full barriers complete.
ProductFairness == /\ \A tid \in TileThread : WF_productVars(TileStep(tid))
                   /\ WF_productVars(LoopBarrier)
FairProduct == ProductSpec /\ ProductFairness

-------------------------------------------------------------------------------
\* The part of the output that is the block's to write.
OwnRow    == {i \in i0 .. i0 + Edge - 1 : i < N}
OwnColumn == {j \in c0 .. c0 + Edge - 1 : j < Width}
Product(i, j) ==
  IF kernel = "qk" /\ causal /\ j > i THEN NegInf
  ELSE [z \in 1 .. Length |-> <<<<i, z - 1>>, <<z - 1, j>>>>]

\* What is stored is the whole product of its row and column, added in the
\* order of the depth whatever the interleaving (two runs agree bit for bit),
\* with the mask above the diagonal; and a partial tile writes nothing that
\* belongs to another block, row or head.
ProductExact ==
  \A a \in DOMAIN out :
    \/ out[a] = Unwritten
    \/ \E i \in OwnRow, j \in OwnColumn : a = Addr(i, j) /\ out[a] = Product(i, j)

\* Every block finishes and has defined its whole tile, masked or not.
TileFinishes ==
  <>( /\ \A tid \in TileThread : pc[tid] = "done"
      /\ \A i \in OwnRow, j \in OwnColumn : out[Addr(i, j)] # Unwritten )
===============================================================================
