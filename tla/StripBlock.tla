------------------------------ MODULE StripBlock ------------------------------
(***************************************************************************)
(* One thread block of the tensor-core kernels fa_s4_wmma and fa_s5_tuned  *)
(* (attention_block in src/src/stage4_wmma.cu and stage5_tuned.cu; with    *)
(* prefetch off the second is the first).  A warp owns a strip of query    *)
(* rows, two lanes to a row; block barriers order the K/V tiles, and       *)
(* inside a warp only __syncwarp orders the lanes, which pass S, P and O   *)
(* to each other through shared memory because no lane knows which         *)
(* elements of a fragment it holds.                                        *)
(***************************************************************************)
EXTENDS TileMemory

CONSTANTS
  N,             (* sequence length                                       *)
  Threads,       (* lanes per block                                       *)
  StripChoices,  (* the query rows per warp a kernel may be built with    *)
  TileSizes,     (* the K/V tile heights a launch may choose              *)
  Prefetch,      (* whether it may prefetch: S4 has {FALSE}               *)
  ScoreChoices,  (* the score matrices q_i . k_j considered               *)
  RowPad,        (* cells of padding behind a row of Q and of P           *)
  Holder,        (* Holder[n][x][c]: with n rows to a warp, the lane that *)
                 (* holds element c of row x of an accumulator, opaque to *)
                 (* the program                                           *)
  Unwritten      (* what o and lse hold before the launch                 *)

Thread == 0 .. Threads - 1
Br     == Threads \div 2   \* query rows per block

ASSUME StripAssumption ==
  /\ N \in Nat \ {0} /\ Threads \in Nat \ {0}
  /\ Dim \in Nat \ {0} /\ Dim % 2 = 0 /\ RowPad \in Nat
  /\ StripChoices \subseteq {n \in 1 .. Br : Threads % (2 * n) = 0}
  /\ TileSizes \subseteq {b \in 1 .. Dim : b % 2 = 0}   \* "P strip must fit in Qs"
  /\ Prefetch \subseteq BOOLEAN
  /\ ScoreChoices \subseteq [0 .. N - 1 -> [0 .. N - 1 -> Int]]
  /\ \A n \in StripChoices : \A x \in 0 .. n - 1, c \in 0 .. Dim - 1 :
       Holder[n][x][c] \in 0 .. 2 * n - 1

\* Uninitialised memory is not taken for a cell of S, P or O.
ASSUME CellAssumption ==
  /\ Undef \notin [k : Int \cup {Pad}, s : Int] \cup [k : Int \cup {Pad}, p : Int \cup {Zero}]
  /\ \A keys \in SUBSET (0 .. N - 1) :
       Undef \notin [o : [keys -> Int]] \cup [y : [keys -> [keys -> Int]]]

VARIABLES
  strip_rows,                       (* the kernel's query rows per warp   *)
  i0, causal, bc, prefetch, score,  (* the launch and its block           *)
  pc, t,                            (* per lane                           *)
  qf,       (* per lane: the rows of its strip as its Q fragments hold    *)
            (* them                                                       *)
  stage,    (* per lane: its share of the next tile, in registers         *)
  s,        (* per lane: its half row of S, then of P                     *)
  m, l,     (* per lane: running state of its row                         *)
  alpha,    (* per lane: the last rescale factor, and whether O is free   *)
            (* of it                                                      *)
  oacc,     (* per lane: the elements of O it holds                       *)
  Qs, Ks, Vs, Ss,  (* shared memory; P lives in Qs                        *)
  o, lse           (* global memory                                       *)

inputs    == <<strip_rows, i0, causal, bc, prefetch, score>>
registers == <<qf, stage, s, m, l, alpha, oacc>>
shared    == <<Qs, Ks, Vs, Ss>>
outputs   == <<o, lse>>
vars      == <<inputs, pc, t, registers, shared, outputs>>

Key       == 0 .. N - 1
GlobalRow == 0 .. N + Br - 1   \* behind this head's rows: the next head's
Elem      == 0 .. Dim - 1
Slot      == 0 .. bc - 1

Lanes          == 2 * strip_rows
Warp           == 0 .. Threads \div Lanes - 1
warp(tid)      == tid \div Lanes
LanesOf(w)     == {tid \in Thread : warp(tid) = w}
r(tid)         == tid \div 2          \* the lane's row in the block
half(tid)      == tid % 2
partner(tid)   == IF half(tid) = 0 THEN tid + 1 ELSE tid - 1
i_of(tid)      == i0 + r(tid)
row_valid(tid) == i_of(tid) < N
rows_q         == Min2(Br, N - i0)

\* Keys past the block's last row are invisible to all of its rows.
kv_end  == IF causal THEN Min2(i0 + Br, N) ELSE N
n_tiles == (kv_end + bc - 1) \div bc

j0(n)      == n * bc
rows_kv(n) == Min2(bc, N - j0(n))

\* The strip of a warp, the elements of an accumulator a lane holds, and its
\* half rows of S and P and of O.
StripOf(w)      == w * strip_rows .. (w + 1) * strip_rows - 1
Held(tid, cols) == {e \in StripOf(warp(tid)) \X cols :
                      Holder[strip_rows][e[1] % strip_rows][e[2]] = tid % Lanes}
HalfOf(tid, n)  == {c \in 0 .. n - 1 : c \div (n \div 2) = half(tid)}

QAddr(x, d) == x * (Dim + RowPad) + d
PAddr(x, c) == x * (bc + RowPad) + c

Go(tid, to) == pc' = [pc EXCEPT ![tid] = to]

Init ==
  /\ strip_rows \in StripChoices
  /\ causal \in BOOLEAN
  /\ bc \in TileSizes
  /\ prefetch \in Prefetch
  /\ i0 \in {b * Br : b \in 0 .. (N - 1) \div Br}
  /\ score \in ScoreChoices
  /\ pc = [tid \in Thread |-> "loadQ"]
  /\ t = [tid \in Thread |-> 0]
  /\ qf = [tid \in Thread |-> <<>>]
  /\ stage = [tid \in Thread |-> <<>>]
  /\ s = [tid \in Thread |-> <<>>]
  /\ m = [tid \in Thread |-> NegInf]
  /\ l = [tid \in Thread |-> EmptySum]
  /\ alpha = [tid \in Thread |-> [by |-> Zero, trivial |-> TRUE]]
  /\ oacc = [tid \in Thread |-> [e \in Held(tid, Elem) |-> EmptySum]]
  /\ Qs = [a \in 0 .. Br * (Dim + RowPad) - 1 |-> Undef]
  /\ Ks = [e \in 0 .. bc * Dim - 1 |-> Undef]
  /\ Vs = [e \in 0 .. bc * Dim - 1 |-> Undef]
  /\ Ss = [e \in (0 .. Br - 1) \X Elem |-> Undef]
  /\ o = [x \in GlobalRow |-> [d \in Elem |-> Unwritten]]
  /\ lse = [x \in GlobalRow |-> Unwritten]

-------------------------------------------------------------------------------
(* Loads                                                                   *)

\* The lane's share of the Q tile.
LoadQ(tid) ==
  /\ pc[tid] = "loadQ"
  /\ LET cell == [e \in SliceOf(tid, Threads, Br * Dim) |->
                    [q |-> TileCell(e, i0, rows_q)]]
     IN  Qs' = [a \in DOMAIN Qs |->
                  IF \E e \in DOMAIN cell : a = QAddr(e \div Dim, e % Dim)
                    THEN cell[CHOOSE e \in DOMAIN cell : a = QAddr(e \div Dim, e % Dim)]
                    ELSE Qs[a]]
  /\ Go(tid, "qTile")
  /\ UNCHANGED <<inputs, t, registers, Ks, Vs, Ss, outputs>>

\* The Q fragments: what the lane finds in each row of its warp's strip.
LoadFragments(tid) ==
  /\ pc[tid] = "fragments"
  /\ qf' = [qf EXCEPT ![tid] = [x \in StripOf(warp(tid)) |->
              IF \A d \in Elem : Qs[QAddr(x, d)] = Qs[QAddr(x, 0)]
                THEN Qs[QAddr(x, 0)] ELSE Undef]]
  /\ Go(tid, "load")
  /\ UNCHANGED <<inputs, t, stage, s, m, l, alpha, oacc, shared, outputs>>

\* The lane's share of tile n: global to registers, and registers to memory.
Fetched(tid, n, rows) == [e \in SliceOf(tid, Threads, bc * Dim) |-> TileCell(e, j0(n), rows)]
StoredIn(buf, regs) == [e \in DOMAIN buf |-> IF e \in DOMAIN regs THEN regs[e] ELSE buf[e]]

\* The direct load of tile t: every tile without prefetch, the first with it.
LoadTile(tid) ==
  /\ pc[tid] = "load"
  /\ Ks' = StoredIn(Ks, Fetched(tid, t[tid], rows_kv(t[tid])))
  /\ Vs' = StoredIn(Vs, Fetched(tid, t[tid], rows_kv(t[tid])))
  /\ Go(tid, "raw")
  /\ UNCHANGED <<inputs, t, registers, Qs, Ss, outputs>>

More(tid, n)     == n < n_tiles
has_next(tid)    == prefetch /\ More(tid, t[tid] + 1)
LoopTop(tid, n)  == IF ~More(tid, n) THEN "stageO" ELSE IF prefetch THEN "raw" ELSE "load"

NextRows_stale(tid) == rows_kv(t[tid])  \* MUTANT: bounded by the present tile's rows

\* The rows of the next tile that exist.
NextRows(tid) == rows_kv(t[tid] + 1)

\* Right after the RAW barrier: the next tile's loads into registers.
Fetch(tid) ==
  /\ pc[tid] = "fetch"
  /\ stage' = [stage EXCEPT ![tid] =
                 IF has_next(tid) THEN Fetched(tid, t[tid] + 1, NextRows(tid)) ELSE <<>>]
  /\ Go(tid, "mma")
  /\ UNCHANGED <<inputs, t, qf, s, m, l, alpha, oacc, shared, outputs>>

\* After the WAR barrier: the staged tile to shared memory, then the loop's
\* condition for the next tile.
StageTile(tid) ==
  /\ pc[tid] = "stageTile"
  /\ Ks' = IF has_next(tid) THEN StoredIn(Ks, stage[tid]) ELSE Ks
  /\ Vs' = IF has_next(tid) THEN StoredIn(Vs, stage[tid]) ELSE Vs
  /\ t' = [t EXCEPT ![tid] = @ + 1]
  /\ Go(tid, LoopTop(tid, t'[tid]))
  /\ UNCHANGED <<inputs, registers, Qs, Ss, outputs>>

-------------------------------------------------------------------------------
(* One tile of a strip                                                     *)

Dot(cell, k) == IF cell = Undef \/ k = Undef THEN Undef
                ELSE IF cell.q = Pad \/ k = Pad THEN 0
                ELSE score[cell.q][k]

\* store_matrix_sync: the elements the lane holds go to their place.
Scattered(tid, val(_), cols) ==
  [e \in DOMAIN Ss |-> IF e \in Held(tid, cols) THEN val(e) ELSE Ss[e]]

\* S = Q K^T into the strip, raw.
StoreS(tid) ==
  /\ pc[tid] = "mma"
  /\ LET key == [j \in Slot |-> RowAt(Ks, j)]
         cell(e) == [k |-> key[e[2]], s |-> Dot(qf[tid][e[1]], key[e[2]])]
     IN  Ss' = Scattered(tid, cell, Slot)
  /\ Go(tid, "sync_S")
  /\ UNCHANGED <<inputs, t, registers, Qs, Ks, Vs, outputs>>

NeedsMask(n)      == rows_kv(n) < bc \/ (causal /\ j0(n) + bc - 1 > i0)

Masked(tid, n, c) == LET jj == j0(n) + c
                     IN  jj >= N \/ (causal /\ jj > i_of(tid))

\* The lane's half row of S, masked.
ReadS(tid) ==
  /\ pc[tid] = "readS"
  /\ s' = [s EXCEPT ![tid] = [c \in HalfOf(tid, bc) |->
             LET cell == Ss[<<r(tid), c>>]
             IN  IF cell = Undef \/ "s" \notin DOMAIN cell THEN [k |-> Undef, s |-> Undef]
                 ELSE IF NeedsMask(t[tid]) /\ Masked(tid, t[tid], c)
                   THEN [cell EXCEPT !.s = NegInf] ELSE cell]]
  /\ Go(tid, "shfl")
  /\ UNCHANGED <<inputs, t, qf, stage, m, l, alpha, oacc, shared, outputs>>

\* The two halves of a row, by column.
RowOfS(tid) == [c \in Slot |-> s[IF c \in HalfOf(tid, bc) THEN tid ELSE partner(tid)][c]]

NewMaximum(tid) == CHOOSE x \in NewMax(m[tid], [c \in Slot |-> RowOfS(tid)[c].s]) : TRUE

\* __shfl_xor_sync of the maximum and of the partial sum: between them only
\* registers change, so the exchange is one step of the whole warp.
Softmax(w) ==
  /\ \A tid \in LanesOf(w) : pc[tid] = "shfl"
  /\ \E mNew \in {[tid \in LanesOf(w) |-> NewMaximum(tid)]} :
       LET key(tid) == [c \in Slot |-> RowOfS(tid)[c].k]
           p(tid)   == [c \in Slot |-> SlotWeight(RowOfS(tid)[c].s, mNew[tid])]
           a(tid)   == rescale_alpha(m[tid], mNew[tid])
       IN  /\ l' = [tid \in Thread |-> IF tid \notin LanesOf(w) THEN l[tid]
                      ELSE AddTerms(Scale(l[tid], a(tid)), RowTerms(key(tid), p(tid)))]
           /\ s' = [tid \in Thread |-> IF tid \notin LanesOf(w) THEN s[tid]
                      ELSE [c \in HalfOf(tid, bc) |-> [k |-> key(tid)[c], p |-> p(tid)[c]]]]
           /\ alpha' = [tid \in Thread |-> IF tid \notin LanesOf(w) THEN alpha[tid]
                      ELSE [by |-> a(tid), trivial |-> a(tid) = 0 \/ m[tid] = NegInf]]
           /\ m' = [tid \in Thread |-> IF tid \notin LanesOf(w) THEN m[tid] ELSE mNew[tid]]
  /\ pc' = [tid \in Thread |-> IF tid \in LanesOf(w) THEN "storeP" ELSE pc[tid]]
  /\ UNCHANGED <<inputs, t, qf, stage, oacc, shared, outputs>>

\* The lane's half row of P, into what was the Q tile.
StoreP(tid) ==
  /\ pc[tid] = "storeP"
  /\ Qs' = [a \in DOMAIN Qs |->
              IF \E c \in HalfOf(tid, bc) : a = PAddr(r(tid), c)
                THEN s[tid][CHOOSE c \in HalfOf(tid, bc) : a = PAddr(r(tid), c)] ELSE Qs[a]]
  /\ s' = [s EXCEPT ![tid] = <<>>]
  /\ Go(tid, "vote")
  /\ UNCHANGED <<inputs, t, qf, stage, m, l, alpha, oacc, Ks, Vs, Ss, outputs>>

\* MUTANT: one row that needs no rescaling excuses the warp.
SkipRescale_any(w) == \E tid \in LanesOf(w) : alpha[tid].trivial

SkipRescale(w) == \A tid \in LanesOf(w) : alpha[tid].trivial

\* MUTANT: every lane decides for itself.
Vote_perLane(w) ==
  /\ \A tid \in LanesOf(w) : pc[tid] = "vote"
  /\ pc' = [tid \in Thread |-> IF tid \notin LanesOf(w) THEN pc[tid]
              ELSE IF alpha[tid].trivial THEN "sync_P" ELSE "sync_vote"]
  /\ UNCHANGED <<inputs, t, registers, shared, outputs>>

\* __all_sync: the warp rescales O, through the strip, or skips it.
Vote(w) ==
  /\ \A tid \in LanesOf(w) : pc[tid] = "vote"
  /\ pc' = [tid \in Thread |-> IF tid \notin LanesOf(w) THEN pc[tid]
              ELSE IF SkipRescale(w) THEN "sync_P" ELSE "sync_vote"]
  /\ UNCHANGED <<inputs, t, registers, shared, outputs>>

\* store_matrix_sync of O: for the rescale, and in the epilogue.
StoreO(tid) ==
  /\ pc[tid] \in {"storeO", "stageO"}
  /\ LET cell(e) == [o |-> oacc[tid][e]]
     IN  Ss' = Scattered(tid, cell, Elem)
  /\ Go(tid, IF pc[tid] = "storeO" THEN "sync_O" ELSE "sync_stage")
  /\ UNCHANGED <<inputs, t, registers, Qs, Ks, Vs, outputs>>

\* What the lane finds in its half row of the strip, and writes back.
OCell(x, d) == IF Ss[<<x, d>>] = Undef \/ "o" \notin DOMAIN Ss[<<x, d>>] THEN Poisoned ELSE Ss[<<x, d>>].o
HalfRowO(tid, val(_)) ==
  [e \in DOMAIN Ss |-> IF e[1] = r(tid) /\ e[2] \in HalfOf(tid, Dim)
                         THEN val(OCell(e[1], e[2])) ELSE Ss[e]]

AfterScale_noSync == "loadO"  \* MUTANT: no __syncwarp before O is read back

\* The rescale ends at a __syncwarp.
AfterScale == "sync_scaled"

ScaleO(tid) ==
  /\ pc[tid] = "scaleO"
  /\ LET scaled(x) == [o |-> Scale(x, alpha[tid].by)]
     IN  Ss' = HalfRowO(tid, scaled)
  /\ Go(tid, AfterScale)
  /\ UNCHANGED <<inputs, t, registers, Qs, Ks, Vs, outputs>>

\* load_matrix_sync of O.
LoadO(tid) ==
  /\ pc[tid] = "loadO"
  /\ oacc' = [oacc EXCEPT ![tid] = [e \in Held(tid, Elem) |-> OCell(e[1], e[2])]]
  /\ Go(tid, "sync_P")
  /\ UNCHANGED <<inputs, t, qf, stage, s, m, l, alpha, shared, outputs>>

PCell(x, c) == LET cell == Qs[PAddr(x, c)]
               IN  IF cell = Undef \/ "p" \notin DOMAIN cell THEN [k |-> Undef, p |-> NaN] ELSE cell

\* O += P V, for the elements the lane holds.
AddPV(tid) ==
  /\ pc[tid] = "mmaPV"
  /\ oacc' = [oacc EXCEPT ![tid] = [e \in Held(tid, Elem) |->
       LET vkey == [c \in Slot |-> Vs[c * Dim + e[2]]]
           p    == [c \in Slot |-> PCell(e[1], c).p]
       IN  AddTerms(@[e], OutputTerms(vkey, p))]]
  /\ Go(tid, "war")
  /\ UNCHANGED <<inputs, t, qf, stage, s, m, l, alpha, shared, outputs>>

-------------------------------------------------------------------------------
(* Epilogue                                                                *)

\* One lane of every row that exists stores its log-sum-exp.
StoresLse(tid) == half(tid) = 0 /\ row_valid(tid)

\* The lane's half row of O, normalised in place; the row's log-sum-exp.
Normalise(tid) ==
  /\ pc[tid] = "normalise"
  /\ LET done(x) == [y |-> NormalisedRow(x, l[tid])]
     IN  Ss' = HalfRowO(tid, done)
  /\ lse' = IF StoresLse(tid)
              THEN [lse EXCEPT ![i_of(tid)] = finalize_lse(m[tid], l[tid])] ELSE lse
  /\ Go(tid, "staged")
  /\ UNCHANGED <<inputs, t, registers, Qs, Ks, Vs, o>>

\* The lane's share of the coalesced store.
Store(tid) ==
  /\ pc[tid] = "store"
  /\ o' = [x \in GlobalRow |-> [d \in Elem |->
             IF /\ x - i0 \in 0 .. rows_q - 1
                /\ (x - i0) * Dim + d \in SliceOf(tid, Threads, Br * Dim)
               THEN LET cell == Ss[<<x - i0, d>>]
                    IN  IF cell = Undef \/ "y" \notin DOMAIN cell THEN Undef ELSE cell.y
               ELSE o[x][d]]]
  /\ Go(tid, "done")
  /\ UNCHANGED <<inputs, t, registers, shared, lse>>

-------------------------------------------------------------------------------
(* Synchronisation and scheduling                                          *)

\* What a lane does after each block barrier, and after each warp barrier.
AfterBlock == [qTile |-> "fragments", raw |-> "fetch", war |-> "stageTile", staged |-> "store"]

AfterWarp ==
  [sync_S |-> "readS", sync_vote |-> "storeO", sync_O |-> "scaleO",
   sync_scaled |-> "loadO", sync_P |-> "mmaPV", sync_stage |-> "normalise"]

\* __syncthreads and __syncwarp: a barrier opens when every lane of the block,
\* or of the warp, waits at some call of it.
Syncthreads ==
  /\ \A tid \in Thread : pc[tid] \in DOMAIN AfterBlock
  /\ pc' = [tid \in Thread |-> AfterBlock[pc[tid]]]
  /\ UNCHANGED <<inputs, t, registers, shared, outputs>>
Syncwarp_validRows(w) ==  \* MUTANT: the lanes of the rows past N have returned
  /\ \A tid \in LanesOf(w) : pc[tid] \in DOMAIN AfterWarp /\ row_valid(tid)
  /\ pc' = [tid \in Thread |-> IF tid \in LanesOf(w) THEN AfterWarp[pc[tid]] ELSE pc[tid]]
  /\ UNCHANGED <<inputs, t, registers, shared, outputs>>
Syncwarp(w) ==
  /\ \A tid \in LanesOf(w) : pc[tid] \in DOMAIN AfterWarp
  /\ pc' = [tid \in Thread |-> IF tid \in LanesOf(w) THEN AfterWarp[pc[tid]] ELSE pc[tid]]
  /\ UNCHANGED <<inputs, t, registers, shared, outputs>>

\* The block has retired.
Retired == (\A tid \in Thread : pc[tid] = "done") /\ UNCHANGED vars

LaneStep(tid) ==
  \/ LoadQ(tid) \/ LoadFragments(tid) \/ LoadTile(tid) \/ Fetch(tid) \/ StageTile(tid)
  \/ StoreS(tid) \/ ReadS(tid) \/ StoreP(tid) \/ StoreO(tid) \/ ScaleO(tid) \/ LoadO(tid)
  \/ AddPV(tid) \/ Normalise(tid) \/ Store(tid)
WarpStep(w) == Softmax(w) \/ Vote(w) \/ Syncwarp(w)

Step == \/ \E tid \in Thread : LaneStep(tid)
        \/ \E w \in Warp : WarpStep(w)
        \/ Syncthreads
Next == Step \/ Retired
Spec == Init /\ [][Next]_vars

\* A resident block in which something can run runs on: some lane, or a full
\* barrier or exchange. Which one is left open.
Fairness == WF_vars(Step)
FairSpec == Spec /\ Fairness

-------------------------------------------------------------------------------
TileRow(n, c) == IF j0(n) + c < N THEN j0(n) + c ELSE Pad
QRow(x)       == [q |-> IF i0 + x < N THEN i0 + x ELSE Pad]

\* Whatever a lane reads from shared memory is what its program means it to
\* be: the Q rows in its fragments although P overwrites the Q tile at another
\* stride, this tile's K rows and V rows although the next tile is on its way,
\* its row's raw scores of this tile although O passes through the same strip,
\* and its strip's P of this tile relative to the row's present maximum.
OperandsFresh ==
  \A tid \in Thread :
    /\ pc[tid] \in {"fetch", "mma"} => qf[tid] = [x \in StripOf(warp(tid)) |-> QRow(x)]
    /\ pc[tid] = "mma" => \A c \in Slot : RowAt(Ks, c) = TileRow(t[tid], c)
    /\ pc[tid] = "readS" => \A c \in HalfOf(tid, bc) :
         Ss[<<r(tid), c>>] = [k |-> TileRow(t[tid], c), s |-> Dot(QRow(r(tid)), TileRow(t[tid], c))]
    /\ pc[tid] = "mmaPV" => \A c \in Slot :
         /\ RowAt(Vs, c) = TileRow(t[tid], c)
         /\ \A x \in StripOf(warp(tid)) :
              PCell(x, c) = [k |-> TileRow(t[tid], c),
                             p |-> p_from_score(IF Masked(2 * x, t[tid], c) THEN NegInf
                                                ELSE Dot(QRow(x), TileRow(t[tid], c)), m[2 * x])]

\* A row's keys in the first n tiles; rows past N see as many, with a zero q.
Seen(x, n)     == {k \in Key : k < j0(n) /\ (causal => k <= i0 + x)}
ScoreOf(x, k)  == Dot(QRow(x), k)

\* Between two tiles both lanes of a row carry the row's maximum and its sum,
\* and every element of O, whichever lane holds it, has one term per visible
\* key of the tiles consumed, relative to that maximum: the vote skips the
\* rescale only where it is the identity.
StateExact ==
  \A tid \in Thread :
    pc[tid] \in {"war", "stageTile", "load", "raw", "stageO"} =>
      LET n    == t[tid] + (IF pc[tid] \in {"war", "stageTile"} THEN 1 ELSE 0)
          sum(x) == [k \in Seen(x, n) |-> ScoreOf(x, k) - m[2 * x]]
      IN  /\ IF n = 0 THEN m[tid] = NegInf
             ELSE /\ m[tid] \in {ScoreOf(r(tid), k) : k \in Seen(r(tid), n)}
                  /\ \A k \in Seen(r(tid), n) : ScoreOf(r(tid), k) <= m[tid]
          /\ l[tid] = sum(r(tid))
          /\ \A e \in Held(tid, Elem) : oacc[tid][e] = sum(e[1])

\* Barriers and collectives are reached together: by the whole block at the
\* same call for the same tile, and by a whole warp whenever one of its lanes
\* is let through.
CollectivesUniform ==
  /\ (\A tid \in Thread : pc[tid] \in DOMAIN AfterBlock) =>
       \A a, b \in Thread : pc[a] = pc[b] /\ t[a] = t[b]
  /\ \A w \in Warp :
       (\A tid \in LanesOf(w) : pc[tid] \in DOMAIN AfterWarp) =>
          \A a, b \in LanesOf(w) : pc[a] = pc[b]

\* The block writes each element of its rows and their log-sum-exp once, with
\* the softmax over the visible keys, and nothing else.
Promise == INSTANCE Attention
  WITH Row <- GlobalRow, Col <- Elem, rows <- i0 .. i0 + rows_q - 1
ImplementsAttention == Promise!Spec

\* Every block finishes, with all of its rows written.
BlockCompletes == Promise!Complete
===============================================================================
