------------------------------ MODULE FusedBlock ------------------------------
(***************************************************************************)
(* One thread block of fa_s3_fused (src/src/stage3_fused.cu): Br threads,  *)
(* one query row each, that load Q once and every K/V tile together into   *)
(* shared memory, with two block barriers per tile and one before the      *)
(* store.  Between barriers the threads run in any order.                  *)
(***************************************************************************)
EXTENDS TileMemory

CONSTANTS
  N,             (* sequence length                                       *)
  Br,            (* threads, and query rows, per block                    *)
  TileSizes,     (* the K/V tile heights a launch may choose              *)
  ScoreChoices,  (* the score matrices q_i . k_j considered               *)
  NotYet,        (* a row's result before the epilogue                    *)
  Unwritten      (* what o and lse hold before the launch                 *)

ASSUME BlockAssumption ==
  /\ N \in Nat \ {0} /\ Br \in Nat \ {0} /\ Dim \in Nat \ {0}
  /\ TileSizes \subseteq Nat \ {0}
  /\ \A b \in TileSizes : (b * Dim) % Br = 0    \* "a whole number of loads"
  /\ ScoreChoices \subseteq [0 .. N - 1 -> [0 .. N - 1 -> Int]]

VARIABLES
  i0, causal, bc, score,  (* the launch and its block, never changed      *)
  pc, t,                  (* per thread: where it is, its tile            *)
  m, l, acc,              (* per thread: the running row state            *)
  s, kkey,                (* per thread: the tile's scores, and the K     *)
                          (* rows they were computed from (registers)     *)
  res,                    (* per thread: its finished row (registers)     *)
  Qs, Ks, Vs,             (* shared memory                                *)
  o, lse                  (* global memory                                *)

inputs    == <<i0, causal, bc, score>>
registers == <<m, l, acc, s, kkey, res>>
shared    == <<Qs, Ks, Vs>>
outputs   == <<o, lse>>
vars      == <<inputs, pc, t, registers, shared, outputs>>

Thread == 0 .. Br - 1
Key    == 0 .. N - 1
\* The rows behind this head's are the next head's first.
GlobalRow == 0 .. N + Br - 1
Elem      == 0 .. Dim - 1
BarrierAt == {"raw", "war", "staged"}

i_of(tid)      == i0 + tid
row_valid(tid) == i_of(tid) < N
rows_q         == Min2(Br, N - i0)

\* MUTANT: every thread stops at its own row's last tile.
n_tiles_ownRow(tid) == ((IF causal THEN Min2(i_of(tid) + 1, N) ELSE N) + bc - 1) \div bc

\* Keys past the block's last row are invisible to all of its rows.
kv_end       == IF causal THEN Min2(i0 + Br, N) ELSE N
n_tiles(tid) == (kv_end + bc - 1) \div bc

j0(tid)   == t[tid] * bc
Slot      == 0 .. bc - 1
rows_kv(tid) == Min2(bc, N - j0(tid))

Go(tid, to) == pc' = [pc EXCEPT ![tid] = to]

-------------------------------------------------------------------------------
Init ==
  /\ causal \in BOOLEAN
  /\ bc \in TileSizes
  /\ i0 \in {b * Br : b \in 0 .. (N - 1) \div Br}
  /\ score \in ScoreChoices
  /\ pc = [tid \in Thread |-> "loadQ"]
  /\ t = [tid \in Thread |-> 0]
  /\ m = [tid \in Thread |-> NegInf]
  /\ l = [tid \in Thread |-> EmptySum]
  /\ acc = [tid \in Thread |-> EmptySum]
  /\ s = [tid \in Thread |-> <<>>]
  /\ kkey = [tid \in Thread |-> <<>>]
  /\ res = [tid \in Thread |-> NotYet]
  /\ Qs = [e \in 0 .. Br * Dim - 1 |-> Undef]
  /\ Ks = [e \in 0 .. bc * Dim - 1 |-> Undef]
  /\ Vs = [e \in 0 .. bc * Dim - 1 |-> Undef]
  /\ o = [r \in GlobalRow |-> [d \in Elem |-> Unwritten]]
  /\ lse = [r \in GlobalRow |-> Unwritten]

\* The thread's share of the Q tile; the first barrier of the loop publishes
\* it to the others.
LoadQ(tid) ==
  /\ pc[tid] = "loadQ"
  /\ Qs' = [e \in DOMAIN Qs |->
              IF e \in SliceOf(tid, Br, Br * Dim)
                THEN [q |-> TileCell(e, i0, rows_q)] ELSE Qs[e]]
  /\ Go(tid, "load")
  /\ UNCHANGED <<inputs, t, registers, Ks, Vs, outputs>>

\* load_kv_tile for K and for V: the thread's share of tile t.
LoadTile(tid) ==
  /\ pc[tid] = "load"
  /\ LET mine == SliceOf(tid, Br, bc * Dim)
         copied(buf) == [e \in DOMAIN buf |->
                           IF e \in mine THEN TileCell(e, j0(tid), rows_kv(tid)) ELSE buf[e]]
     IN  Ks' = copied(Ks) /\ Vs' = copied(Vs)
  /\ Go(tid, "raw")
  /\ UNCHANGED <<inputs, t, registers, Qs, outputs>>

\* q_i . k_j of what the thread reads: 0 against zeroes.
Dot(cell, k) == IF cell = Undef \/ k = Undef THEN Undef
                ELSE IF cell.q = Pad \/ k = Pad THEN 0
                ELSE score[cell.q][k]

Masked_local(tid, j) == LET jj == j0(tid) + j  \* MUTANT: the row index is the block's
                        IN  jj >= N \/ (causal /\ jj > tid)

NeedsMask(tid) == rows_kv(tid) < bc \/ (causal /\ j0(tid) + bc - 1 > i0)
Masked(tid, j) == LET jj == j0(tid) + j
                  IN  jj >= N \/ (causal /\ jj > i_of(tid))

\* The scores of the thread's row against the tile in Ks, masked.
Scores(tid) ==
  /\ pc[tid] = "scores"
  /\ LET key == [j \in Slot |-> RowAt(Ks, j)]
     IN  /\ kkey' = [kkey EXCEPT ![tid] = key]
         /\ s' = [s EXCEPT ![tid] =
                    [j \in Slot |-> IF NeedsMask(tid) /\ Masked(tid, j) THEN NegInf
                                    ELSE Dot(RowAt(Qs, tid), key[j])]]
  /\ Go(tid, "update")
  /\ UNCHANGED <<inputs, t, m, l, acc, res, shared, outputs>>

\* The online-softmax step: the new maximum, alpha on l and acc, then the
\* tile's terms against what Vs holds (no V is read while m_new is -inf).
Consume(tid) ==
  /\ \E mNew \in NewMax(m[tid], s[tid]) :
       LET alpha == rescale_alpha(m[tid], mNew)
           p     == [j \in Slot |-> SlotWeight(s[tid][j], mNew)]
           vkey  == IF mNew = NegInf THEN <<>> ELSE [j \in Slot |-> RowAt(Vs, j)]
       IN  /\ l' = [l EXCEPT ![tid] = AddTerms(Scale(@, alpha), RowTerms(kkey[tid], p))]
           /\ acc' = [acc EXCEPT ![tid] = AddTerms(Scale(@, alpha), OutputTerms(vkey, p))]
           /\ m' = [m EXCEPT ![tid] = mNew]
  /\ s' = [s EXCEPT ![tid] = <<>>]
  /\ kkey' = [kkey EXCEPT ![tid] = <<>>]

More_atMost(tid, n) == n <= n_tiles(tid)  \* MUTANT: one tile too many

\* The loop condition.
More(tid, n) == n < n_tiles(tid)

\* MUTANT: no barrier between the last read of a tile and the next load.
Update_noWar(tid) ==
  /\ pc[tid] = "update"
  /\ Consume(tid)
  /\ t' = [t EXCEPT ![tid] = @ + 1]
  /\ Go(tid, IF More(tid, t[tid] + 1) THEN "load" ELSE "stage")
  /\ UNCHANGED <<inputs, res, shared, outputs>>

Update(tid) ==
  /\ pc[tid] = "update"
  /\ Consume(tid)
  /\ Go(tid, "war")
  /\ UNCHANGED <<inputs, t, res, shared, outputs>>

Finished(tid) == [o |-> NormalisedRow(acc[tid], l[tid]), lse |-> finalize_lse(m[tid], l[tid])]

\* MUTANT: the row guard of the log-sum-exp is lost.
Stage_noRowGuard(tid) ==
  /\ pc[tid] = "stage"
  /\ res' = [res EXCEPT ![tid] = Finished(tid)]
  /\ Qs' = [e \in DOMAIN Qs |->
              IF e \div Dim = tid THEN [staged |-> res'[tid].o] ELSE Qs[e]]
  /\ lse' = [lse EXCEPT ![i_of(tid)] = res'[tid].lse]
  /\ Go(tid, "staged")
  /\ UNCHANGED <<inputs, t, m, l, acc, s, kkey, Ks, Vs, o>>

\* The epilogue of the thread's row: normalised into its own row of Qs, which
\* is free after the last barrier of the loop; its log-sum-exp to memory.
Stage(tid) ==
  /\ pc[tid] = "stage"
  /\ res' = [res EXCEPT ![tid] = Finished(tid)]
  /\ Qs' = [e \in DOMAIN Qs |->
              IF e \div Dim = tid THEN [staged |-> res'[tid].o] ELSE Qs[e]]
  /\ lse' = IF row_valid(tid) THEN [lse EXCEPT ![i_of(tid)] = res'[tid].lse] ELSE lse
  /\ Go(tid, "staged")
  /\ UNCHANGED <<inputs, t, m, l, acc, s, kkey, Ks, Vs, o>>

\* The thread's share of the coalesced store, rows of other threads included.
Store(tid) ==
  /\ pc[tid] = "store"
  /\ o' = [r \in GlobalRow |-> [d \in Elem |->
             LET e == (r - i0) * Dim + d
             IN  IF r - i0 \in 0 .. rows_q - 1 /\ e \in SliceOf(tid, Br, Br * Dim)
                   THEN IF "staged" \in DOMAIN Qs[e] THEN Qs[e].staged ELSE Undef
                   ELSE o[r][d]]]
  /\ Go(tid, "done")
  /\ UNCHANGED <<inputs, t, registers, shared, lse>>

\* MUTANT: threads whose row is past N have returned, the others wait for all.
Sync_afterEarlyReturn ==
  /\ \A tid \in Thread : pc[tid] \in BarrierAt /\ row_valid(tid)
  /\ pc' = [tid \in Thread |-> "scores"]
  /\ UNCHANGED <<inputs, t, registers, shared, outputs>>

\* __syncthreads: one barrier object, so the block goes on when every thread
\* has arrived at some call of it.
Sync ==
  /\ \A tid \in Thread : pc[tid] \in BarrierAt
  /\ t' = [tid \in Thread |-> IF pc[tid] = "war" THEN t[tid] + 1 ELSE t[tid]]
  /\ pc' = [tid \in Thread |->
              CASE pc[tid] = "raw"    -> "scores"
                [] pc[tid] = "war"    -> IF More(tid, t'[tid]) THEN "load" ELSE "stage"
                [] pc[tid] = "staged" -> "store"]
  /\ UNCHANGED <<inputs, registers, shared, outputs>>

\* The block has retired.
Retired == (\A tid \in Thread : pc[tid] = "done") /\ UNCHANGED vars

Step(tid) == \/ LoadQ(tid) \/ LoadTile(tid) \/ Scores(tid) \/ Update(tid)
             \/ Stage(tid) \/ Store(tid)
Next == (\E tid \in Thread : Step(tid)) \/ Sync \/ Retired
Spec == Init /\ [][Next]_vars

\* Threads of a resident block are never starved, and a full barrier opens.
Fairness == (\A tid \in Thread : WF_vars(Step(tid))) /\ WF_vars(Sync)
FairSpec == Spec /\ Fairness

-------------------------------------------------------------------------------
TypeOK ==
  /\ pc \in [Thread -> {"loadQ", "load", "scores", "update", "stage", "store", "done"}
                          \cup BarrierAt]
  /\ \A tid \in Thread : t[tid] \in 0 .. n_tiles(tid) /\ m[tid] \in Score
  /\ \A e \in DOMAIN Ks : {Ks[e], Vs[e]} \subseteq Key \cup {Pad, Undef}

\* The tile a buffer should hold for a thread at tile n.
TileRow(n, j) == IF n * bc + j < N THEN n * bc + j ELSE Pad

\* No thread ever computes from a torn or a stale tile: when it reads Ks (and
\* its row of Q, written by several threads) or Vs, every slot holds exactly
\* its tile's row, zeroes past N included (the RAW and the WAR barrier of the
\* tile loop, and the first of them publishing Q).
WholeTiles ==
  \A tid \in Thread :
    /\ pc[tid] = "scores" =>
         /\ RowAt(Qs, tid) = [q |-> IF row_valid(tid) THEN i_of(tid) ELSE Pad]
         /\ \A j \in Slot : RowAt(Ks, j) = TileRow(t[tid], j)
    /\ pc[tid] = "update" => \A j \in Slot : RowAt(Vs, j) = TileRow(t[tid], j)

\* When the barrier opens, all threads wait at the same call of it and for
\* the same tile: every loop bound and branch around a barrier is uniform
\* over the block, also for rows past N.
BarrierUniform ==
  (\A tid \in Thread : pc[tid] \in BarrierAt) =>
    \A a, b \in Thread : pc[a] = pc[b] /\ t[a] = t[b]

\* Each thread runs the row recurrence on its row; a tile has been consumed
\* between Update and the barrier that counts it.  Rows past N have a zero q.
RowOf(tid) == INSTANCE RowSoftmax
  WITH i <- i_of(tid),
       score <- IF row_valid(tid) THEN score[i_of(tid)] ELSE [k \in Key |-> 0],
       t <- t[tid] + (IF pc[tid] = "war" THEN 1 ELSE 0),
       m <- m[tid], l <- l[tid], acc <- acc[tid], result <- res[tid],
       RawScores <- Int
RowsAreRowSoftmax ==
  /\ \A tid \in Thread : RowOf(tid)!Start
  /\ [][\A tid \in Thread : UNCHANGED RowOf(tid)!vars \/ RowOf(tid)!Next]_vars

\* The block writes each element of its rows and their log-sum-exp once, with
\* the softmax over the visible keys, and nothing else: not the rows past N,
\* which are the next head's.
Promise == INSTANCE Attention
  WITH Row <- GlobalRow, Col <- Elem, rows <- i0 .. i0 + rows_q - 1
ImplementsAttention == Promise!Spec

\* Every block finishes, with all of its rows written.
BlockCompletes == Promise!Complete
===============================================================================
