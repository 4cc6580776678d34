--------------------------- MODULE MaterialisedCalls ---------------------------
(***************************************************************************)
(* Calls of the materialising stages: run_stage of the PyTorch op          *)
(* (src/python/fused_attn/ext.cpp) takes a workspace from the caching      *)
(* allocator, launches the three kernels of fa::stage1 or fa::stage2 on    *)
(* the caller's stream and drops the workspace at once, while the kernels  *)
(* are still queued.  A stream runs its kernels one after another; the     *)
(* blocks of a kernel, and different streams, run in any order.  What the  *)
(* threads of a block do among themselves is SoftmaxBlock's and            *)
(* TiledProduct's: here a block is one step.                               *)
(***************************************************************************)
EXTENDS ExpWeights, Sequences

CONSTANTS
  N, Heads, Dim,  (* sequence length, B * H, elements per output row      *)
  BlockThreads,   (* threads per block                                    *)
  Calls,          (* how many calls the host makes                        *)
  Stream,         (* the streams it makes them on                         *)
  Workspace,      (* the memory blocks of the allocator                   *)
  ScoreChoices,   (* the score matrices considered, per call and head     *)
  CausalChoices,  (* the mask flags considered, per call                  *)
  StreamChoices,  (* the streams considered, per call                     *)
  Undef,          (* uninitialised memory, and what is computed from it   *)
  Unwritten       (* what o holds before the call                         *)

ASSUME CallAssumption ==
  /\ {N, Heads, Dim, BlockThreads, Calls} \subseteq Nat \ {0}
  /\ ScoreChoices \subseteq
       [1 .. Calls -> [0 .. Heads - 1 -> [0 .. N - 1 -> [0 .. N - 1 -> Int]]]]
  /\ CausalChoices \subseteq [1 .. Calls -> BOOLEAN]
  /\ StreamChoices \subseteq [1 .. Calls -> Stream]

\* Uninitialised memory is not taken for a score or a weight, and no stream
\* for a state of the pool.
ASSUME CellAssumption ==
  /\ Stream \cap {"new", "used"} = {}
  /\ Undef \notin [s : Int \cup {NegInf}] \cup {Zero}
  /\ \A keys \in SUBSET (0 .. N - 1) :
       /\ {Undef, Zero} \cap [keys -> Int] = {}
       /\ Undef \notin [p : [keys -> Int] \cup {Zero}]

VARIABLES
  score, causal,  (* the inputs of each call                              *)
  hpc, call,      (* the host thread, and the call it is making           *)
  stream, ws,     (* per call: its stream and its workspace               *)
  result,         (* per call                                             *)
  pool,           (* per memory block: in use, or whose stream may take it *)
  queue, ran,     (* per stream: kernels, and the finished blocks of the  *)
                  (* first one                                            *)
  mem,            (* the memory blocks                                    *)
  o               (* per call and head                                    *)

inputs == <<score, causal>>
host   == <<hpc, call, stream, ws, result, pool>>
device == <<queue, ran, mem, o>>
vars   == <<inputs, host, device>>

Call   == 1 .. Calls
BH     == 0 .. Heads - 1
Key    == 0 .. N - 1
Elem   == 0 .. Dim - 1
Kernel == {"qk", "softmax", "pv"}

PBase_head == N * N  \* MUTANT: P begins behind the first head's S

\* The workspace: first every head's N * N scores, then as many weights.
PBase         == Heads * N * N
SAddr(h, i, j) == (h * N + i) * N + j
PAddr(h, i, j) == PBase + SAddr(h, i, j)
Address       == 0 .. 2 * Heads * N * N - 1

GridBlocks_floor(n) == n \div BlockThreads  \* MUTANT: the last, partial block is lost

\* The grids: a thread per score and per output element of a head, a block
\* per row.
GridBlocks(n) == (n + BlockThreads - 1) \div BlockThreads
Grid(kernel) ==
  CASE kernel = "qk"      -> BH \X (0 .. GridBlocks(N * N) - 1)
    [] kernel = "softmax" -> BH \X Key
    [] kernel = "pv"      -> BH \X (0 .. GridBlocks(N * Dim) - 1)

Init ==
  /\ score \in ScoreChoices
  /\ causal \in CausalChoices
  /\ hpc = "alloc" /\ call = 1
  /\ stream \in StreamChoices
  /\ ws = [c \in Call |-> Undef]
  /\ result = [c \in Call |-> "none"]
  /\ pool = [b \in Workspace |-> "new"]
  /\ queue = [st \in Stream |-> <<>>]
  /\ ran = [st \in Stream |-> {}]
  /\ mem = [b \in Workspace |-> [a \in Address |-> Undef]]
  /\ o = [c \in Call |-> [h \in BH |-> [i \in Key |-> [d \in Elem |-> Unwritten]]]]

-------------------------------------------------------------------------------
(* The host                                                                *)

\* at::empty: memory never used, or given back on this very stream.
Alloc ==
  /\ hpc = "alloc" /\ call <= Calls
  /\ \E b \in Workspace :
       /\ pool[b] \in {"new", stream[call]}
       /\ ws' = [ws EXCEPT ![call] = b]
       /\ pool' = [pool EXCEPT ![b] = "used"]
  /\ hpc' = "qk"
  /\ UNCHANGED <<inputs, call, stream, result, device>>

AfterLaunch == [qk |-> "softmax", softmax |-> "pv", pv |-> "return"]

AfterRefusal_goesOn(kernel) == AfterLaunch[kernel]  \* MUTANT: only the result remembers

\* FA_CUDA_TRY_LAUNCH returns at the first refused launch.
AfterRefusal(kernel) == "return"

LaunchKernel(kernel) ==
  /\ hpc = kernel
  /\ \/ /\ queue' = [queue EXCEPT ![stream[call]] = Append(@, [kernel |-> kernel, call |-> call])]
        /\ hpc' = AfterLaunch[kernel]
        /\ UNCHANGED result
     \/ /\ result' = [result EXCEPT ![call] = "error"]
        /\ hpc' = AfterRefusal(kernel)
        /\ \/ UNCHANGED queue
           \* The error is one an earlier call left: cudaGetLastError has
           \* cleared it when the next kernel is launched.
           \/ /\ kernel = "qk"
              /\ queue' = [queue EXCEPT ![stream[call]] =
                             Append(@, [kernel |-> kernel, call |-> call])]
  /\ UNCHANGED <<inputs, call, stream, ws, pool, ran, mem, o>>

\* The end of run_stage: the workspace goes back to its stream's pool.
Return ==
  /\ hpc = "return"
  /\ result' = [result EXCEPT ![call] = IF @ = "none" THEN "ok" ELSE @]
  /\ pool' = [pool EXCEPT ![ws[call]] = stream[call]]
  /\ call' = call + 1
  /\ hpc' = "alloc"
  /\ UNCHANGED <<inputs, stream, ws, device>>

-------------------------------------------------------------------------------
(* The device                                                              *)

\* The threads of a block that have something to do.
ThreadsOf(x, n) == {y \in x * BlockThreads .. (x + 1) * BlockThreads - 1 : y < n}

\* fa_s1_qk: S[i][j], -inf above the diagonal.
Scores(c, h, x) ==
  /\ mem' = [mem EXCEPT ![ws[c]] = [a \in Address |->
       IF \E y \in ThreadsOf(x, N * N) : a = SAddr(h, y \div N, y % N)
         THEN LET i == (a \div N) % N
                  j == a % N
              IN  [s |-> IF causal[c] /\ j > i THEN NegInf ELSE score[c][h][i][j]]
         ELSE @[a]]]
  /\ UNCHANGED o

\* fa_s1_softmax: row i of P, in the notation of SoftmaxBlock.  run_stage
\* gives the stages below 3 no lse buffer.
Softmax(c, h, i) ==
  LET S    == [j \in Key |-> mem[ws[c]][SAddr(h, i, j)]]
      bad  == \E j \in Key : S[j] = Undef \/ "s" \notin DOMAIN S[j]
      live == {j \in Key : S[j].s # NegInf}
      p(j) == IF bad THEN Undef
              ELSE IF j \in live THEN [k \in live |-> S[k].s - S[j].s] ELSE Zero
  IN  /\ mem' = [mem EXCEPT ![ws[c]] = [a \in Address |->
                   IF \E j \in Key : a = PAddr(h, i, j)
                     THEN [p |-> p((a - PBase) % N)] ELSE @[a]]]
      /\ UNCHANGED o

\* fa_s1_pv: the row's weights times the V rows.
Output(c, h, x) ==
  LET P(i, j) == mem[ws[c]][PAddr(h, i, j)]
      bad(i)  == \E j \in Key : \/ P(i, j) = Undef \/ "p" \notin DOMAIN P(i, j)
                                \/ P(i, j).p = Undef
      row(i)  == IF bad(i) THEN Undef
                 ELSE [j \in {k \in Key : P(i, k).p # Zero} |-> P(i, j).p]
  IN  /\ o' = [o EXCEPT ![c][h] = [i \in Key |-> [d \in Elem |->
                 IF \E y \in ThreadsOf(x, N * Dim) : y = i * Dim + d THEN row(i) ELSE @[i][d]]]]
      /\ UNCHANGED mem

\* A block of the kernel at the head of a stream.
RunBlock(st) ==
  /\ queue[st] # <<>>
  /\ \E block \in Grid(Head(queue[st]).kernel) \ ran[st] :
       LET c == Head(queue[st]).call
       IN  /\ CASE Head(queue[st]).kernel = "qk"      -> Scores(c, block[1], block[2])
                [] Head(queue[st]).kernel = "softmax" -> Softmax(c, block[1], block[2])
                [] Head(queue[st]).kernel = "pv"      -> Output(c, block[1], block[2])
           /\ ran' = [ran EXCEPT ![st] = @ \cup {block}]
  /\ UNCHANGED <<inputs, host, queue>>

\* The kernel has finished when all of its blocks have.
FinishKernel(st) ==
  /\ queue[st] # <<>>
  /\ ran[st] = Grid(Head(queue[st]).kernel)
  /\ queue' = [queue EXCEPT ![st] = Tail(@)]
  /\ ran' = [ran EXCEPT ![st] = {}]
  /\ UNCHANGED <<inputs, host, mem, o>>

HostStep   == Alloc \/ (\E kernel \in Kernel : LaunchKernel(kernel)) \/ Return
DeviceStep(st) == RunBlock(st) \/ FinishKernel(st)
Idle == call > Calls /\ (\A st \in Stream : queue[st] = <<>>) /\ UNCHANGED vars
Next == HostStep \/ (\E st \in Stream : DeviceStep(st)) \/ Idle
Spec == Init /\ [][Next]_vars

-------------------------------------------------------------------------------
\* Whatever the streams interleave, and although a workspace is given back
\* and taken again while kernels that use it are still queued, each head of
\* each call is written with the softmax over the visible keys, each element
\* once, or not at all.
Promise(c, h) == INSTANCE Attention
  WITH Row <- Key, Col <- Elem, rows <- Key, score <- score[c][h], causal <- causal[c],
       o <- o[c][h], lse <- [i \in Key |-> Unwritten]
ImplementsAttention ==
  /\ \A c \in Call, h \in BH : Promise(c, h)!Init
  /\ [][\A c \in Call, h \in BH : UNCHANGED Promise(c, h)!vars \/ Promise(c, h)!Write]_vars

\* A call that reports an error has left, and leaves, its output alone, also
\* when its first kernels are still running.
ErrorWritesNothing ==
  \A c \in Call : result[c] = "error" =>
    \A h \in BH, i \in Key, d \in Elem : o[c][h][i][d] = Unwritten

\* Once a call's kernels have left its stream, its output is complete if it
\* reported success.
SuccessCompletes ==
  \A c \in Call :
    result[c] = "ok" /\ (\A n \in 1 .. Len(queue[stream[c]]) : queue[stream[c]][n].call # c) =>
      \A h \in BH, i \in Key, d \in Elem : o[c][h][i][d] = Promise(c, h)!SoftmaxRow(i)
===============================================================================
