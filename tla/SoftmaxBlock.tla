----------------------------- MODULE SoftmaxBlock -----------------------------
(***************************************************************************)
(* One thread block of the row softmax of the materialising stages:        *)
(* fa_s1_softmax (src/src/stage1_naive.cu) and fa_s2_softmax               *)
(* (src/src/stage2_tiled.cu).  The threads stride over the row; its        *)
(* maximum and its sum are reduced inside the warps by shuffles and across *)
(* them through shared memory, with two block barriers per reduction in S1 *)
(* and one in S2.                                                          *)
(***************************************************************************)
EXTENDS StageBlock

CONSTANTS
  Warps,        (* warps per block                                        *)
  WarpSize,     (* lanes per warp                                         *)
  Stages,       (* the kernels: 1, 2                                      *)
  RawScores     (* the scaled scores considered                           *)

ASSUME RowBlockAssumption ==
  /\ N \in Nat \ {0} /\ Warps \in Nat \ {0} /\ WarpSize \in Nat \ {0}
  /\ Stages \subseteq {1, 2} /\ RawScores \subseteq Int
  /\ NegInf # NaN

VARIABLES
  stage, s,    (* the kernel and its row of S, never changed              *)
  m, l,        (* per thread: its own, then the row's maximum and sum     *)
  red,         (* shared memory: one slot per warp in every array         *)
  P, lse       (* global memory: the row of P and its log-sum-exp         *)

inputs == <<stage, s>>
vars   == <<stage, s, pc, m, l, red, P, lse>>

Thread     == 0 .. Warps * WarpSize - 1
Warp       == 0 .. Warps - 1
Key        == 0 .. N - 1
LanesOf(w) == {tid \in Thread : tid \div WarpSize = w}
Mine(tid)  == {j \in Key : j % (Warps * WarpSize) = tid}

\* Uninitialised shared memory: neither a maximum nor a sum.
Unfilled == [undefined |-> TRUE]

\* S1 has one array for both reductions, S2 one for each.
ArrayOf(what) == IF stage = 1 THEN "red" ELSE what

\* Every causal row begins with the visible keys; a row without any is what
\* both kernels guard against.
Init ==
  /\ stage \in Stages
  /\ s \in {x \in [Key -> RawScores \cup {NegInf}] :
              \A j \in Key \ {0} : x[j] # NegInf => x[j - 1] # NegInf}
  /\ pc = [tid \in Thread |-> "max"]
  /\ m = [tid \in Thread |-> NegInf]
  /\ l = [tid \in Thread |-> EmptySum]
  /\ red = [a \in {"red", "max", "sum"} |-> [w \in Warp |-> Unfilled]]
  /\ P = [j \in Key |-> Unwritten]
  /\ lse = Unwritten

WarpGoes(w, to)  == pc' = [tid \in Thread |-> IF tid \in LanesOf(w) THEN to ELSE pc[tid]]
Slot(what, w, x) == red' = [red EXCEPT ![ArrayOf(what)][w] = x]

\* Pass 1: the maximum of the thread's keys.
LocalMax(tid) ==
  /\ pc[tid] = "max"
  /\ \E x \in {NegInf} \cup {s[j] : j \in Mine(tid)} :
       /\ IsMax(x, {NegInf} \cup {s[j] : j \in Mine(tid)})
       /\ m' = [m EXCEPT ![tid] = x]
  /\ Go(tid, "shuffle_max")
  /\ UNCHANGED <<inputs, l, red, P, lse>>

\* The shuffle tree of a warp; its first lane fills the warp's slot.
WarpMax(w) ==
  /\ \A tid \in LanesOf(w) : pc[tid] = "shuffle_max"
  /\ \E x \in {m[tid] : tid \in LanesOf(w)} :
       /\ IsMax(x, {m[tid] : tid \in LanesOf(w)})
       /\ Slot("max", w, [max |-> x])
  /\ WarpGoes(w, "filled_max")
  /\ UNCHANGED <<inputs, m, l, P, lse>>

\* Where a thread goes with the row's maximum: S1 waits before the slots are
\* used again; S2 leaves when the row has no visible key.
AfterMax_noWait(tid, x) == IF stage = 2 /\ x = NegInf THEN "empty" ELSE "exp"  \* MUTANT
AfterMax_ownKeys(tid, x) ==  \* MUTANT: S2 leaves when the thread's own keys are masked
  IF stage = 1 THEN "folded_max"
  ELSE IF \A j \in Mine(tid) : s[j] = NegInf THEN "empty" ELSE "exp"
AfterMax(tid, x) ==
  IF stage = 1 THEN "folded_max" ELSE IF x = NegInf THEN "empty" ELSE "exp"

\* What slots fold to: what is no maximum makes no number.
Folded(slots) == IF \E c \in slots : "max" \notin DOMAIN c THEN {NaN}
                 ELSE {y \in {c.max : c \in slots} : IsMax(y, {c.max : c \in slots})}

\* Every thread folds the slots itself.
FoldMax(tid) ==
  /\ pc[tid] = "fold_max"
  /\ \E x \in Folded({red[ArrayOf("max")][w] : w \in Warp}) :
       /\ m' = [m EXCEPT ![tid] = x]
       /\ Go(tid, AfterMax(tid, x))
  /\ UNCHANGED <<inputs, l, red, P, lse>>

Term_unguarded(tid, j) == IF m[tid] = NaN THEN NaN ELSE exp2_scaled(s[j], m[tid])  \* MUTANT

\* exp(s - m) of a key; S1 guards the empty row, S2 has left it.
Term(tid, j) == IF m[tid] = NaN THEN NaN
                ELSE IF stage = 1 THEN p_from_score(s[j], m[tid]) ELSE exp2_scaled(s[j], m[tid])

\* Pass 2: the sum over the thread's keys; S1 keeps the terms in P.
Exp(tid) ==
  /\ pc[tid] = "exp"
  /\ l' = [l EXCEPT ![tid] = AddTerms(EmptySum, [j \in Mine(tid) |-> Term(tid, j)])]
  /\ P' = [j \in Key |-> IF stage = 1 /\ j \in Mine(tid) THEN [term |-> Term(tid, j)] ELSE P[j]]
  /\ Go(tid, "shuffle_sum")
  /\ UNCHANGED <<inputs, m, red, lse>>

\* The total of several sums.
Total(part) ==
  IF \E x, y \in DOMAIN part : \/ IsPoisoned(part[x])
                               \/ x # y /\ DOMAIN part[x] \cap DOMAIN part[y] # {}
    THEN Poisoned
    ELSE [k \in UNION {DOMAIN part[x] : x \in DOMAIN part} |->
            part[CHOOSE x \in DOMAIN part : k \in DOMAIN part[x]][k]]

WarpSum(w) ==
  /\ \A tid \in LanesOf(w) : pc[tid] = "shuffle_sum"
  /\ Slot("sum", w, [sum |-> Total([tid \in LanesOf(w) |-> l[tid]])])
  /\ WarpGoes(w, "filled_sum")
  /\ UNCHANGED <<inputs, m, l, P, lse>>

FoldSum(tid) ==
  /\ pc[tid] = "fold_sum"
  /\ LET slot == red[ArrayOf("sum")]
     IN  l' = [l EXCEPT ![tid] =
                 IF \E w \in Warp : "sum" \notin DOMAIN slot[w] THEN Poisoned
                 ELSE Total([w \in Warp |-> slot[w].sum])]
  /\ Go(tid, IF stage = 1 THEN "folded_sum" ELSE "normalise")
  /\ UNCHANGED <<inputs, m, red, P, lse>>

\* A term divided by the sum: known by the differences, 0 for a term of 0.
Normalised(w, sum) == IF w = NaN \/ IsPoisoned(sum) THEN NaN
                      ELSE IF w = Zero THEN Zero
                      ELSE [k \in DOMAIN sum |-> sum[k] - w]

\* Pass 3: the thread's keys, from its own terms (S1) or computed anew (S2);
\* the first thread stores the log-sum-exp.
Normalise(tid) ==
  /\ pc[tid] = "normalise"
  /\ P' = [j \in Key |->
             IF j \notin Mine(tid) THEN P[j]
             ELSE [p |-> Normalised(IF stage = 1 THEN P[j].term ELSE Term(tid, j), l[tid])]]
  /\ lse' = IF tid = 0 THEN finalize_lse(m[tid], l[tid]) ELSE lse
  /\ Go(tid, "done")
  /\ UNCHANGED <<inputs, m, l, red>>

\* S2's early return.
Empty(tid) ==
  /\ pc[tid] = "empty"
  /\ P' = [j \in Key |-> IF j \in Mine(tid) THEN [p |-> Zero] ELSE P[j]]
  /\ lse' = IF tid = 0 THEN PosInf ELSE lse
  /\ Go(tid, "done")
  /\ UNCHANGED <<inputs, m, l, red>>

\* What a thread does after each block barrier.
AfterBarrier == [filled_max |-> "fold_max", folded_max |-> "exp",
                 filled_sum |-> "fold_sum", folded_sum |-> "normalise"]

Syncthreads ==
  /\ \A tid \in Thread : pc[tid] \in DOMAIN AfterBarrier
  /\ pc' = [tid \in Thread |-> AfterBarrier[pc[tid]]]
  /\ UNCHANGED <<inputs, m, l, red, P, lse>>

\* The block has retired.
Retired == (\A tid \in Thread : pc[tid] = "done") /\ UNCHANGED vars

Step(tid)   == \/ LocalMax(tid) \/ FoldMax(tid) \/ Exp(tid) \/ FoldSum(tid)
               \/ Normalise(tid) \/ Empty(tid)
WarpStep(w) == WarpMax(w) \/ WarpSum(w)
Next == \/ \E tid \in Thread : Step(tid)
        \/ \E w \in Warp : WarpStep(w)
        \/ Syncthreads \/ Retired
Spec == Init /\ [][Next]_vars

\* Resident threads are never starved, and full shuffles and barriers complete.
Fairness == /\ \A tid \in Thread : WF_vars(Step(tid))
            /\ \A w \in Warp : WF_vars(WarpStep(w))
            /\ WF_vars(Syncthreads)
FairSpec == Spec /\ Fairness

-------------------------------------------------------------------------------
Visible == {j \in Key : s[j] # NegInf}

\* After each reduction every thread holds the maximum, and the sum, of the
\* whole row, however far ahead or behind the others it is: no slot is read
\* before it is filled or after it is used again (S1's second barrier, S2's
\* separate arrays).
ReductionsAgree ==
  \A tid \in Thread :
    /\ pc[tid] \notin {"max", "shuffle_max", "filled_max", "fold_max"} =>
         /\ m[tid] = NegInf \/ \E j \in Visible : s[j] = m[tid]
         /\ \A j \in Visible : m[tid] # NegInf /\ s[j] <= m[tid]
    /\ pc[tid] \in {"folded_sum", "normalise"} => l[tid] = [j \in Visible |-> s[j] - m[tid]]

\* A retired thread's keys hold their softmax weight over the visible keys
\* (0 for a masked key, and for every key of an empty row), and the row's
\* log-sum-exp is that of the visible scores.
RowExact ==
  /\ \A tid \in Thread : pc[tid] = "done" => \A j \in Mine(tid) :
       P[j] = [p |-> IF j \in Visible THEN [k \in Visible |-> s[k] - s[j]] ELSE Zero]
  /\ lse \in {Unwritten, IF Visible = {} THEN PosInf ELSE [k \in Visible |-> s[k]]}

\* Every block finishes and has stored its log-sum-exp.
BlockFinishes == <>((\A tid \in Thread : pc[tid] = "done") /\ lse # Unwritten)
===============================================================================
