------------------------------ MODULE TileMemory ------------------------------
(***************************************************************************)
(* What the threads of a block find in shared memory.  A cell holds part   *)
(* of a key's K (or V) row, known by the key; zeroes, for a row past N; or *)
(* whatever was there before.  A tile row is the Dim cells of one slot: it *)
(* is a row only when all of them hold the same one.                       *)
(***************************************************************************)
EXTENDS ExpWeights

CONSTANTS
  Dim,     (* cells per row                                               *)
  Pad,     (* zeroes: a row past N                                        *)
  Undef    (* uninitialised memory, or a row put together from several    *)

\* Zeroes and undefined values are told apart from what a copy brings.
ASSUME MemoryAssumption ==
  /\ Pad \notin Int \cup {Undef} /\ Undef \notin Int \cup {NegInf}
  /\ Undef \notin [q : Int \cup {Pad}]

\* The elements a thread touches in a flat copy of `cells` cells by
\* `threads` threads: every threads-th one, beginning with its own index.
SliceOf(tid, threads, cells) == {e \in 0 .. cells - 1 : e % threads = tid}

\* What element e of a [rows][Dim] tile that starts at global row r0 receives:
\* its row if that exists, else zero.
TileCell(e, r0, rowsValid) == IF e < rowsValid * Dim THEN r0 + e \div Dim ELSE Pad

\* The row a reader of slot j of a tile buffer gets.
RowAt(buf, j) ==
  IF \A d \in 0 .. Dim - 1 : buf[j * Dim + d] = buf[j * Dim] THEN buf[j * Dim] ELSE Undef

\* The terms of the slots in `live`, by the row they stem from: an undefined
\* row makes the sum NaN, and so does a row that would count twice.
Gather(live, key, p) ==
  [k \in {key[j] : j \in live} |->
     LET from == {j \in live : key[j] = k}
     IN  IF k = Undef \/ \E j, j2 \in from : j # j2 THEN NaN
         ELSE p[CHOOSE j \in from : TRUE]]

\* sum of p_j: the terms are those of the K rows the p_j were computed from.
RowTerms(key, p) == Gather({j \in DOMAIN p : p[j] # Zero}, key, p)

\* sum of p_j * V_j: zeroes contribute nothing, and an undefined V row is NaN
\* even when its p_j is 0.
OutputTerms(key, p) ==
  Gather({j \in DOMAIN key : key[j] # Pad /\ (p[j] # Zero \/ key[j] = Undef)}, key, p)

\* p_j of a score, where a score read from an undefined row is no number.
SlotWeight(s, mNew) == IF s = Undef THEN NaN ELSE p_from_score(s, mNew)

\* The maximum of m and the tile's scores, as far as they are numbers.
NewMax(m, s) ==
  LET numbers == {m} \cup ({s[j] : j \in DOMAIN s} \ {Undef})
  IN  {x \in numbers : IsMax(x, numbers)}
===============================================================================
