------------------------------ MODULE ExpWeights ------------------------------
(***************************************************************************)
(* The numbers of the online softmax, exactly.                             *)
(*                                                                         *)
(* A raw score is an integer or NegInf (a masked key).  Everything the     *)
(* kernels add up is a sum of exponentials exp2((s - m) * c), one per key, *)
(* where c = scale * log2(e) > 0 is folded once per launch; taking c as    *)
(* the unit, such a term is known by the key it came from and its integer  *)
(* exponent.  A sum (the row's l, or its un-normalised output acc, whose   *)
(* terms multiply the key's V row) is therefore a function from the keys   *)
(* in it to their exponents: nothing is rounded, and a term that is        *)
(* missing, doubled or relative to the wrong maximum is visible.           *)
(***************************************************************************)
EXTENDS Integers

CONSTANTS
  NegInf,   (* the score of a masked key, and the maximum of no key       *)
  PosInf,   (* the log-sum-exp of a row that saw no key                   *)
  Zero,     (* the number 0 as a weight: exp2(-inf)                       *)
  NaN       (* (-inf) - (-inf), and whatever is no sum of distinct terms  *)

ASSUME SentinelAssumption ==
  /\ NegInf \notin Int
  /\ Zero \notin Int
  /\ NaN \notin Int
  /\ Zero # NaN

Score  == Int \cup {NegInf}
Weight == Int \cup {Zero, NaN}

Max2(a, b) == IF a = NegInf THEN b
              ELSE IF b = NegInf THEN a
              ELSE IF a < b THEN b ELSE a
Min2(a, b) == IF a < b THEN a ELSE b

\* x is the maximum of the scores in S (fmaxf over a non-empty tile).
IsMax(x, S) == /\ x \in S
               /\ \A y \in S : Max2(x, y) = x

\* exp2((s - m) * c) in IEEE arithmetic, no guard.
exp2_scaled(s, m) ==
  IF m = NegInf THEN NaN                \* -inf - -inf, or +inf
  ELSE IF s = NegInf THEN Zero
  ELSE s - m

\* The guarded P element: 0 for a row that has seen no unmasked key.
p_from_score(s, m) == IF m = NegInf THEN Zero ELSE exp2_scaled(s, m)

\* The factor that moves l and acc from the old maximum to the new one.
rescale_alpha(mOld, mNew) == IF mOld = NegInf THEN Zero ELSE exp2_scaled(mOld, mNew)

EmptySum == [k \in {} |-> 0]
Poisoned == [k \in {NaN} |-> 0]
IsPoisoned(x) == NaN \in DOMAIN x

\* x * a for a weight a: every exponent moves by a's.
Scale(x, a) ==
  IF IsPoisoned(x) \/ a = NaN THEN Poisoned
  ELSE IF a = Zero THEN EmptySum
  ELSE [k \in DOMAIN x |-> x[k] + a]

\* x plus the terms w (a function from keys to weights); a key that is in
\* the sum already would count twice.
AddTerms(x, w) ==
  LET live == {k \in DOMAIN w : w[k] # Zero}
  IN  IF \/ IsPoisoned(x)
         \/ \E k \in live : w[k] = NaN \/ k \in DOMAIN x
        THEN Poisoned
        ELSE [k \in DOMAIN x \cup live |-> IF k \in live THEN w[k] ELSE x[k]]

\* The output row acc * (1/l), with 1/l = 0 when l is 0 (finalize_inv_l):
\* the coefficient of V[k] is 1 / (the sum over k2 of exp2(l[k2] - acc[k])),
\* so the row is known by those differences, whatever maximum they used.
NormalisedRow(acc, l) ==
  IF IsPoisoned(acc) \/ IsPoisoned(l) THEN Poisoned
  ELSE IF l = EmptySum THEN EmptySum
  ELSE [k \in DOMAIN acc |-> [k2 \in DOMAIN l |-> l[k2] - acc[k]]]

\* m * scale + ln(l) as the exponents of the sum whose logarithm it is;
\* +inf for an empty row.
finalize_lse(m, l) ==
  IF IsPoisoned(l) THEN Poisoned
  ELSE IF l = EmptySum \/ m = NegInf THEN PosInf
  ELSE [k \in DOMAIN l |-> l[k] + m]
===============================================================================
