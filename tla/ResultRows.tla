----------------------------- MODULE ResultRows -----------------------------
(***************************************************************************)
(* What fa_common.py and the report scripts compute from the committed     *)
(* files: the newest row of each key, the benchmark table, and a profiled  *)
(* number in base units.                                                   *)
(*                                                                         *)
(* A file of rows is the sequence of its lines: Header, or a row            *)
(* [key, stamp, commit, ms, notes, tuning]. The key stands for the         *)
(* implementation (of one shape, dtype and causal), the stamp for          *)
(* run=<utc>, 0 if the row has none; ms is NoNumber for a row that gives   *)
(* no time but, in its notes, a reason; tuning says that it was measured   *)
(* with a forced configuration.                                            *)
(***************************************************************************)
EXTENDS Integers, SequencesExt, Functions

CONSTANTS
  StageFiles,       (* the numbers of the stage<N>.csv files, ascending    *)
  Tuning, Gpt,      (* stage5_tuning.csv and gpt_block.csv                 *)
  OUR_IMPLS, BASELINE_IMPLS,   (* in order                                 *)
  Naive, Sdpa,      (* the first kernel, and the baseline                  *)
  Header, Junk,     (* the header line, and the key it has when read as a row *)
  NoNumber,         (* None                                                *)
  Refused, OomByDesign, CorrectnessFailed, OomRuntime,     (* reasons      *)
  Dash, NoBaseline, Withheld,  (* cells without a number                   *)
  NoText, NoBlock   (* EMPTY_TEXT, and a README without the markers        *)

ResultFile == ToSet(StageFiles) \cup {Tuning, Gpt}

IMPL_ORDER   == OUR_IMPLS \o BASELINE_IMPLS
OurKeys      == ToSet(OUR_IMPLS)
RenderedKeys == ToSet(IMPL_ORDER)
JunkRow == [key |-> Junk, stamp |-> 0, commit |-> 0, ms |-> NoNumber, notes |-> {}, tuning |-> FALSE]

\* csv.DictReader: the first line gives the names of the columns. If it is
\* not the header every row has other names, which no reader looks for.
read_rows(lines) ==
  IF lines = <<>> \/ Head(lines) # Header THEN <<>>
  ELSE [i \in 1 .. Len(lines) - 1 |->
          IF lines[i + 1] = Header THEN JunkRow
          ELSE lines[i + 1]]

\* MUTANT: the newest row is the last one read.
Newer_fileOrder(r, i, s, j) == i >= j

\* The greatest stamp; among equals the last one read.
Newer(r, i, s, j) == s.stamp < r.stamp \/ (s.stamp = r.stamp /\ i >= j)

latest_rows(rows) ==
  LET of(k) == {i \in DOMAIN rows : rows[i].key = k}
  IN  [k \in {rows[i].key : i \in DOMAIN rows} |->
         rows[CHOOSE i \in of(k) : \A j \in of(k) : Newer(rows[i], i, rows[j], j)]]

\* Exactly stage<N>.csv, by number: the file of the tuning sweep is left out.
stage_csvs == StageFiles

load_stage_rows(csv) ==
  latest_rows(FlattenSeq([i \in DOMAIN stage_csvs |-> read_rows(csv[stage_csvs[i]])]))

\* The first reason that the notes give; else the time.
cell(r) ==
  LET why == SelectSeq(<<Refused, OomByDesign, CorrectnessFailed, OomRuntime>>,
                       LAMBDA reason : reason \in r.notes)
  IN  IF why # <<>> THEN Head(why) ELSE IF r.ms = NoNumber THEN Dash ELSE r.ms

WithTime(t, K) == {k \in K \cap DOMAIN t : t[k].ms # NoNumber}
Best(t) == CHOOSE k \in WithTime(t, OurKeys) : \A j \in WithTime(t, OurKeys) : t[k].ms <= t[j].ms

vs_naive(t) ==
  IF WithTime(t, {Naive}) = {} THEN Dash
  ELSE [ours |-> Best(t), ratio |-> <<t[Naive].ms, t[Best(t)].ms>>]

SameCommit_always(a, b) == TRUE        \* MUTANT: the commits are not looked at
SameCommit(a, b) == a.commit = b.commit

\* The fastest of our kernels against the baseline, which is re-measured by
\* every run: the cell names its commit when it is not the kernel's.
vs_sdpa(t) ==
  IF WithTime(t, OurKeys) = {} THEN Dash
  ELSE IF WithTime(t, {Sdpa}) = {} THEN NoBaseline
  ELSE [ours |-> Best(t), ratio |-> <<t[Sdpa].ms, t[Best(t)].ms>>,
        baseline_at |-> IF SameCommit(t[Sdpa], t[Best(t)]) THEN NoNumber ELSE t[Sdpa].commit]

\* Those of IMPL_ORDER that have a row, in its order.
Impls(t) == FlattenSeq([i \in DOMAIN IMPL_ORDER |->
                          IF IMPL_ORDER[i] \in DOMAIN t THEN <<IMPL_ORDER[i]>> ELSE <<>>])

headline_table(t) ==
  [cells |-> [i \in DOMAIN Impls(t) |-> cell(t[Impls(t)[i]])],
   vs_naive |-> vs_naive(t), vs_sdpa |-> vs_sdpa(t)]

details_table(t) == [i \in DOMAIN Impls(t) |-> t[Impls(t)[i]]]

\* Rows of other implementations are left out; no rows, no table.
render_bench(csv) ==
  LET all == load_stage_rows(csv)
      t   == Restrict(all, DOMAIN all \cap RenderedKeys)
  IN  IF DOMAIN t = {} THEN NoText
      ELSE [headline |-> headline_table(t), details |-> details_table(t)]

\* The last row of each key, a repeated header included, whatever its stamp.
\* The empty function stands for EMPTY_TEXT and for a table without rows.
render_gpt(csv) ==
  LET rows == read_rows(csv[Gpt])
  IN  [k \in {rows[i].key : i \in DOMAIN rows} |->
         rows[SelectLastInSeq(rows, LAMBDA r : r.key = k)]]

\* A README without the markers is left as it is.
replace_block(block, body) == IF block = NoBlock THEN NoBlock ELSE body

-------------------------------------------------------------------------------
(* Units of ncu's raw page. A unit is its SI prefix, its quantity and its  *)
(* denominator; a number is its power of 1000, relative to base units.     *)

Power == [none |-> 0, K |-> 1, M |-> 2, G |-> 3, T |-> 4]
Time  == [second |-> 0, msecond |-> -1, usecond |-> -2, nsecond |-> -3]

IsTime(u) == u.quantity \in DOMAIN Time /\ u.denom = "none"

\* MUTANT: the time of a rate is taken for a time.
Scale_rateAsTime(u) ==
  IF IsTime(u) THEN Time[u.quantity]
  ELSE Power[u.prefix] + (IF u.denom \in DOMAIN Time THEN Time[u.denom] ELSE 0)

\* What a value must be multiplied with.
UnitScale(u) ==
  IF IsTime(u) THEN Time[u.quantity]
  ELSE Power[u.prefix] - (IF u.denom \in DOMAIN Time THEN Time[u.denom] ELSE 0)

\* A denominator with a prefix of its own is not understood.
normalize_unit(u) == IF u.denom = "Kcycle" THEN NoNumber ELSE UnitScale(u)

\* The metrics of the first launch row, each a value and the unit printed
\* with it; a report without a launch row has none.
parse_ncu(launch) ==
  [values |-> [i \in DOMAIN launch |->
                 IF launch[i].value = NoNumber \/ normalize_unit(launch[i].unit) = NoNumber
                 THEN NoNumber
                 ELSE launch[i].value + normalize_unit(launch[i].unit)],
   unparsed_units |-> {i \in DOMAIN launch : normalize_unit(launch[i].unit) = NoNumber}]

\* A column is the sum of its metrics, those that have a value; here the set
\* of the powers of what is summed.
col_value(p, spec) ==
  LET parts == {p.values[i] : i \in spec \cap DOMAIN p.values} \ {NoNumber}
  IN  IF spec \cap p.unparsed_units # {} THEN Withheld
      ELSE IF parts = {} THEN NoNumber ELSE parts

\* The dump of every metric of a launch.
render_dump(p) ==
  [i \in DOMAIN p.values |-> IF i \in p.unparsed_units THEN Withheld ELSE p.values[i]]
===============================================================================
