---------------------------- MODULE MCReports ----------------------------
(***************************************************************************)
(* Reports for the files of stages 1 and 5, the tuning sweep and the block. *)
(* The file of stage 5 already holds a row of the baseline without a stamp. *)
(***************************************************************************)
EXTENDS Reports, TLC

MCStageFiles == <<1, 5>>
MCOur      == <<"naive", "tuned">>
MCBaseline == <<"sdpa", "flash">>
MCKeysOf  == (1 :> <<"sdpa", "naive">>) @@ (5 :> <<"sdpa", "tuned">>) @@ (Tuning :> <<"tuned">>)
             @@ (Gpt :> <<"gpt_sdpa", "gpt_fused">>)
MCMsOf    == [sdpa |-> 2, naive |-> 3, tuned |-> 2, flash |-> 9, gpt_sdpa |-> 4, gpt_fused |-> 5]
MCFailing == { {}, {"naive"}, {"sdpa"}, {"gpt_fused"} }
MCOldRows == (1 :> <<>>) @@ (Tuning :> <<>>) @@ (Gpt :> <<>>) @@
             (5 :> <<Header, [key |-> "sdpa", stamp |-> 0, commit |-> 0, ms |-> 4, notes |-> {},
                              tuning |-> FALSE]>>)

\* What each unit means, from ncu's vocabulary: a metric that is 1 in base
\* units is printed as the number, a power of 1000, beside the unit.
Unit(p, q, d) == [prefix |-> p, quantity |-> q, denom |-> d]
Cell(n, u)    == [value |-> n, unit |-> u]
Base    == Cell(0, Unit("none", "byte", "none"))
MCCells == { Base, Cell(NoNumber, Base.unit), Cell(-2, Unit("M", "byte", "none")),
             Cell(2, Unit("none", "usecond", "none")), Cell(-4, Unit("K", "cycle", "nsecond")),
             Cell(1, Unit("none", "byte", "Kcycle")) }

\* A launch prints the first metric, and the second or not.
MCLaunches == {("ld" :> c) : c \in MCCells} \cup {("ld" :> c) @@ ("st" :> Base) : c \in MCCells}

MCBounds == { [sessions |-> 2, atOnce |-> 2, profiles |-> 0, markers |-> TRUE],
              [sessions |-> 3, atOnce |-> 1, profiles |-> 0, markers |-> TRUE],
              [sessions |-> 1, atOnce |-> 1, profiles |-> 1, markers |-> FALSE],
              [sessions |-> 0, atOnce |-> 0, profiles |-> 2, markers |-> TRUE] }

\* Sessions are alike, and nothing chooses between them.
Symmetry == Permutations(Session)
===============================================================================
