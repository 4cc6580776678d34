-------------------------- MODULE MCMaterialisedCalls --------------------------
(***************************************************************************)
(* Two calls on two heads of two keys, on one stream or on two, and two  *)
(* memory blocks: calls on one stream may share a block and calls on two   *)
(* never do.  Blocks of three threads leave partial blocks in both grids.   *)
(***************************************************************************)
EXTENDS MaterialisedCalls, TLC

CONSTANTS st1, st2, ws1, ws2

MCStream    == {st1, st2}
MCCausalChoices == {<<TRUE, FALSE>>, <<FALSE, TRUE>>}
MCStreamChoices == {<<st1, st1>>, <<st1, st2>>}
MCWorkspace == {ws1, ws2}
MCSymmetry  == Permutations(MCWorkspace)

\* No two rows of any head or call have the same score differences.
MCScoreChoices ==
  { [c \in 1 .. Calls |-> [h \in 0 .. Heads - 1 |-> [i \in 0 .. N - 1 |-> [j \in 0 .. N - 1 |->
       j * (1 + i + 3 * h + 7 * c)]]]] }
===============================================================================
