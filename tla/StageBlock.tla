------------------------------ MODULE StageBlock ------------------------------
(***************************************************************************)
(* What the thread blocks of the materialising stages have in common: the  *)
(* matrices they fill are N rows long, and their threads run one program,  *)
(* each at its own place in it.                                            *)
(***************************************************************************)
EXTENDS ExpWeights

CONSTANTS
  N,            (* sequence length: query rows, and keys per row          *)
  Unwritten     (* what global memory holds before the launch             *)

VARIABLE
  pc            (* per thread: where it is in the kernel                  *)

Go(tid, to) == pc' = [pc EXCEPT ![tid] = to]
===============================================================================
