--------------------------- MODULE MCBenchSession ---------------------------
(***************************************************************************)
(* BenchSession for stages 1 and 3 and one baseline at a time: one         *)
(* materialises its matrices in fp16, the other is probed.                 *)
(***************************************************************************)
EXTENDS BenchSession

MCOurImpls      == <<"naive", "fused">>
MCBaselineImpls == <<"torch_unfused", "sdpa_efficient">>
MCStageOf       == [naive |-> 1, fused |-> 3]

\* Of 32 bytes a quarter is 8. The matrices of the kernel take 8 and 40
\* bytes (at the limit, and beyond the whole memory), those of torch 4 and 20.
MCMatrix   == <<1, 5>>

MCStages    == {{}, {"naive", "fused"}}
MCBaselines == {{}, {"torch_unfused"}, {"sdpa_efficient"}}
MCBroken   == {{}, {"fused", "sdpa_efficient"}}
===============================================================================
