------------------------------- MODULE MCHostCalls -------------------------------
(***************************************************************************)
(* Two host threads; a word of two bits, so that device 2 has none and     *)
(* would share device 0's; an opt-in fp16 kernel, an opt-in bf16 kernel    *)
(* and a small one.  Device 0 is too old for bf16, device 1 runs an old    *)
(* binary, and the fp16 kernel's tile is over the cap of device 1.         *)
(***************************************************************************)
EXTENDS HostCalls, TLC

CONSTANTS th1, th2, half, bfloat, small

MCThreads   == {th1, th2}
MCKernels   == {half, bfloat, small}
MCDevices   == 0 .. 2
MCOptIn     == {half, bfloat}
MCBf16      == {bfloat}
MCSupported == (MCKernels \X MCDevices) \ {<<bfloat, 0>>}
MCOverCap   == {<<half, 1>>}
MCOldBinary == {<<bfloat, 1>>}
MCSymmetry  == Permutations(MCThreads)
===============================================================================
