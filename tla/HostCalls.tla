------------------------------- MODULE HostCalls -------------------------------
(***************************************************************************)
(* The host side of a fused stage (launch and prepare_once in              *)
(* src/src/stage4_wmma.cu and stage5_tuned.cu, under fa::forward and the   *)
(* PyTorch op's run_stage): host threads that launch kernels, each an      *)
(* instantiation of the stage's template, on several devices.  A kernel's  *)
(* first launch on a device prepares it there; one atomic word per kernel  *)
(* remembers the devices where that has been done, and the driver keeps    *)
(* the attribute and, per thread, the last error.                          *)
(***************************************************************************)
EXTENDS Integers

CONSTANTS
  HostThread,  (* the threads that call the library                       *)
  Instantiation,  (* the kernels launched: the template's instantiations  *)
  Device,      (* device ids                                              *)
  Bits,        (* devices one word can remember (64)                      *)
  OptIn,       (* kernels that need more than 48 KB of shared memory      *)
  Bf16,        (* kernels for bf16                                        *)
  Supported,   (* <<k, d>>: impl_supports holds                           *)
  OverCap,     (* <<k, d>>: above the architecture's shared-memory cap    *)
  OldBinary    (* <<k, d>>: what this build runs there is older than sm_80 *)

ASSUME HostAssumption ==
  /\ Instantiation # {} /\ Device # {} /\ Device \subseteq Nat /\ Bits \in Nat \ {0}
  /\ OptIn \subseteq Instantiation /\ Bf16 \subseteq Instantiation
  /\ Supported \cup OverCap \cup OldBinary \subseteq Instantiation \X Device

VARIABLES
  pc,                  (* per thread: where it is                         *)
  kernelOf, deviceOf,  (* per thread: the call's kernel and device        *)
  queued,     (* per thread: whether the call's kernel is on its stream   *)
  returned,   (* per thread: what the call returned                       *)
  lastError,  (* per thread: the runtime has an error nobody has read     *)
  ready,      (* ready[k]: the bits set in the kernel's word              *)
  attr        (* <<k, d>> whose shared-memory limit has been raised       *)

hostVars == <<pc, kernelOf, deviceOf, queued, returned, lastError, ready, attr>>

Result == {"cudaSuccess", "cudaErrorNotSupported", "cudaErrorInvalidValue", "attribute", "launch"}

HostInit ==
  /\ pc = [th \in HostThread |-> "idle"]
  /\ kernelOf = [th \in HostThread |-> CHOOSE x \in Instantiation : TRUE]
  /\ deviceOf = [th \in HostThread |-> CHOOSE x \in Device : TRUE]
  /\ queued = [th \in HostThread |-> FALSE]
  /\ returned = [th \in HostThread |-> "cudaSuccess"]
  /\ lastError = [th \in HostThread |-> FALSE]
  /\ ready = [x \in Instantiation |-> {}]
  /\ attr = {}

Go(th, to)       == pc' = [pc EXCEPT ![th] = to] /\ UNCHANGED returned
Answer(th, what) == pc' = [pc EXCEPT ![th] = "idle"] /\ returned' = [returned EXCEPT ![th] = what]

\* A call on tensors of device d, made current by the op's CUDAGuard, whose
\* dtype, D and tile choice select kernel k: fa::forward's support check.
Forward(th) ==
  /\ pc[th] = "idle"
  /\ \E x \in Instantiation, y \in Device :
       /\ kernelOf' = [kernelOf EXCEPT ![th] = x]
       /\ deviceOf' = [deviceOf EXCEPT ![th] = y]
       /\ IF <<x, y>> \notin Supported THEN Answer(th, "cudaErrorNotSupported") ELSE Go(th, "cap")
  /\ queued' = [queued EXCEPT ![th] = FALSE]
  /\ UNCHANGED <<lastError, ready, attr>>

\* launch: the tile against the architecture's cap.
CheckCap(th) ==
  /\ pc[th] = "cap"
  /\ IF kernelOf[th] \in OptIn /\ <<kernelOf[th], deviceOf[th]>> \in OverCap
       THEN Answer(th, "cudaErrorInvalidValue") ELSE Go(th, "ready")
  /\ UNCHANGED <<kernelOf, deviceOf, queued, lastError, ready, attr>>

BitOf_unbounded(dev) == {dev}        \* MUTANT: past the end of the word
BitOf_wrapped(dev)   == {dev % Bits}  \* MUTANT: what the shift does on the host

\* The bit that remembers a device; ids past the word have none.
BitOf(dev) == IF dev < Bits THEN {dev} ELSE {}

AfterReady_noVersion(th) == IF kernelOf[th] \in OptIn THEN "attribute" ELSE "publish"  \* MUTANT

\* What a launch on a new device has to do first.
AfterReady(th) == IF kernelOf[th] \in Bf16 THEN "version"
                  ELSE IF kernelOf[th] \in OptIn THEN "attribute" ELSE "publish"

\* prepare_once: the kernel's word.
CheckReady(th) ==
  /\ pc[th] = "ready"
  /\ Go(th, IF BitOf(deviceOf[th]) \cap ready[kernelOf[th]] # {} THEN "launch" ELSE AfterReady(th))
  /\ UNCHANGED <<kernelOf, deviceOf, queued, lastError, ready, attr>>

\* A bf16 kernel built for an older architecture is a stub that traps.
\* cudaFuncGetAttributes may fail, like cudaFuncSetAttribute below.
CheckVersion(th) ==
  /\ pc[th] = "version"
  /\ \/ /\ IF <<kernelOf[th], deviceOf[th]>> \in OldBinary THEN Answer(th, "cudaErrorNotSupported")
           ELSE Go(th, IF kernelOf[th] \in OptIn THEN "attribute" ELSE "publish")
        /\ UNCHANGED lastError
     \/ /\ Answer(th, "attribute")
        /\ lastError' = [lastError EXCEPT ![th] = TRUE]
  /\ UNCHANGED <<kernelOf, deviceOf, queued, ready, attr>>

\* cudaFuncSetAttribute; a failure is returned, and stays the thread's last
\* error.
SetAttribute(th) ==
  /\ pc[th] = "attribute"
  /\ \/ /\ attr' = attr \cup {<<kernelOf[th], deviceOf[th]>>}
        /\ Go(th, "publish")
        /\ UNCHANGED lastError
     \/ /\ Answer(th, "attribute")
        /\ lastError' = [lastError EXCEPT ![th] = TRUE]
        /\ UNCHANGED attr
  /\ UNCHANGED <<kernelOf, deviceOf, queued, ready>>

\* ready.fetch_or
Publish(th) ==
  /\ pc[th] = "publish"
  /\ ready' = [ready EXCEPT ![kernelOf[th]] = @ \cup BitOf(deviceOf[th])]
  /\ Go(th, "launch")
  /\ UNCHANGED <<kernelOf, deviceOf, queued, lastError, attr>>

\* <<<...>>>: the driver refuses more shared memory than the kernel may have
\* there, or queues the kernel on the call's stream.
Launch(th) ==
  /\ pc[th] = "launch"
  /\ \E ok \in {kernelOf[th] \in OptIn => <<kernelOf[th], deviceOf[th]>> \in attr, FALSE} :
       /\ queued' = [queued EXCEPT ![th] = ok]
       /\ lastError' = [lastError EXCEPT ![th] = @ \/ ~ok]
  /\ Go(th, "check")
  /\ UNCHANGED <<kernelOf, deviceOf, ready, attr>>

CheckLaunch_none(th) ==  \* MUTANT: a refused launch is only reported by cudaGetLastError
  /\ pc[th] = "check"
  /\ Answer(th, "cudaSuccess")
  /\ UNCHANGED <<kernelOf, deviceOf, queued, lastError, ready, attr>>

\* FA_CUDA_TRY_LAUNCH: cudaGetLastError reads and clears the last error.
CheckLaunch(th) ==
  /\ pc[th] = "check"
  /\ Answer(th, IF lastError[th] THEN "launch" ELSE "cudaSuccess")
  /\ lastError' = [lastError EXCEPT ![th] = FALSE]
  /\ UNCHANGED <<kernelOf, deviceOf, queued, ready, attr>>

Step(th) == \/ Forward(th) \/ CheckCap(th) \/ CheckReady(th) \/ CheckVersion(th)
            \/ SetAttribute(th) \/ Publish(th) \/ Launch(th) \/ CheckLaunch(th)
HostNext == \E th \in HostThread : Step(th)
HostSpec == HostInit /\ [][HostNext]_hostVars

-------------------------------------------------------------------------------
TypeOK ==
  /\ pc \in [HostThread -> {"idle", "cap", "ready", "version", "attribute", "publish",
                              "launch", "check"}]
  /\ kernelOf \in [HostThread -> Instantiation]
  /\ deviceOf \in [HostThread -> Device]
  /\ queued \in [HostThread -> BOOLEAN]
  /\ returned \in [HostThread -> Result]
  /\ lastError \in [HostThread -> BOOLEAN]
  /\ ready \in [Instantiation -> SUBSET {x \in Device : x < Bits}]
  /\ attr \subseteq Instantiation \X Device

\* Whoever set a bit, and after whatever failures, a kernel that needs the
\* opt-in is launched only on devices where its own attribute has been set:
\* the cache of prepare_once is per instantiation and per device, published
\* after the call it stands for, and silent for devices without a bit.
LaunchPrepared ==
  \A th \in HostThread :
    pc[th] = "launch" /\ kernelOf[th] \in OptIn => <<kernelOf[th], deviceOf[th]>> \in attr

\* No bf16 stub is ever launched (it traps and poisons the whole context), on
\* any device and by any thread, whether or not another one has prepared the
\* kernel elsewhere.
NoStubLaunch ==
  \A th \in HostThread :
    pc[th] = "launch" /\ kernelOf[th] \in Bf16 => <<kernelOf[th], deviceOf[th]>> \notin OldBinary

\* cudaSuccess means that this very call's kernel is on the stream, also
\* after earlier calls of the thread failed at any step.
SuccessMeansQueued ==
  [][\A th \in HostThread :
       pc[th] = "check" /\ pc'[th] = "idle" /\ returned'[th] = "cudaSuccess" => queued[th]]_hostVars

\* "After a kernel launch: catches launch-configuration errors and sticky
\* errors from earlier asynchronous work" (cuda_check.cuh:30): without
\* asynchronous faults, the launch check reports an error only of this launch.
LaunchErrorIsOwn ==
  [][\A th \in HostThread :
       pc[th] = "check" /\ pc'[th] = "idle" /\ returned'[th] = "launch" => ~queued[th]]_hostVars
===============================================================================
