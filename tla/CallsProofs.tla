------------------------------ MODULE CallsProofs ------------------------------
(***************************************************************************)
(* The calls, of the fused and of the materialising stages, for any number *)
(* of threads, kernels and devices, every length, number of heads, calls,  *)
(* streams and memory blocks and every block size.  No kernel of a fused   *)
(* stage is launched unprepared, and success is never reported for a       *)
(* launch that was refused.  Kernels of a materialising call that has      *)
(* failed may still run, but never the one that writes its output; the     *)
(* kernels of a call that succeeds each find what the one before has left, *)
(* although the workspace was given back before any of them ran.           *)
(***************************************************************************)
EXTENDS HostCalls, MaterialisedCalls, TLAPS

-------------------------------------------------------------------------------
(* The host side of a fused stage.                                         *)

\* What prepare_once establishes for kernel x on device y.  Neither half is
\* ever undone.
Versioned(x, y) == x \in Bf16 => <<x, y>> \notin OldBinary
Prepared(x, y)  == (x \in OptIn => <<x, y>> \in attr) /\ Versioned(x, y)

\* A set bit stands for a prepared kernel, whichever thread set it; and each
\* thread has done what its place in the program says.
WordsTrue  == \A x \in Instantiation : \A y \in ready[x] : Prepared(x, y)
PlaceTrue  == \A th \in HostThread :
                /\ pc[th] = "attribute" => Versioned(kernelOf[th], deviceOf[th])
                /\ pc[th] \in {"publish", "launch"} => Prepared(kernelOf[th], deviceOf[th])
ChecksTrue == \A th \in HostThread : pc[th] = "check" /\ ~lastError[th] => queued[th]

HostInv == TypeOK /\ WordsTrue /\ PlaceTrue /\ ChecksTrue

\* The bits of a device are its own and fit the word.
LEMMA BitsOfDevice ==
  ASSUME NEW dev \in Device
  PROVE  /\ BitOf(dev) \subseteq {x \in Device : x < Bits}
         /\ \A b \in BitOf(dev) : b = dev
  BY DEF BitOf

LEMMA InitHostInv == ASSUME HostInit PROVE HostInv
  <1>1. /\ (CHOOSE x \in Instantiation : TRUE) \in Instantiation
        /\ (CHOOSE x \in Device : TRUE) \in Device
    BY HostAssumption
  <1> QED
    BY <1>1 DEF HostInit, HostInv, TypeOK, WordsTrue, PlaceTrue, ChecksTrue, Result

\* Every step keeps the types: threads only move along their program, and a
\* bit is set only for a device that has one.
LEMMA StepTyped ==
  ASSUME TypeOK, NEW th \in HostThread, Step(th)
  PROVE  TypeOK'
  <1>1. CASE Forward(th)
    BY <1>1 DEF TypeOK, Forward, Go, Answer, Result
  <1>2. CASE CheckCap(th)
    BY <1>2 DEF TypeOK, CheckCap, Go, Answer, Result
  <1>3. CASE CheckReady(th)
    BY <1>3 DEF TypeOK, CheckReady, AfterReady, Go, Answer, Result
  <1>4. CASE CheckVersion(th)
    BY <1>4 DEF TypeOK, CheckVersion, Go, Answer, Result
  <1>5. CASE SetAttribute(th)
    <2>1. attr' \subseteq Instantiation \X Device
      BY <1>5 DEF TypeOK, SetAttribute
    <2>2. lastError' \in [HostThread -> BOOLEAN]
      BY <1>5 DEF TypeOK, SetAttribute
    <2>3. pc' \in [HostThread -> {"idle", "cap", "ready", "version", "attribute", "publish",
                                   "launch", "check"}] /\ returned' \in [HostThread -> Result]
      BY <1>5 DEF TypeOK, SetAttribute, Go, Answer, Result
    <2> QED
      BY <1>5, <2>1, <2>2, <2>3 DEF TypeOK, SetAttribute
  <1>6. CASE Publish(th)
    <2>1. BitOf(deviceOf[th]) \subseteq {x \in Device : x < Bits}
      BY BitsOfDevice DEF TypeOK
    <2> QED
      BY <1>6, <2>1 DEF TypeOK, Publish, Go, Answer, Result
  <1>7. CASE Launch(th)
    <2>1. PICK ok \in BOOLEAN : /\ queued' = [queued EXCEPT ![th] = ok]
                                /\ lastError' = [lastError EXCEPT ![th] = @ \/ ~ok]
      BY <1>7 DEF Launch
    <2>2. queued' \in [HostThread -> BOOLEAN] /\ lastError' \in [HostThread -> BOOLEAN]
      BY <2>1, Zenon DEF TypeOK
    <2> QED
      BY <1>7, <2>2 DEF TypeOK, Launch, Go, Answer, Result
  <1>8. CASE CheckLaunch(th)
    BY <1>8 DEF TypeOK, CheckLaunch, Go, Answer, Result
  <1> QED
    BY <1>1, <1>2, <1>3, <1>4, <1>5, <1>6, <1>7, <1>8 DEF Step

\* Attributes are only added, so what is prepared stays so.
LEMMA StepKeepsPrepared ==
  ASSUME NEW th \in HostThread, Step(th), NEW x, NEW y, Prepared(x, y)
  PROVE  Prepared(x, y)'
  BY DEF Step, Forward, CheckCap, CheckReady, CheckVersion, SetAttribute, Publish, Launch,
         CheckLaunch, Prepared, Versioned

\* A word is changed by Publish alone, for the kernel and the device that
\* its thread has prepared.
LEMMA StepWords ==
  ASSUME HostInv, NEW th \in HostThread, Step(th)
  PROVE  WordsTrue'
  <1>1. CASE Publish(th)
    <2>1. Prepared(kernelOf[th], deviceOf[th])
      BY <1>1 DEF HostInv, PlaceTrue, Publish
    <2>2. SUFFICES ASSUME NEW x \in Instantiation, NEW y \in ready'[x] PROVE Prepared(x, y)
      BY StepKeepsPrepared DEF WordsTrue
    <2>3. y \in ready[x] \/ (x = kernelOf[th] /\ y \in BitOf(deviceOf[th]))
      BY <1>1 DEF Publish, HostInv, TypeOK
    <2> QED
      BY <2>1, <2>3, BitsOfDevice DEF HostInv, TypeOK, WordsTrue
  <1>2. CASE ~Publish(th)
    <2>1. UNCHANGED ready
      BY <1>2 DEF Step, Forward, CheckCap, CheckReady, CheckVersion, SetAttribute, Launch,
                  CheckLaunch
    <2> QED
      BY <2>1, StepKeepsPrepared DEF HostInv, WordsTrue
  <1> QED
    BY <1>1, <1>2

\* The steps of one thread disturb neither the call nor the place of another.
LEMMA StepIsLocal ==
  ASSUME TypeOK, NEW th \in HostThread, Step(th), NEW other \in HostThread, other # th
  PROVE  /\ pc'[other] = pc[other]
         /\ kernelOf'[other] = kernelOf[other] /\ deviceOf'[other] = deviceOf[other]
         /\ queued'[other] = queued[other] /\ lastError'[other] = lastError[other]
  <1>1. CASE Launch(th)
    BY <1>1 DEF Launch, TypeOK, Go
  <1>2. CASE ~Launch(th)
    BY <1>2 DEF TypeOK, Step, Forward, CheckCap, CheckReady, CheckVersion, SetAttribute, Publish,
                CheckLaunch, Go, Answer
  <1> QED
    BY <1>1, <1>2

LEMMA StepPlace ==
  ASSUME HostInv, NEW th \in HostThread, Step(th)
  PROVE  PlaceTrue'
  <1> DEFINE Holds(h) == /\ pc[h] = "attribute" => Versioned(kernelOf[h], deviceOf[h])
                         /\ pc[h] \in {"publish", "launch"} => Prepared(kernelOf[h], deviceOf[h])
  <1>1. ASSUME NEW h \in HostThread, h # th
        PROVE  Holds(h)'
    <2>1. pc'[h] = pc[h] /\ kernelOf'[h] = kernelOf[h] /\ deviceOf'[h] = deviceOf[h]
      BY <1>1, StepIsLocal DEF HostInv
    <2> QED
      BY <2>1, StepKeepsPrepared DEF HostInv, PlaceTrue, Versioned
  <1>2. Holds(th)'
    <2> USE DEF HostInv, TypeOK
    <2>1. CASE Forward(th)
      BY <2>1 DEF Forward, Go, Answer
    <2>2. CASE CheckCap(th)
      BY <2>2 DEF CheckCap, Go, Answer
    <2>3. CASE CheckReady(th)
      <3>1. BitOf(deviceOf[th]) \cap ready[kernelOf[th]] # {} =>
              Prepared(kernelOf[th], deviceOf[th])
        BY BitsOfDevice DEF WordsTrue
      <3> QED
        BY <2>3, <3>1 DEF CheckReady, AfterReady, Go, Versioned, Prepared
    <2>4. CASE CheckVersion(th)
      BY <2>4 DEF CheckVersion, Go, Answer, Versioned, Prepared
    <2>5. CASE SetAttribute(th)
      BY <2>5 DEF SetAttribute, Go, Answer, PlaceTrue, Versioned, Prepared
    <2>6. CASE Publish(th)
      BY <2>6 DEF Publish, Go, PlaceTrue, Versioned, Prepared
    <2>7. CASE Launch(th)
      BY <2>7 DEF Launch, Go
    <2>8. CASE CheckLaunch(th)
      BY <2>8 DEF CheckLaunch, Answer
    <2> QED
      BY <2>1, <2>2, <2>3, <2>4, <2>5, <2>6, <2>7, <2>8 DEF Step
  <1> QED
    BY <1>1, <1>2 DEF PlaceTrue

\* A thread gets to its launch check only through Launch, which leaves an
\* error behind whenever the driver refused.
LEMMA StepChecks ==
  ASSUME HostInv, NEW th \in HostThread, Step(th)
  PROVE  ChecksTrue'
  <1> DEFINE Holds(h) == pc[h] = "check" /\ ~lastError[h] => queued[h]
  <1>1. ASSUME NEW h \in HostThread, h # th
        PROVE  Holds(h)'
    BY <1>1, StepIsLocal DEF HostInv, ChecksTrue
  <1>2. Holds(th)'
    <2>1. CASE Launch(th)
      <3>1. PICK ok \in BOOLEAN : /\ queued' = [queued EXCEPT ![th] = ok]
                                  /\ lastError' = [lastError EXCEPT ![th] = @ \/ ~ok]
        BY <2>1 DEF Launch
      <3>2. queued'[th] = ok /\ (lastError'[th] <=> (lastError[th] \/ ~ok))
        BY <3>1, Zenon DEF HostInv, TypeOK
      <3> QED
        BY <3>2
    <2>2. CASE ~Launch(th)
      <3>1. pc'[th] # "check"
        BY <2>2 DEF HostInv, TypeOK, Step, Forward, CheckCap, CheckReady, AfterReady, CheckVersion,
                    SetAttribute, Publish, CheckLaunch, Go, Answer
      <3> QED
        BY <3>1
    <2> QED
      BY <2>1, <2>2
  <1> QED
    BY <1>1, <1>2 DEF ChecksTrue

\* The inductive invariant of the host side.
THEOREM HostInvariant == HostSpec => []HostInv
  <1>1. HostInit => HostInv
    BY InitHostInv
  <1>2. HostInv /\ [HostNext]_hostVars => HostInv'
    <2>1. ASSUME HostInv, NEW th \in HostThread, Step(th) PROVE HostInv'
      BY <2>1, StepTyped, StepWords, StepPlace, StepChecks DEF HostInv
    <2>2. ASSUME HostInv, UNCHANGED hostVars PROVE HostInv'
      BY <2>2 DEF HostInv, TypeOK, WordsTrue, PlaceTrue, ChecksTrue, Prepared, Versioned, hostVars
    <2> QED
      BY <2>1, <2>2 DEF HostNext
  <1> QED
    BY <1>1, <1>2, PTL DEF HostSpec

\* Type correctness of the host side: no word ever has a bit past its end.
THEOREM HostTypeCorrect == HostSpec => []TypeOK
  <1>1. HostInv => TypeOK
    BY DEF HostInv
  <1> QED
    BY <1>1, HostInvariant, PTL

\* A kernel that needs the opt-in is launched only where it has been set.
THEOREM LaunchesPrepared == HostSpec => []LaunchPrepared
  <1>1. HostInv => LaunchPrepared
    BY DEF HostInv, PlaceTrue, Prepared, LaunchPrepared
  <1> QED
    BY <1>1, HostInvariant, PTL

\* No bf16 stub is launched, on any device.
THEOREM StubsNeverLaunched == HostSpec => []NoStubLaunch
  <1>1. HostInv => NoStubLaunch
    BY DEF HostInv, PlaceTrue, Prepared, Versioned, NoStubLaunch
  <1> QED
    BY <1>1, HostInvariant, PTL

\* A call that returns cudaSuccess has queued its kernel.
THEOREM SuccessIsTrue == HostSpec => SuccessMeansQueued
  <1> DEFINE Honest == \A th \in HostThread :
        pc[th] = "check" /\ pc'[th] = "idle" /\ returned'[th] = "cudaSuccess" => queued[th]
  <1>1. HostInv /\ [HostNext]_hostVars => [Honest]_hostVars
    <2>1. SUFFICES ASSUME HostInv, NEW actor \in HostThread, Step(actor), NEW th \in HostThread,
                          pc[th] = "check", pc'[th] = "idle", returned'[th] = "cudaSuccess"
                   PROVE  queued[th]
      BY DEF HostNext
    <2>2. CASE actor = th
      <3>1. CheckLaunch(th)
        BY <2>1, <2>2 DEF Step, Forward, CheckCap, CheckReady, CheckVersion, SetAttribute, Publish,
                          Launch
      <3>2. ~lastError[th]
        BY <2>1, <3>1 DEF CheckLaunch, Answer, HostInv, TypeOK
      <3> QED
        BY <2>1, <3>2 DEF HostInv, ChecksTrue
    <2>3. CASE actor # th
      BY <2>1, <2>3, StepIsLocal DEF HostInv
    <2> QED
      BY <2>2, <2>3
  <1> QED
    BY <1>1, HostInvariant, PTL DEF HostSpec, SuccessMeansQueued

-------------------------------------------------------------------------------
(* The materialising calls.                                                *)

Untouched(c) == \A h \in BH, i \in Key, d \in Elem : o[c][h][i][d] = Unwritten

\* The host has launched the last kernel of the call, or has given it up.
Past(c) == c < call \/ (c = call /\ hpc = "return")

Job == [kernel : Kernel, call : Call]

Typed ==
  /\ call \in Nat \ {0}
  /\ hpc \in Kernel \cup {"alloc", "return"}
  /\ hpc # "alloc" => call \in Call
  /\ stream \in [Call -> Stream]
  /\ result \in [Call -> {"none", "ok", "error"}]
  /\ queue \in [Stream -> Seq(Job)]
  /\ DOMAIN o = Call

\* Until then nothing is known of it and nothing of its output is written.
Fresh == \A c \in Call : ~ Past(c) => result[c] = "none" /\ Untouched(c)

\* An output kernel is in a queue only of a call that went through.
Granted(e) == e.kernel = "pv" => Past(e.call) /\ result[e.call] # "error"
OutputsGranted == \A st \in Stream : \A n \in 1 .. Len(queue[st]) : Granted(queue[st][n])

FailedUntouched == \A c \in Call : result[c] = "error" => Untouched(c)

CallInv == Typed /\ Fresh /\ OutputsGranted /\ FailedUntouched

\* What is queued are kernels of calls.
LEMMA QueuedJobs ==
  ASSUME Typed, NEW st \in Stream
  PROVE  /\ queue[st] \in Seq(Job)
         /\ \A n \in 1 .. Len(queue[st]) : queue[st][n] \in Job
  BY DEF Typed

\* A call is one that has been made, is being made, or comes later.
LEMMA CallNumbers == \A c \in Call : c \in Nat
  BY CallAssumption DEF Call

\* The queues stay granted when each job in them was there, granted, before,
\* or is granted now.
LEMMA StillGranted ==
  ASSUME Typed, OutputsGranted,
         \A st \in Stream : \A n \in 1 .. Len(queue'[st]) :
           \/ \E n2 \in 1 .. Len(queue[st]) : queue'[st][n] = queue[st][n2]
           \/ Granted(queue[st][n])',
         \A e \in Job : Granted(e) => Granted(e)'
  PROVE  OutputsGranted'
<1>. SUFFICES ASSUME NEW st \in Stream, NEW n \in 1 .. Len(queue'[st])
              PROVE  Granted(queue[st][n])'
  BY DEF OutputsGranted
<1>1. CASE \E n2 \in 1 .. Len(queue[st]) : queue'[st][n] = queue[st][n2]
  <2>1. PICK n2 \in 1 .. Len(queue[st]) : queue'[st][n] = queue[st][n2]
    BY <1>1
  <2>2. PICK e \in Job : e = queue[st][n2]
    BY QueuedJobs
  <2>3. Granted(e)
    BY <2>2 DEF OutputsGranted
  <2>4. Granted(e)'
    BY <2>3
  <2>. QED
    BY <2>1, <2>2, <2>4 DEF Granted
<1>. QED
  BY <1>1

\* One job more at the end of one queue.
LEMMA OneMore ==
  ASSUME Typed, NEW s1 \in Stream, NEW e \in Job,
         queue' = [queue EXCEPT ![s1] = Append(@, e)]
  PROVE  /\ queue' \in [Stream -> Seq(Job)]
         /\ \A st \in Stream : \A n \in 1 .. Len(queue'[st]) :
              \/ \E n2 \in 1 .. Len(queue[st]) : queue'[st][n] = queue[st][n2]
              \/ queue'[st][n] = e
<1>1. queue \in [Stream -> Seq(Job)]
  BY DEF Typed
<1>2. ASSUME NEW q \in Seq(Job)
      PROVE  /\ Append(q, e) \in Seq(Job)
             /\ \A n \in 1 .. Len(Append(q, e)) :
                  (n \in 1 .. Len(q) /\ Append(q, e)[n] = q[n]) \/ Append(q, e)[n] = e
  OBVIOUS
<1>3. queue' \in [Stream -> Seq(Job)]
  BY <1>1, <1>2
<1>4. ASSUME NEW st \in Stream, NEW n \in 1 .. Len(queue'[st])
      PROVE  \/ \E n2 \in 1 .. Len(queue[st]) : queue'[st][n] = queue[st][n2]
             \/ queue'[st][n] = e
  <2>1. CASE st = s1
    <3>1. queue'[st] = Append(queue[st], e) /\ queue[st] \in Seq(Job)
      BY <1>1, <2>1
    <3>. QED
      BY <1>2, <3>1
  <2>2. CASE st # s1
    <3>1. queue'[st] = queue[st]
      BY <1>1, <2>2
    <3>. QED
      BY <3>1
  <2>. QED
    BY <2>1, <2>2
<1>. QED
  BY <1>3, <1>4

\* The launches of a call.
LEMMA LaunchKeepsInv ==
  ASSUME CallInv, NEW kernel \in Kernel, LaunchKernel(kernel)
  PROVE  CallInv'
<1>1. /\ Typed /\ Fresh /\ OutputsGranted /\ FailedUntouched
      /\ hpc = kernel /\ UNCHANGED <<call, stream, o>>
      /\ \/ queue' = queue
         \/ queue' = [queue EXCEPT ![stream[call]] = Append(@, [kernel |-> kernel, call |-> call])]
      /\ \/ hpc' = AfterLaunch[kernel] /\ result' = result
         \/ /\ hpc' = "return" /\ result' = [result EXCEPT ![call] = "error"]
            /\ queue' = queue \/ kernel = "qk"
  BY DEF CallInv, LaunchKernel, AfterRefusal
<1>2. kernel \in {"qk", "softmax", "pv"} /\ hpc # "alloc" /\ hpc # "return"
  BY <1>1 DEF Kernel
<1>3. call \in Call /\ call \in Nat /\ stream[call] \in Stream /\ ~ Past(call)
  BY <1>1, <1>2 DEF Typed, Past
<1>4. result[call] = "none" /\ Untouched(call)
  BY <1>1, <1>3 DEF Fresh
<1>5. PICK job \in Job : job = [kernel |-> kernel, call |-> call]
  BY <1>3 DEF Job
<1>6. /\ queue' \in [Stream -> Seq(Job)]
      /\ \A st \in Stream : \A n \in 1 .. Len(queue'[st]) :
           \/ \E n2 \in 1 .. Len(queue[st]) : queue'[st][n] = queue[st][n2]
           \/ queue' # queue /\ queue'[st][n] = job
  <2>1. CASE queue' = queue
    BY <1>1, <2>1 DEF Typed
  <2>2. CASE queue' = [queue EXCEPT ![stream[call]] = Append(@, [kernel |-> kernel, call |-> call])]
            /\ queue' # queue
    <3>1. queue' = [queue EXCEPT ![stream[call]] = Append(@, job)]
      BY <1>5, <2>2
    <3>2. PICK s1 \in Stream : s1 = stream[call]
      BY <1>3
    <3>3. queue' = [queue EXCEPT ![s1] = Append(@, job)]
      BY <3>1, <3>2
    <3>. QED
      BY <1>1, <2>2, <3>3, OneMore
  <2>. QED
    BY <1>1, <2>1, <2>2
<1>7. hpc' \in Kernel \cup {"return"} /\ (kernel = "pv" => hpc' = "return")
  BY <1>1, <1>2 DEF AfterLaunch, Kernel
<1>8. Typed'
  <2>1. result' \in [Call -> {"none", "ok", "error"}]
    BY <1>1 DEF Typed
  <2>. QED
    BY <1>1, <1>3, <1>6, <1>7, <2>1 DEF Typed
<1>9. \A c \in Call : /\ Past(c) => Past(c)' /\ result'[c] = result[c]
                      /\ ~ Past(c)' => ~ Past(c) /\ (c = call => hpc' # "return")
                      /\ Untouched(c)' <=> Untouched(c)
  <2>1. \A c \in Call : Past(c) => c # call /\ c < call
    BY <1>3 DEF Past
  <2>2. \A c \in Call : c # call => result'[c] = result[c]
    BY <1>1 DEF Typed
  <2>3. \A c \in Call : Untouched(c)' <=> Untouched(c)
    BY <1>1 DEF Untouched
  <2>. QED
    BY <1>1, <2>1, <2>2, <2>3 DEF Past
<1>10. Fresh'
  <2>. SUFFICES ASSUME NEW c \in Call, ~ Past(c)' PROVE (result'[c] = "none") /\ Untouched(c)'
    BY DEF Fresh
  <2>1. ~ Past(c) /\ result[c] = "none" /\ Untouched(c)
    BY <1>1, <1>9 DEF Fresh
  <2>2. result'[c] = result[c]
    BY <1>1, <1>9 DEF Typed
  <2>. QED
    BY <1>9, <2>1, <2>2
<1>11. OutputsGranted'
  <2>1. \A e \in Job : Granted(e) => Granted(e)'
    <3>1. \A e \in Job : e.call \in Call
      BY DEF Job
    <3>. QED
      BY <1>9, <3>1 DEF Granted
  <2>2. queue' # queue => Granted(job)'
    <3>. SUFFICES ASSUME queue' # queue, kernel = "pv" PROVE Past(call)' /\ result'[call] # "error"
      BY <1>1, <1>5 DEF Granted, Past
    <3>1. hpc' = "return" /\ result' = result /\ call' = call
      BY <1>1, <1>7
    <3>. QED
      BY <1>4, <3>1 DEF Past
  <2>3. \A st \in Stream : \A n \in 1 .. Len(queue'[st]) :
          \/ \E n2 \in 1 .. Len(queue[st]) : queue'[st][n] = queue[st][n2]
          \/ Granted(queue[st][n])'
    BY <1>6, <2>2 DEF Granted
  <2>. QED
    BY <1>1, <2>1, <2>3, StillGranted
<1>12. FailedUntouched'
  <2>1. \A c \in Call : c # call => result'[c] = result[c]
    BY <1>1 DEF Typed
  <2>. QED
    BY <1>1, <1>4, <1>9, <2>1 DEF FailedUntouched
<1>. QED
  BY <1>8, <1>10, <1>11, <1>12 DEF CallInv

\* A block writes the output of no call but the one whose output kernel it
\* belongs to.
LEMMA BlockKeepsInv ==
  ASSUME CallInv, NEW st \in Stream, RunBlock(st)
  PROVE  CallInv'
<1>1. Typed /\ Fresh /\ OutputsGranted /\ FailedUntouched /\ queue[st] # <<>>
  BY DEF CallInv, RunBlock
<1>2. PICK e \in Job : e = Head(queue[st]) /\ Granted(e)
  <2>1. queue[st] \in Seq(Job)
    BY <1>1, QueuedJobs
  <2>2. 1 \in 1 .. Len(queue[st]) /\ Head(queue[st]) = queue[st][1]
    BY <1>1, <2>1
  <2>. QED
    BY <1>1, <2>2, QueuedJobs DEF OutputsGranted
<1>3. e.call \in Call /\ e.kernel \in {"qk", "softmax", "pv"}
  BY DEF Job, Kernel
<1>4. PICK block \in Grid(e.kernel) \ ran[st] :
        CASE e.kernel = "qk"      -> Scores(e.call, block[1], block[2])
          [] e.kernel = "softmax" -> Softmax(e.call, block[1], block[2])
          [] e.kernel = "pv"      -> Output(e.call, block[1], block[2])
  BY <1>2 DEF RunBlock
<1>5. UNCHANGED <<call, hpc, stream, result, queue>>
  BY DEF RunBlock, host
<1>6. /\ DOMAIN o' = Call
      /\ \A c \in Call : Untouched(c) => Untouched(c)' \/ (Past(c) /\ result[c] # "error")
  <2>1. CASE e.kernel = "pv"
    <3>1. Output(e.call, block[1], block[2])
      BY <1>4, <2>1
    <3>2. DOMAIN o' = Call /\ \A c \in Call : c # e.call => o'[c] = o[c]
      BY <1>1, <1>3, <3>1 DEF Output, Typed
    <3>3. Past(e.call) /\ result[e.call] # "error"
      BY <1>2, <2>1 DEF Granted
    <3>. QED
      BY <3>2, <3>3 DEF Untouched
  <2>2. CASE e.kernel # "pv"
    <3>1. o' = o
      BY <1>3, <1>4, <2>2 DEF Scores, Softmax
    <3>. QED
      BY <1>1, <3>1 DEF Untouched, Typed
  <2>. QED
    BY <2>1, <2>2
<1>7. \A c \in Call : Past(c)' <=> Past(c)
  BY <1>5 DEF Past
<1>8. Typed'
  BY <1>1, <1>5, <1>6 DEF Typed
<1>9. Fresh' /\ FailedUntouched'
  BY <1>1, <1>5, <1>6, <1>7 DEF Fresh, FailedUntouched
<1>10. OutputsGranted'
  BY <1>1, <1>5 DEF OutputsGranted, Granted, Past
<1>. QED
  BY <1>8, <1>9, <1>10 DEF CallInv

\* What is queued behind a finished kernel was queued before.
LEMMA FinishKeepsInv ==
  ASSUME CallInv, NEW s1 \in Stream, FinishKernel(s1)
  PROVE  CallInv'
<1>1. /\ Typed /\ Fresh /\ OutputsGranted /\ FailedUntouched
      /\ queue[s1] # <<>>
      /\ queue' = [queue EXCEPT ![s1] = Tail(@)]
      /\ UNCHANGED <<call, hpc, stream, result, o>>
  BY DEF CallInv, FinishKernel, host
<1>2. ASSUME NEW q \in Seq(Job), q # <<>>
      PROVE  /\ Tail(q) \in Seq(Job)
             /\ \A n \in 1 .. Len(Tail(q)) : \E n2 \in 1 .. Len(q) : Tail(q)[n] = q[n2]
  <2>1. Tail(q) \in Seq(Job) /\ Len(Tail(q)) = Len(q) - 1
    BY <1>2
  <2>2. ASSUME NEW n \in 1 .. Len(Tail(q)) PROVE Tail(q)[n] = q[n + 1] /\ n + 1 \in 1 .. Len(q)
    BY <1>2, <2>1
  <2>. QED
    BY <2>1, <2>2
<1>3. ASSUME NEW st \in Stream
      PROVE  /\ queue'[st] \in Seq(Job)
             /\ \A n \in 1 .. Len(queue'[st]) :
                  \E n2 \in 1 .. Len(queue[st]) : queue'[st][n] = queue[st][n2]
  <2>1. queue[st] \in Seq(Job)
    BY <1>1, QueuedJobs
  <2>2. CASE st = s1
    <3>1. queue'[st] = Tail(queue[st]) /\ queue[st] # <<>>
      BY <1>1, <2>2 DEF Typed
    <3>. QED
      BY <1>2, <2>1, <3>1
  <2>3. CASE st # s1
    <3>1. queue'[st] = queue[st]
      BY <1>1, <2>3 DEF Typed
    <3>. QED
      BY <2>1, <3>1
  <2>. QED
    BY <2>2, <2>3
<1>4. queue' \in [Stream -> Seq(Job)]
  <2>1. DOMAIN queue = Stream
    BY <1>1 DEF Typed
  <2>2. queue' = [st \in Stream |-> queue'[st]]
    BY <1>1, <2>1
  <2>. QED
    BY <1>3, <2>2
<1>5. Typed' /\ Fresh' /\ FailedUntouched'
  BY <1>1, <1>4 DEF Typed, Fresh, FailedUntouched, Past, Untouched
<1>6. OutputsGranted'
  <2>1. \A e \in Job : Granted(e) => Granted(e)'
    BY <1>1 DEF Granted, Past
  <2>. QED
    BY <1>1, <1>3, <2>1, StillGranted
<1>. QED
  BY <1>5, <1>6 DEF CallInv

\* A workspace is taken, and given back with the call's result; no queue and
\* no output moves.
LEMMA HostKeepsInv ==
  ASSUME CallInv, Alloc \/ Return
  PROVE  CallInv'
<1>1. /\ Typed /\ Fresh /\ OutputsGranted /\ FailedUntouched
      /\ UNCHANGED <<stream, queue, o>>
  BY DEF CallInv, Alloc, Return, device
<1>2. CASE Alloc
  <2>1. /\ hpc = "alloc" /\ call <= Calls /\ hpc' = "qk" /\ UNCHANGED <<call, result>>
    BY <1>2 DEF Alloc
  <2>2. call \in Call /\ hpc' \in Kernel
    BY <1>1, <2>1, CallAssumption DEF Typed, Call, Kernel
  <2>3. Typed'
    BY <1>1, <2>1, <2>2 DEF Typed
  <2>4. \A c \in Call : (Past(c)' <=> Past(c)) /\ (Untouched(c)' <=> Untouched(c))
    BY <1>1, <2>1 DEF Past, Untouched
  <2>5. Fresh' /\ FailedUntouched'
    BY <1>1, <2>1, <2>4 DEF Fresh, FailedUntouched
  <2>6. OutputsGranted'
    BY <1>1, <2>1 DEF OutputsGranted, Granted, Past
  <2>. QED
    BY <2>3, <2>5, <2>6 DEF CallInv
<1>3. CASE Return
  <2>1. /\ hpc = "return" /\ hpc' = "alloc" /\ call' = call + 1 /\ call \in Nat \ {0}
        /\ result' = [result EXCEPT ![call] = IF @ = "none" THEN "ok" ELSE @]
    BY <1>1, <1>3 DEF Return, Typed
  <2>2. /\ result' \in [Call -> {"none", "ok", "error"}]
        /\ \A c \in Call : /\ result'[c] = "error" <=> result[c] = "error"
                           /\ c # call => result'[c] = result[c]
    BY <1>1, <2>1 DEF Typed
  <2>3. Typed'
    BY <1>1, <2>1, <2>2 DEF Typed
  <2>4. \A c \in Call : /\ Past(c)' <=> Past(c)
                        /\ ~ Past(c) => c # call
                        /\ Untouched(c)' <=> Untouched(c)
    <3>1. \A c \in Call : Past(c)' <=> Past(c)
      BY <2>1, CallNumbers DEF Past
    <3>. QED
      BY <1>1, <2>1, <3>1 DEF Past, Untouched
  <2>5. Fresh' /\ FailedUntouched'
    BY <1>1, <2>2, <2>4 DEF Fresh, FailedUntouched
  <2>6. OutputsGranted'
    <3>1. \A e \in Job : e.call \in Call
      BY DEF Job
    <3>2. \A e \in Job : Granted(e) => Granted(e)'
      BY <2>2, <2>4, <3>1 DEF Granted
    <3>. QED
      BY <1>1, <3>2, StillGranted
  <2>. QED
    BY <2>3, <2>5, <2>6 DEF CallInv
<1>. QED
  BY <1>2, <1>3

\* The inductive invariant of the calls.
THEOREM CallsInvariant == Spec => []CallInv
<1>1. Init => CallInv
  <2>. SUFFICES ASSUME Init PROVE CallInv
    OBVIOUS
  <2>1. /\ hpc = "alloc" /\ call = 1 /\ result = [c \in Call |-> "none"]
        /\ queue = [st \in Stream |-> <<>>]
        /\ o = [c \in Call |-> [h \in BH |-> [i \in Key |-> [d \in Elem |-> Unwritten]]]]
    BY DEF Init
  <2>2. stream \in [Call -> Stream]
    BY CallAssumption DEF Init, Call
  <2>3. queue \in [Stream -> Seq(Job)]
    BY <2>1
  <2>4. Typed
    BY <2>1, <2>2, <2>3 DEF Typed
  <2>5. \A c \in Call : Untouched(c)
    BY <2>1 DEF Untouched
  <2>6. OutputsGranted
    BY <2>1 DEF OutputsGranted
  <2>. QED
    BY <2>1, <2>4, <2>5, <2>6 DEF CallInv, Fresh, FailedUntouched
<1>2. CallInv /\ [Next]_vars => CallInv'
  <2>1. CallInv /\ UNCHANGED vars => CallInv'
    <3>. SUFFICES ASSUME CallInv, UNCHANGED <<call, hpc, stream, result, queue, o>> PROVE CallInv'
      BY DEF vars, host, device
    <3>. QED
      BY DEF CallInv, Typed, Fresh, OutputsGranted, Granted, FailedUntouched, Past, Untouched
  <2>. QED
    BY <2>1, HostKeepsInv, LaunchKeepsInv, BlockKeepsInv, FinishKeepsInv
       DEF Next, HostStep, DeviceStep, Idle
<1>. QED
  BY <1>1, <1>2, PTL DEF Spec

\* A call that reports an error has left its output alone and will, although
\* its earlier kernels may still be queued or running, on any stream.
THEOREM FailedCallsWriteNothing == Spec => []ErrorWritesNothing
<1>1. CallInv => ErrorWritesNothing
  BY DEF CallInv, FailedUntouched, Untouched, ErrorWritesNothing
<1>. QED
  BY <1>1, CallsInvariant, PTL
-------------------------------------------------------------------------------
(* Sharing a workspace.  A block of memory belongs to one stream as long   *)
(* as kernels that use it are queued, and a stream runs them in order, so  *)
(* each kernel finds what its predecessor of the same call has left.       *)

\* The stream whose kernels may use a block of memory.
Owner(b) == IF hpc # "alloc" /\ b = ws[call] THEN stream[call] ELSE pool[b]

QueuedAt(st, e) ==
  /\ stream[e.call] = st /\ ws[e.call] \in Workspace /\ Owner(ws[e.call]) = st
  /\ e.call < call \/ (e.call = call /\ hpc # "alloc")
Owned == \A st \in Stream : \A n \in 1 .. Len(queue[st]) : QueuedAt(st, queue[st][n])

Shapes ==
  /\ DOMAIN ws = Call /\ DOMAIN pool = Workspace /\ DOMAIN ran = Stream
  /\ hpc # "alloc" => ws[call] \in Workspace
  /\ score \in ScoreChoices /\ DOMAIN mem = Workspace
  /\ \A c \in Call : DOMAIN o[c] = BH
  /\ \A st \in Stream : queue[st] = <<>> => ran[st] = {}

\* What the kernels of a call leave in its workspace and in its output.
Vis(c, i) == {j \in Key : causal[c] => j <= i}
SCell(c, h, i, j) == [s |-> IF j \in Vis(c, i) THEN score[c][h][i][j] ELSE NegInf]
PCell(c, h, i, j) ==
  [p |-> IF j \in Vis(c, i)
           THEN [k \in Vis(c, i) |-> score[c][h][i][k] - score[c][h][i][j]] ELSE Zero]
OutRow(c, h, i) ==
  [j \in Vis(c, i) |-> [k \in Vis(c, i) |-> score[c][h][i][k] - score[c][h][i][j]]]

SHeld(c, h, i, j) == mem[ws[c]][SAddr(h, i, j)] = SCell(c, h, i, j)
PHeld(c, h, i, j) == mem[ws[c]][PAddr(h, i, j)] = PCell(c, h, i, j)
SReady(c) == \A h \in BH, i \in Key, j \in Key : SHeld(c, h, i, j)
PReady(c) == \A h \in BH, i \in Key, j \in Key : PHeld(c, h, i, j)
Written(c) == \A h \in BH, i \in Key, d \in Elem : o[c][h][i][d] = OutRow(c, h, i)

\* What the finished blocks of a call's kernel have left, and what the kernel
\* was given to start from.
Begun(kernel, c, done) ==
  /\ kernel = "qk" => \A h \in BH, i \in Key, j \in Key :
       <<h, (i * N + j) \div BlockThreads>> \in done => SHeld(c, h, i, j)
  /\ kernel = "softmax" => /\ SReady(c)
                           /\ \A h \in BH, i \in Key, j \in Key :
                                <<h, i>> \in done => PHeld(c, h, i, j)
  /\ kernel = "pv" => /\ PReady(c)
                      /\ \A h \in BH, i \in Key, d \in Elem :
                           o[c][h][i][d] = IF <<h, (i * Dim + d) \div BlockThreads>> \in done
                                             THEN OutRow(c, h, i) ELSE Unwritten
HeadHolds == \A st \in Stream : queue[st] # <<>> =>
               Begun(Head(queue[st]).kernel, Head(queue[st]).call, ran[st])

\* A later kernel of a call waits right behind its predecessor, also the one
\* the host is about to launch.
Before == [softmax |-> "qk", pv |-> "softmax"]
Follows(q, n, e) ==
  /\ e.kernel # "qk" => q[n - 1] = [kernel |-> Before[e.kernel], call |-> e.call]
  /\ e.kernel = "pv" => Untouched(e.call)
Chained == \A st \in Stream : \A n \in 2 .. Len(queue[st]) : \A e \in Job :
             queue[st][n] = e => Follows(queue[st], n, e)
Launchable ==
  hpc \in {"softmax", "pv"} =>
    LET q == queue[stream[call]]
    IN  IF q = <<>> THEN IF hpc = "pv" THEN PReady(call) ELSE SReady(call)
        ELSE q[Len(q)] = [kernel |-> Before[hpc], call |-> call]

\* The output kernel of a call is queued once, and complete when it has left.
OutputOnce ==
  \A st \in Stream : \A n, n2 \in 1 .. Len(queue[st]) :
    queue[st][n].kernel = "pv" /\ queue[st][n2] = queue[st][n] => n = n2
OutputDue ==
  \A c \in Call : Past(c) /\ result[c] # "error" =>
    Written(c) \/ \E n \in 1 .. Len(queue[stream[c]]) :
                    queue[stream[c]][n] = [kernel |-> "pv", call |-> c]

WorkInv == Shapes /\ Owned /\ HeadHolds /\ Chained /\ Launchable /\ OutputOnce /\ OutputDue

-------------------------------------------------------------------------------
(* Addresses and blocks.                                                   *)

\* A quotient and a remainder are the only ones.
LEMMA Quotient ==
  ASSUME NEW n \in Nat \ {0}, NEW q \in Nat, NEW d \in 0 .. n - 1
  PROVE  /\ q * n + d \in Nat
         /\ (q * n + d) \div n = q
         /\ ((q * n + d) % n) = d
<1>1. \A x \in Nat : /\ x \div n \in Nat /\ (x % n) \in 0 .. n - 1
                     /\ x = n * (x \div n) + (x % n)
  OBVIOUS
<1>2. q * n \in Nat /\ q * n = n * q
  OBVIOUS
<1>3. \A a, b \in Nat : a + 1 <= b => n * a + n <= n * b
  <2>. SUFFICES ASSUME NEW a \in Nat, NEW b \in Nat, a + 1 <= b PROVE n * a + n <= n * b
    OBVIOUS
  <2>1. n * (a + 1) <= n * b
    OBVIOUS
  <2>2. n * (a + 1) = n * a + n
    OBVIOUS
  <2>. QED
    BY <2>1, <2>2
<1>. DEFINE x == q * n + d
            e == x \div n
            f == x % n
<1>4. x \in Nat /\ x = n * q + d
  BY <1>2
<1>5. e \in Nat /\ f \in 0 .. n - 1 /\ x = n * e + f
  BY <1>1, <1>4
<1>. HIDE DEF x, e, f
<1>6. n * q \in Nat /\ n * e \in Nat
  BY <1>2, <1>5
<1>7. ~ (e + 1 <= q) /\ ~ (q + 1 <= e)
  BY <1>3, <1>4, <1>5, <1>6
<1>8. e = q /\ f = d
  <2>1. e = q
    BY <1>5, <1>7
  <2>. QED
    BY <1>4, <1>5, <1>6, <2>1
<1>. QED
  BY <1>4, <1>8 DEF x, e, f

\* Where a score and a weight lie, and what the kernels read off an address.
LEMMA Addresses ==
  ASSUME NEW h \in BH, NEW i \in Key, NEW j \in Key
  PROVE  /\ SAddr(h, i, j) \in Nat /\ SAddr(h, i, j) < PBase
         /\ (SAddr(h, i, j) % N) = j
         /\ ((SAddr(h, i, j) \div N) % N) = i
         /\ (SAddr(h, i, j) \div N) \div N = h
         /\ SAddr(h, i, j) \in Address /\ PAddr(h, i, j) \in Address
         /\ PAddr(h, i, j) - PBase = SAddr(h, i, j)
<1>1. /\ N \in Nat \ {0} /\ Heads \in Nat \ {0}
      /\ h \in Nat /\ h + 1 <= Heads /\ i \in 0 .. N - 1 /\ j \in 0 .. N - 1
  BY CallAssumption DEF BH, Key
<1>. DEFINE row == h * N + i
            a   == row * N + j
<1>2. row \in Nat /\ row \div N = h /\ (row % N) = i
  BY ONLY <1>1, Quotient
<1>3. row + 1 <= Heads * N
  <2>1. (h + 1) * N <= Heads * N
    BY ONLY <1>1
  <2>2. (h + 1) * N = h * N + N
    BY ONLY <1>1
  <2>3. h * N \in Nat /\ Heads * N \in Nat
    BY ONLY <1>1
  <2>. QED
    BY <1>1, <2>1, <2>2, <2>3
<1>. HIDE DEF row
<1>4. a \in Nat /\ a \div N = row /\ (a % N) = j
  BY ONLY <1>1, <1>2, Quotient
<1>5. a < (Heads * N) * N
  <2>1. (row + 1) * N <= (Heads * N) * N
    <3>1. Heads * N \in Nat
      BY ONLY <1>1
    <3>. QED
      BY ONLY <1>1, <1>2, <1>3, <3>1
  <2>2. (row + 1) * N = row * N + N
    BY ONLY <1>1, <1>2
  <2>3. row * N \in Nat /\ (Heads * N) * N \in Nat
    BY ONLY <1>1, <1>2
  <2>. QED
    BY <1>1, <2>1, <2>2, <2>3
<1>. HIDE DEF a
<1>6. SAddr(h, i, j) = a
  BY DEF SAddr, a, row
<1>7. PBase \in Nat /\ PBase = (Heads * N) * N /\ 2 * Heads * N * N = 2 * PBase
  BY <1>1 DEF PBase
<1>8. PAddr(h, i, j) = PBase + a
  BY <1>6 DEF PAddr
<1>9. a < PBase
  BY <1>5, <1>7
<1>10. a \in Address /\ PBase + a \in Address /\ (PBase + a) - PBase = a
  BY <1>4, <1>7, <1>9 DEF Address
<1>. QED
  BY <1>2, <1>4, <1>6, <1>8, <1>9, <1>10

\* The block that has element y among its threads' is in the grid.
LEMMA BlockOf ==
  ASSUME NEW n \in Nat, NEW y \in 0 .. n - 1
  PROVE  /\ y \div BlockThreads \in 0 .. GridBlocks(n) - 1
         /\ \A x \in Nat : y \in ThreadsOf(x, n) <=> y \div BlockThreads = x
<1>. DEFINE b == BlockThreads
            q == y \div b
            g == GridBlocks(n)
<1>1. b \in Nat \ {0} /\ y \in Nat /\ y < n
  BY CallAssumption
<1>2. q \in Nat /\ y = b * q + (y % b) /\ (y % b) \in 0 .. b - 1
  BY <1>1
<1>3. g \in Nat /\ n + b - 1 = b * g + ((n + b - 1) % b) /\ ((n + b - 1) % b) \in 0 .. b - 1
  BY <1>1 DEF GridBlocks
<1>. HIDE DEF b, q, g
<1>4. \A u, v \in Nat : /\ u + 1 <= v => b * u + b <= b * v
                        /\ b * u \in Nat /\ b * u = u * b /\ (u + 1) * b = b * u + b
  <2>. SUFFICES ASSUME NEW u \in Nat, NEW v \in Nat
                PROVE  /\ u + 1 <= v => b * u + b <= b * v
                       /\ b * u \in Nat /\ b * u = u * b /\ (u + 1) * b = b * u + b
    OBVIOUS
  <2>1. u + 1 <= v => b * (u + 1) <= b * v
    BY <1>1
  <2>2. b * (u + 1) = b * u + b /\ b * u \in Nat /\ b * u = u * b /\ (u + 1) * b = b * u + b
    BY <1>1
  <2>. QED
    BY <2>1, <2>2
<1>5. q \in 0 .. g - 1
  <2>1. ~ (g <= q)
    <3>1. g <= q => b * g <= b * q
      BY <1>1, <1>2, <1>3
    <3>2. b * g \in Nat /\ b * q \in Nat
      BY <1>2, <1>3, <1>4
    <3>. QED
      BY <1>1, <1>2, <1>3, <3>1, <3>2
  <2>. QED
    BY <1>2, <1>3, <2>1
<1>6. ASSUME NEW x \in Nat
      PROVE  y \in x * b .. (x + 1) * b - 1 <=> q = x
  <2>1. b * x \in Nat /\ b * q \in Nat /\ x * b = b * x /\ (x + 1) * b = b * x + b
    BY <1>2, <1>4
  <2>2. q + 1 <= x => b * q + b <= b * x
    BY <1>2, <1>4
  <2>3. x + 1 <= q => b * x + b <= b * q
    BY <1>2, <1>4
  <2>4. q = x \/ q + 1 <= x \/ x + 1 <= q
    BY <1>2
  <2>. QED
    BY <1>1, <1>2, <2>1, <2>2, <2>3, <2>4
<1>. QED
  BY <1>1, <1>5, <1>6 DEF ThreadsOf, b, q, g

-------------------------------------------------------------------------------
(* The blocks, on a workspace their call's previous kernel has filled.     *)

\* Two cells of the workspace are the same one only in the same place.
LEMMA CellsApart ==
  ASSUME NEW h \in BH, NEW i \in Key, NEW j \in Key,
         NEW h2 \in BH, NEW i2 \in Key, NEW j2 \in Key
  PROVE  /\ SAddr(h, i, j) = SAddr(h2, i2, j2) => h = h2 /\ i = i2 /\ j = j2
         /\ PAddr(h, i, j) = PAddr(h2, i2, j2) => h = h2 /\ i = i2 /\ j = j2
         /\ SAddr(h, i, j) # PAddr(h2, i2, j2)
<1>1. SAddr(h, i, j) = SAddr(h2, i2, j2) => h = h2 /\ i = i2 /\ j = j2
  BY Addresses
<1>2. PBase \in Nat
  BY CallAssumption DEF PBase
<1>3. /\ SAddr(h, i, j) \in Nat /\ SAddr(h2, i2, j2) \in Nat /\ SAddr(h, i, j) < PBase
      /\ PAddr(h, i, j) = PBase + SAddr(h, i, j)
      /\ PAddr(h2, i2, j2) = PBase + SAddr(h2, i2, j2)
  BY Addresses DEF PAddr
<1>4. /\ PAddr(h, i, j) = PAddr(h2, i2, j2) => SAddr(h, i, j) = SAddr(h2, i2, j2)
      /\ SAddr(h, i, j) # PAddr(h2, i2, j2)
  BY ONLY <1>2, <1>3
<1>. QED
  BY <1>1, <1>4

\* Element y of an n-column matrix and its row and column.
LEMMA Elements ==
  ASSUME NEW n \in Nat \ {0}
  PROVE  /\ \A i \in Key, d \in 0 .. n - 1 :
              i * n + d \in 0 .. N * n - 1 /\ (i * n + d) \div n = i /\ ((i * n + d) % n) = d
         /\ \A y \in 0 .. N * n - 1 :
              y \div n \in Key /\ (y % n) \in 0 .. n - 1 /\ y = (y \div n) * n + (y % n)
<1>1. N \in Nat \ {0}
  BY CallAssumption
<1>2. ASSUME NEW i \in Key, NEW d \in 0 .. n - 1
      PROVE  i * n + d \in 0 .. N * n - 1 /\ (i * n + d) \div n = i /\ ((i * n + d) % n) = d
  <2>1. i \in Nat /\ i + 1 <= N
    BY <1>1 DEF Key
  <2>2. i * n + d \in Nat /\ (i * n + d) \div n = i /\ ((i * n + d) % n) = d
    BY ONLY <2>1, Quotient, n \in Nat \ {0}, d \in 0 .. n - 1
  <2>3. (i + 1) * n <= N * n
    BY ONLY <1>1, <2>1, n \in Nat \ {0}
  <2>4. (i + 1) * n = i * n + n /\ i * n \in Nat /\ N * n \in Nat
    BY ONLY <1>1, <2>1, n \in Nat \ {0}
  <2>. QED
    BY <2>2, <2>3, <2>4
<1>3. ASSUME NEW y \in 0 .. N * n - 1
      PROVE  y \div n \in Key /\ (y % n) \in 0 .. n - 1 /\ y = (y \div n) * n + (y % n)
  <2>. DEFINE q == y \div n
              f == y % n
  <2>1. y \in Nat /\ y < N * n /\ N * n \in Nat
    BY <1>1
  <2>2. q \in Nat /\ f \in 0 .. n - 1 /\ y = n * q + f
    BY <2>1
  <2>. HIDE DEF q, f
  <2>3. n * q = q * n /\ q * n \in Nat
    BY ONLY <2>2, n \in Nat \ {0}
  <2>4. N <= q => N * n <= q * n
    BY ONLY <1>1, <2>2, n \in Nat \ {0}
  <2>5. q < N
    BY <1>1, <2>1, <2>2, <2>3, <2>4
  <2>. QED
    BY <1>1, <2>2, <2>3, <2>5 DEF Key, q, f
<1>. QED
  BY <1>2, <1>3

\* fa_s1_qk writes the scores of its threads, all of one head.
LEMMA ScoresBlock ==
  ASSUME DOMAIN mem = Workspace, NEW c \in Call, ws[c] \in Workspace,
         NEW h \in BH, NEW x \in Nat, Scores(c, h, x)
  PROVE  /\ DOMAIN mem' = Workspace /\ o' = o
         /\ \A b \in Workspace : b # ws[c] => mem'[b] = mem[b]
         /\ \A h2 \in BH, i \in Key, j \in Key :
              mem'[ws[c]][SAddr(h2, i, j)] =
                IF h2 = h /\ (i * N + j) \div BlockThreads = x THEN SCell(c, h2, i, j)
                ELSE mem[ws[c]][SAddr(h2, i, j)]
<1>. DEFINE hit(a)  == \E y \in ThreadsOf(x, N * N) : a = SAddr(h, y \div N, y % N)
            cell(a) == [s |-> IF causal[c] /\ a % N > (a \div N) % N THEN NegInf
                              ELSE score[c][h][(a \div N) % N][a % N]]
            new     == [a \in Address |-> IF hit(a) THEN cell(a) ELSE mem[ws[c]][a]]
<1>1. mem' = [mem EXCEPT ![ws[c]] = new] /\ o' = o
  BY DEF Scores
<1>2. N \in Nat \ {0} /\ N * N \in Nat
  BY CallAssumption
<1>. HIDE DEF new, hit, cell
<1>3. /\ DOMAIN mem' = Workspace /\ mem'[ws[c]] = new
      /\ \A b \in Workspace : b # ws[c] => mem'[b] = mem[b]
  BY <1>1
<1>4. ASSUME NEW h2 \in BH, NEW i \in Key, NEW j \in Key
      PROVE  new[SAddr(h2, i, j)] =
               IF h2 = h /\ (i * N + j) \div BlockThreads = x THEN SCell(c, h2, i, j)
               ELSE mem[ws[c]][SAddr(h2, i, j)]
  <2>. DEFINE a == SAddr(h2, i, j)
              z == i * N + j
  <2>1. a \in Address /\ (a % N) = j /\ ((a \div N) % N) = i
    BY Addresses
  <2>2. z \in 0 .. N * N - 1 /\ z \div N = i /\ (z % N) = j
    BY <1>2, Elements DEF Key
  <2>3. z \in ThreadsOf(x, N * N) <=> z \div BlockThreads = x
    BY <1>2, <2>2, BlockOf
  <2>. HIDE DEF z
  <2>4. hit(a) => h2 = h /\ z \in ThreadsOf(x, N * N)
    <3>. SUFFICES ASSUME NEW y \in ThreadsOf(x, N * N), a = SAddr(h, y \div N, y % N)
                  PROVE  h2 = h /\ y = z
      BY DEF hit
    <3>1. y \in 0 .. N * N - 1
      <4>1. y \in x * BlockThreads .. (x + 1) * BlockThreads - 1 /\ y < N * N
        BY DEF ThreadsOf
      <4>2. x * BlockThreads \in Nat /\ (x + 1) * BlockThreads \in Nat
        BY CallAssumption
      <4>. QED
        BY <1>2, <4>1, <4>2
    <3>2. y \div N \in Key /\ (y % N) \in Key /\ y = (y \div N) * N + (y % N)
      BY <1>2, <3>1, Elements DEF Key
    <3>3. h2 = h /\ i = y \div N /\ j = y % N
      BY <3>2, CellsApart
    <3>. QED
      BY <3>2, <3>3 DEF z
  <2>5. h2 = h /\ z \in ThreadsOf(x, N * N) => hit(a)
    BY <2>2 DEF hit
  <2>6. cell(a) = [s |-> IF causal[c] /\ j > i THEN NegInf ELSE score[c][h][i][j]]
    BY <2>1 DEF cell
  <2>7. j > i <=> ~ (j <= i)
    BY DEF Key
  <2>8. h2 = h => cell(a) = SCell(c, h2, i, j)
    <3>1. j \in Vis(c, i) <=> (causal[c] => j <= i)
      BY DEF Vis
    <3>2. causal[c] /\ j > i <=> j \notin Vis(c, i)
      BY <2>7, <3>1
    <3>. QED
      BY <2>6, <3>2 DEF SCell
  <2>9. new[a] = IF hit(a) THEN cell(a) ELSE mem[ws[c]][a]
    BY <2>1 DEF new
  <2>. HIDE DEF a
  <2>10. new[a] = IF h2 = h /\ z \div BlockThreads = x THEN SCell(c, h2, i, j)
                  ELSE mem[ws[c]][a]
    BY ONLY <2>3, <2>4, <2>5, <2>8, <2>9
  <2>. QED
    BY <2>10 DEF a, z
<1>. QED
  BY <1>1, <1>3, <1>4

\* What a call's kernels leave is told apart from uninitialised memory.
LEMMA CellValues ==
  ASSUME score \in ScoreChoices, NEW c \in Call, NEW h \in BH, NEW i \in Key, NEW j \in Key
  PROVE  /\ Vis(c, i) \in SUBSET Key
         /\ \A k \in Vis(c, i) : score[c][h][i][k] \in Int
         /\ SCell(c, h, i, j) # Undef /\ PCell(c, h, i, j) # Undef
         /\ PCell(c, h, i, j).p # Undef
         /\ PCell(c, h, i, j).p # Zero <=> j \in Vis(c, i)
         /\ SCell(c, h, i, j).s # NegInf <=> j \in Vis(c, i)
<1>. DEFINE V == Vis(c, i)
            f == score[c][h][i]
            w == [k \in V |-> f[k] - f[j]]
<1>1. V \in SUBSET (0 .. N - 1) /\ V \in SUBSET Key
  BY DEF Vis, Key
<1>2. f \in [0 .. N - 1 -> Int]
  <2>1. score \in [Call -> [BH -> [Key -> [Key -> Int]]]]
    BY CallAssumption DEF Call, BH, Key
  <2>2. f \in [Key -> Int]
    BY <2>1
  <2>. QED
    BY <2>2 DEF Key
<1>. HIDE DEF V, f
<1>3. \A k \in Key : f[k] \in Int
  BY <1>2 DEF Key
<1>4. \A k \in V : f[k] \in Int
  BY <1>1, <1>3
<1>5. w \in [V -> Int]
  BY <1>3, <1>4
<1>. HIDE DEF w
<1>6. NegInf \notin Int
  BY SentinelAssumption
<1>7. SCell(c, h, i, j) = [s |-> IF j \in V THEN f[j] ELSE NegInf]
  BY DEF SCell, V, f
<1>8. PCell(c, h, i, j) = [p |-> IF j \in V THEN w ELSE Zero]
  BY DEF PCell, V, f, w
<1>9. SCell(c, h, i, j) # Undef /\ (SCell(c, h, i, j).s # NegInf <=> j \in V)
  <2>1. SCell(c, h, i, j) \in [s : Int \cup {NegInf}]
    BY <1>3, <1>7
  <2>2. SCell(c, h, i, j) # Undef
    BY <2>1, CellAssumption
  <2>3. SCell(c, h, i, j).s = IF j \in V THEN f[j] ELSE NegInf
    BY <1>7
  <2>. QED
    BY <1>3, <1>6, <2>2, <2>3
<1>10. PCell(c, h, i, j).p = IF j \in V THEN w ELSE Zero
  BY <1>8
<1>11. Undef # w /\ Zero # w /\ Undef # Zero
  BY <1>1, <1>5, CellAssumption
<1>12. PCell(c, h, i, j) # Undef
  <2>1. PCell(c, h, i, j) \in [p : [V -> Int] \cup {Zero}]
    BY <1>5, <1>8
  <2>. QED
    BY <1>1, <2>1, CellAssumption
<1>13. PCell(c, h, i, j).p # Undef /\ (PCell(c, h, i, j).p # Zero <=> j \in V)
  BY <1>10, <1>11
<1>. QED
  BY <1>1, <1>4, <1>9, <1>12, <1>13 DEF V, f

\* fa_s1_softmax writes a row of weights.
LEMMA WeightsBlock ==
  ASSUME DOMAIN mem = Workspace, score \in ScoreChoices,
         NEW c \in Call, ws[c] \in Workspace, SReady(c),
         NEW h \in BH, NEW i \in Key, Softmax(c, h, i)
  PROVE  /\ DOMAIN mem' = Workspace /\ o' = o
         /\ \A b \in Workspace : b # ws[c] => mem'[b] = mem[b]
         /\ \A h2 \in BH, i2 \in Key, j \in Key :
              /\ mem'[ws[c]][SAddr(h2, i2, j)] = mem[ws[c]][SAddr(h2, i2, j)]
              /\ mem'[ws[c]][PAddr(h2, i2, j)] =
                   IF h2 = h /\ i2 = i THEN PCell(c, h2, i2, j)
                   ELSE mem[ws[c]][PAddr(h2, i2, j)]
<1>. DEFINE S    == [j \in Key |-> mem[ws[c]][SAddr(h, i, j)]]
            bad  == \E j \in Key : S[j] = Undef \/ "s" \notin DOMAIN S[j]
            live == {j \in Key : S[j].s # NegInf}
            p(j) == IF bad THEN Undef
                    ELSE IF j \in live THEN [k \in live |-> S[k].s - S[j].s] ELSE Zero
            new  == [a \in Address |-> IF \E j \in Key : a = PAddr(h, i, j)
                                         THEN [p |-> p((a - PBase) % N)] ELSE mem[ws[c]][a]]
<1>1. mem' = [mem EXCEPT ![ws[c]] = new] /\ o' = o
  BY DEF Softmax
<1>2. \A j \in Key : S[j] = SCell(c, h, i, j)
  BY DEF SReady, SHeld
<1>3. ~ bad
  <2>1. \A j \in Key : S[j] # Undef
    BY <1>2, CellValues
  <2>2. \A j \in Key : "s" \in DOMAIN SCell(c, h, i, j)
    BY DEF SCell
  <2>. HIDE DEF S
  <2>. QED
    BY <1>2, <2>1, <2>2
<1>4. live = Vis(c, i)
  <2>1. \A j \in Key : S[j].s # NegInf <=> j \in Vis(c, i)
    <3>. HIDE DEF S
    <3>. QED
      BY <1>2, CellValues
  <2>2. \A j \in Vis(c, i) : j \in Key
    BY DEF Vis
  <2>. HIDE DEF S
  <2>. QED
    BY <2>1, <2>2
<1>. HIDE DEF S, bad
<1>5. \A j \in Vis(c, i) : j \in Key /\ S[j].s = score[c][h][i][j]
  <2>1. \A j \in Vis(c, i) : j \in Key /\ S[j] = SCell(c, h, i, j)
    BY <1>2 DEF Vis
  <2>2. \A j \in Vis(c, i) : SCell(c, h, i, j).s = score[c][h][i][j]
    BY DEF SCell
  <2>. QED
    BY <2>1, <2>2
<1>6. \A j \in Key : [p |-> p(j)] = PCell(c, h, i, j)
  <2>. SUFFICES ASSUME NEW j \in Key PROVE [p |-> p(j)] = PCell(c, h, i, j)
    OBVIOUS
  <2>. HIDE DEF live
  <2>1. CASE j \in Vis(c, i)
    <3>1. p(j) = [k \in Vis(c, i) |-> S[k].s - S[j].s]
      BY <1>3, <1>4, <2>1
    <3>2. p(j) = [k \in Vis(c, i) |-> score[c][h][i][k] - score[c][h][i][j]]
      BY <1>5, <2>1, <3>1
    <3>. QED
      BY <2>1, <3>2 DEF PCell
  <2>2. CASE j \notin Vis(c, i)
    BY <1>3, <1>4, <2>2 DEF PCell
  <2>. QED
    BY <2>1, <2>2
<1>. HIDE DEF p, new
<1>7. /\ DOMAIN mem' = Workspace /\ mem'[ws[c]] = new
      /\ \A b \in Workspace : b # ws[c] => mem'[b] = mem[b]
  BY <1>1
<1>8. ASSUME NEW h2 \in BH, NEW i2 \in Key, NEW j \in Key
      PROVE  /\ new[SAddr(h2, i2, j)] = mem[ws[c]][SAddr(h2, i2, j)]
             /\ new[PAddr(h2, i2, j)] = IF h2 = h /\ i2 = i THEN PCell(c, h2, i2, j)
                                        ELSE mem[ws[c]][PAddr(h2, i2, j)]
  <2>1. \A j2 \in Key : SAddr(h2, i2, j) # PAddr(h, i, j2)
    BY CellsApart
  <2>2. new[SAddr(h2, i2, j)] = mem[ws[c]][SAddr(h2, i2, j)]
    BY <2>1, Addresses DEF new
  <2>3. (\E j2 \in Key : PAddr(h2, i2, j) = PAddr(h, i, j2)) <=> h2 = h /\ i2 = i
    BY CellsApart
  <2>4. ((PAddr(h2, i2, j) - PBase) % N) = j
    BY Addresses
  <2>5. new[PAddr(h2, i2, j)] = IF \E j2 \in Key : PAddr(h2, i2, j) = PAddr(h, i, j2)
                                  THEN [p |-> p((PAddr(h2, i2, j) - PBase) % N)]
                                  ELSE mem[ws[c]][PAddr(h2, i2, j)]
    BY Addresses DEF new
  <2>. QED
    BY <1>6, <2>2, <2>3, <2>4, <2>5
<1>. QED
  BY <1>1, <1>7, <1>8

\* fa_s1_pv writes the elements of its threads, all of one head.
LEMMA OutputBlock ==
  ASSUME DOMAIN o = Call, score \in ScoreChoices,
         NEW c \in Call, DOMAIN o[c] = BH, PReady(c),
         NEW h \in BH, NEW x \in Nat, Output(c, h, x)
  PROVE  /\ mem' = mem /\ DOMAIN o' = Call /\ DOMAIN o'[c] = BH
         /\ \A c2 \in Call : c2 # c => o'[c2] = o[c2]
         /\ \A h2 \in BH, i \in Key, d \in Elem :
              o'[c][h2][i][d] =
                IF h2 = h /\ (i * Dim + d) \div BlockThreads = x THEN OutRow(c, h2, i)
                ELSE o[c][h2][i][d]
<1>. DEFINE P(i, j) == mem[ws[c]][PAddr(h, i, j)]
            bad(i)  == \E j \in Key : \/ P(i, j) = Undef \/ "p" \notin DOMAIN P(i, j)
                                      \/ P(i, j).p = Undef
            row(i)  == IF bad(i) THEN Undef
                       ELSE [j \in {k \in Key : P(i, k).p # Zero} |-> P(i, j).p]
            hit(i, d) == \E y \in ThreadsOf(x, N * Dim) : y = i * Dim + d
            new == [i \in Key |-> [d \in Elem |-> IF hit(i, d) THEN row(i) ELSE o[c][h][i][d]]]
<1>1. o' = [o EXCEPT ![c][h] = new] /\ mem' = mem
  BY DEF Output
<1>2. ASSUME NEW i \in Key PROVE row(i) = OutRow(c, h, i)
  <2>1. \A j \in Key : P(i, j) = PCell(c, h, i, j)
    BY DEF PReady, PHeld
  <2>. HIDE DEF P
  <2>2. ~ bad(i)
    <3>1. \A j \in Key : "p" \in DOMAIN PCell(c, h, i, j)
      BY DEF PCell
    <3>. QED
      BY <2>1, <3>1, CellValues
  <2>3. {k \in Key : P(i, k).p # Zero} = Vis(c, i)
    <3>1. \A k \in Key : P(i, k).p # Zero <=> k \in Vis(c, i)
      BY <2>1, CellValues
    <3>2. \A k \in Vis(c, i) : k \in Key
      BY DEF Vis
    <3>. QED
      BY <3>1, <3>2
  <2>. HIDE DEF bad
  <2>4. row(i) = [j \in Vis(c, i) |-> P(i, j).p]
    BY <2>2, <2>3
  <2>5. \A j \in Vis(c, i) :
          P(i, j).p = [k \in Vis(c, i) |-> score[c][h][i][k] - score[c][h][i][j]]
    <3>1. \A j \in Vis(c, i) : j \in Key
      BY DEF Vis
    <3>. QED
      BY <2>1, <3>1 DEF PCell
  <2>. QED
    BY <2>4, <2>5 DEF OutRow
<1>. HIDE DEF row, new, hit
<1>3. /\ DOMAIN o' = Call /\ DOMAIN o'[c] = BH /\ o'[c][h] = new
      /\ \A c2 \in Call : c2 # c => o'[c2] = o[c2]
      /\ \A h2 \in BH : h2 # h => o'[c][h2] = o[c][h2]
  BY <1>1
<1>4. ASSUME NEW i \in Key, NEW d \in Elem
      PROVE  new[i][d] = IF (i * Dim + d) \div BlockThreads = x THEN OutRow(c, h, i)
                         ELSE o[c][h][i][d]
  <2>1. Dim \in Nat \ {0} /\ N * Dim \in Nat
    BY CallAssumption
  <2>2. i * Dim + d \in 0 .. N * Dim - 1
    BY <2>1, Elements DEF Elem
  <2>3. i * Dim + d \in ThreadsOf(x, N * Dim) <=> (i * Dim + d) \div BlockThreads = x
    BY <2>1, <2>2, BlockOf
  <2>4. hit(i, d) <=> (i * Dim + d) \div BlockThreads = x
    BY ONLY <2>3 DEF hit
  <2>5. new[i][d] = IF hit(i, d) THEN row(i) ELSE o[c][h][i][d]
    BY DEF new
  <2>. QED
    BY <1>2, <2>4, <2>5
<1>. QED
  BY <1>1, <1>3, <1>4

-------------------------------------------------------------------------------
(* The invariant of the work, action by action.                            *)

AllInv == CallInv /\ WorkInv

LEMMA HeadJob ==
  ASSUME AllInv, NEW st \in Stream, queue[st] # <<>>
  PROVE  \E e \in Job : /\ e = queue[st][1] /\ e = Head(queue[st])
                        /\ 1 \in 1 .. Len(queue[st]) /\ e.call \in Call
                        /\ QueuedAt(st, e) /\ Begun(e.kernel, e.call, ran[st])
<1>1. queue[st] \in Seq(Job)
  BY QueuedJobs DEF AllInv, CallInv
<1>2. 1 \in 1 .. Len(queue[st]) /\ Head(queue[st]) = queue[st][1] /\ queue[st][1] \in Job
  BY <1>1
<1>3. Begun(Head(queue[st]).kernel, Head(queue[st]).call, ran[st])
  BY DEF AllInv, WorkInv, HeadHolds
<1>4. QueuedAt(st, queue[st][1])
  BY <1>2 DEF AllInv, WorkInv, Owned
<1>. QED
  BY <1>2, <1>3, <1>4 DEF Job

\* What nobody writes stays.
LEMMA WorkStays ==
  ASSUME NEW c \in Call, UNCHANGED <<score, causal>>, ws'[c] = ws[c],
         mem'[ws[c]] = mem[ws[c]], o'[c] = o[c]
  PROVE  /\ SReady(c) => SReady(c)'
         /\ PReady(c) => PReady(c)'
         /\ Written(c) => Written(c)'
         /\ Untouched(c) => Untouched(c)'
         /\ \A kernel, done : Begun(kernel, c, done) => Begun(kernel, c, done)'
<1>1. \A h \in BH, i \in Key, j \in Key : /\ SHeld(c, h, i, j)' <=> SHeld(c, h, i, j)
                                          /\ PHeld(c, h, i, j)' <=> PHeld(c, h, i, j)
  BY DEF SHeld, PHeld, SCell, PCell, Vis
<1>2. \A h, i : OutRow(c, h, i)' = OutRow(c, h, i)
  BY DEF OutRow, Vis
<1>3. (SReady(c) => SReady(c)') /\ (PReady(c) => PReady(c)')
  BY <1>1 DEF SReady, PReady
<1>4. (Written(c) => Written(c)') /\ (Untouched(c) => Untouched(c)')
  BY <1>2 DEF Written, Untouched
<1>5. ASSUME NEW kernel, NEW done, Begun(kernel, c, done)
      PROVE  Begun(kernel, c, done)'
  BY <1>1, <1>2, <1>3, <1>5 DEF Begun
<1>. QED
  BY <1>3, <1>4, <1>5

\* Kernels on different streams belong to different calls and workspaces.
LEMMA StreamsApart ==
  ASSUME NEW s1, NEW s2, s1 # s2, NEW e1, NEW e2, QueuedAt(s1, e1), QueuedAt(s2, e2)
  PROVE  e1.call # e2.call /\ ws[e1.call] # ws[e2.call]
  BY DEF QueuedAt

\* One block more has run.
LEMMA OneBlock ==
  ASSUME AllInv, NEW st \in Stream, RunBlock(st)
  PROVE  \E e \in Job :
           /\ queue[st] # <<>> /\ e = queue[st][1] /\ e.call \in Call /\ QueuedAt(st, e)
           /\ \A b \in Workspace : b # ws[e.call] => mem'[b] = mem[b]
           /\ \A c \in Call : c # e.call => o'[c] = o[c]
           /\ e.kernel # "pv" => o' = o
           /\ DOMAIN mem' = Workspace /\ DOMAIN o' = Call /\ DOMAIN o'[e.call] = BH
           /\ \E done : ran' = [ran EXCEPT ![st] = done] /\ Begun(e.kernel, e.call, done)'
<1>1. queue[st] # <<>>
  BY DEF RunBlock
<1>2. PICK e \in Job : /\ e = queue[st][1] /\ e = Head(queue[st])
                       /\ e.call \in Call
                       /\ QueuedAt(st, e) /\ Begun(e.kernel, e.call, ran[st])
  BY <1>1, HeadJob
<1>3. PICK c \in Call : c = e.call
  BY <1>2
<1>4. /\ DOMAIN mem = Workspace /\ DOMAIN o = Call /\ DOMAIN o[c] = BH /\ score \in ScoreChoices
      /\ c \in Call /\ ws[c] \in Workspace
  BY <1>2, <1>3 DEF AllInv, CallInv, WorkInv, Shapes, Typed, QueuedAt
<1>5. PICK block \in Grid(e.kernel) \ ran[st] :
        /\ CASE e.kernel = "qk"      -> Scores(c, block[1], block[2])
             [] e.kernel = "softmax" -> Softmax(c, block[1], block[2])
             [] e.kernel = "pv"      -> Output(c, block[1], block[2])
        /\ ran' = [ran EXCEPT ![st] = @ \cup {block}]
  BY <1>2, <1>3 DEF RunBlock
<1>6. UNCHANGED <<score, causal, ws>>
  BY DEF RunBlock, inputs, host
<1>7. PICK done : done = ran[st] \cup {block}
  OBVIOUS
<1>8. ran' = [ran EXCEPT ![st] = done]
  BY <1>5, <1>7
<1>9. \A h, i, j : /\ SCell(c, h, i, j)' = SCell(c, h, i, j)
                   /\ PCell(c, h, i, j)' = PCell(c, h, i, j)
                   /\ OutRow(c, h, i)' = OutRow(c, h, i)
  BY <1>6 DEF SCell, PCell, OutRow, Vis
<1>10. /\ e.kernel \in {"qk", "softmax", "pv"}
      /\ N * N \in Nat /\ N * Dim \in Nat /\ BlockThreads \in Nat \ {0}
      /\ GridBlocks(N * N) \in Int /\ GridBlocks(N * Dim) \in Int
  BY CallAssumption DEF Job, Kernel, GridBlocks
<1>11. CASE e.kernel = "qk"
  <2>1. PICK h \in BH, x \in 0 .. GridBlocks(N * N) - 1 : block = <<h, x>>
    BY <1>11 DEF Grid
  <2>2. x \in Nat /\ Scores(c, h, x)
    BY <1>5, <1>10, <1>11, <2>1
  <2>3. /\ DOMAIN mem' = Workspace /\ o' = o
        /\ \A b \in Workspace : b # ws[c] => mem'[b] = mem[b]
        /\ \A h2 \in BH, i \in Key, j \in Key :
             mem'[ws[c]][SAddr(h2, i, j)] =
               IF h2 = h /\ (i * N + j) \div BlockThreads = x THEN SCell(c, h2, i, j)
               ELSE mem[ws[c]][SAddr(h2, i, j)]
    BY <1>4, <2>2, ScoresBlock
  <2>4. ASSUME NEW h2 \in BH, NEW i \in Key, NEW j \in Key,
               <<h2, (i * N + j) \div BlockThreads>> \in done
        PROVE  SHeld(c, h2, i, j)'
    <3>1. \/ h2 = h /\ (i * N + j) \div BlockThreads = x
          \/ <<h2, (i * N + j) \div BlockThreads>> \in ran[st]
      BY <2>1, <2>4, <1>7
    <3>2. <<h2, (i * N + j) \div BlockThreads>> \in ran[st] => SHeld(c, h2, i, j)
      BY <1>2, <1>11, <1>3 DEF Begun
    <3>. QED
      BY <1>6, <1>9, <2>3, <3>1, <3>2 DEF SHeld
  <2>5. Begun(e.kernel, c, done)'
    BY <1>11, <2>4 DEF Begun
  <2>. QED
    BY <1>1, <1>2, <1>4, <1>8, <1>11, <2>3, <2>5, <1>3
<1>12. CASE e.kernel = "softmax"
  <2>1. PICK h \in BH, x \in Key : block = <<h, x>>
    BY <1>12 DEF Grid
  <2>2. Softmax(c, h, x) /\ SReady(c)
    BY <1>2, <1>5, <1>12, <2>1, <1>3 DEF Begun
  <2>3. /\ DOMAIN mem' = Workspace /\ o' = o
        /\ \A b \in Workspace : b # ws[c] => mem'[b] = mem[b]
        /\ \A h2 \in BH, i2 \in Key, j \in Key :
             /\ mem'[ws[c]][SAddr(h2, i2, j)] = mem[ws[c]][SAddr(h2, i2, j)]
             /\ mem'[ws[c]][PAddr(h2, i2, j)] =
                  IF h2 = h /\ i2 = x THEN PCell(c, h2, i2, j)
                  ELSE mem[ws[c]][PAddr(h2, i2, j)]
    BY <1>4, <2>2, WeightsBlock
  <2>4. SReady(c)'
    BY <1>6, <1>9, <2>2, <2>3 DEF SReady, SHeld
  <2>5. ASSUME NEW h2 \in BH, NEW i2 \in Key, NEW j \in Key, <<h2, i2>> \in done
        PROVE  PHeld(c, h2, i2, j)'
    <3>1. (h2 = h /\ i2 = x) \/ <<h2, i2>> \in ran[st]
      BY <2>1, <2>5, <1>7
    <3>2. <<h2, i2>> \in ran[st] => PHeld(c, h2, i2, j)
      BY <1>2, <1>12, <1>3 DEF Begun
    <3>. QED
      BY <1>6, <1>9, <2>3, <3>1, <3>2 DEF PHeld
  <2>6. Begun(e.kernel, c, done)'
    BY <1>12, <2>4, <2>5 DEF Begun
  <2>. QED
    BY <1>1, <1>2, <1>4, <1>8, <1>12, <2>3, <2>6, <1>3
<1>13. CASE e.kernel = "pv"
  <2>1. PICK h \in BH, x \in 0 .. GridBlocks(N * Dim) - 1 : block = <<h, x>>
    BY <1>13 DEF Grid
  <2>2. x \in Nat /\ Output(c, h, x) /\ PReady(c)
    <3>1. x \in Nat
      BY ONLY <1>10, <2>1
    <3>2. Output(c, h, x)
      BY ONLY <1>5, <1>13, <2>1
    <3>3. PReady(c)
      BY ONLY <1>2, <1>3, <1>13 DEF Begun
    <3>. QED
      BY <3>1, <3>2, <3>3
  <2>3. /\ mem' = mem /\ DOMAIN o' = Call /\ DOMAIN o'[c] = BH
        /\ \A c2 \in Call : c2 # c => o'[c2] = o[c2]
        /\ \A h2 \in BH, i \in Key, d \in Elem :
             o'[c][h2][i][d] =
               IF h2 = h /\ (i * Dim + d) \div BlockThreads = x THEN OutRow(c, h2, i)
               ELSE o[c][h2][i][d]
    BY <1>4, <2>2, OutputBlock
  <2>4. PReady(c)'
    BY <1>6, <1>9, <2>2, <2>3 DEF PReady, PHeld
  <2>5. ASSUME NEW h2 \in BH, NEW i \in Key, NEW d \in Elem
        PROVE  o'[c][h2][i][d] = IF <<h2, (i * Dim + d) \div BlockThreads>> \in done
                                   THEN OutRow(c, h2, i)' ELSE Unwritten
    <3>1. o[c][h2][i][d] = IF <<h2, (i * Dim + d) \div BlockThreads>> \in ran[st]
                             THEN OutRow(c, h2, i) ELSE Unwritten
      BY <1>2, <1>13, <1>3 DEF Begun
    <3>2. <<h2, (i * Dim + d) \div BlockThreads>> \in done <=>
            \/ <<h2, (i * Dim + d) \div BlockThreads>> \in ran[st]
            \/ h2 = h /\ (i * Dim + d) \div BlockThreads = x
      BY <2>1, <1>7
    <3>. QED
      BY <1>9, <2>3, <3>1, <3>2
  <2>6. Begun(e.kernel, c, done)'
    BY <1>13, <2>4, <2>5 DEF Begun
  <2>. QED
    BY <1>1, <1>2, <1>4, <1>8, <1>13, <2>3, <2>6, <1>3
<1>. QED
  BY <1>10, <1>11, <1>12, <1>13

LEMMA BlockKeepsWork ==
  ASSUME AllInv, NEW st \in Stream, RunBlock(st)
  PROVE  WorkInv'
<1>1. PICK e \in Job :
           /\ queue[st] # <<>> /\ e = queue[st][1] /\ e.call \in Call /\ QueuedAt(st, e)
           /\ \A b \in Workspace : b # ws[e.call] => mem'[b] = mem[b]
           /\ \A c \in Call : c # e.call => o'[c] = o[c]
           /\ e.kernel # "pv" => o' = o
           /\ DOMAIN mem' = Workspace /\ DOMAIN o' = Call /\ DOMAIN o'[e.call] = BH
           /\ \E done : ran' = [ran EXCEPT ![st] = done] /\ Begun(e.kernel, e.call, done)'
  BY OneBlock
<1>2. PICK done : ran' = [ran EXCEPT ![st] = done] /\ Begun(e.kernel, e.call, done)'
  BY <1>1
<1>3. UNCHANGED <<score, causal, hpc, call, stream, ws, result, pool, queue>>
  BY DEF RunBlock, inputs, host
<1>4. Typed /\ Shapes /\ Owned /\ HeadHolds /\ Chained /\ Launchable /\ OutputOnce /\ OutputDue
  BY DEF AllInv, CallInv, WorkInv
<1>5. queue[st] \in Seq(Job) /\ 1 \in 1 .. Len(queue[st]) /\ Head(queue[st]) = e
  BY <1>1, <1>4, QueuedJobs
<1>6. Shapes'
  <2>1. \A c \in Call : DOMAIN o'[c] = BH
    BY <1>1, <1>4 DEF Shapes
  <2>2. DOMAIN ran' = Stream /\ \A s2 \in Stream : s2 # st => ran'[s2] = ran[s2]
    BY <1>2, <1>4 DEF Shapes
  <2>. QED
    BY <1>1, <1>3, <1>4, <2>1, <2>2 DEF Shapes
<1>7. Owned'
  <2>1. \A s2, e2 : QueuedAt(s2, e2) => QueuedAt(s2, e2)'
    BY <1>3 DEF QueuedAt, Owner
  <2>. QED
    BY <1>3, <1>4, <2>1 DEF Owned
<1>8. HeadHolds'
  <2>. SUFFICES ASSUME NEW s2 \in Stream, queue[s2] # <<>>
                PROVE  Begun(Head(queue[s2]).kernel, Head(queue[s2]).call, ran[s2])'
    BY <1>3 DEF HeadHolds
  <2>1. CASE s2 = st
    <3>1. ran'[st] = done
      BY <1>2, <1>4 DEF Shapes
    <3>2. Head(queue'[s2]) = e
      BY <1>3, <1>5, <2>1
    <3>. QED
      BY <1>2, <2>1, <3>1, <3>2
  <2>2. CASE s2 # st
    <3>1. PICK e2 \in Job : /\ e2 = Head(queue[s2]) /\ e2.call \in Call
                            /\ QueuedAt(s2, e2) /\ Begun(e2.kernel, e2.call, ran[s2])
      BY HeadJob
    <3>2. e2.call # e.call /\ ws[e2.call] # ws[e.call] /\ ws[e2.call] \in Workspace
      BY <1>1, <2>2, <3>1, StreamsApart DEF QueuedAt
    <3>3. PICK c2, k2, d2 : c2 \in Call /\ c2 = e2.call /\ k2 = e2.kernel /\ d2 = ran[s2]
      BY <3>1
    <3>4. mem'[ws[c2]] = mem[ws[c2]] /\ o'[c2] = o[c2] /\ ws'[c2] = ws[c2]
      BY <1>1, <1>3, <3>2, <3>3
    <3>5. Begun(k2, c2, d2)'
      <4>1. UNCHANGED <<score, causal>>
        BY <1>3
      <4>2. Begun(k2, c2, d2)
        BY <3>1, <3>3
      <4>. QED
        BY ONLY <3>3, <3>4, <4>1, <4>2, WorkStays
    <3>6. ran'[s2] = d2 /\ Head(queue'[s2]) = e2
      BY <1>2, <1>3, <1>4, <2>2, <3>1, <3>3 DEF Shapes
    <3>. QED
      BY <3>3, <3>5, <3>6
  <2>. QED
    BY <2>1, <2>2
<1>9. Chained'
  <2>. SUFFICES ASSUME NEW s2 \in Stream, NEW n \in 2 .. Len(queue[s2]),
                       NEW e2 \in Job, queue[s2][n] = e2
                PROVE  Follows(queue[s2], n, e2)'
    BY <1>3 DEF Chained
  <2>1. queue[s2] \in Seq(Job) /\ n \in 1 .. Len(queue[s2])
    BY <1>4, QueuedJobs
  <2>2. queue[s2][n] = e2
    OBVIOUS
  <2>3. QueuedAt(s2, e2)
    BY <1>4, <2>1, <2>2 DEF Owned
  <2>4. /\ e2.kernel # "qk" =>
             queue[s2][n - 1] = [kernel |-> Before[e2.kernel], call |-> e2.call]
        /\ e2.kernel = "pv" => Untouched(e2.call)
    BY <1>4, <2>2 DEF Chained, Follows
  <2>5. ASSUME e2.kernel = "pv" PROVE Untouched(e2.call)'
    <3>1. CASE e2.call # e.call
      <4>1. o'[e2.call] = o[e2.call]
        BY <1>1, <3>1 DEF Job
      <4>. QED
        BY <2>4, <2>5, <4>1 DEF Untouched
    <3>2. CASE e2.call = e.call
      <4>1. s2 = st
        BY <1>1, <2>3, <3>2 DEF QueuedAt
      <4>2. e.kernel # "pv"
        <5>. SUFFICES ASSUME e.kernel = "pv" PROVE FALSE
          OBVIOUS
        <5>1. e2 = e
          BY <2>5, <3>2 DEF Job
        <5>2. n = 1
          BY <1>1, <1>4, <1>5, <2>1, <2>2, <2>5, <4>1, <5>1 DEF OutputOnce
        <5>. QED
          BY <5>2
      <4>3. o' = o
        BY <1>1, <4>2
      <4>. QED
        BY <2>4, <2>5, <4>3 DEF Untouched
    <3>. QED
      BY <3>1, <3>2
  <2>. QED
    BY <1>3, <2>4, <2>5 DEF Follows
<1>10. Launchable'
  <2>. SUFFICES ASSUME hpc \in {"softmax", "pv"}, queue[stream[call]] = <<>>
                PROVE  IF hpc = "pv" THEN PReady(call)' ELSE SReady(call)'
    BY <1>3, <1>4 DEF Launchable, PReady, SReady, PHeld, SHeld, PCell, SCell, Vis
  <2>1. call \in Call /\ stream[call] \in Stream /\ hpc # "alloc"
    BY <1>4 DEF Typed
  <2>2. IF hpc = "pv" THEN PReady(call) ELSE SReady(call)
    BY <1>4 DEF Launchable
  <2>3. stream[call] # st
    BY <1>1
  <2>4. ws[call] \in Workspace /\ ws[call] # ws[e.call] /\ call # e.call
    BY <1>1, <1>4, <2>1, <2>3 DEF Shapes, QueuedAt, Owner
  <2>5. PICK c2 \in Call : c2 = call
    BY <2>1
  <2>6. mem'[ws[c2]] = mem[ws[c2]] /\ o'[c2] = o[c2] /\ ws'[c2] = ws[c2]
        /\ UNCHANGED <<score, causal>> /\ call' = c2
    BY <1>1, <1>3, <2>4, <2>5
  <2>7. (SReady(c2) => SReady(c2)') /\ (PReady(c2) => PReady(c2)')
    BY ONLY <2>6, c2 \in Call, WorkStays
  <2>. QED
    BY <2>2, <2>5, <2>6, <2>7
<1>11. OutputOnce'
  BY <1>3, <1>4 DEF OutputOnce
<1>12. OutputDue'
  <2>. SUFFICES ASSUME NEW c \in Call, Past(c), result[c] # "error",
                       ~ \E n \in 1 .. Len(queue[stream[c]]) :
                           queue[stream[c]][n] = [kernel |-> "pv", call |-> c]
                PROVE  Written(c)'
    BY <1>3 DEF OutputDue, Past
  <2>1. Written(c)
    BY <1>4 DEF OutputDue
  <2>2. o'[c] = o[c]
    <3>1. CASE c # e.call
      BY <1>1, <3>1
    <3>2. CASE c = e.call
      <4>1. stream[c] = st
        BY <1>1, <3>2 DEF QueuedAt
      <4>2. e # [kernel |-> "pv", call |-> c]
        BY <1>1, <1>5, <4>1
      <4>3. e.kernel # "pv"
        BY <3>2, <4>2 DEF Job
      <4>. QED
        BY <1>1, <4>3
    <3>. QED
      BY <3>1, <3>2
  <2>3. \A h, i : OutRow(c, h, i)' = OutRow(c, h, i)
    BY <1>3 DEF OutRow, Vis
  <2>. QED
    BY <2>1, <2>2, <2>3 DEF Written
<1>. QED
  BY <1>6, <1>7, <1>8, <1>9, <1>10, <1>11, <1>12 DEF WorkInv

\* A kernel all of whose blocks have run has left everything it had to.
LEMMA KernelDone ==
  ASSUME NEW kernel \in Kernel, NEW c \in Call, Begun(kernel, c, Grid(kernel))
  PROVE  /\ kernel = "qk" => SReady(c)
         /\ kernel = "softmax" => PReady(c)
         /\ kernel = "pv" => Written(c)
<1>1. Dim \in Nat \ {0} /\ N \in Nat \ {0} /\ N * Dim \in Nat /\ N * N \in Nat
  BY CallAssumption
<1>2. CASE kernel = "qk"
  <2>. SUFFICES ASSUME NEW h \in BH, NEW i \in Key, NEW j \in Key PROVE SHeld(c, h, i, j)
    BY <1>2 DEF SReady
  <2>1. i * N + j \in 0 .. N * N - 1
    BY <1>1, Elements DEF Key
  <2>2. (i * N + j) \div BlockThreads \in 0 .. GridBlocks(N * N) - 1
    BY <1>1, <2>1, BlockOf
  <2>3. <<h, (i * N + j) \div BlockThreads>> \in Grid(kernel)
    BY <1>2, <2>2 DEF Grid
  <2>. QED
    BY <1>2, <2>3 DEF Begun
<1>3. CASE kernel = "softmax"
  <2>1. \A h \in BH, i \in Key : <<h, i>> \in Grid(kernel)
    BY <1>3 DEF Grid
  <2>. QED
    BY <1>3, <2>1 DEF Begun, PReady
<1>4. CASE kernel = "pv"
  <2>. SUFFICES ASSUME NEW h \in BH, NEW i \in Key, NEW d \in Elem
                PROVE  o[c][h][i][d] = OutRow(c, h, i)
    BY <1>4 DEF Written
  <2>1. i * Dim + d \in 0 .. N * Dim - 1
    BY <1>1, Elements DEF Elem
  <2>2. (i * Dim + d) \div BlockThreads \in 0 .. GridBlocks(N * Dim) - 1
    BY <1>1, <2>1, BlockOf
  <2>3. <<h, (i * Dim + d) \div BlockThreads>> \in Grid(kernel)
    BY <1>4, <2>2 DEF Grid
  <2>. QED
    BY <1>4, <2>3 DEF Begun
<1>. QED
  BY <1>2, <1>3, <1>4 DEF Kernel

LEMMA FinishKeepsWork ==
  ASSUME AllInv, NEW s1 \in Stream, FinishKernel(s1)
  PROVE  WorkInv'
<1>1. /\ queue[s1] # <<>> /\ ran[s1] = Grid(Head(queue[s1]).kernel)
      /\ queue' = [queue EXCEPT ![s1] = Tail(@)] /\ ran' = [ran EXCEPT ![s1] = {}]
      /\ UNCHANGED <<score, causal, hpc, call, stream, ws, result, pool, mem, o>>
  BY DEF FinishKernel, inputs, host
<1>2. PICK e \in Job : /\ e = queue[s1][1] /\ e = Head(queue[s1])
                       /\ e.call \in Call /\ QueuedAt(s1, e) /\ Begun(e.kernel, e.call, ran[s1])
  BY <1>1, HeadJob
<1>3. Typed /\ Shapes /\ Owned /\ HeadHolds /\ Chained /\ Launchable /\ OutputOnce /\ OutputDue
  BY DEF AllInv, CallInv, WorkInv
<1>4. PICK q \in Seq(Job) : q = queue[s1]
  BY <1>3, QueuedJobs
<1>5. /\ Tail(q) \in Seq(Job) /\ Len(Tail(q)) = Len(q) - 1 /\ Len(q) \in Nat \ {0}
      /\ \A n \in 1 .. Len(q) - 1 : Tail(q)[n] = q[n + 1]
      /\ \A n \in 1 .. Len(q) : q[n] \in Job
  BY <1>1, <1>4
<1>6. /\ queue'[s1] = Tail(q) /\ ran'[s1] = {} /\ DOMAIN ran' = Stream
      /\ \A st \in Stream : st # s1 => queue'[st] = queue[st] /\ ran'[st] = ran[st]
  BY <1>1, <1>3, <1>4 DEF Typed, Shapes
<1>7. /\ e.kernel = "qk" => SReady(e.call)
      /\ e.kernel = "softmax" => PReady(e.call)
      /\ e.kernel = "pv" => Written(e.call)
  BY <1>1, <1>2, KernelDone DEF Job
<1>8. \A c \in Call : /\ SReady(c) => SReady(c)'
                      /\ PReady(c) => PReady(c)'
                      /\ Written(c) => Written(c)'
                      /\ Untouched(c) => Untouched(c)'
                      /\ \A kernel, done : Begun(kernel, c, done) => Begun(kernel, c, done)'
  BY <1>1, WorkStays
<1>9. Shapes'
  BY <1>1, <1>3, <1>6 DEF Shapes
<1>10. Owned'
  <2>1. \A st, e2 : QueuedAt(st, e2) => QueuedAt(st, e2)'
    BY <1>1 DEF QueuedAt, Owner
  <2>2. ASSUME NEW st \in Stream, NEW n \in 1 .. Len(queue'[st]) PROVE QueuedAt(st, queue[st][n])'
    <3>1. CASE st = s1
      <4>1. n \in 1 .. Len(q) - 1 /\ n + 1 \in 1 .. Len(q) /\ queue'[st][n] = q[n + 1]
        BY <1>5, <1>6, <3>1
      <4>. QED
        BY <1>3, <1>4, <2>1, <3>1, <4>1 DEF Owned
    <3>2. CASE st # s1
      <4>1. queue'[st] = queue[st]
        BY <1>6, <3>2
      <4>. QED
        BY <1>3, <2>1, <4>1 DEF Owned
    <3>. QED
      BY <3>1, <3>2
  <2>. QED
    BY <2>2 DEF Owned
<1>11. HeadHolds'
  <2>. SUFFICES ASSUME NEW st \in Stream, queue'[st] # <<>>
                PROVE  Begun(Head(queue[st]).kernel, Head(queue[st]).call, ran[st])'
    BY DEF HeadHolds
  <2>1. CASE st = s1
    <3>1. Len(q) - 1 \in Nat \ {0} /\ 2 \in 2 .. Len(q) /\ Head(Tail(q)) = q[2] /\ q[2] \in Job
      <4>1. Tail(q) # <<>>
        BY <1>6, <2>1
      <4>2. Len(Tail(q)) # 0
        BY <1>5, <4>1
      <4>3. Head(Tail(q)) = Tail(q)[1]
        BY <1>5, <4>1
      <4>. QED
        BY <1>5, <4>2, <4>3
    <3>2. PICK e2 \in Job, k2 \in Kernel, c2 \in Call : e2 = q[2] /\ k2 = e2.kernel /\ c2 = e2.call
      BY <3>1 DEF Job
    <3>3. Follows(q, 2, e2)
      BY <1>3, <1>4, <3>1, <3>2 DEF Chained
    <3>4. e2.kernel # "qk" => e = [kernel |-> Before[e2.kernel], call |-> e2.call]
      BY <1>2, <1>4, <3>3 DEF Follows
    <3>5. /\ k2 = "softmax" => e.kernel = "qk" /\ e.call = c2
          /\ k2 = "pv" => e.kernel = "softmax" /\ e.call = c2 /\ Untouched(c2)
      <4>1. Before["softmax"] = "qk" /\ Before["pv"] = "softmax"
        BY DEF Before
      <4>. QED
        BY <3>2, <3>3, <3>4, <4>1 DEF Follows
    <3>6. Begun(k2, c2, {})
      BY <1>7, <3>5 DEF Begun, Untouched
    <3>7. Begun(k2, c2, {})'
      BY <1>8, <3>6
    <3>8. ran'[st] = {} /\ Head(queue'[st]) = e2
      BY <1>6, <2>1, <3>1, <3>2
    <3>. QED
      BY <3>2, <3>7, <3>8
  <2>2. CASE st # s1
    <3>1. queue'[st] = queue[st] /\ ran'[st] = ran[st]
      BY <1>6, <2>2
    <3>2. PICK e2 \in Job : /\ e2 = Head(queue[st]) /\ e2.call \in Call
                            /\ Begun(e2.kernel, e2.call, ran[st])
      BY <3>1, HeadJob
    <3>3. PICK c2, k2, d2 : c2 \in Call /\ c2 = e2.call /\ k2 = e2.kernel /\ d2 = ran[st]
      BY <3>2
    <3>4. Begun(k2, c2, d2)'
      BY <1>8, <3>2, <3>3
    <3>. QED
      BY <3>1, <3>2, <3>3, <3>4
  <2>. QED
    BY <2>1, <2>2
<1>12. Chained'
  <2>. SUFFICES ASSUME NEW st \in Stream, NEW n \in 2 .. Len(queue'[st]), NEW e2 \in Job,
                       queue'[st][n] = e2
                PROVE  Follows(queue[st], n, e2)'
    BY DEF Chained
  <2>0. e2.call \in Call
    BY DEF Job
  <2>1. CASE st = s1
    <3>1. /\ n - 1 \in 1 .. Len(q) - 1 /\ n \in 1 .. Len(q) - 1 /\ n + 1 \in 2 .. Len(q)
          /\ (n - 1) + 1 = n /\ (n + 1) - 1 = n
      BY <1>5, <1>6, <2>1
    <3>2. queue'[st][n] = q[n + 1] /\ queue'[st][n - 1] = q[n]
      BY <1>5, <1>6, <2>1, <3>1
    <3>3. Follows(q, n + 1, e2)
      BY <1>3, <1>4, <3>1, <3>2 DEF Chained
    <3>. QED
      BY <1>8, <2>0, <3>1, <3>2, <3>3 DEF Follows
  <2>2. CASE st # s1
    <3>1. queue'[st] = queue[st]
      BY <1>6, <2>2
    <3>2. Follows(queue[st], n, e2)
      BY <1>3, <3>1 DEF Chained
    <3>. QED
      BY <1>8, <2>0, <3>1, <3>2 DEF Follows
  <2>. QED
    BY <2>1, <2>2
<1>13. Launchable'
  <2>. SUFFICES ASSUME hpc \in {"softmax", "pv"}
                PROVE  IF queue'[stream[call]] = <<>>
                         THEN IF hpc = "pv" THEN PReady(call)' ELSE SReady(call)'
                         ELSE queue'[stream[call]][Len(queue'[stream[call]])]
                                = [kernel |-> Before[hpc], call |-> call]
    BY <1>1 DEF Launchable
  <2>1. call \in Call /\ stream[call] \in Stream /\ call' = call
    BY <1>1, <1>3 DEF Typed
  <2>2. PICK c2 \in Call : c2 = call /\ c2 = call'
    BY <2>1
  <2>3. (SReady(c2) => SReady(call)') /\ (PReady(c2) => PReady(call)')
    BY <1>8, <2>2
  <2>4. CASE stream[call] = s1
    <3>1. q[Len(q)] = [kernel |-> Before[hpc], call |-> call]
      BY <1>1, <1>3, <1>4, <2>4 DEF Launchable
    <3>2. CASE Tail(q) = <<>>
      <4>1. Len(q) = 1
        BY <1>5, <3>2
      <4>2. e = [kernel |-> Before[hpc], call |-> c2]
        BY <1>2, <1>4, <2>2, <3>1, <4>1
      <4>3. Before["softmax"] = "qk" /\ Before["pv"] = "softmax"
        BY DEF Before
      <4>4. (hpc = "pv" => PReady(c2)) /\ (hpc = "softmax" => SReady(c2))
        BY <1>7, <4>2, <4>3
      <4>. QED
        BY <1>6, <2>3, <2>4, <3>2, <4>4
    <3>3. CASE Tail(q) # <<>>
      <4>1. Len(q) - 1 \in 1 .. Len(q) - 1 /\ (Len(q) - 1) + 1 = Len(q)
        <5>1. Len(Tail(q)) # 0
          BY <1>5, <3>3
        <5>. QED
          BY <1>5, <5>1
      <4>2. Tail(q)[Len(Tail(q))] = q[Len(q)]
        BY <1>5, <4>1
      <4>. QED
        BY <1>6, <2>4, <3>1, <3>3, <4>2
    <3>. QED
      BY <3>2, <3>3
  <2>5. CASE stream[call] # s1
    <3>1. queue'[stream[call]] = queue[stream[call]]
      BY <1>6, <2>1, <2>5
    <3>. QED
      BY <1>3, <2>2, <2>3, <3>1 DEF Launchable
  <2>. QED
    BY <2>4, <2>5
<1>14. OutputOnce'
  <2>. SUFFICES ASSUME NEW st \in Stream, NEW n \in 1 .. Len(queue'[st]),
                       NEW n2 \in 1 .. Len(queue'[st]),
                       queue'[st][n].kernel = "pv", queue'[st][n2] = queue'[st][n]
                PROVE  n = n2
    BY DEF OutputOnce
  <2>1. CASE st = s1
    <3>1. n \in 1 .. Len(q) - 1 /\ n2 \in 1 .. Len(q) - 1 /\ queue'[st] = Tail(q)
      BY <1>5, <1>6, <2>1
    <3>2. Tail(q)[n] = q[n + 1] /\ Tail(q)[n2] = q[n2 + 1]
      BY <1>5, <3>1
    <3>3. n + 1 \in 1 .. Len(q) /\ n2 + 1 \in 1 .. Len(q) /\ n \in Int /\ n2 \in Int
      BY ONLY <1>5, <3>1
    <3>4. q[n + 1].kernel = "pv" /\ q[n2 + 1] = q[n + 1]
      BY <3>1, <3>2
    <3>5. n + 1 = n2 + 1
      BY <1>3, <1>4, <3>3, <3>4 DEF OutputOnce
    <3>. QED
      BY ONLY <3>3, <3>5
  <2>2. CASE st # s1
    BY <1>3, <1>6, <2>2 DEF OutputOnce
  <2>. QED
    BY <2>1, <2>2
<1>15. OutputDue'
  <2>. SUFFICES ASSUME NEW c \in Call, Past(c), result[c] # "error"
                PROVE  Written(c)' \/ \E n \in 1 .. Len(queue'[stream[c]]) :
                                        queue'[stream[c]][n] = [kernel |-> "pv", call |-> c]
    BY <1>1 DEF OutputDue, Past
  <2>1. CASE Written(c)
    BY <1>8, <2>1
  <2>2. CASE ~ Written(c)
    <3>1. PICK n \in 1 .. Len(queue[stream[c]]) :
                 queue[stream[c]][n] = [kernel |-> "pv", call |-> c]
      BY <1>3, <2>2 DEF OutputDue
    <3>2. CASE stream[c] = s1
      <4>1. n # 1
        BY <1>2, <1>7, <2>2, <3>1, <3>2
      <4>2. n - 1 \in 1 .. Len(q) - 1 /\ (n - 1) + 1 = n
        BY <1>4, <1>5, <3>2, <4>1
      <4>3. Tail(q)[n - 1] = [kernel |-> "pv", call |-> c]
        BY <1>4, <1>5, <3>1, <3>2, <4>2
      <4>. QED
        BY <1>5, <1>6, <3>2, <4>2, <4>3
    <3>3. CASE stream[c] # s1
      <4>1. stream[c] \in Stream
        BY <1>3 DEF Typed
      <4>. QED
        BY <1>6, <3>1, <3>3, <4>1
    <3>. QED
      BY <3>2, <3>3
  <2>. QED
    BY <2>1, <2>2
<1>. QED
  BY <1>9, <1>10, <1>11, <1>12, <1>13, <1>14, <1>15 DEF WorkInv
\* A workspace is taken: a memory block that is new, or whose last user's
\* kernels are queued on the same stream.
LEMMA AllocKeepsWork ==
  ASSUME AllInv, Alloc
  PROVE  WorkInv'
<1>1. PICK b \in Workspace : /\ pool[b] \in {"new", stream[call]}
                             /\ ws' = [ws EXCEPT ![call] = b]
                             /\ pool' = [pool EXCEPT ![b] = "used"]
  BY DEF Alloc
<1>2. /\ hpc = "alloc" /\ call <= Calls /\ hpc' = "qk"
      /\ UNCHANGED <<score, causal, call, stream, result, queue, ran, mem, o>>
  BY DEF Alloc, inputs, device
<1>3. Typed /\ Shapes /\ Owned /\ HeadHolds /\ Chained /\ Launchable /\ OutputOnce /\ OutputDue
  BY DEF AllInv, CallInv, WorkInv
<1>4. call \in Call
  BY <1>2, <1>3, CallAssumption DEF Typed, Call
<1>5. /\ DOMAIN ws' = Call /\ ws'[call] = b /\ DOMAIN pool' = Workspace
      /\ \A c \in Call : c # call => ws'[c] = ws[c]
      /\ \A b2 \in Workspace : b2 # b => pool'[b2] = pool[b2]
  BY <1>1, <1>3, <1>4 DEF Shapes
<1>6. Shapes'
  BY <1>2, <1>3, <1>5 DEF Shapes
<1>7. ASSUME NEW st \in Stream, NEW e \in Job, QueuedAt(st, e)
      PROVE  QueuedAt(st, e)' /\ e.call # call /\ ws'[e.call] = ws[e.call]
  <2>1. e.call \in Call /\ e.call < call /\ stream[e.call] = st /\ ws[e.call] \in Workspace
    BY <1>2, <1>7 DEF QueuedAt, Job
  <2>2. e.call # call
    BY <2>1, <1>4, CallNumbers
  <2>3. ws'[e.call] = ws[e.call] /\ pool[ws[e.call]] = st
    BY <1>2, <1>5, <1>7, <2>1, <2>2 DEF QueuedAt, Owner
  <2>4. Owner(ws[e.call])' = st
    <3>1. CASE ws[e.call] = b
      <4>1. st # "new"
        BY CellAssumption
      <4>. QED
        BY <1>1, <1>2, <1>5, <2>3, <3>1, <4>1 DEF Owner
    <3>2. CASE ws[e.call] # b
      BY <1>2, <1>5, <2>1, <2>3, <3>2 DEF Owner
    <3>. QED
      BY <3>1, <3>2
  <2>. QED
    BY <1>2, <2>1, <2>2, <2>3, <2>4 DEF QueuedAt
<1>8. Owned'
  BY <1>2, <1>3, <1>7, QueuedJobs DEF Owned
<1>9. HeadHolds'
  <2>. SUFFICES ASSUME NEW st \in Stream, queue[st] # <<>>
                PROVE  Begun(Head(queue[st]).kernel, Head(queue[st]).call, ran[st])'
    BY <1>2 DEF HeadHolds
  <2>1. PICK e \in Job : /\ e = Head(queue[st]) /\ e.call \in Call
                         /\ QueuedAt(st, e) /\ Begun(e.kernel, e.call, ran[st])
    BY HeadJob
  <2>2. PICK c, k, d : c \in Call /\ c = e.call /\ k = e.kernel /\ d = ran[st]
    BY <2>1
  <2>3. ws'[c] = ws[c] /\ mem'[ws[c]] = mem[ws[c]] /\ o'[c] = o[c]
    BY <1>2, <1>7, <2>1, <2>2
  <2>4. Begun(k, c, d)'
    BY <1>2, <2>1, <2>2, <2>3, WorkStays
  <2>. QED
    BY <1>2, <2>1, <2>2, <2>4
<1>10. Chained' /\ OutputOnce'
  BY <1>2, <1>3 DEF Chained, OutputOnce, Follows, Untouched
<1>11. Launchable'
  BY <1>2 DEF Launchable
<1>12. OutputDue'
  <2>1. \A c \in Call : (Past(c)' <=> Past(c)) /\ (Written(c)' <=> Written(c))
    BY <1>2 DEF Past, Written, OutRow, Vis
  <2>. QED
    BY <1>2, <1>3, <2>1 DEF OutputDue
<1>. QED
  BY <1>6, <1>8, <1>9, <1>10, <1>11, <1>12 DEF WorkInv

\* The workspace goes back to the pool of the stream that was using it.
LEMMA ReturnKeepsWork ==
  ASSUME AllInv, Return
  PROVE  WorkInv'
<1>1. /\ hpc = "return" /\ hpc' = "alloc" /\ call' = call + 1
      /\ result' = [result EXCEPT ![call] = IF @ = "none" THEN "ok" ELSE @]
      /\ pool' = [pool EXCEPT ![ws[call]] = stream[call]]
      /\ UNCHANGED <<score, causal, stream, ws, queue, ran, mem, o>>
  BY DEF Return, inputs, device
<1>2. Typed /\ Shapes /\ Owned /\ HeadHolds /\ Chained /\ Launchable /\ OutputOnce /\ OutputDue
  BY DEF AllInv, CallInv, WorkInv
<1>3. call \in Call /\ call \in Nat /\ ws[call] \in Workspace
  BY <1>1, <1>2 DEF Typed, Shapes
<1>4. \A b \in Workspace : Owner(b)' = Owner(b)
  BY <1>1, <1>2, <1>3 DEF Owner, Shapes
<1>5. Shapes'
  BY <1>1, <1>2 DEF Shapes
<1>6. Owned'
  <2>1. ASSUME NEW st \in Stream, NEW e \in Job, QueuedAt(st, e) PROVE QueuedAt(st, e)'
    <3>1. e.call \in Nat
      BY CallNumbers DEF Job
    <3>2. e.call < call'
      BY <1>1, <1>3, <2>1, <3>1 DEF QueuedAt
    <3>. QED
      BY <1>1, <1>4, <2>1, <3>2 DEF QueuedAt
  <2>. QED
    BY <1>1, <1>2, <2>1, QueuedJobs DEF Owned
<1>7. \A c \in Call : /\ SReady(c) => SReady(c)'
                      /\ PReady(c) => PReady(c)'
                      /\ Written(c) => Written(c)'
                      /\ Untouched(c) => Untouched(c)'
                      /\ \A kernel, done : Begun(kernel, c, done) => Begun(kernel, c, done)'
  BY <1>1, WorkStays
<1>8. HeadHolds'
  <2>. SUFFICES ASSUME NEW st \in Stream, queue[st] # <<>>
                PROVE  Begun(Head(queue[st]).kernel, Head(queue[st]).call, ran[st])'
    BY <1>1 DEF HeadHolds
  <2>1. PICK e \in Job : e = Head(queue[st]) /\ e.call \in Call /\ Begun(e.kernel, e.call, ran[st])
    BY HeadJob
  <2>2. PICK c, k, d : c \in Call /\ c = e.call /\ k = e.kernel /\ d = ran[st]
    BY <2>1
  <2>3. Begun(k, c, d)'
    BY <1>7, <2>1, <2>2
  <2>. QED
    BY <1>1, <2>1, <2>2, <2>3
<1>9. Chained' /\ OutputOnce'
  BY <1>1, <1>2 DEF Chained, OutputOnce, Follows, Untouched
<1>10. Launchable'
  BY <1>1 DEF Launchable
<1>11. OutputDue'
  <2>1. \A c \in Call : Past(c)' <=> Past(c)
    BY <1>1, <1>3, CallNumbers DEF Past
  <2>2. \A c \in Call : result'[c] = "error" <=> result[c] = "error"
    BY <1>1, <1>2 DEF Typed
  <2>. QED
    BY <1>1, <1>2, <1>7, <2>1, <2>2 DEF OutputDue
<1>. QED
  BY <1>5, <1>6, <1>8, <1>9, <1>10, <1>11 DEF WorkInv

\* One kernel more at the end of the current call's stream: if nothing is
\* queued there its predecessor has finished, otherwise it is the last one.
LEMMA AppendKeepsWork ==
  ASSUME AllInv, NEW kernel \in Kernel, hpc = kernel,
         queue' = [queue EXCEPT ![stream[call]] = Append(@, [kernel |-> kernel, call |-> call])],
         UNCHANGED <<score, causal, call, stream, ws, pool, ran, mem, o>>,
         \/ hpc' = AfterLaunch[kernel] /\ result' = result
         \/ hpc' = "return" /\ result' = [result EXCEPT ![call] = "error"]
  PROVE  WorkInv'
<1>1. Typed /\ Shapes /\ Owned /\ HeadHolds /\ Chained /\ Launchable /\ OutputOnce /\ OutputDue
  BY DEF AllInv, CallInv, WorkInv
<1>2. kernel \in {"qk", "softmax", "pv"} /\ hpc # "alloc" /\ hpc # "return" /\ hpc' # "alloc"
  BY DEF Kernel, AfterLaunch
<1>3. PICK c \in Call, s1 \in Stream, job \in Job :
        c = call /\ s1 = stream[call] /\ job = [kernel |-> kernel, call |-> call]
  BY <1>1, <1>2 DEF Typed, Job
<1>4. ~ Past(c) /\ Untouched(c) /\ c \in Nat /\ call = c /\ call' = c
  <2>1. c \in Nat /\ ~ Past(c)
    BY <1>2, <1>3, CallNumbers DEF Past
  <2>. QED
    BY <1>3, <2>1 DEF AllInv, CallInv, Fresh
<1>5. PICK q \in Seq(Job) : q = queue[s1]
  BY <1>1, QueuedJobs
<1>6. PICK m \in Nat : m = Len(q)
  OBVIOUS
<1>7. PICK r \in Seq(Job) : /\ r = Append(q, job) /\ Len(r) = m + 1 /\ r[m + 1] = job
                            /\ \A n \in 1 .. m : r[n] = q[n]
                            /\ r # <<>> /\ (q = <<>> => m = 0) /\ (m = 0 => q = <<>>)
  <2>0. Append(q, job) \in Seq(Job)
    BY ONLY q \in Seq(Job), job \in Job
  <2>1. PICK r \in Seq(Job) : r = Append(q, job)
    BY ONLY <2>0
  <2>2. Len(r) = m + 1 /\ r[m + 1] = job
    BY <1>6, <2>1
  <2>3. \A n \in 1 .. m : r[n] = q[n]
    BY <1>6, <2>1
  <2>4. r # <<>> /\ (q = <<>> => m = 0) /\ (m = 0 => q = <<>>)
    BY <1>6, <2>2
  <2>. QED
    BY <2>1, <2>2, <2>3, <2>4
<1>8. /\ queue'[s1] = r
      /\ \A st \in Stream : st # s1 => queue'[st] = queue[st]
  BY <1>1, <1>3, <1>5, <1>7 DEF Typed
<1>9. /\ Head(r) = r[1]
      /\ \A n \in 1 .. m + 1 : n \in 1 .. m \/ n = m + 1
      /\ \A n \in 1 .. m : n \in 1 .. m + 1 /\ n # m + 1
      /\ m + 1 \in 1 .. m + 1
  BY <1>6, <1>7
<1>10. \A c2 \in Call : /\ SReady(c2) => SReady(c2)'
                        /\ PReady(c2) => PReady(c2)'
                        /\ Written(c2) => Written(c2)'
                        /\ Untouched(c2) => Untouched(c2)'
                        /\ \A k, d : Begun(k, c2, d) => Begun(k, c2, d)'
  BY WorkStays
<1>11. /\ kernel # "qk" => IF q = <<>> THEN IF kernel = "pv" THEN PReady(c) ELSE SReady(c)
                           ELSE q[m] = [kernel |-> Before[kernel], call |-> c]
  BY <1>1, <1>2, <1>3, <1>5, <1>6 DEF Launchable
<1>12. Shapes'
  <2>1. \A st \in Stream : queue'[st] = <<>> => queue[st] = <<>>
    BY <1>7, <1>8
  <2>. QED
    BY <1>1, <1>2, <2>1 DEF Shapes
<1>13. Owned'
  <2>1. ASSUME NEW st, NEW e, QueuedAt(st, e) PROVE QueuedAt(st, e)'
    BY <1>2, <2>1 DEF QueuedAt, Owner
  <2>2. QueuedAt(s1, job)'
    BY <1>1, <1>2, <1>3 DEF QueuedAt, Owner, Shapes
  <2>3. ASSUME NEW st \in Stream, NEW n \in 1 .. Len(queue'[st]) PROVE QueuedAt(st, queue[st][n])'
    <3>1. CASE st = s1
      <4>1. CASE n \in 1 .. m
        <5>1. queue'[st][n] = q[n] /\ QueuedAt(st, q[n])
          BY <1>1, <1>5, <1>6, <1>7, <1>8, <3>1, <4>1 DEF Owned
        <5>2. PICK e : e = q[n] /\ QueuedAt(st, e)
          BY <5>1
        <5>. QED
          BY <2>1, <5>1, <5>2
      <4>2. CASE n = m + 1
        BY <1>7, <1>8, <2>2, <3>1, <4>2
      <4>. QED
        BY <1>7, <1>8, <1>9, <3>1, <4>1, <4>2
    <3>2. CASE st # s1
      <4>1. queue'[st] = queue[st] /\ QueuedAt(st, queue[st][n])
        BY <1>1, <1>8, <3>2 DEF Owned
      <4>2. PICK e : e = queue[st][n] /\ QueuedAt(st, e)
        BY <4>1
      <4>. QED
        BY <2>1, <4>1, <4>2
    <3>. QED
      BY <3>1, <3>2
  <2>. QED
    BY <2>3 DEF Owned
<1>14. HeadHolds'
  <2>. SUFFICES ASSUME NEW st \in Stream, queue'[st] # <<>>
                PROVE  Begun(Head(queue[st]).kernel, Head(queue[st]).call, ran[st])'
    BY DEF HeadHolds
  <2>1. CASE st = s1 /\ q = <<>>
    <3>1. Head(queue'[st]) = job /\ ran'[st] = {}
      <4>1. m = 0 /\ r[1] = job
        BY <1>7, <2>1
      <4>2. ran[s1] = {}
        BY <1>1, <1>5, <2>1 DEF Shapes
      <4>. QED
        BY <1>8, <1>9, <2>1, <4>1, <4>2
    <3>2. Begun(kernel, c, {})
      BY <1>2, <1>4, <1>11, <2>1 DEF Begun, Untouched
    <3>3. Begun(kernel, c, {})'
      BY <1>10, <3>2
    <3>. QED
      BY <1>3, <3>1, <3>3
  <2>2. CASE st # s1 \/ q # <<>>
    <3>1. queue[st] # <<>> /\ Head(queue'[st]) = Head(queue[st])
      <4>1. CASE st # s1
        BY <1>8, <4>1
      <4>2. CASE st = s1 /\ q # <<>>
        <5>1. 1 \in 1 .. m /\ Head(q) = q[1]
          BY <1>6, <1>7, <4>2
        <5>. QED
          BY <1>5, <1>7, <1>8, <1>9, <4>2, <5>1
      <4>. QED
        BY <2>2, <4>1, <4>2
    <3>2. PICK e2 \in Job : /\ e2 = Head(queue[st]) /\ e2.call \in Call
                            /\ Begun(e2.kernel, e2.call, ran[st])
      BY <3>1, HeadJob
    <3>3. PICK c2, k2, d2 : c2 \in Call /\ c2 = e2.call /\ k2 = e2.kernel /\ d2 = ran[st]
      BY <3>2
    <3>4. Begun(k2, c2, d2)'
      BY <1>10, <3>2, <3>3
    <3>. QED
      BY <3>1, <3>2, <3>3, <3>4
  <2>. QED
    BY <2>1, <2>2
<1>15. Chained'
  <2>. SUFFICES ASSUME NEW st \in Stream, NEW n \in 2 .. Len(queue'[st]), NEW e2 \in Job,
                       queue'[st][n] = e2
                PROVE  Follows(queue[st], n, e2)'
    BY DEF Chained
  <2>0. e2.call \in Call
    BY DEF Job
  <2>1. CASE st = s1
    <3>1. CASE n \in 1 .. m
      <4>1. n \in 2 .. Len(q) /\ n - 1 \in 1 .. m
        BY <1>6, <3>1
      <4>2. q[n] = e2 /\ r[n - 1] = q[n - 1]
        BY <1>7, <1>8, <2>1, <3>1, <4>1
      <4>3. Follows(q, n, e2)
        BY <1>1, <1>5, <4>1, <4>2 DEF Chained
      <4>. QED
        BY <1>8, <1>10, <2>0, <2>1, <4>2, <4>3 DEF Follows
    <3>2. CASE n = m + 1
      <4>1. e2 = job /\ m \in 1 .. m /\ n - 1 = m
        BY <1>6, <1>7, <1>8, <2>1, <3>2
      <4>2. q # <<>> /\ r[n - 1] = q[m]
        BY <1>6, <1>7, <4>1
      <4>3. Untouched(c)'
        BY <1>4, <1>10
      <4>4. e2.kernel = kernel /\ e2.call = c
        BY <1>3, <4>1
      <4>5. e2.kernel # "qk" => r[n - 1] = [kernel |-> Before[e2.kernel], call |-> e2.call]
        BY <1>11, <4>2, <4>4
      <4>6. queue'[st] = r
        BY <1>8, <2>1
      <4>7. Untouched(e2.call)'
        BY <4>3, <4>4
      <4>. QED
        BY <4>5, <4>6, <4>7 DEF Follows
    <3>. QED
      BY <1>6, <1>7, <1>8, <2>1, <3>1, <3>2
  <2>2. CASE st # s1
    <3>1. queue'[st] = queue[st]
      BY <1>8, <2>2
    <3>2. Follows(queue[st], n, e2)
      BY <1>1, <3>1 DEF Chained
    <3>. QED
      BY <1>10, <2>0, <3>1, <3>2 DEF Follows
  <2>. QED
    BY <2>1, <2>2
<1>16. Launchable'
  <2>. SUFFICES ASSUME hpc' \in {"softmax", "pv"} PROVE r[Len(r)] = [kernel |-> Before[hpc'], call |-> c]
    BY <1>3, <1>4, <1>7, <1>8 DEF Launchable
  <2>1. hpc' = AfterLaunch[kernel]
    OBVIOUS
  <2>2. kernel = Before[hpc']
    BY <1>2, <2>1 DEF AfterLaunch, Before
  <2>. QED
    BY <1>3, <1>7, <2>2
<1>17. OutputOnce'
  <2>1. ASSUME NEW n \in 1 .. m, q[n].kernel = "pv" PROVE q[n] # job
    <3>1. Granted(q[n])
      BY <1>5, <1>6 DEF AllInv, CallInv, OutputsGranted
    <3>. QED
      BY <1>3, <1>4, <2>1, <3>1 DEF Granted
  <2>. SUFFICES ASSUME NEW st \in Stream, NEW n \in 1 .. Len(queue'[st]),
                       NEW n2 \in 1 .. Len(queue'[st]),
                       queue'[st][n].kernel = "pv", queue'[st][n2] = queue'[st][n]
                PROVE  n = n2
    BY DEF OutputOnce
  <2>2. CASE st = s1
    <3>1. r[n].kernel = "pv" /\ r[n2] = r[n]
      BY <1>8, <2>2
    <3>2. (n \in 1 .. m \/ n = m + 1) /\ (n2 \in 1 .. m \/ n2 = m + 1)
      BY <1>7, <1>8, <1>9, <2>2
    <3>3. CASE n \in 1 .. m /\ n2 \in 1 .. m
      BY <1>1, <1>5, <1>6, <1>7, <3>1, <3>3 DEF OutputOnce
    <3>4. CASE n \in 1 .. m /\ n2 = m + 1
      BY <1>7, <2>1, <3>1, <3>4
    <3>5. CASE n = m + 1 /\ n2 \in 1 .. m
      BY <1>7, <2>1, <3>1, <3>5
    <3>. QED
      BY <3>2, <3>3, <3>4, <3>5
  <2>3. CASE st # s1
    BY <1>1, <1>8, <2>3 DEF OutputOnce
  <2>. QED
    BY <2>2, <2>3
<1>18. OutputDue'
  <2>. SUFFICES ASSUME NEW c2 \in Call, Past(c2)', result'[c2] # "error"
                PROVE  Written(c2)' \/ \E n \in 1 .. Len(queue'[stream[c2]]) :
                                         queue'[stream[c2]][n] = [kernel |-> "pv", call |-> c2]
    BY DEF OutputDue
  <2>1. CASE c2 = c
    <3>1. hpc' = "return" /\ result' # [result EXCEPT ![call] = "error"]
      BY <1>1, <1>4, <2>1 DEF Past, Typed
    <3>2. kernel = "pv"
      BY <1>2, <3>1 DEF AfterLaunch
    <3>. QED
      BY <1>3, <1>7, <1>8, <1>9, <2>1, <3>2
  <2>2. CASE c2 # c
    <3>1. Past(c2) /\ result[c2] # "error"
      BY <1>1, <1>4, <2>2 DEF Past, Typed
    <3>2. CASE Written(c2)
      BY <1>10, <3>2
    <3>3. CASE ~ Written(c2)
      <4>1. PICK n \in 1 .. Len(queue[stream[c2]]) :
                   queue[stream[c2]][n] = [kernel |-> "pv", call |-> c2]
        BY <1>1, <3>1, <3>3 DEF OutputDue
      <4>2. n \in 1 .. Len(queue'[stream[c2]]) /\ queue'[stream[c2]][n] = queue[stream[c2]][n]
        <5>1. CASE stream[c2] = s1
          BY <1>5, <1>6, <1>7, <1>8, <1>9, <4>1, <5>1
        <5>2. CASE stream[c2] # s1
          <6>1. stream[c2] \in Stream
            BY <1>1 DEF Typed
          <6>. QED
            BY <1>8, <4>1, <5>2, <6>1
        <5>. QED
          BY <5>1, <5>2
      <4>. QED
        BY <4>1, <4>2
    <3>. QED
      BY <3>2, <3>3
  <2>. QED
    BY <2>1, <2>2
<1>. QED
  BY <1>12, <1>13, <1>14, <1>15, <1>16, <1>17, <1>18 DEF WorkInv

LEMMA LaunchKeepsWork ==
  ASSUME AllInv, NEW kernel \in Kernel, LaunchKernel(kernel)
  PROVE  WorkInv'
<1>1. /\ hpc = kernel /\ UNCHANGED <<score, causal, call, stream, ws, pool, ran, mem, o>>
      /\ \/ queue' = queue /\ hpc' = "return" /\ result' = [result EXCEPT ![call] = "error"]
         \/ /\ queue' = [queue EXCEPT ![stream[call]] =
                           Append(@, [kernel |-> kernel, call |-> call])]
            /\ \/ hpc' = AfterLaunch[kernel] /\ result' = result
               \/ hpc' = "return" /\ result' = [result EXCEPT ![call] = "error"]
  BY DEF LaunchKernel, AfterRefusal, inputs
<1>2. CASE queue' = queue /\ hpc' = "return" /\ result' = [result EXCEPT ![call] = "error"]
  <2>1. Typed /\ Shapes /\ Owned /\ HeadHolds /\ Chained /\ Launchable /\ OutputOnce /\ OutputDue
    BY DEF AllInv, CallInv, WorkInv
  <2>2. hpc # "alloc" /\ hpc # "return" /\ call \in Call
    BY <1>1, <2>1 DEF Kernel, Typed
  <2>3. Shapes'
    BY <1>1, <1>2, <2>1, <2>2 DEF Shapes
  <2>4. Owned'
    BY <1>1, <1>2, <2>1, <2>2 DEF Owned, QueuedAt, Owner
  <2>5. \A c \in Call : /\ Written(c) => Written(c)'
                        /\ \A k, d : Begun(k, c, d) => Begun(k, c, d)'
    BY <1>1, WorkStays
  <2>6. HeadHolds'
    <3>. SUFFICES ASSUME NEW st \in Stream, queue[st] # <<>>
                  PROVE  Begun(Head(queue[st]).kernel, Head(queue[st]).call, ran[st])'
      BY <1>2 DEF HeadHolds
    <3>1. PICK e \in Job : e = Head(queue[st]) /\ e.call \in Call /\ Begun(e.kernel, e.call, ran[st])
      BY HeadJob
    <3>2. PICK c, k, d : c \in Call /\ c = e.call /\ k = e.kernel /\ d = ran[st]
      BY <3>1
    <3>3. Begun(k, c, d)'
      BY <2>5, <3>1, <3>2
    <3>. QED
      BY <1>1, <1>2, <3>1, <3>2, <3>3
  <2>7. Chained' /\ OutputOnce'
    BY <1>1, <1>2, <2>1 DEF Chained, OutputOnce, Follows, Untouched
  <2>8. Launchable'
    BY <1>2 DEF Launchable
  <2>9. OutputDue'
    <3>1. \A c \in Call : Past(c)' /\ result'[c] # "error" => Past(c) /\ result[c] # "error"
      BY <1>1, <1>2, <2>1 DEF Past, Typed
    <3>. QED
      BY <1>1, <1>2, <2>1, <2>5, <3>1 DEF OutputDue
  <2>. QED
    BY <2>3, <2>4, <2>6, <2>7, <2>8, <2>9 DEF WorkInv
<1>. QED
  BY <1>1, <1>2, AppendKeepsWork

\* The inductive invariant of the shared workspaces, over that of the calls.
THEOREM WorkInvariant == Spec => []AllInv
<1>1. Init => WorkInv
  <2>. SUFFICES ASSUME Init PROVE WorkInv
    OBVIOUS
  <2>1. /\ hpc = "alloc" /\ call = 1 /\ score \in ScoreChoices
        /\ ws = [c \in Call |-> Undef]
        /\ pool = [b \in Workspace |-> "new"]
        /\ queue = [st \in Stream |-> <<>>] /\ ran = [st \in Stream |-> {}]
        /\ mem = [b \in Workspace |-> [a \in Address |-> Undef]]
        /\ o = [c \in Call |-> [h \in BH |-> [i \in Key |-> [d \in Elem |-> Unwritten]]]]
    BY DEF Init
  <2>2. Shapes
    BY <2>1 DEF Shapes
  <2>3. Owned /\ HeadHolds /\ Chained /\ OutputOnce
    BY <2>1 DEF Owned, HeadHolds, Chained, OutputOnce
  <2>4. Launchable
    BY <2>1 DEF Launchable
  <2>5. OutputDue
    <3>1. \A c \in Call : ~ Past(c)
      BY <2>1 DEF Past, Call
    <3>. QED
      BY <3>1 DEF OutputDue
  <2>. QED
    BY <2>2, <2>3, <2>4, <2>5 DEF WorkInv
<1>2. AllInv /\ [Next]_vars => WorkInv'
  <2>1. AllInv /\ UNCHANGED vars => WorkInv'
    <3>. SUFFICES ASSUME AllInv, UNCHANGED vars PROVE WorkInv'
      OBVIOUS
    <3>1. UNCHANGED <<score, causal, hpc, call, stream, ws, result, pool, queue, ran, mem, o>>
      BY DEF vars, inputs, host, device
    <3>2. /\ Shapes' <=> Shapes
          /\ Owned' <=> Owned
      BY <3>1 DEF Shapes, Owned, QueuedAt, Owner
    <3>3. /\ \A c, h, i, j : /\ SHeld(c, h, i, j)' <=> SHeld(c, h, i, j)
                             /\ PHeld(c, h, i, j)' <=> PHeld(c, h, i, j)
          /\ \A c, h, i : OutRow(c, h, i)' = OutRow(c, h, i)
      BY <3>1 DEF SHeld, PHeld, SCell, PCell, OutRow, Vis
    <3>4. /\ HeadHolds' <=> HeadHolds
          /\ Launchable' <=> Launchable
      BY <3>1, <3>3 DEF HeadHolds, Launchable, Begun, SReady, PReady
    <3>5. /\ Chained' <=> Chained
          /\ OutputOnce' <=> OutputOnce
      BY <3>1 DEF Chained, OutputOnce, Follows, Untouched
    <3>6. OutputDue' <=> OutputDue
      BY <3>1, <3>3 DEF OutputDue, Past, Written
    <3>. QED
      BY <3>2, <3>4, <3>5, <3>6 DEF AllInv, WorkInv
  <2>. QED
    BY <2>1, AllocKeepsWork, ReturnKeepsWork, LaunchKeepsWork, BlockKeepsWork, FinishKeepsWork
       DEF Next, HostStep, DeviceStep, Idle
<1>3. CallInv /\ WorkInv /\ [Next]_vars => WorkInv'
  BY <1>2 DEF AllInv
<1>4. Spec => []WorkInv
  BY <1>1, <1>3, CallsInvariant, PTL DEF Spec
<1>5. CallInv /\ WorkInv => AllInv
  BY DEF AllInv
<1>. QED
  BY <1>4, <1>5, CallsInvariant, PTL

\* What the output kernel leaves is the softmax row that is promised.
LEMMA PromisedRow ==
  ASSUME NEW c \in Call, NEW h \in BH, NEW i \in Key
  PROVE  OutRow(c, h, i) = Promise(c, h)!SoftmaxRow(i)
BY DEF OutRow, Vis, Promise!SoftmaxRow, Promise!Visible, Promise!Key, Key

\* A call that reported success, and whose kernels have all run, has its whole
\* output, whatever the other streams did with memory it had given back.
THEOREM SuccessfulCallsComplete == Spec => []SuccessCompletes
<1>1. AllInv => SuccessCompletes
  <2>. SUFFICES ASSUME AllInv, NEW c \in Call, result[c] = "ok",
                       \A n \in 1 .. Len(queue[stream[c]]) : queue[stream[c]][n].call # c,
                       NEW h \in BH, NEW i \in Key, NEW d \in Elem
                PROVE  o[c][h][i][d] = Promise(c, h)!SoftmaxRow(i)
    BY DEF SuccessCompletes
  <2>1. Past(c)
    BY DEF AllInv, CallInv, Fresh
  <2>2. Written(c)
    <3>1. OutputDue /\ result[c] # "error"
      BY DEF AllInv, WorkInv
    <3>2. ~ \E n \in 1 .. Len(queue[stream[c]]) :
              queue[stream[c]][n] = [kernel |-> "pv", call |-> c]
      <4>1. [kernel |-> "pv", call |-> c].call = c
        OBVIOUS
      <4>. QED
        BY <4>1
    <3>. QED
      BY <2>1, <3>1, <3>2 DEF OutputDue
  <2>. QED
    BY <2>2, PromisedRow DEF Written
<1>. QED
  BY <1>1, WorkInvariant, PTL

\* Every step writes, in every head of every call, elements of the output that
\* were unwritten, with the softmax row, or none.
THEOREM CallsImplementAttention == Spec => ImplementsAttention
<1>1. Init => \A c \in Call, h \in BH : Promise(c, h)!Init
  BY DEF Init, Promise!Init
<1>2. AllInv /\ [Next]_vars =>
        [\A c \in Call, h \in BH : UNCHANGED Promise(c, h)!vars \/ Promise(c, h)!Write]_vars
  <2>. SUFFICES ASSUME AllInv, [Next]_vars, NEW c \in Call, NEW h \in BH
                PROVE  UNCHANGED Promise(c, h)!vars \/ Promise(c, h)!Write
    OBVIOUS
  <2>1. CASE UNCHANGED <<score, causal, o>>
    BY <2>1 DEF Promise!vars
  <2>2. CASE \E st \in Stream : RunBlock(st)
    <3>1. PICK st \in Stream : RunBlock(st)
      BY <2>2
    <3>2. PICK e \in Job :
             /\ queue[st] # <<>> /\ e = queue[st][1] /\ e.call \in Call /\ QueuedAt(st, e)
             /\ \A b \in Workspace : b # ws[e.call] => mem'[b] = mem[b]
             /\ \A c2 \in Call : c2 # e.call => o'[c2] = o[c2]
             /\ e.kernel # "pv" => o' = o
             /\ DOMAIN mem' = Workspace /\ DOMAIN o' = Call /\ DOMAIN o'[e.call] = BH
             /\ \E done : ran' = [ran EXCEPT ![st] = done] /\ Begun(e.kernel, e.call, done)'
      BY <3>1, OneBlock
    <3>3. UNCHANGED <<score, causal>>
      BY <3>1 DEF RunBlock, inputs
    <3>4. CASE c # e.call \/ e.kernel # "pv"
      <4>1. o'[c] = o[c]
        BY <3>2, <3>4
      <4>. QED
        BY <3>3, <4>1 DEF Promise!vars
    <3>5. CASE c = e.call /\ e.kernel = "pv"
      <4>1. PICK done : ran' = [ran EXCEPT ![st] = done] /\ Begun(e.kernel, e.call, done)'
        BY <3>2
      <4>2. ran[st] \subseteq done
        <5>1. DOMAIN ran = Stream
          BY DEF AllInv, WorkInv, Shapes
        <5>2. PICK block : ran' = [ran EXCEPT ![st] = @ \cup {block}]
          BY <3>1 DEF RunBlock
        <5>. QED
          BY <4>1, <5>1, <5>2
      <4>3. Begun(e.kernel, e.call, ran[st])
        BY <3>2, HeadJob
      <4>4. ASSUME NEW i \in Key, NEW d \in Elem
            PROVE  \/ o'[c][h][i][d] = o[c][h][i][d]
                   \/ o[c][h][i][d] = Unwritten /\ o'[c][h][i][d] = Promise(c, h)!SoftmaxRow(i)
        <5>1. o[c][h][i][d] = IF <<h, (i * Dim + d) \div BlockThreads>> \in ran[st]
                                THEN OutRow(c, h, i) ELSE Unwritten
          BY <3>5, <4>3 DEF Begun
        <5>2. o'[c][h][i][d] = IF <<h, (i * Dim + d) \div BlockThreads>> \in done
                                 THEN OutRow(c, h, i)' ELSE Unwritten
          BY <3>5, <4>1 DEF Begun
        <5>3. OutRow(c, h, i)' = OutRow(c, h, i)
          BY <3>3 DEF OutRow, Vis
        <5>. QED
          BY <4>2, <5>1, <5>2, <5>3, PromisedRow
      <4>. QED
        BY <3>3, <4>4 DEF Promise!Write, Promise!inputs
    <3>. QED
      BY <3>4, <3>5
  <2>. QED
    BY <2>1, <2>2 DEF Next, HostStep, DeviceStep, Idle, Alloc, LaunchKernel, Return,
         FinishKernel, vars, inputs, device
<1>. QED
  BY <1>1, <1>2, WorkInvariant, PTL DEF Spec, ImplementsAttention
===============================================================================
