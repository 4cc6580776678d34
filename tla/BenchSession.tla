---------------------------- MODULE BenchSession ----------------------------
(***************************************************************************)
(* One run of bench.py: for each case it probes the implementations, calls *)
(* each, gates it on correctness, times it while a sampler thread reads    *)
(* the SM clock, and only when the whole case is measured appends its rows *)
(* to the stage files. Any call may run out of memory, which costs the     *)
(* implementation its time but not its row, or raise something else, which *)
(* ends the process.                                                       *)
(*                                                                         *)
(* A file is named by its stage number. A clock sample is reduced to the   *)
(* thread that read it and the timed loop during which it was read.        *)
(* rows_by_file is a dict: the rows of each file, and its keys in          *)
(* insertion order.                                                        *)
(***************************************************************************)
EXTENDS Integers, FiniteSets, SequencesExt

CONSTANTS
  OurImpls,         (* OUR_IMPLS: the kernels, in order                    *)
  BaselineImpls,    (* BASELINE_IMPLS, in order                            *)
  StageOf,          (* the stage of each kernel                            *)
  Probed,           (* the baselines that are tried before they are used   *)
  Materialising,    (* configs.yaml: oom_by_design.applies_to              *)
  InputDtype,       (* those whose matrices have the input dtype (fp16)    *)
  Matrix,           (* B*H*N*N of each case                                *)
  TotalMem,         (* bytes of device memory                              *)
  StageChoices, BaselineChoices, BrokenChoices,   (* what is run, and how  *)
  MaxFaults         (* bound on refusals, out-of-memory errors and deaths  *)

Our      == ToSet(OurImpls)
Baseline == ToSet(BaselineImpls)
Case     == 1 .. Len(Matrix)
Between  == 0       \* a sample read while no loop was being timed

ASSUME BenchAssumption ==
  /\ OurImpls \in Seq(Our) /\ BaselineImpls \in Seq(Baseline)
  /\ StageOf \in [Our -> Nat \ {0}] /\ Our \cap Baseline = {}
  /\ Matrix \in Seq(Nat) /\ TotalMem \in Nat /\ MaxFaults \in Nat
  /\ StageChoices \subseteq SUBSET Our /\ BaselineChoices \subseteq SUBSET Baseline
  /\ BrokenChoices \subseteq SUBSET (Our \cup Baseline)

VARIABLES
  cuda, ext,                (* CUDA available; the extension importable    *)
  ours, baselines,          (* what the command line asks for              *)
  broken,                   (* those whose output fails the gate           *)
  pc, case, queue,          (* queue: the names a loop has yet to visit    *)
  impls, skips,             (* of build_impls                              *)
  rows, files,              (* rows_by_file: its lists and its keys        *)
  disk,                     (* the stage files: their rows                 *)
  loop, aborted,            (* timed loops begun; those that were cut short*)
  samples, stopSet, threads,(* the ClockSampler and its threads            *)
  exitCode, faults

inputs  == <<cuda, ext, ours, baselines, broken>>
sampler == <<samples, stopSet, threads>>
byFile  == <<rows, files>>
vars    == <<inputs, pc, case, queue, impls, skips, byFile, disk, loop, aborted,
             sampler, exitCode, faults>>

File == {0} \cup {StageOf[n] : n \in Our}

\* The first name of S in a list.
First(S, order) == order[SelectInSeq(order, LAMBDA n : n \in S)]

\* Baselines go to the file of the first stage that runs.
out_path(n) == IF n \in Our THEN StageOf[n]
               ELSE IF ours # {} THEN StageOf[First(ours, OurImpls)] ELSE 0

intermediate_bytes(n) == IF n \in InputDtype THEN 2 ELSE 4
workspace(n, c) == IF n \in Materialising THEN 2 * Matrix[c] * intermediate_bytes(n) ELSE 0
oom_by_design(n, c) == 4 * workspace(n, c) > TotalMem

Row(n, kind) == [impl |-> n, case |-> case, notes |-> kind]

\* rows_by_file.setdefault(out_path, []).append(row)
Put(n, kind) ==
  /\ rows' = [rows EXCEPT ![out_path(n)] = Append(@, Row(n, kind))]
  /\ files' = IF out_path(n) \in ToSet(files) THEN files ELSE Append(files, out_path(n))

NoRows == [f \in File |-> <<>>]

Init ==
  /\ cuda \in BOOLEAN /\ ext \in BOOLEAN
  /\ ours \in StageChoices /\ baselines \in BaselineChoices
  /\ broken \in BrokenChoices
  /\ pc = "main" /\ case = 0 /\ queue = {} /\ impls = {} /\ skips = {}
  /\ rows = NoRows /\ files = <<>>
  /\ disk = NoRows
  /\ loop = 0 /\ aborted = {}
  /\ samples = {} /\ stopSet = FALSE /\ threads = {}
  /\ exitCode = -1 /\ faults = 0

Fault == faults < MaxFaults /\ faults' = faults + 1

-------------------------------------------------------------------------------
(* The process                                                             *)

NoCuda ==
  /\ pc = "main" /\ ~cuda
  /\ pc' = "exited" /\ exitCode' = 2
  /\ UNCHANGED <<inputs, case, queue, impls, skips, byFile, disk, loop, aborted, sampler, faults>>

\* The next case; build_impls goes through the baselines and the stages.
StartCase ==
  /\ pc \in {"main", "written"} /\ cuda /\ case < Len(Matrix)
  /\ case' = case + 1
  /\ queue' = baselines \cup ours
  /\ impls' = {} /\ skips' = {} /\ rows' = NoRows /\ files' = <<>>
  /\ pc' = "build"
  /\ UNCHANGED <<inputs, disk, loop, aborted, sampler, exitCode, faults>>

\* The name whose turn it is: baselines come first in build_impls, and so they
\* do among its skips; the loop that measures begins with our kernels.
Name == First(queue, IF pc \in {"build", "refused"} THEN BaselineImpls \o OurImpls
                     ELSE OurImpls \o BaselineImpls)

Built(taken) ==
  /\ pc = "build" /\ queue # {}
  /\ impls' = IF taken THEN impls \cup {Name} ELSE impls
  /\ skips' = IF taken THEN skips ELSE skips \cup {Name}
  /\ queue' = queue \ {Name}
  /\ UNCHANGED <<inputs, pc, case, byFile, disk, loop, aborted, sampler, exitCode>>

IsProbed == Name \in Probed \/ (Name \in Our /\ ext)

TakeUnprobed ==
  Built(TRUE) /\ Name \in Baseline \ Probed /\ UNCHANGED faults

OpMissing ==
  Built(FALSE) /\ Name \in Our /\ ~ext /\ UNCHANGED faults

\* _probe runs the implementation once: it cannot succeed without the memory.
ProbeRuns ==
  Built(TRUE) /\ IsProbed /\ workspace(Name, case) <= TotalMem /\ UNCHANGED faults

ProbeRefused ==
  Built(FALSE) /\ IsProbed /\ IF workspace(Name, case) > TotalMem THEN UNCHANGED faults ELSE Fault

BuildDone ==
  /\ pc = "build" /\ queue = {}
  /\ queue' = skips
  /\ pc' = "refused"
  /\ UNCHANGED <<inputs, case, impls, skips, byFile, disk, loop, aborted, sampler, exitCode, faults>>

\* MUTANT: a refused backend is left out.
Skipped_noRow ==
  /\ pc = "refused" /\ queue # {}
  /\ queue' = queue \ {Name}
  /\ UNCHANGED <<inputs, pc, case, impls, skips, byFile, disk, loop, aborted, sampler, exitCode, faults>>

\* A refused backend is a row, never an omission; a skipped kernel has none.
Skipped ==
  /\ pc = "refused" /\ queue # {}
  /\ IF Name \in Baseline THEN Put(Name, "backend_refused") ELSE UNCHANGED byFile
  /\ queue' = queue \ {Name}
  /\ UNCHANGED <<inputs, pc, case, impls, skips, disk, loop, aborted, sampler, exitCode, faults>>

SkipsDone ==
  /\ pc = "refused" /\ queue = {}
  /\ queue' = impls
  /\ pc' = "impl"
  /\ UNCHANGED <<inputs, case, impls, skips, byFile, disk, loop, aborted, sampler, exitCode, faults>>

\* One implementation is done with its row and the next one begins.
Done(kind) ==
  /\ Put(Name, kind)
  /\ queue' = queue \ {Name}
  /\ pc' = "impl"
  /\ UNCHANGED <<inputs, case, impls, skips, disk, loop, exitCode>>

ByDesign ==
  /\ pc = "impl" /\ queue # {} /\ oom_by_design(Name, case)
  /\ Done("oom_by_design")
  /\ UNCHANGED <<aborted, sampler, faults>>

\* MUTANT: the row is written and the implementation is timed all the same.
GateFails_goesOn ==
  /\ pc = "impl" /\ queue # {} /\ ~oom_by_design(Name, case)
  /\ Name \in broken
  /\ Put(Name, "correctness_failed")
  /\ pc' = "timing"
  /\ UNCHANGED <<inputs, case, queue, impls, skips, disk, loop, aborted, sampler, exitCode, faults>>

GateFails ==
  /\ pc = "impl" /\ queue # {} /\ ~oom_by_design(Name, case)
  /\ Name \in broken
  /\ Done("correctness_failed")
  /\ UNCHANGED <<aborted, sampler, faults>>

GatePasses ==
  /\ pc = "impl" /\ queue # {} /\ ~oom_by_design(Name, case)
  /\ Name \notin broken
  /\ pc' = "timing"
  /\ UNCHANGED <<inputs, case, queue, impls, skips, byFile, disk, loop, aborted, sampler, exitCode, faults>>

\* OutOfMemoryError out of the call, the warm-up or the timed loop. In the
\* last case nobody stops the sampler.
RuntimeOom ==
  /\ pc \in {"impl", "timing", "loop"} /\ queue # {}
  /\ pc = "impl" => ~oom_by_design(Name, case)
  /\ Fault
  /\ Done("oom_runtime")
  /\ aborted' = IF pc = "loop" THEN aborted \cup {loop} ELSE aborted
  /\ UNCHANGED sampler

Start ==
  /\ samples' = {}
  /\ stopSet' = FALSE
  /\ threads' = threads \cup {[id |-> loop + 1, at |-> "check", v |-> Between]}

StartLoop ==
  /\ pc = "timing"          \* warmed up and estimated
  /\ loop' = loop + 1
  /\ Start
  /\ pc' = "loop"
  /\ UNCHANGED <<inputs, case, queue, impls, skips, byFile, disk, aborted, exitCode, faults>>

\* MUTANT: stop() joins first.
LoopDrained_notSet ==
  /\ pc = "loop"
  /\ pc' = "join"
  /\ UNCHANGED <<inputs, case, queue, impls, skips, byFile, disk, loop, aborted, sampler, exitCode, faults>>

\* stop(): the event is set before the join.
LoopDrained ==
  /\ pc = "loop"
  /\ stopSet' = TRUE
  /\ pc' = "join"
  /\ UNCHANGED <<inputs, case, queue, impls, skips, byFile, disk, loop, aborted, samples, threads,
                 exitCode, faults>>

Joined_noJoin == pc = "join"      \* MUTANT: the thread is left to itself
Joined == pc = "join" /\ \A t \in threads : t.id # loop

Timed ==
  /\ Joined
  /\ Done("timed")
  /\ UNCHANGED <<aborted, sampler, faults>>

\* append_rows, one file after the other in the order of their first rows.
AppendFile ==
  /\ pc = "impl" /\ queue = {} /\ files # <<>>
  /\ LET f == Head(files)
     IN  /\ disk' = [disk EXCEPT ![f] = @ \o rows[f]]
         /\ rows' = [rows EXCEPT ![f] = <<>>]
  /\ files' = Tail(files)
  /\ UNCHANGED <<inputs, pc, case, queue, impls, skips, loop, aborted, sampler, exitCode, faults>>

CaseWritten ==
  /\ pc = "impl" /\ queue = {} /\ files = <<>>
  /\ pc' = "written"
  /\ UNCHANGED <<inputs, case, queue, impls, skips, byFile, disk, loop, aborted, sampler, exitCode, faults>>

Exit ==
  /\ pc = "written" /\ case = Len(Matrix)
  /\ exitCode' = IF ours # {} /\ ~ext THEN 4 ELSE 0
  /\ pc' = "exited"
  /\ UNCHANGED <<inputs, case, queue, impls, skips, byFile, disk, loop, aborted, sampler, faults>>

\* Any other exception, or the end of the session: what is not on disk is lost.
Dies ==
  /\ pc \notin {"main", "exited", "dead"}
  /\ Fault
  /\ pc' = "dead"
  /\ rows' = NoRows /\ files' = <<>>
  /\ UNCHANGED <<inputs, case, queue, impls, skips, disk, loop, aborted, sampler, exitCode>>

Process ==
  NoCuda \/ StartCase \/ TakeUnprobed \/ OpMissing \/ ProbeRuns \/ ProbeRefused \/ BuildDone
    \/ Skipped \/ SkipsDone \/ ByDesign \/ GateFails \/ GatePasses \/ StartLoop \/ LoopDrained \/ Timed
    \/ AppendFile \/ CaseWritten \/ Exit

-------------------------------------------------------------------------------
(* The sampler threads: the newest, and those of aborted loops. All share  *)
(* one event and one list.                                                 *)

Running == pc \notin {"exited", "dead"}       \* daemon threads end with the process
others  == <<inputs, pc, case, queue, impls, skips, byFile, disk, loop, aborted, exitCode, faults>>

Moves(t, u) == threads' = (threads \ {t}) \cup {u}

SamplerChecks(t) ==
  /\ t.at = "check" /\ Running
  /\ IF stopSet THEN threads' = threads \ {t} ELSE Moves(t, [t EXCEPT !.at = "read"])
  /\ UNCHANGED <<others, samples, stopSet>>

\* A query that fails gives nothing to append.
SamplerReads(t) ==
  /\ t.at = "read" /\ Running
  /\ \/ Moves(t, [t EXCEPT !.at = "append", !.v = IF pc \in {"loop", "join"} THEN loop ELSE Between])
     \/ Moves(t, [t EXCEPT !.at = "check"])
  /\ UNCHANGED <<others, samples, stopSet>>

SamplerAppends(t) ==
  /\ t.at = "append" /\ Running
  /\ samples' = samples \cup {[by |-> t.id, v |-> t.v]}
  /\ Moves(t, [t EXCEPT !.at = "check", !.v = Between])
  /\ UNCHANGED <<others, stopSet>>

Sampler(id) ==
  \E t \in threads : t.id = id /\ (SamplerChecks(t) \/ SamplerReads(t) \/ SamplerAppends(t))

Ended == ~Running /\ UNCHANGED vars

Loops == 1 .. Len(Matrix) * Cardinality(Our \cup Baseline)

Next == Process \/ RuntimeOom \/ Dies \/ (\E id \in Loops : Sampler(id)) \/ Ended

\* The process keeps going and so does each sampler thread; failures are not owed.
Fairness == WF_vars(Process) /\ \A id \in Loops : WF_vars(Sampler(id))

Spec     == Init /\ [][Next]_vars
FairSpec == Spec /\ Fairness

-------------------------------------------------------------------------------
OnDisk == UNION {{<<f, i>> : i \in DOMAIN disk[f]} : f \in File}
RowsOf(n, c) == {p \in OnDisk : disk[p[1]][p[2]].impl = n /\ disk[p[1]][p[2]].case = c}

\* Every case the process has got past is on disk with exactly one row of
\* each requested baseline, refused, failed or timed, also if the process dies
\* later; and when a case has been written, each requested kernel has exactly
\* one row unless it was skipped, and then none.
RowPerImpl ==
  /\ \A c \in Case, n \in baselines :
       c < case \/ (c = case /\ pc = "written") => Cardinality(RowsOf(n, c)) = 1
  /\ pc = "written" =>
       \A n \in ours : Cardinality(RowsOf(n, case)) = IF n \in skips THEN 0 ELSE 1

\* No row, on disk or on its way there, gives a time for an implementation
\* whose output has failed the correctness gate.
GatedTimes ==
  \A r \in UNION {ToSet(rows[f]) \cup ToSet(disk[f]) : f \in File} :
    r.notes = "timed" => r.impl \notin broken

\* What stop() returns was read during the row's own loop, nothing of an
\* earlier row and nothing between rows, but for what a thread left behind by a
\* loop that OutOfMemoryError cut short was about to append when the list was
\* emptied: nothing of the others, and of each of these at most one sample, the
\* first it appends, however many loops it has been running through.
SamplesOwn ==
  /\ Joined => \A x \in samples : x.v = loop \/ x.by \in aborted
  /\ pc \in {"loop", "join"} =>
       \A t \in threads, x \in samples : x.by = t.id /\ t.at = "append" => t.v = loop

\* The run ends: joining the sampler cannot hang it, whatever threads earlier
\* loops have left behind.
SessionEnds == <>(pc \in {"exited", "dead"})

\* configs.yaml on oom_by_design: an implementation whose matrices exceed a
\* quarter of the device memory is not run, but its row is written.
OomByDesignShown ==
  pc = "written" =>
    \A n \in ours \cup baselines :
      oom_by_design(n, case) /\ (n \in Our => ext) =>
        \E p \in RowsOf(n, case) : disk[p[1]][p[2]].notes = "oom_by_design"
===============================================================================
