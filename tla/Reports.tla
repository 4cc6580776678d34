------------------------------ MODULE Reports ------------------------------
(***************************************************************************)
(* The result files of one GPU and the README made from them. Sessions of  *)
(* bench.py append rows and rebuild the summary, those of gpt_block.py     *)
(* only append, several of them at once or one after the other, and they   *)
(* die at any step; profile.sh renews the                                  *)
(* profiles of a stage, kernel by kernel, and may be blocked, fail or die; *)
(* bench_to_md.py and ncu_to_md.py write the blocks of the README or, with *)
(* --check, compare them.                                                  *)
(***************************************************************************)
EXTENDS ResultRows, FiniteSets

CONSTANTS
  Session,          (* sessions of bench.py and gpt_block.py               *)
  KeysOf,           (* for each file the keys of the rows a session writes *)
  MsOf,             (* what each key takes                                 *)
  Failing,          (* which keys a session may get no time for            *)
  OldRows,          (* the lines of each file at the start                 *)
  Kernel,           (* the kernels of the profiled stage                   *)
  Metric,           (* the metrics of the one column of the NCU table      *)
  Launches,         (* what ncu may print of a launch                      *)
  Bounds            (* how many sessions run, how many at once, how many   *)
                    (* profile runs; whether the README has its markers    *)

\* The power of 1000 that a unit of ncu's vocabulary means; a time is printed
\* without a prefix and by itself, anything else may be per a time.
Meaning(u) ==
  Power[u.prefix] + (IF u.quantity \in DOMAIN Time THEN Time[u.quantity] ELSE 0)
    - (IF u.denom \in DOMAIN Time THEN Time[u.denom] ELSE IF u.denom = "Kcycle" THEN 1 ELSE 0)

InVocabulary(u) ==
  /\ u.prefix \in DOMAIN Power
  /\ u.quantity \in DOMAIN Time => u.prefix = "none" /\ u.denom = "none"

\* What a launch prints is 1 in base units, unless it has no number.
Prints(c) == InVocabulary(c.unit) /\ (c.value # NoNumber => c.value = 0 - Meaning(c.unit))

\* The rows that the files hold at the start are below one header. Those of
\* gpt_block.py come in the order of their sessions.
OldRow(f, r) ==
  /\ r # Header => /\ DOMAIN r = {"key", "stamp", "commit", "ms", "notes", "tuning"}
                   /\ r.stamp \in Int /\ r.stamp <= 1 /\ r.ms \in Nat \cup {NoNumber}
  /\ r # Header /\ f # Gpt => r.key \in RenderedKeys

OldLines(f, lines) ==
  /\ lines \in Seq(ToSet(lines))
  /\ lines # <<>> => Head(lines) = Header
  /\ \A i \in DOMAIN lines : OldRow(f, lines[i])
  /\ f = Gpt => \A j \in DOMAIN lines : j > 1 =>
       lines[j] # Header /\ \A i \in 2 .. j : lines[i].stamp <= lines[j].stamp

ASSUME ReportsAssumption ==
  /\ StageFiles \in Seq(ToSet(StageFiles)) /\ Tuning # Gpt
  /\ Tuning \notin ToSet(StageFiles) /\ Gpt \notin ToSet(StageFiles)
  /\ OUR_IMPLS \in Seq(OurKeys) /\ BASELINE_IMPLS \in Seq(ToSet(BASELINE_IMPLS))
  /\ Naive \in OurKeys /\ Sdpa \notin OurKeys
  /\ \A f \in ResultFile : KeysOf[f] \in Seq(ToSet(KeysOf[f]))
  /\ \A f \in ResultFile \ {Gpt} : KeysOf[f] \in Seq(RenderedKeys)
  /\ \A f \in ResultFile : \A i \in DOMAIN KeysOf[f] : MsOf[KeysOf[f][i]] \in Nat
  /\ Junk \notin RenderedKeys
  /\ DOMAIN OldRows = ResultFile /\ \A f \in ResultFile : OldLines(f, OldRows[f])
  /\ IsFiniteSet(Session) /\ Kernel # {}
  /\ \A launch \in Launches : DOMAIN launch # {} /\ \A i \in DOMAIN launch : Prints(launch[i])
  /\ Bounds \subseteq [sessions : 0 .. Cardinality(Session), atOnce : Nat,
                       profiles : Nat, markers : BOOLEAN]

VARIABLES
  bound,
  clock,                     (* utc seconds                                *)
  csv,                      (* the lines of each file                     *)
  at, stamp, out, new,       (* of each session                            *)
  failed,                    (* the keys it got no time for                *)
  snapshot,                  (* what its rebuild_summary has read          *)
  summary,                   (* summary.csv                                *)
  last, alone,               (* the session started last; did it overlap?  *)
  profiler, commit, todo,    (* profile.sh: its state, its source, kernels *)
  meta, raw, refusal,        (* the stage's .meta, .raw.csv by kernel, and *)
                             (* whether it has a .profiler.txt             *)
  renewed,                   (* the kernels the last profile.sh renewed    *)
  benchBlock, gptBlock, ncuBlock,    (* the README                         *)
  generated                  (* docs/generated/ncu_stage<N>.md             *)

fileVars == <<csv, summary>>
sessions == <<clock, at, stamp, out, new, failed, snapshot, last, alone>>
profiles == <<profiler, commit, todo, meta, raw, refusal, renewed>>
readme   == <<benchBlock, gptBlock, ncuBlock, generated>>
rvars    == <<bound, fileVars, sessions, profiles, readme>>

Empty  == <<>>      \* no file, no rows

RInit ==
  /\ bound \in Bounds
  /\ clock = 1
  /\ csv = OldRows
  /\ at = [s \in Session |-> "off"]
  /\ stamp = [s \in Session |-> 0]
  /\ out = [s \in Session |-> Tuning]
  /\ new = [s \in Session |-> FALSE]
  /\ failed = [s \in Session |-> {}]
  /\ snapshot = [s \in Session |-> Empty]
  /\ summary = Empty
  /\ last = "none" /\ alone = TRUE
  /\ profiler = "off" /\ commit = 0 /\ todo = {}
  /\ meta = Empty /\ raw = Empty /\ refusal = FALSE /\ renewed = {}
  /\ benchBlock = (IF bound.markers THEN NoText ELSE NoBlock)
  /\ ncuBlock = benchBlock
  /\ gptBlock = (IF bound.markers THEN Empty ELSE NoBlock)
  /\ generated = Empty

-------------------------------------------------------------------------------
(* bench.py                                                                *)

Active  == {s \in Session : at[s] \notin {"off", "done", "dead"}}
Started == {s \in Session : at[s] # "off"}

\* run_id is taken once, when the session starts.
StartSession(s) ==
  /\ at[s] = "off"
  /\ Cardinality(Started) < bound.sessions /\ Cardinality(Active) < bound.atOnce
  /\ \E now \in {clock, clock + 1} : clock' = now /\ stamp' = [stamp EXCEPT ![s] = now]
  /\ \E f \in ResultFile : out' = [out EXCEPT ![s] = f]
  /\ at' = [at EXCEPT ![s] = "measure"]
  /\ last' = s /\ alone' = (Active = {})
  /\ UNCHANGED <<bound, fileVars, new, failed, snapshot, profiles, readme>>

\* append_rows looks at the file, absent or empty, and then opens it, which
\* may leave an empty file behind; what is written waits in the buffer.
IsNew(f) == csv[f] = <<>>

OpenFile(s) ==
  /\ at[s] = "measure"
  /\ new' = [new EXCEPT ![s] = IsNew(out[s])]
  /\ at' = [at EXCEPT ![s] = "open"]
  /\ UNCHANGED <<bound, fileVars, clock, stamp, out, failed, snapshot, last, alone, profiles, readme>>

\* One source and so one commit at a time; later sessions have later ones.
BenchRows(s, without) ==
  [i \in DOMAIN KeysOf[out[s]] |->
     LET k == KeysOf[out[s]][i]
     IN  [key |-> k, stamp |-> stamp[s], commit |-> stamp[s], tuning |-> out[s] = Tuning,
          ms |-> IF k \in without THEN NoNumber ELSE MsOf[k],
          notes |-> IF k \notin without THEN {} ELSE IF k \in OurKeys THEN {OomRuntime} ELSE {Refused}]]

\* An implementation of the block that is refused gets no row.
GptRows(s, without) ==
  FlattenSeq([i \in DOMAIN KeysOf[Gpt] |->
    LET k == KeysOf[Gpt][i]
    IN  IF k \in without THEN <<>>
        ELSE <<[key |-> k, stamp |-> stamp[s], commit |-> stamp[s], ms |-> MsOf[k],
                notes |-> {}, tuning |-> FALSE]>>])

WrittenRows(s, without) == IF out[s] = Gpt THEN GptRows(s, without) ELSE BenchRows(s, without)

\* The rows of a case fit the buffer and are written as one when it closes.
CloseFile(s) ==
  /\ at[s] = "open"
  /\ \E without \in {F \in Failing : F \subseteq ToSet(KeysOf[out[s]])} :
       /\ WrittenRows(s, without) # <<>>       \* else it is not opened
       /\ csv' = [csv EXCEPT ![out[s]] =
                     @ \o (IF new[s] THEN <<Header>> ELSE <<>>) \o WrittenRows(s, without)]
       /\ failed' = [failed EXCEPT ![s] = without]
  /\ new' = [new EXCEPT ![s] = FALSE]
  /\ at' = [at EXCEPT ![s] = IF out[s] = Gpt THEN "done" ELSE "written"]
  /\ UNCHANGED <<bound, summary, clock, stamp, out, snapshot, last, alone, profiles, readme>>

\* MUTANT: the summary is made of the session's own file.
SummaryRows_own(s) == latest_rows(read_rows(csv[out[s]]))

SummaryRows(s) == load_stage_rows(csv)

ReadBack(s) ==
  /\ at[s] = "written"
  /\ snapshot' = [snapshot EXCEPT ![s] = SummaryRows(s)]
  /\ at' = [at EXCEPT ![s] = "rebuild"]
  /\ UNCHANGED <<bound, fileVars, clock, stamp, out, new, failed, last, alone, profiles, readme>>

WriteSummary(s) ==
  /\ at[s] = "rebuild"
  /\ summary' = IF snapshot[s] = Empty THEN summary ELSE snapshot[s]
  /\ snapshot' = [snapshot EXCEPT ![s] = Empty]
  /\ at' = [at EXCEPT ![s] = "done"]
  /\ UNCHANGED <<bound, csv, clock, stamp, out, new, failed, last, alone, profiles, readme>>

\* What it had not written is lost, and with it its stamp.
SessionDies(s) ==
  /\ s \in Active
  /\ at' = [at EXCEPT ![s] = "dead"]
  /\ snapshot' = [snapshot EXCEPT ![s] = Empty]
  /\ new' = [new EXCEPT ![s] = FALSE]
  /\ LET wrote == at[s] \in {"written", "rebuild"}
     IN  /\ stamp' = [stamp EXCEPT ![s] = IF wrote THEN @ ELSE 0]
         /\ out' = [out EXCEPT ![s] = IF wrote THEN @ ELSE Tuning]
  /\ UNCHANGED <<bound, fileVars, clock, failed, last, alone, profiles, readme>>

-------------------------------------------------------------------------------
(* profile.sh                                                              *)

meta_appended(c) == Append(meta, c)   \* MUTANT: added to what is there
meta_written(c)  == <<c>>

\* The .meta is begun anew before anything is measured and .profiler.txt is
\* removed; the counters that are there stay until their kernel has been
\* profiled again.
StartProfile ==
  /\ profiler # "on" /\ commit < bound.profiles
  /\ commit' = commit + 1
  /\ meta' = meta_written(commit + 1)
  /\ refusal' = FALSE
  /\ profiler' = "on" /\ todo' = Kernel /\ renewed' = {}
  /\ UNCHANGED <<bound, fileVars, sessions, raw, readme>>

Imported(k, launch) ==
  /\ profiler = "on" /\ k \in todo
  /\ raw' = [j \in DOMAIN raw \cup {k} |->
               IF j = k THEN [launch |-> launch, commit |-> commit] ELSE raw[j]]
  /\ renewed' = renewed \cup {k}
  /\ UNCHANGED <<bound, fileVars, sessions, commit, meta, refusal, readme>>

\* In base units or, if ncu refuses the flag, in those it chooses.
Profiled(k) ==
  /\ \E launch \in Launches : Imported(k, launch)
  /\ todo' = todo \ {k}
  /\ UNCHANGED profiler

\* Both imports fail: the script ends and leaves an empty file.
ImportFails(k) ==
  /\ Imported(k, Empty)
  /\ profiler' = "dead" /\ todo' = {}

\* ncu fails, or no launch matches: recorded, and on to the next kernel.
ProfileFailed(k) ==
  /\ profiler = "on" /\ k \in todo
  /\ todo' = todo \ {k} /\ refusal' = TRUE
  /\ UNCHANGED <<bound, fileVars, sessions, profiler, commit, meta, raw, renewed, readme>>

\* ncu refuses to fix the clocks: recorded, and tried again without.
ClockRefused ==
  /\ profiler = "on" /\ todo # {}
  /\ refusal' = TRUE
  /\ UNCHANGED <<bound, fileVars, sessions, profiler, commit, todo, meta, raw, renewed, readme>>

\* ncu is missing, or the counters are blocked: recorded, and the end.
Blocked ==
  /\ profiler = "on" /\ todo # {}
  /\ refusal' = TRUE
  /\ profiler' = "off" /\ todo' = {}
  /\ UNCHANGED <<bound, fileVars, sessions, commit, meta, raw, renewed, readme>>

ProfileEnds ==
  /\ profiler = "on" /\ todo = {}
  /\ profiler' = "off"
  /\ UNCHANGED <<bound, fileVars, sessions, commit, todo, meta, raw, refusal, renewed, readme>>

ProfileDies ==
  /\ profiler = "on"
  /\ profiler' = "dead" /\ todo' = {}
  /\ UNCHANGED <<bound, fileVars, sessions, commit, meta, raw, refusal, renewed, readme>>

-------------------------------------------------------------------------------
(* bench_to_md.py and ncu_to_md.py, run where the results are pulled to    *)
(* once the run that makes them is over.                                   *)

Idle == Active = {} /\ profiler # "on"

load_profiles == [k \in DOMAIN raw |-> parse_ncu(raw[k].launch)]

Dumped == {k \in DOMAIN raw : DOMAIN load_profiles[k].values # {}}

\* The first value of a key.
read_meta == IF meta = Empty THEN NoNumber ELSE Head(meta)

HaveValues_anyFile == DOMAIN raw # {}      \* MUTANT: a file without a launch will do
HaveValues == Dumped # {}

\* The reason why there are no counters, unless there are some.
degraded_notes == refusal /\ ~HaveValues

render_readme ==
  IF raw = Empty /\ ~degraded_notes THEN NoText
  ELSE [rows |-> [k \in DOMAIN raw |->
                    [commit |-> read_meta,
                     column |-> IF k \in Dumped THEN col_value(load_profiles[k], Metric) ELSE NoNumber]],
        notes |-> degraded_notes]

render_stage_dump == [k \in Dumped |-> render_dump(load_profiles[k])]

\* The dump is written if there is something to dump, and never removed.
stage_dump == IF HaveValues THEN render_stage_dump ELSE generated

BenchToMd ==
  /\ Idle
  /\ benchBlock' = replace_block(benchBlock, render_bench(csv))
  /\ gptBlock' = replace_block(gptBlock, render_gpt(csv))
  /\ <<benchBlock, gptBlock>>' # <<benchBlock, gptBlock>>
  /\ UNCHANGED <<bound, fileVars, sessions, profiles, ncuBlock, generated>>

NcuToMd ==
  /\ Idle
  /\ generated' = stage_dump
  /\ ncuBlock' = replace_block(ncuBlock, render_readme)
  /\ <<generated, ncuBlock>>' # <<generated, ncuBlock>>
  /\ UNCHANGED <<bound, fileVars, sessions, profiles, benchBlock, gptBlock>>

\* What --check answers.
BenchChecks == /\ benchBlock = replace_block(benchBlock, render_bench(csv))
               /\ gptBlock = replace_block(gptBlock, render_gpt(csv))
NcuChecks   == generated = stage_dump /\ ncuBlock = replace_block(ncuBlock, render_readme)

Quiet == Idle /\ UNCHANGED rvars

RNext ==
  \/ \E s \in Session : \/ StartSession(s) \/ OpenFile(s) \/ CloseFile(s)
                        \/ ReadBack(s) \/ WriteSummary(s) \/ SessionDies(s)
  \/ StartProfile \/ ClockRefused \/ Blocked \/ ProfileEnds \/ ProfileDies
  \/ \E k \in Kernel : Profiled(k) \/ ImportFails(k) \/ ProfileFailed(k)
  \/ BenchToMd \/ NcuToMd
  \/ Quiet

RSpec == RInit /\ [][RNext]_rvars

-------------------------------------------------------------------------------
\* The sessions that got as far as closing their file.
Wrote(s) == stamp[s] > 0 /\ at[s] \in {"written", "rebuild", "done", "dead"}

\* The measurements that have been made with the default configuration: those
\* of the sessions, and the old ones.
MeasuredIn(F) ==
  {r \in UNION ({ToSet(WrittenRows(s, failed[s])) : s \in {t \in Session : Wrote(t) /\ out[t] \in F}}
                \cup {ToSet(OldRows[f]) : f \in F}) : r # Header}

Measured == MeasuredIn(ToSet(StageFiles))

\* Those that no other of their key is newer than.
NewestOf(rows) == {r \in rows : \A q \in rows : q.key = r.key => q.stamp <= r.stamp}
Newest == NewestOf(Measured)

ShownBench == BenchChecks /\ benchBlock \notin {NoBlock, NoText}

\* When bench_to_md --check accepts the README, its table has a row for each
\* key that was ever measured with the default configuration, and it is one of
\* the newest of the key, whatever file each session wrote to, whichever wrote
\* first, and whatever sessions died over a file or wrote its header twice;
\* and there is no table only if nothing was measured. The same goes for the
\* table of gpt_block.py as long as sessions do not overlap.
TableNewest ==
  /\ BenchChecks /\ gptBlock # NoBlock /\ bound.atOnce = 1 =>
       LET D == {gptBlock[k] : k \in DOMAIN gptBlock}
       IN  /\ {r.key : r \in D} = {r.key : r \in MeasuredIn({Gpt})}
           /\ D \subseteq NewestOf(MeasuredIn({Gpt}))
  /\ BenchChecks /\ benchBlock = NoText => Measured = {}
  /\ ShownBench => LET D == ToSet(benchBlock.details)
                   IN  /\ {r.key : r \in D} = {r.key : r \in Measured}
                       /\ D \subseteq Newest

\* The ratios the README leads with then stand between a newest time of S1 or
\* of the baseline and one of a kernel that no kernel undercuts, never an
\* older time of a kernel whose newest run gave none; and unless it names
\* another commit, kernel and baseline were measured at the same.
ComparisonFair ==
  ShownBench =>
    LET Fair(c, other) ==
          c \notin {Dash, NoBaseline} =>
            \E a, b \in Newest :
              /\ a.key = other /\ b.key = c.ours
              /\ c.ratio = <<a.ms, b.ms>> /\ b.ms # NoNumber
              /\ \A k \in OurKeys : (\E r \in Newest : r.key = k) =>
                   \E r \in Newest : r.key = k /\ (r.ms = NoNumber \/ b.ms <= r.ms)
              /\ other = Sdpa => c.baseline_at = IF a.commit = b.commit THEN NoNumber ELSE a.commit
    IN  /\ Fair(benchBlock.headline.vs_naive, Naive)
        /\ Fair(benchBlock.headline.vs_sdpa, Sdpa)

\* Once the session started last, if one of bench.py, has ended and none ran
\* beside it, summary.csv is what its readers would compute from the stage
\* files, whatever the sessions before it left undone.
SummaryCurrent ==
  last # "none" /\ alone =>
    (at[last] = "done" /\ out[last] # Gpt => summary = load_stage_rows(csv))

ShownNcu == NcuChecks /\ profiler # "on" /\ ncuBlock \notin {NoBlock, NoText}

\* The commit that the README prints next to a row is the one its counters were
\* taken at, whatever other kernels were left out; it is a later one only if the
\* last profile.sh did not get to this kernel, and a run that was not killed
\* has then left its .profiler.txt.
CommitTrue ==
  ShownNcu =>
    \A k \in DOMAIN ncuBlock.rows :
      \/ ncuBlock.rows[k].commit = raw[k].commit
      \/ /\ k \notin renewed /\ raw[k].commit < ncuBlock.rows[k].commit
         /\ profiler = "off" => refusal

\* After a profile.sh that came to its end, a README with markers that the
\* check accepts is not silent about the stage: it has a row of counters, or
\* it says why there is none, whatever unusable files were left before.
ReasonShown ==
  NcuChecks /\ profiler = "off" /\ commit > 0 /\ ncuBlock # NoBlock =>
    /\ ncuBlock # NoText
    /\ ncuBlock.notes \/ \E k \in DOMAIN ncuBlock.rows : DOMAIN raw[k].launch # {}

\* No number of the NCU table or of the generated dump is off by a power of
\* 1000, whatever units ncu has chosen: it is in base units or withheld.
NoneMisscaled ==
  /\ ncuBlock \notin {NoBlock, NoText} =>
       \A k \in DOMAIN ncuBlock.rows : ncuBlock.rows[k].column \in {{0}, NoNumber, Withheld}
  /\ \A k \in DOMAIN generated : \A i \in DOMAIN generated[k] :
       generated[k][i] \in {0, NoNumber, Withheld}
===============================================================================
