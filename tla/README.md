# A TLA+ model of fused-attention-cuda

The repository is a ladder of five CUDA implementations of scaled dot-product
attention (stages S1 to S5), a C ABI that dispatches to them, a PyTorch op, and
the scripts that build, test and benchmark them on a GPU. This directory holds
TLA+ modules that model the kernels and their host side, TLC runs that check
them on small instances, and proofs that TLAPS checks for every instance. The
references, the Python benchmark and the result files up to the README blocks
made from them are modelled as well.

## 1. The system

### Components, state, operations

| component | code | state it keeps | operations |
|---|---|---|---|
| online-softmax recurrence | `include/fa/softmax_math.cuh`, the tile loop of every fused stage | per row: running maximum `m`, sum `l`, un-normalised output `acc` | consume a tile; finish the row |
| S3, fused, scalar | `src/stage3_fused.cu` | shared tiles `Qs`, `Ks`, `Vs`; a thread per query row with scores and the running state in registers | load Q, load a tile, scores, update, stage O, store |
| S4, S5, tensor cores | `src/stage4_wmma.cu`, `src/stage5_tuned.cu` | as S3, plus opaque fragments, S/O strips per warp, P inside the Q tile, prefetched tiles in registers | the warp-collective loads and products, the strip round trips, the vote, the prefetch |
| S1/S2 row softmax | `stage1_naive.cu`, `stage2_tiled.cu` | slots for reductions in shared memory; a row of S and of P in global memory | strided passes, warp shuffles, block reductions |
| S2 tiled products | `stage2_tiled.cu` | two operand chunks in shared memory, register tiles | stage a chunk, add its products, store |
| materialising pipeline | `launch` of S1/S2, `run_stage` in `python/fused_attn/ext.cpp` | the workspace (S and P), the stream's queue, the allocator | allocate, three launches, return |
| host launchers | `prepare_once`, `launch` of S3/S4/S5, `include/fa/cuda_check.cuh` | one atomic word per kernel instantiation; the runtime's function attributes and per-thread last error | check the cap, prepare, launch, check |
| dispatch | `src/dispatch.cu`, `ext.cpp`, `ops.py` | the debug overrides | validate, choose a stage, forward |
| references | `python/fused_attn/reference.py`, `src/reference/` | none | exact and tiled attention |
| benchmarks | `bench/bench_main.cu`, `bench/bench.py`, `bench/gpt_block.py` | timing buffers, clock samples, the CSV of a stage | check, time, append a row |
| GPU session | `scripts/gpu_run.sh`, `profile.sh`, `tune_s5.sh`, `sync.sh` | the clock lock, the summary, result files | the session's steps and its exit trap |
| reports | `scripts/fa_common.py`, `*_to_md.py`, `roofline.py`, `perf_trailer.py` | none: files in, text out | render, check |

### Interaction

`ops.py` calls the registered op; `ext.cpp` (`run_stage`) checks the tensors,
makes their device current, allocates outputs and (for S1/S2) a workspace, and
calls `fa::forward` on the current stream. `dispatch.cu` validates and calls
`stageN::forward`, which picks a template instantiation and launches one kernel
(S3 to S5) or three (S1, S2) asynchronously. Errors travel up as `cudaError_t`.
Inside a kernel, threads communicate through shared memory and are ordered only
by block barriers, warp barriers and warp collectives.

`bench.py` calls the op through `ops.py` and the torch baselines, gates each on
the oracle, times it while a sampler thread polls the SM clock, and appends rows
to `bench/results/<gpu>/stage<N>.csv`; `profile.sh` leaves raw counters and a
`.meta` in `profiles/<gpu>`. `fa_common.py` reads both back, and `bench_to_md.py` and
`ncu_to_md.py` render the README from them. These parts communicate only through
files, and any of them may be killed between two writes.

### What is hard

* The order of threads inside a block: every tile buffer, strip and reduction
  slot is reused, and each reuse is guarded by one barrier. Dropping or moving
  one is a race that a test on one GPU may never show.
* Barriers inside loops with data-dependent bounds, early returns and rows past
  the end of the sequence: a bound that is not uniform hangs the block.
* The edges: partial query and key tiles, the diagonal, rows that see nothing,
  rows that lie in the memory of the next head.
* The recurrence: each term must be relative to the maximum it is summed under.
* The host side: a cache shared by threads across devices and failures, errors
  that belong to somebody else, memory given back while kernels are queued.
* Rows an attention mask empties, for some tiles or for all: the only place
  where the empty-prefix guards of the recurrence decide a result.
* The measurements: a sampler thread that shares one list and one event with
  those of aborted loops; out-of-memory errors and refusals at any call, each of
  which must still become a row; sessions that die or overlap over files that
  are read back later; counters that were blocked, kept from an older run, or
  printed in units `ncu` chose.

`PROJECT.json` lists each of these at its line ("hazards") with the properties
that would catch it, and the ones no property covers yet.

### What makes each part correct

The fused and materialised pipelines must write, for each query row, the softmax
over its visible keys and its log-sum-exp, once, and touch no other row
(`Attention`). For that: `m` is the maximum of the keys seen, the sums hold
exactly the visible keys seen relative to `m`, no thread reads a buffer that is
torn or stale, collectives are reached by everyone at the same point, and blocks
finish. The host must never launch an unprepared kernel and never report a
success that is none. The references must be that same softmax for any mask. A
benchmark must lose no row of a finished case and time nothing that failed its
gate, and the README must show the newest measurements, of one commit or
labelled, in base units, and never be silent about counters that could not be had.

## 2. The modules

| module | models | depends on |
|---|---|---|
| `ExpWeights` | the numbers: scores, exponentials, sums, the guards of `softmax_math.cuh` | |
| `Attention` | the promise: abstract specification of one head's output | |
| `RowSoftmax` | one row through the tile loop | `ExpWeights` |
| `TileMemory` | flat tiles in shared memory and what a thread computes from them | `ExpWeights` |
| `FusedBlock` | one block of `fa_s3_fused` | `TileMemory`; instantiates `RowSoftmax` and `Attention` |
| `StripBlock` | one block of `fa_s4_wmma` / `fa_s5_tuned` | `TileMemory`; instantiates `Attention` |
| `StageBlock` | what the blocks of S1 and S2 share: rows, launch state, the threads' places | `ExpWeights` |
| `SoftmaxBlock` | one block of `fa_s1_softmax` / `fa_s2_softmax` | `StageBlock` |
| `TiledProduct` | one block of `fa_s2_qk_tiled` / `fa_s2_pv_tiled` | `StageBlock` |
| `MaterialisedCalls` | calls of S1/S2 on streams, with their workspaces | `ExpWeights`; instantiates `Attention` per call and head |
| `HostCalls` | threads that prepare and launch the fused kernels | |
| `TiledReference` | the tiled references of `reference.py` and `cpu_reference.cpp`, with attend masks | `ExpWeights` |
| `BenchSession` | one run of `bench.py`, with its sampler threads | |
| `ResultRows` | rows, tables and units: what `fa_common.py` and the report scripts compute | |
| `Reports` | sessions that append, `profile.sh`, and the README made from their files | `ResultRows` |
| `TileTheorems` | lemmas about the operators of `TileMemory` and `ExpWeights`, for both fused kernels | `TileMemory` |
| `RowSoftmaxProofs`, `FusedBlockProofs`, `StripBlockProofs`, `TiledReferenceProofs` | the theorems | the module each is named for; the two block modules also `TileTheorems` |
| `StageBlockProofs` | the theorems about the blocks of S1 and S2 | `TiledProduct` and `SoftmaxBlock`, side by side; hence the names `ProductSpec`, `TileThread`, `TileStep` ... in the former |
| `CallsProofs` | the theorems about the calls | `HostCalls` and `MaterialisedCalls`, side by side; hence `HostSpec`, `HostNext`, ... in the former |
| `BenchProofs` | the theorems about the measurements | `BenchSession` and `Reports`, side by side; hence the names `RInit`, `RNext`, `RSpec` in the latter |
| `MC...` | instances for TLC | the module each extends |

### Numbers

A score is an integer or `NegInf`. A term `exp2((s - m) * c)`, with
`c = scale * log2(e) > 0`, is known by the key it belongs to and the integer
`s - m`; a sum is the function from its keys to these exponents, and multiplying
it by `alpha` shifts them. So a result is right exactly when every visible key
is in it once and relative to the same maximum; a key counted twice, lost, or
relative to an old maximum is a different value, and `-inf - -inf` is `NaN`,
which poisons what it touches as in IEEE arithmetic. A finished row is kept as
its coefficients: the differences of the scores. Floating-point rounding is not
modelled: the ladder's tolerances (`docs/NUMERICS.md`) are outside. `TiledProduct`
keeps a sum as the sequence of its products instead, because stages 1 and 2
promise the same order of addition on every run.

### Correspondence

*FusedBlock*: `pc` is the place of a thread between barriers, the names of the
barrier states are those of the code's comments (RAW, WAR). A thread's loads of
its share of a tile (`SliceOf`) are one step, since nobody reads the tile in
between; its reads of a tile are one step for the same reason, and `WholeTiles`
checks that reason. Registers are per-thread functions; `Qs` holds first Q, then
O, as in the code. Rows past `N` load zeroes (`Pad`), run through every step and
store nothing.

*StripBlock*: a lane is a thread, `warp`, `r`, `half` are computed as in the
code. What a fragment element is and which lane holds it is a constant
(`Holder`), so no step may depend on it. `LaneStep` is what a lane does alone,
`WarpStep` what a warp does at once. With `Prefetch = {FALSE}` it is stage 4.

*SoftmaxBlock*: `stage` selects the kernel; `ArrayOf` gives S1 one array of
slots and S2 two, and `AfterMax` gives S1 its second barrier and S2 its early
return. Rows of `-inf` only are included: causal rows always see key 0, but both
kernels guard against them and their guards are part of the code.

*TiledProduct*: chunk, tile and vector sizes are constants under the kernel's
static assertions.

*MaterialisedCalls*: the host's program counter follows `run_stage` and
`launch`; a launch either queues the kernel or is refused, and the first launch
check may also report an error that an earlier call left behind. The caching
allocator is what `ext.cpp` states it relies on: a block that is given back can
be taken at once, but only for work on the stream it was used on. A block of a
kernel is one step; what happens inside is `SoftmaxBlock` and `TiledProduct`.

*HostCalls*: `Forward` is a call with its support check, `Answer` what returns from
it; in between, one action per step of `launch` and `prepare_once` that another
thread can interleave with. `ready` is the atomic word, as the set of its bits;
`attr` is the driver's state; `lastError` what `cudaGetLastError` would return.
Each CUDA call but `cudaGetDevice` may fail at any time.

*TiledReference*: `code` selects the Python or the C++ function. They differ in
where a tile's mask is computed, in which tiles are skipped, and in how a row
that sees nothing is guarded; a step is one tile of one query block. The one-pass reference and the unguarded torch
softmax are operators that `RowsExact` and `RatioVerdict` compare with. In real
arithmetic an error is 0 or not a number, and the ratio rule is checked as such.

*BenchSession*: `pc` follows `main`, `build_impls`, `measure_case` and
`append_rows`; `queue` holds the names a loop has yet to visit, of which `Name` is
the next in the loop's order. `rows_by_file` is a dict, so it is two variables: the
rows of each file, and the keys in the order in which `append_rows` visits them. A
file is named by its stage. `RuntimeOom` is `torch.cuda.OutOfMemoryError` at any of the calls
in the `try`, `Dies` everything else, a kill included. `ClockSampler` is its
list, its event and its threads, each of which is between its check of the event,
its query and its append; a sample is reduced to the thread that read it and the
loop it was read in, and `aborted` keeps the loops that were cut short.

*ResultRows* and *Reports*: a file is the sequence of its lines, so that a header
written twice, or not at all, does what `csv.DictReader` makes of it. A session
stands at each point where another can interleave: between looking at the file
and opening it, opening and closing it, reading the files back and writing the
summary. `profile.sh` renews `.meta` at its start and the counters kernel by
kernel; whatever it records (`ClockRefused`, `ProfileFailed`, `Blocked`) goes to the one
file `ncu_to_md.py` looks for. The kernels of the profiled stage are the same in all
runs. A number with a unit is the power of 1000 it is off by; `NoneMisscaled`
asks for 0.

## 3. The runs

| run | instance | what it shows |
|---|---|---|
| `row_softmax` | 5 keys, blocks of 2 rows, tile heights 1 to 4, every row of scores over -1..1 | the recurrence is exact for every tiling |
| `fused_block` | 4 keys, 3 threads, tile heights 1, 2, 3, 5, three matrices | S3 under every interleaving: no torn or stale tile, uniform barriers, each row refines `RowSoftmax`, the block refines `Attention` and completes |
| `strip_block` | 4 lanes as two warps of one row and as one warp of two rows, prefetch on and off | S4/S5: fresh operands, exact state, uniform collectives (the vote with rows that disagree), refines `Attention`, completes |
| `softmax_block` | 5 keys, 2 warps of 2 lanes, both kernels, scores 0 and 1, all mask lengths | the reductions agree, the row is exact, the block finishes |
| `tiled_product` | tiles 4 by 4, chunks of 2, vectors of 2, 6 keys, every block of both kernels | each block stores exactly its part, whole, in the order of the depth, and finishes |
| `materialised_calls` | 2 calls, 2 heads, 2 keys, one or two streams, 2 memory blocks | workspaces are shared safely, errors write nothing, success is complete, each call refines `Attention` |
| `host_calls` | 2 threads, 3 kernels, 3 devices, a word of 2 bits | the cache is never believed wrongly, success is true |
| `host_errors` | the same | a counterexample, see below |
| `tiled_reference` | 3 queries and keys, query tiles of 1 to 3, key tiles of 1 to 4, three matrices, 128 masks | the references keep exactly the keys the mask allows, through empty tiles and empty rows; the ratio rule accepts exactly that |
| `bench_session` | 2 kernels, a baseline of either kind, 2 cases, 2 faults at any step | one row per implementation and finished case, nothing timed past a failed gate, samples of the own loop but for one of each thread left behind, the run ends |
| `bench_omission` | the same, without faults | a counterexample, see below |
| `reports` | 5 keys of rows in 4 files, up to 3 sessions one after the other or 2 at once, up to 2 profile runs of 2 kernels, 12 launches | the README shows the newest, fairly compared, correctly attributed and scaled |

**Why the bounds are enough.** Each instance contains every case the code
distinguishes. Tiles: the first, an inner and a last partial one, a diagonal
one, and (causal) skipped ones; a tile longer than the sequence. Blocks: full
ones and one with rows past `N`. A buffer that is reused is reused at least
twice. Rows whose maximum moves with each tile, with some, or never. Two warps
or four lanes are enough for one to be ahead of another by a whole phase, which
is as far as barriers let them drift. For the host: a device with a bit, one
that is too old, one without a bit; opt-in, bf16 and plain kernels; two threads
on the same kernel. For the references: every mask of two rows beside a full or
an empty third, so that a row is empty before, between, after or in all of its
tiles, next to rows that are not, with a query tile that holds them all or a
partial one. For the benchmark: a kernel exactly at the limit of
`oom_by_design` and one beyond the whole memory, a probed and an unprobed
baseline, two faults, so that a thread left behind by one aborted loop meets a
second one and then a loop that finishes. For the reports: files that are
absent, empty, with a doubled header, or hold rows without a stamp; equal and
different stamps; two sessions because a race on a file has two writers, three
in sequence because a dead one can lie between a newer and an older; profile
runs that succeed, fail, are blocked or die in either order. The theorems below remove the bounds where they apply.

`row_softmax` is run with deadlock checking off: a row that is finished has no
further step. Everywhere else the end of a block or of the calls is an explicit
stuttering step, so that TLC would report a block that hangs.

**Fairness.** The blocks' liveness properties assume weak fairness of each
thread's (lane's, warp's) step and of a barrier or collective all of whose
members have arrived. The code relies on it: the threads of a resident block
make progress (independent thread scheduling on the architectures supported,
sm_75 and later), and a full barrier opens. In
`BenchSession` the process keeps taking its steps and each sampler thread does
(both are ordinary OS threads that never wait for a lock of each other's, and the
polls have timeouts), while faults are never owed: `SessionEnds` holds with any
number of them up to the bound. Nothing else is fair: there is no fairness between
blocks, streams, host threads or sessions, and no liveness is claimed for them.

**Two counterexamples.** `host_errors` checks what `cuda_check.cuh:30-31` says of
the launch check: that it catches errors of the launch and sticky errors of
earlier asynchronous work. TLC shows a third kind: `cudaFuncSetAttribute` fails,
`FA_CUDA_TRY` returns its error and leaves it as the thread's last error; the
next call on this thread launches its kernel, which is queued, and
`FA_CUDA_TRY_LAUNCH` returns the old error. The caller sees a failure of a call
whose kernel runs. `SuccessMeansQueued` holds all the same: the divergence is
only ever in the direction of a false alarm.

`bench_omission` checks what `configs.yaml` says of `oom_by_design`: that an
implementation whose matrices exceed a quarter of the memory gets a row that says
so. The rule is applied after the probe, and `_probe` runs our kernels at the
full shape; when the matrices exceed the whole memory the probe is refused, the
kernel is skipped, and a skipped kernel of ours (unlike a baseline) has no row at
all. The table of the repository's README has a dash in those cells.

**Smaller disagreements met while modelling**, without a run of their own:

* The docstring of `ClockSampler` says that samples are taken while the GPU
  executes the timed loop. A loop that raises `OutOfMemoryError` never gets to
  `stop()`, and its thread lives on until it looks at the event while a later
  `stop()` has it set. If it was taking a sample when that later loop emptied the
  list, it appends it to the samples of the wrong row. `SamplesOwn` says how far
  this goes: such a thread gets one sample in, its first, and after that it reads the
  loop it is in; no other thread does. A median of many samples will not notice, the
  spread that `clock_notes` checks may, and with the `nvidia-smi` fallback, which
  takes up to a second, samples are few and there is time for it.
* `profile.sh:25-28` promises that the commit printed next to a row of counters is the
  one they were taken at. But it writes the new commit into `.meta` before it measures
  and removes no counters, so a run that is blocked, fails for a kernel or dies leaves
  older ones under it; the test that compares commits looks at `.meta` only.
  `CommitTrue` says what is left of the promise: row by row, a kernel that was
  profiled bears the commit printed, whatever became of the others; a commit that is
  not true is too new and never too old; and unless the run was killed there is a
  `.profiler.txt`. The README does not quote it, since there are counters
  (`ReasonShown` is satisfied by old ones).
* `normalize_unit` takes a numerator such as `nsecond` in `nsecond/inst` for
  unscaled and does not refuse a double prefix; `col_value` adds up the parts of a
  column that are there. The instance has no unit of this kind.
* `rebuild_summary` of two overlapping sessions may leave the older reading behind;
  `SummaryCurrent` is about sessions nobody ran beside. The README tables are made
  from the stage files and do not suffer (`TableNewest`).
* `render_gpt` keeps the last row of a file instead of the newest stamp, which is
  the same as long as sessions do not overlap, as `TableNewest` says.
* A row of "vs S1 naive" may compare two commits without a label (that of the
  baseline has one); `ComparisonFair` asks for the label only there.

**Mutants.** Each property has a mutated definition (operators marked `MUTANT`)
that changes the code the way a plausible bug would: a barrier that is not
waited for, a test per thread instead of per block, a mask off by one, a
rescale that forgets `acc`, a cache bit that wraps, a refused backend left out, the
last row of a file taken for the newest. With the mutant in place
TLC finds the property violated.

## 4. The proofs

All are of the form `Spec => []Inv` (or an action property, or a refinement), for every value of
the constants that satisfies the modules' assumptions: sizes are positive, the
sentinels (`NegInf`, `Zero`, `NaN`) are not integers and `Zero # NaN`, a tile
divides evenly over the threads, and what may lie in an unwritten register or a
padded slot (`MemoryAssumption`) is no number. TLC evaluates these assumptions in
each run.

* **RowSoftmaxProofs.** For every sequence length, block height, tile height,
  mask and score row: types, `RunningMax`, `SumsExact`, `SumAtLeastOne`,
  `RowExact`. The invariants are inductive only together: the new sums are
  exact because the old ones are relative to `m`, and the rescale is defined
  because `m`, once a tile has been seen, is a score (key 0 is visible to every
  row and lies in the first tile). That the block-uniform test may skip the mask
  is `SlotScores`; that the tiles cover the visible keys is `CeilingCovers`.
* **TileTheorems.** What both fused kernels need of shared tiles and of one tile of
  the recurrence. Every cell of a flat buffer is in exactly one share
  (`SliceOwner`, `SlicesDisjoint`); a slot whose cells came from one row reads as
  that row (`CellContent`, `ReadsWhole`). A set of keys has a maximum (`MaxExists`,
  by the least-number principle, from the well-foundedness of `<` on `Nat`), which
  moves on with a tile (`NextMax`); rescaled and added to, a sum is that of the
  union (`RescaledSum`, `AddedSum`, `TileTerms`).
* **FusedBlockProofs**, the barriers. For every number of threads, tile height and
  head dimension: `BarrierUniform`, `WholeTiles`, types. `WholeTiles` says nothing
  about threads that are still loading, so it is not inductive; `BInv` adds
  where the threads can be relative to each other (`Control`: nobody is more
  than one phase ahead) and which part of each buffer a thread that has loaded
  has filled (`QHeld`, `KVHeld`). A barrier turns "each its share" into "all".
* **FusedBlockProofs**, the output. For every sequence length, block height, tile
  height, row width and score matrix: `ImplementsAttention`, the refinement of
  `Attention` by a stage 3 block. The invariant `BlockInv` adds to `BInv` the types, the registers
  (`Regs`) and what has left them (`OutHeld`). `Regs` says that `m`, `l` and `acc`
  of a thread are exact over the keys of the tiles it has consumed (`RowState`),
  which holds only because the buffers it reads are whole (`BInv`); that between
  the score loop and the update its slots hold this tile's scores; and that past
  the loop every visible key has been seen. `OutHeld` says that the row
  a finished thread has staged in shared memory is its result, that an element of `O`
  is unwritten until the thread that stores it has stored its share, and `lse` until
  its row is staged. With it each step of a thread either changes no output or is a
  `Write` of elements none of which was written before.
* **FusedBlockProofs**, the rows. `RowsAreRowSoftmax`: each thread, seen alone, runs
  `RowSoftmax` on its row. A thread whose row is past `N` is in it too: it has a zero
  `q`, so it runs the recurrence on a row of zeroes, and `Regs` holds for it as for the
  others. That a step of the recurrence may take the new maximum the thread took
  is because the candidates leave no choice (`NextMaxOf`), whether a slot past `N` is a
  masked score (here) or a key of the tile that is not there (there); its weights add
  the terms of the visible keys alone (`AddedTile`). All that a thread does between two
  tiles, with all that the others do, leaves the row where it was.
* **StripBlockProofs.** For every number of lanes and way to split them into warps,
  tile height, row width, padding, sequence length, score matrix, with and without
  prefetch, and for every assignment of fragment elements to lanes (`Holder`), so
  that nothing rests on the layout the hardware happens to have:
  `CollectivesUniform`, `OperandsFresh`, `StateExact`, `ImplementsAttention`.
  None of them is inductive: each speaks of the moment of a read, and says nothing
  of the lanes that are still writing. Everything a lane should find is a function of
  the launch, a row and a tile: a raw score, a masked one, a weight, the row's
  maximum after `n` tiles, its sum relative to that, the same sum after the rescale.
  `StripInv` says for each place in the kernel which of these functions each lane's
  share of a tile, a strip or its registers holds (`LaneHolds`), that lanes are
  apart by at most the phases between two barriers of their warp and of their block
  (`Control`), and which outputs are still unwritten (`OHeld`, `LseHeld`). A lane's
  own step changes only its share, and no other lane's (`HeldByOne`, `RowLanes`:
  the lanes of a warp share the elements of its strip, two lanes a row of it); a
  barrier or collective turns "each its share" into "all of it", which is what the
  next read needs. The S strip holds scores, then O on its way through the rescale,
  then the staged result, by half rows or by fragment elements: the shares change
  hands only at warp barriers. The vote skips the trip through the strip only when
  the factor of each row of the warp is the identity, and then the sum already is the
  rescaled one. Since warps drift apart inside a tile, P of one warp and Q of another
  lie in the same buffer at two strides; the block's first barrier keeps every read
  of Q before every write of P. One more assumption is needed here,
  `CellAssumption`: what lies in uninitialised shared memory is not a cell the kernel
  could have written.
* **CallsProofs**, the host side. For any number of threads, kernels, devices and bits:
  `LaunchPrepared`, `NoStubLaunch`, `SuccessMeansQueued`, types. The invariant
  adds that a set bit stands for a prepared kernel (`WordsTrue`), that each
  thread has done what its place in the program says (`PlaceTrue`), and that a
  launch without an error has been queued (`ChecksTrue`).

* **TiledReferenceProofs.** For all lengths, tile shapes, scores and attend masks:
  `RunningExact`, `RowsExact`, `RatioVerdict`. Unlike in the kernels a row may have seen nothing
  for any number of tiles, so each lemma about a row has two cases; in the second
  the maximum is `-inf` and the guards alone keep `NaN` out. The invariant is
  types, running state and finished rows together: a finished row is exact because
  the state was when the last tile had been consumed or skipped, and a skipped tile
  is one in which no key is kept.
  `RatioVerdict` compares it with the references that take the row in one pass
  (`OnePass`). These choose the maximum of the whole row; that there is one needs no
  induction over the keys, for the tiles have found it (`WholeMaximum`).
* **BenchProofs**, the clock. For any implementations, cases and number of faults:
  `SamplesOwn`, also after loops that were cut short. `ClockInv` says whose threads
  there are: each but that of the loop that is timed or joined is of an aborted loop
  (`LeftBehind`), and there is one of each (`OneEach`); so when the list is emptied only
  those can hold something older, and once they have appended it, or anything, what
  they hold is of the loop (`Foreign`).
* **BenchProofs**, the rows. For any implementations, cases, memory and number
  of faults: `GatedTimes`, `RowPerImpl`. A row passes from the lists of a case to the
  files one key at a time, so neither place alone says whether an implementation has
  been counted. `RowsInv` has four parts: types, among them that a list has rows of the
  current case only and is empty without its key (`ListsTyped`); that the three lists
  of names stay disjoint and complete from loop to loop (`NamesSplit`); that each name
  accounted for so far has one row, in memory or on disk but not in both, in the file of
  its `out_path` and no other (`CaseRows`); and that the requested baselines of earlier
  cases have theirs on disk (`EarlierRows`). `GatedTimes` is part of the types, and needs
  `NamesSplit` to know that the name being timed is the one that passed the gate.
* **BenchProofs**, the result files. For any sessions, which overlap and die anywhere,
  any files, keys, times and old rows: `TableNewest`, `ComparisonFair`, `SummaryCurrent`.
  All three look at what is read back, so `CsvInv` says first what is there
  to read: each file begins with its header (`CsvTyped`), and but for headers it holds
  the rows of the sessions that closed it and the old ones, all of them and no others
  (`RowsOnDisk`). A session that found the file empty writes a header even if another has
  written one since; the reader sees it as a row of no known key (`ReadRows`,
  `StageLinesAre`). `latest_rows` then has of each key a row none is newer than
  (`LatestRows`), whatever file it stands in. `SummaryInv` adds that nothing removes rows, so
  that a summary of nothing stays nothing, and that what a session alone has read back is
  what it will write. The file of `gpt_block.py` is read in its order instead: `GptInOrder`
  says that without overlap the order is that of the stamps, below one header. The fastest
  kernel exists, and is undercut by none, because times are natural numbers (`BestOf`).
  How `FlattenSeq` joins is shown from its definition (`Flattened`).
* **BenchProofs**, the profiles. For any kernels, metrics and launches: `CommitTrue`,
  `ReasonShown`, `NoneMisscaled`. `ProfileInv` says whose commit `.meta` and the renewed
  files bear and that the others bear an earlier one, that each file is empty or a launch,
  and that a profile that has recorded no reason has renewed each kernel it is done with. That what `normalize_unit`
  answers is what the unit means is `ScaleRight`, a comparison over `ncu`'s vocabulary.

  `ReportsAssumption` says what these rest on: the three kinds of files are distinct, a
  session writes keys that the README knows, old rows are below one header and no newer
  than the clock (those of `gpt_block.py` in order), the profiled stage has kernels, and
  `ncu` prints a number in units of its vocabulary. It is evaluated in the run. The
  theorems about the blocks have one hypothesis more, `MarksAreNoRecords`: the header,
  `EMPTY_TEXT` and the lack of markers are not records like rows and blocks. TLC has
  model values there, of which it knows no more than that they differ from everything.
* **CallsProofs**, the error path. For any calls, streams, heads and
  block sizes: `ErrorWritesNothing`. The kernels of a failed call may still be queued, so the
  invariant says which jobs are in which queue: one that stores the output only if
  its call was granted all of its launches, and an output is untouched until then.
* **CallsProofs**, the shared workspaces. For any calls, streams, memory
  blocks, heads, row width and block size: `SuccessCompletes`, `ImplementsAttention`.
  A call returns its workspace while its kernels are queued, so nothing in the call
  protects it. What does is said by `WorkInv`: a memory block has one `Owner`, the
  stream that uses it or in whose pool it lies, and every queued kernel runs on the owner
  of its workspace (`Owned`); kernels of two streams therefore share neither block
  nor call, and those of one stream run in order. A softmax or output kernel waits
  directly behind its predecessor of the same call (`Chained`, `Launchable`), so
  when it comes to the head of its queue, or is launched into an empty one, the S or P
  it reads is complete (`HeadHolds`, with `Begun` saying what the finished blocks have
  left). The address arithmetic is in `Addresses`, `BlockOf` and `Elements`: S and P
  of the heads overlap nowhere, and the grid covers each element in one block.
  `CellAssumption` says that uninitialised memory is no score or weight, and that no
  stream is called like a state of the pool.
* **StageBlockProofs**, the tiled products. For every size of the
  matrices, of the tile, the chunk and the vector that satisfies `TileAssumption` (the
  file's static assertions): `ProductExact`. The property is about finished elements only; `TileInv` adds that all threads are
  in the same phase of the same chunk (`Loading`, `Adding`, `Storing`) and that the
  register tiles hold the products of all chunks before it in order (`Summed`). The
  threads of a block stage every element of both operands between them
  (`EveryElementStaged`), which is where the static assertions come in: the tile has
  as many vectors as there are threads only for the sizes they allow. A partial tile
  writes whole vectors, none of which crosses the end of a row of `S` because `N` is
  a multiple of the vector (`StoredElement`): a store past the end would land in the
  next row.

* **StageBlockProofs**, the row softmax. For every number of keys, warps
  and lanes and both kernels: `ReductionsAgree` and `RowExact`. `SoftInv` says what each thread holds at its place
  (`ThreadHolds`) and between which barriers the threads are together; the
  slots are read only where all of them hold the part of their warp (`MaxRead`, `SumRead`).
  S1 gives the slots of the maxima to the sums one barrier later, S2 lets a thread
  add its terms while others still fold the maxima, but into other slots. The maximum of
  the maxima of the shares is the maximum of the row (`TopUnion`), and the total of
  sums over disjoint sets of keys is the sum over their union (`TotalOfTerms`); that the
  strided shares of the threads, and those of the warps, are disjoint and cover the row is
  `Shares`. A thread of S2 leaves a row only if it has no visible key at all, and then
  all threads do, so the second reduction's barrier is met by all or none.

**Only model-checked.** Liveness, which needs fairness and ENABLED, beyond the prover:
that blocks finish (`BlockCompletes`, `BlockFinishes`, `TileFinishes`) and that a session of `bench.py` ends
(`SessionEnds`). Every invariant and every safety refinement of the passing runs is stated by a theorem.

## 5. What is not modelled

* Rounding, types' ranges and performance: bank layout, vector width (except in
  `TiledProduct`, where it decides who writes what), occupancy.
* GQA: a query head reads the K/V head `h / (H / Hkv)`; the models look at one
  head, whose K and V are its own or shared alike, and only read.
* Tile choice, kernel variants and `FA_FORCE_*`: they select an instantiation,
  and every instantiation is a value of a model's constants. Validation in
  `fa::forward` and `make_params`, and the choice of the best stage in
  `forward_cuda`, are comparisons without state. The debug overrides are one
  unlocked global, meant to be set before any call.
* `cudaGetDevice` failing, and asynchronous faults: they end the context.
* The values in a row: FLOPs, bytes, the label of the clock, percentiles; the
  roofline, the perf trailer and the `ptxas` tables, which are arithmetic on one
  set of rows; wording and layout of the blocks.
* `fa_bench`: one thread, one case at a time, with the rules of `bench.py`.
  `gpu_run.sh`, `tune_s5.sh`, `sync.sh`: straight lines of tool calls under
  `set -e` with one exit trap; `gpt_block.py` only as a session that appends.
* The WMMA experiment, a subset of the steps of `StripBlock`; tests and build.

## 6. Where it stands

Modelled, in this order: the recurrence, S3, S4/S5, the host calls, the S1/S2
softmax, the materialising pipeline, the S2 products, the references, the
benchmark, the result files and reports. Proved: the recurrence, the S3 barriers
and rows and that S3, S4 and S5 implement `Attention`,
the host calls, the references, that the materialising calls implement `Attention`
and complete or leave their outputs, what the S2 products and the row softmax store
from the inside, the clock samples and the rows of the benchmark, what the summary and
the README say of the result files and of the profiles.

What would come next: a model of `gpu_run.sh` with its exit trap and the clock lock;
the stage ladder of `forward_cuda` under overrides that change between calls.
