----------------------------- MODULE BenchProofs -----------------------------
(***************************************************************************)
(* bench.py for any implementations, cases, memory and number of faults.   *)
(* The clock samples of a row: the threads share one list and one event,   *)
(* so a thread of an earlier loop that lives on adds to it, but nothing    *)
(* older than the list but once.  The rows: which names have one, at each  *)
(* place of the run, and that it is either still in memory or on disk.     *)
(* Then what becomes of the rows and of the profiles, for any sessions,    *)
(* files, keys and launches: the files hold what was measured, and what    *)
(* the summary and the README say of it is the newest, compared fairly.    *)
(***************************************************************************)
EXTENDS BenchSession, Reports, FiniteSetTheorems, SequenceTheorems, WellFoundedInduction, TLAPS

USE BenchAssumption

ThreadsTyped == threads \subseteq [id : Int, at : {"check", "read", "append"}, v : Int]

\* The threads are those of the loops begun, one each.
OneEach ==
  /\ \A t \in threads : t.id <= loop
  /\ \A t, u \in threads : t.id = u.id => t = u

\* Any thread but that of the loop that is timed or joined has been left behind.
LeftBehind ==
  pc \notin {"exited", "dead"} =>
    \A t \in threads : t.id \in aborted \/ (pc \in {"loop", "join"} /\ t.id = loop)

\* While a loop is timed or joined, only threads left behind add or have added
\* what was read outside it, and that is the first they add.
Foreign ==
  pc \in {"loop", "join"} =>
    /\ \A x \in samples : x.v = loop \/ x.by \in aborted
    /\ \A t \in threads : t.at = "append" => t.v = loop \/ t.id \in aborted
    /\ \A t \in threads, x \in samples : x.by = t.id /\ t.at = "append" => t.v = loop

ClockInv == loop \in Int /\ ThreadsTyped /\ OneEach /\ LeftBehind /\ Foreign

\* A sampler thread that moves stays the one of its loop.
LEMMA MovedThread ==
  ASSUME ClockInv, NEW t \in threads, NEW u, Moves(t, u), u.id = t.id,
         u \in [id : Int, at : {"check", "read", "append"}, v : Int],
         UNCHANGED <<pc, loop, aborted>>
  PROVE  /\ loop' \in Int /\ ThreadsTyped' /\ OneEach' /\ LeftBehind'
         /\ \A x \in threads' : x = u \/ (x \in threads /\ x.id # t.id)
<1>1. \A x \in threads' : x = u \/ (x \in threads /\ x # t)
  BY DEF Moves
<1>2. \A x \in threads' : x = u \/ (x \in threads /\ x.id # t.id)
  BY <1>1 DEF ClockInv, OneEach
<1>. QED
  BY <1>2 DEF ClockInv, ThreadsTyped, OneEach, LeftBehind

\* What a sampler thread reads while a loop is timed or joined is the loop's; so
\* once it has added something it can add nothing else before the next loop.
LEMMA SamplerKeepsInv ==
  ASSUME ClockInv, NEW id \in Loops, Sampler(id)
  PROVE  ClockInv'
<1>1. PICK t \in threads : SamplerChecks(t) \/ SamplerReads(t) \/ SamplerAppends(t)
  BY DEF Sampler
<1>2. UNCHANGED <<pc, loop, aborted>> /\ pc \notin {"exited", "dead"}
  BY <1>1 DEF SamplerChecks, SamplerReads, SamplerAppends, others, Running
<1>3. t \in [id : Int, at : {"check", "read", "append"}, v : Int]
  BY DEF ClockInv, ThreadsTyped
<1>4. CASE SamplerChecks(t)
  <2>. DEFINE u == [t EXCEPT !.at = "read"]
  <2>1. u \in [id : Int, at : {"check", "read", "append"}, v : Int] /\ u.id = t.id /\ u.at = "read"
    BY <1>3
  <2>2. samples' = samples /\ (threads' = threads \ {t} \/ Moves(t, u))
    BY <1>4 DEF SamplerChecks
  <2>. HIDE DEF u
  <2>3. CASE threads' = threads \ {t}
    BY <1>2, <2>2, <2>3 DEF ClockInv, ThreadsTyped, OneEach, LeftBehind, Foreign
  <2>4. CASE Moves(t, u)
    BY <1>2, <2>1, <2>2, <2>4, MovedThread DEF ClockInv, Foreign
  <2>. QED
    BY <2>2, <2>3, <2>4
<1>5. CASE SamplerReads(t)
  <2>. DEFINE w == IF pc \in {"loop", "join"} THEN loop ELSE Between
              u == [t EXCEPT !.at = "append", !.v = w]
              c == [t EXCEPT !.at = "check"]
  <2>1. samples' = samples /\ (Moves(t, u) \/ Moves(t, c))
    BY <1>5 DEF SamplerReads
  <2>2. w \in Int /\ (pc \in {"loop", "join"} => w = loop)
    BY DEF ClockInv, Between
  <2>3. u \in [id : Int, at : {"check", "read", "append"}, v : Int] /\ u.id = t.id /\ u.v = w
    BY <1>3, <2>2
  <2>4. c \in [id : Int, at : {"check", "read", "append"}, v : Int] /\ c.id = t.id /\ c.at = "check"
    BY <1>3
  <2>. HIDE DEF u, c, w
  <2>5. CASE Moves(t, u)
    BY <1>2, <2>1, <2>2, <2>3, <2>5, MovedThread DEF ClockInv, Foreign
  <2>6. CASE Moves(t, c)
    BY <1>2, <2>1, <2>4, <2>6, MovedThread DEF ClockInv, Foreign
  <2>. QED
    BY <2>1, <2>5, <2>6
<1>6. CASE SamplerAppends(t)
  <2>. DEFINE c == [t EXCEPT !.at = "check", !.v = Between]
              y == [by |-> t.id, v |-> t.v]
  <2>1. samples' = samples \cup {y} /\ t.at = "append" /\ Moves(t, c)
    BY <1>6 DEF SamplerAppends
  <2>. Between \in Int
    BY DEF Between
  <2>2. c \in [id : Int, at : {"check", "read", "append"}, v : Int] /\ c.id = t.id /\ c.at = "check"
    BY <1>3
  <2>3. y.by = t.id /\ y.v = t.v
    OBVIOUS
  <2>. HIDE DEF c, y
  <2>4. /\ loop' \in Int /\ ThreadsTyped' /\ OneEach' /\ LeftBehind'
        /\ \A x \in threads' : x = c \/ (x \in threads /\ x.id # t.id)
    BY <1>2, <2>1, <2>2, MovedThread
  <2>5. Foreign'
    BY <1>2, <2>1, <2>2, <2>3, <2>4 DEF ClockInv, Foreign
  <2>. QED
    BY <2>4, <2>5 DEF ClockInv
<1>. QED
  BY <1>1, <1>4, <1>5, <1>6

\* The process goes on only when it has joined the thread of the loop, or leaves
\* it behind with the loop; the next one begins with an empty list.
LEMMA ProcessKeepsInv ==
  ASSUME ClockInv, Process \/ RuntimeOom \/ Dies
  PROVE  ClockInv'
<1>. USE DEF ClockInv, ThreadsTyped, OneEach, LeftBehind, Foreign, sampler
<1>1. CASE NoCuda \/ StartCase \/ CaseWritten \/ Exit \/ AppendFile
  <2>1. /\ UNCHANGED <<loop, aborted, samples, threads>>
        /\ pc' \notin {"loop", "join"}
        /\ pc' = "exited" \/ pc \in {"main", "written", "impl"}
    BY <1>1 DEF NoCuda, StartCase, CaseWritten, Exit, AppendFile
  <2>. QED
    BY <2>1
<1>2. CASE \/ TakeUnprobed \/ OpMissing \/ ProbeRuns \/ ProbeRefused
           \/ BuildDone \/ Skipped \/ SkipsDone
  BY <1>2 DEF TakeUnprobed, OpMissing, ProbeRuns, ProbeRefused, BuildDone, Skipped,
              SkipsDone, Built
<1>3. CASE ByDesign \/ GateFails \/ GatePasses
  BY <1>3 DEF ByDesign, GateFails, GatePasses, Done
<1>4. CASE StartLoop
  <2>. DEFINE n == [id |-> loop + 1, at |-> "check", v |-> Between]
  <2>1. /\ pc = "timing" /\ pc' = "loop" /\ loop' = loop + 1 /\ aborted' = aborted
        /\ samples' = {}
        /\ threads' = threads \cup {n}
    BY <1>4 DEF StartLoop, Start
  <2>2. /\ n \in [id : Int, at : {"check", "read", "append"}, v : Int]
        /\ n.id = loop + 1 /\ n.at = "check"
    BY DEF Between
  <2>. HIDE DEF n
  <2>3. \A t \in threads : t.id \in aborted /\ t.id <= loop /\ t.id \in Int
    BY <2>1
  <2>. QED
    BY <2>1, <2>2, <2>3
<1>5. CASE LoopDrained
  BY <1>5 DEF LoopDrained
<1>6. CASE Timed
  <2>1. /\ pc = "join" /\ pc' = "impl" /\ \A t \in threads : t.id # loop
        /\ UNCHANGED <<loop, aborted, samples, threads>>
    BY <1>6 DEF Timed, Joined, Done
  <2>. QED
    BY <2>1
<1>7. CASE RuntimeOom
  BY <1>7 DEF RuntimeOom, Done
<1>8. CASE Dies
  BY <1>8 DEF Dies
<1>. QED
  BY <1>1, <1>2, <1>3, <1>4, <1>5, <1>6, <1>7, <1>8 DEF Process

\* The inductive invariant of the clock.
THEOREM ClockInvariant == Spec => []ClockInv
<1>1. Init => ClockInv
  BY DEF Init, ClockInv, ThreadsTyped, OneEach, LeftBehind, Foreign
<1>2. ClockInv /\ [Next]_vars => ClockInv'
  <2>1. ClockInv /\ UNCHANGED vars => ClockInv'
    BY DEF vars, sampler, ClockInv, ThreadsTyped, OneEach, LeftBehind, Foreign
  <2>. QED
    BY <2>1, SamplerKeepsInv, ProcessKeepsInv DEF Next, Ended
<1>. QED
  BY <1>1, <1>2, PTL DEF Spec

\* What the sampler hands over with a row was read while that row was timed, but
\* for at most one sample of each thread that a loop cut short by
\* OutOfMemoryError has left behind.
THEOREM RowsOwnClock == Spec => []SamplesOwn
<1>1. ClockInv => SamplesOwn
  BY DEF ClockInv, Foreign, SamplesOwn, Joined
<1>. QED
  BY <1>1, ClockInvariant, PTL
-------------------------------------------------------------------------------
(* The order of the names.                                                 *)

\* A set of numbers has a least one.
LEMMA LeastNumber ==
  ASSUME NEW T \in SUBSET Nat, T # {}
  PROVE  \E x \in T : \A y \in T : x <= y
<1>. DEFINE R == {p \in Nat \X Nat : p[1] < p[2]}
<1>1. IsWellFoundedOn(R, Nat)
  BY NatLessThanWellFounded DEF OpToRel
<1>2. \E x \in T : \A y \in T : ~ (<<y, x>> \in R)
  <2>. HIDE DEF R
  <2>. QED
    BY ONLY <1>1, WFMin, T \in SUBSET Nat, T # {}
<1>3. PICK x \in T : \A y \in T : ~ (<<y, x>> \in R)
  BY <1>2
<1>4. \A y \in T : x <= y
  <2>. TAKE y \in T
  <2>1. x \in Nat /\ y \in Nat /\ ~ (<<y, x>> \in R)
    BY <1>3
  <2>2. ~ (y < x)
    BY <2>1
  <2>. QED
    BY <2>1, <2>2
<1>. QED
  BY <1>4

\* The first name of a set in a list that has one of its names.
LEMMA FirstIsIn ==
  ASSUME NEW X, NEW order \in Seq(X), NEW S, \E i \in 1 .. Len(order) : order[i] \in S
  PROVE  First(S, order) \in S
<1>. DEFINE I == {i \in 1 .. Len(order) : order[i] \in S}
<1>0. Len(order) \in Nat
  OBVIOUS
<1>1. I \in SUBSET Nat /\ I # {}
  BY <1>0
<1>2. SelectInSeq(order, LAMBDA n : n \in S) = Min(I)
  BY <1>1 DEF SelectInSeq
<1>3. Min(I) \in I
  <2>. HIDE DEF I
  <2>1. \E x \in I : \A y \in I : x <= y
    BY <1>1, LeastNumber
  <2>. QED
    BY <2>1 DEF Min
<1>. QED
  BY <1>2, <1>3 DEF First

Names == Our \cup Baseline

\* The loops know every name.
LEMMA NameIsQueued ==
  ASSUME queue \subseteq Names, queue # {}
  PROVE  Name \in queue
<1>. DEFINE order == IF pc \in {"build", "refused"} THEN BaselineImpls \o OurImpls
                     ELSE OurImpls \o BaselineImpls
<1>1. OurImpls \in Seq(Names) /\ BaselineImpls \in Seq(Names)
  BY DEF Names
<1>2. order \in Seq(Names)
  BY <1>1
<1>3. PICK n \in queue : TRUE
  OBVIOUS
<1>4. \E i \in 1 .. Len(order) : order[i] = n
  <2>1. CASE n \in Our
    <3>1. PICK k \in 1 .. Len(OurImpls) : OurImpls[k] = n
      BY <2>1 DEF Our, ToSet
    <3>2. /\ (BaselineImpls \o OurImpls)[Len(BaselineImpls) + k] = n
          /\ (OurImpls \o BaselineImpls)[k] = n
          /\ Len(BaselineImpls) + k \in 1 .. Len(BaselineImpls \o OurImpls)
          /\ k \in 1 .. Len(OurImpls \o BaselineImpls)
      BY <1>1, <3>1
    <3>. QED
      BY <3>2
  <2>2. CASE n \in Baseline
    <3>1. PICK k \in 1 .. Len(BaselineImpls) : BaselineImpls[k] = n
      BY <2>2 DEF Baseline, ToSet
    <3>2. /\ (OurImpls \o BaselineImpls)[Len(OurImpls) + k] = n
          /\ (BaselineImpls \o OurImpls)[k] = n
          /\ Len(OurImpls) + k \in 1 .. Len(OurImpls \o BaselineImpls)
          /\ k \in 1 .. Len(BaselineImpls \o OurImpls)
      BY <1>1, <3>1
    <3>. QED
      BY <3>2
  <2>. QED
    BY <1>3, <2>1, <2>2 DEF Names
<1>. HIDE DEF order
<1>5. \E i \in 1 .. Len(order) : order[i] \in queue
  BY <1>3, <1>4
<1>6. First(queue, order) \in queue
  BY ONLY <1>2, <1>5, FirstIsIn
<1>. QED
  BY <1>6 DEF Name, order

\* Each row goes to one of the stage files.
LEMMA PathIsFile ==
  ASSUME ours \subseteq Our, NEW n \in Names
  PROVE  out_path(n) \in File
<1>1. ours # {} => First(ours, OurImpls) \in Our
  <2>. SUFFICES ASSUME NEW k \in ours PROVE First(ours, OurImpls) \in ours
    OBVIOUS
  <2>1. \E i \in 1 .. Len(OurImpls) : OurImpls[i] = k
    BY DEF Our, ToSet
  <2>. QED
    BY <2>1, FirstIsIn
<1>. QED
  BY <1>1 DEF out_path, File
-------------------------------------------------------------------------------
(* The rows of a case.                                                     *)

Kinds  == {"backend_refused", "oom_by_design", "correctness_failed", "oom_runtime", "timed"}
RowSet == [impl : Names, case : Nat, notes : Kinds]
Gated  == {r \in RowSet : r.notes = "timed" => r.impl \notin broken}

\* How often a list has the row of an implementation for a case.
IsRow(r, n, c) == r.impl = n /\ r.case = c
Never(s, n, c) == \A i \in 1 .. Len(s) : ~ IsRow(s[i], n, c)
Once(s, n, c)  == \E i \in 1 .. Len(s) :
                    /\ IsRow(s[i], n, c)
                    /\ \A j \in 1 .. Len(s) : IsRow(s[j], n, c) => j = i

OneRow(f, n) == \/ Once(rows[f], n, case) /\ Never(disk[f], n, case)
                \/ Never(rows[f], n, case) /\ Once(disk[f], n, case)
NoRow(f, n)  == Never(rows[f], n, case) /\ Never(disk[f], n, case)

InCase == {"build", "refused", "impl", "timing", "loop", "join", "written"}

\* The names that have their row already, at each place of a case.
Accounted ==
  CASE pc = "build"   -> {}
    [] pc = "refused" -> (skips \cap Baseline) \ queue
    [] OTHER          -> (skips \cap Baseline) \cup (impls \ queue)

\* Rows in memory are of this case and below a key; those on disk are of this
\* case or an earlier one.
ListsTyped ==
  /\ ours \subseteq Our /\ baselines \subseteq Baseline
  /\ case \in Nat /\ (pc = "main" => case = 0)
  /\ rows \in [File -> Seq({r \in Gated : r.case = case})]
  /\ disk \in [File -> Seq({r \in Gated : r.case <= case})]
  /\ files \in Seq(File)
  /\ \A f \in File : rows[f] = <<>> \/ f \in ToSet(files)

\* Each requested name is in one of the lists of build_impls once it has been
\* visited, and the loops after it visit one of these.
NamesSplit ==
  pc \in InCase =>
    /\ queue \cup impls \cup skips = baselines \cup ours
    /\ impls \cap skips = {}
    /\ pc = "build" => queue \cap (impls \cup skips) = {}
    /\ pc = "refused" => queue \subseteq skips
    /\ pc \notin {"build", "refused"} => queue \subseteq impls
    /\ pc \in {"timing", "loop", "join"} => queue # {} /\ Name \notin broken
    /\ pc = "written" => queue = {} /\ files = <<>>

CaseRows ==
  pc \in InCase =>
    \A f \in File, n \in Names :
      IF n \in Accounted /\ f = out_path(n) THEN OneRow(f, n) ELSE NoRow(f, n)

EarlierRows ==
  \A f \in File, n \in baselines, c \in 1 .. case - 1 :
    IF f = out_path(n) THEN Once(disk[f], n, c) ELSE Never(disk[f], n, c)

RowsInv == ListsTyped /\ NamesSplit /\ CaseRows /\ EarlierRows

\* A row added to a list.
LEMMA Appended ==
  ASSUME NEW R, NEW s \in Seq(R), NEW r \in R, NEW n, NEW c
  PROVE  /\ Never(s, n, c) /\ IsRow(r, n, c) => Once(Append(s, r), n, c)
         /\ Never(s, n, c) /\ ~ IsRow(r, n, c) => Never(Append(s, r), n, c)
         /\ Once(s, n, c) /\ ~ IsRow(r, n, c) => Once(Append(s, r), n, c)
<1>. DEFINE t == Append(s, r)
<1>1. /\ Len(s) \in Nat /\ Len(t) = Len(s) + 1 /\ t[Len(s) + 1] = r
      /\ \A i \in 1 .. Len(s) : t[i] = s[i]
  BY ONLY AppendProperties, s \in Seq(R), r \in R
<1>. HIDE DEF t
<1>2. /\ \A i \in 1 .. Len(t) : i \in 1 .. Len(s) \/ i = Len(s) + 1
      /\ \A i \in 1 .. Len(s) : i \in 1 .. Len(t) /\ i # Len(s) + 1
      /\ Len(s) + 1 \in 1 .. Len(t)
  BY ONLY <1>1
<1>3. Never(s, n, c) /\ IsRow(r, n, c) => Once(t, n, c)
  BY <1>1, <1>2 DEF Never, Once
<1>4. Never(s, n, c) /\ ~ IsRow(r, n, c) => Never(t, n, c)
  BY <1>1, <1>2 DEF Never
<1>5. Once(s, n, c) /\ ~ IsRow(r, n, c) => Once(t, n, c)
  BY <1>1, <1>2 DEF Once
<1>. QED
  BY <1>3, <1>4, <1>5 DEF t

\* Two lists joined.
LEMMA Joint ==
  ASSUME NEW R, NEW s \in Seq(R), NEW t \in Seq(R), NEW n, NEW c
  PROVE  /\ Never(s, n, c) /\ Never(t, n, c) => Never(s \o t, n, c)
         /\ Once(s, n, c) /\ Never(t, n, c) => Once(s \o t, n, c)
         /\ Never(s, n, c) /\ Once(t, n, c) => Once(s \o t, n, c)
<1>. DEFINE u == s \o t
<1>1. /\ Len(s) \in Nat /\ Len(t) \in Nat /\ Len(u) = Len(s) + Len(t)
      /\ \A i \in 1 .. Len(s) + Len(t) : u[i] = IF i <= Len(s) THEN s[i] ELSE t[i - Len(s)]
  BY ONLY ConcatProperties, s \in Seq(R), t \in Seq(R)
<1>. HIDE DEF u
<1>2. \A i \in 1 .. Len(u) : \/ i \in 1 .. Len(s) /\ u[i] = s[i]
                             \/ i - Len(s) \in 1 .. Len(t) /\ u[i] = t[i - Len(s)]
  BY ONLY <1>1
<1>3. /\ \A i \in 1 .. Len(s) : i \in 1 .. Len(u) /\ u[i] = s[i]
      /\ \A i \in 1 .. Len(t) : i + Len(s) \in 1 .. Len(u) /\ u[i + Len(s)] = t[i]
  BY ONLY <1>1
<1>4. Never(s, n, c) /\ Never(t, n, c) => Never(u, n, c)
  BY <1>2 DEF Never
<1>5. ASSUME Once(s, n, c), Never(t, n, c) PROVE Once(u, n, c)
  <2>1. PICK i \in 1 .. Len(s) :
               /\ IsRow(s[i], n, c)
               /\ \A j \in 1 .. Len(s) : IsRow(s[j], n, c) => j = i
    BY <1>5 DEF Once
  <2>2. i \in 1 .. Len(u) /\ IsRow(u[i], n, c)
    BY <1>3, <2>1
  <2>3. \A j \in 1 .. Len(u) : IsRow(u[j], n, c) => j = i
    BY <1>2, <1>5, <2>1 DEF Never
  <2>. QED
    BY <2>2, <2>3 DEF Once
<1>6. ASSUME Never(s, n, c), Once(t, n, c) PROVE Once(u, n, c)
  <2>1. PICK i \in 1 .. Len(t) :
               /\ IsRow(t[i], n, c)
               /\ \A j \in 1 .. Len(t) : IsRow(t[j], n, c) => j = i
    BY <1>6 DEF Once
  <2>2. i + Len(s) \in 1 .. Len(u) /\ IsRow(u[i + Len(s)], n, c)
    BY <1>3, <2>1
  <2>3. ASSUME NEW j \in 1 .. Len(u), IsRow(u[j], n, c) PROVE j = i + Len(s)
    <3>1. j - Len(s) \in 1 .. Len(t) /\ IsRow(t[j - Len(s)], n, c)
      BY <1>2, <1>6, <2>3 DEF Never
    <3>2. j - Len(s) = i
      BY <2>1, <3>1
    <3>. QED
      BY ONLY <3>2, <1>1, j \in 1 .. Len(u), i \in 1 .. Len(t)
  <2>. QED
    BY <2>2, <2>3 DEF Once
<1>. QED
  BY <1>4, <1>5, <1>6 DEF u

-------------------------------------------------------------------------------
(* Steps that write no row.                                                *)

\* The file of a name depends on what was passed alone.
LEMMA SamePath ==
  ASSUME UNCHANGED inputs, NEW n
  PROVE  out_path(n)' = out_path(n)
BY DEF inputs, out_path

\* Nothing is in memory or on disk at the start.
LEMMA RowsInit == ASSUME Init PROVE RowsInv
<1>1. /\ ours \subseteq Our /\ baselines \subseteq Baseline /\ pc = "main" /\ case = 0
      /\ rows = NoRows /\ disk = NoRows /\ files = <<>>
  BY DEF Init
<1>2. NoRows \in [File -> Seq({r \in Gated : r.case = case})]
  BY DEF NoRows
<1>3. NoRows \in [File -> Seq({r \in Gated : r.case <= case})]
  BY DEF NoRows
<1>4. \A f \in File : NoRows[f] = <<>>
  BY DEF NoRows
<1>5. ListsTyped
  BY <1>1, <1>2, <1>3, <1>4 DEF ListsTyped
<1>6. EarlierRows
  BY <1>1 DEF EarlierRows
<1>. QED
  BY <1>1, <1>5, <1>6 DEF RowsInv, NamesSplit, CaseRows, InCase

\* A step that leaves the lists alone and accounts for no other name.
LEMMA QuietKeepsRows ==
  ASSUME RowsInv, NamesSplit', UNCHANGED <<inputs, case, byFile, disk>>,
         pc' # "main" \/ pc' = pc,
         pc' \in InCase => pc \in InCase /\ Accounted' = Accounted
  PROVE  RowsInv'
<1>1. UNCHANGED <<inputs, ours, baselines, broken, case, rows, files, disk>>
  BY DEF inputs, byFile
<1>2. Gated' = Gated
  BY <1>1 DEF Gated
<1>3. ListsTyped'
  <2>. USE DEF RowsInv, ListsTyped
  <2>1. (ours \subseteq Our /\ baselines \subseteq Baseline /\ case \in Nat)'
    BY <1>1
  <2>2. (pc = "main" => case = 0)'
    BY <1>1
  <2>3. (rows \in [File -> Seq({r \in Gated : r.case = case})])'
    BY <1>1, <1>2
  <2>4. (disk \in [File -> Seq({r \in Gated : r.case <= case})])'
    BY <1>1, <1>2
  <2>5. (files \in Seq(File) /\ \A f \in File : rows[f] = <<>> \/ f \in ToSet(files))'
    BY <1>1
  <2>. QED
    BY <2>1, <2>2, <2>3, <2>4, <2>5
<1>4. CaseRows'
  <2>. SUFFICES ASSUME pc' \in InCase, NEW f \in File, NEW n \in Names
                PROVE  IF n \in Accounted' /\ f = out_path(n)' THEN OneRow(f, n)' ELSE NoRow(f, n)'
    BY DEF CaseRows
  <2>1. out_path(n)' = out_path(n)
    BY <1>1, SamePath
  <2>2. OneRow(f, n)' = OneRow(f, n) /\ NoRow(f, n)' = NoRow(f, n)
    BY <1>1 DEF OneRow, NoRow
  <2>. QED
    BY <2>1, <2>2 DEF RowsInv, CaseRows
<1>5. EarlierRows'
  <2>. SUFFICES ASSUME NEW f \in File, NEW n \in baselines, NEW c \in 1 .. case - 1
                PROVE  IF f = out_path(n)' THEN Once(disk[f], n, c) ELSE Never(disk[f], n, c)
    BY <1>1 DEF EarlierRows
  <2>1. out_path(n)' = out_path(n)
    BY <1>1, SamePath
  <2>. QED
    BY <2>1 DEF RowsInv, EarlierRows
<1>. QED
  BY <1>3, <1>4, <1>5 DEF RowsInv

-------------------------------------------------------------------------------
(* Steps that write a row.                                                 *)

\* A row for a name that has none yet, with a time only if it passed the gate.
LEMMA PutKeepsRows ==
  ASSUME RowsInv, NamesSplit', UNCHANGED <<inputs, case, disk>>,
         pc \in InCase, pc' \in InCase,
         NEW n \in Names, NEW kind \in Kinds, kind = "timed" => n \notin broken,
         Put(n, kind), n \notin Accounted, Accounted' = Accounted \cup {n}
  PROVE  RowsInv'
<1>1. UNCHANGED <<inputs, ours, baselines, broken, case, disk>>
  BY DEF inputs
<1>2. Gated' = Gated
  BY <1>1 DEF Gated
<1>3. ours \subseteq Our /\ case \in Nat
  BY DEF RowsInv, ListsTyped
<1>4. PICK p \in File : p = out_path(n)
  BY <1>3, PathIsFile
<1>5. PICK r \in Gated : r = Row(n, kind) /\ r.impl = n /\ r.case = case
  <2>1. PICK x : x = Row(n, kind)
    OBVIOUS
  <2>2. x \in RowSet /\ x.impl = n /\ x.case = case /\ x.notes = kind
    BY <1>3, <2>1 DEF RowSet, Row
  <2>. QED
    BY <2>1, <2>2 DEF Gated
<1>6. rows \in [File -> Seq({x \in Gated : x.case = case})] /\ files \in Seq(File)
  BY DEF RowsInv, ListsTyped
<1>7. /\ rows' = [rows EXCEPT ![p] = Append(@, r)]
      /\ files' = IF p \in ToSet(files) THEN files ELSE Append(files, p)
  BY <1>4, <1>5 DEF Put
<1>8. rows'[p] = Append(rows[p], r) /\ \A f \in File : f # p => rows'[f] = rows[f]
  BY <1>6, <1>7
<1>. DEFINE Here == {x \in Gated : x.case = case}
<1>0. r \in Here /\ \A f \in File : rows[f] \in Seq(Here)
  BY <1>5, <1>6
<1>. HIDE DEF Here
<1>9. ListsTyped'
  <2>1. (ours \subseteq Our /\ baselines \subseteq Baseline /\ case \in Nat)'
    BY <1>1 DEF RowsInv, ListsTyped
  <2>2. (pc = "main" => case = 0)'
    BY DEF InCase
  <2>3. (rows \in [File -> Seq({x \in Gated : x.case = case})])'
    <3>1. Append(rows[p], r) \in Seq({x \in Gated : x.case = case})
      BY <1>5, <1>6, AppendProperties
    <3>. QED
      BY <1>1, <1>2, <1>6, <1>7, <3>1
  <2>4. (disk \in [File -> Seq({x \in Gated : x.case <= case})])'
    BY <1>1, <1>2 DEF RowsInv, ListsTyped
  <2>5. files' \in Seq(File)
    BY <1>6, <1>7
  <2>6. ToSet(files) \subseteq ToSet(files)' /\ p \in ToSet(files)'
    <3>1. CASE p \in ToSet(files)
      BY <1>7, <3>1
    <3>2. CASE p \notin ToSet(files)
      <4>1. /\ Len(files) \in Nat /\ Len(files') = Len(files) + 1 /\ files'[Len(files) + 1] = p
            /\ \A i \in 1 .. Len(files) : files'[i] = files[i]
        BY <1>6, <1>7, <3>2, AppendProperties
      <4>2. DOMAIN files = 1 .. Len(files) /\ DOMAIN files' = 1 .. Len(files) + 1
        BY <1>6, <2>5, <4>1
      <4>3. p \in ToSet(files')
        <5>1. Len(files) + 1 \in DOMAIN files' /\ files'[Len(files) + 1] = p
          BY ONLY <4>1, <4>2
        <5>. QED
          BY ONLY <5>1 DEF ToSet
      <4>4. ASSUME NEW i \in DOMAIN files PROVE files[i] \in ToSet(files')
        <5>1. i \in DOMAIN files' /\ files'[i] = files[i]
          BY <4>1, <4>2, <4>4
        <5>. QED
          BY ONLY <5>1 DEF ToSet
      <4>5. ToSet(files) \subseteq ToSet(files')
        BY <4>4 DEF ToSet
      <4>. QED
        BY <4>3, <4>5
    <3>. QED
      BY <3>1, <3>2
  <2>7. (\A f \in File : rows[f] = <<>> \/ f \in ToSet(files))'
    BY <1>8, <2>6 DEF RowsInv, ListsTyped
  <2>. QED
    BY <2>1, <2>2, <2>3, <2>4, <2>5, <2>7 DEF ListsTyped
<1>10. CaseRows'
  <2>. SUFFICES ASSUME NEW f \in File, NEW m \in Names
                PROVE  (IF m \in Accounted /\ f = out_path(m) THEN OneRow(f, m) ELSE NoRow(f, m))'
    BY DEF CaseRows
  <2>1. out_path(m)' = out_path(m)
    BY <1>1, SamePath
  <2>2. IF m \in Accounted /\ f = out_path(m) THEN OneRow(f, m) ELSE NoRow(f, m)
    BY DEF RowsInv, CaseRows
  <2>3. CASE f # p
    <3>1. OneRow(f, m)' = OneRow(f, m) /\ NoRow(f, m)' = NoRow(f, m)
      BY <1>1, <1>8, <2>3 DEF OneRow, NoRow
    <3>. QED
      BY <1>4, <2>1, <2>2, <2>3, <3>1
  <2>4. CASE f = p /\ m = n
    <3>1. Never(rows[f], m, case) /\ Never(disk[f], m, case)
      BY <2>2, <2>4 DEF NoRow
    <3>2. IsRow(r, m, case)
      BY <1>5, <2>4 DEF IsRow
    <3>3. Once(Append(rows[f], r), m, case)
      BY ONLY <1>0, f \in File, <3>1, <3>2, Appended
    <3>4. OneRow(f, m)'
      BY <1>1, <1>8, <2>4, <3>1, <3>3 DEF OneRow
    <3>. QED
      BY <1>4, <2>1, <2>4, <3>4
  <2>5. CASE f = p /\ m # n
    <3>1. ~ IsRow(r, m, case)
      BY <1>5, <2>5 DEF IsRow
    <3>2. /\ Never(rows[f], m, case) => Never(Append(rows[f], r), m, case)
          /\ Once(rows[f], m, case) => Once(Append(rows[f], r), m, case)
      BY ONLY <1>0, f \in File, <3>1, Appended
    <3>3. (OneRow(f, m) => OneRow(f, m)') /\ (NoRow(f, m) => NoRow(f, m)')
      BY <1>1, <1>8, <2>5, <3>2 DEF OneRow, NoRow
    <3>. QED
      BY <2>1, <2>2, <2>5, <3>3
  <2>. QED
    BY <2>3, <2>4, <2>5
<1>11. EarlierRows'
  <2>. SUFFICES ASSUME NEW f \in File, NEW m \in baselines, NEW c \in 1 .. case - 1
                PROVE  IF f = out_path(m)' THEN Once(disk[f], m, c) ELSE Never(disk[f], m, c)
    BY <1>1 DEF EarlierRows
  <2>1. out_path(m)' = out_path(m)
    BY <1>1, SamePath
  <2>. QED
    BY <2>1 DEF RowsInv, EarlierRows
<1>. QED
  BY <1>9, <1>10, <1>11 DEF RowsInv

\* append_rows moves the rows of one file from memory to disk.
LEMMA AppendKeepsRows ==
  ASSUME RowsInv, AppendFile
  PROVE  RowsInv'
<1>1. /\ UNCHANGED <<inputs, ours, baselines, broken, pc, case, queue, impls, skips>>
      /\ pc = "impl" /\ queue = {} /\ files # <<>> /\ files' = Tail(files)
  BY DEF AppendFile, inputs
<1>2. Gated' = Gated
  BY <1>1 DEF Gated
<1>3. /\ rows \in [File -> Seq({x \in Gated : x.case = case})]
      /\ disk \in [File -> Seq({x \in Gated : x.case <= case})]
      /\ files \in Seq(File) /\ case \in Nat
  BY DEF RowsInv, ListsTyped
<1>4. PICK p \in File : p = Head(files)
  BY <1>1, <1>3, HeadTailProperties
<1>5. /\ rows' = [rows EXCEPT ![p] = <<>>]
      /\ disk' = [disk EXCEPT ![p] = @ \o rows[p]]
  BY <1>4 DEF AppendFile
<1>6. /\ rows'[p] = <<>> /\ disk'[p] = disk[p] \o rows[p]
      /\ \A f \in File : f # p => rows'[f] = rows[f] /\ disk'[f] = disk[f]
  BY <1>3, <1>5
<1>. DEFINE Stored == {x \in Gated : x.case <= case}
<1>7. \A f \in File : rows[f] \in Seq(Stored) /\ disk[f] \in Seq(Stored)
  <2>1. {x \in Gated : x.case = case} \subseteq Stored
    BY <1>3 DEF Gated, RowSet
  <2>2. ASSUME NEW S, NEW T, S \subseteq T PROVE Seq(S) \subseteq Seq(T)
    BY <2>2
  <2>3. Seq({x \in Gated : x.case = case}) \subseteq Seq(Stored)
    BY <2>1, <2>2
  <2>. QED
    BY <1>3, <2>3
<1>8. disk'[p] \in Seq(Stored)
  <2>. HIDE DEF Stored
  <2>1. disk[p] \o rows[p] \in Seq(Stored)
    BY ONLY <1>7, p \in File, ConcatProperties
  <2>. QED
    BY ONLY <1>6, <2>1
<1>9. ListsTyped'
  <2>1. (ours \subseteq Our /\ baselines \subseteq Baseline /\ case \in Nat)'
    BY <1>1 DEF RowsInv, ListsTyped
  <2>2. (pc = "main" => case = 0)'
    BY <1>1
  <2>3. (rows \in [File -> Seq({x \in Gated : x.case = case})])'
    BY <1>1, <1>2, <1>3, <1>5
  <2>4. (disk \in [File -> Seq({x \in Gated : x.case <= case})])'
    <3>1. disk' \in [File -> Seq(Stored)]
      BY <1>3, <1>5, <1>6, <1>8
    <3>. QED
      BY <1>1, <1>2, <3>1
  <2>5. files' \in Seq(File)
    BY <1>1, <1>3, HeadTailProperties
  <2>6. (\A f \in File : rows[f] = <<>> \/ f \in ToSet(files))'
    <3>. SUFFICES ASSUME NEW f \in File, f # p, rows[f] # <<>> PROVE f \in ToSet(files')
      BY <1>6
    <3>1. f \in ToSet(files)
      BY DEF RowsInv, ListsTyped
    <3>2. PICK i \in 1 .. Len(files) : files[i] = f
      <4>1. DOMAIN files = 1 .. Len(files)
        BY <1>3
      <4>2. PICK i \in DOMAIN files : files[i] = f
        BY ONLY <3>1 DEF ToSet
      <4>. QED
        BY <4>1, <4>2
    <3>3. /\ Len(files) \in Nat /\ Len(files') = Len(files) - 1 /\ Head(files) = files[1]
          /\ \A j \in 1 .. Len(files') : files'[j] = files[j + 1]
      BY <1>1, <1>3, HeadTailProperties
    <3>4. i - 1 \in 1 .. Len(files') /\ files'[i - 1] = f
      BY <1>4, <3>2, <3>3
    <3>5. i - 1 \in DOMAIN files'
      BY <2>5, <3>4
    <3>. QED
      BY ONLY <3>4, <3>5 DEF ToSet
  <2>. QED
    BY <2>1, <2>2, <2>3, <2>4, <2>5, <2>6 DEF ListsTyped
<1>10. NamesSplit'
  BY <1>1 DEF RowsInv, NamesSplit
<1>. HIDE DEF Stored
<1>11. \A n : Never(<<>>, n, case)
  BY DEF Never
<1>12. CaseRows'
  <2>. SUFFICES ASSUME NEW f \in File, NEW n \in Names
                PROVE  (IF n \in Accounted /\ f = out_path(n) THEN OneRow(f, n) ELSE NoRow(f, n))'
    BY DEF CaseRows
  <2>1. out_path(n)' = out_path(n)
    BY <1>1, SamePath
  <2>2. Accounted' = Accounted
    BY <1>1 DEF Accounted
  <2>3. IF n \in Accounted /\ f = out_path(n) THEN OneRow(f, n) ELSE NoRow(f, n)
    BY <1>1 DEF RowsInv, CaseRows, InCase
  <2>4. CASE f # p
    <3>1. OneRow(f, n)' = OneRow(f, n) /\ NoRow(f, n)' = NoRow(f, n)
      BY <1>1, <1>6, <2>4 DEF OneRow, NoRow
    <3>. QED
      BY <2>1, <2>2, <2>3, <3>1
  <2>5. CASE f = p
    <3>1. /\ Never(disk[f], n, case) /\ Never(rows[f], n, case) => Never(disk[f] \o rows[f], n, case)
          /\ Once(disk[f], n, case) /\ Never(rows[f], n, case) => Once(disk[f] \o rows[f], n, case)
          /\ Never(disk[f], n, case) /\ Once(rows[f], n, case) => Once(disk[f] \o rows[f], n, case)
      BY ONLY <1>7, f \in File, Joint
    <3>2. /\ case' = case /\ disk'[f] = disk[f] \o rows[f]
          /\ Never(rows'[f], n, case)
      <4>1. case' = case /\ disk'[f] = disk[f] \o rows[f] /\ rows'[f] = <<>>
        BY <1>1, <1>6, <2>5
      <4>2. Never(rows'[f], n, case)
        BY ONLY <1>11, <4>1
      <4>. QED
        BY ONLY <4>1, <4>2
    <3>3. OneRow(f, n) => OneRow(f, n)'
      BY <3>1, <3>2 DEF OneRow
    <3>4. NoRow(f, n) => NoRow(f, n)'
      BY <3>1, <3>2 DEF NoRow
    <3>. QED
      BY <2>1, <2>2, <2>3, <3>3, <3>4
  <2>. QED
    BY <2>4, <2>5
<1>13. EarlierRows'
  <2>. SUFFICES ASSUME NEW f \in File, NEW n \in baselines, NEW c \in 1 .. case - 1
                PROVE  IF f = out_path(n)' THEN Once(disk'[f], n, c) ELSE Never(disk'[f], n, c)
    BY <1>1 DEF EarlierRows
  <2>1. out_path(n)' = out_path(n)
    BY <1>1, SamePath
  <2>2. IF f = out_path(n) THEN Once(disk[f], n, c) ELSE Never(disk[f], n, c)
    BY DEF RowsInv, EarlierRows
  <2>3. Never(rows[f], n, c)
    <3>1. c # case
      BY <1>3
    <3>2. \A i \in 1 .. Len(rows[f]) : rows[f][i].case = case
      <4>1. rows[f] \in Seq({x \in Gated : x.case = case})
        BY <1>3
      <4>2. \A i \in 1 .. Len(rows[f]) : rows[f][i] \in {x \in Gated : x.case = case}
        BY <4>1
      <4>. QED
        BY <4>2
    <3>. QED
      BY <3>1, <3>2 DEF Never, IsRow
  <2>4. /\ Never(disk[f], n, c) => Never(disk[f] \o rows[f], n, c)
        /\ Once(disk[f], n, c) => Once(disk[f] \o rows[f], n, c)
    BY ONLY <1>7, f \in File, <2>3, Joint
  <2>5. disk'[f] = disk[f] \/ disk'[f] = disk[f] \o rows[f]
    BY <1>6
  <2>. QED
    BY <2>1, <2>2, <2>4, <2>5
<1>. QED
  BY <1>9, <1>10, <1>12, <1>13 DEF RowsInv

\* The rows of a case that is abandoned are lost; those on disk stay.
LEMMA DiesKeepsRows ==
  ASSUME RowsInv, Dies
  PROVE  RowsInv'
<1>1. /\ UNCHANGED <<inputs, ours, baselines, broken, case, disk>>
      /\ rows' = NoRows /\ files' = <<>> /\ pc' = "dead"
  BY DEF Dies, inputs
<1>2. Gated' = Gated
  BY <1>1 DEF Gated
<1>3. ListsTyped'
  <2>. USE DEF RowsInv, ListsTyped
  <2>1. (ours \subseteq Our /\ baselines \subseteq Baseline /\ case \in Nat)'
    BY <1>1
  <2>2. (pc = "main" => case = 0)'
    BY <1>1
  <2>3. (rows \in [File -> Seq({r \in Gated : r.case = case})])'
    BY <1>1 DEF NoRows
  <2>4. (disk \in [File -> Seq({r \in Gated : r.case <= case})])'
    BY <1>1, <1>2
  <2>5. (files \in Seq(File) /\ \A f \in File : rows[f] = <<>> \/ f \in ToSet(files))'
    BY <1>1 DEF NoRows
  <2>. QED
    BY <2>1, <2>2, <2>3, <2>4, <2>5
<1>4. NamesSplit' /\ CaseRows'
  BY <1>1 DEF NamesSplit, CaseRows, InCase
<1>5. EarlierRows'
  <2>. SUFFICES ASSUME NEW f \in File, NEW n \in baselines, NEW c \in 1 .. case - 1
                PROVE  IF f = out_path(n)' THEN Once(disk[f], n, c) ELSE Never(disk[f], n, c)
    BY <1>1 DEF EarlierRows
  <2>1. out_path(n)' = out_path(n)
    BY <1>1, SamePath
  <2>. QED
    BY <2>1 DEF RowsInv, EarlierRows
<1>. QED
  BY <1>3, <1>4, <1>5 DEF RowsInv

\* A case that has been written has all of its rows on disk, and the next one
\* has none.
LEMMA StartKeepsRows ==
  ASSUME RowsInv, StartCase
  PROVE  RowsInv'
<1>1. /\ UNCHANGED <<inputs, ours, baselines, broken, disk>>
      /\ rows' = NoRows /\ files' = <<>> /\ pc' = "build" /\ case' = case + 1
      /\ queue' = baselines \cup ours /\ impls' = {} /\ skips' = {}
      /\ pc \in {"main", "written"}
  BY DEF StartCase, inputs
<1>2. Gated' = Gated
  BY <1>1 DEF Gated
<1>3. /\ disk \in [File -> Seq({r \in Gated : r.case <= case})]
      /\ case \in Nat
  BY DEF RowsInv, ListsTyped
<1>. DEFINE Old == {r \in Gated : r.case <= case}
            New == {r \in Gated : r.case <= case + 1}
<1>4. Old \subseteq New
  BY <1>3 DEF Gated, RowSet
<1>5. \A f \in File : disk[f] \in Seq(Old)
  BY <1>3
<1>6. \A f \in File : \A i \in 1 .. Len(disk[f]) : disk[f][i] \in Old
  <2>. HIDE DEF Old
  <2>. QED
    BY <1>5
<1>7. ListsTyped'
  <2>1. (ours \subseteq Our /\ baselines \subseteq Baseline /\ case \in Nat)'
    BY <1>1 DEF RowsInv, ListsTyped
  <2>2. (pc = "main" => case = 0)'
    BY <1>1
  <2>3. (rows \in [File -> Seq({r \in Gated : r.case = case})])'
    BY <1>1 DEF NoRows
  <2>4. (disk \in [File -> Seq({r \in Gated : r.case <= case})])'
    <3>1. disk \in [File -> Seq(New)]
      <4>1. ASSUME NEW S, NEW T, S \subseteq T PROVE Seq(S) \subseteq Seq(T)
        BY <4>1
      <4>2. Seq(Old) \subseteq Seq(New)
        BY <1>4, <4>1
      <4>. QED
        BY <1>3, <4>2
    <3>. QED
      BY <1>1, <1>2, <3>1
  <2>5. (files \in Seq(File) /\ \A f \in File : rows[f] = <<>> \/ f \in ToSet(files))'
    BY <1>1 DEF NoRows
  <2>. QED
    BY <2>1, <2>2, <2>3, <2>4, <2>5 DEF ListsTyped
<1>8. NamesSplit'
  BY <1>1 DEF NamesSplit
<1>9. CaseRows'
  <2>. SUFFICES ASSUME NEW f \in File, NEW n \in Names PROVE NoRow(f, n)'
    BY <1>1 DEF CaseRows, Accounted
  <2>1. Never(rows'[f], n, case')
    <3>1. rows'[f] = <<>>
      BY <1>1 DEF NoRows
    <3>. QED
      BY ONLY <3>1 DEF Never
  <2>2. Never(disk'[f], n, case')
    <3>1. \A i \in 1 .. Len(disk[f]) : disk[f][i].case # case + 1
      BY <1>3, <1>6 DEF Gated, RowSet
    <3>. QED
      BY <1>1, <3>1 DEF Never, IsRow
  <2>. QED
    BY <2>1, <2>2 DEF NoRow
<1>10. EarlierRows'
  <2>. SUFFICES ASSUME NEW f \in File, NEW n \in baselines, NEW c \in 1 .. case' - 1
                PROVE  IF f = out_path(n)' THEN Once(disk[f], n, c) ELSE Never(disk[f], n, c)
    BY <1>1 DEF EarlierRows
  <2>1. out_path(n)' = out_path(n)
    BY <1>1, SamePath
  <2>2. CASE c # case
    <3>1. c \in 1 .. case - 1
      BY <1>1, <1>3, <2>2
    <3>. QED
      BY <2>1, <3>1 DEF RowsInv, EarlierRows
  <2>3. CASE c = case
    <3>1. pc = "written" /\ pc \in InCase
      BY <1>1, <2>3 DEF RowsInv, ListsTyped, InCase
    <3>2. n \in Names /\ n \in baselines \cup ours /\ n \in Baseline
      BY DEF RowsInv, ListsTyped, Names
    <3>3. n \in Accounted
      BY <3>1, <3>2 DEF RowsInv, NamesSplit, Accounted
    <3>4. rows[f] = <<>>
      BY <3>1 DEF RowsInv, NamesSplit, ListsTyped, ToSet
    <3>5. ~ Once(rows[f], n, case)
      BY ONLY <3>4 DEF Once
    <3>6. IF f = out_path(n) THEN OneRow(f, n) ELSE NoRow(f, n)
      BY <3>1, <3>2, <3>3 DEF RowsInv, CaseRows
    <3>. QED
      BY <2>1, <2>3, <3>5, <3>6 DEF OneRow, NoRow
  <2>. QED
    BY <2>2, <2>3
<1>. QED
  BY <1>7, <1>8, <1>9, <1>10 DEF RowsInv

-------------------------------------------------------------------------------
(* The actions.                                                            *)

\* The name whose turn it is has no row yet.
LEMMA NextName ==
  ASSUME RowsInv, pc \in InCase, queue # {}
  PROVE  /\ Name \in queue /\ Name \in Names
         /\ Name \notin Accounted
         /\ pc \notin {"build", "refused"} => Name \notin skips
<1>1. queue \subseteq baselines \cup ours /\ baselines \cup ours \subseteq Names
  BY DEF RowsInv, NamesSplit, ListsTyped, Names
<1>2. Name \in queue
  BY <1>1, NameIsQueued
<1>3. Name \notin Accounted
  BY <1>2 DEF RowsInv, NamesSplit, Accounted
<1>4. pc \notin {"build", "refused"} => Name \notin skips
  BY <1>2 DEF RowsInv, NamesSplit
<1>. QED
  BY <1>1, <1>2, <1>3, <1>4

\* Only a baseline that is refused gets its row when it is built.
LEMMA BuiltKeepsRows ==
  ASSUME RowsInv, NEW taken \in BOOLEAN, Built(taken)
  PROVE  RowsInv'
<1>1. /\ UNCHANGED <<inputs, ours, baselines, broken, pc, case, byFile, disk>>
      /\ pc = "build" /\ queue # {}
      /\ impls' = IF taken THEN impls \cup {Name} ELSE impls
      /\ skips' = IF taken THEN skips ELSE skips \cup {Name}
      /\ queue' = queue \ {Name}
  BY DEF Built, inputs
<1>2. Name \in queue
  BY <1>1, NextName DEF InCase
<1>3. NamesSplit'
  BY <1>1, <1>2 DEF RowsInv, NamesSplit, InCase
<1>4. Accounted' = Accounted
  BY <1>1 DEF Accounted
<1>. QED
  BY <1>1, <1>3, <1>4, QuietKeepsRows

\* From one loop of the case to the next.
LEMMA LoopsKeepRows ==
  ASSUME RowsInv, BuildDone \/ SkipsDone
  PROVE  RowsInv'
<1>1. CASE BuildDone
  <2>1. /\ UNCHANGED <<inputs, ours, baselines, broken, case, impls, skips, byFile, disk>>
        /\ pc = "build" /\ pc' = "refused" /\ queue = {} /\ queue' = skips
    BY <1>1 DEF BuildDone, inputs
  <2>2. NamesSplit'
    BY <2>1 DEF RowsInv, NamesSplit, InCase
  <2>3. Accounted' = Accounted
    BY <2>1 DEF Accounted
  <2>. QED
    BY <2>1, <2>2, <2>3, QuietKeepsRows DEF InCase
<1>2. CASE SkipsDone
  <2>1. /\ UNCHANGED <<inputs, ours, baselines, broken, case, impls, skips, byFile, disk>>
        /\ pc = "refused" /\ pc' = "impl" /\ queue = {} /\ queue' = impls
    BY <1>2 DEF SkipsDone, inputs
  <2>2. NamesSplit'
    BY <2>1 DEF RowsInv, NamesSplit, InCase
  <2>3. Accounted' = Accounted
    BY <2>1 DEF Accounted
  <2>. QED
    BY <2>1, <2>2, <2>3, QuietKeepsRows DEF InCase
<1>. QED
  BY <1>1, <1>2

\* A name that is skipped gets its row at once.
LEMMA SkippedKeepsRows ==
  ASSUME RowsInv, Skipped
  PROVE  RowsInv'
<1>1. /\ UNCHANGED <<inputs, ours, baselines, broken, pc, case, impls, skips, disk>>
      /\ pc = "refused" /\ queue # {} /\ queue' = queue \ {Name}
  BY DEF Skipped, inputs
<1>2. Name \in queue /\ Name \in Names /\ Name \notin Accounted
  BY <1>1, NextName DEF InCase
<1>3. NamesSplit'
  BY <1>1, <1>2 DEF RowsInv, NamesSplit, InCase
<1>4. Name \in skips
  BY <1>1, <1>2 DEF RowsInv, NamesSplit, InCase
<1>5. CASE Name \in Baseline
  <2>1. PICK n \in Names : n = Name
    BY <1>2
  <2>2. PICK kind \in Kinds : kind # "timed" /\ Put(n, kind)
    <3>1. Put(n, "backend_refused")
      BY <1>5, <2>1 DEF Skipped
    <3>2. "backend_refused" \in Kinds /\ "backend_refused" # "timed"
      BY DEF Kinds
    <3>. QED
      BY ONLY <3>1, <3>2
  <2>3. Accounted' = Accounted \cup {n}
    BY <1>1, <1>2, <1>4, <1>5, <2>1 DEF Accounted
  <2>4. /\ pc \in InCase /\ pc' \in InCase /\ n \notin Accounted
        /\ UNCHANGED <<inputs, case, disk>>
    BY <1>1, <1>2, <2>1 DEF InCase
  <2>. QED
    BY <1>3, <2>2, <2>3, <2>4, PutKeepsRows
<1>6. CASE Name \notin Baseline
  <2>1. UNCHANGED byFile
    BY <1>6 DEF Skipped
  <2>2. Accounted' = Accounted
    BY <1>1, <1>6 DEF Accounted
  <2>. QED
    BY <1>1, <1>3, <2>1, <2>2, QuietKeepsRows
<1>. QED
  BY <1>5, <1>6

\* An implementation that is done, timed or not, has its row.
LEMMA DoneKeepsRows ==
  ASSUME RowsInv, pc \in {"impl", "timing", "loop", "join"}, queue # {}, UNCHANGED inputs,
         NEW kind \in Kinds, kind = "timed" => Name \notin broken, Done(kind)
  PROVE  RowsInv'
<1>1. /\ UNCHANGED <<inputs, ours, baselines, broken, case, impls, skips, disk>>
      /\ pc' = "impl" /\ queue' = queue \ {Name} /\ Put(Name, kind)
  BY DEF Done, inputs
<1>2. /\ Name \in queue /\ Name \in Names /\ Name \notin Accounted /\ Name \notin skips
  BY NextName DEF InCase
<1>3. NamesSplit'
  BY <1>1, <1>2 DEF RowsInv, NamesSplit, InCase
<1>4. Name \in impls
  BY <1>2 DEF RowsInv, NamesSplit, InCase
<1>5. PICK n \in Names : n = Name
  BY <1>2
<1>6. Accounted' = Accounted \cup {n}
  BY <1>1, <1>2, <1>4, <1>5 DEF Accounted
<1>. QED
  BY <1>1, <1>2, <1>3, <1>5, <1>6, PutKeepsRows DEF InCase

\* The gate and the loop that is timed.
LEMMA TimingKeepsRows ==
  ASSUME RowsInv, GatePasses \/ StartLoop \/ LoopDrained \/ CaseWritten
  PROVE  RowsInv'
<1>1. UNCHANGED <<inputs, ours, baselines, broken, case, queue, impls, skips, byFile, disk, rows, files>>
  BY DEF GatePasses, StartLoop, LoopDrained, CaseWritten, inputs, byFile
<1>2. /\ pc \in {"impl", "timing", "loop"} /\ pc' \in {"timing", "loop", "join", "written"}
      /\ pc' = "written" => queue = {} /\ files = <<>>
      /\ pc' # "written" => (pc = "impl" => queue # {} /\ Name \notin broken)
      /\ pc' = "written" => pc = "impl"
  BY DEF GatePasses, StartLoop, LoopDrained, CaseWritten
<1>3. Name' = Name
  BY <1>1, <1>2 DEF Name
<1>4. NamesSplit'
  BY <1>1, <1>2, <1>3 DEF RowsInv, NamesSplit, InCase
<1>5. Accounted' = Accounted
  BY <1>1, <1>2 DEF Accounted
<1>. QED
  BY <1>1, <1>2, <1>4, <1>5, QuietKeepsRows DEF InCase

\* Every step of the process keeps the account of the rows.
LEMMA ProcessKeepsRows ==
  ASSUME RowsInv, Process \/ RuntimeOom \/ Dies
  PROVE  RowsInv'
<1>1. CASE NoCuda \/ Exit
  <2>1. /\ UNCHANGED <<inputs, case, queue, impls, skips, byFile, disk>> /\ pc' = "exited"
    BY <1>1 DEF NoCuda, Exit
  <2>2. NamesSplit' /\ pc' \notin InCase
    BY <2>1 DEF NamesSplit, InCase
  <2>. QED
    BY <2>1, <2>2, QuietKeepsRows
<1>2. CASE StartCase
  BY <1>2, StartKeepsRows
<1>3. CASE TakeUnprobed \/ OpMissing \/ ProbeRuns \/ ProbeRefused
  BY <1>3, BuiltKeepsRows DEF TakeUnprobed, OpMissing, ProbeRuns, ProbeRefused
<1>4. CASE BuildDone \/ Skipped \/ SkipsDone
  BY <1>4, LoopsKeepRows, SkippedKeepsRows
<1>5. CASE ByDesign \/ GateFails
  <2>1. /\ pc \in {"impl", "timing", "loop", "join"} /\ queue # {}
        /\ UNCHANGED inputs
        /\ Done("oom_by_design") \/ Done("correctness_failed")
    BY <1>5 DEF ByDesign, GateFails, Done
  <2>. QED
    BY <2>1, DoneKeepsRows DEF Kinds
<1>6. CASE GatePasses \/ StartLoop \/ LoopDrained \/ CaseWritten
  BY <1>6, TimingKeepsRows
<1>7. CASE Timed
  <2>1. pc = "join" /\ UNCHANGED inputs /\ Done("timed")
    BY <1>7 DEF Timed, Joined, Done
  <2>2. queue # {} /\ Name \notin broken
    BY <2>1 DEF RowsInv, NamesSplit, InCase
  <2>. QED
    BY <2>1, <2>2, DoneKeepsRows DEF Kinds
<1>8. CASE RuntimeOom
  <2>1. /\ pc \in {"impl", "timing", "loop", "join"} /\ queue # {}
        /\ UNCHANGED inputs /\ Done("oom_runtime")
    BY <1>8 DEF RuntimeOom, Done
  <2>. QED
    BY <2>1, DoneKeepsRows DEF Kinds
<1>9. CASE AppendFile
  BY <1>9, AppendKeepsRows
<1>10. CASE Dies
  BY <1>10, DiesKeepsRows
<1>. QED
  BY <1>1, <1>2, <1>3, <1>4, <1>5, <1>6, <1>7, <1>8, <1>9, <1>10 DEF Process

\* The inductive invariant of the rows.
THEOREM RowsInvariant == Spec => []RowsInv
<1>1. RowsInv /\ UNCHANGED <<inputs, pc, case, queue, impls, skips, byFile, disk>> => RowsInv'
  <2>. SUFFICES ASSUME RowsInv, UNCHANGED <<inputs, pc, case, queue, impls, skips, byFile, disk>>
                PROVE  RowsInv'
    OBVIOUS
  <2>1. UNCHANGED <<ours, baselines, broken, files>>
    BY DEF inputs, byFile
  <2>2. Name' = Name /\ Accounted' = Accounted
    BY DEF Name, Accounted
  <2>3. NamesSplit'
    BY <2>1, <2>2 DEF RowsInv, NamesSplit
  <2>. QED
    BY <2>2, <2>3, QuietKeepsRows
<1>2. RowsInv /\ [Next]_vars => RowsInv'
  <2>1. ASSUME RowsInv, NEW id \in Loops, Sampler(id) PROVE RowsInv'
    <3>1. UNCHANGED <<inputs, pc, case, queue, impls, skips, byFile, disk>>
      BY <2>1 DEF Sampler, SamplerChecks, SamplerReads, SamplerAppends, others
    <3>. QED
      BY <1>1, <2>1, <3>1
  <2>2. RowsInv /\ UNCHANGED vars => RowsInv'
    BY <1>1 DEF vars
  <2>. QED
    BY <2>1, <2>2, ProcessKeepsRows DEF Next, Ended
<1>. QED
  BY <1>2, RowsInit, PTL DEF Spec

\* bench.py writes no time for an output that failed the correctness gate:
\* neither a row in memory nor one on disk has it, whatever ran out of memory,
\* was skipped or died before.
THEOREM TimesGated == Spec => []GatedTimes
<1>1. RowsInv => GatedTimes
  <2>. SUFFICES ASSUME RowsInv, NEW f \in File, NEW r \in ToSet(rows[f]) \cup ToSet(disk[f])
                PROVE  r \in Gated
    BY DEF GatedTimes, Gated
  <2>1. rows[f] \in Seq({x \in Gated : x.case = case}) /\ disk[f] \in Seq({x \in Gated : x.case <= case})
    BY DEF RowsInv, ListsTyped
  <2>2. ASSUME NEW S, NEW s \in Seq(S) PROVE ToSet(s) \subseteq S
    BY DEF ToSet
  <2>3. /\ ToSet(rows[f]) \subseteq {x \in Gated : x.case = case}
        /\ ToSet(disk[f]) \subseteq {x \in Gated : x.case <= case}
    BY ONLY <2>1, <2>2
  <2>. QED
    BY <2>3
<1>. QED
  BY <1>1, RowsInvariant, PTL

\* The rows an implementation has on disk for a case, when no file has one and
\* when one file has one.
LEMMA CountedRows ==
  ASSUME disk \in [File -> Seq(Gated)], NEW n, NEW c, NEW p \in File,
         \A f \in File : f # p => Never(disk[f], n, c)
  PROVE  /\ Never(disk[p], n, c) => Cardinality(RowsOf(n, c)) = 0
         /\ Once(disk[p], n, c) => Cardinality(RowsOf(n, c)) = 1
<1>1. \A x : x \in RowsOf(n, c) <=>
               \E f \in File : \E i \in 1 .. Len(disk[f]) : x = <<f, i>> /\ IsRow(disk[f][i], n, c)
  <2>1. \A f \in File : DOMAIN disk[f] = 1 .. Len(disk[f])
    OBVIOUS
  <2>. QED
    BY <2>1 DEF RowsOf, OnDisk, IsRow
<1>2. ASSUME Never(disk[p], n, c) PROVE Cardinality(RowsOf(n, c)) = 0
  <2>1. RowsOf(n, c) = {}
    BY <1>1, <1>2 DEF Never
  <2>. QED
    BY <2>1, FS_EmptySet
<1>3. ASSUME Once(disk[p], n, c) PROVE Cardinality(RowsOf(n, c)) = 1
  <2>1. PICK i \in 1 .. Len(disk[p]) :
               /\ IsRow(disk[p][i], n, c)
               /\ \A j \in 1 .. Len(disk[p]) : IsRow(disk[p][j], n, c) => j = i
    BY <1>3 DEF Once
  <2>2. <<p, i>> \in RowsOf(n, c)
    BY <1>1, <2>1
  <2>3. ASSUME NEW x \in RowsOf(n, c) PROVE x = <<p, i>>
    <3>1. PICK f \in File : \E j \in 1 .. Len(disk[f]) : x = <<f, j>> /\ IsRow(disk[f][j], n, c)
      BY <1>1
    <3>2. PICK j \in 1 .. Len(disk[f]) : x = <<f, j>> /\ IsRow(disk[f][j], n, c)
      BY <3>1
    <3>3. f = p
      BY <3>2 DEF Never
    <3>4. j = i
      BY <2>1, <3>2, <3>3
    <3>. QED
      BY <3>2, <3>3, <3>4
  <2>4. RowsOf(n, c) = {<<p, i>>}
    <3>1. ASSUME NEW S, NEW e \in S, \A x \in S : x = e PROVE S = {e}
      BY <3>1
    <3>. QED
      BY ONLY <2>2, <2>3, <3>1
  <2>. QED
    BY <2>4, FS_Singleton
<1>. QED
  BY <1>2, <1>3

\* bench.py drops no implementation and counts none twice: of every case it
\* has got past, each requested baseline has one row on disk, also when the
\* process has died since; of a case just written, each requested kernel has
\* one unless it was skipped, and then none.
THEOREM OneRowEach == Spec => []RowPerImpl
<1>1. ASSUME RowsInv PROVE RowPerImpl
  <2>1. case \in Nat /\ ours \subseteq Our /\ baselines \subseteq Baseline
    BY <1>1 DEF RowsInv, ListsTyped
  <2>2. disk \in [File -> Seq(Gated)]
    <3>1. ASSUME NEW S, NEW T, S \subseteq T PROVE Seq(S) \subseteq Seq(T)
      BY <3>1
    <3>2. Seq({r \in Gated : r.case <= case}) \subseteq Seq(Gated)
      BY <3>1
    <3>. QED
      BY <1>1, <3>2 DEF RowsInv, ListsTyped
  <2>3. ASSUME NEW n \in baselines \cup ours, pc = "written"
        PROVE  Cardinality(RowsOf(n, case)) = IF n \in ours /\ n \in skips THEN 0 ELSE 1
    <3>1. n \in Names /\ pc \in InCase
      BY <2>1, <2>3 DEF Names, InCase
    <3>2. PICK p \in File : p = out_path(n)
      BY <2>1, <3>1, PathIsFile
    <3>3. \A f \in File : rows[f] = <<>>
      BY <1>1, <2>3, <3>1 DEF RowsInv, NamesSplit, ListsTyped, ToSet
    <3>4. \A f \in File : ~ Once(rows[f], n, case)
      BY ONLY <3>3 DEF Once
    <3>5. \A f \in File : IF n \in Accounted /\ f = p THEN OneRow(f, n) ELSE NoRow(f, n)
      BY <1>1, <3>1, <3>2 DEF RowsInv, CaseRows
    <3>6. \A f \in File : f # p => Never(disk[f], n, case)
      BY <3>5 DEF NoRow
    <3>7. CASE n \in ours /\ n \in skips
      <4>1. n \notin Accounted
        BY <1>1, <2>1, <2>3, <3>1, <3>7, BenchAssumption DEF RowsInv, NamesSplit, Accounted
      <4>2. Never(disk[p], n, case)
        BY <3>5, <4>1 DEF NoRow
      <4>. QED
        BY <2>2, <3>6, <3>7, <4>2, CountedRows
    <3>8. CASE ~ (n \in ours /\ n \in skips)
      <4>1. n \in Accounted
        BY <1>1, <2>1, <2>3, <3>1, <3>8 DEF RowsInv, NamesSplit, Accounted
      <4>2. Once(disk[p], n, case)
        BY <3>4, <3>5, <4>1 DEF OneRow
      <4>. QED
        BY <2>2, <3>6, <3>8, <4>2, CountedRows
    <3>. QED
      BY <3>7, <3>8
  <2>4. ASSUME NEW c \in Case, NEW n \in baselines, c < case
        PROVE  Cardinality(RowsOf(n, c)) = 1
    <3>1. n \in Names /\ c \in 1 .. case - 1
      BY <2>1, <2>4 DEF Names, Case
    <3>2. PICK p \in File : p = out_path(n)
      BY <2>1, <3>1, PathIsFile
    <3>3. Once(disk[p], n, c) /\ \A f \in File : f # p => Never(disk[f], n, c)
      BY <1>1, <3>1, <3>2 DEF RowsInv, EarlierRows
    <3>. QED
      BY <2>2, <3>3, CountedRows
  <2>5. ASSUME NEW n \in baselines, pc = "written" PROVE Cardinality(RowsOf(n, case)) = 1
    <3>1. n \notin ours
      BY <2>1, BenchAssumption
    <3>. QED
      BY <2>3, <2>5, <3>1
  <2>6. ASSUME NEW n \in ours, pc = "written"
        PROVE  Cardinality(RowsOf(n, case)) = IF n \in skips THEN 0 ELSE 1
    BY <2>3, <2>6
  <2>. QED
    BY <2>4, <2>5, <2>6 DEF RowPerImpl
<1>. QED
  BY <1>1, RowsInvariant, PTL

HIDE BenchAssumption

-------------------------------------------------------------------------------
(* Sequences joined.                                                        *)

IsSeq(s) == s \in Seq(ToSet(s))

\* A sequence over any set is one over its own elements.
LEMMA SeqIs == ASSUME NEW S, NEW s \in Seq(S) PROVE IsSeq(s) /\ ToSet(s) \subseteq S
<1>1. s \in [1 .. Len(s) -> S] /\ Len(s) \in Nat
  OBVIOUS
<1>2. \A i \in 1 .. Len(s) : s[i] \in ToSet(s)
  BY <1>1 DEF ToSet
<1>. QED
  BY <1>1, <1>2, SeqDef DEF IsSeq, ToSet

\* A function on 1 .. n is a sequence of length n.
LEMMA FcnIsSeq ==
  ASSUME NEW n \in Nat, NEW f, f = [i \in 1 .. n |-> f[i]]
  PROVE  IsSeq(f) /\ DOMAIN f = 1 .. n /\ Len(f) = n
<1>1. DOMAIN f = 1 .. n
  OBVIOUS
<1>2. f \in [1 .. n -> ToSet(f)]
  BY <1>1 DEF ToSet
<1>3. f \in Seq(ToSet(f))
  BY <1>2, SeqDef
<1>. QED
  BY <1>1, <1>3 DEF IsSeq

\* What two sequences are when they are joined.
LEMMA Concatenated ==
  ASSUME NEW s, NEW t, IsSeq(s), IsSeq(t)
  PROVE  /\ IsSeq(s \o t) /\ ToSet(s \o t) = ToSet(s) \cup ToSet(t)
         /\ Len(s) \in Nat /\ Len(t) \in Nat /\ Len(s \o t) = Len(s) + Len(t)
         /\ \A i \in 1 .. Len(s) : (s \o t)[i] = s[i]
         /\ \A i \in 1 .. Len(t) : (s \o t)[Len(s) + i] = t[i]
<1>. DEFINE U == ToSet(s) \cup ToSet(t)
<1>1. s \in Seq(U) /\ t \in Seq(U)
  BY DEF IsSeq
<1>2. s \o t \in Seq(U) /\ Len(s \o t) = Len(s) + Len(t)
  BY <1>1
<1>3. Len(s) \in Nat /\ Len(t) \in Nat
  BY <1>1
<1>4. \A i \in 1 .. Len(s) : (s \o t)[i] = s[i]
  BY <1>1
<1>5. \A i \in 1 .. Len(t) : (s \o t)[Len(s) + i] = t[i]
  BY <1>1, <1>3
<1>6. IsSeq(s \o t) /\ ToSet(s \o t) \subseteq U
  BY <1>2, SeqIs
<1>7. DOMAIN s = 1 .. Len(s) /\ DOMAIN t = 1 .. Len(t) /\ DOMAIN (s \o t) = 1 .. Len(s) + Len(t)
  BY <1>1, <1>2
<1>8. ASSUME NEW x \in U PROVE x \in ToSet(s \o t)
  <2>1. CASE x \in ToSet(s)
    BY <2>1, <1>3, <1>4, <1>7 DEF ToSet
  <2>2. CASE x \in ToSet(t)
    <3>1. PICK i \in 1 .. Len(t) : x = t[i]
      BY <2>2, <1>7 DEF ToSet
    <3>2. x = (s \o t)[Len(s) + i] /\ Len(s) + i \in 1 .. Len(s) + Len(t)
      BY <3>1, <1>3, <1>5
    <3>. QED
      BY <3>2, <1>7 DEF ToSet
  <2>. QED
    BY <2>1, <2>2
<1>. QED
  BY <1>2, <1>3, <1>4, <1>5, <1>6, <1>8

\* The function that FlattenSeq computes with exists.
Flat(seqs, n, f) == f = [i \in 1 .. n |-> IF i = 1 THEN seqs[i] ELSE f[i - 1] \o seqs[i]]

\* There is one, up to any number of parts.
LEMMA FlatExists ==
  ASSUME NEW seqs, NEW n \in Nat
  PROVE  \E f : Flat(seqs, n, f)
<1>. DEFINE Bad == {k \in Nat : ~ \E f : Flat(seqs, k, f)}
<1>. SUFFICES ASSUME Bad # {} PROVE FALSE
  OBVIOUS
<1>1. PICK k \in Bad : \A j \in Bad : k <= j
  BY LeastNumber
<1>2. k \in Nat /\ ~ \E f : Flat(seqs, k, f)
  OBVIOUS
<1>. HIDE DEF Bad
<1>3. k # 0
  <2>. SUFFICES ASSUME k = 0 PROVE FALSE
    OBVIOUS
  <2>. DEFINE g == [i \in 1 .. k |-> {}]
              h == [i \in 1 .. k |-> IF i = 1 THEN seqs[i] ELSE g[i - 1] \o seqs[i]]
  <2>1. 1 .. k = {}
    OBVIOUS
  <2>2. \A i \in 1 .. k : g[i] = h[i]
    BY <2>1
  <2>. HIDE DEF g
  <2>3. g = [i \in 1 .. k |-> g[i]]
    BY DEF g
  <2>4. g = h
    BY <2>1, <2>3, Zenon
  <2>. QED
    BY <1>2, <2>4 DEF Flat
<1>4. PICK g : Flat(seqs, k - 1, g)
  <2>1. k - 1 \in Nat /\ k - 1 \notin Bad
    BY <1>1, <1>2, <1>3
  <2>. QED
    BY <2>1 DEF Bad
<1>. DEFINE h == [i \in 1 .. k |-> IF i = 1 THEN seqs[i] ELSE g[i - 1] \o seqs[i]]
<1>5. ASSUME NEW i \in 1 .. k - 1 PROVE h[i] = g[i]
  <2>1. i \in 1 .. k
    BY <1>2
  <2>2. h[i] = IF i = 1 THEN seqs[i] ELSE g[i - 1] \o seqs[i]
    BY <2>1
  <2>3. g[i] = IF i = 1 THEN seqs[i] ELSE g[i - 1] \o seqs[i]
    BY ONLY <1>4, i \in 1 .. k - 1 DEF Flat
  <2>. QED
    BY ONLY <2>2, <2>3
<1>6. ASSUME NEW i \in 1 .. k, i # 1 PROVE h[i - 1] = g[i - 1]
  <2>1. i - 1 \in 1 .. k - 1
    BY <1>2, <1>6
  <2>. QED
    BY ONLY <1>5, <2>1
<1>7. h = [i \in 1 .. k |-> IF i = 1 THEN seqs[i] ELSE h[i - 1] \o seqs[i]]
  BY <1>6
<1>. QED
  BY <1>2, <1>7 DEF Flat

\* FlattenSeq is the last value of that function.
LEMMA FlattenDef ==
  ASSUME NEW seqs, Len(seqs) \in Nat, Len(seqs) # 0
  PROVE  \E f : Flat(seqs, Len(seqs), f) /\ FlattenSeq(seqs) = f[Len(seqs)]
<1>. DEFINE fl == CHOOSE f :
              f = [i \in 1 .. Len(seqs) |-> IF i = 1 THEN seqs[i] ELSE f[i - 1] \o seqs[i]]
<1>1. FlattenSeq(seqs) = fl[Len(seqs)]
  BY DEF FlattenSeq
<1>2. fl = [i \in 1 .. Len(seqs) |-> IF i = 1 THEN seqs[i] ELSE fl[i - 1] \o seqs[i]]
  BY FlatExists DEF Flat
<1>. QED
  BY <1>1, <1>2 DEF Flat

\* What FlattenSeq holds: the elements of its parts.
LEMMA Flattened ==
  ASSUME NEW seqs, IsSeq(seqs), \A i \in DOMAIN seqs : IsSeq(seqs[i])
  PROVE  /\ IsSeq(FlattenSeq(seqs))
         /\ ToSet(FlattenSeq(seqs)) = UNION {ToSet(seqs[i]) : i \in DOMAIN seqs}
<1>1. Len(seqs) \in Nat /\ DOMAIN seqs = 1 .. Len(seqs)
  BY DEF IsSeq
<1>2. CASE Len(seqs) = 0
  <2>1. FlattenSeq(seqs) = seqs /\ DOMAIN seqs = {}
    BY <1>1, <1>2 DEF FlattenSeq
  <2>. QED
    BY <2>1 DEF ToSet
<1>3. CASE Len(seqs) # 0
  <2>1. PICK f : Flat(seqs, Len(seqs), f) /\ FlattenSeq(seqs) = f[Len(seqs)]
    BY <1>1, <1>3, FlattenDef
  <2>. DEFINE Good(n) == IsSeq(f[n]) /\ ToSet(f[n]) = UNION {ToSet(seqs[i]) : i \in 1 .. n}
              Bad == {n \in Nat : n \in 1 .. Len(seqs) /\ ~ Good(n)}
  <2>2. Bad = {}
    <3>. SUFFICES ASSUME Bad # {} PROVE FALSE
      OBVIOUS
    <3>1. PICK n \in Bad : \A j \in Bad : n <= j
      BY LeastNumber
    <3>2. n \in 1 .. Len(seqs) /\ ~ Good(n)
      OBVIOUS
    <3>3. f[n] = IF n = 1 THEN seqs[n] ELSE f[n - 1] \o seqs[n]
      BY <2>1, <3>2 DEF Flat
    <3>4. IsSeq(seqs[n])
      BY <1>1, <3>2
    <3>. HIDE DEF Bad
    <3>5. CASE n = 1
      <4>1. 1 .. 1 = {1}
        OBVIOUS
      <4>2. UNION {ToSet(seqs[i]) : i \in 1 .. n} = ToSet(seqs[n])
        BY <3>5, <4>1
      <4>3. f[n] = seqs[n]
        BY <3>3, <3>5
      <4>. QED
        BY <3>2, <3>4, <4>2, <4>3
    <3>6. CASE n # 1
      <4>1. n - 1 \in 1 .. Len(seqs) /\ n - 1 \in Nat /\ n - 1 \notin Bad
        BY <1>1, <3>1, <3>2, <3>6
      <4>2. Good(n - 1)
        BY <4>1 DEF Bad
      <4>3. IsSeq(f[n]) /\ ToSet(f[n]) = ToSet(f[n - 1]) \cup ToSet(seqs[n])
        BY <3>3, <3>4, <3>6, <4>2, Concatenated
      <4>4. UNION {ToSet(seqs[i]) : i \in 1 .. n}
              = (UNION {ToSet(seqs[i]) : i \in 1 .. n - 1}) \cup ToSet(seqs[n])
        <5>1. 1 .. n = (1 .. n - 1) \cup {n}
          BY <1>1, <3>2
        <5>2. {ToSet(seqs[i]) : i \in 1 .. n} = {ToSet(seqs[i]) : i \in 1 .. n - 1} \cup {ToSet(seqs[n])}
          BY ONLY <5>1
        <5>. QED
          BY ONLY <5>2
      <4>. QED
        BY <3>2, <4>2, <4>3, <4>4
    <3>. QED
      BY <3>5, <3>6
  <2>3. Good(Len(seqs))
    BY <1>1, <1>3, <2>2
  <2>. QED
    BY <1>1, <2>1, <2>3
<1>. QED
  BY <1>2, <1>3

-------------------------------------------------------------------------------
(* The profiles, and what the README says of them.                         *)

\* A file of counters is empty or a launch; those the last profile.sh renewed
\* bear its commit, which .meta holds, and the others an earlier one; and unless
\* it recorded a reason, it has left a launch of each kernel it is done with.
ProfileInv ==
  /\ commit \in Nat /\ (profiler # "off" => commit # 0)
  /\ meta = IF commit = 0 THEN Empty ELSE <<commit>>
  /\ todo \subseteq Kernel /\ (profiler # "on" => todo = {})
  /\ renewed \subseteq DOMAIN raw
  /\ \A k \in DOMAIN raw : raw[k].launch = Empty \/ raw[k].launch \in Launches
  /\ DOMAIN raw \subseteq Kernel
  /\ \A k \in DOMAIN raw : raw[k].commit \in 1 .. commit
  /\ \A k \in DOMAIN raw : k \in renewed <=> raw[k].commit = commit
  /\ profiler \in {"on", "off"} /\ commit # 0 /\ ~ refusal =>
       \A k \in Kernel \ todo : k \in renewed /\ raw[k].launch \in Launches

\* What an import does to the files of the profiles.
LEMMA ImportedFiles ==
  ASSUME ProfileInv, NEW k, NEW launch, launch = Empty \/ launch \in Launches, Imported(k, launch)
  PROVE  /\ k \in todo /\ profiler = "on" /\ commit' = commit /\ meta' = meta /\ refusal' = refusal
         /\ DOMAIN raw' = DOMAIN raw \cup {k} /\ renewed' = renewed \cup {k}
         /\ raw'[k].launch = launch /\ raw'[k].commit = commit
         /\ \A j \in DOMAIN raw \ {k} : raw'[j] = raw[j]
  BY DEF Imported

\* At the start there are no files.
LEMMA ProfileInit ==
  ASSUME RInit PROVE ProfileInv
<1>1. /\ profiler = "off" /\ commit = 0 /\ todo = {} /\ meta = Empty /\ raw = <<>> /\ renewed = {}
  BY DEF RInit, Empty
<1>2. DOMAIN raw = {}
  BY <1>1
<1>. QED
  BY <1>1, <1>2 DEF ProfileInv

\* No step of anyone disturbs it.
LEMMA ProfileStep ==
  ASSUME ProfileInv, [RNext]_rvars
  PROVE  ProfileInv'
<1>1. CASE UNCHANGED <<profiler, commit, todo, meta, raw, refusal, renewed>>
  BY <1>1 DEF ProfileInv
<1>2. CASE StartProfile
  <2>1. /\ profiler' = "on" /\ commit' = commit + 1 /\ meta' = <<commit + 1>>
        /\ todo' = Kernel /\ renewed' = {} /\ raw' = raw
    BY <1>2 DEF StartProfile, meta_written
  <2>. QED
    BY <2>1 DEF ProfileInv
<1>3. ASSUME NEW k \in Kernel, NEW launch, launch = Empty \/ launch \in Launches, Imported(k, launch),
             \/ todo' = todo \ {k} /\ profiler' = profiler /\ launch \in Launches
             \/ todo' = {} /\ profiler' = "dead"
      PROVE  ProfileInv'
  <2>1. /\ k \in todo /\ profiler = "on" /\ commit' = commit /\ meta' = meta /\ refusal' = refusal
        /\ DOMAIN raw' = DOMAIN raw \cup {k} /\ renewed' = renewed \cup {k}
        /\ raw'[k].launch = launch /\ raw'[k].commit = commit
        /\ \A j \in DOMAIN raw \ {k} : raw'[j] = raw[j]
    BY <1>3, ImportedFiles
  <2>. QED
    BY <1>3, <2>1 DEF ProfileInv
<1>4. ASSUME NEW k \in Kernel, Profiled(k) PROVE ProfileInv'
  BY <1>3, <1>4 DEF Profiled
<1>5. ASSUME NEW k \in Kernel, ImportFails(k) PROVE ProfileInv'
  BY <1>3, <1>5 DEF ImportFails
<1>6. ASSUME NEW k \in Kernel, ProfileFailed(k) PROVE ProfileInv'
  BY <1>6 DEF ProfileFailed, ProfileInv
<1>7. CASE ClockRefused \/ Blocked
  BY <1>7 DEF ClockRefused, Blocked, ProfileInv
<1>8. CASE ProfileEnds
  BY <1>8 DEF ProfileEnds, ProfileInv
<1>9. CASE ProfileDies
  BY <1>9 DEF ProfileDies, ProfileInv
<1>10. CASE UNCHANGED rvars
  BY <1>1, <1>10 DEF rvars, profiles
<1>11. CASE BenchToMd \/ NcuToMd \/ Quiet
  BY <1>1, <1>11 DEF BenchToMd, NcuToMd, Quiet, profiles, rvars
<1>12. ASSUME NEW s \in Session,
              \/ StartSession(s) \/ OpenFile(s) \/ CloseFile(s)
              \/ ReadBack(s) \/ WriteSummary(s) \/ SessionDies(s)
       PROVE  ProfileInv'
  BY <1>1, <1>12 DEF StartSession, OpenFile, CloseFile, ReadBack, WriteSummary, SessionDies, profiles
<1>. QED
  BY <1>2, <1>4, <1>5, <1>6, <1>7, <1>8, <1>9, <1>10, <1>11, <1>12 DEF RNext

\* A unit that is understood is scaled by what it means.
LEMMA ScaleRight ==
  ASSUME NEW u, InVocabulary(u), normalize_unit(u) # NoNumber
  PROVE  UnitScale(u) = Meaning(u) /\ Meaning(u) \in Int /\ normalize_unit(u) = UnitScale(u)
<1>1. u.denom # "Kcycle" /\ normalize_unit(u) = UnitScale(u)
  BY DEF normalize_unit
<1>2. /\ Power[u.prefix] \in Int
      /\ u.quantity \in DOMAIN Time => Time[u.quantity] \in Int
      /\ u.denom \in DOMAIN Time => Time[u.denom] \in Int
      /\ Power["none"] = 0 /\ "none" \notin DOMAIN Time
  BY DEF InVocabulary, Power, Time
<1>. QED
  BY <1>1, <1>2 DEF UnitScale, IsTime, Meaning, InVocabulary

\* A number of a launch in base units is the 1 that it is, or withheld.
LEMMA InBaseUnits ==
  ASSUME NEW launch, launch = Empty \/ launch \in Launches
  PROVE  /\ DOMAIN parse_ncu(launch).values = DOMAIN launch
         /\ \A i \in DOMAIN launch : parse_ncu(launch).values[i] \in {0, NoNumber}
<1>1. DOMAIN parse_ncu(launch).values = DOMAIN launch
  BY DEF parse_ncu
<1>2. ASSUME NEW i \in DOMAIN launch
      PROVE  parse_ncu(launch).values[i] \in {0, NoNumber}
  <2>1. launch \in Launches
    <3>1. DOMAIN Empty = {}
      BY DEF Empty
    <3>. QED
      BY <1>2, <3>1
  <2>2. Prints(launch[i])
    BY <1>2, <2>1, ReportsAssumption
  <2>3. parse_ncu(launch).values[i] =
          IF launch[i].value = NoNumber \/ normalize_unit(launch[i].unit) = NoNumber
          THEN NoNumber ELSE launch[i].value + normalize_unit(launch[i].unit)
    BY <1>2 DEF parse_ncu
  <2>. QED
    BY <2>2, <2>3, ScaleRight DEF Prints
<1>. QED
  BY <1>1, <1>2

\* What the table and the dump show of such launches.
LEMMA ShownInBaseUnits ==
  ASSUME ProfileInv
  PROVE  /\ render_readme # NoText => \A k \in DOMAIN render_readme.rows :
              render_readme.rows[k].column \in {{0}, NoNumber, Withheld}
         /\ \A k \in DOMAIN render_stage_dump : \A i \in DOMAIN render_stage_dump[k] :
              render_stage_dump[k][i] \in {0, NoNumber, Withheld}
<1>1. \A k \in DOMAIN raw : raw[k].launch = Empty \/ raw[k].launch \in Launches
  BY DEF ProfileInv
<1>2. ASSUME NEW k \in DOMAIN raw
      PROVE  col_value(load_profiles[k], Metric) \in {{0}, NoNumber, Withheld}
  <2>1. load_profiles[k] = parse_ncu(raw[k].launch)
    BY DEF load_profiles
  <2>2. \A i \in DOMAIN load_profiles[k].values : load_profiles[k].values[i] \in {0, NoNumber}
    BY <1>1, <2>1, InBaseUnits
  <2>. QED
    BY <2>2 DEF col_value
<1>3. ASSUME render_readme # NoText, NEW k \in DOMAIN render_readme.rows
      PROVE  render_readme.rows[k].column \in {{0}, NoNumber, Withheld}
  <2>1. k \in DOMAIN raw
    BY <1>3 DEF render_readme
  <2>2. render_readme.rows[k].column
          = IF k \in Dumped THEN col_value(load_profiles[k], Metric) ELSE NoNumber
    BY <1>3, <2>1 DEF render_readme
  <2>. QED
    BY <1>2, <2>1, <2>2
<1>4. ASSUME NEW k \in DOMAIN render_stage_dump, NEW i \in DOMAIN render_stage_dump[k]
      PROVE  render_stage_dump[k][i] \in {0, NoNumber, Withheld}
  <2>1. k \in DOMAIN raw /\ render_stage_dump[k] = render_dump(parse_ncu(raw[k].launch))
    BY DEF render_stage_dump, Dumped, load_profiles
  <2>2. i \in DOMAIN parse_ncu(raw[k].launch).values
    BY <2>1 DEF render_dump
  <2>3. parse_ncu(raw[k].launch).values[i] \in {0, NoNumber}
    BY <1>1, <2>1, <2>2, InBaseUnits
  <2>. QED
    BY <2>1, <2>2, <2>3 DEF render_dump
<1>. QED
  BY <1>3, <1>4

\* Every step but that of ncu_to_md.py leaves its block and its dump alone.
LEMMA OnlyNcuToMd ==
  ASSUME [RNext]_rvars, ~ NcuToMd
  PROVE  ncuBlock' = ncuBlock /\ generated' = generated
<1>1. ASSUME NEW k \in Kernel, Profiled(k) \/ ImportFails(k) \/ ProfileFailed(k)
      PROVE  UNCHANGED readme
  BY <1>1 DEF Profiled, ImportFails, ProfileFailed, Imported
<1>2. ASSUME NEW s \in Session,
             \/ StartSession(s) \/ OpenFile(s) \/ CloseFile(s)
             \/ ReadBack(s) \/ WriteSummary(s) \/ SessionDies(s)
      PROVE  UNCHANGED readme
  BY <1>2 DEF StartSession, OpenFile, CloseFile, ReadBack, WriteSummary, SessionDies
<1>3. ASSUME StartProfile \/ ClockRefused \/ Blocked \/ ProfileEnds \/ ProfileDies
      PROVE  UNCHANGED readme
  BY <1>3 DEF StartProfile, ClockRefused, Blocked, ProfileEnds, ProfileDies
<1>4. CASE UNCHANGED readme
  BY <1>4 DEF readme
<1>5. CASE BenchToMd
  BY <1>5 DEF BenchToMd
<1>6. CASE Quiet \/ UNCHANGED rvars
  BY <1>6 DEF Quiet, rvars, readme
<1>. QED
  BY <1>1, <1>2, <1>3, <1>4, <1>5, <1>6 DEF RNext

\* For any kernels, metrics and launches printed in the units of ncu's
\* vocabulary, every session and every fate of profile.sh: the table and the
\* dump show base units or nothing.
THEOREM NothingMisscaled == RSpec => []NoneMisscaled
<1>1. ASSUME RInit PROVE ProfileInv /\ NoneMisscaled
  <2>1. generated = <<>> /\ DOMAIN generated = {} /\ ncuBlock \in {NoText, NoBlock}
    BY <1>1 DEF RInit, Empty
  <2>. QED
    BY <1>1, <2>1, ProfileInit DEF NoneMisscaled
<1>2. ASSUME ProfileInv, NoneMisscaled, [RNext]_rvars PROVE ProfileInv' /\ NoneMisscaled'
  <2>1. CASE NcuToMd
    <3>1. generated' = stage_dump /\ ncuBlock' = replace_block(ncuBlock, render_readme)
      BY <2>1 DEF NcuToMd
    <3>2. generated' = generated \/ generated' = render_stage_dump
      BY <3>1 DEF stage_dump
    <3>3. ncuBlock' = NoBlock \/ ncuBlock' = render_readme
      BY <3>1 DEF replace_block
    <3>. QED
      BY <1>2, <3>2, <3>3, ShownInBaseUnits, ProfileStep DEF NoneMisscaled
  <2>2. CASE ~ NcuToMd
    BY <1>2, <2>2, OnlyNcuToMd, ProfileStep DEF NoneMisscaled
  <2>. QED
    BY <2>1, <2>2
<1>. QED
  BY <1>1, <1>2, PTL DEF RSpec

\* The state that profile.sh, however it ends, leaves for ncu_to_md.py: whose
\* commit .meta and the renewed files bear, and what is missing.
THEOREM ProfileInvariant == RSpec => []ProfileInv
<1>. QED
  BY ProfileInit, ProfileStep, PTL DEF RSpec

\* However many profiles came before and whatever became of them, the commit
\* printed beside counters is the one they were taken at, or a later one at which
\* their kernel was not profiled; of that a run that was not killed has left a
\* record.
THEOREM CommitsTrue == RSpec => []CommitTrue
<1>1. ProfileInv => CommitTrue
  <2>. SUFFICES ASSUME ProfileInv, ShownNcu, NEW k \in DOMAIN ncuBlock.rows,
                       ncuBlock.rows[k].commit # raw[k].commit
                PROVE  /\ k \notin renewed /\ raw[k].commit < ncuBlock.rows[k].commit
                       /\ profiler = "off" => refusal
    BY DEF CommitTrue
  <2>1. ncuBlock = render_readme /\ ncuBlock # NoText
    BY DEF ShownNcu, NcuChecks, replace_block
  <2>2. k \in DOMAIN raw /\ ncuBlock.rows[k].commit = read_meta
    BY <2>1 DEF render_readme
  <2>3. /\ commit \in Nat /\ raw[k].commit \in 1 .. commit /\ k \in Kernel
        /\ k \in renewed <=> raw[k].commit = commit
    BY <2>2 DEF ProfileInv
  <2>4. meta = <<commit>> /\ meta # Empty /\ Head(meta) = commit
    BY <2>3 DEF ProfileInv, Empty
  <2>5. ncuBlock.rows[k].commit = commit /\ k \notin renewed
    BY <2>2, <2>3, <2>4 DEF read_meta
  <2>6. profiler = "off" => refusal
    BY <2>3, <2>5 DEF ProfileInv
  <2>. QED
    BY <2>3, <2>5, <2>6
<1>. QED
  BY <1>1, ProfileInvariant, PTL

\* The header, EMPTY_TEXT and the lack of markers are nothing that is made of
\* rows.
MarksAreNoRecords ==
  /\ NoText # NoBlock
  /\ DOMAIN Header # {"key", "stamp", "commit", "ms", "notes", "tuning"}
  /\ DOMAIN NoText \notin {{"rows", "notes"}, {"headline", "details"}}
  /\ DOMAIN NoBlock # {"headline", "details"}

\* After any number of profiles, the last of which came to its end, the README
\* has counters or the reason why it has none.
THEOREM ReasonsShown ==
  ASSUME MarksAreNoRecords
  PROVE  RSpec => []ReasonShown
<1>1. ProfileInv => ReasonShown
  <2>. SUFFICES ASSUME ProfileInv, NcuChecks, profiler = "off", commit > 0, ncuBlock # NoBlock
                PROVE  /\ ncuBlock # NoText
                       /\ ncuBlock.notes \/ \E k \in DOMAIN ncuBlock.rows : DOMAIN raw[k].launch # {}
    BY DEF ReasonShown
  <2>1. ncuBlock = render_readme
    BY DEF NcuChecks, replace_block
  <2>2. commit # 0 /\ todo = {}
    BY DEF ProfileInv
  <2>3. \A k \in DOMAIN raw : DOMAIN load_profiles[k].values = DOMAIN raw[k].launch
    BY DEF load_profiles, parse_ncu
  <2>4. CASE HaveValues
    <3>1. PICK k \in DOMAIN raw : DOMAIN raw[k].launch # {}
      BY <2>3, <2>4 DEF HaveValues, Dumped
    <3>2. DOMAIN Empty = {}
      BY DEF Empty
    <3>3. render_readme = [rows |-> [j \in DOMAIN raw |->
                    [commit |-> read_meta,
                     column |-> IF j \in Dumped THEN col_value(load_profiles[j], Metric) ELSE NoNumber]],
                           notes |-> degraded_notes]
      BY <3>1, <3>2 DEF render_readme
    <3>4. DOMAIN render_readme.rows = DOMAIN raw /\ render_readme # NoText
      BY <3>3 DEF MarksAreNoRecords
    <3>. QED
      BY <2>1, <3>1, <3>4
  <2>5. CASE ~ HaveValues
    <3>1. refusal
      <4>1. SUFFICES ASSUME ~ refusal PROVE FALSE
        OBVIOUS
      <4>2. PICK k \in Kernel : k \in DOMAIN raw /\ raw[k].launch \in Launches
        BY <2>2, <4>1, ReportsAssumption DEF ProfileInv
      <4>3. DOMAIN raw[k].launch # {}
        BY <4>2, ReportsAssumption
      <4>. QED
        BY <2>3, <2>5, <4>2, <4>3 DEF HaveValues, Dumped
    <3>2. degraded_notes
      BY <2>5, <3>1 DEF degraded_notes
    <3>3. render_readme # NoText /\ render_readme.notes
      BY <3>2 DEF render_readme, MarksAreNoRecords
    <3>. QED
      BY <2>1, <3>3
  <2>. QED
    BY <2>4, <2>5
<1>. QED
  BY <1>1, ProfileInvariant, PTL

-------------------------------------------------------------------------------
(* The files of rows.                                                      *)

Fields == {"key", "stamp", "commit", "ms", "notes", "tuning"}

\* What a session writes, from its file, its stamp and what it got no time for.
RowsFrom(f, time, without) ==
  IF f = Gpt
  THEN FlattenSeq([i \in DOMAIN KeysOf[Gpt] |->
         IF KeysOf[Gpt][i] \in without THEN <<>>
         ELSE <<[key |-> KeysOf[Gpt][i], stamp |-> time, commit |-> time, ms |-> MsOf[KeysOf[Gpt][i]],
                 notes |-> {}, tuning |-> FALSE]>>])
  ELSE [i \in DOMAIN KeysOf[f] |->
         [key |-> KeysOf[f][i], stamp |-> time, commit |-> time, tuning |-> f = Tuning,
          ms |-> IF KeysOf[f][i] \in without THEN NoNumber ELSE MsOf[KeysOf[f][i]],
          notes |-> IF KeysOf[f][i] \notin without THEN {}
                    ELSE IF KeysOf[f][i] \in OurKeys THEN {OomRuntime} ELSE {Refused}]]

\* All the lines that ever were in the files of F, as sessions stand at a.
Lines(a, time, f, without, F) ==
  (UNION {ToSet(RowsFrom(f[s], time[s], without[s])) :
            s \in {t \in Session :
                     time[t] > 0 /\ a[t] \in {"written", "rebuild", "done", "dead"} /\ f[t] \in F}})
  \cup (UNION {ToSet(OldRows[f0]) : f0 \in F})

\* What is written depends on no more of the session than that.
LEMMA WrittenAre ==
  ASSUME NEW s, NEW without
  PROVE  WrittenRows(s, without) = RowsFrom(out[s], stamp[s], without)
  BY DEF WrittenRows, RowsFrom, BenchRows, GptRows

\* So what was measured is lines of sessions and old ones, before and after.
LEMMA MeasuredAre ==
  ASSUME NEW F
  PROVE  /\ MeasuredIn(F) = Lines(at, stamp, out, failed, F) \ {Header}
         /\ MeasuredIn(F)' = Lines(at', stamp', out', failed', F) \ {Header}
<1>1. \A s \in Session : /\ WrittenRows(s, failed[s]) = RowsFrom(out[s], stamp[s], failed[s])
                         /\ WrittenRows(s, failed[s])' = RowsFrom(out'[s], stamp'[s], failed'[s])
  BY DEF WrittenRows, RowsFrom, BenchRows, GptRows
<1>2. MeasuredIn(F) = Lines(at, stamp, out, failed, F) \ {Header}
  BY <1>1 DEF MeasuredIn, Lines, Wrote
<1>3. MeasuredIn(F)' = Lines(at', stamp', out', failed', F) \ {Header}
  BY <1>1 DEF MeasuredIn, Lines, Wrote
<1>. QED
  BY <1>2, <1>3

\* The rows of a session are a sequence of rows that bear its stamp.
LEMMA RowsTyped ==
  ASSUME NEW f \in ResultFile, NEW time \in Int, NEW without
  PROVE  /\ IsSeq(RowsFrom(f, time, without))
         /\ \A r \in ToSet(RowsFrom(f, time, without)) :
              /\ DOMAIN r = Fields /\ r.stamp = time /\ r.ms \in Nat \cup {NoNumber}
              /\ r.key \in ToSet(KeysOf[f])
              /\ f # Gpt => r.key \in RenderedKeys
<1>1. /\ KeysOf[f] \in Seq(ToSet(KeysOf[f]))
      /\ f # Gpt => KeysOf[f] \in Seq(RenderedKeys)
      /\ \A i \in DOMAIN KeysOf[f] : MsOf[KeysOf[f][i]] \in Nat
  BY ReportsAssumption
<1>2. Len(KeysOf[f]) \in Nat /\ DOMAIN KeysOf[f] = 1 .. Len(KeysOf[f])
  BY <1>1
<1>. DEFINE n == Len(KeysOf[f])
            row(i) == [key |-> KeysOf[f][i], stamp |-> time, commit |-> time, ms |-> MsOf[KeysOf[f][i]],
                       notes |-> {}, tuning |-> FALSE]
            parts == [i \in 1 .. n |-> IF KeysOf[f][i] \in without THEN <<>> ELSE <<row(i)>>]
            other == [i \in 1 .. n |->
                       [key |-> KeysOf[f][i], stamp |-> time, commit |-> time, tuning |-> f = Tuning,
                        ms |-> IF KeysOf[f][i] \in without THEN NoNumber ELSE MsOf[KeysOf[f][i]],
                        notes |-> IF KeysOf[f][i] \notin without THEN {}
                                  ELSE IF KeysOf[f][i] \in OurKeys THEN {OomRuntime} ELSE {Refused}]]
            Typed(r) == /\ DOMAIN r = Fields /\ r.stamp = time /\ r.ms \in Nat \cup {NoNumber}
                        /\ r.key \in ToSet(KeysOf[f])
                        /\ f # Gpt => r.key \in RenderedKeys
<1>3. \A i \in 1 .. n : KeysOf[f][i] \in ToSet(KeysOf[f]) /\ (f # Gpt => KeysOf[f][i] \in RenderedKeys)
  BY <1>1, <1>2 DEF ToSet
<1>4. CASE f = Gpt
  <2>1. RowsFrom(f, time, without) = FlattenSeq(parts)
    BY <1>2, <1>4 DEF RowsFrom
  <2>2. \A i \in 1 .. n : Typed(row(i))
    BY <1>1, <1>2, <1>3 DEF Fields
  <2>. HIDE DEF row
  <2>3. parts \in Seq({parts[i] : i \in 1 .. n}) /\ DOMAIN parts = 1 .. n
    BY <1>2
  <2>4. ASSUME NEW i \in 1 .. n PROVE IsSeq(parts[i]) /\ \A r \in ToSet(parts[i]) : Typed(r)
    <3>1. CASE parts[i] = <<>>
      BY <3>1 DEF IsSeq, ToSet
    <3>2. CASE parts[i] = <<row(i)>>
      <4>1. <<row(i)>> \in Seq({row(i)})
        OBVIOUS
      <4>2. IsSeq(parts[i]) /\ ToSet(parts[i]) \subseteq {row(i)}
        BY <3>2, <4>1, SeqIs
      <4>. QED
        BY <2>2, <4>2
    <3>. QED
      BY <3>1, <3>2
  <2>5. IsSeq(parts)
    BY <2>3, SeqIs
  <2>. HIDE DEF parts, Typed
  <2>6. /\ IsSeq(FlattenSeq(parts))
        /\ ToSet(FlattenSeq(parts)) = UNION {ToSet(parts[i]) : i \in DOMAIN parts}
    BY <2>3, <2>4, <2>5, Flattened
  <2>7. \A r \in ToSet(FlattenSeq(parts)) : Typed(r)
    BY <2>3, <2>4, <2>6
  <2>. QED
    BY <2>1, <2>6, <2>7 DEF Typed
<1>5. CASE f # Gpt
  <2>1. RowsFrom(f, time, without) = other
    BY <1>2, <1>5 DEF RowsFrom
  <2>2. ASSUME NEW i \in 1 .. n PROVE Typed(other[i])
    BY <1>1, <1>2, <1>3 DEF Fields
  <2>3. other = [i \in 1 .. n |-> other[i]]
    OBVIOUS
  <2>. HIDE DEF other, Typed
  <2>4. IsSeq(other) /\ DOMAIN other = 1 .. n
    BY <1>2, <2>3, FcnIsSeq
  <2>5. \A r \in ToSet(other) : Typed(r)
    BY <2>2, <2>4 DEF ToSet
  <2>. QED
    BY <2>1, <2>4, <2>5 DEF Typed
<1>. QED
  BY <1>4, <1>5

\* Every file is a sequence of lines, and begins with its header if it has any.
CsvTyped ==
  /\ DOMAIN csv = ResultFile
  /\ \A f \in ResultFile : IsSeq(csv[f]) /\ (csv[f] # <<>> => Head(csv[f]) = Header)

\* A session has a stamp from its start, unless it died before it wrote; and
\* only in a file that has lines does it leave out the header.
SessionsTyped ==
  /\ DOMAIN at = Session /\ DOMAIN stamp = Session /\ DOMAIN out = Session
  /\ DOMAIN new = Session /\ DOMAIN failed = Session /\ DOMAIN snapshot = Session
  /\ \A s \in Session :
       /\ at[s] \in {"off", "measure", "open", "written", "rebuild", "done", "dead"}
       /\ out[s] \in ResultFile /\ stamp[s] \in Nat
       /\ at[s] \in {"measure", "open", "written", "rebuild", "done"} => stamp[s] > 0
       /\ at[s] = "open" /\ ~ new[s] => csv[out[s]] # <<>>

\* But for headers, the files hold what was measured, all of it and no more.
RowsOnDisk == \A f \in ResultFile : ToSet(csv[f]) \ {Header} = MeasuredIn({f})

CsvInv == CsvTyped /\ SessionsTyped /\ RowsOnDisk /\ clock \in Nat \ {0}

\* The steps that are not a session's leave sessions and files alone.
LEMMA OnlySessions ==
  ASSUME [RNext]_rvars
  PROVE  \/ UNCHANGED <<bound, csv, summary, clock, at, stamp, out, new, failed, snapshot, last, alone>>
         \/ \E s \in Session : \/ StartSession(s) \/ OpenFile(s) \/ CloseFile(s)
                               \/ ReadBack(s) \/ WriteSummary(s) \/ SessionDies(s)
<1>1. ASSUME NEW k \in Kernel, Profiled(k) \/ ImportFails(k) \/ ProfileFailed(k)
      PROVE  UNCHANGED <<bound, fileVars, sessions>>
  BY <1>1 DEF Profiled, ImportFails, ProfileFailed, Imported
<1>2. ASSUME StartProfile \/ ClockRefused \/ Blocked \/ ProfileEnds \/ ProfileDies \/ BenchToMd \/ NcuToMd
      PROVE  UNCHANGED <<bound, fileVars, sessions>>
  BY <1>2 DEF StartProfile, ClockRefused, Blocked, ProfileEnds, ProfileDies, BenchToMd, NcuToMd
<1>3. ASSUME Quiet \/ UNCHANGED rvars
      PROVE  UNCHANGED <<bound, fileVars, sessions>>
  BY <1>3 DEF Quiet, rvars
<1>4. UNCHANGED <<bound, fileVars, sessions>> =>
        UNCHANGED <<bound, csv, summary, clock, at, stamp, out, new, failed, snapshot, last, alone>>
  BY DEF fileVars, sessions
<1>. QED
  BY <1>1, <1>2, <1>3, <1>4 DEF RNext

\* What a session has measured stays what it was while its place, its file,
\* its stamp and its failures do.
LEMMA SameMeasured ==
  ASSUME \A s \in Session : /\ Wrote(s)' <=> Wrote(s)
                            /\ Wrote(s) => out'[s] = out[s] /\ stamp'[s] = stamp[s] /\ failed'[s] = failed[s]
  PROVE  \A F : Lines(at', stamp', out', failed', F) = Lines(at, stamp, out, failed, F)
<1>. SUFFICES ASSUME NEW F PROVE Lines(at', stamp', out', failed', F) = Lines(at, stamp, out, failed, F)
  OBVIOUS
<1>1. {ToSet(RowsFrom(out[s], stamp[s], failed[s])) : s \in {t \in Session :
          stamp[t] > 0 /\ at[t] \in {"written", "rebuild", "done", "dead"} /\ out[t] \in F}}
      = {ToSet(RowsFrom(out'[s], stamp'[s], failed'[s])) : s \in {t \in Session :
          stamp'[t] > 0 /\ at'[t] \in {"written", "rebuild", "done", "dead"} /\ out'[t] \in F}}
  BY DEF Wrote
<1>. QED
  BY <1>1 DEF Lines

\* The old rows are all that the files hold at the start.
LEMMA CsvInit ==
  ASSUME RInit PROVE CsvInv
<1>1. /\ clock = 1 /\ csv = OldRows /\ at = [s \in Session |-> "off"] /\ stamp = [s \in Session |-> 0]
      /\ out = [s \in Session |-> Tuning] /\ new = [s \in Session |-> FALSE]
      /\ failed = [s \in Session |-> {}] /\ snapshot = [s \in Session |-> Empty]
  BY DEF RInit
<1>2. CsvTyped
  BY <1>1, ReportsAssumption DEF CsvTyped, OldLines, IsSeq
<1>3. SessionsTyped
  BY <1>1 DEF SessionsTyped, ResultFile
<1>4. ASSUME NEW f \in ResultFile PROVE ToSet(csv[f]) \ {Header} = MeasuredIn({f})
  <2>1. Lines(at, stamp, out, failed, {f}) = ToSet(OldRows[f])
    BY <1>1 DEF Lines
  <2>. QED
    BY <1>1, <2>1, MeasuredAre
<1>. QED
  BY <1>1, <1>2, <1>3, <1>4 DEF CsvInv, RowsOnDisk

\* What closing a file leaves in it.
LEMMA Closed ==
  ASSUME CsvInv, NEW s \in Session, CloseFile(s)
  PROVE  /\ DOMAIN csv' = ResultFile
         /\ \A f \in ResultFile \ {out[s]} : csv'[f] = csv[f]
         /\ IsSeq(csv'[out[s]]) /\ csv'[out[s]] # <<>> /\ Head(csv'[out[s]]) = Header
         /\ ToSet(csv'[out[s]]) \ {Header}
              = (ToSet(csv[out[s]]) \cup ToSet(RowsFrom(out[s], stamp[s], failed'[s]))) \ {Header}
         /\ DOMAIN failed' = Session /\ \A t \in Session \ {s} : failed'[t] = failed[t]
         /\ Len(csv'[out[s]]) > Len(csv[out[s]])
         /\ \A j \in 1 .. Len(csv[out[s]]) : csv'[out[s]][j] = csv[out[s]][j]
         /\ \A j \in 1 .. Len(csv'[out[s]]) :
              \/ j <= Len(csv[out[s]]) /\ csv'[out[s]][j] = csv[out[s]][j]
              \/ new[s] /\ j = Len(csv[out[s]]) + 1
              \/ csv'[out[s]][j] \in ToSet(RowsFrom(out[s], stamp[s], failed'[s]))
<1>. DEFINE o == out[s]
            R == RowsFrom(o, stamp[s], failed'[s])
            h == IF new[s] THEN <<Header>> ELSE <<>>
<1>1. /\ o \in ResultFile /\ stamp[s] \in Int
      /\ IsSeq(csv[o]) /\ (csv[o] # <<>> => Head(csv[o]) = Header)
      /\ DOMAIN csv = ResultFile /\ DOMAIN failed = Session
      /\ ~ new[s] => csv[o] # <<>>
  BY DEF CsvInv, CsvTyped, SessionsTyped, CloseFile
<1>2. PICK without :
        /\ WrittenRows(s, without) # <<>>
        /\ csv' = [csv EXCEPT ![out[s]] =
                     @ \o (IF new[s] THEN <<Header>> ELSE <<>>) \o WrittenRows(s, without)]
        /\ failed' = [failed EXCEPT ![s] = without]
  BY DEF CloseFile
<1>3. failed'[s] = without /\ WrittenRows(s, without) = R
  BY <1>1, <1>2, WrittenAre
<1>. HIDE DEF R, h
<1>4. csv' = [csv EXCEPT ![o] = csv[o] \o h \o R]
  BY <1>2, <1>3 DEF h
<1>5. /\ IsSeq(R) /\ IsSeq(h) /\ ToSet(h) \subseteq {Header}
      /\ (new[s] => h # <<>> /\ Len(h) = 1 /\ h[1] = Header)
  <2>1. <<Header>> \in Seq({Header}) /\ <<>> \in Seq({Header})
    OBVIOUS
  <2>2. IsSeq(h) /\ ToSet(h) \subseteq {Header}
    BY <2>1, SeqIs DEF h
  <2>. QED
    BY <1>1, <2>2, RowsTyped DEF R, h
<1>. DEFINE c == csv[o] \o h
<1>6. IsSeq(c) /\ ToSet(c) = ToSet(csv[o]) \cup ToSet(h)
  BY <1>1, <1>5, Concatenated
<1>7. c # <<>> /\ Len(c) \in Nat \ {0} /\ c[1] = Header
  <2>1. CASE csv[o] # <<>>
    <3>1. Len(csv[o]) \in Nat \ {0} /\ Head(csv[o]) = csv[o][1]
      BY <1>1, <2>1 DEF IsSeq
    <3>2. Len(c) = Len(csv[o]) + Len(h) /\ Len(h) \in Nat /\ \A i \in 1 .. Len(csv[o]) : c[i] = csv[o][i]
      BY <1>1, <1>5, Concatenated
    <3>. QED
      BY <1>1, <1>6, <2>1, <3>1, <3>2 DEF IsSeq
  <2>2. CASE csv[o] = <<>>
    <3>1. new[s] /\ Len(csv[o]) = 0
      BY <1>1, <2>2
    <3>2. Len(c) = Len(csv[o]) + Len(h) /\ \A i \in 1 .. Len(h) : c[Len(csv[o]) + i] = h[i]
      BY <1>1, <1>5, Concatenated
    <3>3. Len(c) = 1 /\ c[1] = Header
      BY <1>5, <3>1, <3>2
    <3>. QED
      BY <3>3
  <2>. QED
    BY <2>1, <2>2
<1>. HIDE DEF c
<1>8. /\ IsSeq(c \o R) /\ ToSet(c \o R) = ToSet(c) \cup ToSet(R)
      /\ Len(R) \in Nat /\ Len(c \o R) = Len(c) + Len(R)
      /\ \A i \in 1 .. Len(c) : (c \o R)[i] = c[i]
  BY <1>5, <1>6, Concatenated
<1>9. c \o R # <<>> /\ Head(c \o R) = Header
  <2>1. Len(c \o R) # 0 /\ (c \o R)[1] = Header
    BY <1>7, <1>8
  <2>. QED
    BY <1>8, <2>1 DEF IsSeq
<1>10. csv'[o] = c \o R /\ DOMAIN csv' = ResultFile /\ \A f \in ResultFile \ {o} : csv'[f] = csv[f]
  BY <1>1, <1>4 DEF c
<1>11. ToSet(csv'[o]) \ {Header} = (ToSet(csv[o]) \cup ToSet(R)) \ {Header}
  BY <1>5, <1>6, <1>8, <1>10
<1>12. DOMAIN failed' = Session /\ \A t \in Session \ {s} : failed'[t] = failed[t]
  BY <1>1, <1>2
<1>13. Len(csv'[o]) > Len(csv[o])
  <2>1. Len(c) = Len(csv[o]) + Len(h) /\ Len(h) \in Nat /\ Len(csv[o]) \in Nat
    BY <1>1, <1>5, Concatenated DEF c
  <2>2. Len(R) > 0
    BY <1>2, <1>3, <1>5 DEF IsSeq
  <2>. QED
    BY <1>8, <1>10, <2>1, <2>2
<1>14. ASSUME NEW j \in 1 .. Len(csv'[o])
       PROVE  \/ j <= Len(csv[o]) /\ csv'[o][j] = csv[o][j]
              \/ new[s] /\ j = Len(csv[o]) + 1
              \/ csv'[o][j] \in ToSet(R)
  <2>1. /\ Len(c) = Len(csv[o]) + Len(h) /\ Len(h) \in Nat /\ Len(csv[o]) \in Nat
        /\ \A i \in 1 .. Len(csv[o]) : c[i] = csv[o][i]
    BY <1>1, <1>5, Concatenated DEF c
  <2>2. Len(h) = IF new[s] THEN 1 ELSE 0
    BY DEF h
  <2>3. CASE j <= Len(c)
    <3>1. j \in 1 .. Len(c) /\ csv'[o][j] = c[j]
      BY <1>7, <1>8, <1>10, <2>3
    <3>2. j <= Len(csv[o]) \/ (Len(h) = 1 /\ j = Len(csv[o]) + 1)
      <4>1. Len(h) \in {0, 1}
        BY <2>2
      <4>2. j \in 1 .. Len(c) /\ Len(c) = Len(csv[o]) + Len(h) /\ Len(csv[o]) \in Nat
        BY <2>1, <3>1
      <4>3. CASE Len(h) = 0
        BY ONLY <4>2, <4>3
      <4>4. CASE Len(h) = 1
        BY ONLY <4>2, <4>4
      <4>. QED
        BY <4>1, <4>3, <4>4
    <3>3. Len(h) = 1 => new[s]
      BY <2>2
    <3>. QED
      BY <2>1, <3>1, <3>2, <3>3
  <2>4. CASE j > Len(c)
    <3>1. j - Len(c) \in 1 .. Len(R) /\ Len(c) + (j - Len(c)) = j
      BY <1>7, <1>8, <1>10, <2>4
    <3>2. csv'[o][j] = R[j - Len(c)]
      BY <1>5, <1>6, <1>10, <3>1, Concatenated
    <3>. QED
      BY <1>5, <3>1, <3>2 DEF IsSeq, ToSet
  <2>. QED
    BY <1>7, <2>3, <2>4
<1>15. ASSUME NEW j \in 1 .. Len(csv[o]) PROVE csv'[o][j] = csv[o][j]
  <2>1. Len(c) = Len(csv[o]) + Len(h) /\ Len(h) \in Nat /\ Len(csv[o]) \in Nat /\ c[j] = csv[o][j]
    BY <1>1, <1>5, Concatenated DEF c
  <2>2. j \in 1 .. Len(c)
    BY <2>1
  <2>. QED
    BY <1>8, <1>10, <2>1, <2>2
<1>. QED
  BY <1>8, <1>9, <1>10, <1>11, <1>12, <1>13, <1>14, <1>15 DEF R

\* Any other step of a session leaves the files, and what was measured.
LEMMA CsvStep ==
  ASSUME CsvInv, [RNext]_rvars
  PROVE  CsvInv'
<1>. DEFINE Places == {"off", "measure", "open", "written", "rebuild", "done", "dead"}
<1>. USE DEF CsvInv
<1>1. ASSUME csv' = csv, clock' \in Nat \ {0},
             \A s \in Session : /\ Wrote(s)' <=> Wrote(s)
                                /\ Wrote(s) => out'[s] = out[s] /\ stamp'[s] = stamp[s] /\ failed'[s] = failed[s],
             SessionsTyped'
      PROVE  CsvInv'
  <2>1. ASSUME NEW f \in ResultFile PROVE MeasuredIn({f})' = MeasuredIn({f})
    <3>1. Lines(at', stamp', out', failed', {f}) = Lines(at, stamp, out, failed, {f})
      BY <1>1, SameMeasured
    <3>. QED
      BY <3>1, MeasuredAre
  <2>2. CsvTyped'
    BY <1>1 DEF CsvTyped
  <2>3. RowsOnDisk'
    BY <1>1, <2>1 DEF RowsOnDisk
  <2>. QED
    BY <1>1, <2>2, <2>3
<1>2. CASE UNCHANGED <<bound, csv, summary, clock, at, stamp, out, new, failed, snapshot, last, alone>>
  <2>1. SessionsTyped'
    BY <1>2 DEF SessionsTyped
  <2>. QED
    BY <1>1, <1>2, <2>1 DEF Wrote
<1>3. ASSUME NEW s \in Session, StartSession(s) PROVE CsvInv'
  <2>1. /\ clock' \in {clock, clock + 1} /\ stamp' = [stamp EXCEPT ![s] = clock'] /\ at[s] = "off"
        /\ \E f \in ResultFile : out' = [out EXCEPT ![s] = f]
        /\ at' = [at EXCEPT ![s] = "measure"]
        /\ csv' = csv /\ new' = new /\ failed' = failed /\ snapshot' = snapshot
    BY <1>3 DEF StartSession, fileVars
  <2>2. SessionsTyped'
    BY <2>1 DEF SessionsTyped
  <2>. QED
    BY <1>1, <2>1, <2>2 DEF Wrote, SessionsTyped
<1>4. ASSUME NEW s \in Session, OpenFile(s) PROVE CsvInv'
  <2>1. /\ at[s] = "measure" /\ new' = [new EXCEPT ![s] = (csv[out[s]] = <<>>)]
        /\ at' = [at EXCEPT ![s] = "open"] /\ clock' = clock
        /\ csv' = csv /\ stamp' = stamp /\ out' = out /\ failed' = failed /\ snapshot' = snapshot
    BY <1>4 DEF OpenFile, IsNew, fileVars
  <2>2. SessionsTyped'
    BY <2>1 DEF SessionsTyped
  <2>. QED
    BY <1>1, <2>1, <2>2 DEF Wrote, SessionsTyped
<1>5. ASSUME NEW s \in Session, ReadBack(s) PROVE CsvInv'
  <2>1. /\ at[s] = "written" /\ at' = [at EXCEPT ![s] = "rebuild"] /\ clock' = clock
        /\ csv' = csv /\ stamp' = stamp /\ out' = out /\ new' = new /\ failed' = failed
        /\ snapshot' = [snapshot EXCEPT ![s] = SummaryRows(s)]
    BY <1>5 DEF ReadBack, fileVars
  <2>2. SessionsTyped'
    BY <2>1 DEF SessionsTyped
  <2>. QED
    BY <1>1, <2>1, <2>2 DEF Wrote, SessionsTyped
<1>6. ASSUME NEW s \in Session, WriteSummary(s) PROVE CsvInv'
  <2>1. /\ at[s] = "rebuild" /\ at' = [at EXCEPT ![s] = "done"] /\ clock' = clock
        /\ csv' = csv /\ stamp' = stamp /\ out' = out /\ new' = new /\ failed' = failed
        /\ snapshot' = [snapshot EXCEPT ![s] = Empty]
    BY <1>6 DEF WriteSummary
  <2>2. SessionsTyped'
    BY <2>1 DEF SessionsTyped
  <2>. QED
    BY <1>1, <2>1, <2>2 DEF Wrote, SessionsTyped
<1>7. ASSUME NEW s \in Session, SessionDies(s) PROVE CsvInv'
  <2>. DEFINE wrote == at[s] \in {"written", "rebuild"}
  <2>1. /\ at[s] \in {"measure", "open", "written", "rebuild"}
        /\ at' = [at EXCEPT ![s] = "dead"] /\ clock' = clock
        /\ csv' = csv /\ failed' = failed /\ new' = [new EXCEPT ![s] = FALSE]
        /\ snapshot' = [snapshot EXCEPT ![s] = Empty]
        /\ stamp' = [stamp EXCEPT ![s] = IF wrote THEN stamp[s] ELSE 0]
        /\ out' = [out EXCEPT ![s] = IF wrote THEN out[s] ELSE Tuning]
    BY <1>7 DEF SessionDies, Active, SessionsTyped, fileVars
  <2>2. SessionsTyped'
    BY <2>1 DEF SessionsTyped, ResultFile
  <2>. QED
    BY <1>1, <2>1, <2>2 DEF Wrote, SessionsTyped
<1>8. ASSUME NEW s \in Session, CloseFile(s) PROVE CsvInv'
  <2>. DEFINE o == out[s]
  <2>1. /\ at[s] = "open" /\ clock' = clock /\ stamp' = stamp /\ out' = out /\ snapshot' = snapshot
        /\ new' = [new EXCEPT ![s] = FALSE]
        /\ at' = [at EXCEPT ![s] = IF o = Gpt THEN "done" ELSE "written"]
    BY <1>8 DEF CloseFile
  <2>2. /\ DOMAIN csv' = ResultFile
        /\ \A f \in ResultFile \ {o} : csv'[f] = csv[f]
        /\ IsSeq(csv'[o]) /\ csv'[o] # <<>> /\ Head(csv'[o]) = Header
        /\ ToSet(csv'[o]) \ {Header}
              = (ToSet(csv[o]) \cup ToSet(RowsFrom(o, stamp[s], failed'[s]))) \ {Header}
        /\ DOMAIN failed' = Session /\ \A t \in Session \ {s} : failed'[t] = failed[t]
    BY <1>8, Closed
  <2>3. CsvTyped'
    BY <2>2 DEF CsvTyped
  <2>4. SessionsTyped'
    BY <2>1, <2>2 DEF SessionsTyped
  <2>5. ASSUME NEW f \in ResultFile PROVE ToSet(csv'[f]) \ {Header} = MeasuredIn({f})'
    <3>. DEFINE mine == IF f = o THEN ToSet(RowsFrom(o, stamp[s], failed'[s])) ELSE {}
                old == {t \in Session : stamp[t] > 0 /\ at[t] \in {"written", "rebuild", "done", "dead"} /\ out[t] \in {f}}
                now == {t \in Session : stamp'[t] > 0 /\ at'[t] \in {"written", "rebuild", "done", "dead"} /\ out'[t] \in {f}}
    <3>1. now = IF f = o THEN old \cup {s} ELSE old
      BY <2>1 DEF SessionsTyped
    <3>2. s \notin old
      BY <2>1
    <3>3. \A t \in old : RowsFrom(out[t], stamp[t], failed[t]) = RowsFrom(out'[t], stamp'[t], failed'[t])
      BY <2>1, <2>2, <3>2
    <3>4. {ToSet(RowsFrom(out'[t], stamp'[t], failed'[t])) : t \in now}
            = {ToSet(RowsFrom(out[t], stamp[t], failed[t])) : t \in old}
                \cup (IF f = o THEN {ToSet(RowsFrom(o, stamp[s], failed'[s]))} ELSE {})
      BY <2>1, <3>1, <3>2, <3>3
    <3>5. UNION {ToSet(RowsFrom(out'[t], stamp'[t], failed'[t])) : t \in now}
            = (UNION {ToSet(RowsFrom(out[t], stamp[t], failed[t])) : t \in old}) \cup mine
      BY <3>4
    <3>6. Lines(at', stamp', out', failed', {f}) = Lines(at, stamp, out, failed, {f}) \cup mine
      BY <3>5 DEF Lines
    <3>7. MeasuredIn({f})' = MeasuredIn({f}) \cup (mine \ {Header})
      BY <3>6, MeasuredAre
    <3>8. ToSet(csv[f]) \ {Header} = MeasuredIn({f})
      BY DEF RowsOnDisk
    <3>. QED
      BY <2>2, <3>7, <3>8
  <2>. QED
    BY <2>1, <2>3, <2>4, <2>5 DEF RowsOnDisk
<1>. QED
  BY <1>2, <1>3, <1>4, <1>5, <1>6, <1>7, <1>8, OnlySessions

-------------------------------------------------------------------------------
(* What is read back.                                                       *)

\* csv.DictReader gives the lines below the header, a repeated header as junk.
LEMMA ReadRows ==
  ASSUME NEW lines, IsSeq(lines), lines # <<>> => Head(lines) = Header
  PROVE  /\ IsSeq(read_rows(lines))
         /\ Len(read_rows(lines)) = IF lines = <<>> THEN 0 ELSE Len(lines) - 1
         /\ \A i \in 1 .. Len(read_rows(lines)) :
              read_rows(lines)[i] = IF lines[i + 1] = Header THEN JunkRow ELSE lines[i + 1]
         /\ ToSet(read_rows(lines)) \subseteq (ToSet(lines) \ {Header}) \cup {JunkRow}
         /\ ToSet(lines) \ {Header} \subseteq ToSet(read_rows(lines))
<1>1. CASE lines = <<>>
  <2>1. read_rows(lines) = <<>>
    BY <1>1 DEF read_rows
  <2>2. IsSeq(<<>>) /\ ToSet(<<>>) = {} /\ Len(<<>>) = 0
    BY DEF IsSeq, ToSet
  <2>. QED
    BY <1>1, <2>1, <2>2
<1>2. CASE lines # <<>>
  <2>1. /\ Len(lines) \in Nat \ {0} /\ DOMAIN lines = 1 .. Len(lines)
        /\ Head(lines) = lines[1] /\ lines[1] = Header
    BY <1>2 DEF IsSeq
  <2>. DEFINE n == Len(lines) - 1
              f == [i \in 1 .. n |-> IF lines[i + 1] = Header THEN JunkRow ELSE lines[i + 1]]
  <2>2. read_rows(lines) = f
    BY <1>2 DEF read_rows
  <2>3. f = [i \in 1 .. n |-> f[i]]
    OBVIOUS
  <2>4. \A i \in 1 .. n : f[i] = IF lines[i + 1] = Header THEN JunkRow ELSE lines[i + 1]
    OBVIOUS
  <2>. HIDE DEF f
  <2>5. IsSeq(f) /\ DOMAIN f = 1 .. n /\ Len(f) = n
    BY <2>1, <2>3, FcnIsSeq
  <2>6. ToSet(f) \subseteq (ToSet(lines) \ {Header}) \cup {JunkRow}
    <3>1. \A i \in 1 .. n : i + 1 \in 1 .. Len(lines)
      BY <2>1
    <3>. QED
      BY <2>1, <2>4, <2>5, <3>1 DEF ToSet
  <2>7. ASSUME NEW r \in ToSet(lines) \ {Header} PROVE r \in ToSet(f)
    <3>1. PICK j \in 1 .. Len(lines) : r = lines[j]
      BY <2>1 DEF ToSet
    <3>2. j # 1 /\ j - 1 \in 1 .. n /\ (j - 1) + 1 = j
      BY <2>1, <2>7, <3>1
    <3>3. f[j - 1] = r
      BY <2>4, <2>7, <3>1, <3>2
    <3>. QED
      BY <2>5, <3>2, <3>3 DEF ToSet
  <2>. QED
    BY <1>2, <2>2, <2>4, <2>5, <2>6, <2>7
<1>. QED
  BY <1>1, <1>2

\* All the rows that load_stage_rows looks at.
StageLines == FlattenSeq([i \in DOMAIN StageFiles |-> read_rows(csv[StageFiles[i]])])
StageSet   == ToSet(StageFiles)

\* They are what was measured, and repeated headers.
LEMMA StageLinesAre ==
  ASSUME CsvInv
  PROVE  /\ IsSeq(StageLines)
         /\ Measured \subseteq ToSet(StageLines) /\ ToSet(StageLines) \subseteq Measured \cup {JunkRow}
         /\ ToSet(StageLines) # {} <=> \E f \in StageSet : Len(csv[f]) > 1
<1>. DEFINE parts == [i \in DOMAIN StageFiles |-> read_rows(csv[StageFiles[i]])]
<1>1. Len(StageFiles) \in Nat /\ DOMAIN StageFiles = 1 .. Len(StageFiles)
  BY ReportsAssumption
<1>2. StageSet = {StageFiles[i] : i \in DOMAIN StageFiles} /\ StageSet \subseteq ResultFile
  BY DEF StageSet, ToSet, ResultFile
<1>3. \A f \in StageSet : /\ IsSeq(csv[f]) /\ (csv[f] # <<>> => Head(csv[f]) = Header)
                          /\ ToSet(csv[f]) \ {Header} = MeasuredIn({f})
  BY <1>2 DEF CsvInv, CsvTyped, RowsOnDisk
<1>4. /\ parts = [i \in 1 .. Len(StageFiles) |-> parts[i]]
      /\ \A i \in DOMAIN StageFiles : parts[i] = read_rows(csv[StageFiles[i]])
  BY <1>1
<1>5. StageLines = FlattenSeq(parts)
  BY DEF StageLines
<1>. HIDE DEF parts
<1>6. IsSeq(parts) /\ DOMAIN parts = DOMAIN StageFiles
  BY <1>1, <1>4, FcnIsSeq
<1>7. ASSUME NEW i \in DOMAIN StageFiles
      PROVE  StageFiles[i] \in StageSet /\ parts[i] = read_rows(csv[StageFiles[i]]) /\ IsSeq(parts[i])
  <2>1. StageFiles[i] \in StageSet /\ parts[i] = read_rows(csv[StageFiles[i]])
    BY <1>2, <1>4
  <2>2. IsSeq(read_rows(csv[StageFiles[i]]))
    BY <1>3, <2>1, ReadRows
  <2>. QED
    BY <2>1, <2>2
<1>8. IsSeq(StageLines) /\ ToSet(StageLines) = UNION {ToSet(parts[i]) : i \in DOMAIN StageFiles}
  BY <1>5, <1>6, <1>7, Flattened
<1>9. \A r : r \in ToSet(StageLines) <=> \E f \in StageSet : r \in ToSet(read_rows(csv[f]))
  <2>. SUFFICES ASSUME NEW r
                PROVE  r \in ToSet(StageLines) <=> \E f \in StageSet : r \in ToSet(read_rows(csv[f]))
    OBVIOUS
  <2>1. r \in ToSet(StageLines) <=> \E i \in DOMAIN StageFiles : r \in ToSet(parts[i])
    BY <1>8
  <2>2. ASSUME NEW f \in StageSet PROVE \E i \in DOMAIN StageFiles : f = StageFiles[i]
    BY <1>2
  <2>. QED
    BY <1>7, <2>1, <2>2
<1>10. \A r : r \in Measured <=> \E f \in StageSet : r \in MeasuredIn({f})
  <2>. SUFFICES ASSUME NEW r
                PROVE  r \in Measured <=> \E f \in StageSet : r \in MeasuredIn({f})
    OBVIOUS
  <2>1. \A S : r \in Lines(at, stamp, out, failed, S) <=>
          \/ \E s \in Session : /\ stamp[s] > 0 /\ at[s] \in {"written", "rebuild", "done", "dead"} /\ out[s] \in S
                                /\ r \in ToSet(RowsFrom(out[s], stamp[s], failed[s]))
          \/ \E f \in S : r \in ToSet(OldRows[f])
    BY DEF Lines
  <2>2. r \in Lines(at, stamp, out, failed, StageSet)
          <=> \E f \in StageSet : r \in Lines(at, stamp, out, failed, {f})
    BY <2>1
  <2>3. \A F : MeasuredIn(F) = Lines(at, stamp, out, failed, F) \ {Header}
    BY MeasuredAre
  <2>4. r \in Measured <=> r \in Lines(at, stamp, out, failed, StageSet) /\ r # Header
    BY <2>3 DEF Measured, StageSet
  <2>. QED
    BY <2>2, <2>3, <2>4
<1>11. \A f \in StageSet : /\ MeasuredIn({f}) \subseteq ToSet(read_rows(csv[f]))
                           /\ ToSet(read_rows(csv[f])) \subseteq MeasuredIn({f}) \cup {JunkRow}
                           /\ ToSet(read_rows(csv[f])) # {} <=> Len(csv[f]) > 1
  <2>. SUFFICES ASSUME NEW f \in StageSet
                PROVE  /\ MeasuredIn({f}) \subseteq ToSet(read_rows(csv[f]))
                       /\ ToSet(read_rows(csv[f])) \subseteq MeasuredIn({f}) \cup {JunkRow}
                       /\ ToSet(read_rows(csv[f])) # {} <=> Len(csv[f]) > 1
    OBVIOUS
  <2>1. /\ IsSeq(read_rows(csv[f]))
        /\ Len(read_rows(csv[f])) = IF csv[f] = <<>> THEN 0 ELSE Len(csv[f]) - 1
        /\ ToSet(read_rows(csv[f])) \subseteq (ToSet(csv[f]) \ {Header}) \cup {JunkRow}
        /\ ToSet(csv[f]) \ {Header} \subseteq ToSet(read_rows(csv[f]))
    BY <1>3, ReadRows
  <2>2. Len(csv[f]) \in Nat /\ (csv[f] = <<>> => Len(csv[f]) = 0) /\ (csv[f] # <<>> => Len(csv[f]) > 0)
    BY <1>3 DEF IsSeq
  <2>3. ToSet(read_rows(csv[f])) # {} <=> Len(read_rows(csv[f])) > 0
    BY <2>1 DEF IsSeq, ToSet
  <2>. QED
    BY <1>3, <2>1, <2>2, <2>3
<1>12. Measured \subseteq ToSet(StageLines) /\ ToSet(StageLines) \subseteq Measured \cup {JunkRow}
  BY <1>9, <1>10, <1>11
<1>13. ToSet(StageLines) # {} <=> \E f \in StageSet : Len(csv[f]) > 1
  <2>1. ToSet(StageLines) # {} <=> \E f \in StageSet : ToSet(read_rows(csv[f])) # {}
    BY <1>9
  <2>. QED
    BY <1>11, <2>1
<1>. QED
  BY <1>8, <1>12, <1>13

\* Nothing is loaded only if no stage file has a line below its header.
LEMMA LatestEmpty ==
  ASSUME CsvInv
  PROVE  load_stage_rows(csv) # Empty <=> \E f \in StageSet : Len(csv[f]) > 1
<1>1. load_stage_rows(csv) = latest_rows(StageLines)
  BY DEF load_stage_rows, stage_csvs, StageLines
<1>2. DOMAIN latest_rows(StageLines) = {StageLines[i].key : i \in DOMAIN StageLines}
  BY DEF latest_rows
<1>3. latest_rows(StageLines) = [k \in DOMAIN latest_rows(StageLines) |-> latest_rows(StageLines)[k]]
  BY DEF latest_rows
<1>4. latest_rows(StageLines) = Empty <=> DOMAIN latest_rows(StageLines) = {}
  <2>1. Empty = [k \in {} |-> latest_rows(StageLines)[k]]
    BY DEF Empty
  <2>2. DOMAIN Empty = {}
    BY DEF Empty
  <2>. QED
    BY <1>3, <2>1, <2>2
<1>5. DOMAIN latest_rows(StageLines) = {} <=> ToSet(StageLines) = {}
  BY <1>2 DEF ToSet
<1>. QED
  BY <1>1, <1>4, <1>5, StageLinesAre

HasRows == \E f \in StageSet : Len(csv[f]) > 1

\* There is a summary, written or about to be, only of rows, which no one
\* removes; and that of a session which is the only one is what it should be.
SummaryInv ==
  /\ summary # Empty => HasRows
  /\ \A s \in Session : snapshot[s] # Empty => HasRows
  /\ last # "none" /\ alone =>
       /\ last \in Session /\ Active \subseteq {last}
       /\ at[last] = "rebuild" => snapshot[last] = load_stage_rows(csv)
       /\ at[last] = "done" /\ out[last] # Gpt => summary = load_stage_rows(csv)

\* There is no summary at the start.
LEMMA SummaryInit ==
  ASSUME RInit PROVE SummaryInv
<1>1. summary = Empty /\ snapshot = [s \in Session |-> Empty] /\ last = "none"
  BY DEF RInit
<1>. QED
  BY <1>1 DEF SummaryInv

\* Each step keeps it: WriteSummary writes what ReadBack read in this session.
LEMMA SummaryStep ==
  ASSUME CsvInv, SummaryInv, [RNext]_rvars
  PROVE  SummaryInv'
<1>. DEFINE Rebuilt == load_stage_rows(csv)
<1>1. /\ DOMAIN at = Session /\ DOMAIN stamp = Session /\ DOMAIN out = Session /\ DOMAIN snapshot = Session
      /\ \A s \in Session : at[s] \in {"off", "measure", "open", "written", "rebuild", "done", "dead"}
  BY DEF CsvInv, SessionsTyped
<1>2. Rebuilt # Empty <=> HasRows
  BY LatestEmpty DEF HasRows
<1>3. CASE UNCHANGED <<bound, csv, summary, clock, at, stamp, out, new, failed, snapshot, last, alone>>
  BY <1>3 DEF SummaryInv, HasRows, Active
<1>4. ASSUME NEW s \in Session, StartSession(s) PROVE SummaryInv'
  <2>1. /\ at[s] = "off" /\ at' = [at EXCEPT ![s] = "measure"] /\ last' = s /\ alone' = (Active = {})
        /\ csv' = csv /\ summary' = summary /\ snapshot' = snapshot
    BY <1>4 DEF StartSession, fileVars
  <2>2. Active' \subseteq Active \cup {s} /\ at'[s] = "measure"
    BY <1>1, <2>1 DEF Active
  <2>. QED
    BY <2>1, <2>2 DEF SummaryInv, HasRows
<1>5. ASSUME NEW s \in Session, OpenFile(s) PROVE SummaryInv'
  <2>1. /\ at[s] = "measure" /\ at' = [at EXCEPT ![s] = "open"] /\ last' = last /\ alone' = alone /\ out' = out
        /\ csv' = csv /\ summary' = summary /\ snapshot' = snapshot
    BY <1>5 DEF OpenFile, fileVars
  <2>2. Active' = Active
    BY <1>1, <2>1 DEF Active
  <2>. QED
    BY <1>1, <2>1, <2>2 DEF SummaryInv, HasRows
<1>6. ASSUME NEW s \in Session, CloseFile(s) PROVE SummaryInv'
  <2>1. /\ at[s] = "open" /\ at' = [at EXCEPT ![s] = IF out[s] = Gpt THEN "done" ELSE "written"]
        /\ last' = last /\ alone' = alone /\ out' = out /\ summary' = summary /\ snapshot' = snapshot
    BY <1>6 DEF CloseFile
  <2>2. Active' \subseteq Active /\ s \in Active
    BY <1>1, <2>1 DEF Active
  <2>3. HasRows => HasRows'
    <3>1. /\ \A f \in ResultFile \ {out[s]} : csv'[f] = csv[f]
          /\ Len(csv'[out[s]]) > Len(csv[out[s]])
      BY <1>6, Closed
    <3>2. \A f \in ResultFile : Len(csv[f]) \in Nat
      BY DEF CsvInv, CsvTyped, IsSeq
    <3>3. out[s] \in ResultFile /\ IsSeq(csv'[out[s]])
      BY <1>6, Closed DEF CsvInv, SessionsTyped
    <3>4. Len(csv'[out[s]]) \in Nat
      BY <3>3 DEF IsSeq
    <3>5. StageSet \subseteq ResultFile
      BY DEF StageSet, ResultFile
    <3>. QED
      BY <3>1, <3>2, <3>3, <3>4, <3>5 DEF HasRows
  <2>. QED
    BY <1>1, <2>1, <2>2, <2>3 DEF SummaryInv
<1>7. ASSUME NEW s \in Session, ReadBack(s) PROVE SummaryInv'
  <2>1. /\ at[s] = "written" /\ at' = [at EXCEPT ![s] = "rebuild"] /\ last' = last /\ alone' = alone /\ out' = out
        /\ csv' = csv /\ summary' = summary /\ snapshot' = [snapshot EXCEPT ![s] = Rebuilt]
    BY <1>7 DEF ReadBack, SummaryRows, fileVars
  <2>2. Active' = Active /\ s \in Active
    BY <1>1, <2>1 DEF Active
  <2>3. HasRows' <=> HasRows
    BY <2>1 DEF HasRows
  <2>4. \A t \in Session : snapshot'[t] = IF t = s THEN Rebuilt ELSE snapshot[t]
    BY <1>1, <2>1
  <2>. QED
    BY <1>1, <1>2, <2>1, <2>2, <2>3, <2>4 DEF SummaryInv
<1>8. ASSUME NEW s \in Session, WriteSummary(s) PROVE SummaryInv'
  <2>1. /\ at[s] = "rebuild" /\ at' = [at EXCEPT ![s] = "done"] /\ last' = last /\ alone' = alone /\ out' = out
        /\ csv' = csv /\ summary' = IF snapshot[s] = Empty THEN summary ELSE snapshot[s]
        /\ snapshot' = [snapshot EXCEPT ![s] = Empty]
    BY <1>8 DEF WriteSummary
  <2>2. Active' \subseteq Active /\ s \in Active
    BY <1>1, <2>1 DEF Active
  <2>3. HasRows' <=> HasRows
    BY <2>1 DEF HasRows
  <2>4. summary' # Empty => HasRows
    BY <2>1 DEF SummaryInv
  <2>5. ASSUME last # "none", alone PROVE summary' = Rebuilt
    <3>1. s = last /\ snapshot[s] = Rebuilt
      BY <2>1, <2>2, <2>5 DEF SummaryInv
    <3>. QED
      BY <1>2, <2>1, <3>1 DEF SummaryInv
  <2>6. \A t \in Session : snapshot'[t] = IF t = s THEN Empty ELSE snapshot[t]
    BY <1>1, <2>1
  <2>. QED
    BY <1>1, <2>1, <2>2, <2>3, <2>4, <2>5, <2>6 DEF SummaryInv
<1>9. ASSUME NEW s \in Session, SessionDies(s) PROVE SummaryInv'
  <2>1. /\ s \in Active /\ at' = [at EXCEPT ![s] = "dead"] /\ last' = last /\ alone' = alone
        /\ csv' = csv /\ summary' = summary /\ snapshot' = [snapshot EXCEPT ![s] = Empty]
        /\ \A t \in Session \ {s} : out'[t] = out[t]
    BY <1>1, <1>9 DEF SessionDies, fileVars
  <2>2. Active' \subseteq Active
    BY <1>1, <2>1 DEF Active
  <2>3. HasRows' <=> HasRows
    BY <2>1 DEF HasRows
  <2>4. \A t \in Session : snapshot'[t] = IF t = s THEN Empty ELSE snapshot[t]
    BY <1>1, <2>1
  <2>. QED
    BY <1>1, <2>1, <2>2, <2>3, <2>4 DEF SummaryInv
<1>. QED
  BY <1>3, <1>4, <1>5, <1>6, <1>7, <1>8, <1>9, OnlySessions

\* Whatever sessions open and close at once and wherever they die, the files
\* hold, below a header, exactly the rows of those that closed them.
THEOREM CsvInvariant == RSpec => []CsvInv
<1>. QED
  BY CsvInit, CsvStep, PTL DEF RSpec

\* Whatever number of sessions, files and rows, and whichever sessions died or
\* overlapped before: a session that ends alone leaves a summary.csv that says
\* what the stage files do.
THEOREM SummariesCurrent == RSpec => []SummaryCurrent
<1>1. RSpec => []SummaryInv
  BY SummaryInit, SummaryStep, CsvInvariant, PTL DEF RSpec
<1>2. SummaryInv => SummaryCurrent
  BY DEF SummaryInv, SummaryCurrent
<1>. QED
  BY <1>1, <1>2, PTL

-------------------------------------------------------------------------------
(* The newest rows.                                                        *)

\* A set of numbers up to n has a greatest one.
LEMMA Greatest ==
  ASSUME NEW n \in Nat, NEW S \in SUBSET (1 .. n), S # {}
  PROVE  \E m \in S : \A j \in S : j <= m
<1>. DEFINE T == {n - j : j \in S}
<1>1. \A j \in S : j \in Nat /\ n - j \in Nat
  OBVIOUS
<1>2. T \in SUBSET Nat /\ T # {}
  BY <1>1
<1>3. PICK d \in T : \A e \in T : d <= e
  BY <1>2, LeastNumber
<1>4. PICK m \in S : d = n - m
  OBVIOUS
<1>5. ASSUME NEW j \in S PROVE j <= m
  <2>1. n - m <= n - j
    BY <1>3, <1>4
  <2>2. n \in Nat /\ m \in Nat /\ j \in Nat
    BY <1>1
  <2>. QED
    BY ONLY <2>1, <2>2
<1>. QED
  BY <1>5

\* Of the places of a sequence that have numbers there is one that is greatest,
\* the last of those.
LEMMA LatestExists ==
  ASSUME NEW v, NEW n \in Nat, NEW S \in SUBSET (1 .. n), S # {}, \A i \in S : v[i] \in Int
  PROVE  \E i \in S : \A j \in S : v[j] < v[i] \/ (v[j] = v[i] /\ i >= j)
<1>. DEFINE Wins(T, i) == \A j \in T : v[j] < v[i] \/ (v[j] = v[i] /\ i >= j)
            Bad == {m \in Nat : \E T \in SUBSET (1 .. m) :
                      T # {} /\ (\A i \in T : v[i] \in Int) /\ ~ \E i \in T : Wins(T, i)}
<1>. SUFFICES Bad = {}
  OBVIOUS
<1>. SUFFICES ASSUME Bad # {} PROVE FALSE
  OBVIOUS
<1>1. PICK m \in Bad : \A k \in Bad : m <= k
  BY LeastNumber
<1>2. m \in Nat
  OBVIOUS
<1>3. PICK T \in SUBSET (1 .. m) : T # {} /\ (\A i \in T : v[i] \in Int) /\ ~ \E i \in T : Wins(T, i)
  OBVIOUS
<1>. HIDE DEF Bad, Wins
<1>4. m # 0
  <2>1. PICK x : x \in T
    BY <1>3
  <2>2. x \in 1 .. m
    BY <1>3, <2>1
  <2>. QED
    BY <1>2, <2>2
<1>5. m - 1 \in Nat /\ m - 1 \notin Bad
  BY <1>1, <1>2, <1>4
<1>. DEFINE U == T \ {m}
<1>6. U \in SUBSET (1 .. m - 1) /\ \A i \in U : v[i] \in Int
  BY <1>2, <1>3
<1>7. CASE U = {}
  <2>1. T = {m} /\ v[m] \in Int
    BY <1>3, <1>7
  <2>. QED
    BY <1>2, <1>3, <2>1 DEF Wins
<1>8. CASE U # {}
  <2>1. PICK i \in U : Wins(U, i)
    BY <1>5, <1>6, <1>8 DEF Bad
  <2>2. i \in T /\ v[i] \in Int /\ i < m
    BY <1>2, <1>3, <1>6
  <2>3. CASE m \notin T
    <3>1. U = T
      BY <2>3
    <3>. QED
      BY <1>3, <2>1, <3>1
  <2>4. CASE m \in T /\ v[m] < v[i]
    <3>1. Wins(T, i)
      BY <2>1, <2>4 DEF Wins
    <3>. QED
      BY <1>3, <2>2, <3>1
  <2>5. CASE m \in T /\ ~ (v[m] < v[i])
    <3>1. v[m] \in Int /\ v[i] <= v[m]
      BY <1>3, <2>2, <2>5
    <3>2. ASSUME NEW j \in U PROVE v[j] < v[m] \/ (v[j] = v[m] /\ m >= j)
      <4>1. v[j] \in Int /\ j \in 1 .. m - 1 /\ v[j] <= v[i]
        BY <1>6, <2>1, <2>2 DEF Wins
      <4>. QED
        BY <1>2, <2>2, <3>1, <4>1
    <3>3. Wins(T, m)
      BY <1>2, <3>1, <3>2 DEF Wins
    <3>. QED
      BY <1>3, <2>5, <3>3
  <2>. QED
    BY <2>3, <2>4, <2>5
<1>. QED
  BY <1>7, <1>8

\* latest_rows has, of each key there is, a row that none is newer than.
LEMMA LatestRows ==
  ASSUME NEW rows_, IsSeq(rows_), \A r \in ToSet(rows_) : r.stamp \in Int
  PROVE  /\ DOMAIN latest_rows(rows_) = {r.key : r \in ToSet(rows_)}
         /\ \A k \in DOMAIN latest_rows(rows_) :
              /\ latest_rows(rows_)[k] \in ToSet(rows_) /\ latest_rows(rows_)[k].key = k
              /\ \A r \in ToSet(rows_) : r.key = k => r.stamp <= latest_rows(rows_)[k].stamp
<1>. DEFINE n == Len(rows_)
            of(k) == {i \in DOMAIN rows_ : rows_[i].key = k}
            NoneNewer(k, i) == \A j \in of(k) : Newer(rows_[i], i, rows_[j], j)
<1>1. n \in Nat /\ DOMAIN rows_ = 1 .. n /\ ToSet(rows_) = {rows_[i] : i \in 1 .. n}
  BY DEF IsSeq, ToSet
<1>2. DOMAIN latest_rows(rows_) = {rows_[i].key : i \in DOMAIN rows_}
  BY DEF latest_rows
<1>3. DOMAIN latest_rows(rows_) = {r.key : r \in ToSet(rows_)}
  BY <1>1, <1>2
<1>4. ASSUME NEW k \in DOMAIN latest_rows(rows_)
      PROVE  /\ latest_rows(rows_)[k] \in ToSet(rows_) /\ latest_rows(rows_)[k].key = k
             /\ \A r \in ToSet(rows_) : r.key = k => r.stamp <= latest_rows(rows_)[k].stamp
  <2>. DEFINE i0 == CHOOSE i \in of(k) : NoneNewer(k, i)
              v == [i \in 1 .. n |-> rows_[i].stamp]
  <2>1. latest_rows(rows_)[k] = rows_[i0]
    BY <1>2 DEF latest_rows
  <2>2. of(k) \in SUBSET (1 .. n) /\ of(k) # {}
    BY <1>1, <1>2
  <2>3. \A i \in 1 .. n : v[i] = rows_[i].stamp /\ v[i] \in Int
    BY <1>1
  <2>. HIDE DEF v
  <2>4. \A i \in of(k) : v[i] \in Int
    BY <2>2, <2>3
  <2>. HIDE DEF of
  <2>5. PICK i \in of(k) : \A j \in of(k) : v[j] < v[i] \/ (v[j] = v[i] /\ i >= j)
    BY <1>1, <2>2, <2>4, LatestExists
  <2>6. NoneNewer(k, i)
    BY <2>2, <2>3, <2>5 DEF Newer
  <2>7. i0 \in of(k) /\ NoneNewer(k, i0)
    BY <2>6
  <2>. HIDE DEF i0
  <2>8. i0 \in 1 .. n /\ rows_[i0].key = k
    BY <1>1, <2>7 DEF of
  <2>9. ASSUME NEW r \in ToSet(rows_), r.key = k PROVE r.stamp <= rows_[i0].stamp
    <3>1. PICK j \in 1 .. n : r = rows_[j]
      BY <1>1
    <3>2. j \in of(k)
      BY <1>1, <2>9, <3>1 DEF of
    <3>. QED
      BY <2>3, <2>7, <2>8, <3>1, <3>2 DEF Newer
  <2>. QED
    BY <1>1, <2>1, <2>8, <2>9
<1>. QED
  BY <1>3, <1>4

\* A measurement is of a rendered key and has its time or none.
LEMMA MeasuredTyped ==
  ASSUME CsvInv, NEW F \in SUBSET ResultFile, NEW r \in MeasuredIn(F)
  PROVE  /\ r # Header /\ r.stamp \in Int /\ r.ms \in Nat \cup {NoNumber}
         /\ Gpt \notin F => r.key \in RenderedKeys
<1>1. r \in Lines(at, stamp, out, failed, F) /\ r # Header
  BY MeasuredAre
<1>2. CASE \E s \in Session : out[s] \in F /\ r \in ToSet(RowsFrom(out[s], stamp[s], failed[s]))
  <2>1. PICK s \in Session : out[s] \in F /\ r \in ToSet(RowsFrom(out[s], stamp[s], failed[s]))
    BY <1>2
  <2>2. out[s] \in ResultFile /\ stamp[s] \in Int
    BY DEF CsvInv, SessionsTyped
  <2>. QED
    BY <1>1, <2>1, <2>2, RowsTyped
<1>3. CASE \E f \in F : r \in ToSet(OldRows[f])
  <2>1. PICK f \in F : r \in ToSet(OldRows[f])
    BY <1>3
  <2>2. OldLines(f, OldRows[f])
    BY ReportsAssumption
  <2>3. OldRow(f, r)
    BY <2>1, <2>2 DEF OldLines, ToSet
  <2>. QED
    BY <1>1, <2>1, <2>3 DEF OldRow
<1>4. \/ \E s \in Session : out[s] \in F /\ r \in ToSet(RowsFrom(out[s], stamp[s], failed[s]))
      \/ \E f \in F : r \in ToSet(OldRows[f])
  BY <1>1 DEF Lines
<1>. QED
  BY <1>2, <1>3, <1>4

\* The table that bench_to_md.py renders.
StageTable == Restrict(load_stage_rows(csv), DOMAIN load_stage_rows(csv) \cap RenderedKeys)

\* It has of each measured key a newest row.
LEMMA StageTableNewest ==
  ASSUME CsvInv
  PROVE  /\ DOMAIN StageTable = {r.key : r \in Measured}
         /\ \A k \in DOMAIN StageTable : StageTable[k] \in Newest /\ StageTable[k].key = k
<1>1. load_stage_rows(csv) = latest_rows(StageLines)
  BY DEF load_stage_rows, stage_csvs, StageLines
<1>2. /\ IsSeq(StageLines) /\ Measured \subseteq ToSet(StageLines)
      /\ ToSet(StageLines) \subseteq Measured \cup {JunkRow}
  BY StageLinesAre
<1>3. \A r \in Measured : r.stamp \in Int /\ r.key \in RenderedKeys
  <2>1. ToSet(StageFiles) \in SUBSET ResultFile /\ Gpt \notin ToSet(StageFiles)
    BY ReportsAssumption DEF ResultFile
  <2>. QED
    BY <2>1, MeasuredTyped DEF Measured
<1>4. JunkRow.stamp = 0 /\ JunkRow.key = Junk /\ Junk \notin RenderedKeys
  BY ReportsAssumption DEF JunkRow
<1>5. \A r \in ToSet(StageLines) : r.stamp \in Int
  BY <1>2, <1>3, <1>4
<1>. DEFINE L == latest_rows(StageLines)
<1>6. /\ DOMAIN L = {r.key : r \in ToSet(StageLines)}
      /\ \A k \in DOMAIN L : /\ L[k] \in ToSet(StageLines) /\ L[k].key = k
                             /\ \A r \in ToSet(StageLines) : r.key = k => r.stamp <= L[k].stamp
  BY <1>2, <1>5, LatestRows
<1>. HIDE DEF L
<1>7. DOMAIN StageTable = DOMAIN L \cap RenderedKeys /\ \A k \in DOMAIN StageTable : StageTable[k] = L[k]
  BY <1>1 DEF StageTable, Restrict, L
<1>8. DOMAIN StageTable = {r.key : r \in Measured}
  BY <1>2, <1>3, <1>4, <1>6, <1>7
<1>9. ASSUME NEW k \in DOMAIN StageTable
      PROVE  StageTable[k] \in Newest /\ StageTable[k].key = k
  <2>1. StageTable[k] \in Measured /\ StageTable[k].key = k
    BY <1>2, <1>4, <1>6, <1>7
  <2>2. \A q \in Measured : q.key = k => q.stamp <= StageTable[k].stamp
    BY <1>2, <1>6, <1>7
  <2>. QED
    BY <2>1, <2>2 DEF Newest, NewestOf
<1>. QED
  BY <1>8, <1>9

-------------------------------------------------------------------------------
(* The file of gpt_block.py, which is read in its order.                    *)

\* If sessions do not overlap the one that is active is of this second, it
\* heads an empty file only, and so the rows below the one header are in the
\* order of their stamps.
GptInOrder ==
  /\ bound \in Bounds
  /\ bound.atOnce = 1 =>
     /\ \A s, t \in Active : s = t
     /\ \A s \in Active : stamp[s] = clock /\ (at[s] = "open" /\ new[s] => csv[out[s]] = <<>>)
     /\ \A j \in 2 .. Len(csv[Gpt]) :
          /\ csv[Gpt][j] # Header /\ csv[Gpt][j].stamp \in Int /\ csv[Gpt][j].stamp <= clock
          /\ \A i \in 2 .. j : csv[Gpt][i].stamp <= csv[Gpt][j].stamp

\* The old rows of gpt_block.py are in order.
LEMMA GptInit ==
  ASSUME RInit PROVE GptInOrder
<1>1. bound \in Bounds /\ clock = 1 /\ csv = OldRows /\ at = [s \in Session |-> "off"]
  BY DEF RInit
<1>2. Active = {}
  BY <1>1 DEF Active
<1>3. OldLines(Gpt, OldRows[Gpt])
  BY ReportsAssumption DEF ResultFile
<1>4. Len(csv[Gpt]) \in Nat /\ DOMAIN csv[Gpt] = 1 .. Len(csv[Gpt])
  BY <1>1, <1>3 DEF OldLines
<1>5. ASSUME NEW j \in 2 .. Len(csv[Gpt])
      PROVE  /\ csv[Gpt][j] # Header /\ csv[Gpt][j].stamp \in Int /\ csv[Gpt][j].stamp <= clock
             /\ \A i \in 2 .. j : csv[Gpt][i].stamp <= csv[Gpt][j].stamp
  <2>1. j \in DOMAIN OldRows[Gpt] /\ j > 1
    BY <1>1, <1>4
  <2>2. OldRow(Gpt, OldRows[Gpt][j]) /\ OldRows[Gpt][j] # Header
    BY <1>3, <2>1 DEF OldLines
  <2>. QED
    BY <1>1, <1>3, <2>1, <2>2 DEF OldLines, OldRow
<1>. QED
  BY <1>1, <1>2, <1>5 DEF GptInOrder

\* No step disturbs the order: only the one active session writes, at the end.
LEMMA GptStep ==
  ASSUME MarksAreNoRecords, CsvInv, GptInOrder, [RNext]_rvars
  PROVE  GptInOrder'
<1>1. /\ DOMAIN at = Session /\ DOMAIN stamp = Session /\ DOMAIN out = Session /\ DOMAIN new = Session
      /\ \A s \in Session : /\ at[s] \in {"off", "measure", "open", "written", "rebuild", "done", "dead"}
                            /\ stamp[s] \in Nat /\ out[s] \in ResultFile
                            /\ at[s] = "open" /\ ~ new[s] => csv[out[s]] # <<>>
      /\ clock \in Nat
  BY DEF CsvInv, SessionsTyped
<1>2. bound' = bound
  BY OnlySessions DEF StartSession, OpenFile, CloseFile, ReadBack, WriteSummary, SessionDies
<1>. SUFFICES ASSUME bound.atOnce = 1
     PROVE  /\ \A s, t \in Active' : s = t
            /\ \A s \in Active' : stamp'[s] = clock' /\ (at'[s] = "open" /\ new'[s] => csv'[out'[s]] = <<>>)
            /\ \A j \in 2 .. Len(csv'[Gpt]) :
                 /\ csv'[Gpt][j] # Header /\ csv'[Gpt][j].stamp \in Int /\ csv'[Gpt][j].stamp <= clock'
                 /\ \A i \in 2 .. j : csv'[Gpt][i].stamp <= csv'[Gpt][j].stamp
  BY <1>2 DEF GptInOrder
<1>3. /\ \A s, t \in Active : s = t
      /\ \A s \in Active : stamp[s] = clock /\ (at[s] = "open" /\ new[s] => csv[out[s]] = <<>>)
      /\ \A j \in 2 .. Len(csv[Gpt]) :
           /\ csv[Gpt][j] # Header /\ csv[Gpt][j].stamp \in Int /\ csv[Gpt][j].stamp <= clock
           /\ \A i \in 2 .. j : csv[Gpt][i].stamp <= csv[Gpt][j].stamp
  BY DEF GptInOrder
<1>4. CASE UNCHANGED <<bound, csv, summary, clock, at, stamp, out, new, failed, snapshot, last, alone>>
  <2>1. Active' = Active
    BY <1>4 DEF Active
  <2>. QED
    BY <1>3, <1>4, <2>1
<1>5. ASSUME NEW s \in Session, StartSession(s)
      PROVE  GptInOrder'
  <2>1. /\ at[s] = "off" /\ at' = [at EXCEPT ![s] = "measure"] /\ csv' = csv
        /\ clock' \in {clock, clock + 1} /\ stamp' = [stamp EXCEPT ![s] = clock']
        /\ Cardinality(Active) < 1
    BY <1>5 DEF StartSession, fileVars
  <2>2. IsFiniteSet(Active)
    BY ReportsAssumption, FS_Subset DEF Active
  <2>3. Active = {}
    BY <2>1, <2>2, FS_EmptySet, FS_CardinalityType
  <2>4. Active' = {s} /\ at'[s] = "measure" /\ stamp'[s] = clock'
    BY <1>1, <2>1, <2>3 DEF Active
  <2>5. \A j \in 2 .. Len(csv[Gpt]) : csv[Gpt][j].stamp <= clock'
    BY <1>1, <1>3, <2>1
  <2>. QED
    BY <1>2, <1>3, <2>1, <2>4, <2>5 DEF GptInOrder
<1>6. ASSUME NEW s \in Session, OpenFile(s)
      PROVE  GptInOrder'
  <2>1. /\ at[s] = "measure" /\ new' = [new EXCEPT ![s] = (csv[out[s]] = <<>>)]
        /\ at' = [at EXCEPT ![s] = "open"] /\ clock' = clock
        /\ csv' = csv /\ stamp' = stamp /\ out' = out
    BY <1>6 DEF OpenFile, IsNew, fileVars
  <2>2. Active' = Active /\ s \in Active
    BY <1>1, <2>1 DEF Active
  <2>3. new'[s] = (csv[out[s]] = <<>>) /\ Active \subseteq {s}
    BY <1>1, <1>3, <2>1, <2>2
  <2>. QED
    BY <1>2, <1>3, <2>1, <2>2, <2>3 DEF GptInOrder
<1>7. ASSUME NEW s \in Session, CloseFile(s)
      PROVE  GptInOrder'
  <2>. DEFINE o == out[s]
  <2>1. /\ at[s] = "open" /\ at' = [at EXCEPT ![s] = IF out[s] = Gpt THEN "done" ELSE "written"]
        /\ clock' = clock /\ stamp' = stamp /\ out' = out
    BY <1>7 DEF CloseFile
  <2>2. s \in Active /\ Active \subseteq {s} /\ stamp[s] = clock
    BY <1>1, <1>3, <2>1 DEF Active
  <2>3. Active' \subseteq {s} /\ at'[s] # "open"
    BY <1>1, <2>1, <2>2 DEF Active
  <2>4. /\ \A f \in ResultFile \ {o} : csv'[f] = csv[f]
        /\ IsSeq(csv'[o])
        /\ \A j \in 1 .. Len(csv[o]) : csv'[o][j] = csv[o][j]
        /\ \A j \in 1 .. Len(csv'[o]) :
              \/ j <= Len(csv[o]) /\ csv'[o][j] = csv[o][j]
              \/ new[s] /\ j = Len(csv[o]) + 1
              \/ csv'[o][j] \in ToSet(RowsFrom(o, stamp[s], failed'[s]))
    BY <1>7, Closed
  <2>5. Gpt \in ResultFile
    BY DEF ResultFile
  <2>6. CASE o # Gpt
    BY <1>2, <1>3, <2>1, <2>2, <2>3, <2>4, <2>5, <2>6 DEF GptInOrder
  <2>7. CASE o = Gpt
    <3>1. Len(csv[Gpt]) \in Nat /\ Len(csv'[Gpt]) \in Nat
      BY <2>4, <2>5, <2>7 DEF CsvInv, CsvTyped, IsSeq
    <3>2. new[s] => Len(csv[Gpt]) = 0
      BY <1>3, <2>1, <2>2, <2>7
    <3>3. PICK without : without = failed'[s]
      OBVIOUS
    <3>4. \A r \in ToSet(RowsFrom(Gpt, clock, without)) : r # Header /\ r.stamp = clock
      BY <1>1, <2>5, RowsTyped DEF MarksAreNoRecords, Fields
    <3>5. ASSUME NEW j \in 2 .. Len(csv'[Gpt])
          PROVE  \/ j \in 2 .. Len(csv[Gpt]) /\ csv'[Gpt][j] = csv[Gpt][j]
                 \/ j > Len(csv[Gpt]) /\ csv'[Gpt][j] # Header /\ csv'[Gpt][j].stamp = clock
      <4>1. j \in 1 .. Len(csv'[Gpt]) /\ j \in Nat /\ j > 1
        BY <3>1
      <4>2. CASE j <= Len(csv[Gpt]) /\ csv'[Gpt][j] = csv[Gpt][j]
        BY <3>1, <4>1, <4>2
      <4>3. CASE new[s] /\ j = Len(csv[Gpt]) + 1
        BY <3>1, <3>2, <4>1, <4>3
      <4>4. CASE csv'[Gpt][j] \in ToSet(RowsFrom(o, stamp[s], failed'[s]))
        <5>1. csv'[Gpt][j] # Header /\ csv'[Gpt][j].stamp = clock
          BY <2>2, <2>7, <3>3, <3>4, <4>4
        <5>2. j <= Len(csv[Gpt]) => j \in 2 .. Len(csv[Gpt]) /\ csv'[Gpt][j] = csv[Gpt][j]
          BY <2>4, <2>7, <3>1, <4>1
        <5>. QED
          BY <3>1, <4>1, <5>1, <5>2
      <4>. QED
        BY <2>4, <2>7, <4>1, <4>2, <4>3, <4>4
    <3>6. ASSUME NEW j \in 2 .. Len(csv'[Gpt])
          PROVE  /\ csv'[Gpt][j] # Header /\ csv'[Gpt][j].stamp \in Int /\ csv'[Gpt][j].stamp <= clock
                 /\ \A i \in 2 .. j : csv'[Gpt][i].stamp <= csv'[Gpt][j].stamp
      <4>1. csv'[Gpt][j] # Header /\ csv'[Gpt][j].stamp \in Int /\ csv'[Gpt][j].stamp <= clock
        BY <1>1, <1>3, <3>5
      <4>2. ASSUME NEW i \in 2 .. j PROVE csv'[Gpt][i].stamp <= csv'[Gpt][j].stamp
        <5>1. i \in 2 .. Len(csv'[Gpt]) /\ i <= j
          BY <3>1
        <5>2. CASE j > Len(csv[Gpt]) /\ csv'[Gpt][j].stamp = clock
          BY <1>1, <1>3, <3>5, <5>1, <5>2
        <5>3. CASE j \in 2 .. Len(csv[Gpt]) /\ csv'[Gpt][j] = csv[Gpt][j]
          <6>1. i \in 2 .. Len(csv[Gpt]) /\ csv'[Gpt][i] = csv[Gpt][i]
            BY <3>1, <3>5, <5>1, <5>3
          <6>. QED
            BY <1>3, <5>3, <6>1
        <5>. QED
          BY <3>5, <5>2, <5>3
      <4>. QED
        BY <4>1, <4>2
    <3>. QED
      BY <1>2, <2>1, <2>2, <2>3, <3>6 DEF GptInOrder
  <2>. QED
    BY <2>6, <2>7
<1>8. ASSUME NEW s \in Session, ReadBack(s) \/ WriteSummary(s)
      PROVE  GptInOrder'
  <2>1. /\ s \in Active /\ csv' = csv /\ clock' = clock /\ stamp' = stamp /\ out' = out
        /\ at' = [at EXCEPT ![s] = "rebuild"] \/ at' = [at EXCEPT ![s] = "done"]
    BY <1>8 DEF ReadBack, WriteSummary, fileVars, Active
  <2>2. Active' \subseteq Active /\ Active \subseteq {s} /\ at'[s] # "open"
    BY <1>1, <1>3, <2>1 DEF Active
  <2>. QED
    BY <1>2, <1>3, <2>1, <2>2 DEF GptInOrder
<1>9. ASSUME NEW s \in Session, SessionDies(s)
      PROVE  GptInOrder'
  <2>1. s \in Active /\ csv' = csv /\ clock' = clock /\ at' = [at EXCEPT ![s] = "dead"]
    BY <1>9 DEF SessionDies, fileVars
  <2>2. Active' = {}
    BY <1>1, <1>3, <2>1 DEF Active
  <2>. QED
    BY <1>2, <1>3, <2>1, <2>2 DEF GptInOrder
<1>. QED
  BY <1>2, <1>4, <1>5, <1>6, <1>7, <1>8, <1>9, OnlySessions DEF GptInOrder

\* The table of gpt_block.py has the newest rows if the file is in order.
LEMMA GptNewest ==
  ASSUME CsvInv, GptInOrder, bound.atOnce = 1
  PROVE  /\ {render_gpt(csv)[k].key : k \in DOMAIN render_gpt(csv)} = {r.key : r \in MeasuredIn({Gpt})}
         /\ {render_gpt(csv)[k] : k \in DOMAIN render_gpt(csv)} \subseteq NewestOf(MeasuredIn({Gpt}))
<1>. DEFINE lines == csv[Gpt]
            list == read_rows(lines)
            n == Len(list)
            M == MeasuredIn({Gpt})
            I(k) == {i \in 1 .. n : list[i].key = k}
            T == render_gpt(csv)
<1>1. /\ IsSeq(lines) /\ (lines # <<>> => Head(lines) = Header) /\ ToSet(lines) \ {Header} = M
  BY DEF CsvInv, CsvTyped, RowsOnDisk, ResultFile
<1>2. /\ IsSeq(list) /\ n = IF lines = <<>> THEN 0 ELSE Len(lines) - 1
      /\ \A i \in 1 .. n : list[i] = IF lines[i + 1] = Header THEN JunkRow ELSE lines[i + 1]
      /\ M \subseteq ToSet(list)
  BY <1>1, ReadRows
<1>3. n \in Nat /\ DOMAIN list = 1 .. n /\ Len(lines) \in Nat /\ DOMAIN lines = 1 .. Len(lines)
      /\ (lines = <<>> => Len(lines) = 0)
  BY <1>1, <1>2 DEF IsSeq
<1>4. ASSUME NEW i \in 1 .. n PROVE i + 1 \in 2 .. Len(lines) /\ list[i] = lines[i + 1] /\ list[i] \in M
  <2>1. i + 1 \in 2 .. Len(lines)
    BY <1>2, <1>3
  <2>2. lines[i + 1] # Header
    BY <2>1 DEF GptInOrder
  <2>3. lines[i + 1] \in ToSet(lines)
    BY <1>3, <2>1 DEF ToSet
  <2>. QED
    BY <1>1, <1>2, <2>1, <2>2, <2>3
<1>5. ASSUME NEW i \in 1 .. n, NEW j \in 1 .. n, j <= i PROVE list[j].stamp <= list[i].stamp
  <2>1. j + 1 \in 2 .. i + 1
    BY <1>5
  <2>2. i + 1 \in 2 .. Len(lines) /\ list[i] = lines[i + 1] /\ list[j] = lines[j + 1]
    BY <1>4
  <2>. QED
    BY <2>1, <2>2 DEF GptInOrder
<1>6. T = [k \in {list[i].key : i \in DOMAIN list} |-> list[SelectLastInSeq(list, LAMBDA r : r.key = k)]]
  BY DEF render_gpt
<1>. HIDE DEF list, n, T, M
<1>7. DOMAIN T = {list[i].key : i \in 1 .. n}
  BY <1>3, <1>6
<1>8. ASSUME NEW k \in DOMAIN T
      PROVE  \E m \in 1 .. n : /\ T[k] = list[m] /\ list[m].key = k
                               /\ \A j \in 1 .. n : list[j].key = k => j <= m
  <2>1. I(k) \in SUBSET (1 .. n) /\ I(k) # {}
    BY <1>7
  <2>2. PICK x \in I(k) : \A y \in I(k) : y <= x
    BY <1>3, <2>1, Greatest
  <2>3. SelectLastInSeq(list, LAMBDA r : r.key = k) = Max(I(k))
    BY <2>1 DEF SelectLastInSeq, n
  <2>4. Max(I(k)) \in I(k) /\ \A y \in I(k) : y <= Max(I(k))
    BY <2>2 DEF Max
  <2>. QED
    BY <1>6, <1>7, <1>3, <2>3, <2>4
<1>9. \A k \in DOMAIN T : T[k].key = k /\ T[k] \in M
  BY <1>4, <1>8
<1>10. {T[k].key : k \in DOMAIN T} = {r.key : r \in M}
  <2>1. {T[k].key : k \in DOMAIN T} = DOMAIN T
    BY <1>9
  <2>2. ASSUME NEW r \in M PROVE r.key \in DOMAIN T
    <3>1. PICK i \in 1 .. n : r = list[i]
      BY <1>2, <1>3 DEF ToSet
    <3>. QED
      BY <1>7, <3>1
  <2>3. ASSUME NEW k \in DOMAIN T PROVE k \in {r.key : r \in M}
    BY <1>9
  <2>. QED
    BY <2>1, <2>2, <2>3
<1>11. ASSUME NEW k \in DOMAIN T PROVE T[k] \in NewestOf(M)
  <2>1. PICK m \in 1 .. n : /\ T[k] = list[m] /\ list[m].key = k
                            /\ \A j \in 1 .. n : list[j].key = k => j <= m
    BY <1>8
  <2>2. ASSUME NEW q \in M, T[k].key = q.key PROVE q.stamp <= T[k].stamp
    <3>1. PICK j \in 1 .. n : q = list[j]
      BY <1>2, <1>3 DEF ToSet
    <3>. QED
      BY <1>5, <2>1, <2>2, <3>1
  <2>. QED
    BY <1>9, <2>2 DEF NewestOf
<1>. QED
  BY <1>10, <1>11 DEF T, M

-------------------------------------------------------------------------------
(* What the README shows when bench_to_md.py accepts it.                   *)

\* The rows of the table are those of its keys, each of which is in IMPL_ORDER.
LEMMA ImplsAre ==
  ASSUME NEW t, DOMAIN t \subseteq RenderedKeys
  PROVE  IsSeq(Impls(t)) /\ ToSet(Impls(t)) = DOMAIN t
<1>. DEFINE n == Len(IMPL_ORDER)
            parts == [i \in 1 .. n |-> IF IMPL_ORDER[i] \in DOMAIN t THEN <<IMPL_ORDER[i]>> ELSE <<>>]
<1>1. IsSeq(OUR_IMPLS) /\ IsSeq(BASELINE_IMPLS)
  BY ReportsAssumption DEF IsSeq, OurKeys
<1>2. IsSeq(IMPL_ORDER) /\ n \in Nat /\ DOMAIN IMPL_ORDER = 1 .. n
  <2>1. IsSeq(IMPL_ORDER)
    BY <1>1, Concatenated DEF IMPL_ORDER
  <2>. QED
    BY <2>1 DEF IsSeq
<1>3. Impls(t) = FlattenSeq(parts)
  BY <1>2 DEF Impls
<1>4. parts = [i \in 1 .. n |-> parts[i]]
  OBVIOUS
<1>5. ASSUME NEW i \in 1 .. n
      PROVE  IsSeq(parts[i]) /\ ToSet(parts[i]) = {IMPL_ORDER[i]} \cap DOMAIN t
  <2>1. CASE IMPL_ORDER[i] \in DOMAIN t
    <3>1. parts[i] = <<IMPL_ORDER[i]>>
      BY <2>1
    <3>2. <<IMPL_ORDER[i]>> \in Seq({IMPL_ORDER[i]})
      OBVIOUS
    <3>3. ToSet(<<IMPL_ORDER[i]>>) = {IMPL_ORDER[i]}
      BY DEF ToSet
    <3>. QED
      BY <2>1, <3>1, <3>2, <3>3, SeqIs
  <2>2. CASE IMPL_ORDER[i] \notin DOMAIN t
    <3>1. parts[i] = <<>>
      BY <2>2
    <3>2. IsSeq(<<>>) /\ ToSet(<<>>) = {}
      BY DEF IsSeq, ToSet
    <3>. QED
      BY <2>2, <3>1, <3>2
  <2>. QED
    BY <2>1, <2>2
<1>. HIDE DEF parts
<1>6. IsSeq(parts) /\ DOMAIN parts = 1 .. n
  BY <1>2, <1>4, FcnIsSeq
<1>7. IsSeq(Impls(t)) /\ ToSet(Impls(t)) = UNION {ToSet(parts[i]) : i \in 1 .. n}
  BY <1>3, <1>5, <1>6, Flattened
<1>8. \A k : k \in ToSet(Impls(t)) <=> \E i \in 1 .. n : k = IMPL_ORDER[i] /\ k \in DOMAIN t
  BY <1>5, <1>7
<1>9. \A k \in DOMAIN t : \E i \in 1 .. n : k = IMPL_ORDER[i]
  BY <1>2 DEF RenderedKeys, ToSet
<1>. QED
  BY <1>7, <1>8, <1>9

\* Every row is shown, and nothing else.
LEMMA DetailsAre ==
  ASSUME NEW t, DOMAIN t \subseteq RenderedKeys
  PROVE  ToSet(details_table(t)) = {t[k] : k \in DOMAIN t}
<1>1. IsSeq(Impls(t)) /\ ToSet(Impls(t)) = DOMAIN t
  BY ImplsAre
<1>2. /\ DOMAIN details_table(t) = DOMAIN Impls(t)
      /\ \A i \in DOMAIN Impls(t) : details_table(t)[i] = t[Impls(t)[i]]
  BY DEF details_table
<1>3. \A k : k \in DOMAIN t <=> \E i \in DOMAIN Impls(t) : k = Impls(t)[i]
  BY <1>1 DEF ToSet
<1>. QED
  BY <1>2, <1>3 DEF ToSet

\* The block is what is rendered of the newest rows.
LEMMA Rendered ==
  ASSUME MarksAreNoRecords, CsvInv, BenchChecks
  PROVE  /\ benchBlock = NoText => Measured = {}
         /\ ShownBench => benchBlock = [headline |-> headline_table(StageTable),
                                        details |-> details_table(StageTable)]
<1>1. benchBlock = NoBlock \/ benchBlock = render_bench(csv)
  BY DEF BenchChecks, replace_block
<1>2. render_bench(csv) = IF DOMAIN StageTable = {} THEN NoText
        ELSE [headline |-> headline_table(StageTable), details |-> details_table(StageTable)]
  BY DEF render_bench, StageTable
<1>3. DOMAIN StageTable = {r.key : r \in Measured}
  BY StageTableNewest
<1>4. DOMAIN [headline |-> headline_table(StageTable), details |-> details_table(StageTable)]
        = {"headline", "details"}
  OBVIOUS
<1>. QED
  BY <1>1, <1>2, <1>3, <1>4 DEF MarksAreNoRecords, ShownBench

\* Both invariants of the files.
LEMMA TablesInvariant ==
  ASSUME MarksAreNoRecords PROVE RSpec => [](CsvInv /\ GptInOrder)
<1>1. RInit => GptInOrder
  BY GptInit
<1>2. CsvInv /\ GptInOrder /\ [RNext]_rvars => GptInOrder'
  BY GptStep
<1>. QED
  BY <1>1, <1>2, CsvInit, CsvStep, PTL DEF RSpec

\* For any files, keys, old rows and sessions, of which any may die anywhere:
\* the accepted README has of each key one of the newest measurements.
THEOREM TablesNewest ==
  ASSUME MarksAreNoRecords PROVE RSpec => []TableNewest
<1>1. CsvInv /\ GptInOrder => TableNewest
  <2>. SUFFICES ASSUME CsvInv, GptInOrder PROVE TableNewest
    OBVIOUS
  <2>1. ASSUME BenchChecks, gptBlock # NoBlock, bound.atOnce = 1
        PROVE  LET D == {gptBlock[k] : k \in DOMAIN gptBlock}
               IN  /\ {r.key : r \in D} = {r.key : r \in MeasuredIn({Gpt})}
                   /\ D \subseteq NewestOf(MeasuredIn({Gpt}))
    <3>1. gptBlock = render_gpt(csv)
      BY <2>1 DEF BenchChecks, replace_block
    <3>2. {r.key : r \in {gptBlock[k] : k \in DOMAIN gptBlock}} = {gptBlock[k].key : k \in DOMAIN gptBlock}
      OBVIOUS
    <3>. QED
      BY <2>1, <3>1, <3>2, GptNewest
  <2>2. ASSUME ShownBench
        PROVE  LET D == ToSet(benchBlock.details)
               IN  /\ {r.key : r \in D} = {r.key : r \in Measured}
                   /\ D \subseteq Newest
    <3>1. benchBlock.details = details_table(StageTable)
      BY <2>2, Rendered DEF ShownBench
    <3>2. DOMAIN StageTable \subseteq RenderedKeys
      BY DEF StageTable, Restrict
    <3>3. ToSet(benchBlock.details) = {StageTable[k] : k \in DOMAIN StageTable}
      BY <3>1, <3>2, DetailsAre
    <3>4. /\ DOMAIN StageTable = {r.key : r \in Measured}
          /\ \A k \in DOMAIN StageTable : StageTable[k] \in Newest /\ StageTable[k].key = k
      BY StageTableNewest
    <3>5. {r.key : r \in {StageTable[k] : k \in DOMAIN StageTable}} = DOMAIN StageTable
      BY <3>4
    <3>. QED
      BY <3>3, <3>4, <3>5
  <2>. QED
    BY <2>1, <2>2, Rendered DEF TableNewest
<1>. QED
  BY <1>1, TablesInvariant, PTL

\* The fastest of our kernels is one that none undercuts.
LEMMA BestOf ==
  ASSUME NEW t, WithTime(t, OurKeys) # {}, \A k \in WithTime(t, OurKeys) : t[k].ms \in Nat
  PROVE  Best(t) \in WithTime(t, OurKeys) /\ \A j \in WithTime(t, OurKeys) : t[Best(t)].ms <= t[j].ms
<1>. DEFINE W == WithTime(t, OurKeys)
            times == {t[k].ms : k \in W}
<1>. HIDE DEF W
<1>1. W # {} /\ \A k \in W : t[k].ms \in Nat
  BY DEF W
<1>2. times \in SUBSET Nat /\ times # {}
  BY <1>1
<1>3. PICK least \in times : \A m \in times : least <= m
  BY <1>2, LeastNumber
<1>4. \E k \in W : \A j \in W : t[k].ms <= t[j].ms
  BY <1>3
<1>5. Best(t) = CHOOSE k \in W : \A j \in W : t[k].ms <= t[j].ms
  BY DEF Best, W
<1>6. Best(t) \in W /\ \A j \in W : t[Best(t)].ms <= t[j].ms
  BY <1>4, <1>5
<1>. QED
  BY <1>6 DEF W

\* For any files, keys, times, old rows and sessions: a ratio the accepted
\* README leads with compares newest times, the lower of them that of a kernel
\* which no other undercuts, and tells when their commits differ.
THEOREM ComparisonsFair ==
  ASSUME MarksAreNoRecords PROVE RSpec => []ComparisonFair
<1>1. CsvInv => ComparisonFair
  <2>. SUFFICES ASSUME CsvInv, ShownBench PROVE ComparisonFair
    BY DEF ComparisonFair
  <2>. DEFINE t == StageTable
              Undercuts(b) == \A k \in OurKeys : (\E r \in Newest : r.key = k) =>
                                \E r \in Newest : r.key = k /\ (r.ms = NoNumber \/ b.ms <= r.ms)
  <2>1. benchBlock.headline = headline_table(t)
    BY Rendered DEF ShownBench
  <2>2. benchBlock.headline.vs_naive = vs_naive(t) /\ benchBlock.headline.vs_sdpa = vs_sdpa(t)
    BY <2>1 DEF headline_table
  <2>3. /\ DOMAIN t = {r.key : r \in Measured}
        /\ \A k \in DOMAIN t : t[k] \in Newest /\ t[k].key = k
    BY StageTableNewest
  <2>. HIDE DEF t
  <2>4. \A k \in DOMAIN t : t[k].ms \in Nat \cup {NoNumber}
    <3>1. ToSet(StageFiles) \in SUBSET ResultFile
      BY DEF ResultFile
    <3>2. \A k \in DOMAIN t : t[k] \in MeasuredIn(ToSet(StageFiles))
      BY <2>3 DEF Newest, NewestOf, Measured
    <3>. QED
      BY <3>1, <3>2, MeasuredTyped
  <2>5. ASSUME WithTime(t, OurKeys) # {}
        PROVE  /\ t[Best(t)] \in Newest /\ t[Best(t)].key = Best(t) /\ t[Best(t)].ms # NoNumber
               /\ Undercuts(t[Best(t)])
    <3>1. \A k \in WithTime(t, OurKeys) : t[k].ms \in Nat /\ k \in DOMAIN t /\ t[k].ms # NoNumber
      BY <2>4 DEF WithTime
    <3>2. Best(t) \in WithTime(t, OurKeys) /\ \A j \in WithTime(t, OurKeys) : t[Best(t)].ms <= t[j].ms
      BY <2>5, <3>1, BestOf
    <3>3. ASSUME NEW k \in OurKeys, \E r \in Newest : r.key = k
          PROVE  \E r \in Newest : r.key = k /\ (r.ms = NoNumber \/ t[Best(t)].ms <= r.ms)
      <4>1. k \in DOMAIN t
        BY <2>3, <3>3 DEF Newest, NewestOf
      <4>2. t[k].ms = NoNumber \/ t[Best(t)].ms <= t[k].ms
        BY <3>2, <4>1 DEF WithTime
      <4>. QED
        BY <2>3, <4>1, <4>2
    <3>. QED
      BY <2>3, <3>1, <3>2, <3>3
  <2>6. ASSUME vs_naive(t) \notin {Dash, NoBaseline}
        PROVE  \E a, b \in Newest :
                 /\ a.key = Naive /\ b.key = vs_naive(t).ours
                 /\ vs_naive(t).ratio = <<a.ms, b.ms>> /\ b.ms # NoNumber
                 /\ Undercuts(b)
    <3>1. WithTime(t, {Naive}) # {}
      BY <2>6 DEF vs_naive
    <3>2. Naive \in DOMAIN t /\ WithTime(t, OurKeys) # {}
      BY <3>1, ReportsAssumption DEF WithTime
    <3>3. vs_naive(t) = [ours |-> Best(t), ratio |-> <<t[Naive].ms, t[Best(t)].ms>>]
      BY <3>1 DEF vs_naive
    <3>4. vs_naive(t).ours = Best(t) /\ vs_naive(t).ratio = <<t[Naive].ms, t[Best(t)].ms>>
      BY <3>3
    <3>5. /\ t[Naive] \in Newest /\ t[Naive].key = Naive
          /\ t[Best(t)] \in Newest /\ t[Best(t)].key = Best(t) /\ t[Best(t)].ms # NoNumber
          /\ Undercuts(t[Best(t)])
      BY <2>3, <2>5, <3>2
    <3>. HIDE DEF Undercuts
    <3>. QED
      BY ONLY <3>4, <3>5
  <2>7. ASSUME vs_sdpa(t) \notin {Dash, NoBaseline}
        PROVE  \E a, b \in Newest :
                 /\ a.key = Sdpa /\ b.key = vs_sdpa(t).ours
                 /\ vs_sdpa(t).ratio = <<a.ms, b.ms>> /\ b.ms # NoNumber
                 /\ Undercuts(b)
                 /\ vs_sdpa(t).baseline_at = IF a.commit = b.commit THEN NoNumber ELSE a.commit
    <3>1. WithTime(t, OurKeys) # {} /\ WithTime(t, {Sdpa}) # {}
      BY <2>7 DEF vs_sdpa
    <3>2. Sdpa \in DOMAIN t
      BY <3>1 DEF WithTime
    <3>3. vs_sdpa(t) = [ours |-> Best(t), ratio |-> <<t[Sdpa].ms, t[Best(t)].ms>>,
                        baseline_at |-> IF t[Sdpa].commit = t[Best(t)].commit THEN NoNumber
                                        ELSE t[Sdpa].commit]
      BY <3>1 DEF vs_sdpa, SameCommit
    <3>4. /\ vs_sdpa(t).ours = Best(t) /\ vs_sdpa(t).ratio = <<t[Sdpa].ms, t[Best(t)].ms>>
          /\ vs_sdpa(t).baseline_at = IF t[Sdpa].commit = t[Best(t)].commit THEN NoNumber ELSE t[Sdpa].commit
      BY <3>3
    <3>5. /\ t[Sdpa] \in Newest /\ t[Sdpa].key = Sdpa
          /\ t[Best(t)] \in Newest /\ t[Best(t)].key = Best(t) /\ t[Best(t)].ms # NoNumber
          /\ Undercuts(t[Best(t)])
      BY <2>3, <2>5, <3>1, <3>2
    <3>. HIDE DEF Undercuts
    <3>. QED
      BY ONLY <3>4, <3>5
  <2>8. Naive # Sdpa
    BY ReportsAssumption
  <2>. QED
    BY <2>2, <2>6, <2>7, <2>8 DEF ComparisonFair
<1>. QED
  BY <1>1, CsvInvariant, PTL

===============================================================================
