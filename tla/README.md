# A TLA+ verification of the G1 analysis scripts

The repository's implementation is a set of Python scripts that compute and
check the memory layout of the HotSpot G1 collector for an 8 GiB heap:

- `src/gdb_ai/calc_memory.py`, `final_verify.py` and `verify_bitmap_size.py`,
  and `src/jvm-init-analysis/jvm初始化补充分析_md/verify_g1_calculations.py`.
  These are closed calculators that print card-table, BOT, card-count and
  mark-bitmap sizes.
- `verify_all_g1_analysis.py`. It writes a Java test program to `/tmp`,
  runs six verifications through `javac` and `java`, prints a summary and
  sets its exit code from the number passed. A `finally` clause removes the
  temporary files.
- `comprehensive_g1_verification.py`. It runs seven verification categories
  (three of them compile and run embedded Java programs), parses their output
  with regular expressions, computes an overall accuracy and writes a
  Markdown report.
- `verify_compressed_oops.py`. It compresses and decompresses five test
  addresses of a heap-based narrow-oop mapping and prints the 32-bit capacity.
- `g1_8gb_performance_analyzer.py` and `src/scripts/jvm-init-profiler.py`.
  They run the JVM under `strace`, parse its output (mmap lines, startup-time
  lines), and print and save a report. The analyzer first writes and compiles
  `HelloWorld.java` in the working directory.

The scripts do not call each other. They interact through the quantities
they all report: two scripts that print the same size should agree. The
verifiers also interact with their environment: the JDK tools, the files in
`/tmp` and the user's Ctrl-C.

## Modules

| Module | Models | State and actions |
|---|---|---|
| `HeapLayout` | The formulas of the four calculators | Operators only. Each literal and formula keeps the script's name. `//` is `\div`, and `>> s` is `\div 2^s`. |
| `HeapLayoutCalc` | The four calculator scripts | A configuration (`heap_size`, `region_size`) and one report variable per script. One action per script (`RunCalcMemory`, `RunFinalVerify`, `RunVerifyBitmapSize`, `RunVerifyG1Calculations`) runs it once and records what it prints. |
| `G1RegionSizing` | The region-size loop of `RegionSizeTest`, embedded in `comprehensive_g1_verification.py` (lines 306-318) | `maxMemory`, `regionSize`, `pc` and `out`. `Double` is one loop iteration; `PrintResult` is the loop exit and the print. |
| `VerifyAll` | `G1AnalysisVerifier` of `verify_all_g1_analysis.py` | `phase`, `step` and `vres` (`verification_results`), `results` (the return values), `files` (what is in `/tmp`) and `exitCode`. There is one action per verification, each with every outcome of its subprocess: success, failure, no matching line (`None`), an exception (unrecorded), and a `javac` that never returns. There are also `Construct`, `Finish` (print_summary, then the exit code, then `finally: cleanup()`) and `Interrupt` (KeyboardInterrupt, exit 3, cleanup). |
| `ComprehensiveVerify` | `G1AnalysisVerifier` of `comprehensive_g1_verification.py` | `phase`, `step`, `vr` (`verification_results`, flat or nested per category), `regionOut` and `gcOut` (what the Java programs printed), `report` and `exitCode`. The actions are the argument checks, one action per category, and `GenerateVerificationReport` (with the crash when the report cannot be written). |
| `VerifyAllPair` | Two `verify_all_g1_analysis.py` processes at once | Two `INSTANCE VerifyAll` with their own state (`phase1`... and `phase2`...) and one shared `files`: both use the fixed `/tmp/G1VerificationTest.*` paths. Each step is a step of one run. |
| `G1RegionSizeChoice` | What the region-size loop promises | `memory`, `result`. `Choose` picks, in one step, the smallest size in {1..32} leaving at most 2048 regions, else 32. |
| `G1RegionSizingRefinement` | The refinement | `Abstract == INSTANCE G1RegionSizeChoice WITH memory <- maxMemory, result <- IF pc = "done" THEN out ELSE NoOutput`; `ImplementsRegionSizeChoice == Abstract!Spec`. `Double` maps to a stutter, `PrintResult` to `Choose`. |
| `VerifierContract` | What `verify_all_g1_analysis.py` promises | `verdicts`, `done`, `outcome`. `Record` runs the next verification of the list, which records at most one verdict under its key. `Conclude` exits with the status of the recorded True verdicts (0 all, 1 at least 80%, 2 otherwise). `Abort` is the KeyboardInterrupt (3). |
| `VerifyAllRefinement` | The refinement | `Contract == INSTANCE VerifierContract WITH Checks <- Verifications, verdicts <- vres, done <- step, outcome <- IF phase = "exited" THEN exitCode ELSE NoExit`; `ImplementsVerifierContract == Contract!Spec`. Each verification maps to `Record`, `Finish` to `Conclude`, `Interrupt` to `Abort`; `Construct` and a blocking `javac` are stutters. |
| `CompressedOops` | `verify_compressed_oops.py` | The configuration (`heap_base`, `heap_size`, `shift`) is drawn from constant sets; `idx` is the loop position, `lines` the printed mappings, `capacity` the printed capacity. `PrintMapping` is one loop iteration, `PrintCapacity` the last lines. `>> s` and `<< s` are `\div 2^s` and `* 2^s`. |
| `G1Analyzer` | `g1_8gb_performance_analyzer.py`, `main()` | `phase`, `files` (HelloWorld.java/.class), `trace` (the parsed allocations, or no output), `pos`, `groups` and `order` (`allocation_groups` and its insertion order), `total_duration`, `report`, `exitCode`. Actions: `Usage`, `Start` (write the source), `Compile` (success, exit 1, or a `javac` that never returns), `RunWithStrace`, `AccumulateAllocation` (one loop iteration), `GenerateInsights` (the two crashes, or the report, save and unlinks). |
| `InitProfiler` | `jvm-init-profiler.py`, `main()` | `phase`, `output` (the startup-time lines, or none), `report`, `exitCode`. `Items` is `parse_startup_time_log` (a dict: first-insertion order, last value), `CriticalPath` is `analyze_critical_path`: a stable descending sort (`SortedByDuration`), then the loop that appends the phases of at least 5% (`KeepIf`, `SelectSeq` written with ranked positions, since tlapm cannot expand `SelectSeq`). `RunAndReport` is `run_with_strace`, the "no data" return, and `generate_report` with its ZeroDivisionError. |
| `MC*` | TLC instances | Bounded constants; see the runs. |
| `HeapLayoutProofs`, `VerifyAllProofs`, `CompressedOopsProofs`, `G1RegionSizingProofs`, `G1AnalyzerProofs`, `ComprehensiveVerifyProofs`, `InitProfilerProofs` | TLAPS proofs | See "What is proved". |

The Java programs' output is the environment. In `ComprehensiveVerify` it is
modelled as the text the programs print: a sequence of tokens built by
`RegionText` and `GcText`. The regular expressions become patterns of
literals, `Plus` classes and `AnyChar`, and `re.search` becomes `Search`. The
pattern is written as Python reads the raw string, so the doubled backslash is
a literal backslash token. `Search` is a recursive function over the
positions of the pattern and the text.

## Runs

| Run | Checks | Shows |
|---|---|---|
| `HeapLayoutCalc` | `TypeOK`, `BitmapDerivationsAgree`, `CardTableDerivationsAgree` | All scripts, run in any order, agree on the bitmap and on the card table. The bounds are seven heaps up to 2047 MiB (TLC's integers are 32-bit) and all six region sizes. |
| `HeapLayoutCalc_spec_bitmap` (violation) | `SpecBitmapSize` | `calc_memory.py` reports one bitmap as `heap // 64` bytes. The specification (§4.1) says `heap // 64 // 8`, so the scripts overstate it eight times (128 MiB instead of 16 MiB at 8 GiB). |
| `G1RegionSizing` | `TypeOK`, `RegionSizeIsReference`, `ImplementsRegionSizeChoice` | The loop picks the smallest power-of-two region (1-32 MB) that gives at most 2048 regions, or 32 MB, and it implements the one-step abstract choice. The 29 heaps sit on both sides of every boundary `2048·r` and of the 64 GiB cap. |
| `VerifyAll` | `TypeOK`, `NoTmpFilesAfterExit`, `ExitCodeMatchesVerdicts`, `ExitsUnlessJavacBlocks`, `ImplementsVerifierContract` | No temporary file survives any exit. The exit code agrees with the recorded verdicts. The verifier implements `VerifierContract`, whose exit status counts the recorded verdicts while `main()` counts the returned results. The verifier exits unless `javac` blocks. Every tool outcome and an interrupt at every point are explored. |
| `VerifyAll_unknown` (violation) | `UndeterminedShownUnknown` | A `None` verdict is returned as `False`, and the summary's "unknown" branch is dead. |
| `ComprehensiveVerify` | `TypeOK`, `OverallAccuracyCountsLeaves`, `ExitsUnlessJavacBlocks`, `ResultsNeverReplaced` | The overall accuracy counts the 5 nested source checks and the 6 other categories exactly once each (a total of 11). No verification replaces a verdict an earlier one recorded (an action property). The script ends unless `javac` blocks. |
| `VerifyAllPair_shared_tmp` (violation) | `OwnSourcePresentWhileRunning` | Run 2 exits and its cleanup deletes `/tmp/G1VerificationTest.java` while run 1 is still verifying (four states). |
| `CompressedOops` | `TypeOK`, `RoundTrip` | Every test address decompresses to itself: heap bases 0, 768 and 1000, heap sizes 256 and 512, shifts 0-3. |
| `G1Analyzer` | `TypeOK`, `GroupsAccountForAllocations`, `ExitsUnlessJavacBlocks` | Group counts add up to the allocations parsed and group durations to `total_duration`, so the heap and G1 shares are at most the whole; the analyzer exits unless `javac` blocks. Traces of up to 2 allocations over 7 sizes (one per label, 250 MB exactly on its threshold) and durations 0 and 89234 µs. |
| `G1Analyzer_crash` (violation) | `ReportForEveryTrace` | An output with no matching mmap line reaches `max()` of an empty dict; zero durations with the heap reservation reach a division by zero. |
| `InitProfiler` | `CriticalPathIsSignificant` | The critical path is exactly the phases of at least 5%, each once, longest first; up to 3 lines over 3 phase names (so repeated names occur) and durations 0, 1, 19, 20 (1 of a total of 20 is exactly 5%, 1 of 21 just below). |
| `ComprehensiveVerify_regex` (violation) | `OutputVerdictsFollowOutput` | `RegionSizeTest` prints `Region size: 4MB`, yet the verdict is inaccurate. The raw-string patterns require a backslash in the text. |

Bounds:

- `MCComprehensiveVerify` gives the Java programs region outputs {2, 4, 32}.
  Its GC times and allocation rates lie on both sides of each bound of the
  accepted ranges: 499/500 and 10000/10001 for the times, 999 and 100000 for
  the rates.
- `VerifyAll` has no data bounds; its state space is finite as it stands.
- `MCCompressedOops` scales the script: GB = 32, MB = 16 and
  `max_compressed` = 127, so that the 8 GB heap becomes 256 and the 32-bit
  limit fits TLC's integers. The round trip is proved for every
  configuration, and `ScriptCapacity` evaluates the script's own figures.
- The analyzer's sizes are in KiB and the profiler's durations in µs. mmap
  lengths are page multiples and the log has three decimals of ms, so the
  float comparisons of the code are exact integer ones, e.g.
  `(d / total) * 100 >= 5.0` is `20 * d >= total`.

Every run sets `CHECK_DEADLOCK FALSE`, because each script really stops: it
exits, or it blocks in `javac`.

Fairness:

- `VerifyAll` assumes weak fairness of the verifier's own steps
  (`ProgramStep`). The steps are sequential, and every subprocess call except
  `javac`'s has a timeout.
- The user's interrupt is not a fair action.
- `ComprehensiveVerify` assumes weak fairness of `Next`, because it has no
  other actor.
- `G1Analyzer` assumes weak fairness of `Next`: it is one sequential
  process, and its strace run has a timeout (120 s). Its `javac` has none.
- A blocked `javac` has no successor, so these liveness properties exclude it.

For every property of every passing run, PROJECT.json lists a mutant: a
plausible bug in the code the property is about, which TLC finds.

## What is proved

`HeapLayoutProofs`:

- `BitmapDerivationsAgreeHolds` proves `Spec => []BitmapDerivationsAgree` for
  every heap that is a whole number of MiB and every G1 region size
  (`HeapAssumption`, `RegionAssumption`).
- It rests on the lemma `BitmapFormulasAgree`: `G1CMBitMap::initialize`'s
  derivation equals `compute_size` for every natural heap size.
- The inductive invariant `BitmapInv` states that every report that exists
  holds its script's formula on the configuration. The property alone is not
  inductive, because it relates reports through the configuration.
- `CardTableDerivationsAgreeHolds` proves that the card table, BOT and card
  counts agree, and that the G1 calculator's region-based card table equals
  the heap-based one. It holds for every heap that is a whole number of
  regions.
- The inductive invariant `CardInv` states each report's formulas on the
  configuration.
- The lemma `CardsFromRegions` shows that `(h / r) * (r / 512) = h / 512`
  when `r` divides `h` and is a multiple of 1 MiB.
- `TypeCorrect` proves the type invariant.

`VerifyAllProofs`:

- `HeapCalculationPasses` and `MemoryOverheadPasses` evaluate the two closed
  8 GiB checks. `MCVerifyAll` substitutes their values because TLC cannot.
- `NoTmpFilesAfterExitHolds` and `ExitCodeMatchesVerdictsHolds` are proved
  from the inductive invariant `Inv == TypeOK /\ Pending /\ Agree /\ ExitOK /\
  NoTmpFilesAfterExit`:
  - `Pending` says that the verifications not yet run have no entries.
  - `Agree` says that a result is True exactly when the recorded verdict is
    True.
  - `ExitOK` says that a normal exit code is `ExitCodeOf(Passed)`.
- `Agree` is the invariant the exit-code property needs: it is what
  `Return`'s argument pairs (verdict, return value) preserve.
- The proof of the step has one case per action and one sub-case per outcome
  of the subprocess. The lemma `ReturnStep` covers all of them.
- `StepCases` sorts every step into six kinds: a verification returning an
  agreeing (verdict, result) pair (`ReturnSome`), `Construct`, a blocking
  `javac`, `Finish`, `Interrupt`, or a stutter. It has one sub-case per
  outcome of each subprocess. `InvStep` and `RefineStep` both rest on it.
- `VerifierContractRefined` proves `Spec => ImplementsVerifierContract`.
  `RefineInit` maps the initial state. `RefineStep` maps each step, given
  `Inv`: a returning verification is `Record`, and `Finish` is `Conclude`
  because `Agree` makes the True results and the True verdicts the same
  set. A mutant whose `None` verdict returns True breaks exactly this step.

`CompressedOopsProofs`:

- `RoundTripHolds` proves `Spec => []RoundTrip` for every configuration
  `ConstAssumption` allows: heap bases in Nat, heap sizes above 4 GB on an
  8-byte boundary, shifts 0..3.
- The inductive invariant is `IInv == TypeOK /\ Len(lines) = idx - 1 /\
  RoundTrip`: the length conjunct says the next line is appended at `idx`.
- It rests on `ShiftRoundTrip` (an offset on an 8-byte boundary survives a
  shift right and back left for each granule 1, 2, 4, 8), `GranuleValues`
  and `OffsetsAligned`.
- `ScriptCapacity` evaluates the script's own 64-bit figures: its last
  address fits in 32 bits, it prints 31, and the span is 32.

`G1RegionSizingProofs`:

- `RegionSizingRefinement` proves `Spec => ImplementsRegionSizeChoice` for
  every maximum heap.
- The invariant `LInv` says that every size below `regionSize` leaves more
  than 2048 regions, and that once printed the output is the abstract
  choice. `ExitChoosesRegion` shows that the loop's exit size is the
  minimum of the fitting candidates.
- `Double` maps to an abstract stutter, `PrintResult` to `Choose`.
- `RegionSizeIsReferenceHolds` proves the run's invariant from the same
  `LInv`. The lemma `ReferenceIsChoice` shows that the run's
  `RefRegionSize` is the abstract choice. `PowersExplicit` lists
  `{2^k : k \in 0..5}`, which Z3 cannot evaluate for a variable `k`.
- `TypeCorrect` proves the type invariant.

`VerifyAllProofs` and `CompressedOopsProofs` also prove `TypeCorrect` from
their inductive invariants.

`G1AnalyzerProofs`:

- `GroupsAccountForAllocationsHolds` holds for every trace, every length,
  every size and every duration.
- The inductive invariant `AInv` has these parts:
  - the groups are records of naturals under the seven labels;
  - the counts add up to `pos - 1`;
  - the durations add up to `total_duration`;
  - a report shows the final groups.
- `AddToGroup` is one loop iteration, as the operator `Bumped`. It shifts
  one label's count by 1 and its duration by `dur`.
- `TypeCorrect` strengthens `AInv` to `TInv`, which adds two facts:
  - `pos` stays within the trace (`TraceBound`);
  - `order` lists exactly the labels of the groups.
- The hard step is `SlowestIsLabel`: `max()` of a non-empty
  `allocation_groups` finds one of the labels. It needs no induction over
  data:
  - every duration is at most `total_duration`;
  - the least upper bound of the durations exists (`NatHasLeast`, from
    `WFMin` and `NatLessThanWellFounded`);
  - that bound is one of the durations;
  - the first position that has it is a natural.
- The model sums over the seven labels with an explicit sum,
  `SumOverLabels`. It uses `WithNewGroup` in place of `:>` and `@@`, so the
  module needs neither TLC nor Functions. That is what lets tlapm, which
  has no TLC module, reason about it.

`ComprehensiveVerifyProofs`:

- `OverallAccuracyCountsLeavesHolds` holds whatever the verifications find
  and whatever the Java programs print. The regex matcher is never
  expanded: every verdict is merely a Boolean.
- The inductive invariant `CInv` contains `Recorded`: the verifications at
  positions up to `step` have stored a result of their shape (`Shape`:
  nested for source_code_analysis, flat otherwise), and the others none.
  `CInv` also says that a report is `CalculateOverallAccuracy` of a complete
  result.
- The counting uses FiniteSetTheorems:
  - `BijCard` gives the size of a one-to-one image;
  - `LeafSetsCard` counts the flat and nested leaves;
  - `DisjointUnionCard` adds disjoint sets;
  - `CountsOfComplete` gives a total of 11 and the accurate count.
- The proof needs the assumption `UnsetAssumption`: a missing category is
  not a result dictionary, as in Python a missing key is distinct from any
  stored value.
- `ResultsNeverReplacedHolds` proves the action property. `StepWritesUnset`
  shows that every step leaves `vr` alone or writes the one category still
  `Unset`.
- `TypeCorrect` proves the type invariant.

`InitProfilerProofs`:

- `CriticalPathIsSignificantHolds` proves `Spec => []CriticalPathIsSignificant`
  for every strace output: any number of startup-time lines, any phase
  names, any durations.
- The inductive invariant `IInv` says that a report, once built, is the one
  `generate_report` builds from some output. The work is in the operators.
- `Items`, `SortedByDuration` and `KeepIf` all name an element by its rank.
  `RankOrder` proves once that, under a strict total order on a finite set,
  the rank is a bijection onto `1..n` that follows the order. `RankInverse`
  and `LeqRank` (the `j <= k` rank of a set of naturals) follow from it.
- `ItemsFacts`: the parsed items are timing lines and pairwise distinct,
  because a repeated phase overwrites its entry. `LastIndexFacts` shows the
  last line of a phase exists (`NatHasGreatest`).
- `SortedByDurationFacts`: the sort keeps the same items, keeps them
  distinct, and puts them longest first. `SortRank` shows `SortRel` is a
  strict total order and the sort lists the items by their rank in it.
- `KeepIfFacts`: the loop keeps exactly the phases at 5% or more of the
  total, in the order of its input. `InjectiveSeqCard` turns distinctness
  into `Len(cp) = Cardinality(...)`.
- The total `ItemsTotal` is `SumFunction`, a fold. The proof never needs its
  value: the theorem holds whatever number the sum is, because the cut and
  the report use the same total.

Only TLC checks the following:

- The liveness properties (`ExitsUnlessJavacBlocks` of three runs). TLAPS
  does not handle ENABLED or fairness.
- What `ItemsTotal` computes. It is a fold over a recursive function on
  subsets; saying what it sums needs induction over the set with an
  operator parameter, which the installed provers cannot instantiate.
  No property of a passing run depends on its value.
- `VerifyAllPair`: a violation only.

## Findings not kept as runs

The model reaches these cases, and the hazards of PROJECT.json say where:

- `jvm-init-profiler.py` line 118 divides by a zero total when every phase
  takes 0 ms (the status-1 disjunct of `RunAndReport`), and a strace timeout
  exits with status 0.
- `g1_8gb_performance_analyzer.py` leaves `HelloWorld.java` behind on every
  exit before the full report.
- `verify_compressed_oops.py` prints a maximum heap of 31 GB where 2^32
  granules of 8 bytes span 32 GB (`ScriptCapacity`).
- `RegionSizeTest` floors the region count (a 2049 MiB heap gets 1024 regions
  of 2 MB), and the verifiers' `javac` has no timeout, so they can block
  forever: the liveness properties exclude `javac_blocked` for that reason.

## Not modelled

- The Java programs embedded in the verifiers (apart from the region-size
  loop): only what they print is modelled, as the environment.
- The profiler's mmap parse: it feeds only the printed memory totals and
  one insight, which no property is about.
- The report text, the recommendations and the printed wording: no
  property is about them.
- The analyzer's timestamps and addresses: they are only printed.
