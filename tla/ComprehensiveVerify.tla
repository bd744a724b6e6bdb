------------------------- MODULE ComprehensiveVerify -------------------------
(***************************************************************************)
(* comprehensive_g1_verification.py: G1AnalysisVerifier.run_verification   *)
(* runs seven verifications in order, each of which records a result       *)
(* dictionary under its category in verification_results (also on its      *)
(* exception path), then generate_verification_report computes the        *)
(* overall accuracy over every 'accurate' entry, nested ones included, and *)
(* writes the JSON and Markdown reports into the analysis directory.       *)
(*                                                                         *)
(* What the Java test programs print is the environment.  Two of the       *)
(* verifications parse that output with regular expressions; the output    *)
(* is a sequence of tokens (a literal, a digit character, ".") and a       *)
(* pattern a sequence of elements matched by re.search, so the parse is    *)
(* modelled by what it does.                                               *)
(***************************************************************************)
EXTENDS Naturals, Sequences, FiniteSets

CONSTANTS
    Unset,          \* category absent from verification_results
    NoOutput,       \* the test program printed nothing that was kept
    NoReport,       \* the report has not been computed
    NoExit,         \* the process has not exited
    RegionOutputs,  \* region sizes (MB) the RegionSizeTest may print
    GcTimes,        \* average Young GC pause, hundredths of a ms
    AllocRates      \* allocation rate, hundredths of a MB/s

ASSUME ConstAssumption ==
    /\ RegionOutputs \subseteq 1..99
    /\ GcTimes \subseteq 0..999999
    /\ AllocRates \subseteq 0..999999

\* run_verification's order; the first is a dictionary of five checks.
Categories == <<"source_code_analysis", "region_size", "memory_layout",
                "gc_performance", "ihop_algorithm", "young_list_management",
                "string_deduplication">>
CategorySet == {Categories[i] : i \in 1..7}
Checks == {"g1_collected_heap", "heap_region", "g1_allocator",
           "barrier_set", "concurrent_mark"}

-----------------------------------------------------------------------------
(***************************************************************************)
(* Text and regular expressions                                            *)
(***************************************************************************)

DigitChars == <<"0", "1", "2", "3", "4", "5", "6", "7", "8", "9">>
DigitChar(d) == DigitChars[d + 1]

\* The decimal digits of n < 100000, as Java's string concatenation prints.
DecimalDigits(n) ==
    LET k == IF n < 10 THEN 1 ELSE IF n < 100 THEN 2
             ELSE IF n < 1000 THEN 3 ELSE IF n < 10000 THEN 4 ELSE 5
    IN  [i \in 1..k |-> DigitChar((n \div 10 ^ (k - i)) % 10)]

\* String.format("%.2f", h / 100).
Fixed2(h) ==
    DecimalDigits(h \div 100) \o <<".">>
      \o <<DigitChar((h \div 10) % 10), DigitChar(h % 10)>>

\* Pattern elements: a literal token, one or more tokens of a class, and
\* "." (any one token).
Lit(s) == [kind |-> "lit", s |-> s]
Plus(cls) == [kind |-> "plus", cls |-> cls]
AnyChar == [kind |-> "any"]

\* re.search(pattern, text): some suffix of the text starts with a match.
Search(p, t) ==
    LET M[ij \in (1..Len(p) + 1) \X (1..Len(t) + 1)] ==
          LET i == ij[1]  j == ij[2]  e == p[i]  IN
          IF i > Len(p) THEN TRUE
          ELSE IF e.kind = "plus"
               THEN \E k \in j..Len(t) :
                        (\A q \in j..k : t[q] \in e.cls) /\ M[<<i + 1, k + 1>>]
          ELSE j <= Len(t)
               /\ (e.kind = "any" \/ t[j] = e.s)
               /\ M[<<i + 1, j + 1>>]
    IN  \E j \in 1..Len(t) + 1 : M[<<1, j>>]

\* r'Region size: (\\d+)MB' is, in a raw string, a backslash followed by
\* one or more "d"; r'Young GC: (\\d+\\.\\d+)ms' likewise.
RegionSizePattern ==
    <<Lit("Region size: "), Lit("\\"), Plus({"d"}), Lit("MB")>>
YoungGcPattern ==
    <<Lit("Young GC: "), Lit("\\"), Plus({"d"}), Lit("\\"), AnyChar,
      Lit("\\"), Plus({"d"}), Lit("ms")>>
AllocationRatePattern ==
    <<Lit("Allocation rate: "), Lit("\\"), Plus({"d"}), Lit("\\"), AnyChar,
      Lit("\\"), Plus({"d"}), Lit("MB/s")>>

\* What RegionSizeTest and GCPerformanceTest print on stdout.
RegionText(n) == <<"Region size: ">> \o DecimalDigits(n) \o <<"MB">>
GcText(t, a) ==
    <<"Allocation rate: ">> \o Fixed2(a) \o <<"MB/s">>
      \o <<"Young GC: ">> \o Fixed2(t) \o <<"ms">>

-----------------------------------------------------------------------------
VARIABLES
    phase,      \* "start", "running", "javac_blocked", "exited", "crashed"
    step,       \* how many verifications have finished
    vr,         \* self.verification_results
    regionOut,  \* the region size RegionSizeTest printed, or NoOutput
    gcOut,      \* <<pause, rate>> GCPerformanceTest printed, or NoOutput
    report,     \* [accurate, total] of calculate_overall_accuracy
    exitCode

vars == <<phase, step, vr, regionOut, gcOut, report, exitCode>>

Flat(b) == [accurate |-> b]
Nested == [Checks -> [accurate : BOOLEAN]]

\* A category missing from verification_results is none of the result
\* dictionaries a verification stores.
ASSUME UnsetAssumption == Unset \notin [accurate : BOOLEAN] \cup Nested

TypeOK ==
    /\ phase \in {"start", "running", "javac_blocked", "exited", "crashed"}
    /\ step \in 0..7
    /\ vr \in [CategorySet -> [accurate : BOOLEAN] \cup Nested \cup {Unset}]
    /\ regionOut \in RegionOutputs \cup {NoOutput}
    /\ gcOut \in (GcTimes \X AllocRates) \cup {NoOutput}
    /\ report \in [accurate : 0..11, total : 0..11] \cup {NoReport}
    /\ exitCode \in {NoExit, 0, 1}

Init ==
    /\ phase = "start"
    /\ step = 0
    /\ vr = [c \in CategorySet |-> Unset]
    /\ regionOut = NoOutput
    /\ gcOut = NoOutput
    /\ report = NoReport
    /\ exitCode = NoExit

\* main(): wrong argument count or a missing workspace directory: exit 1.
StartRejected ==
    /\ phase = "start"
    /\ phase' = "exited"
    /\ exitCode' = 1
    /\ UNCHANGED <<step, vr, regionOut, gcOut, report>>

\* main(): G1AnalysisVerifier(workspace_dir).run_verification().
Start ==
    /\ phase = "start"
    /\ phase' = "running"
    /\ UNCHANGED <<step, vr, regionOut, gcOut, report, exitCode>>

Turn(i) == phase = "running" /\ step = i - 1

\* Mutant: a copied verification that records under the previous
\* verification's key.
RecordUnderPrevious(i, r) ==
    /\ vr' = [vr EXCEPT ![Categories[IF i = 1 THEN 1 ELSE i - 1]] = r]
    /\ step' = step + 1

\* The verification at position i records result r for its category.
Record(i, r) ==
    /\ vr' = [vr EXCEPT ![Categories[i]] = r]
    /\ step' = step + 1

\* compile_and_run_test: javac, run without a timeout, does not return.
CompileHangs ==
    /\ phase' = "javac_blocked"
    /\ UNCHANGED <<step, vr, regionOut, gcOut, report, exitCode>>

\* verify_source_code_analysis: each check_* reads one header and is
\* accurate when it exists and every pattern is found (an exception or a
\* missing file is inaccurate); the five results are stored nested.
VerifySourceCodeAnalysis ==
    /\ Turn(1)
    /\ \E ok \in [Checks -> BOOLEAN] :
          Record(1, [c \in Checks |-> Flat(ok[c])])
    /\ UNCHANGED <<phase, regionOut, gcOut, report, exitCode>>

\* verify_region_size_calculations: a failed compile or run (returncode,
\* TimeoutExpired) is inaccurate; on success the output is searched for
\* the region line and, when found, the size compared with 4.
RegionVerdict(text, n) == Search(RegionSizePattern, text) /\ n = 4

VerifyRegionSizeCalculations ==
    /\ Turn(2)
    /\ \/ /\ Record(2, Flat(FALSE))
          /\ UNCHANGED <<phase, regionOut>>
       \/ \E n \in RegionOutputs :
             /\ Record(2, Flat(RegionVerdict(RegionText(n), n)))
             /\ regionOut' = n
             /\ UNCHANGED phase
       \/ /\ Record(2, Flat(Search(RegionSizePattern, <<>>)))
          /\ UNCHANGED <<phase, regionOut>>
       \/ CompileHangs
    /\ UNCHANGED <<gcOut, report, exitCode>>

\* verify_memory_layout_analysis: accurate when the program ran and printed
\* "Compressed OOPs: enabled" and the three heap-layout keywords.
VerifyMemoryLayoutAnalysis ==
    /\ Turn(3)
    /\ \/ \E compressed, layout \in BOOLEAN :
             /\ Record(3, Flat(compressed /\ layout))
             /\ UNCHANGED phase
       \/ CompileHangs
    /\ UNCHANGED <<regionOut, gcOut, report, exitCode>>

\* verify_gc_performance_data: both findall lists non-empty, and their
\* averages within 5-100 ms and 10-1000 MB/s.
GcVerdict(text, t, a) ==
    /\ Search(YoungGcPattern, text)
    /\ Search(AllocationRatePattern, text)
    /\ 500 <= t /\ t <= 10000
    /\ 1000 <= a /\ a <= 100000

VerifyGcPerformanceData ==
    /\ Turn(4)
    /\ \/ /\ Record(4, Flat(FALSE))
          /\ UNCHANGED <<phase, gcOut>>
       \/ \E t \in GcTimes, a \in AllocRates :
             /\ Record(4, Flat(GcVerdict(GcText(t, a), t, a)))
             /\ gcOut' = <<t, a>>
             /\ UNCHANGED phase
       \/ CompileHangs
    /\ UNCHANGED <<regionOut, report, exitCode>>

\* verify_ihop_algorithm: g1IHOPControl.hpp exists with the six patterns.
VerifyIhopAlgorithm ==
    /\ Turn(5)
    /\ \E ok \in BOOLEAN : Record(5, Flat(ok))
    /\ UNCHANGED <<phase, regionOut, gcOut, report, exitCode>>

\* verify_young_list_management: three files exist and g1Policy.cpp
\* names the four functions.
VerifyYoungListManagement ==
    /\ Turn(6)
    /\ \E ok \in BOOLEAN : Record(6, Flat(ok))
    /\ UNCHANGED <<phase, regionOut, gcOut, report, exitCode>>

\* verify_string_deduplication: a missing file is inaccurate; otherwise
\* at most one of the four features may be missing from the header.
VerifyStringDeduplication ==
    /\ Turn(7)
    /\ \/ Record(7, Flat(FALSE))
       \/ \E missing \in 0..4 : Record(7, Flat(missing <= 1))
    /\ UNCHANGED <<phase, regionOut, gcOut, report, exitCode>>

\* Mutant: only dictionaries with their own 'accurate' key are counted.
LeafChecksFlatOnly ==
    {<<c, "accurate">> : c \in {c2 \in CategorySet :
                                   vr[c2] # Unset /\ "accurate" \in DOMAIN vr[c2]}}

\* calculate_overall_accuracy: every category dictionary with an
\* 'accurate' key counts once; one without it is searched one level down
\* for sub-dictionaries that have one.
IsFlat(r) == "accurate" \in DOMAIN r
LeafChecks ==
    {<<c, "accurate">> : c \in {c2 \in CategorySet :
                                   vr[c2] # Unset /\ IsFlat(vr[c2])}}
    \cup UNION {{<<c, k>> : k \in {k2 \in DOMAIN vr[c] : IsFlat(vr[c][k2])}} :
                c \in {c2 \in CategorySet : vr[c2] # Unset /\ ~IsFlat(vr[c2])}}
LeafAccurate(l) ==
    IF l[2] = "accurate" THEN vr[l[1]].accurate ELSE vr[l[1]][l[2]].accurate
\* Mutant: the percentage stored in place of the count.
CalculateOverallAccuracyPercent ==
    [accurate |-> (Cardinality({l \in LeafChecks : LeafAccurate(l)}) * 100)
                    \div Cardinality(LeafChecks),
     total    |-> Cardinality(LeafChecks)]
CalculateOverallAccuracy ==
    [accurate |-> Cardinality({l \in LeafChecks : LeafAccurate(l)}),
     total    |-> Cardinality(LeafChecks)]

\* Mutant: the report waits for an eighth verification.
GenerateVerificationReportLate ==
    /\ phase = "running"
    /\ step = 8
    /\ report' = CalculateOverallAccuracy
    /\ \/ phase' = "exited" /\ exitCode' = 0
       \/ phase' = "crashed" /\ exitCode' = 1
    /\ UNCHANGED <<step, vr, regionOut, gcOut>>

\* generate_verification_report: the accuracy is computed, then the JSON
\* and Markdown reports are opened in analysis_dir; when that directory
\* does not exist open() raises and the script dies with a traceback.
GenerateVerificationReport ==
    /\ phase = "running"
    /\ step = 7
    /\ report' = CalculateOverallAccuracy
    /\ \/ phase' = "exited" /\ exitCode' = 0
       \/ phase' = "crashed" /\ exitCode' = 1
    /\ UNCHANGED <<step, vr, regionOut, gcOut>>

Next ==
    \/ StartRejected
    \/ Start
    \/ VerifySourceCodeAnalysis
    \/ VerifyRegionSizeCalculations
    \/ VerifyMemoryLayoutAnalysis
    \/ VerifyGcPerformanceData
    \/ VerifyIhopAlgorithm
    \/ VerifyYoungListManagement
    \/ VerifyStringDeduplication
    \/ GenerateVerificationReport

\* A single-threaded script: it keeps running while it can.
Spec == Init /\ [][Next]_vars /\ WF_vars(Next)

-----------------------------------------------------------------------------
(***************************************************************************)
(* Properties                                                              *)
(***************************************************************************)

\* The overall accuracy counts each of the eleven checks once: the five
\* source-code checks nested under source_code_analysis and the six other
\* categories, with as many accurate as the checks that were accurate.
OverallAccuracyCountsLeaves ==
    report # NoReport =>
        /\ report.total = 11
        /\ report.accurate =
               Cardinality({k \in Checks :
                               vr["source_code_analysis"][k].accurate})
             + Cardinality({i \in 2..7 : vr[Categories[i]].accurate})

\* Each verification writes its own key of verification_results, so a
\* result, once recorded, is never replaced by a later verification: the
\* report sees every verification's own verdict.
ResultsNeverReplaced ==
    [][\A c \in CategorySet : vr[c] # Unset => vr'[c] = vr[c]]_vars

\* Unless javac blocks, the script ends: with a report or a traceback.
ExitsUnlessJavacBlocks ==
    <>(phase \in {"exited", "crashed", "javac_blocked"})

\* A verdict parsed from program output follows that output: region_size
\* is accurate exactly when RegionSizeTest printed 4 MB, gc_performance
\* exactly when the printed pause and rate are in the accepted ranges.
OutputVerdictsFollowOutput ==
    /\ regionOut # NoOutput =>
           (vr["region_size"].accurate <=> regionOut = 4)
    /\ gcOut # NoOutput =>
           (vr["gc_performance"].accurate <=>
               /\ 500 <= gcOut[1] /\ gcOut[1] <= 10000
               /\ 1000 <= gcOut[2] /\ gcOut[2] <= 100000)
====
