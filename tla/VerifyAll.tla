------------------------------ MODULE VerifyAll ------------------------------
(***************************************************************************)
(* verify_all_g1_analysis.py: G1AnalysisVerifier writes a Java test        *)
(* program to /tmp, runs six verifications in a fixed order, prints a      *)
(* summary and exits with a code derived from how many passed; a finally   *)
(* clause removes the temporary files.  Each verification shells out to    *)
(* javac or java (or checks files); what those tools print is the          *)
(* environment, chosen nondeterministically among the outcomes the code    *)
(* tells apart.                                                            *)
(*                                                                         *)
(* Two dictionaries are kept: verification_results, written by each        *)
(* verify_* method (TRUE, FALSE or None, or left unset when the method     *)
(* leaves through an exception handler), and the results returned by       *)
(* run_all_verifications, which hold each method's return value.           *)
(***************************************************************************)
EXTENDS HeapLayout, FiniteSets

CONSTANTS
    NULL,           \* Python's None
    Unset,          \* key absent from verification_results / results
    NoExit          \* the process has not exited yet

\* None and an absent key are neither True nor False, nor each other.
ASSUME SentinelAssumption ==
    NULL \notin BOOLEAN /\ Unset \notin BOOLEAN \cup {NULL}

\* The verifications list of run_all_verifications, in its order, named by
\* their verification_results keys.
Verifications == <<"source_code", "heap_calculation", "memory_overhead",
                   "region_size", "compressed_oops", "gc_performance">>
Names == {Verifications[i] : i \in 1..6}

\* The temporary files: self.test_java_file and the class javac writes.
TmpFiles == {"java", "class"}

VARIABLES
    phase,      \* "start", "running", "javac_blocked", "exited"
    step,       \* how many verifications have returned
    vres,       \* self.verification_results
    results,    \* the results dict of run_all_verifications
    files,      \* which temporary files exist in /tmp
    exitCode    \* sys.exit code

vars == <<phase, step, vres, results, files, exitCode>>

TypeOK ==
    /\ phase \in {"start", "running", "javac_blocked", "exited"}
    /\ step \in 0..6
    /\ vres \in [Names -> {TRUE, FALSE, NULL, Unset}]
    /\ results \in [Names -> BOOLEAN \cup {Unset}]
    /\ files \subseteq TmpFiles
    /\ exitCode \in {NoExit, 0, 1, 2, 3}

\* Files left in /tmp by an earlier run that was killed before its cleanup.
Init ==
    /\ phase = "start"
    /\ step = 0
    /\ vres = [n \in Names |-> Unset]
    /\ results = [n \in Names |-> Unset]
    /\ files \in SUBSET TmpFiles
    /\ exitCode = NoExit

\* main(): G1AnalysisVerifier() -> __init__ -> create_test_program.
Construct ==
    /\ phase = "start"
    /\ phase' = "running"
    /\ files' = files \cup {"java"}
    /\ UNCHANGED <<step, vres, results, exitCode>>

\* Mutant: the verdict stored in results instead of the return value.
ReturnVerdictAsResult(name, v, ret) ==
    /\ vres' = IF v = Unset THEN vres ELSE [vres EXCEPT ![name] = v]
    /\ results' = [results EXCEPT ![name] = v]
    /\ step' = step + 1

\* The verification at position i returns: it records verdict v in
\* verification_results (Unset: left through an exception handler without
\* recording) and returns ret to run_all_verifications.
Return(name, v, ret) ==
    /\ vres' = IF v = Unset THEN vres ELSE [vres EXCEPT ![name] = v]
    /\ results' = [results EXCEPT ![name] = ret]
    /\ step' = step + 1

Turn(i) == phase = "running" /\ step = i - 1

\* verify_source_code_analysis: the four OpenJDK headers exist or not.
VerifySourceCode ==
    /\ Turn(1)
    /\ \E present \in BOOLEAN : Return("source_code", present, present)
    /\ UNCHANGED <<phase, files, exitCode>>

\* verify_heap_calculation: 8 GiB // 4 MiB == 2048, computed, no I/O.
HeapCalculationOK == region_count(8 * 1024 * MiB, 4 * MiB) = 2048
VerifyHeapCalculation ==
    /\ Turn(2)
    /\ Return("heap_calculation", HeapCalculationOK, HeapCalculationOK)
    /\ UNCHANGED <<phase, files, exitCode>>

\* verify_memory_overhead: cardtable_percent + remset_percent < 1.0 with
\* the card table of the 8 GiB heap and 1.3 MiB of remembered sets; the
\* percentages are compared after multiplying through by 10 * heap / 100.
MemoryOverheadOK ==
    (10 * cardtable_size(8 * 1024 * MiB) + 13 * MiB) * 100
        < 10 * (8 * 1024 * MiB)
VerifyMemoryOverhead ==
    /\ Turn(3)
    /\ Return("memory_overhead", MemoryOverheadOK, MemoryOverheadOK)
    /\ UNCHANGED <<phase, files, exitCode>>

\* verify_region_size, the javac part.  javac fails (CalledProcessError,
\* or FileNotFoundError when it is not installed) when the source is
\* missing or at the tool's choice; both leave through except Exception.
\* javac has no timeout, so it may also never return.
CompileFails ==
    /\ Return("region_size", Unset, FALSE)
    /\ UNCHANGED files
CompileHangs ==
    /\ phase' = "javac_blocked"
    /\ UNCHANGED <<step, vres, results, files>>

\* Mutant: an output without the region line taken as a pass.
RunRegionSizeProgramNoLinePasses ==
    /\ files' = files \cup {"class"}
    /\ \/ Return("region_size", Unset, FALSE)
       \/ Return("region_size", TRUE, TRUE)
       \/ Return("region_size", FALSE, FALSE)
       \/ Return("region_size", NULL, TRUE)

\* verify_region_size, the java part (timeout=30): a TimeoutExpired or
\* another exception returns False unrecorded; otherwise the output has
\* "Heap region size: 4M" (True), another size (False) or no such line
\* (None, returning False).
RunRegionSizeProgram ==
    /\ files' = files \cup {"class"}
    /\ \/ Return("region_size", Unset, FALSE)
       \/ Return("region_size", TRUE, TRUE)
       \/ Return("region_size", FALSE, FALSE)
       \/ Return("region_size", NULL, FALSE)

VerifyRegionSize ==
    /\ Turn(4)
    /\ \/ /\ CompileFails
          /\ UNCHANGED phase
       \/ /\ "java" \in files
          /\ RunRegionSizeProgram
          /\ UNCHANGED phase
       \/ CompileHangs
    /\ UNCHANGED exitCode

\* verify_compressed_oops (java -version, timeout=10): "Zero based" or
\* "compressed oops" in the output is True; neither is None and False; an
\* exception is False unrecorded.
VerifyCompressedOops ==
    /\ Turn(5)
    /\ \/ Return("compressed_oops", TRUE, TRUE)
       \/ Return("compressed_oops", NULL, FALSE)
       \/ Return("compressed_oops", Unset, FALSE)
    /\ UNCHANGED <<phase, files, exitCode>>

\* verify_gc_performance runs the class compiled by verify_region_size
\* (timeout=60).  Without the class, java finds no main class and prints
\* no GC line: None and False.  With it, no GC line is None; more than 80%
\* of the pauses under 100 ms is True, fewer is False; an exception is
\* False unrecorded.
VerifyGcPerformance ==
    /\ Turn(6)
    /\ \/ Return("gc_performance", Unset, FALSE)
       \/ Return("gc_performance", NULL, FALSE)
       \/ /\ "class" \in files
          /\ \/ Return("gc_performance", TRUE, TRUE)
             \/ Return("gc_performance", FALSE, FALSE)
    /\ UNCHANGED <<phase, files, exitCode>>

\* Mutant: the summary waits for a seventh verification.
FinishOffByOne ==
    /\ phase = "running"
    /\ step = 7
    /\ phase' = "exited"
    /\ exitCode' = 0
    /\ files' = {}
    /\ UNCHANGED <<step, vres, results>>

\* main() after run_all_verifications and print_summary: the exit code
\* from the number of results that are True (0 all, 1 at least 80%,
\* 2 otherwise); sys.exit passes through finally: cleanup().
Passed == Cardinality({n \in Names : results[n] = TRUE})
ExitCodeOf(passed) ==
    IF passed = 6 THEN 0 ELSE IF passed * 10 >= 6 * 8 THEN 1 ELSE 2
Finish ==
    /\ phase = "running"
    /\ step = 6
    /\ phase' = "exited"
    /\ exitCode' = ExitCodeOf(Passed)
    /\ files' = {}
    /\ UNCHANGED <<step, vres, results>>

\* Mutant: cleanup() on the normal path only, not in finally.
InterruptWithoutCleanup ==
    /\ phase \in {"running", "javac_blocked"}
    /\ phase' = "exited"
    /\ exitCode' = 3
    /\ UNCHANGED <<step, vres, results, files>>

\* KeyboardInterrupt while verifying (or while javac blocks): main prints
\* the interruption and exits 3; finally: cleanup() removes both files.
Interrupt ==
    /\ phase \in {"running", "javac_blocked"}
    /\ phase' = "exited"
    /\ exitCode' = 3
    /\ files' = {}
    /\ UNCHANGED <<step, vres, results>>

\* The verifier's own steps; the user's interrupt is not one of them.
ProgramStep ==
    \/ Construct
    \/ VerifySourceCode
    \/ VerifyHeapCalculation
    \/ VerifyMemoryOverhead
    \/ VerifyRegionSize
    \/ VerifyCompressedOops
    \/ VerifyGcPerformance
    \/ Finish

Next == ProgramStep \/ Interrupt

\* The verifier runs to completion unless the user stops it; every
\* subprocess call but javac's has a timeout.
Spec == Init /\ [][Next]_vars /\ WF_vars(ProgramStep)

-----------------------------------------------------------------------------
(***************************************************************************)
(* Properties                                                              *)
(***************************************************************************)

\* However the run ends -- all six verifications done or a KeyboardInterrupt
\* in the middle, javac blocked included -- the finally clause leaves no
\* temporary Java source or class file in /tmp.
NoTmpFilesAfterExit ==
    phase = "exited" => files = {}

\* The exit code, computed from the returned results, agrees with the
\* verdicts recorded in verification_results: 0 exactly when every
\* verification recorded True, and at most 1 exactly when at least five did.
ExitCodeMatchesVerdicts ==
    LET recorded == Cardinality({n \in Names : vres[n] = TRUE})
    IN  phase = "exited" /\ exitCode # 3 =>
            /\ (exitCode = 0) <=> (recorded = 6)
            /\ (exitCode \in {0, 1}) <=> (recorded >= 5)

\* Unless javac blocks, the verifier exits.
ExitsUnlessJavacBlocks == <>(phase \in {"exited", "javac_blocked"})

\* print_summary shows a result that is neither True nor False as
\* "unknown" (⚠️ 未知).  A verification whose verdict could not be
\* determined (None in verification_results) should be shown that way,
\* not counted as a failure.
UndeterminedShownUnknown ==
    \A n \in Names : vres[n] = NULL => results[n] \notin BOOLEAN
=============================================================================
