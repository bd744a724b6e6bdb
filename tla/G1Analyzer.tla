------------------------------ MODULE G1Analyzer ------------------------------
(***************************************************************************)
(* g1_8gb_performance_analyzer.py: main() writes and compiles              *)
(* HelloWorld.java in the working directory, runs it under strace          *)
(* (timeout=120), parses the mmap lines into allocations, groups them by   *)
(* _classify_8gb_allocation, derives the insights, prints and saves the    *)
(* report and deletes HelloWorld.java and .class.                          *)
(*                                                                         *)
(* The strace output is the environment: no output (TimeoutExpired, any    *)
(* other exception, or an empty stderr) or a sequence of parsed mmap       *)
(* allocations, possibly empty when no line matches the pattern.  A size   *)
(* is in KiB (mmap lengths are page multiples, so the script's float       *)
(* comparisons with MB and GB thresholds are exact integer ones); a       *)
(* duration is in microseconds, strace's -T resolution.                    *)
(***************************************************************************)
EXTENDS Naturals, Sequences, FiniteSets

CONSTANTS
    Sizes,          \* mmap lengths, in KiB
    Durations,      \* mmap durations, in microseconds
    MaxAllocs,      \* bound on the number of mmap lines in a trace
    NoOutput,       \* model value: run_with_strace returned ""
    NoReport,       \* model value: no report was produced
    NoExit          \* model value: the process has not exited

ASSUME ConstAssumption ==
    /\ Sizes \subseteq Nat /\ Durations \subseteq Nat
    /\ MaxAllocs \in Nat

MiBk == 1024            \* one MB, in KiB
GiBk == 1024 * 1024     \* one GB, in KiB

\* The labels of _classify_8gb_allocation, in the order of its elifs.
Labels == {"heap_reserve", "class_space_reserve", "initial_heap_commit",
           "class_space_commit", "mark_bitmap", "card_table_or_bot",
           "other"}

\* The sum of f over the seven labels.
SumOverLabels(f(_)) ==
    f("heap_reserve") + f("class_space_reserve") + f("initial_heap_commit")
      + f("class_space_commit") + f("mark_bitmap") + f("card_table_or_bot")
      + f("other")

\* Mutant: the final else dropped, so a small mapping is classified None.
ClassifyNoDefault(kib) ==
    IF 2 * kib >= 15 * GiBk THEN "heap_reserve"
    ELSE IF 10 * kib >= 9 * GiBk THEN "class_space_reserve"
    ELSE IF kib >= 250 * MiBk THEN "initial_heap_commit"
    ELSE IF kib >= 60 * MiBk THEN "class_space_commit"
    ELSE IF kib >= 30 * MiBk THEN "mark_bitmap"
    ELSE IF kib >= 15 * MiBk THEN "card_table_or_bot"
    ELSE NoOutput

\* _classify_8gb_allocation: size_gb >= 7.5, size_gb >= 0.9, then
\* size_mb >= 250, 60, 30, 15, else other.
Classify(kib) ==
    IF 2 * kib >= 15 * GiBk THEN "heap_reserve"
    ELSE IF 10 * kib >= 9 * GiBk THEN "class_space_reserve"
    ELSE IF kib >= 250 * MiBk THEN "initial_heap_commit"
    ELSE IF kib >= 60 * MiBk THEN "class_space_commit"
    ELSE IF kib >= 30 * MiBk THEN "mark_bitmap"
    ELSE IF kib >= 15 * MiBk THEN "card_table_or_bot"
    ELSE "other"

Alloc == [size : Sizes, dur : Durations]

\* What run_with_strace can return, as parse_8gb_memory_allocations sees it.
Traces == UNION {[1..n -> Alloc] : n \in 0..MaxAllocs}

\* HelloWorld.java and HelloWorld.class in the working directory.
TestFiles == {"java", "class"}

VARIABLES
    phase,          \* "start", "compiling", "javac_blocked", "tracing",
                    \* "analyzing", "exited"
    files,          \* which of the test files exist
    trace,          \* the strace output: NoOutput or the parsed allocations
    pos,            \* the for loop's position in allocations
    groups,         \* allocation_groups: label -> count, total_duration_ms
    order,          \* the labels in allocation_groups, in insertion order
    total_duration, \* total_duration
    report,         \* the insights' figures, once computed
    exitCode        \* the process exit status

vars == <<phase, files, trace, pos, groups, order, total_duration, report,
          exitCode>>

Group == [count : Nat, dur : Nat]
Report == [slowest : Labels, heap : Nat, g1 : Nat, total : Nat]

TypeOK ==
    /\ phase \in {"start", "compiling", "javac_blocked", "tracing",
                  "analyzing", "exited"}
    /\ files \subseteq TestFiles
    /\ trace \in Traces \cup {NoOutput}
    /\ pos \in 1..MaxAllocs + 1
    /\ DOMAIN groups \subseteq Labels
    /\ \A t \in DOMAIN groups : groups[t] \in Group
    /\ order \in Seq(Labels)
    /\ total_duration \in Nat
    /\ report \in Report \cup {NoReport}
    /\ exitCode \in {0, 1, NoExit}

\* Test files of an earlier run, or the user's own, may already be there.
Init ==
    /\ phase = "start"
    /\ files \in SUBSET TestFiles
    /\ trace = NoOutput
    /\ pos = 1
    /\ groups = << >>
    /\ order = << >>
    /\ total_duration = 0
    /\ report = NoReport
    /\ exitCode = NoExit

Exit(code) ==
    /\ phase' = "exited"
    /\ exitCode' = code

\* main() without a class name prints the usage and returns.
Usage ==
    /\ phase = "start"
    /\ Exit(0)
    /\ UNCHANGED <<files, trace, pos, groups, order, total_duration, report>>

\* main() with a class name: run_with_strace calls _create_test_program,
\* which writes HelloWorld.java and runs javac (no timeout).
Start ==
    /\ phase = "start"
    /\ phase' = "compiling"
    /\ files' = files \cup {"java"}
    /\ UNCHANGED <<trace, pos, groups, order, total_duration, report,
                   exitCode>>

\* javac succeeds; a non-zero return code is sys.exit(1), and a missing
\* javac raises FileNotFoundError outside the try (a traceback, status 1);
\* javac may also never return.
Compile ==
    /\ phase = "compiling"
    /\ \/ /\ phase' = "tracing"
          /\ files' = files \cup {"class"}
          /\ UNCHANGED exitCode
       \/ /\ Exit(1)
          /\ UNCHANGED files
       \/ /\ phase' = "javac_blocked"
          /\ UNCHANGED <<files, exitCode>>
    /\ UNCHANGED <<trace, pos, groups, order, total_duration, report>>

\* strace (timeout=120) and, when it returns text, the parse; main()
\* returns at once on an empty result ("未能获取到分析数据").
RunWithStrace ==
    /\ phase = "tracing"
    /\ \E out \in Traces \cup {NoOutput} :
          /\ trace' = out
          /\ IF out = NoOutput THEN Exit(0)
             ELSE /\ phase' = "analyzing"
                  /\ UNCHANGED exitCode
    /\ UNCHANGED <<files, pos, groups, order, total_duration, report>>

\* allocation_groups[alloc_type] = {'count': 0, ...}: an empty group added.
WithNewGroup(t) ==
    [x \in DOMAIN groups \cup {t} |->
        IF x = t THEN [count |-> 0, dur |-> 0] ELSE groups[x]]

\* Mutant: total_duration updated inside the "not in allocation_groups"
\* block, once per new label.
AccumulateTotalOncePerLabel ==
    /\ phase = "analyzing"
    /\ pos <= Len(trace)
    /\ LET a == trace[pos]
           t == Classify(a.size)
           g == IF t \in DOMAIN groups THEN groups
                ELSE WithNewGroup(t)
       IN  /\ groups' = [g EXCEPT ![t] = [count |-> @.count + 1,
                                          dur   |-> @.dur + a.dur]]
           /\ order' = IF t \in DOMAIN groups THEN order
                       ELSE Append(order, t)
           /\ total_duration' = IF t \in DOMAIN groups THEN total_duration
                                ELSE total_duration + a.dur
    /\ pos' = pos + 1
    /\ UNCHANGED <<phase, files, trace, report, exitCode>>

\* One iteration of analyze_8gb_performance's loop: a new label gets an
\* empty group, then the group's count and duration and the total grow.
AccumulateAllocation ==
    /\ phase = "analyzing"
    /\ pos <= Len(trace)
    /\ LET a == trace[pos]
           t == Classify(a.size)
           g == IF t \in DOMAIN groups THEN groups
                ELSE WithNewGroup(t)
       IN  /\ groups' = [g EXCEPT ![t] = [count |-> @.count + 1,
                                          dur   |-> @.dur + a.dur]]
           /\ order' = IF t \in DOMAIN groups THEN order
                       ELSE Append(order, t)
           /\ total_duration' = total_duration + a.dur
    /\ pos' = pos + 1
    /\ UNCHANGED <<phase, files, trace, report, exitCode>>

\* max(allocation_groups.items(), key=total_duration_ms): the first label,
\* in insertion order, whose duration is largest.
Slowest ==
    LET best == {k \in 1..Len(order) :
                   \A j \in 1..Len(order) :
                      groups[order[j]].dur <= groups[order[k]].dur}
    IN  order[CHOOSE k \in best : \A j \in best : k <= j]

G1Structures == {"card_table_or_bot", "mark_bitmap"}

\* Mutant: the loop taken as finished one allocation early.
LoopDoneEarly == pos = Len(trace)

\* The for loop over allocations has run to its end.
LoopDone == pos = Len(trace) + 1
DurOf(t) == IF t \in DOMAIN groups THEN groups[t].dur ELSE 0
CountOf(t) == IF t \in DOMAIN groups THEN groups[t].count ELSE 0

\* _generate_8gb_insights, then print_colored_report, save_report and the
\* two unlinks.  max() of an empty dict raises ValueError, and the heap
\* share divides by total_duration; either escapes main() (status 1)
\* before the report and the cleanup.
GenerateInsights ==
    /\ phase = "analyzing"
    /\ LoopDone
    /\ \/ /\ DOMAIN groups = {}
          /\ Exit(1)
          /\ UNCHANGED <<files, report>>
       \/ /\ DOMAIN groups # {}
          /\ "heap_reserve" \in DOMAIN groups
          /\ total_duration = 0
          /\ Exit(1)
          /\ UNCHANGED <<files, report>>
       \/ /\ DOMAIN groups # {}
          /\ "heap_reserve" \in DOMAIN groups => total_duration # 0
          /\ report' = [slowest |-> Slowest,
                        heap    |-> DurOf("heap_reserve"),
                        g1      |-> DurOf("card_table_or_bot")
                                      + DurOf("mark_bitmap"),
                        total   |-> total_duration]
          /\ files' = {}
          /\ Exit(0)
    /\ UNCHANGED <<trace, pos, groups, order, total_duration>>

Next ==
    \/ Usage
    \/ Start
    \/ Compile
    \/ RunWithStrace
    \/ AccumulateAllocation
    \/ GenerateInsights

\* One process whose only unbounded wait is javac.
Spec == Init /\ [][Next]_vars /\ WF_vars(Next)

-----------------------------------------------------------------------------
(***************************************************************************)
(* Properties                                                              *)
(***************************************************************************)

\* The breakdown accounts for every allocation: the group counts add up
\* to the allocations parsed so far and the group durations to
\* total_duration, so the printed shares of the 8 GB heap reservation and
\* of the G1 structures are at most the whole.
GroupsAccountForAllocations ==
    phase = "analyzing" \/ report # NoReport =>
        /\ SumOverLabels(CountOf) = pos - 1
        /\ SumOverLabels(DurOf) = total_duration
        /\ report # NoReport => report.heap + report.g1 <= report.total

\* Unless javac blocks, the analyzer exits.
ExitsUnlessJavacBlocks == <>(phase \in {"exited", "javac_blocked"})

\* Whenever strace produced output, the analyzer ends with a report rather
\* than a traceback.
ReportForEveryTrace ==
    phase = "exited" /\ trace # NoOutput => report # NoReport
=============================================================================
