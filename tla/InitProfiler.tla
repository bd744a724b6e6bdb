----------------------------- MODULE InitProfiler -----------------------------
(***************************************************************************)
(* src/scripts/jvm-init-profiler.py: main() runs the JVM under strace      *)
(* (timeout=60), and when that yields output, generate_report parses the   *)
(* startup-time lines into timing_data, derives the critical path and the  *)
(* insights, and the report is printed and saved as JSON.                  *)
(*                                                                         *)
(* The strace output is the environment: none (TimeoutExpired, another     *)
(* exception, or an empty stderr) or the sequence of startup-time lines it *)
(* contains, each a phase name and a duration.  Durations are integers (in *)
(* microseconds, the log's three decimals of ms); for integers Python's    *)
(* (d / total) * 100 >= 5.0 is exactly 20 * d >= total.  The mmap lines    *)
(* feed only the printed memory totals and are left out.                   *)
(***************************************************************************)
EXTENDS Naturals, Sequences, FiniteSets, Functions

CONSTANTS
    Phases,         \* phase names the startup-time log can contain
    Durations,      \* their durations
    MaxLines,       \* bound on the number of startup-time lines
    NoOutput,       \* model value: run_with_strace returned ""
    NoReport,       \* model value: no report was produced
    NoExit          \* model value: the process has not exited

ASSUME ConstAssumption ==
    Durations \subseteq Nat /\ MaxLines \in Nat

TimingLine == [name : Phases, ms : Durations]
Outputs == UNION {[1..n -> TimingLine] : n \in 0..MaxLines}

\* parse_startup_time_log: timing_data[name] = duration for each line in
\* turn, so a repeated phase keeps its position of first insertion and
\* the duration of its last line.  The result is the items, in dict order.
FirstIndex(log, n) == CHOOSE k \in 1..Len(log) :
                          /\ log[k].name = n
                          /\ \A j \in 1..k - 1 : log[j].name # n
LastIndex(log, n) == CHOOSE k \in 1..Len(log) :
                         /\ log[k].name = n
                         /\ \A j \in k + 1..Len(log) : log[j].name # n
Items(log) ==
    LET firsts == {k \in 1..Len(log) : FirstIndex(log, log[k].name) = k}
        rank(k) == Cardinality({j \in firsts : j <= k})
    IN  [i \in 1..Cardinality(firsts) |->
           LET k == CHOOSE k \in firsts : rank(k) = i
           IN  [name |-> log[k].name, ms |-> log[LastIndex(log, log[k].name)].ms]]

\* sum(timing_data.values()).
ItemsTotal(items) == SumFunction([i \in DOMAIN items |-> items[i].ms])

\* Mutant: sorted without reverse=True, shortest first.
SortedAscending(items) ==
    LET before(j, i) == \/ items[j].ms < items[i].ms
                        \/ items[j].ms = items[i].ms /\ j < i
        pos(i) == Cardinality({j \in DOMAIN items : before(j, i)}) + 1
    IN  [p \in DOMAIN items |-> items[CHOOSE i \in DOMAIN items : pos(i) = p]]

\* sorted(timing_data.items(), key=duration, reverse=True): Python's sort
\* is stable, also when reversed, so equal durations keep dict order.
SortedByDuration(items) ==
    LET before(j, i) == \/ items[j].ms > items[i].ms
                        \/ items[j].ms = items[i].ms /\ j < i
        pos(i) == Cardinality({j \in DOMAIN items : before(j, i)}) + 1
    IN  [p \in DOMAIN items |-> items[CHOOSE i \in DOMAIN items : pos(i) = p]]

\* The loop "for ... in s: if Test(...): critical_path.append(...)": the
\* elements of s that pass Test, in the order of s.  This is SelectSeq,
\* written with the positions that pass ranked as Items ranks its keys.
KeepIf(s, Test(_)) ==
    LET J == {i \in 1..Len(s) : Test(s[i])}
        rank(i) == Cardinality({j \in J : j <= i})
    IN  [k \in 1..Cardinality(J) |-> s[CHOOSE i \in J : rank(i) = k]]

\* Mutant: the 5% cut taken as strictly more than 5%.
CriticalPathStrict(items) ==
    LET s == SortedByDuration(items)
    IN  KeepIf(s, LAMBDA it : 20 * it.ms > ItemsTotal(items))

\* analyze_critical_path: the sorted phases whose share of the total is at
\* least 5%, in sorted order.
CriticalPath(items) ==
    LET s == SortedByDuration(items)
    IN  KeepIf(s, LAMBDA it : 20 * it.ms >= ItemsTotal(items))

VARIABLES
    phase,      \* "start", "tracing", "exited"
    output,     \* what run_with_strace returned
    report,     \* the report's timing figures, once built
    exitCode    \* the process exit status

vars == <<phase, output, report, exitCode>>

Report == [timing : Seq(TimingLine), critical : Seq(TimingLine),
           total : Nat]

TypeOK ==
    /\ phase \in {"start", "tracing", "exited"}
    /\ output \in Outputs \cup {NoOutput}
    /\ report \in Report \cup {NoReport}
    /\ exitCode \in {0, 1, NoExit}

Init ==
    /\ phase = "start"
    /\ output = NoOutput
    /\ report = NoReport
    /\ exitCode = NoExit

\* main() without a class name prints the usage and returns.
Usage ==
    /\ phase = "start"
    /\ phase' = "exited"
    /\ exitCode' = 0
    /\ UNCHANGED <<output, report>>

\* main() with a class name: JVMInitProfiler(jvm_args=...).
Start ==
    /\ phase = "start"
    /\ phase' = "tracing"
    /\ UNCHANGED <<output, report, exitCode>>

\* run_with_strace, then main's "if not output: return", or
\* generate_report, print_colored_report and save_report.  With lines
\* whose durations are all zero, analyze_critical_path divides by a zero
\* total: ZeroDivisionError ends the process (status 1) without a report.
RunAndReport ==
    /\ phase = "tracing"
    /\ phase' = "exited"
    /\ \E out \in Outputs \cup {NoOutput} :
          /\ output' = out
          /\ \/ /\ out = NoOutput
                /\ exitCode' = 0
                /\ UNCHANGED report
             \/ /\ out # NoOutput
                /\ LET items == Items(out)
                   IN  \/ /\ Len(items) > 0 /\ ItemsTotal(items) = 0
                          /\ exitCode' = 1
                          /\ UNCHANGED report
                       \/ /\ Len(items) = 0 \/ ItemsTotal(items) > 0
                          /\ report' = [timing   |-> items,
                                        critical |-> CriticalPath(items),
                                        total    |-> ItemsTotal(items)]
                          /\ exitCode' = 0

Next == Usage \/ Start \/ RunAndReport

Spec == Init /\ [][Next]_vars

-----------------------------------------------------------------------------
(***************************************************************************)
(* Properties                                                              *)
(***************************************************************************)

\* The critical path lists every timed phase whose last logged duration is
\* at least 5% of the reported total, each once, longest first, and
\* nothing else.
CriticalPathIsSignificant ==
    report # NoReport =>
        LET cp == report.critical
        IN  /\ {cp[i] : i \in DOMAIN cp} =
                   {it \in {report.timing[k] : k \in DOMAIN report.timing} :
                      20 * it.ms >= report.total}
            /\ Len(cp) = Cardinality({cp[i] : i \in DOMAIN cp})
            /\ \A i \in 1..Len(cp) - 1 : cp[i].ms >= cp[i + 1].ms
=============================================================================
