-------------------------- MODULE VerifierContract --------------------------
(***************************************************************************)
(* What verify_all_g1_analysis.py promises, without its tools and files:  *)
(* the verifications of its list run one after the other, each records at *)
(* most one verdict under its own key, and the process then exits with    *)
(* the status that counts the verifications that recorded True (0 all,    *)
(* 1 at least 80%, 2 otherwise), or with 3 when the user interrupts it.   *)
(***************************************************************************)
EXTENDS Naturals, Sequences, FiniteSets

CONSTANTS
    Checks,     \* the verifications, in the order they run
    NULL,       \* the verdict None: neither True nor False
    Unset,      \* no verdict recorded
    Running     \* the process has not exited

VARIABLES
    verdicts,   \* the verdict recorded under each verification's key
    done,       \* how many verifications have finished
    outcome     \* Running, or the exit status

vars == <<verdicts, done, outcome>>

CheckNames == {Checks[i] : i \in 1..Len(Checks)}

\* The status main() derives from the number of verifications that passed.
ExitStatus(passed) ==
    IF passed = Len(Checks) THEN 0
    ELSE IF passed * 10 >= Len(Checks) * 8 THEN 1
    ELSE 2

Init ==
    /\ verdicts = [n \in CheckNames |-> Unset]
    /\ done = 0
    /\ outcome = Running

\* The next verification of the list finishes: it records a verdict under
\* its key, or none when it leaves through an exception handler.
Record ==
    /\ outcome = Running
    /\ done < Len(Checks)
    /\ \E v \in {TRUE, FALSE, NULL, Unset} :
          verdicts' = IF v = Unset THEN verdicts
                      ELSE [verdicts EXCEPT ![Checks[done + 1]] = v]
    /\ done' = done + 1
    /\ UNCHANGED outcome

\* After the last verification the process exits with the status of the
\* recorded True verdicts.
Conclude ==
    /\ outcome = Running
    /\ done = Len(Checks)
    /\ outcome' = ExitStatus(Cardinality({n \in CheckNames : verdicts[n] = TRUE}))
    /\ UNCHANGED <<verdicts, done>>

\* A KeyboardInterrupt at any point before the exit: status 3.
Abort ==
    /\ outcome = Running
    /\ outcome' = 3
    /\ UNCHANGED <<verdicts, done>>

Next == Record \/ Conclude \/ Abort

Spec == Init /\ [][Next]_vars
=============================================================================
