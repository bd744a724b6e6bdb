---------------------------- MODULE VerifyAllPair ----------------------------
(***************************************************************************)
(* Two runs of verify_all_g1_analysis.py at once, e.g. two terminals or    *)
(* two CI jobs on one machine.  Each is a VerifyAll with its own state;    *)
(* they share /tmp, where both write, compile, run and finally delete     *)
(* the same /tmp/G1VerificationTest.java and G1VerificationTest.class.    *)
(* Each step is a step of one run; the other's state is unchanged.        *)
(***************************************************************************)
EXTENDS Naturals

CONSTANTS NULL, Unset, NoExit

VARIABLES
    phase1, step1, vres1, results1, exitCode1,
    phase2, step2, vres2, results2, exitCode2,
    files       \* the files in /tmp, shared

vars1 == <<phase1, step1, vres1, results1, exitCode1>>
vars2 == <<phase2, step2, vres2, results2, exitCode2>>
vars == <<vars1, vars2, files>>

Run1 == INSTANCE VerifyAll WITH phase <- phase1, step <- step1,
            vres <- vres1, results <- results1, exitCode <- exitCode1
Run2 == INSTANCE VerifyAll WITH phase <- phase2, step <- step2,
            vres <- vres2, results <- results2, exitCode <- exitCode2

TypeOK == Run1!TypeOK /\ Run2!TypeOK

Init == Run1!Init /\ Run2!Init

Next ==
    \/ Run1!Next /\ UNCHANGED vars2
    \/ Run2!Next /\ UNCHANGED vars1

Spec == Init /\ [][Next]_vars

-----------------------------------------------------------------------------
\* A run's own test program stays in /tmp from create_test_program until
\* its own cleanup: nothing else deletes /tmp/G1VerificationTest.java
\* while run 1 is verifying.
OwnSourcePresentWhileRunning ==
    phase1 = "running" => "java" \in files
=============================================================================
