------------------------- MODULE VerifyAllRefinement -------------------------
(***************************************************************************)
(* verify_all_g1_analysis.py implements VerifierContract.  The contract's  *)
(* verdicts are verification_results, its count of finished verifications *)
(* is step, and its outcome is the exit code once the process has exited. *)
(* Construct and a javac that blocks are stutters of the contract; each   *)
(* verify_* method is a Record, Finish is Conclude and Interrupt is       *)
(* Abort.  The exit code is computed from the returned results, not from  *)
(* the recorded verdicts, so Finish maps to Conclude only if the two      *)
(* agree on which verifications passed.                                   *)
(***************************************************************************)
EXTENDS VerifyAll

Contract == INSTANCE VerifierContract
              WITH Checks   <- Verifications,
                   verdicts <- vres,
                   done     <- step,
                   outcome  <- IF phase = "exited" THEN exitCode ELSE NoExit,
                   Running  <- NoExit

\* The verifier runs its verifications in list order, each recording at
\* most one verdict under its own key, and exits with the status of the
\* recorded True verdicts, or 3 when interrupted.
ImplementsVerifierContract == Contract!Spec
=============================================================================
