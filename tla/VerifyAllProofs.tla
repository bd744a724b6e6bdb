--------------------------- MODULE VerifyAllProofs ---------------------------
(***************************************************************************)
(* Proofs about VerifyAll: the two closed 8 GiB computations the verifier  *)
(* makes (substituted by their values in MCVerifyAll), type correctness,   *)
(* the cleanup of the finally clause, the exit code of main(), and that  *)
(* the verifier implements VerifierContract.                               *)
(***************************************************************************)
EXTENDS VerifyAllRefinement, Sequences, FiniteSetTheorems, TLAPS

\* verify_heap_calculation's check holds: 8 GiB // 4 MiB == 2048.
THEOREM HeapCalculationPasses == HeapCalculationOK
  BY DEF HeapCalculationOK, region_count, MiB

\* verify_memory_overhead's check holds: the 16 MiB card table and 1.3 MiB
\* of remembered sets are less than 1% of the 8 GiB heap.
THEOREM MemoryOverheadPasses == MemoryOverheadOK
  BY DEF MemoryOverheadOK, cardtable_size, card_size, MiB

-----------------------------------------------------------------------------
\* The six verification names are distinct, and form a finite set.
LEMMA NamesDistinct ==
  \A j, k \in 1..6 : j # k => Verifications[j] # Verifications[k]
  BY DEF Verifications

LEMMA NamesFinite == IsFiniteSet(Names)
<1>1. Names = {"source_code"} \cup {"heap_calculation"}
                \cup {"memory_overhead"} \cup {"region_size"}
                \cup {"compressed_oops"} \cup {"gc_performance"}
  BY DEF Names, Verifications
<1>2. IsFiniteSet({"source_code"})
  BY FS_Singleton
<1>3. IsFiniteSet({"source_code"} \cup {"heap_calculation"})
  BY <1>2, FS_AddElement
<1>4. IsFiniteSet({"source_code"} \cup {"heap_calculation"}
                    \cup {"memory_overhead"})
  BY <1>3, FS_AddElement
<1>5. IsFiniteSet({"source_code"} \cup {"heap_calculation"}
                    \cup {"memory_overhead"} \cup {"region_size"})
  BY <1>4, FS_AddElement
<1>6. IsFiniteSet({"source_code"} \cup {"heap_calculation"}
                    \cup {"memory_overhead"} \cup {"region_size"}
                    \cup {"compressed_oops"})
  BY <1>5, FS_AddElement
<1>7. IsFiniteSet({"source_code"} \cup {"heap_calculation"}
                    \cup {"memory_overhead"} \cup {"region_size"}
                    \cup {"compressed_oops"} \cup {"gc_performance"})
  BY <1>6, FS_AddElement
<1>8. QED
  BY <1>1, <1>7

\* Counting the True results gives a natural number.
LEMMA PassedNat ==
  ASSUME NEW f \in [Names -> BOOLEAN \cup {Unset}]
  PROVE  Cardinality({n \in Names : f[n] = TRUE}) \in Nat
<1>1. IsFiniteSet({n \in Names : f[n] = TRUE})
  BY NamesFinite, FS_Subset
<1>2. QED
  BY <1>1, FS_CardinalityType

-----------------------------------------------------------------------------
(***************************************************************************)
(* The inductive invariant.  The verifications that have not returned     *)
(* have recorded nothing (Pending): this is what makes a handler that      *)
(* leaves through except without recording its verdict harmless.  A       *)
(* result is True exactly when its verdict is (Agree), so the exit code,   *)
(* computed once from the results (ExitOK), also counts the verdicts.      *)
(***************************************************************************)
Pending ==
    \A i \in 1..6 : i > step =>
        vres[Verifications[i]] = Unset /\ results[Verifications[i]] = Unset
Agree == \A n \in Names : results[n] = TRUE <=> vres[n] = TRUE
ExitOK == phase = "exited" /\ exitCode # 3 => exitCode = ExitCodeOf(Passed)

Inv == TypeOK /\ Pending /\ Agree /\ ExitOK /\ NoTmpFilesAfterExit

LEMMA InitInv == Init => Inv
  BY DEF Init, Inv, TypeOK, Pending, Agree, ExitOK, NoTmpFilesAfterExit,
         Names

\* The verification at position i returns a verdict and a result that
\* agree on being True; this keeps the invariant.
ReturnAct(i, v, ret) ==
    /\ Turn(i)
    /\ Return(Verifications[i], v, ret)
    /\ UNCHANGED <<phase, exitCode>>
    /\ files' \subseteq TmpFiles

\* A verdict and a return value that agree on being True.
Verdict(v, ret) ==
    /\ v \in {TRUE, FALSE, NULL, Unset}
    /\ ret \in BOOLEAN
    /\ (v = TRUE) <=> (ret = TRUE)

LEMMA ReturnStep ==
  ASSUME Inv, NEW i \in 1..6, NEW v, NEW ret, Verdict(v, ret),
         ReturnAct(i, v, ret)
  PROVE  Inv'
<1> v \in {TRUE, FALSE, NULL, Unset} /\ ret \in BOOLEAN
    /\ ((v = TRUE) <=> (ret = TRUE))
  BY DEF Verdict
<1> step = i - 1 /\ phase = "running" /\ Return(Verifications[i], v, ret)
    /\ UNCHANGED <<phase, exitCode>> /\ files' \subseteq TmpFiles
  BY DEF ReturnAct, Turn
<1> DEFINE name == Verifications[i]
<1>1. name \in Names
  BY DEF Names
<1>2. TypeOK'
  <2>1. vres' \in [Names -> {TRUE, FALSE, NULL, Unset}]
    BY <1>1 DEF Inv, TypeOK, Return
  <2>2. results' \in [Names -> BOOLEAN \cup {Unset}]
    BY <1>1 DEF Inv, TypeOK, Return
  <2>3. step' \in 0..6
    BY DEF Return
  <2>4. phase' = phase /\ exitCode' = exitCode
    OBVIOUS
  <2>5. QED
    BY <2>1, <2>2, <2>3, <2>4 DEF Inv, TypeOK
<1>3. Pending'
  BY NamesDistinct DEF Inv, Pending, Return, TypeOK
<1>4. Agree'
  <2> SUFFICES ASSUME NEW n \in Names PROVE results'[n] = TRUE <=> vres'[n] = TRUE
    BY DEF Agree
  <2>1. CASE n = name /\ v = Unset
    <3>1. vres[name] = Unset
      BY DEF Inv, Pending
    <3>2. QED
      BY <2>1, <3>1, SentinelAssumption DEF Inv, TypeOK, Return
  <2>2. CASE n = name /\ v # Unset
    BY <2>2, SentinelAssumption DEF Inv, TypeOK, Return
  <2>3. CASE n # name
    BY <2>3 DEF Inv, TypeOK, Return, Agree
  <2>4. QED
    BY <2>1, <2>2, <2>3
<1>5. (ExitOK /\ NoTmpFilesAfterExit)'
  BY DEF ExitOK, NoTmpFilesAfterExit
<1>6. QED
  BY <1>2, <1>3, <1>4, <1>5 DEF Inv

\* A step of the verifier or the user is one of six kinds: a verification
\* returning a verdict and a result that agree on being True, the
\* constructor, javac blocking, the summary, the interrupt, or a stutter.
ReturnSome ==
    \E i \in 1..6 : \E v, ret : Verdict(v, ret) /\ ReturnAct(i, v, ret)

LEMMA StepCases ==
  ASSUME Inv, [Next]_vars
  PROVE  \/ ReturnSome
         \/ Construct
         \/ Turn(4) /\ CompileHangs /\ UNCHANGED exitCode
         \/ Finish
         \/ Interrupt
         \/ UNCHANGED vars
<1>0. files \subseteq TmpFiles
  BY DEF Inv, TypeOK
<1>1. CASE Construct
  BY <1>1
<1>2. CASE VerifySourceCode
  <2>1. PICK present \in BOOLEAN :
          Return(Verifications[1], present, present)
    BY <1>2 DEF VerifySourceCode, Verifications
  <2>2. Verdict(present, present) /\ ReturnAct(1, present, present)
    BY <1>0, <1>2, <2>1 DEF VerifySourceCode, Verdict, ReturnAct
  <2>3. QED
    BY <2>2 DEF ReturnSome
<1>3. CASE VerifyHeapCalculation
  <2>1. HeapCalculationOK \in BOOLEAN
    BY DEF HeapCalculationOK
  <2>2. Verdict(HeapCalculationOK, HeapCalculationOK) /\ ReturnAct(2, HeapCalculationOK, HeapCalculationOK)
    BY <1>0, <1>3, <2>1 DEF VerifyHeapCalculation, Verdict, ReturnAct, Verifications
  <2>3. QED
    BY <2>2 DEF ReturnSome
<1>4. CASE VerifyMemoryOverhead
  <2>1. MemoryOverheadOK \in BOOLEAN
    BY DEF MemoryOverheadOK
  <2>2. Verdict(MemoryOverheadOK, MemoryOverheadOK) /\ ReturnAct(3, MemoryOverheadOK, MemoryOverheadOK)
    BY <1>0, <1>4, <2>1 DEF VerifyMemoryOverhead, Verdict, ReturnAct, Verifications
  <2>3. QED
    BY <2>2 DEF ReturnSome
<1>5. CASE VerifyRegionSize
  <2>1. CASE CompileHangs
    BY <1>5, <2>1 DEF VerifyRegionSize
  <2>2. CASE ~CompileHangs
    <3>0. /\ Turn(4) /\ UNCHANGED <<phase, exitCode>>
          /\ files' \subseteq TmpFiles
      BY <1>0, <1>5, <2>2 DEF VerifyRegionSize, CompileFails,
         RunRegionSizeProgram, TmpFiles
    <3>a. \/ Return(Verifications[4], Unset, FALSE)
          \/ Return(Verifications[4], TRUE, TRUE)
          \/ Return(Verifications[4], FALSE, FALSE)
          \/ Return(Verifications[4], NULL, FALSE)
      BY <1>5, <2>2 DEF VerifyRegionSize, CompileFails,
         RunRegionSizeProgram, Verifications
    <3>1. CASE Return(Verifications[4], Unset, FALSE)
      <4>1. Verdict(Unset, FALSE) /\ ReturnAct(4, Unset, FALSE)
        BY <3>0, <3>1, SentinelAssumption DEF Verdict, ReturnAct
      <4>2. 4 \in 1..6
        OBVIOUS
      <4>3. QED
        BY <4>1, <4>2 DEF ReturnSome
    <3>2. CASE Return(Verifications[4], TRUE, TRUE)
      <4>1. Verdict(TRUE, TRUE) /\ ReturnAct(4, TRUE, TRUE)
        BY <3>0, <3>2, SentinelAssumption DEF Verdict, ReturnAct
      <4>2. 4 \in 1..6
        OBVIOUS
      <4>3. QED
        BY <4>1, <4>2 DEF ReturnSome
    <3>3. CASE Return(Verifications[4], FALSE, FALSE)
      <4>1. Verdict(FALSE, FALSE) /\ ReturnAct(4, FALSE, FALSE)
        BY <3>0, <3>3, SentinelAssumption DEF Verdict, ReturnAct
      <4>2. 4 \in 1..6
        OBVIOUS
      <4>3. QED
        BY <4>1, <4>2 DEF ReturnSome
    <3>4. CASE Return(Verifications[4], NULL, FALSE)
      <4>1. Verdict(NULL, FALSE) /\ ReturnAct(4, NULL, FALSE)
        BY <3>0, <3>4, SentinelAssumption DEF Verdict, ReturnAct
      <4>2. 4 \in 1..6
        OBVIOUS
      <4>3. QED
        BY <4>1, <4>2 DEF ReturnSome
    <3>5. QED
      BY <3>a, <3>1, <3>2, <3>3, <3>4
  <2>3. QED
    BY <2>1, <2>2
<1>6. CASE VerifyCompressedOops
  <2>0. /\ Turn(5) /\ UNCHANGED <<phase, exitCode>>
        /\ files' \subseteq TmpFiles
    BY <1>0, <1>6 DEF VerifyCompressedOops
  <2>a. \/ Return(Verifications[5], TRUE, TRUE)
        \/ Return(Verifications[5], NULL, FALSE)
        \/ Return(Verifications[5], Unset, FALSE)
    BY <1>6 DEF VerifyCompressedOops, Verifications
  <2>1. CASE Return(Verifications[5], TRUE, TRUE)
    <3>1. Verdict(TRUE, TRUE) /\ ReturnAct(5, TRUE, TRUE)
      BY <2>0, <2>1, SentinelAssumption DEF Verdict, ReturnAct
    <3>2. 5 \in 1..6
      OBVIOUS
    <3>3. QED
      BY <3>1, <3>2 DEF ReturnSome
  <2>2. CASE Return(Verifications[5], NULL, FALSE)
    <3>1. Verdict(NULL, FALSE) /\ ReturnAct(5, NULL, FALSE)
      BY <2>0, <2>2, SentinelAssumption DEF Verdict, ReturnAct
    <3>2. 5 \in 1..6
      OBVIOUS
    <3>3. QED
      BY <3>1, <3>2 DEF ReturnSome
  <2>3. CASE Return(Verifications[5], Unset, FALSE)
    <3>1. Verdict(Unset, FALSE) /\ ReturnAct(5, Unset, FALSE)
      BY <2>0, <2>3, SentinelAssumption DEF Verdict, ReturnAct
    <3>2. 5 \in 1..6
      OBVIOUS
    <3>3. QED
      BY <3>1, <3>2 DEF ReturnSome
  <2>4. QED
    BY <2>a, <2>1, <2>2, <2>3
<1>7. CASE VerifyGcPerformance
  <2>0. /\ Turn(6) /\ UNCHANGED <<phase, exitCode>>
        /\ files' \subseteq TmpFiles
    BY <1>0, <1>7 DEF VerifyGcPerformance
  <2>a. \/ Return(Verifications[6], Unset, FALSE)
        \/ Return(Verifications[6], NULL, FALSE)
        \/ Return(Verifications[6], TRUE, TRUE)
        \/ Return(Verifications[6], FALSE, FALSE)
    BY <1>7 DEF VerifyGcPerformance, Verifications
  <2>1. CASE Return(Verifications[6], Unset, FALSE)
    <3>1. Verdict(Unset, FALSE) /\ ReturnAct(6, Unset, FALSE)
      BY <2>0, <2>1, SentinelAssumption DEF Verdict, ReturnAct
    <3>2. 6 \in 1..6
      OBVIOUS
    <3>3. QED
      BY <3>1, <3>2 DEF ReturnSome
  <2>2. CASE Return(Verifications[6], NULL, FALSE)
    <3>1. Verdict(NULL, FALSE) /\ ReturnAct(6, NULL, FALSE)
      BY <2>0, <2>2, SentinelAssumption DEF Verdict, ReturnAct
    <3>2. 6 \in 1..6
      OBVIOUS
    <3>3. QED
      BY <3>1, <3>2 DEF ReturnSome
  <2>3. CASE Return(Verifications[6], TRUE, TRUE)
    <3>1. Verdict(TRUE, TRUE) /\ ReturnAct(6, TRUE, TRUE)
      BY <2>0, <2>3, SentinelAssumption DEF Verdict, ReturnAct
    <3>2. 6 \in 1..6
      OBVIOUS
    <3>3. QED
      BY <3>1, <3>2 DEF ReturnSome
  <2>4. CASE Return(Verifications[6], FALSE, FALSE)
    <3>1. Verdict(FALSE, FALSE) /\ ReturnAct(6, FALSE, FALSE)
      BY <2>0, <2>4, SentinelAssumption DEF Verdict, ReturnAct
    <3>2. 6 \in 1..6
      OBVIOUS
    <3>3. QED
      BY <3>1, <3>2 DEF ReturnSome
  <2>5. QED
    BY <2>a, <2>1, <2>2, <2>3, <2>4
<1>8. CASE Finish
  BY <1>8
<1>9. CASE Interrupt
  BY <1>9
<1>10. CASE UNCHANGED vars
  BY <1>10
<1>11. QED
  BY <1>1, <1>2, <1>3, <1>4, <1>5, <1>6, <1>7, <1>8, <1>9, <1>10
  DEF Next, ProgramStep

\* A step of the verifier or the user keeps the invariant.
LEMMA InvStep == Inv /\ [Next]_vars => Inv'
<1> SUFFICES ASSUME Inv, [Next]_vars PROVE Inv'
  OBVIOUS
<1>1. CASE ReturnSome
  <2>1. PICK i \in 1..6 : \E v, ret : Verdict(v, ret) /\ ReturnAct(i, v, ret)
    BY <1>1 DEF ReturnSome
  <2>2. PICK v, ret : Verdict(v, ret) /\ ReturnAct(i, v, ret)
    BY <2>1
  <2>3. QED
    BY <2>2, ReturnStep
<1>2. CASE Construct
  BY <1>2 DEF Construct, Inv, TypeOK, TmpFiles, Pending, Agree, ExitOK,
              NoTmpFilesAfterExit
<1>3. CASE Turn(4) /\ CompileHangs /\ UNCHANGED exitCode
  BY <1>3 DEF CompileHangs, Turn, Inv, TypeOK, Pending, Agree, ExitOK,
              NoTmpFilesAfterExit
<1>4. CASE Finish
  BY <1>4 DEF Finish, ExitCodeOf, Passed, Inv, TypeOK, Pending, Agree,
              ExitOK, NoTmpFilesAfterExit
<1>5. CASE Interrupt
  BY <1>5 DEF Interrupt, Inv, TypeOK, Pending, Agree, ExitOK,
              NoTmpFilesAfterExit
<1>6. CASE UNCHANGED vars
  BY <1>6 DEF vars, Inv, TypeOK, Pending, Agree, ExitOK, Passed,
              NoTmpFilesAfterExit
<1>7. QED
  BY <1>1, <1>2, <1>3, <1>4, <1>5, <1>6, StepCases

LEMMA InvHolds == Spec => []Inv
  BY InitInv, InvStep, PTL DEF Spec

\* Whatever the tools print, the verifier's state keeps its types: six
\* steps at most, every verdict True, False, None or unset, every result
\* a bool or unset, and an exit code of 0..3.
THEOREM TypeCorrect == Spec => []TypeOK
<1>1. Inv => TypeOK
  BY DEF Inv
<1>2. QED
  BY <1>1, InvHolds, PTL

\* The finally clause of main() removes the Java source and the class
\* file however the verifier exits, a KeyboardInterrupt included.
THEOREM NoTmpFilesAfterExitHolds == Spec => []NoTmpFilesAfterExit
<1>1. Inv => NoTmpFilesAfterExit
  BY DEF Inv
<1>2. QED
  BY <1>1, InvHolds, PTL

\* main()'s exit code, computed from the results run_all_verifications
\* returns, counts the True verdicts of verification_results: 0 when all
\* six passed, 1 when at least five did.
THEOREM ExitCodeMatchesVerdictsHolds == Spec => []ExitCodeMatchesVerdicts
<1>1. Inv => ExitCodeMatchesVerdicts
  <2> SUFFICES ASSUME Inv, phase = "exited", exitCode # 3
               PROVE  LET recorded == Cardinality({n \in Names : vres[n] = TRUE})
                      IN  /\ (exitCode = 0) <=> (recorded = 6)
                          /\ (exitCode \in {0, 1}) <=> (recorded >= 5)
    BY DEF ExitCodeMatchesVerdicts
  <2>1. {n \in Names : vres[n] = TRUE} = {n \in Names : results[n] = TRUE}
    BY DEF Inv, Agree
  <2>2. Passed \in Nat
    BY PassedNat DEF Inv, TypeOK, Passed
  <2>3. exitCode = ExitCodeOf(Passed)
    BY DEF Inv, ExitOK
  <2>4. Cardinality({n \in Names : vres[n] = TRUE}) = Passed
    BY <2>1 DEF Passed
  <2>5. QED
    BY <2>2, <2>3, <2>4 DEF ExitCodeOf
<1>2. QED
  BY <1>1, InvHolds, PTL

-----------------------------------------------------------------------------
(***************************************************************************)
(* The refinement.  The contract's names are the verifications' keys, and  *)
(* its outcome is Running until the verifier exits.  A verification that  *)
(* returns is a Record; the summary is a Conclude because the results it  *)
(* counts are True exactly where the verdicts are (Agree).                *)
(***************************************************************************)
LEMMA ContractNames ==
  Len(Verifications) = 6 /\ Contract!CheckNames = Names
  BY DEF Verifications, Contract!CheckNames, Names

LEMMA RefineInit == Init => Contract!Init
  BY ContractNames DEF Init, Contract!Init

LEMMA RefineStep == Inv /\ [Next]_vars => [Contract!Next]_Contract!vars
<1> SUFFICES ASSUME Inv, [Next]_vars PROVE [Contract!Next]_Contract!vars
  OBVIOUS
<1>0. Len(Verifications) = 6 /\ Contract!CheckNames = Names
  BY ContractNames
<1>1. CASE ReturnSome
  <2>1. PICK i \in 1..6 : \E v, ret : Verdict(v, ret) /\ ReturnAct(i, v, ret)
    BY <1>1 DEF ReturnSome
  <2>2. PICK v, ret : Verdict(v, ret) /\ ReturnAct(i, v, ret)
    BY <2>1
  <2>3. /\ v \in {TRUE, FALSE, NULL, Unset}
        /\ phase = "running" /\ phase' = "running" /\ step = i - 1
        /\ Return(Verifications[i], v, ret)
    BY <2>2 DEF Verdict, ReturnAct, Turn
  <2>4. i = step + 1 /\ step < 6
    BY <2>3
  <2>5. /\ vres' = IF v = Unset THEN vres
                   ELSE [vres EXCEPT ![Verifications[step + 1]] = v]
        /\ step' = step + 1
    BY <2>3, <2>4 DEF Return
  <2>6. Contract!Record
    <3>1. (IF phase = "exited" THEN exitCode ELSE NoExit) = NoExit
          /\ (IF phase' = "exited" THEN exitCode' ELSE NoExit) = NoExit
      BY <2>3
    <3>2. QED
      BY <1>0, <2>3, <2>4, <2>5, <3>1, Zenon DEF Contract!Record
  <2>7. QED
    BY <2>6 DEF Contract!Next
<1>2. CASE Construct \/ (Turn(4) /\ CompileHangs /\ UNCHANGED exitCode)
  <2>1. phase # "exited" /\ phase' # "exited" /\ UNCHANGED <<vres, step>>
    BY <1>2 DEF Construct, Turn, CompileHangs
  <2>2. QED
    BY <2>1 DEF Contract!vars
<1>3. CASE Finish
  <2>1. {n \in Names : results[n] = TRUE} = {n \in Names : vres[n] = TRUE}
    BY DEF Inv, Agree
  <2>2. exitCode' = ExitCodeOf(Cardinality({n \in Names : vres[n] = TRUE}))
    BY <1>3, <2>1 DEF Finish, Passed
  <2>3. /\ phase = "running" /\ phase' = "exited" /\ step = 6
        /\ UNCHANGED <<vres, step>>
    BY <1>3 DEF Finish
  <2>4. Contract!ExitStatus(Cardinality({n \in Names : vres[n] = TRUE}))
          = ExitCodeOf(Cardinality({n \in Names : vres[n] = TRUE}))
    BY <1>0 DEF ExitCodeOf, Contract!ExitStatus
  <2>5. Contract!Cardinality({n \in Names : vres[n] = TRUE})
          = Cardinality({n \in Names : vres[n] = TRUE})
    BY DEF Contract!Cardinality, Cardinality
  <2>7. Contract!Conclude
    BY <1>0, <2>2, <2>3, <2>4, <2>5 DEF Contract!Conclude
  <2>8. QED
    BY <2>7 DEF Contract!Next
<1>4. CASE Interrupt
  <2>1. Contract!Abort
    BY <1>4 DEF Interrupt, Contract!Abort
  <2>2. QED
    BY <2>1 DEF Contract!Next
<1>5. CASE UNCHANGED vars
  BY <1>5 DEF vars, Contract!vars
<1>6. QED
  BY <1>1, <1>2, <1>3, <1>4, <1>5, StepCases

\* The verifier implements its contract: it runs the verifications of its
\* list in order, each recording at most one verdict under its own key,
\* and exits with the status of the recorded True verdicts, or 3 on a
\* KeyboardInterrupt.
THEOREM VerifierContractRefined == Spec => ImplementsVerifierContract
<1>1. Init => Contract!Init
  BY RefineInit
<1>2. Inv /\ [Next]_vars => [Contract!Next]_Contract!vars
  BY RefineStep
<1>3. QED
  BY <1>1, <1>2, InvHolds, PTL DEF Spec, ImplementsVerifierContract,
                                   Contract!Spec

=============================================================================
