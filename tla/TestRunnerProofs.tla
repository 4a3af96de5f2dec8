-------------------------- MODULE TestRunnerProofs --------------------------
(***************************************************************************)
(* Proofs about the test suite, for any number of tests, CMD lines and     *)
(* engines and any results: the type invariant, that leftovers on disk     *)
(* belong to failed runs and no set-up but one after such a run meets      *)
(* them, and that the script's exit code is the verdict on all runs.       *)
(***************************************************************************)
EXTENDS TestRunner, TLAPS

(* Where the loops stand when run_test_suite and main go on. *)
Position ==
    /\ pc \in {"suite", "summary"} => engine = Len(EngineNames) /\ run = NumRuns
    /\ pc = "summary" => test = NumTests
    /\ pc \in Steps \ {"summary", "exited"} => success_count <= test - 1

TInv == TypeOK /\ Position

LEMMA LabelValues ==
    /\ Label["native"]["setup"] = "native_setup" /\ Label["wasm"]["setup"] = "wasm_setup"
    /\ Label["native"]["test"] = "native_test" /\ Label["wasm"]["test"] = "wasm_test"
    /\ Label["native"]["cleanup"] = "native_cleanup" /\ Label["wasm"]["cleanup"] = "wasm_cleanup"
BY DEF Label

LEMMA EnginesRange == Engines = 1..Len(EngineNames) /\ Len(EngineNames) \in Nat \ {0}
BY SuiteAssumption DEF Engines

LEMMA InitTInv == Init => TInv
<1> SUFFICES ASSUME Init PROVE TInv OBVIOUS
<1> USE SuiteAssumption, EnginesRange
<1>1. returncode \in [Sides -> Int] BY DEF Init, Fresh
<1>2. outcome \in [Tests \X Engines \X Runs -> {"none", "pass", "fail"}] BY DEF Init
<1>3. pc \in Steps /\ test \in Tests /\ engine \in Engines /\ run \in Runs
  BY DEF Init, Steps, Tests, Runs
<1>4. success_count \in 0..NumTests /\ exit_code \in {Unset, 0, 1} /\ failed_runs \subseteq Runs
      /\ fixtures \subseteq Tests \X Runs /\ env_files \subseteq Tests \X Runs
  BY DEF Init
<1>5. Position BY DEF Init, Position
<1> QED BY <1>1, <1>2, <1>3, <1>4, <1>5 DEF TInv, TypeOK

(* Recording a verdict, and leaving with a traceback, keep the types. *)
LEMMA ReturnTInv ==
    ASSUME TInv, NEW success \in BOOLEAN, Return(success), pc \in Steps \ {"suite", "summary", "exited"}
    PROVE  /\ pc' \in Steps /\ test' \in Tests /\ engine' \in Engines /\ run' \in Runs
           /\ failed_runs' \subseteq Runs /\ success_count' \in 0..NumTests
           /\ exit_code' \in {Unset, 0, 1}
           /\ outcome' \in [Tests \X Engines \X Runs -> {"none", "pass", "fail"}]
           /\ Position'
<1>1. outcome' \in [Tests \X Engines \X Runs -> {"none", "pass", "fail"}]
  BY DEF TInv, TypeOK, Return
<1>2. failed_runs' \subseteq Runs BY DEF TInv, TypeOK, Return
<1>3. pc' = "returned" /\ UNCHANGED <<loops, success_count, exit_code>> BY DEF Return
<1>4. pc' \in Steps BY <1>3 DEF Steps
<1>5. Position' BY <1>3 DEF TInv, Position, Steps, loops
<1> QED BY <1>1, <1>2, <1>3, <1>4, <1>5 DEF TInv, TypeOK, loops

(* Every code a test may end with is an integer. *)
LEMMA StartInt ==
    \A s \in Sides : \A i, d \in EngineValues(s), t \in ReturnValues : wali_start(i, t, d) \in Int
<1> SUFFICES ASSUME NEW s \in Sides, NEW i \in EngineValues(s), NEW d \in EngineValues(s),
                    NEW t \in ReturnValues
             PROVE  wali_start(i, t, d) \in Int
  OBVIOUS
<1>1. i \in Int /\ t \in Int /\ d \in Int BY SuiteAssumption DEF EngineValues
<1>2. \A n \in Int : n % 256 \in Int BY SMT
<1> QED BY <1>1, <1>2 DEF wali_start

LEMMA SignalsInt == \A n \in Signals : -n \in Int
BY SuiteAssumption

LEMMA NextTInv == TInv /\ [Next]_vars => TInv'
<1> SUFFICES ASSUME TInv, [Next]_vars PROVE TInv' OBVIOUS
<1> USE SuiteAssumption, EnginesRange
<1>0. /\ test \in Nat /\ engine \in Nat /\ run \in Nat /\ success_count \in Nat /\ NumTests \in Nat
      /\ Here \in Tests \X Runs
      /\ Fresh \in [Sides -> Int] /\ 1 \in Int
  BY DEF TInv, TypeOK, Tests, Runs, Here, Fresh
<1>1. ASSUME Case PROVE TInv'
  <2>1. CASE GoOn("native_setup")
    BY <1>0, <1>1, <2>1 DEF Case, GoOn, TInv, TypeOK, Position, Steps, loops, tally, disk
  <2>2. CASE Return(FALSE)
    BY <1>0, <1>1, <2>2, ReturnTInv DEF Case, TInv, TypeOK, Steps, disk
  <2> QED BY <1>1, <2>1, <2>2 DEF Case
<1>2. ASSUME CommandMissing PROVE TInv'
  BY <1>0, <1>2, LabelValues, ZenonT(60)
     DEF CommandMissing, At, Then, GoOn, Raise, TInv, TypeOK, Position, Steps, loops, tally, Sides
<1>3. ASSUME WriteEnv PROVE TInv'
  BY <1>0, <1>3 DEF WriteEnv, GoOn, TInv, TypeOK, Position, Steps, loops, tally
<1>4. ASSUME Compare PROVE TInv'
  BY <1>0, <1>4, ReturnTInv DEF Compare, TInv, TypeOK, Steps
<1>5. ASSUME NextCase PROVE TInv'
  <2>1. pc = "returned" /\ UNCHANGED <<returncode, disk, success_count, exit_code, outcome>>
        /\ test' = test /\ pc' \in {"case", "suite"}
    BY <1>5 DEF NextCase
  <2>2. engine' \in Engines /\ run' \in Runs /\ failed_runs' \subseteq Runs
        /\ (pc' = "suite" => engine' = Len(EngineNames) /\ run' = NumRuns)
    <3>1. engine \in 1..Len(EngineNames) /\ run \in 1..NumRuns /\ failed_runs \subseteq Runs
      BY DEF TInv, TypeOK, Runs
    <3>2. CASE run < NumRuns /\ run' = run + 1 /\ pc' = "case" /\ UNCHANGED <<engine, failed_runs>>
      BY <1>0, <3>1, <3>2 DEF Runs
    <3>3. CASE engine < Len(EngineNames) /\ engine' = engine + 1 /\ run' = 1
               /\ failed_runs' = {} /\ pc' = "case"
      BY <1>0, <3>1, <3>3 DEF Runs
    <3>4. CASE run = NumRuns /\ ~(engine < Len(EngineNames)) /\ pc' = "suite"
               /\ UNCHANGED <<engine, run, failed_runs>>
      BY <1>0, <3>1, <3>4 DEF Runs
    <3> QED BY <1>5, <3>2, <3>3, <3>4 DEF NextCase
  <2>3. Position'
    BY <2>1, <2>2 DEF TInv, Position, Steps
  <2>4. TypeOK'
    BY <2>1, <2>2 DEF TInv, TypeOK, Steps, disk
  <2> QED BY <2>3, <2>4 DEF TInv
<1>6. ASSUME SuiteEnds PROVE TInv'
  <2>1. success_count' = success_count \/ success_count' = success_count + 1
    BY <1>0, <1>6 DEF SuiteEnds
  <2>2. pc = "suite" /\ UNCHANGED <<returncode, disk, exit_code, outcome>>
        /\ success_count <= test - 1
    BY <1>6 DEF SuiteEnds, TInv, Position, Steps
  <2>3. CASE test < NumTests
    <3>1. test' = test + 1 /\ engine' = 1 /\ run' = 1 /\ failed_runs' = {} /\ pc' = "case"
      BY <1>6, <2>3 DEF SuiteEnds
    <3>2. test' \in Tests /\ engine' \in Engines /\ run' \in Runs /\ failed_runs' \subseteq Runs
          /\ pc' \in Steps
      BY <1>0, <2>3, <3>1 DEF Tests, Runs, Steps
    <3>3. success_count' \in 0..NumTests /\ success_count' <= test' - 1
      BY <1>0, <2>1, <2>2, <2>3, <3>1
    <3>4. Position' BY <3>1, <3>3 DEF Position
    <3> QED BY <2>2, <3>2, <3>3, <3>4 DEF TInv, TypeOK, disk
  <2>4. CASE ~(test < NumTests)
    <3>1. pc' = "summary" /\ UNCHANGED <<test, engine, run, failed_runs>>
      BY <1>6, <2>4 DEF SuiteEnds, loops
    <3>2. test = NumTests /\ engine = Len(EngineNames) /\ run = NumRuns
      BY <1>0, <2>2, <2>4 DEF TInv, TypeOK, Position, Tests
    <3>3. success_count' \in 0..NumTests BY <1>0, <2>1, <2>2, <3>2
    <3>4. Position' BY <3>1, <3>2 DEF Position
    <3>5. pc' \in Steps BY <3>1 DEF Steps
    <3> QED BY <2>2, <3>1, <3>3, <3>4, <3>5 DEF TInv, TypeOK, disk
  <2> QED BY <2>3, <2>4
<1>7. ASSUME Summary PROVE TInv'
  BY <1>0, <1>7 DEF Summary, TInv, TypeOK, Position, Steps, disk, loops
<1>8. ASSUME NEW s \in Sides, Setup(s) \/ Cleanup(s) PROVE TInv'
  <2>1. /\ pc \in Steps \ {"suite", "summary", "exited"}
        /\ pc' \in {"native_test", "wasm_test", "write_env", "compare"}
        /\ UNCHANGED <<test, engine, run, failed_runs, success_count, exit_code, outcome>>
    BY <1>8, LabelValues
       DEF Setup, Cleanup, AfterCleanup, At, Then, GoOn, loops, tally, Sides, Steps
  <2>2. /\ fixtures' \subseteq Tests \X Runs /\ env_files' \subseteq Tests \X Runs
        /\ returncode' \in [Sides -> Int]
    BY <1>0, <1>8 DEF Setup, Cleanup, TInv, TypeOK
  <2> QED BY <2>1, <2>2 DEF TInv, TypeOK, Position, Steps
<1>9. ASSUME NEW s \in Sides, SetupFails(s) PROVE TInv'
  <2>1. pc \in {"native_setup", "wasm_setup"} /\ pc' \in {"native_cleanup", "wasm_cleanup"}
        /\ UNCHANGED <<test, engine, run, failed_runs, success_count, exit_code, outcome>>
    BY <1>9, LabelValues DEF SetupFails, At, Then, GoOn, loops, tally, Sides
  <2>2. fixtures' \subseteq Tests \X Runs /\ env_files' \subseteq Tests \X Runs
        /\ returncode' \in [Sides -> Int]
    <3>1. \A c \in HookValues : c % 256 \in Int BY SMT
    <3> QED BY <1>0, <1>9, <3>1 DEF SetupFails, GoOn, TInv, TypeOK
  <2> QED BY <2>1, <2>2 DEF TInv, TypeOK, Position, Steps
<1>10. ASSUME NEW s \in Sides, TestEnds(s) PROVE TInv'
  <2>1. pc \in {"native_test", "wasm_test"} /\ pc' \in {"native_cleanup", "wasm_cleanup"}
        /\ UNCHANGED <<test, engine, run, failed_runs, success_count, exit_code, outcome, disk>>
    BY <1>10, LabelValues DEF TestEnds, At, Then, GoOn, loops, tally, Sides
  <2>2. \E c \in Int : returncode' = [returncode EXCEPT ![s] = c]
    BY <1>0, <1>10, StartInt, SignalsInt DEF TestEnds
  <2>3. returncode' \in [Sides -> Int] BY <2>2 DEF TInv, TypeOK
  <2> QED BY <2>1, <2>3 DEF TInv, TypeOK, Position, Steps, disk
<1>11. ASSUME NEW s \in Sides, TimesOut(s) PROVE TInv'
  <2>1. pc \in Steps \ {"suite", "summary", "exited"} /\ Return(FALSE)
    BY <1>11, LabelValues DEF TimesOut, At, Sides, Steps
  <2> QED BY <1>0, <1>11, <2>1, ReturnTInv DEF TimesOut, TInv, TypeOK
<1>12. ASSUME NEW s \in Sides, CleanupFails(s) PROVE TInv'
  <2>1. pc \in Steps \ {"suite", "summary", "exited"} /\ Return(FALSE)
    BY <1>12, LabelValues DEF CleanupFails, At, Sides, Steps
  <2> QED BY <1>0, <1>12, <2>1, ReturnTInv DEF CleanupFails, TInv, TypeOK
<1>13. ASSUME NEW s \in Sides, Undecodable(s) PROVE TInv'
  BY <1>0, <1>13 DEF Undecodable, Raise, TInv, TypeOK, Position, Steps, loops, disk
<1>14. ASSUME UNCHANGED vars PROVE TInv'
  BY <1>14 DEF vars, loops, disk, tally, TInv, TypeOK, Position
<1> QED BY <1>1, <1>2, <1>3, <1>4, <1>5, <1>6, <1>7, <1>8, <1>9, <1>10, <1>11, <1>12, <1>13,
           <1>14 DEF Next

(* Every variable keeps its type: the loops stay within the suite, and     *)
(* main never counts more passing tests than there are.                    *)
THEOREM TypeCorrect == Spec => []TypeOK
<1>1. TInv => TypeOK BY DEF TInv
<1> QED BY InitTInv, NextTInv, <1>1, PTL DEF Spec

-----------------------------------------------------------------------------
(* The run that t, e and r name is the current one and not yet decided, or *)
(* comes after it.                                                         *)
Ahead(t, e, r) ==
    \/ t > test
    \/ t = test /\ e > engine
    \/ t = test /\ e = engine /\ r > run
    \/ t = test /\ e = engine /\ r = run /\ pc \notin {"returned", "suite", "summary"}

Undecided ==
    pc # "exited" => \A t \in Tests, e \in Engines, r \in Runs :
                       Ahead(t, e, r) => outcome[<<t, e, r>>] = "none"

LEMMA RunsInt == TInv => run \in Int /\ NumRuns \in Int /\ \A r \in Runs : r \in 1..NumRuns
BY SuiteAssumption DEF TInv, TypeOK, Runs

LEMMA EnginesInt == TInv => engine \in Int /\ \A e \in Engines : e \in 1..Len(EngineNames)
BY EnginesRange DEF TInv, TypeOK

LEMMA ReturnUndecided ==
    ASSUME TInv, Undecided, NEW success \in BOOLEAN, Return(success),
           pc \in Steps \ {"suite", "summary", "exited"}
    PROVE  Undecided'
<1> SUFFICES ASSUME NEW t \in Tests, NEW e \in Engines, NEW r \in Runs, Ahead(t, e, r)'
             PROVE  outcome'[<<t, e, r>>] = "none"
  BY DEF Undecided
<1>1. pc' = "returned" /\ UNCHANGED <<test, engine, run>> BY DEF Return, loops
<1>2. Ahead(t, e, r) /\ ~(t = test /\ e = engine /\ r = run)
  <2>1. test \in Nat /\ run \in Nat /\ engine \in Nat
    BY SuiteAssumption, EnginesRange DEF TInv, TypeOK, Tests, Runs
  <2> QED BY <1>1, <2>1 DEF Ahead
<1>3. outcome[<<t, e, r>>] = "none" BY <1>2 DEF Undecided
<1>4. <<t, e, r>> # <<test, engine, run>> BY <1>2
<1>5. outcome'[<<t, e, r>>] = outcome[<<t, e, r>>]
  BY <1>4 DEF Return, TInv, TypeOK
<1> QED BY <1>3, <1>5

LEMMA NextUndecided == TInv /\ Undecided /\ [Next]_vars => Undecided'
<1> SUFFICES ASSUME TInv, Undecided, [Next]_vars PROVE Undecided' OBVIOUS
<1> USE SuiteAssumption, EnginesRange
<1>1. ASSUME NEW l \in Steps \ {"returned", "suite", "summary"}, GoOn(l),
             pc \in Steps \ {"returned", "suite", "summary", "exited"}
      PROVE  Undecided'
  BY <1>1 DEF GoOn, loops, tally, Undecided, Ahead
<1>2. ASSUME Raise PROVE Undecided' BY <1>2 DEF Raise, Undecided
<1>3. CASE Case BY <1>1, <1>3, ReturnUndecided DEF Case, Steps
<1>4. CASE CommandMissing
  BY <1>1, <1>2, <1>4, LabelValues DEF CommandMissing, At, Then, Steps
<1>5. CASE WriteEnv BY <1>1, <1>5 DEF WriteEnv, Steps
<1>6. CASE Compare BY <1>6, ReturnUndecided DEF Compare, Steps
<1>7. CASE NextCase
  <2>1. CASE run < NumRuns
    <3>1. pc = "returned" /\ run' = run + 1 /\ UNCHANGED <<test, engine, outcome>>
      BY <1>7, <2>1, RunsInt DEF NextCase
    <3> SUFFICES ASSUME NEW t \in Tests, NEW e \in Engines, NEW r \in Runs, Ahead(t, e, r)'
                 PROVE  outcome'[<<t, e, r>>] = "none"
      BY DEF Undecided
    <3>2. Ahead(t, e, r)
      BY <3>1, RunsInt DEF Ahead
    <3> QED BY <3>1, <3>2 DEF Undecided
  <2>2. CASE run = NumRuns /\ engine < Len(EngineNames)
    <3>1. pc = "returned" /\ engine' = engine + 1 /\ UNCHANGED <<test, outcome>>
      BY <1>7, <2>2, RunsInt DEF NextCase
    <3> SUFFICES ASSUME NEW t \in Tests, NEW e \in Engines, NEW r \in Runs, Ahead(t, e, r)'
                 PROVE  outcome'[<<t, e, r>>] = "none"
      BY DEF Undecided
    <3>2. Ahead(t, e, r)
      BY <2>2, <3>1, RunsInt, EnginesInt DEF Ahead
    <3> QED BY <3>1, <3>2 DEF Undecided
  <2>3. CASE run = NumRuns /\ ~(engine < Len(EngineNames))
    <3>1. pc = "returned" /\ pc' = "suite" /\ UNCHANGED <<test, engine, run, outcome>>
      BY <1>7, <2>3, RunsInt DEF NextCase
    <3> SUFFICES ASSUME NEW t \in Tests, NEW e \in Engines, NEW r \in Runs, Ahead(t, e, r)'
                 PROVE  outcome'[<<t, e, r>>] = "none"
      BY DEF Undecided
    <3>2. Ahead(t, e, r)
      BY <2>3, <3>1, RunsInt, EnginesInt DEF Ahead
    <3> QED BY <3>1, <3>2 DEF Undecided
  <2> QED BY <1>7, <2>1, <2>2, <2>3 DEF NextCase
<1>8. CASE SuiteEnds
  BY <1>8 DEF SuiteEnds, Undecided, Ahead, TInv, TypeOK, Position, Tests, Runs, loops
<1>9. CASE Summary BY <1>9 DEF Summary, Undecided
<1>10. ASSUME NEW s \in Sides, Setup(s) \/ SetupFails(s) \/ TestEnds(s) \/ Cleanup(s)
       PROVE  Undecided'
  BY <1>1, <1>10, LabelValues
     DEF Setup, SetupFails, TestEnds, Cleanup, AfterCleanup, At, Then, Sides, Steps
<1>11. ASSUME NEW s \in Sides, TimesOut(s) \/ CleanupFails(s) PROVE Undecided'
  BY <1>11, ReturnUndecided, LabelValues DEF TimesOut, CleanupFails, At, Sides, Steps
<1>12. ASSUME NEW s \in Sides, Undecodable(s) PROVE Undecided'
  BY <1>2, <1>12 DEF Undecodable
<1>13. CASE UNCHANGED vars BY <1>13 DEF vars, loops, tally, Undecided, Ahead
<1> QED BY <1>3, <1>4, <1>5, <1>6, <1>7, <1>8, <1>9, <1>10, <1>11, <1>12, <1>13 DEF Next

LEMMA InitUndecided == Init => Undecided
BY DEF Init, Undecided

(* What is on disk belongs to a run that failed, or to the current one and *)
(* is still to be removed.                                                 *)
Disk ==
    pc # "exited" =>
      /\ \A d \in fixtures : \/ HasFailed(d[1], d[2])
                             \/ /\ d = Here /\ test \in Hooked
                                /\ pc \in {"native_test", "native_cleanup", "wasm_test", "wasm_cleanup"}
      /\ \A d \in env_files : \/ HasFailed(d[1], d[2])
                              \/ /\ d = Here
                                 /\ pc \in {"wasm_setup", "wasm_test", "wasm_cleanup", "compare"}

(* No verdict is taken back, and a run that returns FALSE has failed. *)
LEMMA ReturnKeepsFailures ==
    ASSUME TInv, Undecided, NEW success \in BOOLEAN, Return(success),
           pc \in Steps \ {"returned", "suite", "summary", "exited"}
    PROVE  /\ \A t \in Tests, r \in Runs : HasFailed(t, r) => HasFailed(t, r)'
           /\ ~success => HasFailed(test, run)'
<1>1. outcome[<<test, engine, run>>] = "none"
  BY DEF Undecided, Ahead, TInv, TypeOK
<1>2. ASSUME NEW t \in Tests, NEW r \in Runs, NEW e \in Engines, outcome[<<t, e, r>>] = "fail"
      PROVE  outcome'[<<t, e, r>>] = "fail"
  BY <1>1, <1>2 DEF Return, TInv, TypeOK
<1>3. \A t \in Tests, r \in Runs : HasFailed(t, r) => HasFailed(t, r)'
  BY <1>2 DEF HasFailed
<1>4. ASSUME ~success PROVE HasFailed(test, run)'
  <2>1. outcome'[<<test, engine, run>>] = "fail" BY <1>4 DEF Return, TInv, TypeOK
  <2>2. test' = test /\ run' = run /\ engine \in Engines BY DEF Return, loops, TInv, TypeOK
  <2> QED BY <2>1, <2>2 DEF HasFailed
<1> QED BY <1>3, <1>4

LEMMA NextDisk == TInv /\ Undecided /\ Disk /\ [Next]_vars => Disk'
<1> SUFFICES ASSUME TInv, Undecided, Disk, [Next]_vars PROVE Disk' OBVIOUS
<1>0. /\ \A d \in fixtures \cup env_files : d[1] \in Tests /\ d[2] \in Runs
      /\ Here[1] = test /\ Here[2] = run /\ test \in Tests /\ run \in Runs
  BY DEF TInv, TypeOK, Here
<1>1. ASSUME outcome' = outcome
      PROVE  \A t, r : HasFailed(t, r)' <=> HasFailed(t, r)
  BY <1>1 DEF HasFailed
<1>2. ASSUME NEW success \in BOOLEAN, Return(success),
             pc \in Steps \ {"returned", "suite", "summary", "exited"},
             fixtures' \subseteq fixtures \cup {Here}, env_files' \subseteq env_files,
             ~success \/ (pc = "compare" /\ fixtures' = fixtures /\ env_files' = env_files \ {Here})
      PROVE  Disk'
  <2>1. UNCHANGED <<test, run>> BY <1>2 DEF Return, loops
  <2>2. /\ \A t \in Tests, r \in Runs : HasFailed(t, r) => HasFailed(t, r)'
        /\ ~success => HasFailed(test, run)'
    BY <1>2, ReturnKeepsFailures
  <2>3. ASSUME NEW d \in fixtures' PROVE HasFailed(d[1], d[2])'
    BY <1>0, <1>2, <2>1, <2>2, <2>3 DEF Disk
  <2>4. ASSUME NEW d \in env_files' PROVE HasFailed(d[1], d[2])'
    BY <1>0, <1>2, <2>1, <2>2, <2>4 DEF Disk
  <2> QED BY <2>3, <2>4 DEF Disk
<1>3. ASSUME Raise PROVE Disk' BY <1>3 DEF Raise, Disk
<1>4. CASE Case
  <2>1. CASE GoOn("native_setup") BY <1>1, <1>4, <2>1 DEF Case, GoOn, loops, tally, disk, Disk, Here
  <2>2. CASE Return(FALSE) BY <1>2, <1>4, <2>2 DEF Case, disk, Steps
  <2> QED BY <1>4, <2>1, <2>2 DEF Case
<1>5. CASE CommandMissing
  BY <1>1, <1>3, <1>5, LabelValues
     DEF CommandMissing, At, Then, GoOn, loops, tally, Disk, Here
<1>6. CASE WriteEnv BY <1>1, <1>6 DEF WriteEnv, GoOn, loops, tally, Disk, Here
<1>7. CASE Compare BY <1>2, <1>7 DEF Compare, Steps
<1>8. CASE NextCase \/ SuiteEnds \/ Summary
  BY <1>1, <1>8 DEF NextCase, SuiteEnds, Summary, loops, disk, Disk
<1>9. ASSUME NEW s \in Sides, Setup(s) \/ SetupFails(s) PROVE Disk'
  BY <1>1, <1>9, LabelValues DEF Setup, SetupFails, At, Then, GoOn, loops, tally, Disk, Here, Sides
<1>10. ASSUME NEW s \in Sides, TestEnds(s) PROVE Disk'
  BY <1>1, <1>10, LabelValues DEF TestEnds, At, Then, GoOn, loops, tally, disk, Disk, Here, Sides
<1>11. ASSUME NEW s \in Sides, Cleanup(s) PROVE Disk'
  BY <1>1, <1>11, LabelValues
     DEF Cleanup, AfterCleanup, At, Then, GoOn, loops, tally, Disk, Here, Sides
<1>12. ASSUME NEW s \in Sides, TimesOut(s) \/ CleanupFails(s) PROVE Disk'
  BY <1>2, <1>12, LabelValues DEF TimesOut, CleanupFails, At, Sides, Steps
<1>13. ASSUME NEW s \in Sides, Undecodable(s) PROVE Disk'
  BY <1>3, <1>13 DEF Undecodable
<1>14. CASE UNCHANGED vars BY <1>1, <1>14 DEF vars, loops, tally, disk, Disk, Here
<1> QED BY <1>4, <1>5, <1>6, <1>7, <1>8, <1>9, <1>10, <1>11, <1>12, <1>13, <1>14 DEF Next

(* When the suite has gone through, whatever fixture or environment file   *)
(* is left on disk belongs to a run that was reported as failed.           *)
THEOREM LeftoversAreReported == Spec => []LeftoversReported
<1>1. Init => Disk BY DEF Init, Disk
<1>2. Disk => LeftoversReported BY DEF Disk, LeftoversReported
<1> QED BY InitTInv, NextTInv, InitUndecided, NextUndecided, NextDisk, <1>1, <1>2, PTL DEF Spec

(* A fixture is that of a test with hooks, and the native cleanup removes  *)
(* it before the wasm side starts.                                         *)
Clean ==
    /\ \A d \in fixtures : d[1] \in Hooked
    /\ pc \in {"write_env", "wasm_setup"} => Here \notin fixtures

LEMMA NextClean == Clean /\ [Next]_vars => Clean'
<1> SUFFICES ASSUME Clean, [Next]_vars PROVE Clean' OBVIOUS
<1>0. Here[1] = test BY DEF Here
<1>1. CASE Case BY <1>1 DEF Case, GoOn, Return, disk, Clean
<1>2. CASE CommandMissing
  BY <1>0, <1>2, LabelValues DEF CommandMissing, At, Then, GoOn, Raise, Clean
<1>3. CASE WriteEnv BY <1>3 DEF WriteEnv, GoOn, loops, Here, Clean
<1>4. CASE Compare BY <1>4 DEF Compare, Return, Clean
<1>5. CASE NextCase \/ SuiteEnds \/ Summary
  BY <1>5 DEF NextCase, SuiteEnds, Summary, disk, Clean
<1>6. ASSUME NEW s \in Sides, Setup(s) \/ SetupFails(s) PROVE Clean'
  BY <1>0, <1>6, LabelValues DEF Setup, SetupFails, At, Then, GoOn, Clean, Sides
<1>7. ASSUME NEW s \in Sides, TestEnds(s) \/ Undecodable(s) PROVE Clean'
  BY <1>7, LabelValues DEF TestEnds, Undecodable, At, Then, GoOn, Raise, disk, Clean, Sides
<1>8. ASSUME NEW s \in Sides, TimesOut(s) \/ CleanupFails(s) PROVE Clean'
  BY <1>0, <1>8, LabelValues DEF TimesOut, CleanupFails, At, Return, Clean, Sides
<1>9. ASSUME NEW s \in Sides, Cleanup(s) PROVE Clean'
  <2>1. UNCHANGED Here BY <1>9 DEF Cleanup, GoOn, loops, Here
  <2>2. Here \notin fixtures' /\ fixtures' \subseteq fixtures BY <1>0, <1>9 DEF Cleanup, Clean
  <2> QED BY <2>1, <2>2 DEF Clean
<1>10. CASE UNCHANGED vars BY <1>10 DEF vars, loops, disk, Here, Clean
<1> QED BY <1>1, <1>2, <1>3, <1>4, <1>5, <1>6, <1>7, <1>8, <1>9, <1>10 DEF Next

(* Whatever hooks, tests and engines do, a run is set up on top of an      *)
(* earlier fixture of its own only after a previous engine failed at it,   *)
(* and its wasm side never is.                                             *)
THEOREM SetupsAreFresh == Spec => []SetupsFresh
<1>1. Init => Disk BY DEF Init, Disk
<1>2. Init => Clean BY DEF Init, Clean
<1>3. TInv /\ Undecided /\ Disk /\ Clean => SetupsFresh
  <2> SUFFICES ASSUME TInv, Undecided, Disk, Clean PROVE SetupsFresh OBVIOUS
  <2>1. pc = "wasm_setup" => Here \notin fixtures BY DEF Clean
  <2>2. ASSUME pc = "native_setup", Here \in fixtures
        PROVE  \E e \in 1..(engine - 1) : outcome[<<test, e, run>>] = "fail"
    <3>1. HasFailed(test, run) BY <2>2 DEF Disk, Here
    <3>2. PICK e \in Engines : outcome[<<test, e, run>>] = "fail" BY <3>1 DEF HasFailed
    <3>3. test \in Tests /\ run \in Runs BY DEF TInv, TypeOK
    <3>4. ~Ahead(test, e, run) BY <2>2, <3>2, <3>3 DEF Undecided
    <3>5. ~(e > engine) /\ e # engine BY <2>2, <3>4 DEF Ahead
    <3>6. e \in 1..(engine - 1) BY <3>5, EnginesInt, EnginesRange
    <3> QED BY <3>2, <3>6
  <2> QED BY <2>1, <2>2 DEF SetupsFresh
<1> QED BY InitTInv, NextTInv, InitUndecided, NextUndecided, NextDisk, NextClean, <1>1, <1>2, <1>3,
           PTL DEF Spec

-----------------------------------------------------------------------------
(* For the counters a step within run_test_case_execution does nothing,    *)
(* returns a verdict, or ends the script.                                  *)
Inside == pc \in Steps \ {"returned", "suite", "summary", "exited"}
Quiet == Inside /\ Inside' /\ UNCHANGED <<loops, tally>>

LEMMA StepKinds ==
    ASSUME [Next]_vars
    PROVE  \/ Quiet
           \/ Inside /\ \E b \in BOOLEAN : Return(b)
           \/ Inside /\ Raise
           \/ NextCase \/ SuiteEnds \/ Summary
           \/ UNCHANGED vars
<1>1. CASE Case BY <1>1 DEF Case, GoOn, Quiet, Inside, Steps
<1>2. CASE CommandMissing
  BY <1>2, LabelValues DEF CommandMissing, At, Then, GoOn, Quiet, Inside, Steps
<1>3. CASE WriteEnv BY <1>3 DEF WriteEnv, GoOn, Quiet, Inside, Steps
<1>4. CASE Compare
  <2>1. (returncode["native"] = returncode["wasm"]) \in BOOLEAN OBVIOUS
  <2> QED BY <1>4, <2>1 DEF Compare, Inside, Steps
<1>5. ASSUME NEW s \in Sides, Setup(s) \/ SetupFails(s) \/ TestEnds(s) \/ Cleanup(s) PROVE Quiet
  BY <1>5, LabelValues
     DEF Setup, SetupFails, TestEnds, Cleanup, AfterCleanup, At, Then, GoOn, Quiet, Inside, Steps, Sides
<1>6. ASSUME NEW s \in Sides, TimesOut(s) \/ CleanupFails(s) PROVE Inside /\ Return(FALSE)
  BY <1>6, LabelValues DEF TimesOut, CleanupFails, At, Inside, Steps, Sides
<1>7. ASSUME NEW s \in Sides, Undecodable(s) PROVE Inside /\ Raise
  BY <1>7, LabelValues DEF Undecodable, At, Inside, Steps, Sides
<1> QED BY <1>1, <1>2, <1>3, <1>4, <1>5, <1>6, <1>7 DEF Next

AllPass(t, e) == \A r \in Runs : outcome[<<t, e, r>>] = "pass"
AllPassed == \A t \in Tests, e \in Engines : AllPass(t, e)

(* failed_runs are the runs of the current engine that did not pass. *)
FailedRuns ==
    pc \in Steps \ {"suite", "summary", "exited"} =>
      failed_runs = {r \in Runs : /\ r < run \/ (r = run /\ pc = "returned")
                                  /\ outcome[<<test, engine, r>>] # "pass"}

(* The engines whose result was entered, and what it says. *)
Entered == IF pc = "suite" THEN 1..engine ELSE 1..(engine - 1)

Results ==
    pc \in Steps \ {"summary", "exited"} =>
      /\ DOMAIN suite_results = {EngineNames[e] : e \in Entered}
      /\ \A e \in Entered : suite_results[EngineNames[e]] = {} <=> AllPass(test, e)

(* success_count is the number of tests so far exactly if all of them passed. *)
Successes ==
    /\ pc \in Steps \ {"summary", "exited"} =>
         (success_count = test - 1 <=> \A t \in 1..(test - 1), e \in Engines : AllPass(t, e))
    /\ pc = "summary" => (success_count = NumTests <=> AllPassed)

Exits ==
    /\ pc # "exited" => exit_code = Unset
    /\ pc = "exited" => (exit_code = 0 <=> AllPassed)

LEMMA NextFailedRuns == TInv /\ Undecided /\ FailedRuns /\ [Next]_vars => FailedRuns'
<1> SUFFICES ASSUME TInv, Undecided, FailedRuns, [Next]_vars PROVE FailedRuns' OBVIOUS
<1> USE SuiteAssumption, EnginesRange
<1>0. run \in Runs /\ run \in Nat /\ NumRuns \in Nat /\ Runs \subseteq Nat
      /\ test \in Tests /\ engine \in Engines
  BY DEF TInv, TypeOK, Runs
<1>1. CASE Quiet BY <1>1 DEF Quiet, Inside, loops, tally, FailedRuns, Steps
<1>2. ASSUME Inside, NEW b \in BOOLEAN, Return(b) PROVE FailedRuns'
  <2>1. failed_runs = {r \in Runs : r < run /\ outcome[<<test, engine, r>>] # "pass"}
    BY <1>2 DEF Inside, FailedRuns, Steps
  <2>2. \A r \in Runs : outcome'[<<test, engine, r>>] =
                          IF r = run THEN IF b THEN "pass" ELSE "fail"
                          ELSE outcome[<<test, engine, r>>]
    BY <1>0, <1>2 DEF Return, TInv, TypeOK
  <2>3. failed_runs' = {r \in Runs : (r < run \/ r = run) /\ outcome'[<<test, engine, r>>] # "pass"}
    <3>1. failed_runs' = IF b THEN failed_runs ELSE failed_runs \cup {run} BY <1>2 DEF Return
    <3>2. ASSUME NEW r \in Runs
          PROVE  r \in failed_runs' <=> (r < run \/ r = run) /\ outcome'[<<test, engine, r>>] # "pass"
      BY <1>0, <2>1, <2>2, <3>1
    <3>3. failed_runs' \subseteq Runs BY <1>0, <2>1, <3>1
    <3> QED BY <3>2, <3>3
  <2>4. pc' = "returned" /\ UNCHANGED <<test, engine, run>> BY <1>2 DEF Return, loops
  <2> QED BY <2>3, <2>4 DEF FailedRuns
<1>3. CASE Raise BY <1>3 DEF Raise, FailedRuns
<1>4. CASE NextCase
  <2>1. CASE run < NumRuns
    <3>1. failed_runs = {r \in Runs : (r < run \/ r = run) /\ outcome[<<test, engine, r>>] # "pass"}
      BY <1>4, <2>1 DEF NextCase, FailedRuns, Steps
    <3>2. failed_runs = {r \in Runs : r < run + 1 /\ outcome[<<test, engine, r>>] # "pass"}
      <4>1. \A r \in Runs : r < run + 1 <=> (r < run \/ r = run) BY <1>0
      <4> QED BY <3>1, <4>1
    <3>3. run' = run + 1 /\ pc' = "case" /\ UNCHANGED <<test, engine, failed_runs, outcome>>
      BY <1>0, <1>4, <2>1 DEF NextCase
    <3> QED BY <3>2, <3>3 DEF FailedRuns
  <2>2. CASE run = NumRuns
    <3>1. \A r \in Runs : ~(r < 1) BY <1>0 DEF Runs
    <3> QED BY <1>0, <1>4, <2>2, <3>1 DEF NextCase, FailedRuns
  <2> QED BY <1>4, <2>1, <2>2 DEF NextCase
<1>5. CASE SuiteEnds
  <2>1. \A r \in Runs : ~(r < 1) BY <1>0 DEF Runs
  <2> QED BY <1>5, <2>1 DEF SuiteEnds, FailedRuns
<1>6. CASE Summary BY <1>6 DEF Summary, FailedRuns
<1>7. CASE UNCHANGED vars BY <1>7 DEF vars, loops, tally, FailedRuns
<1> QED BY <1>1, <1>2, <1>3, <1>4, <1>5, <1>6, <1>7, StepKinds

(* Names of engines that differ keep their results apart. *)
DistinctNames == \A i, j \in Engines : EngineNames[i] = EngineNames[j] => i = j

LEMMA NextResults ==
    ASSUME DistinctNames
    PROVE  TInv /\ Undecided /\ FailedRuns /\ Results /\ [Next]_vars => Results'
<1> SUFFICES ASSUME TInv, Undecided, FailedRuns, Results, [Next]_vars PROVE Results' OBVIOUS
<1> USE SuiteAssumption, EnginesRange
<1>0. run \in Runs /\ run \in Nat /\ NumRuns \in Nat /\ Runs = 1..NumRuns
      /\ test \in Tests /\ engine \in Engines /\ engine \in Nat /\ Len(EngineNames) \in Nat
  BY DEF TInv, TypeOK, Runs
<1>1. CASE Quiet
  BY <1>1 DEF Quiet, Inside, loops, tally, Results, Entered, AllPass, Steps
<1>2. ASSUME Inside, NEW b \in BOOLEAN, Return(b) PROVE Results'
  <2>1. UNCHANGED <<test, engine, run, suite_results>> /\ pc' = "returned" /\ pc # "suite"
    BY <1>2 DEF Return, loops, Inside
  <2>2. Entered' = Entered /\ Entered = 1..(engine - 1) BY <2>1 DEF Entered
  <2>3. ASSUME NEW e \in Entered PROVE AllPass(test, e)' <=> AllPass(test, e)
    <3>1. e # engine /\ e \in Engines BY <1>0, <2>2
    <3>2. \A r \in Runs : outcome'[<<test, e, r>>] = outcome[<<test, e, r>>]
      BY <1>0, <1>2, <3>1 DEF Return, TInv, TypeOK
    <3> QED BY <2>1, <3>2 DEF AllPass
  <2>4. pc \in Steps \ {"summary", "exited"} BY <1>2 DEF Inside
  <2> QED BY <2>1, <2>2, <2>3, <2>4 DEF Results
<1>3. CASE Raise BY <1>3 DEF Raise, Results
<1>4. CASE NextCase
  <2>0. pc = "returned" /\ outcome' = outcome /\ test' = test /\ pc \in Steps \ {"summary", "exited"}
    BY <1>4 DEF NextCase, Steps
  <2>1. CASE run < NumRuns
    <3>1. pc' = "case" /\ UNCHANGED <<engine, suite_results>> BY <1>0, <1>4, <2>1 DEF NextCase
    <3>2. Entered' = Entered BY <2>0, <3>1 DEF Entered
    <3>3. \A e : AllPass(test, e)' <=> AllPass(test, e) BY <2>0 DEF AllPass
    <3> QED BY <2>0, <3>1, <3>2, <3>3 DEF Results
  <2>2. CASE run = NumRuns
    <3>1. /\ suite_results' = [n \in DOMAIN suite_results \cup {EngineNames[engine]} |->
                  IF n = EngineNames[engine] THEN failed_runs ELSE suite_results[n]]
      BY <1>0, <1>4, <2>2 DEF NextCase
    <3>2. Entered' = 1..engine /\ Entered = 1..(engine - 1)
      BY <1>0, <1>4, <2>2 DEF NextCase, Entered
    <3>3. failed_runs = {} <=> AllPass(test, engine)
      <4>1. failed_runs = {r \in Runs : (r < run \/ r = run) /\ outcome[<<test, engine, r>>] # "pass"}
        BY <2>0 DEF FailedRuns, Steps
      <4>2. \A r \in Runs : r < run \/ r = run BY <1>0, <2>2
      <4> QED BY <4>1, <4>2 DEF AllPass
    <3>4. DOMAIN suite_results' = {EngineNames[e] : e \in Entered'}
      <4>1. DOMAIN suite_results = {EngineNames[e] : e \in 1..(engine - 1)}
        BY <2>0, <3>2 DEF Results
      <4>2. 1..engine = 1..(engine - 1) \cup {engine} BY <1>0
      <4> QED BY <3>1, <3>2, <4>1, <4>2
    <3>5. ASSUME NEW e \in Entered' PROVE suite_results'[EngineNames[e]] = {} <=> AllPass(test, e)
      <4>1. e \in Engines /\ EngineNames[e] \in DOMAIN suite_results' BY <1>0, <3>2, <3>4
      <4>2. CASE e = engine BY <3>1, <3>3, <4>1, <4>2
      <4>3. CASE e # engine
        <5>1. EngineNames[e] # EngineNames[engine] BY <1>0, <4>1, <4>3 DEF DistinctNames
        <5>2. e \in Entered BY <1>0, <3>2, <4>3
        <5>3. suite_results'[EngineNames[e]] = suite_results[EngineNames[e]]
          BY <3>1, <4>1, <5>1
        <5> QED BY <2>0, <5>2, <5>3 DEF Results
      <4> QED BY <4>2, <4>3
    <3>6. \A e : AllPass(test, e)' <=> AllPass(test, e) BY <2>0 DEF AllPass
    <3> QED BY <2>0, <3>4, <3>5, <3>6 DEF Results
  <2> QED BY <1>4, <2>1, <2>2 DEF NextCase
<1>5. CASE SuiteEnds
  <2>1. CASE test < NumTests
    <3>1. Entered' = {} BY <1>5, <2>1 DEF SuiteEnds, Entered
    <3>2. DOMAIN suite_results' = {} BY <1>5, <2>1 DEF SuiteEnds, NoResults
    <3> QED BY <3>1, <3>2 DEF Results
  <2>2. CASE ~(test < NumTests) BY <1>5, <2>2 DEF SuiteEnds, Results
  <2> QED BY <2>1, <2>2
<1>6. CASE Summary BY <1>6 DEF Summary, Results
<1>7. CASE UNCHANGED vars BY <1>7 DEF vars, loops, tally, Results, Entered, AllPass
<1> QED BY <1>1, <1>2, <1>3, <1>4, <1>5, <1>6, <1>7, StepKinds

LEMMA NextSuccesses ==
    TInv /\ Undecided /\ Results /\ Successes /\ [Next]_vars => Successes'
<1> SUFFICES ASSUME TInv, Undecided, Results, Successes, [Next]_vars PROVE Successes' OBVIOUS
<1> USE SuiteAssumption, EnginesRange
<1>0. /\ test \in Tests /\ test \in Nat /\ engine \in Engines /\ run \in Runs /\ Tests = 1..NumTests
      /\ success_count \in Nat
  BY DEF TInv, TypeOK, Tests
<1>1. CASE Quiet
  BY <1>1 DEF Quiet, Inside, loops, tally, Successes, AllPass, Steps
<1>2. ASSUME Inside, NEW b \in BOOLEAN, Return(b) PROVE Successes'
  <2>1. UNCHANGED <<test, success_count>> /\ pc' = "returned" /\ pc \in Steps \ {"summary", "exited"}
    BY <1>2 DEF Return, loops, Inside
  <2>2. ASSUME NEW t \in 1..(test - 1), NEW e \in Engines PROVE AllPass(t, e)' <=> AllPass(t, e)
    <3>1. t # test /\ t \in Tests BY <1>0
    <3>2. \A r \in Runs : outcome'[<<t, e, r>>] = outcome[<<t, e, r>>]
      BY <1>0, <1>2, <3>1 DEF Return, TInv, TypeOK
    <3> QED BY <3>2 DEF AllPass
  <2> QED BY <2>1, <2>2 DEF Successes
<1>3. CASE Raise BY <1>3 DEF Raise, Successes
<1>4. CASE NextCase
  <2>1. pc = "returned" /\ UNCHANGED <<test, outcome, success_count>> /\ pc' # "summary"
    BY <1>4 DEF NextCase
  <2> QED BY <2>1 DEF Successes, AllPass, Steps
<1>5. CASE SuiteEnds
  <2>1. pc = "suite" /\ outcome' = outcome /\ pc \in Steps \ {"summary", "exited"}
        /\ engine = Len(EngineNames) /\ success_count <= test - 1
    BY <1>5 DEF SuiteEnds, Steps, TInv, Position
  <2>2. Entered = Engines BY <2>1 DEF Entered
  <2>3. all_engines_passed <=> \A e \in Engines : AllPass(test, e)
    BY <2>1, <2>2 DEF all_engines_passed, Results
  <2>4. success_count' = IF \A e \in Engines : AllPass(test, e) THEN success_count + 1 ELSE success_count
    BY <1>0, <1>5, <2>3 DEF SuiteEnds
  <2>5. success_count' = test <=> \A t \in 1..test, e \in Engines : AllPass(t, e)
    <3>1. success_count = test - 1 <=> \A t \in 1..(test - 1), e \in Engines : AllPass(t, e)
      BY <2>1 DEF Successes
    <3>2. 1..test = 1..(test - 1) \cup {test} BY <1>0
    <3>3. success_count' = test <=>
            success_count = test - 1 /\ \A e \in Engines : AllPass(test, e)
      BY <1>0, <2>1, <2>4
    <3> QED BY <3>1, <3>2, <3>3
  <2>6. \A t, e : AllPass(t, e)' <=> AllPass(t, e) BY <2>1 DEF AllPass
  <2>7. CASE test < NumTests
    <3>1. test' = test + 1 /\ pc' = "case" BY <1>5, <2>7 DEF SuiteEnds
    <3>2. test' - 1 = test BY <1>0, <3>1
    <3> QED BY <2>5, <2>6, <3>1, <3>2 DEF Successes
  <2>8. CASE ~(test < NumTests)
    <3>1. test = NumTests /\ pc' = "summary" BY <1>0, <1>5, <2>8 DEF SuiteEnds
    <3> QED BY <1>0, <2>5, <2>6, <3>1 DEF Successes, AllPassed
  <2> QED BY <2>7, <2>8
<1>6. CASE Summary BY <1>6 DEF Summary, Successes
<1>7. CASE UNCHANGED vars BY <1>7 DEF vars, loops, tally, Successes, AllPassed, AllPass
<1> QED BY <1>1, <1>2, <1>3, <1>4, <1>5, <1>6, <1>7, StepKinds

LEMMA NextExits == TInv /\ Undecided /\ Successes /\ Exits /\ [Next]_vars => Exits'
<1> SUFFICES ASSUME TInv, Undecided, Successes, Exits, [Next]_vars PROVE Exits' OBVIOUS
<1> USE SuiteAssumption, EnginesRange
<1>1. CASE Quiet BY <1>1 DEF Quiet, Inside, tally, Exits
<1>2. ASSUME Inside, NEW b \in BOOLEAN, Return(b) PROVE Exits'
  BY <1>2 DEF Return, Inside, Exits
<1>3. CASE Inside /\ Raise
  <2>1. test \in Tests /\ engine \in Engines /\ run \in Runs BY DEF TInv, TypeOK
  <2>2. outcome[<<test, engine, run>>] = "none" BY <1>3, <2>1 DEF Undecided, Ahead, Inside
  <2>3. ~AllPass(test, engine) BY <2>1, <2>2 DEF AllPass
  <2>4. ~AllPassed BY <2>1, <2>3 DEF AllPassed
  <2>5. ~AllPassed' BY <1>3, <2>4 DEF Raise, AllPassed, AllPass
  <2> QED BY <1>3, <2>5 DEF Raise, Exits
<1>4. CASE NextCase \/ SuiteEnds BY <1>4 DEF NextCase, SuiteEnds, Exits
<1>5. CASE Summary
  <2>1. AllPassed' <=> AllPassed BY <1>5 DEF Summary, AllPassed, AllPass
  <2> QED BY <1>5, <2>1 DEF Summary, Exits, Successes
<1>6. CASE UNCHANGED vars BY <1>6 DEF vars, tally, Exits, AllPassed, AllPass
<1> QED BY <1>1, <1>2, <1>3, <1>4, <1>5, <1>6, StepKinds

LEMMA InitTally == Init => FailedRuns /\ Results /\ Successes /\ Exits
<1> SUFFICES ASSUME Init PROVE FailedRuns /\ Results /\ Successes /\ Exits OBVIOUS
<1>1. \A r \in Runs : ~(r < 1) BY SuiteAssumption DEF Runs
<1>2. FailedRuns BY <1>1 DEF Init, FailedRuns
<1>3. Results
  <2>1. Entered = {} /\ DOMAIN suite_results = {} BY DEF Init, Entered, NoResults
  <2> QED BY <2>1 DEF Results
<1>4. Successes /\ Exits BY DEF Init, Successes, Exits
<1> QED BY <1>2, <1>3, <1>4

(* As long as no two engines have the same name, the script ends with 0    *)
(* exactly if every run of every test passed on every engine: results are  *)
(* kept by name and summed up in three nested loops, and any run may fail, *)
(* time out or raise an exception.                                         *)
THEOREM ExitCodeCorrect ==
    ASSUME DistinctNames
    PROVE  Spec => []ExitCodeFaithful
<1>1. TInv /\ Exits => ExitCodeFaithful
  <2> SUFFICES ASSUME TInv, Exits PROVE ExitCodeFaithful OBVIOUS
  <2>1. AllPassed <=> \A c \in Tests \X Engines \X Runs : outcome[c] = "pass"
    BY DEF AllPassed, AllPass
  <2> QED BY <2>1 DEF ExitCodeFaithful, Exits, Unset
<1>2. TInv /\ Undecided /\ FailedRuns /\ Results /\ [Next]_vars => Results' BY NextResults
<1> QED BY InitTInv, InitUndecided, InitTally, NextTInv, NextUndecided, NextFailedRuns, <1>2,
           NextSuccesses, NextExits, <1>1, PTL DEF Spec

=============================================================================
