----------------------------- MODULE TestRunner -----------------------------
(***************************************************************************)
(* The differential test suite: tests/run_tests.py with the wrapper        *)
(* common/hooks_main.c it starts and the entry point common/wali_start.c.  *)
(* Every unit test is run natively and by every engine, once per CMD line, *)
(* between its setup and its cleanup, and the exit codes are compared.     *)
(*                                                                         *)
(* A fixture is what one CMD line's test_setup makes on disk.  Commands,   *)
(* arguments and output are left out, except that output which is not      *)
(* UTF-8 raises an exception that nobody catches.                          *)
(***************************************************************************)
EXTENDS Integers, Sequences

CONSTANTS
    NumTests, NumRuns,  \* unit tests, and CMD lines of each
    EngineNames,        \* the names of the [[engines]] entries, in order
    Hooked,             \* the tests whose hooks binary exists
    ReturnValues,       \* what test(), wali_init() and wali_deinit() return
    HookValues,         \* what test_setup() and test_cleanup() return
    Signals             \* the signals a test or an engine may die of

ASSUME SuiteAssumption ==
    /\ NumTests \in Nat \ {0} /\ NumRuns \in Nat \ {0}
    /\ EngineNames \in Seq(STRING) /\ EngineNames # <<>>   \* "No [[engines]] entries found"
    /\ ReturnValues \subseteq Int /\ Signals \subseteq Nat \ {0}
    /\ HookValues \subseteq Int
    /\ \A c \in HookValues : c % 256 = 0 => c = 0     \* a failing hook is seen to fail

Tests == 1..NumTests
Runs == 1..NumRuns
Engines == DOMAIN EngineNames
Sides == {"native", "wasm"}
Unset == -1

VARIABLES
    pc,
    test, engine, run,      \* the three loops
    returncode,             \* native_returncode and wasm_returncode
    fixtures, env_files,    \* on disk, by test and run
    failed_runs,            \* of the current engine
    suite_results,          \* failed runs, by the name of the engine
    success_count,
    exit_code,
    outcome                 \* history: the verdict on every execution

loops == <<test, engine, run>>
disk == <<fixtures, env_files>>
tally == <<failed_runs, suite_results, success_count, exit_code, outcome>>
vars == <<pc, loops, returncode, disk, tally>>

Here == <<test, run>>
Fresh == [s \in Sides |-> 0]
NoResults == [n \in {} |-> {}]

Init ==
    /\ pc = "case"
    /\ test = 1 /\ engine = 1 /\ run = 1
    /\ returncode = Fresh
    /\ fixtures = {} /\ env_files = {}
    /\ failed_runs = {} /\ suite_results = NoResults
    /\ success_count = 0 /\ exit_code = Unset
    /\ outcome = [c \in Tests \X Engines \X Runs |-> "none"]

-----------------------------------------------------------------------------
(* run_test_case_execution *)

(* Mutant: a run that fails is counted like one that passes. *)
ReturnUnrecorded(success) ==
    /\ failed_runs' = failed_runs
    /\ outcome' = [outcome EXCEPT ![<<test, engine, run>>] =
                     IF success THEN "pass" ELSE "fail"]
    /\ pc' = "returned"
    /\ UNCHANGED <<loops, suite_results, success_count, exit_code>>

(* It returns its verdict to run_test_suite, which records it. *)
Return(success) ==
    /\ failed_runs' = IF success THEN failed_runs ELSE failed_runs \cup {run}
    /\ outcome' = [outcome EXCEPT ![<<test, engine, run>>] =
                     IF success THEN "pass" ELSE "fail"]
    /\ pc' = "returned"
    /\ UNCHANGED <<loops, suite_results, success_count, exit_code>>

GoOn(l) == pc' = l /\ UNCHANGED <<loops, tally>>

(* An exception nobody catches ends the script with a traceback. *)
Raise ==
    /\ pc' = "exited" /\ exit_code' = 1
    /\ UNCHANGED <<loops, failed_runs, suite_results, success_count, outcome>>

Case ==
    /\ pc = "case"
    /\ returncode' = Fresh
    /\ GoOn("native_setup") \/ Return(FALSE)    \* "missing binary"
    /\ UNCHANGED disk

Label == [native |-> [setup |-> "native_setup", test |-> "native_test", cleanup |-> "native_cleanup"],
          wasm |-> [setup |-> "wasm_setup", test |-> "wasm_test", cleanup |-> "wasm_cleanup"]]
At(s, step) == pc = Label[s][step]
Then(s, step) == GoOn(Label[s][step])

(* The wrapper: test_setup, then execvp of the command in the same process. *)
(* Without a hooks binary the runner starts the command itself.             *)
Setup(s) ==
    /\ At(s, "setup")
    /\ fixtures' = IF test \in Hooked THEN fixtures \cup {Here} ELSE fixtures
    /\ Then(s, "test")
    /\ UNCHANGED <<returncode, env_files>>

(* The engine's command does not exist: execvp returns and the wrapper     *)
(* ends with 1; without the wrapper Python raises FileNotFoundError.       *)
CommandMissing ==
    /\ At("wasm", "setup")
    /\ IF test \in Hooked
       THEN /\ fixtures' = fixtures \cup {Here}
            /\ returncode' = [returncode EXCEPT !["wasm"] = 1]
            /\ Then("wasm", "cleanup")
       ELSE Raise /\ UNCHANGED <<fixtures, returncode>>
    /\ UNCHANGED <<env_files>>

(* test_setup fails, possibly half way, and its code is the wrapper's. *)
SetupFails(s) ==
    /\ At(s, "setup") /\ test \in Hooked
    /\ fixtures' \in {fixtures, fixtures \cup {Here}}
    /\ \E c \in HookValues \ {0} : returncode' = [returncode EXCEPT ![s] = c % 256]
    /\ Then(s, "cleanup")
    /\ UNCHANGED <<env_files>>

(* main and _start of wali_start.c: a failing wali_init() skips the test,   *)
(* and wali_deinit() is called, and its result counts, only after a test   *)
(* that returned 0.  exit() keeps the low eight bits.                      *)
wali_start(init, ret, deinit) ==
    (IF init # 0 THEN init ELSE IF ret # 0 THEN ret ELSE deinit) % 256

(* wali_init() and wali_deinit() are the engine's; the native ones return 0. *)
EngineValues(s) == IF s = "native" THEN {0} ELSE ReturnValues

(* The process ends, by the return of wali_start, by a signal, or, under   *)
(* an engine, by a trap that the engine reports with 1; check_output       *)
(* returns, or raises CalledProcessError with the code.                    *)
TestEnds(s) ==
    /\ At(s, "test")
    /\ \/ \E i, d \in EngineValues(s), t \in ReturnValues :
            returncode' = [returncode EXCEPT ![s] = wali_start(i, t, d)]
       \/ \E n \in Signals : returncode' = [returncode EXCEPT ![s] = -n]
       \/ s = "wasm" /\ returncode' = [returncode EXCEPT ![s] = 1]
    /\ Then(s, "cleanup")
    /\ UNCHANGED disk

(* TimeoutExpired in the setup or in the test: check_output has killed the *)
(* process, and the function returns at once.                              *)
TimesOut(s) ==
    /\ \/ At(s, "test") /\ UNCHANGED fixtures
       \/ At(s, "setup") /\ test \in Hooked /\ fixtures' \in {fixtures, fixtures \cup {Here}}
    /\ Return(FALSE)
    /\ UNCHANGED <<returncode, env_files>>

(* decode('utf-8') raises on the output of the test. *)
Undecodable(s) ==
    /\ At(s, "test")
    /\ Raise
    /\ UNCHANGED <<returncode, disk>>

AfterCleanup(s) == IF s = "native" THEN "write_env" ELSE "compare"

Cleanup(s) ==
    /\ At(s, "cleanup")
    /\ fixtures' = IF test \in Hooked THEN fixtures \ {Here} ELSE fixtures
    /\ GoOn(AfterCleanup(s))
    /\ UNCHANGED <<returncode, env_files>>

(* Mutant: the failure of the hook is printed and the run goes on. *)
CleanupFailsGoesOn(s) ==
    /\ At(s, "cleanup") /\ test \in Hooked /\ HookValues \ {0} # {}
    /\ fixtures' \in {fixtures, fixtures \ {Here}}
    /\ GoOn(AfterCleanup(s))
    /\ UNCHANGED <<returncode, env_files>>

(* test_cleanup fails, possibly half way. *)
CleanupFails(s) ==
    /\ At(s, "cleanup") /\ test \in Hooked /\ HookValues \ {0} # {}
    /\ fixtures' \in {fixtures, fixtures \ {Here}}
    /\ Return(FALSE)
    /\ UNCHANGED <<returncode, env_files>>

WriteEnv ==
    /\ pc = "write_env"
    /\ env_files' = env_files \cup {Here}
    /\ GoOn("wasm_setup")
    /\ UNCHANGED <<returncode, fixtures>>

(* Mutant: the environment file is kept. *)
CompareKeepsEnv ==
    /\ pc = "compare"
    /\ Return(returncode["native"] = returncode["wasm"])
    /\ UNCHANGED <<returncode, disk>>

(* The environment file is removed and the exit codes are compared. *)
Compare ==
    /\ pc = "compare"
    /\ env_files' = env_files \ {Here}
    /\ Return(returncode["native"] = returncode["wasm"])
    /\ UNCHANGED <<returncode, fixtures>>

-----------------------------------------------------------------------------
(* run_test_suite and main *)

(* The next run; after the last one the engine's result is entered under   *)
(* its name, and the next engine follows.                                  *)
NextCase ==
    /\ pc = "returned"
    /\ \/ /\ run < NumRuns
          /\ run' = run + 1 /\ pc' = "case"
          /\ UNCHANGED <<test, engine, failed_runs, suite_results>>
       \/ /\ run = NumRuns
          /\ suite_results' =
               [n \in DOMAIN suite_results \cup {EngineNames[engine]} |->
                  IF n = EngineNames[engine] THEN failed_runs ELSE suite_results[n]]
          /\ IF engine < Len(EngineNames)
             THEN engine' = engine + 1 /\ run' = 1 /\ failed_runs' = {} /\ pc' = "case"
             ELSE pc' = "suite" /\ UNCHANGED <<engine, run, failed_runs>>
          /\ UNCHANGED test
    /\ UNCHANGED <<returncode, disk, success_count, exit_code, outcome>>

all_engines_passed == \A n \in DOMAIN suite_results : suite_results[n] = {}

SuiteEnds ==
    /\ pc = "suite"
    /\ success_count' = success_count + (IF all_engines_passed THEN 1 ELSE 0)
    /\ IF test < NumTests
       THEN /\ test' = test + 1 /\ engine' = 1 /\ run' = 1 /\ failed_runs' = {}
            /\ suite_results' = NoResults
            /\ pc' = "case"
       ELSE pc' = "summary" /\ UNCHANGED <<loops, failed_runs, suite_results>>
    /\ UNCHANGED <<returncode, disk, exit_code, outcome>>

Summary ==
    /\ pc = "summary"
    /\ pc' = "exited"
    /\ exit_code' = IF success_count # NumTests THEN 1 ELSE 0
    /\ UNCHANGED <<loops, returncode, disk, failed_runs, suite_results, success_count,
                   outcome>>

Next ==
    \/ Case \/ CommandMissing \/ WriteEnv \/ Compare \/ NextCase \/ SuiteEnds \/ Summary
    \/ \E s \in Sides : \/ Setup(s) \/ SetupFails(s) \/ TestEnds(s) \/ TimesOut(s)
                        \/ Undecodable(s) \/ Cleanup(s) \/ CleanupFails(s)

Spec == Init /\ [][Next]_vars

-----------------------------------------------------------------------------
Steps == {"case", "native_setup", "native_test", "native_cleanup", "write_env",
          "wasm_setup", "wasm_test", "wasm_cleanup", "compare", "returned", "suite",
          "summary", "exited"}

(* The type invariant. *)
TypeOK ==
    /\ pc \in Steps
    /\ test \in Tests /\ engine \in Engines /\ run \in Runs
    /\ returncode \in [Sides -> Int]
    /\ fixtures \subseteq Tests \X Runs /\ env_files \subseteq Tests \X Runs
    /\ failed_runs \subseteq Runs
    /\ success_count \in 0..NumTests /\ exit_code \in {Unset, 0, 1}
    /\ outcome \in [Tests \X Engines \X Runs -> {"none", "pass", "fail"}]

HasFailed(t, r) == \E e \in Engines : outcome[<<t, e, r>>] = "fail"

(* When the suite has gone through, what is left on disk belongs to runs   *)
(* that were reported as failed.                                           *)
LeftoversReported ==
    pc = "summary" => \A d \in fixtures \cup env_files : HasFailed(d[1], d[2])

(* The two sides of a comparison start from the same disk: a fixture of    *)
(* this very run is there before the set-up only if a previous engine's    *)
(* attempt at it was reported as failed, and never before the wasm side.   *)
SetupsFresh ==
    /\ pc = "native_setup" /\ Here \in fixtures =>
         \E e \in 1..(engine - 1) : outcome[<<test, e, run>>] = "fail"
    /\ pc = "wasm_setup" => Here \notin fixtures

(* The exit code is the conjunction of every run of every test on every    *)
(* engine, whatever order they fail in.                                    *)
ExitCodeFaithful ==
    exit_code = 0 <=> /\ pc = "exited"
                      /\ \A c \in Tests \X Engines \X Runs : outcome[c] = "pass"

=============================================================================
