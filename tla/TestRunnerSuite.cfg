SPECIFICATION Spec
CONSTANTS
    NumTests = 2
    NumRuns = 2
    EngineNames <- MCEngineNames
    Hooked = {1}
    ReturnValues <- MCReturnValues
    HookValues <- MCHookValues
    Signals = {6}
INVARIANTS LeftoversReported SetupsFresh ExitCodeFaithful
CHECK_DEADLOCK FALSE
