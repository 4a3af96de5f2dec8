---------------------------- MODULE MCTestRunner ----------------------------
(* Two engines; a test returns 0, an errno, -1, which exit() makes 255, or *)
(* a value that exit() makes 0.                                            *)
EXTENDS TestRunner

MCEngineNames == <<"iwasm", "other">>
MCReturnValues == {0, 1, -1, 256}
MCHookValues == {0, -1}
=============================================================================
