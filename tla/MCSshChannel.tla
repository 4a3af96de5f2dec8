---------------------------- MODULE MCSshChannel ----------------------------
(* What is written to each stream.  The output in Data exceeds the window,  *)
(* so that the session needs window adjustments.                            *)
EXTENDS SshChannel

Data == [f \in Streams |-> IF f = "stdout" THEN 2 ELSE 1]
OneEach == [f \in Streams |-> 1]
=============================================================================
