--------------------------- MODULE MCSshdListener ---------------------------
(* Three connections, the first two from one address, which sshd may not   *)
(* get to know for the first one.                                          *)
EXTENDS SshdListener

CONSTANTS c1, c2, c3

MCSource == [c \in Conns |-> IF c = c3 THEN "b" ELSE "a"]
=============================================================================
