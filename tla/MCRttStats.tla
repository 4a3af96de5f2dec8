----------------------------- MODULE MCRttStats -----------------------------
(* Up to four samples of eight bits. *)
EXTENDS RttStats

MCIterations == 0..4
=============================================================================
