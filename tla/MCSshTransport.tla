--------------------------- MODULE MCSshTransport ---------------------------
(* The instance of SshTransport that TLC checks.                           *)
EXTENDS SshTransport
=============================================================================
