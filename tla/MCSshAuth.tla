----------------------------- MODULE MCSshAuth -----------------------------
(* Accounts and server options for SshAuth.                                *)
EXTENDS SshAuth

CONSTANTS k1, k2

Base == [lists |-> <<>>, enabled |-> {"publickey", "password", "keyboard-interactive"},
         tries |-> 2, banner |-> FALSE, permit_root |-> "prohibit-password", empty_ok |-> FALSE,
         root |-> FALSE, exists |-> TRUE, password |-> "secret",
         allowed |-> [user |-> {k1, k2}, host |-> {}], command |-> [k \in Keys |-> "none"],
         nopty |-> {}]

KeyThenPassword == <<"publickey", "password">>
TwoKeys == <<"publickey", "publickey">>

MCConfs ==
  { Base, [Base EXCEPT !.exists = FALSE],
    [Base EXCEPT !.lists = <<KeyThenPassword, TwoKeys>>, !.banner = TRUE,
                 !.command = [k \in Keys |-> "one"]],
    [Base EXCEPT !.lists = <<<<"password", "publickey">>, <<"hostbased">>>>, !.tries = 1],
    [Base EXCEPT !.root = TRUE, !.allowed = [user |-> {k1}, host |-> {k2}],
                 !.enabled = @ \cup {"hostbased"}, !.lists = <<<<"hostbased", "publickey">>>>],
    [Base EXCEPT !.root = TRUE, !.permit_root = "forced-commands-only", !.command[k1] = "one"],
    [Base EXCEPT !.root = TRUE, !.permit_root = "no"],
    [Base EXCEPT !.empty_ok = TRUE, !.password = "empty", !.nopty = {k1}],
    [Base EXCEPT !.empty_ok = TRUE, !.lists = <<KeyThenPassword>>],
    [Base EXCEPT !.lists = <<TwoKeys>>,
                 !.command = [k \in Keys |-> IF k = k1 THEN "one" ELSE "other"]],
    [Base EXCEPT !.empty_ok = TRUE] }

=============================================================================
