------------------------------ MODULE SshAuth ------------------------------
(***************************************************************************)
(* Authentication in sshd with privilege separation: the unprivileged      *)
(* child, which talks to the client (auth2.c, auth2-*.c, monitor_wrap.c,   *)
(* session.c), and the privileged monitor, which answers its requests      *)
(* (monitor.c, auth.c).  Both keep an Authctxt of their own, of which they *)
(* decide independently; the monitor must be right even when the child no  *)
(* longer follows the program (FaultyChild).                                *)
(*                                                                         *)
(* A request is answered before the child goes on, so a packet of the      *)
(* client is handled in one action.  x is the pair of both processes:      *)
(* x.c the child, x.m the monitor, x.m.ans its last answer.                *)
(***************************************************************************)
EXTENDS Integers, Sequences, FiniteSets

CONSTANTS
  Confs,         \* the server's options and the account, see Conf below
  Keys,          \* public keys that a client may offer
  NoKey,         \* no key
  Ttys,          \* pseudo terminals of the machine
  MaxAttempts,   \* 1024 in input_userauth_request()
  MaxSessions,   \* options.max_sessions
  FaultyChild     \* may the child leave its program?

Methods == {"none", "publickey", "password", "keyboard-interactive", "hostbased"}
Passwords == {"empty", "secret", "wrong"}   \* "empty" is the empty one
Kinds == {"user", "host"}                    \* MM_USERKEY, MM_HOSTKEY
Commands == {"none", "one", "other"}         \* command="...", "none" if nothing is forced

Conf == [lists : Seq(Seq(Methods)), enabled : SUBSET Methods, tries : Nat, banner : BOOLEAN,
         permit_root : {"yes", "prohibit-password", "forced-commands-only", "no"},
         empty_ok : BOOLEAN, root : BOOLEAN, exists : BOOLEAN, password : Passwords,
         allowed : [Kinds -> SUBSET Keys], command : [Keys -> Commands], nopty : SUBSET Keys]

ASSUME AuthAssumption ==
  /\ MaxAttempts \in Nat /\ MaxSessions \in Nat /\ FaultyChild \in BOOLEAN
  /\ NoKey \notin Keys \cup Ttys /\ Confs \subseteq Conf

VARIABLES conf, c, m

vars == <<conf, c, m>>

MonAuth == {"AUTHPASSWORD", "KEYALLOWED", "KEYVERIFY"}    \* entries with MON_ISAUTH
MonDecide == {"AUTHPASSWORD", "KEYVERIFY"}                \* entries with MON_AUTHDECIDE
MonOnce == {"MODULI", "SIGN", "PWNAM", "AUTHSERV", "BANNER"}   \* entries with MON_ONCE
Req(t) == [t |-> t, kind |-> "user", key |-> NoKey, data |-> "user", good |-> FALSE, pw |-> "empty"]

-----------------------------------------------------------------------------
(* What both processes compute from an Authctxt.                            *)

\* Lists with a method that is not enabled are dropped; the others keep their place.
auth2_setup_methods_lists(o) ==
  [i \in {i \in DOMAIN o.lists : \A j \in DOMAIN o.lists[i] : o.lists[i][j] \in o.enabled}
     |-> o.lists[i]]

\* mutant: a method counts wherever it stands in a list
list_contains(l, method) == \E i \in DOMAIN l : l[i] = method

list_starts_with(l, method) == l # <<>> /\ Head(l) = method

\* the loop stops at the first list that is complete
auth2_update_methods_lists(lists, method) ==
  LET starts == {i \in DOMAIN lists : list_starts_with(lists[i], method)}
      complete == {i \in starts : Len(lists[i]) = 1}
      visited(i) == \A j \in complete : i <= j
  IN [found |-> starts # {}, done |-> complete # {},
      lists |-> [i \in DOMAIN lists |-> IF i \in starts /\ visited(i) THEN Tail(lists[i])
                                        ELSE lists[i]]]

auth2_method_allowed(o, lists, method) ==
  o.lists = <<>> \/ \E i \in DOMAIN lists : list_starts_with(lists[i], method)

auth_root_allowed(o, method, force) ==
  \/ o.permit_root = "yes"
  \/ o.permit_root = "prohibit-password" /\ method \in {"publickey", "hostbased"}
  \/ o.permit_root = "forced-commands-only" /\ force # "none"

\* sshauthopt_merge() fails if two different commands are forced.
Inconsistent(force, command) == force # "none" /\ command # "none" /\ force # command

\* auth_activate_options(), the command and the permission to take a terminal.  After a
\* failure auth_opts is NULL: reading it ends the process (see ClientGone) or, where address
\* 0 can be read, as in WebAssembly's linear memory, finds no command and no permission.
merged_command(force, command) ==
  IF Inconsistent(force, command) THEN "none" ELSE IF force = "none" THEN command ELSE force
merged_pty(pty, permit, force, command) == pty /\ permit /\ ~Inconsistent(force, command)

\* the options of a key, which hostbased authentication does not use
CommandOf(o, kind, key) == IF kind = "user" THEN o.command[key] ELSE "none"
PtyOf(o, kind, key) == ~(kind = "user" /\ key \in o.nopty)

auth_password(o, valid, pw) ==
  /\ valid /\ (o.root => o.permit_root = "yes")
  /\ pw # "empty" \/ o.empty_ok
  /\ pw = o.password

-----------------------------------------------------------------------------
(* The monitor.  earned is not in the code: the credentials it has verified. *)

monitor_child_preauth_begin ==
  [phase |-> "preauth", permit |-> {"MODULI", "SIGN"}, attempt |-> 0, valid |-> FALSE,
   failures |-> 0, lists |-> <<>>, used |-> {}, key |-> NoKey, kind |-> "user", calls |-> 0,
   force |-> "none", pty |-> TRUE, ttys |-> {}, method |-> "unknown", ans |-> FALSE,
   fatal |-> "none", earned |-> <<>>]

\* cleanup_exit(), do_cleanup(): the terminals still in use are released
Exit(s) == [s EXCEPT !.phase = "exited", !.ttys = {}, !.permit = {}]
Fatal(s, why) == [Exit(s) EXCEPT !.fatal = why]

mm_answer_moduli(s) == [s EXCEPT !.ans = TRUE]

mm_answer_sign(s) ==
  [s EXCEPT !.ans = TRUE, !.permit = IF s.phase = "preauth" THEN @ \cup {"PWNAM"} ELSE @]

mm_answer_pwnamallow(o, s) ==
  IF s.attempt # 0 THEN Fatal(s, "multiple attempts for getpwnam")
  ELSE [s EXCEPT !.attempt = 1, !.valid = o.exists, !.ans = o.exists,
                 !.lists = auth2_setup_methods_lists(o),
                 !.permit = @ \cup {"AUTHSERV", "BANNER"}]

mm_answer_auth2_read_banner(s) == [s EXCEPT !.ans = TRUE]

mm_answer_authserv(s) == [s EXCEPT !.ans = FALSE, !.permit = @ \cup MonAuth]

mm_answer_authpassword(o, s, pw) ==
  IF "password" \notin o.enabled THEN Fatal(s, "password authentication not enabled")
  ELSE [s EXCEPT !.ans = auth_password(o, s.valid, pw), !.calls = IF @ < 2 THEN @ + 1 ELSE 2,
                 !.method = IF pw = "empty" /\ s.calls = 0 THEN "none" ELSE "password"]

mm_answer_keyallowed(o, s, kind, key) ==
  LET method == IF kind = "user" THEN "publickey" ELSE "hostbased"
      allowed == s.valid /\ method \in o.enabled /\ key \notin s.used /\ key \in o.allowed[kind]
  IN [s EXCEPT !.ans = allowed, !.key = IF allowed THEN key ELSE NoKey, !.kind = kind]

\* The options of the key are activated whether or not the signature is good, and whether or
\* not they go together with those of an earlier key.
mm_answer_keyverify(o, s, key, data, good) ==
  IF s.key = NoKey \/ s.key # key THEN Fatal(s, "bad key, not previously allowed")
  ELSE IF data # s.kind THEN Fatal(s, "bad signature data blob")
  ELSE [s EXCEPT !.ans = good, !.key = NoKey,
                 !.used = IF good THEN @ \cup {key} ELSE @,
                 !.method = IF s.kind = "user" THEN "publickey" ELSE "hostbased",
                 !.force = merged_command(@, CommandOf(o, s.kind, key)),
                 !.pty = merged_pty(@, PtyOf(o, s.kind, key), s.force, CommandOf(o, s.kind, key))]

Handler(o, s, q) ==
  IF q.t = "MODULI" THEN mm_answer_moduli(s)
  ELSE IF q.t = "SIGN" THEN mm_answer_sign(s)
  ELSE IF q.t = "PWNAM" THEN mm_answer_pwnamallow(o, s)
  ELSE IF q.t = "BANNER" THEN mm_answer_auth2_read_banner(s)
  ELSE IF q.t = "AUTHSERV" THEN mm_answer_authserv(s)
  ELSE IF q.t = "AUTHPASSWORD" THEN mm_answer_authpassword(o, s, q.pw)
  ELSE IF q.t = "KEYALLOWED" THEN mm_answer_keyallowed(o, s, q.kind, q.key)
  ELSE IF q.t = "KEYVERIFY" THEN mm_answer_keyverify(o, s, q.key, q.data, q.good)
  ELSE Fatal(s, "unsupported request")

monitor_read(o, s, q) ==
  IF q.t \notin s.permit THEN Fatal(s, "unpermitted request")
  ELSE [Handler(o, s, q) EXCEPT !.permit = IF q.t \in MonOnce THEN @ \ {q.t} ELSE @]

\* mutant: root is not looked at again
root_unchecked(o, s, ok) == ok

\* authctxt->pw->pw_uid == 0 && !auth_root_allowed()
root_checked(o, s, ok) == ok /\ (o.root => auth_root_allowed(o, s.method, s.force))

\* mutant: the child's own limit
failures_exceeded_early(o, s) == s.failures >= o.tries

\* authctxt->failures > options.max_authtries
failures_exceeded(o, s) == s.failures > o.tries

\* the end of a turn: e is the monitor once the answer is counted
Verdict(o, e, ok) ==
  IF failures_exceeded(o, e) THEN Fatal(e, "too many authentication attempts")
  ELSE IF ok /\ ~e.valid THEN Fatal(e, "authenticated invalid user")
  ELSE IF ok THEN [e EXCEPT !.phase = "export", !.permit = {"KEYEXPORT"}]
  ELSE e

\* partial: a list is not complete yet
Count(o, d, q, partial, ok) ==
  Verdict(o, [d EXCEPT !.earned = IF d.ans THEN Append(@, <<d.method, q.key>>) ELSE @,
                       !.failures = IF ~partial /\ ~ok THEN @ + 1 ELSE @], ok)

\* u: what the method that succeeded leaves of the lists
Required(o, d, q, u) ==
  IF o.lists = <<>> \/ ~d.ans THEN Count(o, d, q, FALSE, root_checked(o, d, d.ans))
  ELSE IF ~u.found THEN Fatal(d, "method not in AuthenticationMethods")
  ELSE Count(o, [d EXCEPT !.lists = u.lists], q, ~u.done, root_checked(o, d, u.done))

\* d is the monitor after the request was handled
Decide(o, d, q) ==
  IF d.phase = "exited" \/ q.t \notin MonDecide THEN d
  ELSE Required(o, d, q, auth2_update_methods_lists(d.lists, d.method))

\* one turn of the loop in monitor_child_preauth()
monitor_child_preauth(o, s, q) == Decide(o, monitor_read(o, [s EXCEPT !.method = "unknown"], q), q)

\* mm_get_keystate() takes nothing but the key state; the user child is forked, except for root
mm_get_keystate(o, s, q) ==
  IF q.t # "KEYEXPORT" THEN Fatal(s, "unexpected request")
  ELSE IF o.root THEN [s EXCEPT !.phase = "direct", !.permit = {}]
  ELSE [s EXCEPT !.phase = "postauth",
                 !.permit = {"MODULI", "SIGN", "TERM"}
                            \cup (IF s.pty THEN {"PTY", "PTYCLEANUP"} ELSE {})]

\* mm_answer_pty(): tty is what pty_allocate() returns, NoKey if it fails
mm_answer_pty(s, tty) ==
  IF tty = NoKey \/ Cardinality(s.ttys) >= MaxSessions THEN [s EXCEPT !.ans = FALSE]
  ELSE [s EXCEPT !.ans = TRUE, !.ttys = @ \cup {tty}]

mm_answer_pty_cleanup(s, tty) == [s EXCEPT !.ttys = @ \ {tty}]

\* mutant: the terminals are left to the child
mm_answer_term_keep(s) == [s EXCEPT !.phase = "exited", !.permit = {}]

\* session_destroy_all(mm_session_close), then wait for the child and exit
mm_answer_term(s) == [s EXCEPT !.phase = "exited", !.ttys = {}, !.permit = {}]

monitor_child_postauth(o, s, q) ==
  IF q.t \notin s.permit THEN Fatal(s, "unpermitted request")
  ELSE IF q.t = "PTY" THEN mm_answer_pty(s, q.key)
  ELSE IF q.t = "PTYCLEANUP" THEN mm_answer_pty_cleanup(s, q.key)
  ELSE IF q.t = "TERM" THEN mm_answer_term(s)
  ELSE IF q.t = "SIGN" THEN mm_answer_sign(s)
  ELSE mm_answer_moduli(s)

Monitor(o, s, q) ==
  IF s.phase = "preauth" THEN monitor_child_preauth(o, s, q)
  ELSE IF s.phase = "export" THEN mm_get_keystate(o, s, q)
  ELSE IF s.phase = "postauth" THEN monitor_child_postauth(o, s, q)
  ELSE s

-----------------------------------------------------------------------------
(* The child.                                                               *)

privsep_preauth_child ==
  [status |-> "kex", sane |-> TRUE, service |-> "none", attempt |-> 0, failures |-> 0,
   valid |-> FALSE, lists |-> <<>>, used |-> {}, none |-> TRUE, success |-> FALSE,
   force |-> "none", pty |-> TRUE, ttys |-> {}]

\* mm_request_send() and mm_request_receive_expect(): the child goes with the monitor
Answered(x, d) ==
  [c |-> IF d.phase = "exited" THEN [x.c EXCEPT !.status = "dead"] ELSE x.c, m |-> d]

Ask(o, x, q) == Answered(x, Monitor(o, x.m, q))

\* fatal(), ssh_packet_disconnect(): the monitor reads the end of file and exits
Quit(x) == [c |-> [x.c EXCEPT !.status = "dead"], m |-> Exit(x.m)]

mm_auth_password(o, x, pw) == Ask(o, x, [Req("AUTHPASSWORD") EXCEPT !.pw = pw])
mm_key_allowed(o, x, kind, key) ==
  Ask(o, x, [Req("KEYALLOWED") EXCEPT !.kind = kind, !.key = key])
mm_sshkey_verify(o, x, kind, key, good) ==
  Ask(o, x, [Req("KEYVERIFY") EXCEPT !.key = key, !.data = kind, !.good = good])

\* A method returns what userauth_finish() needs: the pair, whether the user is authenticated
\* and whether the answer is postponed.
Result(x, ok) == [x |-> x, ok |-> ok, postponed |-> FALSE]
ByAnswer(x) == Result(x, x.m.ans)

userauth_none(o, x) ==
  IF o.empty_ok /\ "password" \in o.enabled
  THEN ByAnswer(mm_auth_password(o, [x EXCEPT !.c.none = FALSE], "empty"))
  ELSE Result([x EXCEPT !.c.none = FALSE], FALSE)

userauth_passwd(o, x, pw) == ByAnswer(mm_auth_password(o, x, pw))

\* auth2_record_key(), then auth_activate_options(), once the signature was verified.  If the
\* options of the key do not go together with those of an earlier one, the child takes the
\* success back; the monitor has counted it.
Record(o, x, kind, key) ==
  IF ~x.m.ans THEN Result(x, FALSE)
  ELSE LET command == CommandOf(o, kind, key)
       IN Result([x EXCEPT !.c = [x.c EXCEPT
                    !.used = x.c.used \cup {key},
                    !.force = merged_command(x.c.force, command),
                    !.pty = merged_pty(x.c.pty, PtyOf(o, kind, key), x.c.force, command)]],
                 ~Inconsistent(x.c.force, command))

\* x is the pair after the monitor was asked for the key; without a signature the client
\* asks whether the key would do
Signature(o, x, kind, key, signed, good) ==
  IF ~signed THEN [x |-> x, ok |-> FALSE, postponed |-> x.m.ans]
  ELSE IF ~x.m.ans THEN Result(x, FALSE)
  ELSE Record(o, mm_sshkey_verify(o, x, kind, key, good), kind, key)

userauth_pubkey(o, x, key, signed, good) ==
  IF key \in x.c.used \/ ~x.c.valid THEN Result(x, FALSE)
  ELSE Signature(o, mm_key_allowed(o, x, "user", key), "user", key, signed, good)

userauth_hostbased(o, x, key, good) ==
  IF ~x.c.valid THEN Result(x, FALSE)
  ELSE Signature(o, mm_key_allowed(o, x, "host", key), "host", key, TRUE, good)

\* this build has no keyboard-interactive device
userauth_kbdint(x) == Result(x, FALSE)

authmethod_lookup(o, d, method) ==
  /\ IF method = "none" THEN d.none ELSE method \in o.enabled
  /\ auth2_method_allowed(o, d.lists, method)

\* a failure is paid for, except a first "none" and a partial success
Pay(o, x, method, partial) ==
  LET n == x.c.failures + (IF ~partial /\ (x.c.attempt > 1 \/ method # "none") THEN 1 ELSE 0)
      y == [x EXCEPT !.c.failures = n]
  IN IF n >= o.tries THEN Quit(y) ELSE y                     \* auth_maxtries_exceeded()

\* root: authenticated, and root may use the method; u: what is left of the lists
Finish(o, x, method, root, u) ==
  IF ~root THEN Pay(o, x, method, FALSE)
  ELSE IF o.lists = <<>> THEN [x EXCEPT !.c.success = TRUE]
  ELSE IF ~u.found THEN Quit(x)
  ELSE IF u.done THEN [x EXCEPT !.c = [x.c EXCEPT !.success = TRUE, !.lists = u.lists]]
  ELSE Pay(o, [x EXCEPT !.c.lists = u.lists], method, TRUE)

userauth_finish(o, r, method) ==
  IF r.x.c.status = "dead" \/ r.postponed THEN r.x
  ELSE IF r.ok /\ ~r.x.c.valid THEN Quit(r.x)               \* INTERNAL ERROR
  ELSE Finish(o, r.x, method, r.ok /\ (o.root => auth_root_allowed(o, method, r.x.c.force)),
              auth2_update_methods_lists(r.x.c.lists, method))

\* The first request sets the context up: the user, the service, the banner, the lists.
SetUser(x, service) ==
  [x EXCEPT !.c = [x.c EXCEPT !.service = service,
                              !.valid = x.m.ans /\ service = "ssh-connection"]]

Banner(o, x) == IF o.banner THEN Ask(o, x, Req("BANNER")) ELSE x

SetLists(o, x, l) ==
  IF x.c.status = "dead" \/ (o.lists # <<>> /\ DOMAIN l = {}) THEN Quit(x)
  ELSE [x EXCEPT !.c.lists = l]

Setup(o, x, service) ==
  SetLists(o, Banner(o, Ask(o, SetUser(Ask(o, x, Req("PWNAM")), service), Req("AUTHSERV"))),
           auth2_setup_methods_lists(o))

Method(o, x, a) ==
  IF a.method = "none" THEN userauth_none(o, x)
  ELSE IF a.method = "password" THEN userauth_passwd(o, x, a.pw)
  ELSE IF a.method = "publickey" THEN userauth_pubkey(o, x, a.key, a.signed, a.good)
  ELSE IF a.method = "hostbased" THEN userauth_hostbased(o, x, a.key, a.good)
  ELSE userauth_kbdint(x)

\* the first half of input_userauth_request()
Begin(o, x, service) ==
  IF x.c.attempt >= MaxAttempts \/ (x.c.attempt > 0 /\ service # x.c.service) THEN Quit(x)
  ELSE IF x.c.attempt = 0 THEN Setup(o, [x EXCEPT !.c.attempt = 1], service)
  ELSE [x EXCEPT !.c.attempt = @ + 1]

\* the second half
Try(o, x, a) ==
  IF x.c.status = "dead" THEN x
  ELSE userauth_finish(o, IF authmethod_lookup(o, x.c, a.method) /\ x.c.failures < o.tries
                          THEN Method(o, x, a) ELSE Result(x, FALSE), a.method)

input_userauth_request(o, x, service, a) == Try(o, Begin(o, x, service), a)

-----------------------------------------------------------------------------
(* Actions.                                                                 *)

Pair == [c |-> c, m |-> m]
Become(x) == c' = x.c /\ m' = x.m /\ UNCHANGED conf

\* do_ssh2_kex(): the host key signs the exchange; a group exchange asks for a group before
Kex == /\ c.status = "kex" /\ c.sane
       /\ \E gex \in BOOLEAN :
          \E x \in {IF gex THEN Ask(conf, Pair, Req("MODULI")) ELSE Pair} :
          \E y \in {Ask(conf, x, Req("SIGN"))} :
            Become([y EXCEPT !.c.status = IF @ = "dead" THEN @ ELSE "service"])

input_service_request ==
  /\ c.status = "service" /\ c.sane
  /\ \E service \in {"ssh-userauth", "other"} :
       Become(IF service = "ssh-userauth" THEN [Pair EXCEPT !.c.status = "auth"] ELSE Quit(Pair))

\* what a client can put into a request
Attempts ==
  [method : {"none", "keyboard-interactive"}, key : {NoKey}, signed : {FALSE}, good : {FALSE},
   pw : {"empty"}]
  \cup [method : {"password"}, key : {NoKey}, signed : {FALSE}, good : {FALSE}, pw : Passwords]
  \cup [method : {"publickey"}, key : Keys, signed : BOOLEAN, good : BOOLEAN, pw : {"empty"}]
  \cup [method : {"hostbased"}, key : Keys, signed : {TRUE}, good : BOOLEAN, pw : {"empty"}]

UserauthRequest ==
  /\ c.status = "auth" /\ c.sane /\ ~c.success
  /\ \E a \in Attempts, service \in {"ssh-connection", "other"} :
       /\ a.good => a.signed
       /\ \E x \in {input_userauth_request(conf, Pair, service, a)} : Become(x)

\* mm_send_keystate(), exit(0); the user child has the options that the child had
Export ==
  /\ c.status = "auth" /\ c.success /\ c.sane
  /\ \E x \in {Ask(conf, Pair, Req("KEYEXPORT"))} :
       Become([x EXCEPT !.c = [x.c EXCEPT !.status = IF x.c.status = "dead" THEN "dead" ELSE "user",
                                          !.force = x.m.force, !.pty = x.m.pty]])

\* session_pty_req(); tty is what pty_allocate() finds, NoKey if there is none
PtyReq ==
  /\ c.status = "user" /\ c.sane /\ m.phase = "postauth" /\ c.pty
  /\ Cardinality(c.ttys) < MaxSessions
  /\ \E tty \in (Ttys \ m.ttys) \cup {NoKey} :
     \E x \in {Ask(conf, Pair, [Req("PTY") EXCEPT !.key = tty])} :
       Become(IF x.c.status # "dead" /\ x.m.ans THEN [x EXCEPT !.c.ttys = @ \cup {tty}] ELSE x)

\* session_pty_cleanup(), when the session's channel or process is closed
PtyCleanup ==
  /\ c.status = "user" /\ c.sane
  /\ \E tty \in c.ttys :
     \E x \in {Ask(conf, Pair, [Req("PTYCLEANUP") EXCEPT !.key = tty])} :
       Become([x EXCEPT !.c.ttys = @ \ {tty}])

\* mm_terminate(), at the end of main()
Terminate ==
  /\ c.status = "user" /\ c.sane /\ m.phase = "postauth"
  /\ \E x \in {Ask(conf, Pair, Req("TERM"))} : Become([x EXCEPT !.c.status = "dead"])

\* the connection fails, or the child dies, at any time
ClientGone == c.status # "dead" /\ c.sane /\ Become(Quit(Pair))

\* grace_alarm_handler(), until alarm(0) after the key state was taken
GraceAlarm ==
  /\ m.phase \in {"preauth", "export"}
  /\ Become(Quit(Pair))

\* The child no longer follows its program and may send any request in any order.
BecomesFaulty == FaultyChild /\ c.sane /\ c.status # "dead" /\ m.phase # "direct"
               /\ Become([Pair EXCEPT !.c.sane = FALSE])

\* what it can send: a password, a key that is asked for or signs, a terminal, or nothing else
Strays ==
  LET Fields(types, kinds, keys, data, good, pws) ==
        [t : types, kind : kinds, key : keys, data : data, good : good, pw : pws]
  IN Fields(MonOnce \cup {"KEYEXPORT", "TERM"}, {"user"}, {NoKey}, {"user"}, {FALSE}, {"empty"})
     \cup Fields({"AUTHPASSWORD"}, {"user"}, {NoKey}, {"user"}, {FALSE}, Passwords)
     \cup Fields({"KEYALLOWED"}, Kinds, Keys, {"user"}, {FALSE}, {"empty"})
     \cup Fields({"KEYVERIFY"}, {"user"}, Keys, Kinds, BOOLEAN, {"empty"})
     \cup Fields({"PTY", "PTYCLEANUP"}, {"user"}, Ttys, {"user"}, {FALSE}, {"empty"})

Stray ==
  /\ ~c.sane /\ c.status # "dead"
  /\ \E q \in Strays :
       /\ q.t = "PTY" => q.key \notin m.ttys
       /\ m.phase # "direct"
       /\ \E x \in {Ask(conf, Pair, q)} : Become(x)

Init == conf \in Confs /\ c = privsep_preauth_child /\ m = monitor_child_preauth_begin

Next == \/ Kex \/ input_service_request \/ UserauthRequest \/ Export
        \/ PtyReq \/ PtyCleanup \/ Terminate
        \/ ClientGone \/ GraceAlarm \/ BecomesFaulty \/ Stray

Spec == Init /\ [][Next]_vars

-----------------------------------------------------------------------------
(* Properties.                                                              *)

TypeOK ==
  /\ conf \in Conf
  /\ c.status \in {"kex", "service", "auth", "user", "dead"} /\ c.used \subseteq Keys
  /\ c.attempt \in 0..MaxAttempts /\ c.failures \in 0..(conf.tries + 1) /\ c.ttys \subseteq Ttys
  /\ m.phase \in {"preauth", "export", "postauth", "direct", "exited"}
  /\ m.attempt \in 0..1 /\ m.failures \in 0..(conf.tries + 1) /\ m.used \subseteq Keys
  /\ m.key \in Keys \cup {NoKey} /\ m.ttys \subseteq Ttys /\ Cardinality(m.ttys) <= MaxSessions

\* l can be read off s, in order
Within(l, s) ==
  \E f \in [DOMAIN l -> DOMAIN s] :
     \A i \in DOMAIN l : s[f[i]][1] = l[i] /\ \A j \in DOMAIN l : i < j => f[i] < f[j]

\* The monitor takes a user in only if the account exists and, even for a child that sends
\* whatever it likes, it has itself verified all methods of one list of
\* AuthenticationMethods in their order (any method if there are no lists), no key twice,
\* the last of them a method that root may use (monitor_child_preauth()).
LoginEarned ==
  m.phase \in {"export", "postauth", "direct"} =>
    /\ conf.exists /\ m.earned # <<>>
    /\ conf.lists # <<>> => \E i \in DOMAIN conf.lists : Within(conf.lists[i], m.earned)
    /\ \A i, j \in DOMAIN m.earned :
         (i # j /\ m.earned[i][2] = m.earned[j][2]) => m.earned[i][2] = NoKey
    /\ conf.root => auth_root_allowed(conf, m.earned[Len(m.earned)][1], m.force)

\* The configurations in which both processes look at root, at empty passwords and at the
\* options of the keys alike.
Aligned ==
  /\ (conf.lists # <<>> /\ conf.root) => conf.permit_root \in {"yes", "prohibit-password"}
  /\ conf.lists # <<>> => ~(conf.empty_ok /\ conf.password = "empty")
  /\ (conf.root /\ conf.permit_root = "forced-commands-only") =>
       \A k \in Keys : conf.command[k] = "none"
  /\ \A k, l \in Keys : ~Inconsistent(conf.command[k], conf.command[l])

\* Between two packets the processes agree: on the verdict, on the lists that are left and on
\* the keys that were used (two copies of Authctxt that are updated separately).
SameVerdict ==
  (Aligned /\ c.sane /\ c.status = "auth") =>
    (c.success <=> m.phase = "export") /\ c.lists = m.lists /\ c.used = m.used

\* A child that follows its program never makes a request that the monitor takes for an
\* attack: none out of turn, and one attempt too many ("Shouldn't happen") only if empty
\* passwords are permitted, because the monitor then counts the first "none" that the child
\* does not, and only in the attempt after which the child would have ended the connection.
MonitorTrusts ==
  (Aligned /\ c.sane) =>
    \/ m.fatal = "none"
    \/ /\ m.fatal = "too many authentication attempts"
       /\ conf.empty_ok /\ ~c.none /\ c.failures + 1 = conf.tries /\ c.status = "dead"

\* A terminal that was given to a session is released when the monitor is gone, whatever
\* ended it, and until then parent and child agree which ones are in use.
TtysReleased ==
  /\ m.phase = "exited" => m.ttys = {}
  /\ (c.sane /\ m.phase = "postauth") => c.ttys = m.ttys
=============================================================================
