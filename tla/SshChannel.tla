----------------------------- MODULE SshChannel -----------------------------
(***************************************************************************)
(* One SSH session channel between an OpenSSH client and an OpenSSH server *)
(* (channels.c, nchan.c, and what session.c, serverloop.c and clientloop.c *)
(* do to such a channel).  Each peer is one process that runs a loop:      *)
(* dispatch the packets that arrived, make packets from the buffered data, *)
(* (server) reap the children, prepare poll(), poll(), serve the ready     *)
(* descriptors.  A packet is handled by one Receive action; the rest of an *)
(* iteration touches nothing another process can see except the packets it *)
(* sends and the descriptors, and is one Turn action.                      *)
(*                                                                         *)
(* A handler is an operator from the channel's record to its record after  *)
(* the call; the packets the call sends are appended to the field sent.    *)
(* Data is counted in units, not spelled out: a buffer is its length.      *)
(***************************************************************************)
EXTENDS Integers, Sequences, FiniteSets

CONSTANTS
  Window,       \* CHAN_SES_WINDOW_DEFAULT, in units
  Packet,       \* CHAN_SES_PACKET_DEFAULT (also CHANNEL_MAX_READ), in units
  RBuf,         \* CHAN_RBUF, in units
  Written,      \* units that are written to each of Streams at most
  Ttys,         \* subset of BOOLEAN: may the session have a pty?
  Timeouts,     \* the peers on which a channel inactivity timeout is configured
  MayBreak      \* the client descriptors a write can fail on

Peers == {"client", "server"}
Streams == {"stdin", "stdout", "stderr"}

ASSUME ChannelAssumption ==
  /\ Window \in Nat \ {0, 1} /\ Packet \in Nat \ {0} /\ RBuf \in Nat \ {0}
  /\ Written \in [Streams -> Nat]
  /\ Ttys \subseteq BOOLEAN /\ Timeouts \subseteq Peers
  /\ MayBreak \subseteq {"stdout", "stderr"}

VARIABLES
  ch,        \* the Channel of each peer
  net,       \* packets on their way to each peer, in order
  left,      \* units of each stream not yet written
  src,       \* units written to each stream and not yet read by ssh or sshd
  closed,    \* streams whose writers have all closed them
  child,     \* the command: "none", "running", "exited" (a zombie), "reaped"
  up,        \* the connection
  got,       \* units of each stream written to its final descriptor
  exitSeen,  \* client_input_channel_req recorded the exit status
  broke      \* what went wrong outside: a failed write, a forced close, a killed command

vars == <<ch, net, left, src, closed, child, up, got, exitSeen, broke>>

Other(p) == IF p = "client" THEN "server" ELSE "client"
Least(a, b) == IF a < b THEN a ELSE b
Pkt(t, n) == [t |-> t, n |-> n]
Put(c, t, n) == [c EXCEPT !.sent = Append(@, Pkt(t, n))]

-----------------------------------------------------------------------------
(* The Channel.  want is io_want, and only lives within a Turn; detach is   *)
(* detach_user with detach_close: "none", "wait" (0) or "close" (1); pid    *)
(* says that the server's session has a child.  err records that the peer   *)
(* called fatal() or ssh_packet_disconnect().                               *)

channel_new(type, win, usage, fds, tty) ==
  [type |-> type, istate |-> "open", ostate |-> "open", flags |-> {},
   input |-> 0, output |-> 0, extended |-> 0,
   local_window |-> win, local_consumed |-> 0, remote_window |-> 0,
   usage |-> usage, fds |-> fds, tty |-> tty, want |-> {},
   detach |-> "wait", pid |-> FALSE, sent |-> <<>>, err |-> FALSE]

channel_free(c) ==
  [channel_new("free", 0, "ignore", {}, FALSE) EXCEPT
     !.detach = "none", !.tty = c.tty, !.sent = c.sent, !.err = c.err]

channel_lookup(c) == c.type \notin {"free", "zombie"}

CHANNEL_EFD_INPUT_ACTIVE(c) ==
  c.usage = "read" /\ ("efd" \in c.fds \/ c.extended > 0)

CHANNEL_EFD_OUTPUT_ACTIVE(c) ==
  /\ c.usage = "write" /\ "efd" \in c.fds
  /\ c.flags \cap {"eof_rcvd", "close_rcvd"} = {} \/ c.extended > 0

(* nchan.c *)

chan_shutdown_write(c) ==
  [c EXCEPT !.output = 0, !.fds = IF c.type = "larval" THEN @ ELSE @ \ {"wfd"}]

chan_shutdown_read(c) ==
  [c EXCEPT !.fds = IF c.type = "larval" THEN @ ELSE @ \ {"rfd"}]

chan_shutdown_extended_read(c) ==
  [c EXCEPT !.fds = IF c.type = "larval" \/ c.usage = "write" THEN @ ELSE @ \ {"efd"}]

chan_send_eof2(c) ==
  IF c.istate = "drain"
  THEN [Put(c, "EOF", 0) EXCEPT !.flags = @ \cup {"eof_sent"}] ELSE c

chan_send_eow2(c) == IF c.ostate = "closed" THEN c ELSE Put(c, "EOW", 0)

\* mutant: CLOSE is sent again each time the channel is looked at
chan_send_close2_again(c) ==
  IF c.ostate = "closed" /\ c.istate = "closed"
  THEN [Put(c, "CLOSE", 0) EXCEPT !.flags = @ \cup {"close_sent"}] ELSE c

chan_send_close2(c) ==
  IF c.ostate = "closed" /\ c.istate = "closed" /\ "close_sent" \notin c.flags
  THEN [Put(c, "CLOSE", 0) EXCEPT !.flags = @ \cup {"close_sent"}] ELSE c

chan_read_failed(c) ==
  IF c.istate = "open"
  THEN [chan_shutdown_read(c) EXCEPT !.istate = "drain"] ELSE c

chan_ibuf_empty(c) ==
  IF c.input = 0 /\ c.istate = "drain"
  THEN [IF "close_sent" \in c.flags THEN c ELSE chan_send_eof2(c)
          EXCEPT !.istate = "closed"]
  ELSE c

chan_obuf_empty(c) ==
  IF c.output = 0 /\ c.ostate = "drain"
  THEN [chan_shutdown_write(c) EXCEPT !.ostate = "closed"] ELSE c

chan_rcvd_eow(c) ==
  IF c.istate = "open"
  THEN [chan_shutdown_read(c) EXCEPT !.istate = "closed"] ELSE c

chan_rcvd_ieof(c) ==
  LET d == [c EXCEPT !.flags = @ \cup {"eof_rcvd"},
                     !.ostate = IF @ = "open" THEN "drain" ELSE @]
  IN IF CHANNEL_EFD_OUTPUT_ACTIVE(d) THEN d ELSE chan_obuf_empty(d)

chan_rcvd_oclose(c) ==
  LET d == [c EXCEPT !.flags = @ \cup {"close_rcvd"},
                     !.ostate = IF c.type = "larval" THEN "closed"
                                ELSE IF @ = "open" THEN "drain" ELSE @]
  IN IF c.type = "larval" THEN [d EXCEPT !.istate = "closed"]
     ELSE IF c.istate = "open"
     THEN [chan_shutdown_extended_read(chan_shutdown_read(d)) EXCEPT !.istate = "closed"]
     ELSE IF c.istate = "drain"
     THEN [chan_shutdown_extended_read(chan_send_eof2(d)) EXCEPT !.istate = "closed"]
     ELSE d

chan_write_failed(c) ==
  IF c.ostate \in {"open", "drain"}
  THEN [chan_send_eow2(chan_shutdown_write(c)) EXCEPT !.ostate = "closed"] ELSE c

chan_mark_dead(c) == [c EXCEPT !.type = "zombie"]

\* chan_is_dead() may send CLOSE on the way: the channel after that, and the answer
chan_maybe_close(c, do_send) ==
  IF c.type # "zombie" /\ do_send THEN chan_send_close2(c) ELSE c

\* mutant: an end that has sent CLOSE does not wait for the other's
chan_is_dead_unanswered(c, do_send) ==
  \/ c.type = "zombie"
  \/ c.istate = "closed" /\ c.ostate = "closed" /\ c.flags \cap {"close_sent", "close_rcvd"} # {}

chan_is_dead(c, do_send) ==
  \/ c.type = "zombie"
  \/ /\ c.istate = "closed" /\ c.ostate = "closed"
     /\ \/ {"close_sent", "close_rcvd"} \subseteq c.flags
        \/ ~do_send /\ "close_rcvd" \in c.flags

-----------------------------------------------------------------------------
(* Packet handlers.                                                         *)

channel_input_data(c, n) ==
  IF c.type # "open" THEN c
  ELSE IF c.ostate # "open"
  THEN [c EXCEPT !.local_window = @ - n, !.local_consumed = @ + n]
  ELSE IF n > Packet \/ n > c.local_window THEN c
  ELSE [c EXCEPT !.local_window = @ - n, !.output = @ + n]

channel_input_extended_data(c, n) ==
  IF c.type # "open" THEN c
  ELSE IF "eof_rcvd" \in c.flags THEN [c EXCEPT !.err = TRUE]
  ELSE IF "efd" \notin c.fds \/ c.usage # "write" \/ n > c.local_window THEN c
  ELSE [c EXCEPT !.extended = @ + n, !.local_window = @ - n]

channel_input_open_confirmation(c, n) ==
  IF c.type # "opening" THEN [c EXCEPT !.err = TRUE]
  ELSE Put([c EXCEPT !.remote_window = n, !.type = "open"], "EXEC", 0)

channel_input_open_failure(c) ==
  IF c.type # "opening" THEN [c EXCEPT !.err = TRUE] ELSE chan_mark_dead(c)

channel_input_window_adjust(c, n) == [c EXCEPT !.remote_window = @ + n]

\* a session that already has its command, or lost its Session, answers no
session_input_channel_req(c, ok) ==
  IF c.type = "larval" /\ c.detach # "none" /\ ok
  THEN Put([c EXCEPT !.type = "open", !.local_window = Window, !.pid = TRUE,
                     !.usage = IF c.tty THEN "ignore" ELSE "read",
                     !.fds = {"rfd", "wfd"} \cup (IF c.tty THEN {} ELSE {"efd"})],
           "ADJUST", Window)
  ELSE c

-----------------------------------------------------------------------------
(* The rest of an iteration of the loop.                                    *)

\* mutant: EOF does not wait for the extended stream
channel_output_poll_input_hasty(c) ==
  LET len == Least(c.input, Least(c.remote_window, Packet)) IN
  IF c.input = 0 THEN IF c.istate = "drain" THEN chan_ibuf_empty(c) ELSE c
  ELSE IF len = 0 THEN c
  ELSE [Put(c, "DATA", len) EXCEPT !.input = @ - len, !.remote_window = @ - len]

channel_output_poll_input_open(c) ==
  LET len == Least(c.input, Least(c.remote_window, Packet)) IN
  IF c.input = 0
  THEN IF c.istate = "drain" /\ ~CHANNEL_EFD_INPUT_ACTIVE(c)
       THEN chan_ibuf_empty(c) ELSE c
  ELSE IF len = 0 THEN c
  ELSE [Put(c, "DATA", len) EXCEPT !.input = @ - len, !.remote_window = @ - len]

channel_output_poll_extended_read(c) ==
  LET len == Least(c.extended, Least(c.remote_window, Packet)) IN
  IF len = 0 THEN c
  ELSE [Put(c, "EXT", len) EXCEPT !.extended = @ - len, !.remote_window = @ - len]

channel_output_poll(c) ==
  IF c.type # "open" \/ c.flags \cap {"close_sent", "close_rcvd"} # {} THEN c
  ELSE LET d == IF c.istate \in {"open", "drain"}
                THEN channel_output_poll_input_open(c) ELSE c
       IN IF "eof_sent" \notin d.flags /\ d.usage = "read"
          THEN channel_output_poll_extended_read(d) ELSE d

\* the channel request of each way to end: "exit-status" (EXIT) or "exit-signal" (SIGNAL)
ExitRequest(status) == IF status = "exited" THEN "EXIT" ELSE "SIGNAL"

\* session_close_by_pid(): the exit message, and CLOSE from now on; a status that is neither
\* WIFEXITED() nor WIFSIGNALED() disconnects (waitpid() with WNOHANG alone never returns one)
session_exit_message(c, status) ==
  IF ~channel_lookup(c) \/ status \notin {"exited", "killed"} THEN [c EXCEPT !.err = TRUE]
  ELSE LET d == [Put(c, ExitRequest(status), 0) EXCEPT !.detach = "close", !.pid = FALSE]
       IN IF d.ostate # "closed" THEN chan_write_failed(d) ELSE d

\* session_close_by_channel() on the server, client_channel_closed() on the client
detach_user(c, force) ==
  IF c.pid /\ ~force THEN c ELSE [c EXCEPT !.detach = "none", !.pid = FALSE]

\* mutant: detach_close is ignored, CLOSE is sent as soon as both directions are closed
channel_garbage_collect_eager(c) ==
  LET asked == chan_maybe_close(c, TRUE)
      told  == IF c.detach # "none" /\ chan_is_dead(asked, TRUE)
               THEN detach_user(asked, FALSE) ELSE asked
  IN IF c.type = "free" THEN c
     ELSE IF told.detach # "none" THEN told
     ELSE IF chan_is_dead(told, TRUE) THEN channel_free(told) ELSE told

channel_garbage_collect(c) ==
  LET asked == chan_maybe_close(c, c.detach = "close")
      told  == IF c.detach # "none" /\ chan_is_dead(asked, c.detach = "close")
               THEN detach_user(asked, FALSE) ELSE asked
      last  == chan_maybe_close(told, TRUE)
  IN IF c.type = "free" THEN c
     ELSE IF told.detach # "none" THEN told
     ELSE IF chan_is_dead(last, TRUE) THEN channel_free(last) ELSE last

channel_force_close(c) ==
  LET d == chan_read_failed(c)
      e == chan_ibuf_empty([d EXCEPT !.input = IF d.istate = "drain" THEN 0 ELSE @])
      f == chan_write_failed(e)
  IN [detach_user(f, TRUE) EXCEPT !.fds = @ \ {"efd"}, !.type = "abandoned"]

channel_pre_open(c) ==
  LET d == IF c.ostate = "drain" /\ c.output = 0 /\ ~CHANNEL_EFD_OUTPUT_ACTIVE(c)
           THEN chan_obuf_empty(c) ELSE c
      efd == "efd" \in d.fds /\ ~(d.istate = "closed" /\ d.ostate = "closed")
  IN [d EXCEPT !.want =
       (IF c.istate = "open" /\ c.input < c.remote_window THEN {"rfd"} ELSE {})
       \cup (IF c.ostate \in {"open", "drain"} /\ c.output > 0 THEN {"wfd"} ELSE {})
       \cup (IF efd /\ c.usage = "write" /\ c.extended > 0 THEN {"efd_w"} ELSE {})
       \cup (IF efd /\ c.usage \in {"read", "ignore"} /\ "eof_sent" \notin c.flags
                  /\ c.extended < c.remote_window THEN {"efd_r"} ELSE {})]

(* I/O results: n > 0 units, 0 end of file or an error, -1 not ready.        *)

\* mutant: after the command's exit a pty is still read only when poll() says so
channel_handle_rfd_unforced(c, n) ==
  IF "rfd" \notin c.want \/ n = -1 \/ c.input >= c.remote_window THEN c
  ELSE IF n <= 0 THEN chan_read_failed(c)
  ELSE [c EXCEPT !.input = @ + n]

channel_handle_rfd(c, n) ==
  LET force == c.tty /\ c.detach = "close" /\ c.istate # "closed" IN
  IF (~force /\ ("rfd" \notin c.want \/ n = -1)) \/ c.input >= c.remote_window THEN c
  ELSE IF n <= 0 THEN chan_read_failed(c)
  ELSE [c EXCEPT !.input = @ + n]

channel_handle_wfd(c, n) ==
  IF "wfd" \notin c.want \/ n = -1 \/ c.output = 0 THEN c
  ELSE IF n = 0 THEN chan_write_failed(c)
  ELSE [c EXCEPT !.output = @ - n, !.local_consumed = @ + n]

channel_handle_efd_write(c, n) ==
  IF "efd_w" \notin c.want \/ n = -1 THEN c
  ELSE IF n = 0 THEN [c EXCEPT !.fds = @ \ {"efd"}]
  ELSE [c EXCEPT !.extended = @ - n, !.local_consumed = @ + n]

channel_handle_efd_read(c, n) ==
  IF "efd_r" \notin c.want \/ n = -1 THEN c
  ELSE IF n = 0 THEN [c EXCEPT !.fds = @ \ {"efd"}]
  ELSE [c EXCEPT !.extended = @ + n]

channel_handle_efd(c, n) ==
  IF c.usage = "write" THEN channel_handle_efd_write(c, n)
                       ELSE channel_handle_efd_read(c, n)

\* mutant: what was granted once is granted again
channel_check_window_again(c) ==
  IF /\ c.type = "open" /\ c.flags \cap {"close_sent", "close_rcvd"} = {}
     /\ c.local_window < Window \div 2 /\ c.local_consumed > 0
  THEN [Put(c, "ADJUST", c.local_consumed) EXCEPT !.local_window = @ + c.local_consumed]
  ELSE c

channel_check_window(c) ==
  IF /\ c.type = "open" /\ c.flags \cap {"close_sent", "close_rcvd"} = {}
     /\ \/ Window - c.local_window > 3 * Packet
        \/ c.local_window < Window \div 2
     /\ c.local_consumed > 0
  THEN [Put(c, "ADJUST", c.local_consumed) EXCEPT
          !.local_window = @ + c.local_consumed, !.local_consumed = 0]
  ELSE c


-----------------------------------------------------------------------------
(* Actions.                                                                 *)

\* p's channel is now c: its packets leave, after one of them was taken from the net
Store(p, c, queue) ==
  /\ ch' = [ch EXCEPT ![p] = [c EXCEPT !.sent = <<>>, !.want = {}]]
  /\ net' = [net EXCEPT ![p] = queue, ![Other(p)] = @ \o c.sent]

Arrived(p, t) == up /\ net[p] # <<>> /\ Head(net[p]).t = t

\* a packet for a channel that is gone: ssh_packet_disconnect()
channel_from_packet_id(p, c) == IF channel_lookup(ch[p]) THEN c
                                ELSE [ch[p] EXCEPT !.err = TRUE]

Receive(p, t, c) ==
  /\ Arrived(p, t)
  /\ \E d \in {channel_from_packet_id(p, c)} : Store(p, d, Tail(net[p]))
  /\ UNCHANGED <<left, src, closed, child, up, got, exitSeen, broke>>

ReceiveData(p)    == Receive(p, "DATA", channel_input_data(ch[p], Head(net[p]).n))
ReceiveExtData(p) == Receive(p, "EXT", channel_input_extended_data(ch[p], Head(net[p]).n))
ReceiveEof(p)     == Receive(p, "EOF", chan_rcvd_ieof(ch[p]))
ReceiveClose(p)   == Receive(p, "CLOSE", chan_rcvd_oclose(ch[p]))
ReceiveConfirm    == Receive("client", "CONFIRM",
                       channel_input_open_confirmation(ch["client"], Head(net["client"]).n))
ReceiveOpenFailure == Receive("client", "OPENFAIL",
                       channel_input_open_failure(ch["client"]))

\* the two messages that a freed channel may still get
ReceiveAdjust(p) ==
  /\ Arrived(p, "ADJUST")
  /\ Store(p, IF channel_lookup(ch[p])
              THEN channel_input_window_adjust(ch[p], Head(net[p]).n) ELSE ch[p],
           Tail(net[p]))
  /\ UNCHANGED <<left, src, closed, child, up, got, exitSeen, broke>>

\* server_input_channel_req() disconnects on an unknown channel, the client logs it
ReceiveEow(p) ==
  /\ Arrived(p, "EOW")
  /\ Store(p, IF channel_lookup(ch[p]) THEN chan_rcvd_eow(ch[p])
              ELSE [ch[p] EXCEPT !.err = (p = "server")],
           Tail(net[p]))
  /\ UNCHANGED <<left, src, closed, child, up, got, exitSeen, broke>>

\* client_input_channel_req() records the value of "exit-status" and knows no "exit-signal"
ReceiveExit ==
  /\ Arrived("client", "EXIT")
  /\ Store("client", ch["client"], Tail(net["client"]))
  /\ exitSeen' = (exitSeen \/ channel_lookup(ch["client"]))
  /\ UNCHANGED <<left, src, closed, child, up, got, broke>>

ReceiveExitSignal ==
  /\ Arrived("client", "SIGNAL")
  /\ Store("client", ch["client"], Tail(net["client"]))
  /\ UNCHANGED <<left, src, closed, child, up, got, exitSeen, broke>>

\* server_input_channel_open() with server_request_session()
ReceiveOpen ==
  /\ Arrived("server", "OPEN")
  /\ \E tty \in Ttys, ok \in BOOLEAN :
       LET c == [channel_new("larval", 0, "ignore", {}, tty) EXCEPT
                   !.remote_window = Head(net["server"]).n]
       IN Store("server", IF ok THEN Put(c, "CONFIRM", 0)
                                ELSE Put(ch["server"], "OPENFAIL", 0),
                Tail(net["server"]))
  /\ UNCHANGED <<left, src, closed, child, up, got, exitSeen, broke>>

\* server_input_channel_req() for the "exec" of client_session2_setup()
ReceiveExec ==
  /\ Arrived("server", "EXEC")
  /\ \E ok \in BOOLEAN :
       LET c == channel_from_packet_id("server", session_input_channel_req(ch["server"], ok))
           done == c.pid /\ ~ch["server"].pid
       IN /\ Store("server", IF "close_sent" \in c.flags \/ c.err THEN c
                             ELSE Put(c, IF done THEN "SUCCESS" ELSE "FAILURE", 0),
                   Tail(net["server"]))
          /\ child' = IF done THEN "running" ELSE child
  /\ UNCHANGED <<left, src, closed, up, got, exitSeen, broke>>

ReceiveSuccess ==
  /\ Arrived("client", "SUCCESS")
  /\ Store("client", ch["client"], Tail(net["client"]))
  /\ UNCHANGED <<left, src, closed, child, up, got, exitSeen, broke>>

\* both processes leave: channel_free_all() and session_destroy_all()
Disconnect ==
  /\ up' = FALSE
  /\ ch' = [p \in Peers |-> channel_free(ch[p])]
  /\ net' = [p \in Peers |-> <<>>]
  /\ UNCHANGED <<left, src, closed, child, got, exitSeen, broke>>

\* client_status_confirm(): a refused command on the primary session is fatal
ReceiveFailure ==
  Arrived("client", "FAILURE") /\ channel_lookup(ch["client"]) /\ Disconnect

\* client_loop(): session_closed and no channel still open
Quit == /\ up /\ ch["client"].detach = "none"
        /\ ch["client"].type \notin {"opening", "open"}
        /\ Disconnect

\* what a read of the stream can return, at most max units
Reads(f, max) == IF src[f] > 0 THEN 1..Least(src[f], max)
                 ELSE IF f \in closed THEN {0} ELSE {-1}

\* what a write can return; a full pipe to a command that does not read it blocks
Writes(f, len) == 1..len \cup (IF f \in MayBreak \/ (f = "stdin" /\ child # "running")
                               THEN {0} ELSE {})
                         \cup (IF len = 0 \/ (f = "stdin" /\ child = "running") THEN {-1} ELSE {})

\* collect_children(): what waitpid() says of the command
WaitStatus == IF "killed" \in broke THEN "killed" ELSE "exited"

\* channel_handler(CHAN_PRE): what the poll is prepared with
channel_prepare(c, idle) ==
  IF c.type # "open" THEN c ELSE IF idle THEN channel_force_close(c) ELSE channel_pre_open(c)

\* one iteration of client_loop() or server_loop2() after the packets were dispatched;
\* each c is the channel after the next call of the loop
Turn(p) ==
  LET rf == IF p = "client" THEN "stdin" ELSE "stdout"
      wf == IF p = "client" THEN "stdout" ELSE "stdin"
      reap == p = "server" /\ child = "exited"
  IN
  /\ up /\ (ch[p].type # "free" \/ reap)
  /\ \E c1 \in {channel_output_poll(ch[p])} :
     \E c2 \in {IF reap /\ c1.pid THEN session_exit_message(c1, WaitStatus) ELSE c1},
        idle \in (IF p \in Timeouts /\ c1.type = "open" THEN BOOLEAN ELSE {FALSE}) :
     \E c2a \in {channel_prepare(c2, idle)} :
     \E c3 \in {channel_garbage_collect(c2a)} :
     \E r \in Reads(rf, IF c3.input < c3.remote_window
                        THEN Least(Packet, c3.remote_window - c3.input) ELSE 1),
        w \in Writes(wf, c3.output),
        e \in IF p = "client" THEN Writes("stderr", c3.extended) ELSE Reads("stderr", RBuf) :
     \E c4 \in {IF c3.type = "open" THEN channel_handle_rfd(c3, r) ELSE c3} :
     \E c5 \in {IF c3.type = "open" THEN channel_handle_wfd(c4, w) ELSE c4} :
     \E c6 \in {IF c3.type = "open" THEN channel_handle_efd(c5, e) ELSE c5} :
     \E c6a \in {channel_check_window(c6)} :
     \E c7 \in {channel_garbage_collect(c6a)} :
       LET wrote == "wfd" \in c3.want
           efd == c3.want \cap {"efd_r", "efd_w"} # {}
       IN /\ Store(p, c7, net[p])
          /\ child' = IF reap THEN "reaped" ELSE child
          /\ src' = [src EXCEPT ![rf] = @ - (c4.input - c3.input),
                                !["stderr"] = IF p = "server" /\ efd /\ e > 0 THEN @ - e ELSE @]
          /\ got' = [got EXCEPT ![wf] = IF wrote /\ w > 0 THEN @ + w ELSE @,
                                !["stderr"] = IF p = "client" /\ efd /\ e > 0 THEN @ + e ELSE @]
          /\ broke' = broke \cup (IF idle THEN {"forced"} ELSE {})
                            \cup (IF p = "client" /\ wrote /\ w = 0 THEN {"stdout"} ELSE {})
                            \cup (IF p = "client" /\ efd /\ e = 0 THEN {"stderr"} ELSE {})
          /\ UNCHANGED <<left, closed, up, exitSeen>>

\* The world around: a stream is written until its last writer closes it (with a pty there
\* is no separate stderr, and the terminal is hung up when the command exits); the command
\* exits or is killed by a signal.
Open(f) ==
  /\ up /\ f \notin closed
  /\ f = "stdin" \/ child # "none"
  /\ ch["server"].tty => f = "stdin" \/ (f = "stdout" /\ child = "running")

WriteStream(f) ==
  /\ Open(f) /\ left[f] > 0
  /\ left' = [left EXCEPT ![f] = @ - 1] /\ src' = [src EXCEPT ![f] = @ + 1]
  /\ UNCHANGED <<ch, net, closed, child, up, got, exitSeen, broke>>

CloseStream(f) ==
  /\ up /\ f \notin closed /\ (f # "stdin" => child # "none")
  /\ closed' = closed \cup {f}
  /\ UNCHANGED <<ch, net, left, src, child, up, got, exitSeen, broke>>

ChildExit ==
  /\ up /\ child = "running" /\ child' = "exited"
  /\ broke' \in {broke, broke \cup {"killed"}}
  /\ UNCHANGED <<ch, net, left, src, closed, up, got, exitSeen>>

Init ==
  /\ ch = [p \in Peers |-> IF p = "client"
             THEN channel_new("opening", Window, "write", {"rfd", "wfd", "efd"}, FALSE)
             ELSE channel_free([tty |-> FALSE, sent |-> <<>>, err |-> FALSE])]
  /\ net = [p \in Peers |-> IF p = "server" THEN <<Pkt("OPEN", Window)>> ELSE <<>>]
  /\ left = Written /\ src = [f \in Streams |-> 0] /\ closed = {} /\ child = "none" /\ up = TRUE
  /\ got = [f \in Streams |-> 0] /\ exitSeen = FALSE /\ broke = {}

Client == \/ ReceiveConfirm \/ ReceiveOpenFailure \/ ReceiveSuccess \/ ReceiveFailure
          \/ ReceiveExit \/ ReceiveExitSignal \/ Quit

Server == ReceiveOpen \/ ReceiveExec

Loop(p) == \/ ReceiveData(p) \/ ReceiveExtData(p) \/ ReceiveEof(p) \/ ReceiveClose(p)
           \/ ReceiveAdjust(p) \/ ReceiveEow(p)
           \/ p = "client" /\ Client
           \/ p = "server" /\ Server
           \/ Turn(p)

Next == \/ \E p \in Peers : Loop(p)
        \/ ChildExit
        \/ \E f \in Streams : WriteStream(f) \/ CloseStream(f)

\* Both processes keep running their loops; nothing is assumed of the command,
\* of the user, nor of the writers of the streams.
Spec == Init /\ [][Next]_vars /\ \A p \in Peers : WF_vars(Loop(p))

-----------------------------------------------------------------------------
(* Properties.                                                              *)

ChannelRecord == [
  type : {"free", "opening", "larval", "open", "abandoned", "zombie"},
  istate : {"open", "drain", "closed"}, ostate : {"open", "drain", "closed"},
  flags : SUBSET {"eof_sent", "eof_rcvd", "close_sent", "close_rcvd"},
  input : Nat, output : Nat, extended : Nat,
  local_window : Nat, local_consumed : Nat, remote_window : Nat,
  usage : {"read", "write", "ignore"}, fds : SUBSET {"rfd", "wfd", "efd"},
  tty : BOOLEAN, want : {{}}, detach : {"none", "wait", "close"}, pid : BOOLEAN,
  sent : {<<>>}, err : BOOLEAN]

\* Every window and buffer length stays a natural number (they are u_int in the
\* code: a subtraction below zero would wrap to four billion).
TypeOK ==
  /\ ch \in [Peers -> ChannelRecord]
  /\ left \in [Streams -> Nat] /\ src \in [Streams -> Nat] /\ got \in [Streams -> Nat]
  /\ closed \subseteq Streams /\ child \in {"none", "running", "exited", "reaped"}
  /\ up \in BOOLEAN /\ exitSeen \in BOOLEAN
  /\ broke \subseteq {"stdout", "stderr", "forced", "killed"}

Units(q, ts) ==
  LET total[i \in 0..Len(q)] ==
        IF i = 0 THEN 0 ELSE total[i-1] + (IF q[i].t \in ts THEN q[i].n ELSE 0)
  IN total[Len(q)]

\* channel_input_data() drops what exceeds the window, and channel_input_window_adjust()
\* is fatal when it overflows: neither happens, because what a peer may still send, with
\* what it has sent and what was granted to it on the way, never exceeds what the receiver
\* still accepts, and the receiver never holds more than one window of data.
WindowHonoured ==
  \A p \in Peers : LET s == ch[p]  r == ch[Other(p)] IN
    r.type = "open" /\ s.type = "open" =>
      /\ s.remote_window + Units(net[Other(p)], {"DATA", "EXT"})
           + Units(net[p], {"ADJUST"}) <= r.local_window
      /\ r.local_window + r.local_consumed + r.output
           + (IF r.usage = "write" THEN r.extended ELSE 0) <= Window

\* No order of closes, exits, failed writes and timeouts makes two OpenSSH peers break the
\* protocol to one another: no packet for a channel the other end has freed, no extended
\* data after EOF, no second confirmation (each ends in ssh_packet_disconnect()).
NoProtocolError == \A p \in Peers : ~ch[p].err

\* chan_send_eof2() and chan_send_close2(): after CLOSE a peer sends no data, no EOF, no EOW
\* and no second CLOSE, and after EOF no data and no second EOF, whichever of the loop, the
\* timeout, the end of the command or the other peer's packets made it send them.
PacketOrder ==
  \A p \in Peers : \A i, j \in DOMAIN net[p] : i < j =>
    /\ net[p][i].t = "CLOSE" => net[p][j].t \notin {"DATA", "EXT", "EOF", "EOW", "CLOSE"}
    /\ net[p][i].t = "EOF" => net[p][j].t \notin {"DATA", "EXT", "EOF"}

\* A client that sees its session channel closed has recorded the command's exit status,
\* unless a signal killed the command (session_exit_message() sends "exit-signal", which
\* client_input_channel_req() does not record) or a timeout closed the channel.
ExitStatusFirst ==
  "close_rcvd" \in ch["client"].flags /\ broke \cap {"forced", "killed"} = {} => exitSeen

\* When the channel is freed by the close handshake, all that the command wrote has reached
\* the client's descriptors, however the command ended: no close overtakes data on either side.
OutputComplete ==
  up /\ ch["client"].type = "free" /\ broke \subseteq {"killed"} =>
    \A f \in {"stdout", "stderr"} : got[f] = Written[f] - left[f]

\* Once the command has ended and its output streams are closed, both ends free the channel
\* and the client leaves.  With a pty the end of the command is enough, whoever still holds
\* the terminal open: from then on channel_handle_rfd() reads without waiting for poll().
SessionEnds ==
  child \in {"exited", "reaped"} /\ (ch["server"].tty \/ {"stdout", "stderr"} \subseteq closed)
    ~> ~up

=============================================================================
