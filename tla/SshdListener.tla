---------------------------- MODULE SshdListener ----------------------------
(***************************************************************************)
(* The listening sshd: server_accept_loop() of sshd.c with the limits on   *)
(* connections that are not yet authenticated (MaxStartups, and            *)
(* PerSourceMaxStartups of srclimit.c), the children it forks, which       *)
(* report over a pipe, and the signals SIGHUP (restart) and SIGTERM.       *)
(*                                                                         *)
(* A connection stands for its socket, its pipe and its child.  The parent *)
(* reads a byte from the pipe when the child has closed the listening      *)
(* sockets and has its state, and the end of file when the user is         *)
(* authenticated or the child is gone.                                     *)
(***************************************************************************)
EXTENDS Integers, Sequences, FiniteSets, FiniteSetsExt, SequencesExt

CONSTANTS
  Conns,        \* connections that clients make
  NoConn,
  Source,       \* the masked address of each
  Unnamed,      \* those whose address may not be had when they are accepted
  MaxStartups,  \* options.max_startups
  Begin,        \* options.max_startups_begin
  Rate,         \* options.max_startups_rate, in percent
  PerSource,    \* options.per_source_max_startups
  Signals,      \* subset of {"HUP", "TERM"} that may arrive
  MaxHups       \* bound on SIGHUPs

ASSUME ListenerAssumption ==
  /\ NoConn \notin Conns /\ IsFiniteSet(Conns) /\ Unnamed \subseteq Conns /\ \A c \in Conns : Source[c] # NoConn
  /\ MaxStartups \in Nat \ {0} /\ Begin \in 1..MaxStartups /\ Rate \in 1..100 /\ PerSource \in Nat
  /\ Signals \subseteq {"HUP", "TERM"} /\ MaxHups \in Nat

VARIABLES
  pc,           \* where the listener is in its loop
  startups, listening, lameduck,
  pipes,        \* startup_pipes[]: the connection whose pipe is in a slot
  flags,        \* startup_flags[]: has the child still to report?
  srcs,         \* child[] of srclimit.c; an id is the pipe's descriptor, modelled by its slot
  uncounted,    \* history: connections that srclimit.c allowed without an entry
  open,         \* are the listening sockets open?
  pending,      \* signals that are blocked
  received,     \* received_sighup, received_sigterm
  backlog,      \* connections waiting for accept()
  child,        \* where each connection's child is
  byte,         \* connections with a byte in their pipe
  hups          \* SIGHUPs so far

vars == <<pc, startups, listening, lameduck, pipes, flags, srcs, uncounted, open, pending, received,
          backlog, child, byte, hups>>
tables == <<startups, listening, pipes, flags, srcs, uncounted>>

Slots == 1..MaxStartups
INT_MAX == 2147483647
NoEntry == [id |-> 0, addr |-> NoConn]
Free == [i \in Slots |-> NoConn]
Unset == [i \in Slots |-> FALSE]

\* the child holds the listening sockets, has closed them, has reported
Unauthenticated == {"forked", "closed", "ready"}

-----------------------------------------------------------------------------
(* The limits.                                                              *)

\* should_drop_connection(): what it may answer, arc4random_uniform() being anything in 0..99
should_drop_connection(n) ==
  IF n < Begin THEN {FALSE}
  ELSE IF n >= MaxStartups \/ Rate = 100 THEN {TRUE}
  ELSE {r < (((100 - Rate) * (n - Begin)) \div (MaxStartups - Begin)) + Rate : r \in 0..99}

Unused == {i \in Slots : srcs[i] = NoEntry}
FreePipe == Min({i \in Slots : pipes[i] = NoConn})

\* there is no limit, or no address: getpeername() fails once the client has reset the connection, the
\* family is unknown, the mask or addr_ntop() fails.  Allowed, and no entry is stored.
AllowUncounted(c) ==
  /\ PerSource = INT_MAX \/ c \in Unnamed
  /\ uncounted' = uncounted \cup {c} /\ UNCHANGED srcs

\* child[] has an unused entry, and fewer than PerSource of this address: the entry is stored
AllowCounted(c) ==
  /\ PerSource # INT_MAX /\ Unused # {}
  /\ Cardinality({i \in Slots : srcs[i].addr = Source[c]}) < PerSource
  /\ srcs' = [srcs EXCEPT ![Min(Unused)] = [id |-> FreePipe, addr |-> Source[c]]]
  /\ UNCHANGED uncounted

srclimit_check_allow(c) == AllowUncounted(c) \/ AllowCounted(c)

Reported == {i \in Slots : pipes[i] \in byte}

\* mutant: an entry is cleared as soon as its child reports
srclimit_done_reported(ids) ==
  [i \in Slots |-> IF srcs[i].id \in ids \cup Reported THEN NoEntry ELSE srcs[i]]

\* the first entry with each of these ids is cleared
srclimit_done(ids) ==
  [i \in Slots |-> IF srcs[i].id \in ids /\ \A j \in 1..(i - 1) : srcs[j].id # srcs[i].id
                   THEN NoEntry ELSE srcs[i]]

-----------------------------------------------------------------------------
(* The listener.                                                            *)

\* all children have closed the listening sockets and have their state
may_restart == listening <= 0

close_listen_socks ==
  /\ open' = FALSE /\ backlog' = <<>>
  /\ child' = [c \in Conns |-> IF child[c] = "queued" THEN "refused" ELSE child[c]]

\* the top of the loop, up to ppoll(), with the signals blocked
Top ==
  /\ pc = "top"
  /\ \/ /\ "TERM" \in received
        /\ pc' = "exit" /\ close_listen_socks
        /\ UNCHANGED lameduck
     \/ /\ "TERM" \notin received /\ "HUP" \in received
        /\ lameduck' = TRUE
        /\ close_listen_socks
        /\ pc' = IF may_restart THEN "exec" ELSE "poll"
     \/ /\ received = {}
        /\ pc' = "poll"
        /\ UNCHANGED <<lameduck, open, backlog, child>>
  /\ UNCHANGED <<tables, pending, received, byte, hups>>

\* sighup_restart(): a new listener that knows nothing of the children, unless execv() fails
Exec ==
  /\ pc = "exec"
  /\ \/ /\ pc' = "top" /\ open' = TRUE
        /\ startups' = 0 /\ listening' = 0 /\ lameduck' = FALSE
        /\ pipes' = Free /\ flags' = Unset /\ srcs' = [i \in Slots |-> NoEntry]
        /\ pending' = {} /\ received' = {} /\ UNCHANGED uncounted
     \/ /\ pc' = "exit"
        /\ UNCHANGED <<tables, lameduck, open, pending, received>>
  /\ UNCHANGED <<backlog, child, byte, hups>>

\* mutant: the end of a child that has not reported is overlooked
Ended_reported ==
  {i \in Slots : pipes[i] # NoConn /\ pipes[i] \notin byte /\ child[pipes[i]] \in {"auth", "gone"} /\ ~flags[i]}

Ended ==
  {i \in Slots : pipes[i] # NoConn /\ pipes[i] \notin byte /\ child[pipes[i]] \in {"auth", "gone"}}

\* mutant: the end of a child that has reported counts again
StillListening_twice == Cardinality({i \in Reported : flags[i]}) + Cardinality(Ended)

\* children that are no longer waited for before a restart
StillListening == Cardinality({i \in Reported \cup Ended : flags[i]})

\* ppoll() ends with what is ready; a pending signal is delivered when the mask is set back
Poll ==
  /\ pc = "poll"
  /\ Reported \cup Ended # {} \/ (open /\ backlog # <<>>)
  /\ pc' = IF open /\ backlog # <<>> THEN "accept" ELSE "top"
  /\ listening' = listening - StillListening
  /\ startups' = startups - Cardinality(Ended)
  /\ pipes' = [i \in Slots |-> IF i \in Ended THEN NoConn ELSE pipes[i]]
  /\ flags' = [i \in Slots |-> flags[i] /\ i \notin Reported]
  /\ srcs' = srclimit_done(Ended)
  /\ byte' = byte \ {pipes[i] : i \in Reported}
  /\ received' = received \cup pending /\ pending' = {}
  /\ UNCHANGED <<uncounted, lameduck, open, backlog, child, hups>>

\* mutant: the handlers run, and the wait is resumed
PollInterrupted_asleep ==
  /\ pc = "poll" /\ pending # {}
  /\ received' = received \cup pending /\ pending' = {}
  /\ UNCHANGED <<pc, tables, lameduck, open, backlog, child, byte, hups>>

\* ppoll() unblocks the signals while it waits, and ends with EINTR
PollInterrupted ==
  /\ pc = "poll" /\ pending # {}
  /\ received' = received \cup pending /\ pending' = {}
  /\ pc' = "top"
  /\ UNCHANGED <<tables, lameduck, open, backlog, child, byte, hups>>

\* The connection is dropped, or unset_nonblock() or pipe() fails: the socket is closed.
Refuse(c) == child' = [child EXCEPT ![c] = "refused"] /\ UNCHANGED tables

\* fork(), which may fail: then the pipe ends at once
Fork(c) ==
  /\ pipes' = [pipes EXCEPT ![FreePipe] = c]
  /\ flags' = [flags EXCEPT ![FreePipe] = TRUE]
  /\ startups' = startups + 1 /\ listening' = listening + 1
  /\ \E to \in {"forked", "gone"} : child' = [child EXCEPT ![c] = to]

\* socketpair() fails: the connection is closed, its entry in srclimit.c stays
NoSocketpair(c) == /\ child' = [child EXCEPT ![c] = "refused"]
                   /\ UNCHANGED <<startups, listening, pipes, flags>>

\* accept() fails, or drop_connection() decides about the connection
Accept ==
  /\ pc = "accept" /\ pc' = "top"
  /\ \/ UNCHANGED <<backlog, child, tables>>
     \/ /\ backlog' = Tail(backlog)
        /\ \E c \in {Head(backlog)} :
             \/ Refuse(c)
             \/ /\ FALSE \in should_drop_connection(startups) /\ srclimit_check_allow(c)
                /\ Fork(c) \/ NoSocketpair(c)
  /\ UNCHANGED <<lameduck, open, byte, hups, pending, received>>

-----------------------------------------------------------------------------
(* Children, clients, signals.                                              *)

\* a connection arrives, or finds nobody listening
Connect(c) ==
  /\ child[c] = "new"
  /\ IF open THEN backlog' = Append(backlog, c) /\ child' = [child EXCEPT ![c] = "queued"]
     ELSE child' = [child EXCEPT ![c] = "refused"] /\ UNCHANGED backlog
  /\ UNCHANGED <<pc, tables, lameduck, open, pending, received, byte, hups>>

Step(c, from, to) ==
  /\ child[c] = from /\ child' = [child EXCEPT ![c] = to]
  /\ UNCHANGED <<pc, tables, lameduck, open, pending, received, backlog, hups>>

\* close_startup_pipes(), close_listen_socks()
ChildCloses(c) == Step(c, "forked", "closed") /\ UNCHANGED byte

\* the byte is written once recv_rexec_state() has returned
ChildReports(c) == Step(c, "closed", "ready") /\ byte' = byte \cup {c}

\* startup_pipe is closed
Authenticate(c) == Step(c, "ready", "auth") /\ UNCHANGED byte

\* grace_alarm_handler(), a failed authentication, a client that leaves
GiveUp(c) == Step(c, "ready", "gone") /\ UNCHANGED byte

\* the child fails before it has reported
Crash(c) == (Step(c, "forked", "gone") \/ Step(c, "closed", "gone")) /\ UNCHANGED byte

\* Signals are blocked from the top of the loop until ppoll() and before a restart unblocked again:
\* a SIGTERM that comes then is forgotten by the new listener.
Signal(s) ==
  /\ s \in Signals /\ s \notin pending \cup received /\ pc # "exit"
  /\ s = "HUP" => hups < MaxHups /\ pc # "exec"
  /\ hups' = IF s = "HUP" THEN hups + 1 ELSE hups
  /\ IF pc = "poll" THEN pending' = pending \cup {s} /\ UNCHANGED received
     ELSE received' = received \cup {s} /\ UNCHANGED pending
  /\ UNCHANGED <<pc, tables, lameduck, open, backlog, child, byte>>

-----------------------------------------------------------------------------

Init ==
  /\ pc = "top" /\ startups = 0 /\ listening = 0 /\ lameduck = FALSE
  /\ pipes = Free /\ flags = Unset /\ srcs = [i \in Slots |-> NoEntry] /\ uncounted = {} /\ open = TRUE
  /\ pending = {} /\ received = {} /\ backlog = <<>> /\ byte = {} /\ hups = 0
  /\ child = [c \in Conns |-> "new"]

Listener == Top \/ Exec \/ Poll \/ PollInterrupted \/ Accept

Next == \/ Listener
        \/ \E c \in Conns : \/ Connect(c) \/ ChildCloses(c) \/ ChildReports(c)
                            \/ Authenticate(c) \/ GiveUp(c) \/ Crash(c)
        \/ \E s \in Signals : Signal(s)

\* The listener and the children go on; LoginGraceTime ends what does not end by itself.
Spec == /\ Init /\ [][Next]_vars
        /\ WF_vars(Listener)
        /\ \A c \in Conns : WF_vars(ChildCloses(c)) /\ WF_vars(ChildReports(c)) /\ WF_vars(GiveUp(c))

-----------------------------------------------------------------------------
(* Properties.                                                              *)

TypeOK ==
  /\ pc \in {"top", "poll", "accept", "exec", "exit"}
  /\ startups \in 0..MaxStartups /\ listening \in 0..startups /\ lameduck \in BOOLEAN
  /\ pipes \in [Slots -> Conns \cup {NoConn}] /\ flags \in [Slots -> BOOLEAN]
  /\ srcs \in [Slots -> {NoEntry} \cup [id : Slots, addr : {Source[c] : c \in Conns}]]
  /\ uncounted \subseteq Conns /\ open \in BOOLEAN
  /\ pending \subseteq Signals /\ received \subseteq Signals /\ backlog \in Seq(Conns)
  /\ child \in [Conns -> {"new", "queued", "refused", "auth", "gone"} \cup Unauthenticated]
  /\ byte \subseteq Conns /\ hups \in 0..MaxHups

\* children of this listener that are not authenticated
Early == {c \in Conns : c \in Range(pipes) /\ child[c] \in Unauthenticated}

\* However connections, reports, deaths, failing forks and failing socketpairs interleave, a listener
\* never has more than PerSource unauthenticated children from one address that srclimit.c has counted:
\* the entry of a child is not taken away by the end of another, counted or not, by its own report or by
\* a restart of the loop.  Connections without an entry (srclimit.c:73-88, 100-103) come on top of it.
LimitHonoured ==
  \A c \in Early \ uncounted :
    Cardinality({d \in Early \ uncounted : Source[d] = Source[c]}) <= PerSource

\* The listener's count is the number of pipes it watches and never passes MaxStartups, each child
\* has one slot, and "listening" counts exactly the children whose report it still expects.
CountsExact ==
  /\ startups = Cardinality({i \in Slots : pipes[i] # NoConn})
  /\ listening = Cardinality({i \in Slots : pipes[i] # NoConn /\ flags[i]})
  /\ \A c \in Early : Cardinality({i \in Slots : pipes[i] = c}) = 1

\* Before the listener restarts, no child holds the listening sockets, on which the new listener
\* could not bind, and each has received its state.
RestartSafe == pc = "exec" => \A c \in Conns : child[c] \notin {"forked", "closed"}

\* A signal is never slept through: a listener that was told to restart or to stop does so, without
\* waiting for users to authenticate, whatever it was doing when the signal came.
SignalsHandled ==
  \A s \in Signals : (s \in pending \cup received) ~> (pc \in {"exec", "exit"})

\* A full listener does not stay full: LoginGraceTime and the pipes' ends free the slots.
SlotsFreed == (startups = MaxStartups) ~> (startups < MaxStartups \/ pc = "exit")
=============================================================================
