---------------------------- MODULE SshTransport ----------------------------
(***************************************************************************)
(* The packet layer of OpenSSH and its key exchange (packet.c, kex.c,      *)
(* kexgen.c, dispatch.c) between a client and a server, from the first     *)
(* KEXINIT through authentication and the handover of the server's packet  *)
(* state to its post-authentication process, to any number of rekeyings.   *)
(*                                                                         *)
(* Each peer is single threaded; a packet that is read is handled to the   *)
(* end in one Receive action, with every packet the handler sends.         *)
(* Operators take a peer's state s and return the state after the call;    *)
(* packets are appended to s.sent.  A key is identified by the pair of     *)
(* KEXINIT cookies its exchange hash is computed from, so that two peers   *)
(* have the same key only if they hashed the same two KEXINITs.            *)
(***************************************************************************)
EXTENDS Integers, Sequences, FiniteSets

CONSTANTS
  MaxData,     \* packets of the upper layers that each peer sends
  MaxRekeys    \* times a limit, a timer or the user asks for a rekeying

ASSUME TransportAssumption == MaxData \in Nat /\ MaxRekeys \in Nat

Peers == {"client", "server"}
Other(p) == IF p = "client" THEN "server" ELSE "client"
NoKey == <<0, 0>>
KexTypes == {"KEXINIT", "INIT", "REPLY", "NEWKEYS"}    \* ssh_packet_type_is_kex

VARIABLES
  st,        \* session_state and kex of each peer
  net,       \* packets on their way to each peer, in order
  made,      \* packets each peer's upper layers have sent
  taken,     \* the packets of the other peer that each peer's upper layers got
  phase,     \* the server process: "preauth", "handover", "postauth"
  rekeys     \* rekeyings asked for so far

vars == <<st, net, made, taken, phase, rekeys>>

-----------------------------------------------------------------------------
(* Compression is a stream: 0 is off, n > 0 is on with n - 1 packets behind  *)
(* it.  usedOut and usedIn say that p_send.packets, p_read.packets are not   *)
(* zero.  my and peer are the cookies of the last KEXINIT in each direction. *)

ssh_alloc_session_state(server) ==
  [server |-> server, rekeying |-> TRUE, auth |-> FALSE,
   keyOut |-> NoKey, keyIn |-> NoKey, compOut |-> 0, compIn |-> 0,
   seqOut |-> 0, seqIn |-> 0, usedOut |-> FALSE, usedIn |-> FALSE,
   queue |-> <<>>, sent |-> <<>>,
   \* struct kex
   done |-> FALSE, init_sent |-> FALSE, initial |-> TRUE, my |-> 0, peer |-> 0,
   newOut |-> NoKey, newIn |-> NoKey, session_id |-> NoKey,
   \* the dispatch table, for the types the key exchange changes
   handles |-> {"KEXINIT"}, err |-> "none"]

Fail(s, why) == IF s.err = "none" THEN [s EXCEPT !.err = why] ELSE s

ssh_packet_is_rekeying(s) == s.rekeying \/ ~s.done

\* mutant: asked without looking at the exchange that is going on
ssh_packet_need_rekeying_always(s, want) == want /\ s.auth /\ (s.usedOut \/ s.usedIn)

\* limits and timers are not modelled: want says whether one of them has struck
ssh_packet_need_rekeying(s, want) ==
  want /\ s.auth /\ ~ssh_packet_is_rekeying(s) /\ (s.usedOut \/ s.usedIn)

Advance(comp) == IF comp = 0 THEN 0 ELSE comp + 1

ssh_set_newkeys_out(s) ==
  IF s.newOut = NoKey THEN Fail(s, "newkeys")
  ELSE [s EXCEPT !.keyOut = s.newOut, !.newOut = NoKey, !.usedOut = FALSE,
                 !.compOut = IF s.auth THEN 1 ELSE 0]

ssh_set_newkeys_in(s) ==
  IF s.newIn = NoKey THEN Fail(s, "newkeys")
  ELSE [s EXCEPT !.keyIn = s.newIn, !.newIn = NoKey, !.usedIn = FALSE,
                 !.compIn = IF s.auth THEN 1 ELSE 0]

\* packets that are not compressed yet are from now on, in both directions
ssh_packet_enable_delayed_compress(s) ==
  [s EXCEPT !.auth = TRUE,
            !.compOut = IF s.keyOut # NoKey /\ @ = 0 THEN 1 ELSE @,
            !.compIn = IF s.keyIn # NoKey /\ @ = 0 THEN 1 ELSE @]

ssh_packet_send2_wrapped(s, t, body) ==
  LET pkt == [t |-> t, body |-> body, key |-> s.keyOut, seq |-> s.seqOut, comp |-> s.compOut]
      d == [s EXCEPT !.sent = Append(@, pkt), !.seqOut = @ + 1, !.usedOut = TRUE,
                     !.compOut = Advance(@)]
  IN IF t = "NEWKEYS" THEN ssh_set_newkeys_out(d)
     ELSE IF t = "SUCCESS" /\ s.server THEN ssh_packet_enable_delayed_compress(d)
     ELSE d

\* the while loop of ssh_packet_send2(): each packet of the queue through send2_wrapped
dequeue(s) ==
  LET n == Len(s.queue) IN
  [s EXCEPT !.queue = <<>>, !.seqOut = @ + n, !.usedOut = @ \/ n > 0,
            !.compOut = IF @ = 0 THEN 0 ELSE @ + n,
            !.sent = @ \o [i \in 1..n |->
               [t |-> s.queue[i].t, body |-> s.queue[i].body, key |-> s.keyOut,
                seq |-> s.seqOut + i - 1,
                comp |-> IF s.compOut = 0 THEN 0 ELSE s.compOut + i - 1]]]

\* my is rewritten with a fresh cookie; ssh_packet_send2() starts rekeying with it
kex_send_kexinit(s) ==
  IF s.init_sent THEN s
  ELSE [ssh_packet_send2_wrapped([s EXCEPT !.done = FALSE, !.my = @ + 1, !.rekeying = TRUE],
                                 "KEXINIT", <<s.my + 1>>)
          EXCEPT !.init_sent = TRUE]

kex_start_rekex(s) ==
  IF ~s.done THEN Fail(s, "requested twice")
  ELSE kex_send_kexinit([s EXCEPT !.done = FALSE])

\* mutant: the queue is left for the next packet to be sent
send2_newkeys_keep(s, want) ==
  [ssh_packet_send2_wrapped(s, "NEWKEYS", <<>>) EXCEPT !.rekeying = FALSE]

\* NEWKEYS ends the rekeying and lets the queue go, unless that asks for the next one
send2_newkeys(s, want) ==
  LET d == [ssh_packet_send2_wrapped(s, "NEWKEYS", <<>>) EXCEPT !.rekeying = FALSE]
  IN IF d.queue # <<>> /\ ssh_packet_need_rekeying(d, want) THEN kex_start_rekex(d)
     ELSE dequeue(d)

\* mutant: packets go out during a rekeying
ssh_packet_send2_always(s, t, body, want) ==
  LET d == IF ssh_packet_need_rekeying(s, want) THEN kex_start_rekex(s) ELSE s
  IN ssh_packet_send2_wrapped(d, t, body)

\* mutant: TAILQ_INSERT_HEAD
ssh_packet_send2_head(s, t, body, want) ==
  LET d == [s EXCEPT !.queue = <<[t |-> t, body |-> body]>> \o @]
  IN IF ssh_packet_need_rekeying(s, want) THEN kex_start_rekex(d)
     ELSE IF s.rekeying THEN d
     ELSE ssh_packet_send2_wrapped(s, t, body)

\* a packet that is not of the key exchange
ssh_packet_send2(s, t, body, want) ==
  LET need == ssh_packet_need_rekeying(s, want)
      d == [s EXCEPT !.queue = Append(@, [t |-> t, body |-> body])]
  IN IF need THEN kex_start_rekex(d)
     ELSE IF s.rekeying THEN d
     ELSE ssh_packet_send2_wrapped(s, t, body)

-----------------------------------------------------------------------------
(* The key exchange.                                                        *)

\* the handlers of all transport messages become kex_protocol_error
kex_send_newkeys(s, want) ==
  LET d == [send2_newkeys([s EXCEPT !.handles = {}], want) EXCEPT !.handles = {"NEWKEYS"}]
  IN IF s.server /\ s.initial THEN ssh_packet_send2(d, "EXTINFO", <<>>, want) ELSE d

\* kex_derive_keys(): H is the hash of both KEXINITs
Hash(s) == IF s.server THEN <<s.peer, s.my>> ELSE <<s.my, s.peer>>

\* mutant: every exchange makes a session id
kex_derive_keys_each(s) ==
  [s EXCEPT !.session_id = Hash(s), !.newOut = Hash(s), !.newIn = Hash(s)]

kex_derive_keys(s) ==
  IF s.initial = (s.session_id # NoKey)
  THEN Fail(s, "session id")
  ELSE [s EXCEPT !.session_id = IF s.initial THEN Hash(s) ELSE @,
                 !.newOut = Hash(s), !.newIn = Hash(s)]

kex_input_kexinit(s, cookie) ==
  LET d == kex_send_kexinit([s EXCEPT !.handles = @ \ {"KEXINIT"}, !.peer = cookie])
  IN IF s.server THEN [d EXCEPT !.handles = @ \cup {"INIT"}]
     ELSE [ssh_packet_send2_wrapped(d, "INIT", <<>>) EXCEPT !.handles = @ \cup {"REPLY"}]

input_kex_gen_init(s, want) ==
  LET d == ssh_packet_send2_wrapped([s EXCEPT !.handles = @ \ {"INIT"}], "REPLY", Hash(s))
  IN kex_send_newkeys(kex_derive_keys(d), want)

\* sshkey_verify(): the server signed the hash that it computed
input_kex_gen_reply(s, hash, want) ==
  LET d == [s EXCEPT !.handles = @ \ {"REPLY"}]
  IN IF hash # Hash(s) THEN Fail(d, "signature")
     ELSE kex_send_newkeys(kex_derive_keys(d), want)

kex_input_newkeys(s) ==
  [ssh_set_newkeys_in([s EXCEPT !.handles = (@ \ {"NEWKEYS"}) \cup {"KEXINIT"}]) EXCEPT
     !.done = TRUE, !.initial = FALSE, !.init_sent = FALSE, !.peer = 0]

\* decrypt, check the MAC over the sequence number, uncompress, count the packet
ssh_packet_read_poll2(s, m, want) ==
  LET c == IF m.key # s.keyIn \/ m.seq # s.seqIn \/ m.comp # s.compIn
           THEN Fail(s, "corrupt") ELSE s
      d == [c EXCEPT !.seqIn = @ + 1, !.usedIn = TRUE, !.compIn = Advance(@)]
      e == IF m.t = "SUCCESS" /\ ~s.server THEN ssh_packet_enable_delayed_compress(d) ELSE d
  IN IF ssh_packet_need_rekeying(e, want) THEN kex_start_rekex(e) ELSE e

\* the dispatch table: a transport message without a handler is a protocol error
ssh_dispatch_run(s, m, want) ==
  IF m.t \in KexTypes /\ m.t \notin s.handles THEN Fail(s, "dispatch")
  ELSE IF m.t = "KEXINIT" THEN kex_input_kexinit(s, m.body[1])
  ELSE IF m.t = "INIT" THEN input_kex_gen_init(s, want)
  ELSE IF m.t = "REPLY" THEN input_kex_gen_reply(s, m.body, want)
  ELSE IF m.t = "NEWKEYS" THEN kex_input_newkeys(s)
  ELSE IF m.t = "AUTH" THEN ssh_packet_send2(s, "SUCCESS", <<>>, want)
  ELSE s

-----------------------------------------------------------------------------
(* Actions.                                                                 *)

Store(p, s, queue) ==
  /\ st' = [st EXCEPT ![p] = [s EXCEPT !.sent = <<>>]]
  /\ net' = [net EXCEPT ![p] = queue, ![Other(p)] = @ \o s.sent]

\* a limit or a timer may ask for a rekeying wherever the code looks at them
Wants == IF rekeys < MaxRekeys THEN BOOLEAN ELSE {FALSE}

\* the server process that has sent SUCCESS reads no further packet
Runs(p) == st[p].err = "none" /\ (p = "server" => phase # "handover")

Receive(p) ==
  /\ Runs(p) /\ net[p] # <<>>
  /\ \E want \in Wants, m \in {Head(net[p])} :
     \E s \in {ssh_packet_read_poll2(st[p], m, want)} :
     \E d \in {ssh_dispatch_run(s, m, want)} :
       /\ Store(p, d, Tail(net[p]))
       /\ taken' = IF m.t = "DATA" THEN [taken EXCEPT ![p] = Append(@, m.body[1])] ELSE taken
       /\ phase' = IF m.t = "AUTH" THEN "handover" ELSE phase
       /\ rekeys' = rekeys + (IF want THEN 1 ELSE 0)
  /\ UNCHANGED made

\* ssh_userauth2(): after the first key exchange the client asks to log in
Authenticate ==
  LET s == st["client"] IN
  /\ Runs("client") /\ s.done /\ ~s.auth /\ made["client"] = 0
  /\ Store("client", ssh_packet_send2(s, "AUTH", <<>>, FALSE), net["client"])
  /\ made' = [made EXCEPT !["client"] = 1]
  /\ UNCHANGED <<taken, phase, rekeys>>

\* any packet of the upper layers, once the user is authenticated
Send(p) ==
  /\ Runs(p) /\ st[p].auth /\ (p = "server" => phase = "postauth")
  /\ made[p] \in 1..MaxData
  /\ \E want \in Wants :
       /\ \E d \in {ssh_packet_send2(st[p], "DATA", <<made[p]>>, want)} : Store(p, d, net[p])
       /\ rekeys' = rekeys + (IF want THEN 1 ELSE 0)
  /\ made' = [made EXCEPT ![p] = @ + 1]
  /\ UNCHANGED <<taken, phase>>

\* ssh_packet_check_rekey() in the loops of both sides
CheckRekey(p) ==
  /\ Runs(p) /\ ssh_packet_need_rekeying(st[p], rekeys < MaxRekeys)
  /\ Store(p, kex_start_rekex(st[p]), net[p]) /\ rekeys' = rekeys + 1
  /\ UNCHANGED <<made, taken, phase>>

\* client_loop(): the user's escape ~R, whatever was sent since the last exchange
ManualRekey ==
  LET s == st["client"] IN
  /\ Runs("client") /\ s.auth /\ rekeys < MaxRekeys /\ ~ssh_packet_is_rekeying(s)
  /\ Store("client", kex_start_rekex(s), net["client"]) /\ rekeys' = rekeys + 1
  /\ UNCHANGED <<made, taken, phase>>

\* What ssh_packet_get_state() writes is read by ssh_packet_set_state() in a process whose
\* state is that of ssh_alloc_session_state(); server_loop2() sets the dispatch table.
ssh_packet_set_state(s) ==
  LET k == [ssh_alloc_session_state(TRUE) EXCEPT
              !.my = s.my, !.peer = s.peer, !.session_id = s.session_id,
              !.initial = s.initial, !.init_sent = s.init_sent, !.done = TRUE,
              !.newOut = s.keyOut, !.newIn = s.keyIn, !.seqOut = s.seqOut, !.seqIn = s.seqIn]
      d == ssh_set_newkeys_out(ssh_set_newkeys_in(k))
  IN ssh_packet_enable_delayed_compress([d EXCEPT !.rekeying = FALSE])

Handover ==
  /\ phase = "handover" /\ st["server"].err = "none"
  /\ Store("server", ssh_packet_set_state(st["server"]), net["server"])
  /\ phase' = "postauth"
  /\ UNCHANGED <<made, taken, rekeys>>

\* both peers begin with kex_setup(), which sends KEXINIT
Init ==
  LET first(p) == kex_send_kexinit(ssh_alloc_session_state(p = "server")) IN
  /\ st = [p \in Peers |-> [first(p) EXCEPT !.sent = <<>>]]
  /\ net = [p \in Peers |-> first(Other(p)).sent]
  /\ made = [p \in Peers |-> IF p = "client" THEN 0 ELSE 1]
  /\ taken = [p \in Peers |-> <<>>] /\ phase = "preauth" /\ rekeys = 0

Next == \/ \E p \in Peers : Receive(p) \/ Send(p) \/ CheckRekey(p)
        \/ Authenticate \/ ManualRekey \/ Handover

\* The processes go on reading and the client logs in; nobody has to send or to rekey.
Spec == Init /\ [][Next]_vars /\ (\A p \in Peers : WF_vars(Receive(p)))
             /\ WF_vars(Authenticate) /\ WF_vars(Handover)

-----------------------------------------------------------------------------
(* Properties.                                                              *)

Keys == Nat \X Nat
Packet == [t : KexTypes \cup {"EXTINFO", "AUTH", "SUCCESS", "DATA"}, body : Seq(Nat),
           key : Keys, seq : Nat, comp : Nat]
Errors == {"newkeys", "requested twice", "session id", "signature", "corrupt", "dispatch"}
State == [server : BOOLEAN, rekeying : BOOLEAN, auth : BOOLEAN, keyOut : Keys, keyIn : Keys,
          compOut : Nat, compIn : Nat, seqOut : Nat, seqIn : Nat, usedOut : BOOLEAN,
          usedIn : BOOLEAN, queue : Seq([t : {"EXTINFO", "AUTH", "SUCCESS", "DATA"},
          body : Seq(Nat)]), sent : {<<>>}, done : BOOLEAN, init_sent : BOOLEAN,
          initial : BOOLEAN, my : Nat, peer : Nat, newOut : Keys, newIn : Keys,
          session_id : Keys, handles : SUBSET KexTypes, err : {"none"} \cup Errors]

TypeOK ==
  /\ \A p \in Peers : st[p] \in State /\ net[p] \in Seq(Packet) /\ taken[p] \in Seq(Nat)
  /\ made \in [Peers -> Nat] /\ phase \in {"preauth", "handover", "postauth"} /\ rekeys \in Nat

\* Whatever the peers send, whenever either of them or both start a rekeying, and with the
\* server's packet state moved to another process in between, every packet that is read
\* passes its MAC, decompresses and finds its handler, the server's signature verifies, and
\* no exchange is started on top of another (ssh_packet_read_poll2(), ssh_dispatch_run(),
\* input_kex_gen_reply(), kex_start_rekex()).
EveryPacketHandled == \A p \in Peers : st[p].err = "none"

\* Between its KEXINIT and its NEWKEYS a peer sends packets of the key exchange only
\* ("During rekeying we can only send key exchange messages", ssh_packet_send2()).
OnlyKexDuringRekey ==
  \A p \in Peers : \A i, j \in 1..Len(net[p]) :
    (i < j /\ net[p][i].t = "KEXINIT" /\ net[p][j].t \notin KexTypes)
      => \E k \in i..j : net[p][k].t = "NEWKEYS"

\* The session id, which authentication signs, is the hash of the first exchange on both
\* sides, and neither a rekeying nor the handover changes it (kex_derive_keys()).
SessionIdFixed ==
  [][\A p \in Peers :
       /\ st[p].session_id # NoKey => st'[p].session_id = st[p].session_id
       /\ NoKey \in {st'[p].session_id, st'[Other(p)].session_id}
          \/ st'[p].session_id = st'[Other(p)].session_id]_vars

\* A rekeying that was begun ends, and the packets queued meanwhile are sent.
RekeyEnds ==
  \A p \in Peers : (ssh_packet_is_rekeying(st[p]) \/ st[p].queue # <<>>)
                      ~> (~ssh_packet_is_rekeying(st[p]) /\ st[p].queue = <<>>)

\* What the upper layers see is a reliable stream in each direction, whatever happens below:
\* the packets in the peer's queue follow those on their way.
DataOf(s) == [i \in DOMAIN s |-> s[i].body[1]]
IsData(m) == m.t = "DATA"
Stream == INSTANCE PacketStream WITH
  Limit <- MaxData,
  count <- [p \in Peers |-> IF made[p] = 0 THEN 0 ELSE made[p] - 1],
  pending <- [p \in Peers |-> DataOf(SelectSeq(net[p], IsData)
                                     \o SelectSeq(st[Other(p)].queue, IsData))],
  got <- taken
StreamHolds == Stream!Spec
=============================================================================
