-------------------------- MODULE SshChannelProofs --------------------------
(***************************************************************************)
(* Proofs about a session channel, for any window, packet size and amount  *)
(* of output, with and without timeouts and failing writes: the two peers  *)
(* never break the protocol to one another, nothing follows EOF or CLOSE   *)
(* that must not, the exit status comes before the close, no peer ever     *)
(* sends more than the other has room for, no length wraps, and a channel  *)
(* that closed in order has delivered all that the command wrote.          *)
(*                                                                         *)
(* A stream of packets is described by four bits of the two records at its *)
(* ends (Between).  Within an iteration of the loop the packets that were  *)
(* put so far count as sent (Mid), and every call of the loop keeps that.  *)
(* The windows are an invariant of their own on top of this one, and the   *)
(* output is one on top of both.                                           *)
(***************************************************************************)
EXTENDS SshChannel, SequenceTheorems, WellFoundedInduction, TLAPS

Types == {"free", "opening", "larval", "open", "abandoned", "zombie"}
Directions == {"open", "drain", "closed"}
Flags == {"eof_sent", "eof_rcvd", "close_sent", "close_rcvd"}
Plain == {"EXEC", "ADJUST", "SUCCESS", "FAILURE", "EXIT", "SIGNAL", "EOW"}
Data == {"DATA", "EXT"}
Running == Plain \cup Data \cup {"EOF", "CLOSE"}
Sendable == Running \cup {"OPEN", "CONFIRM", "OPENFAIL"}
Packets == [t : Sendable, n : Int]

\* A channel's record, at any point of an iteration.
Chan == [
  type : Types, istate : Directions, ostate : Directions, flags : SUBSET Flags,
  input : Int, output : Int, extended : Int,
  local_window : Int, local_consumed : Int, remote_window : Int,
  usage : {"read", "write", "ignore"}, fds : SUBSET {"rfd", "wfd", "efd"},
  tty : BOOLEAN, want : SUBSET {"rfd", "wfd", "efd_w", "efd_r"},
  detach : {"none", "wait", "close"}, pid : BOOLEAN,
  sent : Seq(Packets), err : BOOLEAN]

SentEof(c) == "eof_sent" \in c.flags \/ c.type = "free"
SentClose(c) == "close_sent" \in c.flags \/ c.type = "free"
RcvdEof(c) == "eof_rcvd" \in c.flags
RcvdClose(c) == "close_rcvd" \in c.flags \/ c.type = "free"

\* What a record says about itself: a direction that sent EOF or CLOSE is closed, and only an
\* open channel whose CLOSE is still to come has a child.
Sane(c) ==
  /\ c \in Chan /\ ~c.err
  /\ "eof_sent" \in c.flags => c.istate = "closed"
  /\ "close_sent" \in c.flags => c.istate = "closed" /\ c.ostate = "closed"
  /\ "close_sent" \in c.flags => c.type \in {"open", "abandoned"}
  /\ c.pid => c.type = "open" /\ c.detach = "wait" /\ "close_sent" \notin c.flags
  /\ c.type = "free" => c.flags = {} /\ c.detach = "none" /\ ~c.pid
  /\ c.type = "larval" => c.detach = "wait"

\* The packets s on their way from c to r: nothing follows CLOSE, no data and no EOF follow
\* EOF, and each of the two is on its way or was received exactly if it was sent.
Ordered(s) ==
  \A i, j \in 1..Len(s) : i < j =>
    /\ s[i].t # "CLOSE"
    /\ s[i].t = "EOF" => s[j].t \notin Data \cup {"EOF"}
Holds(s, ts) == \E i \in 1..Len(s) : s[i].t \in ts
Between(s, c, r) ==
  /\ Ordered(s) /\ \A i \in 1..Len(s) : s[i].t \in Running
  /\ Holds(s, {"CLOSE"}) => SentClose(c)
  /\ SentClose(c) => RcvdClose(r) \/ Holds(s, {"CLOSE"})
  /\ RcvdClose(r) => SentClose(c) /\ s = <<>>
  /\ Holds(s, {"EOF"}) => SentEof(c)
  /\ RcvdEof(r) => SentEof(c) /\ ~Holds(s, Data \cup {"EOF"})

\* A channel that nothing has happened to.
Fresh(c) ==
  /\ c.istate = "open" /\ c.ostate = "open" /\ c.flags = {} /\ c.detach = "wait" /\ ~c.pid

\* The opening of the channel, and what comes of it.
Requested ==
  /\ ch["client"].type = "opening" /\ Fresh(ch["client"]) /\ ch["client"].remote_window = 0
  /\ ch["server"].type = "free"
  /\ net["client"] = <<>>
  /\ Len(net["server"]) = 1 /\ Head(net["server"]).t = "OPEN"
Accepted ==
  /\ ch["client"].type = "opening" /\ Fresh(ch["client"])
  /\ ch["server"].type = "larval" /\ Fresh(ch["server"])
  /\ net["server"] = <<>>
  /\ Len(net["client"]) = 1 /\ Head(net["client"]).t = "CONFIRM"
Refused ==
  /\ ch["client"].type = "opening" /\ Fresh(ch["client"]) /\ ch["server"].type = "free"
  /\ net["server"] = <<>>
  /\ Len(net["client"]) = 1 /\ Head(net["client"]).t = "OPENFAIL"
Failed ==
  /\ (ch["client"].type = "zombie" /\ Fresh(ch["client"])) \/ ch["client"].type = "free"
  /\ ch["server"].type = "free"
  /\ net["server"] = <<>> /\ net["client"] = <<>>

\* The client has the exit status, or there is none because a signal killed the command.
Told == exitSeen \/ "killed" \in broke
ExitKnown(s) == Told \/ Holds(s, {"EXIT"})

\* Unless a timeout forces it, the client closes after the server, and the server after it
\* has sent the exit status, if there is one.
Orderly(client, server, s) ==
  /\ client.type # "abandoned" /\ server.type # "abandoned"
  /\ client.type # "free" => client.detach = "wait"
  /\ server.type # "free" => server.detach # "none"
  /\ SentClose(client) => RcvdClose(client)
  /\ SentClose(server) => ExitKnown(s)
  /\ server.detach = "close" => ExitKnown(s)

\* The types of channels once the client has its confirmation.
Ends(client, server) ==
  /\ client.type \in {"open", "abandoned", "free"} /\ ~client.pid
  /\ server.type \in {"larval", "open", "abandoned", "free"}

Linked ==
  /\ Ends(ch["client"], ch["server"])
  /\ \A p \in Peers : Between(net[Other(p)], ch[p], ch[Other(p)])

Established ==
  /\ Linked
  /\ "forced" \notin broke => Orderly(ch["client"], ch["server"], net["client"])

Shape ==
  /\ ch \in [Peers -> Chan] /\ net \in [Peers -> Seq(Packets)]
  /\ \A p \in Peers : Sane(ch[p]) /\ ch[p].sent = <<>> /\ ch[p].want = {}

IInv ==
  /\ Shape /\ src \in [Streams -> Int]
  /\ up => Requested \/ Accepted \/ Refused \/ Failed \/ Established
  /\ ~up => \A p \in Peers : net[p] = <<>> /\ ch[p].flags = {}

-----------------------------------------------------------------------------
(* Packets that are put into a stream and taken out of it.                  *)

LEMMA HoldsAppend ==
  ASSUME NEW s \in Seq(Packets), NEW m \in Packets, NEW ts
  PROVE Holds(Append(s, m), ts) <=> Holds(s, ts) \/ m.t \in ts
<1> DEFINE y == Append(s, m)
<1>1. Len(y) = Len(s) + 1 /\ Len(s) \in Nat /\ y[Len(y)] = m OBVIOUS
<1>2. \A i \in 1..Len(s) : y[i] = s[i] OBVIOUS
<1> HIDE DEF y
<1>3. Holds(y, ts) <=> Holds(s, ts) \/ m.t \in ts BY <1>1, <1>2 DEF Holds
<1> QED BY <1>3 DEF y

LEMMA OrderedAppend ==
  ASSUME NEW s \in Seq(Packets), NEW m \in Packets, Ordered(s),
         ~Holds(s, {"CLOSE"}),
         m.t \in Data \cup {"EOF"} => ~Holds(s, {"EOF"})
  PROVE Ordered(Append(s, m))
<1> DEFINE y == Append(s, m)
<1>1. Len(y) = Len(s) + 1 /\ Len(s) \in Nat /\ y[Len(y)] = m OBVIOUS
<1>2. \A i \in 1..Len(s) : y[i] = s[i] OBVIOUS
<1> HIDE DEF y
<1>3. ASSUME NEW i \in 1..Len(y), NEW j \in 1..Len(y), i < j
      PROVE y[i].t # "CLOSE" /\ (y[i].t = "EOF" => y[j].t \notin Data \cup {"EOF"})
  <2>1. i \in 1..Len(s) /\ y[i] = s[i] BY <1>1, <1>2, <1>3
  <2>2. y[i].t # "CLOSE" BY <2>1 DEF Holds
  <2>3. CASE j \in 1..Len(s) BY <2>1, <2>2, <2>3, <1>2, <1>3 DEF Ordered
  <2>4. CASE j = Len(y) BY <2>1, <2>2, <2>4, <1>1 DEF Holds
  <2> QED BY <2>3, <2>4, <1>1
<1>4. Ordered(y) BY <1>3 DEF Ordered
<1> QED BY <1>4 DEF y

LEMMA RunningAppend ==
  ASSUME NEW s \in Seq(Packets), NEW m \in Packets, \A i \in 1..Len(s) : s[i].t \in Running,
         m.t \in Running
  PROVE \A i \in 1..Len(Append(s, m)) : Append(s, m)[i].t \in Running OBVIOUS

LEMMA TailParts ==
  ASSUME NEW s \in Seq(Packets), s # <<>>
  PROVE  /\ Tail(s) \in Seq(Packets) /\ Head(s) = s[1] /\ Head(s) \in Packets
         /\ Len(s) \in Nat /\ 1 \in 1..Len(s) /\ Len(Tail(s)) = Len(s) - 1
         /\ \A i \in 1..Len(Tail(s)) : Tail(s)[i] = s[i + 1] /\ i + 1 \in 1..Len(s) OBVIOUS

LEMMA HoldsTail ==
  ASSUME NEW s \in Seq(Packets), s # <<>>, NEW ts
  PROVE Holds(s, ts) <=> Head(s).t \in ts \/ Holds(Tail(s), ts)
<1>1. PICK h \in Packets, y \in Seq(Packets) : h = Head(s) /\ y = Tail(s) BY TailParts
<1>2. /\ h = s[1] /\ Len(s) \in Nat /\ 1 \in 1..Len(s) /\ Len(y) = Len(s) - 1
      /\ \A i \in 1..Len(y) : y[i] = s[i + 1] /\ i + 1 \in 1..Len(s) BY <1>1, TailParts
<1>3. \A i \in 1..Len(s) : i = 1 \/ (i - 1 \in 1..Len(y) /\ y[i - 1] = s[i]) BY <1>2
<1>4. Holds(s, ts) <=> h.t \in ts \/ Holds(y, ts) BY <1>2, <1>3 DEF Holds
<1> QED BY <1>4, <1>1

LEMMA OrderedTail ==
  ASSUME NEW s \in Seq(Packets), s # <<>>, Ordered(s)
  PROVE  /\ Ordered(Tail(s))
         /\ Head(s).t = "CLOSE" => Tail(s) = <<>>
         /\ Head(s).t = "EOF" => ~Holds(Tail(s), Data \cup {"EOF"})
<1>1. PICK h \in Packets, y \in Seq(Packets) : h = Head(s) /\ y = Tail(s) BY TailParts
<1>2. /\ h = s[1] /\ Len(s) \in Nat /\ 1 \in 1..Len(s) /\ Len(y) = Len(s) - 1
      /\ \A i \in 1..Len(y) : y[i] = s[i + 1] /\ i + 1 \in 1..Len(s) BY <1>1, TailParts
<1>3. Ordered(y)
  <2> SUFFICES ASSUME NEW i \in 1..Len(y), NEW j \in 1..Len(y), i < j
               PROVE y[i].t # "CLOSE" /\ (y[i].t = "EOF" => y[j].t \notin Data \cup {"EOF"})
    BY Zenon DEF Ordered
  <2>1. y[i] = s[i + 1] /\ y[j] = s[j + 1] /\ i + 1 \in 1..Len(s) /\ j + 1 \in 1..Len(s) BY <1>2, Zenon
  <2>2. i + 1 < j + 1 BY <1>2
  <2>3. s[i + 1].t # "CLOSE" /\ (s[i + 1].t = "EOF" => s[j + 1].t \notin Data \cup {"EOF"})
    BY <2>1, <2>2, Zenon DEF Ordered
  <2> QED BY <2>1, <2>3, Zenon
<1>4. h.t = "CLOSE" => y = <<>>
  <2> SUFFICES ASSUME h.t = "CLOSE", y # <<>> PROVE FALSE OBVIOUS
  <2>1. 1 < 2 /\ 2 \in 1..Len(s) BY <1>2
  <2> QED BY <2>1, <1>2 DEF Ordered
<1>5. h.t = "EOF" => ~Holds(y, Data \cup {"EOF"})
  <2> SUFFICES ASSUME h.t = "EOF", NEW i \in 1..Len(y), y[i].t \in Data \cup {"EOF"} PROVE FALSE
    BY Zenon DEF Holds
  <2>1. y[i] = s[i + 1] /\ i + 1 \in 1..Len(s) BY <1>2, Zenon
  <2>2. 1 < i + 1 BY <1>2
  <2> QED BY <1>2, <2>1, <2>2, Zenon DEF Ordered
<1> QED BY <1>1, <1>3, <1>4, <1>5

-----------------------------------------------------------------------------
(* The same for the two records at the ends of the stream.                  *)

\* d has sent what c has sent, and has received what c has received.
AsSent(c, d) == (SentEof(d) <=> SentEof(c)) /\ (SentClose(d) <=> SentClose(c))
AsRcvd(c, d) == (RcvdEof(d) <=> RcvdEof(c)) /\ (RcvdClose(d) <=> RcvdClose(c))

LEMMA BetweenKept ==
  ASSUME NEW s, NEW c, NEW d, NEW r, NEW q, Between(s, c, r), AsSent(c, d), AsRcvd(r, q)
  PROVE Between(s, d, q) BY DEF Between, AsSent, AsRcvd

LEMMA PutPlain ==
  ASSUME NEW s \in Seq(Packets), NEW m \in Packets, NEW c, NEW d, NEW r,
         Between(s, c, r), ~SentClose(c), AsSent(c, d), m.t \in Plain
  PROVE Between(Append(s, m), d, r)
<1>1. ~Holds(s, {"CLOSE"}) /\ ~RcvdClose(r) BY DEF Between
<1>2. m.t \notin Data \cup {"EOF"} /\ m.t \notin {"CLOSE"} /\ m.t \in Running /\ m.t \notin {"EOF"}
  BY DEF Plain, Data, Running
<1>3. Ordered(Append(s, m)) BY <1>1, <1>2, OrderedAppend DEF Between
<1>4. \A i \in 1..Len(Append(s, m)) : Append(s, m)[i].t \in Running BY <1>2, RunningAppend DEF Between
<1> QED BY <1>1, <1>2, <1>3, <1>4, HoldsAppend DEF Between, AsSent

LEMMA PutData ==
  ASSUME NEW s \in Seq(Packets), NEW m \in Packets, NEW c, NEW d, NEW r,
         Between(s, c, r), ~SentClose(c), ~SentEof(c), AsSent(c, d), m.t \in Data
  PROVE Between(Append(s, m), d, r)
<1>1. ~Holds(s, {"CLOSE"}) /\ ~RcvdClose(r) /\ ~RcvdEof(r) /\ ~Holds(s, {"EOF"}) BY DEF Between
<1>2. m.t \notin {"CLOSE"} /\ m.t \in Running /\ m.t \notin {"EOF"} BY DEF Data, Running
<1>3. Ordered(Append(s, m)) BY <1>1, <1>2, OrderedAppend DEF Between
<1>4. \A i \in 1..Len(Append(s, m)) : Append(s, m)[i].t \in Running BY <1>2, RunningAppend DEF Between
<1> QED BY <1>1, <1>2, <1>3, <1>4, HoldsAppend DEF Between, AsSent

LEMMA PutEof ==
  ASSUME NEW s \in Seq(Packets), NEW m \in Packets, NEW c, NEW d, NEW r,
         Between(s, c, r), ~SentClose(c), ~SentEof(c), SentEof(d), ~SentClose(d), m.t = "EOF"
  PROVE Between(Append(s, m), d, r)
<1>1. ~Holds(s, {"CLOSE"}) /\ ~RcvdClose(r) /\ ~RcvdEof(r) /\ ~Holds(s, {"EOF"}) BY DEF Between
<1>2. m.t \notin {"CLOSE"} /\ m.t \in Running BY DEF Data, Running
<1>3. Ordered(Append(s, m)) BY <1>1, <1>2, OrderedAppend DEF Between
<1>4. \A i \in 1..Len(Append(s, m)) : Append(s, m)[i].t \in Running BY <1>2, RunningAppend DEF Between
<1> QED BY <1>1, <1>2, <1>3, <1>4, HoldsAppend DEF Between

LEMMA PutClose ==
  ASSUME NEW s \in Seq(Packets), NEW m \in Packets, NEW c, NEW d, NEW r,
         Between(s, c, r), ~SentClose(c), SentEof(c) => SentEof(d), SentClose(d), m.t = "CLOSE"
  PROVE Between(Append(s, m), d, r)
<1>1. ~Holds(s, {"CLOSE"}) /\ ~RcvdClose(r) BY DEF Between
<1>2. m.t \notin Data \cup {"EOF"} /\ m.t \notin {"EOF"} /\ m.t \in Running BY DEF Data, Running
<1>3. Ordered(Append(s, m)) BY <1>1, <1>2, OrderedAppend DEF Between
<1>4. \A i \in 1..Len(Append(s, m)) : Append(s, m)[i].t \in Running BY <1>2, RunningAppend DEF Between
<1> QED BY <1>1, <1>2, <1>3, <1>4, HoldsAppend DEF Between

LEMMA TakeFacts ==
  ASSUME NEW s \in Seq(Packets), NEW c, NEW r, Between(s, c, r), s # <<>>
  PROVE  /\ Head(s).t \in Running /\ ~RcvdClose(r)
         /\ Head(s).t \in Data \cup {"EOF"} => ~RcvdEof(r)
<1>1. Head(s).t \in Running
  <2>1. Head(s) = s[1] /\ 1 \in 1..Len(s) BY TailParts
  <2> QED BY <2>1 DEF Between
<1>2. Head(s).t \in Data \cup {"EOF"} => Holds(s, Data \cup {"EOF"}) BY HoldsTail
<1> QED BY <1>1, <1>2 DEF Between

LEMMA Take ==
  ASSUME NEW s \in Seq(Packets), NEW c, NEW r, NEW q, Between(s, c, r), s # <<>>,
         RcvdEof(q) <=> RcvdEof(r) \/ Head(s).t = "EOF",
         RcvdClose(q) <=> RcvdClose(r) \/ Head(s).t = "CLOSE"
  PROVE Between(Tail(s), c, q)
<1>1. /\ Ordered(Tail(s))
      /\ Head(s).t = "CLOSE" => Tail(s) = <<>>
      /\ Head(s).t = "EOF" => ~Holds(Tail(s), Data \cup {"EOF"}) BY OrderedTail DEF Between
<1>2. \A i \in 1..Len(Tail(s)) : Tail(s)[i].t \in Running BY TailParts DEF Between
<1>3. \A ts : Holds(s, ts) <=> Head(s).t \in ts \/ Holds(Tail(s), ts) BY HoldsTail
<1>4. ~RcvdClose(r) BY DEF Between
<1>5. Holds(Tail(s), {"CLOSE"}) => SentClose(c) BY <1>3 DEF Between
<1>6. SentClose(c) => RcvdClose(q) \/ Holds(Tail(s), {"CLOSE"}) BY <1>3, <1>4 DEF Between
<1>7. RcvdClose(q) => SentClose(c) /\ Tail(s) = <<>> BY <1>1, <1>3, <1>4 DEF Between
<1>8. Holds(Tail(s), {"EOF"}) => SentEof(c) BY <1>3 DEF Between
<1>9. RcvdEof(q) => SentEof(c) BY <1>3 DEF Between
<1>10. RcvdEof(q) => ~Holds(Tail(s), Data \cup {"EOF"}) BY <1>1, <1>3 DEF Between
<1> QED BY <1>1, <1>2, <1>5, <1>6, <1>7, <1>8, <1>9, <1>10 DEF Between

-----------------------------------------------------------------------------
(* The calls of one iteration.                                              *)

\* In the middle of an iteration of p: its record is c, s was on the way to the other end when
\* it began, in is on the way from there, r is the record there; o: nothing was forced.
Mid(p, c, s, in, r, o) ==
  /\ Sane(c) /\ Sane(r)
  /\ Between(s \o c.sent, c, r) /\ Between(in, r, c)
  /\ p = "client" => Ends(c, r) /\ (o => Orderly(c, r, in))
  /\ p = "server" => Ends(r, c) /\ (o => Orderly(r, c, s \o c.sent))

\* What most calls do: they close directions, move data, and put at most one packet.
Keeps(c, d) ==
  /\ d \in Chan /\ d.type = c.type /\ d.detach = c.detach /\ d.pid = c.pid /\ d.err = c.err
  /\ c.istate = "closed" => d.istate = "closed"
  /\ c.ostate = "closed" => d.ostate = "closed"
Quiet(c, d) == Keeps(c, d) /\ d.flags = c.flags /\ d.sent = c.sent
Puts(c, d, m) == Keeps(c, d) /\ d.sent = Append(c.sent, m) /\ ~SentClose(c)
Emits(c, d) ==
  \/ Quiet(c, d)
  \/ \E m \in Packets :
       /\ Puts(c, d, m)
       /\ \/ m.t \in Plain /\ d.flags = c.flags
          \/ m.t \in Data /\ d.flags = c.flags /\ ~SentEof(c)
          \/ m.t = "EOF" /\ d.flags = c.flags \cup {"eof_sent"} /\ ~SentEof(c) /\ d.istate = "closed"

LEMMA ConcatAppend ==
  ASSUME NEW s \in Seq(Packets), NEW u \in Seq(Packets), NEW m \in Packets
  PROVE s \o u \in Seq(Packets) /\ s \o Append(u, m) = Append(s \o u, m) OBVIOUS

LEMMA SaneKept ==
  ASSUME NEW c, NEW d, Sane(c), Emits(c, d)
  PROVE Sane(d)
<1>1. CASE Quiet(c, d) BY <1>1 DEF Sane, Quiet, Keeps
<1>2. ASSUME NEW m \in Packets, Puts(c, d, m), d.flags = c.flags PROVE Sane(d)
  BY <1>2 DEF Sane, Puts, Keeps
<1>3. ASSUME NEW m \in Packets, Puts(c, d, m), d.flags = c.flags \cup {"eof_sent"},
             d.istate = "closed"
      PROVE Sane(d) BY <1>3 DEF Sane, Puts, Keeps, SentClose
<1> QED BY <1>1, <1>2, <1>3 DEF Emits

LEMMA RcvdKept ==
  ASSUME NEW c, NEW d, Emits(c, d)
  PROVE  /\ AsRcvd(c, d) /\ (SentClose(d) <=> SentClose(c))
         /\ d.type = c.type /\ d.pid = c.pid /\ d.detach = c.detach
<1>1. CASE Quiet(c, d) BY <1>1 DEF AsRcvd, RcvdEof, RcvdClose, SentClose, Quiet, Keeps
<1>2. ASSUME NEW m \in Packets, Puts(c, d, m), d.flags = c.flags
      PROVE  /\ AsRcvd(c, d) /\ (SentClose(d) <=> SentClose(c))
             /\ d.type = c.type /\ d.pid = c.pid /\ d.detach = c.detach
  BY <1>2 DEF AsRcvd, RcvdEof, RcvdClose, SentClose, Puts, Keeps
<1>3. ASSUME NEW m \in Packets, Puts(c, d, m), d.flags = c.flags \cup {"eof_sent"}
      PROVE  /\ AsRcvd(c, d) /\ (SentClose(d) <=> SentClose(c))
             /\ d.type = c.type /\ d.pid = c.pid /\ d.detach = c.detach
  BY <1>3 DEF AsRcvd, RcvdEof, RcvdClose, SentClose, Puts, Keeps
<1> QED BY <1>1, <1>2, <1>3 DEF Emits

LEMMA BetweenEmits ==
  ASSUME NEW s \in Seq(Packets), NEW c, NEW d, NEW r, Sane(c), Emits(c, d),
         Between(s \o c.sent, c, r)
  PROVE  /\ Between(s \o d.sent, d, r)
         /\ Holds(s \o c.sent, {"EXIT"}) => Holds(s \o d.sent, {"EXIT"})
<1>1. c.sent \in Seq(Packets) /\ s \o c.sent \in Seq(Packets) BY DEF Sane, Chan
<1>2. CASE Quiet(c, d)
  <2>1. AsSent(c, d) /\ AsRcvd(r, r) /\ d.sent = c.sent
    BY <1>2 DEF AsSent, AsRcvd, SentEof, SentClose, Quiet, Keeps
  <2> QED BY <2>1, BetweenKept
<1>3. ASSUME NEW m \in Packets, Puts(c, d, m),
             \/ m.t \in Plain /\ d.flags = c.flags
             \/ m.t \in Data /\ d.flags = c.flags /\ ~SentEof(c)
             \/ m.t = "EOF" /\ d.flags = c.flags \cup {"eof_sent"} /\ ~SentEof(c)
      PROVE  /\ Between(s \o d.sent, d, r)
             /\ Holds(s \o c.sent, {"EXIT"}) => Holds(s \o d.sent, {"EXIT"})
  <2>1. s \o d.sent = Append(s \o c.sent, m) /\ ~SentClose(c)
    <3>1. d.sent = Append(c.sent, m) /\ ~SentClose(c) BY <1>3, Zenon DEF Puts
    <3>2. s \o Append(c.sent, m) = Append(s \o c.sent, m) BY <1>1, ConcatAppend, Zenon
    <3> QED BY <3>1, <3>2, Zenon
  <2>2. d.flags = c.flags => AsSent(c, d) BY <1>3 DEF AsSent, SentEof, SentClose, Puts, Keeps
  <2>6. PICK u \in Seq(Packets) : u = s \o c.sent BY <1>1
  <2>7. Between(u, c, r) /\ s \o d.sent = Append(u, m) BY <2>1, <2>6
  <2>8. Holds(u, {"EXIT"}) => Holds(Append(u, m), {"EXIT"}) BY HoldsAppend
  <2>3. CASE m.t \in Plain /\ d.flags = c.flags
    <3>1. Between(Append(u, m), d, r) BY <2>1, <2>2, <2>3, <2>7, PutPlain
    <3> QED BY <3>1, <2>6, <2>7, <2>8
  <2>4. CASE m.t \in Data /\ d.flags = c.flags /\ ~SentEof(c)
    <3>1. Between(Append(u, m), d, r) BY <2>1, <2>2, <2>4, <2>7, PutData
    <3> QED BY <3>1, <2>6, <2>7, <2>8
  <2>5. CASE m.t = "EOF" /\ d.flags = c.flags \cup {"eof_sent"} /\ ~SentEof(c)
    <3>1. SentEof(d) /\ ~SentClose(d) BY <2>5, <1>3 DEF SentEof, SentClose, Puts, Keeps
    <3>2. Between(Append(u, m), d, r) BY <2>1, <2>5, <3>1, <2>7, PutEof
    <3> QED BY <3>2, <2>6, <2>7, <2>8
  <2> QED BY <1>3, <2>3, <2>4, <2>5
<1> QED BY <1>2, <1>3 DEF Emits

LEMMA EmitStep ==
  ASSUME NEW p, NEW c, NEW d, NEW s \in Seq(Packets), NEW in, NEW r, NEW o,
         Mid(p, c, s, in, r, o), Emits(c, d)
  PROVE Mid(p, d, s, in, r, o)
<1>1. Sane(c) /\ Sane(r) /\ Sane(d) BY SaneKept DEF Mid
<1>2. /\ AsRcvd(c, d) /\ (SentClose(d) <=> SentClose(c))
      /\ d.type = c.type /\ d.pid = c.pid /\ d.detach = c.detach BY RcvdKept
<1>3. /\ Between(s \o d.sent, d, r)
      /\ Holds(s \o c.sent, {"EXIT"}) => Holds(s \o d.sent, {"EXIT"}) BY <1>1, BetweenEmits DEF Mid
<1>4. AsSent(r, r) BY DEF AsSent
<1>5. Between(in, r, d) BY <1>2, <1>4, BetweenKept DEF Mid
<1>6. p = "client" => Ends(d, r) /\ (o => Orderly(d, r, in)) BY <1>2 DEF Mid, Ends, Orderly, AsRcvd
<1>7. p = "server" => Ends(r, d) /\ (o => Orderly(r, d, s \o d.sent))
  BY <1>2, <1>3 DEF Mid, Ends, Orderly, ExitKnown
<1> QED BY <1>1, <1>3, <1>5, <1>6, <1>7 DEF Mid

\* Records with one field changed.
LEMMA SetSent ==
  ASSUME NEW c \in Chan, NEW u \in Seq(Packets), NEW d, d = [c EXCEPT !.sent = u]
  PROVE d \in Chan /\ d.sent = u BY DEF Chan

LEMMA SetOutput ==
  ASSUME NEW c \in Chan, NEW n \in Int, NEW f \in SUBSET {"rfd", "wfd", "efd"},
         NEW d, d = [c EXCEPT !.output = n, !.fds = f]
  PROVE d \in Chan BY DEF Chan

LEMMA AppendChan ==
  ASSUME NEW c \in Chan, NEW m \in Packets
  PROVE Append(c.sent, m) \in Seq(Packets)
<1>1. c.sent \in Seq(Packets) BY DEF Chan
<1>2. PICK u \in Seq(Packets) : u = c.sent BY <1>1
<1>3. Append(u, m) \in Seq(Packets) OBVIOUS
<1> QED BY <1>2, <1>3

\* nchan.c
LEMMA ReadFailedQuiet == ASSUME NEW c \in Chan PROVE Quiet(c, chan_read_failed(c))
  BY ZenonT(60) DEF chan_read_failed, chan_shutdown_read, Quiet, Keeps, Chan, Directions

LEMMA ShutdownWriteQuiet ==
  ASSUME NEW c \in Chan
  PROVE  Quiet(c, chan_shutdown_write(c)) /\ chan_shutdown_write(c).ostate = c.ostate
         /\ chan_shutdown_write(c).istate = c.istate
<1>0. c.fds \in SUBSET {"rfd", "wfd", "efd"} BY DEF Chan
<1>1. PICK f \in SUBSET {"rfd", "wfd", "efd"} : f = IF c.type = "larval" THEN c.fds ELSE c.fds \ {"wfd"}
  BY <1>0
<1>2. PICK d : d = [c EXCEPT !.output = 0, !.fds = f] OBVIOUS
<1>3. d = chan_shutdown_write(c) BY <1>1, <1>2 DEF chan_shutdown_write, Chan
<1>6. PICK n \in Int : n = 0 OBVIOUS
<1>7. d = [c EXCEPT !.output = n, !.fds = f] BY <1>2, <1>6
<1>4. d \in Chan BY <1>7, SetOutput, Zenon
<1>5. Quiet(c, d) /\ d.ostate = c.ostate /\ d.istate = c.istate
  BY <1>2, <1>4, ZenonT(60) DEF Quiet, Keeps, Chan
<1> QED BY <1>3, <1>5

LEMMA ObufQuiet == ASSUME NEW c \in Chan PROVE Quiet(c, chan_obuf_empty(c))
<1>1. PICK e \in Chan : e = chan_shutdown_write(c) BY ShutdownWriteQuiet DEF Quiet, Keeps
<1>2. Quiet(c, e) BY <1>1, ShutdownWriteQuiet
<1>3. Quiet(c, [e EXCEPT !.ostate = "closed"]) BY <1>2 DEF Quiet, Keeps, Chan, Directions
<1>4. Quiet(c, c) BY DEF Quiet, Keeps
<1> QED BY <1>1, <1>3, <1>4 DEF chan_obuf_empty

LEMMA EowQuiet == ASSUME NEW c \in Chan PROVE Quiet(c, chan_rcvd_eow(c))
  BY ZenonT(60) DEF chan_rcvd_eow, chan_shutdown_read, Quiet, Keeps, Chan, Directions

LEMMA PutChan ==
  ASSUME NEW c \in Chan, NEW t \in Sendable, NEW n \in Int
  PROVE  /\ Put(c, t, n) \in Chan /\ Pkt(t, n) \in Packets /\ Pkt(t, n).t = t
         /\ Put(c, t, n).sent = Append(c.sent, Pkt(t, n))
<1>1. Pkt(t, n) \in Packets /\ Pkt(t, n).t = t BY DEF Pkt, Packets, Sendable
<1>2. PICK m \in Packets : m = Pkt(t, n) BY <1>1
<1>3. PICK u \in Seq(Packets) : u = Append(c.sent, m) BY AppendChan
<1>4. PICK d : d = [c EXCEPT !.sent = u] OBVIOUS
<1>5. d \in Chan /\ d.sent = u BY <1>4, SetSent
<1>6. d = Put(c, t, n) BY <1>2, <1>3, <1>4 DEF Put, Chan
<1> QED BY <1>1, <1>2, <1>3, <1>5, <1>6

LEMMA IbufEmits == ASSUME NEW c, Sane(c), c.type # "free" PROVE Emits(c, chan_ibuf_empty(c))
<1>1. c \in Chan BY DEF Sane
<1>2. CASE c.input = 0 /\ c.istate = "drain"
  <2>1. "close_sent" \notin c.flags /\ "eof_sent" \notin c.flags BY <1>2 DEF Sane
  <2>2. PICK m \in Packets : m = Pkt("EOF", 0) BY <1>1, PutChan DEF Sendable, Running
  <2>3. m.t = "EOF" BY <2>2 DEF Pkt
  <2>4. chan_ibuf_empty(c) = [c EXCEPT !.sent = Append(@, m), !.flags = @ \cup {"eof_sent"}, !.istate = "closed"]
    BY <1>1, <1>2, <2>1, <2>2 DEF chan_ibuf_empty, chan_send_eof2, Put, Chan
  <2>5. PICK d : d = [c EXCEPT !.sent = Append(@, m), !.flags = @ \cup {"eof_sent"}, !.istate = "closed"]
    OBVIOUS
  <2>6. d \in Chan
    <3>1. Append(c.sent, m) \in Seq(Packets) /\ c.flags \cup {"eof_sent"} \in SUBSET Flags
      BY <1>1, AppendChan DEF Chan, Flags
    <3> QED BY <1>1, <2>5, <3>1 DEF Chan, Directions
  <2>7. /\ d.type = c.type /\ d.detach = c.detach /\ d.pid = c.pid /\ d.err = c.err /\ d.istate = "closed"
        /\ d.ostate = c.ostate /\ d.sent = Append(c.sent, m) /\ d.flags = c.flags \cup {"eof_sent"}
    BY <1>1, <2>5 DEF Chan
  <2> QED BY <2>1, <2>3, <2>4, <2>5, <2>6, <2>7 DEF Emits, Puts, Keeps, SentClose, SentEof
<1>3. CASE ~(c.input = 0 /\ c.istate = "drain") BY <1>1, <1>3 DEF chan_ibuf_empty, Emits, Quiet, Keeps
<1> QED BY <1>2, <1>3

\* A call that sets fields of no concern here and puts one plain packet.
LEMMA WriteFailedEmits == ASSUME NEW c, Sane(c), c.type # "free" PROVE Emits(c, chan_write_failed(c))
<1>1. c \in Chan BY DEF Sane
<1>2. CASE c.ostate \in {"open", "drain"}
  <2>1. "close_sent" \notin c.flags BY <1>2 DEF Sane
  <2>2. PICK m \in Packets : m = Pkt("EOW", 0) BY <1>1, PutChan DEF Sendable, Running, Plain
  <2>3. m.t \in Plain BY <2>2 DEF Pkt, Plain
  <2>4. PICK d : d = chan_write_failed(c) OBVIOUS
  <2>8. PICK e \in Chan : e = chan_shutdown_write(c) BY <1>1, ShutdownWriteQuiet DEF Quiet, Keeps
  <2>9. Quiet(c, e) /\ e.ostate # "closed" /\ e.istate = c.istate BY <1>1, <1>2, <2>8, ShutdownWriteQuiet
  <2>5. d = [e EXCEPT !.sent = Append(@, m), !.ostate = "closed"]
    BY <1>2, <2>2, <2>4, <2>8, <2>9 DEF chan_write_failed, chan_send_eow2, Put, Chan
  <2>6. d \in Chan
    <3>1. Append(e.sent, m) \in Seq(Packets) BY AppendChan
    <3> QED BY <2>5, <3>1 DEF Chan, Directions
  <2>7. /\ d.type = c.type /\ d.detach = c.detach /\ d.pid = c.pid /\ d.err = c.err /\ d.istate = c.istate
        /\ d.ostate = "closed" /\ d.sent = Append(c.sent, m) /\ d.flags = c.flags
    BY <2>5, <2>9 DEF Chan, Quiet, Keeps
  <2> QED BY <2>1, <2>3, <2>4, <2>6, <2>7 DEF Emits, Puts, Keeps, SentClose
<1>3. CASE c.ostate \notin {"open", "drain"} BY <1>1, <1>3 DEF chan_write_failed, Emits, Quiet, Keeps
<1> QED BY <1>2, <1>3

\* channels.c
LEMMA QuietSelf == ASSUME NEW c \in Chan PROVE Quiet(c, c) /\ Emits(c, c) BY DEF Quiet, Keeps, Emits

LEMMA OutputInputEmits ==
  ASSUME NEW c, Sane(c), c.type = "open", c.istate \in {"open", "drain"}
  PROVE Emits(c, channel_output_poll_input_open(c))
<1>1. c \in Chan /\ ~SentClose(c) /\ ~SentEof(c) BY DEF Sane, SentClose, SentEof
<1>2. PICK len \in Int : len = Least(c.input, Least(c.remote_window, Packet))
  BY <1>1, ChannelAssumption DEF Chan, Least
<1>3. CASE c.input = 0 /\ c.istate = "drain" /\ ~CHANNEL_EFD_INPUT_ACTIVE(c)
  BY <1>3, IbufEmits DEF channel_output_poll_input_open
<1>4. CASE c.input = 0 /\ ~(c.istate = "drain" /\ ~CHANNEL_EFD_INPUT_ACTIVE(c))
  BY <1>1, <1>4, QuietSelf DEF channel_output_poll_input_open
<1>5. CASE c.input # 0 /\ len = 0 BY <1>1, <1>2, <1>5, QuietSelf DEF channel_output_poll_input_open
<1>6. CASE c.input # 0 /\ len # 0
  <2>0. "DATA" \in Sendable /\ "DATA" \in Data BY DEF Sendable, Running, Data
  <2>9. /\ Put(c, "DATA", len) \in Chan /\ Pkt("DATA", len) \in Packets
        /\ Pkt("DATA", len).t = "DATA" /\ Put(c, "DATA", len).sent = Append(c.sent, Pkt("DATA", len))
    BY <1>1, <2>0, PutChan
  <2>1. PICK e \in Chan, m \in Packets : e = Put(c, "DATA", len) /\ m = Pkt("DATA", len) BY <2>9
  <2>2. e.sent = Append(c.sent, m) /\ m.t \in Data BY <2>0, <2>1, <2>9
  <2>8. PICK x \in Int, y \in Int : x = e.input - len /\ y = e.remote_window - len BY DEF Chan
  <2>3. PICK d : d = [e EXCEPT !.input = x, !.remote_window = y] OBVIOUS
  <2>4. d = channel_output_poll_input_open(c)
    BY <1>2, <1>6, <2>1, <2>3, <2>8 DEF channel_output_poll_input_open, Chan
  <2>5. d \in Chan BY <2>3 DEF Chan
  <2>6. /\ e.type = c.type /\ e.detach = c.detach /\ e.pid = c.pid /\ e.err = c.err
        /\ e.istate = c.istate /\ e.ostate = c.ostate /\ e.flags = c.flags BY <1>1, <2>1 DEF Put, Chan
  <2>7. /\ d.type = e.type /\ d.detach = e.detach /\ d.pid = e.pid /\ d.err = e.err
        /\ d.istate = e.istate /\ d.ostate = e.ostate /\ d.flags = e.flags /\ d.sent = e.sent
    BY <2>3 DEF Chan
  <2> QED BY <1>1, <2>2, <2>4, <2>5, <2>6, <2>7 DEF Emits, Puts, Keeps
<1> QED BY <1>3, <1>4, <1>5, <1>6

LEMMA OutputExtendedEmits ==
  ASSUME NEW c, Sane(c), c.type = "open", "eof_sent" \notin c.flags, "close_sent" \notin c.flags
  PROVE Emits(c, channel_output_poll_extended_read(c))
<1>1. c \in Chan /\ ~SentClose(c) /\ ~SentEof(c) BY DEF Sane, SentClose, SentEof
<1>2. PICK len \in Int : len = Least(c.extended, Least(c.remote_window, Packet))
  BY <1>1, ChannelAssumption DEF Chan, Least
<1>5. CASE len = 0 BY <1>1, <1>2, <1>5, QuietSelf DEF channel_output_poll_extended_read
<1>6. CASE len # 0
  <2>0. "EXT" \in Sendable /\ "EXT" \in Data BY DEF Sendable, Running, Data
  <2>9. /\ Put(c, "EXT", len) \in Chan /\ Pkt("EXT", len) \in Packets
        /\ Pkt("EXT", len).t = "EXT" /\ Put(c, "EXT", len).sent = Append(c.sent, Pkt("EXT", len))
    BY <1>1, <2>0, PutChan
  <2>1. PICK e \in Chan, m \in Packets : e = Put(c, "EXT", len) /\ m = Pkt("EXT", len) BY <2>9
  <2>2. e.sent = Append(c.sent, m) /\ m.t \in Data BY <2>0, <2>1, <2>9
  <2>8. PICK x \in Int, y \in Int : x = e.extended - len /\ y = e.remote_window - len BY DEF Chan
  <2>3. PICK d : d = [e EXCEPT !.extended = x, !.remote_window = y] OBVIOUS
  <2>4. d = channel_output_poll_extended_read(c)
    BY <1>2, <1>6, <2>1, <2>3, <2>8 DEF channel_output_poll_extended_read, Chan
  <2>5. d \in Chan BY <2>3 DEF Chan
  <2>6. /\ e.type = c.type /\ e.detach = c.detach /\ e.pid = c.pid /\ e.err = c.err
        /\ e.istate = c.istate /\ e.ostate = c.ostate /\ e.flags = c.flags BY <1>1, <2>1 DEF Put, Chan
  <2>7. /\ d.type = e.type /\ d.detach = e.detach /\ d.pid = e.pid /\ d.err = e.err
        /\ d.istate = e.istate /\ d.ostate = e.ostate /\ d.flags = e.flags /\ d.sent = e.sent
    BY <2>3 DEF Chan
  <2> QED BY <1>1, <2>2, <2>4, <2>5, <2>6, <2>7 DEF Emits, Puts, Keeps
<1> QED BY <1>5, <1>6

LEMMA OutputPollStep ==
  ASSUME NEW p, NEW c, NEW s \in Seq(Packets), NEW in, NEW r, NEW o, Mid(p, c, s, in, r, o)
  PROVE Mid(p, channel_output_poll(c), s, in, r, o)
<1>1. Sane(c) BY DEF Mid
<1>2. CASE c.type # "open" \/ c.flags \cap {"close_sent", "close_rcvd"} # {}
  BY <1>2 DEF channel_output_poll
<1>3. CASE ~(c.type # "open" \/ c.flags \cap {"close_sent", "close_rcvd"} # {})
  <2>1. PICK d : d = IF c.istate \in {"open", "drain"} THEN channel_output_poll_input_open(c) ELSE c
    OBVIOUS
  <2>2. Emits(c, d) BY <1>1, <1>3, <2>1, OutputInputEmits, QuietSelf DEF Sane
  <2>3. Mid(p, d, s, in, r, o) BY <2>2, EmitStep
  <2>4. Sane(d) /\ d.type = "open" /\ "close_sent" \notin d.flags
    BY <1>1, <1>3, <2>2, SaneKept, RcvdKept DEF SentClose
  <2>5. CASE "eof_sent" \notin d.flags /\ d.usage = "read"
    <3>1. Emits(d, channel_output_poll_extended_read(d)) BY <2>4, <2>5, OutputExtendedEmits
    <3>2. Mid(p, channel_output_poll_extended_read(d), s, in, r, o) BY <2>3, <3>1, EmitStep
    <3> QED BY <1>3, <2>1, <2>5, <3>2 DEF channel_output_poll
  <2>6. CASE ~("eof_sent" \notin d.flags /\ d.usage = "read")
    BY <1>3, <2>1, <2>3, <2>6 DEF channel_output_poll
  <2> QED BY <2>5, <2>6
<1> QED BY <1>2, <1>3

LEMMA PreOpenQuiet == ASSUME NEW c \in Chan PROVE Quiet(c, channel_pre_open(c))
<1>1. PICK e : e = IF c.ostate = "drain" /\ c.output = 0 /\ ~CHANNEL_EFD_OUTPUT_ACTIVE(c)
                   THEN chan_obuf_empty(c) ELSE c OBVIOUS
<1>2. Quiet(c, e) BY <1>1, ObufQuiet, QuietSelf
<1>3. \E w \in SUBSET {"rfd", "wfd", "efd_w", "efd_r"} : channel_pre_open(c) = [e EXCEPT !.want = w]
  <2> DEFINE efd == "efd" \in e.fds /\ ~(e.istate = "closed" /\ e.ostate = "closed")
             w == (IF c.istate = "open" /\ c.input < c.remote_window THEN {"rfd"} ELSE {})
                  \cup (IF c.ostate \in {"open", "drain"} /\ c.output > 0 THEN {"wfd"} ELSE {})
                  \cup (IF efd /\ c.usage = "write" /\ c.extended > 0 THEN {"efd_w"} ELSE {})
                  \cup (IF efd /\ c.usage \in {"read", "ignore"} /\ "eof_sent" \notin c.flags
                             /\ c.extended < c.remote_window THEN {"efd_r"} ELSE {})
  <2>1. channel_pre_open(c) = [e EXCEPT !.want = w] BY <1>1 DEF channel_pre_open
  <2>2. w \in SUBSET {"rfd", "wfd", "efd_w", "efd_r"} OBVIOUS
  <2> HIDE DEF w
  <2> QED BY <2>1, <2>2
<1>4. PICK w \in SUBSET {"rfd", "wfd", "efd_w", "efd_r"} : channel_pre_open(c) = [e EXCEPT !.want = w]
  BY <1>3
<1>5. PICK d : d = [e EXCEPT !.want = w] OBVIOUS
<1>6. e \in Chan BY <1>2 DEF Quiet, Keeps
<1>7. d \in Chan BY <1>5, <1>6 DEF Chan
<1>8. Quiet(c, d) BY <1>2, <1>5, <1>6, <1>7, ZenonT(60) DEF Quiet, Keeps, Chan
<1> QED BY <1>4, <1>5, <1>8

LEMMA HandleRfdQuiet ==
  ASSUME NEW c \in Chan, NEW n \in Int
  PROVE Quiet(c, channel_handle_rfd(c, n))
<1>1. PICK x \in Int : x = c.input + n BY DEF Chan
<1>2. PICK d : d = [c EXCEPT !.input = x] OBVIOUS
<1>3. d \in Chan BY <1>2 DEF Chan
<1>4. Quiet(c, d) BY <1>2, <1>3 DEF Quiet, Keeps, Chan
<1>5. d = [c EXCEPT !.input = @ + n] BY <1>1, <1>2 DEF Chan
<1>6. channel_handle_rfd(c, n) \in {c, chan_read_failed(c), d} BY <1>5 DEF channel_handle_rfd
<1> QED BY <1>4, <1>6, QuietSelf, ReadFailedQuiet

LEMMA HandleWfdEmits ==
  ASSUME NEW c, Sane(c), c.type # "free", NEW n \in Int
  PROVE Emits(c, channel_handle_wfd(c, n))
<1>0. c \in Chan BY DEF Sane
<1>1. PICK x \in Int, y \in Int : x = c.output - n /\ y = c.local_consumed + n BY <1>0 DEF Chan
<1>2. PICK d : d = [c EXCEPT !.output = x, !.local_consumed = y] OBVIOUS
<1>3. d \in Chan BY <1>0, <1>2 DEF Chan
<1>4. Quiet(c, d) BY <1>0, <1>2, <1>3, ZenonT(60) DEF Quiet, Keeps, Chan
<1>5. d = [c EXCEPT !.output = @ - n, !.local_consumed = @ + n] BY <1>0, <1>1, <1>2 DEF Chan
<1>6. channel_handle_wfd(c, n) \in {c, chan_write_failed(c), d} BY <1>5 DEF channel_handle_wfd
<1> QED BY <1>0, <1>4, <1>6, QuietSelf, WriteFailedEmits DEF Emits

LEMMA HandleEfdQuiet ==
  ASSUME NEW c \in Chan, NEW n \in Int
  PROVE Quiet(c, channel_handle_efd(c, n))
<1>1. PICK x \in Int, y \in Int, z \in Int : x = c.extended - n /\ y = c.local_consumed + n /\ z = c.extended + n
  BY DEF Chan
<1>2. PICK f \in SUBSET {"rfd", "wfd", "efd"} : f = c.fds \ {"efd"} BY DEF Chan
<1>3. PICK d1 : d1 = [c EXCEPT !.extended = x, !.local_consumed = y] OBVIOUS
<1>4. PICK d2 : d2 = [c EXCEPT !.extended = z] OBVIOUS
<1>5. PICK d3 : d3 = [c EXCEPT !.fds = f] OBVIOUS
<1>6. d1 \in Chan /\ d2 \in Chan BY <1>3, <1>4, ZenonT(60) DEF Chan
<1>7. d3 \in Chan BY <1>5 DEF Chan
<1>8. Quiet(c, d1) /\ Quiet(c, d2) BY <1>3, <1>4, <1>6, ZenonT(60) DEF Quiet, Keeps, Chan
<1>9. Quiet(c, d3) BY <1>5, <1>7 DEF Quiet, Keeps, Chan
<1>10. /\ d1 = [c EXCEPT !.extended = @ - n, !.local_consumed = @ + n]
       /\ d2 = [c EXCEPT !.extended = @ + n] /\ d3 = [c EXCEPT !.fds = @ \ {"efd"}]
  BY <1>1, <1>2, <1>3, <1>4, <1>5 DEF Chan
<1>11. channel_handle_efd(c, n) \in {c, d1, d2, d3}
  BY <1>10 DEF channel_handle_efd, channel_handle_efd_write, channel_handle_efd_read
<1> QED BY <1>8, <1>9, <1>11, QuietSelf

LEMMA CheckWindowEmits ==
  ASSUME NEW c, Sane(c)
  PROVE Emits(c, channel_check_window(c))
<1>1. c \in Chan BY DEF Sane
<1>2. CASE channel_check_window(c) = c BY <1>1, <1>2, QuietSelf
<1>3. CASE channel_check_window(c) # c
  <2>1. /\ c.type = "open" /\ "close_sent" \notin c.flags
        /\ channel_check_window(c) = [Put(c, "ADJUST", c.local_consumed) EXCEPT
                                        !.local_window = @ + c.local_consumed, !.local_consumed = 0]
    BY <1>3 DEF channel_check_window
  <2>2. "ADJUST" \in Sendable /\ "ADJUST" \in Plain BY DEF Sendable, Running, Plain
  <2>3. PICK len \in Int : len = c.local_consumed BY <1>1 DEF Chan
  <2>4. /\ Put(c, "ADJUST", len) \in Chan /\ Pkt("ADJUST", len) \in Packets
        /\ Pkt("ADJUST", len).t = "ADJUST" /\ Put(c, "ADJUST", len).sent = Append(c.sent, Pkt("ADJUST", len))
    BY <1>1, <2>2, PutChan
  <2>5. PICK e \in Chan, m \in Packets : e = Put(c, "ADJUST", len) /\ m = Pkt("ADJUST", len) BY <2>4
  <2>6. e.sent = Append(c.sent, m) /\ m.t \in Plain BY <2>2, <2>4, <2>5
  <2>7. PICK x \in Int, y \in Int : x = e.local_window + len /\ y = 0 BY DEF Chan
  <2>8. PICK d : d = [e EXCEPT !.local_window = x, !.local_consumed = y] OBVIOUS
  <2>9. d = channel_check_window(c) BY <2>1, <2>3, <2>5, <2>7, <2>8 DEF Chan
  <2>10. d \in Chan BY <2>8 DEF Chan
  <2>11. /\ e.type = c.type /\ e.detach = c.detach /\ e.pid = c.pid /\ e.err = c.err
         /\ e.istate = c.istate /\ e.ostate = c.ostate /\ e.flags = c.flags BY <1>1, <2>5 DEF Put, Chan
  <2>12. /\ d.type = e.type /\ d.detach = e.detach /\ d.pid = e.pid /\ d.err = e.err
         /\ d.istate = e.istate /\ d.ostate = e.ostate /\ d.flags = e.flags /\ d.sent = e.sent
    BY <2>8 DEF Chan
  <2>13. Puts(c, d, m) BY <2>1, <2>6, <2>10, <2>11, <2>12 DEF Puts, Keeps, SentClose
  <2> QED BY <2>6, <2>9, <2>11, <2>12, <2>13 DEF Emits
<1> QED BY <1>2, <1>3

\* channel_garbage_collect() does one of three things: nothing, send CLOSE, or free the channel
\* after the last of the two CLOSEs.
Closes(c, d, m) ==
  /\ m.t = "CLOSE" /\ "close_sent" \notin c.flags /\ ~c.pid /\ c.type # "free"
  /\ c.istate = "closed" /\ c.ostate = "closed" /\ d.sent = Append(c.sent, m)
Shuts(c, d) ==
  /\ d \in Chan /\ d.flags = c.flags \cup {"close_sent"} /\ d.type = c.type
  /\ d.detach = c.detach /\ d.pid = c.pid /\ d.err = c.err
  /\ d.istate = c.istate /\ d.ostate = c.ostate /\ c.detach # "wait" /\ c.type # "larval"
Frees(c, d) ==
  /\ d \in Chan /\ d.type = "free" /\ d.flags = {} /\ d.detach = "none" /\ ~d.pid /\ d.err = c.err
  /\ "close_rcvd" \in c.flags /\ c.type # "free"
Collects(c, d) ==
  \/ d = c
  \/ \E m \in Packets : Closes(c, d, m) /\ Shuts(c, d)
  \/ Frees(c, d) /\ "close_sent" \in c.flags /\ d.sent = c.sent
  \/ \E m \in Packets : Closes(c, d, m) /\ Frees(c, d)

LEMMA SendCloseChan ==
  ASSUME NEW c \in Chan, c.ostate = "closed", c.istate = "closed", "close_sent" \notin c.flags
  PROVE  \E m \in Packets :
           /\ m.t = "CLOSE" /\ chan_send_close2(c) \in Chan
           /\ chan_send_close2(c) = [c EXCEPT !.sent = Append(c.sent, m), !.flags = c.flags \cup {"close_sent"}]
<1>1. "CLOSE" \in Sendable BY DEF Sendable, Running
<1>2. Pkt("CLOSE", 0) \in Packets /\ Pkt("CLOSE", 0).t = "CLOSE" BY <1>1, PutChan
<1>3. PICK m \in Packets : m = Pkt("CLOSE", 0) BY <1>2
<1>4. PICK u \in Seq(Packets) : u = Append(c.sent, m) BY AppendChan
<1>9. c.flags \in SUBSET Flags BY DEF Chan
<1>5. PICK f \in SUBSET Flags : f = c.flags \cup {"close_sent"} BY <1>9 DEF Flags
<1>6. PICK d : d = [c EXCEPT !.sent = u, !.flags = f] OBVIOUS
<1>7. d \in Chan BY <1>6 DEF Chan
<1>8. d = chan_send_close2(c) BY <1>3, <1>4, <1>5, <1>6 DEF chan_send_close2, Put, Chan
<1> QED BY <1>2, <1>3, <1>4, <1>5, <1>6, <1>7, <1>8, ZenonT(60)

LEMMA FreeChan ==
  ASSUME NEW c \in Chan
  PROVE  /\ channel_free(c) \in Chan /\ channel_free(c).type = "free" /\ channel_free(c).flags = {}
         /\ channel_free(c).detach = "none" /\ ~channel_free(c).pid
         /\ channel_free(c).err = c.err /\ channel_free(c).sent = c.sent
         /\ channel_free(c).want = {}
<1>1. c.tty \in BOOLEAN /\ c.sent \in Seq(Packets) /\ c.err \in BOOLEAN BY DEF Chan
<1>2. PICK k : k = channel_new("free", 0, "ignore", {}, FALSE) OBVIOUS
<1>3. k \in Chan /\ k.type = "free" /\ k.flags = {} /\ ~k.pid /\ k.want = {}
  BY <1>2 DEF channel_new, Chan, Types, Directions
<1>4. PICK b \in BOOLEAN, u \in Seq(Packets), e \in BOOLEAN : b = c.tty /\ u = c.sent /\ e = c.err
  BY <1>1
<1>5. PICK d : d = [k EXCEPT !.detach = "none", !.tty = b, !.sent = u, !.err = e] OBVIOUS
<1>6. d \in Chan BY <1>3, <1>5, ZenonT(60) DEF Chan
<1>7. /\ d.type = k.type /\ d.flags = k.flags /\ d.detach = "none" /\ d.pid = k.pid
      /\ d.err = e /\ d.sent = u /\ d.want = k.want BY <1>3, <1>5 DEF Chan
<1>8. d = channel_free(c) BY <1>2, <1>4, <1>5 DEF channel_free
<1> QED BY <1>3, <1>4, <1>6, <1>7, <1>8

LEMMA GcCollects ==
  ASSUME NEW c, Sane(c), c.type \in {"larval", "open", "abandoned"}
  PROVE Collects(c, channel_garbage_collect(c))
<1>1. c \in Chan BY DEF Sane
<1> DEFINE both == c.istate = "closed" /\ c.ostate = "closed"
<1>2. CASE c.detach = "wait"
  <2>1. CASE ~(both /\ "close_rcvd" \in c.flags) \/ c.pid
    BY <1>1, <1>2, <2>1 DEF Collects, channel_garbage_collect, chan_maybe_close, chan_is_dead, detach_user
  <2>2. CASE both /\ "close_rcvd" \in c.flags /\ ~c.pid
    <3>1. PICK k : k = [c EXCEPT !.detach = "none", !.pid = FALSE] OBVIOUS
    <3>2. k \in Chan BY <1>1, <3>1 DEF Chan
    <3>3. /\ k.type = c.type /\ k.istate = "closed" /\ k.ostate = "closed" /\ k.flags = c.flags
          /\ k.sent = c.sent /\ k.err = c.err /\ k.detach = "none" BY <1>1, <2>2, <3>1 DEF Chan
    <3>4. CASE "close_sent" \in c.flags
      <4>1. channel_garbage_collect(c) = channel_free(k) BY <1>2, <2>2, <3>1, <3>3, <3>4
           DEF channel_garbage_collect, chan_maybe_close, chan_is_dead, detach_user, chan_send_close2
      <4> QED BY <2>2, <3>2, <3>3, <3>4, <4>1, FreeChan DEF Collects, Frees
    <3>5. CASE "close_sent" \notin c.flags
      <4>1. PICK m \in Packets :
              /\ m.t = "CLOSE" /\ chan_send_close2(k) \in Chan
              /\ chan_send_close2(k) = [k EXCEPT !.sent = Append(k.sent, m), !.flags = k.flags \cup {"close_sent"}]
        BY <3>2, <3>3, <3>5, SendCloseChan, Zenon
      <4>2. PICK l \in Chan : l = chan_send_close2(k) BY <4>1
      <4>3. /\ l.type = c.type /\ l.istate = "closed" /\ l.ostate = "closed"
            /\ l.flags = c.flags \cup {"close_sent"} /\ l.sent = Append(c.sent, m) /\ l.err = c.err
        BY <3>2, <3>3, <4>1, <4>2, ZenonT(60) DEF Chan
      <4>4. channel_garbage_collect(c) = channel_free(l) BY <1>2, <2>2, <3>1, <3>3, <4>2, <4>3
           DEF channel_garbage_collect, chan_maybe_close, chan_is_dead, detach_user
      <4>5. Closes(c, channel_free(l), m) /\ Frees(c, channel_free(l))
        BY <2>2, <3>5, <4>1, <4>3, FreeChan DEF Closes, Frees
      <4> QED BY <4>4, <4>5 DEF Collects
    <3> QED BY <3>4, <3>5
  <2> QED BY <2>1, <2>2, Zenon
<1>3. CASE c.detach = "close" \/ c.detach = "none"
  <2>1. ~c.pid /\ c.type # "larval" BY <1>3 DEF Sane
  <2>2. PICK k : k = chan_send_close2(c) OBVIOUS
  <2>3. CASE k = c
    <3>1. CASE both /\ "close_sent" \in c.flags /\ "close_rcvd" \in c.flags
      <4>1. PICK l : l = [c EXCEPT !.detach = "none", !.pid = FALSE] OBVIOUS
      <4>7. l \in Chan BY <1>1, <4>1 DEF Chan
      <4>2. /\ l \in Chan /\ l.type = c.type /\ l.istate = "closed" /\ l.ostate = "closed"
            /\ l.flags = c.flags /\ l.sent = c.sent /\ l.err = c.err /\ l.detach = "none"
        BY <1>1, <3>1, <4>1, <4>7, ZenonT(60) DEF Chan
      <4>3. chan_send_close2(l) = l BY <3>1, <4>2 DEF chan_send_close2
      <4>4. channel_garbage_collect(c) \in {channel_free(c), channel_free(l)}
        <5>1. CASE c.detach = "close"
          <6>1. chan_maybe_close(c, TRUE) = c /\ chan_is_dead(c, TRUE) /\ detach_user(c, FALSE) = l
            BY <2>1, <2>2, <2>3, <3>1, <4>1 DEF chan_maybe_close, chan_is_dead, detach_user
          <6>2. chan_maybe_close(l, TRUE) = l /\ chan_is_dead(l, TRUE)
            BY <3>1, <4>2, <4>3 DEF chan_maybe_close, chan_is_dead
          <6> QED BY <5>1, <6>1, <6>2, <4>2 DEF channel_garbage_collect
        <5>2. CASE c.detach = "none"
          <6>1. chan_maybe_close(c, TRUE) = c /\ chan_is_dead(c, TRUE) /\ chan_maybe_close(c, FALSE) = c
            BY <2>2, <2>3, <3>1 DEF chan_maybe_close, chan_is_dead
          <6> QED BY <5>2, <6>1 DEF channel_garbage_collect
        <5> QED BY <1>3, <5>1, <5>2
      <4>5. Frees(c, channel_free(c)) /\ channel_free(c).sent = c.sent BY <1>1, <3>1, FreeChan DEF Frees
      <4>6. Frees(c, channel_free(l)) /\ channel_free(l).sent = c.sent
        BY <3>1, <4>2, FreeChan, Zenon DEF Frees
      <4> QED BY <3>1, <4>4, <4>5, <4>6 DEF Collects
    <3>2. CASE ~(both /\ "close_sent" \in c.flags /\ "close_rcvd" \in c.flags)
      BY <1>3, <2>2, <2>3, <3>2, ZenonT(60)
         DEF Collects, channel_garbage_collect, chan_maybe_close, chan_is_dead
    <3> QED BY <3>1, <3>2
  <2>4. CASE k # c
    <3>1. both /\ "close_sent" \notin c.flags BY <2>2, <2>4 DEF chan_send_close2
    <3>2. PICK m \in Packets :
            /\ m.t = "CLOSE" /\ k \in Chan
            /\ k = [c EXCEPT !.sent = Append(c.sent, m), !.flags = c.flags \cup {"close_sent"}]
      BY <1>1, <2>2, <3>1, SendCloseChan, Zenon
    <3>3. /\ k.type = c.type /\ k.istate = "closed" /\ k.ostate = "closed" /\ k.pid = c.pid
          /\ k.flags = c.flags \cup {"close_sent"} /\ k.sent = Append(c.sent, m) /\ k.err = c.err
          /\ k.detach = c.detach BY <1>1, <3>1, <3>2 DEF Chan
    <3>4. Closes(c, k, m) /\ Shuts(c, k) BY <1>3, <2>1, <3>1, <3>2, <3>3 DEF Closes, Shuts
    <3>5. chan_send_close2(k) = k BY <3>3 DEF chan_send_close2
    <3>6. CASE "close_rcvd" \notin c.flags
      <4>1. channel_garbage_collect(c) = k BY <1>3, <2>2, <3>3, <3>5, <3>6
           DEF channel_garbage_collect, chan_maybe_close, chan_is_dead
      <4> QED BY <3>4, <4>1 DEF Collects
    <3>7. CASE "close_rcvd" \in c.flags
      <4>1. PICK l : l = [k EXCEPT !.detach = "none", !.pid = FALSE] OBVIOUS
      <4>2. /\ l \in Chan /\ l.type = c.type /\ l.istate = "closed" /\ l.ostate = "closed"
            /\ l.flags = k.flags /\ l.sent = k.sent /\ l.err = c.err /\ l.detach = "none"
        BY <3>2, <3>3, <4>1, ZenonT(60) DEF Chan
      <4>3. chan_send_close2(l) = l BY <3>3, <4>2 DEF chan_send_close2
      <4>4. channel_garbage_collect(c) \in {channel_free(k), channel_free(l)}
        BY <1>3, <2>1, <2>2, <3>3, <3>5, <3>7, <4>1, <4>2, <4>3, ZenonT(60)
           DEF channel_garbage_collect, chan_maybe_close, chan_is_dead, detach_user
      <4>5. Frees(c, channel_free(k)) /\ Closes(c, channel_free(k), m)
        BY <3>1, <3>2, <3>3, <3>7, <2>1, FreeChan DEF Frees, Closes
      <4>6. Frees(c, channel_free(l)) /\ Closes(c, channel_free(l), m)
        BY <3>1, <3>2, <3>3, <3>7, <2>1, <4>2, FreeChan DEF Frees, Closes
      <4> QED BY <4>4, <4>5, <4>6 DEF Collects
    <3> QED BY <3>6, <3>7
  <2> QED BY <2>3, <2>4
<1> QED BY <1>1, <1>2, <1>3 DEF Chan

\* A CLOSE is put exactly when none was sent; the channel is freed once both were exchanged.
LEMMA BetweenCloses ==
  ASSUME NEW s \in Seq(Packets), NEW c, NEW d, NEW r, Sane(c), NEW m \in Packets,
         Closes(c, d, m), SentClose(d), SentEof(c) => SentEof(d), Between(s \o c.sent, c, r)
  PROVE  /\ Between(s \o d.sent, d, r)
         /\ Holds(s \o c.sent, {"EXIT"}) => Holds(s \o d.sent, {"EXIT"})
<1>1. c.sent \in Seq(Packets) /\ s \o c.sent \in Seq(Packets) BY DEF Sane, Chan
<1>2. PICK u \in Seq(Packets) : u = s \o c.sent BY <1>1
<1>3. s \o d.sent = Append(u, m) /\ ~SentClose(c) /\ m.t = "CLOSE"
  <2>1. d.sent = Append(c.sent, m) /\ ~SentClose(c) /\ m.t = "CLOSE" BY Zenon DEF Closes, SentClose
  <2>2. s \o Append(c.sent, m) = Append(s \o c.sent, m) BY <1>1, ConcatAppend, Zenon
  <2> QED BY <1>2, <2>1, <2>2, Zenon
<1>4. Between(Append(u, m), d, r) BY <1>2, <1>3, PutClose
<1>5. Holds(u, {"EXIT"}) => Holds(Append(u, m), {"EXIT"}) BY HoldsAppend
<1> QED BY <1>2, <1>3, <1>4, <1>5

LEMMA ShutsStep ==
  ASSUME NEW p \in Peers, NEW c, NEW d, NEW s \in Seq(Packets), NEW in, NEW r, NEW o, NEW m \in Packets,
         Mid(p, c, s, in, r, o), Closes(c, d, m), Shuts(c, d)
  PROVE Mid(p, d, s, in, r, o)
<1>1. Sane(c) /\ Sane(r) BY DEF Mid
<1>2. Sane(d) /\ SentClose(d) /\ (SentEof(c) => SentEof(d)) /\ AsRcvd(c, d)
  <2>1. c.type \in {"open", "abandoned"} BY DEF Mid, Ends, Peers, Closes, Shuts
  <2>2. /\ "eof_sent" \in d.flags <=> "eof_sent" \in c.flags
        /\ "eof_rcvd" \in d.flags <=> "eof_rcvd" \in c.flags
        /\ "close_rcvd" \in d.flags <=> "close_rcvd" \in c.flags
        /\ "close_sent" \in d.flags BY DEF Shuts
  <2>3. Sane(d) BY <1>1, <2>1, <2>2 DEF Sane, Closes, Shuts
  <2> QED BY <2>2, <2>3 DEF SentClose, SentEof, AsRcvd, RcvdEof, RcvdClose, Shuts
<1>3. /\ Between(s \o d.sent, d, r)
      /\ Holds(s \o c.sent, {"EXIT"}) => Holds(s \o d.sent, {"EXIT"})
  BY <1>1, <1>2, BetweenCloses DEF Mid
<1>4. Between(in, r, d)
  <2>1. AsSent(r, r) BY DEF AsSent
  <2> QED BY <1>2, <2>1, BetweenKept DEF Mid
<1>5. p = "client" => Ends(d, r) /\ (o => Orderly(d, r, in)) BY DEF Mid, Ends, Orderly, Shuts, Closes
<1>6. p = "server" => Ends(r, d) /\ (o => Orderly(r, d, s \o d.sent))
  <2>1. ASSUME p = "server", o PROVE ExitKnown(s \o d.sent)
    BY <2>1, <1>3, <1>1 DEF Mid, Orderly, Shuts, Closes, ExitKnown, Sane, Chan
  <2> QED BY <2>1, <1>1 DEF Mid, Ends, Orderly, Shuts, Closes, Sane, Chan
<1> QED BY <1>1, <1>2, <1>3, <1>4, <1>5, <1>6 DEF Mid

LEMMA FreesStep ==
  ASSUME NEW p \in Peers, NEW c, NEW d, NEW s \in Seq(Packets), NEW in, NEW r, NEW o,
         Mid(p, c, s, in, r, o), Frees(c, d),
         Between(s \o d.sent, d, r), Holds(s \o c.sent, {"EXIT"}) => Holds(s \o d.sent, {"EXIT"})
  PROVE Mid(p, d, s, in, r, o)
<1>1. Sane(c) /\ Sane(r) BY DEF Mid
<1>2. Sane(d) /\ SentClose(d) /\ RcvdClose(d) /\ RcvdClose(c) /\ ~RcvdEof(d)
  BY <1>1 DEF Frees, Sane, SentClose, RcvdClose, RcvdEof
<1>3. Between(in, r, d) /\ SentClose(r) BY <1>2 DEF Mid, Between
<1>4. p = "client" => Ends(d, r) /\ (o => Orderly(d, r, in)) BY <1>2 DEF Mid, Ends, Orderly, Frees
<1>5. p = "server" => Ends(r, d) /\ (o => Orderly(r, d, s \o d.sent))
  <2>1. ASSUME p = "server", o PROVE ExitKnown(s \o d.sent)
    <3>1. Orderly(r, c, s \o c.sent) BY <2>1 DEF Mid
    <3>2. SentClose(c) BY <1>3, <3>1 DEF Mid, Orderly, Between
    <3> QED BY <3>1, <3>2 DEF Orderly, ExitKnown
  <2> QED BY <2>1, <1>2 DEF Mid, Ends, Orderly, Frees
<1> QED BY <1>1, <1>2, <1>3, <1>4, <1>5 DEF Mid

LEMMA GcStep ==
  ASSUME NEW p \in Peers, NEW c, NEW s \in Seq(Packets), NEW in, NEW r, NEW o, Mid(p, c, s, in, r, o)
  PROVE Mid(p, channel_garbage_collect(c), s, in, r, o)
<1>1. Sane(c) BY DEF Mid
<1>2. PICK d : d = channel_garbage_collect(c) OBVIOUS
<1>3. CASE c.type = "free" BY <1>3 DEF channel_garbage_collect
<1>4. CASE c.type # "free"
  <2>1. Collects(c, d) BY <1>1, <1>2, <1>4, GcCollects DEF Mid, Ends, Peers
  <2>2. ASSUME NEW m \in Packets, Closes(c, d, m), Shuts(c, d) PROVE Mid(p, d, s, in, r, o)
    BY <2>2, ShutsStep
  <2>3. ASSUME Frees(c, d), "close_sent" \in c.flags, d.sent = c.sent PROVE Mid(p, d, s, in, r, o)
    <3>1. SentClose(c) /\ SentClose(d) /\ SentEof(d) BY <2>3 DEF Frees, SentClose, SentEof
    <3>2. Between(s \o d.sent, d, r) BY <2>3, <3>1 DEF Mid, Between
    <3>3. Holds(s \o c.sent, {"EXIT"}) => Holds(s \o d.sent, {"EXIT"}) BY <2>3
    <3> QED BY <2>3, <3>2, <3>3, FreesStep
  <2>4. ASSUME NEW m \in Packets, Closes(c, d, m), Frees(c, d) PROVE Mid(p, d, s, in, r, o)
    <3>1. SentClose(d) /\ SentEof(d) BY <2>4 DEF Frees, SentClose, SentEof
    <3>2. /\ Between(s \o d.sent, d, r)
          /\ Holds(s \o c.sent, {"EXIT"}) => Holds(s \o d.sent, {"EXIT"})
      BY <1>1, <2>4, <3>1, BetweenCloses DEF Mid
    <3> QED BY <2>4, <3>2, FreesStep
  <2>6. ASSUME d = c PROVE Mid(p, d, s, in, r, o) BY <2>6
  <2>5. Mid(p, d, s, in, r, o) BY <2>1, <2>2, <2>3, <2>4, <2>6 DEF Collects
  <2> QED BY <1>2, <2>5
<1> QED BY <1>3, <1>4

LEMMA ExitMessageStep ==
  ASSUME NEW c, NEW s \in Seq(Packets), NEW in, NEW r, NEW o, Mid("server", c, s, in, r, o), c.pid,
         NEW status \in {"exited", "killed"}, status = "killed" => Told
  PROVE Mid("server", session_exit_message(c, status), s, in, r, o)
<1>1. Sane(c) /\ Sane(r) /\ c \in Chan /\ c.type = "open" /\ "close_sent" \notin c.flags BY DEF Mid, Sane
<1>k. PICK k \in {"EXIT", "SIGNAL"} : k = ExitRequest(status) /\ (k = "SIGNAL" => status = "killed")
  BY DEF ExitRequest
<1>2. k \in Sendable /\ k \in Plain BY DEF Sendable, Running, Plain
<1>0. PICK n \in Int : n = 0 OBVIOUS
<1>3. /\ Put(c, k, n) \in Chan /\ Pkt(k, n) \in Packets
      /\ Pkt(k, n).t = k /\ Put(c, k, n).sent = Append(c.sent, Pkt(k, n)) BY <1>1, <1>2, PutChan
<1>4. PICK e \in Chan, m \in Packets : e = Put(c, k, n) /\ m = Pkt(k, n) BY <1>3
<1>5. e.sent = Append(c.sent, m) /\ m.t = k BY <1>3, <1>4
<1>6. /\ e.type = c.type /\ e.detach = c.detach /\ e.pid = c.pid /\ e.err = c.err
      /\ e.istate = c.istate /\ e.ostate = c.ostate /\ e.flags = c.flags BY <1>1, <1>4 DEF Put, Chan
<1>7. PICK d : d = [e EXCEPT !.detach = "close", !.pid = FALSE] OBVIOUS
<1>8. d \in Chan BY <1>7 DEF Chan
<1>9. /\ d.type = e.type /\ d.detach = "close" /\ ~d.pid /\ d.err = e.err
      /\ d.istate = e.istate /\ d.ostate = e.ostate /\ d.flags = e.flags /\ d.sent = e.sent
  BY <1>7 DEF Chan
<1>10. Sane(d) /\ AsSent(c, d) /\ AsRcvd(c, d) /\ ~SentClose(c)
  BY <1>1, <1>6, <1>8, <1>9 DEF Sane, AsSent, AsRcvd, SentEof, SentClose, RcvdEof, RcvdClose
<1>11. c.sent \in Seq(Packets) /\ s \o c.sent \in Seq(Packets) BY <1>1 DEF Chan
<1>12. PICK u \in Seq(Packets) : u = s \o c.sent BY <1>11
<1>13. s \o d.sent = Append(u, m)
  <2>1. s \o Append(c.sent, m) = Append(s \o c.sent, m) BY <1>11, ConcatAppend, Zenon
  <2>2. d.sent = Append(c.sent, m) BY <1>5, <1>9, Zenon
  <2> QED BY <1>12, <2>1, <2>2, Zenon
<1>14. Between(Append(u, m), d, r) BY <1>2, <1>5, <1>10, <1>12, PutPlain DEF Mid
<1>15. Between(in, r, d)
  <2>1. AsSent(r, r) BY DEF AsSent
  <2> QED BY <1>10, <2>1, BetweenKept DEF Mid
<1>16. Told \/ Holds(Append(u, m), {"EXIT"}) BY <1>k, <1>5, HoldsAppend
<1>17. Ends(r, d) /\ (o => Orderly(r, d, s \o d.sent))
  BY <1>1, <1>6, <1>9, <1>13, <1>16 DEF Mid, Ends, Orderly, ExitKnown
<1>18. Mid("server", d, s, in, r, o) BY <1>1, <1>10, <1>13, <1>14, <1>15, <1>17 DEF Mid
<1>19. session_exit_message(c, status) = IF d.ostate # "closed" THEN chan_write_failed(d) ELSE d
  BY <1>k, <1>0, <1>1, <1>4, <1>7 DEF session_exit_message, channel_lookup
<1>20. Mid("server", chan_write_failed(d), s, in, r, o)
  <2>1. Emits(d, chan_write_failed(d)) BY <1>1, <1>6, <1>9, <1>10, WriteFailedEmits
  <2> QED BY <1>18, <2>1, EmitStep
<1> QED BY <1>18, <1>19, <1>20

LEMMA ForceCloseStep ==
  ASSUME NEW p \in Peers, NEW c, NEW s \in Seq(Packets), NEW in, NEW r, NEW o,
         Mid(p, c, s, in, r, o), c.type = "open"
  PROVE Mid(p, channel_force_close(c), s, in, r, FALSE)
<1>1. Sane(c) /\ c \in Chan /\ Mid(p, c, s, in, r, FALSE) BY DEF Mid, Sane
<1>2. PICK d : d = chan_read_failed(c) OBVIOUS
<1>3. Quiet(c, d) BY <1>1, <1>2, ReadFailedQuiet
<1>4. PICK x \in Int : x = IF d.istate = "drain" THEN 0 ELSE d.input BY <1>3 DEF Quiet, Keeps, Chan
<1>5. PICK k : k = [d EXCEPT !.input = x] OBVIOUS
<1>6. k \in Chan BY <1>3, <1>5 DEF Quiet, Keeps, Chan
<1>7. Quiet(c, k) BY <1>3, <1>5, <1>6 DEF Quiet, Keeps, Chan
<1>8. Mid(p, k, s, in, r, FALSE) /\ Sane(k) /\ k.type = "open"
  BY <1>1, <1>7, EmitStep, SaneKept DEF Emits, Quiet, Keeps
<1>9. PICK e : e = chan_ibuf_empty(k) OBVIOUS
<1>10. Emits(k, e) BY <1>8, <1>9, IbufEmits
<1>11. Mid(p, e, s, in, r, FALSE) /\ Sane(e) /\ e.type = "open"
  BY <1>8, <1>10, EmitStep, SaneKept, RcvdKept
<1>12. PICK f : f = chan_write_failed(e) OBVIOUS
<1>13. Emits(e, f) BY <1>11, <1>12, WriteFailedEmits
<1>14. Mid(p, f, s, in, r, FALSE) /\ Sane(f) /\ f.type = "open"
  BY <1>11, <1>13, EmitStep, SaneKept, RcvdKept
<1>15. f \in Chan /\ f.fds \in SUBSET {"rfd", "wfd", "efd"} BY <1>14 DEF Sane, Chan
<1>16. PICK y \in SUBSET {"rfd", "wfd", "efd"} : y = f.fds \ {"efd"} BY <1>15
<1>17. PICK g : g = [f EXCEPT !.detach = "none", !.pid = FALSE, !.fds = y, !.type = "abandoned"] OBVIOUS
<1>18. g \in Chan BY <1>15, <1>17 DEF Chan, Types
<1>19. /\ g.type = "abandoned" /\ g.detach = "none" /\ ~g.pid /\ g.err = f.err
       /\ g.istate = f.istate /\ g.ostate = f.ostate /\ g.flags = f.flags /\ g.sent = f.sent
  BY <1>15, <1>17 DEF Chan
<1>20. Sane(g) /\ AsSent(f, g) /\ AsRcvd(f, g)
  BY <1>14, <1>18, <1>19 DEF Sane, AsSent, AsRcvd, SentEof, SentClose, RcvdEof, RcvdClose
<1>21. Between(s \o g.sent, g, r) /\ Between(in, r, g)
  <2>1. AsSent(r, r) /\ AsRcvd(r, r) BY DEF AsSent, AsRcvd
  <2> QED BY <1>14, <1>19, <1>20, <2>1, BetweenKept DEF Mid
<1>22. Mid(p, g, s, in, r, FALSE) BY <1>14, <1>19, <1>20, <1>21 DEF Mid, Ends
<1>23. g = channel_force_close(c)
  <2>1. k = [d EXCEPT !.input = IF d.istate = "drain" THEN 0 ELSE @]
    BY <1>3, <1>4, <1>5 DEF Quiet, Keeps, Chan
  <2>2. detach_user(f, TRUE) = [f EXCEPT !.detach = "none", !.pid = FALSE] BY DEF detach_user
  <2>3. g = [detach_user(f, TRUE) EXCEPT !.fds = @ \ {"efd"}, !.type = "abandoned"]
    BY <1>15, <1>16, <1>17, <2>2 DEF Chan
  <2> QED BY <1>2, <1>9, <1>12, <2>1, <2>3 DEF channel_force_close
<1> QED BY <1>22, <1>23

LEMMA PrepareStep ==
  ASSUME NEW p \in Peers, NEW c, NEW s \in Seq(Packets), NEW in, NEW r, NEW o, NEW idle \in BOOLEAN,
         Mid(p, c, s, in, r, o), idle => ~o
  PROVE Mid(p, channel_prepare(c, idle), s, in, r, o)
<1>1. c \in Chan BY DEF Mid, Sane
<1>2. CASE c.type # "open" BY <1>2 DEF channel_prepare
<1>3. CASE c.type = "open" /\ idle
  <2>1. Mid(p, channel_force_close(c), s, in, r, FALSE) BY <1>3, ForceCloseStep
  <2>2. Mid(p, channel_force_close(c), s, in, r, o) BY <1>3, <2>1 DEF Mid
  <2> QED BY <1>3, <2>2 DEF channel_prepare
<1>4. CASE c.type = "open" /\ ~idle
  <2>1. Mid(p, channel_pre_open(c), s, in, r, o) BY <1>1, PreOpenQuiet, EmitStep DEF Emits
  <2> QED BY <1>4, <2>1 DEF channel_prepare
<1> QED BY <1>2, <1>3, <1>4

-----------------------------------------------------------------------------
(* From the records in the middle of a step to the next state.              *)

LEMMA PeersFacts ==
  /\ Peers = {"client", "server"} /\ Other("client") = "server" /\ Other("server") = "client"
  /\ \A p \in Peers : Other(p) \in Peers /\ Other(p) # p /\ Other(Other(p)) = p
                      /\ \A q \in Peers : q = p \/ q = Other(p) BY DEF Peers, Other

LEMMA MidStart ==
  ASSUME Shape, Established, NEW p \in Peers, NEW o \in BOOLEAN, o => "forced" \notin broke
  PROVE Mid(p, ch[p], net[Other(p)], net[p], ch[Other(p)], o)
<1>1. Sane(ch[p]) /\ Sane(ch[Other(p)]) /\ net[Other(p)] \in Seq(Packets) BY PeersFacts DEF Shape
<1>2. net[Other(p)] \o ch[p].sent = net[Other(p)]
  <2>1. PICK s \in Seq(Packets) : s = net[Other(p)] BY <1>1
  <2>2. s \o <<>> = s OBVIOUS
  <2> QED BY <2>1, <2>2 DEF Shape
<1>3. Between(net[Other(p)], ch[p], ch[Other(p)]) /\ Between(net[p], ch[Other(p)], ch[p])
  BY PeersFacts DEF Established, Linked
<1>4. CASE p = "client" BY <1>1, <1>2, <1>3, <1>4, PeersFacts DEF Mid, Established, Linked
<1>5. CASE p = "server" BY <1>1, <1>2, <1>3, <1>5, PeersFacts DEF Mid, Established, Linked
<1> QED BY <1>4, <1>5 DEF Peers

LEMMA Emptied ==
  ASSUME NEW c, Sane(c), NEW d, d = [c EXCEPT !.sent = <<>>, !.want = {}]
  PROVE  /\ Sane(d) /\ d.sent = <<>> /\ d.want = {} /\ AsSent(c, d) /\ AsRcvd(c, d)
         /\ d.type = c.type /\ d.pid = c.pid /\ d.detach = c.detach /\ d.flags = c.flags
         /\ d.istate = c.istate /\ d.ostate = c.ostate /\ d.remote_window = c.remote_window
<1>1. c \in Chan BY DEF Sane
<1>6. <<>> \in Seq(Packets) OBVIOUS
<1>2. PICK u \in Seq(Packets) : u = <<>> BY <1>6
<1>3. d = [c EXCEPT !.sent = u, !.want = {}] BY <1>2
<1>4. d \in Chan BY <1>1, <1>3, ZenonT(60) DEF Chan
<1>5. /\ d.type = c.type /\ d.pid = c.pid /\ d.detach = c.detach /\ d.flags = c.flags
      /\ d.istate = c.istate /\ d.ostate = c.ostate /\ d.err = c.err /\ d.sent = <<>> /\ d.want = {}
      /\ d.remote_window = c.remote_window BY <1>1, <1>2, <1>3 DEF Chan
<1> QED BY <1>4, <1>5 DEF Sane, AsSent, AsRcvd, SentEof, SentClose, RcvdEof, RcvdClose

LEMMA StoreShape ==
  ASSUME Shape, NEW p \in Peers, NEW c, Sane(c), NEW queue \in Seq(Packets), Store(p, c, queue)
  PROVE  /\ Shape' /\ ch'[Other(p)] = ch[Other(p)] /\ ch'[p] = [c EXCEPT !.sent = <<>>, !.want = {}]
         /\ net'[p] = queue /\ net'[Other(p)] = net[Other(p)] \o c.sent
<1>1. PICK d : d = [c EXCEPT !.sent = <<>>, !.want = {}] OBVIOUS
<1>9. Sane(d) /\ d.sent = <<>> /\ d.want = {} BY <1>1, Emptied, Zenon
<1>2. Sane(d) /\ d.sent = <<>> /\ d.want = {} /\ d \in Chan BY <1>9 DEF Sane
<1>3. PICK u \in Seq(Packets) : u = net[Other(p)] \o c.sent
  <2>1. net[Other(p)] \in Seq(Packets) /\ c.sent \in Seq(Packets) BY PeersFacts DEF Shape, Sane, Chan
  <2>2. PICK x \in Seq(Packets), y \in Seq(Packets) : x = net[Other(p)] /\ y = c.sent BY <2>1
  <2>3. x \o y \in Seq(Packets) OBVIOUS
  <2> QED BY <2>2, <2>3
<1>4. ch' = [ch EXCEPT ![p] = d] /\ net' = [net EXCEPT ![p] = queue, ![Other(p)] = u]
  BY <1>1, <1>3, PeersFacts DEF Store, Shape
<1>5. ch' \in [Peers -> Chan] /\ ch'[p] = d /\ ch'[Other(p)] = ch[Other(p)]
  BY <1>2, <1>4, PeersFacts DEF Shape
<1>6. net' \in [Peers -> Seq(Packets)] /\ net'[p] = queue /\ net'[Other(p)] = u
  BY <1>3, <1>4, PeersFacts DEF Shape
<1>7. \A q \in Peers : Sane(ch'[q]) /\ ch'[q].sent = <<>> /\ ch'[q].want = {}
  BY <1>2, <1>5, PeersFacts DEF Shape
<1>8. Shape' BY <1>5, <1>6, <1>7 DEF Shape, Sane
<1> QED BY <1>1, <1>3, <1>5, <1>6, <1>8

LEMMA StoreStep ==
  ASSUME Shape, NEW p \in Peers, NEW c, NEW queue \in Seq(Packets), NEW o \in BOOLEAN,
         Mid(p, c, net[Other(p)], queue, ch[Other(p)], o), Store(p, c, queue)
  PROVE  /\ Shape' /\ Linked'
         /\ o /\ (Told => Told') => Orderly(ch["client"], ch["server"], net["client"])'
<1>1. Sane(c) BY DEF Mid
<1>2. PICK d : d = [c EXCEPT !.sent = <<>>, !.want = {}] OBVIOUS
<1>3. /\ Shape' /\ ch'[Other(p)] = ch[Other(p)] /\ ch'[p] = d
      /\ net'[p] = queue /\ net'[Other(p)] = net[Other(p)] \o c.sent BY <1>1, <1>2, StoreShape, Zenon
<1>4. /\ AsSent(c, d) /\ AsRcvd(c, d)
      /\ d.type = c.type /\ d.pid = c.pid /\ d.detach = c.detach BY <1>1, <1>2, Emptied, Zenon
<1>5. PICK r, u : r = ch[Other(p)] /\ u = net[Other(p)] \o c.sent OBVIOUS
<1>6. AsSent(r, r) /\ AsRcvd(r, r) BY DEF AsSent, AsRcvd
<1>7. Between(u, d, r) /\ Between(queue, r, d) BY <1>4, <1>5, <1>6, BetweenKept DEF Mid
<1>8. \A q \in Peers : Between(net'[Other(q)], ch'[q], ch'[Other(q)])
  BY <1>3, <1>5, <1>7, PeersFacts, ZenonT(60)
<1>9. CASE p = "client"
  <2>1. Ends(d, r) /\ (o => Orderly(d, r, queue))
    BY <1>4, <1>5, <1>9 DEF Mid, Ends, Orderly, AsSent, AsRcvd
  <2>2. ch'["client"] = d /\ ch'["server"] = r /\ net'["client"] = queue BY <1>3, <1>5, <1>9, PeersFacts
  <2> QED BY <1>3, <1>8, <2>1, <2>2 DEF Linked, Ends, Between, Orderly, ExitKnown, Holds, Ordered, SentClose, SentEof, RcvdClose, RcvdEof
<1>10. CASE p = "server"
  <2>1. Ends(r, d) /\ (o => Orderly(r, d, u)) BY <1>4, <1>5, <1>10 DEF Mid, Ends, Orderly, AsSent, AsRcvd
  <2>2. ch'["client"] = r /\ ch'["server"] = d /\ net'["client"] = u BY <1>3, <1>5, <1>10, PeersFacts
  <2> QED BY <1>3, <1>8, <2>1, <2>2 DEF Linked, Ends, Between, Orderly, ExitKnown, Holds, Ordered, SentClose, SentEof, RcvdClose, RcvdEof
<1> QED BY <1>9, <1>10 DEF Peers

-----------------------------------------------------------------------------
(* An iteration of the loop.                                                *)

\* The records that Turn passes through, without the descriptors.
Iterates(p, idle, c1, c2, c2a, c3, c4, c5, c6, c6a, c7, r, w, e) ==
  /\ c1 = channel_output_poll(ch[p])
  /\ c2 = IF (p = "server" /\ child = "exited") /\ c1.pid THEN session_exit_message(c1, WaitStatus) ELSE c1
  /\ idle \in BOOLEAN /\ c2a = channel_prepare(c2, idle)
  /\ c3 = channel_garbage_collect(c2a)
  /\ r \in Reads(IF p = "client" THEN "stdin" ELSE "stdout",
                 IF c3.input < c3.remote_window THEN Least(Packet, c3.remote_window - c3.input) ELSE 1)
  /\ w \in Writes(IF p = "client" THEN "stdout" ELSE "stdin", c3.output)
  /\ e \in IF p = "client" THEN Writes("stderr", c3.extended) ELSE Reads("stderr", RBuf)
  /\ c4 = IF c3.type = "open" THEN channel_handle_rfd(c3, r) ELSE c3
  /\ c5 = IF c3.type = "open" THEN channel_handle_wfd(c4, w) ELSE c4
  /\ c6 = IF c3.type = "open" THEN channel_handle_efd(c5, e) ELSE c5
  /\ c6a = channel_check_window(c6)
  /\ c7 = channel_garbage_collect(c6a)

Follows(p, idle, c3, c4, c7, e) ==
  /\ Store(p, c7, net[p])
  /\ \E b \in BOOLEAN :
       src' = [src EXCEPT ![IF p = "client" THEN "stdin" ELSE "stdout"] = @ - (c4.input - c3.input),
                          !["stderr"] = IF b THEN @ - e ELSE @]
  /\ "forced" \in broke' <=> "forced" \in broke \/ idle
  /\ UNCHANGED <<up, exitSeen>>

\* Turn in parts: from the descriptors that are ready to the end, and what it assigns.
Assigns(p, idle, c3, c4, c7, w, e) ==
  LET rf == IF p = "client" THEN "stdin" ELSE "stdout"
      wf == IF p = "client" THEN "stdout" ELSE "stdin"
      reap == p = "server" /\ child = "exited"
      wrote == "wfd" \in c3.want
      efd == c3.want \cap {"efd_r", "efd_w"} # {}
  IN /\ Store(p, c7, net[p])
     /\ child' = IF reap THEN "reaped" ELSE child
     /\ src' = [src EXCEPT ![rf] = @ - (c4.input - c3.input),
                           !["stderr"] = IF p = "server" /\ efd /\ e > 0 THEN @ - e ELSE @]
     /\ got' = [got EXCEPT ![wf] = IF wrote /\ w > 0 THEN @ + w ELSE @,
                           !["stderr"] = IF p = "client" /\ efd /\ e > 0 THEN @ + e ELSE @]
     /\ broke' = broke \cup (IF idle THEN {"forced"} ELSE {})
                       \cup (IF p = "client" /\ wrote /\ w = 0 THEN {"stdout"} ELSE {})
                       \cup (IF p = "client" /\ efd /\ e = 0 THEN {"stderr"} ELSE {})
     /\ UNCHANGED <<left, closed, up, exitSeen>>

Serves(p, idle, c3, r, w, e) ==
  \E c4 \in {IF c3.type = "open" THEN channel_handle_rfd(c3, r) ELSE c3} :
  \E c5 \in {IF c3.type = "open" THEN channel_handle_wfd(c4, w) ELSE c4} :
  \E c6 \in {IF c3.type = "open" THEN channel_handle_efd(c5, e) ELSE c5} :
  \E c6a \in {channel_check_window(c6)} :
  \E c7 \in {channel_garbage_collect(c6a)} : Assigns(p, idle, c3, c4, c7, w, e)

Polls(p, idle, c3) ==
  \E r \in Reads(IF p = "client" THEN "stdin" ELSE "stdout",
                 IF c3.input < c3.remote_window THEN Least(Packet, c3.remote_window - c3.input) ELSE 1),
     w \in Writes(IF p = "client" THEN "stdout" ELSE "stdin", c3.output),
     e \in IF p = "client" THEN Writes("stderr", c3.extended) ELSE Reads("stderr", RBuf) :
    Serves(p, idle, c3, r, w, e)

LEMMA TurnUnfold ==
  ASSUME NEW p \in Peers, Turn(p)
  PROVE  \E idle, c1, c2, c2a, c3, c4, c5, c6, c6a, c7, r, w, e :
           /\ Iterates(p, idle, c1, c2, c2a, c3, c4, c5, c6, c6a, c7, r, w, e)
           /\ Follows(p, idle, c3, c4, c7, e) /\ Assigns(p, idle, c3, c4, c7, w, e)
<1>1. \E c1 \in {channel_output_poll(ch[p])} :
      \E c2 \in {IF (p = "server" /\ child = "exited") /\ c1.pid THEN session_exit_message(c1, WaitStatus) ELSE c1},
         idle \in (IF p \in Timeouts /\ c1.type = "open" THEN BOOLEAN ELSE {FALSE}) :
      \E c2a \in {channel_prepare(c2, idle)} :
      \E c3 \in {channel_garbage_collect(c2a)} : Polls(p, idle, c3)
  BY Zenon DEF Turn, Polls, Serves, Assigns
<1>2. PICK c1 \in {channel_output_poll(ch[p])} :
      \E c2 \in {IF (p = "server" /\ child = "exited") /\ c1.pid THEN session_exit_message(c1, WaitStatus) ELSE c1},
         idle \in (IF p \in Timeouts /\ c1.type = "open" THEN BOOLEAN ELSE {FALSE}) :
      \E c2a \in {channel_prepare(c2, idle)} :
      \E c3 \in {channel_garbage_collect(c2a)} : Polls(p, idle, c3) BY <1>1
<1>3. PICK c2 \in {IF (p = "server" /\ child = "exited") /\ c1.pid THEN session_exit_message(c1, WaitStatus) ELSE c1},
           idle \in (IF p \in Timeouts /\ c1.type = "open" THEN BOOLEAN ELSE {FALSE}) :
      \E c2a \in {channel_prepare(c2, idle)} :
      \E c3 \in {channel_garbage_collect(c2a)} : Polls(p, idle, c3) BY <1>2
<1>4. PICK c2a \in {channel_prepare(c2, idle)} :
      \E c3 \in {channel_garbage_collect(c2a)} : Polls(p, idle, c3) BY <1>3
<1>5. PICK c3 \in {channel_garbage_collect(c2a)} : Polls(p, idle, c3) BY <1>4
<1>6. PICK r \in Reads(IF p = "client" THEN "stdin" ELSE "stdout",
                 IF c3.input < c3.remote_window THEN Least(Packet, c3.remote_window - c3.input) ELSE 1),
           w \in Writes(IF p = "client" THEN "stdout" ELSE "stdin", c3.output),
           e \in IF p = "client" THEN Writes("stderr", c3.extended) ELSE Reads("stderr", RBuf) :
        Serves(p, idle, c3, r, w, e) BY <1>5 DEF Polls
<1>7. PICK c4 \in {IF c3.type = "open" THEN channel_handle_rfd(c3, r) ELSE c3} :
      \E c5 \in {IF c3.type = "open" THEN channel_handle_wfd(c4, w) ELSE c4} :
      \E c6 \in {IF c3.type = "open" THEN channel_handle_efd(c5, e) ELSE c5} :
      \E c6a \in {channel_check_window(c6)} :
      \E c7 \in {channel_garbage_collect(c6a)} : Assigns(p, idle, c3, c4, c7, w, e) BY <1>6 DEF Serves
<1>8. PICK c5 \in {IF c3.type = "open" THEN channel_handle_wfd(c4, w) ELSE c4} :
      \E c6 \in {IF c3.type = "open" THEN channel_handle_efd(c5, e) ELSE c5} :
      \E c6a \in {channel_check_window(c6)} :
      \E c7 \in {channel_garbage_collect(c6a)} : Assigns(p, idle, c3, c4, c7, w, e) BY <1>7
<1>9. PICK c6 \in {IF c3.type = "open" THEN channel_handle_efd(c5, e) ELSE c5} :
      \E c6a \in {channel_check_window(c6)} :
      \E c7 \in {channel_garbage_collect(c6a)} : Assigns(p, idle, c3, c4, c7, w, e) BY <1>8
<1>10. PICK c6a \in {channel_check_window(c6)} :
       \E c7 \in {channel_garbage_collect(c6a)} : Assigns(p, idle, c3, c4, c7, w, e) BY <1>9
<1>11. PICK c7 \in {channel_garbage_collect(c6a)} : Assigns(p, idle, c3, c4, c7, w, e) BY <1>10
<1>12. idle \in BOOLEAN OBVIOUS
<1>13. Iterates(p, idle, c1, c2, c2a, c3, c4, c5, c6, c6a, c7, r, w, e) BY <1>12, Zenon DEF Iterates
<1>14. "forced" \in broke' <=> "forced" \in broke \/ idle BY <1>11, <1>12 DEF Assigns
<1> DEFINE rf == IF p = "client" THEN "stdin" ELSE "stdout"
           efd == c3.want \cap {"efd_r", "efd_w"} # {}
<1>15. src' = [src EXCEPT ![rf] = @ - (c4.input - c3.input),
                          !["stderr"] = IF p = "server" /\ efd /\ e > 0 THEN @ - e ELSE @]
  BY <1>11 DEF Assigns
<1>16. \E b \in BOOLEAN :
       src' = [src EXCEPT ![IF p = "client" THEN "stdin" ELSE "stdout"] = @ - (c4.input - c3.input),
                          !["stderr"] = IF b THEN @ - e ELSE @]
  <2>1. CASE p = "server" /\ efd /\ e > 0
    <3>1. src' = [src EXCEPT ![rf] = @ - (c4.input - c3.input), !["stderr"] = @ - e] BY <1>15, <2>1
    <3> QED BY <3>1
  <2>2. CASE ~(p = "server" /\ efd /\ e > 0)
    <3>1. src' = [src EXCEPT ![rf] = @ - (c4.input - c3.input), !["stderr"] = @] BY <1>15, <2>2
    <3> QED BY <3>1
  <2> QED BY <2>1, <2>2
<1>17. Store(p, c7, net[p]) /\ UNCHANGED <<up, exitSeen>> BY <1>11 DEF Assigns
<1>18. Follows(p, idle, c3, c4, c7, e) BY <1>14, <1>16, <1>17 DEF Follows
<1> QED BY <1>11, <1>13, <1>18

LEMMA LeastInt == ASSUME NEW a \in Int, NEW b \in Int PROVE Least(a, b) \in Int BY DEF Least

LEMMA ReadsInt ==
  ASSUME src \in [Streams -> Int], NEW f \in Streams, NEW max \in Int, NEW x \in Reads(f, max)
  PROVE x \in Int
<1>1. src[f] \in Int /\ Least(src[f], max) \in Int BY LeastInt
<1> QED BY <1>1 DEF Reads

LEMMA WritesInt ==
  ASSUME NEW f, NEW len \in Int, NEW x \in Writes(f, len)
  PROVE x \in Int BY DEF Writes

LEMMA RBufInt == RBuf \in Int BY ChannelAssumption

LEMMA PolledInt ==
  ASSUME src \in [Streams -> Int], NEW p \in Peers, NEW c \in Chan,
         NEW r \in Reads(IF p = "client" THEN "stdin" ELSE "stdout",
                 IF c.input < c.remote_window THEN Least(Packet, c.remote_window - c.input) ELSE 1),
         NEW w \in Writes(IF p = "client" THEN "stdout" ELSE "stdin", c.output),
         NEW e \in IF p = "client" THEN Writes("stderr", c.extended) ELSE Reads("stderr", RBuf)
  PROVE r \in Int /\ w \in Int /\ e \in Int
<1>1. c.input \in Int /\ c.remote_window \in Int /\ c.output \in Int /\ c.extended \in Int BY DEF Chan
<1>2. Packet \in Int /\ RBuf \in Int BY ChannelAssumption
<1>3. PICK f \in Streams : f = IF p = "client" THEN "stdin" ELSE "stdout" BY DEF Streams
<1>4. PICK k \in Int : k = c.remote_window - c.input BY <1>1
<1>11. Least(Packet, k) \in Int /\ 1 \in Int BY <1>2, LeastInt
<1>12. Least(Packet, c.remote_window - c.input) \in Int BY <1>4, <1>11
<1>5. PICK max \in Int : max = IF c.input < c.remote_window THEN Least(Packet, c.remote_window - c.input) ELSE 1
  BY <1>11, <1>12
<1>6. r \in Int BY <1>3, <1>5, ReadsInt
<1>7. w \in Int BY <1>1, WritesInt
<1>8. "stderr" \in Streams BY DEF Streams
<1>9. CASE p = "client" BY <1>1, <1>6, <1>7, <1>9, WritesInt
<1>10. CASE p # "client" BY <1>2, <1>6, <1>7, <1>8, <1>10, ReadsInt
<1> QED BY <1>9, <1>10

LEMMA ServeStep ==
  ASSUME NEW p, NEW c, NEW s \in Seq(Packets), NEW in, NEW q, NEW o, Mid(p, c, s, in, q, o),
         c.type = "open", NEW r \in Int, NEW w \in Int, NEW e \in Int
  PROVE  /\ Mid(p, channel_handle_efd(channel_handle_wfd(channel_handle_rfd(c, r), w), e), s, in, q, o)
         /\ channel_handle_rfd(c, r) \in Chan
<1>1. PICK d : d = channel_handle_rfd(c, r) OBVIOUS
<1>2. Sane(c) /\ c \in Chan BY DEF Mid, Sane
<1>3. Emits(c, d) BY <1>1, <1>2, HandleRfdQuiet DEF Emits
<1>4. Mid(p, d, s, in, q, o) /\ d.type = "open" /\ Sane(d) BY <1>2, <1>3, EmitStep, RcvdKept, SaneKept
<1>5. PICK f : f = channel_handle_wfd(d, w) OBVIOUS
<1>6. Emits(d, f) BY <1>4, <1>5, HandleWfdEmits
<1>7. Mid(p, f, s, in, q, o) /\ Sane(f) BY <1>4, <1>6, EmitStep, SaneKept
<1>8. f \in Chan /\ d \in Chan BY <1>4, <1>7 DEF Sane
<1>9. Emits(f, channel_handle_efd(f, e)) BY <1>8, HandleEfdQuiet DEF Emits
<1>10. Mid(p, channel_handle_efd(f, e), s, in, q, o) BY <1>7, <1>9, EmitStep
<1> QED BY <1>1, <1>5, <1>8, <1>10

LEMMA SourceInt ==
  ASSUME src \in [Streams -> Int], NEW p \in Peers, NEW idle, NEW c \in Chan, NEW d \in Chan, NEW z,
         NEW e \in Int, Follows(p, idle, c, d, z, e)
  PROVE src' \in [Streams -> Int]
<1>0. d.input \in Int /\ c.input \in Int BY Zenon DEF Chan
<1>1. PICK x \in Int : x = d.input - c.input BY <1>0
<1>2. PICK b \in BOOLEAN :
     src' = [src EXCEPT ![IF p = "client" THEN "stdin" ELSE "stdout"] = @ - (d.input - c.input),
                        !["stderr"] = IF b THEN @ - e ELSE @] BY DEF Follows
<1>3. PICK f \in Streams : f = IF p = "client" THEN "stdin" ELSE "stdout" BY DEF Streams
<1>4. src' = [src EXCEPT ![f] = @ - x, !["stderr"] = IF b THEN @ - e ELSE @] BY <1>1, <1>2, <1>3
<1> QED BY <1>4 DEF Streams

LEMMA TurnEstablished ==
  ASSUME Shape, Established, src \in [Streams -> Int], NEW p \in Peers, Turn(p)
  PROVE Shape' /\ Established' /\ src' \in [Streams -> Int] /\ up' = up
<1>1. PICK idle, c1, c2, c2a, c3, c4, c5, c6, c6a, c7, r, w, e :
           /\ Iterates(p, idle, c1, c2, c2a, c3, c4, c5, c6, c6a, c7, r, w, e)
           /\ Follows(p, idle, c3, c4, c7, e) /\ Assigns(p, idle, c3, c4, c7, w, e) BY TurnUnfold, Zenon
<1> DEFINE exits == p = "server" /\ child = "exited" /\ c1.pid
<1>a. c1 = channel_output_poll(ch[p]) /\ c2a = channel_prepare(c2, idle) /\ c3 = channel_garbage_collect(c2a)
  BY <1>1, Zenon DEF Iterates
<1>b. (exits => c2 = session_exit_message(c1, WaitStatus)) /\ (~exits => c2 = c1)
  BY <1>1, Zenon DEF Iterates
<1>c. /\ c3.type = "open" => /\ c4 = channel_handle_rfd(c3, r)
                            /\ c6 = channel_handle_efd(channel_handle_wfd(channel_handle_rfd(c3, r), w), e)
      /\ c3.type # "open" => c4 = c3 /\ c6 = c3 BY <1>1, Zenon DEF Iterates
<1>d. c6a = channel_check_window(c6) /\ c7 = channel_garbage_collect(c6a) BY <1>1, Zenon DEF Iterates
<1>2. PICK o \in BOOLEAN : o <=> "forced" \notin broke' OBVIOUS
<1>3. (o => "forced" \notin broke) /\ (idle => ~o) /\ idle \in BOOLEAN
  BY <1>1, <1>2, Zenon DEF Follows, Iterates
<1>4. PICK s \in Seq(Packets), in \in Seq(Packets), q \in Chan : s = net[Other(p)] /\ in = net[p] /\ q = ch[Other(p)]
  BY PeersFacts DEF Shape
<1>5. Mid(p, ch[p], s, in, q, o) BY <1>3, <1>4, MidStart
<1>6. Mid(p, c1, s, in, q, o) BY <1>a, <1>5, OutputPollStep, Zenon
<1>7. Mid(p, c2, s, in, q, o)
  <2>1. CASE exits
    <3>1. Mid("server", session_exit_message(c1, WaitStatus), s, in, q, o)
      <4>1. p = "server" /\ c1.pid BY <2>1, Zenon
      <4>2. WaitStatus \in {"exited", "killed"} /\ (WaitStatus = "killed" => Told)
        BY DEF WaitStatus, Told
      <4> QED BY <1>6, <4>1, <4>2, ExitMessageStep, Zenon
    <3> QED BY <1>b, <2>1, <3>1, Zenon
  <2>2. CASE ~exits BY <1>b, <1>6, <2>2, Zenon
  <2> QED BY <2>1, <2>2, Zenon
<1>8. Mid(p, c2a, s, in, q, o) BY <1>a, <1>3, <1>7, PrepareStep, Zenon
<1>9. Mid(p, c3, s, in, q, o) BY <1>a, <1>8, GcStep, Zenon
<1>10. c3 \in Chan BY <1>9, Zenon DEF Mid, Sane
<1>11. r \in Int /\ w \in Int /\ e \in Int
  <2>1. /\ r \in Reads(IF p = "client" THEN "stdin" ELSE "stdout",
                 IF c3.input < c3.remote_window THEN Least(Packet, c3.remote_window - c3.input) ELSE 1)
        /\ w \in Writes(IF p = "client" THEN "stdout" ELSE "stdin", c3.output)
        /\ e \in IF p = "client" THEN Writes("stderr", c3.extended) ELSE Reads("stderr", RBuf)
    BY <1>1, Zenon DEF Iterates
  <2> HIDE <1>1
  <2> QED BY <1>10, <2>1, PolledInt, Zenon
<1>12. Mid(p, c6, s, in, q, o) /\ c4 \in Chan
  <2>1. CASE c3.type = "open"
    <3>1. /\ Mid(p, channel_handle_efd(channel_handle_wfd(channel_handle_rfd(c3, r), w), e), s, in, q, o)
          /\ channel_handle_rfd(c3, r) \in Chan BY <1>9, <1>11, <2>1, ServeStep, Zenon
    <3> QED BY <1>c, <2>1, <3>1, Zenon
  <2>2. CASE c3.type # "open" BY <1>c, <1>9, <1>10, <2>2, Zenon
  <2> QED BY <2>1, <2>2, Zenon
<1>13. Mid(p, c6a, s, in, q, o)
  <2>1. Sane(c6) BY <1>12, Zenon DEF Mid
  <2>2. Emits(c6, channel_check_window(c6)) BY <2>1, CheckWindowEmits, Zenon
  <2>3. Emits(c6, c6a) BY <1>d, <2>2, Zenon
  <2> QED BY <1>12, <2>3, EmitStep, Zenon
<1>14. Mid(p, c7, s, in, q, o) BY <1>d, <1>13, GcStep, Zenon
<1>15. /\ Shape' /\ Linked'
       /\ o /\ (Told => Told') => Orderly(ch["client"], ch["server"], net["client"])'
  BY <1>1, <1>4, <1>14, StoreStep, Zenon DEF Follows
<1>e. Told => Told' BY <1>1 DEF Assigns, Told
<1>16. Established' BY <1>2, <1>15, <1>e DEF Established
<1>17. src' \in [Streams -> Int] BY <1>1, <1>10, <1>11, <1>12, SourceInt, Zenon
<1> QED BY <1>1, <1>15, <1>16, <1>17 DEF Follows

-----------------------------------------------------------------------------
(* An iteration before the channel is established.                          *)

\* Nothing that the loop looks at has changed.
Alike(c, d) ==
  /\ d.type = c.type /\ d.istate = c.istate /\ d.ostate = c.ostate /\ d.flags = c.flags
  /\ d.detach = c.detach /\ d.pid = c.pid /\ d.remote_window = c.remote_window
Opening == Requested \/ Accepted \/ Refused \/ Failed
Idle(c) == (c.type \in {"opening", "larval"} /\ Fresh(c)) \/ c.type = "free"

LEMMA AlikeOpening ==
  ASSUME Opening, \A q \in Peers : Alike(ch[q], ch'[q]) /\ net'[q] = net[q]
  PROVE Opening'
<1>1. Alike(ch["client"], ch'["client"]) /\ Alike(ch["server"], ch'["server"]) BY DEF Peers
<1>2. net'["client"] = net["client"] /\ net'["server"] = net["server"] BY DEF Peers
<1>3. CASE Requested BY <1>1, <1>2, <1>3 DEF Alike, Opening, Requested, Fresh
<1>4. CASE Accepted BY <1>1, <1>2, <1>4 DEF Alike, Opening, Accepted, Fresh
<1>5. CASE Refused BY <1>1, <1>2, <1>5 DEF Alike, Opening, Refused, Fresh
<1>6. CASE Failed BY <1>1, <1>2, <1>6 DEF Alike, Opening, Failed, Fresh
<1> QED BY <1>3, <1>4, <1>5, <1>6 DEF Opening

LEMMA GcIdle ==
  ASSUME NEW c, Sane(c), Idle(c)
  PROVE channel_garbage_collect(c) = c
<1>1. CASE c.type = "free" BY <1>1 DEF channel_garbage_collect
<1>2. CASE c.type # "free"
  <2>1. chan_maybe_close(c, FALSE) = c /\ ~chan_is_dead(c, FALSE) /\ c.detach = "wait"
    BY <1>2 DEF chan_maybe_close, chan_is_dead, Idle, Fresh
  <2> QED BY <1>2, <2>1 DEF channel_garbage_collect
<1> QED BY <1>1, <1>2

LEMMA GcZombie ==
  ASSUME NEW c, Sane(c), c.type = "zombie", Fresh(c)
  PROVE  /\ Sane(channel_garbage_collect(c)) /\ channel_garbage_collect(c).type = "free"
         /\ channel_garbage_collect(c).sent = c.sent
<1>1. c \in Chan /\ c.detach = "wait" /\ ~c.pid /\ ~c.err BY DEF Sane, Fresh
<1>2. PICK d : d = [c EXCEPT !.detach = "none", !.pid = FALSE] OBVIOUS
<1>3. d \in Chan BY <1>1, <1>2 DEF Chan
<1>4. d.type = "zombie" /\ d.detach = "none" /\ d.err = c.err /\ d.sent = c.sent BY <1>1, <1>2 DEF Chan
<1>5. channel_garbage_collect(c) = channel_free(d)
  <2>1. chan_maybe_close(c, FALSE) = c /\ chan_is_dead(c, FALSE) BY DEF chan_maybe_close, chan_is_dead
  <2>2. detach_user(c, FALSE) = d BY <1>1, <1>2 DEF detach_user
  <2>3. chan_maybe_close(d, TRUE) = d /\ chan_is_dead(d, TRUE) BY <1>4 DEF chan_maybe_close, chan_is_dead
  <2> QED BY <1>1, <1>4, <2>1, <2>2, <2>3 DEF channel_garbage_collect
<1>6. PICK f : f = channel_free(d) OBVIOUS
<1>7. /\ f \in Chan /\ f.type = "free" /\ f.flags = {} /\ f.detach = "none" /\ ~f.pid
      /\ f.err = d.err /\ f.sent = d.sent BY <1>3, <1>6, FreeChan
<1>8. Sane(f) BY <1>1, <1>4, <1>7 DEF Sane
<1> QED BY <1>4, <1>5, <1>6, <1>7, <1>8

\* The calls of an iteration do nothing to a channel that is not open.
LEMMA Untouched ==
  ASSUME NEW c, c.type # "open"
  PROVE  /\ channel_output_poll(c) = c /\ channel_check_window(c) = c
         /\ \A idle : channel_prepare(c, idle) = c
  BY DEF channel_output_poll, channel_check_window, channel_prepare

LEMMA StoreQuiet ==
  ASSUME Shape, NEW p \in Peers, NEW c, Sane(c), c.sent = <<>>, Store(p, c, net[p])
  PROVE  /\ Shape' /\ Alike(c, ch'[p]) /\ Alike(ch[Other(p)], ch'[Other(p)])
         /\ \A q \in Peers : net'[q] = net[q]
<1>1. PICK queue \in Seq(Packets), s \in Seq(Packets) : queue = net[p] /\ s = net[Other(p)]
  BY PeersFacts DEF Shape
<1>2. /\ Shape' /\ ch'[Other(p)] = ch[Other(p)] /\ ch'[p] = [c EXCEPT !.sent = <<>>, !.want = {}]
      /\ net'[p] = queue /\ net'[Other(p)] = net[Other(p)] \o c.sent BY <1>1, StoreShape, ZenonT(60)
<1>3. s \o <<>> = s OBVIOUS
<1>4. net'[p] = net[p] /\ net'[Other(p)] = net[Other(p)] BY <1>1, <1>2, <1>3
<1>5. PICK d : d = [c EXCEPT !.sent = <<>>, !.want = {}] OBVIOUS
<1>6. /\ d.type = c.type /\ d.pid = c.pid /\ d.detach = c.detach /\ d.flags = c.flags
      /\ d.istate = c.istate /\ d.ostate = c.ostate /\ d.remote_window = c.remote_window
  BY <1>5, Emptied, ZenonT(60)
<1>7. Alike(c, ch'[p]) /\ Alike(ch[Other(p)], ch'[Other(p)]) BY <1>2, <1>5, <1>6 DEF Alike
<1> QED BY <1>2, <1>4, <1>7, PeersFacts

LEMMA TurnOpening ==
  ASSUME Shape, Opening, src \in [Streams -> Int], NEW p \in Peers, Turn(p)
  PROVE Shape' /\ Opening' /\ src' \in [Streams -> Int] /\ up' = up
<1>1. PICK idle, c1, c2, c2a, c3, c4, c5, c6, c6a, c7, r, w, e :
           /\ Iterates(p, idle, c1, c2, c2a, c3, c4, c5, c6, c6a, c7, r, w, e)
           /\ Follows(p, idle, c3, c4, c7, e) /\ Assigns(p, idle, c3, c4, c7, w, e) BY TurnUnfold, Zenon
<1>a. /\ c1 = channel_output_poll(ch[p]) /\ (~c1.pid => c2 = c1)
      /\ c2a = channel_prepare(c2, idle) /\ c3 = channel_garbage_collect(c2a) BY <1>1, Zenon DEF Iterates
<1>b. /\ c3.type # "open" => c4 = c3 /\ c5 = c3 /\ c6 = c3
      /\ c6a = channel_check_window(c6) /\ c7 = channel_garbage_collect(c6a) BY <1>1, Zenon DEF Iterates
<1>2. PICK c : c = ch[p] OBVIOUS
<1>3. Sane(c) /\ c.sent = <<>> BY <1>2 DEF Shape
<1>4. Idle(c) \/ (c.type = "zombie" /\ Fresh(c) /\ p = "client" /\ Failed)
  BY <1>2 DEF Opening, Requested, Accepted, Refused, Failed, Idle, Peers
<1>5. c.type # "open" /\ ~c.pid BY <1>3, <1>4 DEF Idle, Sane
<1>6. c1 = c /\ c2 = c /\ c2a = c /\ c3 = channel_garbage_collect(c)
  <2>1. c1 = c BY <1>a, <1>2, <1>5, Untouched, Zenon
  <2>2. c2 = c BY <1>a, <1>5, <2>1, Zenon
  <2>3. c2a = c BY <1>a, <1>5, <2>2, Untouched, Zenon
  <2> QED BY <1>a, <2>1, <2>2, <2>3, Zenon
<1>7. /\ Sane(c3) /\ c3.sent = <<>> /\ channel_garbage_collect(c3) = c3 /\ c3.type # "open"
      /\ Idle(c) => c3 = c
      /\ ~Idle(c) => c3.type = "free"
  <2>1. CASE Idle(c) BY <1>3, <1>5, <1>6, <2>1, GcIdle
  <2>2. CASE ~Idle(c)
    <3>1. Sane(c3) /\ c3.type = "free" /\ c3.sent = <<>> BY <1>3, <1>4, <1>6, <2>2, GcZombie
    <3>2. Idle(c3) BY <3>1 DEF Idle
    <3> QED BY <2>2, <3>1, <3>2, GcIdle
  <2> QED BY <2>1, <2>2
<1>8. c4 = c3 /\ c5 = c3 /\ c6 = c3 /\ c6a = c3 /\ c7 = c3
  <2>1. c4 = c3 /\ c5 = c3 /\ c6 = c3 BY <1>b, <1>7, Zenon
  <2>2. c6a = c3 BY <1>b, <1>7, <2>1, Untouched, Zenon
  <2> QED BY <1>b, <1>7, <2>1, <2>2, Zenon
<1>9. c3 \in Chan BY <1>7 DEF Sane
<1>10. e \in Int
  <2>1. /\ r \in Reads(IF p = "client" THEN "stdin" ELSE "stdout",
                 IF c3.input < c3.remote_window THEN Least(Packet, c3.remote_window - c3.input) ELSE 1)
        /\ w \in Writes(IF p = "client" THEN "stdout" ELSE "stdin", c3.output)
        /\ e \in IF p = "client" THEN Writes("stderr", c3.extended) ELSE Reads("stderr", RBuf)
    BY <1>1, Zenon DEF Iterates
  <2> HIDE <1>1
  <2> QED BY <1>9, <2>1, PolledInt, Zenon
<1>11. src' \in [Streams -> Int] BY <1>1, <1>8, <1>9, <1>10, SourceInt, Zenon
<1>12. Store(p, c3, net[p]) /\ up' = up BY <1>1, <1>8 DEF Follows
<1>13. /\ Shape' /\ Alike(c3, ch'[p]) /\ Alike(ch[Other(p)], ch'[Other(p)])
       /\ \A q \in Peers : net'[q] = net[q] BY <1>7, <1>12, StoreQuiet
<1>14. Opening'
  <2>1. CASE Idle(c)
    <3>1. \A q \in Peers : Alike(ch[q], ch'[q]) /\ net'[q] = net[q]
      BY <1>2, <1>7, <1>13, <2>1, PeersFacts
    <3> QED BY <3>1, AlikeOpening
  <2>2. CASE ~Idle(c)
    <3>1. ch'["client"].type = "free" /\ ch'["server"].type = "free"
      BY <1>4, <1>7, <1>13, <2>2, PeersFacts DEF Alike, Failed
    <3>2. net'["client"] = <<>> /\ net'["server"] = <<>> BY <1>4, <1>13, <2>2, PeersFacts DEF Failed
    <3> QED BY <3>1, <3>2 DEF Opening, Failed
  <2> QED BY <2>1, <2>2
<1> QED BY <1>11, <1>12, <1>13, <1>14

-----------------------------------------------------------------------------
(* The packets that arrive on an established channel.                       *)

Takes(c, d, t) ==
  /\ Keeps(c, d) /\ d.sent = c.sent
  /\ d.flags = c.flags \cup (IF t = "EOF" THEN {"eof_rcvd"} ELSE {})
                       \cup (IF t = "CLOSE" THEN {"close_rcvd"} ELSE {})

LEMMA QuietTakes ==
  ASSUME NEW c \in Chan, NEW d, Quiet(c, d), NEW t, t \notin {"EOF", "CLOSE"}
  PROVE Takes(c, d, t) BY DEF Quiet, Takes

LEMMA TakesFacts ==
  ASSUME NEW c, NEW d, Sane(c), NEW t, Takes(c, d, t), c.type # "free"
  PROVE  /\ Sane(d) /\ AsSent(c, d) /\ d.type = c.type
         /\ RcvdEof(d) <=> RcvdEof(c) \/ t = "EOF"
         /\ RcvdClose(d) <=> RcvdClose(c) \/ t = "CLOSE"
         /\ d.detach = c.detach /\ d.pid = c.pid /\ d.sent = c.sent
<1>1. c.flags \subseteq Flags /\ d \in Chan BY DEF Sane, Chan, Takes, Keeps
<1>2. /\ "eof_sent" \in d.flags <=> "eof_sent" \in c.flags
      /\ "close_sent" \in d.flags <=> "close_sent" \in c.flags
      /\ "eof_rcvd" \in d.flags <=> "eof_rcvd" \in c.flags \/ t = "EOF"
      /\ "close_rcvd" \in d.flags <=> "close_rcvd" \in c.flags \/ t = "CLOSE" BY DEF Takes
<1>3. /\ d.type = c.type /\ d.detach = c.detach /\ d.pid = c.pid /\ d.err = c.err /\ d.sent = c.sent
      /\ c.istate = "closed" => d.istate = "closed"
      /\ c.ostate = "closed" => d.ostate = "closed" BY DEF Takes, Keeps
<1>4. Sane(d) BY <1>1, <1>2, <1>3 DEF Sane
<1> QED BY <1>2, <1>3, <1>4 DEF AsSent, SentEof, SentClose, RcvdEof, RcvdClose

LEMMA TakeStep ==
  ASSUME NEW p \in Peers, NEW c, NEW d, NEW s \in Seq(Packets), NEW in \in Seq(Packets), NEW r, NEW o,
         Mid(p, c, s, in, r, o), in # <<>>, Takes(c, d, Head(in).t),
         p = "client" /\ o => Head(in).t # "EXIT"
  PROVE Mid(p, d, s, Tail(in), r, o)
<1>1. PICK t : t = Head(in).t OBVIOUS
<1>2. Sane(c) /\ Between(in, r, c) /\ Sane(r) /\ Between(s \o c.sent, c, r) BY DEF Mid
<1>3. c.type # "free" BY <1>2, TakeFacts DEF RcvdClose
<1>4. /\ Sane(d) /\ AsSent(c, d) /\ d.type = c.type
      /\ RcvdEof(d) <=> RcvdEof(c) \/ t = "EOF"
      /\ RcvdClose(d) <=> RcvdClose(c) \/ t = "CLOSE"
      /\ d.detach = c.detach /\ d.pid = c.pid /\ d.sent = c.sent BY <1>1, <1>2, <1>3, TakesFacts
<1>5. Between(Tail(in), r, d) BY <1>1, <1>2, <1>4, Take
<1>6. Between(s \o d.sent, d, r)
  <2>1. AsRcvd(r, r) BY DEF AsRcvd
  <2> QED BY <1>2, <1>4, <2>1, BetweenKept
<1>7. CASE p = "client"
  <2>1. Ends(d, r) BY <1>4, <1>7 DEF Mid, Ends
  <2>2. ASSUME o PROVE Orderly(d, r, Tail(in))
    <3>1. Orderly(c, r, in) BY <1>7, <2>2 DEF Mid
    <3>2. Holds(in, {"EXIT"}) => Holds(Tail(in), {"EXIT"}) BY <1>7, <2>2, HoldsTail
    <3> QED BY <1>4, <3>1, <3>2 DEF Orderly, ExitKnown, AsSent
  <2> QED BY <1>2, <1>4, <1>5, <1>6, <1>7, <2>1, <2>2 DEF Mid
<1>8. CASE p = "server"
  <2>1. Ends(r, d) BY <1>4, <1>8 DEF Mid, Ends
  <2>2. ASSUME o PROVE Orderly(r, d, s \o d.sent)
    <3>1. Orderly(r, c, s \o c.sent) BY <1>8, <2>2 DEF Mid
    <3> QED BY <1>4, <3>1 DEF Orderly, ExitKnown, AsSent
  <2> QED BY <1>2, <1>4, <1>5, <1>6, <1>8, <2>1, <2>2 DEF Mid
<1> QED BY <1>7, <1>8 DEF Peers

LEMMA DataQuiet == ASSUME NEW c \in Chan, NEW n \in Int PROVE Quiet(c, channel_input_data(c, n))
<1>1. PICK x \in Int, y \in Int, z \in Int :
        x = c.local_window - n /\ y = c.local_consumed + n /\ z = c.output + n BY DEF Chan
<1>2. PICK d1 : d1 = [c EXCEPT !.local_window = x, !.local_consumed = y] OBVIOUS
<1>3. PICK d2 : d2 = [c EXCEPT !.local_window = x, !.output = z] OBVIOUS
<1>4. d1 \in Chan /\ d2 \in Chan BY <1>2, <1>3 DEF Chan
<1>5. Quiet(c, d1) /\ Quiet(c, d2) BY <1>2, <1>3, <1>4, ZenonT(60) DEF Quiet, Keeps, Chan
<1>6. /\ d1 = [c EXCEPT !.local_window = @ - n, !.local_consumed = @ + n]
      /\ d2 = [c EXCEPT !.local_window = @ - n, !.output = @ + n] BY <1>1, <1>2, <1>3 DEF Chan
<1>7. channel_input_data(c, n) \in {c, d1, d2} BY <1>6 DEF channel_input_data
<1> QED BY <1>5, <1>7, QuietSelf

LEMMA ExtendedQuiet ==
  ASSUME NEW c \in Chan, NEW n \in Int, "eof_rcvd" \notin c.flags
  PROVE Quiet(c, channel_input_extended_data(c, n))
<1>1. PICK x \in Int, y \in Int : x = c.extended + n /\ y = c.local_window - n BY DEF Chan
<1>2. PICK d : d = [c EXCEPT !.extended = x, !.local_window = y] OBVIOUS
<1>3. d \in Chan BY <1>2 DEF Chan
<1>4. Quiet(c, d) BY <1>2, <1>3, ZenonT(60) DEF Quiet, Keeps, Chan
<1>5. d = [c EXCEPT !.extended = @ + n, !.local_window = @ - n] BY <1>1, <1>2 DEF Chan
<1>6. channel_input_extended_data(c, n) \in {c, d} BY <1>5 DEF channel_input_extended_data
<1> QED BY <1>4, <1>6, QuietSelf

LEMMA AdjustQuiet ==
  ASSUME NEW c \in Chan, NEW n \in Int
  PROVE Quiet(c, channel_input_window_adjust(c, n))
<1>1. PICK x \in Int : x = c.remote_window + n BY DEF Chan
<1>2. PICK d : d = [c EXCEPT !.remote_window = x] OBVIOUS
<1>3. d \in Chan BY <1>2 DEF Chan
<1>4. Quiet(c, d) BY <1>2, <1>3 DEF Quiet, Keeps, Chan
<1>5. d = channel_input_window_adjust(c, n) BY <1>1, <1>2 DEF Chan, channel_input_window_adjust
<1> QED BY <1>4, <1>5

LEMMA EofTakes == ASSUME NEW c \in Chan PROVE Takes(c, chan_rcvd_ieof(c), "EOF")
<1>1. PICK f \in SUBSET Flags, y \in Directions :
        f = c.flags \cup {"eof_rcvd"} /\ y = IF c.ostate = "open" THEN "drain" ELSE c.ostate
  BY DEF Chan, Flags, Directions
<1>2. PICK d : d = [c EXCEPT !.flags = f, !.ostate = y] OBVIOUS
<1>3. d \in Chan BY <1>2 DEF Chan
<1>4. /\ d.type = c.type /\ d.detach = c.detach /\ d.pid = c.pid /\ d.err = c.err /\ d.sent = c.sent
      /\ d.istate = c.istate /\ d.ostate = y /\ d.flags = f BY <1>2 DEF Chan
<1>5. Takes(c, d, "EOF") BY <1>1, <1>3, <1>4 DEF Takes, Keeps
<1>6. d = [c EXCEPT !.flags = @ \cup {"eof_rcvd"}, !.ostate = IF @ = "open" THEN "drain" ELSE @]
  BY <1>1, <1>2 DEF Chan
<1>7. chan_rcvd_ieof(c) \in {d, chan_obuf_empty(d)} BY <1>6 DEF chan_rcvd_ieof
<1>8. Takes(c, chan_obuf_empty(d), "EOF") BY <1>3, <1>5, ObufQuiet DEF Takes, Quiet, Keeps
<1> QED BY <1>5, <1>7, <1>8

LEMMA CloseTakes ==
  ASSUME NEW c, Sane(c), c.type # "free"
  PROVE \E x : Takes(c, x, "CLOSE") /\ Emits(x, chan_rcvd_oclose(c))
<1>0. c \in Chan BY DEF Sane
<1>1. PICK f \in SUBSET Flags, y \in Directions :
        /\ f = c.flags \cup {"close_rcvd"}
        /\ y = IF c.type = "larval" THEN "closed" ELSE IF c.ostate = "open" THEN "drain" ELSE c.ostate
  BY <1>0 DEF Chan, Flags, Directions
<1>2. PICK d : d = [c EXCEPT !.flags = f, !.ostate = y] OBVIOUS
<1>3. d \in Chan BY <1>0, <1>2 DEF Chan
<1>4. /\ d.type = c.type /\ d.detach = c.detach /\ d.pid = c.pid /\ d.err = c.err /\ d.sent = c.sent
      /\ d.istate = c.istate /\ d.ostate = y /\ d.flags = f BY <1>0, <1>2 DEF Chan
<1>5. Takes(c, d, "CLOSE") BY <1>1, <1>3, <1>4 DEF Takes, Keeps
<1>6. d = [c EXCEPT !.flags = @ \cup {"close_rcvd"},
                    !.ostate = IF c.type = "larval" THEN "closed"
                               ELSE IF @ = "open" THEN "drain" ELSE @] BY <1>0, <1>1, <1>2 DEF Chan
<1>7. Sane(d) BY <1>5, TakesFacts
<1>8. CASE c.type = "larval"
  <2>1. PICK g : g = [d EXCEPT !.istate = "closed"] OBVIOUS
  <2>2. g \in Chan BY <1>3, <2>1 DEF Chan, Directions
  <2>3. Quiet(d, g) BY <1>3, <2>1, <2>2 DEF Quiet, Keeps, Chan
  <2>4. g = chan_rcvd_oclose(c) BY <1>6, <1>8, <2>1 DEF chan_rcvd_oclose
  <2> QED BY <1>5, <2>3, <2>4 DEF Emits
<1>9. CASE c.type # "larval" /\ c.istate = "open"
  <2>1. PICK fds \in SUBSET {"rfd", "wfd", "efd"} :
          fds = (chan_shutdown_extended_read(chan_shutdown_read(d))).fds
    <3>1. PICK k : k = chan_shutdown_read(d) OBVIOUS
    <3>2. k \in Chan BY <1>3, <3>1, Zenon DEF Chan, chan_shutdown_read
    <3>3. chan_shutdown_extended_read(k) \in Chan BY <3>2 DEF Chan, chan_shutdown_extended_read
    <3> QED BY <3>1, <3>3 DEF Chan
  <2>2. PICK g : g = [d EXCEPT !.fds = fds, !.istate = "closed"] OBVIOUS
  <2>3. g \in Chan BY <1>3, <2>2 DEF Chan, Directions
  <2>4. Quiet(d, g) BY <1>3, <2>2, <2>3, ZenonT(60) DEF Quiet, Keeps, Chan
  <2>5. g = [chan_shutdown_extended_read(chan_shutdown_read(d)) EXCEPT !.istate = "closed"]
    BY <1>3, <2>1, <2>2 DEF Chan, chan_shutdown_extended_read, chan_shutdown_read
  <2>6. g = chan_rcvd_oclose(c) BY <1>6, <1>9, <2>5 DEF chan_rcvd_oclose
  <2> QED BY <1>5, <2>4, <2>6 DEF Emits
<1>10. CASE c.type # "larval" /\ c.istate = "drain"
  <2>1. "EOF" \in Sendable /\ 0 \in Int BY DEF Sendable, Running
  <2>2. PICK m \in Packets, u \in Seq(Packets) : m = Pkt("EOF", 0) /\ m.t = "EOF" /\ u = Append(d.sent, m)
    BY <1>3, <2>1, PutChan, AppendChan
  <2>3. PICK h \in SUBSET Flags : h = d.flags \cup {"eof_sent"} BY <1>3 DEF Chan, Flags
  <2>4. PICK k : k = [d EXCEPT !.sent = u, !.flags = h] OBVIOUS
  <2>5. k \in Chan BY <1>3, <2>4 DEF Chan
  <2>6. k = chan_send_eof2(d) BY <1>3, <1>4, <1>10, <2>2, <2>3, <2>4 DEF chan_send_eof2, Put, Chan
  <2>7. PICK fds \in SUBSET {"rfd", "wfd", "efd"} : fds = chan_shutdown_extended_read(k).fds
    <3>3. chan_shutdown_extended_read(k) \in Chan BY <2>5 DEF Chan, chan_shutdown_extended_read
    <3> QED BY <3>3 DEF Chan
  <2>8. PICK g : g = [k EXCEPT !.fds = fds, !.istate = "closed"] OBVIOUS
  <2>9. g \in Chan BY <2>5, <2>8 DEF Chan, Directions
  <2>10. /\ g.type = d.type /\ g.detach = d.detach /\ g.pid = d.pid /\ g.err = d.err
         /\ g.istate = "closed" /\ g.ostate = d.ostate /\ g.flags = h /\ g.sent = u
    <3>1. /\ k.type = d.type /\ k.detach = d.detach /\ k.pid = d.pid /\ k.err = d.err
          /\ k.ostate = d.ostate /\ k.flags = h /\ k.sent = u BY <1>3, <2>4 DEF Chan
    <3> QED BY <2>5, <2>8, <3>1 DEF Chan
  <2>11. g = [chan_shutdown_extended_read(k) EXCEPT !.istate = "closed"]
    BY <2>5, <2>7, <2>8 DEF Chan, chan_shutdown_extended_read
  <2>12. g = chan_rcvd_oclose(c) BY <1>6, <1>10, <2>6, <2>11 DEF chan_rcvd_oclose
  <2>13. ~SentClose(d) /\ ~SentEof(d) BY <1>4, <1>7, <1>10 DEF Sane, SentClose, SentEof
  <2>14. Emits(d, g) BY <2>2, <2>3, <2>9, <2>10, <2>13 DEF Emits, Puts, Keeps
  <2> QED BY <1>5, <2>12, <2>14
<1>11. CASE c.type # "larval" /\ c.istate = "closed"
  <2>1. d = chan_rcvd_oclose(c) BY <1>6, <1>11 DEF chan_rcvd_oclose
  <2> QED BY <1>3, <1>5, <2>1, QuietSelf
<1> QED BY <1>0, <1>8, <1>9, <1>10, <1>11 DEF Chan, Directions

LEMMA ArrivedFacts ==
  ASSUME Shape, Established, NEW p \in Peers, NEW t, Arrived(p, t)
  PROVE  /\ net[p] \in Seq(Packets) /\ net[p] # <<>> /\ Head(net[p]).t = t /\ Head(net[p]).n \in Int
         /\ t \in Running /\ channel_lookup(ch[p]) /\ ch[p].type # "free" /\ Sane(ch[p]) /\ ch[p] \in Chan
         /\ t = "EXT" => "eof_rcvd" \notin ch[p].flags
<1>1. net[p] \in Seq(Packets) /\ net[p] # <<>> /\ Head(net[p]).t = t /\ Sane(ch[p]) BY DEF Arrived, Shape
<1>2. PICK in \in Seq(Packets), c \in Chan, r \in Chan : in = net[p] /\ c = ch[p] /\ r = ch[Other(p)]
  BY <1>1, PeersFacts DEF Shape
<1>3. Between(in, r, c) BY <1>2, PeersFacts DEF Established, Linked
<1>4. /\ Head(in).t \in Running /\ ~RcvdClose(c)
      /\ Head(in).t \in Data \cup {"EOF"} => ~RcvdEof(c) BY <1>1, <1>2, <1>3, TakeFacts
<1>5. Head(in) \in Packets BY <1>1, <1>2, TailParts
<1>6. Head(in).n \in Int BY <1>5 DEF Packets, Sendable
<1>7. c.type # "free" /\ (t = "EXT" => "eof_rcvd" \notin c.flags)
  BY <1>1, <1>2, <1>4 DEF RcvdClose, RcvdEof, Data
<1>8. c.type # "zombie" BY <1>2 DEF Established, Linked, Ends, Peers
<1> QED BY <1>1, <1>2, <1>4, <1>6, <1>7, <1>8 DEF channel_lookup, Sane

LEMMA ReceiveStored ==
  ASSUME Shape, Established, NEW p \in Peers, NEW t, Arrived(p, t), t # "EXIT", NEW x, NEW d,
         Takes(ch[p], x, t), Emits(x, d), Store(p, d, Tail(net[p])), UNCHANGED <<exitSeen, broke>>
  PROVE Shape' /\ Established'
<1>1. net[p] \in Seq(Packets) /\ net[p] # <<>> /\ Head(net[p]).t = t BY ArrivedFacts
<1>2. PICK s \in Seq(Packets), in \in Seq(Packets), r \in Chan : s = net[Other(p)] /\ in = net[p] /\ r = ch[Other(p)]
  BY PeersFacts DEF Shape
<1>3. PICK o \in BOOLEAN : o <=> "forced" \notin broke OBVIOUS
<1>4. PICK c : c = ch[p] OBVIOUS
<1>5. Mid(p, c, s, in, r, o) BY <1>2, <1>3, <1>4, MidStart
<1>6. Mid(p, x, s, Tail(in), r, o) BY <1>1, <1>2, <1>4, <1>5, TakeStep
<1>7. PICK queue \in Seq(Packets) : queue = Tail(in) BY <1>1, <1>2, TailParts
<1>8. Mid(p, d, s, queue, r, o) BY <1>6, <1>7, EmitStep
<1>9. /\ Shape' /\ Linked'
      /\ o /\ (Told => Told') => Orderly(ch["client"], ch["server"], net["client"])'
  BY <1>2, <1>7, <1>8, StoreStep
<1>10. Told' = Told BY DEF Told
<1> QED BY <1>3, <1>9, <1>10 DEF Established

LEMMA ReceiveUnfold ==
  ASSUME NEW p, NEW t, NEW c, Receive(p, t, c), channel_lookup(ch[p])
  PROVE Arrived(p, t) /\ Store(p, c, Tail(net[p])) /\ UNCHANGED <<src, up, exitSeen, broke>>
  BY DEF Receive, channel_from_packet_id

LEMMA ReceiveDataStep ==
  ASSUME Shape, Established, NEW p \in Peers, ReceiveData(p)
  PROVE Shape' /\ Established' /\ src' = src /\ up' = up
<1>1. PICK c, n, d : c = ch[p] /\ n = Head(net[p]).n /\ d = channel_input_data(c, n) OBVIOUS
<1>2. Receive(p, "DATA", d) BY <1>1 DEF ReceiveData
<1>3. Arrived(p, "DATA") BY <1>2 DEF Receive
<1>4. channel_lookup(c) /\ c \in Chan /\ n \in Int BY <1>1, <1>3, ArrivedFacts
<1>5. Store(p, d, Tail(net[p])) /\ UNCHANGED <<src, up, exitSeen, broke>>
  BY <1>1, <1>2, <1>4, ReceiveUnfold
<1>6. Quiet(c, d) BY <1>1, <1>4, DataQuiet
<1>7. Takes(c, d, "DATA") /\ Emits(d, d) BY <1>4, <1>6, QuietTakes, QuietSelf DEF Quiet, Keeps
<1>8. "DATA" # "EXIT" OBVIOUS
<1>9. Shape' /\ Established' BY <1>1, <1>3, <1>5, <1>7, <1>8, ReceiveStored
<1> QED BY <1>5, <1>9

LEMMA ReceiveExtDataStep ==
  ASSUME Shape, Established, NEW p \in Peers, ReceiveExtData(p)
  PROVE Shape' /\ Established' /\ src' = src /\ up' = up
<1>1. PICK c, n, d : c = ch[p] /\ n = Head(net[p]).n /\ d = channel_input_extended_data(c, n) OBVIOUS
<1>2. Receive(p, "EXT", d) BY <1>1 DEF ReceiveExtData
<1>3. Arrived(p, "EXT") BY <1>2 DEF Receive
<1>4. channel_lookup(c) /\ c \in Chan /\ n \in Int /\ "eof_rcvd" \notin c.flags
  BY <1>1, <1>3, ArrivedFacts
<1>5. Store(p, d, Tail(net[p])) /\ UNCHANGED <<src, up, exitSeen, broke>>
  BY <1>1, <1>2, <1>4, ReceiveUnfold
<1>6. Quiet(c, d) BY <1>1, <1>4, ExtendedQuiet
<1>7. Takes(c, d, "EXT") /\ Emits(d, d) BY <1>4, <1>6, QuietTakes, QuietSelf DEF Quiet, Keeps
<1>8. "EXT" # "EXIT" OBVIOUS
<1>9. Shape' /\ Established' BY <1>1, <1>3, <1>5, <1>7, <1>8, ReceiveStored
<1> QED BY <1>5, <1>9

LEMMA ReceiveEofStep ==
  ASSUME Shape, Established, NEW p \in Peers, ReceiveEof(p)
  PROVE Shape' /\ Established' /\ src' = src /\ up' = up
<1>1. PICK c, d : c = ch[p] /\ d = chan_rcvd_ieof(c) OBVIOUS
<1>2. Receive(p, "EOF", d) BY <1>1 DEF ReceiveEof
<1>3. Arrived(p, "EOF") BY <1>2 DEF Receive
<1>4. channel_lookup(c) /\ c \in Chan BY <1>1, <1>3, ArrivedFacts
<1>5. Store(p, d, Tail(net[p])) /\ UNCHANGED <<src, up, exitSeen, broke>>
  BY <1>1, <1>2, <1>4, ReceiveUnfold
<1>6. Takes(c, d, "EOF") BY <1>1, <1>4, EofTakes
<1>7. Emits(d, d) BY <1>6, QuietSelf DEF Takes, Keeps
<1>8. "EOF" # "EXIT" OBVIOUS
<1>9. Shape' /\ Established' BY <1>1, <1>3, <1>5, <1>6, <1>7, <1>8, ReceiveStored
<1> QED BY <1>5, <1>9

LEMMA ReceiveCloseStep ==
  ASSUME Shape, Established, NEW p \in Peers, ReceiveClose(p)
  PROVE Shape' /\ Established' /\ src' = src /\ up' = up
<1>1. PICK c, d : c = ch[p] /\ d = chan_rcvd_oclose(c) OBVIOUS
<1>2. Receive(p, "CLOSE", d) BY <1>1 DEF ReceiveClose
<1>3. Arrived(p, "CLOSE") BY <1>2 DEF Receive
<1>4. channel_lookup(c) /\ Sane(c) /\ c.type # "free" BY <1>1, <1>3, ArrivedFacts
<1>5. Store(p, d, Tail(net[p])) /\ UNCHANGED <<src, up, exitSeen, broke>>
  BY <1>1, <1>2, <1>4, ReceiveUnfold
<1>6. PICK x : Takes(c, x, "CLOSE") /\ Emits(x, d) BY <1>1, <1>4, CloseTakes
<1>8. "CLOSE" # "EXIT" OBVIOUS
<1>9. Shape' /\ Established' BY <1>1, <1>3, <1>5, <1>6, <1>8, ReceiveStored
<1> QED BY <1>5, <1>9

LEMMA ReceiveAdjustStep ==
  ASSUME Shape, Established, NEW p \in Peers, ReceiveAdjust(p)
  PROVE Shape' /\ Established' /\ src' = src /\ up' = up
<1>1. PICK c, n, d : c = ch[p] /\ n = Head(net[p]).n /\ d = channel_input_window_adjust(c, n) OBVIOUS
<1>3. Arrived(p, "ADJUST") BY DEF ReceiveAdjust
<1>4. channel_lookup(c) /\ c \in Chan /\ n \in Int BY <1>1, <1>3, ArrivedFacts
<1>5. Store(p, d, Tail(net[p])) /\ UNCHANGED <<src, up, exitSeen, broke>> BY <1>1, <1>4 DEF ReceiveAdjust
<1>6. Quiet(c, d) BY <1>1, <1>4, AdjustQuiet
<1>7. Takes(c, d, "ADJUST") /\ Emits(d, d) BY <1>4, <1>6, QuietTakes, QuietSelf DEF Quiet, Keeps
<1>8. "ADJUST" # "EXIT" OBVIOUS
<1>9. Shape' /\ Established' BY <1>1, <1>3, <1>5, <1>7, <1>8, ReceiveStored
<1> QED BY <1>5, <1>9

LEMMA ReceiveEowStep ==
  ASSUME Shape, Established, NEW p \in Peers, ReceiveEow(p)
  PROVE Shape' /\ Established' /\ src' = src /\ up' = up
<1>1. PICK c, d : c = ch[p] /\ d = chan_rcvd_eow(c) OBVIOUS
<1>3. Arrived(p, "EOW") BY DEF ReceiveEow
<1>4. channel_lookup(c) /\ c \in Chan BY <1>1, <1>3, ArrivedFacts
<1>5. Store(p, d, Tail(net[p])) /\ UNCHANGED <<src, up, exitSeen, broke>> BY <1>1, <1>4 DEF ReceiveEow
<1>6. Quiet(c, d) BY <1>1, <1>4, EowQuiet
<1>7. Takes(c, d, "EOW") /\ Emits(d, d) BY <1>4, <1>6, QuietTakes, QuietSelf DEF Quiet, Keeps
<1>8. "EOW" # "EXIT" OBVIOUS
<1>9. Shape' /\ Established' BY <1>1, <1>3, <1>5, <1>7, <1>8, ReceiveStored
<1> QED BY <1>5, <1>9

LEMMA ReceiveSuccessStep ==
  ASSUME Shape, Established, ReceiveSuccess
  PROVE Shape' /\ Established' /\ src' = src /\ up' = up
<1>0. PICK p \in Peers : p = "client" BY DEF Peers
<1>1. PICK c : c = ch[p] /\ p = "client" BY <1>0
<1>3. Arrived(p, "SUCCESS") BY <1>1 DEF ReceiveSuccess
<1>4. c \in Chan BY <1>1, <1>3, ArrivedFacts
<1>5. Store(p, c, Tail(net[p])) /\ UNCHANGED <<src, up, exitSeen, broke>>
  BY <1>1, <1>4 DEF ReceiveSuccess
<1>7. Takes(c, c, "SUCCESS") /\ Emits(c, c) BY <1>4, QuietTakes, QuietSelf
<1>8. "SUCCESS" # "EXIT" OBVIOUS
<1>9. Shape' /\ Established' BY <1>1, <1>3, <1>5, <1>7, <1>8, ReceiveStored
<1> QED BY <1>5, <1>9

LEMMA ReceiveExitSignalStep ==
  ASSUME Shape, Established, ReceiveExitSignal
  PROVE Shape' /\ Established' /\ src' = src /\ up' = up
<1>0. PICK p \in Peers : p = "client" BY DEF Peers
<1>1. PICK c : c = ch[p] /\ p = "client" BY <1>0
<1>3. Arrived(p, "SIGNAL") BY <1>1 DEF ReceiveExitSignal
<1>4. c \in Chan BY <1>1, <1>3, ArrivedFacts
<1>5. Store(p, c, Tail(net[p])) /\ UNCHANGED <<src, up, exitSeen, broke>>
  BY <1>1, <1>4 DEF ReceiveExitSignal
<1>7. Takes(c, c, "SIGNAL") /\ Emits(c, c) BY <1>4, QuietTakes, QuietSelf
<1>8. "SIGNAL" # "EXIT" OBVIOUS
<1>9. Shape' /\ Established' BY <1>1, <1>3, <1>5, <1>7, <1>8, ReceiveStored
<1> QED BY <1>5, <1>9

LEMMA ReceiveExitStep ==
  ASSUME Shape, Established, ReceiveExit
  PROVE Shape' /\ Established' /\ src' = src /\ up' = up
<1>0. PICK p \in Peers : p = "client" BY DEF Peers
<1>1. PICK c : c = ch[p] /\ p = "client" BY <1>0
<1>2. Arrived(p, "EXIT") BY <1>1 DEF ReceiveExit
<1>3. /\ net[p] \in Seq(Packets) /\ net[p] # <<>> /\ Head(net[p]).t = "EXIT"
      /\ c \in Chan /\ Sane(c) /\ channel_lookup(c) BY <1>1, <1>2, ArrivedFacts
<1>4. Store(p, c, Tail(net[p])) /\ UNCHANGED <<src, up, broke>> /\ exitSeen'
  BY <1>1, <1>3 DEF ReceiveExit
<1>5. PICK s \in Seq(Packets), in \in Seq(Packets), r \in Chan : s = net[Other(p)] /\ in = net[p] /\ r = ch[Other(p)]
  BY PeersFacts DEF Shape
<1>6. PICK o \in BOOLEAN : ~o OBVIOUS
<1>7. Mid(p, c, s, in, r, o) BY <1>1, <1>5, <1>6, MidStart
<1>8. Takes(c, c, "EXIT") BY <1>3, QuietTakes, QuietSelf
<1>9. Mid(p, c, s, Tail(in), r, o) BY <1>3, <1>5, <1>6, <1>7, <1>8, TakeStep
<1>10. PICK queue \in Seq(Packets) : queue = Tail(in) BY <1>3, <1>5, TailParts
<1>11. Shape' /\ Linked' BY <1>4, <1>5, <1>9, <1>10, StoreStep
<1>12. PICK d : d = [c EXCEPT !.sent = <<>>, !.want = {}] BY Zenon
<1>13. ch'["server"] = ch["server"] /\ ch'["client"] = d
  BY <1>1, <1>3, <1>4, <1>5, <1>10, <1>12, StoreShape, PeersFacts, Zenon
<1>14. /\ AsSent(c, d) /\ AsRcvd(c, d) /\ d.type = c.type /\ d.detach = c.detach
  BY <1>3, <1>12, Emptied, Zenon
<1>15. Established'
  <2> SUFFICES ASSUME "forced" \notin broke PROVE Orderly(ch["client"], ch["server"], net["client"])'
    BY <1>4, <1>11 DEF Established
  <2>1. Orderly(c, ch["server"], net["client"]) BY <1>1 DEF Established
  <2>2. /\ d.type # "abandoned" /\ ch["server"].type # "abandoned"
        /\ d.type # "free" => d.detach = "wait"
        /\ ch["server"].type # "free" => ch["server"].detach # "none"
        /\ SentClose(d) => RcvdClose(d) BY <1>14, <2>1 DEF Orderly, AsSent, AsRcvd
  <2> QED BY <1>4, <1>13, <2>2 DEF Orderly, ExitKnown, Told, SentClose, RcvdClose
<1> QED BY <1>4, <1>11, <1>15

\* Any plain packet may be put before CLOSE.
LEMMA PutEmits ==
  ASSUME NEW c, Sane(c), ~SentClose(c), NEW t \in Plain, NEW n \in Int
  PROVE Emits(c, Put(c, t, n))
<1>1. c \in Chan BY DEF Sane
<1>2. t \in Sendable BY DEF Sendable, Running
<1>3. PICK m \in Packets : m = Pkt(t, n) /\ m.t = t BY <1>1, <1>2, PutChan
<1>4. PICK d : d = Put(c, t, n) OBVIOUS
<1>5. d \in Chan /\ d.sent = Append(c.sent, m) BY <1>1, <1>2, <1>3, <1>4, PutChan
<1>6. PICK u \in Seq(Packets) : u = Append(c.sent, m) BY <1>1, AppendChan
<1>7. d = [c EXCEPT !.sent = u] BY <1>1, <1>3, <1>4, <1>6 DEF Put, Chan
<1>8. /\ d.type = c.type /\ d.detach = c.detach /\ d.pid = c.pid /\ d.err = c.err
      /\ d.istate = c.istate /\ d.ostate = c.ostate /\ d.flags = c.flags BY <1>1, <1>7 DEF Chan
<1>9. Puts(c, d, m) BY <1>5, <1>8 DEF Puts, Keeps
<1> QED BY <1>3, <1>4, <1>8, <1>9 DEF Emits

\* do_exec_pty() and do_exec_no_pty(): the channel with its descriptors.
Started(c, k) ==
  \E f \in SUBSET {"rfd", "wfd", "efd"}, u \in {"read", "ignore"} :
    k = [c EXCEPT !.type = "open", !.local_window = Window, !.pid = TRUE, !.usage = u, !.fds = f]

LEMMA StartedStep ==
  ASSUME NEW c, NEW s \in Seq(Packets), NEW in, NEW r, NEW o, Mid("server", c, s, in, r, o),
         c.type = "larval", NEW k, Started(c, k)
  PROVE  /\ Mid("server", k, s, in, r, o) /\ k.type = "open" /\ k.pid /\ k.flags = c.flags
         /\ ~c.pid /\ ~k.err
<1>1. Sane(c) /\ c \in Chan BY DEF Mid, Sane
<1>2. Window \in Int BY ChannelAssumption
<1>0. PICK f \in SUBSET {"rfd", "wfd", "efd"}, u \in {"read", "ignore"} :
        k = [c EXCEPT !.type = "open", !.local_window = Window, !.pid = TRUE, !.usage = u, !.fds = f]
  BY Zenon DEF Started
<1>3. k \in Chan BY <1>0, <1>1, <1>2 DEF Chan, Types
<1>4. /\ k.type = "open" /\ k.pid /\ k.flags = c.flags /\ k.istate = c.istate /\ k.ostate = c.ostate
      /\ k.detach = c.detach /\ k.err = c.err /\ k.sent = c.sent BY <1>0, <1>1, <1>3 DEF Chan
<1>5. Sane(k) /\ AsSent(c, k) /\ AsRcvd(c, k) /\ ~c.pid
  BY <1>1, <1>3, <1>4 DEF Sane, AsSent, AsRcvd, SentEof, SentClose, RcvdEof, RcvdClose
<1>6. Between(s \o k.sent, k, r) /\ Between(in, r, k)
  <2>1. AsSent(r, r) /\ AsRcvd(r, r) BY DEF AsSent, AsRcvd
  <2> QED BY <1>4, <1>5, <2>1, BetweenKept DEF Mid
<1>7. Ends(r, k) BY <1>4 DEF Mid, Ends
<1>8. o => Orderly(r, k, s \o k.sent) BY <1>4, <1>5 DEF Mid, Orderly, AsSent
<1>9. "server" # "client" OBVIOUS
<1>10. Mid("server", k, s, in, r, o) BY <1>5, <1>6, <1>7, <1>8, <1>9 DEF Mid
<1>11. ~k.err BY <1>1, <1>4 DEF Sane
<1> QED BY <1>4, <1>5, <1>10, <1>11

LEMMA ReceiveExecStep ==
  ASSUME Shape, Established, ReceiveExec
  PROVE Shape' /\ Established' /\ src' = src /\ up' = up
<1>0. PICK p \in Peers : p = "server" BY DEF Peers
<1>1. PICK c : c = ch[p] OBVIOUS
<1>2. Arrived(p, "EXEC") /\ UNCHANGED <<src, up, exitSeen, broke>> BY <1>0 DEF ReceiveExec
<1>3. /\ net[p] \in Seq(Packets) /\ net[p] # <<>> /\ Head(net[p]).t = "EXEC"
      /\ c \in Chan /\ Sane(c) /\ channel_lookup(c) /\ c.type # "free" BY <1>1, <1>2, ArrivedFacts
<1>4. PICK s \in Seq(Packets), in \in Seq(Packets), r \in Chan : s = net[Other(p)] /\ in = net[p] /\ r = ch[Other(p)]
  BY PeersFacts DEF Shape
<1>5. PICK o \in BOOLEAN : o <=> "forced" \notin broke OBVIOUS
<1>6. PICK queue \in Seq(Packets) : queue = Tail(in) BY <1>3, <1>4, TailParts
<1>7. Mid(p, c, s, queue, r, o)
  <2>1. Mid(p, c, s, in, r, o) BY <1>1, <1>4, <1>5, MidStart
  <2>2. Takes(c, c, "EXEC") BY <1>3, QuietTakes, QuietSelf
  <2>3. Head(in).t # "EXIT" BY <1>3, <1>4
  <2> QED BY <1>3, <1>4, <1>6, <2>1, <2>2, <2>3, TakeStep
<1>8. PICK ok \in BOOLEAN :
        LET e == session_input_channel_req(c, ok)
            done == e.pid /\ ~c.pid
        IN Store(p, IF "close_sent" \in e.flags \/ e.err THEN e
                    ELSE Put(e, IF done THEN "SUCCESS" ELSE "FAILURE", 0), queue)
  BY <1>0, <1>1, <1>3, <1>4, <1>6 DEF ReceiveExec, channel_from_packet_id
<1>9. \E d : Mid(p, d, s, queue, r, o) /\ Store(p, d, queue)
  <2>1. CASE c.type = "larval" /\ c.detach # "none" /\ ok
    <3>1. PICK f \in SUBSET {"rfd", "wfd", "efd"} : f = {"rfd", "wfd"} \cup (IF c.tty THEN {} ELSE {"efd"})
      OBVIOUS
    <3>2. PICK u \in {"read", "ignore"} : u = IF c.tty THEN "ignore" ELSE "read" OBVIOUS
    <3>3. PICK k : k = [c EXCEPT !.type = "open", !.local_window = Window, !.pid = TRUE, !.usage = u, !.fds = f]
      OBVIOUS
    <3>15. Started(c, k) BY <3>3, Zenon DEF Started
    <3>4. /\ Mid(p, k, s, queue, r, o) /\ k.type = "open" /\ k.pid /\ k.flags = c.flags
          /\ ~c.pid /\ ~k.err
      <4>1. Mid("server", c, s, queue, r, o) BY <1>0, <1>7
      <4>3. c.type = "larval" BY <2>1
      <4>2. /\ Mid("server", k, s, queue, r, o) /\ k.type = "open" /\ k.pid /\ k.flags = c.flags
            /\ ~c.pid /\ ~k.err BY <3>15, <4>1, <4>3, StartedStep
      <4> QED BY <1>0, <4>2
    <3>5. Sane(k) /\ ~SentClose(k) /\ "close_sent" \notin k.flags BY <3>4 DEF Mid, Sane, SentClose
    <3>6. PICK e : e = Put(k, "ADJUST", Window) OBVIOUS
    <3>7. e = session_input_channel_req(c, ok)
      BY <2>1, <3>1, <3>2, <3>3, <3>6 DEF session_input_channel_req
    <3>8. Window \in Int /\ 0 \in Int /\ "ADJUST" \in Plain /\ "SUCCESS" \in Plain
      BY ChannelAssumption DEF Plain
    <3>9. Emits(k, e) BY <3>5, <3>6, <3>8, PutEmits
    <3>10. Mid(p, e, s, queue, r, o) /\ Sane(e) /\ ~SentClose(e) /\ e.pid
      BY <3>4, <3>5, <3>9, EmitStep, SaneKept, RcvdKept
    <3>11. Emits(e, Put(e, "SUCCESS", 0)) BY <3>8, <3>10, PutEmits
    <3>12. Mid(p, Put(e, "SUCCESS", 0), s, queue, r, o) BY <3>10, <3>11, EmitStep
    <3>13. "close_sent" \notin e.flags /\ ~e.err BY <3>10 DEF Sane, SentClose
    <3>14. Store(p, Put(e, "SUCCESS", 0), queue) BY <1>8, <3>4, <3>7, <3>10, <3>13
    <3> QED BY <3>12, <3>14
  <2>2. CASE ~(c.type = "larval" /\ c.detach # "none" /\ ok)
    <3>1. c = session_input_channel_req(c, ok) BY <2>2 DEF session_input_channel_req
    <3>2. ~(c.pid /\ ~c.pid) /\ ~c.err BY <1>3 DEF Sane
    <3>3. CASE "close_sent" \in c.flags
      <4>1. Store(p, c, queue) BY <1>8, <3>1, <3>3
      <4> QED BY <1>7, <4>1
    <3>4. CASE "close_sent" \notin c.flags
      <4>1. Store(p, Put(c, "FAILURE", 0), queue) BY <1>8, <3>1, <3>2, <3>4
      <4>2. ~SentClose(c) /\ "FAILURE" \in Plain /\ 0 \in Int BY <1>3, <3>4 DEF SentClose, Plain
      <4>3. Emits(c, Put(c, "FAILURE", 0)) BY <1>3, <4>2, PutEmits
      <4>4. Mid(p, Put(c, "FAILURE", 0), s, queue, r, o) BY <1>7, <4>3, EmitStep
      <4> QED BY <4>1, <4>4
    <3> QED BY <3>3, <3>4
  <2> QED BY <2>1, <2>2
<1>10. PICK d : Mid(p, d, s, queue, r, o) /\ Store(p, d, queue) BY <1>9
<1>11. /\ Shape' /\ Linked'
       /\ o /\ (Told => Told') => Orderly(ch["client"], ch["server"], net["client"])'
  BY <1>4, <1>10, StoreStep
<1>13. Told' = Told BY <1>2 DEF Told
<1>12. Established' BY <1>2, <1>5, <1>11, <1>13 DEF Established
<1> QED BY <1>2, <1>11, <1>12

-----------------------------------------------------------------------------
(* The packets that open the channel.                                       *)

LEMMA OpeningArrived ==
  ASSUME Opening, NEW p \in Peers, NEW t, Arrived(p, t)
  PROVE  \/ Requested /\ p = "server" /\ t = "OPEN"
         \/ Accepted /\ p = "client" /\ t = "CONFIRM"
         \/ Refused /\ p = "client" /\ t = "OPENFAIL"
<1>1. net[p] # <<>> /\ Head(net[p]).t = t BY DEF Arrived
<1>2. CASE Requested BY <1>1, <1>2 DEF Requested, Peers
<1>3. CASE Accepted BY <1>1, <1>3 DEF Accepted, Peers
<1>4. CASE Refused BY <1>1, <1>4 DEF Refused, Peers
<1>5. CASE Failed BY <1>1, <1>5 DEF Failed, Peers
<1> QED BY <1>2, <1>3, <1>4, <1>5 DEF Opening

LEMMA SaneAlike ==
  ASSUME NEW c, NEW d, Sane(c), d \in Chan, Alike(c, d), d.err = c.err
  PROVE Sane(d) BY DEF Sane, Alike

LEMMA TailOfOne ==
  ASSUME NEW s \in Seq(Packets), Len(s) = 1
  PROVE Tail(s) = <<>> /\ Tail(s) \in Seq(Packets) /\ Head(s) \in Packets /\ Head(s) = s[1]
<1>1. s # <<>> BY EmptySeq
<1>2. PICK y \in Seq(Packets) : y = Tail(s) /\ Len(y) = Len(s) - 1 BY <1>1, TailParts
<1>3. y = <<>> BY <1>2
<1> QED BY <1>1, <1>2, <1>3, TailParts

LEMMA StoreOne ==
  ASSUME Shape, NEW p \in Peers, NEW c, Sane(c), c.sent = <<>>, net[Other(p)] = <<>>,
         NEW t \in Sendable, NEW n \in Int,
         NEW queue \in Seq(Packets), Store(p, Put(c, t, n), queue)
  PROVE  /\ Shape' /\ Alike(c, ch'[p]) /\ ch'[Other(p)] = ch[Other(p)] /\ net'[p] = queue
         /\ Len(net'[Other(p)]) = 1 /\ Head(net'[Other(p)]).t = t /\ net'[Other(p)] \in Seq(Packets)
<1>1. c \in Chan BY DEF Sane
<1>2. PICK m \in Packets : m = Pkt(t, n) /\ m.t = t BY <1>1, PutChan
<1>3. PICK d : d = Put(c, t, n) OBVIOUS
<1>4. d \in Chan /\ d.sent = Append(c.sent, m) BY <1>1, <1>2, <1>3, PutChan
<1>5. PICK u \in Seq(Packets) : u = Append(c.sent, m) BY <1>1, AppendChan
<1>6. d = [c EXCEPT !.sent = u] BY <1>1, <1>2, <1>3, <1>5 DEF Put, Chan
<1>7. Alike(c, d) /\ d.err = c.err BY <1>1, <1>6 DEF Chan, Alike
<1>8. Sane(d) BY <1>4, <1>7, SaneAlike
<1>9. PICK e : e = [d EXCEPT !.sent = <<>>, !.want = {}] OBVIOUS
<1>10. /\ Shape' /\ ch'[Other(p)] = ch[Other(p)] /\ ch'[p] = e
       /\ net'[p] = queue /\ net'[Other(p)] = net[Other(p)] \o d.sent
  BY <1>3, <1>8, <1>9, StoreShape, Zenon
<1>11. /\ e.type = d.type /\ e.pid = d.pid /\ e.detach = d.detach /\ e.flags = d.flags
       /\ e.istate = d.istate /\ e.ostate = d.ostate /\ e.remote_window = d.remote_window
  BY <1>8, <1>9, Emptied, Zenon
<1>12. Alike(c, ch'[p]) BY <1>7, <1>10, <1>11 DEF Alike
<1>13. Append(<<>>, m) \in Seq(Packets) /\ Len(Append(<<>>, m)) = 1 /\ Head(Append(<<>>, m)) = m OBVIOUS
<1>14. <<>> \o u = u OBVIOUS
<1>15. net'[Other(p)] = Append(<<>>, m) BY <1>4, <1>5, <1>10, <1>14
<1> QED BY <1>2, <1>10, <1>12, <1>13, <1>15

\* server_request_session(): a channel that waits for its command.
LEMMA LarvalSane ==
  ASSUME NEW tty \in BOOLEAN, NEW n \in Int, NEW c,
         c = [channel_new("larval", 0, "ignore", {}, tty) EXCEPT !.remote_window = n]
  PROVE Sane(c) /\ Fresh(c) /\ c.type = "larval" /\ c.sent = <<>>
<1>1. <<>> \in Seq(Packets) OBVIOUS
<1>2. PICK u \in Seq(Packets) : u = <<>> BY <1>1
<1>3. PICK d : d = channel_new("larval", 0, "ignore", {}, tty) OBVIOUS
<1>4. d \in Chan BY <1>2, <1>3 DEF channel_new, Chan, Types, Directions, Flags
<1>5. /\ d.type = "larval" /\ d.istate = "open" /\ d.ostate = "open" /\ d.flags = {}
      /\ d.detach = "wait" /\ d.pid = FALSE /\ d.sent = <<>> /\ d.err = FALSE BY <1>3 DEF channel_new
<1>6. c = [d EXCEPT !.remote_window = n] BY <1>3
<1>7. c \in Chan BY <1>4, <1>6, ZenonT(60) DEF Chan
<1>8. /\ c.type = "larval" /\ c.istate = "open" /\ c.ostate = "open" /\ c.flags = {}
      /\ c.detach = "wait" /\ c.pid = FALSE /\ c.sent = <<>> /\ c.err = FALSE
  BY <1>4, <1>5, <1>6 DEF Chan
<1> QED BY <1>7, <1>8 DEF Sane, Fresh

\* The record as it was, and a refusal.
LEMMA StoreRefusal ==
  ASSUME Shape, NEW p \in Peers, net[Other(p)] = <<>>, NEW queue \in Seq(Packets),
         Store(p, Put(ch[p], "OPENFAIL", 0), queue)
  PROVE  /\ Shape' /\ Alike(ch[p], ch'[p]) /\ ch'[Other(p)] = ch[Other(p)] /\ net'[p] = queue
         /\ Len(net'[Other(p)]) = 1 /\ Head(net'[Other(p)]).t = "OPENFAIL"
<1>1. PICK d : d = ch[p] /\ Sane(d) /\ d.sent = <<>> BY DEF Shape
<1>2. PICK t \in Sendable, z \in Int : t = "OPENFAIL" /\ z = 0 BY DEF Sendable
<1>3. Store(p, Put(d, t, z), queue) BY <1>1, <1>2
<1>4. /\ Shape' /\ Alike(d, ch'[p]) /\ ch'[Other(p)] = ch[Other(p)] /\ net'[p] = queue
      /\ Len(net'[Other(p)]) = 1 /\ Head(net'[Other(p)]).t = t
  <2>1. Sane(d) /\ d.sent = <<>> BY <1>1
  <2> QED BY <1>3, <2>1, StoreOne
<1> QED BY <1>1, <1>2, <1>4

LEMMA ReceiveOpenStep ==
  ASSUME Shape, Requested, ReceiveOpen
  PROVE Shape' /\ Opening' /\ src' = src /\ up' = up
<1>1. PICK p \in Peers : p = "server" BY DEF Peers
<1>2. PICK q \in Seq(Packets) : q = net[p] BY DEF Shape
<1>3. Len(q) = 1 /\ net[Other(p)] = <<>> BY <1>1, <1>2, PeersFacts DEF Requested
<1>4. PICK n \in Int : n = Head(q).n BY <1>3, TailOfOne DEF Packets, Sendable
<1>5. PICK queue \in Seq(Packets) : queue = Tail(q) /\ queue = <<>> BY <1>3, TailOfOne, ZenonT(60)
<1>6. PICK tty \in Ttys, ok \in BOOLEAN :
        Store(p, IF ok THEN Put([channel_new("larval", 0, "ignore", {}, tty) EXCEPT !.remote_window = n], "CONFIRM", 0)
                       ELSE Put(ch[p], "OPENFAIL", 0), queue) BY <1>1, <1>2, <1>4, <1>5 DEF ReceiveOpen
<1>7. tty \in BOOLEAN BY ChannelAssumption
<1>8. PICK c : c = [channel_new("larval", 0, "ignore", {}, tty) EXCEPT !.remote_window = n] OBVIOUS
<1>9. Sane(c) /\ Fresh(c) /\ c.type = "larval" /\ c.sent = <<>> BY <1>7, <1>8, LarvalSane
<1>10. /\ "CONFIRM" \in Sendable /\ 0 \in Int
       /\ "OPENFAIL" \in Sendable BY DEF Sendable
<1>11. ASSUME ok PROVE Shape' /\ Accepted'
  <2>9. PICK t \in Sendable, z \in Int : t = "CONFIRM" /\ z = 0 BY <1>10
  <2>1. Store(p, Put(c, t, z), queue) BY <2>9, <1>6, <1>8, <1>11
  <2>2. /\ Shape' /\ Alike(c, ch'[p]) /\ ch'[Other(p)] = ch[Other(p)] /\ net'[p] = queue
        /\ Len(net'[Other(p)]) = 1 /\ Head(net'[Other(p)]).t = "CONFIRM"
    <3>1. /\ Shape' /\ Alike(c, ch'[p]) /\ ch'[Other(p)] = ch[Other(p)] /\ net'[p] = queue
          /\ Len(net'[Other(p)]) = 1 /\ Head(net'[Other(p)]).t = t BY <1>3, <1>9, <2>1, StoreOne
    <3> QED BY <2>9, <3>1
  <2>3. ch'["client"] = ch["client"] /\ Alike(c, ch'["server"]) /\ net'["server"] = <<>>
        /\ Len(net'["client"]) = 1 /\ Head(net'["client"]).t = "CONFIRM" BY <1>1, <1>5, <2>2, PeersFacts
  <2> QED BY <1>9, <2>2, <2>3 DEF Requested, Accepted, Fresh, Alike
<1>12. ASSUME ~ok PROVE Shape' /\ Refused'
  <2>1. Store(p, Put(ch[p], "OPENFAIL", 0), queue) BY <1>6, <1>12
  <2>3. /\ Shape' /\ Alike(ch[p], ch'[p]) /\ ch'[Other(p)] = ch[Other(p)] /\ net'[p] = queue
        /\ Len(net'[Other(p)]) = 1 /\ Head(net'[Other(p)]).t = "OPENFAIL" BY <1>3, <2>1, StoreRefusal
  <2>4. ch'["client"] = ch["client"] /\ Alike(ch["server"], ch'["server"]) /\ net'["server"] = <<>>
        /\ Len(net'["client"]) = 1 /\ Head(net'["client"]).t = "OPENFAIL" BY <1>1, <1>5, <2>3, PeersFacts
  <2> QED BY <2>3, <2>4 DEF Requested, Refused, Fresh, Alike
<1> QED BY <1>11, <1>12 DEF Opening, ReceiveOpen

LEMMA ReceiveOpenFailureStep ==
  ASSUME Shape, Refused, ReceiveOpenFailure
  PROVE Shape' /\ Opening' /\ src' = src /\ up' = up
<1>1. PICK p \in Peers : p = "client" BY DEF Peers
<1>2. PICK q \in Seq(Packets) : q = net[p] BY DEF Shape
<1>3. Len(q) = 1 /\ net[Other(p)] = <<>> BY <1>1, <1>2, PeersFacts DEF Refused
<1>4. PICK c : c = ch[p] OBVIOUS
<1>5. Sane(c) /\ c \in Chan /\ Fresh(c) /\ c.type = "opening" /\ c.sent = <<>>
  BY <1>1, <1>4 DEF Shape, Sane, Refused
<1>6. PICK queue \in Seq(Packets) : queue = Tail(q) /\ queue = <<>> BY <1>3, TailOfOne
<1>7. channel_lookup(c) BY <1>5 DEF channel_lookup
<1>8. PICK d : d = [c EXCEPT !.type = "zombie"] OBVIOUS
<1>9. d = channel_input_open_failure(c) BY <1>5, <1>8 DEF channel_input_open_failure, chan_mark_dead
<1>10. Receive(p, "OPENFAIL", d) BY <1>1, <1>4, <1>9 DEF ReceiveOpenFailure
<1>11. Store(p, d, queue) /\ UNCHANGED <<src, up, exitSeen, broke>>
  BY <1>2, <1>4, <1>6, <1>7, <1>10, ReceiveUnfold
<1>12. d \in Chan BY <1>5, <1>8 DEF Chan, Types
<1>13. /\ d.type = "zombie" /\ d.istate = c.istate /\ d.ostate = c.ostate /\ d.flags = c.flags
       /\ d.detach = c.detach /\ d.pid = c.pid /\ d.err = c.err /\ d.sent = <<>> BY <1>5, <1>8 DEF Chan
<1>14. Sane(d) /\ Fresh(d) BY <1>5, <1>12, <1>13 DEF Sane, Fresh
<1>15. PICK e : e = [d EXCEPT !.sent = <<>>, !.want = {}] OBVIOUS
<1>16. /\ Shape' /\ ch'[Other(p)] = ch[Other(p)] /\ ch'[p] = e
       /\ net'[p] = queue /\ net'[Other(p)] = net[Other(p)] \o d.sent
  BY <1>11, <1>14, <1>15, StoreShape, Zenon
<1>17. /\ e.type = d.type /\ e.pid = d.pid /\ e.detach = d.detach /\ e.flags = d.flags
       /\ e.istate = d.istate /\ e.ostate = d.ostate BY <1>14, <1>15, Emptied, Zenon
<1>18. <<>> \o <<>> = <<>> OBVIOUS
<1>19. net'[Other(p)] = <<>> /\ net'[p] = <<>> BY <1>3, <1>6, <1>13, <1>16, <1>18
<1>20. ch'["client"] = e /\ ch'["server"] = ch["server"] /\ net'["client"] = <<>> /\ net'["server"] = <<>>
  BY <1>1, <1>16, <1>19, PeersFacts
<1>21. Failed' BY <1>13, <1>14, <1>17, <1>20 DEF Failed, Refused, Fresh
<1> QED BY <1>11, <1>16, <1>21 DEF Opening

LEMMA ReceiveConfirmStep ==
  ASSUME Shape, Accepted, ReceiveConfirm
  PROVE Shape' /\ Established' /\ src' = src /\ up' = up
<1>1. PICK p \in Peers : p = "client" BY DEF Peers
<1>2. PICK q \in Seq(Packets) : q = net[p] BY DEF Shape
<1>3. Len(q) = 1 /\ net[Other(p)] = <<>> BY <1>1, <1>2, PeersFacts DEF Accepted
<1>4. PICK c : c = ch[p] OBVIOUS
<1>5. Sane(c) /\ c \in Chan /\ Fresh(c) /\ c.type = "opening" /\ c.sent = <<>>
  BY <1>1, <1>4 DEF Shape, Sane, Accepted
<1>6. PICK queue \in Seq(Packets) : queue = Tail(q) /\ queue = <<>> BY <1>3, TailOfOne
<1>7. channel_lookup(c) BY <1>5 DEF channel_lookup
<1>8. PICK n \in Int : n = Head(q).n BY <1>3, TailOfOne DEF Packets, Sendable
<1>9. PICK d : d = [c EXCEPT !.remote_window = n, !.type = "open"] OBVIOUS
<1>10. Put(d, "EXEC", 0) = channel_input_open_confirmation(c, n)
  BY <1>5, <1>9 DEF channel_input_open_confirmation
<1>11. Receive(p, "CONFIRM", Put(d, "EXEC", 0)) BY <1>1, <1>2, <1>4, <1>8, <1>10 DEF ReceiveConfirm
<1>12. Store(p, Put(d, "EXEC", 0), queue) /\ UNCHANGED <<src, up, exitSeen, broke>>
  BY <1>2, <1>4, <1>6, <1>7, <1>11, ReceiveUnfold
<1>13. d \in Chan BY <1>5, <1>9 DEF Chan, Types
<1>14. /\ d.type = "open" /\ d.istate = c.istate /\ d.ostate = c.ostate /\ d.flags = c.flags
       /\ d.detach = c.detach /\ d.pid = c.pid /\ d.err = c.err /\ d.sent = <<>> BY <1>5, <1>9 DEF Chan
<1>15. Sane(d) /\ Fresh(d) BY <1>5, <1>13, <1>14 DEF Sane, Fresh
<1>16. "EXEC" \in Sendable /\ 0 \in Int /\ "EXEC" \in Running BY DEF Sendable, Running, Plain
<1>17. /\ Shape' /\ Alike(d, ch'[p]) /\ ch'[Other(p)] = ch[Other(p)] /\ net'[p] = queue
       /\ Len(net'[Other(p)]) = 1 /\ Head(net'[Other(p)]).t = "EXEC" /\ net'[Other(p)] \in Seq(Packets)
  BY <1>3, <1>12, <1>14, <1>15, <1>16, StoreOne
<1>18. PICK s \in Seq(Packets) : s = net'[Other(p)] BY <1>17
<1>19. PICK x, y : x = ch'[p] /\ y = ch'[Other(p)] OBVIOUS
<1>20. /\ x.type = "open" /\ x.flags = {} /\ x.detach = "wait" /\ ~x.pid
       /\ y.type = "larval" /\ y.flags = {} /\ y.detach = "wait" /\ ~y.pid
  BY <1>1, <1>14, <1>15, <1>17, <1>19, PeersFacts DEF Alike, Fresh, Accepted
<1>21. /\ ~SentClose(x) /\ ~SentEof(x) /\ ~RcvdClose(x) /\ ~RcvdEof(x)
       /\ ~SentClose(y) /\ ~SentEof(y) /\ ~RcvdClose(y) /\ ~RcvdEof(y)
  BY <1>20 DEF SentClose, SentEof, RcvdClose, RcvdEof
<1>22. Between(s, x, y)
  <2>1. s[1].t = "EXEC" /\ Len(s) = 1 BY <1>17, <1>18, TailOfOne
  <2>2. \A i \in 1..Len(s) : s[i].t = "EXEC" BY <2>1
  <2>3. Ordered(s) BY <2>1 DEF Ordered
  <2>4. ~Holds(s, {"CLOSE"}) /\ ~Holds(s, {"EOF"}) BY <2>2 DEF Holds
  <2> QED BY <1>16, <1>21, <2>2, <2>3, <2>4 DEF Between
<1>23. Between(queue, y, x)
  <2>0. Len(<<>>) = 0 OBVIOUS
  <2>1. Len(queue) = 0 BY <1>6, <2>0
  <2>2. Ordered(queue) /\ ~Holds(queue, {"CLOSE"}) /\ ~Holds(queue, {"EOF"}) BY <2>1 DEF Ordered, Holds
  <2> QED BY <1>21, <2>1, <2>2 DEF Between
<1>24. Ends(x, y) BY <1>20 DEF Ends
<1>25. /\ x.type # "abandoned" /\ y.type # "abandoned" /\ x.detach = "wait" /\ y.detach = "wait"
       /\ ~SentClose(x) /\ ~SentClose(y) BY <1>20, <1>21
<1>26. ch'["client"] = x /\ ch'["server"] = y /\ net'["client"] = queue /\ net'["server"] = s
  BY <1>1, <1>17, <1>18, <1>19, PeersFacts
<1>27. \A z \in Peers : Between(net'[Other(z)], ch'[z], ch'[Other(z)]) BY <1>22, <1>23, <1>26, PeersFacts
<1>28. Linked'
  BY <1>24, <1>26, <1>27 DEF Linked, Ends, Between, Ordered, Holds, SentClose, SentEof, RcvdClose, RcvdEof
<1>29. Orderly(ch["client"], ch["server"], net["client"])'
  BY <1>25, <1>26 DEF Orderly, SentClose, RcvdClose, ExitKnown
<1> QED BY <1>12, <1>17, <1>28, <1>29 DEF Established

-----------------------------------------------------------------------------
(* The invariant.                                                           *)

LEMMA DisconnectStep ==
  ASSUME Shape, Disconnect
  PROVE  /\ Shape' /\ src' = src /\ ~up'
         /\ \A p \in Peers : net'[p] = <<>> /\ ch'[p].flags = {}
<1>1. ASSUME NEW p \in Peers
      PROVE  /\ ch'[p] \in Chan /\ Sane(ch'[p]) /\ ch'[p].sent = <<>> /\ ch'[p].want = {}
             /\ ch'[p].flags = {}
  <2>1. PICK c : c = ch[p] OBVIOUS
  <2>2. c \in Chan /\ ~c.err /\ c.sent = <<>> BY <2>1 DEF Shape, Sane
  <2>3. PICK d : d = channel_free(c) OBVIOUS
  <2>4. /\ d \in Chan /\ d.type = "free" /\ d.flags = {} /\ d.detach = "none" /\ ~d.pid
        /\ d.err = c.err /\ d.sent = c.sent /\ d.want = {} BY <2>2, <2>3, FreeChan
  <2>5. Sane(d) BY <2>2, <2>4 DEF Sane
  <2>6. ch'[p] = d BY <2>1, <2>3 DEF Disconnect
  <2> QED BY <2>2, <2>4, <2>5, <2>6
<1>2. ch' = [p \in Peers |-> ch'[p]] /\ net' = [p \in Peers |-> <<>>] BY DEF Disconnect
<1>3. <<>> \in Seq(Packets) OBVIOUS
<1>4. ch' \in [Peers -> Chan] /\ net' \in [Peers -> Seq(Packets)] /\ \A p \in Peers : net'[p] = <<>>
  BY <1>1, <1>2, <1>3
<1>5. Shape' BY <1>1, <1>4 DEF Shape, Sane
<1> QED BY <1>1, <1>4, <1>5 DEF Disconnect

LEMMA UnchangedStep ==
  ASSUME UNCHANGED <<ch, net>>, Told => Told', "forced" \in broke' <=> "forced" \in broke
  PROVE (Shape => Shape') /\ (Opening => Opening') /\ (Established => Established')
<1>1. Shape => Shape' BY DEF Shape, Sane
<1>2. Opening => Opening' BY DEF Opening, Requested, Accepted, Refused, Failed, Fresh
<1>3. Established => Established'
  BY DEF Established, Linked, Orderly, Ends, ExitKnown, Between, Ordered, Holds,
         SentClose, SentEof, RcvdClose, RcvdEof
<1> QED BY <1>1, <1>2, <1>3

LEMMA InitInv == ASSUME Init PROVE IInv
<1>0. <<>> \in Seq(Packets) OBVIOUS
<1>1. PICK u \in Seq(Packets) : u = <<>> BY <1>0
<1>2. Window \in Int BY ChannelAssumption
<1>3. PICK c : c = channel_new("opening", Window, "write", {"rfd", "wfd", "efd"}, FALSE) OBVIOUS
<1>4. c \in Chan BY <1>1, <1>2, <1>3 DEF channel_new, Chan, Types, Directions, Flags
<1>5. /\ c.type = "opening" /\ c.istate = "open" /\ c.ostate = "open" /\ c.flags = {}
      /\ c.detach = "wait" /\ c.pid = FALSE /\ c.sent = <<>> /\ c.err = FALSE /\ c.want = {}
      /\ c.remote_window = 0 BY <1>3 DEF channel_new
<1>6. Sane(c) /\ Fresh(c) BY <1>4, <1>5 DEF Sane, Fresh
<1>7. PICK k : k = channel_new("free", 0, "ignore", {}, FALSE) OBVIOUS
<1>8. k \in Chan BY <1>1, <1>7 DEF channel_new, Chan, Types, Directions, Flags
<1>9. k.type = "free" /\ k.flags = {} /\ k.pid = FALSE /\ k.want = {} BY <1>7 DEF channel_new
<1>10. PICK d : d = [k EXCEPT !.detach = "none", !.tty = FALSE, !.sent = u, !.err = FALSE] OBVIOUS
<1>11. d \in Chan BY <1>8, <1>10 DEF Chan
<1>12. /\ d.type = "free" /\ d.flags = {} /\ d.pid = FALSE /\ d.want = {} /\ d.detach = "none"
       /\ d.sent = <<>> /\ d.err = FALSE BY <1>1, <1>8, <1>9, <1>10 DEF Chan
<1>13. Sane(d) BY <1>11, <1>12 DEF Sane
<1>14. d = channel_free([tty |-> FALSE, sent |-> <<>>, err |-> FALSE])
  BY <1>1, <1>7, <1>10 DEF channel_free
<1>15. ch = [p \in Peers |-> IF p = "client" THEN c ELSE d] BY <1>3, <1>14 DEF Init
<1>16. PICK m \in Packets : m = Pkt("OPEN", Window) /\ m.t = "OPEN"
  <2>1. "OPEN" \in Sendable BY DEF Sendable
  <2> QED BY <1>2, <1>4, <2>1, PutChan
<1>24. <<m>> \in Seq(Packets) OBVIOUS
<1>17. PICK s \in Seq(Packets) : s = <<m>> BY <1>24
<1>18. Len(s) = 1 /\ Head(s) = m BY <1>17
<1>19. net = [p \in Peers |-> IF p = "server" THEN s ELSE u] BY <1>1, <1>16, <1>17 DEF Init
<1>20. ch["client"] = c /\ ch["server"] = d /\ net["client"] = <<>> /\ net["server"] = s
  BY <1>1, <1>15, <1>19, PeersFacts
<1>21. Shape
  <2>1. ch \in [Peers -> Chan] BY <1>4, <1>11, <1>15
  <2>2. net \in [Peers -> Seq(Packets)] BY <1>19
  <2>3. \A p \in Peers : Sane(ch[p]) /\ ch[p].sent = <<>> /\ ch[p].want = {}
    BY <1>5, <1>6, <1>12, <1>13, <1>20 DEF Peers
  <2> QED BY <2>1, <2>2, <2>3 DEF Shape
<1>22. Requested BY <1>5, <1>6, <1>12, <1>16, <1>18, <1>20 DEF Requested
<1>23. src \in [Streams -> Int] /\ up BY DEF Init
<1> QED BY <1>21, <1>22, <1>23 DEF IInv

\* Every packet handler, and the iteration, at one peer.
LEMMA LoopStep ==
  ASSUME Shape, src \in [Streams -> Int], Opening \/ Established, NEW p \in Peers, Loop(p)
  PROVE  /\ Shape' /\ src' \in [Streams -> Int]
         /\ \/ up' = up /\ (Opening' \/ Established')
            \/ ~up' /\ \A q \in Peers : net'[q] = <<>> /\ ch'[q].flags = {}
<1> DEFINE Goal == /\ Shape' /\ src' \in [Streams -> Int]
                   /\ \/ up' = up /\ (Opening' \/ Established')
                      \/ ~up' /\ \A q \in Peers : net'[q] = <<>> /\ ch'[q].flags = {}
<1>1. ASSUME Shape' /\ (Opening' \/ Established') /\ src' = src /\ up' = up PROVE Goal BY <1>1
<1>2. ASSUME Disconnect PROVE Goal BY <1>2, DisconnectStep
<1>3. CASE Turn(p)
  <2>1. CASE Opening BY <1>3, <2>1, TurnOpening
  <2>2. CASE Established BY <1>3, <2>2, TurnEstablished
  <2> QED BY <2>1, <2>2
<1>4. CASE ReceiveData(p)
  <2>1. CASE Established BY <1>1, <1>4, <2>1, ReceiveDataStep
  <2>2. CASE Opening BY <1>4, <2>2, OpeningArrived DEF ReceiveData, Receive
  <2> QED BY <2>1, <2>2
<1>5. CASE ReceiveExtData(p)
  <2>1. CASE Established BY <1>1, <1>5, <2>1, ReceiveExtDataStep
  <2>2. CASE Opening BY <1>5, <2>2, OpeningArrived DEF ReceiveExtData, Receive
  <2> QED BY <2>1, <2>2
<1>6. CASE ReceiveEof(p)
  <2>1. CASE Established BY <1>1, <1>6, <2>1, ReceiveEofStep
  <2>2. CASE Opening BY <1>6, <2>2, OpeningArrived DEF ReceiveEof, Receive
  <2> QED BY <2>1, <2>2
<1>7. CASE ReceiveClose(p)
  <2>1. CASE Established BY <1>1, <1>7, <2>1, ReceiveCloseStep
  <2>2. CASE Opening BY <1>7, <2>2, OpeningArrived DEF ReceiveClose, Receive
  <2> QED BY <2>1, <2>2
<1>8. CASE ReceiveAdjust(p)
  <2>1. CASE Established BY <1>1, <1>8, <2>1, ReceiveAdjustStep
  <2>2. CASE Opening BY <1>8, <2>2, OpeningArrived DEF ReceiveAdjust
  <2> QED BY <2>1, <2>2
<1>9. CASE ReceiveEow(p)
  <2>1. CASE Established BY <1>1, <1>9, <2>1, ReceiveEowStep
  <2>2. CASE Opening BY <1>9, <2>2, OpeningArrived DEF ReceiveEow
  <2> QED BY <2>1, <2>2
<1>10. "client" \in Peers /\ "server" \in Peers BY DEF Peers
<1>11. CASE ReceiveConfirm
  <2>1. Arrived("client", "CONFIRM") BY <1>11 DEF ReceiveConfirm, Receive
  <2>2. CASE Opening
    <3>1. Accepted BY <1>10, <2>1, <2>2, OpeningArrived
    <3> QED BY <1>1, <1>11, <3>1, ReceiveConfirmStep
  <2>3. CASE Established BY <1>10, <2>1, <2>3, ArrivedFacts DEF Running, Plain, Data
  <2> QED BY <2>2, <2>3
<1>12. CASE ReceiveOpenFailure
  <2>1. Arrived("client", "OPENFAIL") BY <1>12 DEF ReceiveOpenFailure, Receive
  <2>2. CASE Opening
    <3>1. Refused BY <1>10, <2>1, <2>2, OpeningArrived
    <3> QED BY <1>1, <1>12, <3>1, ReceiveOpenFailureStep
  <2>3. CASE Established BY <1>10, <2>1, <2>3, ArrivedFacts DEF Running, Plain, Data
  <2> QED BY <2>2, <2>3
<1>13. CASE ReceiveSuccess
  <2>1. CASE Established BY <1>1, <1>13, <2>1, ReceiveSuccessStep
  <2>2. CASE Opening BY <1>10, <1>13, <2>2, OpeningArrived DEF ReceiveSuccess
  <2> QED BY <2>1, <2>2
<1>14. CASE ReceiveFailure \/ Quit BY <1>2, <1>14 DEF ReceiveFailure, Quit
<1>15. CASE ReceiveExit
  <2>1. CASE Established BY <1>1, <1>15, <2>1, ReceiveExitStep
  <2>2. CASE Opening BY <1>10, <1>15, <2>2, OpeningArrived DEF ReceiveExit
  <2> QED BY <2>1, <2>2
<1>18. CASE ReceiveExitSignal
  <2>1. CASE Established BY <1>1, <1>18, <2>1, ReceiveExitSignalStep
  <2>2. CASE Opening BY <1>10, <1>18, <2>2, OpeningArrived DEF ReceiveExitSignal
  <2> QED BY <2>1, <2>2
<1>16. CASE ReceiveOpen
  <2>1. Arrived("server", "OPEN") BY <1>16 DEF ReceiveOpen
  <2>2. CASE Opening
    <3>1. Requested BY <1>10, <2>1, <2>2, OpeningArrived
    <3> QED BY <1>1, <1>16, <3>1, ReceiveOpenStep
  <2>3. CASE Established BY <1>10, <2>1, <2>3, ArrivedFacts DEF Running, Plain, Data
  <2> QED BY <2>2, <2>3
<1>17. CASE ReceiveExec
  <2>1. CASE Established BY <1>1, <1>17, <2>1, ReceiveExecStep
  <2>2. CASE Opening BY <1>10, <1>17, <2>2, OpeningArrived DEF ReceiveExec
  <2> QED BY <2>1, <2>2
<1> QED BY <1>3, <1>4, <1>5, <1>6, <1>7, <1>8, <1>9, <1>11, <1>12, <1>13, <1>14, <1>15, <1>16, <1>17, <1>18
         DEF Loop, Client, Server

\* Nothing moves once the connection is gone.
LEMMA NextUp == ASSUME Next PROVE up
<1>1. ASSUME NEW p, Loop(p) PROVE up
  BY <1>1, Zenon DEF Loop, Client, Server, ReceiveData, ReceiveExtData, ReceiveEof, ReceiveClose, ReceiveAdjust,
     ReceiveEow, ReceiveConfirm, ReceiveOpenFailure, ReceiveSuccess, ReceiveFailure, ReceiveExit,
     ReceiveExitSignal, ReceiveOpen, ReceiveExec, Receive, Arrived, Quit, Turn
<1> QED BY <1>1, Zenon DEF Next, ChildExit, WriteStream, CloseStream, Open

LEMMA NextInv == ASSUME IInv, [Next]_vars PROVE IInv'
<1>1. CASE UNCHANGED vars
  <2>1. UNCHANGED <<ch, net, exitSeen, broke>> /\ src' = src /\ up' = up BY <1>1 DEF vars
  <2>3. Told => Told' BY <2>1 DEF Told
  <2>2. (Shape => Shape') /\ (Opening => Opening') /\ (Established => Established')
    BY <2>1, <2>3, UnchangedStep
  <2> QED BY <2>1, <2>2 DEF IInv, Opening
<1>2. CASE Next
  <2>1. up /\ Shape /\ src \in [Streams -> Int] /\ (Opening \/ Established)
    BY <1>2, NextUp DEF IInv, Opening
  <2>2. ASSUME NEW p \in Peers, Loop(p) PROVE IInv'
    <3>1. /\ Shape' /\ src' \in [Streams -> Int]
          /\ \/ up' = up /\ (Opening' \/ Established')
             \/ ~up' /\ \A q \in Peers : net'[q] = <<>> /\ ch'[q].flags = {} BY <2>1, <2>2, LoopStep
    <3> QED BY <2>1, <3>1 DEF IInv, Opening
  <2>3. ASSUME UNCHANGED <<ch, net, exitSeen, up>>, broke' \in {broke, broke \cup {"killed"}},
               src' \in [Streams -> Int]
        PROVE IInv'
    <3>2. (Told => Told') /\ ("forced" \in broke' <=> "forced" \in broke) BY <2>3 DEF Told
    <3>1. (Shape => Shape') /\ (Opening => Opening') /\ (Established => Established')
      BY <2>3, <3>2, UnchangedStep
    <3> QED BY <2>1, <2>3, <3>1 DEF IInv, Opening
  <2>4. CASE ChildExit BY <2>1, <2>3, <2>4 DEF ChildExit
  <2>5. ASSUME NEW f \in Streams, WriteStream(f) PROVE IInv'
    <3>1. src' = [src EXCEPT ![f] = @ + 1] BY <2>5 DEF WriteStream
    <3>2. src' \in [Streams -> Int] BY <2>1, <3>1
    <3> QED BY <2>3, <2>5, <3>2 DEF WriteStream
  <2>6. ASSUME NEW f \in Streams, CloseStream(f) PROVE IInv' BY <2>1, <2>3, <2>6 DEF CloseStream
  <2> QED BY <1>2, <2>2, <2>4, <2>5, <2>6 DEF Next
<1> QED BY <1>1, <1>2

LEMMA Invariance == Spec => []IInv
<1>1. Init => IInv BY InitInv
<1>2. IInv /\ [Next]_vars => IInv' BY NextInv
<1> QED BY <1>1, <1>2, PTL DEF Spec

-----------------------------------------------------------------------------
(* Theorems.                                                                *)

\* Whatever closes, exits, fails or times out first, neither peer ever sends the other a packet
\* it must disconnect on: no packet for a channel that the other has freed (channel_lookup() in
\* channel_from_packet_id()), no extended data after EOF, no second confirmation.
THEOREM NoErrors == Spec => []NoProtocolError
<1>1. IInv => NoProtocolError BY DEF IInv, Shape, Sane, NoProtocolError
<1> QED BY <1>1, Invariance, PTL

\* chan_send_eof2() and chan_send_close2() are reached from the loop, from a timeout, from the
\* end of the command and from the other peer's packets; in every order nothing follows CLOSE in
\* the stream, and no data and no second EOF follow EOF.
THEOREM PacketsOrdered == Spec => []PacketOrder
<1>1. IInv => PacketOrder
  <2> SUFFICES ASSUME IInv, NEW p \in Peers, NEW i \in DOMAIN net[p], NEW j \in DOMAIN net[p], i < j
               PROVE  /\ net[p][i].t # "CLOSE"
                      /\ net[p][i].t = "EOF" => net[p][j].t \notin {"DATA", "EXT", "EOF"}
    BY DEF PacketOrder
  <2>1. PICK s \in Seq(Packets) : s = net[p] BY DEF IInv, Shape
  <2>2. Len(s) \in Nat /\ DOMAIN s = 1..Len(s) OBVIOUS
  <2>3. i \in 1..Len(s) /\ j \in 1..Len(s) /\ Len(s) > 1 BY <2>1, <2>2
  <2>4. Len(<<>>) = 0 OBVIOUS
  <2>5. Established BY <2>1, <2>3, <2>4 DEF IInv, Requested, Accepted, Refused, Failed, Peers
  <2>6. Ordered(s) BY <2>1, <2>5, PeersFacts DEF Established, Linked, Between
  <2> QED BY <2>1, <2>3, <2>6 DEF Ordered, Data
<1> QED BY <1>1, Invariance, PTL

\* The client that has received CLOSE has received the exit status before it, however the end of
\* the command, the end of its output and the client's own close interleave; only a command that
\* a signal killed, which has none, and an inactivity timeout (channel_force_close()) can leave
\* the client without it.
THEOREM ExitStatusComesFirst == Spec => []ExitStatusFirst
<1>1. IInv => ExitStatusFirst
  <2> SUFFICES ASSUME IInv, "close_rcvd" \in ch["client"].flags, "forced" \notin broke, "killed" \notin broke
               PROVE exitSeen BY DEF ExitStatusFirst
  <2>1. ch["client"].flags # {} /\ "client" \in Peers BY DEF Peers
  <2>2. Established BY <2>1 DEF IInv, Requested, Accepted, Refused, Failed, Fresh, Shape, Sane
  <2>3. Between(net["client"], ch["server"], ch["client"]) BY <2>2, PeersFacts DEF Established, Linked
  <2>4. SentClose(ch["server"]) /\ net["client"] = <<>> BY <2>3 DEF Between, RcvdClose
  <2>5. ExitKnown(net["client"]) BY <2>2, <2>4 DEF Established, Orderly
  <2>6. Len(<<>>) = 0 OBVIOUS
  <2>7. ~Holds(net["client"], {"EXIT"}) BY <2>4, <2>6 DEF Holds
  <2> QED BY <2>5, <2>7 DEF ExitKnown, Told
<1> QED BY <1>1, Invariance, PTL

(***************************************************************************)
(* What a stream of packets carries.  Units is a recursive function; the   *)
(* sums the proofs need are found by looking at the least prefix at which a *)
(* claim about them would fail.                                            *)
(***************************************************************************)

\* A non-empty set of naturals has a least element.
LEMMA LeastOf ==
  ASSUME NEW T, T \subseteq Nat, T # {}
  PROVE \E x \in T : \A y \in T : x <= y
<1> DEFINE R == OpToRel(<, Nat)
<1>1. IsWellFoundedOn(R, Nat) BY NatLessThanWellFounded, Zenon
<1>2. \A x, y \in Nat : y < x => <<y, x>> \in R BY DEF OpToRel
<1> HIDE DEF R
<1>3. \E x \in T : \A y \in T : ~(<<y, x>> \in R) BY <1>1, WFMin
<1>4. PICK x \in T : \A y \in T : ~(<<y, x>> \in R) BY <1>3
<1>5. \A y \in T : ~(y < x) BY <1>2, <1>4
<1>6. \A y \in T : x <= y BY <1>5
<1> QED BY <1>6

\* f adds up the packets of q with a tag in ts.
Weight(m, ts) == IF m.t \in ts THEN m.n ELSE 0
Adds(q, ts, f) ==
  /\ f \in [0..Len(q) -> Int] /\ f[0] = 0
  /\ \A i \in 1..Len(q) : f[i] = f[i - 1] + Weight(q[i], ts)

LEMMA WeightInt == ASSUME NEW m \in Packets, NEW ts PROVE Weight(m, ts) \in Int
  BY DEF Weight, Packets, Sendable

LEMMA AddsUnique ==
  ASSUME NEW q \in Seq(Packets), NEW ts, NEW f, NEW g, Adds(q, ts, f), Adds(q, ts, g)
  PROVE f = g
<1>1. Len(q) \in Nat OBVIOUS
<1>2. PICK n \in Nat : n = Len(q) BY <1>1
<1> DEFINE T == {i \in 0..n : f[i] # g[i]}
<1>3. T = {}
  <2>1. SUFFICES ASSUME T # {} PROVE FALSE OBVIOUS
  <2>2. T \subseteq Nat OBVIOUS
  <2>3. PICK i \in T : \A j \in T : i <= j BY <2>1, <2>2, LeastOf
  <2>4. i # 0 BY <1>2, <2>3 DEF Adds
  <2>5. i \in 1..n /\ i - 1 \in 0..n /\ f[i - 1] = g[i - 1] BY <1>2, <2>3, <2>4
  <2>6. f[i] = g[i] BY <1>2, <2>5 DEF Adds
  <2> QED BY <2>3, <2>6
<1>4. \A i \in 0..n : f[i] = g[i] BY <1>3
<1>5. f \in [0..n -> Int] /\ g \in [0..n -> Int] BY <1>2, Zenon DEF Adds
<1> HIDE DEF T
<1> QED BY <1>4, <1>5

LEMMA AddsAppend ==
  ASSUME NEW q \in Seq(Packets), NEW m \in Packets, NEW ts, NEW f, Adds(q, ts, f)
  PROVE \E g : Adds(Append(q, m), ts, g) /\ g[Len(q) + 1] = f[Len(q)] + Weight(m, ts)
<1>1. PICK n \in Nat : n = Len(q) OBVIOUS
<1>9. Append(q, m) \in Seq(Packets) OBVIOUS
<1>2. PICK u \in Seq(Packets) : u = Append(q, m) BY <1>9
<1>3. Len(u) = n + 1 /\ u[n + 1] = m /\ \A i \in 1..n : u[i] = q[i] BY <1>1, <1>2
<1>4. PICK k \in Int : k = Weight(m, ts) BY WeightInt
<1>5. /\ f \in [0..n -> Int] /\ f[0] = 0
      /\ \A i \in 1..n : f[i] = f[i - 1] + Weight(q[i], ts) BY <1>1 DEF Adds
<1> DEFINE g == [i \in 0..(n + 1) |-> IF i = n + 1 THEN f[n] + k ELSE f[i]]
<1>6. g \in [0..(n + 1) -> Int] /\ g[0] = 0 /\ g[n + 1] = f[n] + k BY <1>5
<1>7. ASSUME NEW i \in 1..(n + 1) PROVE g[i] = g[i - 1] + Weight(u[i], ts)
  <2>1. CASE i = n + 1 BY <1>3, <1>4, <2>1
  <2>2. CASE i \in 1..n
    <3>1. i # n + 1 /\ i - 1 # n + 1 /\ i \in 0..(n + 1) /\ i - 1 \in 0..(n + 1) BY <2>2
    <3>2. g[i] = f[i] /\ g[i - 1] = f[i - 1] BY <3>1, Zenon
    <3>3. f[i] = f[i - 1] + Weight(u[i], ts) BY <1>3, <1>5, <2>2, Zenon
    <3> QED BY <3>2, <3>3, Zenon
  <2> QED BY <2>1, <2>2
<1>8. Adds(u, ts, g) BY <1>3, <1>6, <1>7 DEF Adds
<1> HIDE DEF g
<1> QED BY <1>1, <1>2, <1>4, <1>6, <1>8

LEMMA AddsExists ==
  ASSUME NEW q \in Seq(Packets), NEW ts
  PROVE \E f : Adds(q, ts, f)
<1> DEFINE T == {k \in Nat : \E u \in Seq(Packets) : Len(u) = k /\ ~\E f : Adds(u, ts, f)}
<1>1. T = {}
  <2>1. SUFFICES ASSUME T # {} PROVE FALSE OBVIOUS
  <2>2. T \subseteq Nat OBVIOUS
  <2>3. PICK k \in T : \A j \in T : k <= j BY <2>1, <2>2, LeastOf
  <2>4. PICK u \in Seq(Packets) : Len(u) = k /\ ~\E f : Adds(u, ts, f) BY <2>3
  <2>5. CASE u = <<>>
    <3>1. Len(u) = 0 BY <2>5
    <3>2. [i \in {0} |-> 0] \in [0..0 -> Int] /\ [i \in {0} |-> 0][0] = 0 OBVIOUS
    <3>3. Adds(u, ts, [i \in {0} |-> 0]) BY <3>1, <3>2 DEF Adds
    <3> QED BY <2>4, <3>3
  <2>6. CASE u # <<>>
    <3>1. PICK v \in Seq(Packets), m \in Packets : u = Append(v, m) BY <2>6, SequenceEmptyOrAppend
    <3>2. Len(v) \in Nat /\ Len(v) = k - 1 BY <2>4, <3>1
    <3>3. Len(v) \notin T BY <2>3, <3>2
    <3>4. PICK f : Adds(v, ts, f) BY <3>2, <3>3
    <3> QED BY <2>4, <3>1, <3>4, AddsAppend
  <2> QED BY <2>5, <2>6
<1> QED BY <1>1

LEMMA UnitsAdds ==
  ASSUME NEW q \in Seq(Packets), NEW ts, NEW f, Adds(q, ts, f)
  PROVE Units(q, ts) = f[Len(q)]
<1> DEFINE Eq(h) == h = [i \in 0..Len(q) |-> IF i = 0 THEN 0 ELSE h[i-1] + (IF q[i].t \in ts THEN q[i].n ELSE 0)]
<1>1. ASSUME NEW h, Eq(h) PROVE Adds(q, ts, h)
  <2> DEFINE n == Len(q)
  <2>0. n \in Nat /\ \A i \in 1..n : q[i] \in Packets OBVIOUS
  <2>1. DOMAIN h = 0..n /\ h[0] = 0 BY <1>1, <2>0
  <2>2. \A i \in 1..n : h[i] = h[i - 1] + Weight(q[i], ts) BY <1>1, <2>0 DEF Weight
  <2>3. \A i \in 1..n : Weight(q[i], ts) \in Int BY <2>0 DEF Weight, Packets, Sendable
  <2> HIDE DEF n
  <2> DEFINE T == {i \in 0..n : h[i] \notin Int}
  <2>4. T = {}
    <3>1. SUFFICES ASSUME T # {} PROVE FALSE OBVIOUS
    <3>2. T \subseteq Nat OBVIOUS
    <3>3. PICK i \in T : \A j \in T : i <= j BY <3>1, <3>2, LeastOf
    <3>4. i # 0 BY <2>1, <3>3
    <3>5. i \in 1..n /\ i - 1 \in 0..n /\ h[i - 1] \in Int BY <2>0, <3>3, <3>4
    <3> QED BY <2>2, <2>3, <3>3, <3>5
  <2>5. h = [i \in 0..n |-> h[i]] BY <1>1 DEF n
  <2>6. h \in [0..n -> Int] BY <2>4, <2>5
  <2> QED BY <2>1, <2>2, <2>6 DEF Adds, n
<1>2. Eq(f) BY DEF Adds, Weight
<1>3. Units(q, ts) = (CHOOSE h : Eq(h))[Len(q)] BY DEF Units
<1>4. Eq(CHOOSE h : Eq(h)) BY <1>2
<1>5. (CHOOSE h : Eq(h)) = f BY <1>1, <1>4, AddsUnique
<1> QED BY <1>3, <1>5

LEMMA UnitsInt == ASSUME NEW q \in Seq(Packets), NEW ts PROVE Units(q, ts) \in Int
<1>1. PICK f : Adds(q, ts, f) BY AddsExists
<1>2. Len(q) \in 0..Len(q) OBVIOUS
<1>3. f[Len(q)] \in Int BY <1>1, <1>2 DEF Adds
<1> QED BY <1>1, <1>3, UnitsAdds

LEMMA UnitsEmpty == ASSUME NEW ts PROVE Units(<<>>, ts) = 0
<1>0. <<>> \in Seq(Packets) /\ Len(<<>>) = 0 OBVIOUS
<1>1. PICK q \in Seq(Packets) : q = <<>> BY <1>0
<1>2. PICK f : Adds(q, ts, f) BY AddsExists
<1>3. f[Len(q)] = 0 BY <1>0, <1>1, <1>2 DEF Adds
<1>4. Units(q, ts) = 0 BY <1>2, <1>3, UnitsAdds
<1> QED BY <1>1, <1>4, Zenon

LEMMA UnitsAppend ==
  ASSUME NEW q \in Seq(Packets), NEW m \in Packets, NEW ts
  PROVE Units(Append(q, m), ts) = Units(q, ts) + Weight(m, ts)
<1>1. PICK f : Adds(q, ts, f) BY AddsExists
<1>2. PICK g : Adds(Append(q, m), ts, g) /\ g[Len(q) + 1] = f[Len(q)] + Weight(m, ts) BY <1>1, AddsAppend
<1>3. Append(q, m) \in Seq(Packets) /\ Len(Append(q, m)) = Len(q) + 1 OBVIOUS
<1>4. Units(Append(q, m), ts) = g[Len(q) + 1] BY <1>2, <1>3, UnitsAdds
<1>5. Units(q, ts) = f[Len(q)] BY <1>1, UnitsAdds
<1> QED BY <1>2, <1>4, <1>5

LEMMA UnitsConcat ==
  ASSUME NEW q \in Seq(Packets), NEW u \in Seq(Packets), NEW ts
  PROVE Units(q \o u, ts) = Units(q, ts) + Units(u, ts)
<1> DEFINE T == {k \in Nat : \E v \in Seq(Packets) :
                   Len(v) = k /\ Units(q \o v, ts) # Units(q, ts) + Units(v, ts)}
<1>1. T = {}
  <2>1. SUFFICES ASSUME T # {} PROVE FALSE OBVIOUS
  <2>2. T \subseteq Nat OBVIOUS
  <2>3. PICK k \in T : \A j \in T : k <= j BY <2>1, <2>2, LeastOf
  <2>4. PICK v \in Seq(Packets) : Len(v) = k /\ Units(q \o v, ts) # Units(q, ts) + Units(v, ts) BY <2>3
  <2>5. Units(q, ts) \in Int BY UnitsInt
  <2>6. CASE v = <<>>
    <3>1. q \o v = q BY <2>6
    <3> QED BY <2>4, <2>5, <2>6, <3>1, UnitsEmpty
  <2>7. CASE v # <<>>
    <3>1. PICK x \in Seq(Packets), m \in Packets : v = Append(x, m) BY <2>7, SequenceEmptyOrAppend
    <3>2. Len(x) \in Nat /\ Len(x) = k - 1 BY <2>4, <3>1
    <3>3. Len(x) \notin T BY <2>3, <3>2
    <3>4. Units(q \o x, ts) = Units(q, ts) + Units(x, ts) BY <3>2, <3>3
    <3>5. q \o x \in Seq(Packets) /\ q \o v = Append(q \o x, m) BY <3>1, ConcatAppend
    <3>9. PICK z \in Seq(Packets) : z = q \o x BY <3>5
    <3>10. Units(Append(z, m), ts) = Units(z, ts) + Weight(m, ts) BY UnitsAppend
    <3>6. Units(q \o v, ts) = Units(q \o x, ts) + Weight(m, ts) BY <3>5, <3>9, <3>10, Zenon
    <3>7. Units(v, ts) = Units(x, ts) + Weight(m, ts) BY <3>1, UnitsAppend
    <3>8. Units(x, ts) \in Int /\ Weight(m, ts) \in Int BY UnitsInt, WeightInt
    <3> QED BY <2>4, <2>5, <3>4, <3>6, <3>7, <3>8
  <2> QED BY <2>6, <2>7
<1> QED BY <1>1

LEMMA UnitsTail ==
  ASSUME NEW q \in Seq(Packets), q # <<>>, NEW ts
  PROVE Units(q, ts) = Weight(Head(q), ts) + Units(Tail(q), ts)
<1>1. PICK h \in Packets, y \in Seq(Packets) : h = Head(q) /\ y = Tail(q) BY TailParts
<1>2. <<>> \in Seq(Packets) /\ <<h>> \in Seq(Packets) /\ Append(<<>>, h) = <<h>> OBVIOUS
<1>3. q = <<h>> \o y BY <1>1
<1>4. Units(q, ts) = Units(<<h>>, ts) + Units(y, ts)
  <2>1. PICK x \in Seq(Packets) : x = <<h>> BY <1>2, Zenon
  <2>2. Units(x \o y, ts) = Units(x, ts) + Units(y, ts) BY UnitsConcat, Zenon
  <2> QED BY <1>3, <2>1, <2>2, Zenon
<1>5. Units(<<h>>, ts) = 0 + Weight(h, ts)
  <2>1. PICK x \in Seq(Packets) : x = <<>> BY <1>2, Zenon
  <2>2. Units(Append(x, h), ts) = Units(x, ts) + Weight(h, ts) BY UnitsAppend, Zenon
  <2>3. Units(<<>>, ts) = 0 BY UnitsEmpty, Zenon
  <2> QED BY <1>2, <2>1, <2>2, <2>3, Zenon
<1>6. Weight(h, ts) \in Int BY WeightInt
<1> QED BY <1>1, <1>4, <1>5, <1>6

LEMMA UnitsNat ==
  ASSUME NEW q \in Seq(Packets), NEW ts, \A i \in 1..Len(q) : q[i].n >= 0
  PROVE Units(q, ts) \in Nat
<1>1. PICK f : Adds(q, ts, f) BY AddsExists
<1>2. PICK n \in Nat : n = Len(q) OBVIOUS
<1>3. /\ f \in [0..n -> Int] /\ f[0] = 0
      /\ \A i \in 1..n : f[i] = f[i - 1] + Weight(q[i], ts) BY <1>1, <1>2 DEF Adds
<1>4. \A i \in 1..n : Weight(q[i], ts) \in Nat
  <2>1. ASSUME NEW i \in 1..n PROVE q[i] \in Packets /\ q[i].n >= 0 BY <1>2
  <2> QED BY <2>1 DEF Weight, Packets, Sendable
<1> DEFINE T == {i \in 0..n : f[i] \notin Nat}
<1>5. T = {}
  <2>1. SUFFICES ASSUME T # {} PROVE FALSE OBVIOUS
  <2>2. T \subseteq Nat OBVIOUS
  <2>3. PICK i \in T : \A j \in T : i <= j BY <2>1, <2>2, LeastOf
  <2>4. i # 0 BY <1>3, <2>3
  <2>5. i \in 1..n /\ i - 1 \in 0..n /\ f[i - 1] \in Nat BY <1>2, <2>3, <2>4
  <2>6. Weight(q[i], ts) \in Nat /\ f[i] = f[i - 1] + Weight(q[i], ts) BY <1>3, <1>4, <2>5, Zenon
  <2>7. f[i] \in Nat BY <2>5, <2>6
  <2> QED BY <2>3, <2>7, Zenon
<1>6. n \in 0..n OBVIOUS
<1>7. f[n] \in Nat BY <1>5, <1>6
<1> QED BY <1>1, <1>2, <1>7, UnitsAdds

(***************************************************************************)
(* The windows.  What a peer may still send, what is on its way and what was *)
(* granted on the way back are within what the receiver still accepts      *)
(* (Granted).  A call of an iteration is described by how it moves these   *)
(* amounts (Moves): what it sends it takes from its allowance, what it     *)
(* grants it had consumed.                                                 *)
(***************************************************************************)

Live == {"opening", "larval", "open"}
Grants == {"ADJUST", "OPEN", "CONFIRM"}

DataSent(c) == Units(c.sent, Data)
GrantSent(c) == Units(c.sent, Grants)
\* What c accepts under the grants it had given before this iteration.
Room(c) == c.local_window - GrantSent(c)
\* What c may still send, with what it has sent in this iteration.
MaySend(c) == (IF c.type \in Live THEN c.remote_window ELSE 0) + DataSent(c)
\* What c has accepted and not granted again, with what it still accepts.
Held(c) ==
  c.local_window + c.local_consumed + c.output + (IF c.usage = "write" THEN c.extended ELSE 0)
Sizes(s) == \A i \in 1..Len(s) : s[i].n >= 0
\* No length is negative, and an open channel holds one window at most.
Tidy(c) ==
  /\ c.input >= 0 /\ c.output >= 0 /\ c.extended >= 0
  /\ c.local_window >= 0 /\ c.local_consumed >= 0 /\ c.remote_window >= 0
  /\ Sizes(c.sent)
  /\ c.type \in Live => Held(c) <= Window
  /\ c.type = "larval" => c.local_window = 0 /\ c.output = 0 /\ c.local_consumed = 0
\* What s may still send to r, with the data and the grants on their way, r has room for.
Granted(s, r, toR, toS) ==
  r.type \in Live => MaySend(s) + Units(toR, Data) + Units(toS, Grants) <= r.local_window

\* A call from c to d, on a packet that grants g and carries n.
Moves(c, d, g, n) ==
  /\ d \in Chan /\ Tidy(d)
  /\ MaySend(d) <= MaySend(c) + g
  /\ d.usage = "write" => c.usage = "write"
  /\ d.type \in Live =>
       /\ c.type \in Live
       /\ Room(d) >= Room(c) - n

\* A call that leaves the windows alone, and drops output at most.
Calm(c, d) ==
  /\ d \in Chan /\ (d.type = c.type \/ d.type \notin Live) /\ d.usage = c.usage
  /\ d.local_window = c.local_window /\ d.local_consumed = c.local_consumed
  /\ d.remote_window = c.remote_window /\ d.extended = c.extended
  /\ d.input >= 0 /\ d.output >= 0 /\ d.output <= c.output

LEMMA SizesAppend ==
  ASSUME NEW s \in Seq(Packets), NEW m \in Packets, Sizes(s), m.n >= 0
  PROVE Sizes(Append(s, m)) BY DEF Sizes

LEMMA ChanInts ==
  ASSUME NEW c \in Chan
  PROVE  /\ c.input \in Int /\ c.output \in Int /\ c.extended \in Int /\ c.local_window \in Int
         /\ c.local_consumed \in Int /\ c.remote_window \in Int /\ c.sent \in Seq(Packets)
         /\ DataSent(c) \in Int /\ GrantSent(c) \in Int
         /\ MaySend(c) \in Int /\ Held(c) \in Int /\ Room(c) \in Int
<1>1. c.sent \in Seq(Packets) BY DEF Chan
<1>2. DataSent(c) \in Int /\ GrantSent(c) \in Int BY <1>1, UnitsInt DEF DataSent, GrantSent
<1>3. /\ c.input \in Int /\ c.output \in Int /\ c.extended \in Int /\ c.local_window \in Int
      /\ c.local_consumed \in Int /\ c.remote_window \in Int BY DEF Chan
<1>4. (IF c.type \in Live THEN c.remote_window ELSE 0) \in Int /\ (IF c.usage = "write" THEN c.extended ELSE 0) \in Int
  BY <1>3
<1>5. MaySend(c) \in Int /\ Room(c) \in Int BY <1>2, <1>3, <1>4 DEF MaySend, Room
<1>6. Held(c) \in Int BY <1>3, <1>4 DEF Held
<1> QED BY <1>1, <1>2, <1>3, <1>5, <1>6

LEMMA Amounts ==
  ASSUME NEW c \in Chan
  PROVE  /\ c.type \in Live => MaySend(c) = c.remote_window + DataSent(c)
         /\ c.type \notin Live => MaySend(c) = DataSent(c)
         /\ c.usage = "write" => Held(c) = c.local_window + c.local_consumed + c.output + c.extended
         /\ c.usage # "write" => Held(c) = c.local_window + c.local_consumed + c.output
<1>1. /\ c.output \in Int /\ c.extended \in Int /\ c.local_window \in Int /\ c.local_consumed \in Int
      /\ c.remote_window \in Int /\ DataSent(c) \in Int BY ChanInts
<1>2. c.type \notin Live => MaySend(c) = 0 + DataSent(c) BY DEF MaySend
<1>3. c.usage # "write" => Held(c) = c.local_window + c.local_consumed + c.output + 0 BY DEF Held
<1> QED BY <1>1, <1>2, <1>3 DEF MaySend, Held

LEMMA MovesTrans ==
  ASSUME NEW c \in Chan, NEW d, NEW e, NEW g \in Int, NEW n \in Int, NEW h \in Int, NEW k \in Int,
         Moves(c, d, g, n), Moves(d, e, h, k)
  PROVE Moves(c, e, g + h, n + k)
<1>1. d \in Chan /\ e \in Chan BY DEF Moves
<1>2. /\ MaySend(c) \in Int /\ MaySend(d) \in Int /\ MaySend(e) \in Int
      /\ Room(c) \in Int /\ Room(d) \in Int /\ Room(e) \in Int BY <1>1, ChanInts
<1>3. MaySend(e) <= MaySend(c) + (g + h) BY <1>2 DEF Moves
<1>4. e.type \in Live =>
       /\ c.type \in Live
       /\ Room(e) >= Room(c) - (n + k)
  <2>1. ASSUME e.type \in Live
        PROVE  /\ d.type \in Live /\ c.type \in Live
               /\ Room(e) >= Room(d) - k
               /\ Room(d) >= Room(c) - n BY <2>1 DEF Moves
  <2> QED BY <1>2, <2>1
<1> QED BY <1>1, <1>3, <1>4 DEF Moves

LEMMA MovesOn ==
  ASSUME NEW c \in Chan, NEW d, NEW e, NEW g \in Int, NEW n \in Int,
         Moves(c, d, g, n), Moves(d, e, 0, 0)
  PROVE Moves(c, e, g, n)
<1>1. Moves(c, e, g + 0, n + 0) BY MovesTrans
<1> QED BY <1>1

LEMMA CalmAmounts ==
  ASSUME NEW c \in Chan, Tidy(c), NEW d, Calm(c, d), DataSent(d) = DataSent(c),
         GrantSent(d) = GrantSent(c), Sizes(d.sent)
  PROVE Moves(c, d, 0, 0)
<1>1. d \in Chan BY DEF Calm
<1>2. /\ c.output \in Int /\ c.extended \in Int /\ c.local_window \in Int /\ c.local_consumed \in Int
      /\ c.remote_window \in Int /\ DataSent(c) \in Int /\ GrantSent(c) \in Int /\ d.output \in Int
  BY <1>1, ChanInts
<1>3. MaySend(d) <= MaySend(c) + 0
  <2>1. CASE d.type \in Live BY <1>1, <1>2, <2>1, Amounts DEF Calm
  <2>2. CASE d.type \notin Live /\ c.type \in Live
    <3>1. MaySend(d) = DataSent(c) /\ MaySend(c) = c.remote_window + DataSent(c) /\ c.remote_window >= 0
      BY <1>1, <2>2, Amounts DEF Tidy
    <3> QED BY <1>2, <3>1
  <2>3. CASE d.type \notin Live /\ c.type \notin Live
    <3>1. MaySend(d) = DataSent(c) /\ MaySend(c) = DataSent(c) BY <1>1, <2>3, Amounts
    <3> QED BY <1>2, <3>1
  <2> QED BY <2>1, <2>2, <2>3
<1>4. d.type \in Live => Held(d) <= Window
  <2>1. Held(d) <= Held(c)
    <3>1. CASE d.usage = "write"
      <4>1. /\ Held(c) = c.local_window + c.local_consumed + c.output + c.extended
            /\ Held(d) = c.local_window + c.local_consumed + d.output + c.extended
            /\ d.output <= c.output BY <1>1, <3>1, Amounts DEF Calm
      <4> QED BY <1>2, <4>1
    <3>2. CASE d.usage # "write"
      <4>1. /\ Held(c) = c.local_window + c.local_consumed + c.output
            /\ Held(d) = c.local_window + c.local_consumed + d.output
            /\ d.output <= c.output BY <1>1, <3>2, Amounts DEF Calm
      <4> QED BY <1>2, <4>1
    <3> QED BY <3>1, <3>2
  <2>2. Held(d) \in Int /\ Held(c) \in Int /\ Window \in Int BY <1>1, ChanInts, ChannelAssumption
  <2>3. d.type \in Live => Held(c) <= Window BY DEF Calm, Tidy
  <2> QED BY <2>1, <2>2, <2>3
<1>5. Tidy(d) BY <1>2, <1>4 DEF Tidy, Calm, Live
<1>6. d.type \in Live => c.type \in Live /\ Room(d) >= Room(c) - 0 BY <1>2 DEF Calm, Room
<1> QED BY <1>1, <1>3, <1>5, <1>6 DEF Moves, Calm

LEMMA CalmMoves ==
  ASSUME NEW c \in Chan, Tidy(c), NEW d, Calm(c, d), d.sent = c.sent
  PROVE Moves(c, d, 0, 0)
<1>1. DataSent(d) = DataSent(c) /\ GrantSent(d) = GrantSent(c) BY DEF DataSent, GrantSent
<1>2. Sizes(d.sent) BY DEF Tidy
<1> QED BY <1>1, <1>2, CalmAmounts

LEMMA CalmPuts ==
  ASSUME NEW c \in Chan, Tidy(c), NEW d, Calm(c, d), NEW m \in Packets,
         d.sent = Append(c.sent, m), m.t \notin Data \cup Grants, m.n >= 0
  PROVE Moves(c, d, 0, 0)
<1>1. c.sent \in Seq(Packets) BY ChanInts
<1>2. PICK u \in Seq(Packets) : u = c.sent BY <1>1
<1>3. Units(Append(u, m), Data) = Units(u, Data) + 0 /\ Units(Append(u, m), Grants) = Units(u, Grants) + 0
  BY UnitsAppend DEF Weight
<1>4. DataSent(d) = DataSent(c) /\ GrantSent(d) = GrantSent(c)
  BY <1>2, <1>3, UnitsInt DEF DataSent, GrantSent
<1>5. Sizes(d.sent) BY <1>2, SizesAppend DEF Tidy
<1> QED BY <1>4, <1>5, CalmAmounts

LEMMA CalmSelf == ASSUME NEW c \in Chan, Tidy(c) PROVE Calm(c, c) /\ Moves(c, c, 0, 0)
<1>1. Calm(c, c) BY ChanInts DEF Calm, Tidy
<1> QED BY <1>1, CalmMoves

LEMMA ReadFailedMoves == ASSUME NEW c \in Chan, Tidy(c) PROVE Moves(c, chan_read_failed(c), 0, 0)
<1>1. PICK d : d = chan_read_failed(c) OBVIOUS
<1>2. d \in Chan /\ d.sent = c.sent BY <1>1, ReadFailedQuiet DEF Quiet, Keeps
<1>3. Calm(c, d)
  <2>1. CASE c.istate # "open" BY <1>1, <2>1, CalmSelf, Zenon DEF chan_read_failed
  <2>2. CASE c.istate = "open"
    <3>1. d = [chan_shutdown_read(c) EXCEPT !.istate = "drain"] BY <1>1, <2>2, Zenon DEF chan_read_failed
    <3>2. /\ d.type = c.type /\ d.usage = c.usage /\ d.local_window = c.local_window
          /\ d.local_consumed = c.local_consumed /\ d.remote_window = c.remote_window
          /\ d.extended = c.extended /\ d.input = c.input /\ d.output = c.output
      BY <3>1, ZenonT(60) DEF chan_shutdown_read, Chan
    <3>3. Calm(c, c) BY CalmSelf, Zenon
    <3> QED BY <1>2, <3>2, <3>3, Zenon DEF Calm
  <2> QED BY <2>1, <2>2, Zenon
<1> QED BY <1>1, <1>2, <1>3, CalmMoves

LEMMA ShutdownWriteCalm ==
  ASSUME NEW c \in Chan, Tidy(c)
  PROVE Calm(c, chan_shutdown_write(c)) /\ chan_shutdown_write(c).sent = c.sent
<1>1. PICK d : d = chan_shutdown_write(c) OBVIOUS
<1>2. d \in Chan /\ d.sent = c.sent /\ d.type = c.type BY <1>1, ShutdownWriteQuiet DEF Quiet, Keeps
<1>3. /\ d.usage = c.usage /\ d.local_window = c.local_window /\ d.local_consumed = c.local_consumed
      /\ d.remote_window = c.remote_window /\ d.extended = c.extended /\ d.input = c.input /\ d.output = 0
  BY <1>1, <1>2 DEF chan_shutdown_write, Chan
<1>4. Calm(c, d) BY <1>2, <1>3 DEF Calm, Tidy
<1> QED BY <1>1, <1>2, <1>4

LEMMA ObufMoves == ASSUME NEW c \in Chan, Tidy(c) PROVE Moves(c, chan_obuf_empty(c), 0, 0)
<1>1. PICK e \in Chan : e = chan_shutdown_write(c) BY ShutdownWriteQuiet DEF Quiet, Keeps
<1>2. Calm(c, e) /\ e.sent = c.sent BY <1>1, ShutdownWriteCalm
<1>3. PICK d : d = [e EXCEPT !.ostate = "closed"] OBVIOUS
<1>4. d \in Chan BY <1>3 DEF Chan, Directions
<1>5. Calm(c, d) /\ d.sent = c.sent BY <1>2, <1>3, <1>4, ZenonT(60) DEF Calm, Chan
<1>6. Moves(c, d, 0, 0) BY <1>5, CalmMoves
<1> QED BY <1>1, <1>3, <1>6, CalmSelf DEF chan_obuf_empty

LEMMA EowMoves == ASSUME NEW c \in Chan, Tidy(c) PROVE Moves(c, chan_rcvd_eow(c), 0, 0)
<1>1. PICK d : d = chan_rcvd_eow(c) OBVIOUS
<1>2. d \in Chan /\ d.sent = c.sent BY <1>1, EowQuiet DEF Quiet, Keeps
<1>3. Calm(c, d)
  <2>1. CASE c.istate # "open" BY <1>1, <2>1, CalmSelf, Zenon DEF chan_rcvd_eow
  <2>2. CASE c.istate = "open"
    <3>1. d = [chan_shutdown_read(c) EXCEPT !.istate = "closed"] BY <1>1, <2>2, Zenon DEF chan_rcvd_eow
    <3>2. /\ d.type = c.type /\ d.usage = c.usage /\ d.local_window = c.local_window
          /\ d.local_consumed = c.local_consumed /\ d.remote_window = c.remote_window
          /\ d.extended = c.extended /\ d.input = c.input /\ d.output = c.output
      BY <3>1, ZenonT(60) DEF chan_shutdown_read, Chan
    <3>3. Calm(c, c) BY CalmSelf, Zenon
    <3> QED BY <1>2, <3>2, <3>3, Zenon DEF Calm
  <2> QED BY <2>1, <2>2, Zenon
<1> QED BY <1>1, <1>2, <1>3, CalmMoves

\* A packet without data put after some fields of no concern here were set.
LEMMA PutCalm ==
  ASSUME NEW c \in Chan, NEW d, NEW t \in {"EOF", "EOW", "CLOSE", "EXIT", "SIGNAL", "EXEC", "SUCCESS", "FAILURE", "OPENFAIL"},
         Tidy(c), Calm(c, d), d.sent = Append(c.sent, Pkt(t, 0))
  PROVE Moves(c, d, 0, 0)
<1>1. t \in Sendable /\ 0 \in Int BY DEF Sendable, Running, Plain, Data
<1>2. Pkt(t, 0) \in Packets /\ Pkt(t, 0).t = t BY <1>1, PutChan
<1>3. PICK m \in Packets : m = Pkt(t, 0) BY <1>2
<1>4. m.t \notin Data \cup Grants BY <1>2, <1>3 DEF Data, Grants
<1>5. m.n >= 0 BY <1>3 DEF Pkt
<1> QED BY <1>3, <1>4, <1>5, CalmPuts

LEMMA IbufMoves == ASSUME NEW c \in Chan, Tidy(c) PROVE Moves(c, chan_ibuf_empty(c), 0, 0)
<1>1. CASE ~(c.input = 0 /\ c.istate = "drain") BY <1>1, CalmSelf DEF chan_ibuf_empty
<1>2. CASE c.input = 0 /\ c.istate = "drain" /\ "close_sent" \in c.flags
  <2>1. PICK d : d = [c EXCEPT !.istate = "closed"] OBVIOUS
  <2>2. d \in Chan BY <2>1 DEF Chan, Directions
  <2>3. Calm(c, d) /\ d.sent = c.sent BY <2>1, <2>2, CalmSelf, ZenonT(60) DEF Calm, Chan
  <2>4. d = chan_ibuf_empty(c) BY <1>2, <2>1 DEF chan_ibuf_empty
  <2> QED BY <2>3, <2>4, CalmMoves
<1>3. CASE c.input = 0 /\ c.istate = "drain" /\ "close_sent" \notin c.flags
  <2>1. "EOF" \in Sendable /\ 0 \in Int BY DEF Sendable, Running
  <2>2. Put(c, "EOF", 0) \in Chan /\ Put(c, "EOF", 0).sent = Append(c.sent, Pkt("EOF", 0))
    BY <2>1, PutChan
  <2>3. PICK e \in Chan : e = Put(c, "EOF", 0) BY <2>2
  <2>4. Calm(c, e) BY <2>3, CalmSelf DEF Put, Calm, Chan
  <2>5. PICK f \in SUBSET Flags : f = e.flags \cup {"eof_sent"} BY DEF Chan, Flags
  <2>6. PICK d : d = [e EXCEPT !.flags = f, !.istate = "closed"] OBVIOUS
  <2>7. d \in Chan BY <2>6, ZenonT(60) DEF Chan, Directions
  <2>8. Calm(c, d) /\ d.sent = e.sent BY <2>4, <2>6, <2>7, ZenonT(60) DEF Calm, Chan
  <2>9. d = chan_ibuf_empty(c) BY <1>3, <2>3, <2>5, <2>6 DEF chan_ibuf_empty, chan_send_eof2, Chan
  <2> QED BY <2>2, <2>3, <2>8, <2>9, PutCalm
<1> QED BY <1>1, <1>2, <1>3

LEMMA WriteFailedMoves == ASSUME NEW c \in Chan, Tidy(c) PROVE Moves(c, chan_write_failed(c), 0, 0)
<1>1. PICK e \in Chan : e = chan_shutdown_write(c) BY ShutdownWriteQuiet DEF Quiet, Keeps
<1>2. Calm(c, e) /\ e.sent = c.sent BY <1>1, ShutdownWriteCalm
<1>3. e.ostate = c.ostate BY <1>1, ShutdownWriteQuiet
<1>4. "EOW" \in Sendable /\ 0 \in Int BY DEF Sendable, Running, Plain
<1>5. Put(e, "EOW", 0) \in Chan /\ Put(e, "EOW", 0).sent = Append(e.sent, Pkt("EOW", 0)) BY <1>4, PutChan
<1>6. PICK k \in Chan : k = Put(e, "EOW", 0) BY <1>5
<1>7. PICK d : d = [k EXCEPT !.ostate = "closed"] OBVIOUS
<1>8. d \in Chan BY <1>7, ZenonT(60) DEF Chan, Directions
<1>9. Calm(c, k) BY <1>2, <1>6, ZenonT(60) DEF Put, Calm, Chan
<1>10. Calm(c, d) /\ d.sent = k.sent BY <1>7, <1>8, <1>9, ZenonT(60) DEF Calm, Chan
<1>11. Moves(c, d, 0, 0) BY <1>2, <1>5, <1>6, <1>10, PutCalm
<1>12. CASE c.ostate \in {"open", "drain"}
  BY <1>1, <1>3, <1>6, <1>7, <1>11, <1>12 DEF chan_write_failed, chan_send_eow2
<1>13. CASE c.ostate \notin {"open", "drain"} BY <1>13, CalmSelf DEF chan_write_failed
<1> QED BY <1>12, <1>13

\* channels.c
LEMMA SendCloseMoves == ASSUME NEW c \in Chan, Tidy(c) PROVE Moves(c, chan_send_close2(c), 0, 0)
<1>1. CASE ~(c.ostate = "closed" /\ c.istate = "closed" /\ "close_sent" \notin c.flags)
  BY <1>1, CalmSelf DEF chan_send_close2
<1>2. CASE c.ostate = "closed" /\ c.istate = "closed" /\ "close_sent" \notin c.flags
  <2>1. "CLOSE" \in Sendable /\ 0 \in Int BY DEF Sendable, Running
  <2>2. Put(c, "CLOSE", 0) \in Chan /\ Put(c, "CLOSE", 0).sent = Append(c.sent, Pkt("CLOSE", 0))
    BY <2>1, PutChan
  <2>3. PICK e \in Chan : e = Put(c, "CLOSE", 0) BY <2>2
  <2>4. Calm(c, e) BY <2>3, CalmSelf DEF Put, Calm, Chan
  <2>5. PICK f \in SUBSET Flags : f = e.flags \cup {"close_sent"} BY DEF Chan, Flags
  <2>6. PICK d : d = [e EXCEPT !.flags = f] OBVIOUS
  <2>7. d \in Chan BY <2>6 DEF Chan
  <2>8. Calm(c, d) /\ d.sent = e.sent BY <2>4, <2>6, <2>7 DEF Calm, Chan
  <2>9. d = chan_send_close2(c) BY <1>2, <2>3, <2>5, <2>6 DEF chan_send_close2, Chan
  <2> QED BY <2>2, <2>3, <2>8, <2>9, PutCalm
<1> QED BY <1>1, <1>2

LEMMA MaybeCloseMoves ==
  ASSUME NEW c \in Chan, Tidy(c), NEW b PROVE Moves(c, chan_maybe_close(c, b), 0, 0)
  BY SendCloseMoves, CalmSelf DEF chan_maybe_close

LEMMA DetachMoves ==
  ASSUME NEW c \in Chan, Tidy(c), NEW b PROVE Moves(c, detach_user(c, b), 0, 0)
<1>1. PICK d : d = [c EXCEPT !.detach = "none", !.pid = FALSE] OBVIOUS
<1>2. d \in Chan BY <1>1 DEF Chan
<1>3. Calm(c, d) /\ d.sent = c.sent BY <1>1, <1>2, CalmSelf, ZenonT(60) DEF Calm, Chan
<1> QED BY <1>1, <1>3, CalmMoves, CalmSelf DEF detach_user

LEMMA FreeMoves == ASSUME NEW c \in Chan, Tidy(c) PROVE Moves(c, channel_free(c), 0, 0)
<1>1. PICK d : d = channel_free(c) OBVIOUS
<1>2. d \in Chan /\ d.sent = c.sent /\ d.type = "free" BY <1>1, FreeChan
<1>3. PICK k : k = channel_new("free", 0, "ignore", {}, FALSE) OBVIOUS
<1>4. /\ k.usage = "ignore" /\ k.input = 0 /\ k.output = 0 /\ k.extended = 0
      /\ k.local_window = 0 /\ k.local_consumed = 0 /\ k.remote_window = 0 BY <1>3 DEF channel_new
<1>5. d = [k EXCEPT !.detach = "none", !.tty = c.tty, !.sent = c.sent, !.err = c.err]
  BY <1>1, <1>3 DEF channel_free
<1>6. /\ d.usage = "ignore" /\ d.input = 0 /\ d.output = 0 /\ d.extended = 0
      /\ d.local_window = 0 /\ d.local_consumed = 0 /\ d.remote_window = 0
  BY <1>4, <1>5, <1>3 DEF channel_new
<1>7. d.type \notin Live BY <1>2 DEF Live
<1>8. Tidy(d) BY <1>2, <1>6, <1>7 DEF Tidy, Live
<1>9. DataSent(d) = DataSent(c) /\ DataSent(c) \in Int /\ c.remote_window \in Int /\ c.remote_window >= 0
  BY <1>2, ChanInts DEF DataSent, Tidy
<1>10. MaySend(d) = DataSent(c) BY <1>2, <1>7, <1>9, Amounts
<1>11. MaySend(c) \in {DataSent(c), c.remote_window + DataSent(c)} BY Amounts
<1>12. MaySend(d) <= MaySend(c) + 0 BY <1>9, <1>10, <1>11
<1> QED BY <1>1, <1>2, <1>6, <1>7, <1>8, <1>12 DEF Moves

LEMMA GcMoves == ASSUME NEW c \in Chan, Tidy(c) PROVE Moves(c, channel_garbage_collect(c), 0, 0)
<1>1. PICK asked : asked = chan_maybe_close(c, c.detach = "close") OBVIOUS
<1>2. Moves(c, asked, 0, 0) /\ asked \in Chan /\ Tidy(asked) BY <1>1, MaybeCloseMoves DEF Moves
<1>3. PICK told : told = IF c.detach # "none" /\ chan_is_dead(asked, c.detach = "close")
                         THEN detach_user(asked, FALSE) ELSE asked OBVIOUS
<1>4. Moves(asked, told, 0, 0) /\ told \in Chan /\ Tidy(told)
  BY <1>2, <1>3, DetachMoves, CalmSelf DEF Moves
<1>5. PICK last : last = chan_maybe_close(told, TRUE) OBVIOUS
<1>6. Moves(told, last, 0, 0) /\ last \in Chan /\ Tidy(last) BY <1>4, <1>5, MaybeCloseMoves DEF Moves
<1>7. Moves(last, channel_free(last), 0, 0) BY <1>6, FreeMoves
<1>8. Moves(c, told, 0, 0) BY <1>2, <1>4, MovesOn
<1>9. Moves(c, last, 0, 0) BY <1>6, <1>8, MovesOn
<1>10. Moves(c, channel_free(last), 0, 0) BY <1>7, <1>9, MovesOn
<1>11. channel_garbage_collect(c) \in {c, told, channel_free(last), last}
  BY <1>1, <1>3, <1>5 DEF channel_garbage_collect
<1> QED BY <1>8, <1>9, <1>10, <1>11, CalmSelf

LEMMA Equal == ASSUME NEW a \in Int PROVE a <= a + 0 /\ a >= a - 0 OBVIOUS

\* Data that leaves: what it takes from the other's window is sent.
LEMMA DataMoves ==
  ASSUME NEW c \in Chan, Tidy(c), NEW d \in Chan, NEW m \in Packets, NEW k \in Nat, m.t \in Data, m.n = k,
         d.sent = Append(c.sent, m), d.type = c.type, c.type = "open", d.usage = c.usage, c.usage = "write" => d.extended = c.extended,
         d.local_window = c.local_window, d.local_consumed = c.local_consumed, d.output = c.output,
         d.remote_window = c.remote_window - k, d.remote_window >= 0, d.input >= 0, d.extended >= 0
  PROVE Moves(c, d, 0, 0)
<1>1. PICK u \in Seq(Packets) : u = c.sent BY ChanInts
<1>2. m.t \notin Grants BY DEF Data, Grants
<1>3. Units(Append(u, m), Data) = Units(u, Data) + k /\ Units(Append(u, m), Grants) = Units(u, Grants) + 0
  BY <1>2, UnitsAppend DEF Weight
<1>4. DataSent(d) = DataSent(c) + k /\ GrantSent(d) = GrantSent(c)
  BY <1>1, <1>3, UnitsInt DEF DataSent, GrantSent
<1>5. Sizes(d.sent) BY <1>1, SizesAppend DEF Tidy
<1>6. /\ c.output \in Int /\ c.extended \in Int /\ c.local_window \in Int /\ c.local_consumed \in Int
      /\ c.remote_window \in Int /\ DataSent(c) \in Int /\ GrantSent(c) \in Int
      /\ MaySend(c) \in Int /\ Room(c) \in Int BY ChanInts
<1>7. c.type \in Live /\ d.type \in Live /\ d.type # "larval" BY DEF Live
<1>8. MaySend(d) = MaySend(c)
  <2>1. MaySend(d) = d.remote_window + DataSent(d) /\ MaySend(c) = c.remote_window + DataSent(c)
    BY <1>7, Amounts, Zenon
  <2>2. PICK a \in Int, b \in Int : a = c.remote_window /\ b = DataSent(c) BY <1>6, Zenon
  <2>3. (a - k) + (b + k) = a + b OBVIOUS
  <2>4. d.remote_window = a - k /\ DataSent(d) = b + k BY <1>4, <2>2, Zenon
  <2> QED BY <2>1, <2>2, <2>3, <2>4, Zenon
<1>9. Held(d) = Held(c) BY <1>6, Amounts
<1>10. Tidy(d) BY <1>5, <1>7, <1>9 DEF Tidy
<1>11. Room(d) = Room(c) BY <1>4 DEF Room
<1>12. MaySend(d) <= MaySend(c) + 0 /\ Room(d) >= Room(c) - 0 BY <1>6, <1>8, <1>11, Equal, Zenon
<1> QED BY <1>7, <1>10, <1>12, Zenon DEF Moves

LEMMA LenBounds ==
  ASSUME NEW a \in Int, NEW b \in Int, a >= 0, b >= 0
  PROVE  /\ Least(a, Least(b, Packet)) \in Nat
         /\ Least(a, Least(b, Packet)) <= a /\ Least(a, Least(b, Packet)) <= b
         /\ Least(a, Least(b, Packet)) <= Packet BY ChannelAssumption DEF Least

LEMMA OutputInputMoves ==
  ASSUME NEW c \in Chan, Tidy(c), c.type = "open"
  PROVE Moves(c, channel_output_poll_input_open(c), 0, 0)
<1>1. c.input \in Int /\ c.remote_window \in Int /\ c.input >= 0 /\ c.remote_window >= 0 /\ c.extended >= 0
  BY ChanInts DEF Tidy
<1>2. PICK len \in Nat : len = Least(c.input, Least(c.remote_window, Packet)) /\ len <= c.input /\ len <= c.remote_window
  BY <1>1, LenBounds
<1>3. CASE c.input = 0 BY <1>3, IbufMoves, CalmSelf DEF channel_output_poll_input_open
<1>4. CASE c.input # 0 /\ len = 0 BY <1>2, <1>4, CalmSelf DEF channel_output_poll_input_open
<1>5. CASE c.input # 0 /\ len # 0
  <2>1. "DATA" \in Sendable /\ "DATA" \in Data /\ len \in Int BY DEF Sendable, Running, Data
  <2>2. /\ Put(c, "DATA", len) \in Chan /\ Pkt("DATA", len) \in Packets
        /\ Pkt("DATA", len).t = "DATA" /\ Put(c, "DATA", len).sent = Append(c.sent, Pkt("DATA", len))
    BY <2>1, PutChan
  <2>3. PICK e \in Chan, m \in Packets : e = Put(c, "DATA", len) /\ m = Pkt("DATA", len) BY <2>2
  <2>4. e.sent = Append(c.sent, m) /\ m.t \in Data /\ m.n = len BY <2>1, <2>2, <2>3 DEF Pkt
  <2>5. /\ e.input = c.input /\ e.remote_window = c.remote_window /\ e.type = c.type /\ e.usage = c.usage
        /\ e.local_window = c.local_window /\ e.local_consumed = c.local_consumed /\ e.output = c.output
        /\ e.extended = c.extended BY <2>3 DEF Put, Chan
  <2>6. PICK x \in Int, y \in Int : x = c.input - len /\ y = c.remote_window - len BY <1>1
  <2>7. PICK d : d = [e EXCEPT !.input = x, !.remote_window = y] OBVIOUS
  <2>8. d = channel_output_poll_input_open(c)
    BY <1>2, <1>5, <2>3, <2>5, <2>6, <2>7 DEF channel_output_poll_input_open, Chan
  <2>9. d \in Chan BY <2>7 DEF Chan
  <2>10. /\ d.input = x /\ d.remote_window = y /\ d.type = e.type /\ d.usage = e.usage /\ d.sent = e.sent
         /\ d.local_window = e.local_window /\ d.local_consumed = e.local_consumed /\ d.output = e.output
         /\ d.extended = e.extended BY <2>7 DEF Chan
  <2>11. x >= 0 /\ y >= 0 BY <1>1, <1>2, <2>6
  <2> QED BY <1>1, <2>4, <2>5, <2>6, <2>8, <2>9, <2>10, <2>11, DataMoves
<1> QED BY <1>3, <1>4, <1>5

LEMMA OutputExtendedMoves ==
  ASSUME NEW c \in Chan, Tidy(c), c.type = "open", c.usage = "read"
  PROVE Moves(c, channel_output_poll_extended_read(c), 0, 0)
<1>1. c.extended \in Int /\ c.remote_window \in Int /\ c.input >= 0 /\ c.remote_window >= 0 /\ c.extended >= 0
  BY ChanInts DEF Tidy
<1>2. PICK len \in Nat : len = Least(c.extended, Least(c.remote_window, Packet)) /\ len <= c.extended /\ len <= c.remote_window
  BY <1>1, LenBounds
<1>4. CASE len = 0 BY <1>2, <1>4, CalmSelf DEF channel_output_poll_extended_read
<1>5. CASE len # 0
  <2>1. "EXT" \in Sendable /\ "EXT" \in Data /\ len \in Int BY DEF Sendable, Running, Data
  <2>2. /\ Put(c, "EXT", len) \in Chan /\ Pkt("EXT", len) \in Packets
        /\ Pkt("EXT", len).t = "EXT" /\ Put(c, "EXT", len).sent = Append(c.sent, Pkt("EXT", len))
    BY <2>1, PutChan
  <2>3. PICK e \in Chan, m \in Packets : e = Put(c, "EXT", len) /\ m = Pkt("EXT", len) BY <2>2
  <2>4. e.sent = Append(c.sent, m) /\ m.t \in Data /\ m.n = len BY <2>1, <2>2, <2>3 DEF Pkt
  <2>5. /\ e.input = c.input /\ e.remote_window = c.remote_window /\ e.type = c.type /\ e.usage = c.usage
        /\ e.local_window = c.local_window /\ e.local_consumed = c.local_consumed /\ e.output = c.output
        /\ e.extended = c.extended BY <2>3 DEF Put, Chan
  <2>6. PICK x \in Int, y \in Int : x = c.extended - len /\ y = c.remote_window - len BY <1>1
  <2>7. PICK d : d = [e EXCEPT !.extended = x, !.remote_window = y] OBVIOUS
  <2>8. d = channel_output_poll_extended_read(c)
    BY <1>2, <1>5, <2>3, <2>5, <2>6, <2>7 DEF channel_output_poll_extended_read, Chan
  <2>9. d \in Chan BY <2>7 DEF Chan
  <2>10. /\ d.input = e.input /\ d.remote_window = y /\ d.type = e.type /\ d.usage = e.usage /\ d.sent = e.sent
         /\ d.local_window = e.local_window /\ d.local_consumed = e.local_consumed /\ d.output = e.output
         /\ d.extended = x BY <2>7 DEF Chan
  <2>11. x >= 0 /\ y >= 0 BY <1>1, <1>2, <2>6
  <2> QED BY <1>1, <2>4, <2>5, <2>6, <2>8, <2>9, <2>10, <2>11, DataMoves, ZenonT(60)
<1> QED BY <1>4, <1>5

LEMMA OutputPollMoves ==
  ASSUME NEW c \in Chan, Tidy(c) PROVE Moves(c, channel_output_poll(c), 0, 0)
<1>1. CASE c.type # "open" \/ c.flags \cap {"close_sent", "close_rcvd"} # {}
  BY <1>1, CalmSelf DEF channel_output_poll
<1>2. CASE ~(c.type # "open" \/ c.flags \cap {"close_sent", "close_rcvd"} # {})
  <2>1. PICK d : d = IF c.istate \in {"open", "drain"} THEN channel_output_poll_input_open(c) ELSE c
    OBVIOUS
  <2>2. Moves(c, d, 0, 0) /\ d \in Chan /\ Tidy(d) BY <1>2, <2>1, OutputInputMoves, CalmSelf DEF Moves
  <2>3. d.type = "open"
    <3>1. chan_ibuf_empty(c).type = "open" BY <1>2 DEF chan_ibuf_empty, chan_send_eof2, Put, Chan
    <3>2. channel_output_poll_input_open(c).type = "open"
      BY <1>2, <3>1 DEF channel_output_poll_input_open, Put, Chan
    <3> QED BY <1>2, <2>1, <3>2
  <2>4. CASE "eof_sent" \notin d.flags /\ d.usage = "read"
    <3>1. Moves(d, channel_output_poll_extended_read(d), 0, 0) BY <2>2, <2>3, <2>4, OutputExtendedMoves
    <3>2. Moves(c, channel_output_poll_extended_read(d), 0, 0) BY <2>2, <3>1, MovesOn
    <3> QED BY <1>2, <2>1, <2>4, <3>2 DEF channel_output_poll
  <2>5. CASE ~("eof_sent" \notin d.flags /\ d.usage = "read")
    BY <1>2, <2>1, <2>2, <2>5 DEF channel_output_poll
  <2> QED BY <2>4, <2>5
<1> QED BY <1>1, <1>2

LEMMA ExitMessageMoves ==
  ASSUME NEW c \in Chan, Tidy(c), NEW status \in {"exited", "killed"}
  PROVE Moves(c, session_exit_message(c, status), 0, 0)
<1>k. PICK k \in {"EXIT", "SIGNAL"} : k = ExitRequest(status) BY DEF ExitRequest
<1>1. CASE ~channel_lookup(c)
  <2>1. PICK d : d = [c EXCEPT !.err = TRUE] OBVIOUS
  <2>2. d \in Chan BY <2>1 DEF Chan
  <2>3. Calm(c, d) /\ d.sent = c.sent BY <2>1, <2>2, CalmSelf, ZenonT(60) DEF Calm, Chan
  <2> QED BY <1>1, <2>1, <2>3, CalmMoves DEF session_exit_message
<1>2. CASE channel_lookup(c)
  <2>1. k \in Sendable /\ 0 \in Int BY DEF Sendable, Running, Plain
  <2>2. Put(c, k, 0) \in Chan /\ Put(c, k, 0).sent = Append(c.sent, Pkt(k, 0)) BY <2>1, PutChan
  <2>3. PICK e \in Chan : e = Put(c, k, 0) BY <2>2
  <2>4. Calm(c, e) BY <2>3, CalmSelf, ZenonT(60) DEF Put, Calm, Chan
  <2>5. PICK d : d = [e EXCEPT !.detach = "close", !.pid = FALSE] OBVIOUS
  <2>6. d \in Chan BY <2>5 DEF Chan
  <2>7. Calm(c, d) /\ d.sent = e.sent BY <2>4, <2>5, <2>6, ZenonT(60) DEF Calm, Chan
  <2>8. Moves(c, d, 0, 0) /\ Tidy(d) BY <2>2, <2>3, <2>7, PutCalm DEF Moves
  <2>9. Moves(d, chan_write_failed(d), 0, 0) BY <2>6, <2>8, WriteFailedMoves
  <2>10. Moves(c, chan_write_failed(d), 0, 0) BY <2>8, <2>9, MovesOn
  <2>11. session_exit_message(c, status) \in {d, chan_write_failed(d)}
    BY <1>2, <2>3, <2>5, <1>k DEF session_exit_message
  <2> QED BY <2>8, <2>10, <2>11
<1> QED BY <1>1, <1>2

LEMMA ForceCloseMoves ==
  ASSUME NEW c \in Chan, Tidy(c) PROVE Moves(c, channel_force_close(c), 0, 0)
<1>1. PICK d : d = chan_read_failed(c) OBVIOUS
<1>2. Moves(c, d, 0, 0) /\ d \in Chan /\ Tidy(d) BY <1>1, ReadFailedMoves DEF Moves
<1>3. PICK x \in Int : x = IF d.istate = "drain" THEN 0 ELSE d.input BY <1>2, ChanInts
<1>4. PICK k : k = [d EXCEPT !.input = x] OBVIOUS
<1>5. k \in Chan BY <1>2, <1>4 DEF Chan
<1>6. Calm(d, k) /\ k.sent = d.sent
  <2>1. x >= 0 BY <1>2, <1>3 DEF Tidy
  <2> QED BY <1>2, <1>4, <1>5, <2>1, CalmSelf DEF Calm, Chan
<1>7. Moves(d, k, 0, 0) /\ Tidy(k) BY <1>2, <1>6, CalmMoves DEF Moves
<1>8. PICK e : e = chan_ibuf_empty(k) OBVIOUS
<1>9. Moves(k, e, 0, 0) /\ e \in Chan /\ Tidy(e) BY <1>5, <1>7, <1>8, IbufMoves DEF Moves
<1>10. PICK f : f = chan_write_failed(e) OBVIOUS
<1>11. Moves(e, f, 0, 0) /\ f \in Chan /\ Tidy(f) BY <1>9, <1>10, WriteFailedMoves DEF Moves
<1>12. PICK g : g = detach_user(f, TRUE) OBVIOUS
<1>13. Moves(f, g, 0, 0) /\ g \in Chan /\ Tidy(g) BY <1>11, <1>12, DetachMoves DEF Moves
<1>14. PICK y \in SUBSET {"rfd", "wfd", "efd"} : y = g.fds \ {"efd"} BY <1>13 DEF Chan
<1>15. PICK h : h = [g EXCEPT !.fds = y, !.type = "abandoned"] OBVIOUS
<1>16. h \in Chan BY <1>13, <1>15 DEF Chan, Types
<1>17. Calm(g, h) /\ h.sent = g.sent BY <1>13, <1>15, <1>16, CalmSelf, ZenonT(60) DEF Calm, Chan, Live
<1>18. Moves(g, h, 0, 0) BY <1>13, <1>17, CalmMoves
<1>19. Moves(c, k, 0, 0) BY <1>2, <1>7, MovesOn
<1>20. Moves(c, e, 0, 0) BY <1>9, <1>19, MovesOn
<1>21. Moves(c, f, 0, 0) BY <1>11, <1>20, MovesOn
<1>22. Moves(c, g, 0, 0) BY <1>13, <1>21, MovesOn
<1>23. Moves(c, h, 0, 0) BY <1>18, <1>22, MovesOn
<1>24. h = channel_force_close(c)
  <2>1. k = [d EXCEPT !.input = IF d.istate = "drain" THEN 0 ELSE @] BY <1>2, <1>3, <1>4 DEF Chan
  <2>2. h = [g EXCEPT !.fds = @ \ {"efd"}, !.type = "abandoned"] BY <1>13, <1>14, <1>15 DEF Chan
  <2> QED BY <1>1, <1>8, <1>10, <1>12, <2>1, <2>2 DEF channel_force_close
<1> QED BY <1>23, <1>24

LEMMA PreOpenMoves ==
  ASSUME NEW c \in Chan, Tidy(c) PROVE Moves(c, channel_pre_open(c), 0, 0)
<1>1. PICK e : e = IF c.ostate = "drain" /\ c.output = 0 /\ ~CHANNEL_EFD_OUTPUT_ACTIVE(c)
                   THEN chan_obuf_empty(c) ELSE c OBVIOUS
<1>2. Moves(c, e, 0, 0) /\ e \in Chan /\ Tidy(e) BY <1>1, ObufMoves, CalmSelf DEF Moves
<1>3. PICK d : d = channel_pre_open(c) OBVIOUS
<1>4. d \in Chan BY <1>3, PreOpenQuiet DEF Quiet, Keeps
<1>5. \E w : d = [e EXCEPT !.want = w] BY <1>1, <1>3 DEF channel_pre_open
<1>6. PICK w : d = [e EXCEPT !.want = w] BY <1>5
<1>7. Calm(e, d) /\ d.sent = e.sent BY <1>2, <1>4, <1>6, CalmSelf, ZenonT(60) DEF Calm, Chan
<1>8. Moves(e, d, 0, 0) BY <1>2, <1>7, CalmMoves
<1> QED BY <1>2, <1>3, <1>8, MovesOn

LEMMA PrepareMoves ==
  ASSUME NEW c \in Chan, Tidy(c), NEW idle PROVE Moves(c, channel_prepare(c, idle), 0, 0)
  BY CalmSelf, ForceCloseMoves, PreOpenMoves DEF channel_prepare

\* What poll() reports ready.
LEMMA RfdMoves ==
  ASSUME NEW c \in Chan, Tidy(c), NEW n \in Int PROVE Moves(c, channel_handle_rfd(c, n), 0, 0)
<1>1. CASE channel_handle_rfd(c, n) \in {c, chan_read_failed(c)} BY <1>1, CalmSelf, ReadFailedMoves
<1>2. CASE channel_handle_rfd(c, n) \notin {c, chan_read_failed(c)}
  <2>1. n > 0 /\ channel_handle_rfd(c, n) = [c EXCEPT !.input = @ + n] BY <1>2 DEF channel_handle_rfd
  <2>2. PICK d : d = channel_handle_rfd(c, n) OBVIOUS
  <2>3. d \in Chan /\ d.sent = c.sent BY <2>2, HandleRfdQuiet DEF Quiet, Keeps
  <2>4. d.input = c.input + n /\ c.input \in Int /\ c.input >= 0 BY <2>1, <2>2, ChanInts DEF Chan, Tidy
  <2>5. /\ d.type = c.type /\ d.usage = c.usage /\ d.local_window = c.local_window
        /\ d.local_consumed = c.local_consumed /\ d.remote_window = c.remote_window
        /\ d.extended = c.extended /\ d.output = c.output BY <2>1, <2>2 DEF Chan
  <2>6. Calm(c, d) BY <2>1, <2>3, <2>4, <2>5, CalmSelf DEF Calm
  <2> QED BY <2>2, <2>3, <2>6, CalmMoves
<1> QED BY <1>1, <1>2

\* A call that moves k units from the output or from the extended output to local_consumed.
LEMMA ConsumeMoves ==
  ASSUME NEW c \in Chan, Tidy(c), NEW d \in Chan, c.type = "open", d.type = c.type, d.usage = c.usage,
         d.sent = c.sent, d.input = c.input, d.remote_window = c.remote_window, d.local_window = c.local_window,
         d.local_consumed >= 0, d.output >= 0, d.extended >= 0, Held(d) = Held(c)
  PROVE Moves(c, d, 0, 0)
<1>1. DataSent(d) = DataSent(c) /\ GrantSent(d) = GrantSent(c) BY DEF DataSent, GrantSent
<1>2. /\ c.remote_window \in Int /\ DataSent(c) \in Int /\ MaySend(c) \in Int /\ Room(c) \in Int
  BY ChanInts
<1>3. c.type \in Live /\ d.type \in Live /\ d.type # "larval" BY DEF Live
<1>4. MaySend(d) = MaySend(c) /\ Room(d) = Room(c) BY <1>1, <1>3, Amounts DEF Room
<1>5. Tidy(d) BY <1>3 DEF Tidy
<1> QED BY <1>2, <1>3, <1>4, <1>5 DEF Moves

LEMMA WfdMoves ==
  ASSUME NEW c \in Chan, Tidy(c), c.type = "open", NEW n \in Int, n <= c.output, n >= -1
  PROVE Moves(c, channel_handle_wfd(c, n), 0, 0)
<1>1. CASE channel_handle_wfd(c, n) \in {c, chan_write_failed(c)} BY <1>1, CalmSelf, WriteFailedMoves
<1>2. CASE channel_handle_wfd(c, n) \notin {c, chan_write_failed(c)}
  <2>1. n # 0 /\ n # -1 /\ channel_handle_wfd(c, n) = [c EXCEPT !.output = @ - n, !.local_consumed = @ + n]
    BY <1>2 DEF channel_handle_wfd
  <2>2. /\ c.output \in Int /\ c.local_consumed \in Int /\ c.local_window \in Int /\ c.extended \in Int
        /\ c.extended >= 0 /\ c.output >= 0 /\ c.local_consumed >= 0 BY ChanInts DEF Tidy
  <2>3. PICK x \in Int, y \in Int : x = c.output - n /\ y = c.local_consumed + n BY <2>2
  <2>4. PICK d : d = [c EXCEPT !.output = x, !.local_consumed = y] OBVIOUS
  <2>5. d = channel_handle_wfd(c, n) BY <2>1, <2>3, <2>4 DEF Chan
  <2>6. d \in Chan BY <2>4 DEF Chan
  <2>7. /\ d.type = c.type /\ d.usage = c.usage /\ d.sent = c.sent /\ d.input = c.input
        /\ d.remote_window = c.remote_window /\ d.local_window = c.local_window
        /\ d.extended = c.extended /\ d.output = x /\ d.local_consumed = y BY <2>4 DEF Chan
  <2>8. x >= 0 /\ y >= 0 BY <2>1, <2>2, <2>3
  <2>9. Held(d) = Held(c)
    <3>1. CASE c.usage = "write" BY <2>2, <2>3, <2>6, <2>7, <3>1, Amounts
    <3>2. CASE c.usage # "write" BY <2>2, <2>3, <2>6, <2>7, <3>2, Amounts
    <3> QED BY <3>1, <3>2
  <2> QED BY <2>2, <2>5, <2>6, <2>7, <2>8, <2>9, ConsumeMoves
<1> QED BY <1>1, <1>2

LEMMA EfdMoves ==
  ASSUME NEW c \in Chan, Tidy(c), c.type = "open", NEW n \in Int, n >= -1, c.usage = "write" => n <= c.extended
  PROVE Moves(c, channel_handle_efd(c, n), 0, 0)
<1>1. /\ c.output \in Int /\ c.local_consumed \in Int /\ c.local_window \in Int /\ c.extended \in Int
      /\ c.extended >= 0 /\ c.output >= 0 /\ c.local_consumed >= 0 BY ChanInts DEF Tidy
<1>2. PICK f \in SUBSET {"rfd", "wfd", "efd"} : f = c.fds \ {"efd"} BY DEF Chan
<1>3. PICK d : d = channel_handle_efd(c, n) OBVIOUS
<1>4. d \in Chan /\ d.sent = c.sent /\ d.type = c.type BY <1>3, HandleEfdQuiet DEF Quiet, Keeps
<1>5. CASE d = c BY <1>3, <1>5, CalmSelf
<1>6. CASE d = [c EXCEPT !.fds = @ \ {"efd"}]
  <2>1. Calm(c, d) BY <1>4, <1>6, CalmSelf DEF Calm, Chan
  <2> QED BY <1>3, <1>4, <2>1, CalmMoves
<1>7. CASE d = [c EXCEPT !.extended = @ - n, !.local_consumed = @ + n] /\ c.usage = "write" /\ n > 0
  <2>1. /\ d.usage = c.usage /\ d.input = c.input
        /\ d.remote_window = c.remote_window /\ d.local_window = c.local_window
        /\ d.extended = c.extended - n /\ d.output = c.output /\ d.local_consumed = c.local_consumed + n
    BY <1>7 DEF Chan
  <2>2. d.extended >= 0 /\ d.local_consumed >= 0 BY <1>1, <1>7, <2>1
  <2>3. Held(d) = Held(c)
    <3>1. /\ Held(c) = c.local_window + c.local_consumed + c.output + c.extended
          /\ Held(d) = c.local_window + (c.local_consumed + n) + c.output + (c.extended - n)
      BY <1>4, <1>7, <2>1, Amounts
    <3> QED BY <1>1, <3>1
  <2> QED BY <1>1, <1>3, <1>4, <2>1, <2>2, <2>3, ConsumeMoves
<1>8. CASE d = [c EXCEPT !.extended = @ + n] /\ c.usage # "write" /\ n > 0
  <2>1. /\ d.usage = c.usage /\ d.input = c.input
        /\ d.remote_window = c.remote_window /\ d.local_window = c.local_window
        /\ d.extended = c.extended + n /\ d.output = c.output /\ d.local_consumed = c.local_consumed
    BY <1>8 DEF Chan
  <2>2. d.extended >= 0 BY <1>1, <1>8, <2>1
  <2>3. Held(d) = Held(c) BY <1>4, <1>8, <2>1, Amounts, ZenonT(60)
  <2> QED BY <1>1, <1>3, <1>4, <2>1, <2>2, <2>3, ConsumeMoves
<1>9. n = -1 \/ n = 0 \/ n > 0 OBVIOUS
<1> QED BY <1>3, <1>5, <1>6, <1>7, <1>8, <1>9
         DEF channel_handle_efd, channel_handle_efd_write, channel_handle_efd_read

\* What was consumed is granted again, once.
LEMMA CheckWindowMoves ==
  ASSUME NEW c \in Chan, Tidy(c) PROVE Moves(c, channel_check_window(c), 0, 0)
<1>1. CASE channel_check_window(c) = c BY <1>1, CalmSelf
<1>2. CASE channel_check_window(c) # c
  <2>1. /\ c.type = "open"
        /\ channel_check_window(c) = [Put(c, "ADJUST", c.local_consumed) EXCEPT
                                        !.local_window = @ + c.local_consumed, !.local_consumed = 0]
    BY <1>2 DEF channel_check_window
  <2>2. /\ c.output \in Int /\ c.local_consumed \in Int /\ c.local_window \in Int /\ c.extended \in Int
        /\ c.remote_window \in Int /\ c.extended >= 0 /\ c.output >= 0 /\ c.local_consumed >= 0
        /\ c.input >= 0 /\ c.local_window >= 0 /\ DataSent(c) \in Int /\ GrantSent(c) \in Int
        /\ MaySend(c) \in Int /\ Room(c) \in Int BY ChanInts DEF Tidy
  <2>3. PICK len \in Int : len = c.local_consumed BY <2>2
  <2>4. "ADJUST" \in Sendable /\ "ADJUST" \in Grants /\ "ADJUST" \notin Data
    BY DEF Sendable, Running, Plain, Grants, Data
  <2>5. /\ Put(c, "ADJUST", len) \in Chan /\ Pkt("ADJUST", len) \in Packets
        /\ Pkt("ADJUST", len).t = "ADJUST" /\ Put(c, "ADJUST", len).sent = Append(c.sent, Pkt("ADJUST", len))
    BY <2>4, PutChan
  <2>6. PICK e \in Chan, m \in Packets : e = Put(c, "ADJUST", len) /\ m = Pkt("ADJUST", len) BY <2>5
  <2>7. e.sent = Append(c.sent, m) /\ m.t \in Grants /\ m.t \notin Data /\ m.n = len
    BY <2>4, <2>5, <2>6 DEF Pkt
  <2>8. /\ e.input = c.input /\ e.remote_window = c.remote_window /\ e.type = c.type /\ e.usage = c.usage
        /\ e.local_window = c.local_window /\ e.local_consumed = c.local_consumed /\ e.output = c.output
        /\ e.extended = c.extended BY <2>6 DEF Put, Chan
  <2>9. PICK x \in Int, y \in Int : x = c.local_window + len /\ y = 0 BY <2>2
  <2>10. PICK d : d = [e EXCEPT !.local_window = x, !.local_consumed = y] OBVIOUS
  <2>11. d = channel_check_window(c) BY <2>1, <2>3, <2>6, <2>8, <2>9, <2>10 DEF Chan
  <2>12. d \in Chan BY <2>10 DEF Chan
  <2>13. /\ d.input = c.input /\ d.remote_window = c.remote_window /\ d.type = c.type /\ d.usage = c.usage
         /\ d.sent = e.sent /\ d.local_window = x /\ d.local_consumed = y /\ d.output = c.output
         /\ d.extended = c.extended BY <2>8, <2>10 DEF Chan
  <2>14. PICK u \in Seq(Packets) : u = c.sent BY ChanInts
  <2>15. Units(Append(u, m), Data) = Units(u, Data) + 0 /\ Units(Append(u, m), Grants) = Units(u, Grants) + len
    BY <2>7, UnitsAppend DEF Weight
  <2>16. DataSent(d) = DataSent(c) /\ GrantSent(d) = GrantSent(c) + len
    BY <2>7, <2>13, <2>14, <2>15, UnitsInt DEF DataSent, GrantSent
  <2>17. m.n >= 0 BY <2>2, <2>3, <2>7
  <2>18. Sizes(d.sent) BY <2>7, <2>13, <2>14, <2>17, SizesAppend DEF Tidy
  <2>19. c.type \in Live /\ d.type \in Live /\ d.type # "larval" BY <2>1, <2>13 DEF Live
  <2>20. MaySend(d) = MaySend(c) BY <2>12, <2>13, <2>16, <2>19, Amounts
  <2>21. Room(d) = Room(c)
    <3>1. PICK a \in Int, b \in Int : a = c.local_window /\ b = GrantSent(c) BY <2>2, Zenon
    <3>2. d.local_window = a + len /\ GrantSent(d) = b + len BY <2>9, <2>13, <2>16, <3>1, Zenon
    <3>3. (a + len) - (b + len) = a - b BY <2>3
    <3> QED BY <3>1, <3>2, <3>3, Zenon DEF Room
  <2>22. Held(d) = Held(c)
    <3>1. CASE c.usage = "write" BY <2>2, <2>3, <2>9, <2>12, <2>13, <3>1, Amounts
    <3>2. CASE c.usage # "write" BY <2>2, <2>3, <2>9, <2>12, <2>13, <3>2, Amounts
    <3> QED BY <3>1, <3>2
  <2>23. x >= 0 /\ y >= 0 BY <2>2, <2>3, <2>9
  <2>24. Tidy(d) BY <2>13, <2>18, <2>19, <2>22, <2>23 DEF Tidy
  <2>25. MaySend(d) <= MaySend(c) + 0 /\ Room(d) >= Room(c) - 0 BY <2>2, <2>20, <2>21, Equal, Zenon
  <2>26. d.usage = c.usage /\ c.type \in Live BY <2>13, <2>19, Zenon
  <2>27. Moves(c, d, 0, 0) BY <2>12, <2>24, <2>25, <2>26, Zenon DEF Moves
  <2> QED BY <2>11, <2>27, Zenon
<1> QED BY <1>1, <1>2

(***************************************************************************)
(* The packets that arrive: data is taken from the window of the receiver, a *)
(* grant is added to the allowance of the sender.                          *)
(***************************************************************************)

\* The packets that arrive.
LEMMA MovesMore ==
  ASSUME NEW c \in Chan, NEW d, Moves(c, d, 0, 0), NEW g \in Nat, NEW n \in Nat
  PROVE Moves(c, d, g, n)
<1>1. d \in Chan BY DEF Moves
<1>2. MaySend(c) \in Int /\ MaySend(d) \in Int /\ Room(c) \in Int /\ Room(d) \in Int BY <1>1, ChanInts
<1> QED BY <1>2 DEF Moves

LEMMA ErrMoves ==
  ASSUME NEW c \in Chan, Tidy(c), NEW b \in BOOLEAN
  PROVE Moves(c, [c EXCEPT !.err = b], 0, 0)
<1>1. PICK d : d = [c EXCEPT !.err = b] OBVIOUS
<1>2. d \in Chan BY <1>1 DEF Chan
<1>3. Calm(c, d) /\ d.sent = c.sent BY <1>1, <1>2, CalmSelf DEF Calm, Chan
<1> QED BY <1>1, <1>3, CalmMoves

LEMMA PutMoves ==
  ASSUME NEW c \in Chan, Tidy(c),
         NEW t \in {"EOF", "EOW", "CLOSE", "EXIT", "SIGNAL", "EXEC", "SUCCESS", "FAILURE", "OPENFAIL"}
  PROVE Moves(c, Put(c, t, 0), 0, 0)
<1>1. t \in Sendable /\ 0 \in Int BY DEF Sendable, Running, Plain, Data
<1>2. Put(c, t, 0) \in Chan /\ Put(c, t, 0).sent = Append(c.sent, Pkt(t, 0)) BY <1>1, PutChan
<1>3. PICK d \in Chan : d = Put(c, t, 0) BY <1>2
<1>4. Calm(c, d) BY <1>3, CalmSelf DEF Put, Calm, Chan
<1> QED BY <1>2, <1>3, <1>4, PutCalm

\* A call that takes n from the window and keeps it.
LEMMA AcceptMoves ==
  ASSUME NEW c \in Chan, Tidy(c), NEW d \in Chan, NEW n \in Nat, n <= c.local_window, c.type = "open",
         d.type = c.type, d.usage = c.usage, d.sent = c.sent, d.input = c.input, d.remote_window = c.remote_window,
         d.local_window = c.local_window - n, d.local_consumed >= 0, d.output >= 0, d.extended >= 0,
         Held(d) = Held(c)
  PROVE Moves(c, d, 0, n)
<1>1. DataSent(d) = DataSent(c) /\ GrantSent(d) = GrantSent(c) BY DEF DataSent, GrantSent
<1>2. /\ c.remote_window \in Int /\ DataSent(c) \in Int /\ MaySend(c) \in Int /\ Room(c) \in Int
      /\ c.local_window \in Int /\ GrantSent(c) \in Int BY ChanInts
<1>3. c.type \in Live /\ d.type \in Live /\ d.type # "larval" BY DEF Live
<1>4. MaySend(d) = MaySend(c) /\ Room(d) = Room(c) - n BY <1>1, <1>2, <1>3, Amounts DEF Room
<1>6. d.local_window >= 0 BY <1>2
<1>5. Tidy(d) BY <1>3, <1>6 DEF Tidy
<1> QED BY <1>2, <1>3, <1>4, <1>5 DEF Moves

LEMMA DataMoved ==
  ASSUME NEW c \in Chan, Tidy(c), NEW n \in Nat, c.type = "open" => n <= c.local_window
  PROVE Moves(c, channel_input_data(c, n), 0, n)
<1>1. /\ c.output \in Int /\ c.local_consumed \in Int /\ c.local_window \in Int /\ c.extended \in Int
      /\ c.extended >= 0 /\ c.output >= 0 /\ c.local_consumed >= 0 BY ChanInts DEF Tidy
<1>2. CASE channel_input_data(c, n) = c BY <1>2, CalmSelf, MovesMore
<1>3. PICK x \in Int, y \in Int, z \in Int :
        x = c.local_window - n /\ y = c.local_consumed + n /\ z = c.output + n BY <1>1
<1>4. PICK d1 : d1 = [c EXCEPT !.local_window = x, !.local_consumed = y] OBVIOUS
<1>5. PICK d2 : d2 = [c EXCEPT !.local_window = x, !.output = z] OBVIOUS
<1>6. d1 \in Chan /\ d2 \in Chan BY <1>4, <1>5 DEF Chan
<1>7. /\ d1 = [c EXCEPT !.local_window = @ - n, !.local_consumed = @ + n]
      /\ d2 = [c EXCEPT !.local_window = @ - n, !.output = @ + n] BY <1>3, <1>4, <1>5 DEF Chan
<1>8. channel_input_data(c, n) \in {c, d1, d2} /\ (c.type # "open" => channel_input_data(c, n) = c)
  BY <1>7 DEF channel_input_data
<1>9. /\ d1.type = c.type /\ d1.usage = c.usage /\ d1.sent = c.sent /\ d1.input = c.input
      /\ d1.remote_window = c.remote_window /\ d1.local_window = x /\ d1.local_consumed = y
      /\ d1.output = c.output /\ d1.extended = c.extended BY <1>4 DEF Chan
<1>10. /\ d2.type = c.type /\ d2.usage = c.usage /\ d2.sent = c.sent /\ d2.input = c.input
       /\ d2.remote_window = c.remote_window /\ d2.local_window = x /\ d2.local_consumed = c.local_consumed
       /\ d2.output = z /\ d2.extended = c.extended BY <1>5 DEF Chan
<1>11. Held(d1) = Held(c) /\ Held(d2) = Held(c)
  <2>1. CASE c.usage = "write"
    <3>1. /\ Held(c) = c.local_window + c.local_consumed + c.output + c.extended
          /\ Held(d1) = x + y + c.output + c.extended /\ Held(d2) = x + c.local_consumed + z + c.extended
      BY <1>6, <1>9, <1>10, <2>1, Amounts
    <3> QED BY <1>1, <1>3, <3>1
  <2>2. CASE c.usage # "write"
    <3>1. /\ Held(c) = c.local_window + c.local_consumed + c.output
          /\ Held(d1) = x + y + c.output /\ Held(d2) = x + c.local_consumed + z
      BY <1>6, <1>9, <1>10, <2>2, Amounts
    <3> QED BY <1>1, <1>3, <3>1
  <2> QED BY <2>1, <2>2
<1>12. y >= 0 /\ z >= 0 BY <1>1, <1>3
<1>13. CASE c.type = "open"
  <2>1. n <= c.local_window BY <1>13
  <2>2. Moves(c, d1, 0, n) BY <1>1, <1>3, <1>6, <1>9, <1>11, <1>12, <1>13, <2>1, AcceptMoves
  <2>3. Moves(c, d2, 0, n) BY <1>1, <1>3, <1>6, <1>10, <1>11, <1>12, <1>13, <2>1, AcceptMoves
  <2> QED BY <1>2, <1>8, <2>2, <2>3
<1> QED BY <1>2, <1>8, <1>13

LEMMA ExtendedMoved ==
  ASSUME NEW c \in Chan, Tidy(c), NEW n \in Nat
  PROVE Moves(c, channel_input_extended_data(c, n), 0, n)
<1>1. /\ c.output \in Int /\ c.local_consumed \in Int /\ c.local_window \in Int /\ c.extended \in Int
      /\ c.extended >= 0 /\ c.output >= 0 /\ c.local_consumed >= 0 BY ChanInts DEF Tidy
<1>2. PICK x \in Int, y \in Int : x = c.extended + n /\ y = c.local_window - n BY <1>1
<1>3. PICK d : d = [c EXCEPT !.extended = x, !.local_window = y] OBVIOUS
<1>4. d \in Chan BY <1>3 DEF Chan
<1>5. d = [c EXCEPT !.extended = @ + n, !.local_window = @ - n] BY <1>2, <1>3 DEF Chan
<1>6. CASE channel_input_extended_data(c, n) = c BY <1>6, CalmSelf, MovesMore
<1>7. CASE channel_input_extended_data(c, n) = [c EXCEPT !.err = TRUE] BY <1>7, ErrMoves, MovesMore
<1>8. CASE channel_input_extended_data(c, n) = d /\ c.type = "open" /\ c.usage = "write" /\ ~(n > c.local_window)
  <2>1. /\ d.type = c.type /\ d.usage = c.usage /\ d.sent = c.sent /\ d.input = c.input
        /\ d.remote_window = c.remote_window /\ d.local_window = y /\ d.local_consumed = c.local_consumed
        /\ d.output = c.output /\ d.extended = x BY <1>3 DEF Chan
  <2>2. Held(d) = Held(c)
    <3>1. /\ Held(c) = c.local_window + c.local_consumed + c.output + c.extended
          /\ Held(d) = y + c.local_consumed + c.output + x BY <1>4, <1>8, <2>1, Amounts
    <3> QED BY <1>1, <1>2, <3>1
  <2>3. x >= 0 /\ n <= c.local_window BY <1>1, <1>2, <1>8
  <2> QED BY <1>1, <1>2, <1>4, <1>8, <2>1, <2>2, <2>3, AcceptMoves
<1> QED BY <1>5, <1>6, <1>7, <1>8 DEF channel_input_extended_data

LEMMA EofMoves == ASSUME NEW c \in Chan, Tidy(c) PROVE Moves(c, chan_rcvd_ieof(c), 0, 0)
<1>1. PICK f \in SUBSET Flags, y \in Directions :
        f = c.flags \cup {"eof_rcvd"} /\ y = IF c.ostate = "open" THEN "drain" ELSE c.ostate
  BY DEF Chan, Flags, Directions
<1>2. PICK d : d = [c EXCEPT !.flags = f, !.ostate = y] OBVIOUS
<1>3. d \in Chan BY <1>2 DEF Chan
<1>4. Calm(c, d) /\ d.sent = c.sent BY <1>2, <1>3, CalmSelf, ZenonT(60) DEF Calm, Chan
<1>5. Moves(c, d, 0, 0) /\ Tidy(d) BY <1>4, CalmMoves DEF Moves
<1>6. d = [c EXCEPT !.flags = @ \cup {"eof_rcvd"}, !.ostate = IF @ = "open" THEN "drain" ELSE @]
  BY <1>1, <1>2 DEF Chan
<1>7. chan_rcvd_ieof(c) \in {d, chan_obuf_empty(d)} BY <1>6 DEF chan_rcvd_ieof
<1>8. Moves(d, chan_obuf_empty(d), 0, 0) BY <1>3, <1>5, ObufMoves
<1>9. Moves(c, chan_obuf_empty(d), 0, 0) BY <1>5, <1>8, MovesOn
<1> QED BY <1>5, <1>7, <1>9

LEMMA CloseMoves == ASSUME NEW c \in Chan, Tidy(c) PROVE Moves(c, chan_rcvd_oclose(c), 0, 0)
<1>1. PICK f \in SUBSET Flags, y \in Directions :
        /\ f = c.flags \cup {"close_rcvd"}
        /\ y = IF c.type = "larval" THEN "closed" ELSE IF c.ostate = "open" THEN "drain" ELSE c.ostate
  BY DEF Chan, Flags, Directions
<1>2. PICK d : d = [c EXCEPT !.flags = f, !.ostate = y] OBVIOUS
<1>3. d \in Chan BY <1>2 DEF Chan
<1>4. Calm(c, d) /\ d.sent = c.sent /\ d.istate = c.istate
  BY <1>2, <1>3, CalmSelf, ZenonT(60) DEF Calm, Chan
<1>5. Moves(c, d, 0, 0) /\ Tidy(d) BY <1>4, CalmMoves DEF Moves
<1>6. d = [c EXCEPT !.flags = @ \cup {"close_rcvd"},
                    !.ostate = IF c.type = "larval" THEN "closed"
                               ELSE IF @ = "open" THEN "drain" ELSE @] BY <1>1, <1>2 DEF Chan
<1>7. ASSUME NEW k \in Chan, Tidy(k), NEW g, NEW fds, g = [k EXCEPT !.fds = fds, !.istate = "closed"],
             fds \in SUBSET {"rfd", "wfd", "efd"}
      PROVE Moves(k, g, 0, 0)
  <2>1. g \in Chan BY <1>7, ZenonT(60) DEF Chan, Directions
  <2>2. Calm(k, g) /\ g.sent = k.sent BY <1>7, <2>1, CalmSelf, ZenonT(60) DEF Calm, Chan
  <2> QED BY <1>7, <2>2, CalmMoves
<1>8. CASE c.type = "larval"
  <2>1. PICK g : g = [d EXCEPT !.fds = d.fds, !.istate = "closed"] OBVIOUS
  <2>2. d.fds \in SUBSET {"rfd", "wfd", "efd"} BY <1>3 DEF Chan
  <2>3. Moves(d, g, 0, 0) BY <1>3, <1>5, <1>7, <2>1, <2>2, Zenon
  <2>4. g = chan_rcvd_oclose(c) BY <1>3, <1>6, <1>8, <2>1 DEF chan_rcvd_oclose, Chan
  <2> QED BY <1>5, <2>3, <2>4, MovesOn
<1>9. CASE c.type # "larval" /\ c.istate = "open"
  <2>1. PICK fds \in SUBSET {"rfd", "wfd", "efd"} :
          fds = (chan_shutdown_extended_read(chan_shutdown_read(d))).fds
    <3>1. PICK k : k = chan_shutdown_read(d) OBVIOUS
    <3>2. k \in Chan BY <1>3, <3>1 DEF Chan, chan_shutdown_read
    <3>3. chan_shutdown_extended_read(k) \in Chan BY <3>2 DEF Chan, chan_shutdown_extended_read
    <3> QED BY <3>1, <3>3 DEF Chan
  <2>2. PICK g : g = [d EXCEPT !.fds = fds, !.istate = "closed"] OBVIOUS
  <2>3. Moves(d, g, 0, 0) BY <1>3, <1>5, <1>7, <2>2, Zenon
  <2>4. g = [chan_shutdown_extended_read(chan_shutdown_read(d)) EXCEPT !.istate = "closed"]
    BY <1>3, <2>1, <2>2 DEF Chan, chan_shutdown_extended_read, chan_shutdown_read
  <2>5. g = chan_rcvd_oclose(c) BY <1>6, <1>9, <2>4 DEF chan_rcvd_oclose
  <2> QED BY <1>5, <2>3, <2>5, MovesOn
<1>10. CASE c.type # "larval" /\ c.istate = "drain"
  <2>1. "EOF" \in Sendable /\ 0 \in Int BY DEF Sendable, Running
  <2>2. Put(d, "EOF", 0) \in Chan /\ Put(d, "EOF", 0).sent = Append(d.sent, Pkt("EOF", 0))
    BY <1>3, <2>1, PutChan
  <2>3. PICK e \in Chan : e = Put(d, "EOF", 0) BY <2>2
  <2>4. Calm(d, e) BY <1>3, <1>5, <2>3, CalmSelf DEF Put, Calm, Chan
  <2>5. PICK h \in SUBSET Flags : h = e.flags \cup {"eof_sent"} BY DEF Chan, Flags
  <2>6. PICK k : k = [e EXCEPT !.flags = h] OBVIOUS
  <2>7. k \in Chan BY <2>6 DEF Chan
  <2>8. Calm(d, k) /\ k.sent = e.sent BY <2>4, <2>6, <2>7 DEF Calm, Chan
  <2>9. Moves(d, k, 0, 0) /\ Tidy(k) BY <1>3, <1>5, <2>2, <2>3, <2>8, PutCalm DEF Moves
  <2>10. k = chan_send_eof2(d) BY <1>4, <1>10, <2>3, <2>5, <2>6 DEF chan_send_eof2, Chan
  <2>11. PICK fds \in SUBSET {"rfd", "wfd", "efd"} : fds = chan_shutdown_extended_read(k).fds
    <3>3. chan_shutdown_extended_read(k) \in Chan BY <2>7 DEF Chan, chan_shutdown_extended_read
    <3> QED BY <3>3 DEF Chan
  <2>12. PICK g : g = [k EXCEPT !.fds = fds, !.istate = "closed"] OBVIOUS
  <2>13. Moves(k, g, 0, 0) BY <1>7, <2>7, <2>9, <2>12, Zenon
  <2>14. g = [chan_shutdown_extended_read(k) EXCEPT !.istate = "closed"]
    BY <2>7, <2>11, <2>12 DEF Chan, chan_shutdown_extended_read
  <2>15. g = chan_rcvd_oclose(c) BY <1>6, <1>10, <2>10, <2>14 DEF chan_rcvd_oclose
  <2>16. Moves(c, k, 0, 0) BY <1>5, <2>9, MovesOn
  <2> QED BY <2>13, <2>15, <2>16, MovesOn
<1>11. CASE c.type # "larval" /\ c.istate = "closed"
  <2>1. d = chan_rcvd_oclose(c) BY <1>6, <1>11 DEF chan_rcvd_oclose
  <2> QED BY <1>5, <2>1
<1> QED BY <1>8, <1>9, <1>10, <1>11 DEF Chan, Directions

\* A call that sets the window it may send into.
LEMMA GrantMoves ==
  ASSUME NEW c \in Chan, Tidy(c), NEW d \in Chan, NEW n \in Nat, d.type \in {c.type, "open"},
         d.type \in Live => c.type \in Live, c.type = "larval" => d.type = "larval",
         d.usage = c.usage, d.sent = c.sent, d.input = c.input, d.output = c.output, d.extended = c.extended,
         d.local_window = c.local_window, d.local_consumed = c.local_consumed,
         d.remote_window >= 0, d.remote_window <= c.remote_window + n, d.type = "larval" => c.type = "larval"
  PROVE Moves(c, d, n, 0)
<1>1. DataSent(d) = DataSent(c) /\ GrantSent(d) = GrantSent(c) BY DEF DataSent, GrantSent
<1>2. /\ c.remote_window \in Int /\ d.remote_window \in Int /\ DataSent(c) \in Int /\ Room(c) \in Int
      /\ MaySend(c) \in Int /\ MaySend(d) \in Int BY ChanInts
<1>3. MaySend(d) <= MaySend(c) + n
  <2>1. CASE d.type \in Live
    <3>1. MaySend(d) = d.remote_window + DataSent(c) /\ MaySend(c) = c.remote_window + DataSent(c)
      BY <1>1, <2>1, Amounts
    <3> QED BY <1>2, <3>1
  <2>2. CASE d.type \notin Live
    <3>1. c.type \notin Live BY <2>2 DEF Live
    <3>2. MaySend(d) = DataSent(c) /\ MaySend(c) = DataSent(c) BY <1>1, <2>2, <3>1, Amounts
    <3> QED BY <1>2, <3>2
  <2> QED BY <2>1, <2>2
<1>4. Held(d) = Held(c) BY DEF Held
<1>5. Tidy(d) BY <1>4 DEF Tidy
<1>6. Room(d) = Room(c) BY <1>1 DEF Room
<1> QED BY <1>2, <1>3, <1>5, <1>6 DEF Moves

LEMMA AdjustMoves ==
  ASSUME NEW c \in Chan, Tidy(c), NEW n \in Nat
  PROVE Moves(c, channel_input_window_adjust(c, n), n, 0)
<1>1. c.remote_window \in Int /\ c.remote_window >= 0 BY ChanInts DEF Tidy
<1>2. PICK x \in Int : x = c.remote_window + n BY <1>1
<1>3. PICK d : d = [c EXCEPT !.remote_window = x] OBVIOUS
<1>4. d \in Chan BY <1>3 DEF Chan
<1>5. /\ d.type = c.type /\ d.usage = c.usage /\ d.sent = c.sent /\ d.input = c.input /\ d.output = c.output
      /\ d.extended = c.extended /\ d.local_window = c.local_window /\ d.local_consumed = c.local_consumed
      /\ d.remote_window = x BY <1>3 DEF Chan
<1>6. x >= 0 /\ x <= c.remote_window + n BY <1>1, <1>2
<1>7. d = channel_input_window_adjust(c, n) BY <1>2, <1>3 DEF Chan, channel_input_window_adjust
<1> QED BY <1>4, <1>5, <1>6, <1>7, GrantMoves

LEMMA ConfirmMoves ==
  ASSUME NEW c \in Chan, Tidy(c), NEW n \in Nat
  PROVE Moves(c, channel_input_open_confirmation(c, n), n, 0)
<1>1. CASE c.type # "opening" BY <1>1, ErrMoves, MovesMore DEF channel_input_open_confirmation
<1>2. CASE c.type = "opening"
  <2>1. c.remote_window \in Int /\ c.remote_window >= 0 BY ChanInts DEF Tidy
  <2>2. PICK d : d = [c EXCEPT !.remote_window = n, !.type = "open"] OBVIOUS
  <2>3. d \in Chan
    <3>1. n \in Int /\ "open" \in Types BY DEF Types
    <3> QED BY <2>2, <3>1 DEF Chan
  <2>4. /\ d.type = "open" /\ d.usage = c.usage /\ d.sent = c.sent /\ d.input = c.input /\ d.output = c.output
        /\ d.extended = c.extended /\ d.local_window = c.local_window /\ d.local_consumed = c.local_consumed
        /\ d.remote_window = n BY <2>2 DEF Chan
  <2>5. n >= 0 /\ n <= c.remote_window + n BY <2>1
  <2>6. c.type \in Live BY <1>2 DEF Live
  <2>7. Moves(c, d, n, 0) /\ Tidy(d) BY <1>2, <2>3, <2>4, <2>5, <2>6, GrantMoves DEF Moves
  <2>8. Moves(d, Put(d, "EXEC", 0), 0, 0) BY <2>3, <2>7, PutMoves
  <2>9. Moves(c, Put(d, "EXEC", 0), n, 0) BY <2>7, <2>8, MovesOn
  <2> QED BY <1>2, <2>2, <2>9 DEF channel_input_open_confirmation
<1> QED BY <1>1, <1>2

LEMMA OpenFailureMoves ==
  ASSUME NEW c \in Chan, Tidy(c) PROVE Moves(c, channel_input_open_failure(c), 0, 0)
<1>1. CASE c.type # "opening" BY <1>1, ErrMoves DEF channel_input_open_failure
<1>2. CASE c.type = "opening"
  <2>1. PICK d : d = [c EXCEPT !.type = "zombie"] OBVIOUS
  <2>2. d \in Chan BY <2>1 DEF Chan, Types
  <2>3. Calm(c, d) /\ d.sent = c.sent BY <2>1, <2>2, CalmSelf DEF Calm, Chan, Live
  <2> QED BY <1>2, <2>1, <2>3, CalmMoves DEF channel_input_open_failure, chan_mark_dead
<1> QED BY <1>1, <1>2

(***************************************************************************)
(* The invariant of the windows, between iterations.                       *)
(***************************************************************************)

LEMMA UnitsMore ==
  ASSUME NEW q \in Seq(Packets), Sizes(q), NEW ts, NEW us, ts \subseteq us
  PROVE Units(q, ts) <= Units(q, us)
<1>1. PICK f, g : Adds(q, ts, f) /\ Adds(q, us, g) BY AddsExists
<1>2. PICK n \in Nat : n = Len(q) OBVIOUS
<1>3. /\ f \in [0..n -> Int] /\ f[0] = 0 /\ \A i \in 1..n : f[i] = f[i - 1] + Weight(q[i], ts)
      /\ g \in [0..n -> Int] /\ g[0] = 0 /\ \A i \in 1..n : g[i] = g[i - 1] + Weight(q[i], us)
  BY <1>1, <1>2 DEF Adds
<1>4. \A i \in 1..n : Weight(q[i], ts) \in Int /\ Weight(q[i], us) \in Int /\ Weight(q[i], ts) <= Weight(q[i], us)
  <2>1. ASSUME NEW i \in 1..n PROVE q[i] \in Packets /\ q[i].n >= 0 BY <1>2 DEF Sizes
  <2> QED BY <2>1 DEF Weight, Packets, Sendable
<1> DEFINE T == {i \in 0..n : ~(f[i] <= g[i])}
<1>5. T = {}
  <2>1. SUFFICES ASSUME T # {} PROVE FALSE OBVIOUS
  <2>2. T \subseteq Nat OBVIOUS
  <2>3. PICK i \in T : \A j \in T : i <= j BY <2>1, <2>2, LeastOf
  <2>4. i # 0 BY <1>3, <2>3
  <2>5. i \in 1..n /\ i - 1 \in 0..n /\ f[i - 1] <= g[i - 1] BY <1>2, <2>3, <2>4
  <2>6. f[i - 1] \in Int /\ g[i - 1] \in Int /\ f[i] = f[i - 1] + Weight(q[i], ts) /\ g[i] = g[i - 1] + Weight(q[i], us)
    BY <1>3, <2>5
  <2>7. Weight(q[i], ts) \in Int /\ Weight(q[i], us) \in Int /\ Weight(q[i], ts) <= Weight(q[i], us)
    BY <1>4, <2>5
  <2>8. f[i] <= g[i] BY <2>5, <2>6, <2>7
  <2> QED BY <2>3, <2>8
<1>6. n \in 0..n OBVIOUS
<1>7. f[n] <= g[n] BY <1>5, <1>6
<1> QED BY <1>1, <1>2, <1>7, UnitsAdds

LEMMA PutAdjust ==
  ASSUME NEW k \in Chan
  PROVE Put(k, "ADJUST", Window) \in Chan /\ Put(k, "ADJUST", Window).sent = Append(k.sent, Pkt("ADJUST", Window))
<1>1. "ADJUST" \in Sendable /\ Window \in Int BY ChannelAssumption DEF Sendable, Running, Plain
<1> QED BY <1>1, PutChan

LEMMA StartedMoves ==
  ASSUME NEW c \in Chan, Tidy(c), c.type = "larval", NEW k, Started(c, k)
  PROVE Moves(c, Put(k, "ADJUST", Window), 0, 0)
<1>1. PICK f \in SUBSET {"rfd", "wfd", "efd"}, u \in {"read", "ignore"} :
        k = [c EXCEPT !.type = "open", !.local_window = Window, !.pid = TRUE, !.usage = u, !.fds = f]
  BY Zenon DEF Started
<1>2. Window \in Int /\ Window >= 0 BY ChannelAssumption
<1>3. k \in Chan
  <2>1. "open" \in Types /\ u \in {"read", "write", "ignore"} /\ TRUE \in BOOLEAN BY DEF Types
  <2> QED BY <1>1, <1>2, <2>1 DEF Chan
<1>4. /\ k.type = "open" /\ k.usage = u /\ k.local_window = Window /\ k.sent = c.sent /\ k.input = c.input
      /\ k.output = c.output /\ k.extended = c.extended /\ k.local_consumed = c.local_consumed
      /\ k.remote_window = c.remote_window BY <1>1 DEF Chan
<1>5. "ADJUST" \in Sendable BY DEF Sendable, Running, Plain
<1>21. Put(k, "ADJUST", Window) \in Chan /\ Put(k, "ADJUST", Window).sent = Append(k.sent, Pkt("ADJUST", Window))
  BY <1>3, PutAdjust
<1>6. PICK e \in Chan : e = Put(k, "ADJUST", Window) /\ e.sent = Append(k.sent, Pkt("ADJUST", Window))
  BY <1>21
<1>7. PICK m \in Packets : m = Pkt("ADJUST", Window) BY <1>2, <1>5 DEF Pkt, Packets, Sendable
<1>8. m.t = "ADJUST" /\ m.n = Window BY <1>7 DEF Pkt
<1>9. /\ e.type = "open" /\ e.usage = u /\ e.local_window = Window /\ e.input = c.input
      /\ e.output = c.output /\ e.extended = c.extended /\ e.local_consumed = c.local_consumed
      /\ e.remote_window = c.remote_window BY <1>3, <1>4, <1>6 DEF Put, Chan
<1>10. PICK s \in Seq(Packets) : s = c.sent BY ChanInts
<1>11. e.sent = Append(s, m) BY <1>4, <1>6, <1>7, <1>10
<1>12. Units(Append(s, m), Data) = Units(s, Data) + 0 /\ Units(Append(s, m), Grants) = Units(s, Grants) + Window
  BY <1>8, UnitsAppend DEF Weight, Data, Grants
<1>13. /\ DataSent(e) = DataSent(c) + 0 /\ GrantSent(e) = GrantSent(c) + Window
       /\ DataSent(c) \in Int /\ GrantSent(c) \in Int /\ c.remote_window \in Int
  BY <1>10, <1>11, <1>12, ChanInts DEF DataSent, GrantSent
<1>14. c.type \in Live /\ e.type \in Live /\ e.usage # "write" /\ e.type # "larval" BY <1>9 DEF Live
<1>15. MaySend(e) <= MaySend(c) + 0
  <2>1. MaySend(e) = c.remote_window + DataSent(e) /\ MaySend(c) = c.remote_window + DataSent(c)
    BY <1>9, <1>14, Amounts
  <2> QED BY <1>13, <2>1
<1>16. c.local_window = 0 /\ c.output = 0 /\ c.local_consumed = 0 BY DEF Tidy
<1>17. Held(e) <= Window
  <2>1. Held(e) = Window + 0 + 0 BY <1>9, <1>14, <1>16, Amounts
  <2> QED BY <1>2, <2>1
<1>18. Room(e) >= Room(c) - 0 BY <1>2, <1>9, <1>13, <1>16 DEF Room
<1>19. Sizes(e.sent) BY <1>2, <1>8, <1>10, <1>11, SizesAppend DEF Tidy
<1>20. Tidy(e) BY <1>2, <1>9, <1>14, <1>17, <1>19 DEF Tidy
<1> QED BY <1>6, <1>14, <1>15, <1>18, <1>20 DEF Moves

\* Each peer's lengths are in order, and each sends within what the other granted.
Windows ==
  /\ \A p \in Peers : /\ Tidy(ch[p]) /\ Sizes(net[p])
                      /\ Granted(ch[p], ch[Other(p)], net[Other(p)], net[p])
  /\ ch["server"].usage # "write"

LEMMA StoredValues ==
  ASSUME Shape, NEW p \in Peers, NEW d, NEW queue, Store(p, d, queue)
  PROVE  /\ ch'[p] = [d EXCEPT !.sent = <<>>, !.want = {}] /\ ch'[Other(p)] = ch[Other(p)]
         /\ net'[p] = queue /\ net'[Other(p)] = net[Other(p)] \o d.sent BY PeersFacts DEF Store, Shape

LEMMA SizesConcat ==
  ASSUME NEW s \in Seq(Packets), NEW u \in Seq(Packets), Sizes(s), Sizes(u)
  PROVE Sizes(s \o u) BY DEF Sizes

\* The records are put back: what was sent is on its way.
LEMMA PutBack ==
  ASSUME NEW d \in Chan, Tidy(d), NEW e, e = [d EXCEPT !.sent = <<>>, !.want = {}]
  PROVE  /\ e \in Chan /\ Tidy(e) /\ e.type = d.type /\ e.usage = d.usage /\ e.local_window = d.local_window
         /\ MaySend(e) + DataSent(d) = MaySend(d)
<1>6. <<>> \in Seq(Packets) OBVIOUS
<1>1. PICK u \in Seq(Packets) : u = <<>> BY <1>6
<1>2. e = [d EXCEPT !.sent = u, !.want = {}] BY <1>1
<1>3. e \in Chan BY <1>2, ZenonT(60) DEF Chan
<1>4. /\ e.type = d.type /\ e.usage = d.usage /\ e.local_window = d.local_window /\ e.input = d.input
      /\ e.output = d.output /\ e.extended = d.extended /\ e.local_consumed = d.local_consumed
      /\ e.remote_window = d.remote_window /\ e.sent = u BY <1>2 DEF Chan
<1>5. Held(e) = Held(d) BY <1>4 DEF Held
<1>7. Sizes(u) BY <1>1 DEF Sizes
<1>8. Tidy(e) BY <1>4, <1>5, <1>7 DEF Tidy
<1>9. DataSent(e) = 0 BY <1>1, <1>4, UnitsEmpty DEF DataSent
<1>10. MaySend(e) + DataSent(d) = MaySend(d)
  <2>1. DataSent(d) \in Int /\ d.remote_window \in Int BY ChanInts
  <2>2. CASE d.type \in Live
    <3>1. MaySend(e) = d.remote_window + 0 /\ MaySend(d) = d.remote_window + DataSent(d)
      BY <1>3, <1>4, <1>9, <2>2, Amounts
    <3> QED BY <2>1, <3>1
  <2>3. CASE d.type \notin Live
    <3>1. MaySend(e) = 0 /\ MaySend(d) = DataSent(d) BY <1>3, <1>4, <1>9, <2>3, Amounts
    <3> QED BY <2>1, <3>1
  <2> QED BY <2>2, <2>3
<1> QED BY <1>3, <1>4, <1>8, <1>10

\* A call that moves the windows keeps them honoured: g was granted by the packet that was
\* taken from the queue, and n is what it carried.
LEMMA StoreWindows ==
  ASSUME Shape, Windows, NEW p \in Peers, NEW d, NEW g \in Int, NEW n \in Int, Moves(ch[p], d, g, n),
         NEW queue \in Seq(Packets), Store(p, d, queue), Sizes(queue),
         Units(net[p], Grants) = g + Units(queue, Grants), Units(net[p], Data) = n + Units(queue, Data)
  PROVE Windows'
<1>1. PICK c \in Chan, r \in Chan, s \in Seq(Packets), in \in Seq(Packets) :
        c = ch[p] /\ r = ch[Other(p)] /\ s = net[Other(p)] /\ in = net[p] BY PeersFacts DEF Shape
<1>2. PICK u \in Seq(Packets) : u = d.sent BY ChanInts DEF Moves
<1>3. PICK e : e = [d EXCEPT !.sent = <<>>, !.want = {}] OBVIOUS
<1>4. /\ d \in Chan /\ Tidy(d) /\ MaySend(d) <= MaySend(c) + g /\ (d.usage = "write" => c.usage = "write")
      /\ d.type \in Live => c.type \in Live /\ Room(d) >= Room(c) - n BY <1>1 DEF Moves
<1>5. /\ e \in Chan /\ Tidy(e) /\ e.type = d.type /\ e.usage = d.usage /\ e.local_window = d.local_window
      /\ MaySend(e) + DataSent(d) = MaySend(d) BY <1>3, <1>4, PutBack, Zenon
<1>6. ch'[p] = e /\ ch'[Other(p)] = r /\ net'[p] = queue /\ net'[Other(p)] = s \o u
  BY <1>1, <1>2, <1>3, StoredValues, Zenon
<1>7. /\ Tidy(c) /\ Tidy(r) /\ Sizes(s) /\ Granted(c, r, s, in) /\ Granted(r, c, in, s)
  BY <1>1, PeersFacts DEF Windows
<1>8. /\ Units(s \o u, Data) = Units(s, Data) + DataSent(d) /\ Units(s \o u, Grants) = Units(s, Grants) + GrantSent(d)
  BY <1>2, UnitsConcat DEF DataSent, GrantSent
<1>9. /\ MaySend(c) \in Int /\ MaySend(d) \in Int /\ MaySend(e) \in Int /\ MaySend(r) \in Int /\ DataSent(d) \in Int
      /\ GrantSent(d) \in Int /\ Room(c) \in Int /\ Room(d) \in Int /\ c.local_window \in Int /\ d.local_window \in Int
      /\ r.local_window \in Int BY <1>4, <1>5, ChanInts
<1>10. /\ Units(s, Data) \in Int /\ Units(s, Grants) \in Int /\ Units(in, Data) \in Int /\ Units(in, Grants) \in Int
       /\ Units(queue, Data) \in Int /\ Units(queue, Grants) \in Int BY UnitsInt
<1>11. Units(in, Grants) = g + Units(queue, Grants) /\ Units(in, Data) = n + Units(queue, Data) BY <1>1
<1>12. Granted(e, r, s \o u, queue)
  <2>1. ASSUME r.type \in Live PROVE MaySend(e) + Units(s \o u, Data) + Units(queue, Grants) <= r.local_window
    <3>1. MaySend(c) + Units(s, Data) + Units(in, Grants) <= r.local_window BY <1>7, <2>1 DEF Granted
    <3>2. MaySend(d) <= MaySend(c) + g /\ MaySend(e) + DataSent(d) = MaySend(d) BY <1>4, <1>5
    <3>3. Units(s \o u, Data) = Units(s, Data) + DataSent(d) /\ Units(in, Grants) = g + Units(queue, Grants)
      BY <1>8, <1>11
    <3>4. PICK mc \in Int, md \in Int, me \in Int, ds \in Int, us \in Int, uq \in Int, w \in Int :
            /\ mc = MaySend(c) /\ md = MaySend(d) /\ me = MaySend(e) /\ ds = DataSent(d)
            /\ us = Units(s, Data) /\ uq = Units(queue, Grants) /\ w = r.local_window BY <1>9, <1>10
    <3>5. mc + us + (g + uq) <= w /\ md <= mc + g /\ me + ds = md BY <3>1, <3>2, <3>3, <3>4
    <3>6. me + (us + ds) + uq <= w BY <3>5
    <3> QED BY <3>3, <3>4, <3>6
  <2> QED BY <2>1 DEF Granted
<1>13. GrantSent(c) = 0 BY <1>1, UnitsEmpty DEF Shape, GrantSent
<1>14. Granted(r, e, queue, s \o u)
  <2>1. ASSUME d.type \in Live PROVE MaySend(r) + Units(queue, Data) + Units(s \o u, Grants) <= d.local_window
    <3>1. MaySend(r) + Units(in, Data) + Units(s, Grants) <= c.local_window
      BY <1>4, <1>7, <2>1 DEF Granted
    <3>2. Room(d) = d.local_window - GrantSent(d) /\ Room(c) = c.local_window - 0 /\ Room(d) >= Room(c) - n
      BY <1>4, <1>13, <2>1 DEF Room
    <3>3. Units(s \o u, Grants) = Units(s, Grants) + GrantSent(d) /\ Units(in, Data) = n + Units(queue, Data)
      BY <1>8, <1>11
    <3>4. PICK mr \in Int, gs \in Int, us \in Int, uq \in Int, w \in Int, v \in Int :
            /\ mr = MaySend(r) /\ gs = GrantSent(d)
            /\ us = Units(s, Grants) /\ uq = Units(queue, Data) /\ w = c.local_window /\ v = d.local_window
      BY <1>9, <1>10
    <3>5. mr + (n + uq) + us <= w /\ v - gs >= (w - 0) - n BY <3>1, <3>2, <3>3, <3>4
    <3>6. mr + uq + (us + gs) <= v BY <3>5
    <3> QED BY <3>3, <3>4, <3>6
  <2> QED BY <1>5, <2>1 DEF Granted
<1>15. Sizes(s \o u) BY <1>2, <1>4, <1>7, SizesConcat DEF Tidy
<1>16. \A q \in Peers : /\ Tidy(ch'[q]) /\ Sizes(net'[q])
                        /\ Granted(ch'[q], ch'[Other(q)], net'[Other(q)], net'[q])
  <2>1. \A q \in Peers : q = p \/ q = Other(p) BY PeersFacts
  <2>2. Other(Other(p)) = p BY PeersFacts
  <2> QED BY <1>5, <1>6, <1>7, <1>12, <1>14, <1>15, <2>1, <2>2, Zenon
<1>17. ch'["server"].usage # "write" BY <1>1, <1>4, <1>5, <1>6, PeersFacts DEF Windows
<1> QED BY <1>16, <1>17 DEF Windows, Tidy, Sizes, Granted, MaySend, DataSent, Held

(***************************************************************************)
(* An iteration of the loop, from the first call to the last.              *)
(***************************************************************************)

LEMMA WritesBounds ==
  ASSUME NEW f, NEW len \in Int, len >= 0, NEW x \in Writes(f, len)
  PROVE x \in Int /\ x >= -1 /\ x <= len BY DEF Writes

LEMMA ReadsBounds ==
  ASSUME src \in [Streams -> Int], NEW f \in Streams, NEW max \in Int, NEW x \in Reads(f, max)
  PROVE x \in Int /\ x >= -1
<1>1. src[f] \in Int /\ Least(src[f], max) \in Int BY LeastInt
<1> QED BY <1>1 DEF Reads

LEMMA RfdKeeps ==
  ASSUME NEW c \in Chan, NEW n \in Int, NEW d, d = channel_handle_rfd(c, n)
  PROVE d.output = c.output /\ d.extended = c.extended /\ d.usage = c.usage /\ d.type = c.type
<1>1. CASE d = c BY <1>1
<1>2. CASE d = chan_read_failed(c) BY <1>2 DEF chan_read_failed, chan_shutdown_read, Chan
<1>3. CASE d = [c EXCEPT !.input = @ + n] BY <1>3 DEF Chan
<1> QED BY <1>1, <1>2, <1>3 DEF channel_handle_rfd

LEMMA WriteFailedKeeps ==
  ASSUME NEW c \in Chan
  PROVE  /\ chan_write_failed(c).extended = c.extended /\ chan_write_failed(c).usage = c.usage
         /\ chan_write_failed(c).type = c.type
<1>1. PICK e \in Chan : e = chan_shutdown_write(c) BY ShutdownWriteQuiet DEF Quiet, Keeps
<1>2. e.extended = c.extended /\ e.usage = c.usage /\ e.type = c.type
  BY <1>1 DEF chan_shutdown_write, Chan
<1>3. PICK k : k = chan_send_eow2(e) OBVIOUS
<1>4. k.extended = c.extended /\ k.usage = c.usage /\ k.type = c.type /\ k \in Chan
  <2>1. "EOW" \in Sendable /\ 0 \in Int BY DEF Sendable, Running, Plain
  <2>2. Put(e, "EOW", 0) \in Chan BY <2>1, PutChan
  <2>3. Put(e, "EOW", 0).extended = e.extended /\ Put(e, "EOW", 0).usage = e.usage /\ Put(e, "EOW", 0).type = e.type
    BY DEF Put, Chan
  <2> QED BY <1>2, <1>3, <2>2, <2>3 DEF chan_send_eow2
<1>5. PICK g : g = [k EXCEPT !.ostate = "closed"] OBVIOUS
<1>6. g.extended = c.extended /\ g.usage = c.usage /\ g.type = c.type BY <1>4, <1>5 DEF Chan
<1>7. chan_write_failed(c) \in {c, g} BY <1>1, <1>3, <1>5 DEF chan_write_failed
<1> QED BY <1>6, <1>7

LEMMA WfdKeeps ==
  ASSUME NEW c \in Chan, NEW n \in Int, NEW d, d = channel_handle_wfd(c, n)
  PROVE d.extended = c.extended /\ d.usage = c.usage /\ d.type = c.type
<1>1. CASE d = c BY <1>1
<1>2. CASE d = chan_write_failed(c) BY <1>2, WriteFailedKeeps
<1>3. CASE d = [c EXCEPT !.output = @ - n, !.local_consumed = @ + n] BY <1>3 DEF Chan
<1> QED BY <1>1, <1>2, <1>3 DEF channel_handle_wfd

\* The part of an iteration before poll(), and what poll() lets it do.
LEMMA BeforePoll ==
  ASSUME Shape, Windows, src \in [Streams -> Int], NEW p \in Peers,
         NEW idle, NEW c1, NEW c2, NEW c2a, NEW c3, NEW c4, NEW c5, NEW c6, NEW c6a, NEW c7, NEW r, NEW w, NEW e,
         Iterates(p, idle, c1, c2, c2a, c3, c4, c5, c6, c6a, c7, r, w, e)
  PROVE  /\ Moves(ch[p], c3, 0, 0) /\ c3 \in Chan /\ Tidy(c3)
         /\ r \in Int /\ w \in Int /\ w >= -1 /\ w <= c3.output
         /\ e \in Int /\ e >= -1 /\ (c3.usage = "write" => e <= c3.extended)
<1>1. PICK c \in Chan : c = ch[p] BY DEF Shape
<1>2. Tidy(c) /\ (p = "server" => c.usage # "write") BY <1>1 DEF Windows
<1>3. Moves(c, c1, 0, 0) /\ c1 \in Chan /\ Tidy(c1)
  BY <1>1, <1>2, OutputPollMoves, Zenon DEF Iterates, Moves
<1>4. Moves(c1, c2, 0, 0) /\ c2 \in Chan /\ Tidy(c2)
  <2>1. c2 \in {c1, session_exit_message(c1, WaitStatus)} BY Zenon DEF Iterates
  <2>2. WaitStatus \in {"exited", "killed"} BY DEF WaitStatus
  <2> QED BY <1>3, <2>1, <2>2, CalmSelf, ExitMessageMoves DEF Moves
<1>z. 0 \in Int OBVIOUS
<1>5. Moves(c, c2, 0, 0) BY <1>3, <1>4, <1>z, MovesOn, Zenon
<1>6. Moves(c2, c2a, 0, 0) /\ c2a \in Chan /\ Tidy(c2a) BY <1>4, PrepareMoves, Zenon DEF Iterates, Moves
<1>7. Moves(c, c2a, 0, 0) BY <1>5, <1>6, <1>z, MovesOn, Zenon
<1>8. Moves(c2a, c3, 0, 0) /\ c3 \in Chan /\ Tidy(c3) BY <1>6, GcMoves, Zenon DEF Iterates, Moves
<1>9. Moves(c, c3, 0, 0) BY <1>7, <1>8, <1>z, MovesOn, Zenon
<1>10. c3.output \in Int /\ c3.output >= 0 /\ c3.extended \in Int /\ c3.extended >= 0
  BY <1>8, ChanInts, Zenon DEF Tidy
<1>11. /\ r \in Reads(IF p = "client" THEN "stdin" ELSE "stdout",
                 IF c3.input < c3.remote_window THEN Least(Packet, c3.remote_window - c3.input) ELSE 1)
       /\ w \in Writes(IF p = "client" THEN "stdout" ELSE "stdin", c3.output)
       /\ e \in IF p = "client" THEN Writes("stderr", c3.extended) ELSE Reads("stderr", RBuf)
  BY Zenon DEF Iterates
<1>12. r \in Int /\ w \in Int /\ e \in Int BY <1>8, <1>11, PolledInt
<1>13. w >= -1 /\ w <= c3.output BY <1>10, <1>11, WritesBounds
<1>14. e >= -1 /\ (c3.usage = "write" => e <= c3.extended)
  <2>1. CASE p = "client"
    <3>1. e \in Writes("stderr", c3.extended) BY <1>11, <2>1
    <3> QED BY <1>10, <3>1, WritesBounds
  <2>2. CASE p = "server"
    <3>1. e \in Reads("stderr", RBuf) /\ "stderr" \in Streams /\ RBuf \in Int
      BY <1>11, <2>2, ChannelAssumption DEF Streams
    <3>2. e >= -1 BY <3>1, ReadsBounds
    <3>3. c3.usage # "write" BY <1>2, <1>9, <2>2 DEF Moves
    <3> QED BY <3>2, <3>3
  <2> QED BY <2>1, <2>2 DEF Peers
<1> QED BY <1>1, <1>8, <1>9, <1>12, <1>13, <1>14

LEMMA ServeMoves ==
  ASSUME NEW c \in Chan, Tidy(c), c.type = "open", NEW r \in Int, NEW w \in Int, NEW e \in Int,
         w >= -1, w <= c.output, e >= -1, c.usage = "write" => e <= c.extended
  PROVE Moves(c, channel_handle_efd(channel_handle_wfd(channel_handle_rfd(c, r), w), e), 0, 0)
<1>1. PICK d : d = channel_handle_rfd(c, r) OBVIOUS
<1>2. Moves(c, d, 0, 0) /\ d \in Chan /\ Tidy(d) BY <1>1, RfdMoves DEF Moves
<1>3. d.output = c.output /\ d.extended = c.extended /\ d.usage = c.usage /\ d.type = "open"
  BY <1>1, RfdKeeps
<1>4. PICK f : f = channel_handle_wfd(d, w) OBVIOUS
<1>5. Moves(d, f, 0, 0) /\ f \in Chan /\ Tidy(f) BY <1>2, <1>3, <1>4, WfdMoves DEF Moves
<1>6. f.extended = c.extended /\ f.usage = c.usage /\ f.type = "open" BY <1>2, <1>3, <1>4, WfdKeeps
<1>7. Moves(f, channel_handle_efd(f, e), 0, 0) BY <1>5, <1>6, EfdMoves
<1>8. Moves(c, f, 0, 0) BY <1>2, <1>5, MovesOn
<1> QED BY <1>1, <1>4, <1>7, <1>8, MovesOn

LEMMA TurnWindows ==
  ASSUME Shape, Windows, src \in [Streams -> Int], NEW p \in Peers, Turn(p)
  PROVE Windows'
<1>1. PICK idle, c1, c2, c2a, c3, c4, c5, c6, c6a, c7, r, w, e :
           /\ Iterates(p, idle, c1, c2, c2a, c3, c4, c5, c6, c6a, c7, r, w, e)
           /\ Follows(p, idle, c3, c4, c7, e) /\ Assigns(p, idle, c3, c4, c7, w, e) BY TurnUnfold
<1>2. /\ Moves(ch[p], c3, 0, 0) /\ c3 \in Chan /\ Tidy(c3)
      /\ r \in Int /\ w \in Int /\ w >= -1 /\ w <= c3.output
      /\ e \in Int /\ e >= -1 /\ (c3.usage = "write" => e <= c3.extended) BY <1>1, BeforePoll
<1>3. Moves(c3, c6, 0, 0)
  <2>1. CASE c3.type = "open"
    <3>1. c6 = channel_handle_efd(channel_handle_wfd(channel_handle_rfd(c3, r), w), e)
      BY <1>1, <2>1, Zenon DEF Iterates
    <3>2. Moves(c3, channel_handle_efd(channel_handle_wfd(channel_handle_rfd(c3, r), w), e), 0, 0)
      BY <1>2, <2>1, ServeMoves
    <3> QED BY <3>1, <3>2, Zenon
  <2>2. CASE c3.type # "open"
    <3>1. c6 = c3 BY <1>1, <2>2, Zenon DEF Iterates
    <3> QED BY <1>2, <3>1, CalmSelf
  <2> QED BY <2>1, <2>2
<1>4. PICK c \in Chan : c = ch[p] BY DEF Shape
<1>5. Moves(c, c6, 0, 0) /\ c6 \in Chan /\ Tidy(c6)
  <2>1. Moves(c, c3, 0, 0) BY <1>2, <1>4
  <2>2. Moves(c, c6, 0, 0)
    <3>1. 0 \in Int OBVIOUS
    <3> QED BY <1>3, <2>1, <3>1, MovesOn, Zenon
  <2> QED BY <2>2 DEF Moves
<1>6. Moves(c6, c6a, 0, 0) /\ c6a \in Chan /\ Tidy(c6a)
  BY <1>1, <1>5, CheckWindowMoves, ZenonT(60) DEF Iterates, Moves
<1>7. Moves(c6a, c7, 0, 0) BY <1>1, <1>6, GcMoves, Zenon DEF Iterates
<1>8. Moves(c, c6a, 0, 0) BY <1>5, <1>6, MovesOn
<1>9. Moves(c, c7, 0, 0) BY <1>7, <1>8, MovesOn
<1>10. PICK queue \in Seq(Packets) : queue = net[p] BY DEF Shape
<1>11. Store(p, c7, queue) BY <1>1, <1>10 DEF Follows
<1>12. Units(queue, Grants) = 0 + Units(queue, Grants) /\ Units(queue, Data) = 0 + Units(queue, Data)
  BY UnitsInt
<1>13. Sizes(queue) BY <1>10 DEF Windows
<1> QED BY <1>4, <1>9, <1>10, <1>11, <1>12, <1>13, StoreWindows

(***************************************************************************)
(* A packet taken from the queue and its handler.                          *)
(***************************************************************************)

LEMMA HeadAmounts ==
  ASSUME Shape, Windows, NEW p \in Peers, net[p] # <<>>
  PROVE  /\ Head(net[p]) \in Packets /\ Head(net[p]).n \in Nat
         /\ \A ts : Weight(Head(net[p]), ts) \in Nat /\ Weight(Head(net[p]), ts) <= Units(net[p], ts)
         /\ Tail(net[p]) \in Seq(Packets) /\ Sizes(Tail(net[p]))
<1>1. PICK in \in Seq(Packets) : in = net[p] BY DEF Shape
<1>2. in # <<>> /\ Sizes(in) BY <1>1 DEF Windows
<1>3. Head(in) \in Packets /\ Tail(in) \in Seq(Packets) BY <1>2, TailParts
<1>4. Head(in) = in[1] /\ 1 \in 1..Len(in) BY <1>2
<1>5. Head(in).n \in Int /\ Head(in).n >= 0 BY <1>2, <1>3, <1>4 DEF Sizes, Packets, Sendable
<1>6. PICK y \in Seq(Packets) : y = Tail(in) BY <1>3
<1>7. Head(in).n \in Nat BY <1>5
<1>8. Sizes(y) BY <1>2, <1>6 DEF Sizes
<1>9. ASSUME NEW ts PROVE Weight(Head(in), ts) \in Nat /\ Weight(Head(in), ts) <= Units(in, ts)
  <2>1. Weight(Head(in), ts) \in Nat BY <1>6, <1>7 DEF Weight
  <2>2. Units(in, ts) = Weight(Head(in), ts) + Units(Tail(in), ts) BY <1>2, UnitsTail
  <2>3. Units(y, ts) \in Nat BY <1>8, UnitsNat DEF Sizes
  <2>4. Weight(Head(in), ts) <= Weight(Head(in), ts) + Units(y, ts) BY <2>1, <2>3
  <2> QED BY <1>6, <2>1, <2>2, <2>4
<1> QED BY <1>1, <1>3, <1>6, <1>7, <1>8, <1>9

LEMMA TakenWindows ==
  ASSUME Shape, Windows, NEW p \in Peers, net[p] # <<>>, NEW d, Store(p, d, Tail(net[p])),
         Moves(ch[p], d, Weight(Head(net[p]), Grants), Weight(Head(net[p]), Data))
  PROVE Windows'
<1>1. PICK in \in Seq(Packets) : in = net[p] BY DEF Shape
<1>2. PICK g \in Int, n \in Int : g = Weight(Head(in), Grants) /\ n = Weight(Head(in), Data)
  <2>1. Weight(Head(in), Grants) \in Nat /\ Weight(Head(in), Data) \in Nat BY <1>1, HeadAmounts, Zenon
  <2>2. Weight(Head(in), Grants) \in Int /\ Weight(Head(in), Data) \in Int BY <2>1
  <2> QED BY <2>2, Zenon
<1>3. PICK queue \in Seq(Packets) : queue = Tail(in) BY <1>1, HeadAmounts
<1>4. Sizes(queue) BY <1>1, <1>3, HeadAmounts
<1>5. Units(in, Grants) = g + Units(queue, Grants) /\ Units(in, Data) = n + Units(queue, Data)
  BY <1>1, <1>2, <1>3, UnitsTail
<1>6. Moves(ch[p], d, g, n) /\ Store(p, d, queue) BY <1>1, <1>2, <1>3
<1> QED BY <1>1, <1>4, <1>5, <1>6, StoreWindows

LEMMA TakenQuietly ==
  ASSUME Shape, Windows, NEW p \in Peers, net[p] # <<>>, NEW d, Store(p, d, Tail(net[p])),
         Moves(ch[p], d, 0, 0)
  PROVE Windows'
<1>1. PICK g \in Nat, n \in Nat : g = Weight(Head(net[p]), Grants) /\ n = Weight(Head(net[p]), Data)
  BY HeadAmounts
<1>2. PICK c \in Chan : c = ch[p] BY DEF Shape
<1>3. Moves(c, d, g, n) BY <1>2, MovesMore
<1> QED BY <1>1, <1>2, <1>3, TakenWindows

LEMMA ReceiveWindows ==
  ASSUME Shape, Windows, NEW p \in Peers, NEW t, NEW d, Receive(p, t, d), NEW g \in Nat, NEW n \in Nat,
         g = Weight(Head(net[p]), Grants), n = Weight(Head(net[p]), Data), Moves(ch[p], d, g, n)
  PROVE Windows'
<1>1. PICK c \in Chan : c = ch[p] BY DEF Shape
<1>2. net[p] # <<>> /\ Tidy(c) BY <1>1 DEF Receive, Arrived, Windows
<1>3. CASE channel_lookup(c)
  <2>1. Store(p, d, Tail(net[p])) BY <1>1, <1>3 DEF Receive, channel_from_packet_id
  <2> QED BY <1>2, <2>1, TakenWindows
<1>4. CASE ~channel_lookup(c)
  <2>1. PICK k : k = [c EXCEPT !.err = TRUE] OBVIOUS
  <2>2. Store(p, k, Tail(net[p])) BY <1>1, <1>4, <2>1 DEF Receive, channel_from_packet_id
  <2>3. Moves(c, k, 0, 0) BY <1>2, <2>1, ErrMoves
  <2> QED BY <1>1, <1>2, <2>2, <2>3, TakenQuietly
<1> QED BY <1>3, <1>4

LEMMA ReceiveQuietly ==
  ASSUME Shape, Windows, NEW p \in Peers, NEW t, NEW d, Receive(p, t, d), Moves(ch[p], d, 0, 0)
  PROVE Windows'
<1>1. net[p] # <<>> BY DEF Receive, Arrived
<1>2. PICK g \in Nat, n \in Nat : g = Weight(Head(net[p]), Grants) /\ n = Weight(Head(net[p]), Data)
  BY <1>1, HeadAmounts
<1>3. PICK c \in Chan : c = ch[p] BY DEF Shape
<1>4. Moves(c, d, g, n) BY <1>3, MovesMore
<1> QED BY <1>2, <1>3, <1>4, ReceiveWindows

\* What the other end sent, the receiver has room for.
LEMMA HeadFits ==
  ASSUME Shape, Windows, NEW p \in Peers, net[p] # <<>>, Head(net[p]).t \in Data, ch[p].type = "open"
  PROVE Head(net[p]).n \in Nat /\ Head(net[p]).n <= ch[p].local_window
<1>1. PICK c \in Chan, r \in Chan, s \in Seq(Packets), in \in Seq(Packets) :
        c = ch[p] /\ r = ch[Other(p)] /\ s = net[Other(p)] /\ in = net[p] BY PeersFacts DEF Shape
<1>2. Tidy(c) /\ Tidy(r) /\ Sizes(s) /\ Sizes(in) /\ Granted(r, c, in, s) BY <1>1, PeersFacts DEF Windows
<1>3. in # <<>> /\ Head(in).t \in Data /\ c.type = "open" BY <1>1
<1>4. PICK n \in Nat : n = Head(in).n BY <1>1, <1>3, HeadAmounts
<1>5. Weight(Head(in), Data) = n BY <1>3, <1>4 DEF Weight
<1>6. n <= Units(in, Data) BY <1>1, <1>3, <1>5, HeadAmounts
<1>7. MaySend(r) + Units(in, Data) + Units(s, Grants) <= c.local_window BY <1>2, <1>3 DEF Granted, Live
<1>8. Units(in, Data) \in Nat /\ Units(s, Grants) \in Nat /\ Units(r.sent, Data) \in Nat
  BY <1>2, ChanInts, UnitsNat DEF Sizes, Tidy
<1>9. MaySend(r) \in Int /\ MaySend(r) >= 0
  <2>1. DataSent(r) \in Nat /\ r.remote_window \in Int /\ r.remote_window >= 0
    BY <1>2, <1>8, ChanInts DEF DataSent, Tidy
  <2>2. CASE r.type \in Live
    <3>1. MaySend(r) = r.remote_window + DataSent(r) BY <2>2, Amounts
    <3> QED BY <2>1, <3>1
  <2>3. CASE r.type \notin Live
    <3>1. MaySend(r) = DataSent(r) BY <2>3, Amounts
    <3> QED BY <2>1, <3>1
  <2> QED BY <2>2, <2>3
<1>10. PICK a \in Int, b \in Nat, k \in Nat, w \in Int :
         a = MaySend(r) /\ b = Units(in, Data) /\ k = Units(s, Grants) /\ w = c.local_window
  BY <1>8, <1>9, ChanInts
<1>11. a + b + k <= w /\ a >= 0 /\ n <= b BY <1>6, <1>7, <1>9, <1>10
<1>12. n <= w BY <1>11
<1> QED BY <1>1, <1>4, <1>10, <1>12

LEMMA ReceiveDataWindows ==
  ASSUME Shape, Windows, NEW p \in Peers, ReceiveData(p) \/ ReceiveExtData(p)
  PROVE Windows'
<1>1. PICK c \in Chan, r \in Chan, s \in Seq(Packets), in \in Seq(Packets) :
        c = ch[p] /\ r = ch[Other(p)] /\ s = net[Other(p)] /\ in = net[p] BY PeersFacts DEF Shape
<1>2. Tidy(c) /\ Tidy(r) /\ Sizes(s) /\ Sizes(in) /\ Granted(r, c, in, s) BY <1>1, PeersFacts DEF Windows
<1>3. in # <<>> /\ Head(in).t \in Data BY <1>1 DEF ReceiveData, ReceiveExtData, Receive, Arrived, Data
<1>4. PICK n \in Nat : n = Head(in).n BY <1>1, <1>3, HeadAmounts
<1>5. Weight(Head(in), Grants) = 0 /\ Weight(Head(in), Data) = n BY <1>3, <1>4 DEF Weight, Data, Grants
<1>7. c.type = "open" => n <= c.local_window BY <1>1, <1>3, <1>4, HeadFits
<1>10. 0 \in Nat OBVIOUS
<1>8. CASE ReceiveData(p)
  <2>1. PICK d : d = channel_input_data(c, n) OBVIOUS
  <2>2. Receive(p, "DATA", d) BY <1>1, <1>4, <1>8, <2>1 DEF ReceiveData
  <2>3. Moves(c, d, 0, n) BY <1>2, <1>7, <2>1, DataMoved
  <2> QED BY <1>1, <1>5, <1>10, <2>2, <2>3, ReceiveWindows, Zenon
<1>9. CASE ReceiveExtData(p)
  <2>1. PICK d : d = channel_input_extended_data(c, n) OBVIOUS
  <2>2. Receive(p, "EXT", d) BY <1>1, <1>4, <1>9, <2>1 DEF ReceiveExtData
  <2>3. Moves(c, d, 0, n) BY <1>2, <2>1, ExtendedMoved
  <2> QED BY <1>1, <1>5, <1>10, <2>2, <2>3, ReceiveWindows, Zenon
<1> QED BY <1>8, <1>9

LEMMA ReceiveGrantWindows ==
  ASSUME Shape, Windows, NEW p \in Peers, ReceiveAdjust(p) \/ (p = "client" /\ ReceiveConfirm)
  PROVE Windows'
<1>1. PICK c \in Chan, in \in Seq(Packets) : c = ch[p] /\ in = net[p] BY PeersFacts DEF Shape
<1>2. Tidy(c) BY <1>1 DEF Windows
<1>3. in # <<>> /\ Head(in).t \in {"ADJUST", "CONFIRM"}
  BY <1>1 DEF ReceiveAdjust, ReceiveConfirm, Receive, Arrived
<1>4. PICK n \in Nat : n = Head(in).n BY <1>1, <1>3, HeadAmounts
<1>5. Weight(Head(in), Grants) = n /\ Weight(Head(in), Data) = 0 BY <1>3, <1>4 DEF Weight, Data, Grants
<1>6. CASE ReceiveAdjust(p)
  <2>1. CASE channel_lookup(c)
    <3>1. PICK d : d = channel_input_window_adjust(c, n) OBVIOUS
    <3>2. Store(p, d, Tail(in)) BY <1>1, <1>4, <1>6, <2>1, <3>1 DEF ReceiveAdjust
    <3>3. Moves(c, d, n, 0) BY <1>2, <3>1, AdjustMoves
    <3> QED BY <1>1, <1>3, <1>5, <3>2, <3>3, TakenWindows
  <2>2. CASE ~channel_lookup(c)
    <3>1. Store(p, c, Tail(in)) BY <1>1, <1>6, <2>2 DEF ReceiveAdjust
    <3>2. Moves(c, c, 0, 0) BY <1>2, CalmSelf
    <3> QED BY <1>1, <1>3, <3>1, <3>2, TakenQuietly
  <2> QED BY <2>1, <2>2
<1>7. CASE p = "client" /\ ReceiveConfirm
  <2>1. PICK d : d = channel_input_open_confirmation(c, n) OBVIOUS
  <2>2. Receive(p, "CONFIRM", d) BY <1>1, <1>4, <1>7, <2>1 DEF ReceiveConfirm
  <2>3. Moves(c, d, n, 0) BY <1>2, <2>1, ConfirmMoves
  <2> QED BY <1>1, <1>5, <2>2, <2>3, ReceiveWindows
<1> QED BY <1>6, <1>7

LEMMA ReceivePlainWindows ==
  ASSUME Shape, Windows, NEW p \in Peers,
         \/ ReceiveEof(p) \/ ReceiveClose(p) \/ ReceiveEow(p)
         \/ p = "client" /\ (ReceiveOpenFailure \/ ReceiveExit \/ ReceiveExitSignal \/ ReceiveSuccess)
  PROVE Windows'
<1>1. PICK c \in Chan : c = ch[p] BY PeersFacts DEF Shape
<1>2. Tidy(c) BY <1>1 DEF Windows
<1>3. CASE ReceiveEof(p)
  <2>1. Moves(c, chan_rcvd_ieof(c), 0, 0) BY <1>2, EofMoves
  <2> QED BY <1>1, <1>3, <2>1, ReceiveQuietly DEF ReceiveEof
<1>4. CASE ReceiveClose(p)
  <2>1. Moves(c, chan_rcvd_oclose(c), 0, 0) BY <1>2, CloseMoves
  <2> QED BY <1>1, <1>4, <2>1, ReceiveQuietly DEF ReceiveClose
<1>5. CASE ReceiveEow(p)
  <2>1. PICK b \in BOOLEAN : b = (p = "server") OBVIOUS
  <2>2. PICK d : d = IF channel_lookup(c) THEN chan_rcvd_eow(c) ELSE [c EXCEPT !.err = b] OBVIOUS
  <2>3. Store(p, d, Tail(net[p])) /\ net[p] # <<>> BY <1>1, <1>5, <2>1, <2>2 DEF ReceiveEow, Arrived
  <2>4. Moves(c, d, 0, 0) BY <1>2, <2>2, EowMoves, ErrMoves
  <2> QED BY <1>1, <2>3, <2>4, TakenQuietly
<1>6. CASE p = "client" /\ ReceiveOpenFailure
  <2>1. Moves(c, channel_input_open_failure(c), 0, 0) BY <1>2, OpenFailureMoves
  <2> QED BY <1>1, <1>6, <2>1, ReceiveQuietly DEF ReceiveOpenFailure
<1>7. CASE p = "client" /\ (ReceiveExit \/ ReceiveExitSignal \/ ReceiveSuccess)
  <2>1. Store(p, c, Tail(net[p])) /\ net[p] # <<>>
    BY <1>1, <1>7 DEF ReceiveExit, ReceiveExitSignal, ReceiveSuccess, Arrived
  <2>2. Moves(c, c, 0, 0) BY <1>2, CalmSelf
  <2> QED BY <1>1, <2>1, <2>2, TakenQuietly
<1> QED BY <1>3, <1>4, <1>5, <1>6, <1>7

LEMMA ReceiveExecWindows ==
  ASSUME Shape, Windows, ReceiveExec
  PROVE Windows'
<1>1. PICK p \in Peers : p = "server" BY DEF Peers
<1>2. PICK c \in Chan : c = ch[p] BY DEF Shape
<1>3. Tidy(c) BY <1>2 DEF Windows
<1>4. PICK ok \in BOOLEAN :
        LET e == channel_from_packet_id(p, session_input_channel_req(c, ok))
            done == e.pid /\ ~c.pid
        IN Store(p, IF "close_sent" \in e.flags \/ e.err THEN e
                    ELSE Put(e, IF done THEN "SUCCESS" ELSE "FAILURE", 0), Tail(net[p]))
  BY <1>1, <1>2 DEF ReceiveExec
<1>5. PICK e : e = channel_from_packet_id(p, session_input_channel_req(c, ok)) OBVIOUS
<1>6. Moves(c, e, 0, 0) /\ e \in Chan /\ Tidy(e)
  <2>1. CASE ~channel_lookup(c)
    <3>1. e = [c EXCEPT !.err = TRUE] BY <1>2, <1>5, <2>1 DEF channel_from_packet_id
    <3>2. Moves(c, [c EXCEPT !.err = TRUE], 0, 0) BY <1>3, ErrMoves
    <3> QED BY <3>1, <3>2 DEF Moves
  <2>2. CASE channel_lookup(c) /\ c.type = "larval" /\ c.detach # "none" /\ ok
    <3>1. PICK f \in SUBSET {"rfd", "wfd", "efd"} : f = {"rfd", "wfd"} \cup (IF c.tty THEN {} ELSE {"efd"})
      OBVIOUS
    <3>2. PICK u \in {"read", "ignore"} : u = IF c.tty THEN "ignore" ELSE "read" OBVIOUS
    <3>3. PICK k : k = [c EXCEPT !.type = "open", !.local_window = Window, !.pid = TRUE, !.usage = u, !.fds = f]
      OBVIOUS
    <3>4. Started(c, k) BY <3>3, Zenon DEF Started
    <3>5. Put(k, "ADJUST", Window) = session_input_channel_req(c, ok)
      BY <2>2, <3>1, <3>2, <3>3 DEF session_input_channel_req
    <3>6. e = Put(k, "ADJUST", Window) BY <1>2, <1>5, <2>2, <3>5 DEF channel_from_packet_id
    <3>7. Moves(c, Put(k, "ADJUST", Window), 0, 0) BY <1>3, <2>2, <3>4, StartedMoves
    <3> QED BY <3>6, <3>7 DEF Moves
  <2>3. CASE channel_lookup(c) /\ ~(c.type = "larval" /\ c.detach # "none" /\ ok)
    <3>1. e = c BY <1>2, <1>5, <2>3 DEF channel_from_packet_id, session_input_channel_req
    <3> QED BY <1>3, <3>1, CalmSelf
  <2> QED BY <2>1, <2>2, <2>3
<1>7. PICK d : d = IF "close_sent" \in e.flags \/ e.err THEN e
                   ELSE Put(e, IF e.pid /\ ~c.pid THEN "SUCCESS" ELSE "FAILURE", 0) OBVIOUS
<1>8. Store(p, d, Tail(net[p])) BY <1>4, <1>5, <1>7
<1>9. Moves(e, Put(e, "SUCCESS", 0), 0, 0) /\ Moves(e, Put(e, "FAILURE", 0), 0, 0) /\ Moves(e, e, 0, 0)
  BY <1>6, PutMoves, CalmSelf
<1>10. d \in {e, Put(e, "SUCCESS", 0), Put(e, "FAILURE", 0)} BY <1>7
<1>11. Moves(e, d, 0, 0) BY <1>9, <1>10
<1>12. Moves(c, d, 0, 0) BY <1>6, <1>11, MovesOn
<1>13. net[p] # <<>> BY <1>1 DEF ReceiveExec, Arrived
<1> QED BY <1>2, <1>8, <1>12, <1>13, TakenQuietly

LEMMA DisconnectWindows == ASSUME Shape, Windows, Disconnect PROVE Windows'
<1>1. ASSUME NEW p \in Peers
      PROVE  /\ Tidy(ch'[p]) /\ Sizes(net'[p]) /\ ch'[p].type = "free" /\ net'[p] = <<>>
             /\ ch'[p].usage = "write" => ch[p].usage = "write"
  <2>1. PICK c \in Chan : c = ch[p] BY DEF Shape
  <2>2. Tidy(c) BY <2>1 DEF Windows
  <2>3. PICK d : d = channel_free(c) OBVIOUS
  <2>4. Moves(c, d, 0, 0) BY <2>2, <2>3, FreeMoves
  <2>5. d.type = "free" BY <2>3, FreeChan
  <2>6. ch'[p] = d /\ net'[p] = <<>> BY <2>1, <2>3 DEF Disconnect
  <2>7. Sizes(<<>>) BY DEF Sizes
  <2> QED BY <2>1, <2>4, <2>5, <2>6, <2>7 DEF Moves
<1>2. \A p \in Peers : Granted(ch'[p], ch'[Other(p)], net'[Other(p)], net'[p])
  BY <1>1, PeersFacts DEF Granted, Live
<1>3. ch'["server"].usage # "write" BY <1>1, PeersFacts DEF Windows
<1> QED BY <1>1, <1>2, <1>3 DEF Windows, Tidy, Sizes, Granted, MaySend, DataSent, Held

(***************************************************************************)
(* The opening of the channel, every step, and the property.               *)
(***************************************************************************)

LEMMA ReceiveOpenWindows ==
  ASSUME Shape, Windows, Requested, ReceiveOpen
  PROVE Windows'
<1>1. PICK p \in Peers : p = "server" BY DEF Peers
<1>2. PICK c \in Chan, r \in Chan, in \in Seq(Packets) : c = ch[p] /\ r = ch[Other(p)] /\ in = net[p]
  BY PeersFacts DEF Shape
<1>3. /\ c.type = "free" /\ r.type = "opening" /\ r.remote_window = 0 /\ c.sent = <<>> /\ r.sent = <<>>
      /\ net[Other(p)] = <<>> /\ Len(in) = 1 /\ Head(in).t = "OPEN"
  BY <1>1, <1>2, PeersFacts DEF Requested, Shape
<1>4. in # <<>> BY <1>3
<1>5. PICK n \in Nat : n = Head(in).n BY <1>2, <1>4, HeadAmounts
<1>6. PICK queue \in Seq(Packets) : queue = Tail(in) /\ queue = <<>> BY <1>3, TailOfOne, ZenonT(60)
<1>7. PICK tty \in Ttys, ok \in BOOLEAN :
        Store(p, IF ok THEN Put([channel_new("larval", 0, "ignore", {}, tty) EXCEPT !.remote_window = n], "CONFIRM", 0)
                       ELSE Put(c, "OPENFAIL", 0), queue) BY <1>1, <1>2, <1>5, <1>6 DEF ReceiveOpen
<1>8. Tidy(c) /\ Tidy(r) /\ Granted(c, r, <<>>, in) BY <1>2, <1>3, PeersFacts DEF Windows
<1>9. CASE ~ok
  <2>1. Store(p, Put(c, "OPENFAIL", 0), Tail(in)) BY <1>6, <1>7, <1>9
  <2>2. Moves(c, Put(c, "OPENFAIL", 0), 0, 0) BY <1>8, PutMoves
  <2> QED BY <1>2, <1>4, <2>1, <2>2, TakenQuietly
<1>10. CASE ok
  <2>1. PICK k : k = [channel_new("larval", 0, "ignore", {}, tty) EXCEPT !.remote_window = n] OBVIOUS
  <2>2. tty \in BOOLEAN /\ n \in Int BY ChannelAssumption
  <2>3. k \in Chan /\ k.sent = <<>> BY <2>1, <2>2, LarvalSane DEF Sane
  <2>4. /\ k.type = "larval" /\ k.usage = "ignore" /\ k.local_window = 0 /\ k.local_consumed = 0
        /\ k.input = 0 /\ k.output = 0 /\ k.extended = 0 /\ k.remote_window = n BY <2>1 DEF channel_new
  <2>5. "CONFIRM" \in Sendable /\ 0 \in Int BY DEF Sendable
  <2>6. PICK m \in Packets : m = Pkt("CONFIRM", 0) BY <2>5 DEF Pkt, Packets, Sendable
  <2>7. m.t = "CONFIRM" /\ m.n = 0 BY <2>6 DEF Pkt
  <2>8. Put(k, "CONFIRM", 0) \in Chan /\ Put(k, "CONFIRM", 0).sent = Append(k.sent, Pkt("CONFIRM", 0))
    BY <2>3, <2>5, PutChan
  <2>9. PICK d \in Chan : d = Put(k, "CONFIRM", 0) BY <2>8
  <2>10. /\ d.type = "larval" /\ d.usage = "ignore" /\ d.local_window = 0 /\ d.local_consumed = 0
         /\ d.input = 0 /\ d.output = 0 /\ d.extended = 0 /\ d.remote_window = n
    BY <2>3, <2>4, <2>9 DEF Put, Chan
  <2>18. <<>> \in Seq(Packets) OBVIOUS
  <2>11. PICK z \in Seq(Packets) : z = <<>> BY <2>18
  <2>12. d.sent = Append(z, m) BY <2>3, <2>6, <2>8, <2>9, <2>11
  <2>13. Units(z, Data) = 0 /\ Units(z, Grants) = 0 /\ Sizes(z) BY <2>11, UnitsEmpty DEF Sizes
  <2>14. Units(Append(z, m), Data) = 0 /\ Units(Append(z, m), Grants) = 0
    BY <2>7, <2>13, UnitsAppend DEF Weight
  <2>15. Sizes(Append(z, m)) BY <2>7, <2>13, SizesAppend
  <2>16. DataSent(d) = 0 /\ d.type \in Live BY <2>10, <2>12, <2>14 DEF DataSent, Live
  <2>17. Tidy(d) /\ MaySend(d) = n
    <3>1. Held(d) = 0 + 0 + 0 BY <2>10, Amounts
    <3>2. Window \in Nat BY ChannelAssumption
    <3>3. Held(d) <= Window BY <3>1, <3>2
    <3>4. Tidy(d) BY <2>10, <2>12, <2>15, <3>3 DEF Tidy
    <3>5. MaySend(d) = n + 0 BY <2>10, <2>16, Amounts
    <3> QED BY <3>4, <3>5
  <2>19. PICK e : e = [d EXCEPT !.sent = <<>>, !.want = {}] OBVIOUS
  <2>20. /\ e \in Chan /\ Tidy(e) /\ e.type = d.type /\ e.usage = d.usage /\ e.local_window = d.local_window
         /\ MaySend(e) + DataSent(d) = MaySend(d) BY <2>17, <2>19, PutBack, Zenon
  <2>21. MaySend(e) = n
    <3>1. MaySend(e) \in Int /\ MaySend(e) + 0 = n BY <2>16, <2>17, <2>20, ChanInts
    <3> QED BY <3>1
  <2>22. Store(p, d, queue) BY <1>7, <1>10, <2>1, <2>9
  <2>23. <<>> \o Append(z, m) = Append(z, m)
    <3>1. Append(z, m) \in Seq(Packets) OBVIOUS
    <3> QED BY <3>1
  <2>24. ch'[p] = e /\ ch'[Other(p)] = r /\ net'[p] = z /\ net'[Other(p)] = Append(z, m)
    <3>1. /\ ch'[p] = [d EXCEPT !.sent = <<>>, !.want = {}] /\ ch'[Other(p)] = ch[Other(p)]
          /\ net'[p] = queue /\ net'[Other(p)] = net[Other(p)] \o d.sent BY <2>22, StoredValues, Zenon
    <3>2. net'[Other(p)] = <<>> \o Append(z, m) BY <1>3, <2>12, <3>1
    <3> QED BY <1>2, <1>6, <2>11, <2>19, <2>23, <3>1, <3>2
  <2>25. Granted(e, r, Append(z, m), z)
    <3>1. r.type \in Live /\ DataSent(c) = 0 /\ c.type \notin Live BY <1>3, UnitsEmpty DEF Live, DataSent
    <3>2. MaySend(c) = 0 BY <3>1, Amounts
    <3>3. MaySend(c) + Units(<<>>, Data) + Units(in, Grants) <= r.local_window BY <1>8, <3>1 DEF Granted
    <3>4. Weight(Head(in), Grants) = n BY <1>3, <1>5 DEF Weight, Grants
    <3>5. n <= Units(in, Grants) BY <1>2, <1>4, <3>4, HeadAmounts
    <3>6. Units(in, Grants) \in Int /\ r.local_window \in Int BY UnitsInt, ChanInts
    <3>7. 0 + 0 + Units(in, Grants) <= r.local_window BY <3>2, <3>3, UnitsEmpty
    <3>8. n + 0 + 0 <= r.local_window BY <3>5, <3>6, <3>7
    <3> QED BY <2>13, <2>14, <2>21, <3>8 DEF Granted
  <2>26. Granted(r, e, z, Append(z, m))
    <3>1. r.type \in Live /\ DataSent(r) = 0 BY <1>3, UnitsEmpty DEF Live, DataSent
    <3>2. MaySend(r) = 0 + 0 BY <1>3, <3>1, Amounts
    <3>3. 0 + 0 + 0 <= e.local_window BY <2>10, <2>20
    <3> QED BY <2>13, <2>14, <3>2, <3>3 DEF Granted
  <2>27. \A q \in Peers : /\ Tidy(ch'[q]) /\ Sizes(net'[q])
                          /\ Granted(ch'[q], ch'[Other(q)], net'[Other(q)], net'[q])
    <3>1. \A q \in Peers : q = p \/ q = Other(p) BY PeersFacts
    <3>2. Other(Other(p)) = p BY PeersFacts
    <3> QED BY <1>8, <2>13, <2>15, <2>20, <2>24, <2>25, <2>26, <3>1, <3>2, Zenon
  <2>28. ch'["server"].usage # "write" BY <1>1, <2>10, <2>20, <2>24
  <2> QED BY <2>27, <2>28 DEF Windows, Tidy, Sizes, Granted, MaySend, DataSent, Held
<1> QED BY <1>9, <1>10

LEMMA WindowsUnchanged == ASSUME Windows, UNCHANGED <<ch, net>> PROVE Windows'
  BY DEF Windows, Tidy, Sizes, Granted, MaySend, DataSent, Held

LEMMA LoopWindows ==
  ASSUME Shape, Windows, src \in [Streams -> Int], Opening \/ Established, NEW p \in Peers, Loop(p)
  PROVE Windows'
<1>1. CASE Turn(p) BY <1>1, TurnWindows
<1>2. CASE ReceiveData(p) \/ ReceiveExtData(p) BY <1>2, ReceiveDataWindows
<1>3. CASE ReceiveAdjust(p) \/ (p = "client" /\ ReceiveConfirm) BY <1>3, ReceiveGrantWindows
<1>4. CASE \/ ReceiveEof(p) \/ ReceiveClose(p) \/ ReceiveEow(p)
           \/ p = "client" /\ (ReceiveOpenFailure \/ ReceiveExit \/ ReceiveExitSignal \/ ReceiveSuccess)
  BY <1>4, ReceivePlainWindows
<1>5. CASE ReceiveFailure \/ Quit BY <1>5, DisconnectWindows DEF ReceiveFailure, Quit
<1>6. CASE ReceiveExec BY <1>6, ReceiveExecWindows
<1>7. CASE ReceiveOpen
  <2>1. Arrived("server", "OPEN") /\ "server" \in Peers BY <1>7 DEF ReceiveOpen, Peers
  <2>2. CASE Opening
    <3>1. Requested BY <2>1, <2>2, OpeningArrived
    <3> QED BY <1>7, <3>1, ReceiveOpenWindows
  <2>3. CASE Established BY <2>1, <2>3, ArrivedFacts DEF Running, Plain, Data
  <2> QED BY <2>2, <2>3
<1> QED BY <1>1, <1>2, <1>3, <1>4, <1>5, <1>6, <1>7 DEF Loop, Client, Server

LEMMA NextWindows == ASSUME IInv, Windows, [Next]_vars PROVE Windows'
<1>1. CASE UNCHANGED vars BY <1>1, WindowsUnchanged DEF vars
<1>2. CASE Next
  <2>1. up /\ Shape /\ src \in [Streams -> Int] /\ (Opening \/ Established)
    BY <1>2, NextUp DEF IInv, Opening
  <2>2. ASSUME NEW p \in Peers, Loop(p) PROVE Windows' BY <2>1, <2>2, LoopWindows
  <2>3. CASE ChildExit BY <2>3, WindowsUnchanged DEF ChildExit
  <2>4. ASSUME NEW f \in Streams, WriteStream(f) \/ CloseStream(f) PROVE Windows'
    BY <2>4, WindowsUnchanged DEF WriteStream, CloseStream
  <2> QED BY <1>2, <2>2, <2>3, <2>4 DEF Next
<1> QED BY <1>1, <1>2

LEMMA InitWindows == ASSUME Init PROVE Windows
<1>1. IInv BY InitInv
<1>2. PICK c \in Chan, r \in Chan, s \in Seq(Packets), in \in Seq(Packets) :
        c = ch["client"] /\ r = ch["server"] /\ in = net["client"] /\ s = net["server"]
  BY <1>1, PeersFacts DEF IInv, Shape
<1>3. Window \in Int /\ Window >= 0 BY ChannelAssumption
<1>4. c = channel_new("opening", Window, "write", {"rfd", "wfd", "efd"}, FALSE)
  BY <1>2, PeersFacts DEF Init
<1>5. /\ c.type = "opening" /\ c.usage = "write" /\ c.local_window = Window /\ c.local_consumed = 0 /\ c.sent = <<>>
      /\ c.input = 0 /\ c.output = 0 /\ c.extended = 0 /\ c.remote_window = 0 BY <1>4 DEF channel_new
<1>6. /\ r.type = "free" /\ r.usage = "ignore" /\ r.local_window = 0 /\ r.local_consumed = 0 /\ r.sent = <<>>
      /\ r.input = 0 /\ r.output = 0 /\ r.extended = 0 /\ r.remote_window = 0
  <2>1. PICK k : k = channel_new("free", 0, "ignore", {}, FALSE) OBVIOUS
  <2>2. r = [k EXCEPT !.detach = "none", !.tty = FALSE, !.sent = <<>>, !.err = FALSE]
    BY <1>2, <2>1, PeersFacts DEF Init, channel_free
  <2> QED BY <2>1, <2>2 DEF channel_new
<1>7. "OPEN" \in Sendable BY DEF Sendable
<1>8. PICK m \in Packets : m = Pkt("OPEN", Window) BY <1>3, <1>7 DEF Pkt, Packets, Sendable
<1>9. m.t = "OPEN" /\ m.n = Window BY <1>8 DEF Pkt
<1>18. <<>> \in Seq(Packets) OBVIOUS
<1>10. PICK z \in Seq(Packets) : z = <<>> BY <1>18
<1>19. Append(<<>>, m) = <<m>> OBVIOUS
<1>11. in = z /\ s = Append(z, m) BY <1>2, <1>8, <1>10, <1>19, PeersFacts DEF Init
<1>12. Units(z, Data) = 0 /\ Units(z, Grants) = 0 /\ Sizes(z) BY <1>10, UnitsEmpty DEF Sizes
<1>13. Units(s, Data) = 0 /\ Units(s, Grants) = Window /\ Sizes(s)
  BY <1>3, <1>9, <1>11, <1>12, UnitsAppend, SizesAppend DEF Weight, Data, Grants
<1>14. DataSent(c) = 0 /\ DataSent(r) = 0 BY <1>5, <1>6, UnitsEmpty DEF DataSent
<1>15. Tidy(c) /\ Tidy(r)
  <2>1. Held(c) = Window + 0 + 0 + 0 BY <1>5, Amounts
  <2>2. Held(c) <= Window BY <1>3, <2>1
  <2>3. Sizes(c.sent) /\ Sizes(r.sent) BY <1>5, <1>6, <1>10, <1>12
  <2> QED BY <1>3, <1>5, <1>6, <2>2, <2>3 DEF Tidy, Live
<1>16. Granted(r, c, in, s)
  <2>1. MaySend(r) = 0 BY <1>6, <1>14, Amounts DEF Live
  <2>2. 0 + 0 + Window <= Window BY <1>3
  <2> QED BY <1>5, <1>11, <1>12, <1>13, <2>1, <2>2 DEF Granted
<1>17. Granted(c, r, s, in) BY <1>6 DEF Granted, Live
<1> QED BY <1>2, <1>6, <1>11, <1>12, <1>13, <1>15, <1>16, <1>17, PeersFacts, ZenonT(60) DEF Windows

LEMMA WindowsInvariance == Spec => [](IInv /\ Windows)
<1>1. Init => IInv /\ Windows BY InitInv, InitWindows
<1>2. (IInv /\ Windows) /\ [Next]_vars => (IInv /\ Windows)' BY NextInv, NextWindows
<1> QED BY <1>1, <1>2, PTL DEF Spec

\* A peer never sends what the other has no room for, whatever the window and the packets:
\* what it may still send, the data on its way and the grants on their way back are within
\* the receiver's local_window, so channel_input_data() never drops data for exceeding the
\* window and a window adjustment adds up to one window at most; and a receiver never holds more
\* than the one window it granted, for channel_check_window() grants again only what was
\* written out.
THEOREM WindowsHonoured == Spec => []WindowHonoured
<1>1. ASSUME IInv, Windows PROVE WindowHonoured
  <2>1. SUFFICES ASSUME NEW p \in Peers, ch[Other(p)].type = "open", ch[p].type = "open"
                 PROVE  /\ ch[p].remote_window + Units(net[Other(p)], {"DATA", "EXT"})
                             + Units(net[p], {"ADJUST"}) <= ch[Other(p)].local_window
                        /\ ch[Other(p)].local_window + ch[Other(p)].local_consumed + ch[Other(p)].output
                             + (IF ch[Other(p)].usage = "write" THEN ch[Other(p)].extended ELSE 0) <= Window
    BY DEF WindowHonoured
  <2>2. PICK s \in Chan, r \in Chan, toR \in Seq(Packets), toS \in Seq(Packets) :
          s = ch[p] /\ r = ch[Other(p)] /\ toR = net[Other(p)] /\ toS = net[p]
    BY <1>1, PeersFacts DEF IInv, Shape
  <2>3. Tidy(r) /\ Granted(s, r, toR, toS) /\ Sizes(toS) /\ r.type \in Live /\ s.type \in Live /\ s.sent = <<>>
    BY <1>1, <2>1, <2>2, PeersFacts DEF Windows, Live, IInv, Shape
  <2>4. MaySend(s) + Units(toR, Data) + Units(toS, Grants) <= r.local_window /\ Held(r) <= Window
    BY <2>3 DEF Granted, Tidy
  <2>5. DataSent(s) = 0 /\ MaySend(s) = s.remote_window + 0 BY <2>3, UnitsEmpty, Amounts DEF DataSent
  <2>6. Units(toS, {"ADJUST"}) <= Units(toS, Grants) BY <2>3, UnitsMore DEF Grants
  <2>7. PICK a \in Int, b \in Int, g \in Int, k \in Int, w \in Int :
          /\ a = s.remote_window /\ b = Units(toR, Data) /\ g = Units(toS, Grants)
          /\ k = Units(toS, {"ADJUST"}) /\ w = r.local_window BY UnitsInt, ChanInts
  <2>8. (a + 0) + b + g <= w /\ k <= g BY <2>4, <2>5, <2>6, <2>7
  <2>9. a + b + k <= w BY <2>8
  <2> QED BY <2>2, <2>4, <2>7, <2>9 DEF Held, Data
<1> QED BY <1>1, WindowsInvariance, PTL

(***************************************************************************)
(* The amounts a record, a pipe and a file hold are counts: none is ever   *)
(* negative, where the code's unsigned lengths would wrap.                 *)
(***************************************************************************)

\* The program's output, the pipes, the files and the flags.
Counts ==
  /\ left \in [Streams -> Nat] /\ src \in [Streams -> Nat] /\ got \in [Streams -> Nat]
  /\ closed \subseteq Streams /\ child \in {"none", "running", "exited", "reaped"}
  /\ up \in BOOLEAN /\ exitSeen \in BOOLEAN
  /\ broke \subseteq {"stdout", "stderr", "forced", "killed"}

\* What was read was there to be read.
LEMMA ReadsAmount ==
  ASSUME src \in [Streams -> Nat], NEW f \in Streams, NEW max \in Int, NEW x \in Reads(f, max)
  PROVE  /\ x \in Int /\ x >= -1 /\ x <= src[f]
         /\ x > 0 \/ src[f] = 0
         /\ x = 0 => f \in closed
<1>1. src[f] \in Nat OBVIOUS
<1>2. CASE src[f] > 0
  <2>1. x \in 1..Least(src[f], max) BY <1>2 DEF Reads
  <2>2. Least(src[f], max) \in Int /\ Least(src[f], max) <= src[f] BY <1>1 DEF Least
  <2>3. x \in Int /\ x > 0 /\ x <= src[f] BY <1>1, <2>1, <2>2
  <2> QED BY <2>3
<1>3. CASE src[f] = 0
  <2>1. x \in {0, -1} /\ (x = 0 => f \in closed) BY <1>3 DEF Reads
  <2> QED BY <1>3, <2>1
<1> QED BY <1>1, <1>2, <1>3

LEMMA RfdAmount ==
  ASSUME NEW c \in Chan, NEW n \in Int, NEW d, d = channel_handle_rfd(c, n)
  PROVE d.input \in Int /\ (d.input - c.input = 0 \/ (n > 0 /\ d.input - c.input = n))
<1>1. c.input \in Int BY ChanInts
<1>2. CASE d = c BY <1>1, <1>2
<1>3. CASE d = chan_read_failed(c)
  <2>1. d.input = c.input BY <1>3 DEF chan_read_failed, chan_shutdown_read, Chan
  <2> QED BY <1>1, <2>1
<1>4. CASE n > 0 /\ d = [c EXCEPT !.input = @ + n]
  <2>1. d.input = c.input + n BY <1>4 DEF Chan
  <2> QED BY <1>1, <1>4, <2>1
<1> QED BY <1>2, <1>3, <1>4 DEF channel_handle_rfd

LEMMA TurnCounts ==
  ASSUME Shape, Windows, Counts, NEW p \in Peers, Turn(p)
  PROVE Counts'
<1>0. src \in [Streams -> Int] /\ src \in [Streams -> Nat] /\ got \in [Streams -> Nat] BY DEF Counts
<1>1. PICK idle, c1, c2, c2a, c3, c4, c5, c6, c6a, c7, r, w, e :
           /\ Iterates(p, idle, c1, c2, c2a, c3, c4, c5, c6, c6a, c7, r, w, e)
           /\ Follows(p, idle, c3, c4, c7, e) /\ Assigns(p, idle, c3, c4, c7, w, e) BY TurnUnfold
<1>2. /\ c3 \in Chan
      /\ r \in Int /\ w \in Int /\ e \in Int BY <1>0, <1>1, BeforePoll
<1>3. PICK rf \in Streams, wf \in Streams : /\ rf = IF p = "client" THEN "stdin" ELSE "stdout"
                                           /\ wf = IF p = "client" THEN "stdout" ELSE "stdin"
  BY DEF Streams
<1>4. rf # "stderr" /\ wf # "stderr" /\ "stderr" \in Streams BY <1>3 DEF Streams
<1>5. PICK max \in Int : max = IF c3.input < c3.remote_window THEN Least(Packet, c3.remote_window - c3.input) ELSE 1
  <2>1. c3.input \in Int /\ c3.remote_window \in Int /\ Packet \in Int
    BY <1>2, ChanInts, ChannelAssumption
  <2>2. PICK k \in Int : k = c3.remote_window - c3.input BY <2>1
  <2>3. Least(Packet, k) \in Int BY <2>1, LeastInt, ZenonT(60)
  <2> QED BY <2>2, <2>3
<1>6. r \in Reads(rf, max) BY <1>1, <1>3, <1>5, Zenon DEF Iterates
<1>7. r <= src[rf] BY <1>0, <1>6, ReadsAmount
<1>8. PICK x \in Nat : x = c4.input - c3.input /\ x <= src[rf]
  <2>1. src[rf] \in Nat BY <1>0
  <2>2. CASE c3.type = "open"
    <3>1. c4 = channel_handle_rfd(c3, r) BY <1>1, <2>2, Zenon DEF Iterates
    <3>2. c4.input \in Int /\ c3.input \in Int /\ (c4.input - c3.input = 0 \/ (r > 0 /\ c4.input - c3.input = r))
      BY <1>2, <3>1, RfdAmount, ChanInts
    <3>3. PICK a \in Int, b \in Nat : a = c4.input - c3.input /\ b = src[rf] BY <2>1, <3>2
    <3>4. (a = 0 \/ (r > 0 /\ a = r)) /\ r <= b BY <1>7, <3>2, <3>3, Zenon
    <3>5. a \in Nat /\ a <= b BY <1>2, <3>4
    <3> QED BY <3>3, <3>5, ZenonT(60)
  <2>3. CASE c3.type # "open"
    <3>1. c4 = c3 BY <1>1, <2>3, Zenon DEF Iterates
    <3>2. c3.input - c3.input = 0 BY <1>2, ChanInts
    <3> QED BY <2>1, <3>1, <3>2
  <2> QED BY <2>2, <2>3
<1>9. PICK b \in BOOLEAN : b <=> p = "server" /\ c3.want \cap {"efd_r", "efd_w"} # {} /\ e > 0 OBVIOUS
<1>10. b => e \in Nat /\ e <= src["stderr"]
  <2>1. ASSUME b PROVE e \in Nat /\ e <= src["stderr"]
    <3>1. p = "server" /\ e > 0 /\ RBuf \in Int BY <1>9, <2>1, RBufInt, Zenon
    <3>2. e \in Reads("stderr", RBuf) BY <1>1, <3>1, Zenon DEF Iterates
    <3>3. e <= src["stderr"] BY <1>0, <1>4, <3>1, <3>2, ReadsAmount
    <3> QED BY <1>2, <3>1, <3>3
  <2> QED BY <2>1
<1>11. src' = [src EXCEPT ![rf] = @ - x, !["stderr"] = IF b THEN @ - e ELSE @]
  BY <1>1, <1>3, <1>8, <1>9 DEF Assigns
<1>12. src' \in [Streams -> Nat]
  <2>1. ASSUME NEW f \in Streams PROVE src'[f] \in Nat
    <3>1. src[f] \in Nat /\ src["stderr"] \in Nat /\ src[rf] \in Nat BY <1>0, <1>4
    <3>2. CASE f = rf
      <4>1. src'[f] = src[rf] - x BY <1>0, <1>4, <1>11, <3>2
      <4> QED BY <1>8, <3>1, <4>1
    <3>3. CASE f = "stderr"
      <4>1. src'[f] = IF b THEN src["stderr"] - e ELSE src["stderr"] BY <1>0, <1>4, <1>11, <3>3
      <4> QED BY <1>10, <3>1, <4>1
    <3>4. CASE f # rf /\ f # "stderr" BY <1>0, <1>11, <3>1, <3>4
    <3> QED BY <3>2, <3>3, <3>4
  <2>2. src' = [f \in Streams |-> src'[f]] BY <1>0, <1>11
  <2> QED BY <2>1, <2>2
<1>13. PICK u \in Nat, v \in Nat : /\ u = IF "wfd" \in c3.want /\ w > 0 THEN w ELSE 0
                                  /\ v = IF p = "client" /\ c3.want \cap {"efd_r", "efd_w"} # {} /\ e > 0 THEN e ELSE 0
  BY <1>2
<1>14. got' = [got EXCEPT ![wf] = IF "wfd" \in c3.want /\ w > 0 THEN @ + w ELSE @,
                         !["stderr"] = IF p = "client" /\ c3.want \cap {"efd_r", "efd_w"} # {} /\ e > 0 THEN @ + e ELSE @]
  BY <1>1, <1>3 DEF Assigns
<1>15. got' \in [Streams -> Nat]
  <2>1. ASSUME NEW f \in Streams PROVE got'[f] \in Nat
    <3>1. got[f] \in Nat /\ got["stderr"] \in Nat /\ got[wf] \in Nat BY <1>0, <1>4
    <3>2. CASE f = wf
      <4>1. got'[f] = IF "wfd" \in c3.want /\ w > 0 THEN got[wf] + w ELSE got[wf]
        BY <1>0, <1>4, <1>14, <3>2
      <4> QED BY <1>2, <3>1, <4>1
    <3>3. CASE f = "stderr"
      <4>1. got'[f] = IF p = "client" /\ c3.want \cap {"efd_r", "efd_w"} # {} /\ e > 0 THEN got["stderr"] + e ELSE got["stderr"]
        BY <1>0, <1>4, <1>14, <3>3
      <4> QED BY <1>2, <3>1, <4>1
    <3>4. CASE f # wf /\ f # "stderr" BY <1>0, <1>14, <3>1, <3>4
    <3> QED BY <3>2, <3>3, <3>4
  <2>2. got' = [f \in Streams |-> got'[f]] BY <1>0, <1>14
  <2> QED BY <2>1, <2>2
<1>16. child' \in {"none", "running", "exited", "reaped"} /\ broke' \subseteq {"stdout", "stderr", "forced", "killed"}
  BY <1>1 DEF Assigns, Counts
<1>17. UNCHANGED <<left, closed, up, exitSeen>> BY <1>1 DEF Assigns
<1> QED BY <1>12, <1>15, <1>16, <1>17 DEF Counts

LEMMA LoopCounts ==
  ASSUME Shape, Windows, Counts, NEW p \in Peers, Loop(p)
  PROVE Counts'
<1>1. CASE Turn(p) BY <1>1, TurnCounts
<1>2. CASE \/ ReceiveData(p) \/ ReceiveExtData(p) \/ ReceiveEof(p) \/ ReceiveClose(p)
           \/ ReceiveAdjust(p) \/ ReceiveEow(p)
  BY <1>2 DEF ReceiveData, ReceiveExtData, ReceiveEof, ReceiveClose, ReceiveAdjust, ReceiveEow, Receive, Counts
<1>3. CASE Client
  BY <1>3 DEF Client, ReceiveConfirm, ReceiveOpenFailure, ReceiveSuccess, ReceiveFailure, ReceiveExit,
              ReceiveExitSignal, Quit, Receive, Disconnect, channel_lookup, Counts
<1>4. CASE ReceiveOpen BY <1>4 DEF ReceiveOpen, Counts
<1>5. CASE ReceiveExec
  <2>1. UNCHANGED <<left, src, closed, up, got, exitSeen, broke>> /\ child' \in {"running", child}
    BY <1>5 DEF ReceiveExec
  <2> QED BY <2>1 DEF Counts
<1> QED BY <1>1, <1>2, <1>3, <1>4, <1>5 DEF Loop, Server

LEMMA NextCounts == ASSUME Shape, Windows, Counts, [Next]_vars PROVE Counts'
<1>1. CASE UNCHANGED vars BY <1>1 DEF vars, Counts
<1>2. CASE Next
  <2>1. ASSUME NEW p \in Peers, Loop(p) PROVE Counts' BY <2>1, LoopCounts
  <2>2. CASE ChildExit BY <2>2 DEF ChildExit, Counts
  <2>3. ASSUME NEW f \in Streams, WriteStream(f) PROVE Counts'
    <3>1. /\ left' = [left EXCEPT ![f] = @ - 1] /\ src' = [src EXCEPT ![f] = @ + 1] /\ left[f] > 0
          /\ UNCHANGED <<closed, child, up, got, exitSeen, broke>> BY <2>3 DEF WriteStream
    <3>2. left' \in [Streams -> Nat] /\ src' \in [Streams -> Nat] BY <2>3, <3>1 DEF Counts
    <3> QED BY <3>1, <3>2 DEF Counts
  <2>4. ASSUME NEW f \in Streams, CloseStream(f) PROVE Counts' BY <2>4 DEF CloseStream, Counts
  <2> QED BY <1>2, <2>1, <2>2, <2>3, <2>4 DEF Next
<1> QED BY <1>1, <1>2

LEMMA CountsInvariance == Spec => [](IInv /\ Windows /\ Counts)
<1>1. Init => IInv /\ Windows /\ Counts
  <2>1. Init => Counts
    <3>1. SUFFICES ASSUME Init PROVE Counts OBVIOUS
    <3>2. left = Written /\ Written \in [Streams -> Nat] /\ src = [f \in Streams |-> 0] /\ got = [f \in Streams |-> 0]
      BY <3>1, ChannelAssumption DEF Init
    <3>3. closed = {} /\ child = "none" /\ up = TRUE /\ exitSeen = FALSE /\ broke = {} BY <3>1 DEF Init
    <3>4. left \in [Streams -> Nat] /\ src \in [Streams -> Nat] /\ got \in [Streams -> Nat] BY <3>2
    <3> QED BY <3>3, <3>4 DEF Counts
  <2> QED BY <2>1, InitInv, InitWindows
<1>2. (IInv /\ Windows /\ Counts) /\ [Next]_vars => (IInv /\ Windows /\ Counts)'
  BY NextInv, NextWindows, NextCounts DEF IInv
<1> QED BY <1>1, <1>2, PTL DEF Spec

\* Every record, queue and count has its type: the buffers, windows and amounts the code keeps
\* in unsigned integers are never negative, though a subtraction may have no guard of
\* its own: for a closed output channel_input_data() reduces the window without comparing.
THEOREM TypeCorrect == Spec => []TypeOK
<1>1. ASSUME IInv, Windows, Counts PROVE TypeOK
  <2>1. ASSUME NEW p \in Peers PROVE ch[p] \in ChannelRecord
    <3>1. PICK c \in Chan : c = ch[p] BY <1>1 DEF IInv, Shape
    <3>2. c.sent = <<>> /\ c.want = {} /\ Tidy(c) BY <1>1, <3>1 DEF IInv, Shape, Windows
    <3>3. /\ c.input \in Nat /\ c.output \in Nat /\ c.extended \in Nat /\ c.local_window \in Nat
          /\ c.local_consumed \in Nat /\ c.remote_window \in Nat
      <4>1. /\ c.input \in Int /\ c.output \in Int /\ c.extended \in Int /\ c.local_window \in Int
            /\ c.local_consumed \in Int /\ c.remote_window \in Int BY ChanInts, Zenon
      <4>2. /\ c.input >= 0 /\ c.output >= 0 /\ c.extended >= 0 /\ c.local_window >= 0
            /\ c.local_consumed >= 0 /\ c.remote_window >= 0 BY <3>2, Zenon DEF Tidy
      <4> QED BY <4>1, <4>2
    <3> QED BY <3>1, <3>2, <3>3 DEF Chan, ChannelRecord, Types, Directions, Flags
  <2>2. ch \in [Peers -> ChannelRecord] BY <1>1, <2>1 DEF IInv, Shape
  <2> QED BY <1>1, <2>2 DEF Counts, TypeOK
<1> QED BY <1>1, CountsInvariance, PTL

(***************************************************************************)
(* The output.  A unit that the command wrote is in the pipe, in the       *)
(* server's buffer, on its way, in the client's buffer or in the client's  *)
(* file (Balance).  The server gives up a direction only when its pipe is  *)
(* exhausted (ServerFit, from the facts that are known of the pipes and of *)
(* the command), the client its output only when it is written             *)
(* (ClientFit); every call keeps both and moves the amounts as it says,    *)
(* as long as nothing but the command failed outside (Intact).             *)
(***************************************************************************)

Outputs == {"stdout", "stderr"}

\* No write failed and no timeout struck; a signal may have killed the command.
Intact == broke \subseteq {"killed"}

\* What is known of the command from the pipes, those whose writers are gone, and its state:
\* whether a stream is exhausted, and whether the command was started and reaped.
Known(tty, pipe, shut, command) ==
  {x \in {"out", "err", "started", "reaped"} :
     /\ x = "out" => /\ pipe["stdout"] = 0
                     /\ "stdout" \in shut \/ (tty /\ command \in {"exited", "reaped"})
     /\ x = "err" => pipe["stderr"] = 0 /\ ("stderr" \in shut \/ tty)
     /\ x = "started" => command # "none"
     /\ x = "reaped" => command = "reaped"}
Facts == Known(ch["server"].tty, src, closed, child)

\* The server's record: a direction that is not open any more has had all its input, a closed
\* one has sent it, and so has a channel that is gone.
ServerFit(c, facts) ==
  /\ c.type \in {"free", "larval", "open"} /\ c.usage # "write"
  /\ c.type # "open" => c.input = 0 /\ c.extended = 0
  /\ c.type = "larval" => c.istate = "open" /\ "started" \notin facts
  /\ c.type = "free" /\ "started" \in facts => {"out", "err"} \subseteq facts
  /\ c.type = "open" =>
       /\ "started" \in facts
       /\ c.istate # "open" => "out" \in facts
       /\ "efd" \notin c.fds => "err" \in facts
       /\ c.istate = "closed" => c.input = 0
       /\ c.istate = "closed" \/ c.usage = "ignore" => c.extended = 0 /\ "efd" \notin c.fds
  /\ c.detach = "close" => "reaped" \in facts

\* The client's record: the output stays open until EOF or CLOSE came, and is closed only when
\* all of it was written.
ClientFit(c) ==
  /\ c.type \in {"opening", "open", "zombie", "free"}
  /\ c.type \in {"opening", "open"} => c.usage = "write" /\ "efd" \in c.fds
  /\ c.type # "open" => c.output = 0 /\ c.extended = 0
  /\ c.ostate # "open" => c.flags \cap {"eof_rcvd", "close_rcvd"} # {}
  /\ c.ostate = "closed" => c.output = 0 /\ c.extended = 0

\* No packet of s carries more than a packet may.
Small(s) == \A i \in 1..Len(s) : s[i].t \in Data => s[i].n <= Packet

\* Where the units of a stream are: not yet written, in the pipe, in the server's buffer, on
\* their way, in the client's buffer, in the client's file.
Balance ==
  /\ Written["stdout"] = left["stdout"] + src["stdout"] + ch["server"].input
                           + Units(net["client"], {"DATA"}) + ch["client"].output + got["stdout"]
  /\ Written["stderr"] = left["stderr"] + src["stderr"] + ch["server"].extended
                           + Units(net["client"], {"EXT"}) + ch["client"].extended + got["stderr"]

Flow ==
  /\ ServerFit(ch["server"], Facts)
  /\ ClientFit(ch["client"])
  /\ ~Holds(net["server"], {"EOW"}) /\ Small(net["client"])
  /\ Balance
  /\ child = "none" => \A f \in Outputs : src[f] = 0 /\ left[f] = Written[f]
  /\ ch["client"].type \in {"opening", "zombie"} => child = "none"

OutHeld(c) == c.input + Units(c.sent, {"DATA"})
ErrHeld(c) == c.extended + Units(c.sent, {"EXT"})

\* A call on the server that neither takes in nor loses output.
ServerKeeps(c, d, facts) ==
  /\ d \in Chan /\ ServerFit(d, facts) /\ d.tty = c.tty
  /\ OutHeld(d) = OutHeld(c) /\ ErrHeld(d) = ErrHeld(c)
  /\ Small(c.sent) => Small(d.sent)

\* A call that leaves the server's input alone.
Rests(c, d) ==
  /\ d \in Chan /\ d.type = c.type /\ d.istate = c.istate /\ d.usage = c.usage /\ d.tty = c.tty
  /\ d.input = c.input /\ d.extended = c.extended
  /\ "efd" \in d.fds <=> "efd" \in c.fds
  /\ d.detach \in {c.detach, "none"}

LEMMA SmallAppend ==
  ASSUME NEW s \in Seq(Packets), NEW m \in Packets, Small(s), m.t \in Data => m.n <= Packet
  PROVE Small(Append(s, m)) BY DEF Small

PutsInto(m, d, c, t, n) ==
  /\ m = Pkt(t, n) /\ m.t = t /\ m.n = n
  /\ d = Put(c, t, n) /\ d.sent = Append(c.sent, m) /\ d = [c EXCEPT !.sent = d.sent]

LEMMA PutFields ==
  ASSUME NEW c \in Chan, NEW t \in Sendable, NEW n \in Int
  PROVE \E m \in Packets, d \in Chan : PutsInto(m, d, c, t, n)
<1>1. /\ Put(c, t, n) \in Chan /\ Pkt(t, n) \in Packets /\ Pkt(t, n).t = t
      /\ Put(c, t, n).sent = Append(c.sent, Pkt(t, n)) BY PutChan
<1>2. PICK m \in Packets, d \in Chan : m = Pkt(t, n) /\ d = Put(c, t, n) BY <1>1
<1>3. m.n = n BY <1>2 DEF Pkt
<1>4. d = [c EXCEPT !.sent = Append(c.sent, m)] BY <1>2 DEF Put, Chan
<1> QED BY <1>1, <1>2, <1>3, <1>4 DEF PutsInto

LEMMA RestsSelf == ASSUME NEW c \in Chan PROVE Rests(c, c) BY DEF Rests

LEMMA RestsTrans ==
  ASSUME NEW c, NEW d, NEW e, Rests(c, d), Rests(d, e) PROVE Rests(c, e) BY DEF Rests

LEMMA RestsFit ==
  ASSUME NEW c \in Chan, NEW d, NEW facts, ServerFit(c, facts), Rests(c, d)
  PROVE ServerFit(d, facts) BY DEF Rests, ServerFit

LEMMA RestsKeeps ==
  ASSUME NEW c \in Chan, NEW d, NEW facts, ServerFit(c, facts), Rests(c, d), d.sent = c.sent
  PROVE ServerKeeps(c, d, facts)
<1>1. ServerFit(d, facts) BY RestsFit
<1> QED BY <1>1 DEF Rests, ServerKeeps, OutHeld, ErrHeld

LEMMA RestsPuts ==
  ASSUME NEW c \in Chan, NEW d, NEW facts, ServerFit(c, facts), Rests(c, d),
         NEW m \in Packets, m.t \notin Data, d.sent = Append(c.sent, m)
  PROVE ServerKeeps(c, d, facts)
<1>1. ServerFit(d, facts) BY RestsFit
<1>2. PICK u \in Seq(Packets) : u = c.sent BY ChanInts
<1>3. /\ Units(Append(u, m), {"DATA"}) = Units(u, {"DATA"}) + 0
      /\ Units(Append(u, m), {"EXT"}) = Units(u, {"EXT"}) + 0 BY UnitsAppend DEF Weight, Data
<1>4. Units(u, {"DATA"}) \in Int /\ Units(u, {"EXT"}) \in Int BY UnitsInt
<1>5. Units(d.sent, {"DATA"}) = Units(u, {"DATA"}) /\ Units(d.sent, {"EXT"}) = Units(u, {"EXT"})
  BY <1>2, <1>3, <1>4
<1>6. Small(u) => Small(Append(u, m)) BY SmallAppend
<1> QED BY <1>1, <1>2, <1>5, <1>6 DEF Rests, ServerKeeps, OutHeld, ErrHeld

LEMMA ServerOn ==
  ASSUME NEW c, NEW d, NEW e, NEW facts, ServerKeeps(c, d, facts), ServerKeeps(d, e, facts)
  PROVE ServerKeeps(c, e, facts) BY DEF ServerKeeps

LEMMA ServerSelf ==
  ASSUME NEW c \in Chan, NEW facts, ServerFit(c, facts) PROVE ServerKeeps(c, c, facts)
  BY RestsSelf, RestsKeeps

LEMMA ShutdownWriteRests ==
  ASSUME NEW c \in Chan
  PROVE Rests(c, chan_shutdown_write(c)) /\ chan_shutdown_write(c).sent = c.sent
<1>1. PICK d : d = chan_shutdown_write(c) OBVIOUS
<1>2. d \in Chan /\ d.sent = c.sent /\ d.type = c.type BY <1>1, ShutdownWriteQuiet DEF Quiet, Keeps
<1>3. /\ d.usage = c.usage /\ d.tty = c.tty /\ d.istate = c.istate /\ d.detach = c.detach
      /\ d.extended = c.extended /\ d.input = c.input BY <1>1, <1>2 DEF chan_shutdown_write, Chan
<1>4. "efd" \in d.fds <=> "efd" \in c.fds BY <1>1, <1>2 DEF chan_shutdown_write, Chan
<1> QED BY <1>1, <1>2, <1>3, <1>4 DEF Rests

LEMMA ObufRests ==
  ASSUME NEW c \in Chan PROVE Rests(c, chan_obuf_empty(c)) /\ chan_obuf_empty(c).sent = c.sent
<1>1. PICK e \in Chan : e = chan_shutdown_write(c) BY ShutdownWriteQuiet DEF Quiet, Keeps
<1>2. Rests(c, e) /\ e.sent = c.sent BY <1>1, ShutdownWriteRests
<1>3. PICK d : d = [e EXCEPT !.ostate = "closed"] OBVIOUS
<1>4. d \in Chan BY <1>3 DEF Chan, Directions
<1>5. Rests(c, d) /\ d.sent = c.sent BY <1>2, <1>3, <1>4 DEF Rests, Chan
<1> QED BY <1>1, <1>3, <1>5, RestsSelf DEF chan_obuf_empty

\* A packet without data.
LEMMA ServerPut ==
  ASSUME NEW c \in Chan, NEW facts, ServerFit(c, facts),
         NEW t \in (Sendable) \ Data, NEW n \in Int
  PROVE Rests(c, Put(c, t, n)) /\ ServerKeeps(c, Put(c, t, n), facts)
<1>p. PICK m \in Packets, d \in Chan : PutsInto(m, d, c, t, n) BY PutFields
<1>1. /\ m = Pkt(t, n) /\ m.t = t /\ m.n = n
      /\ d = Put(c, t, n) /\ d.sent = Append(c.sent, m) /\ d = [c EXCEPT !.sent = d.sent]
  BY <1>p, Zenon DEF PutsInto
<1>2. Rests(c, d) BY <1>1, ZenonT(60) DEF Rests, Chan
<1> QED BY <1>1, <1>2, RestsPuts

LEMMA WriteFailedServer ==
  ASSUME NEW c \in Chan, NEW facts, ServerFit(c, facts) PROVE ServerKeeps(c, chan_write_failed(c), facts)
<1>1. PICK e \in Chan : e = chan_shutdown_write(c) BY ShutdownWriteQuiet DEF Quiet, Keeps
<1>2. Rests(c, e) /\ e.sent = c.sent BY <1>1, ShutdownWriteRests
<1>3. "EOW" \in Sendable /\ 0 \in Int /\ "EOW" \notin Data BY DEF Sendable, Running, Plain, Data
<1>p. PICK m \in Packets, k \in Chan : PutsInto(m, k, e, "EOW", 0) BY <1>3, PutFields
<1>4. /\ m = Pkt("EOW", 0) /\ m.t = "EOW" /\ m.n = 0
      /\ k = Put(e, "EOW", 0) /\ k.sent = Append(e.sent, m) /\ k = [e EXCEPT !.sent = k.sent]
  BY <1>p, Zenon DEF PutsInto
<1>5. PICK j \in Chan : j = chan_send_eow2(e) /\ j \in {e, k} BY <1>4 DEF chan_send_eow2
<1>6. PICK d : d = [j EXCEPT !.ostate = "closed"] OBVIOUS
<1>7. d \in Chan BY <1>6, ZenonT(60) DEF Chan, Directions
<1>8. Rests(c, k)
  <2>1. Rests(e, k) BY <1>4, ZenonT(60) DEF Rests, Chan
  <2> QED BY <1>2, <2>1, RestsTrans
<1>9. Rests(c, d) /\ d.sent = j.sent
  <2>1. Rests(c, j) BY <1>2, <1>5, <1>8
  <2> QED BY <1>6, <1>7, <2>1, ZenonT(60) DEF Rests, Chan
<1>10. ServerKeeps(c, d, facts)
  <2>1. CASE j = e BY <1>2, <1>9, <2>1, RestsKeeps
  <2>2. CASE j = k BY <1>2, <1>3, <1>4, <1>9, <2>2, RestsPuts
  <2> QED BY <1>5, <2>1, <2>2
<1>11. chan_write_failed(c) \in {c, d} BY <1>1, <1>5, <1>6 DEF chan_write_failed
<1> QED BY <1>10, <1>11, ServerSelf

LEMMA SendCloseServer ==
  ASSUME NEW c \in Chan, NEW facts, ServerFit(c, facts)
  PROVE Rests(c, chan_send_close2(c)) /\ ServerKeeps(c, chan_send_close2(c), facts)
<1>1. CASE ~(c.ostate = "closed" /\ c.istate = "closed" /\ "close_sent" \notin c.flags)
  BY <1>1, ServerSelf, RestsSelf DEF chan_send_close2
<1>2. CASE c.ostate = "closed" /\ c.istate = "closed" /\ "close_sent" \notin c.flags
  <2>1. "CLOSE" \in Sendable /\ 0 \in Int /\ "CLOSE" \notin Data BY DEF Sendable, Running, Data
  <2>p. PICK m \in Packets, e \in Chan : PutsInto(m, e, c, "CLOSE", 0) BY <2>1, PutFields
  <2>2. /\ m = Pkt("CLOSE", 0) /\ m.t = "CLOSE" /\ m.n = 0
        /\ e = Put(c, "CLOSE", 0) /\ e.sent = Append(c.sent, m) /\ e = [c EXCEPT !.sent = e.sent]
    BY <2>p, Zenon DEF PutsInto
  <2>3. PICK f \in SUBSET Flags : f = e.flags \cup {"close_sent"} BY DEF Chan, Flags
  <2>4. PICK d : d = [e EXCEPT !.flags = f] OBVIOUS
  <2>5. d \in Chan BY <2>4 DEF Chan
  <2>6. Rests(c, d) /\ d.sent = e.sent BY <2>2, <2>4, <2>5, ZenonT(60) DEF Rests, Chan
  <2>7. d = chan_send_close2(c) BY <1>2, <2>2, <2>3, <2>4 DEF chan_send_close2, Chan
  <2>8. ServerKeeps(c, d, facts) BY <2>1, <2>2, <2>6, RestsPuts
  <2> QED BY <2>6, <2>7, <2>8
<1> QED BY <1>1, <1>2

LEMMA MaybeCloseServer ==
  ASSUME NEW c \in Chan, NEW facts, ServerFit(c, facts), NEW b
  PROVE Rests(c, chan_maybe_close(c, b)) /\ ServerKeeps(c, chan_maybe_close(c, b), facts)
  BY SendCloseServer, ServerSelf, RestsSelf DEF chan_maybe_close

LEMMA DetachRests ==
  ASSUME NEW c \in Chan, NEW b PROVE Rests(c, detach_user(c, b)) /\ detach_user(c, b).sent = c.sent
<1>1. PICK d : d = [c EXCEPT !.detach = "none", !.pid = FALSE] OBVIOUS
<1>2. d \in Chan BY <1>1 DEF Chan
<1>3. Rests(c, d) /\ d.sent = c.sent BY <1>1, <1>2, ZenonT(60) DEF Rests, Chan
<1> QED BY <1>1, <1>3, RestsSelf DEF detach_user

LEMMA FreeFields ==
  ASSUME NEW c \in Chan, NEW d, d = channel_free(c)
  PROVE  /\ d \in Chan /\ d.type = "free" /\ d.sent = c.sent /\ d.tty = c.tty /\ d.usage = "ignore"
         /\ d.input = 0 /\ d.output = 0 /\ d.extended = 0 /\ d.detach = "none" /\ d.ostate = "open"
         /\ d.flags = {}
<1>1. d \in Chan /\ d.sent = c.sent /\ d.type = "free" BY FreeChan
<1>2. PICK k : k = channel_new("free", 0, "ignore", {}, FALSE) OBVIOUS
<1>3. d = [k EXCEPT !.detach = "none", !.tty = c.tty, !.sent = c.sent, !.err = c.err]
  BY <1>2 DEF channel_free
<1> QED BY <1>1, <1>2, <1>3 DEF channel_new

\* A channel whose input is closed has nothing left to lose.
LEMMA FreeServer ==
  ASSUME NEW c \in Chan, NEW facts, ServerFit(c, facts), c.type = "open", c.istate = "closed"
  PROVE ServerKeeps(c, channel_free(c), facts)
<1>1. PICK d : d = channel_free(c) OBVIOUS
<1>2. /\ d \in Chan /\ d.type = "free" /\ d.sent = c.sent /\ d.tty = c.tty /\ d.usage = "ignore"
      /\ d.input = 0 /\ d.extended = 0 /\ d.detach = "none" BY <1>1, FreeFields
<1>3. c.input = 0 /\ c.extended = 0 /\ {"out", "err"} \subseteq facts BY DEF ServerFit
<1>4. ServerFit(d, facts) BY <1>2, <1>3 DEF ServerFit
<1> QED BY <1>1, <1>2, <1>3, <1>4 DEF ServerKeeps, OutHeld, ErrHeld

LEMMA GcServer ==
  ASSUME NEW c \in Chan, NEW facts, ServerFit(c, facts)
  PROVE ServerKeeps(c, channel_garbage_collect(c), facts)
<1>1. PICK asked : asked = chan_maybe_close(c, c.detach = "close") OBVIOUS
<1>2. Rests(c, asked) /\ ServerKeeps(c, asked, facts) /\ asked \in Chan /\ ServerFit(asked, facts)
  BY <1>1, MaybeCloseServer DEF ServerKeeps
<1>3. PICK told : told = IF c.detach # "none" /\ chan_is_dead(asked, c.detach = "close")
                         THEN detach_user(asked, FALSE) ELSE asked OBVIOUS
<1>4. Rests(asked, told) /\ told.sent = asked.sent BY <1>2, <1>3, DetachRests, RestsSelf
<1>5. ServerKeeps(asked, told, facts) /\ told \in Chan /\ ServerFit(told, facts)
  BY <1>2, <1>4, RestsKeeps DEF ServerKeeps
<1>6. PICK last : last = chan_maybe_close(told, TRUE) OBVIOUS
<1>7. Rests(told, last) /\ ServerKeeps(told, last, facts) /\ last \in Chan /\ ServerFit(last, facts)
  BY <1>5, <1>6, MaybeCloseServer DEF ServerKeeps
<1>8. ServerKeeps(c, told, facts) BY <1>2, <1>5, ServerOn
<1>9. ServerKeeps(c, last, facts) BY <1>7, <1>8, ServerOn
<1>10. Rests(c, last) BY <1>2, <1>4, <1>7, RestsTrans
<1>11. ASSUME c.type # "free", chan_is_dead(last, TRUE) PROVE ServerKeeps(c, channel_free(last), facts)
  <2>1. last.istate = "closed" BY <1>7, <1>11 DEF chan_is_dead, ServerFit
  <2>2. last.type = "open" BY <1>7, <1>10, <1>11, <2>1 DEF ServerFit, Rests
  <2>3. ServerKeeps(last, channel_free(last), facts) BY <1>7, <2>1, <2>2, FreeServer
  <2> QED BY <1>9, <2>3, ServerOn
<1>12. CASE c.type = "free" BY <1>12, ServerSelf DEF channel_garbage_collect
<1>13. CASE c.type # "free" /\ told.detach # "none"
  <2>1. channel_garbage_collect(c) = told BY <1>1, <1>3, <1>13 DEF channel_garbage_collect
  <2> QED BY <1>8, <2>1
<1>14. CASE c.type # "free" /\ told.detach = "none"
  <2>1. channel_garbage_collect(c) = IF chan_is_dead(last, TRUE) THEN channel_free(last) ELSE last
    BY <1>1, <1>3, <1>6, <1>14 DEF channel_garbage_collect
  <2> QED BY <1>9, <1>11, <1>14, <2>1
<1> QED BY <1>12, <1>13, <1>14

LEMMA IbufServer ==
  ASSUME NEW c \in Chan, NEW facts, ServerFit(c, facts), Tidy(c), c.type = "open", ~CHANNEL_EFD_INPUT_ACTIVE(c)
  PROVE ServerKeeps(c, chan_ibuf_empty(c), facts)
<1>1. CASE ~(c.input = 0 /\ c.istate = "drain") BY <1>1, ServerSelf DEF chan_ibuf_empty
<1>2. CASE c.input = 0 /\ c.istate = "drain"
  <2>1. c.extended = 0 /\ "efd" \notin c.fds
    <3>1. c.extended \in Int /\ c.extended >= 0 /\ c.usage \in {"read", "ignore"}
      BY ChanInts DEF Tidy, ServerFit, Chan
    <3>2. CASE c.usage = "read" BY <3>1, <3>2 DEF CHANNEL_EFD_INPUT_ACTIVE
    <3>3. CASE c.usage = "ignore" BY <3>3 DEF ServerFit
    <3> QED BY <3>1, <3>2, <3>3
  <2>2. "EOF" \in Sendable /\ 0 \in Int /\ "EOF" \notin Data BY DEF Sendable, Running, Data
  <2>p. PICK m \in Packets, k \in Chan : PutsInto(m, k, c, "EOF", 0) BY <2>2, PutFields
  <2>3. /\ m = Pkt("EOF", 0) /\ m.t = "EOF" /\ m.n = 0
        /\ k = Put(c, "EOF", 0) /\ k.sent = Append(c.sent, m) /\ k = [c EXCEPT !.sent = k.sent]
    BY <2>p, Zenon DEF PutsInto
  <2>4. PICK f \in SUBSET Flags : f = k.flags \cup {"eof_sent"} BY DEF Chan, Flags
  <2>5. PICK e : e = [k EXCEPT !.flags = f] OBVIOUS
  <2>6. e \in Chan BY <2>5 DEF Chan
  <2>7. Rests(k, e) /\ e.sent = k.sent BY <2>5, <2>6 DEF Rests, Chan
  <2>8. Rests(c, k) BY <2>3, ZenonT(60) DEF Rests, Chan
  <2>9. Rests(c, e) BY <2>7, <2>8, RestsTrans
  <2>10. ServerKeeps(c, e, facts) BY <2>2, <2>3, <2>7, <2>9, RestsPuts
  <2>11. e = chan_send_eof2(c) BY <1>2, <2>3, <2>4, <2>5 DEF chan_send_eof2, Chan
  <2>12. PICK j \in Chan : j = (IF "close_sent" \in c.flags THEN c ELSE chan_send_eof2(c)) /\ j \in {c, e}
    BY <2>6, <2>11
  <2>13. ServerKeeps(c, j, facts) /\ Rests(c, j) /\ ServerFit(j, facts)
    BY <2>9, <2>10, <2>12, ServerSelf, RestsSelf DEF ServerKeeps
  <2>14. PICK d : d = [j EXCEPT !.istate = "closed"] OBVIOUS
  <2>15. d \in Chan BY <2>14, ZenonT(60) DEF Chan, Directions
  <2>16. /\ d.type = j.type /\ d.istate = "closed" /\ d.usage = j.usage /\ d.tty = j.tty /\ d.input = j.input
         /\ d.extended = j.extended /\ d.fds = j.fds /\ d.detach = j.detach /\ d.sent = j.sent
    BY <2>14 DEF Chan
  <2>17. j.type = "open" /\ j.istate = "drain" /\ j.input = 0 /\ j.extended = 0 /\ "efd" \notin j.fds
    BY <1>2, <2>1, <2>13 DEF Rests
  <2>18. ServerFit(d, facts) BY <2>13, <2>16, <2>17 DEF ServerFit
  <2>19. ServerKeeps(j, d, facts) BY <2>15, <2>16, <2>18 DEF ServerKeeps, OutHeld, ErrHeld
  <2>20. d = chan_ibuf_empty(c) BY <1>2, <2>12, <2>14 DEF chan_ibuf_empty
  <2> QED BY <2>13, <2>19, <2>20, ServerOn
<1> QED BY <1>1, <1>2

\* The units of a packet leave the buffer.
LEMMA OutputInputServer ==
  ASSUME NEW c \in Chan, NEW facts, ServerFit(c, facts), Tidy(c), c.type = "open", c.istate # "closed"
  PROVE ServerKeeps(c, channel_output_poll_input_open(c), facts)
<1>1. c.input \in Int /\ c.remote_window \in Int /\ c.input >= 0 /\ c.remote_window >= 0
  BY ChanInts DEF Tidy
<1>2. PICK len \in Nat : len = Least(c.input, Least(c.remote_window, Packet)) /\ len <= Packet
  BY <1>1, LenBounds
<1>3. CASE c.input = 0 BY <1>3, IbufServer, ServerSelf DEF channel_output_poll_input_open
<1>4. CASE c.input # 0 /\ len = 0 BY <1>2, <1>4, ServerSelf DEF channel_output_poll_input_open
<1>5. CASE c.input # 0 /\ len # 0
  <2>1. "DATA" \in Sendable /\ len \in Int BY DEF Sendable, Running, Data
  <2>p. PICK m \in Packets, e \in Chan : PutsInto(m, e, c, "DATA", len) BY <2>1, PutFields
  <2>2. /\ m = Pkt("DATA", len) /\ m.t = "DATA" /\ m.n = len
        /\ e = Put(c, "DATA", len) /\ e.sent = Append(c.sent, m) /\ e = [c EXCEPT !.sent = e.sent]
    BY <2>p, Zenon DEF PutsInto
  <2>3. PICK x \in Int, y \in Int : x = c.input - len /\ y = c.remote_window - len BY <1>1
  <2>4. PICK d : d = [e EXCEPT !.input = x, !.remote_window = y] OBVIOUS
  <2>5. d \in Chan BY <2>4 DEF Chan
  <2>6. /\ e.type = c.type /\ e.istate = c.istate /\ e.usage = c.usage /\ e.tty = c.tty /\ e.input = c.input
        /\ e.extended = c.extended /\ e.fds = c.fds /\ e.detach = c.detach /\ e.remote_window = c.remote_window
    BY <2>2, ZenonT(60) DEF Chan
  <2>7. /\ d.type = c.type /\ d.istate = c.istate /\ d.usage = c.usage /\ d.tty = c.tty /\ d.input = x
        /\ d.extended = c.extended /\ d.fds = c.fds /\ d.detach = c.detach /\ d.sent = Append(c.sent, m)
    BY <2>2, <2>4, <2>6 DEF Chan
  <2>8. d = channel_output_poll_input_open(c)
    BY <1>2, <1>5, <2>2, <2>3, <2>4, <2>6 DEF channel_output_poll_input_open, Chan
  <2>9. ServerFit(d, facts) BY <2>7 DEF ServerFit
  <2>10. PICK u \in Seq(Packets) : u = c.sent BY ChanInts
  <2>11. /\ Units(Append(u, m), {"DATA"}) = Units(u, {"DATA"}) + len
         /\ Units(Append(u, m), {"EXT"}) = Units(u, {"EXT"}) + 0 BY <2>2, UnitsAppend DEF Weight
  <2>12. PICK a \in Int, b \in Int : a = Units(u, {"DATA"}) /\ b = Units(u, {"EXT"}) BY UnitsInt
  <2>13. OutHeld(d) = x + (a + len) /\ OutHeld(c) = c.input + a BY <2>7, <2>10, <2>11, <2>12 DEF OutHeld
  <2>14. ErrHeld(d) = ErrHeld(c) BY <2>7, <2>10, <2>11, <2>12 DEF ErrHeld
  <2>15. OutHeld(d) = OutHeld(c) BY <1>1, <2>3, <2>13
  <2>16. Small(u) => Small(Append(u, m)) BY <1>2, <2>2, SmallAppend
  <2> QED BY <2>5, <2>7, <2>8, <2>9, <2>10, <2>14, <2>15, <2>16 DEF ServerKeeps
<1> QED BY <1>3, <1>4, <1>5

LEMMA OutputExtendedServer ==
  ASSUME NEW c \in Chan, NEW facts, ServerFit(c, facts), Tidy(c), c.type = "open"
  PROVE ServerKeeps(c, channel_output_poll_extended_read(c), facts)
<1>1. c.extended \in Int /\ c.remote_window \in Int /\ c.extended >= 0 /\ c.remote_window >= 0
  BY ChanInts DEF Tidy
<1>2. PICK len \in Nat : len = Least(c.extended, Least(c.remote_window, Packet)) /\ len <= Packet /\ len <= c.extended
  BY <1>1, LenBounds
<1>4. CASE len = 0 BY <1>2, <1>4, ServerSelf DEF channel_output_poll_extended_read
<1>5. CASE len # 0
  <2>1. "EXT" \in Sendable /\ len \in Int BY DEF Sendable, Running, Data
  <2>p. PICK m \in Packets, e \in Chan : PutsInto(m, e, c, "EXT", len) BY <2>1, PutFields
  <2>2. /\ m = Pkt("EXT", len) /\ m.t = "EXT" /\ m.n = len
        /\ e = Put(c, "EXT", len) /\ e.sent = Append(c.sent, m) /\ e = [c EXCEPT !.sent = e.sent]
    BY <2>p, Zenon DEF PutsInto
  <2>3. PICK x \in Int, y \in Int : x = c.extended - len /\ y = c.remote_window - len BY <1>1
  <2>4. PICK d : d = [e EXCEPT !.extended = x, !.remote_window = y] OBVIOUS
  <2>5. d \in Chan BY <2>4 DEF Chan
  <2>6. /\ e.type = c.type /\ e.istate = c.istate /\ e.usage = c.usage /\ e.tty = c.tty /\ e.input = c.input
        /\ e.extended = c.extended /\ e.fds = c.fds /\ e.detach = c.detach /\ e.remote_window = c.remote_window
    BY <2>2, ZenonT(60) DEF Chan
  <2>7. /\ d.type = c.type /\ d.istate = c.istate /\ d.usage = c.usage /\ d.tty = c.tty /\ d.input = c.input
        /\ d.extended = x /\ d.fds = c.fds /\ d.detach = c.detach /\ d.sent = Append(c.sent, m)
    BY <2>2, <2>4, <2>6 DEF Chan
  <2>8. d = channel_output_poll_extended_read(c)
    BY <1>2, <1>5, <2>2, <2>3, <2>4, <2>6 DEF channel_output_poll_extended_read, Chan
  <2>9. ServerFit(d, facts)
    <3>1. c.istate # "closed" /\ c.usage # "ignore" BY <1>1, <1>2, <1>5 DEF ServerFit
    <3> QED BY <2>7, <3>1 DEF ServerFit
  <2>10. PICK u \in Seq(Packets) : u = c.sent BY ChanInts
  <2>11. /\ Units(Append(u, m), {"EXT"}) = Units(u, {"EXT"}) + len
         /\ Units(Append(u, m), {"DATA"}) = Units(u, {"DATA"}) + 0 BY <2>2, UnitsAppend DEF Weight
  <2>12. PICK a \in Int, b \in Int : a = Units(u, {"DATA"}) /\ b = Units(u, {"EXT"}) BY UnitsInt
  <2>13. ErrHeld(d) = x + (b + len) /\ ErrHeld(c) = c.extended + b
    BY <2>7, <2>10, <2>11, <2>12 DEF ErrHeld
  <2>14. OutHeld(d) = OutHeld(c) BY <2>7, <2>10, <2>11, <2>12 DEF OutHeld
  <2>15. ErrHeld(d) = ErrHeld(c) BY <1>1, <2>3, <2>13
  <2>16. Small(u) => Small(Append(u, m)) BY <1>2, <2>2, SmallAppend
  <2> QED BY <2>5, <2>7, <2>8, <2>9, <2>10, <2>14, <2>15, <2>16 DEF ServerKeeps
<1> QED BY <1>4, <1>5

LEMMA OutputPollServer ==
  ASSUME NEW c \in Chan, NEW facts, ServerFit(c, facts), Tidy(c)
  PROVE ServerKeeps(c, channel_output_poll(c), facts)
<1>1. CASE c.type # "open" \/ c.flags \cap {"close_sent", "close_rcvd"} # {}
  BY <1>1, ServerSelf DEF channel_output_poll
<1>2. CASE ~(c.type # "open" \/ c.flags \cap {"close_sent", "close_rcvd"} # {})
  <2>1. PICK d : d = IF c.istate \in {"open", "drain"} THEN channel_output_poll_input_open(c) ELSE c
    OBVIOUS
  <2>2. ServerKeeps(c, d, facts) /\ d \in Chan /\ ServerFit(d, facts)
    BY <1>2, <2>1, OutputInputServer, ServerSelf DEF ServerKeeps
  <2>3. Tidy(d) BY <1>2, <2>1, OutputInputMoves DEF Moves
  <2>4. d.type = "open"
    <3>1. chan_ibuf_empty(c).type = "open" BY <1>2 DEF chan_ibuf_empty, chan_send_eof2, Put, Chan
    <3>2. channel_output_poll_input_open(c).type = "open"
      BY <1>2, <3>1 DEF channel_output_poll_input_open, Put, Chan
    <3> QED BY <1>2, <2>1, <3>2
  <2>5. ServerKeeps(d, channel_output_poll_extended_read(d), facts)
    BY <2>2, <2>3, <2>4, OutputExtendedServer
  <2>6. ServerKeeps(c, channel_output_poll_extended_read(d), facts) BY <2>2, <2>5, ServerOn
  <2>7. channel_output_poll(c) \in {d, channel_output_poll_extended_read(d)}
    BY <1>2, <2>1 DEF channel_output_poll
  <2> QED BY <2>2, <2>6, <2>7
<1> QED BY <1>1, <1>2

LEMMA ErrServer ==
  ASSUME NEW c \in Chan, NEW facts, ServerFit(c, facts), NEW b \in BOOLEAN, NEW d, d = [c EXCEPT !.err = b]
  PROVE ServerKeeps(c, d, facts)
<1>1. d \in Chan BY DEF Chan
<1>2. Rests(c, d) /\ d.sent = c.sent BY <1>1 DEF Rests, Chan
<1> QED BY <1>2, RestsKeeps

LEMMA ExitMessageServer ==
  ASSUME NEW c \in Chan, NEW facts, ServerFit(c, facts), "reaped" \in facts, NEW status \in {"exited", "killed"}
  PROVE ServerKeeps(c, session_exit_message(c, status), facts)
<1>k. PICK k \in {"EXIT", "SIGNAL"} : k = ExitRequest(status) BY DEF ExitRequest
<1>1. CASE ~channel_lookup(c) BY <1>1, ErrServer DEF session_exit_message
<1>2. CASE channel_lookup(c)
  <2>1. k \in (Sendable) \ Data /\ 0 \in Int BY DEF Sendable, Running, Plain, Data
  <2>2. PICK e : e = Put(c, k, 0) OBVIOUS
  <2>3. ServerKeeps(c, e, facts) /\ e \in Chan /\ ServerFit(e, facts)
    BY <2>1, <2>2, ServerPut DEF ServerKeeps
  <2>4. PICK d : d = [e EXCEPT !.detach = "close", !.pid = FALSE] OBVIOUS
  <2>5. d \in Chan BY <2>3, <2>4 DEF Chan
  <2>6. /\ d.type = e.type /\ d.istate = e.istate /\ d.usage = e.usage /\ d.tty = e.tty /\ d.input = e.input
        /\ d.extended = e.extended /\ d.fds = e.fds /\ d.sent = e.sent BY <2>3, <2>4 DEF Chan
  <2>7. ServerFit(d, facts) BY <2>3, <2>6 DEF ServerFit
  <2>8. ServerKeeps(e, d, facts) BY <2>5, <2>6, <2>7 DEF ServerKeeps, OutHeld, ErrHeld
  <2>9. ServerKeeps(c, d, facts) BY <2>3, <2>8, ServerOn
  <2>10. ServerKeeps(d, chan_write_failed(d), facts) BY <2>5, <2>7, WriteFailedServer
  <2>11. ServerKeeps(c, chan_write_failed(d), facts) BY <2>9, <2>10, ServerOn
  <2>12. session_exit_message(c, status) \in {d, chan_write_failed(d)}
    BY <1>2, <2>2, <2>4, <1>k DEF session_exit_message
  <2> QED BY <2>9, <2>11, <2>12
<1> QED BY <1>1, <1>2

LEMMA PreOpenRests ==
  ASSUME NEW c \in Chan PROVE Rests(c, channel_pre_open(c)) /\ channel_pre_open(c).sent = c.sent
<1>1. PICK e : e = IF c.ostate = "drain" /\ c.output = 0 /\ ~CHANNEL_EFD_OUTPUT_ACTIVE(c)
                   THEN chan_obuf_empty(c) ELSE c OBVIOUS
<1>2. Rests(c, e) /\ e.sent = c.sent /\ e \in Chan BY <1>1, ObufRests, RestsSelf DEF Rests
<1>3. PICK d : d = channel_pre_open(c) OBVIOUS
<1>4. d \in Chan BY <1>3, PreOpenQuiet DEF Quiet, Keeps
<1>5. PICK w : d = [e EXCEPT !.want = w] BY <1>1, <1>3 DEF channel_pre_open
<1>6. Rests(e, d) /\ d.sent = e.sent BY <1>2, <1>4, <1>5, ZenonT(60) DEF Rests, Chan
<1> QED BY <1>2, <1>3, <1>6, RestsTrans

LEMMA CheckWindowServer ==
  ASSUME NEW c \in Chan, NEW facts, ServerFit(c, facts)
  PROVE ServerKeeps(c, channel_check_window(c), facts)
<1>1. CASE channel_check_window(c) = c BY <1>1, ServerSelf
<1>2. CASE channel_check_window(c) # c
  <2>1. PICK len \in Int, lw \in Int : len = c.local_consumed /\ lw = c.local_window BY ChanInts
  <2>2. channel_check_window(c) = [Put(c, "ADJUST", len) EXCEPT !.local_window = @ + len, !.local_consumed = 0]
    BY <1>2, <2>1 DEF channel_check_window
  <2>3. "ADJUST" \in (Sendable) \ Data BY DEF Sendable, Running, Plain, Data
  <2>4. PICK e \in Chan : e = Put(c, "ADJUST", len) BY <2>3, ServerPut DEF ServerKeeps
  <2>5. ServerKeeps(c, e, facts) /\ ServerFit(e, facts) BY <2>3, <2>4, ServerPut DEF ServerKeeps
  <2>6. PICK x \in Int, y \in Int : x = e.local_window + len /\ y = 0 BY ChanInts
  <2>7. PICK d : d = [e EXCEPT !.local_window = x, !.local_consumed = y] OBVIOUS
  <2>8. d \in Chan BY <2>7 DEF Chan
  <2>9. d = channel_check_window(c) BY <2>2, <2>4, <2>6, <2>7 DEF Chan
  <2>10. Rests(e, d) /\ d.sent = e.sent
    <3>1. /\ d.type = e.type /\ d.istate = e.istate /\ d.usage = e.usage /\ d.tty = e.tty /\ d.input = e.input
          /\ d.extended = e.extended /\ d.fds = e.fds /\ d.detach = e.detach /\ d.sent = e.sent
      BY <2>7 DEF Chan
    <3> QED BY <2>8, <3>1 DEF Rests
  <2>11. ServerKeeps(e, d, facts) BY <2>5, <2>10, RestsKeeps
  <2> QED BY <2>5, <2>9, <2>11, ServerOn
<1> QED BY <1>1, <1>2

LEMMA WfdServer ==
  ASSUME NEW c \in Chan, NEW facts, ServerFit(c, facts), NEW n \in Int
  PROVE ServerKeeps(c, channel_handle_wfd(c, n), facts)
<1>1. CASE channel_handle_wfd(c, n) \in {c, chan_write_failed(c)} BY <1>1, ServerSelf, WriteFailedServer
<1>2. CASE channel_handle_wfd(c, n) \notin {c, chan_write_failed(c)}
  <2>1. channel_handle_wfd(c, n) = [c EXCEPT !.output = @ - n, !.local_consumed = @ + n]
    BY <1>2 DEF channel_handle_wfd
  <2>2. PICK x \in Int, y \in Int : x = c.output - n /\ y = c.local_consumed + n BY ChanInts
  <2>3. PICK d : d = [c EXCEPT !.output = x, !.local_consumed = y] OBVIOUS
  <2>4. d = channel_handle_wfd(c, n) BY <2>1, <2>2, <2>3 DEF Chan
  <2>5. d \in Chan BY <2>3 DEF Chan
  <2>6. Rests(c, d) /\ d.sent = c.sent BY <2>3, <2>5, ZenonT(60) DEF Rests, Chan
  <2> QED BY <2>4, <2>6, RestsKeeps
<1> QED BY <1>1, <1>2

LEMMA KnownFacts ==
  ASSUME NEW tty, NEW pipe, NEW shut, NEW command
  PROVE  /\ "out" \in Known(tty, pipe, shut, command) <=>
              /\ pipe["stdout"] = 0
              /\ "stdout" \in shut \/ (tty /\ command \in {"exited", "reaped"})
         /\ "err" \in Known(tty, pipe, shut, command) <=>
              pipe["stderr"] = 0 /\ ("stderr" \in shut \/ tty)
         /\ "started" \in Known(tty, pipe, shut, command) <=> command # "none"
         /\ "reaped" \in Known(tty, pipe, shut, command) <=> command = "reaped"
         /\ Known(tty, pipe, shut, command) \subseteq {"out", "err", "started", "reaped"} BY DEF Known

\* More may become known.
LEMMA FitMore ==
  ASSUME NEW c, NEW facts, NEW more, ServerFit(c, facts), facts \subseteq more,
         "started" \in more => "started" \in facts
  PROVE ServerFit(c, more) BY DEF ServerFit

\* What poll() was asked for: an open channel's extended stream is read or written, not both.
Ready(c) ==
  /\ "efd_w" \in c.want => c.usage = "write"
  /\ "efd_r" \in c.want => c.usage # "write"
  /\ c.type # "open" => c.want = {}

LEMMA RfdServer ==
  ASSUME NEW c \in Chan, NEW facts, ServerFit(c, facts), c.type = "open", NEW n \in Int, n >= -1,
         n > 0 => "out" \notin facts, n = 0 => "out" \in facts,
         n = -1 /\ c.tty /\ c.detach = "close" => "out" \in facts,
         NEW d, d = channel_handle_rfd(c, n)
  PROVE  /\ d \in Chan /\ ServerFit(d, facts) /\ d.tty = c.tty /\ d.sent = c.sent /\ d.extended = c.extended
         /\ d.type = "open" /\ d.usage = c.usage /\ d.want = c.want
<1>1. d \in Chan /\ d.sent = c.sent BY HandleRfdQuiet DEF Quiet, Keeps
<1>3. CASE d = c BY <1>1, <1>3
<1>4. CASE d = chan_read_failed(c) /\ "out" \in facts
  <2>1. /\ d.type = c.type /\ d.usage = c.usage /\ d.tty = c.tty /\ d.input = c.input /\ d.want = c.want
        /\ d.extended = c.extended /\ d.detach = c.detach
        /\ d.istate = IF c.istate = "open" THEN "drain" ELSE c.istate
    BY <1>4 DEF chan_read_failed, chan_shutdown_read, Chan
  <2>2. "efd" \in d.fds <=> "efd" \in c.fds BY <1>4 DEF chan_read_failed, chan_shutdown_read, Chan
  <2>3. ServerFit(d, facts) BY <1>4, <2>1, <2>2 DEF ServerFit
  <2> QED BY <1>1, <2>1, <2>3
<1>5. CASE d = [c EXCEPT !.input = @ + n] /\ n > 0
  <2>1. /\ d.type = c.type /\ d.usage = c.usage /\ d.tty = c.tty /\ d.istate = c.istate /\ d.want = c.want
        /\ d.extended = c.extended /\ d.detach = c.detach /\ d.fds = c.fds BY <1>5 DEF Chan
  <2>2. c.istate = "open" BY <1>5 DEF ServerFit
  <2>3. ServerFit(d, facts) BY <2>1, <2>2 DEF ServerFit
  <2> QED BY <1>1, <2>1, <2>3
<1>6. n = -1 \/ n = 0 \/ n > 0 OBVIOUS
<1>7. CASE n > 0 BY <1>3, <1>5, <1>7 DEF channel_handle_rfd
<1>8. CASE n = 0 BY <1>3, <1>4, <1>8 DEF channel_handle_rfd
<1>9. CASE n = -1 BY <1>3, <1>4, <1>9 DEF channel_handle_rfd
<1> QED BY <1>6, <1>7, <1>8, <1>9

LEMMA EfdServer ==
  ASSUME NEW c \in Chan, NEW facts, ServerFit(c, facts), c.type = "open", NEW n \in Int, n >= -1,
         n > 0 => c.usage = "read" /\ c.istate # "closed", n = 0 => "err" \in facts, "efd_r" \in c.want \/ n <= 0,
         NEW d, d = channel_handle_efd(c, n)
  PROVE  /\ d \in Chan /\ ServerFit(d, facts) /\ d.tty = c.tty /\ d.sent = c.sent /\ d.input = c.input
         /\ d.extended = c.extended + (IF n > 0 THEN n ELSE 0)
<1>1. d \in Chan /\ d.sent = c.sent BY HandleEfdQuiet DEF Quiet, Keeps
<1>2. c.usage # "write" /\ c.extended \in Int BY ChanInts DEF ServerFit
<1>3. CASE d = c /\ n <= 0 BY <1>1, <1>2, <1>3
<1>4. CASE d = [c EXCEPT !.fds = @ \ {"efd"}] /\ n = 0
  <2>1. /\ d.type = c.type /\ d.usage = c.usage /\ d.tty = c.tty /\ d.istate = c.istate /\ d.input = c.input
        /\ d.extended = c.extended /\ d.detach = c.detach /\ "efd" \notin d.fds BY <1>4 DEF Chan
  <2>2. ServerFit(d, facts) BY <1>4, <2>1 DEF ServerFit
  <2> QED BY <1>1, <1>2, <1>4, <2>1, <2>2
<1>5. CASE d = [c EXCEPT !.extended = @ + n] /\ n > 0
  <2>1. /\ d.type = c.type /\ d.usage = c.usage /\ d.tty = c.tty /\ d.istate = c.istate /\ d.input = c.input
        /\ d.extended = c.extended + n /\ d.detach = c.detach /\ d.fds = c.fds BY <1>5 DEF Chan
  <2>2. ServerFit(d, facts) BY <1>5, <2>1 DEF ServerFit
  <2> QED BY <1>1, <1>5, <2>1, <2>2
<1>6. n = -1 \/ n = 0 \/ n > 0 OBVIOUS
<1> QED BY <1>2, <1>3, <1>4, <1>5, <1>6 DEF channel_handle_efd, channel_handle_efd_read

\* The packets that the client sends.
LEMMA DataServer ==
  ASSUME NEW c \in Chan, NEW facts, ServerFit(c, facts), NEW n \in Int
  PROVE ServerKeeps(c, channel_input_data(c, n), facts)
<1>0. c.local_window \in Int /\ c.local_consumed \in Int /\ c.output \in Int BY ChanInts, Zenon
<1>1. PICK x \in Int, y \in Int, z \in Int : x = c.local_window - n /\ y = c.local_consumed + n /\ z = c.output + n
  BY <1>0
<1>2. PICK d, e : d = [c EXCEPT !.local_window = x, !.local_consumed = y] /\ e = [c EXCEPT !.local_window = x, !.output = z]
  OBVIOUS
<1>3. d \in Chan /\ e \in Chan BY <1>2 DEF Chan
<1>4. Rests(c, d) /\ d.sent = c.sent
  <2>1. /\ d.type = c.type /\ d.istate = c.istate /\ d.usage = c.usage /\ d.tty = c.tty /\ d.input = c.input
        /\ d.extended = c.extended /\ d.fds = c.fds /\ d.detach = c.detach /\ d.sent = c.sent
    BY <1>2 DEF Chan
  <2> QED BY <1>3, <2>1 DEF Rests
<1>5. Rests(c, e) /\ e.sent = c.sent
  <2>1. /\ e.type = c.type /\ e.istate = c.istate /\ e.usage = c.usage /\ e.tty = c.tty /\ e.input = c.input
        /\ e.extended = c.extended /\ e.fds = c.fds /\ e.detach = c.detach /\ e.sent = c.sent
    BY <1>2 DEF Chan
  <2> QED BY <1>3, <2>1 DEF Rests
<1>6. channel_input_data(c, n) \in {c, d, e} BY <1>1, <1>2 DEF channel_input_data, Chan
<1> QED BY <1>4, <1>5, <1>6, RestsKeeps, ServerSelf

LEMMA ExtendedServer ==
  ASSUME NEW c \in Chan, NEW facts, ServerFit(c, facts), NEW n \in Int
  PROVE ServerKeeps(c, channel_input_extended_data(c, n), facts)
<1>1. PICK d : d = [c EXCEPT !.err = TRUE] OBVIOUS
<1>2. channel_input_extended_data(c, n) \in {c, d} BY <1>1 DEF channel_input_extended_data, ServerFit
<1> QED BY <1>1, <1>2, ServerSelf, ErrServer

LEMMA AdjustServer ==
  ASSUME NEW c \in Chan, NEW facts, ServerFit(c, facts), NEW n \in Int
  PROVE ServerKeeps(c, channel_input_window_adjust(c, n), facts)
<1>1. PICK x \in Int : x = c.remote_window + n BY ChanInts
<1>2. PICK d : d = [c EXCEPT !.remote_window = x] OBVIOUS
<1>3. d \in Chan BY <1>2 DEF Chan
<1>4. Rests(c, d) /\ d.sent = c.sent BY <1>2, <1>3 DEF Rests, Chan
<1>5. d = channel_input_window_adjust(c, n) BY <1>1, <1>2 DEF channel_input_window_adjust, Chan
<1> QED BY <1>4, <1>5, RestsKeeps

LEMMA EofServer ==
  ASSUME NEW c \in Chan, NEW facts, ServerFit(c, facts)
  PROVE ServerKeeps(c, chan_rcvd_ieof(c), facts)
<1>1. PICK f \in SUBSET Flags, y \in Directions :
        f = c.flags \cup {"eof_rcvd"} /\ y = IF c.ostate = "open" THEN "drain" ELSE c.ostate
  BY DEF Chan, Flags, Directions
<1>2. PICK d : d = [c EXCEPT !.flags = f, !.ostate = y] OBVIOUS
<1>3. d \in Chan BY <1>2 DEF Chan
<1>4. Rests(c, d) /\ d.sent = c.sent BY <1>2, <1>3, ZenonT(60) DEF Rests, Chan
<1>6. d = [c EXCEPT !.flags = @ \cup {"eof_rcvd"}, !.ostate = IF @ = "open" THEN "drain" ELSE @]
  BY <1>1, <1>2 DEF Chan
<1>7. chan_rcvd_ieof(c) \in {d, chan_obuf_empty(d)} BY <1>6 DEF chan_rcvd_ieof
<1>8. Rests(d, chan_obuf_empty(d)) /\ chan_obuf_empty(d).sent = d.sent BY <1>3, ObufRests
<1>9. Rests(c, chan_obuf_empty(d)) BY <1>4, <1>8, RestsTrans
<1> QED BY <1>4, <1>7, <1>8, <1>9, RestsKeeps

\* A CLOSE that answers one.
LEMMA CloseServer ==
  ASSUME NEW c \in Chan, NEW facts, ServerFit(c, facts), c.type # "larval", c.istate = "closed"
  PROVE ServerKeeps(c, chan_rcvd_oclose(c), facts)
<1>1. PICK f \in SUBSET Flags, y \in Directions :
        f = c.flags \cup {"close_rcvd"} /\ y = IF c.ostate = "open" THEN "drain" ELSE c.ostate
  BY DEF Chan, Flags, Directions
<1>2. PICK d : d = [c EXCEPT !.flags = f, !.ostate = y] OBVIOUS
<1>3. d \in Chan BY <1>2 DEF Chan
<1>4. Rests(c, d) /\ d.sent = c.sent BY <1>2, <1>3, ZenonT(60) DEF Rests, Chan
<1>5. d = chan_rcvd_oclose(c) BY <1>1, <1>2 DEF chan_rcvd_oclose, Chan
<1> QED BY <1>4, <1>5, RestsKeeps

LEMMA OutputPollWant ==
  ASSUME NEW c \in Chan, Tidy(c) PROVE channel_output_poll(c).want = c.want
<1>0. CASE c.type # "open" BY <1>0 DEF channel_output_poll
<1>7. SUFFICES ASSUME c.type = "open" PROVE channel_output_poll(c).want = c.want BY <1>0
<1>1. chan_ibuf_empty(c).want = c.want BY DEF chan_ibuf_empty, chan_send_eof2, Put, Chan
<1>2. channel_output_poll_input_open(c).want = c.want
  BY <1>1 DEF channel_output_poll_input_open, Put, Chan
<1>3. PICK d : d = IF c.istate \in {"open", "drain"} THEN channel_output_poll_input_open(c) ELSE c
  OBVIOUS
<1>4. d.want = c.want /\ d \in Chan BY <1>2, <1>3, <1>7, OutputInputMoves DEF Moves
<1>5. channel_output_poll_extended_read(d).want = d.want
  BY <1>4 DEF channel_output_poll_extended_read, Put, Chan
<1>6. channel_output_poll(c) \in {c, d, channel_output_poll_extended_read(d)}
  BY <1>3 DEF channel_output_poll
<1> QED BY <1>4, <1>5, <1>6

LEMMA WriteFailedWant ==
  ASSUME NEW c \in Chan PROVE chan_write_failed(c).want = c.want
<1>1. PICK e \in Chan : e = chan_shutdown_write(c) BY ShutdownWriteQuiet DEF Quiet, Keeps
<1>2. e.want = c.want BY <1>1 DEF chan_shutdown_write, Chan
<1>3. PICK k : k = chan_send_eow2(e) OBVIOUS
<1>4. k.want = c.want BY <1>2, <1>3 DEF chan_send_eow2, Put, Chan
<1>5. [k EXCEPT !.ostate = "closed"].want = k.want BY <1>3 DEF chan_send_eow2, Put, Chan
<1> QED BY <1>1, <1>3, <1>4, <1>5 DEF chan_write_failed

LEMMA ExitMessageWant ==
  ASSUME NEW c \in Chan, NEW status \in {"exited", "killed"} PROVE session_exit_message(c, status).want = c.want
<1>k. PICK k \in {"EXIT", "SIGNAL"} : k = ExitRequest(status) BY DEF ExitRequest
<1>1. k \in Sendable /\ 0 \in Int BY DEF Sendable, Running, Plain
<1>p. PICK m \in Packets, e \in Chan : PutsInto(m, e, c, k, 0) BY <1>1, PutFields
<1>2. /\ m = Pkt(k, 0) /\ m.t = k /\ m.n = 0
      /\ e = Put(c, k, 0) /\ e.sent = Append(c.sent, m) /\ e = [c EXCEPT !.sent = e.sent]
  BY <1>p, Zenon DEF PutsInto
<1>3. PICK d : d = [e EXCEPT !.detach = "close", !.pid = FALSE] OBVIOUS
<1>4. d \in Chan /\ d.want = c.want BY <1>2, <1>3, ZenonT(60) DEF Chan
<1>5. chan_write_failed(d).want = c.want BY <1>4, WriteFailedWant
<1>6. [c EXCEPT !.err = TRUE].want = c.want BY DEF Chan
<1>7. session_exit_message(c, status) \in {[c EXCEPT !.err = TRUE], d, chan_write_failed(d)}
  BY <1>2, <1>3, <1>k DEF session_exit_message
<1> QED BY <1>4, <1>5, <1>6, <1>7

\* channel_pre_open() asks for what the channel can do.
LEMMA PrepareReady ==
  ASSUME NEW c \in Chan, c.want = {} PROVE Ready(channel_prepare(c, FALSE))
<1>1. CASE c.type # "open" BY <1>1 DEF channel_prepare, Ready
<1>2. CASE c.type = "open"
  <2>1. PICK e : e = IF c.ostate = "drain" /\ c.output = 0 /\ ~CHANNEL_EFD_OUTPUT_ACTIVE(c)
                     THEN chan_obuf_empty(c) ELSE c OBVIOUS
  <2>2. e \in Chan /\ e.type = c.type /\ e.usage = c.usage BY <2>1, ObufRests DEF Rests
  <2>3. PICK d : d = channel_pre_open(c) OBVIOUS
  <2>4. PICK v : /\ d = [e EXCEPT !.want = v] /\ ("efd_w" \in v => c.usage = "write")
                 /\ ("efd_r" \in v => c.usage \in {"read", "ignore"}) BY <2>1, <2>3 DEF channel_pre_open
  <2>5. d.type = c.type /\ d.usage = c.usage /\ d.want = v BY <2>2, <2>4 DEF Chan
  <2> QED BY <1>2, <2>3, <2>4, <2>5 DEF channel_prepare, Ready
<1> QED BY <1>1, <1>2

LEMMA MaybeCloseReady ==
  ASSUME NEW c \in Chan, Ready(c), NEW b
  PROVE Ready(chan_maybe_close(c, b)) /\ chan_maybe_close(c, b) \in Chan
<1>1. PICK d : d = chan_send_close2(c) OBVIOUS
<1>2. d \in Chan /\ d.type = c.type /\ d.usage = c.usage /\ d.want = c.want
  <2>1. d \in Chan BY <1>1, SendCloseChan, Zenon DEF chan_send_close2
  <2>2. d.type = c.type /\ d.usage = c.usage /\ d.want = c.want BY <1>1 DEF chan_send_close2, Put, Chan
  <2> QED BY <2>1, <2>2
<1>3. Ready(d) BY <1>2 DEF Ready
<1> QED BY <1>1, <1>2, <1>3 DEF chan_maybe_close

LEMMA GcReady ==
  ASSUME NEW c \in Chan, Ready(c) PROVE Ready(channel_garbage_collect(c))
<1>1. PICK asked : asked = chan_maybe_close(c, c.detach = "close") OBVIOUS
<1>2. asked \in Chan /\ Ready(asked) BY <1>1, MaybeCloseReady
<1>3. PICK told : told = IF c.detach # "none" /\ chan_is_dead(asked, c.detach = "close")
                         THEN detach_user(asked, FALSE) ELSE asked OBVIOUS
<1>4. told \in Chan BY <1>2, <1>3, DetachRests DEF Rests
<1>5. told.type = asked.type /\ told.usage = asked.usage /\ told.want = asked.want
  BY <1>2, <1>3 DEF detach_user, Chan
<1>6. Ready(told) BY <1>2, <1>5 DEF Ready
<1>7. PICK last : last = chan_maybe_close(told, TRUE) OBVIOUS
<1>8. last \in Chan /\ Ready(last) BY <1>4, <1>6, <1>7, MaybeCloseReady
<1>9. Ready(channel_free(last))
  <2>1. channel_free(last).want = {} BY DEF channel_free, channel_new
  <2> QED BY <2>1 DEF Ready
<1>10. channel_garbage_collect(c) \in {c, told, last, channel_free(last)}
  BY <1>1, <1>3, <1>7 DEF channel_garbage_collect
<1> QED BY <1>6, <1>8, <1>9, <1>10

LEMMA RfdWant ==
  ASSUME NEW c \in Chan, NEW n \in Int PROVE channel_handle_rfd(c, n).want = c.want
<1>1. chan_read_failed(c).want = c.want /\ [c EXCEPT !.input = @ + n].want = c.want
  BY DEF chan_read_failed, chan_shutdown_read, Chan
<1> QED BY <1>1 DEF channel_handle_rfd

LEMMA WfdWant ==
  ASSUME NEW c \in Chan, NEW n \in Int PROVE channel_handle_wfd(c, n).want = c.want
<1>1. chan_write_failed(c).want = c.want BY WriteFailedWant
<1>2. [c EXCEPT !.output = @ - n, !.local_consumed = @ + n].want = c.want BY DEF Chan
<1> QED BY <1>1, <1>2 DEF channel_handle_wfd

LEMMA HeldInt ==
  ASSUME NEW c \in Chan PROVE OutHeld(c) \in Int /\ ErrHeld(c) \in Int
<1>1. c.input \in Int /\ c.extended \in Int /\ c.sent \in Seq(Packets) BY ChanInts
<1>2. Units(c.sent, {"DATA"}) \in Int /\ Units(c.sent, {"EXT"}) \in Int BY <1>1, UnitsInt
<1> QED BY <1>1, <1>2 DEF OutHeld, ErrHeld

\* What the descriptors of the server give agrees with the facts, and the calls that serve them.
Agrees(c, facts, r, e) ==
  /\ r >= -1 /\ e >= -1
  /\ r > 0 => "out" \notin facts
  /\ r = 0 => "out" \in facts
  /\ r = -1 /\ c.tty /\ c.detach = "close" => "out" \in facts
  /\ e > 0 => "err" \notin facts
  /\ e = 0 => "err" \in facts
Served(c, r, w, e, d, f, k, x, y) ==
  /\ d = (IF c.type = "open" THEN channel_handle_rfd(c, r) ELSE c)
  /\ f = (IF c.type = "open" THEN channel_handle_wfd(d, w) ELSE d)
  /\ k = (IF c.type = "open" THEN channel_handle_efd(f, e) ELSE f)
  /\ x = d.input - c.input
  /\ y = IF c.want \cap {"efd_r", "efd_w"} # {} /\ e > 0 THEN e ELSE 0

\* The server serves its descriptors: what it reads it holds.
LEMMA ServeServer ==
  ASSUME NEW c \in Chan, NEW facts, ServerFit(c, facts), Ready(c), NEW r \in Int, NEW w \in Int, NEW e \in Int,
         NEW d, NEW f, NEW k, NEW x \in Int, NEW y \in Int,
         Agrees(c, facts, r, e), Served(c, r, w, e, d, f, k, x, y)
  PROVE  /\ k \in Chan /\ ServerFit(k, facts) /\ k.tty = c.tty /\ (Small(c.sent) => Small(k.sent))
         /\ OutHeld(k) = OutHeld(c) + x /\ ErrHeld(k) = ErrHeld(c) + y
<1> USE DEF Agrees, Served
<1>1. OutHeld(c) \in Int /\ ErrHeld(c) \in Int /\ c.input \in Int BY HeldInt, ChanInts
<1>2. CASE c.type # "open"
  <2>1. k = c /\ x = 0 /\ y = 0 BY <1>1, <1>2 DEF Ready
  <2> QED BY <1>1, <2>1
<1>3. CASE c.type = "open"
  <2>1. d = channel_handle_rfd(c, r) /\ f = channel_handle_wfd(d, w) /\ k = channel_handle_efd(f, e)
    BY <1>3
  <2>2. /\ d \in Chan /\ ServerFit(d, facts) /\ d.tty = c.tty /\ d.sent = c.sent /\ d.extended = c.extended
        /\ d.type = "open" /\ d.usage = c.usage /\ d.want = c.want BY <1>3, <2>1, RfdServer
  <2>3. ServerKeeps(d, f, facts) BY <2>1, <2>2, WfdServer
  <2>4. /\ f \in Chan /\ ServerFit(f, facts) /\ f.tty = d.tty /\ OutHeld(f) = OutHeld(d) /\ ErrHeld(f) = ErrHeld(d)
        /\ (Small(d.sent) => Small(f.sent)) BY <2>3 DEF ServerKeeps
  <2>5. f.type = "open" /\ f.usage = c.usage /\ f.want = c.want BY <2>1, <2>2, WfdKeeps, WfdWant
  <2>6. OutHeld(d) = OutHeld(c) + x /\ ErrHeld(d) = ErrHeld(c)
    <3>1. d.input \in Int BY <2>2, ChanInts
    <3>2. PICK u \in Int : u = Units(c.sent, {"DATA"}) BY ChanInts, UnitsInt
    <3>3. OutHeld(d) = d.input + u /\ OutHeld(c) = c.input + u BY <2>2, <3>2 DEF OutHeld
    <3>4. d.input + u = c.input + u + x BY <1>1, <3>1
    <3> QED BY <2>2, <3>3, <3>4 DEF ErrHeld
  <2>7. f.usage # "write" /\ "efd_w" \notin f.want BY <2>4, <2>5 DEF Ready, ServerFit
  <2>8. CASE "efd_r" \notin f.want
    <3>1. y = 0 BY <2>5, <2>7, <2>8
    <3>2. k = f BY <2>1, <2>7, <2>8 DEF channel_handle_efd, channel_handle_efd_read
    <3> QED BY <1>1, <2>2, <2>4, <2>6, <3>1, <3>2
  <2>9. CASE "efd_r" \in f.want
    <3>1. y = IF e > 0 THEN e ELSE 0 BY <2>5, <2>9
    <3>2. e > 0 => f.usage = "read" /\ f.istate # "closed" BY <2>4, <2>5, <2>7 DEF ServerFit, Chan
    <3>3. /\ k \in Chan /\ ServerFit(k, facts) /\ k.tty = f.tty /\ k.sent = f.sent /\ k.input = f.input
          /\ k.extended = f.extended + (IF e > 0 THEN e ELSE 0)
      BY <2>1, <2>4, <2>5, <2>9, <3>2, EfdServer
    <3>4. PICK u \in Int, v \in Int : u = Units(f.sent, {"EXT"}) /\ v = f.extended
      BY <2>4, ChanInts, UnitsInt
    <3>5. ErrHeld(k) = (v + y) + u /\ ErrHeld(f) = v + u /\ OutHeld(k) = OutHeld(f)
      BY <3>1, <3>3, <3>4 DEF ErrHeld, OutHeld
    <3>6. ErrHeld(k) = ErrHeld(c) + y /\ OutHeld(k) = OutHeld(c) + x BY <2>4, <2>6, <3>4, <3>5
    <3> QED BY <2>2, <2>4, <3>3, <3>6
  <2> QED BY <2>8, <2>9
<1> QED BY <1>2, <1>3

\* The rest of an iteration of the server.
LEMMA BeforeServer ==
  ASSUME NEW c \in Chan, c.want = {}, Tidy(c), NEW facts, ServerFit(c, facts), NEW reap \in BOOLEAN,
         reap => "reaped" \in facts,
         NEW c1, c1 = channel_output_poll(c), NEW status \in {"exited", "killed"},
         NEW c2, c2 = (IF reap /\ c1.pid THEN session_exit_message(c1, status) ELSE c1),
         NEW c2a, c2a = channel_prepare(c2, FALSE), NEW c3, c3 = channel_garbage_collect(c2a)
  PROVE ServerKeeps(c, c3, facts) /\ Ready(c3) /\ c3 \in Chan
<1>1. ServerKeeps(c, c1, facts) /\ c1 \in Chan /\ ServerFit(c1, facts) /\ c1.want = {}
  BY OutputPollServer, OutputPollWant DEF ServerKeeps
<1>2. ServerKeeps(c1, c2, facts) /\ c2.want = {}
  <2>1. CASE c2 = c1 BY <1>1, <2>1, ServerSelf
  <2>2. CASE reap /\ c2 = session_exit_message(c1, status)
    BY <1>1, <2>2, ExitMessageServer, ExitMessageWant
  <2> QED BY <2>1, <2>2
<1>3. c2 \in Chan /\ ServerFit(c2, facts) BY <1>2 DEF ServerKeeps
<1>4. ServerKeeps(c2, c2a, facts) /\ Ready(c2a)
  <2>1. Ready(c2a) BY <1>2, <1>3, PrepareReady
  <2>2. c2a \in {c2, channel_pre_open(c2)} BY DEF channel_prepare
  <2> QED BY <1>3, <2>1, <2>2, ServerSelf, PreOpenRests, RestsKeeps
<1>5. c2a \in Chan /\ ServerFit(c2a, facts) BY <1>4 DEF ServerKeeps
<1>6. ServerKeeps(c2a, c3, facts) /\ Ready(c3) BY <1>4, <1>5, GcServer, GcReady
<1>7. ServerKeeps(c, c2a, facts) BY <1>1, <1>2, <1>4, ServerOn
<1>8. ServerKeeps(c, c3, facts) BY <1>6, <1>7, ServerOn
<1> QED BY <1>6, <1>8 DEF ServerKeeps

LEMMA SmallConcat ==
  ASSUME NEW s \in Seq(Packets), NEW u \in Seq(Packets), Small(s), Small(u)
  PROVE Small(s \o u) BY DEF Small

LEMMA PutBackFields ==
  ASSUME NEW d \in Chan, NEW e, e = [d EXCEPT !.sent = <<>>, !.want = {}]
  PROVE  /\ e \in Chan /\ e.type = d.type /\ e.istate = d.istate /\ e.ostate = d.ostate /\ e.flags = d.flags
         /\ e.input = d.input /\ e.output = d.output /\ e.extended = d.extended
         /\ e.usage = d.usage /\ e.fds = d.fds /\ e.tty = d.tty /\ e.detach = d.detach
<1>1. <<>> \in Seq(Packets) OBVIOUS
<1>2. PICK u \in Seq(Packets) : u = <<>> BY <1>1
<1>3. e = [d EXCEPT !.sent = u, !.want = {}] BY <1>2
<1>4. e \in Chan BY <1>3, ZenonT(60) DEF Chan
<1> QED BY <1>3, <1>4, ZenonT(60) DEF Chan

\* The server's record is stored: its packets follow those that are on their way.
LEMMA ServerFlow ==
  ASSUME Shape, Flow, Counts, Counts', NEW d \in Chan, NEW queue \in Seq(Packets), Store("server", d, queue),
         ServerFit(d, Known(d.tty, src', closed', child')), Small(d.sent), ~Holds(queue, {"EOW"}),
         left' = left, got'["stdout"] = got["stdout"], got'["stderr"] = got["stderr"],
         src'["stdout"] + OutHeld(d) = src["stdout"] + ch["server"].input,
         src'["stderr"] + ErrHeld(d) = src["stderr"] + ch["server"].extended,
         child' = "none" => child = "none" /\ src'["stdout"] = 0 /\ src'["stderr"] = 0,
         ch["client"].type \in {"opening", "zombie"} => child' = "none"
  PROVE Flow'
<1>1. PICK p \in Peers : p = "server" /\ Other(p) = "client" BY DEF Peers, Other
<1>2. PICK c \in Chan, r \in Chan, s \in Seq(Packets) : c = ch["server"] /\ r = ch["client"] /\ s = net["client"]
  BY <1>1, PeersFacts DEF Shape
<1>3. PICK e : e = [d EXCEPT !.sent = <<>>, !.want = {}] OBVIOUS
<1>4. /\ e \in Chan /\ e.type = d.type /\ e.istate = d.istate /\ e.input = d.input /\ e.extended = d.extended
      /\ e.usage = d.usage /\ e.fds = d.fds /\ e.tty = d.tty /\ e.detach = d.detach
  BY <1>3, PutBackFields, ZenonT(60)
<1>5. PICK u \in Seq(Packets) : u = d.sent BY ChanInts
<1>6. ch'["server"] = e /\ ch'["client"] = r /\ net'["server"] = queue /\ net'["client"] = s \o u
  <2>1. Store(p, d, queue) BY <1>1
  <2>2. /\ ch'[p] = [d EXCEPT !.sent = <<>>, !.want = {}] /\ ch'[Other(p)] = ch[Other(p)]
        /\ net'[p] = queue /\ net'[Other(p)] = net[Other(p)] \o d.sent BY <2>1, StoredValues, Zenon
  <2> QED BY <1>1, <1>2, <1>3, <1>5, <2>2
<1>7. ServerFit(e, Known(e.tty, src', closed', child')) BY <1>4 DEF ServerFit
<1>8. Small(s \o u) BY <1>2, <1>5, SmallConcat DEF Flow
<1>9. /\ Units(s \o u, {"DATA"}) = Units(s, {"DATA"}) + Units(u, {"DATA"})
      /\ Units(s \o u, {"EXT"}) = Units(s, {"EXT"}) + Units(u, {"EXT"}) BY UnitsConcat
<1>10. PICK sd \in Int, se \in Int, ud \in Int, ue \in Int :
         /\ sd = Units(s, {"DATA"}) /\ se = Units(s, {"EXT"}) /\ ud = Units(u, {"DATA"}) /\ ue = Units(u, {"EXT"})
  BY UnitsInt
<1>11. PICK a \in Nat, b \in Nat, a1 \in Nat, b1 \in Nat, lo \in Nat, le \in Nat, go \in Nat, ge \in Nat :
         /\ a = src["stdout"] /\ b = src["stderr"] /\ a1 = src'["stdout"] /\ b1 = src'["stderr"]
         /\ lo = left["stdout"] /\ le = left["stderr"] /\ go = got["stdout"] /\ ge = got["stderr"]
  BY DEF Counts, Streams
<1>12. PICK i \in Int, x \in Int, i1 \in Int, x1 \in Int, o \in Int, y \in Int :
         /\ i = c.input /\ x = c.extended /\ i1 = d.input /\ x1 = d.extended /\ o = r.output /\ y = r.extended
  BY ChanInts
<1>13. a1 + (i1 + ud) = a + i /\ b1 + (x1 + ue) = b + x
  BY <1>2, <1>5, <1>10, <1>11, <1>12 DEF OutHeld, ErrHeld
<1>14. Written["stdout"] = lo + a + i + sd + o + go /\ Written["stderr"] = le + b + x + se + y + ge
  BY <1>2, <1>10, <1>11, <1>12 DEF Flow, Balance
<1>15. Written["stdout"] = lo + a1 + i1 + (sd + ud) + o + go /\ Written["stderr"] = le + b1 + x1 + (se + ue) + y + ge
  BY <1>13, <1>14
<1>16. Balance' BY <1>4, <1>6, <1>9, <1>10, <1>11, <1>12, <1>15 DEF Balance
<1>17. ClientFit(r) BY <1>2 DEF Flow
<1>18. Facts' = Known(e.tty, src', closed', child') BY <1>6 DEF Facts
<1>19. child' = "none" => \A f \in Outputs : src'[f] = 0 /\ left'[f] = Written[f] BY DEF Flow, Outputs
<1>20. ServerFit(ch'["server"], Facts') BY <1>6, <1>7, <1>18
<1>21. ClientFit(ch'["client"]) /\ ~Holds(net'["server"], {"EOW"}) /\ Small(net'["client"])
  BY <1>6, <1>8, <1>17
<1>22. ch'["client"].type \in {"opening", "zombie"} => child' = "none" BY <1>2, <1>6
<1> QED BY <1>16, <1>19, <1>20, <1>21, <1>22 DEF Flow, ServerFit, ClientFit, Holds, Small

LEMMA UnitsNone == ASSUME NEW c \in Chan, c.sent = <<>> PROVE OutHeld(c) = c.input /\ ErrHeld(c) = c.extended
<1>1. Units(<<>>, {"DATA"}) = 0 /\ Units(<<>>, {"EXT"}) = 0 /\ c.input \in Int /\ c.extended \in Int
  BY UnitsEmpty, ChanInts
<1> QED BY <1>1 DEF OutHeld, ErrHeld

LEMMA TurnServer ==
  ASSUME Shape, Windows, Counts, Counts', Flow, Turn("server"), Intact'
  PROVE Flow'
<1>0. src \in [Streams -> Int] /\ src \in [Streams -> Nat] /\ src' \in [Streams -> Nat] /\ "stdout" \in Streams
      /\ "stderr" \in Streams BY DEF Counts, Streams
<1>1. PICK p \in Peers : p = "server" BY DEF Peers
<1>2. PICK idle, c1, c2, c2a, c3, c4, c5, c6, c6a, c7, r, w, e :
           /\ Iterates(p, idle, c1, c2, c2a, c3, c4, c5, c6, c6a, c7, r, w, e)
           /\ Follows(p, idle, c3, c4, c7, e) /\ Assigns(p, idle, c3, c4, c7, w, e)
  BY <1>1, TurnUnfold, Zenon
<1>3. idle = FALSE
  <2>1. idle \in BOOLEAN /\ ("forced" \in broke' <=> "forced" \in broke \/ idle)
    BY <1>2, Zenon DEF Follows, Iterates
  <2>2. "forced" \notin broke' BY DEF Intact
  <2> QED BY <2>1, <2>2, Zenon
<1>4. /\ Store("server", c7, net["server"]) /\ child' = (IF child = "exited" THEN "reaped" ELSE child)
      /\ left' = left /\ closed' = closed
      /\ src' = [src EXCEPT !["stdout"] = @ - (c4.input - c3.input),
                           !["stderr"] = IF c3.want \cap {"efd_r", "efd_w"} # {} /\ e > 0 THEN @ - e ELSE @]
      /\ got' = [got EXCEPT !["stdin"] = IF "wfd" \in c3.want /\ w > 0 THEN @ + w ELSE @, !["stderr"] = @]
  BY <1>1, <1>2 DEF Assigns
<1>5. PICK c \in Chan : c = ch["server"] /\ c.sent = <<>> /\ c.want = {} /\ Tidy(c)
  BY <1>1 DEF Shape, Windows
<1>6. PICK facts : facts = Known(c.tty, src, closed, child') OBVIOUS
<1>7. ServerFit(c, facts)
  <2>1. ServerFit(c, Known(c.tty, src, closed, child)) BY <1>5 DEF Flow, Facts
  <2>2. PICK old : old = Known(c.tty, src, closed, child) OBVIOUS
  <2>3. old \subseteq facts /\ ("started" \in facts => "started" \in old)
    <3>1. child = "exited" => child' = "reaped" BY <1>4
    <3>2. child # "exited" => child' = child BY <1>4
    <3> QED BY <1>6, <2>2, <3>1, <3>2 DEF Known
  <2> QED BY <2>1, <2>2, <2>3, FitMore
<1>8. PICK reap \in BOOLEAN : reap <=> child = "exited" OBVIOUS
<1>9. reap => "reaped" \in facts BY <1>4, <1>6, <1>8, KnownFacts
<1>10. /\ c1 = channel_output_poll(c) /\ c2 = (IF reap /\ c1.pid THEN session_exit_message(c1, WaitStatus) ELSE c1)
       /\ c2a = channel_prepare(c2, FALSE) /\ c3 = channel_garbage_collect(c2a)
  BY <1>1, <1>2, <1>3, <1>5, <1>8, Zenon DEF Iterates
<1>11. ServerKeeps(c, c3, facts) /\ Ready(c3) /\ c3 \in Chan
  <2>1. WaitStatus \in {"exited", "killed"} BY DEF WaitStatus
  <2> QED BY <1>5, <1>7, <1>9, <1>10, <2>1, BeforeServer
<1>12. c3.tty = c.tty /\ ServerFit(c3, facts) BY <1>11 DEF ServerKeeps
<1>13. r \in Int /\ w \in Int /\ e \in Int BY <1>0, <1>2, BeforePoll
<1>14. PICK max \in Int : max = IF c3.input < c3.remote_window THEN Least(Packet, c3.remote_window - c3.input) ELSE 1
  <2>1. c3.input \in Int /\ c3.remote_window \in Int /\ Packet \in Int
    BY <1>11, ChanInts, ChannelAssumption
  <2>2. PICK k \in Int : k = c3.remote_window - c3.input BY <2>1
  <2>3. Least(Packet, k) \in Int BY <2>1, LeastInt, ZenonT(60)
  <2> QED BY <2>2, <2>3
<1>15. r \in Reads("stdout", max) /\ e \in Reads("stderr", RBuf) /\ RBuf \in Int
  BY <1>1, <1>2, <1>14, RBufInt, Zenon DEF Iterates
<1>16. /\ r >= -1 /\ r <= src["stdout"] /\ (r > 0 \/ src["stdout"] = 0) /\ (r = 0 => "stdout" \in closed)
       /\ e >= -1 /\ e <= src["stderr"] /\ (e > 0 \/ src["stderr"] = 0) /\ (e = 0 => "stderr" \in closed)
  BY <1>0, <1>15, ReadsAmount
<1>17. /\ r > 0 => "out" \notin facts
       /\ r = 0 => "out" \in facts
       /\ r = -1 /\ c3.tty /\ c3.detach = "close" => "out" \in facts
       /\ e > 0 => "err" \notin facts
       /\ e = 0 => "err" \in facts
  <2>1. src["stdout"] \in Nat /\ src["stderr"] \in Nat BY <1>0
  <2>2. c3.detach = "close" => child' = "reaped" BY <1>6, <1>12, KnownFacts DEF ServerFit
  <2>3. r > 0 => "out" \notin facts BY <1>6, <1>13, <1>16, <2>1, KnownFacts
  <2>4. r = 0 => "out" \in facts BY <1>6, <1>13, <1>16, <2>1, KnownFacts
  <2>5. r = -1 /\ c3.tty /\ c3.detach = "close" => "out" \in facts
    <3>1. r = -1 => src["stdout"] = 0 BY <1>13, <1>16
    <3> QED BY <1>6, <1>12, <2>2, <3>1, KnownFacts
  <2>6. e > 0 => "err" \notin facts BY <1>6, <1>13, <1>16, <2>1, KnownFacts
  <2>7. e = 0 => "err" \in facts
    <3>1. e = 0 => src["stderr"] = 0 /\ "stderr" \in closed BY <1>13, <1>16
    <3> QED BY <1>6, <3>1, KnownFacts, ZenonT(60)
  <2> QED BY <2>3, <2>4, <2>5, <2>6, <2>7
<1>18. /\ c4 = (IF c3.type = "open" THEN channel_handle_rfd(c3, r) ELSE c3)
       /\ c5 = (IF c3.type = "open" THEN channel_handle_wfd(c4, w) ELSE c4)
       /\ c6 = (IF c3.type = "open" THEN channel_handle_efd(c5, e) ELSE c5)
       /\ c6a = channel_check_window(c6) /\ c7 = channel_garbage_collect(c6a) BY <1>2, Zenon DEF Iterates
<1>19. PICK x \in Nat : x = c4.input - c3.input /\ x <= src["stdout"]
  <2>1. src["stdout"] \in Nat /\ c3.input \in Int BY <1>0, <1>11, ChanInts
  <2>2. CASE c3.type = "open"
    <3>1. c4.input \in Int /\ (c4.input - c3.input = 0 \/ (r > 0 /\ c4.input - c3.input = r))
      BY <1>11, <1>13, <1>18, <2>2, RfdAmount
    <3> QED BY <1>13, <1>16, <2>1, <3>1
  <2>3. CASE c3.type # "open" BY <1>18, <2>1, <2>3
  <2> QED BY <2>2, <2>3
<1>20. PICK y \in Nat : y = (IF c3.want \cap {"efd_r", "efd_w"} # {} /\ e > 0 THEN e ELSE 0) /\ y <= src["stderr"]
  BY <1>0, <1>13, <1>16
<1>21. /\ c6 \in Chan /\ ServerFit(c6, facts) /\ c6.tty = c3.tty /\ (Small(c3.sent) => Small(c6.sent))
       /\ OutHeld(c6) = OutHeld(c3) + x /\ ErrHeld(c6) = ErrHeld(c3) + y
  <2>1. x \in Int /\ y \in Int OBVIOUS
  <2>2. Agrees(c3, facts, r, e) BY <1>16, <1>17, Zenon DEF Agrees
  <2>3. Served(c3, r, w, e, c4, c5, c6, x, y) BY <1>18, <1>19, <1>20, Zenon DEF Served
  <2> QED BY <1>11, <1>12, <1>13, <2>1, <2>2, <2>3, ServeServer
<1>22. ServerKeeps(c6, c6a, facts) /\ c6a \in Chan /\ ServerFit(c6a, facts)
  BY <1>18, <1>21, CheckWindowServer DEF ServerKeeps
<1>23. ServerKeeps(c6a, c7, facts) BY <1>18, <1>22, GcServer
<1>24. ServerKeeps(c6, c7, facts) BY <1>22, <1>23, ServerOn
<1>25. /\ c7 \in Chan /\ ServerFit(c7, facts) /\ c7.tty = c.tty
       /\ OutHeld(c7) = OutHeld(c) + x /\ ErrHeld(c7) = ErrHeld(c) + y
  BY <1>11, <1>21, <1>24 DEF ServerKeeps
<1>26. Small(c7.sent)
  <2>1. Small(c.sent) BY <1>5 DEF Small
  <2> QED BY <1>11, <1>21, <1>24, <2>1 DEF ServerKeeps
<1>27. src'["stdout"] = src["stdout"] - x /\ src'["stderr"] = src["stderr"] - y
  <2>1. src' = [src EXCEPT !["stdout"] = src["stdout"] - x, !["stderr"] = src["stderr"] - y]
    <3>1. (IF c3.want \cap {"efd_r", "efd_w"} # {} /\ e > 0 THEN src["stderr"] - e ELSE src["stderr"]) = src["stderr"] - y
      BY <1>0, <1>13, <1>20
    <3> QED BY <1>0, <1>4, <1>19, <3>1
  <2> QED BY <1>0, <2>1
<1>36. (src["stdout"] = 0 => src'["stdout"] = 0) /\ (src["stderr"] = 0 => src'["stderr"] = 0)
  <2>1. x <= src["stdout"] /\ y <= src["stderr"] /\ src["stdout"] \in Nat /\ src["stderr"] \in Nat
    BY <1>0, <1>19, <1>20
  <2> QED BY <1>27, <2>1
<1>28. PICK k \in Chan : k = c7 BY <1>25
<1>29. ServerFit(k, Known(k.tty, src', closed', child'))
  <2>1. facts \subseteq Known(c.tty, src', closed', child')
    <3>1. src["stdout"] = 0 => src'["stdout"] = 0 BY <1>0, <1>36
    <3>2. src["stderr"] = 0 => src'["stderr"] = 0 BY <1>0, <1>36
    <3> QED BY <1>4, <1>6, <3>1, <3>2 DEF Known
  <2>2. "started" \in Known(c.tty, src', closed', child') => "started" \in facts BY <1>6, KnownFacts
  <2>3. ServerFit(k, Known(c.tty, src', closed', child')) BY <1>25, <1>28, <2>1, <2>2, FitMore
  <2> QED BY <1>25, <1>28, <2>3
<1>30. OutHeld(c) = c.input /\ ErrHeld(c) = c.extended /\ c.input \in Int /\ c.extended \in Int
  BY <1>5, UnitsNone, ChanInts
<1>31. src'["stdout"] + OutHeld(k) = src["stdout"] + c.input /\ src'["stderr"] + ErrHeld(k) = src["stderr"] + c.extended
  <2>1. PICK a \in Nat, b \in Nat : a = src["stdout"] /\ b = src["stderr"] BY <1>0
  <2>2. OutHeld(k) = c.input + x /\ ErrHeld(k) = c.extended + y BY <1>25, <1>28, <1>30
  <2>3. (a - x) + (c.input + x) = a + c.input /\ (b - y) + (c.extended + y) = b + c.extended BY <1>30
  <2> QED BY <1>27, <2>1, <2>2, <2>3
<1>32. child' = "none" => child = "none" /\ src'["stdout"] = 0 /\ src'["stderr"] = 0
  <2>1. child' = "none" => child = "none" BY <1>4
  <2>2. child = "none" => src["stdout"] = 0 /\ src["stderr"] = 0 BY DEF Flow, Outputs
  <2> QED BY <1>36, <2>1, <2>2
<1>33. ch["client"].type \in {"opening", "zombie"} => child' = "none" BY <1>4 DEF Flow
<1>34. PICK queue \in Seq(Packets) : queue = net["server"] /\ ~Holds(queue, {"EOW"})
  BY <1>1 DEF Shape, Flow
<1>35. got'["stdout"] = got["stdout"] /\ got'["stderr"] = got["stderr"] BY <1>0, <1>4 DEF Counts, Streams
<1> QED BY <1>4, <1>5, <1>26, <1>28, <1>29, <1>31, <1>32, <1>33, <1>34, <1>35, ServerFlow

\* A packet other than those of the opening finds the channel established.
LEMMA ArrivedEstablished ==
  ASSUME IInv, NEW p \in Peers, NEW t \in Running, Arrived(p, t)
  PROVE Established
<1>1. t \notin {"OPEN", "CONFIRM", "OPENFAIL"} BY DEF Running, Plain, Data
<1>2. up BY DEF Arrived
<1> QED BY <1>1, <1>2, OpeningArrived DEF IInv, Opening

LEMMA RunningKinds ==
  {"DATA", "EXT", "EOF", "CLOSE", "ADJUST", "EOW", "EXIT", "SIGNAL", "EXEC", "SUCCESS", "FAILURE"}
    \subseteq Running BY DEF Running, Plain, Data

LEMMA HoldsLess ==
  ASSUME NEW s \in Seq(Packets), s # <<>>, NEW ts, ~Holds(s, ts) PROVE ~Holds(Tail(s), ts) BY HoldsTail

\* A packet that the server handles.
LEMMA ServerTook ==
  ASSUME Shape, Windows, Flow, Counts, Counts', NEW d, ServerKeeps(ch["server"], d, Facts), net["server"] # <<>>,
         Store("server", d, Tail(net["server"])), UNCHANGED <<left, src, closed, child, got>>
  PROVE Flow'
<1>1. PICK p \in Peers : p = "server" BY DEF Peers
<1>2. PICK c \in Chan, in \in Seq(Packets) : c = ch["server"] /\ in = net["server"] /\ c.sent = <<>>
  BY <1>1 DEF Shape
<1>3. PICK queue \in Seq(Packets) : queue = Tail(in) BY <1>2, TailParts
<1>4. ~Holds(queue, {"EOW"})
  <2>1. ~Holds(in, {"EOW"}) BY <1>2 DEF Flow
  <2> QED BY <1>2, <1>3, <2>1, HoldsLess
<1>5. PICK e \in Chan : e = d BY DEF ServerKeeps
<1>6. e.tty = c.tty /\ ServerFit(e, Facts) /\ OutHeld(e) = OutHeld(c) /\ ErrHeld(e) = ErrHeld(c) /\ (Small(c.sent) => Small(e.sent))
  BY <1>2, <1>5 DEF ServerKeeps
<1>7. Facts = Known(e.tty, src', closed', child') BY <1>2, <1>6 DEF Facts
<1>8. Small(e.sent) BY <1>2, <1>6 DEF Small
<1>9. OutHeld(c) = c.input /\ ErrHeld(c) = c.extended BY <1>2, UnitsNone
<1>10. ServerFit(e, Known(e.tty, src', closed', child')) BY <1>6, <1>7
<1>11. src'["stdout"] + OutHeld(e) = src["stdout"] + ch["server"].input /\ src'["stderr"] + ErrHeld(e) = src["stderr"] + ch["server"].extended
  BY <1>2, <1>6, <1>9
<1>12. /\ child' = "none" => child = "none" /\ src'["stdout"] = 0 /\ src'["stderr"] = 0
       /\ ch["client"].type \in {"opening", "zombie"} => child' = "none" BY DEF Flow, Outputs
<1>13. Store("server", e, queue) BY <1>2, <1>3, <1>5
<1>14. left' = left /\ got'["stdout"] = got["stdout"] /\ got'["stderr"] = got["stderr"] OBVIOUS
<1> QED BY <1>4, <1>8, <1>10, <1>11, <1>12, <1>13, <1>14, ServerFlow

LEMMA ServerReceives ==
  ASSUME IInv, Windows, Flow, Counts, Counts', Intact,
         NEW p \in Peers, p = "server",
         \/ ReceiveData(p) \/ ReceiveExtData(p) \/ ReceiveEof(p) \/ ReceiveClose(p)
         \/ ReceiveAdjust(p) \/ ReceiveEow(p)
  PROVE Flow'
<1>1. PICK c \in Chan, r \in Chan, in \in Seq(Packets), s \in Seq(Packets) :
        c = ch[p] /\ r = ch[Other(p)] /\ in = net[p] /\ s = net[Other(p)] BY PeersFacts DEF IInv, Shape
<1>2. PICK t \in {"DATA", "EXT", "EOF", "CLOSE", "ADJUST", "EOW"} :
        /\ Arrived(p, t) /\ UNCHANGED <<left, src, closed, child, got>>
        /\ ReceiveData(p) => t = "DATA"
        /\ ReceiveExtData(p) => t = "EXT"
        /\ ReceiveEof(p) => t = "EOF"
        /\ ReceiveClose(p) => t = "CLOSE"
        /\ ReceiveAdjust(p) => t = "ADJUST"
        /\ ReceiveEow(p) => t = "EOW"
  BY DEF ReceiveData, ReceiveExtData, ReceiveEof, ReceiveClose, ReceiveAdjust, ReceiveEow, Receive, Arrived
<1>3. Established /\ Shape BY <1>2, ArrivedEstablished, RunningKinds DEF IInv
<1>4. /\ in # <<>> /\ Head(in).t = t /\ Head(in).n \in Int /\ channel_lookup(c) /\ c.type # "free" /\ Sane(c)
  BY <1>1, <1>2, <1>3, ArrivedFacts
<1>5. PICK n \in Int : n = Head(in).n BY <1>4
<1>6. ServerFit(c, Facts) BY <1>1 DEF Flow
<1>7. ASSUME NEW d, ServerKeeps(c, d, Facts), Store(p, d, Tail(in)) PROVE Flow'
  BY <1>1, <1>2, <1>3, <1>4, <1>7, ServerTook
<1>8. CASE ReceiveData(p)
  <2>1. Store(p, channel_input_data(c, n), Tail(in))
    BY <1>1, <1>4, <1>5, <1>8, ReceiveUnfold DEF ReceiveData
  <2> QED BY <1>6, <1>7, <2>1, DataServer
<1>9. CASE ReceiveExtData(p)
  <2>1. Store(p, channel_input_extended_data(c, n), Tail(in))
    BY <1>1, <1>4, <1>5, <1>9, ReceiveUnfold DEF ReceiveExtData
  <2> QED BY <1>6, <1>7, <2>1, ExtendedServer
<1>10. CASE ReceiveEof(p)
  <2>1. Store(p, chan_rcvd_ieof(c), Tail(in)) BY <1>1, <1>4, <1>10, ReceiveUnfold DEF ReceiveEof
  <2> QED BY <1>6, <1>7, <2>1, EofServer
<1>11. CASE ReceiveClose(p)
  <2>1. Store(p, chan_rcvd_oclose(c), Tail(in)) BY <1>1, <1>4, <1>11, ReceiveUnfold DEF ReceiveClose
  <2>2. Between(in, r, c) /\ Between(s, c, r) /\ Orderly(r, c, s)
    <3>1. r = ch["client"] /\ c = ch["server"] /\ s = net["client"] BY <1>1, PeersFacts
    <3>2. Orderly(r, c, s) BY <1>3, <3>1 DEF Established, Intact
    <3> QED BY <1>1, <1>3, <3>2, PeersFacts DEF Established, Linked
  <2>3. Holds(in, {"CLOSE"})
    <3>1. in[1] = Head(in) /\ 1 \in 1..Len(in) /\ Head(in).t = "CLOSE" BY <1>2, <1>4, <1>11
    <3> QED BY <3>1 DEF Holds
  <2>4. SentClose(r) /\ RcvdClose(r) /\ SentClose(c) BY <2>2, <2>3 DEF Between, Orderly
  <2>5. c.type # "larval" /\ c.istate = "closed" BY <1>4, <2>4 DEF SentClose, Sane
  <2> QED BY <1>6, <1>7, <2>1, <2>5, CloseServer
<1>12. CASE ReceiveAdjust(p)
  <2>1. Store(p, channel_input_window_adjust(c, n), Tail(in))
    BY <1>1, <1>4, <1>5, <1>12 DEF ReceiveAdjust
  <2> QED BY <1>6, <1>7, <2>1, AdjustServer
<1>13. CASE ReceiveEow(p)
  <2>1. in[1] = Head(in) /\ 1 \in 1..Len(in) /\ Head(in).t = "EOW" BY <1>2, <1>4, <1>13
  <2>2. Holds(in, {"EOW"}) BY <2>1 DEF Holds
  <2> QED BY <1>1, <2>2 DEF Flow
<1> QED BY <1>8, <1>9, <1>10, <1>11, <1>12, <1>13

\* The command is started: its pipes are empty, and with a pty there is no separate stderr.
LEMMA StartServer ==
  ASSUME NEW c \in Chan, Sane(c), NEW pipe, NEW shut, NEW k, NEW d,
         ServerFit(c, Known(c.tty, pipe, shut, "none")), pipe["stderr"] = 0, c.type = "larval", c.sent = <<>>,
         NEW f \in SUBSET {"rfd", "wfd", "efd"}, NEW u \in {"read", "ignore"}, "efd" \in f <=> ~c.tty, u = "ignore" <=> c.tty,
         k = [c EXCEPT !.type = "open", !.local_window = Window, !.pid = TRUE, !.usage = u, !.fds = f],
         d = Put(k, "ADJUST", Window)
  PROVE ServerKeeps(c, d, Known(c.tty, pipe, shut, "running")) /\ d.pid
<1>3. Window \in Int BY ChannelAssumption
<1>4. k \in Chan BY <1>3 DEF Chan, Types
<1>5. /\ k.type = "open" /\ k.istate = c.istate /\ k.usage = u /\ k.fds = f /\ k.tty = c.tty /\ k.input = c.input
      /\ k.extended = c.extended /\ k.detach = c.detach /\ k.sent = c.sent /\ k.pid BY DEF Chan
<1>6. PICK facts : facts = Known(c.tty, pipe, shut, "running") OBVIOUS
<1>7. "started" \in facts /\ (c.tty => "err" \in facts) BY <1>6, KnownFacts
<1>8. c.istate = "open" /\ c.input = 0 /\ c.extended = 0 /\ c.detach = "wait" BY DEF ServerFit, Sane
<1>9. ServerFit(k, facts) BY <1>5, <1>7, <1>8 DEF ServerFit
<1>10. ServerKeeps(c, k, facts) BY <1>4, <1>5, <1>9 DEF ServerKeeps, OutHeld, ErrHeld
<1>11. "ADJUST" \in (Sendable) \ Data BY DEF Sendable, Running, Plain, Data
<1>12. ServerKeeps(k, d, facts) BY <1>3, <1>4, <1>9, <1>11, ServerPut
<1>13. d.pid BY <1>4, <1>5 DEF Put, Chan
<1> QED BY <1>6, <1>10, <1>12, <1>13, ServerOn

LEMMA ExecServer ==
  ASSUME IInv, Windows, Flow, Counts, Counts', ReceiveExec
  PROVE Flow'
<1>1. PICK p \in Peers : p = "server" BY DEF Peers
<1>2. PICK c \in Chan, in \in Seq(Packets) : c = ch[p] /\ in = net[p] /\ c.sent = <<>> BY DEF IInv, Shape
<1>3. Arrived(p, "EXEC") /\ UNCHANGED <<left, src, closed, got>> BY <1>1 DEF ReceiveExec
<1>4. Established /\ Shape BY <1>3, ArrivedEstablished, RunningKinds DEF IInv
<1>5. in # <<>> /\ channel_lookup(c) /\ c.type # "free" /\ Sane(c) BY <1>2, <1>3, <1>4, ArrivedFacts
<1>6. PICK ok \in BOOLEAN :
        LET e == channel_from_packet_id(p, session_input_channel_req(c, ok))
            done == e.pid /\ ~c.pid
        IN /\ Store(p, IF "close_sent" \in e.flags \/ e.err THEN e
                       ELSE Put(e, IF done THEN "SUCCESS" ELSE "FAILURE", 0), Tail(net[p]))
           /\ child' = IF done THEN "running" ELSE child BY <1>1, <1>2 DEF ReceiveExec
<1>7. PICK e : e = session_input_channel_req(c, ok) OBVIOUS
<1>8. e = channel_from_packet_id(p, session_input_channel_req(c, ok))
  BY <1>2, <1>5, <1>7 DEF channel_from_packet_id
<1>9. PICK d : d = IF "close_sent" \in e.flags \/ e.err THEN e
                   ELSE Put(e, IF e.pid /\ ~c.pid THEN "SUCCESS" ELSE "FAILURE", 0) OBVIOUS
<1>10. Store(p, d, Tail(in)) /\ child' = IF e.pid /\ ~c.pid THEN "running" ELSE child
  BY <1>2, <1>6, <1>8, <1>9
<1>11. ServerFit(c, Known(c.tty, src, closed, child)) BY <1>1, <1>2 DEF Flow, Facts
<1>12. ASSUME ServerKeeps(c, e, Known(c.tty, src, closed, child')) PROVE ServerKeeps(c, d, Known(c.tty, src, closed, child'))
  <2>1. PICK facts : facts = Known(c.tty, src, closed, child') OBVIOUS
  <2>2. e \in Chan /\ ServerFit(e, facts) BY <1>12, <2>1 DEF ServerKeeps
  <2>3. 0 \in Int /\ {"SUCCESS", "FAILURE"} \subseteq (Sendable) \ Data
    BY DEF Sendable, Running, Plain, Data
  <2>4. ServerKeeps(e, Put(e, "SUCCESS", 0), facts) /\ ServerKeeps(e, Put(e, "FAILURE", 0), facts) /\ ServerKeeps(e, e, facts)
    BY <2>2, <2>3, ServerPut, ServerSelf
  <2>5. d \in {e, Put(e, "SUCCESS", 0), Put(e, "FAILURE", 0)} BY <1>9
  <2>6. ServerKeeps(e, d, facts) BY <2>4, <2>5
  <2> QED BY <1>12, <2>1, <2>6, ServerOn
<1>13. CASE c.type = "larval" /\ c.detach # "none" /\ ok
  <2>0. PICK f \in SUBSET {"rfd", "wfd", "efd"}, u \in {"read", "ignore"} :
          f = {"rfd", "wfd"} \cup (IF c.tty THEN {} ELSE {"efd"}) /\ u = IF c.tty THEN "ignore" ELSE "read"
    OBVIOUS
  <2>1. PICK k : k = [c EXCEPT !.type = "open", !.local_window = Window, !.pid = TRUE, !.usage = u, !.fds = f]
    OBVIOUS
  <2>20. ("efd" \in f <=> ~c.tty) /\ (u = "ignore" <=> c.tty) BY <2>0
  <2>2. e = Put(k, "ADJUST", Window) BY <1>7, <1>13, <2>0, <2>1 DEF session_input_channel_req
  <2>3. child = "none" BY <1>11, <1>13, KnownFacts DEF ServerFit
  <2>4. src["stdout"] = 0 /\ src["stderr"] = 0 /\ src' = src BY <1>3, <2>3 DEF Flow, Outputs
  <2>5. ServerKeeps(c, e, Known(c.tty, src, closed, "running")) /\ e.pid
    BY <1>2, <1>5, <1>11, <1>13, <2>1, <2>2, <2>3, <2>4, <2>20, StartServer, ZenonT(60)
  <2>6. ~c.pid BY <1>5, <1>13 DEF Sane
  <2>7. child' = "running" BY <1>10, <2>5, <2>6
  <2>8. ServerKeeps(c, d, Known(c.tty, src, closed, "running")) BY <1>12, <2>5, <2>7
  <2>9. PICK z \in Chan : z = d BY <2>8 DEF ServerKeeps
  <2>10. /\ z.tty = c.tty /\ ServerFit(z, Known(c.tty, src, closed, "running")) /\ OutHeld(z) = OutHeld(c)
         /\ ErrHeld(z) = ErrHeld(c) /\ (Small(c.sent) => Small(z.sent)) BY <2>8, <2>9 DEF ServerKeeps
  <2>11. ServerFit(z, Known(z.tty, src', closed', child')) BY <1>3, <2>7, <2>10
  <2>12. Small(z.sent) BY <1>2, <2>10 DEF Small
  <2>13. OutHeld(c) = c.input /\ ErrHeld(c) = c.extended BY <1>2, UnitsNone
  <2>14. PICK queue \in Seq(Packets) : queue = Tail(in) BY <1>5, TailParts
  <2>15. ~Holds(queue, {"EOW"})
    <3>1. ~Holds(in, {"EOW"}) BY <1>1, <1>2 DEF Flow
    <3> QED BY <1>5, <2>14, <3>1, HoldsLess
  <2>16. ch["client"].type \notin {"opening", "zombie"} BY <1>4 DEF Established, Linked, Ends
  <2>17. src'["stdout"] + OutHeld(z) = src["stdout"] + ch["server"].input /\ src'["stderr"] + ErrHeld(z) = src["stderr"] + ch["server"].extended
    BY <1>1, <1>2, <2>4, <2>10, <2>13
  <2>18. Store("server", z, queue) /\ left' = left /\ got'["stdout"] = got["stdout"] /\ got'["stderr"] = got["stderr"]
    BY <1>1, <1>3, <1>10, <2>9, <2>14
  <2>19. child' # "none" BY <2>7
  <2> QED BY <1>4, <2>11, <2>12, <2>15, <2>16, <2>17, <2>18, <2>19, ServerFlow
<1>14. CASE ~(c.type = "larval" /\ c.detach # "none" /\ ok)
  <2>1. e = c BY <1>7, <1>14 DEF session_input_channel_req
  <2>2. child' = child BY <1>10, <2>1
  <2>3. ServerKeeps(c, d, Known(c.tty, src, closed, child)) BY <1>11, <1>12, <2>1, <2>2, ServerSelf
  <2>4. ServerKeeps(ch["server"], d, Facts) BY <1>1, <1>2, <2>3 DEF Facts
  <2> QED BY <1>1, <1>2, <1>3, <1>4, <1>5, <1>10, <2>2, <2>4, ServerTook
<1> QED BY <1>13, <1>14

LEMMA OpenServer ==
  ASSUME IInv, Windows, Flow, Counts, Counts', ReceiveOpen
  PROVE Flow'
<1>1. PICK p \in Peers : p = "server" BY DEF Peers
<1>2. PICK c \in Chan, in \in Seq(Packets) : c = ch[p] /\ in = net[p] /\ c.sent = <<>> BY DEF IInv, Shape
<1>3. Arrived(p, "OPEN") /\ UNCHANGED <<left, src, closed, child, got>> BY <1>1 DEF ReceiveOpen
<1>4. Requested /\ Shape
  <2>1. up /\ "OPEN" \notin Running BY <1>3 DEF Arrived, Running, Plain, Data
  <2>2. CASE Opening BY <1>3, <2>2, OpeningArrived DEF IInv
  <2>3. CASE Established BY <1>3, <2>1, <2>3, ArrivedFacts DEF IInv
  <2> QED BY <2>1, <2>2, <2>3 DEF IInv, Opening
<1>5. /\ c.type = "free" /\ ch["client"].type = "opening" /\ in # <<>> /\ child = "none"
  BY <1>1, <1>2, <1>4 DEF Requested, Flow
<1>6. PICK n \in Nat : n = Head(in).n BY <1>2, <1>4, <1>5, HeadAmounts
<1>7. PICK tty \in Ttys, ok \in BOOLEAN :
        Store(p, IF ok THEN Put([channel_new("larval", 0, "ignore", {}, tty) EXCEPT !.remote_window = n], "CONFIRM", 0)
                       ELSE Put(c, "OPENFAIL", 0), Tail(in)) BY <1>1, <1>2, <1>6 DEF ReceiveOpen
<1>8. ServerFit(c, Facts) BY <1>1, <1>2 DEF Flow
<1>9. CASE ~ok
  <2>1. "OPENFAIL" \in (Sendable) \ Data /\ 0 \in Int BY DEF Sendable, Data
  <2>2. ServerKeeps(c, Put(c, "OPENFAIL", 0), Facts) BY <1>8, <2>1, ServerPut
  <2>3. Store(p, Put(c, "OPENFAIL", 0), Tail(in)) BY <1>7, <1>9
  <2> QED BY <1>1, <1>2, <1>3, <1>4, <1>5, <2>2, <2>3, ServerTook
<1>10. CASE ok
  <2>1. PICK k : k = [channel_new("larval", 0, "ignore", {}, tty) EXCEPT !.remote_window = n] OBVIOUS
  <2>2. tty \in BOOLEAN /\ n \in Int BY ChannelAssumption
  <2>3. k \in Chan /\ k.sent = <<>> BY <2>1, <2>2, LarvalSane, ZenonT(60) DEF Sane
  <2>4. /\ k.type = "larval" /\ k.usage = "ignore" /\ k.input = 0 /\ k.extended = 0 /\ k.istate = "open"
        /\ k.detach = "wait" /\ k.tty = tty BY <2>1 DEF channel_new
  <2>5. PICK facts : facts = Known(tty, src, closed, "none") OBVIOUS
  <2>6. "started" \notin facts BY <2>5, KnownFacts
  <2>7. ServerFit(k, facts) BY <2>4, <2>6 DEF ServerFit
  <2>8. "CONFIRM" \in (Sendable) \ Data /\ 0 \in Int BY DEF Sendable, Data
  <2>9. ServerKeeps(k, Put(k, "CONFIRM", 0), facts) BY <2>3, <2>7, <2>8, ServerPut
  <2>10. PICK z \in Chan : z = Put(k, "CONFIRM", 0) BY <2>9 DEF ServerKeeps
  <2>11. /\ z.tty = tty /\ ServerFit(z, facts) /\ OutHeld(z) = 0 /\ ErrHeld(z) = 0
    BY <2>3, <2>4, <2>9, <2>10, UnitsNone DEF ServerKeeps
  <2>12. Small(z.sent)
    <3>1. Small(k.sent) BY <2>3 DEF Small
    <3> QED BY <2>9, <2>10, <3>1 DEF ServerKeeps
  <2>13. ServerFit(z, Known(z.tty, src', closed', child')) BY <1>3, <1>5, <2>5, <2>11
  <2>14. PICK queue \in Seq(Packets) : queue = Tail(in) BY <1>5, TailParts
  <2>15. ~Holds(queue, {"EOW"})
    <3>1. ~Holds(in, {"EOW"}) BY <1>1, <1>2 DEF Flow
    <3> QED BY <1>5, <2>14, <3>1, HoldsLess
  <2>16. c.input = 0 /\ c.extended = 0 BY <1>5, <1>8 DEF ServerFit
  <2>17. src'["stdout"] + OutHeld(z) = src["stdout"] + ch["server"].input /\ src'["stderr"] + ErrHeld(z) = src["stderr"] + ch["server"].extended
    BY <1>1, <1>2, <1>3, <2>11, <2>16
  <2>18. Store("server", z, queue) /\ left' = left /\ got'["stdout"] = got["stdout"] /\ got'["stderr"] = got["stderr"]
    BY <1>1, <1>3, <1>7, <1>10, <2>1, <2>10, <2>14
  <2>19. child' = "none" /\ child = "none" /\ src'["stdout"] = 0 /\ src'["stderr"] = 0
    BY <1>3, <1>5 DEF Flow, Outputs
  <2> QED BY <1>4, <2>12, <2>13, <2>15, <2>17, <2>18, <2>19, ServerFlow
<1> QED BY <1>9, <1>10

\* A call on the client that neither writes nor loses output.
ClientKeeps(c, d) ==
  /\ d \in Chan /\ ClientFit(d) /\ d.output = c.output /\ d.extended = c.extended
  /\ ~Holds(c.sent, {"EOW"}) => ~Holds(d.sent, {"EOW"})
  /\ d.type \in {"opening", "zombie"} => d.type = c.type

\* A call that leaves the client's output alone.
Leaves(c, d) ==
  /\ d \in Chan /\ d.type = c.type /\ d.ostate = c.ostate /\ d.usage = c.usage
  /\ d.output = c.output /\ d.extended = c.extended /\ ("efd" \in d.fds <=> "efd" \in c.fds)
  /\ c.flags \subseteq d.flags

LEMMA LeavesFit ==
  ASSUME NEW c \in Chan, NEW d, ClientFit(c), Leaves(c, d) PROVE ClientFit(d)
<1>1. c.flags \cap {"eof_rcvd", "close_rcvd"} # {} => d.flags \cap {"eof_rcvd", "close_rcvd"} # {}
  BY DEF Leaves
<1> QED BY <1>1 DEF Leaves, ClientFit

LEMMA LeavesKeeps ==
  ASSUME NEW c \in Chan, NEW d, ClientFit(c), Leaves(c, d), d.sent = c.sent PROVE ClientKeeps(c, d)
  BY LeavesFit DEF ClientKeeps, Leaves

LEMMA LeavesPuts ==
  ASSUME NEW c \in Chan, NEW d, ClientFit(c), Leaves(c, d), NEW m \in Packets, m.t # "EOW", d.sent = Append(c.sent, m)
  PROVE ClientKeeps(c, d)
<1>1. c.sent \in Seq(Packets) BY ChanInts
<1>2. ~Holds(c.sent, {"EOW"}) => ~Holds(d.sent, {"EOW"}) BY <1>1, HoldsAppend
<1> QED BY <1>2, LeavesFit DEF ClientKeeps, Leaves

LEMMA ClientOn ==
  ASSUME NEW c, NEW d, NEW e, ClientKeeps(c, d), ClientKeeps(d, e) PROVE ClientKeeps(c, e)
  BY DEF ClientKeeps

LEMMA LeavesSelf == ASSUME NEW c \in Chan PROVE Leaves(c, c) BY DEF Leaves

LEMMA LeavesOn == ASSUME NEW c, NEW d, NEW e, Leaves(c, d), Leaves(d, e) PROVE Leaves(c, e) BY DEF Leaves

LEMMA ClientSelf == ASSUME NEW c \in Chan, ClientFit(c) PROVE ClientKeeps(c, c)
  BY LeavesSelf, LeavesKeeps

LEMMA PutClient ==
  ASSUME NEW c \in Chan, ClientFit(c), NEW t \in Sendable, t # "EOW", NEW n \in Int
  PROVE Leaves(c, Put(c, t, n)) /\ ClientKeeps(c, Put(c, t, n))
<1>1. /\ Put(c, t, n) \in Chan /\ Pkt(t, n) \in Packets /\ Pkt(t, n).t = t
      /\ Put(c, t, n).sent = Append(c.sent, Pkt(t, n)) BY PutChan
<1>2. PICK m \in Packets, d \in Chan : m = Pkt(t, n) /\ d = Put(c, t, n) BY <1>1
<1>3. m.t = t /\ d.sent = Append(c.sent, m) BY <1>1, <1>2
<1>4. /\ d.type = c.type /\ d.ostate = c.ostate /\ d.usage = c.usage /\ d.output = c.output
      /\ d.extended = c.extended /\ d.fds = c.fds /\ d.flags = c.flags BY <1>2 DEF Put, Chan
<1>5. Leaves(c, d) BY <1>4 DEF Leaves
<1> QED BY <1>2, <1>3, <1>5, LeavesPuts

LEMMA IbufClient == ASSUME NEW c \in Chan, ClientFit(c) PROVE ClientKeeps(c, chan_ibuf_empty(c))
<1>1. CASE ~(c.input = 0 /\ c.istate = "drain") BY <1>1, ClientSelf DEF chan_ibuf_empty
<1>2. CASE c.input = 0 /\ c.istate = "drain"
  <2>1. "EOF" \in Sendable /\ 0 \in Int BY DEF Sendable, Running
  <2>p. PICK m \in Packets, k \in Chan : PutsInto(m, k, c, "EOF", 0) BY <2>1, PutFields
  <2>2. /\ m = Pkt("EOF", 0) /\ m.t = "EOF" /\ m.n = 0
        /\ k = Put(c, "EOF", 0) /\ k.sent = Append(c.sent, m) /\ k = [c EXCEPT !.sent = k.sent]
    BY <2>p, Zenon DEF PutsInto
  <2>3. PICK f \in SUBSET Flags : f = c.flags \cup {"eof_sent"} BY DEF Chan, Flags
  <2>4. PICK e : e = [k EXCEPT !.flags = f] OBVIOUS
  <2>5. e = chan_send_eof2(c) BY <1>2, <2>2, <2>3, <2>4 DEF chan_send_eof2, Chan
  <2>6. PICK j : j = IF "close_sent" \in c.flags THEN c ELSE e OBVIOUS
  <2>7. PICK d : d = [j EXCEPT !.istate = "closed"] OBVIOUS
  <2>8. d = chan_ibuf_empty(c) BY <1>2, <2>5, <2>6, <2>7 DEF chan_ibuf_empty
  <2>9. CASE j = c
    <3>1. d \in Chan BY <2>7, <2>9 DEF Chan, Directions
    <3>2. Leaves(c, d) /\ d.sent = c.sent BY <2>7, <2>9, <3>1, ZenonT(60) DEF Leaves, Chan
    <3> QED BY <2>8, <3>2, LeavesKeeps
  <2>10. CASE j = e
    <3>1. e \in Chan BY <2>4 DEF Chan
    <3>2. d \in Chan BY <2>7, <2>10, <3>1, ZenonT(60) DEF Chan, Directions
    <3>3. Leaves(c, k) BY <2>2, ZenonT(60) DEF Leaves, Chan
    <3>4. Leaves(k, e) /\ e.sent = k.sent
      <4>1. k.flags \subseteq f BY <2>2, <2>3 DEF Chan
      <4> QED BY <2>4, <3>1, <4>1 DEF Leaves, Chan
    <3>5. Leaves(e, d) /\ d.sent = e.sent BY <2>7, <2>10, <3>1, <3>2, ZenonT(60) DEF Leaves, Chan
    <3>6. Leaves(c, d) BY <3>3, <3>4, <3>5, LeavesOn
    <3> QED BY <2>2, <2>8, <3>4, <3>5, <3>6, LeavesPuts
  <2> QED BY <2>6, <2>9, <2>10
<1> QED BY <1>1, <1>2

LEMMA OutputInputClient ==
  ASSUME NEW c \in Chan, ClientFit(c), Tidy(c) PROVE ClientKeeps(c, channel_output_poll_input_open(c))
<1>1. c.input \in Int /\ c.remote_window \in Int /\ c.input >= 0 /\ c.remote_window >= 0
  BY ChanInts DEF Tidy
<1>2. PICK len \in Nat : len = Least(c.input, Least(c.remote_window, Packet)) BY <1>1, LenBounds
<1>3. CASE c.input = 0 BY <1>3, IbufClient, ClientSelf DEF channel_output_poll_input_open
<1>4. CASE c.input # 0 /\ len = 0 BY <1>2, <1>4, ClientSelf DEF channel_output_poll_input_open
<1>5. CASE c.input # 0 /\ len # 0
  <2>1. "DATA" \in Sendable /\ len \in Int BY DEF Sendable, Running, Data
  <2>p. PICK m \in Packets, e \in Chan : PutsInto(m, e, c, "DATA", len) BY <2>1, PutFields
  <2>2. /\ m = Pkt("DATA", len) /\ m.t = "DATA" /\ m.n = len
        /\ e = Put(c, "DATA", len) /\ e.sent = Append(c.sent, m) /\ e = [c EXCEPT !.sent = e.sent]
    BY <2>p, Zenon DEF PutsInto
  <2>3. PICK x \in Int, y \in Int : x = c.input - len /\ y = c.remote_window - len BY <1>1
  <2>4. PICK d : d = [e EXCEPT !.input = x, !.remote_window = y] OBVIOUS
  <2>5. d \in Chan BY <2>4 DEF Chan
  <2>6. /\ e.type = c.type /\ e.ostate = c.ostate /\ e.usage = c.usage /\ e.output = c.output /\ e.input = c.input
        /\ e.extended = c.extended /\ e.fds = c.fds /\ e.flags = c.flags /\ e.remote_window = c.remote_window
    BY <2>2, ZenonT(60) DEF Chan
  <2>7. /\ d.type = c.type /\ d.ostate = c.ostate /\ d.usage = c.usage /\ d.output = c.output
        /\ d.extended = c.extended /\ d.fds = c.fds /\ d.flags = c.flags /\ d.sent = Append(c.sent, m)
    BY <2>2, <2>4, <2>6 DEF Chan
  <2>8. d = channel_output_poll_input_open(c)
    BY <1>2, <1>5, <2>2, <2>3, <2>4, <2>6 DEF channel_output_poll_input_open, Chan
  <2>9. Leaves(c, d) BY <2>5, <2>7 DEF Leaves
  <2> QED BY <2>2, <2>7, <2>8, <2>9, LeavesPuts
<1> QED BY <1>3, <1>4, <1>5

LEMMA OutputPollClient ==
  ASSUME NEW c \in Chan, ClientFit(c), Tidy(c) PROVE ClientKeeps(c, channel_output_poll(c))
<1>1. CASE c.type # "open" \/ c.flags \cap {"close_sent", "close_rcvd"} # {}
  BY <1>1, ClientSelf DEF channel_output_poll
<1>2. CASE ~(c.type # "open" \/ c.flags \cap {"close_sent", "close_rcvd"} # {})
  <2>1. PICK d : d = IF c.istate \in {"open", "drain"} THEN channel_output_poll_input_open(c) ELSE c
    OBVIOUS
  <2>2. ClientKeeps(c, d) BY <2>1, OutputInputClient, ClientSelf
  <2>3. d.usage = "write"
    <3>1. c.usage = "write" BY <1>2 DEF ClientFit
    <3>2. chan_ibuf_empty(c).usage = "write" BY <3>1 DEF chan_ibuf_empty, chan_send_eof2, Put, Chan
    <3>3. channel_output_poll_input_open(c).usage = "write"
      BY <3>1, <3>2 DEF channel_output_poll_input_open, Put, Chan
    <3> QED BY <2>1, <3>1, <3>3
  <2>4. channel_output_poll(c) = d BY <1>2, <2>1, <2>3 DEF channel_output_poll
  <2> QED BY <2>2, <2>4
<1> QED BY <1>1, <1>2

\* The output is shut down when there is none left.
LEMMA ObufClient ==
  ASSUME NEW c \in Chan, ClientFit(c), c.ostate = "drain" => c.extended = 0
  PROVE ClientKeeps(c, chan_obuf_empty(c))
<1>1. CASE ~(c.output = 0 /\ c.ostate = "drain") BY <1>1, ClientSelf DEF chan_obuf_empty
<1>2. CASE c.output = 0 /\ c.ostate = "drain"
  <2>1. PICK e \in Chan : e = chan_shutdown_write(c) /\ e.sent = c.sent
    BY ShutdownWriteQuiet DEF Quiet, Keeps
  <2>2. /\ e.type = c.type /\ e.usage = c.usage /\ e.output = 0 /\ e.extended = c.extended /\ e.flags = c.flags
    BY <2>1 DEF chan_shutdown_write, Chan
  <2>3. "efd" \in e.fds <=> "efd" \in c.fds BY <2>1 DEF chan_shutdown_write, Chan
  <2>4. PICK d : d = [e EXCEPT !.ostate = "closed"] OBVIOUS
  <2>5. d \in Chan BY <2>4 DEF Chan, Directions
  <2>6. /\ d.type = e.type /\ d.usage = e.usage /\ d.output = e.output /\ d.extended = e.extended /\ d.flags = e.flags
        /\ d.fds = e.fds /\ d.sent = e.sent /\ d.ostate = "closed" BY <2>4 DEF Chan
  <2>7. ClientFit(d) BY <1>2, <2>2, <2>3, <2>6 DEF ClientFit
  <2>8. d = chan_obuf_empty(c) BY <1>2, <2>1, <2>4 DEF chan_obuf_empty
  <2> QED BY <1>2, <2>1, <2>2, <2>5, <2>6, <2>7, <2>8 DEF ClientKeeps
<1> QED BY <1>1, <1>2

\* An inactive extended stream of a channel that got EOF or CLOSE is empty.
LEMMA InactiveEmpty ==
  ASSUME NEW c \in Chan, ClientFit(c), c.extended >= 0, c.type = "open", c.ostate # "open", ~CHANNEL_EFD_OUTPUT_ACTIVE(c)
  PROVE c.extended = 0
<1>1. c.extended \in Int /\ c.usage = "write" /\ "efd" \in c.fds BY ChanInts DEF ClientFit
<1>2. ~(c.extended > 0) BY <1>1 DEF CHANNEL_EFD_OUTPUT_ACTIVE
<1> QED BY <1>1, <1>2

LEMMA PrepareClient ==
  ASSUME NEW c \in Chan, ClientFit(c), c.extended >= 0 PROVE ClientKeeps(c, channel_prepare(c, FALSE))
<1>1. CASE c.type # "open" BY <1>1, ClientSelf DEF channel_prepare
<1>2. CASE c.type = "open"
  <2>1. PICK e : e = IF c.ostate = "drain" /\ c.output = 0 /\ ~CHANNEL_EFD_OUTPUT_ACTIVE(c)
                     THEN chan_obuf_empty(c) ELSE c OBVIOUS
  <2>2. ClientKeeps(c, e)
    <3>1. CASE c.ostate = "drain" /\ c.output = 0 /\ ~CHANNEL_EFD_OUTPUT_ACTIVE(c)
      BY <1>2, <2>1, <3>1, InactiveEmpty, ObufClient
    <3>2. CASE ~(c.ostate = "drain" /\ c.output = 0 /\ ~CHANNEL_EFD_OUTPUT_ACTIVE(c))
      BY <2>1, <3>2, ClientSelf
    <3> QED BY <3>1, <3>2
  <2>3. e \in Chan /\ ClientFit(e) BY <2>2 DEF ClientKeeps
  <2>4. PICK d : d = channel_pre_open(c) OBVIOUS
  <2>5. d \in Chan BY <2>4, PreOpenQuiet DEF Quiet, Keeps
  <2>6. PICK v : d = [e EXCEPT !.want = v] BY <2>1, <2>4 DEF channel_pre_open
  <2>7. Leaves(e, d) /\ d.sent = e.sent BY <2>3, <2>5, <2>6 DEF Leaves, Chan
  <2>8. ClientKeeps(e, d) BY <2>3, <2>7, LeavesKeeps
  <2>9. d = channel_prepare(c, FALSE) BY <1>2, <2>4 DEF channel_prepare
  <2> QED BY <2>2, <2>8, <2>9, ClientOn
<1> QED BY <1>1, <1>2

LEMMA MaybeCloseClient ==
  ASSUME NEW c \in Chan, ClientFit(c), NEW b
  PROVE Leaves(c, chan_maybe_close(c, b)) /\ ClientKeeps(c, chan_maybe_close(c, b))
<1>1. CASE chan_maybe_close(c, b) = c BY <1>1, LeavesSelf, ClientSelf
<1>2. CASE chan_maybe_close(c, b) # c
  <2>1. /\ c.ostate = "closed" /\ c.istate = "closed" /\ "close_sent" \notin c.flags
        /\ chan_maybe_close(c, b) = chan_send_close2(c) BY <1>2 DEF chan_maybe_close, chan_send_close2
  <2>2. PICK m \in Packets :
           /\ m.t = "CLOSE" /\ chan_send_close2(c) \in Chan
           /\ chan_send_close2(c) = [c EXCEPT !.sent = Append(c.sent, m), !.flags = c.flags \cup {"close_sent"}]
    BY <2>1, SendCloseChan, Zenon
  <2>3. PICK d \in Chan : d = chan_send_close2(c) BY <2>2
  <2>4. /\ d.type = c.type /\ d.ostate = c.ostate /\ d.usage = c.usage /\ d.output = c.output
        /\ d.extended = c.extended /\ d.fds = c.fds /\ d.flags = c.flags \cup {"close_sent"} /\ d.sent = Append(c.sent, m)
    BY <2>2, <2>3 DEF Chan
  <2>5. Leaves(c, d) BY <2>4 DEF Leaves
  <2>6. m.t # "EOW" BY <2>2
  <2>7. ClientKeeps(c, d) BY <2>4, <2>5, <2>6, LeavesPuts
  <2> QED BY <2>1, <2>3, <2>5, <2>7
<1> QED BY <1>1, <1>2

LEMMA DetachLeaves ==
  ASSUME NEW c \in Chan, NEW b PROVE Leaves(c, detach_user(c, b)) /\ detach_user(c, b).sent = c.sent
<1>1. PICK d : d = [c EXCEPT !.detach = "none", !.pid = FALSE] OBVIOUS
<1>2. d \in Chan BY <1>1 DEF Chan
<1>3. Leaves(c, d) /\ d.sent = c.sent BY <1>1, <1>2, ZenonT(60) DEF Leaves, Chan
<1> QED BY <1>1, <1>3, LeavesSelf DEF detach_user

LEMMA GcClient == ASSUME NEW c \in Chan, ClientFit(c) PROVE ClientKeeps(c, channel_garbage_collect(c))
<1>1. PICK asked : asked = chan_maybe_close(c, c.detach = "close") OBVIOUS
<1>2. ClientKeeps(c, asked) /\ asked \in Chan /\ ClientFit(asked)
  BY <1>1, MaybeCloseClient DEF ClientKeeps
<1>3. PICK told : told = IF c.detach # "none" /\ chan_is_dead(asked, c.detach = "close")
                         THEN detach_user(asked, FALSE) ELSE asked OBVIOUS
<1>4. Leaves(asked, told) /\ told.sent = asked.sent BY <1>2, <1>3, DetachLeaves, LeavesSelf
<1>5. ClientKeeps(asked, told) /\ told \in Chan /\ ClientFit(told)
  BY <1>2, <1>4, LeavesKeeps DEF ClientKeeps
<1>6. PICK last : last = chan_maybe_close(told, TRUE) OBVIOUS
<1>7. ClientKeeps(told, last) /\ last \in Chan /\ ClientFit(last)
  BY <1>5, <1>6, MaybeCloseClient DEF ClientKeeps
<1>8. ClientKeeps(c, told) BY <1>2, <1>5, ClientOn
<1>9. ClientKeeps(c, last) BY <1>7, <1>8, ClientOn
<1>10. ASSUME chan_is_dead(last, TRUE) PROVE ClientKeeps(c, channel_free(last))
  <2>1. last.output = 0 /\ last.extended = 0 BY <1>7, <1>10 DEF chan_is_dead, ClientFit
  <2>2. PICK d : d = channel_free(last) OBVIOUS
  <2>3. /\ d \in Chan /\ d.type = "free" /\ d.sent = last.sent /\ d.output = 0 /\ d.extended = 0 /\ d.ostate = "open"
    BY <1>7, <2>2, FreeFields
  <2>4. ClientFit(d) BY <2>3 DEF ClientFit
  <2>5. ClientKeeps(last, d) BY <2>1, <2>3, <2>4 DEF ClientKeeps
  <2> QED BY <1>9, <2>2, <2>5, ClientOn
<1>11. channel_garbage_collect(c) \in {c, told, last} \/ (chan_is_dead(last, TRUE) /\ channel_garbage_collect(c) = channel_free(last))
  BY <1>1, <1>3, <1>6 DEF channel_garbage_collect
<1> QED BY <1>8, <1>9, <1>10, <1>11, ClientSelf

LEMMA RfdClient ==
  ASSUME NEW c \in Chan, ClientFit(c), NEW n \in Int PROVE ClientKeeps(c, channel_handle_rfd(c, n))
<1>1. PICK d : d = channel_handle_rfd(c, n) OBVIOUS
<1>2. d \in Chan /\ d.sent = c.sent /\ d.flags = c.flags BY <1>1, HandleRfdQuiet DEF Quiet, Keeps
<1>3. /\ d.type = c.type /\ d.usage = c.usage /\ d.output = c.output /\ d.extended = c.extended
  BY <1>1, RfdKeeps
<1>4. d.ostate = c.ostate /\ ("efd" \in d.fds <=> "efd" \in c.fds)
  <2>1. CASE d = c BY <2>1
  <2>2. CASE d = chan_read_failed(c) BY <2>2 DEF chan_read_failed, chan_shutdown_read, Chan
  <2>3. CASE d = [c EXCEPT !.input = @ + n] BY <2>3 DEF Chan
  <2> QED BY <1>1, <2>1, <2>2, <2>3 DEF channel_handle_rfd
<1>5. Leaves(c, d) BY <1>2, <1>3, <1>4 DEF Leaves
<1> QED BY <1>1, <1>2, <1>5, LeavesKeeps

\* What is written leaves the buffer.
LEMMA WfdClient ==
  ASSUME NEW c \in Chan, ClientFit(c), c.type = "open", NEW n \in Int, n >= -1, n <= c.output, "wfd" \in c.want => n # 0,
         NEW d, d = channel_handle_wfd(c, n)
  PROVE  /\ d \in Chan /\ ClientFit(d) /\ d.sent = c.sent /\ d.extended = c.extended
         /\ d.type = "open" /\ d.usage = c.usage /\ d.want = c.want
         /\ d.output = c.output - (IF "wfd" \in c.want /\ n > 0 THEN n ELSE 0)
<1>1. c.output \in Int BY ChanInts
<1>2. CASE "wfd" \notin c.want \/ n = -1
  <2>1. d = c BY <1>2 DEF channel_handle_wfd
  <2> QED BY <1>1, <1>2, <2>1
<1>3. CASE "wfd" \in c.want /\ n > 0
  <2>1. PICK x \in Int, y \in Int : x = c.output - n /\ y = c.local_consumed + n BY ChanInts
  <2>2. c.output # 0 BY <1>1, <1>3
  <2>3. d = [c EXCEPT !.output = x, !.local_consumed = y]
    BY <1>3, <2>1, <2>2 DEF channel_handle_wfd, Chan
  <2>4. d \in Chan BY <2>3, ZenonT(60) DEF Chan
  <2>5. /\ d.type = c.type /\ d.ostate = c.ostate /\ d.usage = c.usage /\ d.output = x /\ d.want = c.want
        /\ d.extended = c.extended /\ d.fds = c.fds /\ d.flags = c.flags /\ d.sent = c.sent
    BY <2>3 DEF Chan
  <2>6. ClientFit(d) BY <2>2, <2>5 DEF ClientFit
  <2> QED BY <1>3, <2>1, <2>4, <2>5, <2>6
<1>4. n = -1 \/ n = 0 \/ n > 0 OBVIOUS
<1> QED BY <1>2, <1>3, <1>4

LEMMA EfdClient ==
  ASSUME NEW c \in Chan, ClientFit(c), c.type = "open", NEW n \in Int, n >= -1, n <= c.extended, "efd_w" \in c.want => n # 0,
         NEW d, d = channel_handle_efd(c, n)
  PROVE  /\ d \in Chan /\ ClientFit(d) /\ d.sent = c.sent /\ d.output = c.output /\ d.type = "open"
         /\ d.extended = c.extended - (IF "efd_w" \in c.want /\ n > 0 THEN n ELSE 0)
<1>1. c.extended \in Int BY ChanInts
<1>0. c.usage = "write" BY DEF ClientFit
<1>2. CASE "efd_w" \notin c.want \/ n = -1
  <2>1. d = c BY <1>0, <1>2 DEF channel_handle_efd, channel_handle_efd_write
  <2> QED BY <1>1, <1>2, <2>1
<1>3. CASE "efd_w" \in c.want /\ n > 0
  <2>1. PICK x \in Int, y \in Int : x = c.extended - n /\ y = c.local_consumed + n BY ChanInts
  <2>2. c.extended # 0 BY <1>1, <1>3
  <2>3. d = [c EXCEPT !.extended = x, !.local_consumed = y]
    BY <1>0, <1>3, <2>1, <2>2 DEF channel_handle_efd, channel_handle_efd_write, Chan
  <2>4. d \in Chan BY <2>3, ZenonT(60) DEF Chan
  <2>5. /\ d.type = c.type /\ d.ostate = c.ostate /\ d.usage = c.usage /\ d.output = c.output
        /\ d.extended = x /\ d.fds = c.fds /\ d.flags = c.flags /\ d.sent = c.sent BY <2>3 DEF Chan
  <2>6. ClientFit(d) BY <2>2, <2>5 DEF ClientFit
  <2> QED BY <1>3, <2>1, <2>4, <2>5, <2>6
<1>4. n = -1 \/ n = 0 \/ n > 0 OBVIOUS
<1> QED BY <1>2, <1>3, <1>4

LEMMA CheckWindowClient ==
  ASSUME NEW c \in Chan, ClientFit(c) PROVE ClientKeeps(c, channel_check_window(c))
<1>1. CASE channel_check_window(c) = c BY <1>1, ClientSelf
<1>2. CASE channel_check_window(c) # c
  <2>1. PICK len \in Int, lw \in Int : len = c.local_consumed /\ lw = c.local_window BY ChanInts
  <2>2. channel_check_window(c) = [Put(c, "ADJUST", len) EXCEPT !.local_window = @ + len, !.local_consumed = 0]
    BY <1>2, <2>1 DEF channel_check_window
  <2>3. "ADJUST" \in Sendable /\ "ADJUST" # "EOW" BY DEF Sendable, Running, Plain
  <2>4. PICK e \in Chan : e = Put(c, "ADJUST", len) BY <2>3, PutClient DEF ClientKeeps
  <2>5. ClientKeeps(c, e) /\ ClientFit(e) BY <2>3, <2>4, PutClient DEF ClientKeeps
  <2>6. PICK x \in Int, y \in Int : x = e.local_window + len /\ y = 0 BY ChanInts
  <2>7. PICK d : d = [e EXCEPT !.local_window = x, !.local_consumed = y] OBVIOUS
  <2>8. d \in Chan BY <2>7 DEF Chan
  <2>9. d = channel_check_window(c) BY <2>2, <2>4, <2>6, <2>7 DEF Chan
  <2>10. Leaves(e, d) /\ d.sent = e.sent
    <3>1. /\ d.type = e.type /\ d.ostate = e.ostate /\ d.usage = e.usage /\ d.output = e.output
          /\ d.extended = e.extended /\ d.fds = e.fds /\ d.flags = e.flags /\ d.sent = e.sent
      BY <2>7 DEF Chan
    <3> QED BY <2>8, <3>1 DEF Leaves
  <2>11. ClientKeeps(e, d) BY <2>5, <2>10, LeavesKeeps
  <2> QED BY <2>5, <2>9, <2>11, ClientOn
<1> QED BY <1>1, <1>2

\* The packets that the server sends.
LEMMA DataClient ==
  ASSUME NEW c \in Chan, ClientFit(c), c.type = "open", c.flags \cap {"eof_rcvd", "close_rcvd"} = {},
         NEW n \in Nat, n <= Packet, n <= c.local_window, NEW d, d = channel_input_data(c, n)
  PROVE  /\ d \in Chan /\ ClientFit(d) /\ d.sent = c.sent /\ d.extended = c.extended /\ d.type = "open"
         /\ d.output = c.output + n
<1>0. c.local_window \in Int /\ c.output \in Int BY ChanInts, Zenon
<1>1. PICK x \in Int, z \in Int : x = c.local_window - n /\ z = c.output + n BY <1>0
<1>2. c.ostate = "open" /\ c.local_window \in Int /\ Packet \in Int
  BY ChanInts, ChannelAssumption DEF ClientFit
<1>3. d = [c EXCEPT !.local_window = x, !.output = z]
  <2>1. ~(n > Packet \/ n > c.local_window) BY <1>2
  <2> QED BY <1>1, <1>2, <2>1 DEF channel_input_data, Chan
<1>4. d \in Chan BY <1>3, ZenonT(60) DEF Chan
<1>5. /\ d.type = c.type /\ d.ostate = c.ostate /\ d.usage = c.usage /\ d.output = z
      /\ d.extended = c.extended /\ d.fds = c.fds /\ d.flags = c.flags /\ d.sent = c.sent
  BY <1>3 DEF Chan
<1>6. ClientFit(d) BY <1>2, <1>5 DEF ClientFit
<1> QED BY <1>1, <1>4, <1>5, <1>6

LEMMA ExtendedClient ==
  ASSUME NEW c \in Chan, ClientFit(c), c.type = "open", c.flags \cap {"eof_rcvd", "close_rcvd"} = {},
         NEW n \in Nat, n <= c.local_window, NEW d, d = channel_input_extended_data(c, n)
  PROVE  /\ d \in Chan /\ ClientFit(d) /\ d.sent = c.sent /\ d.output = c.output /\ d.type = "open"
         /\ d.extended = c.extended + n
<1>0. c.local_window \in Int /\ c.extended \in Int BY ChanInts, Zenon
<1>1. PICK x \in Int, z \in Int : x = c.local_window - n /\ z = c.extended + n BY <1>0
<1>2. c.ostate = "open" /\ c.local_window \in Int /\ "efd" \in c.fds /\ c.usage = "write" /\ "eof_rcvd" \notin c.flags
  BY ChanInts DEF ClientFit
<1>3. d = [c EXCEPT !.extended = z, !.local_window = x]
  <2>1. ~(n > c.local_window) BY <1>2
  <2> QED BY <1>1, <1>2, <2>1 DEF channel_input_extended_data, Chan
<1>4. d \in Chan BY <1>3, ZenonT(60) DEF Chan
<1>5. /\ d.type = c.type /\ d.ostate = c.ostate /\ d.usage = c.usage /\ d.output = c.output
      /\ d.extended = z /\ d.fds = c.fds /\ d.flags = c.flags /\ d.sent = c.sent BY <1>3 DEF Chan
<1>6. ClientFit(d) BY <1>2, <1>5 DEF ClientFit
<1> QED BY <1>1, <1>4, <1>5, <1>6

LEMMA EofClient ==
  ASSUME NEW c \in Chan, ClientFit(c), c.type = "open", c.extended >= 0 PROVE ClientKeeps(c, chan_rcvd_ieof(c))
<1>1. PICK f \in SUBSET Flags, y \in Directions :
        f = c.flags \cup {"eof_rcvd"} /\ y = IF c.ostate = "open" THEN "drain" ELSE c.ostate
  BY DEF Chan, Flags, Directions
<1>2. PICK d : d = [c EXCEPT !.flags = f, !.ostate = y] OBVIOUS
<1>3. d \in Chan BY <1>2 DEF Chan
<1>4. /\ d.type = c.type /\ d.usage = c.usage /\ d.output = c.output /\ d.ostate = y
      /\ d.extended = c.extended /\ d.fds = c.fds /\ d.flags = f /\ d.sent = c.sent BY <1>2 DEF Chan
<1>5. ClientFit(d) /\ d.ostate # "open" BY <1>1, <1>4 DEF ClientFit, Directions
<1>6. d = [c EXCEPT !.flags = @ \cup {"eof_rcvd"}, !.ostate = IF @ = "open" THEN "drain" ELSE @]
  BY <1>1, <1>2 DEF Chan
<1>7. chan_rcvd_ieof(c) = IF CHANNEL_EFD_OUTPUT_ACTIVE(d) THEN d ELSE chan_obuf_empty(d)
  BY <1>6 DEF chan_rcvd_ieof
<1>8. ClientKeeps(c, d) BY <1>3, <1>4, <1>5 DEF ClientKeeps
<1>9. CASE CHANNEL_EFD_OUTPUT_ACTIVE(d) BY <1>7, <1>8, <1>9
<1>10. CASE ~CHANNEL_EFD_OUTPUT_ACTIVE(d)
  <2>1. d.extended = 0 BY <1>3, <1>4, <1>5, <1>10, InactiveEmpty
  <2>2. ClientKeeps(d, chan_obuf_empty(d)) BY <1>3, <1>5, <2>1, ObufClient
  <2> QED BY <1>7, <1>8, <1>10, <2>2, ClientOn
<1> QED BY <1>9, <1>10

LEMMA CloseClient ==
  ASSUME NEW c \in Chan, ClientFit(c), c.type = "open" PROVE ClientKeeps(c, chan_rcvd_oclose(c))
<1>1. PICK f \in SUBSET Flags, y \in Directions :
        f = c.flags \cup {"close_rcvd"} /\ y = IF c.ostate = "open" THEN "drain" ELSE c.ostate
  BY DEF Chan, Flags, Directions
<1>2. PICK d : d = [c EXCEPT !.flags = f, !.ostate = y] OBVIOUS
<1>3. d \in Chan BY <1>2 DEF Chan
<1>4. /\ d.type = c.type /\ d.usage = c.usage /\ d.output = c.output /\ d.ostate = y /\ d.istate = c.istate
      /\ d.extended = c.extended /\ d.fds = c.fds /\ d.flags = f /\ d.sent = c.sent BY <1>2 DEF Chan
<1>5. ClientFit(d) /\ d.usage = "write" /\ d.type = "open" BY <1>1, <1>4 DEF ClientFit, Directions
<1>6. ClientKeeps(c, d) BY <1>3, <1>4, <1>5 DEF ClientKeeps
<1>7. d = [c EXCEPT !.flags = @ \cup {"close_rcvd"},
                    !.ostate = IF c.type = "larval" THEN "closed" ELSE IF @ = "open" THEN "drain" ELSE @]
  BY <1>1, <1>2 DEF Chan
<1>8. CASE c.istate = "closed"
  <2>1. chan_rcvd_oclose(c) = d BY <1>7, <1>8 DEF chan_rcvd_oclose
  <2> QED BY <1>6, <2>1
<1>9. CASE c.istate = "open"
  <2>1. PICK g \in SUBSET {"rfd", "wfd", "efd"} : g = d.fds \ {"rfd"} BY <1>3 DEF Chan
  <2>2. PICK k : k = [d EXCEPT !.fds = g] OBVIOUS
  <2>3. k = chan_shutdown_read(d) BY <1>3, <1>5, <2>1, <2>2 DEF chan_shutdown_read, Chan
  <2>4. k \in Chan /\ k.usage = "write" /\ k.fds = g BY <1>3, <1>5, <2>2 DEF Chan
  <2>5. k = chan_shutdown_extended_read(k) BY <2>4 DEF chan_shutdown_extended_read, Chan
  <2>6. PICK j : j = [k EXCEPT !.istate = "closed"] OBVIOUS
  <2>7. j = chan_rcvd_oclose(c) BY <1>7, <1>9, <2>3, <2>5, <2>6 DEF chan_rcvd_oclose
  <2>8. j \in Chan BY <2>4, <2>6 DEF Chan, Directions
  <2>9. Leaves(d, k) /\ k.sent = d.sent
    <3>1. /\ k.type = d.type /\ k.ostate = d.ostate /\ k.usage = d.usage /\ k.output = d.output
          /\ k.extended = d.extended /\ k.flags = d.flags /\ k.sent = d.sent BY <1>3, <2>2 DEF Chan
    <3> QED BY <2>1, <2>4, <3>1 DEF Leaves
  <2>10. Leaves(k, j) /\ j.sent = k.sent BY <2>4, <2>6, <2>8 DEF Leaves, Chan
  <2>11. Leaves(d, j) BY <2>9, <2>10, LeavesOn
  <2>12. ClientKeeps(d, j) BY <1>3, <1>5, <2>9, <2>10, <2>11, LeavesKeeps
  <2> QED BY <1>6, <2>7, <2>12, ClientOn
<1>10. CASE c.istate = "drain"
  <2>1. "EOF" \in Sendable /\ 0 \in Int /\ "EOF" # "EOW" BY DEF Sendable, Running
  <2>2. PICK k : k = Put(d, "EOF", 0) OBVIOUS
  <2>3. ClientKeeps(d, k) /\ k \in Chan /\ ClientFit(k) /\ k.usage = "write" /\ k.type = "open"
    BY <1>3, <1>5, <2>1, <2>2, PutClient DEF ClientKeeps, Leaves
  <2>4. PICK g \in SUBSET Flags : g = k.flags \cup {"eof_sent"} BY <2>3 DEF Chan, Flags
  <2>5. PICK i : i = [k EXCEPT !.flags = g] OBVIOUS
  <2>6. i = chan_send_eof2(d) BY <1>4, <1>10, <2>2, <2>3, <2>4, <2>5 DEF chan_send_eof2, Chan
  <2>7. i \in Chan BY <2>3, <2>5 DEF Chan
  <2>8. /\ i.type = k.type /\ i.ostate = k.ostate /\ i.usage = k.usage /\ i.output = k.output /\ i.fds = k.fds
        /\ i.extended = k.extended /\ i.flags = g /\ i.sent = k.sent BY <2>3, <2>5 DEF Chan
  <2>9. i = chan_shutdown_extended_read(i) BY <2>3, <2>7, <2>8 DEF chan_shutdown_extended_read, Chan
  <2>10. PICK j : j = [i EXCEPT !.istate = "closed"] OBVIOUS
  <2>11. j = chan_rcvd_oclose(c) BY <1>7, <1>10, <2>6, <2>9, <2>10 DEF chan_rcvd_oclose
  <2>12. j \in Chan BY <2>7, <2>10 DEF Chan, Directions
  <2>13. Leaves(k, i) BY <2>4, <2>7, <2>8 DEF Leaves
  <2>14. Leaves(i, j) /\ j.sent = i.sent BY <2>7, <2>10, <2>12 DEF Leaves, Chan
  <2>15. Leaves(k, j) BY <2>13, <2>14, LeavesOn
  <2>16. ClientKeeps(k, j) BY <2>3, <2>8, <2>14, <2>15, LeavesKeeps
  <2> QED BY <1>6, <2>3, <2>11, <2>16, ClientOn
<1> QED BY <1>8, <1>9, <1>10 DEF Chan, Directions

LEMMA AdjustClient ==
  ASSUME NEW c \in Chan, ClientFit(c), NEW n \in Int PROVE ClientKeeps(c, channel_input_window_adjust(c, n))
<1>1. PICK x \in Int : x = c.remote_window + n BY ChanInts
<1>2. PICK d : d = [c EXCEPT !.remote_window = x] OBVIOUS
<1>3. d \in Chan BY <1>2 DEF Chan
<1>4. Leaves(c, d) /\ d.sent = c.sent BY <1>2, <1>3 DEF Leaves, Chan
<1>5. d = channel_input_window_adjust(c, n) BY <1>1, <1>2 DEF channel_input_window_adjust, Chan
<1> QED BY <1>4, <1>5, LeavesKeeps

LEMMA EowClient ==
  ASSUME NEW c \in Chan, ClientFit(c) PROVE ClientKeeps(c, chan_rcvd_eow(c))
<1>1. PICK d : d = chan_rcvd_eow(c) OBVIOUS
<1>2. d \in Chan /\ d.sent = c.sent /\ d.flags = c.flags BY <1>1, EowQuiet DEF Quiet, Keeps
<1>3. /\ d.type = c.type /\ d.ostate = c.ostate /\ d.usage = c.usage /\ d.output = c.output /\ d.extended = c.extended
  BY <1>1 DEF chan_rcvd_eow, chan_shutdown_read, Chan
<1>4. "efd" \in d.fds <=> "efd" \in c.fds BY <1>1 DEF chan_rcvd_eow, chan_shutdown_read, Chan
<1>5. Leaves(c, d) BY <1>2, <1>3, <1>4 DEF Leaves
<1> QED BY <1>1, <1>2, <1>5, LeavesKeeps

LEMMA ConfirmClient ==
  ASSUME NEW c \in Chan, ClientFit(c), c.type = "opening", NEW n \in Int
  PROVE ClientKeeps(c, channel_input_open_confirmation(c, n))
<1>1. PICK k : k = [c EXCEPT !.remote_window = n, !.type = "open"] OBVIOUS
<1>2. k \in Chan BY <1>1 DEF Chan, Types
<1>3. /\ k.type = "open" /\ k.ostate = c.ostate /\ k.usage = c.usage /\ k.output = c.output /\ k.extended = c.extended
      /\ k.fds = c.fds /\ k.flags = c.flags /\ k.sent = c.sent BY <1>1 DEF Chan
<1>4. ClientFit(k) BY <1>3 DEF ClientFit
<1>5. ClientKeeps(c, k) BY <1>2, <1>3, <1>4 DEF ClientKeeps
<1>6. "EXEC" \in Sendable /\ 0 \in Int /\ "EXEC" # "EOW" BY DEF Sendable, Running, Plain
<1>7. ClientKeeps(k, Put(k, "EXEC", 0)) BY <1>2, <1>4, <1>6, PutClient
<1>8. channel_input_open_confirmation(c, n) = Put(k, "EXEC", 0)
  BY <1>1 DEF channel_input_open_confirmation
<1> QED BY <1>5, <1>7, <1>8, ClientOn

LEMMA OpenFailureClient ==
  ASSUME NEW c \in Chan, ClientFit(c), c.type = "opening", NEW d, d = channel_input_open_failure(c)
  PROVE  /\ d \in Chan /\ ClientFit(d) /\ d.output = c.output /\ d.extended = c.extended /\ d.sent = c.sent
<1>1. d = [c EXCEPT !.type = "zombie"] BY DEF channel_input_open_failure, chan_mark_dead
<1>2. d \in Chan BY <1>1 DEF Chan, Types
<1>3. /\ d.type = "zombie" /\ d.ostate = c.ostate /\ d.usage = c.usage /\ d.output = c.output /\ d.extended = c.extended
      /\ d.fds = c.fds /\ d.flags = c.flags /\ d.sent = c.sent BY <1>1 DEF Chan
<1>4. ClientFit(d) BY <1>3 DEF ClientFit
<1> QED BY <1>2, <1>3, <1>4

LEMMA LacksConcat ==
  ASSUME NEW s \in Seq(Packets), NEW u \in Seq(Packets), NEW ts, ~Holds(s, ts), ~Holds(u, ts)
  PROVE ~Holds(s \o u, ts) BY DEF Holds

\* The client's record is stored: what it took from the stream it holds or has written.
LEMMA ClientFlow ==
  ASSUME Shape, Flow, Counts, Counts', NEW d \in Chan, NEW queue \in Seq(Packets), Store("client", d, queue),
         ClientFit(d), ~Holds(d.sent, {"EOW"}), Small(queue),
         Units(queue, {"DATA"}) + d.output + got'["stdout"] = Units(net["client"], {"DATA"}) + ch["client"].output + got["stdout"],
         Units(queue, {"EXT"}) + d.extended + got'["stderr"] = Units(net["client"], {"EXT"}) + ch["client"].extended + got["stderr"],
         src'["stdout"] = src["stdout"], src'["stderr"] = src["stderr"],
         left' = left, closed' = closed, child' = child,
         d.type \in {"opening", "zombie"} => child = "none"
  PROVE Flow'
<1>1. PICK p \in Peers : p = "client" /\ Other(p) = "server" BY DEF Peers, Other
<1>2. PICK c \in Chan, r \in Chan, s \in Seq(Packets), in \in Seq(Packets) :
        c = ch["client"] /\ r = ch["server"] /\ s = net["server"] /\ in = net["client"]
  BY <1>1, PeersFacts DEF Shape
<1>3. PICK e : e = [d EXCEPT !.sent = <<>>, !.want = {}] OBVIOUS
<1>4. /\ e \in Chan /\ e.type = d.type /\ e.ostate = d.ostate /\ e.flags = d.flags
      /\ e.output = d.output /\ e.extended = d.extended /\ e.usage = d.usage /\ e.fds = d.fds
  BY <1>3, PutBackFields, ZenonT(60)
<1>5. PICK u \in Seq(Packets) : u = d.sent BY ChanInts
<1>6. ch'["client"] = e /\ ch'["server"] = r /\ net'["client"] = queue /\ net'["server"] = s \o u
  <2>1. Store(p, d, queue) BY <1>1
  <2>2. /\ ch'[p] = [d EXCEPT !.sent = <<>>, !.want = {}] /\ ch'[Other(p)] = ch[Other(p)]
        /\ net'[p] = queue /\ net'[Other(p)] = net[Other(p)] \o d.sent BY <2>1, StoredValues, Zenon
  <2> QED BY <1>1, <1>2, <1>3, <1>5, <2>2
<1>7. ClientFit(e) BY <1>4 DEF ClientFit
<1>8. ~Holds(s \o u, {"EOW"}) BY <1>2, <1>5, LacksConcat DEF Flow
<1>10. PICK qd \in Int, qe \in Int, nd \in Int, ne \in Int :
         /\ qd = Units(queue, {"DATA"}) /\ qe = Units(queue, {"EXT"}) /\ nd = Units(in, {"DATA"}) /\ ne = Units(in, {"EXT"})
  BY UnitsInt
<1>11. PICK a \in Nat, b \in Nat, lo \in Nat, le \in Nat, go \in Nat, ge \in Nat, go1 \in Nat, ge1 \in Nat :
         /\ a = src["stdout"] /\ b = src["stderr"] /\ go1 = got'["stdout"] /\ ge1 = got'["stderr"]
         /\ lo = left["stdout"] /\ le = left["stderr"] /\ go = got["stdout"] /\ ge = got["stderr"]
  BY DEF Counts, Streams
<1>12. PICK o \in Int, y \in Int, o1 \in Int, y1 \in Int, i \in Int, x \in Int :
         /\ o = c.output /\ y = c.extended /\ o1 = d.output /\ y1 = d.extended /\ i = r.input /\ x = r.extended
  BY ChanInts
<1>13. qd + o1 + go1 = nd + o + go /\ qe + y1 + ge1 = ne + y + ge BY <1>2, <1>10, <1>11, <1>12
<1>14. Written["stdout"] = lo + a + i + nd + o + go /\ Written["stderr"] = le + b + x + ne + y + ge
  BY <1>2, <1>10, <1>11, <1>12 DEF Flow, Balance
<1>15. Written["stdout"] = lo + a + i + qd + o1 + go1 /\ Written["stderr"] = le + b + x + qe + y1 + ge1
  <2>1. lo + a + i + (nd + o + go) = lo + a + i + (qd + o1 + go1) BY <1>13
  <2>2. le + b + x + (ne + y + ge) = le + b + x + (qe + y1 + ge1) BY <1>13
  <2>3. /\ lo + a + i + nd + o + go = lo + a + i + (nd + o + go)
        /\ le + b + x + ne + y + ge = le + b + x + (ne + y + ge) OBVIOUS
  <2>4. /\ lo + a + i + qd + o1 + go1 = lo + a + i + (qd + o1 + go1)
        /\ le + b + x + qe + y1 + ge1 = le + b + x + (qe + y1 + ge1) OBVIOUS
  <2> QED BY <1>14, <2>1, <2>2, <2>3, <2>4, Zenon
<1>16. Balance'
  <2>1. /\ left'["stdout"] = lo /\ left'["stderr"] = le /\ src'["stdout"] = a /\ src'["stderr"] = b
        /\ got'["stdout"] = go1 /\ got'["stderr"] = ge1
        /\ ch'["server"].input = i /\ ch'["server"].extended = x
        /\ ch'["client"].output = o1 /\ ch'["client"].extended = y1
        /\ net'["client"] = queue BY <1>4, <1>6, <1>11, <1>12
  <2>2. Units(net'["client"], {"DATA"}) = qd /\ Units(net'["client"], {"EXT"}) = qe BY <1>10, <2>1
  <2> QED BY <1>15, <2>1, <2>2 DEF Balance
<1>17. ServerFit(r, Facts) BY <1>2 DEF Flow
<1>18. Facts' = Facts
  <2>1. Known(r.tty, src', closed', child') = Known(r.tty, src, closed, child) BY DEF Known
  <2> QED BY <1>2, <1>6, <2>1 DEF Facts
<1>19. child' = "none" => \A f \in Outputs : src'[f] = 0 /\ left'[f] = Written[f] BY DEF Flow, Outputs
<1>20. ServerFit(ch'["server"], Facts') BY <1>6, <1>17, <1>18
<1>21. ClientFit(ch'["client"]) /\ ~Holds(net'["server"], {"EOW"}) /\ Small(net'["client"])
  BY <1>6, <1>7, <1>8
<1>22. ch'["client"].type \in {"opening", "zombie"} => child' = "none" BY <1>4, <1>6
<1> QED BY <1>16, <1>19, <1>20, <1>21, <1>22 DEF Flow, ServerFit, ClientFit, Holds, Small

\* The client before poll().
LEMMA BeforeClient ==
  ASSUME NEW c \in Chan, ClientFit(c), Tidy(c), c.want = {}, NEW c1, NEW c2a, NEW c3,
         c1 = channel_output_poll(c), c2a = channel_prepare(c1, FALSE), c3 = channel_garbage_collect(c2a)
  PROVE ClientKeeps(c, c3) /\ Ready(c3) /\ c3 \in Chan
<1>1. ClientKeeps(c, c1) /\ c1 \in Chan /\ ClientFit(c1) /\ c1.extended = c.extended
  BY OutputPollClient DEF ClientKeeps
<1>2. c1.extended >= 0 BY <1>1 DEF Tidy
<1>3. c1.want = {} BY OutputPollWant
<1>4. ClientKeeps(c1, c2a) /\ c2a \in Chan /\ ClientFit(c2a) BY <1>1, <1>2, PrepareClient DEF ClientKeeps
<1>5. Ready(c2a) BY <1>1, <1>3, PrepareReady
<1>6. ClientKeeps(c2a, c3) /\ c3 \in Chan BY <1>4, GcClient DEF ClientKeeps
<1>7. Ready(c3) BY <1>4, <1>5, GcReady
<1>8. ClientKeeps(c, c2a) BY <1>1, <1>4, ClientOn
<1> QED BY <1>6, <1>7, <1>8, ClientOn

\* What the descriptors of the client accept, and the calls that serve them.
Accepts(c, w, e) ==
  /\ w >= -1 /\ w <= c.output /\ e >= -1 /\ e <= c.extended
  /\ "wfd" \in c.want => w # 0
  /\ c.want \cap {"efd_r", "efd_w"} # {} => e # 0
Drained(c, r, w, e, d4, d5, d6, x, y) ==
  /\ x = (IF "wfd" \in c.want /\ w > 0 THEN w ELSE 0)
  /\ y = (IF c.want \cap {"efd_r", "efd_w"} # {} /\ e > 0 THEN e ELSE 0)
  /\ d4 = (IF c.type = "open" THEN channel_handle_rfd(c, r) ELSE c)
  /\ d5 = (IF c.type = "open" THEN channel_handle_wfd(d4, w) ELSE d4)
  /\ d6 = (IF c.type = "open" THEN channel_handle_efd(d5, e) ELSE d5)

\* The client serves its descriptors: x units leave for its output, y for its error output.
LEMMA ServeClient ==
  ASSUME NEW c \in Chan, ClientFit(c), Ready(c), NEW r \in Int, NEW w \in Int, NEW e \in Int,
         NEW x \in Int, NEW y \in Int, NEW d4, NEW d5, NEW d6,
         Accepts(c, w, e), Drained(c, r, w, e, d4, d5, d6, x, y)
  PROVE  /\ d6 \in Chan /\ ClientFit(d6) /\ d6.output = c.output - x /\ d6.extended = c.extended - y
         /\ ~Holds(c.sent, {"EOW"}) => ~Holds(d6.sent, {"EOW"})
         /\ d6.type = c.type
<1> USE DEF Accepts, Drained
<1>0. c.output \in Int /\ c.extended \in Int BY ChanInts
<1>1. CASE c.type # "open"
  <2>1. d6 = c /\ x = 0 /\ y = 0 BY <1>1 DEF Ready
  <2> QED BY <1>0, <2>1
<1>2. CASE c.type = "open"
  <2>1. d4 = channel_handle_rfd(c, r) /\ d5 = channel_handle_wfd(d4, w) /\ d6 = channel_handle_efd(d5, e)
    BY <1>2
  <2>2. /\ d4 \in Chan /\ ClientFit(d4) /\ d4.output = c.output /\ d4.extended = c.extended
        /\ ~Holds(c.sent, {"EOW"}) => ~Holds(d4.sent, {"EOW"})
    <3>1. ClientKeeps(c, channel_handle_rfd(c, r)) BY RfdClient
    <3> QED BY <2>1, <3>1 DEF ClientKeeps
  <2>3. d4.want = c.want /\ d4.type = "open" /\ d4.usage = c.usage BY <1>2, <2>1, RfdWant, RfdKeeps
  <2>4. /\ d5 \in Chan /\ ClientFit(d5) /\ d5.sent = d4.sent /\ d5.extended = d4.extended
        /\ d5.type = "open" /\ d5.usage = d4.usage /\ d5.want = d4.want
        /\ d5.output = d4.output - (IF "wfd" \in d4.want /\ w > 0 THEN w ELSE 0)
    BY <2>1, <2>2, <2>3, WfdClient
  <2>5. c.usage = "write" BY <1>2 DEF ClientFit
  <2>6. "efd_w" \in c.want <=> c.want \cap {"efd_r", "efd_w"} # {} BY <2>5 DEF Ready
  <2>7. "efd_w" \in d5.want => e # 0 BY <2>3, <2>4, <2>6
  <2>8. e <= d5.extended BY <2>2, <2>4
  <2>9. /\ d6 \in Chan /\ ClientFit(d6) /\ d6.sent = d5.sent /\ d6.output = d5.output /\ d6.type = "open"
        /\ d6.extended = d5.extended - (IF "efd_w" \in d5.want /\ e > 0 THEN e ELSE 0)
    BY <2>1, <2>4, <2>7, <2>8, EfdClient
  <2>10. y = IF "efd_w" \in d5.want /\ e > 0 THEN e ELSE 0 BY <2>3, <2>4, <2>6
  <2>11. x = IF "wfd" \in d4.want /\ w > 0 THEN w ELSE 0 BY <2>3
  <2> QED BY <1>2, <2>2, <2>4, <2>9, <2>10, <2>11
<1> QED BY <1>1, <1>2

LEMMA TurnClient ==
  ASSUME Shape, Windows, Counts, Counts', Flow, Turn("client"), Intact'
  PROVE Flow'
<1>0. /\ src \in [Streams -> Int] /\ src \in [Streams -> Nat] /\ got \in [Streams -> Nat]
      /\ "stdout" \in Streams /\ "stderr" \in Streams /\ "stdin" \in Streams BY DEF Counts, Streams
<1>1. PICK p \in Peers : p = "client" BY DEF Peers
<1>2. PICK idle, c1, c2, c2a, c3, c4, c5, c6, c6a, c7, r, w, e :
           /\ Iterates(p, idle, c1, c2, c2a, c3, c4, c5, c6, c6a, c7, r, w, e)
           /\ Follows(p, idle, c3, c4, c7, e) /\ Assigns(p, idle, c3, c4, c7, w, e) BY <1>1, TurnUnfold
<1>3. idle = FALSE /\ ("wfd" \in c3.want => w # 0) /\ (c3.want \cap {"efd_r", "efd_w"} # {} => e # 0)
  <2>1. /\ idle \in BOOLEAN /\ (idle => "forced" \in broke')
        /\ "wfd" \in c3.want /\ w = 0 => "stdout" \in broke'
        /\ c3.want \cap {"efd_r", "efd_w"} # {} /\ e = 0 => "stderr" \in broke'
    BY <1>1, <1>2, Zenon DEF Assigns, Iterates
  <2>2. "forced" \notin broke' /\ "stdout" \notin broke' /\ "stderr" \notin broke' BY DEF Intact
  <2> QED BY <2>1, <2>2, Zenon
<1>4. /\ Store("client", c7, net["client"]) /\ child' = child /\ left' = left /\ closed' = closed
      /\ src' = [src EXCEPT !["stdin"] = @ - (c4.input - c3.input), !["stderr"] = @]
      /\ got' = [got EXCEPT !["stdout"] = IF "wfd" \in c3.want /\ w > 0 THEN @ + w ELSE @,
                            !["stderr"] = IF c3.want \cap {"efd_r", "efd_w"} # {} /\ e > 0 THEN @ + e ELSE @]
  BY <1>1, <1>2 DEF Assigns
<1>5. PICK c \in Chan : c = ch["client"] /\ c.sent = <<>> /\ c.want = {} /\ Tidy(c) /\ ClientFit(c)
  BY <1>1 DEF Shape, Windows, Flow
<1>6. c1 = channel_output_poll(c) /\ c2a = channel_prepare(c1, FALSE) /\ c3 = channel_garbage_collect(c2a)
  BY <1>1, <1>2, <1>3, <1>5, Zenon DEF Iterates
<1>7. ClientKeeps(c, c3) /\ Ready(c3) /\ c3 \in Chan /\ ClientFit(c3)
  <2>1. ClientKeeps(c, c3) /\ Ready(c3) /\ c3 \in Chan BY <1>5, <1>6, BeforeClient
  <2> QED BY <2>1 DEF ClientKeeps
<1>8. r \in Int /\ w \in Int /\ w >= -1 /\ w <= c3.output /\ e \in Int /\ e >= -1 /\ Tidy(c3)
  BY <1>0, <1>2, BeforePoll
<1>9. e <= c3.extended
  <2>1. e \in Writes("stderr", c3.extended) BY <1>1, <1>2, Zenon DEF Iterates
  <2>2. c3.extended \in Int /\ c3.extended >= 0 BY <1>7, <1>8, ChanInts, ZenonT(60) DEF Tidy
  <2> QED BY <2>1, <2>2, WritesBounds
<1>10. /\ c4 = (IF c3.type = "open" THEN channel_handle_rfd(c3, r) ELSE c3)
       /\ c5 = (IF c3.type = "open" THEN channel_handle_wfd(c4, w) ELSE c4)
       /\ c6 = (IF c3.type = "open" THEN channel_handle_efd(c5, e) ELSE c5)
       /\ c6a = channel_check_window(c6) /\ c7 = channel_garbage_collect(c6a) BY <1>2, Zenon DEF Iterates
<1>11. PICK x \in Nat, y \in Nat :
         /\ x = (IF "wfd" \in c3.want /\ w > 0 THEN w ELSE 0)
         /\ y = (IF c3.want \cap {"efd_r", "efd_w"} # {} /\ e > 0 THEN e ELSE 0) BY <1>8
<1>12. /\ c6 \in Chan /\ ClientFit(c6) /\ c6.output = c3.output - x /\ c6.extended = c3.extended - y
       /\ ~Holds(c3.sent, {"EOW"}) => ~Holds(c6.sent, {"EOW"})
       /\ c6.type = c3.type
  <2>1. x \in Int /\ y \in Int OBVIOUS
  <2>2. Accepts(c3, w, e) BY <1>3, <1>8, <1>9, Zenon DEF Accepts
  <2>3. Drained(c3, r, w, e, c4, c5, c6, x, y) BY <1>10, <1>11, Zenon DEF Drained
  <2> QED BY <1>7, <1>8, <2>1, <2>2, <2>3, ServeClient
<1>13. ClientKeeps(c6, c6a) /\ c6a \in Chan /\ ClientFit(c6a)
  BY <1>10, <1>12, CheckWindowClient DEF ClientKeeps
<1>14. ClientKeeps(c6a, c7) BY <1>10, <1>13, GcClient
<1>15. ClientKeeps(c6, c7) BY <1>13, <1>14, ClientOn
<1>16. PICK k \in Chan : k = c7 BY <1>15 DEF ClientKeeps
<1>17. ClientFit(k) /\ k.output = c.output - x /\ k.extended = c.extended - y
  BY <1>7, <1>12, <1>15, <1>16 DEF ClientKeeps
<1>18. ~Holds(k.sent, {"EOW"})
  <2>1. ~Holds(c.sent, {"EOW"})
    <3>1. Len(c.sent) = 0 BY <1>5
    <3> QED BY <3>1 DEF Holds
  <2> QED BY <1>7, <1>12, <1>15, <1>16, <2>1 DEF ClientKeeps
<1>19. k.type \in {"opening", "zombie"} => child = "none"
  <2>1. k.type \in {"opening", "zombie"} => k.type = c.type BY <1>7, <1>12, <1>15, <1>16 DEF ClientKeeps
  <2> QED BY <1>5, <2>1 DEF Flow
<1>20. got'["stdout"] = got["stdout"] + x /\ got'["stderr"] = got["stderr"] + y
  <2>1. got["stdout"] \in Nat /\ got["stderr"] \in Nat BY <1>0
  <2>2. (IF "wfd" \in c3.want /\ w > 0 THEN got["stdout"] + w ELSE got["stdout"]) = got["stdout"] + x
    BY <1>8, <1>11, <2>1
  <2>3. (IF c3.want \cap {"efd_r", "efd_w"} # {} /\ e > 0 THEN got["stderr"] + e ELSE got["stderr"]) = got["stderr"] + y
    BY <1>8, <1>11, <2>1
  <2>4. got' = [got EXCEPT !["stdout"] = got["stdout"] + x, !["stderr"] = got["stderr"] + y]
    BY <1>0, <1>4, <2>2, <2>3
  <2> QED BY <1>0, <2>4
<1>21. src'["stdout"] = src["stdout"] /\ src'["stderr"] = src["stderr"] BY <1>0, <1>4
<1>22. PICK queue \in Seq(Packets) : queue = net["client"] /\ Small(queue) BY <1>1 DEF Shape, Flow
<1>23. /\ Units(queue, {"DATA"}) + k.output + got'["stdout"] = Units(queue, {"DATA"}) + c.output + got["stdout"]
       /\ Units(queue, {"EXT"}) + k.extended + got'["stderr"] = Units(queue, {"EXT"}) + c.extended + got["stderr"]
  <2>1. PICK qd \in Int, qe \in Int, o \in Int, v \in Int, go \in Nat, ge \in Nat :
          /\ qd = Units(queue, {"DATA"}) /\ qe = Units(queue, {"EXT"}) /\ o = c.output /\ v = c.extended
          /\ go = got["stdout"] /\ ge = got["stderr"] BY <1>0, UnitsInt, ChanInts
  <2>2. qd + (o - x) + (go + x) = qd + o + go OBVIOUS
  <2>3. qe + (v - y) + (ge + y) = qe + v + ge OBVIOUS
  <2> QED BY <1>17, <1>20, <2>1, <2>2, <2>3
<1> QED BY <1>4, <1>5, <1>16, <1>17, <1>18, <1>19, <1>21, <1>22, <1>23, ClientFlow

LEMMA SmallTail ==
  ASSUME NEW s \in Seq(Packets), s # <<>>, Small(s)
  PROVE Small(Tail(s)) /\ (Head(s).t \in Data => Head(s).n <= Packet)
<1>1. PICK h \in Packets, y \in Seq(Packets) : h = Head(s) /\ y = Tail(s) BY TailParts
<1>2. /\ h = s[1] /\ Len(s) \in Nat /\ 1 \in 1..Len(s) /\ Len(y) = Len(s) - 1
      /\ \A i \in 1..Len(y) : y[i] = s[i + 1] /\ i + 1 \in 1..Len(s) BY <1>1, TailParts
<1> QED BY <1>1, <1>2 DEF Small

\* A packet that the client handles: x units of it are output, y are error output.
LEMMA ClientTook ==
  ASSUME Shape, Flow, Counts, Counts', net["client"] # <<>>,
         NEW d \in Chan, ClientFit(d), ~Holds(d.sent, {"EOW"}), Store("client", d, Tail(net["client"])),
         UNCHANGED <<left, src, closed, child, got>>,
         NEW x \in Int, NEW y \in Int, x = Weight(Head(net["client"]), {"DATA"}), y = Weight(Head(net["client"]), {"EXT"}),
         d.output = ch["client"].output + x, d.extended = ch["client"].extended + y,
         d.type \in {"opening", "zombie"} => child = "none"
  PROVE Flow'
<1>1. PICK p \in Peers : p = "client" BY DEF Peers
<1>2. PICK c \in Chan, in \in Seq(Packets) : c = ch["client"] /\ in = net["client"] BY <1>1 DEF Shape
<1>3. PICK queue \in Seq(Packets) : queue = Tail(in) BY <1>2, TailParts
<1>4. Small(queue) BY <1>2, <1>3, SmallTail DEF Flow
<1>5. Units(in, {"DATA"}) = x + Units(queue, {"DATA"}) /\ Units(in, {"EXT"}) = y + Units(queue, {"EXT"})
  BY <1>2, <1>3, UnitsTail
<1>6. PICK qd \in Int, qe \in Int, o \in Int, v \in Int, go \in Nat, ge \in Nat :
        /\ qd = Units(queue, {"DATA"}) /\ qe = Units(queue, {"EXT"}) /\ o = c.output /\ v = c.extended
        /\ go = got["stdout"] /\ ge = got["stderr"] BY UnitsInt, ChanInts DEF Counts, Streams
<1>7. qd + (o + x) + go = (x + qd) + o + go /\ qe + (v + y) + ge = (y + qe) + v + ge OBVIOUS
<1>8. /\ Units(queue, {"DATA"}) + d.output + got'["stdout"] = Units(in, {"DATA"}) + c.output + got["stdout"]
      /\ Units(queue, {"EXT"}) + d.extended + got'["stderr"] = Units(in, {"EXT"}) + c.extended + got["stderr"]
  BY <1>2, <1>5, <1>6, <1>7
<1> QED BY <1>2, <1>3, <1>4, <1>8, ClientFlow

\* A packet that carries no data.
LEMMA ClientTookPlain ==
  ASSUME Shape, Flow, Counts, Counts', net["client"] # <<>>, Head(net["client"]).t \notin Data,
         NEW d, ClientKeeps(ch["client"], d), Store("client", d, Tail(net["client"])),
         UNCHANGED <<left, src, closed, child, got>>
  PROVE Flow'
<1>1. PICK p \in Peers : p = "client" BY DEF Peers
<1>2. PICK c \in Chan : c = ch["client"] /\ c.sent = <<>> BY <1>1 DEF Shape
<1>3. ~Holds(c.sent, {"EOW"})
  <2>1. Len(c.sent) = 0 BY <1>2
  <2> QED BY <2>1 DEF Holds
<1>4. PICK e \in Chan : e = d BY DEF ClientKeeps
<1>5. /\ ClientFit(e) /\ e.output = c.output /\ e.extended = c.extended /\ ~Holds(e.sent, {"EOW"})
      /\ e.type \in {"opening", "zombie"} => e.type = c.type BY <1>2, <1>3, <1>4 DEF ClientKeeps
<1>6. e.type \in {"opening", "zombie"} => child = "none" BY <1>2, <1>5 DEF Flow
<1>7. Weight(Head(net["client"]), {"DATA"}) = 0 /\ Weight(Head(net["client"]), {"EXT"}) = 0
  BY DEF Weight, Data
<1>8. c.output + 0 = c.output /\ c.extended + 0 = c.extended /\ 0 \in Int
  <2>1. c.output \in Int /\ c.extended \in Int BY ChanInts, Zenon
  <2> QED BY <2>1
<1> QED BY <1>2, <1>4, <1>5, <1>6, <1>7, <1>8, ClientTook

LEMMA ClientReceives ==
  ASSUME IInv, Windows, Flow, Counts, Counts', Intact,
         NEW p \in Peers, p = "client",
         \/ ReceiveData(p) \/ ReceiveExtData(p) \/ ReceiveEof(p) \/ ReceiveClose(p)
         \/ ReceiveAdjust(p) \/ ReceiveEow(p) \/ ReceiveExit \/ ReceiveExitSignal \/ ReceiveSuccess
  PROVE Flow'
<1>1. PICK c \in Chan, r \in Chan, in \in Seq(Packets), s \in Seq(Packets) :
        c = ch[p] /\ r = ch[Other(p)] /\ in = net[p] /\ s = net[Other(p)]
  BY PeersFacts, Zenon DEF IInv, Shape
<1>2. PICK t \in {"DATA", "EXT", "EOF", "CLOSE", "ADJUST", "EOW", "EXIT", "SIGNAL", "SUCCESS"} :
        /\ Arrived(p, t) /\ UNCHANGED <<left, src, closed, child, got>>
        /\ ReceiveData(p) => t = "DATA"
        /\ ReceiveExtData(p) => t = "EXT"
        /\ ReceiveEof(p) => t = "EOF"
        /\ ReceiveClose(p) => t = "CLOSE"
        /\ ReceiveAdjust(p) => t = "ADJUST"
        /\ ReceiveEow(p) => t = "EOW"
        /\ ReceiveExit => t = "EXIT"
        /\ ReceiveExitSignal => t = "SIGNAL"
        /\ ReceiveSuccess => t = "SUCCESS"
  BY DEF ReceiveData, ReceiveExtData, ReceiveEof, ReceiveClose, ReceiveAdjust, ReceiveEow, ReceiveExit,
         ReceiveExitSignal, ReceiveSuccess, Receive, Arrived
<1>3. Established /\ Shape BY <1>2, ArrivedEstablished, RunningKinds DEF IInv
<1>4. /\ in # <<>> /\ Head(in).t = t /\ Head(in).n \in Int /\ channel_lookup(c) /\ c.type # "free" /\ Sane(c)
  BY <1>1, <1>2, <1>3, ArrivedFacts
<1>5. PICK n \in Int : n = Head(in).n BY <1>4
<1>6. ClientFit(c) /\ Small(in) BY <1>1 DEF Flow
<1>7. c.type = "open"
  <2>1. c.type \in {"open", "abandoned", "free"} /\ c.type # "abandoned"
    BY <1>1, <1>3 DEF Established, Linked, Ends, Orderly, Intact
  <2> QED BY <1>4, <2>1
<1>8. c.extended >= 0 /\ c.sent = <<>> BY <1>1, <1>3 DEF Windows, Tidy, Shape
<1>9. ~Holds(c.sent, {"EOW"})
  <2>1. Len(c.sent) = 0 BY <1>8
  <2> QED BY <2>1 DEF Holds
<1>10. ASSUME NEW d, ClientKeeps(c, d), Store(p, d, Tail(in)), t \notin Data PROVE Flow'
  BY <1>1, <1>2, <1>3, <1>4, <1>10, ClientTookPlain
<1>11. ASSUME t \in Data PROVE n \in Nat /\ n <= c.local_window /\ n <= Packet /\ c.flags \cap {"eof_rcvd", "close_rcvd"} = {}
  <2>1. n \in Nat /\ n <= c.local_window BY <1>1, <1>3, <1>4, <1>5, <1>7, <1>11, HeadFits
  <2>2. n <= Packet BY <1>4, <1>5, <1>6, <1>11, SmallTail
  <2>3. Between(in, r, c) BY <1>1, <1>3, PeersFacts DEF Established, Linked
  <2>4. ~RcvdClose(c) /\ ~RcvdEof(c) BY <1>4, <1>11, <2>3, TakeFacts
  <2> QED BY <2>1, <2>2, <2>4 DEF RcvdClose, RcvdEof
<1>12. CASE ReceiveData(p)
  <2>1. PICK d : d = channel_input_data(c, n) OBVIOUS
  <2>2. Store(p, d, Tail(in)) BY <1>1, <1>4, <1>5, <1>12, <2>1, ReceiveUnfold DEF ReceiveData
  <2>3. t = "DATA" /\ t \in Data BY <1>2, <1>12 DEF Data
  <2>4. /\ d \in Chan /\ ClientFit(d) /\ d.sent = c.sent /\ d.extended = c.extended /\ d.type = "open"
        /\ d.output = c.output + n BY <1>6, <1>7, <1>11, <2>1, <2>3, DataClient
  <2>5. Weight(Head(in), {"DATA"}) = n /\ Weight(Head(in), {"EXT"}) = 0 BY <1>4, <1>5, <2>3 DEF Weight
  <2>6. c.extended + 0 = c.extended /\ 0 \in Int
    <3>1. c.extended \in Int BY ChanInts, Zenon
    <3> QED BY <3>1
  <2> QED BY <1>1, <1>2, <1>3, <1>4, <1>9, <2>2, <2>4, <2>5, <2>6, ClientTook
<1>13. CASE ReceiveExtData(p)
  <2>1. PICK d : d = channel_input_extended_data(c, n) OBVIOUS
  <2>2. Store(p, d, Tail(in)) BY <1>1, <1>4, <1>5, <1>13, <2>1, ReceiveUnfold DEF ReceiveExtData
  <2>3. t = "EXT" /\ t \in Data BY <1>2, <1>13 DEF Data
  <2>4. /\ d \in Chan /\ ClientFit(d) /\ d.sent = c.sent /\ d.output = c.output /\ d.type = "open"
        /\ d.extended = c.extended + n BY <1>6, <1>7, <1>11, <2>1, <2>3, ExtendedClient
  <2>5. Weight(Head(in), {"DATA"}) = 0 /\ Weight(Head(in), {"EXT"}) = n BY <1>4, <1>5, <2>3 DEF Weight
  <2>6. c.output + 0 = c.output /\ 0 \in Int
    <3>1. c.output \in Int BY ChanInts, Zenon
    <3> QED BY <3>1
  <2> QED BY <1>1, <1>2, <1>3, <1>4, <1>9, <2>2, <2>4, <2>5, <2>6, ClientTook
<1>14. CASE ReceiveEof(p)
  <2>1. Store(p, chan_rcvd_ieof(c), Tail(in)) BY <1>1, <1>4, <1>14, ReceiveUnfold DEF ReceiveEof
  <2>2. t \notin Data BY <1>2, <1>14 DEF Data
  <2> QED BY <1>6, <1>7, <1>8, <1>10, <2>1, <2>2, EofClient
<1>15. CASE ReceiveClose(p)
  <2>1. Store(p, chan_rcvd_oclose(c), Tail(in)) BY <1>1, <1>4, <1>15, ReceiveUnfold DEF ReceiveClose
  <2>2. t \notin Data BY <1>2, <1>15 DEF Data
  <2> QED BY <1>6, <1>7, <1>10, <2>1, <2>2, CloseClient
<1>16. CASE ReceiveAdjust(p)
  <2>1. Store(p, channel_input_window_adjust(c, n), Tail(in))
    BY <1>1, <1>4, <1>5, <1>16 DEF ReceiveAdjust
  <2>2. t \notin Data BY <1>2, <1>16 DEF Data
  <2> QED BY <1>6, <1>10, <2>1, <2>2, AdjustClient
<1>17. CASE ReceiveEow(p)
  <2>1. Store(p, chan_rcvd_eow(c), Tail(in)) BY <1>1, <1>4, <1>17 DEF ReceiveEow
  <2>2. t \notin Data BY <1>2, <1>17 DEF Data
  <2> QED BY <1>6, <1>10, <2>1, <2>2, EowClient
<1>18. CASE ReceiveExit \/ ReceiveExitSignal \/ ReceiveSuccess
  <2>1. Store(p, c, Tail(in)) BY <1>1, <1>18 DEF ReceiveExit, ReceiveExitSignal, ReceiveSuccess
  <2>2. t \notin Data BY <1>2, <1>18 DEF Data
  <2> QED BY <1>6, <1>10, <2>1, <2>2, ClientSelf
<1> QED BY <1>12, <1>13, <1>14, <1>15, <1>16, <1>17, <1>18

\* The answer to the open request.
LEMMA ClientAnswered ==
  ASSUME IInv, Windows, Flow, Counts, Counts', ReceiveConfirm \/ ReceiveOpenFailure
  PROVE Flow'
<1>1. PICK p \in Peers : p = "client" BY DEF Peers
<1>2. PICK c \in Chan, in \in Seq(Packets) : c = ch["client"] /\ in = net["client"]
  BY <1>1 DEF IInv, Shape
<1>3. PICK t \in {"CONFIRM", "OPENFAIL"} : Arrived(p, t) /\ UNCHANGED <<left, src, closed, child, got>>
  BY <1>1 DEF ReceiveConfirm, ReceiveOpenFailure, Receive
<1>4. in # <<>> /\ Head(in).t = t /\ Shape /\ up BY <1>1, <1>2, <1>3 DEF Arrived, IInv
<1>5. c.type = "opening"
  <2>1. ~Established BY <1>1, <1>3, <1>4, ArrivedFacts DEF Running, Plain, Data
  <2>2. Opening BY <1>4, <2>1 DEF IInv, Opening
  <2> QED BY <1>2, <1>4, <2>2 DEF Opening, Requested, Accepted, Refused, Failed
<1>6. channel_lookup(c) /\ c.sent = <<>> /\ ClientFit(c)
  BY <1>1, <1>2, <1>4, <1>5 DEF channel_lookup, Shape, Flow
<1>7. PICK n \in Int : n = Head(in).n BY <1>4, TailParts DEF Packets, Sendable
<1>8. t \notin Data BY DEF Data
<1>9. CASE ReceiveConfirm
  <2>1. Store("client", channel_input_open_confirmation(c, n), Tail(in))
    BY <1>2, <1>6, <1>7, <1>9, ReceiveUnfold DEF ReceiveConfirm
  <2>2. ClientKeeps(c, channel_input_open_confirmation(c, n)) BY <1>5, <1>6, ConfirmClient
  <2> QED BY <1>2, <1>3, <1>4, <1>8, <2>1, <2>2, ClientTookPlain
<1>10. CASE ReceiveOpenFailure
  <2>1. PICK d : d = channel_input_open_failure(c) OBVIOUS
  <2>2. Store("client", d, Tail(in)) BY <1>2, <1>6, <1>10, <2>1, ReceiveUnfold DEF ReceiveOpenFailure
  <2>3. d \in Chan /\ ClientFit(d) /\ d.output = c.output /\ d.extended = c.extended /\ d.sent = c.sent
    BY <1>5, <1>6, <2>1, OpenFailureClient
  <2>4. ~Holds(d.sent, {"EOW"})
    <3>1. Len(d.sent) = 0 BY <1>6, <2>3
    <3> QED BY <3>1 DEF Holds
  <2>5. Weight(Head(in), {"DATA"}) = 0 /\ Weight(Head(in), {"EXT"}) = 0 BY <1>4, <1>8 DEF Weight, Data
  <2>6. c.output + 0 = c.output /\ c.extended + 0 = c.extended /\ 0 \in Int BY ChanInts
  <2>7. child = "none" BY <1>2, <1>5 DEF Flow
  <2> QED BY <1>2, <1>3, <1>4, <2>2, <2>3, <2>4, <2>5, <2>6, <2>7, ClientTook
<1> QED BY <1>9, <1>10

\* The world around the two processes.
LEMMA WorldFlow ==
  ASSUME Flow, UNCHANGED <<ch, net>>, Facts \subseteq Facts', child' = "none" <=> child = "none",
         Balance', child = "none" => src' = src /\ left' = left
  PROVE Flow'
<1>1. "started" \in Facts' => "started" \in Facts
  <2>1. PICK tty : tty = ch["server"].tty OBVIOUS
  <2>2. Facts = Known(tty, src, closed, child) /\ Facts' = Known(tty, src', closed', child')
    BY <2>1 DEF Facts
  <2> QED BY <2>2, KnownFacts
<1>2. ServerFit(ch["server"], Facts') BY <1>1, FitMore DEF Flow
<1>3. child' = "none" => \A f \in Outputs : src'[f] = 0 /\ left'[f] = Written[f] BY DEF Flow
<1> QED BY <1>2, <1>3 DEF Flow, ServerFit, ClientFit, Holds, Small

LEMMA WriteStreamFlow ==
  ASSUME Shape, Flow, Counts, Counts', NEW f \in Streams, WriteStream(f)
  PROVE Flow'
<1>1. /\ up /\ f \notin closed /\ (f = "stdin" \/ child # "none")
      /\ ch["server"].tty => f = "stdin" \/ (f = "stdout" /\ child = "running")
      /\ left' = [left EXCEPT ![f] = @ - 1] /\ src' = [src EXCEPT ![f] = @ + 1]
      /\ UNCHANGED <<ch, net, closed, child, got>> BY DEF WriteStream, Open
<1>2. left \in [Streams -> Nat] /\ src \in [Streams -> Nat] /\ "stdout" \in Streams /\ "stderr" \in Streams
  BY DEF Counts, Streams
<1>3. PICK tty : tty = ch["server"].tty OBVIOUS
<1>4. Facts = Known(tty, src, closed, child) /\ Facts' = Known(tty, src', closed, child)
  BY <1>1, <1>3 DEF Facts
<1>5. /\ f # "stdout" => src'["stdout"] = src["stdout"] /\ left'["stdout"] = left["stdout"]
      /\ f # "stderr" => src'["stderr"] = src["stderr"] /\ left'["stderr"] = left["stderr"]
      /\ f = "stdout" => src'["stdout"] = src["stdout"] + 1 /\ left'["stdout"] = left["stdout"] - 1
      /\ f = "stderr" => src'["stderr"] = src["stderr"] + 1 /\ left'["stderr"] = left["stderr"] - 1
  BY <1>1, <1>2
<1>6. Facts \subseteq Facts'
  <2>1. f = "stdout" => "out" \notin Facts BY <1>1, <1>3, <1>4, KnownFacts
  <2>2. f = "stderr" => "err" \notin Facts BY <1>1, <1>3, <1>4, KnownFacts
  <2> QED BY <1>4, <1>5, <2>1, <2>2, KnownFacts
<1>7. PICK lo \in Nat, le \in Nat, a \in Nat, b \in Nat, lo1 \in Nat, le1 \in Nat, a1 \in Nat, b1 \in Nat :
        /\ lo = left["stdout"] /\ le = left["stderr"] /\ a = src["stdout"] /\ b = src["stderr"]
        /\ lo1 = left'["stdout"] /\ le1 = left'["stderr"] /\ a1 = src'["stdout"] /\ b1 = src'["stderr"]
  BY <1>2 DEF Counts
<1>8. lo1 + a1 = lo + a /\ le1 + b1 = le + b BY <1>5, <1>7
<1>9. PICK c, r, s : c = ch["client"] /\ r = ch["server"] /\ s = net["client"] OBVIOUS
<1>10. Balance'
  <2>1. /\ ch'["client"] = c /\ ch'["server"] = r /\ net'["client"] = s /\ got' = got BY <1>1, <1>9
  <2>2. /\ Written["stdout"] = lo + a + r.input + Units(s, {"DATA"}) + c.output + got["stdout"]
        /\ Written["stderr"] = le + b + r.extended + Units(s, {"EXT"}) + c.extended + got["stderr"]
    BY <1>7, <1>9 DEF Flow, Balance
  <2>3. /\ Written["stdout"] = lo1 + a1 + r.input + Units(s, {"DATA"}) + c.output + got["stdout"]
        /\ Written["stderr"] = le1 + b1 + r.extended + Units(s, {"EXT"}) + c.extended + got["stderr"]
    BY <1>8, <2>2
  <2> QED BY <1>7, <2>1, <2>3 DEF Balance
<1>11. CASE child # "none" BY <1>1, <1>6, <1>10, <1>11, WorldFlow
<1>12. CASE child = "none"
  <2>1. f = "stdin" BY <1>1, <1>12
  <2>2. ServerFit(ch["server"], Facts')
    <3>1. "started" \in Facts' => "started" \in Facts BY <1>4, KnownFacts
    <3> QED BY <1>6, <3>1, FitMore DEF Flow
  <2>3. \A g \in Outputs : src'[g] = 0 /\ left'[g] = Written[g] BY <1>5, <1>12, <2>1 DEF Flow, Outputs
  <2> QED BY <1>1, <1>10, <1>12, <2>2, <2>3 DEF Flow, ServerFit, ClientFit, Holds, Small
<1> QED BY <1>11, <1>12

LEMMA CloseStreamFlow ==
  ASSUME Flow, NEW f \in Streams, CloseStream(f) PROVE Flow'
<1>1. closed' = closed \cup {f} /\ UNCHANGED <<ch, net, left, src, child, got>> BY DEF CloseStream
<1>2. Balance' BY <1>1 DEF Flow, Balance
<1>3. Facts \subseteq Facts' BY <1>1 DEF Facts, Known
<1> QED BY <1>1, <1>2, <1>3, WorldFlow

LEMMA ChildExitFlow ==
  ASSUME Flow, ChildExit PROVE Flow'
<1>1. child = "running" /\ child' = "exited" /\ UNCHANGED <<ch, net, left, src, closed, got>>
  BY DEF ChildExit
<1>2. Balance' BY <1>1 DEF Flow, Balance
<1>3. Facts \subseteq Facts' BY <1>1 DEF Facts, Known
<1> QED BY <1>1, <1>2, <1>3, WorldFlow

LEMMA LoopFlow ==
  ASSUME IInv, Windows, Counts, Counts', Flow, Intact, Intact', up', NEW p \in Peers, Loop(p)
  PROVE Flow'
<1>1. Shape BY DEF IInv
<1>2. CASE Turn(p)
  <2>1. p \in {"client", "server"} BY DEF Peers
  <2> QED BY <1>1, <1>2, <2>1, TurnClient, TurnServer
<1>3. CASE \/ ReceiveData(p) \/ ReceiveExtData(p) \/ ReceiveEof(p) \/ ReceiveClose(p)
           \/ ReceiveAdjust(p) \/ ReceiveEow(p)
  <2>1. p \in {"client", "server"} BY DEF Peers
  <2> QED BY <1>3, <2>1, ClientReceives, ServerReceives
<1>4. CASE p = "client" /\ (ReceiveExit \/ ReceiveExitSignal \/ ReceiveSuccess) BY <1>4, ClientReceives
<1>5. CASE ReceiveConfirm \/ ReceiveOpenFailure BY <1>5, ClientAnswered
<1>6. CASE ReceiveFailure \/ Quit
  <2>1. up' = FALSE BY <1>6 DEF ReceiveFailure, Quit, Disconnect
  <2> QED BY <2>1
<1>7. CASE ReceiveOpen BY <1>7, OpenServer
<1>8. CASE ReceiveExec BY <1>8, ExecServer
<1> QED BY <1>2, <1>3, <1>4, <1>5, <1>6, <1>7, <1>8 DEF Loop, Client, Server

LEMMA BrokeStays == ASSUME [Next]_vars PROVE (up' => up) /\ (Intact' => Intact)
<1>1. ASSUME NEW p \in Peers, Turn(p) PROVE up' = up /\ broke \subseteq broke'
  <2>1. PICK idle, c1, c2, c2a, c3, c4, c5, c6, c6a, c7, r, w, e :
             /\ Iterates(p, idle, c1, c2, c2a, c3, c4, c5, c6, c6a, c7, r, w, e)
             /\ Follows(p, idle, c3, c4, c7, e) /\ Assigns(p, idle, c3, c4, c7, w, e) BY <1>1, TurnUnfold
  <2> QED BY <2>1 DEF Assigns
<1>2. ASSUME NEW p \in Peers, Loop(p), ~Turn(p) PROVE (up' => up) /\ broke' = broke
  BY <1>2 DEF Loop, Client, Server, ReceiveData, ReceiveExtData, ReceiveEof, ReceiveClose, ReceiveAdjust, ReceiveEow,
              ReceiveConfirm, ReceiveOpenFailure, ReceiveSuccess, ReceiveFailure, ReceiveExit, ReceiveExitSignal, Quit,
              Disconnect, ReceiveOpen, ReceiveExec, Receive
<1>3. CASE UNCHANGED vars BY <1>3 DEF vars, Intact
<1>4. CASE ChildExit \/ \E f \in Streams : WriteStream(f) \/ CloseStream(f)
  BY <1>4 DEF ChildExit, WriteStream, CloseStream, Intact
<1>5. ASSUME NEW p \in Peers, Loop(p) PROVE (up' => up) /\ (Intact' => Intact)
  BY <1>1, <1>2, <1>5 DEF Intact
<1> QED BY <1>3, <1>4, <1>5 DEF Next

LEMMA NextFlow ==
  ASSUME IInv, Windows, Counts, Counts', up /\ Intact => Flow, [Next]_vars, up', Intact' PROVE Flow'
<1>1. up /\ Intact /\ Flow /\ Shape BY BrokeStays DEF IInv
<1>2. CASE UNCHANGED vars
  <2>1. UNCHANGED <<ch, net, left, src, closed, child, got>> BY <1>2 DEF vars
  <2>2. Facts' = Facts BY <2>1 DEF Facts, Known
  <2>3. Balance' BY <1>1, <2>1 DEF Flow, Balance
  <2> QED BY <1>1, <2>1, <2>2, <2>3, WorldFlow
<1>3. ASSUME NEW p \in Peers, Loop(p) PROVE Flow' BY <1>1, <1>3, LoopFlow
<1>4. CASE ChildExit BY <1>1, <1>4, ChildExitFlow
<1>5. ASSUME NEW f \in Streams, WriteStream(f) \/ CloseStream(f) PROVE Flow'
  BY <1>1, <1>5, WriteStreamFlow, CloseStreamFlow
<1> QED BY <1>2, <1>3, <1>4, <1>5 DEF Next

LEMMA InitFlow == ASSUME Init PROVE Flow
<1>1. PICK c, r, s, in : c = ch["client"] /\ r = ch["server"] /\ s = net["client"] /\ in = net["server"]
  OBVIOUS
<1>2. /\ c = channel_new("opening", Window, "write", {"rfd", "wfd", "efd"}, FALSE)
      /\ r = channel_free([tty |-> FALSE, sent |-> <<>>, err |-> FALSE])
      /\ s = <<>> /\ in = <<Pkt("OPEN", Window)>> BY <1>1 DEF Init, Peers
<1>3. /\ c.type = "opening" /\ c.usage = "write" /\ "efd" \in c.fds /\ c.output = 0 /\ c.extended = 0 /\ c.ostate = "open"
  BY <1>2 DEF channel_new
<1>4. r.type = "free" /\ r.usage = "ignore" /\ r.input = 0 /\ r.extended = 0 /\ r.detach = "none"
  BY <1>2 DEF channel_new, channel_free
<1>5. child = "none" /\ left = Written /\ src = [f \in Streams |-> 0] /\ got = [f \in Streams |-> 0]
  BY DEF Init
<1>6. /\ src["stdout"] = 0 /\ src["stderr"] = 0 /\ got["stdout"] = 0 /\ got["stderr"] = 0
      /\ Written["stdout"] \in Nat /\ Written["stderr"] \in Nat BY <1>5, ChannelAssumption DEF Streams
<1>7. ClientFit(c) BY <1>3 DEF ClientFit
<1>8. "started" \notin Facts
  <2>1. Facts = Known(r.tty, src, closed, child) BY <1>1 DEF Facts
  <2> QED BY <1>5, <2>1, KnownFacts
<1>9. ServerFit(r, Facts) BY <1>4, <1>8 DEF ServerFit
<1>10. Units(s, {"DATA"}) = 0 /\ Units(s, {"EXT"}) = 0 BY <1>2, UnitsEmpty
<1>11. Balance BY <1>1, <1>3, <1>4, <1>5, <1>6, <1>10 DEF Balance
<1>12. ~Holds(in, {"EOW"}) /\ Small(s)
  <2>1. Len(s) = 0 /\ Len(in) = 1 /\ in[1].t = "OPEN" BY <1>2 DEF Pkt
  <2> QED BY <2>1 DEF Holds, Small
<1>13. child = "none" => \A f \in Outputs : src[f] = 0 /\ left[f] = Written[f] BY <1>5, <1>6 DEF Outputs
<1> QED BY <1>1, <1>5, <1>7, <1>9, <1>11, <1>12, <1>13 DEF Flow

LEMMA FlowInvariance == Spec => [](IInv /\ Windows /\ Counts /\ (up /\ Intact => Flow))
<1>1. Init => (up /\ Intact => Flow) BY InitFlow
<1>2. /\ IInv /\ Windows /\ Counts /\ Counts' /\ (up /\ Intact => Flow) /\ [Next]_vars
      => (up /\ Intact => Flow)' BY NextFlow
<1> QED BY <1>1, <1>2, CountsInvariance, PTL DEF Spec

\* When the close handshake has freed the client's channel and nothing failed outside, every
\* unit that the command wrote is in the client's files, whatever the window, the packets and the
\* amounts: the server closes a direction only once it has read its pipe to the end and sent what
\* it read, CLOSE comes after all of it, and the client closes its output only when it has
\* written what it received.
THEOREM OutputIsComplete == Spec => []OutputComplete
<1>1. ASSUME IInv, Windows, Counts, up /\ Intact => Flow PROVE OutputComplete
  <2> SUFFICES ASSUME up, ch["client"].type = "free", Intact, NEW f \in {"stdout", "stderr"}
               PROVE got[f] = Written[f] - left[f] BY DEF OutputComplete, Intact
  <2>1. PICK p \in Peers : p = "client" /\ Other(p) = "server" /\ Other(p) \in Peers BY DEF Peers, Other
  <2>2. PICK c \in Chan, r \in Chan, s \in Seq(Packets) :
          c = ch["client"] /\ r = ch["server"] /\ s = net["client"] /\ Sane(r)
    BY <1>1, <2>1 DEF IInv, Shape
  <2>3. Flow /\ ClientFit(c) /\ ServerFit(r, Facts) /\ c.type = "free" BY <1>1, <2>2 DEF Flow
  <2>4. s = <<>> /\ SentClose(r)
    <3>1. CASE Established
      <4>1. Between(s, r, c) BY <2>1, <2>2, <3>1, PeersFacts DEF Established, Linked
      <4> QED BY <2>3, <4>1 DEF Between, RcvdClose
    <3>2. CASE Opening BY <2>2, <2>3, <3>2 DEF Opening, Requested, Accepted, Refused, Failed, SentClose
    <3> QED BY <1>1, <3>1, <3>2 DEF IInv, Opening
  <2>5. r.type = "free" \/ (r.type = "open" /\ r.istate = "closed")
    BY <2>2, <2>3, <2>4 DEF SentClose, Sane, ServerFit
  <2>6. r.input = 0 /\ r.extended = 0 /\ c.output = 0 /\ c.extended = 0
    BY <2>3, <2>5 DEF ServerFit, ClientFit
  <2>7. src["stdout"] = 0 /\ src["stderr"] = 0
    <3>1. Facts = Known(r.tty, src, closed, child) BY <2>2 DEF Facts
    <3>2. CASE child = "none" BY <2>3, <3>2 DEF Flow, Outputs
    <3>3. CASE child # "none"
      <4>1. "started" \in Facts BY <3>1, <3>3, KnownFacts
      <4>2. "out" \in Facts /\ "err" \in Facts BY <2>3, <2>5, <4>1 DEF ServerFit
      <4> QED BY <3>1, <4>2, KnownFacts
    <3> QED BY <3>2, <3>3
  <2>8. Units(s, {"DATA"}) = 0 /\ Units(s, {"EXT"}) = 0 BY <2>4, UnitsEmpty
  <2>9. /\ Written["stdout"] = left["stdout"] + 0 + 0 + 0 + 0 + got["stdout"]
        /\ Written["stderr"] = left["stderr"] + 0 + 0 + 0 + 0 + got["stderr"]
    BY <2>2, <2>3, <2>6, <2>7, <2>8 DEF Flow, Balance
  <2>10. left["stdout"] \in Nat /\ left["stderr"] \in Nat /\ got["stdout"] \in Nat /\ got["stderr"] \in Nat
    BY <1>1 DEF Counts, Streams
  <2> QED BY <2>9, <2>10
<1> QED BY <1>1, FlowInvariance, PTL
=============================================================================
