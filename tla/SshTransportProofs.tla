------------------------- MODULE SshTransportProofs -------------------------
(***************************************************************************)
(* What the key exchange of SshTransport guarantees for any number of      *)
(* packets and of rekeyings.                                               *)
(*                                                                         *)
(* A peer is in one of four phases of an exchange: "idle", "sent" (its     *)
(* KEXINIT is out and the other's has not come), "agreed" (both KEXINITs   *)
(* are known) and "keyed" (its NEWKEYS is out, the other's has not come).  *)
(* The phases of the two peers determine which packets of the exchange are *)
(* on their way in either direction; their order is always the same.       *)
(***************************************************************************)
EXTENDS SshTransport, SequenceTheorems, TLAPS

-----------------------------------------------------------------------------
(* The inductive invariant.  a is the sender, b the receiver and x the      *)
(* packets on their way from a to b.                                        *)

PhaseOf(s) == IF s.done THEN "idle"
              ELSE IF ~s.rekeying THEN "keyed"
              ELSE IF s.handles = {"KEXINIT"} THEN "sent"
              ELSE "agreed"

\* the fields of one peer belong together
Coherent(s) ==
  /\ s.err = "none" /\ s.sent = <<>> /\ s.my > 0
  /\ s.init_sent = ~s.done /\ (s.rekeying => ~s.done)
  /\ PhaseOf(s) = "idle" => s.handles = {"KEXINIT"} /\ ~s.initial
  /\ PhaseOf(s) = "agreed" => s.handles = IF s.server THEN {"INIT"} ELSE {"REPLY"}
  /\ PhaseOf(s) = "keyed" => /\ s.handles = {"NEWKEYS"} /\ s.newIn # NoKey
                             /\ s.session_id # NoKey /\ s.keyOut # NoKey
  /\ PhaseOf(s) # "keyed" => (s.initial <=> s.session_id = NoKey)
  /\ ~s.initial => s.keyIn # NoKey /\ s.keyOut # NoKey
  /\ ~s.auth => s.compIn = 0 /\ s.compOut = 0 /\ s.queue = <<>>
  /\ \A i \in DOMAIN s.queue : s.queue[i].t = "DATA"

Has(x, t) == \E i \in DOMAIN x : x[i].t = t

\* the order of the packets of an exchange, from the end of one to the next
Rank(t) == IF t = "REPLY" THEN 1
           ELSE IF t = "NEWKEYS" THEN 2
           ELSE IF t = "KEXINIT" THEN 3
           ELSE 4

Neat(x) ==
  \A i, j \in DOMAIN x :
    i < j => /\ (x[i].t \in KexTypes /\ x[j].t \in KexTypes) => Rank(x[i].t) < Rank(x[j].t)
             /\ x[i].t = "KEXINIT" => x[j].t \in KexTypes

Phases(a, b) == <<PhaseOf(a), PhaseOf(b)>>

\* what is on its way follows from the phases
Exchange(a, b, x) ==
  /\ Phases(a, b) \notin {<<"idle", "agreed">>, <<"agreed", "idle">>}
  /\ a.server => Phases(a, b) # <<"agreed", "keyed">>
  /\ Neat(x)
  /\ Has(x, "KEXINIT") <=> Phases(a, b) \in {<<"sent", "idle">>, <<"sent", "sent">>,
                                             <<"agreed", "sent">>, <<"sent", "keyed">>}
  /\ Has(x, "INIT") <=> /\ ~a.server
                        /\ Phases(a, b) \in {<<"agreed", "sent">>, <<"agreed", "agreed">>}
  /\ Has(x, "REPLY") <=> a.server /\ Phases(a, b) = <<"keyed", "agreed">>
  /\ Has(x, "NEWKEYS") <=> \/ Phases(a, b) \in {<<"keyed", "keyed">>, <<"idle", "keyed">>,
                                                <<"sent", "keyed">>}
                           \/ a.server /\ Phases(a, b) = <<"keyed", "agreed">>

\* both peers work with the same cookies and keys
Cookies(a, b, x) ==
  /\ \A i \in DOMAIN x : /\ x[i].t = "KEXINIT" => x[i].body = <<a.my>>
                         /\ x[i].t = "REPLY" => x[i].body = <<b.my, a.my>>
  /\ PhaseOf(a) = "agreed" => a.peer = b.my
  /\ PhaseOf(b) = "keyed" => b.newIn = IF PhaseOf(a) = "agreed" THEN <<a.my, b.my>> ELSE a.keyOut
  /\ Phases(a, b) = <<"agreed", "keyed">> => b.keyOut = <<a.my, b.my>>

\* A packet is sealed with a key, a sequence number and a state of the compression; what the
\* next one is sealed with follows, key and comp being those after NEWKEYS.
Seal(m) == <<m.key, m.seq, m.comp>>
NextSeal(m, key, comp) ==
  IF m.t = "NEWKEYS" THEN <<key, m.seq + 1, comp>>
  ELSE IF m.t = "SUCCESS" THEN <<m.key, m.seq + 1, 1>>
  ELSE <<m.key, m.seq + 1, Advance(m.comp)>>

Chain(in, x, out, key, comp) ==
  /\ x = <<>> => in = out
  /\ x # <<>> => Seal(x[1]) = in /\ NextSeal(x[Len(x)], key, comp) = out
  /\ \A i \in 1..(Len(x) - 1) : Seal(x[i + 1]) = NextSeal(x[i], key, comp)

Reset(s) == IF s.auth THEN 1 ELSE 0

\* the client has yet to learn that its packets are compressed from now on
Sealed(a, b, x) ==
  Chain(<<b.keyIn, b.seqIn, b.compIn>>, x,
        <<a.keyOut, a.seqOut, IF b.auth /\ ~a.auth THEN 1 ELSE a.compOut>>, a.keyOut, Reset(a))

Half(a, b, x) == Exchange(a, b, x) /\ Cookies(a, b, x) /\ Sealed(a, b, x)

\* the login: C the client, S the server, x and y what is on its way to the server, the client
Login(C, S, x, y, asked, ph) ==
  /\ ~Has(x, "SUCCESS") /\ ~Has(y, "AUTH")
  /\ C.auth => S.auth
  /\ S.auth <=> ph # "preauth"
  /\ ~S.auth => /\ (asked <=> Has(x, "AUTH"))
                /\ Phases(C, S) \notin {<<"sent", "idle">>, <<"idle", "sent">>,
                                        <<"sent", "keyed">>, <<"keyed", "sent">>}
  /\ Has(x, "AUTH") => ~S.auth /\ PhaseOf(C) = "idle"
  /\ S.auth => asked
  /\ \A i \in DOMAIN x : x[i].t = "AUTH" => i = Len(x)
  /\ Has(y, "SUCCESS") <=> S.auth /\ ~C.auth
  /\ S.auth /\ ~C.auth => x = <<>> /\ PhaseOf(C) = "idle" /\ PhaseOf(S) \in {"idle", "sent"}
  /\ \A i, j \in DOMAIN y : y[i].t = "SUCCESS" /\ y[j].t = "SUCCESS" => i = j
  /\ ph = "handover" => PhaseOf(S) = "idle" /\ S.queue = <<>> /\ S.compIn = 1 /\ S.compOut = 1

\* the session id is that of the first exchange on both sides; the server has it first
SameId(C, S) ==
  /\ S.session_id = NoKey => C.session_id = NoKey
  /\ C.session_id = NoKey /\ S.session_id # NoKey
       => Phases(C, S) = <<"agreed", "keyed">> /\ S.session_id = <<C.my, S.my>>
  /\ C.session_id # NoKey => C.session_id = S.session_id

\* the two peers together, seen from a: x is on its way to b, y on its way to a
Joint(a, b, x, y, asked, ph) ==
  /\ Coherent(a) /\ Coherent(b) /\ Half(a, b, x) /\ Half(b, a, y) /\ a.server # b.server
  /\ IF a.server THEN Login(b, a, y, x, asked, ph) /\ SameId(b, a)
     ELSE Login(a, b, x, y, asked, ph) /\ SameId(a, b)

\* the packets of the upper layers carry something
Full(q) == \A i \in DOMAIN q : q[i].t = "DATA" => q[i].body # <<>>

Shape == /\ st \in [Peers -> State] /\ net \in [Peers -> Seq(Packet)]
         /\ taken \in [Peers -> Seq(Nat)] /\ made \in [Peers -> Nat]
         /\ phase \in {"preauth", "handover", "postauth"} /\ rekeys \in Nat

Filled == \A p \in Peers : Full(net[p]) /\ Full(st[p].queue)

IInv == /\ Shape /\ Filled /\ ~st["client"].server
        /\ Joint(st["client"], st["server"], net["server"], net["client"], made["client"] > 0, phase)

-----------------------------------------------------------------------------
(* Packets on their way: what taking one from the front, or putting some at *)
(* the end, does.                                                           *)

\* a queue without its first packet
LEMMA TailFacts ==
  ASSUME NEW x \in Seq(Packet), x # <<>>
  PROVE  /\ Tail(x) \in Seq(Packet) /\ Len(x) \in Nat /\ Len(Tail(x)) = Len(x) - 1
         /\ Tail(x) = <<>> <=> Len(x) = 1
         /\ \A i \in 1..Len(Tail(x)) : Tail(x)[i] = x[i + 1]
<1>1. /\ Tail(x) \in Seq(Packet) /\ Len(Tail(x)) = Len(x) - 1
      /\ \A i \in 1..Len(Tail(x)) : Tail(x)[i] = x[i + 1]
  BY HeadTailProperties
<1>2. Tail(x) = <<>> <=> Len(Tail(x)) = 0
  BY <1>1, EmptySeq
<1> QED  BY <1>1, <1>2, LenProperties

\* what is in a queue with one packet more
LEMMA HasAppend ==
  ASSUME NEW x \in Seq(Packet), NEW m \in Packet, NEW t
  PROVE  Has(Append(x, m), t) <=> Has(x, t) \/ m.t = t
<1> DEFINE y == Append(x, m)
<1>1. \A i \in DOMAIN x : i \in DOMAIN y /\ y[i] = x[i]
  OBVIOUS
<1>2. Len(y) \in DOMAIN y /\ y[Len(y)] = m
  OBVIOUS
<1>3. \A i \in DOMAIN y : i \in DOMAIN x \/ y[i] = m
  OBVIOUS
<1> HIDE DEF y
<1>4. Has(y, t) <=> Has(x, t) \/ m.t = t
  BY <1>1, <1>2, <1>3 DEF Has
<1> QED  BY <1>4 DEF y

\* what the upper layers send while no exchange goes on
Plain == {"DATA", "EXTINFO"}

\* what is in a queue with a row of such packets more
LEMMA HasRun ==
  ASSUME NEW x \in Seq(Packet), NEW r \in Seq(Packet), NEW t, t \notin Plain,
         \A i \in DOMAIN r : r[i].t \in Plain
  PROVE  Has(x \o r, t) <=> Has(x, t)
<1>1. \A i \in DOMAIN x : i \in DOMAIN (x \o r) /\ (x \o r)[i] = x[i]
  OBVIOUS
<1>2. \A i \in DOMAIN (x \o r) : i \in DOMAIN x \/ (x \o r)[i].t \in Plain
  OBVIOUS
<1> QED  BY <1>1, <1>2 DEF Has

\* what is in a queue without its first packet
LEMMA HasTail ==
  ASSUME NEW x \in Seq(Packet), x # <<>>, NEW t
  PROVE  Has(x, t) <=> x[1].t = t \/ Has(Tail(x), t)
<1>1. Has(Tail(x), t) => Has(x, t)
  <2> SUFFICES ASSUME NEW i \in DOMAIN Tail(x), Tail(x)[i].t = t PROVE Has(x, t)
    BY DEF Has
  <2>1. i + 1 \in DOMAIN x /\ x[i + 1] = Tail(x)[i]
    OBVIOUS
  <2> QED  BY <2>1 DEF Has
<1>2. x[1].t = t => Has(x, t)
  BY DEF Has
<1>3. Has(x, t) => x[1].t = t \/ Has(Tail(x), t)
  <2> SUFFICES ASSUME NEW i \in DOMAIN x, x[i].t = t, i # 1 PROVE Has(Tail(x), t)
    BY DEF Has
  <2>1. i - 1 \in DOMAIN Tail(x) /\ Tail(x)[i - 1] = x[i]
    OBVIOUS
  <2> QED  BY <2>1 DEF Has
<1> QED  BY <1>1, <1>2, <1>3

\* the order of the exchange, with one packet more
LEMMA NeatAppend ==
  ASSUME NEW x \in Seq(Packet), NEW m \in Packet, Neat(x),
         m.t \in KexTypes => \A t \in KexTypes : Has(x, t) => Rank(t) < Rank(m.t),
         m.t \notin KexTypes => ~Has(x, "KEXINIT")
  PROVE  Neat(Append(x, m))
<1> DEFINE y == Append(x, m)
<1> SUFFICES ASSUME NEW i \in DOMAIN y, NEW j \in DOMAIN y, i < j
             PROVE  /\ (y[i].t \in KexTypes /\ y[j].t \in KexTypes) => Rank(y[i].t) < Rank(y[j].t)
                    /\ y[i].t = "KEXINIT" => y[j].t \in KexTypes
  BY DEF Neat
<1>1. i \in DOMAIN x /\ y[i] = x[i]
  OBVIOUS
<1>2. CASE j \in DOMAIN x
  <2>1. y[j] = x[j]
    BY <1>2
  <2> QED  BY <1>1, <1>2, <2>1 DEF Neat
<1>3. CASE j \notin DOMAIN x
  <2>1. y[j] = m
    BY <1>3
  <2>2. Has(x, x[i].t)
    BY <1>1 DEF Has
  <2> HIDE DEF y
  <2> QED  BY <1>1, <2>1, <2>2
<1> QED  BY <1>2, <1>3

\* the order of the exchange, with a row of plain packets more
LEMMA NeatRun ==
  ASSUME NEW x \in Seq(Packet), NEW r \in Seq(Packet), Neat(x), ~Has(x, "KEXINIT"),
         \A i \in DOMAIN r : r[i].t \in Plain
  PROVE  Neat(x \o r)
<1> DEFINE y == x \o r
<1> SUFFICES ASSUME NEW i \in DOMAIN y, NEW j \in DOMAIN y, i < j
             PROVE  /\ (y[i].t \in KexTypes /\ y[j].t \in KexTypes) => Rank(y[i].t) < Rank(y[j].t)
                    /\ y[i].t = "KEXINIT" => y[j].t \in KexTypes
  BY DEF Neat
<1>1. \A k \in DOMAIN y : (k \in DOMAIN x /\ y[k] = x[k]) \/ (k \notin DOMAIN x /\ y[k].t \in Plain)
  OBVIOUS
<1>2. CASE j \in DOMAIN x
  <2>1. i \in DOMAIN x
    BY <1>2
  <2> HIDE DEF y
  <2> QED  BY <1>1, <1>2, <2>1 DEF Neat
<1>3. CASE j \notin DOMAIN x
  <2>1. y[j].t \in Plain
    BY <1>1, <1>3
  <2>2. y[i].t # "KEXINIT"
    BY <1>1 DEF Has, Plain
  <2> HIDE DEF y
  <2> QED  BY <2>1, <2>2 DEF KexTypes, Plain
<1> QED  BY <1>2, <1>3

\* the order of the exchange, without the first packet: what follows it is of higher rank
LEMMA NeatTail ==
  ASSUME NEW x \in Seq(Packet), x # <<>>, Neat(x)
  PROVE  /\ Neat(Tail(x))
         /\ x[1].t \in KexTypes => \A t \in KexTypes : Has(Tail(x), t) => Rank(x[1].t) < Rank(t)
         /\ x[1].t = "KEXINIT" => \A t : Has(Tail(x), t) => t \in KexTypes
<1>1. \A i \in DOMAIN Tail(x) : i + 1 \in DOMAIN x /\ x[i + 1] = Tail(x)[i] /\ 1 < i + 1
  OBVIOUS
<1>2. 1 \in DOMAIN x
  OBVIOUS
<1>3. Neat(Tail(x))
  <2> DEFINE y == Tail(x)
  <2> SUFFICES ASSUME NEW i \in DOMAIN y, NEW j \in DOMAIN y, i < j
               PROVE  /\ (y[i].t \in KexTypes /\ y[j].t \in KexTypes) => Rank(y[i].t) < Rank(y[j].t)
                      /\ y[i].t = "KEXINIT" => y[j].t \in KexTypes
    BY DEF Neat
  <2>1. i + 1 < j + 1
    OBVIOUS
  <2> HIDE DEF y
  <2> QED  BY <1>1, <2>1 DEF Neat, y
<1> QED  BY <1>1, <1>2, <1>3 DEF Neat, Has

\* the chain of seals, with one packet more
LEMMA ChainAppend ==
  ASSUME NEW x \in Seq(Packet), NEW m \in Packet, NEW in, NEW key, NEW comp, Chain(in, x, Seal(m), key, comp)
  PROVE  Chain(in, Append(x, m), NextSeal(m, key, comp), key, comp)
<1> DEFINE y == Append(x, m)
<1>1. y # <<>> /\ Len(y) = Len(x) + 1 /\ y[Len(y)] = m
  OBVIOUS
<1>2. \A i \in 1..Len(x) : y[i] = x[i]
  OBVIOUS
<1>3. Seal(y[1]) = in
  <2>1. CASE x = <<>>
    BY <2>1 DEF Chain
  <2>2. CASE x # <<>>
    BY <2>2, <1>2 DEF Chain
  <2> QED  BY <2>1, <2>2
<1>4. ASSUME NEW i \in 1..(Len(y) - 1) PROVE Seal(y[i + 1]) = NextSeal(y[i], key, comp)
  <2>1. CASE i = Len(x)
    BY <2>1, <1>1, <1>2 DEF Chain
  <2>2. CASE i < Len(x)
    <3>1. i \in 1..(Len(x) - 1) /\ y[i + 1] = x[i + 1] /\ y[i] = x[i]
      BY <2>2, <1>2
    <3> QED  BY <3>1 DEF Chain
  <2> QED  BY <2>1, <2>2, <1>1
<1> HIDE DEF y
<1> QED  BY <1>1, <1>3, <1>4 DEF Chain, y

\* the chain of seals, without the first packet
LEMMA ChainTail ==
  ASSUME NEW x \in Seq(Packet), x # <<>>, NEW in, NEW out, NEW key, NEW comp, Chain(in, x, out, key, comp)
  PROVE  Seal(x[1]) = in /\ Chain(NextSeal(x[1], key, comp), Tail(x), out, key, comp)
<1> DEFINE y == Tail(x)
<1>1. /\ Len(y) = Len(x) - 1 /\ Len(x) \in Nat /\ (y = <<>> <=> Len(x) = 1)
      /\ \A i \in 1..Len(y) : y[i] = x[i + 1]
  BY TailFacts
<1>2. CASE Len(x) = 1
  <2> HIDE DEF y
  <2> QED  BY <1>1, <1>2 DEF Chain, y
<1>3. CASE Len(x) # 1
  <2>0. y # <<>> /\ Len(x) # 0
    BY <1>1, <1>3, EmptySeq
  <2>1. 1 \in 1..(Len(x) - 1) /\ Len(y) \in 1..Len(y)
    <3> HIDE DEF y
    <3> QED  BY <1>1, <1>3, <2>0
  <2>2. Seal(y[1]) = NextSeal(x[1], key, comp) /\ y[Len(y)] = x[Len(x)]
    BY <2>1, <1>1 DEF Chain
  <2>3. ASSUME NEW i \in 1..(Len(y) - 1) PROVE Seal(y[i + 1]) = NextSeal(y[i], key, comp)
    <3>1. i + 1 \in 1..(Len(x) - 1) /\ y[i + 1] = x[i + 2] /\ y[i] = x[i + 1]
      BY <1>1
    <3> QED  BY <3>1 DEF Chain
  <2> HIDE DEF y
  <2> QED  BY <2>0, <2>2, <2>3 DEF Chain, y
<1> QED  BY <1>2, <1>3

\* the chain of seals does not depend on the next key before NEWKEYS is sent
LEMMA ChainKey ==
  ASSUME NEW x \in Seq(Packet), NEW in, NEW out, NEW key, NEW comp, NEW key2, NEW comp2,
         Chain(in, x, out, key, comp), ~Has(x, "NEWKEYS")
  PROVE  Chain(in, x, out, key2, comp2)
<1>1. \A i \in DOMAIN x : NextSeal(x[i], key, comp) = NextSeal(x[i], key2, comp2)
  BY DEF NextSeal, Has
<1>2. x # <<>> => Len(x) \in DOMAIN x
  OBVIOUS
<1>3. \A i \in 1..(Len(x) - 1) : i \in DOMAIN x
  OBVIOUS
<1> QED  BY <1>1, <1>2, <1>3 DEF Chain

Ahead(comp, n) == IF comp = 0 THEN 0 ELSE comp + n

\* the chain of seals, with a row of plain packets more
LEMMA ChainRun ==
  ASSUME NEW x \in Seq(Packet), NEW r \in Seq(Packet), NEW in, NEW key, NEW comp,
         NEW k, NEW q \in Nat, NEW c \in Nat, Chain(in, x, <<k, q, c>>, key, comp),
         \A i \in DOMAIN r : r[i].t \in Plain /\ Seal(r[i]) = <<k, q + i - 1, Ahead(c, i - 1)>>
  PROVE  Chain(in, x \o r, <<k, q + Len(r), Ahead(c, Len(r))>>, key, comp)
<1> DEFINE y == x \o r
           n == Len(x)
<1>1. /\ Len(y) = n + Len(r) /\ \A i \in 1..n : y[i] = x[i]
      /\ \A i \in 1..Len(r) : y[n + i] = r[i]
  OBVIOUS
<1>2. \A i \in 1..Len(r) : NextSeal(r[i], key, comp) = <<k, q + i, Ahead(c, i)>>
  <2> SUFFICES ASSUME NEW i \in 1..Len(r) PROVE NextSeal(r[i], key, comp) = <<k, q + i, Ahead(c, i)>>
    OBVIOUS
  <2>1. r[i].t \in Plain /\ r[i].key = k /\ r[i].seq = q + i - 1 /\ r[i].comp = Ahead(c, i - 1)
    BY DEF Seal
  <2>2. Advance(Ahead(c, i - 1)) = Ahead(c, i)
    BY DEF Advance, Ahead
  <2> QED  BY <2>1, <2>2 DEF NextSeal, Plain
<1>3. CASE r = <<>>
  <2>1. y = x /\ q + Len(r) = q /\ Ahead(c, Len(r)) = c
    BY <1>3 DEF Ahead
  <2> QED  BY <2>1
<1>4. CASE r # <<>>
  <2>1. Len(r) \in 1..Len(r) /\ 1 \in 1..Len(r) /\ y # <<>> /\ Ahead(c, 1 - 1) = c
    BY <1>4 DEF Ahead
  <2>2. Seal(r[1]) = <<k, q, c>>
    BY <2>1
  <2>3. NextSeal(y[Len(y)], key, comp) = <<k, q + Len(r), Ahead(c, Len(r))>>
    BY <2>1, <1>1, <1>2
  <2>4. Seal(y[1]) = in
    <3>1. CASE x = <<>>
      BY <3>1, <2>1, <2>2, <1>1 DEF Chain
    <3>2. CASE x # <<>>
      BY <3>2, <1>1 DEF Chain
    <3> QED  BY <3>1, <3>2
  <2>5. ASSUME NEW i \in 1..(Len(y) - 1) PROVE Seal(y[i + 1]) = NextSeal(y[i], key, comp)
    <3>1. CASE i < n
      <4>1. i \in 1..(n - 1) /\ y[i] = x[i] /\ y[i + 1] = x[i + 1]
        BY <3>1, <1>1
      <4> QED  BY <4>1 DEF Chain
    <3>2. CASE i = n
      <4>1. x # <<>> /\ y[i] = x[n] /\ y[i + 1] = r[1]
        BY <3>2, <1>1, <2>1
      <4> QED  BY <4>1, <2>2 DEF Chain
    <3>3. CASE i > n
      <4>1. PICK j \in 1..Len(r) : i = n + j /\ j + 1 \in 1..Len(r)
        <5>1. i - n \in 1..Len(r) /\ i = n + (i - n) /\ (i - n) + 1 \in 1..Len(r)
          BY <3>3, <1>1
        <5> QED  BY <5>1
      <4>2. y[i] = r[j] /\ y[i + 1] = r[j + 1]
        BY <4>1, <1>1
      <4>3. Seal(r[j + 1]) = <<k, q + j, Ahead(c, j)>>
        <5>1. j + 1 \in DOMAIN r /\ q + (j + 1) - 1 = q + j /\ (j + 1) - 1 = j
          BY <4>1
        <5>2. Seal(r[j + 1]) = <<k, q + (j + 1) - 1, Ahead(c, (j + 1) - 1)>>
          BY <5>1
        <5> QED  BY <5>1, <5>2
      <4>4. NextSeal(r[j], key, comp) = <<k, q + j, Ahead(c, j)>>
        BY <1>2, Zenon
      <4>5. PICK u, w : u = y[i] /\ w = y[i + 1]
        OBVIOUS
      <4>6. Seal(w) = NextSeal(u, key, comp)
        BY <4>2, <4>3, <4>4, <4>5, Zenon
      <4> QED  BY <4>5, <4>6, Zenon
    <3>4. i < n \/ i = n \/ i > n
      <4>1. PICK m \in Nat : m = n
        OBVIOUS
      <4>2. i < m \/ i = m \/ i > m
        OBVIOUS
      <4> QED  BY <4>1, <4>2, Zenon
    <3> QED  BY <3>1, <3>2, <3>3, <3>4, Zenon
  <2> HIDE DEF y
  <2>6. Chain(in, y, <<k, q + Len(r), Ahead(c, Len(r))>>, key, comp)
    BY <2>1, <2>3, <2>4, <2>5 DEF Chain
  <2> QED  BY <2>6 DEF y
<1> QED  BY <1>3, <1>4

-----------------------------------------------------------------------------
(* What the operations come to, apart from the packets that they send.      *)

Pkt(s, t, body) == [t |-> t, body |-> body, key |-> s.keyOut, seq |-> s.seqOut, comp |-> s.compOut]

\* kex_start_rekex(): KEXINIT is sent
Rekeyed(s) == [s EXCEPT !.done = FALSE, !.my = @ + 1, !.rekeying = TRUE, !.init_sent = TRUE,
                        !.seqOut = @ + 1, !.usedOut = TRUE, !.compOut = Advance(@)]

\* a packet is taken, a packet is sent
Taken(s) == [s EXCEPT !.seqIn = @ + 1, !.usedIn = TRUE, !.compIn = Advance(@)]
Sent(s) == [s EXCEPT !.seqOut = @ + 1, !.usedOut = TRUE, !.compOut = Advance(@)]

\* kex_input_kexinit() of a peer that has sent its own KEXINIT; the client sends INIT
Agreed(s, cookie) ==
  IF s.server THEN [s EXCEPT !.handles = {"INIT"}, !.peer = cookie]
  ELSE [Sent(s) EXCEPT !.handles = {"REPLY"}, !.peer = cookie]


-----------------------------------------------------------------------------
(* The micro steps preserve the invariant.                                  *)

\* the fields after kex_start_rekex()
LEMMA Counters ==
  ASSUME NEW s \in State
  PROVE  s.seqOut + 1 \in Nat /\ s.my + 1 \in Nat /\ Advance(s.compOut) \in Nat
<1>1. s.seqOut \in Nat /\ s.my \in Nat /\ s.compOut \in Nat
  BY DEF State
<1> QED  BY <1>1 DEF Advance

LEMMA RekeyedIn ==
  ASSUME NEW s \in State
  PROVE  Rekeyed(s) \in State
<1>1. PICK n \in Nat, k \in Nat, c \in Nat : n = s.seqOut + 1 /\ k = s.my + 1 /\ c = Advance(s.compOut)
  BY Counters, Zenon
<1>2. Rekeyed(s) = [s EXCEPT !.done = FALSE, !.my = k, !.rekeying = TRUE, !.init_sent = TRUE,
                             !.seqOut = n, !.usedOut = TRUE, !.compOut = c]
  BY <1>1 DEF Rekeyed
<1>3. PICK r \in State : r = [s EXCEPT !.done = FALSE, !.my = k, !.rekeying = TRUE, !.init_sent = TRUE]
  BY ZenonT(60) DEF State
<1>4. Rekeyed(s) = [r EXCEPT !.seqOut = n, !.usedOut = TRUE, !.compOut = c]
  BY <1>2, <1>3 DEF State
<1> QED  BY <1>4, ZenonT(60) DEF State

LEMMA PktIn ==
  ASSUME NEW s \in State, NEW t \in KexTypes \cup {"EXTINFO", "AUTH", "SUCCESS", "DATA"},
         NEW body \in Seq(Nat)
  PROVE  Pkt(s, t, body) \in Packet
BY DEF Pkt, State, Packet

LEMMA RekeyStep ==
  ASSUME NEW a \in State, NEW b \in State, NEW x \in Seq(Packet), NEW y \in Seq(Packet),
         NEW asked \in BOOLEAN, NEW ph, Joint(a, b, x, y, asked, ph),
         PhaseOf(a) = "idle", a.auth, a.server => ph # "handover"
  PROVE  Joint(Rekeyed(a), b, Append(x, Pkt(a, "KEXINIT", <<a.my + 1>>)), y, asked, ph)
<1> DEFINE d == Rekeyed(a)
           m == Pkt(a, "KEXINIT", <<a.my + 1>>)
           z == Append(x, m)
<1> USE DEF Joint, Half
<1>1. /\ d.server = a.server /\ d.auth = a.auth /\ d.keyOut = a.keyOut /\ d.keyIn = a.keyIn
      /\ d.compIn = a.compIn /\ d.seqIn = a.seqIn /\ d.queue = a.queue /\ d.sent = a.sent
      /\ d.initial = a.initial /\ d.peer = a.peer /\ d.newIn = a.newIn
      /\ d.session_id = a.session_id /\ d.handles = a.handles /\ d.err = a.err
      /\ d.rekeying = TRUE /\ d.done = FALSE /\ d.init_sent = TRUE
      /\ d.my = a.my + 1 /\ d.seqOut = a.seqOut + 1 /\ d.compOut = Advance(a.compOut)
  BY DEF Rekeyed, State
<1>2. m \in Packet /\ m.t = "KEXINIT" /\ m.body = <<a.my + 1>>
      /\ Seal(m) = <<a.keyOut, a.seqOut, a.compOut>>
  <2>1. "KEXINIT" \in KexTypes /\ <<a.my + 1>> \in Seq(Nat)
    <3>1. PICK n \in Nat : n = a.my + 1
      BY Counters, Zenon
    <3>2. "KEXINIT" \in KexTypes /\ <<n>> \in Seq(Nat)
      BY DEF KexTypes
    <3> QED  BY <3>1, <3>2, Zenon
  <2> QED  BY <2>1, PktIn DEF Pkt, Seal
<1> HIDE DEF d, m
<1>3. \A t : Has(z, t) <=> Has(x, t) \/ t = "KEXINIT"
  BY <1>2, HasAppend
<1>4. PhaseOf(d) = "sent" /\ Coherent(d)
  <2>1. a.handles = {"KEXINIT"} /\ ~a.initial /\ a.my \in Nat /\ a.compOut \in Nat
    BY DEF Coherent, State
  <2>2. PhaseOf(d) = "sent"
    BY <1>1, <2>1 DEF PhaseOf
  <2>3. d.err = "none" /\ d.sent = <<>> /\ d.my > 0
    BY <1>1, <2>1 DEF Coherent
  <2>4. d.init_sent = ~d.done /\ (d.rekeying => ~d.done)
    BY <1>1
  <2>5. d.initial <=> d.session_id = NoKey
    BY <1>1, <2>1 DEF Coherent
  <2>6. /\ ~d.initial => d.keyIn # NoKey /\ d.keyOut # NoKey
        /\ \A i \in DOMAIN d.queue : d.queue[i].t = "DATA"
    BY <1>1, <2>1 DEF Coherent
  <2> QED  BY <1>1, <2>1, <2>2, <2>3, <2>4, <2>5, <2>6 DEF Coherent
<1>5. Exchange(d, b, z) /\ Exchange(b, d, y)
  <2>1. Neat(z)
    <3>1. \A t \in KexTypes : Has(x, t) => Rank(t) < Rank("KEXINIT")
      BY DEF Exchange, Phases, Rank, KexTypes
    <3> QED  BY <1>2, <3>1, NeatAppend DEF KexTypes, Exchange
  <2> HIDE DEF z
  <2>2. PhaseOf(b) \in {"idle", "sent", "keyed"}
    BY DEF Exchange, Phases, PhaseOf
  <2>3. Exchange(d, b, z)
    <3>1. /\ Has(z, "KEXINIT") /\ (Has(z, "INIT") <=> Has(x, "INIT"))
          /\ (Has(z, "REPLY") <=> Has(x, "REPLY")) /\ (Has(z, "NEWKEYS") <=> Has(x, "NEWKEYS"))
      BY <1>3
    <3> QED  BY <1>1, <1>4, <2>1, <2>2, <3>1 DEF Exchange, Phases
  <2>4. Exchange(b, d, y)
    BY <1>1, <1>4, <2>2 DEF Exchange, Phases
  <2> QED  BY <2>3, <2>4
<1>6. Cookies(d, b, z) /\ Cookies(b, d, y)
  <2>1. \A i \in DOMAIN z : (i \in DOMAIN x /\ z[i] = x[i]) \/ z[i] = m
    BY <1>2
  <2>2. ~Has(x, "KEXINIT") /\ ~Has(x, "REPLY") /\ ~Has(y, "REPLY") /\ PhaseOf(b) # "agreed"
    BY DEF Exchange, Phases
  <2>3. \A i \in DOMAIN z : /\ z[i].t = "KEXINIT" => z[i].body = <<d.my>>
                            /\ z[i].t # "REPLY"
    <3> HIDE DEF z
    <3> QED  BY <1>1, <1>2, <2>1, <2>2 DEF Has
  <2>4. \A i \in DOMAIN y : y[i].t # "REPLY"
    BY <2>2 DEF Has
  <2> HIDE DEF z
  <2> QED  BY <1>1, <1>4, <2>2, <2>3, <2>4 DEF Cookies, Phases
<1>7. Sealed(d, b, z) /\ Sealed(b, d, y)
  <2>1. NextSeal(m, a.keyOut, Reset(a)) = <<a.keyOut, a.seqOut + 1, Advance(a.compOut)>>
    BY <1>2 DEF NextSeal, Seal
  <2>2. b.auth /\ ~a.auth <=> FALSE
    OBVIOUS
  <2>3. Chain(<<b.keyIn, b.seqIn, b.compIn>>, x, Seal(m), a.keyOut, Reset(a))
    BY <1>2 DEF Sealed
  <2>4. Chain(<<b.keyIn, b.seqIn, b.compIn>>, z, NextSeal(m, a.keyOut, Reset(a)), a.keyOut, Reset(a))
    BY <1>2, <2>3, ChainAppend
  <2> HIDE DEF z
  <2> QED  BY <1>1, <2>1, <2>4 DEF Sealed, Reset
<1>8. a.server => Login(b, d, y, z, asked, ph) /\ SameId(b, d)
  <2> SUFFICES ASSUME a.server PROVE Login(b, d, y, z, asked, ph) /\ SameId(b, d)
    OBVIOUS
  <2>1. Login(b, a, y, x, asked, ph) /\ SameId(b, a)
    OBVIOUS
  <2>2. \A i \in DOMAIN z : (i \in DOMAIN x /\ z[i] = x[i]) \/ z[i].t # "SUCCESS"
    BY <1>2
  <2>3. \A i, j \in DOMAIN z : z[i].t = "SUCCESS" /\ z[j].t = "SUCCESS" => i = j
    <3> HIDE DEF z
    <3> QED  BY <2>1, <2>2 DEF Login
  <2>4. SameId(b, d)
    BY <1>1, <1>4, <2>1 DEF SameId, Phases, Coherent
  <2> HIDE DEF z
  <2> QED  BY <1>1, <1>3, <1>4, <2>1, <2>3, <2>4 DEF Login, Phases
<1>9. ~a.server => Login(d, b, z, y, asked, ph) /\ SameId(d, b)
  <2> SUFFICES ASSUME ~a.server PROVE Login(d, b, z, y, asked, ph) /\ SameId(d, b)
    OBVIOUS
  <2>1. Login(a, b, x, y, asked, ph) /\ SameId(a, b)
    OBVIOUS
  <2>2. b.auth
    BY <2>1 DEF Login
  <2>3. ~Has(x, "AUTH")
    BY <2>1, <2>2 DEF Login
  <2>4. \A i \in DOMAIN z : z[i].t # "AUTH"
    BY <1>3, <2>3 DEF Has
  <2>5. SameId(d, b)
    BY <1>1, <1>4, <2>1 DEF SameId, Phases, Coherent
  <2> HIDE DEF z
  <2> QED  BY <1>1, <1>3, <1>4, <2>1, <2>2, <2>4, <2>5 DEF Login, Phases
<1> QED
  <2> HIDE DEF z
  <2>1. Joint(d, b, z, y, asked, ph)
    BY <1>1, <1>4, <1>5, <1>6, <1>7, <1>8, <1>9
  <2> QED  BY <2>1 DEF d, z, m

\* a sends a row of plain packets (or none), and its queue changes
Speaks(a, d, r) ==
  /\ d.server = a.server /\ d.auth = a.auth /\ d.keyOut = a.keyOut /\ d.keyIn = a.keyIn
  /\ d.compIn = a.compIn /\ d.seqIn = a.seqIn /\ d.sent = a.sent
  /\ d.initial = a.initial /\ d.peer = a.peer /\ d.newIn = a.newIn
  /\ d.session_id = a.session_id /\ d.handles = a.handles /\ d.err = a.err
  /\ d.rekeying = a.rekeying /\ d.done = a.done /\ d.init_sent = a.init_sent /\ d.my = a.my
  /\ ~a.auth => d.queue = <<>>
  /\ \A i \in DOMAIN d.queue : d.queue[i].t = "DATA"
  /\ d.seqOut = a.seqOut + Len(r) /\ d.compOut = Ahead(a.compOut, Len(r))
  /\ \A i \in DOMAIN r : /\ r[i].t \in Plain
                         /\ Seal(r[i]) = <<a.keyOut, a.seqOut + i - 1, Ahead(a.compOut, i - 1)>>

LEMMA SpeakStep ==
  ASSUME NEW a \in State, NEW b \in State, NEW x \in Seq(Packet), NEW y \in Seq(Packet),
         NEW asked \in BOOLEAN, NEW ph, Joint(a, b, x, y, asked, ph),
         NEW d \in State, NEW r \in Seq(Packet), Speaks(a, d, r),
         r = <<>> \/ PhaseOf(a) \in {"idle", "keyed"},
         a.server \/ a.auth, a.server => ph # "handover"
  PROVE  Joint(d, b, x \o r, y, asked, ph)
<1> DEFINE z == x \o r
<1> USE DEF Joint, Half
<1>1. PhaseOf(d) = PhaseOf(a) /\ Coherent(d)
  <2>1. PhaseOf(d) = PhaseOf(a)
    BY DEF PhaseOf, Speaks
  <2>2. ~a.auth => d.compIn = 0 /\ d.compOut = 0 /\ d.queue = <<>>
    BY DEF Speaks, Coherent, Ahead
  <2> QED  BY <2>1, <2>2 DEF Coherent, Speaks
<1>2. /\ z \in Seq(Packet) /\ \A i \in DOMAIN x : i \in DOMAIN z /\ z[i] = x[i]
      /\ \A i \in DOMAIN z : (i \in DOMAIN x /\ z[i] = x[i]) \/ (i \notin DOMAIN x /\ z[i].t \in Plain)
  BY DEF Speaks
<1>3. \A t : t \notin Plain => (Has(z, t) <=> Has(x, t))
  BY HasRun DEF Speaks
<1>4. Neat(z)
  <2>1. CASE r = <<>>
    <3>1. z = x
      BY <2>1
    <3> QED  BY <3>1 DEF Exchange
  <2>2. CASE PhaseOf(a) \in {"idle", "keyed"}
    <3>1. ~Has(x, "KEXINIT")
      BY <2>2 DEF Exchange, Phases
    <3> QED  BY <3>1, NeatRun DEF Speaks, Exchange
  <2> QED  BY <2>1, <2>2
<1>5. Chain(<<b.keyIn, b.seqIn, b.compIn>>, z, <<d.keyOut, d.seqOut, d.compOut>>, a.keyOut, Reset(a))
  <2>1. b.auth /\ ~a.auth <=> FALSE
    BY DEF Login
  <2>2. Chain(<<b.keyIn, b.seqIn, b.compIn>>, x, <<a.keyOut, a.seqOut, a.compOut>>, a.keyOut, Reset(a))
    BY <2>1 DEF Sealed
  <2>3. a.seqOut \in Nat /\ a.compOut \in Nat
    BY DEF State
  <2> QED  BY <2>2, <2>3, ChainRun, ZenonT(60) DEF Speaks
<1> HIDE DEF z
<1>6. Exchange(d, b, z) /\ Exchange(b, d, y)
  BY <1>1, <1>3, <1>4, ZenonT(60) DEF Exchange, Phases, Speaks, Plain
<1>7. Cookies(d, b, z) /\ Cookies(b, d, y)
  <2>1. \A i \in DOMAIN z : /\ z[i].t = "KEXINIT" => z[i].body = <<a.my>>
                            /\ z[i].t = "REPLY" => z[i].body = <<b.my, a.my>>
    BY <1>2, ZenonT(60) DEF Cookies, Plain
  <2>2. Cookies(d, b, z)
    BY <1>1, <2>1 DEF Cookies, Phases, Speaks
  <2>3. Cookies(b, d, y)
    BY <1>1 DEF Cookies, Phases, Speaks
  <2> QED  BY <2>2, <2>3
<1>8. Sealed(d, b, z) /\ Sealed(b, d, y)
  <2>1. b.auth /\ ~d.auth <=> FALSE
    BY DEF Login, Speaks
  <2> QED  BY <2>1, <1>5 DEF Sealed, Reset, Speaks
<1>9. a.server => Login(b, d, y, z, asked, ph) /\ SameId(b, d)
  <2> SUFFICES ASSUME a.server PROVE Login(b, d, y, z, asked, ph) /\ SameId(b, d)
    OBVIOUS
  <2>1. Login(b, a, y, x, asked, ph) /\ SameId(b, a)
    OBVIOUS
  <2>2. \A i, j \in DOMAIN z : z[i].t = "SUCCESS" /\ z[j].t = "SUCCESS" => i = j
    BY <1>2, <2>1 DEF Login, Plain
  <2>3. SameId(b, d)
    BY <1>1, <2>1 DEF SameId, Phases, Speaks
  <2> QED  BY <1>1, <1>3, <2>1, <2>2, <2>3 DEF Login, Phases, Plain, Speaks
<1>10. ~a.server => Login(d, b, z, y, asked, ph) /\ SameId(d, b)
  <2> SUFFICES ASSUME ~a.server PROVE Login(d, b, z, y, asked, ph) /\ SameId(d, b)
    OBVIOUS
  <2>1. Login(a, b, x, y, asked, ph) /\ SameId(a, b)
    OBVIOUS
  <2>2. \A i \in DOMAIN z : z[i].t # "AUTH"
    BY <1>3, <2>1 DEF Has, Login, Plain
  <2>3. SameId(d, b)
    BY <1>1, <2>1 DEF SameId, Phases, Speaks
  <2> QED  BY <1>1, <1>3, <2>1, <2>2, <2>3 DEF Login, Phases, Plain, Speaks
<1> QED
  <2>1. Joint(d, b, z, y, asked, ph)
    BY <1>1, <1>6, <1>7, <1>8, <1>9, <1>10 DEF Speaks
  <2> QED  BY <2>1 DEF z

\* what the first packet of a queue says of the rest
LEMMA Popped ==
  ASSUME NEW y \in Seq(Packet), y # <<>>, Neat(y)
  PROVE  /\ Neat(Tail(y)) /\ Has(y, y[1].t)
         /\ \A t : t # y[1].t => (Has(Tail(y), t) <=> Has(y, t))
         /\ y[1].t \in KexTypes => ~Has(Tail(y), y[1].t)
         /\ y[1].t = "NEWKEYS" => ~Has(y, "REPLY")
         /\ y[1].t = "KEXINIT" => /\ ~Has(y, "REPLY") /\ ~Has(y, "NEWKEYS")
                                  /\ ~Has(y, "SUCCESS") /\ ~Has(y, "AUTH")
         /\ y[1].t = "INIT" => ~Has(y, "KEXINIT")
<1>1. \A t : Has(y, t) <=> y[1].t = t \/ Has(Tail(y), t)
  BY HasTail
<1>2. /\ Neat(Tail(y))
      /\ y[1].t \in KexTypes => \A t \in KexTypes : Has(Tail(y), t) => Rank(y[1].t) < Rank(t)
      /\ y[1].t = "KEXINIT" => \A t : Has(Tail(y), t) => t \in KexTypes
  BY NeatTail
<1>3. y[1].t \in KexTypes => ~Has(Tail(y), y[1].t)
  BY <1>2 DEF Rank
<1>4. y[1].t = "NEWKEYS" => ~Has(y, "REPLY")
  BY <1>1, <1>2 DEF Rank, KexTypes
<1>5. y[1].t = "KEXINIT" => /\ ~Has(y, "REPLY") /\ ~Has(y, "NEWKEYS")
                            /\ ~Has(y, "SUCCESS") /\ ~Has(y, "AUTH")
  BY <1>1, <1>2 DEF Rank, KexTypes
<1>6. y[1].t = "INIT" => ~Has(y, "KEXINIT")
  BY <1>1, <1>2 DEF Rank, KexTypes
<1> QED  BY <1>1, <1>2, <1>3, <1>4, <1>5, <1>6

\* a takes a plain packet
Takes(a, d) ==
  /\ d.server = a.server /\ d.auth = a.auth /\ d.keyOut = a.keyOut /\ d.keyIn = a.keyIn
  /\ d.compOut = a.compOut /\ d.seqOut = a.seqOut /\ d.sent = a.sent /\ d.queue = a.queue
  /\ d.initial = a.initial /\ d.peer = a.peer /\ d.newIn = a.newIn
  /\ d.session_id = a.session_id /\ d.handles = a.handles /\ d.err = a.err
  /\ d.rekeying = a.rekeying /\ d.done = a.done /\ d.init_sent = a.init_sent /\ d.my = a.my
  /\ d.seqIn = a.seqIn + 1 /\ d.compIn = Advance(a.compIn)

LEMMA TakeStep ==
  ASSUME NEW a \in State, NEW b \in State, NEW x \in Seq(Packet), NEW y \in Seq(Packet),
         NEW asked \in BOOLEAN, NEW ph, Joint(a, b, x, y, asked, ph),
         NEW d \in State, Takes(a, d), y # <<>>, y[1].t \in Plain, a.server => ph # "handover"
  PROVE  Joint(d, b, x, Tail(y), asked, ph)
<1> DEFINE z == Tail(y)
<1> USE DEF Joint, Half
<1>1. PhaseOf(d) = PhaseOf(a) /\ Coherent(d)
  <2>1. PhaseOf(d) = PhaseOf(a)
    BY DEF PhaseOf, Takes
  <2>2. ~a.auth => d.compIn = 0 /\ d.compOut = 0 /\ d.queue = <<>>
    BY DEF Takes, Coherent, Advance
  <2> QED  BY <2>1, <2>2 DEF Coherent, Takes
<1>2. /\ z \in Seq(Packet) /\ Len(z) = Len(y) - 1 /\ Len(y) \in Nat
      /\ \A i \in DOMAIN z : i \in Int /\ i + 1 \in DOMAIN y /\ z[i] = y[i + 1]
  BY TailFacts
<1>3. Neat(z) /\ \A t : t \notin Plain => (Has(z, t) <=> Has(y, t))
  BY Popped DEF Exchange
<1>4. Chain(<<d.keyIn, d.seqIn, d.compIn>>, z,
            <<b.keyOut, b.seqOut, IF a.auth /\ ~b.auth THEN 1 ELSE b.compOut>>, b.keyOut, Reset(b))
  <2>1. Seal(y[1]) = <<a.keyIn, a.seqIn, a.compIn>> /\
        Chain(NextSeal(y[1], b.keyOut, Reset(b)), z,
            <<b.keyOut, b.seqOut, IF a.auth /\ ~b.auth THEN 1 ELSE b.compOut>>, b.keyOut, Reset(b))
    BY ChainTail DEF Sealed
  <2>2. NextSeal(y[1], b.keyOut, Reset(b)) = <<d.keyIn, d.seqIn, d.compIn>>
    BY <2>1 DEF NextSeal, Seal, Plain, Takes
  <2> QED  BY <2>1, <2>2
<1> HIDE DEF z
<1>5. Exchange(d, b, x) /\ Exchange(b, d, z)
  BY <1>1, <1>3 DEF Exchange, Phases, Takes, Plain
<1>6. Cookies(d, b, x) /\ Cookies(b, d, z)
  <2>1. \A i \in DOMAIN z : /\ z[i].t = "KEXINIT" => z[i].body = <<b.my>>
                            /\ z[i].t = "REPLY" => z[i].body = <<a.my, b.my>>
    BY <1>2 DEF Cookies
  <2>2. Cookies(b, d, z)
    BY <1>1, <2>1 DEF Cookies, Phases, Takes
  <2>3. Cookies(d, b, x)
    BY <1>1 DEF Cookies, Phases, Takes
  <2> QED  BY <2>2, <2>3
<1>7. Sealed(d, b, x) /\ Sealed(b, d, z)
  BY <1>4 DEF Sealed, Reset, Takes
<1>8. a.server => Login(b, d, z, x, asked, ph) /\ SameId(b, d)
  <2> SUFFICES ASSUME a.server PROVE Login(b, d, z, x, asked, ph) /\ SameId(b, d)
    OBVIOUS
  <2>1. Login(b, a, y, x, asked, ph) /\ SameId(b, a)
    OBVIOUS
  <2>2. \A i \in DOMAIN z : z[i].t = "AUTH" => i = Len(z)
    BY <1>2, <2>1 DEF Login
  <2>3. a.auth => b.auth
    BY <2>1 DEF Login
  <2>4. SameId(b, d)
    BY <1>1, <2>1 DEF SameId, Phases, Takes
  <2>5. (Has(z, "AUTH") <=> Has(y, "AUTH")) /\ (Has(z, "SUCCESS") <=> Has(y, "SUCCESS"))
    BY <1>3 DEF Plain
  <2>6. /\ d.auth => asked
        /\ ~d.auth => /\ (asked <=> Has(z, "AUTH"))
                      /\ Phases(b, d) \notin {<<"sent", "idle">>, <<"idle", "sent">>,
                                              <<"sent", "keyed">>, <<"keyed", "sent">>}
    BY <1>1, <2>1, <2>5 DEF Login, Phases, Takes
  <2> QED  BY <1>1, <2>1, <2>2, <2>3, <2>4, <2>5, <2>6 DEF Login, Takes
<1>9. ~a.server => Login(d, b, x, z, asked, ph) /\ SameId(d, b)
  <2> SUFFICES ASSUME ~a.server PROVE Login(d, b, x, z, asked, ph) /\ SameId(d, b)
    OBVIOUS
  <2>1. Login(a, b, x, y, asked, ph) /\ SameId(a, b)
    OBVIOUS
  <2>2. \A i, j \in DOMAIN z : z[i].t = "SUCCESS" /\ z[j].t = "SUCCESS" => i = j
    <3> SUFFICES ASSUME NEW i \in DOMAIN z, NEW j \in DOMAIN z, z[i].t = "SUCCESS", z[j].t = "SUCCESS"
                 PROVE i = j
      OBVIOUS
    <3>1. i + 1 = j + 1 /\ i \in Int /\ j \in Int
      BY <1>2, <2>1 DEF Login
    <3> QED  BY <3>1
  <2>3. SameId(d, b)
    BY <1>1, <2>1 DEF SameId, Phases, Takes
  <2> QED  BY <1>1, <1>3, <2>1, <2>2, <2>3 DEF Login, Phases, Plain, Takes
<1> QED
  <2>1. Joint(d, b, x, z, asked, ph)
    BY <1>1, <1>5, <1>6, <1>7, <1>8, <1>9 DEF Takes
  <2> QED  BY <2>1 DEF z

\* a, whose own KEXINIT is out, takes the KEXINIT of b; the client sends INIT
Agrees(a, d, h, m) ==
  /\ d.server = a.server /\ d.auth = a.auth /\ d.keyOut = a.keyOut /\ d.keyIn = a.keyIn
  /\ d.sent = a.sent /\ d.queue = a.queue /\ d.initial = a.initial /\ d.newIn = a.newIn
  /\ d.session_id = a.session_id /\ d.err = a.err /\ d.my = a.my
  /\ d.rekeying = a.rekeying /\ d.done = a.done /\ d.init_sent = a.init_sent
  /\ d.peer = h.body[1] /\ d.handles = IF a.server THEN {"INIT"} ELSE {"REPLY"}
  /\ d.seqIn = a.seqIn + 1 /\ d.compIn = Advance(a.compIn)
  /\ a.server => d.seqOut = a.seqOut /\ d.compOut = a.compOut
  /\ ~a.server => /\ d.seqOut = a.seqOut + 1 /\ d.compOut = Advance(a.compOut)
                  /\ m.t = "INIT" /\ Seal(m) = <<a.keyOut, a.seqOut, a.compOut>>

LEMMA AgreeStep ==
  ASSUME NEW a \in State, NEW b \in State, NEW x \in Seq(Packet), NEW y \in Seq(Packet),
         NEW asked \in BOOLEAN, NEW ph, Joint(a, b, x, y, asked, ph),
         NEW d \in State, NEW m \in Packet, y # <<>>, Agrees(a, d, y[1], m),
         y[1].t = "KEXINIT", PhaseOf(a) = "sent"
  PROVE  Joint(d, b, IF a.server THEN x ELSE Append(x, m), Tail(y), asked, ph)
<1> DEFINE z == Tail(y)
           w == IF a.server THEN x ELSE Append(x, m)
<1> USE DEF Joint, Half
<1>1. PhaseOf(d) = "agreed" /\ Coherent(d)
  <2>1. a.rekeying /\ ~a.done /\ {"INIT"} # {"KEXINIT"} /\ {"REPLY"} # {"KEXINIT"}
    BY DEF PhaseOf
  <2>2. PhaseOf(d) = "agreed"
    BY <2>1 DEF PhaseOf, Agrees
  <2>3. ~a.auth => d.compIn = 0 /\ d.compOut = 0 /\ d.queue = <<>>
    BY DEF Agrees, Coherent, Advance
  <2>4. d.handles = IF d.server THEN {"INIT"} ELSE {"REPLY"}
    BY DEF Agrees
  <2> QED  BY <2>2, <2>3, <2>4 DEF Coherent, Agrees
<1>2. /\ z \in Seq(Packet) /\ Len(z) = Len(y) - 1 /\ Len(y) \in Nat
      /\ \A i \in DOMAIN z : i \in Int /\ i + 1 \in DOMAIN y /\ z[i] = y[i + 1]
  BY TailFacts
<1>3. /\ Neat(z) /\ Has(y, "KEXINIT") /\ ~Has(z, "KEXINIT") /\ ~Has(z, "REPLY") /\ ~Has(z, "NEWKEYS")
      /\ ~Has(z, "SUCCESS") /\ ~Has(z, "AUTH") /\ (Has(z, "INIT") <=> Has(y, "INIT"))
      /\ ~Has(y, "NEWKEYS") /\ ~Has(y, "SUCCESS")
  BY Popped DEF Exchange, KexTypes
<1>4. PhaseOf(b) \in {"sent", "agreed"}
  BY <1>3 DEF Exchange, Phases
<1>5. ~(b.auth /\ ~a.auth) /\ ~(a.auth /\ ~b.auth)
  BY <1>3, <1>4 DEF Login
<1>6. Chain(<<d.keyIn, d.seqIn, d.compIn>>, z, <<b.keyOut, b.seqOut, b.compOut>>, b.keyOut, Reset(b))
  <2>1. Seal(y[1]) = <<a.keyIn, a.seqIn, a.compIn>> /\
        Chain(NextSeal(y[1], b.keyOut, Reset(b)), z, <<b.keyOut, b.seqOut, b.compOut>>, b.keyOut, Reset(b))
    BY <1>5, ChainTail DEF Sealed
  <2>2. NextSeal(y[1], b.keyOut, Reset(b)) = <<d.keyIn, d.seqIn, d.compIn>>
    BY <2>1 DEF NextSeal, Seal, Agrees
  <2> QED  BY <2>1, <2>2
<1>7. Chain(<<b.keyIn, b.seqIn, b.compIn>>, w, <<d.keyOut, d.seqOut, d.compOut>>, a.keyOut, Reset(a))
  <2>1. Chain(<<b.keyIn, b.seqIn, b.compIn>>, x, <<a.keyOut, a.seqOut, a.compOut>>, a.keyOut, Reset(a))
    BY <1>5 DEF Sealed
  <2>2. CASE a.server
    BY <2>1, <2>2 DEF Agrees
  <2>3. CASE ~a.server
    <3>1. Chain(<<b.keyIn, b.seqIn, b.compIn>>, Append(x, m), NextSeal(m, a.keyOut, Reset(a)), a.keyOut, Reset(a))
      BY <2>1, <2>3, ChainAppend DEF Agrees
    <3>2. NextSeal(m, a.keyOut, Reset(a)) = <<d.keyOut, d.seqOut, d.compOut>>
      BY <2>3 DEF NextSeal, Seal, Agrees
    <3> QED  BY <2>3, <3>1, <3>2
  <2> QED  BY <2>2, <2>3
<1>8. /\ Neat(w) /\ \A t : t # "INIT" => (Has(w, t) <=> Has(x, t))
      /\ Has(w, "INIT") <=> ~a.server
      /\ \A i \in DOMAIN w : (i \in DOMAIN x /\ w[i] = x[i]) \/ w[i].t = "INIT"
  <2>1. ~Has(x, "INIT") /\ Neat(x)
    BY DEF Exchange, Phases
  <2>2. CASE a.server
    BY <2>1, <2>2
  <2>3. CASE ~a.server
    <3>1. \A t : Has(Append(x, m), t) <=> Has(x, t) \/ m.t = t
      BY HasAppend
    <3>2. \A t \in KexTypes : Has(x, t) => Rank(t) < Rank("INIT")
      BY <2>1 DEF Rank, KexTypes
    <3>3. Neat(Append(x, m))
      BY <2>1, <2>3, <3>2, NeatAppend DEF Agrees, KexTypes
    <3>4. \A i \in DOMAIN Append(x, m) : (i \in DOMAIN x /\ Append(x, m)[i] = x[i]) \/ Append(x, m)[i] = m
      OBVIOUS
    <3> QED  BY <2>1, <2>3, <3>1, <3>3, <3>4 DEF Agrees
  <2> QED  BY <2>2, <2>3
<1> HIDE DEF z, w
<1>9. Exchange(d, b, w) /\ Exchange(b, d, z)
  <2>1. d.server = a.server
    BY DEF Agrees
  <2>2. Exchange(d, b, w)
    BY <1>1, <1>3, <1>4, <1>8, <2>1 DEF Exchange, Phases
  <2>3. Exchange(b, d, z)
    BY <1>1, <1>3, <1>4, <2>1 DEF Exchange, Phases
  <2> QED  BY <2>2, <2>3
<1>10. Cookies(d, b, w) /\ Cookies(b, d, z)
  <2>1. \A i \in DOMAIN z : /\ z[i].t = "KEXINIT" => z[i].body = <<b.my>>
                            /\ z[i].t = "REPLY" => z[i].body = <<a.my, b.my>>
    BY <1>2 DEF Cookies
  <2>2. \A i \in DOMAIN w : /\ w[i].t = "KEXINIT" => w[i].body = <<a.my>>
                            /\ w[i].t = "REPLY" => w[i].body = <<b.my, a.my>>
    BY <1>8 DEF Cookies
  <2>3. d.peer = b.my /\ d.my = a.my
    <3>1. y[1].body = <<b.my>>
      BY DEF Cookies
    <3> QED  BY <3>1 DEF Agrees
  <2>4. Cookies(b, d, z)
    BY <1>1, <1>4, <2>1, <2>3 DEF Cookies, Phases
  <2>5. Cookies(d, b, w)
    BY <1>1, <1>4, <2>2, <2>3 DEF Cookies, Phases
  <2> QED  BY <2>4, <2>5
<1>11. Sealed(d, b, w) /\ Sealed(b, d, z)
  BY <1>5, <1>6, <1>7 DEF Sealed, Reset, Agrees
<1>12. a.server => Login(b, d, z, w, asked, ph) /\ SameId(b, d)
  <2> SUFFICES ASSUME a.server PROVE Login(b, d, z, w, asked, ph) /\ SameId(b, d)
    OBVIOUS
  <2>1. Login(b, a, y, x, asked, ph) /\ SameId(b, a) /\ w = x
    BY DEF w
  <2>2. \A i \in DOMAIN z : z[i].t # "AUTH"
    BY <1>3 DEF Has
  <2>3. ~Has(y, "AUTH")
    BY <1>4, <2>1 DEF Login
  <2>4. ph # "handover"
    BY <2>1 DEF Login
  <2>5. SameId(b, d)
    BY <1>1, <1>4, <2>1 DEF SameId, Phases, Agrees
  <2> QED  BY <1>1, <1>3, <1>4, <1>5, <2>1, <2>2, <2>3, <2>4, <2>5 DEF Login, Phases, Agrees
<1>13. ~a.server => Login(d, b, w, z, asked, ph) /\ SameId(d, b)
  <2> SUFFICES ASSUME ~a.server PROVE Login(d, b, w, z, asked, ph) /\ SameId(d, b)
    OBVIOUS
  <2>1. Login(a, b, x, y, asked, ph) /\ SameId(a, b)
    OBVIOUS
  <2>2. ~Has(x, "AUTH") /\ ~Has(w, "AUTH") /\ ~Has(w, "SUCCESS")
    BY <1>8, <2>1 DEF Login
  <2>3. \A i \in DOMAIN w : w[i].t # "AUTH"
    BY <2>2 DEF Has
  <2>4. \A i \in DOMAIN z : z[i].t # "SUCCESS"
    BY <1>3 DEF Has
  <2>5. SameId(d, b)
    BY <1>1, <1>4, <2>1 DEF SameId, Phases, Agrees
  <2> QED  BY <1>1, <1>3, <1>4, <1>5, <2>1, <2>2, <2>3, <2>4, <2>5 DEF Login, Phases, Agrees
<1> QED
  <2>1. Joint(d, b, w, z, asked, ph)
    BY <1>1, <1>9, <1>10, <1>11, <1>12, <1>13 DEF Agrees
  <2> QED  BY <2>1 DEF z, w

\* a, whose own NEWKEYS is out, takes that of b: the exchange is over for a
Finishes(a, d) ==
  /\ d.server = a.server /\ d.auth = a.auth /\ d.keyOut = a.keyOut /\ d.my = a.my
  /\ d.sent = a.sent /\ d.queue = a.queue /\ d.session_id = a.session_id /\ d.err = a.err
  /\ d.compOut = a.compOut /\ d.seqOut = a.seqOut /\ d.rekeying = a.rekeying
  /\ d.done = TRUE /\ d.init_sent = FALSE /\ d.initial = FALSE /\ d.handles = {"KEXINIT"}
  /\ d.keyIn = a.newIn /\ d.seqIn = a.seqIn + 1 /\ d.compIn = Reset(a)

LEMMA FinishStep ==
  ASSUME NEW a \in State, NEW b \in State, NEW x \in Seq(Packet), NEW y \in Seq(Packet),
         NEW asked \in BOOLEAN, NEW ph, Joint(a, b, x, y, asked, ph),
         NEW d \in State, y # <<>>, Finishes(a, d), y[1].t = "NEWKEYS", PhaseOf(a) = "keyed"
  PROVE  Joint(d, b, x, Tail(y), asked, ph)
<1> DEFINE z == Tail(y)
<1> USE DEF Joint, Half
<1>1. PhaseOf(d) = "idle" /\ Coherent(d)
  <2>1. ~a.rekeying /\ ~a.done
    BY DEF PhaseOf
  <2>2. PhaseOf(d) = "idle"
    BY DEF PhaseOf, Finishes
  <2>3. ~a.auth => d.compIn = 0 /\ d.compOut = 0 /\ d.queue = <<>>
    BY DEF Finishes, Coherent, Reset
  <2>4. d.keyIn # NoKey /\ d.keyOut # NoKey /\ d.session_id # NoKey /\ d.init_sent = ~d.done
    BY ZenonT(60) DEF Coherent, Finishes
  <2> QED  BY <2>1, <2>2, <2>3, <2>4 DEF Coherent, Finishes
<1>2. /\ z \in Seq(Packet) /\ Len(z) = Len(y) - 1 /\ Len(y) \in Nat
      /\ \A i \in DOMAIN z : i \in Int /\ i + 1 \in DOMAIN y /\ z[i] = y[i + 1]
  BY TailFacts
<1>3. /\ Neat(z) /\ Has(y, "NEWKEYS") /\ ~Has(z, "NEWKEYS") /\ ~Has(y, "REPLY")
      /\ \A t : t # "NEWKEYS" => (Has(z, t) <=> Has(y, t))
  BY Popped DEF Exchange, KexTypes
<1>4. PhaseOf(b) \in {"keyed", "idle", "sent"}
  BY <1>3 DEF Exchange, Phases
<1>5. ~(b.auth /\ ~a.auth) /\ ~(a.auth /\ ~b.auth)
  BY DEF Login
<1>6. Chain(<<d.keyIn, d.seqIn, d.compIn>>, z, <<b.keyOut, b.seqOut, b.compOut>>, b.keyOut, Reset(b))
  <2>1. Seal(y[1]) = <<a.keyIn, a.seqIn, a.compIn>> /\
        Chain(NextSeal(y[1], b.keyOut, Reset(b)), z, <<b.keyOut, b.seqOut, b.compOut>>, b.keyOut, Reset(b))
    BY <1>5, ChainTail DEF Sealed
  <2>2. a.newIn = b.keyOut /\ Reset(a) = Reset(b)
    BY <1>4, <1>5 DEF Cookies, Reset
  <2>3. NextSeal(y[1], b.keyOut, Reset(b)) = <<d.keyIn, d.seqIn, d.compIn>>
    BY <2>1, <2>2 DEF NextSeal, Seal, Finishes
  <2> QED  BY <2>1, <2>3
<1> HIDE DEF z
<1>7. Exchange(d, b, x) /\ Exchange(b, d, z)
  <2>1. d.server = a.server
    BY DEF Finishes
  <2>2. Exchange(d, b, x)
    BY <1>1, <1>4, <2>1 DEF Exchange, Phases
  <2>3. (Has(z, "KEXINIT") <=> Has(y, "KEXINIT")) /\ (Has(z, "INIT") <=> Has(y, "INIT")) /\ ~Has(z, "REPLY")
    BY <1>3
  <2>4. Exchange(b, d, z)
    BY <1>1, <1>3, <1>4, <2>1, <2>3 DEF Exchange, Phases
  <2> QED  BY <2>2, <2>4
<1>8. Cookies(d, b, x) /\ Cookies(b, d, z)
  <2>1. \A i \in DOMAIN z : /\ z[i].t = "KEXINIT" => z[i].body = <<b.my>>
                            /\ z[i].t = "REPLY" => z[i].body = <<a.my, b.my>>
    BY <1>2 DEF Cookies
  <2>2. Cookies(b, d, z)
    BY <1>1, <1>4, <2>1 DEF Cookies, Phases, Finishes
  <2>3. Cookies(d, b, x)
    BY <1>1, <1>4 DEF Cookies, Phases, Finishes
  <2> QED  BY <2>2, <2>3
<1>9. Sealed(d, b, x) /\ Sealed(b, d, z)
  BY <1>5, <1>6 DEF Sealed, Reset, Finishes
<1>10. a.server => Login(b, d, z, x, asked, ph) /\ SameId(b, d)
  <2> SUFFICES ASSUME a.server PROVE Login(b, d, z, x, asked, ph) /\ SameId(b, d)
    OBVIOUS
  <2>1. Login(b, a, y, x, asked, ph) /\ SameId(b, a)
    OBVIOUS
  <2>2. \A i \in DOMAIN z : z[i].t = "AUTH" => i = Len(z)
    BY <1>2, <2>1 DEF Login
  <2>3. (Has(z, "AUTH") <=> Has(y, "AUTH")) /\ (Has(z, "SUCCESS") <=> Has(y, "SUCCESS"))
    BY <1>3
  <2>4. ph # "handover"
    BY <2>1 DEF Login
  <2>5. SameId(b, d)
    BY <1>1, <1>4, <2>1 DEF SameId, Phases, Finishes
  <2>6. ~d.auth => /\ (asked <=> Has(z, "AUTH"))
                   /\ Phases(b, d) \notin {<<"sent", "idle">>, <<"idle", "sent">>,
                                           <<"sent", "keyed">>, <<"keyed", "sent">>}
    BY <1>1, <1>4, <2>1, <2>3 DEF Login, Phases, Finishes
  <2> QED  BY <1>1, <1>4, <1>5, <2>1, <2>2, <2>3, <2>4, <2>5, <2>6 DEF Login, Finishes
<1>11. ~a.server => Login(d, b, x, z, asked, ph) /\ SameId(d, b)
  <2> SUFFICES ASSUME ~a.server PROVE Login(d, b, x, z, asked, ph) /\ SameId(d, b)
    OBVIOUS
  <2>1. Login(a, b, x, y, asked, ph) /\ SameId(a, b)
    OBVIOUS
  <2>2. (Has(z, "AUTH") <=> Has(y, "AUTH")) /\ (Has(z, "SUCCESS") <=> Has(y, "SUCCESS"))
    BY <1>3
  <2>3. ~Has(x, "AUTH") /\ ~Has(z, "SUCCESS")
    BY <1>5, <2>1, <2>2 DEF Login
  <2>4. \A i \in DOMAIN z : z[i].t # "SUCCESS"
    BY <2>3 DEF Has
  <2>5. SameId(d, b)
    BY <1>1, <1>4, <2>1 DEF SameId, Phases, Finishes
  <2>6. ~b.auth => /\ (asked <=> Has(x, "AUTH"))
                   /\ Phases(d, b) \notin {<<"sent", "idle">>, <<"idle", "sent">>,
                                           <<"sent", "keyed">>, <<"keyed", "sent">>}
    BY <1>1, <1>4, <2>1, <2>3 DEF Login, Phases, Finishes
  <2> QED  BY <1>1, <1>4, <1>5, <2>1, <2>2, <2>3, <2>4, <2>5, <2>6 DEF Login, Finishes
<1> QED
  <2>1. Joint(d, b, x, z, asked, ph)
    BY <1>1, <1>7, <1>8, <1>9, <1>10, <1>11 DEF Finishes
  <2> QED  BY <2>1 DEF z

\* a takes a packet, has the hash H of the exchange, sends n packets, the last of them NEWKEYS,
\* and uses the new key from now on
Switches(a, d, H, n) ==
  /\ d.server = a.server /\ d.auth = a.auth /\ d.keyIn = a.keyIn /\ d.my = a.my
  /\ d.sent = a.sent /\ d.queue = a.queue /\ d.err = a.err /\ d.initial = a.initial
  /\ d.done = a.done /\ d.init_sent = a.init_sent
  /\ d.session_id = IF a.initial THEN H ELSE a.session_id
  /\ d.rekeying = FALSE /\ d.handles = {"NEWKEYS"} /\ d.newIn = H /\ d.keyOut = H
  /\ d.compOut = Reset(a) /\ d.seqOut = a.seqOut + n
  /\ d.seqIn = a.seqIn + 1 /\ d.compIn = Advance(a.compIn)

LEMMA KeyedCoherent ==
  ASSUME NEW a \in State, NEW d \in State, NEW H, NEW n, H # NoKey, Switches(a, d, H, n), Coherent(a),
         PhaseOf(a) = "agreed"
  PROVE  PhaseOf(d) = "keyed" /\ Coherent(d)
<1>1. ~a.done
  BY DEF PhaseOf
<1>2. PhaseOf(d) = "keyed"
  BY <1>1 DEF PhaseOf, Switches
<1>3. ~a.auth => d.compIn = 0 /\ d.compOut = 0 /\ d.queue = <<>>
  BY DEF Switches, Coherent, Reset, Advance
<1>4. d.session_id # NoKey
  BY DEF Switches, Coherent
<1> QED  BY <1>2, <1>3, <1>4 DEF Coherent, Switches

LEMMA KeyClientStep ==
  ASSUME NEW a \in State, NEW b \in State, NEW x \in Seq(Packet), NEW y \in Seq(Packet),
         NEW asked \in BOOLEAN, NEW ph, Joint(a, b, x, y, asked, ph),
         NEW d \in State, y # <<>>, ~a.server, PhaseOf(a) = "agreed", y[1].t = "REPLY",
         Switches(a, d, <<a.my, b.my>>, 1),
         NEW m \in Packet, m.t = "NEWKEYS", Seal(m) = <<a.keyOut, a.seqOut, a.compOut>>
  PROVE  Joint(d, b, Append(x, m), Tail(y), asked, ph)
<1> DEFINE z == Tail(y)
           w == Append(x, m)
           H == <<a.my, b.my>>
<1> USE DEF Joint, Half
<1>1. PhaseOf(d) = "keyed" /\ Coherent(d)
  <2>1. H # NoKey
    BY DEF Coherent, NoKey
  <2> QED  BY <2>1, KeyedCoherent
<1>2. /\ z \in Seq(Packet) /\ Len(z) = Len(y) - 1 /\ Len(y) \in Nat
      /\ \A i \in DOMAIN z : i \in Int /\ i + 1 \in DOMAIN y /\ z[i] = y[i + 1]
  BY TailFacts
<1>3. /\ Neat(z) /\ Has(y, "REPLY") /\ ~Has(z, "REPLY")
      /\ \A t : t # "REPLY" => (Has(z, t) <=> Has(y, t))
  BY Popped DEF Exchange, KexTypes
<1>4. PhaseOf(b) = "keyed"
  BY <1>3 DEF Exchange, Phases
<1>5. ~(b.auth /\ ~a.auth) /\ ~(a.auth /\ ~b.auth)
  BY <1>4 DEF Login
<1>6. Chain(<<d.keyIn, d.seqIn, d.compIn>>, z, <<b.keyOut, b.seqOut, b.compOut>>, b.keyOut, Reset(b))
  <2>1. Seal(y[1]) = <<a.keyIn, a.seqIn, a.compIn>> /\
        Chain(NextSeal(y[1], b.keyOut, Reset(b)), z, <<b.keyOut, b.seqOut, b.compOut>>, b.keyOut, Reset(b))
    BY <1>5, ChainTail DEF Sealed
  <2>2. NextSeal(y[1], b.keyOut, Reset(b)) = <<d.keyIn, d.seqIn, d.compIn>>
    BY <2>1 DEF NextSeal, Seal, Switches
  <2> QED  BY <2>1, <2>2
<1>7. /\ Neat(x) /\ \A t \in KexTypes : ~Has(x, t)
  BY <1>4 DEF Exchange, Phases, KexTypes
<1>8. Chain(<<b.keyIn, b.seqIn, b.compIn>>, w, <<d.keyOut, d.seqOut, d.compOut>>, d.keyOut, Reset(a))
  <2>1. Chain(<<b.keyIn, b.seqIn, b.compIn>>, x, Seal(m), a.keyOut, Reset(a))
    BY <1>5 DEF Sealed
  <2>2. Chain(<<b.keyIn, b.seqIn, b.compIn>>, x, Seal(m), H, Reset(a))
    BY <1>7, <2>1, ChainKey DEF KexTypes
  <2>3. Chain(<<b.keyIn, b.seqIn, b.compIn>>, w, NextSeal(m, H, Reset(a)), H, Reset(a))
    BY <2>2, ChainAppend
  <2>4. NextSeal(m, H, Reset(a)) = <<d.keyOut, d.seqOut, d.compOut>>
    BY DEF NextSeal, Seal, Switches
  <2>5. d.keyOut = H
    BY DEF Switches
  <2> HIDE DEF w
  <2> QED  BY <2>3, <2>4, <2>5
<1>9. /\ Neat(w) /\ \A t : t # "NEWKEYS" => (Has(w, t) <=> Has(x, t))
      /\ Has(w, "NEWKEYS")
      /\ \A i \in DOMAIN w : (i \in DOMAIN x /\ w[i] = x[i]) \/ w[i].t = "NEWKEYS"
  <2>1. \A t : Has(w, t) <=> Has(x, t) \/ m.t = t
    BY HasAppend
  <2>2. Neat(w)
    BY <1>7, NeatAppend DEF KexTypes
  <2>3. \A i \in DOMAIN w : (i \in DOMAIN x /\ w[i] = x[i]) \/ w[i] = m
    OBVIOUS
  <2> HIDE DEF w
  <2> QED  BY <2>1, <2>2, <2>3
<1> HIDE DEF z, w
<1>10. Exchange(d, b, w) /\ Exchange(b, d, z)
  <2>1. d.server = a.server
    BY DEF Switches
  <2>2. ~Has(w, "KEXINIT") /\ ~Has(w, "INIT") /\ ~Has(w, "REPLY")
    BY <1>7, <1>9 DEF KexTypes
  <2>3. Exchange(d, b, w)
    BY <1>1, <1>4, <1>9, <2>1, <2>2 DEF Exchange, Phases
  <2>4. /\ (Has(z, "KEXINIT") <=> Has(y, "KEXINIT")) /\ (Has(z, "INIT") <=> Has(y, "INIT"))
        /\ (Has(z, "NEWKEYS") <=> Has(y, "NEWKEYS"))
    BY <1>3
  <2>5. Exchange(b, d, z)
    BY <1>1, <1>3, <1>4, <2>1, <2>4 DEF Exchange, Phases
  <2> QED  BY <2>3, <2>5
<1>11. Cookies(d, b, w) /\ Cookies(b, d, z)
  <2>1. \A i \in DOMAIN z : /\ z[i].t = "KEXINIT" => z[i].body = <<b.my>>
                            /\ z[i].t = "REPLY" => z[i].body = <<a.my, b.my>>
    BY <1>2 DEF Cookies
  <2>2. \A i \in DOMAIN w : /\ w[i].t = "KEXINIT" => w[i].body = <<a.my>>
                            /\ w[i].t = "REPLY" => w[i].body = <<b.my, a.my>>
    BY <1>9 DEF Cookies
  <2>3. b.newIn = H /\ b.keyOut = H
    BY <1>4 DEF Cookies, Phases
  <2>4. d.newIn = H /\ d.keyOut = H /\ d.my = a.my
    BY DEF Switches
  <2>5. Cookies(b, d, z)
    BY <1>1, <1>4, <2>1, <2>3, <2>4 DEF Cookies, Phases
  <2>6. Cookies(d, b, w)
    BY <1>1, <1>4, <2>2, <2>3, <2>4 DEF Cookies, Phases
  <2> QED  BY <2>5, <2>6
<1>12. Sealed(d, b, w) /\ Sealed(b, d, z)
  <2>1. d.auth = a.auth
    BY DEF Switches
  <2> QED  BY <1>5, <1>6, <1>8, <2>1 DEF Sealed, Reset
<1>13. Login(d, b, w, z, asked, ph)
  <2>1. Login(a, b, x, y, asked, ph)
    OBVIOUS
  <2>2. /\ (Has(z, "AUTH") <=> Has(y, "AUTH")) /\ (Has(z, "SUCCESS") <=> Has(y, "SUCCESS"))
        /\ (Has(w, "AUTH") <=> Has(x, "AUTH")) /\ (Has(w, "SUCCESS") <=> Has(x, "SUCCESS"))
    BY <1>3, <1>9
  <2>3. ~Has(x, "AUTH") /\ ~Has(y, "SUCCESS")
    BY <1>5, <2>1 DEF Login
  <2>4. \A i \in DOMAIN z : z[i].t # "SUCCESS"
    BY <2>2, <2>3 DEF Has
  <2>5. \A i \in DOMAIN w : w[i].t # "AUTH"
    BY <2>2, <2>3 DEF Has
  <2>6. ~b.auth => /\ (asked <=> Has(w, "AUTH"))
                   /\ Phases(d, b) \notin {<<"sent", "idle">>, <<"idle", "sent">>,
                                           <<"sent", "keyed">>, <<"keyed", "sent">>}
    BY <1>1, <1>4, <2>1, <2>2 DEF Login, Phases
  <2>7. d.auth = a.auth
    BY DEF Switches
  <2> QED  BY <1>1, <1>4, <1>5, <2>1, <2>2, <2>3, <2>4, <2>5, <2>6, <2>7 DEF Login
<1>14. SameId(d, b)
  <2>1. SameId(a, b) /\ b.session_id # NoKey /\ (a.initial <=> a.session_id = NoKey)
    BY <1>4 DEF Coherent
  <2>2. H # NoKey /\ d.session_id = IF a.initial THEN H ELSE a.session_id
    BY DEF Coherent, NoKey, Switches
  <2> HIDE DEF H
  <2> QED  BY <2>1, <2>2 DEF SameId, H
<1> QED
  <2>1. Joint(d, b, w, z, asked, ph)
    BY <1>1, <1>10, <1>11, <1>12, <1>13, <1>14 DEF Switches
  <2> QED  BY <2>1 DEF z, w

LEMMA KeyServerStep ==
  ASSUME NEW a \in State, NEW b \in State, NEW x \in Seq(Packet), NEW y \in Seq(Packet),
         NEW asked \in BOOLEAN, NEW ph, Joint(a, b, x, y, asked, ph),
         NEW d \in State, y # <<>>, a.server, PhaseOf(a) = "agreed", y[1].t = "INIT",
         Switches(a, d, <<b.my, a.my>>, 2),
         NEW r \in Packet, r.t = "REPLY", Seal(r) = <<a.keyOut, a.seqOut, a.compOut>>,
         r.body = <<b.my, a.my>>, NEW m \in Packet, m.t = "NEWKEYS",
         Seal(m) = <<a.keyOut, a.seqOut + 1, Advance(a.compOut)>>
  PROVE  Joint(d, b, Append(Append(x, r), m), Tail(y), asked, ph)
<1> DEFINE z == Tail(y)
           v == Append(x, r)
           w == Append(v, m)
           H == <<b.my, a.my>>
<1> USE DEF Joint, Half
<1>1. PhaseOf(d) = "keyed" /\ Coherent(d)
  <2>1. H # NoKey
    BY DEF Coherent, NoKey
  <2> QED  BY <2>1, KeyedCoherent
<1>2. /\ z \in Seq(Packet) /\ Len(z) = Len(y) - 1 /\ Len(y) \in Nat
      /\ \A i \in DOMAIN z : i \in Int /\ i + 1 \in DOMAIN y /\ z[i] = y[i + 1]
  BY TailFacts
<1>3. /\ Neat(z) /\ Has(y, "INIT") /\ ~Has(z, "INIT") /\ ~Has(y, "KEXINIT")
      /\ \A t : t # "INIT" => (Has(z, t) <=> Has(y, t))
  BY Popped DEF Exchange, KexTypes
<1>4. PhaseOf(b) = "agreed"
  BY <1>3 DEF Exchange, Phases
<1>5. ~(b.auth /\ ~a.auth) /\ ~(a.auth /\ ~b.auth)
  BY <1>4 DEF Login
<1>6. Chain(<<d.keyIn, d.seqIn, d.compIn>>, z, <<b.keyOut, b.seqOut, b.compOut>>, b.keyOut, Reset(b))
  <2>1. Seal(y[1]) = <<a.keyIn, a.seqIn, a.compIn>> /\
        Chain(NextSeal(y[1], b.keyOut, Reset(b)), z, <<b.keyOut, b.seqOut, b.compOut>>, b.keyOut, Reset(b))
    BY <1>5, ChainTail DEF Sealed
  <2>2. NextSeal(y[1], b.keyOut, Reset(b)) = <<d.keyIn, d.seqIn, d.compIn>>
    BY <2>1 DEF NextSeal, Seal, Switches
  <2> QED  BY <2>1, <2>2
<1>7. /\ Neat(x) /\ \A t \in KexTypes : ~Has(x, t)
  BY <1>4 DEF Exchange, Phases, KexTypes
<1>8. v \in Seq(Packet)
  OBVIOUS
<1>9. Chain(<<b.keyIn, b.seqIn, b.compIn>>, w, <<d.keyOut, d.seqOut, d.compOut>>, d.keyOut, Reset(a))
  <2>1. Chain(<<b.keyIn, b.seqIn, b.compIn>>, x, Seal(r), a.keyOut, Reset(a))
    BY <1>5 DEF Sealed
  <2>2. Chain(<<b.keyIn, b.seqIn, b.compIn>>, x, Seal(r), H, Reset(a))
    BY <1>7, <2>1, ChainKey DEF KexTypes
  <2>3. Chain(<<b.keyIn, b.seqIn, b.compIn>>, v, NextSeal(r, H, Reset(a)), H, Reset(a))
    BY <2>2, ChainAppend
  <2>4. NextSeal(r, H, Reset(a)) = Seal(m)
    BY DEF NextSeal, Seal
  <2> HIDE DEF v
  <2>5. Chain(<<b.keyIn, b.seqIn, b.compIn>>, w, NextSeal(m, H, Reset(a)), H, Reset(a))
    BY <1>8, <2>3, <2>4, ChainAppend
  <2>6. NextSeal(m, H, Reset(a)) = <<d.keyOut, d.seqOut, d.compOut>>
    <3>1. m.seq = a.seqOut + 1 /\ a.seqOut \in Nat
      BY DEF Seal, State
    <3> QED  BY <3>1 DEF NextSeal, Switches
  <2>7. d.keyOut = H
    BY DEF Switches
  <2> HIDE DEF w
  <2> QED  BY <2>5, <2>6, <2>7
<1>10. /\ Neat(w) /\ \A t : Has(w, t) <=> Has(x, t) \/ t = "REPLY" \/ t = "NEWKEYS"
       /\ \A i \in DOMAIN w : (i \in DOMAIN x /\ w[i] = x[i]) \/ w[i] \in {r, m}
  <2>1. \A t : Has(v, t) <=> Has(x, t) \/ t = "REPLY"
    BY HasAppend
  <2>2. Neat(v)
    BY <1>7, NeatAppend DEF KexTypes
  <2>3. \A i \in DOMAIN v : (i \in DOMAIN x /\ v[i] = x[i]) \/ v[i] = r
    OBVIOUS
  <2> HIDE DEF v
  <2>4. \A t : Has(w, t) <=> Has(v, t) \/ t = "NEWKEYS"
    BY <1>8, HasAppend
  <2>5. \A t \in KexTypes : Has(v, t) => Rank(t) < Rank("NEWKEYS")
    BY <1>7, <2>1 DEF Rank
  <2>6. Neat(w)
    BY <1>8, <2>2, <2>5, NeatAppend DEF KexTypes
  <2>7. \A i \in DOMAIN w : (i \in DOMAIN v /\ w[i] = v[i]) \/ w[i] = m
    BY <1>8
  <2> HIDE DEF w
  <2> QED  BY <2>1, <2>3, <2>4, <2>6, <2>7
<1> HIDE DEF z, w
<1>11. Exchange(d, b, w) /\ Exchange(b, d, z)
  <2>1. d.server = a.server
    BY DEF Switches
  <2>2. ~Has(w, "KEXINIT") /\ ~Has(w, "INIT") /\ Has(w, "REPLY") /\ Has(w, "NEWKEYS")
    BY <1>7, <1>10 DEF KexTypes
  <2>3. Exchange(d, b, w)
    BY <1>1, <1>4, <1>10, <2>1, <2>2 DEF Exchange, Phases
  <2>4. ~Has(z, "KEXINIT") /\ ~Has(z, "INIT") /\ ~Has(z, "NEWKEYS") /\ ~Has(z, "REPLY")
    BY <1>3, <1>4 DEF Exchange, Phases
  <2>5. Exchange(b, d, z)
    BY <1>1, <1>3, <1>4, <2>1, <2>4 DEF Exchange, Phases
  <2> QED  BY <2>3, <2>5
<1>12. Cookies(d, b, w) /\ Cookies(b, d, z)
  <2>1. \A i \in DOMAIN z : /\ z[i].t = "KEXINIT" => z[i].body = <<b.my>>
                            /\ z[i].t = "REPLY" => z[i].body = <<a.my, b.my>>
    BY <1>2 DEF Cookies
  <2>2. \A i \in DOMAIN w : /\ w[i].t = "KEXINIT" => w[i].body = <<a.my>>
                            /\ w[i].t = "REPLY" => w[i].body = <<b.my, a.my>>
    BY <1>10, ZenonT(60) DEF Cookies
  <2>3. d.newIn = H /\ d.keyOut = H /\ d.my = a.my
    BY DEF Switches
  <2>4. Cookies(b, d, z)
    BY <1>1, <1>4, <2>1, <2>3 DEF Cookies, Phases
  <2>5. Cookies(d, b, w)
    BY <1>1, <1>4, <2>2, <2>3 DEF Cookies, Phases
  <2> QED  BY <2>4, <2>5
<1>13. Sealed(d, b, w) /\ Sealed(b, d, z)
  <2>1. d.auth = a.auth
    BY DEF Switches
  <2> QED  BY <1>5, <1>6, <1>9, <2>1 DEF Sealed, Reset
<1>14. Login(b, d, z, w, asked, ph)
  <2>1. Login(b, a, y, x, asked, ph)
    OBVIOUS
  <2>2. /\ (Has(z, "AUTH") <=> Has(y, "AUTH")) /\ (Has(z, "SUCCESS") <=> Has(y, "SUCCESS"))
        /\ (Has(w, "AUTH") <=> Has(x, "AUTH")) /\ (Has(w, "SUCCESS") <=> Has(x, "SUCCESS"))
    BY <1>3, <1>10
  <2>3. ~Has(y, "AUTH") /\ ~Has(x, "SUCCESS") /\ ph # "handover"
    BY <1>4, <1>5, <2>1 DEF Login
  <2>4. \A i \in DOMAIN z : z[i].t # "AUTH"
    BY <2>2, <2>3 DEF Has
  <2>5. \A i \in DOMAIN w : w[i].t # "SUCCESS"
    BY <2>2, <2>3 DEF Has
  <2>6. ~a.auth => /\ (asked <=> Has(z, "AUTH"))
                   /\ Phases(b, d) \notin {<<"sent", "idle">>, <<"idle", "sent">>,
                                           <<"sent", "keyed">>, <<"keyed", "sent">>}
    BY <1>1, <1>4, <2>1, <2>2 DEF Login, Phases
  <2>7. d.auth = a.auth
    BY DEF Switches
  <2> QED  BY <1>1, <1>4, <1>5, <2>1, <2>2, <2>3, <2>4, <2>5, <2>6, <2>7 DEF Login
<1>15. SameId(b, d)
  <2>1. /\ SameId(b, a) /\ Phases(b, a) # <<"agreed", "keyed">>
        /\ (a.initial <=> a.session_id = NoKey)
    BY DEF Coherent, Phases
  <2>2. H # NoKey /\ (d.session_id = IF a.initial THEN H ELSE a.session_id) /\ d.my = a.my
    BY DEF Coherent, NoKey, Switches
  <2>3. Phases(b, d) = <<"agreed", "keyed">>
    BY <1>1, <1>4 DEF Phases
  <2> QED  BY <2>1, <2>2, <2>3 DEF SameId
<1> QED
  <2>1. Joint(d, b, w, z, asked, ph)
    BY <1>1, <1>11, <1>12, <1>13, <1>14, <1>15 DEF Switches
  <2> QED  BY <2>1 DEF z, w, v

\* everything that has to do with the exchange is left alone
SameExchange(a, d) ==
  /\ d.server = a.server /\ d.keyOut = a.keyOut /\ d.keyIn = a.keyIn
  /\ d.sent = a.sent /\ d.queue = a.queue /\ d.initial = a.initial /\ d.peer = a.peer
  /\ d.newIn = a.newIn \/ d.done
  /\ d.session_id = a.session_id /\ d.handles = a.handles
  /\ d.err = a.err /\ d.rekeying = a.rekeying /\ d.done = a.done
  /\ d.init_sent = a.init_sent /\ d.my = a.my

LEMMA SamePhase ==
  ASSUME NEW a \in State, NEW d \in State, SameExchange(a, d), Coherent(a),
         ~d.auth => d.compIn = 0 /\ d.compOut = 0 /\ d.queue = <<>>
  PROVE  PhaseOf(d) = PhaseOf(a) /\ Coherent(d)
<1>1. PhaseOf(d) = PhaseOf(a)
  BY DEF PhaseOf, SameExchange
<1>2. PhaseOf(d) = "keyed" => d.newIn = a.newIn
  BY DEF PhaseOf, SameExchange
<1> QED  BY <1>1, <1>2 DEF Coherent, SameExchange

\* the client a takes SUCCESS: from now on both directions are compressed
LEMMA SuccessStep ==
  ASSUME NEW a \in State, NEW b \in State, NEW x \in Seq(Packet), NEW y \in Seq(Packet),
         NEW asked \in BOOLEAN, NEW ph, Joint(a, b, x, y, asked, ph),
         NEW d \in State, y # <<>>, ~a.server, y[1].t = "SUCCESS", SameExchange(a, d),
         d.auth, d.compOut = 1, d.compIn = 1, d.seqIn = a.seqIn + 1, d.seqOut = a.seqOut
  PROVE  Joint(d, b, x, Tail(y), asked, ph)
<1> DEFINE z == Tail(y)
<1> USE DEF Joint, Half
<1>1. PhaseOf(d) = PhaseOf(a) /\ Coherent(d)
  BY SamePhase
<1>2. /\ z \in Seq(Packet) /\ Len(z) = Len(y) - 1 /\ Len(y) \in Nat
      /\ \A i \in DOMAIN z : i \in Int /\ i > 0 /\ i + 1 \in DOMAIN y /\ z[i] = y[i + 1]
  BY TailFacts
<1>3. Neat(z) /\ Has(y, "SUCCESS") /\ \A t : t # "SUCCESS" => (Has(z, t) <=> Has(y, t))
  BY Popped DEF Exchange
<1>4. Login(a, b, x, y, asked, ph) /\ SameId(a, b)
  OBVIOUS
<1>5. ~a.auth /\ b.auth /\ x = <<>> /\ ~Has(x, "AUTH")
  BY <1>3, <1>4 DEF Login
<1>6. \A i \in DOMAIN z : z[i].t # "SUCCESS"
  <2> SUFFICES ASSUME NEW i \in DOMAIN z, z[i].t = "SUCCESS" PROVE FALSE
    OBVIOUS
  <2>1. i \in Int /\ i > 0 /\ i + 1 \in DOMAIN y /\ y[i + 1].t = "SUCCESS" /\ 1 \in DOMAIN y
    BY <1>2
  <2>2. i + 1 = 1
    BY <2>1, <1>4 DEF Login
  <2> QED  BY <2>1, <2>2
<1>7. Chain(<<d.keyIn, d.seqIn, d.compIn>>, z, <<b.keyOut, b.seqOut, b.compOut>>, b.keyOut, Reset(b))
  <2>1. Seal(y[1]) = <<a.keyIn, a.seqIn, a.compIn>> /\
        Chain(NextSeal(y[1], b.keyOut, Reset(b)), z, <<b.keyOut, b.seqOut, b.compOut>>, b.keyOut, Reset(b))
    BY <1>5, ChainTail DEF Sealed
  <2>2. NextSeal(y[1], b.keyOut, Reset(b)) = <<d.keyIn, d.seqIn, d.compIn>>
    BY <2>1 DEF NextSeal, Seal, SameExchange
  <2> QED  BY <2>1, <2>2
<1>8. Chain(<<b.keyIn, b.seqIn, b.compIn>>, x, <<d.keyOut, d.seqOut, d.compOut>>, d.keyOut, Reset(d))
  <2>1. <<b.keyIn, b.seqIn, b.compIn>> = <<a.keyOut, a.seqOut, 1>>
    BY <1>5 DEF Sealed, Chain
  <2> QED  BY <1>5, <2>1 DEF Chain, SameExchange
<1> HIDE DEF z
<1>9. Exchange(d, b, x) /\ Exchange(b, d, z)
  <2>1. d.server = a.server
    BY DEF SameExchange
  <2>2. Exchange(d, b, x)
    BY <1>1, <2>1 DEF Exchange, Phases
  <2>3. /\ (Has(z, "KEXINIT") <=> Has(y, "KEXINIT")) /\ (Has(z, "INIT") <=> Has(y, "INIT"))
        /\ (Has(z, "NEWKEYS") <=> Has(y, "NEWKEYS")) /\ (Has(z, "REPLY") <=> Has(y, "REPLY"))
    BY <1>3
  <2>4. Exchange(b, d, z)
    BY <1>1, <1>3, <2>1, <2>3 DEF Exchange, Phases
  <2> QED  BY <2>2, <2>4
<1>10. Cookies(d, b, x) /\ Cookies(b, d, z)
  <2>1. \A i \in DOMAIN z : /\ z[i].t = "KEXINIT" => z[i].body = <<b.my>>
                            /\ z[i].t = "REPLY" => z[i].body = <<a.my, b.my>>
    BY <1>2 DEF Cookies
  <2>0. PhaseOf(d) = "keyed" => d.newIn = a.newIn
    BY DEF PhaseOf, SameExchange
  <2>2. Cookies(b, d, z)
    BY <1>1, <2>0, <2>1 DEF Cookies, Phases, SameExchange
  <2>3. Cookies(d, b, x)
    BY <1>1 DEF Cookies, Phases, SameExchange
  <2> QED  BY <2>2, <2>3
<1>11. Sealed(d, b, x) /\ Sealed(b, d, z)
  BY <1>5, <1>7, <1>8 DEF Sealed
<1>12. Login(d, b, x, z, asked, ph)
  <2>1. ~Has(z, "SUCCESS") /\ (Has(z, "AUTH") <=> Has(y, "AUTH"))
    BY <1>3, <1>6 DEF Has
  <2> QED  BY <1>1, <1>4, <1>5, <1>6, <2>1 DEF Login, Phases
<1>13. SameId(d, b)
  BY <1>1, <1>4 DEF SameId, Phases, SameExchange
<1> QED
  <2>1. Joint(d, b, x, z, asked, ph)
    BY <1>1, <1>9, <1>10, <1>11, <1>12, <1>13 DEF SameExchange
  <2> QED  BY <2>1 DEF z

\* the server a takes AUTH and answers with SUCCESS, the last packet that is not compressed
LEMMA AuthStep ==
  ASSUME NEW a \in State, NEW b \in State, NEW x \in Seq(Packet), NEW y \in Seq(Packet),
         NEW asked \in BOOLEAN, NEW ph, Joint(a, b, x, y, asked, ph),
         NEW d \in State, y # <<>>, a.server, y[1].t = "AUTH", SameExchange(a, d),
         d.auth, d.compOut = 1, d.compIn = 1, d.seqIn = a.seqIn + 1, d.seqOut = a.seqOut + 1,
         NEW m \in Packet, m.t = "SUCCESS", Seal(m) = <<a.keyOut, a.seqOut, a.compOut>>
  PROVE  Joint(d, b, Append(x, m), Tail(y), asked, "handover")
<1> DEFINE w == Append(x, m)
<1> USE DEF Joint, Half
<1>1. PhaseOf(d) = PhaseOf(a) /\ Coherent(d)
  BY SamePhase
<1>2. Login(b, a, y, x, asked, ph) /\ SameId(b, a)
  OBVIOUS
<1>3. Has(y, "AUTH") /\ 1 \in DOMAIN y
  BY DEF Has
<1>4. ~a.auth /\ ~b.auth /\ PhaseOf(b) = "idle" /\ asked /\ ~Has(x, "SUCCESS") /\ ~Has(x, "AUTH")
  BY <1>2, <1>3 DEF Login
<1>5. Len(y) = 1 /\ Tail(y) = <<>>
  <2>1. 1 = Len(y)
    BY <1>2, <1>3 DEF Login
  <2> QED  BY <2>1, TailFacts
<1>6. \A t : t # "AUTH" => ~Has(y, t)
  BY <1>5 DEF Has
<1>7. PhaseOf(a) = "idle"
  <2>1. PhaseOf(a) \in {"idle", "sent", "agreed", "keyed"}
    BY DEF PhaseOf
  <2>2. ~Has(y, "NEWKEYS")
    BY <1>6
  <2> QED  BY <1>2, <1>4, <2>1, <2>2 DEF Exchange, Phases, Login
<1>8. Chain(<<d.keyIn, d.seqIn, d.compIn>>, <<>>, <<b.keyOut, b.seqOut, 1>>, b.keyOut, Reset(b))
  <2>1. Seal(y[1]) = <<a.keyIn, a.seqIn, a.compIn>> /\
        Chain(NextSeal(y[1], b.keyOut, Reset(b)), <<>>, <<b.keyOut, b.seqOut, b.compOut>>, b.keyOut, Reset(b))
    BY <1>4, <1>5, ChainTail DEF Sealed
  <2>2. NextSeal(y[1], b.keyOut, Reset(b)) = <<a.keyIn, a.seqIn + 1, Advance(a.compIn)>>
    BY <2>1 DEF NextSeal, Seal
  <2>3. a.keyIn = b.keyOut /\ a.seqIn + 1 = b.seqOut
    BY <2>1, <2>2 DEF Chain
  <2> QED  BY <2>3 DEF Chain, SameExchange
<1>9. ~Has(x, "KEXINIT") /\ ~Has(x, "NEWKEYS") /\ ~Has(x, "REPLY") /\ ~Has(x, "INIT") /\ Neat(x)
  BY <1>4, <1>7 DEF Exchange, Phases
<1>10. Chain(<<b.keyIn, b.seqIn, b.compIn>>, w, <<d.keyOut, d.seqOut, d.compOut>>, d.keyOut, Reset(d))
  <2>1. Chain(<<b.keyIn, b.seqIn, b.compIn>>, x, Seal(m), a.keyOut, Reset(a))
    BY <1>4 DEF Sealed
  <2>2. Chain(<<b.keyIn, b.seqIn, b.compIn>>, x, Seal(m), d.keyOut, Reset(d))
    BY <1>9, <2>1, ChainKey
  <2>3. Chain(<<b.keyIn, b.seqIn, b.compIn>>, w, NextSeal(m, d.keyOut, Reset(d)), d.keyOut, Reset(d))
    BY <2>2, ChainAppend
  <2>4. NextSeal(m, d.keyOut, Reset(d)) = <<d.keyOut, d.seqOut, d.compOut>>
    BY DEF NextSeal, Seal, SameExchange
  <2> HIDE DEF w
  <2> QED  BY <2>3, <2>4
<1>11. /\ Neat(w) /\ \A t : Has(w, t) <=> Has(x, t) \/ t = "SUCCESS"
       /\ \A i \in DOMAIN w : (i \in DOMAIN x /\ w[i] = x[i]) \/ (i = Len(x) + 1 /\ w[i] = m)
  <2>1. \A t : Has(w, t) <=> Has(x, t) \/ m.t = t
    BY HasAppend
  <2>2. Neat(w)
    BY <1>9, NeatAppend DEF KexTypes
  <2> QED  BY <2>1, <2>2
<1> HIDE DEF w
<1>12. Exchange(d, b, w) /\ Exchange(b, d, <<>>)
  <2>1. d.server = a.server
    BY DEF SameExchange
  <2>2. Exchange(d, b, w)
    BY <1>1, <1>4, <1>7, <1>9, <1>11, <2>1 DEF Exchange, Phases
  <2>3. Neat(<<>>) /\ \A t : ~Has(<<>>, t)
    BY DEF Neat, Has
  <2>4. Exchange(b, d, <<>>)
    BY <1>1, <1>4, <1>7, <2>1, <2>3 DEF Exchange, Phases
  <2> QED  BY <2>2, <2>4
<1>13. Cookies(d, b, w) /\ Cookies(b, d, <<>>)
  <2>1. \A i \in DOMAIN w : w[i].t # "KEXINIT" /\ w[i].t # "REPLY"
    BY <1>9, <1>11 DEF Has
  <2>2. Cookies(d, b, w)
    BY <1>1, <1>4, <1>7, <2>1 DEF Cookies, Phases
  <2>3. Cookies(b, d, <<>>)
    BY <1>1, <1>4, <1>7 DEF Cookies, Phases
  <2> QED  BY <2>2, <2>3
<1>14. Sealed(d, b, w) /\ Sealed(b, d, <<>>)
  BY <1>4, <1>8, <1>10 DEF Sealed
<1>15. Login(b, d, <<>>, w, asked, "handover")
  <2>1. \A t : ~Has(<<>>, t)
    BY DEF Has
  <2>2. \A i, j \in DOMAIN w : w[i].t = "SUCCESS" /\ w[j].t = "SUCCESS" => i = j
    BY <1>4, <1>11 DEF Has
  <2>3. d.queue = <<>>
    BY <1>4 DEF Coherent, SameExchange
  <2> QED  BY <1>1, <1>4, <1>7, <1>11, <2>1, <2>2, <2>3 DEF Login
<1>16. SameId(b, d)
  BY <1>1, <1>2 DEF SameId, Phases, SameExchange
<1> QED
  <2>1. Joint(d, b, w, <<>>, asked, "handover")
    BY <1>1, <1>12, <1>13, <1>14, <1>15, <1>16 DEF SameExchange
  <2> QED  BY <2>1, <1>5 DEF w

\* the client a, whose first exchange is over, asks to log in
LEMMA AskStep ==
  ASSUME NEW a \in State, NEW b \in State, NEW x \in Seq(Packet), NEW y \in Seq(Packet),
         NEW ph, Joint(a, b, x, y, FALSE, ph),
         NEW d \in State, ~a.server, PhaseOf(a) = "idle", ~a.auth, SameExchange(a, d),
         d.auth = a.auth, d.compIn = a.compIn, d.seqIn = a.seqIn,
         d.seqOut = a.seqOut + 1, d.compOut = Advance(a.compOut),
         NEW m \in Packet, m.t = "AUTH", Seal(m) = <<a.keyOut, a.seqOut, a.compOut>>
  PROVE  Joint(d, b, Append(x, m), y, TRUE, ph)
<1> DEFINE w == Append(x, m)
<1> USE DEF Joint, Half
<1>1. PhaseOf(d) = "idle" /\ Coherent(d)
  <2>1. ~d.auth => d.compIn = 0 /\ d.compOut = 0 /\ d.queue = <<>>
    BY DEF Coherent, Advance, SameExchange
  <2> QED  BY <2>1, SamePhase
<1>2. Login(a, b, x, y, FALSE, ph) /\ SameId(a, b)
  OBVIOUS
<1>3. ~b.auth /\ ~Has(x, "AUTH")
  BY <1>2 DEF Login
<1>4. ~Has(x, "KEXINIT") /\ Neat(x)
  BY DEF Exchange, Phases
<1>5. Chain(<<b.keyIn, b.seqIn, b.compIn>>, w, <<d.keyOut, d.seqOut, d.compOut>>, d.keyOut, Reset(d))
  <2>1. Chain(<<b.keyIn, b.seqIn, b.compIn>>, x, Seal(m), d.keyOut, Reset(d))
    BY <1>3 DEF Sealed, Reset, SameExchange
  <2>2. Chain(<<b.keyIn, b.seqIn, b.compIn>>, w, NextSeal(m, d.keyOut, Reset(d)), d.keyOut, Reset(d))
    BY <2>1, ChainAppend
  <2>3. NextSeal(m, d.keyOut, Reset(d)) = <<d.keyOut, d.seqOut, d.compOut>>
    BY DEF NextSeal, Seal, SameExchange
  <2> HIDE DEF w
  <2> QED  BY <2>2, <2>3
<1>6. /\ Neat(w) /\ \A t : Has(w, t) <=> Has(x, t) \/ t = "AUTH"
      /\ Len(w) = Len(x) + 1
      /\ \A i \in DOMAIN w : (i \in DOMAIN x /\ w[i] = x[i]) \/ (i = Len(x) + 1 /\ w[i] = m)
  <2>1. \A t : Has(w, t) <=> Has(x, t) \/ m.t = t
    BY HasAppend
  <2>2. Neat(w)
    BY <1>4, NeatAppend DEF KexTypes
  <2> QED  BY <2>1, <2>2
<1> HIDE DEF w
<1>7. Exchange(d, b, w) /\ Exchange(b, d, y)
  <2>1. d.server = a.server
    BY DEF SameExchange
  <2>2. /\ (Has(w, "KEXINIT") <=> Has(x, "KEXINIT")) /\ (Has(w, "INIT") <=> Has(x, "INIT"))
        /\ (Has(w, "NEWKEYS") <=> Has(x, "NEWKEYS")) /\ (Has(w, "REPLY") <=> Has(x, "REPLY"))
    BY <1>6
  <2>3. Exchange(d, b, w)
    BY <1>1, <1>6, <2>1, <2>2 DEF Exchange, Phases
  <2>4. Exchange(b, d, y)
    BY <1>1, <2>1 DEF Exchange, Phases
  <2> QED  BY <2>3, <2>4
<1>8. Cookies(d, b, w) /\ Cookies(b, d, y)
  <2>1. \A i \in DOMAIN w : /\ w[i].t = "KEXINIT" => w[i].body = <<a.my>>
                            /\ w[i].t = "REPLY" => w[i].body = <<b.my, a.my>>
    BY <1>6 DEF Cookies
  <2>2. Cookies(d, b, w)
    BY <1>1, <2>1 DEF Cookies, Phases, SameExchange
  <2>3. Cookies(b, d, y)
    BY <1>1 DEF Cookies, Phases, SameExchange
  <2> QED  BY <2>2, <2>3
<1>9. Sealed(d, b, w) /\ Sealed(b, d, y)
  BY <1>3, <1>5 DEF Sealed, SameExchange
<1>10. Login(d, b, w, y, TRUE, ph)
  <2>1. Has(w, "AUTH") /\ (Has(w, "SUCCESS") <=> Has(x, "SUCCESS"))
    BY <1>6
  <2>2. \A i \in DOMAIN w : w[i].t = "AUTH" => i = Len(w)
    BY <1>3, <1>6 DEF Has
  <2>3. Phases(d, b) = Phases(a, b)
    BY <1>1 DEF Phases
  <2> QED  BY <1>1, <1>2, <1>3, <2>1, <2>2, <2>3 DEF Login
<1>11. SameId(d, b)
  BY <1>1, <1>2 DEF SameId, Phases, SameExchange
<1> QED
  <2>1. Joint(d, b, w, y, TRUE, ph)
    BY <1>1, <1>7, <1>8, <1>9, <1>10, <1>11 DEF SameExchange
  <2> QED  BY <2>1 DEF w

\* the server a goes on in another process
LEMMA HandoverStep ==
  ASSUME NEW a \in State, NEW b \in State, NEW x \in Seq(Packet), NEW y \in Seq(Packet),
         NEW asked \in BOOLEAN, Joint(a, b, x, y, asked, "handover"),
         NEW d \in State, a.server, SameExchange(a, d), d.auth = a.auth, d.compIn = a.compIn,
         d.compOut = a.compOut, d.seqIn = a.seqIn, d.seqOut = a.seqOut
  PROVE  Joint(d, b, x, y, asked, "postauth")
<1> USE DEF Joint, Half
<1>1. PhaseOf(d) = PhaseOf(a) /\ Coherent(d)
  <2>1. ~d.auth => d.compIn = 0 /\ d.compOut = 0 /\ d.queue = <<>>
    BY DEF Coherent, SameExchange
  <2> QED  BY <2>1, SamePhase
<1>2. Login(b, a, y, x, asked, "handover") /\ SameId(b, a)
  OBVIOUS
<1>3. Exchange(d, b, x) /\ Exchange(b, d, y)
  BY <1>1 DEF Exchange, Phases, SameExchange
<1>4. Cookies(d, b, x) /\ Cookies(b, d, y)
  <2>1. PhaseOf(d) = "keyed" => d.newIn = a.newIn
    BY DEF PhaseOf, SameExchange
  <2> QED  BY <1>1, <2>1 DEF Cookies, Phases, SameExchange
<1>5. Sealed(d, b, x) /\ Sealed(b, d, y)
  BY DEF Sealed, Reset, SameExchange
<1>6. Login(b, d, y, x, asked, "postauth")
  BY <1>1, <1>2 DEF Login, Phases
<1>7. SameId(b, d)
  BY <1>1, <1>2 DEF SameId, Phases, SameExchange
<1> QED  BY <1>1, <1>3, <1>4, <1>5, <1>6, <1>7 DEF SameExchange

-----------------------------------------------------------------------------
(* The operations of the model come to these micro steps.                   *)

\* a state with the packets q to be sent
Carrying(s, q) == [s EXCEPT !.sent = q]

LEMMA CarryingFacts ==
  ASSUME NEW s \in State, NEW q
  PROVE  LET c == Carrying(s, q) IN
         /\ c.sent = q /\ [c EXCEPT !.sent = <<>>] = s
         /\ c.server = s.server /\ c.auth = s.auth /\ c.keyOut = s.keyOut /\ c.keyIn = s.keyIn
         /\ c.compIn = s.compIn /\ c.seqIn = s.seqIn /\ c.usedIn = s.usedIn /\ c.queue = s.queue
         /\ c.initial = s.initial /\ c.peer = s.peer /\ c.newOut = s.newOut /\ c.newIn = s.newIn
         /\ c.session_id = s.session_id /\ c.handles = s.handles /\ c.err = s.err
         /\ c.rekeying = s.rekeying /\ c.done = s.done /\ c.init_sent = s.init_sent
         /\ c.usedOut = s.usedOut /\ c.my = s.my /\ c.seqOut = s.seqOut /\ c.compOut = s.compOut
BY DEF Carrying, State

LEMMA CarryingNothing ==
  ASSUME NEW s \in State
  PROVE  Carrying(s, <<>>) = s
BY DEF Carrying, State

LEMMA SentIn ==
  ASSUME NEW s \in State
  PROVE  Sent(s) \in State
<1>1. PICK n \in Nat, c \in Nat : n = s.seqOut + 1 /\ c = Advance(s.compOut)
  BY Counters, Zenon
<1>2. Sent(s) = [s EXCEPT !.seqOut = n, !.usedOut = TRUE, !.compOut = c]
  BY <1>1 DEF Sent
<1> QED  BY <1>2, ZenonT(60) DEF State

\* ssh_packet_send2_wrapped() for most packets
LEMMA SendFlat ==
  ASSUME NEW s \in State, NEW q, NEW t, NEW body, t \notin {"NEWKEYS", "SUCCESS"}
  PROVE  ssh_packet_send2_wrapped(Carrying(s, q), t, body)
           = Carrying(Sent(s), Append(q, Pkt(s, t, body)))
<1> DEFINE c == Carrying(s, q)
<1>1. PICK n \in Nat, k \in Nat : n = s.seqOut + 1 /\ k = Advance(s.compOut)
  BY Counters, Zenon
<1>2. PICK p : p = Pkt(s, t, body)
  OBVIOUS
<1>3. PICK v : v = Append(q, p)
  OBVIOUS
<1>4. c.sent = q /\ c.seqOut = s.seqOut /\ c.compOut = s.compOut /\ c.keyOut = s.keyOut
  BY CarryingFacts
<1> HIDE DEF c
<1>5. ssh_packet_send2_wrapped(c, t, body)
        = [c EXCEPT !.sent = v, !.seqOut = n, !.usedOut = TRUE, !.compOut = k]
  BY <1>1, <1>2, <1>3, <1>4 DEF ssh_packet_send2_wrapped, Pkt
<1>6. Sent(s) = [s EXCEPT !.seqOut = n, !.usedOut = TRUE, !.compOut = k]
  BY <1>1 DEF Sent
<1>7. [c EXCEPT !.sent = v, !.seqOut = n, !.usedOut = TRUE, !.compOut = k] = Carrying(Sent(s), v)
  BY <1>6 DEF c, Carrying, State
<1> QED  BY <1>2, <1>3, <1>5, <1>7 DEF c

\* kex_send_kexinit() and kex_start_rekex() of a peer without an exchange
LEMMA KexinitFlat ==
  ASSUME NEW s \in State, ~s.init_sent
  PROVE  /\ kex_send_kexinit(s) = Carrying(Rekeyed(s), <<Pkt(s, "KEXINIT", <<s.my + 1>>)>>)
         /\ s.done => kex_start_rekex(s) = kex_send_kexinit(s)
<1>1. PICK n \in Nat, k \in Nat, c \in Nat : n = s.seqOut + 1 /\ k = s.my + 1 /\ c = Advance(s.compOut)
  BY Counters, Zenon
<1>2. PICK m : m = Pkt(s, "KEXINIT", <<k>>)
  OBVIOUS
<1> DEFINE b == [s EXCEPT !.done = FALSE, !.my = k, !.rekeying = TRUE]
<1>3. b \in State /\ b.keyOut = s.keyOut /\ b.seqOut = s.seqOut /\ b.compOut = s.compOut
  BY DEF State
<1>4. kex_send_kexinit(s) = [ssh_packet_send2_wrapped(b, "KEXINIT", <<k>>) EXCEPT !.init_sent = TRUE]
  BY <1>1 DEF kex_send_kexinit
<1>5. Sent(b) = [b EXCEPT !.seqOut = n, !.usedOut = TRUE, !.compOut = c]
  <2> HIDE DEF b
  <2> QED  BY <1>1, <1>3 DEF Sent
<1>6. ssh_packet_send2_wrapped(b, "KEXINIT", <<k>>) = Carrying(Sent(b), <<m>>)
  <2> HIDE DEF b
  <2>1. Pkt(b, "KEXINIT", <<k>>) = m /\ Append(<<>>, m) = <<m>> /\ Carrying(b, <<>>) = b
    BY <1>2, <1>3, CarryingNothing DEF Pkt
  <2>2. PICK q : q = <<>>
    OBVIOUS
  <2>3. ssh_packet_send2_wrapped(Carrying(b, q), "KEXINIT", <<k>>)
          = Carrying(Sent(b), Append(q, Pkt(b, "KEXINIT", <<k>>)))
    BY <1>3, SendFlat
  <2> QED  BY <2>1, <2>2, <2>3
<1>7. Rekeyed(s) = [s EXCEPT !.done = FALSE, !.my = k, !.rekeying = TRUE, !.init_sent = TRUE,
                             !.seqOut = n, !.usedOut = TRUE, !.compOut = c]
  BY <1>1 DEF Rekeyed
<1>8. PICK q : q = <<m>>
  OBVIOUS
<1>9. [Carrying(Sent(b), q) EXCEPT !.init_sent = TRUE] = Carrying(Rekeyed(s), q)
  BY <1>5, <1>7, ZenonT(60) DEF Carrying, State
<1>10. s.done => kex_start_rekex(s) = kex_send_kexinit(s)
  <2> SUFFICES ASSUME s.done PROVE kex_start_rekex(s) = kex_send_kexinit(s)
    OBVIOUS
  <2> DEFINE e == [s EXCEPT !.done = FALSE]
  <2>1. kex_start_rekex(s) = kex_send_kexinit(e) /\ ~e.init_sent /\ e.my = s.my
    BY DEF kex_start_rekex, State
  <2>2. [e EXCEPT !.done = FALSE, !.my = k, !.rekeying = TRUE] = b
    BY DEF State
  <2>3. kex_send_kexinit(e) = [ssh_packet_send2_wrapped(b, "KEXINIT", <<k>>) EXCEPT !.init_sent = TRUE]
    <3> HIDE DEF e, b
    <3> QED  BY <1>1, <2>1, <2>2 DEF kex_send_kexinit
  <2> QED  BY <1>4, <2>1, <2>3
<1> QED  BY <1>1, <1>2, <1>4, <1>6, <1>8, <1>9, <1>10

\* a packet was read
LEMMA TakenFacts ==
  ASSUME NEW s \in State
  PROVE  Taken(s) \in State /\ Takes(s, Taken(s))
<1>1. PICK n \in Nat, c \in Nat : n = s.seqIn + 1 /\ c = Advance(s.compIn)
  BY DEF State, Advance
<1>2. Taken(s) = [s EXCEPT !.seqIn = n, !.usedIn = TRUE, !.compIn = c]
  BY <1>1 DEF Taken
<1>3. Taken(s) \in State
  BY <1>2, ZenonT(60) DEF State
<1> QED  BY <1>1, <1>2, <1>3 DEF Takes, State

\* compression begins
LEMMA EnabledFacts ==
  ASSUME NEW s \in State, s.keyOut # NoKey, s.keyIn # NoKey, s.compOut = 0, s.compIn = 0
  PROVE  LET e == ssh_packet_enable_delayed_compress(s) IN
         /\ e = [s EXCEPT !.auth = TRUE, !.compOut = 1, !.compIn = 1]
         /\ e \in State /\ SameExchange(s, e) /\ e.auth /\ e.compOut = 1 /\ e.compIn = 1
         /\ e.seqIn = s.seqIn /\ e.seqOut = s.seqOut
<1> DEFINE e == ssh_packet_enable_delayed_compress(s)
<1>1. PICK n \in Nat : n = 1
  OBVIOUS
<1>2. e = [s EXCEPT !.auth = TRUE, !.compOut = n, !.compIn = n]
  BY <1>1 DEF ssh_packet_enable_delayed_compress
<1> HIDE DEF e
<1>3. e \in State
  BY <1>2, ZenonT(60) DEF State
<1>4. SameExchange(s, e) /\ e.auth /\ e.compOut = n /\ e.compIn = n /\ e.seqIn = s.seqIn /\ e.seqOut = s.seqOut
  BY <1>2 DEF SameExchange, State
<1> QED  BY <1>1, <1>2, <1>3, <1>4 DEF e

\* kex_input_kexinit() of a peer whose KEXINIT is out
LEMMA AgreedFacts ==
  ASSUME NEW s \in State, NEW cookie \in Nat, s.handles = {"KEXINIT"}, s.init_sent, NEW q
  PROVE  LET w == Pkt(s, "INIT", <<>>) IN
         /\ Agreed(s, cookie) \in State
         /\ kex_input_kexinit(Carrying(s, q), cookie)
              = Carrying(Agreed(s, cookie), IF s.server THEN q ELSE Append(q, w))
<1> DEFINE c == Carrying(s, q)
           f == [s EXCEPT !.handles = {}, !.peer = cookie]
           e == [c EXCEPT !.handles = {}, !.peer = cookie]
<1>1. f \in State /\ e = Carrying(f, q) /\ e.init_sent
  BY DEF State, Carrying
<1>2. c.handles = {"KEXINIT"} /\ c.server = s.server
  BY CarryingFacts
<1>3. {"KEXINIT"} \ {"KEXINIT"} = {} /\ {} \cup {"INIT"} = {"INIT"} /\ {} \cup {"REPLY"} = {"REPLY"}
  OBVIOUS
<1>4. [c EXCEPT !.handles = c.handles \ {"KEXINIT"}, !.peer = cookie] = e
  <2> HIDE DEF c
  <2> QED  BY <1>2, <1>3
<1>5. kex_send_kexinit(e) = e
  <2> HIDE DEF e
  <2> QED  BY <1>1 DEF kex_send_kexinit
<1>6. PICK h \in SUBSET KexTypes, g \in SUBSET KexTypes : h = {"INIT"} /\ g = {"REPLY"}
  <2>1. {"INIT"} \in SUBSET KexTypes /\ {"REPLY"} \in SUBSET KexTypes
    BY DEF KexTypes
  <2> QED  BY <2>1
<1>7. CASE s.server
  <2>1. e.handles = {}
    BY DEF State, Carrying
  <2>2. kex_input_kexinit(c, cookie) = [e EXCEPT !.handles = h]
    <3> HIDE DEF c, e
    <3> QED  BY <1>2, <1>3, <1>4, <1>5, <1>6, <1>7, <2>1 DEF kex_input_kexinit
  <2>3. Agreed(s, cookie) = [s EXCEPT !.handles = h, !.peer = cookie]
    BY <1>6, <1>7 DEF Agreed
  <2>4. [e EXCEPT !.handles = h] = Carrying(Agreed(s, cookie), q)
    BY <2>3 DEF Carrying, State
  <2>5. Agreed(s, cookie) \in State
    BY <2>3, ZenonT(60) DEF State
  <2> QED  BY <1>7, <2>2, <2>4, <2>5
<1>8. CASE ~s.server
  <2>1. PICK v : v = Append(q, Pkt(s, "INIT", <<>>))
    OBVIOUS
  <2>2. PICK n \in Nat, k \in Nat : n = s.seqOut + 1 /\ k = Advance(s.compOut)
    BY DEF State, Advance
  <2>3. Sent(f) = [f EXCEPT !.seqOut = n, !.usedOut = TRUE, !.compOut = k]
    <3>1. f.seqOut = s.seqOut /\ f.compOut = s.compOut
      BY DEF State
    <3> HIDE DEF f
    <3> QED  BY <2>2, <3>1 DEF Sent
  <2>4. ssh_packet_send2_wrapped(e, "INIT", <<>>) = Carrying(Sent(f), v)
    <3>1. Pkt(f, "INIT", <<>>) = Pkt(s, "INIT", <<>>)
      BY DEF Pkt, State
    <3>2. PICK b : b = <<>>
      OBVIOUS
    <3> HIDE DEF f, e
    <3>3. ssh_packet_send2_wrapped(Carrying(f, q), "INIT", b) = Carrying(Sent(f), Append(q, Pkt(f, "INIT", b)))
      BY <1>1, SendFlat
    <3> QED  BY <1>1, <2>1, <3>1, <3>2, <3>3
  <2>5. [Carrying(Sent(f), v) EXCEPT !.handles = g]
          = Carrying([s EXCEPT !.seqOut = n, !.usedOut = TRUE, !.compOut = k, !.handles = g, !.peer = cookie], v)
    BY <2>3 DEF Carrying, State
  <2>6. Agreed(s, cookie) = [s EXCEPT !.seqOut = n, !.usedOut = TRUE, !.compOut = k, !.handles = g, !.peer = cookie]
    <3>1. Sent(s) = [s EXCEPT !.seqOut = n, !.usedOut = TRUE, !.compOut = k]
      BY <2>2 DEF Sent
    <3>2. Agreed(s, cookie) = [Sent(s) EXCEPT !.handles = g, !.peer = cookie]
      BY <1>6, <1>8 DEF Agreed
    <3> QED  BY <3>1, <3>2 DEF State
  <2>7. Agreed(s, cookie) \in State
    <3>1. PICK u \in State : u = Sent(s)
      BY SentIn
    <3>2. Agreed(s, cookie) = [u EXCEPT !.handles = g, !.peer = cookie]
      BY <1>6, <1>8, <3>1 DEF Agreed
    <3> QED  BY <3>2, ZenonT(60) DEF State
  <2>8. Carrying(Sent(f), v).handles = {}
    BY <2>3 DEF Carrying, State
  <2>9. kex_input_kexinit(c, cookie) = [Carrying(Sent(f), v) EXCEPT !.handles = g]
    <3> HIDE DEF c, e, f
    <3> QED  BY <1>2, <1>3, <1>4, <1>5, <1>6, <1>8, <2>4, <2>8 DEF kex_input_kexinit
  <2> HIDE DEF f
  <2> QED  BY <1>8, <2>1, <2>5, <2>6, <2>7, <2>9
<1> QED  BY <1>7, <1>8

\* what kex_input_kexinit() changes, for a peer that has read h; b is the peer before
LEMMA AgreedAgrees ==
  ASSUME NEW b \in State, NEW s \in State, Takes(b, s), NEW h \in Packet, h.body # <<>>
  PROVE  /\ h.body[1] \in Nat
         /\ Agrees(b, Agreed(s, h.body[1]), h, Pkt(s, "INIT", <<>>))
<1>1. h.body \in Seq(Nat)
  BY DEF Packet
<1>2. PICK c \in Nat : c = h.body[1]
  <2>1. 1 \in 1..Len(h.body)
    BY <1>1, EmptySeq, LenProperties
  <2> QED  BY <1>1, <2>1, ElementOfSeq
<1>3. PICK n \in Nat, k \in Nat : n = s.seqOut + 1 /\ k = Advance(s.compOut)
  <2>1. s.seqOut \in Nat /\ s.compOut \in Nat
    BY DEF State
  <2>2. s.seqOut + 1 \in Nat /\ Advance(s.compOut) \in Nat
    BY <2>1 DEF Advance
  <2> QED  BY <2>2
<1>4. Pkt(s, "INIT", <<>>).t = "INIT" /\ Seal(Pkt(s, "INIT", <<>>)) = <<s.keyOut, s.seqOut, s.compOut>>
  BY DEF Pkt, Seal
<1>5. CASE s.server
  <2>1. PICK e : e = [s EXCEPT !.handles = {"INIT"}, !.peer = c]
    OBVIOUS
  <2>2. /\ e.server = s.server /\ e.auth = s.auth /\ e.keyOut = s.keyOut /\ e.keyIn = s.keyIn
        /\ e.sent = s.sent /\ e.queue = s.queue /\ e.initial = s.initial /\ e.newIn = s.newIn
        /\ e.session_id = s.session_id /\ e.err = s.err /\ e.my = s.my
        /\ e.rekeying = s.rekeying /\ e.done = s.done /\ e.init_sent = s.init_sent
        /\ e.peer = c /\ e.handles = {"INIT"}
        /\ e.seqIn = s.seqIn /\ e.compIn = s.compIn /\ e.seqOut = s.seqOut /\ e.compOut = s.compOut
    BY <2>1 DEF State
  <2>3. Agrees(b, e, h, Pkt(s, "INIT", <<>>))
    BY <1>2, <1>5, <2>2 DEF Agrees, Takes
  <2> QED  BY <1>2, <1>5, <2>1, <2>3 DEF Agreed
<1>6. CASE ~s.server
  <2>1. Sent(s) = [s EXCEPT !.seqOut = n, !.usedOut = TRUE, !.compOut = k]
    BY <1>3 DEF Sent
  <2>2. PICK e : e = Agreed(s, c)
    OBVIOUS
  <2>3. e = [[s EXCEPT !.seqOut = n, !.usedOut = TRUE, !.compOut = k] EXCEPT !.handles = {"REPLY"}, !.peer = c]
    BY <1>6, <2>1, <2>2 DEF Agreed
  <2>4. /\ e.server = s.server /\ e.auth = s.auth /\ e.keyOut = s.keyOut /\ e.keyIn = s.keyIn
        /\ e.sent = s.sent /\ e.queue = s.queue /\ e.initial = s.initial /\ e.newIn = s.newIn
        /\ e.session_id = s.session_id /\ e.err = s.err /\ e.my = s.my
        /\ e.rekeying = s.rekeying /\ e.done = s.done /\ e.init_sent = s.init_sent
        /\ e.peer = c /\ e.handles = {"REPLY"}
        /\ e.seqIn = s.seqIn /\ e.compIn = s.compIn /\ e.seqOut = n /\ e.compOut = k
    BY <2>3 DEF State
  <2>5. Agrees(b, e, h, Pkt(s, "INIT", <<>>))
    BY <1>2, <1>3, <1>4, <1>6, <2>4 DEF Agrees, Takes
  <2> QED  BY <1>2, <2>2, <2>5
<1> QED  BY <1>5, <1>6

\* a rekeying that is asked for while a packet is read
LEMMA NeedFacts ==
  ASSUME NEW s \in State, NEW want \in BOOLEAN, ssh_packet_need_rekeying(s, want)
  PROVE  s.auth /\ s.done /\ ~s.rekeying
BY DEF ssh_packet_need_rekeying, ssh_packet_is_rekeying

\* ssh_packet_read_poll2() of a packet that is sealed as it should be
LEMMA PollFlat ==
  ASSUME NEW s \in State, NEW m \in Packet, NEW want \in BOOLEAN,
         Seal(m) = <<s.keyIn, s.seqIn, s.compIn>>,
         NEW e, e = IF m.t = "SUCCESS" /\ ~s.server THEN ssh_packet_enable_delayed_compress(Taken(s))
                    ELSE Taken(s)
  PROVE  ssh_packet_read_poll2(s, m, want)
           = IF ssh_packet_need_rekeying(e, want) THEN kex_start_rekex(e) ELSE e
<1>1. m.key = s.keyIn /\ m.seq = s.seqIn /\ m.comp = s.compIn
  BY DEF Seal
<1> QED  BY <1>1 DEF ssh_packet_read_poll2, Taken

\* the queue goes out: the packets, and the state after them
Run(s) == [i \in 1..Len(s.queue) |->
             [t |-> s.queue[i].t, body |-> s.queue[i].body, key |-> s.keyOut,
              seq |-> s.seqOut + i - 1, comp |-> Ahead(s.compOut, i - 1)]]
Flushed(s) == [s EXCEPT !.queue = <<>>, !.seqOut = @ + Len(s.queue),
                        !.usedOut = @ \/ Len(s.queue) > 0, !.compOut = Ahead(@, Len(s.queue))]

LEMMA FlushedFacts ==
  ASSUME NEW s \in State, s.auth \/ s.queue = <<>>, \A i \in DOMAIN s.queue : s.queue[i].t = "DATA"
  PROVE  Flushed(s) \in State /\ Run(s) \in Seq(Packet) /\ Speaks(s, Flushed(s), Run(s))
<1>1. PICK n \in Nat, k \in Nat, c \in Nat, u \in BOOLEAN :
        /\ n = Len(s.queue) /\ k = s.seqOut + n /\ c = Ahead(s.compOut, n)
        /\ u = (s.usedOut \/ Len(s.queue) > 0)
  <2>1. Len(s.queue) \in Nat /\ s.seqOut \in Nat /\ s.compOut \in Nat
    BY LenProperties DEF State
  <2>2. Ahead(s.compOut, Len(s.queue)) \in Nat /\ s.seqOut + Len(s.queue) \in Nat
    BY <2>1 DEF Ahead
  <2> QED  BY <2>1, <2>2
<1>2. PICK q : q = <<>>
  OBVIOUS
<1>3. Flushed(s) = [s EXCEPT !.queue = q, !.seqOut = k, !.usedOut = u, !.compOut = c]
  BY <1>1, <1>2 DEF Flushed
<1>4. q \in Seq([t : {"EXTINFO", "AUTH", "SUCCESS", "DATA"}, body : Seq(Nat)])
  BY <1>2
<1>5. Flushed(s) \in State
  BY <1>3, <1>4, ZenonT(60) DEF State
<1>6. ASSUME NEW i \in 1..n
      PROVE  /\ Run(s)[i] \in Packet /\ Run(s)[i].t \in Plain
             /\ Seal(Run(s)[i]) = <<s.keyOut, s.seqOut + i - 1, Ahead(s.compOut, i - 1)>>
  <2>1. s.queue \in Seq([t : {"EXTINFO", "AUTH", "SUCCESS", "DATA"}, body : Seq(Nat)])
    BY DEF State
  <2>2. s.queue[i] \in [t : {"EXTINFO", "AUTH", "SUCCESS", "DATA"}, body : Seq(Nat)]
    BY <1>1, <2>1, ElementOfSeq
  <2>3. s.queue[i].t = "DATA"
    BY <1>1, <2>1
  <2>4. PICK f \in Nat, g \in Nat : f = s.seqOut + i - 1 /\ g = Ahead(s.compOut, i - 1)
    <3>1. s.seqOut \in Nat /\ s.compOut \in Nat
      BY DEF State
    <3>2. s.seqOut + i - 1 \in Nat /\ Ahead(s.compOut, i - 1) \in Nat
      BY <3>1 DEF Ahead
    <3> QED  BY <3>2
  <2>5. Run(s)[i] = [t |-> s.queue[i].t, body |-> s.queue[i].body, key |-> s.keyOut, seq |-> f, comp |-> g]
    BY <1>1, <2>4 DEF Run
  <2>6. s.keyOut \in Keys
    BY DEF State
  <2> QED  BY <2>2, <2>3, <2>4, <2>5, <2>6 DEF Packet, Plain, Seal
<1>7. Run(s) \in Seq(Packet) /\ Len(Run(s)) = n /\ DOMAIN Run(s) = 1..n
  <2>1. DOMAIN Run(s) = 1..n
    BY <1>1 DEF Run
  <2>2. Run(s) \in [1..n -> Packet]
    BY <1>1, <1>6 DEF Run
  <2> QED  BY <2>1, <2>2, SeqDef
<1>8. Speaks(s, Flushed(s), Run(s))
  <2>1. PICK e : e = Flushed(s)
    OBVIOUS
  <2>2. /\ e.server = s.server /\ e.auth = s.auth /\ e.keyOut = s.keyOut /\ e.keyIn = s.keyIn
        /\ e.compIn = s.compIn /\ e.seqIn = s.seqIn /\ e.sent = s.sent
        /\ e.initial = s.initial /\ e.peer = s.peer /\ e.newIn = s.newIn
        /\ e.session_id = s.session_id /\ e.handles = s.handles /\ e.err = s.err
        /\ e.rekeying = s.rekeying /\ e.done = s.done /\ e.init_sent = s.init_sent /\ e.my = s.my
        /\ e.queue = q /\ e.seqOut = k /\ e.compOut = c
    BY <1>3, <2>1 DEF State
  <2>3. \A i \in DOMAIN e.queue : e.queue[i].t = "DATA"
    BY <1>2, <2>2
  <2>4. e.queue = <<>> /\ e.seqOut = s.seqOut + Len(Run(s)) /\ e.compOut = Ahead(s.compOut, Len(Run(s)))
    BY <1>1, <1>2, <1>7, <2>2
  <2>5. \A i \in DOMAIN Run(s) : /\ Run(s)[i].t \in Plain
                 /\ Seal(Run(s)[i]) = <<s.keyOut, s.seqOut + i - 1, Ahead(s.compOut, i - 1)>>
    BY <1>6, <1>7
  <2> QED  BY <2>1, <2>2, <2>3, <2>4, <2>5 DEF Speaks
<1> QED  BY <1>5, <1>7, <1>8

\* dequeue(), whatever the dispatch table and the packets sent before
LEMMA DequeueFlat ==
  ASSUME NEW s \in State, NEW v, NEW h
  PROVE  dequeue([Carrying(s, v) EXCEPT !.handles = h])
           = [Carrying(Flushed(s), v \o Run(s)) EXCEPT !.handles = h]
<1> DEFINE c == [Carrying(s, v) EXCEPT !.handles = h]
<1>1. /\ c.queue = s.queue /\ c.seqOut = s.seqOut /\ c.usedOut = s.usedOut /\ c.compOut = s.compOut
      /\ c.keyOut = s.keyOut /\ c.sent = v
  BY DEF Carrying, State
<1>2. PICK q, k, u, f, w : /\ q = <<>> /\ k = s.seqOut + Len(s.queue)
                           /\ u = (s.usedOut \/ Len(s.queue) > 0)
                           /\ f = Ahead(s.compOut, Len(s.queue)) /\ w = v \o Run(s)
  OBVIOUS
<1> HIDE DEF c
<1>3. [i \in 1..Len(c.queue) |->
               [t |-> c.queue[i].t, body |-> c.queue[i].body, key |-> c.keyOut,
                seq |-> c.seqOut + i - 1,
                comp |-> IF c.compOut = 0 THEN 0 ELSE c.compOut + i - 1]] = Run(s)
  <2>1. s.compOut \in Nat /\ Len(s.queue) \in Nat
    BY LenProperties DEF State
  <2>2. \A i \in 1..Len(s.queue) : s.compOut + i - 1 = s.compOut + (i - 1)
    BY <2>1
  <2>3. \A i \in 1..Len(s.queue) : (IF s.compOut = 0 THEN 0 ELSE s.compOut + i - 1) = Ahead(s.compOut, i - 1)
    BY <2>2 DEF Ahead
  <2> QED  BY <1>1, <2>3 DEF Run
<1>4. dequeue(c) = [c EXCEPT !.queue = q, !.seqOut = k, !.usedOut = u, !.compOut = f, !.sent = w]
  BY <1>1, <1>2, <1>3 DEF dequeue, Ahead
<1>5. Flushed(s) = [s EXCEPT !.queue = q, !.seqOut = k, !.usedOut = u, !.compOut = f]
  BY <1>2 DEF Flushed
<1>6. [c EXCEPT !.queue = q, !.seqOut = k, !.usedOut = u, !.compOut = f, !.sent = w]
        = [Carrying(Flushed(s), w) EXCEPT !.handles = h]
  BY <1>5 DEF c, Carrying, State
<1> QED  BY <1>2, <1>4, <1>6 DEF c

\* kex_derive_keys() and NEWKEYS, before the queue goes out
Keyed(s) == [s EXCEPT !.session_id = IF s.initial THEN Hash(s) ELSE @, !.newIn = Hash(s),
                      !.newOut = NoKey, !.keyOut = Hash(s), !.seqOut = @ + 1, !.usedOut = FALSE,
                      !.compOut = Reset(s), !.rekeying = FALSE, !.handles = {"NEWKEYS"}]

LEMMA KeyedFacts ==
  ASSUME NEW s \in State
  PROVE  LET k == Keyed(s) IN
         /\ k \in State
         /\ k.server = s.server /\ k.auth = s.auth /\ k.keyIn = s.keyIn /\ k.my = s.my
         /\ k.sent = s.sent /\ k.queue = s.queue /\ k.err = s.err /\ k.initial = s.initial
         /\ k.done = s.done /\ k.init_sent = s.init_sent /\ k.seqIn = s.seqIn /\ k.compIn = s.compIn
         /\ k.session_id = IF s.initial THEN Hash(s) ELSE s.session_id
         /\ k.rekeying = FALSE /\ k.handles = {"NEWKEYS"} /\ k.newIn = Hash(s) /\ k.keyOut = Hash(s)
         /\ k.compOut = Reset(s) /\ k.seqOut = s.seqOut + 1
<1>1. s.seqOut + 1 \in Nat /\ Reset(s) \in Nat /\ Hash(s) \in Keys /\ NoKey \in Keys
      /\ s.session_id \in Keys /\ {"NEWKEYS"} \in SUBSET KexTypes
  <2>1. s.seqOut \in Nat /\ s.my \in Nat /\ s.peer \in Nat /\ s.session_id \in Keys
    BY DEF State
  <2>2. s.seqOut + 1 \in Nat /\ Reset(s) \in Nat
    BY <2>1 DEF Reset
  <2>3. Hash(s) \in Keys /\ NoKey \in Keys
    BY <2>1 DEF Hash, NoKey, Keys
  <2>4. {"NEWKEYS"} \in SUBSET KexTypes
    BY DEF KexTypes
  <2> QED  BY <2>1, <2>2, <2>3, <2>4
<1>2. PICK n \in Nat, z \in Nat, H \in Keys, o \in Keys, i \in Keys, h \in SUBSET KexTypes :
        /\ n = s.seqOut + 1 /\ z = Reset(s) /\ H = Hash(s) /\ o = NoKey /\ h = {"NEWKEYS"}
        /\ i = IF s.initial THEN Hash(s) ELSE s.session_id
  BY <1>1
<1>3. PICK r : r = [s EXCEPT !.session_id = i, !.newIn = H, !.newOut = o, !.keyOut = H]
  OBVIOUS
<1>4. PICK k : k = [r EXCEPT !.seqOut = n, !.usedOut = FALSE, !.compOut = z, !.rekeying = FALSE, !.handles = h]
  OBVIOUS
<1>5. r \in State
  BY <1>3 DEF State
<1>6. k \in State
  BY <1>4, <1>5, ZenonT(60) DEF State
<1>7. Keyed(s) = [s EXCEPT !.session_id = i, !.newIn = H, !.newOut = o, !.keyOut = H, !.seqOut = n,
                  !.usedOut = FALSE, !.compOut = z, !.rekeying = FALSE, !.handles = h]
  BY <1>2 DEF Keyed
<1>8. Keyed(s) = k
  BY <1>3, <1>4, <1>7 DEF State
<1>9. /\ r.server = s.server /\ r.auth = s.auth /\ r.keyIn = s.keyIn /\ r.my = s.my
      /\ r.sent = s.sent /\ r.queue = s.queue /\ r.err = s.err /\ r.initial = s.initial
      /\ r.done = s.done /\ r.init_sent = s.init_sent /\ r.seqIn = s.seqIn /\ r.compIn = s.compIn
      /\ r.session_id = i /\ r.newIn = H /\ r.keyOut = H
  BY <1>3 DEF State
<1>10. /\ k.server = r.server /\ k.auth = r.auth /\ k.keyIn = r.keyIn /\ k.my = r.my
       /\ k.sent = r.sent /\ k.queue = r.queue /\ k.err = r.err /\ k.initial = r.initial
       /\ k.done = r.done /\ k.init_sent = r.init_sent /\ k.seqIn = r.seqIn /\ k.compIn = r.compIn
       /\ k.session_id = r.session_id /\ k.newIn = r.newIn /\ k.keyOut = r.keyOut
       /\ k.rekeying = FALSE /\ k.handles = h /\ k.compOut = z /\ k.seqOut = n
  BY <1>4, <1>5 DEF State
<1> QED  BY <1>2, <1>6, <1>8, <1>9, <1>10

\* kex_derive_keys() and send2_newkeys() with the handlers gone
LEMMA NewkeysFlat ==
  ASSUME NEW s \in State, NEW q, NEW want \in BOOLEAN, ~s.done, s.initial <=> s.session_id = NoKey,
         Hash(s) # NoKey
  PROVE  LET k == Keyed(s)
             v == Append(q, Pkt(s, "NEWKEYS", <<>>))
         IN send2_newkeys([kex_derive_keys(Carrying(s, q)) EXCEPT !.handles = {}], want)
              = [Carrying(Flushed(k), v \o Run(k)) EXCEPT !.handles = {}]
<1> DEFINE c == Carrying(s, q)
           k == Keyed(s)
<1>1. /\ c.sent = q /\ c.seqOut = s.seqOut /\ c.compOut = s.compOut /\ c.keyOut = s.keyOut
      /\ c.initial = s.initial /\ c.session_id = s.session_id /\ c.auth = s.auth
      /\ c.server = s.server /\ c.my = s.my /\ c.peer = s.peer /\ c.queue = s.queue
  BY CarryingFacts
<1>2. Hash(c) = Hash(s)
  BY <1>1 DEF Hash
<1>3. PICK n, z, H, o, i, h, g, e, v, p :
        /\ n = s.seqOut + 1 /\ z = Reset(s) /\ H = Hash(s) /\ o = NoKey /\ h = {"NEWKEYS"} /\ g = {}
        /\ i = (IF s.initial THEN Hash(s) ELSE s.session_id) /\ e = Advance(s.compOut)
        /\ p = Pkt(s, "NEWKEYS", <<>>) /\ v = Append(q, p)
  OBVIOUS
<1> DEFINE c1 == [c EXCEPT !.session_id = i, !.newOut = H, !.newIn = H]
           c2 == [c1 EXCEPT !.handles = g]
           c3 == [c2 EXCEPT !.sent = v, !.seqOut = n, !.usedOut = TRUE, !.compOut = e]
           c4 == [c3 EXCEPT !.keyOut = H, !.newOut = o, !.usedOut = FALSE, !.compOut = z]
           c5 == [c4 EXCEPT !.rekeying = FALSE]
<1>4. kex_derive_keys(c) = c1
  <2>1. ~(c.initial = (c.session_id # NoKey))
    <3>1. CASE s.initial
      BY <1>1, <3>1
    <3>2. CASE ~s.initial
      BY <1>1, <3>2 DEF State
    <3> QED  BY <3>1, <3>2
  <2> HIDE DEF c
  <2> QED  BY <1>1, <1>2, <1>3, <2>1 DEF kex_derive_keys
<1>5. [kex_derive_keys(c) EXCEPT !.handles = {}] = c2
  BY <1>3, <1>4
<1>6. /\ c2.sent = q /\ c2.seqOut = s.seqOut /\ c2.compOut = s.compOut /\ c2.keyOut = s.keyOut
      /\ c2.newOut = H /\ c2.auth = s.auth /\ c2.server = s.server
  BY DEF State, Carrying
<1>7. c3.newOut = H /\ c3.auth = s.auth
  BY DEF State, Carrying
<1>8. c5.done = s.done
  BY DEF State, Carrying
<1>9. c5 = [Carrying(k, v) EXCEPT !.handles = g]
  <2>1. k = [s EXCEPT !.session_id = i, !.newIn = H, !.newOut = o, !.keyOut = H, !.seqOut = n,
                  !.usedOut = FALSE, !.compOut = z, !.rekeying = FALSE, !.handles = h]
    BY <1>3 DEF Keyed
  <2> HIDE DEF k
  <2> QED  BY <2>1, ZenonT(60) DEF State, Carrying
<1>10. ssh_packet_send2_wrapped(c2, "NEWKEYS", <<>>) = ssh_set_newkeys_out(c3)
  <2> HIDE DEF c2
  <2> QED  BY <1>3, <1>6 DEF ssh_packet_send2_wrapped, Pkt
<1>11. ssh_set_newkeys_out(c3) = c4
  <2> HIDE DEF c3
  <2> QED  BY <1>3, <1>7 DEF ssh_set_newkeys_out, Reset
<1>12. ~ssh_packet_need_rekeying(c5, want)
  <2> HIDE DEF c5
  <2> QED  BY <1>8 DEF ssh_packet_need_rekeying, ssh_packet_is_rekeying
<1>13. send2_newkeys(c2, want) = dequeue(c5)
  <2> HIDE DEF c2, c3
  <2>1. [ssh_packet_send2_wrapped(c2, "NEWKEYS", <<>>) EXCEPT !.rekeying = FALSE] = c5
    BY <1>10, <1>11
  <2> HIDE DEF c5
  <2> QED  BY <1>12, <2>1 DEF send2_newkeys
<1>14. k \in State
  BY KeyedFacts
<1> HIDE DEF c, c2, c5, k
<1>15. dequeue([Carrying(k, v) EXCEPT !.handles = g]) = [Carrying(Flushed(k), v \o Run(k)) EXCEPT !.handles = g]
  BY <1>14, DequeueFlat
<1> QED  BY <1>3, <1>5, <1>9, <1>13, <1>15 DEF c, k

\* the state and the packets after kex_derive_keys() and kex_send_newkeys()
Started(s) == IF s.server /\ s.initial THEN Sent(Flushed(Keyed(s))) ELSE Flushed(Keyed(s))
Extra(s) == LET f == Flushed(Keyed(s)) IN
            IF s.server /\ s.initial THEN <<Pkt(f, "EXTINFO", <<>>)>> ELSE <<>>

LEMMA StartedFlat ==
  ASSUME NEW s \in State, NEW q \in Seq(Packet), NEW want \in BOOLEAN, ~s.done,
         s.initial <=> s.session_id = NoKey, Hash(s) # NoKey, s.auth \/ s.queue = <<>>,
         \A i \in DOMAIN s.queue : s.queue[i].t = "DATA"
  PROVE  /\ Started(s) \in State /\ Extra(s) \in Seq(Packet)
         /\ Pkt(s, "NEWKEYS", <<>>) \in Packet /\ Run(Keyed(s)) \in Seq(Packet)
         /\ kex_send_newkeys(kex_derive_keys(Carrying(s, q)), want)
              = Carrying(Started(s), ((Append(q, Pkt(s, "NEWKEYS", <<>>)) \o Run(Keyed(s))) \o Extra(s)))
<1> DEFINE c == kex_derive_keys(Carrying(s, q))
           k == Keyed(s)
           f == Flushed(k)
           w == Append(q, Pkt(s, "NEWKEYS", <<>>)) \o Run(k)
           d == [send2_newkeys([c EXCEPT !.handles = {}], want) EXCEPT !.handles = {"NEWKEYS"}]
<1>1. /\ k \in State /\ k.auth = s.auth /\ k.queue = s.queue /\ k.done = s.done /\ ~k.rekeying
      /\ k.handles = {"NEWKEYS"} /\ k.server = s.server
  BY KeyedFacts
<1> HIDE DEF k
<1>2. f \in State /\ Run(k) \in Seq(Packet) /\ Speaks(k, f, Run(k))
  BY <1>1, FlushedFacts
<1>3. f.done = s.done /\ ~f.rekeying /\ f.handles = {"NEWKEYS"} /\ f.server = s.server
  BY <1>1, <1>2 DEF Speaks
<1>4. <<>> \in Seq(Nat) /\ Pkt(s, "NEWKEYS", <<>>) \in Packet
  <2>1. <<>> \in Seq(Nat)
    OBVIOUS
  <2>2. "NEWKEYS" \in KexTypes
    BY DEF KexTypes
  <2> QED  BY <2>1, <2>2, PktIn
<1>5. send2_newkeys([c EXCEPT !.handles = {}], want) = [Carrying(f, w) EXCEPT !.handles = {}]
  BY NewkeysFlat DEF k
<1> HIDE DEF f, w
<1>6. d = Carrying(f, w)
  <2>1. PICK h, g : h = {"NEWKEYS"} /\ g = {}
    OBVIOUS
  <2>2. [[Carrying(f, w) EXCEPT !.handles = g] EXCEPT !.handles = h] = Carrying(f, w)
    BY <1>2, <1>3, <2>1 DEF Carrying, State
  <2> HIDE DEF c
  <2> QED  BY <1>5, <2>1, <2>2
<1>7. c.server = s.server /\ c.initial = s.initial
  <2>1. PICK e : e = Carrying(s, q)
    OBVIOUS
  <2>2. PICK H, i : H = Hash(e) /\ i = IF e.initial THEN Hash(e) ELSE e.session_id
    OBVIOUS
  <2>3. e.initial = s.initial /\ e.session_id = s.session_id
    BY <2>1, CarryingFacts
  <2>4. ~(e.initial = (e.session_id # NoKey))
    <3>1. CASE s.initial
      BY <2>3, <3>1
    <3>2. CASE ~s.initial
      BY <2>3, <3>2 DEF State
    <3> QED  BY <3>1, <3>2
  <2>5. c = [e EXCEPT !.session_id = i, !.newOut = H, !.newIn = H]
    BY <2>1, <2>2, <2>4 DEF kex_derive_keys
  <2> HIDE DEF c
  <2> QED  BY <2>1, <2>5 DEF Carrying, State
<1>8. kex_send_newkeys(c, want) = IF s.server /\ s.initial THEN ssh_packet_send2(d, "EXTINFO", <<>>, want) ELSE d
  <2> HIDE DEF c
  <2> QED  BY <1>7 DEF kex_send_newkeys
<1> HIDE DEF d, c
<1>9. w \in Seq(Packet)
  <2>1. Append(q, Pkt(s, "NEWKEYS", <<>>)) \in Seq(Packet)
    BY <1>4
  <2> QED  BY <1>2, <2>1 DEF w
<1>10. CASE s.server /\ s.initial
  <2>1. PICK b : b = <<>>
    OBVIOUS
  <2>2. d.done = s.done /\ ~d.rekeying
    BY <1>2, <1>3, <1>6, CarryingFacts
  <2>3. ~ssh_packet_need_rekeying(d, want)
    BY <2>2 DEF ssh_packet_need_rekeying, ssh_packet_is_rekeying
  <2>4. ssh_packet_send2(d, "EXTINFO", b, want) = ssh_packet_send2_wrapped(d, "EXTINFO", b)
    BY <2>2, <2>3 DEF ssh_packet_send2
  <2>5. ssh_packet_send2_wrapped(d, "EXTINFO", b) = Carrying(Sent(f), Append(w, Pkt(f, "EXTINFO", b)))
    BY <1>2, <1>6, SendFlat
  <2>6. Pkt(f, "EXTINFO", b) \in Packet /\ Sent(f) \in State
    BY <1>2, <1>4, <2>1, PktIn, SentIn
  <2>7. PICK m \in Packet : m = Pkt(f, "EXTINFO", b)
    BY <2>6
  <2>8. Append(w, m) = w \o <<m>> /\ <<m>> \in Seq(Packet)
    BY <1>9
  <2>9. Started(s) = Sent(f) /\ Extra(s) = <<m>>
    BY <1>10, <2>1, <2>7 DEF Started, Extra, f, k
  <2> QED  BY <1>2, <1>4, <1>8, <1>10, <2>1, <2>4, <2>5, <2>6, <2>7, <2>8, <2>9 DEF w, c, k
<1>11. CASE ~(s.server /\ s.initial)
  <2>1. Started(s) = f /\ Extra(s) = <<>>
    BY <1>11 DEF Started, Extra, f, k
  <2>2. w \o <<>> = w /\ <<>> \in Seq(Packet)
    BY <1>9
  <2> QED  BY <1>2, <1>4, <1>6, <1>8, <1>11, <2>1, <2>2 DEF w, c, k
<1> QED  BY <1>10, <1>11

\* kex_input_newkeys(): a is the peer before NEWKEYS was read
LEMMA FinishedFacts ==
  ASSUME NEW a \in State, NEW s \in State, Takes(a, s), s.handles = {"NEWKEYS"}, s.newIn # NoKey
  PROVE  LET e == kex_input_newkeys(s) IN e \in State /\ Finishes(a, e)
<1>1. Reset(s) \in Nat /\ NoKey \in Keys /\ {"KEXINIT"} \in SUBSET KexTypes /\ s.newIn \in Keys
      /\ ({"NEWKEYS"} \ {"NEWKEYS"}) \cup {"KEXINIT"} = {"KEXINIT"} /\ 0 \in Nat
  BY DEF Reset, NoKey, Keys, KexTypes, State
<1>2. PICK z \in Nat, o \in Keys, n \in Keys, h \in SUBSET KexTypes, v \in Nat :
        z = Reset(s) /\ o = NoKey /\ n = s.newIn /\ h = {"KEXINIT"} /\ v = 0
  BY <1>1
<1>3. PICK b : b = [s EXCEPT !.handles = h]
  OBVIOUS
<1>4. b \in State /\ b.newIn = n /\ b.auth = s.auth
  BY <1>2, <1>3 DEF State
<1>5. PICK c : c = [b EXCEPT !.keyIn = n, !.newIn = o, !.usedIn = FALSE, !.compIn = z]
  OBVIOUS
<1>6. c \in State
  BY <1>4, <1>5, ZenonT(60) DEF State
<1>7. PICK e : e = [c EXCEPT !.done = TRUE, !.initial = FALSE, !.init_sent = FALSE, !.peer = v]
  OBVIOUS
<1>8. e \in State
  BY <1>6, <1>7, ZenonT(60) DEF State
<1>9. [s EXCEPT !.handles = (s.handles \ {"NEWKEYS"}) \cup {"KEXINIT"}] = b
  BY <1>1, <1>2, <1>3
<1>10. ssh_set_newkeys_in(b) = c
  BY <1>2, <1>4, <1>5 DEF ssh_set_newkeys_in, Reset
<1>11. kex_input_newkeys(s) = e
  BY <1>2, <1>7, <1>9, <1>10 DEF kex_input_newkeys
<1>12. /\ b.server = s.server /\ b.auth = s.auth /\ b.keyOut = s.keyOut /\ b.my = s.my
       /\ b.sent = s.sent /\ b.queue = s.queue /\ b.session_id = s.session_id /\ b.err = s.err
       /\ b.compOut = s.compOut /\ b.seqOut = s.seqOut /\ b.rekeying = s.rekeying
       /\ b.handles = h /\ b.seqIn = s.seqIn
  BY <1>3 DEF State
<1>13. /\ c.server = s.server /\ c.auth = s.auth /\ c.keyOut = s.keyOut /\ c.my = s.my
       /\ c.sent = s.sent /\ c.queue = s.queue /\ c.session_id = s.session_id /\ c.err = s.err
       /\ c.compOut = s.compOut /\ c.seqOut = s.seqOut /\ c.rekeying = s.rekeying
       /\ c.handles = h /\ c.seqIn = s.seqIn /\ c.keyIn = n /\ c.compIn = z
  BY <1>4, <1>5, <1>12 DEF State
<1>14. /\ e.server = s.server /\ e.auth = s.auth /\ e.keyOut = s.keyOut /\ e.my = s.my
       /\ e.sent = s.sent /\ e.queue = s.queue /\ e.session_id = s.session_id /\ e.err = s.err
       /\ e.compOut = s.compOut /\ e.seqOut = s.seqOut /\ e.rekeying = s.rekeying
       /\ e.handles = h /\ e.seqIn = s.seqIn /\ e.keyIn = n /\ e.compIn = z
       /\ e.done = TRUE /\ e.init_sent = FALSE /\ e.initial = FALSE
  BY <1>6, <1>7, <1>13 DEF State
<1>15. Finishes(a, e)
  BY <1>2, <1>14 DEF Finishes, Takes, Reset
<1> QED  BY <1>8, <1>11, <1>15

\* ssh_packet_set_state(): the new process goes on where the old one was
LEMMA SetStateFacts ==
  ASSUME NEW s \in State, Coherent(s), s.server, s.auth, PhaseOf(s) = "idle", s.queue = <<>>,
         s.compIn = 1, s.compOut = 1
  PROVE  LET d == ssh_packet_set_state(s) IN
         /\ d \in State /\ SameExchange(s, d) /\ d.auth = s.auth /\ d.compIn = s.compIn
         /\ d.compOut = s.compOut /\ d.seqIn = s.seqIn /\ d.seqOut = s.seqOut
<1>1. /\ s.done /\ ~s.rekeying /\ ~s.init_sent /\ ~s.initial /\ s.handles = {"KEXINIT"}
      /\ s.err = "none" /\ s.sent = <<>> /\ s.keyIn # NoKey /\ s.keyOut # NoKey
  BY DEF Coherent, PhaseOf
<1>2. NoKey \in Keys /\ {"KEXINIT"} \in SUBSET KexTypes /\ 0 \in Nat /\ 1 \in Nat
      /\ <<>> \in Seq([t : {"EXTINFO", "AUTH", "SUCCESS", "DATA"}, body : Seq(Nat)])
  BY DEF NoKey, Keys, KexTypes
<1>3. PICK o \in Keys, h \in SUBSET KexTypes, z \in Nat, n \in Nat,
           q \in Seq([t : {"EXTINFO", "AUTH", "SUCCESS", "DATA"}, body : Seq(Nat)]) :
        o = NoKey /\ h = {"KEXINIT"} /\ z = 0 /\ n = 1 /\ q = <<>>
  BY <1>2
<1>4. PICK r : r = ssh_alloc_session_state(TRUE)
  OBVIOUS
<1>5. r \in State /\ r.err = "none" /\ ~r.auth /\ r.sent = q /\ r.queue = q /\ r.handles = h
      /\ r.server /\ r.compOut = z /\ r.compIn = z
  BY <1>2, <1>3, <1>4 DEF ssh_alloc_session_state, State
<1>6. PICK u : u = [r EXCEPT !.my = s.my, !.peer = s.peer, !.session_id = s.session_id,
                             !.initial = FALSE, !.init_sent = FALSE]
  OBVIOUS
<1>7. u \in State /\ u.err = "none" /\ ~u.auth /\ u.sent = q /\ u.queue = q /\ u.handles = h
      /\ u.server /\ u.compOut = z /\ u.compIn = z /\ u.my = s.my /\ u.peer = s.peer
      /\ u.session_id = s.session_id /\ u.initial = FALSE /\ u.init_sent = FALSE
  <2>1. u \in State
    <3>1. PICK g : g = [r EXCEPT !.my = s.my, !.peer = s.peer, !.session_id = s.session_id]
      OBVIOUS
    <3>2. g \in State
      BY <1>5, <3>1, ZenonT(60) DEF State
    <3>3. u = [g EXCEPT !.initial = FALSE, !.init_sent = FALSE]
      BY <1>5, <1>6, <3>1 DEF State
    <3> QED  BY <3>2, <3>3, ZenonT(60) DEF State
  <2>2. /\ u.err = r.err /\ u.auth = r.auth /\ u.sent = r.sent /\ u.queue = r.queue
        /\ u.handles = r.handles /\ u.server = r.server /\ u.compOut = r.compOut /\ u.compIn = r.compIn
    BY <1>5, <1>6 DEF State
  <2>3. u.my = s.my /\ u.peer = s.peer /\ u.session_id = s.session_id /\ u.initial = FALSE /\ u.init_sent = FALSE
    BY <1>5, <1>6 DEF State
  <2> QED  BY <1>5, <2>1, <2>2, <2>3
<1>8. PICK k : k = [u EXCEPT !.done = TRUE, !.newOut = s.keyOut, !.newIn = s.keyIn,
                             !.seqOut = s.seqOut, !.seqIn = s.seqIn]
  OBVIOUS
<1>9. k \in State /\ k.err = "none" /\ ~k.auth /\ k.sent = q /\ k.queue = q /\ k.handles = h
      /\ k.server /\ k.compOut = z /\ k.compIn = z /\ k.my = s.my /\ k.peer = s.peer
      /\ k.session_id = s.session_id /\ k.initial = FALSE /\ k.init_sent = FALSE
      /\ k.done /\ k.newOut = s.keyOut /\ k.newIn = s.keyIn /\ k.seqOut = s.seqOut /\ k.seqIn = s.seqIn
  BY <1>7, <1>8, ZenonT(60) DEF State
<1>10. [ssh_alloc_session_state(TRUE) EXCEPT
              !.my = s.my, !.peer = s.peer, !.session_id = s.session_id,
              !.initial = s.initial, !.init_sent = s.init_sent, !.done = TRUE,
              !.newOut = s.keyOut, !.newIn = s.keyIn, !.seqOut = s.seqOut, !.seqIn = s.seqIn] = k
  <2>1. s.initial = FALSE /\ s.init_sent = FALSE
    BY <1>1 DEF State
  <2> QED  BY <1>4, <1>5, <1>6, <1>8, <2>1 DEF State
<1>11. PICK v : v = [k EXCEPT !.keyIn = s.keyIn, !.newIn = o, !.usedIn = FALSE, !.compIn = z]
  OBVIOUS
<1>12. v \in State /\ v.err = "none" /\ ~v.auth /\ v.sent = q /\ v.queue = q /\ v.handles = h
      /\ v.server /\ v.compOut = z /\ v.compIn = z /\ v.my = s.my /\ v.peer = s.peer
      /\ v.session_id = s.session_id /\ v.initial = FALSE /\ v.init_sent = FALSE
      /\ v.done /\ v.newOut = s.keyOut /\ v.keyIn = s.keyIn /\ v.seqOut = s.seqOut /\ v.seqIn = s.seqIn
  BY <1>9, <1>11, ZenonT(60) DEF State
<1>13. ssh_set_newkeys_in(k) = v
  BY <1>1, <1>3, <1>9, <1>11 DEF ssh_set_newkeys_in
<1>14. PICK w : w = [v EXCEPT !.keyOut = s.keyOut, !.newOut = o, !.usedOut = FALSE, !.compOut = z]
  OBVIOUS
<1>15. w \in State /\ w.err = "none" /\ ~w.auth /\ w.sent = q /\ w.queue = q /\ w.handles = h
      /\ w.server /\ w.compOut = z /\ w.compIn = z /\ w.my = s.my /\ w.peer = s.peer
      /\ w.session_id = s.session_id /\ w.initial = FALSE /\ w.init_sent = FALSE
      /\ w.done /\ w.keyOut = s.keyOut /\ w.keyIn = s.keyIn /\ w.seqOut = s.seqOut /\ w.seqIn = s.seqIn
  BY <1>12, <1>14, ZenonT(60) DEF State
<1>16. ssh_set_newkeys_out(v) = w
  BY <1>1, <1>3, <1>12, <1>14 DEF ssh_set_newkeys_out
<1>17. PICK d : d = [w EXCEPT !.rekeying = FALSE]
  OBVIOUS
<1>18. d \in State /\ d.err = "none" /\ d.sent = q /\ d.queue = q /\ d.handles = h
      /\ d.server /\ d.compOut = z /\ d.compIn = z /\ d.my = s.my /\ d.peer = s.peer
      /\ d.session_id = s.session_id /\ d.initial = FALSE /\ d.init_sent = FALSE /\ ~d.rekeying
      /\ d.done /\ d.keyOut = s.keyOut /\ d.keyIn = s.keyIn /\ d.seqOut = s.seqOut /\ d.seqIn = s.seqIn
  BY <1>15, <1>17 DEF State
<1>19. PICK e : e = ssh_packet_enable_delayed_compress(d)
  OBVIOUS
<1>20. /\ e \in State /\ SameExchange(d, e) /\ e.auth /\ e.compOut = 1 /\ e.compIn = 1
       /\ e.seqIn = d.seqIn /\ e.seqOut = d.seqOut
  BY <1>1, <1>3, <1>18, <1>19, EnabledFacts, ZenonT(60)
<1>21. ssh_packet_set_state(s) = e
  BY <1>10, <1>13, <1>16, <1>17, <1>19 DEF ssh_packet_set_state
<1>22. SameExchange(s, e) /\ e.auth = s.auth
  <2>1. SameExchange(s, d)
    <3>1. d.initial = s.initial /\ d.init_sent = s.init_sent /\ d.server = s.server
      BY <1>1, <1>18 DEF State
    <3>2. d.rekeying = s.rekeying /\ d.done = s.done
      BY <1>1, <1>18 DEF State
    <3> QED  BY <1>1, <1>3, <1>18, <3>1, <3>2 DEF SameExchange
  <2>2. e.auth = s.auth
    BY <1>20 DEF State
  <2> QED  BY <1>20, <2>1, <2>2 DEF SameExchange
<1> QED  BY <1>18, <1>20, <1>21, <1>22

\* the server logs the user in: SUCCESS is the last packet that is not compressed
LEMMA SuccessFlat ==
  ASSUME NEW s \in State, NEW want \in BOOLEAN, s.server, ~s.auth, s.done, ~s.rekeying,
         s.keyIn # NoKey, s.keyOut # NoKey, s.compIn = 0, s.compOut = 0
  PROVE  \E e \in State, m \in Packet :
           /\ ssh_packet_send2(s, "SUCCESS", <<>>, want) = Carrying(e, <<m>>)
           /\ SameExchange(s, e) /\ e.auth /\ e.compOut = 1 /\ e.compIn = 1
           /\ e.seqIn = s.seqIn /\ e.seqOut = s.seqOut + 1
           /\ m.t = "SUCCESS" /\ Seal(m) = <<s.keyOut, s.seqOut, s.compOut>>
<1>1. Pkt(s, "SUCCESS", <<>>) \in Packet
  <2>1. <<>> \in Seq(Nat)
    OBVIOUS
  <2> QED  BY <2>1, PktIn
<1>2. PICK m \in Packet, v \in Seq(Packet) : m = Pkt(s, "SUCCESS", <<>>) /\ v = <<m>>
  <2>1. <<Pkt(s, "SUCCESS", <<>>)>> \in Seq(Packet)
    BY <1>1
  <2> QED  BY <1>1, <2>1, Zenon
<1>3. s.seqOut + 1 \in Nat /\ Advance(s.compOut) = 0
  BY DEF State, Advance
<1>4. PICK n \in Nat, z \in Nat, o \in Nat : n = s.seqOut + 1 /\ z = 0 /\ o = 1
  BY <1>3
<1>5. PICK u : u = [s EXCEPT !.seqOut = n, !.usedOut = TRUE, !.compOut = z]
  OBVIOUS
<1>6. u \in State /\ u.keyIn = s.keyIn /\ u.keyOut = s.keyOut /\ u.compIn = s.compIn /\ u.compOut = z
      /\ u.seqIn = s.seqIn /\ u.seqOut = n
  BY <1>5 DEF State
<1>7. SameExchange(s, u)
  BY <1>5 DEF SameExchange, State
<1>8. PICK e : e = ssh_packet_enable_delayed_compress(u)
  OBVIOUS
<1>9. /\ e = [u EXCEPT !.auth = TRUE, !.compOut = 1, !.compIn = 1]
      /\ e \in State /\ SameExchange(u, e) /\ e.auth /\ e.compOut = 1 /\ e.compIn = 1
      /\ e.seqIn = u.seqIn /\ e.seqOut = u.seqOut
  BY <1>4, <1>6, <1>8, EnabledFacts
<1>10. SameExchange(s, e)
  BY <1>7, <1>9, ZenonT(60) DEF SameExchange
<1>11. PICK c : c = [s EXCEPT !.sent = v, !.seqOut = n, !.usedOut = TRUE, !.compOut = z]
  OBVIOUS
<1>12. c.keyIn = s.keyIn /\ c.keyOut = s.keyOut /\ c.compIn = s.compIn /\ c.compOut = z
  BY <1>11 DEF State
<1>13. ssh_packet_enable_delayed_compress(c) = [c EXCEPT !.auth = TRUE, !.compOut = o, !.compIn = o]
  BY <1>4, <1>12 DEF ssh_packet_enable_delayed_compress
<1>14. [c EXCEPT !.auth = TRUE, !.compOut = o, !.compIn = o] = Carrying(e, v)
  BY <1>4, <1>5, <1>9, <1>11, ZenonT(60) DEF Carrying, State
<1>15. s.sent = <<>> /\ Append(<<>>, m) = v
  BY <1>2 DEF State
<1>16. ssh_packet_send2_wrapped(s, "SUCCESS", <<>>) = ssh_packet_enable_delayed_compress(c)
  BY <1>2, <1>3, <1>4, <1>11, <1>15 DEF ssh_packet_send2_wrapped, Pkt
<1>17. ~ssh_packet_need_rekeying(s, want)
  BY DEF ssh_packet_need_rekeying
<1>18. ssh_packet_send2(s, "SUCCESS", <<>>, want) = Carrying(e, v)
  BY <1>13, <1>14, <1>16, <1>17 DEF ssh_packet_send2
<1>19. m.t = "SUCCESS" /\ Seal(m) = <<s.keyOut, s.seqOut, s.compOut>>
  BY <1>2 DEF Pkt, Seal
<1>20. /\ ssh_packet_send2(s, "SUCCESS", <<>>, want) = Carrying(e, <<m>>)
       /\ e.seqIn = s.seqIn /\ e.seqOut = s.seqOut + 1
  BY <1>2, <1>4, <1>6, <1>9, <1>18
<1> QED  BY <1>9, <1>10, <1>19, <1>20

-----------------------------------------------------------------------------
(* What a whole handler does.  d is what it leaves, a the peer before it.   *)

Yields(d, a, b, x, y, asked, ph) ==
  \E e \in State, r \in Seq(Packet) :
    /\ d = Carrying(e, r) /\ Joint(e, b, x \o r, y, asked, ph)
    /\ a.session_id # NoKey => e.session_id = a.session_id
    /\ Full(a.queue) => Full(e.queue) /\ Full(r)

LEMMA FullFacts ==
  /\ Full(<<>>)
  /\ \A m : m.t # "DATA" \/ m.body # <<>> => Full(<<m>>)
  /\ \A m : \A q \in Seq(Packet) : Full(q) /\ m \in Packet /\ (m.t # "DATA" \/ m.body # <<>>) => Full(Append(q, m))
  /\ \A q, r \in Seq(Packet) : Full(q) /\ Full(r) => Full(q \o r)
<1>1. Full(<<>>) /\ \A m : m.t # "DATA" \/ m.body # <<>> => Full(<<m>>)
  BY DEF Full
<1>2. ASSUME NEW q \in Seq(Packet), NEW m \in Packet, Full(q), m.t # "DATA" \/ m.body # <<>>
      PROVE  Full(Append(q, m))
  <2>1. \A i \in DOMAIN Append(q, m) : (i \in DOMAIN q /\ Append(q, m)[i] = q[i]) \/ Append(q, m)[i] = m
    OBVIOUS
  <2>2. PICK r : r = Append(q, m)
    OBVIOUS
  <2>3. Full(r)
    BY <1>2, <2>1, <2>2 DEF Full
  <2> QED  BY <2>2, <2>3
<1>3. ASSUME NEW q \in Seq(Packet), NEW r \in Seq(Packet), Full(q), Full(r) PROVE Full(q \o r)
  <2>2. PICK p : p = q \o r
    OBVIOUS
  <2>1. /\ Len(q) \in Nat /\ Len(r) \in Nat /\ DOMAIN q = 1..Len(q) /\ DOMAIN r = 1..Len(r)
        /\ DOMAIN p = 1..(Len(q) + Len(r))
        /\ \A i \in 1..(Len(q) + Len(r)) : p[i] = IF i <= Len(q) THEN q[i] ELSE r[i - Len(q)]
    BY <2>2, ConcatProperties, LenProperties
  <2>3. ASSUME NEW i \in DOMAIN p, p[i].t = "DATA" PROVE p[i].body # <<>>
    <3>1. CASE i <= Len(q)
      <4>1. i \in DOMAIN q /\ p[i] = q[i]
        BY <2>1, <3>1
      <4> QED  BY <1>3, <2>3, <4>1 DEF Full
    <3>2. CASE ~(i <= Len(q))
      <4>1. i - Len(q) \in DOMAIN r /\ p[i] = r[i - Len(q)]
        BY <2>1, <3>2
      <4> QED  BY <1>3, <2>3, <4>1 DEF Full
    <3> QED  BY <3>1, <3>2
  <2> QED  BY <2>2, <2>3 DEF Full
<1> QED  BY <1>1, <1>2, <1>3

LEMMA StayYields ==
  ASSUME NEW s \in State, NEW a, NEW b \in State, NEW x \in Seq(Packet), NEW y \in Seq(Packet),
         NEW asked \in BOOLEAN, NEW ph, Joint(s, b, x, y, asked, ph), s.session_id = a.session_id,
         Full(a.queue) => Full(s.queue)
  PROVE  Yields(s, a, b, x, y, asked, ph)
<1>1. PICK r \in Seq(Packet) : r = <<>>
  <2>1. <<>> \in Seq(Packet)
    OBVIOUS
  <2> QED  BY <2>1, Zenon
<1>2. x \o r = x /\ Carrying(s, r) = s
  BY <1>1, CarryingNothing
<1> QED  BY <1>1, <1>2, FullFacts DEF Yields

LEMMA OneYields ==
  ASSUME NEW e \in State, NEW a, NEW b \in State, NEW x \in Seq(Packet), NEW y \in Seq(Packet),
         NEW m \in Packet,
         NEW asked \in BOOLEAN, NEW ph, Joint(e, b, Append(x, m), y, asked, ph), e.session_id = a.session_id,
         Full(a.queue) => Full(e.queue), m.t # "DATA" \/ m.body # <<>>
  PROVE  Yields(Carrying(e, <<m>>), a, b, x, y, asked, ph)
<1>1. PICK r \in Seq(Packet) : r = <<m>>
  <2>1. <<m>> \in Seq(Packet)
    OBVIOUS
  <2> QED  BY <2>1, Zenon
<1>2. x \o r = Append(x, m)
  BY <1>1
<1> QED  BY <1>1, <1>2, FullFacts DEF Yields

\* kex_start_rekex()
LEMMA RekexYields ==
  ASSUME NEW s \in State, NEW a, NEW b \in State, NEW x \in Seq(Packet), NEW y \in Seq(Packet),
         NEW asked \in BOOLEAN, NEW ph, Joint(s, b, x, y, asked, ph), s.session_id = a.session_id,
         s.done, s.auth, s.server => ph # "handover", Full(a.queue) => Full(s.queue)
  PROVE  Yields(kex_start_rekex(s), a, b, x, y, asked, ph)
<1>1. ~s.init_sent /\ PhaseOf(s) = "idle"
  BY DEF Joint, Coherent, PhaseOf
<1>2. PICK m \in Packet : m = Pkt(s, "KEXINIT", <<s.my + 1>>)
  <2>1. "KEXINIT" \in KexTypes /\ <<s.my + 1>> \in Seq(Nat)
    <3>1. PICK n \in Nat : n = s.my + 1
      BY Counters, Zenon
    <3>2. "KEXINIT" \in KexTypes /\ <<n>> \in Seq(Nat)
      BY DEF KexTypes
    <3> QED  BY <3>1, <3>2, Zenon
  <2> QED  BY <2>1, PktIn
<1>3. kex_start_rekex(s) = Carrying(Rekeyed(s), <<m>>)
  BY <1>1, <1>2, KexinitFlat
<1>4. Rekeyed(s) \in State /\ Rekeyed(s).session_id = s.session_id /\ Rekeyed(s).queue = s.queue
  BY RekeyedIn, ZenonT(60) DEF Rekeyed, State
<1>5. Joint(Rekeyed(s), b, Append(x, m), y, asked, ph)
  BY <1>1, <1>2, RekeyStep
<1>6. m.t # "DATA"
  BY <1>2 DEF Pkt
<1> QED  BY <1>3, <1>4, <1>5, <1>6, OneYields

\* what ssh_packet_read_poll2() ends with
LEMMA PollYields ==
  ASSUME NEW e \in State, NEW a, NEW b \in State, NEW x \in Seq(Packet), NEW y \in Seq(Packet),
         NEW asked \in BOOLEAN, NEW ph, Joint(e, b, x, y, asked, ph), e.session_id = a.session_id,
         NEW want \in BOOLEAN, e.server => ph # "handover", NEW d, Full(a.queue) => Full(e.queue),
         d = IF ssh_packet_need_rekeying(e, want) THEN kex_start_rekex(e) ELSE e
  PROVE  Yields(d, a, b, x, y, asked, ph)
<1>1. CASE ssh_packet_need_rekeying(e, want)
  BY <1>1, NeedFacts, RekexYields
<1>2. CASE ~ssh_packet_need_rekeying(e, want)
  BY <1>2, StayYields
<1> QED  BY <1>1, <1>2

\* the packet at the front is sealed as the reader expects
LEMMA HeadSealed ==
  ASSUME NEW a \in State, NEW b \in State, NEW x \in Seq(Packet), NEW y \in Seq(Packet),
         NEW asked \in BOOLEAN, NEW ph, Joint(a, b, x, y, asked, ph), y # <<>>
  PROVE  y[1] \in Packet /\ Seal(y[1]) = <<a.keyIn, a.seqIn, a.compIn>> /\ Has(y, y[1].t)
<1>1. Seal(y[1]) = <<a.keyIn, a.seqIn, a.compIn>>
  BY DEF Joint, Half, Sealed, Chain
<1>2. 1 \in DOMAIN y /\ y[1] \in Packet
  OBVIOUS
<1> QED  BY <1>1, <1>2 DEF Has

Got(a, m, want) == ssh_dispatch_run(ssh_packet_read_poll2(a, m, want), m, want)

\* a packet of the upper layers
LEMMA ReceivePlain ==
  ASSUME NEW a \in State, NEW b \in State, NEW x \in Seq(Packet), NEW y \in Seq(Packet),
         NEW asked \in BOOLEAN, NEW ph, Joint(a, b, x, y, asked, ph), y # <<>>,
         NEW want \in BOOLEAN, a.server => ph # "handover", y[1].t \in Plain
  PROVE  Yields(Got(a, y[1], want), a, b, x, Tail(y), asked, ph)
<1>1. y[1] \in Packet /\ Seal(y[1]) = <<a.keyIn, a.seqIn, a.compIn>>
  BY HeadSealed
<1>2. Taken(a) \in State /\ Takes(a, Taken(a))
  BY TakenFacts
<1>3. Joint(Taken(a), b, x, Tail(y), asked, ph) /\ Tail(y) \in Seq(Packet)
  BY <1>2, TakeStep, TailFacts
<1>4. y[1].t \notin {"SUCCESS", "AUTH"} \cup KexTypes
  BY DEF Plain, KexTypes
<1>5. Got(a, y[1], want) = ssh_packet_read_poll2(a, y[1], want)
  BY <1>4 DEF Got, ssh_dispatch_run, KexTypes
<1>6. ssh_packet_read_poll2(a, y[1], want) = IF ssh_packet_need_rekeying(Taken(a), want)
                                             THEN kex_start_rekex(Taken(a)) ELSE Taken(a)
  BY <1>1, <1>4, PollFlat
<1>7. Taken(a).session_id = a.session_id /\ Taken(a).server = a.server /\ Taken(a).queue = a.queue
  BY <1>2 DEF Takes
<1> QED  BY <1>2, <1>3, <1>5, <1>6, <1>7, PollYields, ZenonT(60)

\* the client learns that it is logged in
LEMMA ReceiveSuccess ==
  ASSUME NEW a \in State, NEW b \in State, NEW x \in Seq(Packet), NEW y \in Seq(Packet),
         NEW asked \in BOOLEAN, NEW ph, Joint(a, b, x, y, asked, ph), y # <<>>,
         NEW want \in BOOLEAN, a.server => ph # "handover", y[1].t = "SUCCESS"
  PROVE  Yields(Got(a, y[1], want), a, b, x, Tail(y), asked, ph)
<1>1. y[1] \in Packet /\ Seal(y[1]) = <<a.keyIn, a.seqIn, a.compIn>> /\ Has(y, "SUCCESS")
  BY HeadSealed
<1>2. ~a.server /\ ~a.auth /\ PhaseOf(a) = "idle"
  BY <1>1 DEF Joint, Login
<1>3. PICK s \in State : s = Taken(a) /\ Takes(a, s)
  BY TakenFacts
<1>4. a.keyOut # NoKey /\ a.keyIn # NoKey /\ a.compIn = 0 /\ a.compOut = 0
  BY <1>2 DEF Joint, Coherent
<1>5. s.keyOut # NoKey /\ s.keyIn # NoKey /\ s.compIn = 0 /\ s.compOut = 0
  BY <1>3, <1>4 DEF Takes, Advance
<1>6. PICK e : e = ssh_packet_enable_delayed_compress(s)
  OBVIOUS
<1>7. /\ e \in State /\ SameExchange(s, e) /\ e.auth /\ e.compOut = 1 /\ e.compIn = 1
      /\ e.seqIn = s.seqIn /\ e.seqOut = s.seqOut
  BY <1>5, <1>6, EnabledFacts
<1>8. SameExchange(a, e) /\ e.seqIn = a.seqIn + 1 /\ e.seqOut = a.seqOut
  BY <1>3, <1>7 DEF SameExchange, Takes
<1>9. Joint(e, b, x, Tail(y), asked, ph) /\ Tail(y) \in Seq(Packet)
  BY <1>2, <1>7, <1>8, SuccessStep, TailFacts
<1>10. Got(a, y[1], want) = ssh_packet_read_poll2(a, y[1], want)
  BY DEF Got, ssh_dispatch_run, KexTypes
<1>11. ssh_packet_read_poll2(a, y[1], want) = IF ssh_packet_need_rekeying(e, want)
                                              THEN kex_start_rekex(e) ELSE e
  BY <1>1, <1>2, <1>3, <1>6, PollFlat
<1>12. e.session_id = a.session_id /\ ~e.server /\ e.queue = a.queue
  BY <1>2, <1>8 DEF SameExchange
<1> QED  BY <1>7, <1>9, <1>10, <1>11, <1>12, PollYields, ZenonT(60)

\* the server logs the user in
LEMMA ReceiveAuth ==
  ASSUME NEW a \in State, NEW b \in State, NEW x \in Seq(Packet), NEW y \in Seq(Packet),
         NEW asked \in BOOLEAN, NEW ph, Joint(a, b, x, y, asked, ph), y # <<>>,
         NEW want \in BOOLEAN, y[1].t = "AUTH"
  PROVE  Yields(Got(a, y[1], want), a, b, x, Tail(y), asked, "handover")
<1>1. y[1] \in Packet /\ Seal(y[1]) = <<a.keyIn, a.seqIn, a.compIn>> /\ Has(y, "AUTH")
  BY HeadSealed
<1>2. a.server /\ ~a.auth /\ Login(b, a, y, x, asked, ph)
  BY <1>1 DEF Joint, Login
<1>3. Len(y) = 1 /\ Len(y) \in Nat
  <2>1. 1 \in DOMAIN y /\ Len(y) \in Nat
    OBVIOUS
  <2>2. \A i \in DOMAIN y : y[i].t = "AUTH" => i = Len(y)
    BY <1>2 DEF Login
  <2> QED  BY <2>1, <2>2
<1>4. ~Has(y, "NEWKEYS") /\ PhaseOf(b) = "idle"
  <2>1. \A i \in DOMAIN y : y[i].t = "AUTH"
    BY <1>3
  <2> QED  BY <1>1, <1>2, <2>1 DEF Has, Login
<1>5. PhaseOf(a) = "idle"
  <2>1. PhaseOf(a) \in {"idle", "sent", "agreed", "keyed"}
    BY DEF PhaseOf
  <2> QED  BY <1>2, <1>4, <2>1 DEF Joint, Half, Exchange, Login, Phases
<1>6. /\ a.done /\ ~a.rekeying /\ a.keyOut # NoKey /\ a.keyIn # NoKey /\ a.compIn = 0
      /\ a.compOut = 0
  BY <1>2, <1>5 DEF Joint, Coherent, PhaseOf
<1>7. PICK s \in State : s = Taken(a) /\ Takes(a, s)
  BY TakenFacts
<1>8. /\ s.done /\ ~s.rekeying /\ s.keyOut # NoKey /\ s.keyIn # NoKey /\ s.compIn = 0
      /\ s.compOut = 0 /\ s.server /\ ~s.auth
  BY <1>2, <1>6, <1>7 DEF Takes, Advance
<1>9. PICK e \in State, m \in Packet :
           /\ ssh_packet_send2(s, "SUCCESS", <<>>, want) = Carrying(e, <<m>>)
           /\ SameExchange(s, e) /\ e.auth /\ e.compOut = 1 /\ e.compIn = 1
           /\ e.seqIn = s.seqIn /\ e.seqOut = s.seqOut + 1
           /\ m.t = "SUCCESS" /\ Seal(m) = <<s.keyOut, s.seqOut, s.compOut>>
  BY <1>8, SuccessFlat
<1>10. /\ SameExchange(a, e) /\ e.seqIn = a.seqIn + 1 /\ e.seqOut = a.seqOut + 1
       /\ Seal(m) = <<a.keyOut, a.seqOut, a.compOut>>
  BY <1>7, <1>9 DEF SameExchange, Takes
<1>11. Joint(e, b, Append(x, m), Tail(y), asked, "handover") /\ Tail(y) \in Seq(Packet)
  BY <1>2, <1>9, <1>10, AuthStep, TailFacts
<1>12. ~ssh_packet_need_rekeying(s, want)
  BY <1>8 DEF ssh_packet_need_rekeying
<1>13. ssh_packet_read_poll2(a, y[1], want) = s
  BY <1>1, <1>2, <1>7, <1>12, PollFlat
<1>14. Got(a, y[1], want) = ssh_packet_send2(s, "SUCCESS", <<>>, want)
  BY <1>13 DEF Got, ssh_dispatch_run, KexTypes
<1>15. e.session_id = a.session_id /\ e.queue = a.queue
  BY <1>10 DEF SameExchange
<1> QED  BY <1>9, <1>11, <1>14, <1>15, OneYields, ZenonT(60)

\* the end of an exchange
LEMMA ReceiveNewkeys ==
  ASSUME NEW a \in State, NEW b \in State, NEW x \in Seq(Packet), NEW y \in Seq(Packet),
         NEW asked \in BOOLEAN, NEW ph, Joint(a, b, x, y, asked, ph), y # <<>>,
         NEW want \in BOOLEAN, y[1].t = "NEWKEYS"
  PROVE  Yields(Got(a, y[1], want), a, b, x, Tail(y), asked, ph)
<1>1. y[1] \in Packet /\ Seal(y[1]) = <<a.keyIn, a.seqIn, a.compIn>> /\ Has(y, "NEWKEYS")
  BY HeadSealed
<1>2. Exchange(b, a, y) /\ Coherent(a)
  BY DEF Joint, Half
<1>3. ~Has(y, "REPLY")
  <2>1. Has(y, "REPLY") <=> y[1].t = "REPLY" \/ Has(Tail(y), "REPLY")
    BY HasTail
  <2>2. Has(Tail(y), "REPLY") => Rank("NEWKEYS") < Rank("REPLY")
    BY <1>2, NeatTail DEF Exchange, KexTypes
  <2> QED  BY <2>1, <2>2 DEF Rank
<1>4. PhaseOf(a) = "keyed"
  BY <1>1, <1>2, <1>3 DEF Exchange, Phases
<1>5. PICK s \in State : s = Taken(a) /\ Takes(a, s)
  BY TakenFacts
<1>6. ~a.done /\ a.handles = {"NEWKEYS"} /\ a.newIn # NoKey
  BY <1>2, <1>4 DEF Coherent, PhaseOf
<1>7. ~s.done /\ s.handles = {"NEWKEYS"} /\ s.newIn # NoKey
  BY <1>5, <1>6 DEF Takes
<1>8. PICK e \in State : e = kex_input_newkeys(s) /\ Finishes(a, e)
  BY <1>5, <1>7, FinishedFacts
<1>9. Joint(e, b, x, Tail(y), asked, ph) /\ Tail(y) \in Seq(Packet)
  BY <1>4, <1>8, FinishStep, TailFacts
<1>10. ~ssh_packet_need_rekeying(s, want)
  BY <1>7 DEF ssh_packet_need_rekeying, ssh_packet_is_rekeying
<1>11. ssh_packet_read_poll2(a, y[1], want) = s
  BY <1>1, <1>5, <1>10, PollFlat
<1>12. Got(a, y[1], want) = e
  BY <1>7, <1>8, <1>11 DEF Got, ssh_dispatch_run, KexTypes
<1>13. e.session_id = a.session_id /\ e.queue = a.queue
  BY <1>8 DEF Finishes
<1> QED  BY <1>8, <1>9, <1>12, <1>13, StayYields

\* kex_input_kexinit() sends the KEXINIT that kex_start_rekex() has not sent before
LEMMA KexinitTwice ==
  ASSUME NEW s \in State, NEW k \in Nat, s.handles = {"KEXINIT"}, ~s.init_sent
  PROVE  kex_input_kexinit(s, k) = kex_input_kexinit(kex_send_kexinit(s), k)
<1>1. PICK h : h = {}
  OBVIOUS
<1>2. PICK f : f = [s EXCEPT !.handles = h, !.peer = k]
  OBVIOUS
<1>3. f \in State /\ ~f.init_sent /\ f.my = s.my /\ f.keyOut = s.keyOut /\ f.seqOut = s.seqOut
      /\ f.compOut = s.compOut
  BY <1>1, <1>2 DEF State
<1>4. [s EXCEPT !.handles = s.handles \ {"KEXINIT"}, !.peer = k] = f
  BY <1>1, <1>2
<1>5. PICK q : q = <<Pkt(s, "KEXINIT", <<s.my + 1>>)>>
  OBVIOUS
<1>6. kex_send_kexinit(f) = Carrying(Rekeyed(f), q) /\ kex_send_kexinit(s) = Carrying(Rekeyed(s), q)
  <2>1. Pkt(f, "KEXINIT", <<f.my + 1>>) = Pkt(s, "KEXINIT", <<s.my + 1>>)
    BY <1>3 DEF Pkt
  <2> QED  BY <1>3, <1>5, <2>1, KexinitFlat
<1>7. PICK c : c = Carrying(Rekeyed(s), q)
  OBVIOUS
<1>8. PICK n, j, e : n = s.seqOut + 1 /\ j = s.my + 1 /\ e = Advance(s.compOut)
  OBVIOUS
<1>9. /\ Rekeyed(s) = [s EXCEPT !.done = FALSE, !.my = j, !.rekeying = TRUE, !.init_sent = TRUE,
                                 !.seqOut = n, !.usedOut = TRUE, !.compOut = e]
      /\ Rekeyed(f) = [f EXCEPT !.done = FALSE, !.my = j, !.rekeying = TRUE, !.init_sent = TRUE,
                                 !.seqOut = n, !.usedOut = TRUE, !.compOut = e]
  BY <1>3, <1>8 DEF Rekeyed
<1>10. c.handles = {"KEXINIT"} /\ c.init_sent /\ c.server = s.server
  BY <1>7, <1>9 DEF Carrying, State
<1>11. [c EXCEPT !.handles = h, !.peer = k] = Carrying(Rekeyed(f), q)
  <2>1. PICK u : u = [s EXCEPT !.done = FALSE, !.my = j, !.rekeying = TRUE, !.init_sent = TRUE]
    OBVIOUS
  <2>2. PICK v : v = [f EXCEPT !.done = FALSE, !.my = j, !.rekeying = TRUE, !.init_sent = TRUE]
    OBVIOUS
  <2>3. v = [u EXCEPT !.handles = h, !.peer = k] /\ DOMAIN u = DOMAIN s
    BY <1>2, <2>1, <2>2 DEF State
  <2>4. /\ Rekeyed(s) = [u EXCEPT !.seqOut = n, !.usedOut = TRUE, !.compOut = e]
        /\ Rekeyed(f) = [v EXCEPT !.seqOut = n, !.usedOut = TRUE, !.compOut = e]
    BY <1>2, <1>9, <2>1, <2>2 DEF State
  <2>5. u = [g \in DOMAIN s |-> u[g]]
    BY <2>1 DEF State
  <2> QED  BY <1>7, <2>3, <2>4, <2>5, ZenonT(60) DEF Carrying, State
<1>12. PICK d : d = [c EXCEPT !.handles = h, !.peer = k]
  OBVIOUS
<1>13. [c EXCEPT !.handles = c.handles \ {"KEXINIT"}, !.peer = k] = d
  BY <1>1, <1>10, <1>12
<1>14. d.init_sent
  BY <1>7, <1>9, <1>12 DEF Carrying, State
<1>15. kex_send_kexinit(d) = d
  BY <1>14 DEF kex_send_kexinit
<1> DEFINE Rest(w) == IF s.server THEN [w EXCEPT !.handles = @ \cup {"INIT"}]
                      ELSE [ssh_packet_send2_wrapped(w, "INIT", <<>>) EXCEPT !.handles = @ \cup {"REPLY"}]
<1>16. kex_input_kexinit(s, k) = Rest(d)
  <2>1. kex_send_kexinit(f) = d
    BY <1>6, <1>11, <1>12
  <2> QED  BY <1>4, <2>1 DEF kex_input_kexinit
<1>17. kex_input_kexinit(c, k) = Rest(d)
  BY <1>10, <1>13, <1>15 DEF kex_input_kexinit
<1> HIDE DEF Rest
<1> QED  BY <1>6, <1>7, <1>16, <1>17

\* KEXINIT of the other peer: this one has sent its own, or does so now
LEMMA ReceiveKexinit ==
  ASSUME NEW a \in State, NEW b \in State, NEW x \in Seq(Packet), NEW y \in Seq(Packet),
         NEW asked \in BOOLEAN, NEW ph, Joint(a, b, x, y, asked, ph), y # <<>>,
         NEW want \in BOOLEAN, a.server => ph # "handover", y[1].t = "KEXINIT"
  PROVE  Yields(Got(a, y[1], want), a, b, x, Tail(y), asked, ph)
<1>1. y[1] \in Packet /\ Seal(y[1]) = <<a.keyIn, a.seqIn, a.compIn>> /\ Has(y, "KEXINIT")
  BY HeadSealed
<1>2. Exchange(b, a, y) /\ Coherent(a) /\ Cookies(b, a, y)
  BY DEF Joint, Half
<1>3. ~Has(y, "NEWKEYS") /\ ~Has(y, "SUCCESS")
  <2>1. /\ Has(y, "NEWKEYS") <=> y[1].t = "NEWKEYS" \/ Has(Tail(y), "NEWKEYS")
        /\ Has(y, "SUCCESS") <=> y[1].t = "SUCCESS" \/ Has(Tail(y), "SUCCESS")
    BY HasTail
  <2>2. /\ Has(Tail(y), "NEWKEYS") => Rank("KEXINIT") < Rank("NEWKEYS")
        /\ Has(Tail(y), "SUCCESS") => "SUCCESS" \in KexTypes
    BY <1>2, NeatTail DEF Exchange, KexTypes
  <2> QED  BY <2>1, <2>2 DEF Rank, KexTypes
<1>4. PhaseOf(a) \in {"idle", "sent"} /\ PhaseOf(b) \in {"sent", "agreed"}
  BY <1>1, <1>2, <1>3 DEF Exchange, Phases
<1>5. PhaseOf(a) = "idle" => a.auth
  BY <1>1, <1>2, <1>3, <1>4 DEF Exchange, Phases, Joint, Login
<1>6. a.handles = {"KEXINIT"} /\ (a.init_sent <=> PhaseOf(a) = "sent") /\ (a.done <=> PhaseOf(a) = "idle")
  BY <1>2, <1>4 DEF Coherent, PhaseOf
<1>7. y[1].body # <<>> /\ y[1].body[1] \in Nat
  <2>1. 1 \in DOMAIN y
    OBVIOUS
  <2>2. y[1].body = <<b.my>> /\ b.my \in Nat
    BY <1>2, <2>1 DEF Cookies, State
  <2> QED  BY <2>2
<1>8. PICK k \in Nat : k = y[1].body[1]
  BY <1>7
<1>9. PICK s \in State : s = Taken(a) /\ Takes(a, s)
  BY TakenFacts
<1>10. s.handles = a.handles /\ s.init_sent = a.init_sent /\ s.done = a.done /\ s.server = a.server
  BY <1>9 DEF Takes
<1>11. ssh_packet_read_poll2(a, y[1], want) = IF ssh_packet_need_rekeying(s, want) THEN kex_start_rekex(s) ELSE s
  BY <1>1, <1>9, PollFlat
<1>12. <<>> \in Seq(Packet) /\ <<>> \in Seq(Nat) /\ Tail(y) \in Seq(Packet) /\ "INIT" \in KexTypes
       /\ "KEXINIT" \in KexTypes
  BY TailFacts DEF KexTypes
<1>13. CASE PhaseOf(a) = "sent"
  <2>1. ~ssh_packet_need_rekeying(s, want)
    BY <1>6, <1>10, <1>13 DEF ssh_packet_need_rekeying, ssh_packet_is_rekeying
  <2>2. Got(a, y[1], want) = kex_input_kexinit(s, k)
    BY <1>6, <1>8, <1>10, <1>11, <2>1 DEF Got, ssh_dispatch_run, KexTypes
  <2>3. PICK m \in Packet : m = Pkt(s, "INIT", <<>>)
    BY <1>12, PktIn
  <2>4. PICK q \in Seq(Packet) : q = <<>>
    BY <1>12, Zenon
  <2>5. PICK e \in State : e = Agreed(s, k) /\ kex_input_kexinit(Carrying(s, q), k)
                              = Carrying(e, IF s.server THEN q ELSE Append(q, m))
    BY <1>6, <1>10, <1>13, <2>3, AgreedFacts
  <2>6. Agrees(a, e, y[1], m)
    BY <1>1, <1>7, <1>8, <1>9, <2>3, <2>5, AgreedAgrees
  <2>7. Joint(e, b, IF a.server THEN x ELSE Append(x, m), Tail(y), asked, ph)
    BY <1>13, <2>6, AgreeStep
  <2>8. Carrying(s, q) = s /\ e.session_id = a.session_id /\ e.queue = a.queue /\ m.t # "DATA"
    BY <2>3, <2>4, <2>6, CarryingNothing DEF Agrees, Pkt
  <2>9. CASE a.server
    <3>1. x \o q = x /\ Full(q)
      BY <2>4, FullFacts
    <3> QED  BY <1>10, <2>2, <2>5, <2>7, <2>8, <2>9, <3>1 DEF Yields
  <2>10. CASE ~a.server
    <3>1. Append(q, m) = <<m>>
      BY <2>4
    <3>2. Got(a, y[1], want) = Carrying(e, <<m>>)
      BY <1>10, <2>2, <2>5, <2>8, <2>10, <3>1
    <3> QED  BY <1>12, <2>7, <2>8, <2>10, <3>2, OneYields, ZenonT(60)
  <2> QED  BY <2>9, <2>10
<1>14. CASE PhaseOf(a) = "idle"
  <2>1. PICK f \in State : f = Rekeyed(a)
    BY RekeyedIn
  <2>2. PICK K \in Packet : K = Pkt(a, "KEXINIT", <<a.my + 1>>)
    <3>0. a.my \in Nat
      BY DEF State
    <3>1. a.my + 1 \in Nat
      BY <3>0
    <3>2. <<a.my + 1>> \in Seq(Nat)
      BY <3>1
    <3> QED  BY <1>12, <3>2, PktIn
  <2>3. Joint(f, b, Append(x, K), y, asked, ph)
    BY <1>5, <1>14, <2>1, <2>2, RekeyStep
  <2>4. PICK g \in State : g = Rekeyed(s)
    BY RekeyedIn
  <2>5. kex_send_kexinit(s) = Carrying(g, <<K>>) /\ kex_start_rekex(s) = kex_send_kexinit(s)
    <3>1. Pkt(s, "KEXINIT", <<s.my + 1>>) = K
      BY <1>9, <2>2 DEF Takes, Pkt
    <3> QED  BY <1>6, <1>10, <1>14, <2>4, <3>1, KexinitFlat
  <2>6. PICK m \in Packet : m = Pkt(g, "INIT", <<>>)
    BY <1>12, PktIn
  <2>7. Takes(f, g) /\ g.handles = {"KEXINIT"} /\ g.init_sent /\ f.server = a.server
        /\ PhaseOf(f) = "sent" /\ g.server = a.server /\ f.session_id = a.session_id
        /\ f.queue = a.queue
    <3>1. /\ f.server = a.server /\ f.auth = a.auth /\ f.keyOut = a.keyOut /\ f.keyIn = a.keyIn
          /\ f.compIn = a.compIn /\ f.seqIn = a.seqIn /\ f.queue = a.queue /\ f.sent = a.sent
          /\ f.initial = a.initial /\ f.peer = a.peer /\ f.newIn = a.newIn
          /\ f.session_id = a.session_id /\ f.handles = a.handles /\ f.err = a.err
          /\ f.rekeying = TRUE /\ f.done = FALSE /\ f.init_sent = TRUE
          /\ f.my = a.my + 1 /\ f.seqOut = a.seqOut + 1 /\ f.compOut = Advance(a.compOut)
      BY <2>1 DEF Rekeyed, State
    <3>2. /\ g.server = s.server /\ g.auth = s.auth /\ g.keyOut = s.keyOut /\ g.keyIn = s.keyIn
          /\ g.compIn = s.compIn /\ g.seqIn = s.seqIn /\ g.queue = s.queue /\ g.sent = s.sent
          /\ g.initial = s.initial /\ g.peer = s.peer /\ g.newIn = s.newIn
          /\ g.session_id = s.session_id /\ g.handles = s.handles /\ g.err = s.err
          /\ g.rekeying = TRUE /\ g.done = FALSE /\ g.init_sent = TRUE
          /\ g.my = s.my + 1 /\ g.seqOut = s.seqOut + 1 /\ g.compOut = Advance(s.compOut)
      BY <2>4 DEF Rekeyed, State
    <3>3. Takes(f, g)
      <4>1. g.rekeying = f.rekeying /\ g.done = f.done /\ g.init_sent = f.init_sent
        BY <3>1, <3>2
      <4>2. g.server = f.server /\ g.auth = f.auth /\ g.initial = f.initial
        BY <1>9, <3>1, <3>2 DEF Takes
      <4>3. g.my = f.my /\ g.seqOut = f.seqOut /\ g.compOut = f.compOut /\ g.seqIn = f.seqIn + 1
            /\ g.compIn = Advance(f.compIn)
        BY <1>9, <3>1, <3>2 DEF Takes
      <4>4. /\ g.keyOut = f.keyOut /\ g.keyIn = f.keyIn /\ g.sent = f.sent /\ g.queue = f.queue
            /\ g.peer = f.peer /\ g.newIn = f.newIn /\ g.session_id = f.session_id
            /\ g.handles = f.handles /\ g.err = f.err
        BY <1>9, <3>1, <3>2 DEF Takes
      <4> QED  BY <4>1, <4>2, <4>3, <4>4 DEF Takes
    <3> QED  BY <1>6, <1>10, <3>1, <3>2, <3>3 DEF PhaseOf
  <2>8. PICK q \in Seq(Packet) : q = <<K>>
    <3>1. <<K>> \in Seq(Packet)
      OBVIOUS
    <3> QED  BY <3>1, Zenon
  <2>9. PICK e \in State : e = Agreed(g, k) /\ kex_input_kexinit(Carrying(g, q), k)
                              = Carrying(e, IF g.server THEN q ELSE Append(q, m))
    BY <2>6, <2>7, AgreedFacts
  <2>10. Agrees(f, e, y[1], m)
    BY <1>1, <1>7, <1>8, <2>6, <2>7, <2>9, AgreedAgrees
  <2>11. Joint(e, b, IF a.server THEN Append(x, K) ELSE Append(Append(x, K), m), Tail(y), asked, ph)
    <3>0. Append(x, K) \in Seq(Packet)
      BY AppendProperties
    <3>1. PICK z \in Seq(Packet) : z = Append(x, K)
      BY <3>0, Zenon
    <3>2. Joint(f, b, z, y, asked, ph)
      BY <2>3, <3>1
    <3>3. Joint(e, b, IF f.server THEN z ELSE Append(z, m), Tail(y), asked, ph)
      BY <2>7, <2>10, <3>2, AgreeStep
    <3> QED  BY <2>7, <3>1, <3>3
  <2>12. Got(a, y[1], want) = kex_input_kexinit(Carrying(g, q), k)
    <3>1. CASE ssh_packet_need_rekeying(s, want)
      <4>1. ssh_packet_read_poll2(a, y[1], want) = Carrying(g, q)
        BY <1>11, <2>5, <2>8, <3>1
      <4>2. Carrying(g, q).handles = {"KEXINIT"}
        BY <2>7, CarryingFacts
      <4> QED  BY <1>8, <4>1, <4>2 DEF Got, ssh_dispatch_run, KexTypes
    <3>2. CASE ~ssh_packet_need_rekeying(s, want)
      <4>1. Got(a, y[1], want) = kex_input_kexinit(s, k)
        BY <1>6, <1>8, <1>10, <1>11, <3>2 DEF Got, ssh_dispatch_run, KexTypes
      <4>2. kex_input_kexinit(s, k) = kex_input_kexinit(Carrying(g, q), k)
        BY <1>6, <1>10, <1>14, <2>4, <2>5, <2>8, KexinitTwice
      <4> QED  BY <4>1, <4>2
    <3> QED  BY <3>1, <3>2
  <2>13. e.session_id = a.session_id /\ e.queue = a.queue /\ K.t # "DATA" /\ m.t # "DATA"
    BY <2>2, <2>6, <2>7, <2>10 DEF Agrees, Pkt
  <2>14. CASE a.server
    <3>1. x \o q = Append(x, K) /\ Full(q)
      BY <2>8, <2>13, FullFacts
    <3> QED  BY <2>7, <2>8, <2>9, <2>11, <2>12, <2>13, <2>14, <3>1 DEF Yields
  <2>15. CASE ~a.server
    <3>1. Append(q, m) \in Seq(Packet) /\ x \o Append(q, m) = Append(Append(x, K), m)
      BY <2>8
    <3>2. Full(Append(q, m))
      BY <2>8, <2>13, FullFacts
    <3> QED  BY <2>7, <2>9, <2>11, <2>12, <2>13, <2>15, <3>1, <3>2 DEF Yields
  <2> QED  BY <2>14, <2>15
<1> QED  BY <1>4, <1>13, <1>14

\* one packet of the upper layers is sent
LEMMA SentSpeaks ==
  ASSUME NEW s \in State, NEW t \in Plain, NEW body \in Seq(Nat), s.auth \/ s.queue = <<>>,
         \A i \in DOMAIN s.queue : s.queue[i].t = "DATA", NEW m, m = Pkt(s, t, body)
  PROVE  m \in Packet /\ <<m>> \in Seq(Packet) /\ Speaks(s, Sent(s), <<m>>)
<1>1. m \in Packet /\ m.t = t /\ Seal(m) = <<s.keyOut, s.seqOut, s.compOut>>
  <2>1. t \in KexTypes \cup {"EXTINFO", "AUTH", "SUCCESS", "DATA"}
    BY DEF Plain
  <2> QED  BY <2>1, PktIn DEF Pkt, Seal
<1>2. PICK r \in Seq(Packet) : r = <<m>>
  <2>1. <<m>> \in Seq(Packet)
    BY <1>1
  <2> QED  BY <2>1, Zenon
<1>3. Len(r) = 1 /\ DOMAIN r = {1} /\ r[1] = m
  BY <1>2
<1>4. s.seqOut \in Nat /\ s.compOut \in Nat
  BY DEF State
<1>5. PICK n \in Nat, c \in Nat : n = s.seqOut + 1 /\ c = Advance(s.compOut)
  <2>1. s.seqOut + 1 \in Nat /\ Advance(s.compOut) \in Nat
    BY <1>4 DEF Advance
  <2> QED  BY <2>1
<1>6. PICK e : e = [s EXCEPT !.seqOut = n, !.usedOut = TRUE, !.compOut = c]
  OBVIOUS
<1>7. Sent(s) = e
  BY <1>5, <1>6 DEF Sent
<1>8. /\ e.server = s.server /\ e.auth = s.auth /\ e.keyOut = s.keyOut /\ e.keyIn = s.keyIn
      /\ e.compIn = s.compIn /\ e.seqIn = s.seqIn /\ e.sent = s.sent
      /\ e.initial = s.initial /\ e.peer = s.peer /\ e.newIn = s.newIn
      /\ e.session_id = s.session_id /\ e.handles = s.handles /\ e.err = s.err
      /\ e.rekeying = s.rekeying /\ e.done = s.done /\ e.init_sent = s.init_sent /\ e.my = s.my
      /\ e.queue = s.queue /\ e.seqOut = n /\ e.compOut = c
  BY <1>6 DEF State
<1>9. n = s.seqOut + Len(r) /\ c = Ahead(s.compOut, Len(r))
  BY <1>3, <1>5 DEF Ahead, Advance
<1>10. ASSUME NEW i \in DOMAIN r
       PROVE  r[i].t \in Plain /\ Seal(r[i]) = <<s.keyOut, s.seqOut + i - 1, Ahead(s.compOut, i - 1)>>
  <2>1. i = 1 /\ s.seqOut + i - 1 = s.seqOut /\ Ahead(s.compOut, i - 1) = s.compOut
    BY <1>3, <1>4 DEF Ahead
  <2> QED  BY <1>1, <1>3, <2>1
<1>11. /\ ~s.auth => e.queue = <<>>
       /\ \A i \in DOMAIN e.queue : e.queue[i].t = "DATA"
  BY <1>8
<1>12. Speaks(s, e, r)
  BY <1>8, <1>9, <1>10, <1>11 DEF Speaks
<1> QED  BY <1>1, <1>2, <1>7, <1>12

\* after NEWKEYS the queue goes out and the server's extensions
LEMMA StartedStep ==
  ASSUME NEW u \in State, NEW b \in State, NEW z \in Seq(Packet), NEW w \in Seq(Packet),
         NEW asked \in BOOLEAN, NEW ph, Joint(Keyed(u), b, z, w, asked, ph), ~u.done,
         u.auth \/ u.queue = <<>>, \A i \in DOMAIN u.queue : u.queue[i].t = "DATA",
         u.server => ph # "handover"
  PROVE  /\ Joint(Started(u), b, (z \o Run(Keyed(u))) \o Extra(u), w, asked, ph)
         /\ Started(u).session_id = Keyed(u).session_id
         /\ Full(Started(u).queue) /\ Full(Extra(u)) /\ (Full(u.queue) => Full(Run(Keyed(u))))
<1>1. PICK k \in State :
        /\ k = Keyed(u) /\ k.auth = u.auth /\ k.queue = u.queue /\ k.done = u.done /\ ~k.rekeying
        /\ k.server = u.server
  BY KeyedFacts
<1>2. PICK f \in State, r \in Seq(Packet) : f = Flushed(k) /\ r = Run(k) /\ Speaks(k, f, r)
  BY <1>1, FlushedFacts
<1>3. PhaseOf(k) = "keyed"
  BY <1>1 DEF PhaseOf
<1>4. z \o r \in Seq(Packet)
  BY ConcatProperties
<1>5. Joint(f, b, z \o r, w, asked, ph)
  <2>1. CASE k.server \/ k.auth
    BY <1>1, <1>2, <1>3, <2>1, SpeakStep
  <2>2. CASE ~(k.server \/ k.auth)
    <3>1. k.queue = <<>> /\ Len(k.queue) = 0
      BY <1>1, <2>2
    <3>2. r = <<>>
      <4>1. Len(r) = 0
        BY <1>2, <3>1 DEF Run
      <4> QED  BY <4>1, EmptySeq
    <3>3. f = k
      <4>1. PICK q, n, c, v : q = k.queue /\ n = k.seqOut /\ c = k.compOut /\ v = k.usedOut
        OBVIOUS
      <4>2. k.seqOut \in Nat /\ k.compOut \in Nat /\ k.usedOut \in BOOLEAN
        BY DEF State
      <4>3. k.seqOut + 0 = n /\ Ahead(k.compOut, 0) = c /\ (k.usedOut \/ 0 > 0) = v
        BY <4>1, <4>2 DEF Ahead
      <4>4. f = [k EXCEPT !.queue = q, !.seqOut = n, !.usedOut = v, !.compOut = c]
        BY <1>2, <3>1, <4>1, <4>3 DEF Flushed
      <4> QED  BY <4>1, <4>4 DEF State
    <3>4. z \o r = z
      BY <3>2
    <3> QED  BY <1>1, <3>3, <3>4
  <2> QED  BY <2>1, <2>2
<1>6. /\ f.server = u.server /\ f.session_id = k.session_id /\ (f.auth \/ f.queue = <<>>)
      /\ \A i \in DOMAIN f.queue : f.queue[i].t = "DATA"
      /\ PhaseOf(f) = "keyed"
  BY <1>1, <1>2, <1>3 DEF Speaks, PhaseOf
<1>9. Full(f.queue) /\ (Full(u.queue) => Full(r))
  <2>1. f.queue = <<>>
    BY <1>2 DEF Flushed, State
  <2>2. \A i \in DOMAIN r : i \in DOMAIN u.queue /\ r[i].t = u.queue[i].t /\ r[i].body = u.queue[i].body
    <3>1. u.queue \in Seq([t : {"EXTINFO", "AUTH", "SUCCESS", "DATA"}, body : Seq(Nat)])
      BY DEF State
    <3> QED  BY <1>1, <1>2, <3>1 DEF Run
  <2>3. Full(u.queue) => Full(r)
    BY <2>2 DEF Full
  <2> QED  BY <2>1, <2>3, FullFacts
<1>7. CASE u.server /\ u.initial
  <2>1. PICK m : m = Pkt(f, "EXTINFO", <<>>)
    OBVIOUS
  <2>2. m \in Packet /\ <<m>> \in Seq(Packet) /\ Speaks(f, Sent(f), <<m>>)
    <3>1. "EXTINFO" \in Plain /\ <<>> \in Seq(Nat)
      BY DEF Plain
    <3> QED  BY <1>6, <2>1, <3>1, SentSpeaks
  <2>3. PICK g \in State : g = Sent(f)
    BY SentIn
  <2>4. PICK l \in Seq(Packet) : l = <<m>>
    BY <2>2, Zenon
  <2>5. Joint(g, b, (z \o r) \o l, w, asked, ph)
    <3>1. PICK v \in Seq(Packet) : v = z \o r
      BY <1>4, Zenon
    <3>2. Joint(f, b, v, w, asked, ph) /\ Speaks(f, g, l)
      BY <1>5, <2>2, <2>3, <2>4, <3>1
    <3>3. f.server /\ PhaseOf(f) \in {"idle", "keyed"} /\ ph # "handover"
      BY <1>6, <1>7
    <3>4. Joint(g, b, v \o l, w, asked, ph)
      BY <3>2, <3>3, SpeakStep
    <3> QED  BY <3>1, <3>4
  <2>6. Started(u) = g /\ Extra(u) = l
    BY <1>1, <1>2, <1>7, <2>1, <2>3, <2>4 DEF Started, Extra
  <2>7. g.session_id = k.session_id /\ g.queue = f.queue
    BY <1>6, <2>2, <2>3 DEF Speaks, Sent, State
  <2>8. Full(l)
    <3>1. m.t # "DATA"
      BY <2>1 DEF Pkt
    <3> QED  BY <2>4, <3>1, FullFacts
  <2> QED  BY <1>1, <1>2, <1>9, <2>5, <2>6, <2>7, <2>8
<1>8. CASE ~(u.server /\ u.initial)
  <2>1. Started(u) = f /\ Extra(u) = <<>>
    BY <1>1, <1>2, <1>8 DEF Started, Extra
  <2>2. (z \o r) \o <<>> = z \o r
    <3>1. PICK l \in Seq(Packet) : l = z \o r
      BY <1>4, Zenon
    <3> QED  BY <3>1, ConcatEmptySeq
  <2> QED  BY <1>1, <1>2, <1>5, <1>6, <1>9, <2>1, <2>2, FullFacts
<1> QED  BY <1>7, <1>8

\* the packets of a whole handler, in order
Regroups(x, l, v) == x \o (l \o v) = (x \o l) \o v
LEMMA Regroup ==
  \A S : \A x, l, v \in Seq(S) : Regroups(x, l, v)
<1>1. ASSUME NEW S, NEW x \in Seq(S), NEW l \in Seq(S), NEW v \in Seq(S)
      PROVE  Regroups(x, l, v)
  <2>1. x \o (l \o v) = (x \o l) \o v
    BY ConcatAssociative
  <2> QED  BY <2>1 DEF Regroups
<1> QED  BY <1>1, Zenon

LEMMA ConcatIn == \A S : \A l, v \in Seq(S) : l \o v \in Seq(S)
BY ConcatProperties

Row(l, v, w) == (l \o v) \o w

LEMMA RegroupAll ==
  ASSUME NEW S, NEW x \in Seq(S), NEW l \in Seq(S), NEW v \in Seq(S), NEW w \in Seq(S)
  PROVE  Row(l, v, w) \in Seq(S) /\ x \o Row(l, v, w) = Row(x \o l, v, w)
<1>1. PICK p \in Seq(S) : p = l \o v
  BY ConcatIn, Zenon
<1>2. x \o p = (x \o l) \o v
  <2>1. Regroups(x, l, v)
    BY Regroup, Zenon
  <2> QED  BY <1>1, <2>1, Zenon DEF Regroups
<1>3. x \o (p \o w) = (x \o p) \o w
  <2>1. Regroups(x, p, w)
    BY Regroup, Zenon
  <2> QED  BY <2>1, Zenon DEF Regroups
<1>4. p \o w \in Seq(S)
  BY ConcatIn, Zenon
<1>5. Row(l, v, w) = p \o w /\ Row(x \o l, v, w) = (x \o p) \o w
  BY <1>1, <1>2, Zenon DEF Row
<1> QED  BY <1>3, <1>4, <1>5, Zenon

LEMMA RowYields ==
  ASSUME NEW e \in State, NEW a, NEW b, NEW x \in Seq(Packet), NEW y, NEW asked, NEW ph,
         NEW l \in Seq(Packet), NEW v \in Seq(Packet), NEW w \in Seq(Packet),
         Joint(e, b, Row(x \o l, v, w), y, asked, ph),
         a.session_id # NoKey => e.session_id = a.session_id,
         Full(a.queue) => Full(e.queue) /\ Full(l) /\ Full(v) /\ Full(w)
  PROVE  Yields(Carrying(e, Row(l, v, w)), a, b, x, y, asked, ph)
<1>1. Row(l, v, w) \in Seq(Packet) /\ x \o Row(l, v, w) = Row(x \o l, v, w)
  BY RegroupAll
<1>2. PICK r \in Seq(Packet) : r = Row(l, v, w) /\ x \o r = Row(x \o l, v, w)
  BY <1>1, Zenon
<1>3. Full(a.queue) => Full(Row(l, v, w))
  <2>1. PICK p \in Seq(Packet) : p = l \o v
    <3>1. l \o v \in Seq(Packet)
      BY ConcatProperties
    <3> QED  BY <3>1, Zenon
  <2>2. Full(a.queue) => Full(p)
    BY <2>1, FullFacts
  <2>3. Full(a.queue) => Full(p \o w)
    BY <2>2, FullFacts
  <2> QED  BY <2>1, <2>3 DEF Row
<1> QED  BY <1>2, <1>3 DEF Yields

\* the client gets the server's half of the exchange
LEMMA ReceiveReply ==
  ASSUME NEW a \in State, NEW b \in State, NEW x \in Seq(Packet), NEW y \in Seq(Packet),
         NEW asked \in BOOLEAN, NEW ph, Joint(a, b, x, y, asked, ph), y # <<>>,
         NEW want \in BOOLEAN, y[1].t = "REPLY"
  PROVE  Yields(Got(a, y[1], want), a, b, x, Tail(y), asked, ph)
<1>1. y[1] \in Packet /\ Seal(y[1]) = <<a.keyIn, a.seqIn, a.compIn>> /\ Has(y, "REPLY")
  BY HeadSealed
<1>2. Exchange(b, a, y) /\ Coherent(a) /\ Cookies(b, a, y) /\ Cookies(a, b, x) /\ a.server # b.server
      /\ Coherent(b)
  BY DEF Joint, Half
<1>3. PhaseOf(a) = "agreed" /\ ~a.server
  BY <1>1, <1>2 DEF Exchange, Phases, State
<1>4. y[1].body = <<a.my, b.my>> /\ a.peer = b.my
  <2>1. 1 \in DOMAIN y
    OBVIOUS
  <2> QED  BY <1>2, <1>3, <2>1 DEF Cookies
<1>5. a.handles = {"REPLY"} /\ ~a.done /\ (a.initial <=> a.session_id = NoKey) /\ a.my > 0
      /\ (a.auth \/ a.queue = <<>>) /\ \A i \in DOMAIN a.queue : a.queue[i].t = "DATA"
  BY <1>2, <1>3 DEF Coherent, PhaseOf
<1>6. PICK s \in State : s = Taken(a) /\ Takes(a, s)
  BY TakenFacts
<1>7. PICK h : h = {}
  OBVIOUS
<1>8. PICK u : u = [s EXCEPT !.handles = h]
  OBVIOUS
<1>9. u \in State
  BY <1>7, <1>8 DEF State
<1>10. /\ u.server = s.server /\ u.auth = s.auth /\ u.keyOut = s.keyOut /\ u.keyIn = s.keyIn
       /\ u.compOut = s.compOut /\ u.seqOut = s.seqOut /\ u.sent = s.sent /\ u.queue = s.queue
       /\ u.initial = s.initial /\ u.peer = s.peer /\ u.session_id = s.session_id /\ u.err = s.err
       /\ u.rekeying = s.rekeying /\ u.done = s.done /\ u.init_sent = s.init_sent /\ u.my = s.my
       /\ u.seqIn = s.seqIn /\ u.compIn = s.compIn
  BY <1>8 DEF State
<1>11. Hash(s) = <<a.my, b.my>> /\ Hash(u) = <<a.my, b.my>> /\ <<a.my, b.my>> # NoKey
  <2>1. s.server = a.server /\ s.my = a.my /\ s.peer = a.peer
    BY <1>6 DEF Takes
  <2>2. Hash(s) = <<a.my, b.my>> /\ Hash(u) = <<a.my, b.my>>
    BY <1>3, <1>4, <1>10, <2>1 DEF Hash
  <2>3. a.my # 0
    BY <1>5
  <2> QED  BY <2>2, <2>3 DEF NoKey
<1>12. PICK k \in State : k = Keyed(u)
  BY <1>9, KeyedFacts
<1>13. Switches(a, k, <<a.my, b.my>>, 1)
  <2>1. /\ k.server = u.server /\ k.auth = u.auth /\ k.keyIn = u.keyIn /\ k.my = u.my
        /\ k.sent = u.sent /\ k.queue = u.queue /\ k.err = u.err /\ k.initial = u.initial
        /\ k.done = u.done /\ k.init_sent = u.init_sent /\ k.seqIn = u.seqIn /\ k.compIn = u.compIn
        /\ k.session_id = IF u.initial THEN Hash(u) ELSE u.session_id
        /\ k.rekeying = FALSE /\ k.handles = {"NEWKEYS"} /\ k.newIn = Hash(u) /\ k.keyOut = Hash(u)
        /\ k.compOut = Reset(u) /\ k.seqOut = u.seqOut + 1
    BY <1>9, <1>12, KeyedFacts
  <2>2. Reset(u) = Reset(a)
    BY <1>6, <1>10 DEF Takes, Reset
  <2> QED  BY <1>6, <1>10, <1>11, <2>1, <2>2 DEF Switches, Takes
<1>14. PICK m \in Packet : m = Pkt(u, "NEWKEYS", <<>>)
  <2>1. "NEWKEYS" \in KexTypes /\ <<>> \in Seq(Nat)
    BY DEF KexTypes
  <2> QED  BY <1>9, <2>1, PktIn
<1>15. m.t = "NEWKEYS" /\ Seal(m) = <<a.keyOut, a.seqOut, a.compOut>>
  BY <1>6, <1>10, <1>14 DEF Pkt, Seal, Takes
<1>16. Append(x, m) \in Seq(Packet) /\ Tail(y) \in Seq(Packet)
  BY TailFacts, AppendProperties
<1>17. Joint(k, b, Append(x, m), Tail(y), asked, ph)
  BY <1>3, <1>13, <1>15, KeyClientStep
<1>18. /\ ~u.done /\ (u.initial <=> u.session_id = NoKey) /\ ~u.server
       /\ (u.auth \/ u.queue = <<>>) /\ \A i \in DOMAIN u.queue : u.queue[i].t = "DATA"
  BY <1>3, <1>5, <1>6, <1>10 DEF Takes
<1>19. /\ Joint(Started(u), b, (Append(x, m) \o Run(Keyed(u))) \o Extra(u), Tail(y), asked, ph)
       /\ Started(u).session_id = k.session_id
       /\ Full(Started(u).queue) /\ Full(Extra(u)) /\ (Full(u.queue) => Full(Run(Keyed(u))))
  <2>1. PICK v \in Seq(Packet), w \in Seq(Packet) : v = Append(x, m) /\ w = Tail(y)
    BY <1>16, Zenon
  <2>2. Joint(Keyed(u), b, v, w, asked, ph)
    BY <1>12, <1>17, <2>1
  <2>3. /\ Joint(Started(u), b, (v \o Run(Keyed(u))) \o Extra(u), w, asked, ph)
        /\ Started(u).session_id = Keyed(u).session_id
        /\ Full(Started(u).queue) /\ Full(Extra(u)) /\ (Full(u.queue) => Full(Run(Keyed(u))))
    BY <1>9, <1>18, <2>2, StartedStep
  <2> QED  BY <1>12, <2>1, <2>3
<1>20. PICK q \in Seq(Packet) : q = <<>>
  <2>1. <<>> \in Seq(Packet)
    OBVIOUS
  <2> QED  BY <2>1, Zenon
<1>21. /\ Started(u) \in State /\ Extra(u) \in Seq(Packet) /\ Run(Keyed(u)) \in Seq(Packet)
       /\ kex_send_newkeys(kex_derive_keys(Carrying(u, q)), want)
            = Carrying(Started(u), ((Append(q, m) \o Run(Keyed(u))) \o Extra(u)))
  BY <1>9, <1>11, <1>14, <1>18, StartedFlat
<1>22. Got(a, y[1], want) = kex_send_newkeys(kex_derive_keys(Carrying(u, q)), want)
  <2>1. s.handles = {"REPLY"} /\ ~s.done
    BY <1>5, <1>6 DEF Takes
  <2>2. ~ssh_packet_need_rekeying(s, want)
    BY <2>1 DEF ssh_packet_need_rekeying, ssh_packet_is_rekeying
  <2>3. ssh_packet_read_poll2(a, y[1], want) = s
    BY <1>1, <1>6, <2>2, PollFlat
  <2>4. Got(a, y[1], want) = input_kex_gen_reply(s, y[1].body, want)
    BY <2>1, <2>3 DEF Got, ssh_dispatch_run, KexTypes
  <2>5. [s EXCEPT !.handles = s.handles \ {"REPLY"}] = u
    BY <1>7, <1>8, <2>1
  <2>6. input_kex_gen_reply(s, y[1].body, want) = kex_send_newkeys(kex_derive_keys(u), want)
    BY <1>4, <1>11, <2>5 DEF input_kex_gen_reply
  <2>7. Carrying(u, q) = u
    BY <1>9, <1>20, CarryingNothing
  <2> QED  BY <2>4, <2>6, <2>7
<1>23. PICK v \in Seq(Packet), w \in Seq(Packet), l \in Seq(Packet) :
         v = Run(Keyed(u)) /\ w = Extra(u) /\ l = Append(q, m)
  <2>1. Append(q, m) \in Seq(Packet)
    BY AppendProperties
  <2> QED  BY <1>21, <2>1, Zenon
<1>24. PICK z \in Seq(Packet) : z = Append(x, m) /\ x \o l = z
  <2>1. x \o l = Append(x, m)
    BY <1>20, <1>23
  <2> QED  BY <1>16, <2>1, Zenon
<1>25. Got(a, y[1], want) = Carrying(Started(u), Row(l, v, w))
  BY <1>21, <1>22, <1>23 DEF Row
<1>26. Joint(Started(u), b, Row(z, v, w), Tail(y), asked, ph)
  BY <1>19, <1>23, <1>24 DEF Row
<1>27. a.session_id # NoKey => Started(u).session_id = a.session_id
  BY <1>5, <1>13, <1>19 DEF Switches
<1>28. PICK e \in State : e = Started(u)
  BY <1>21, Zenon
<1>29. Joint(e, b, Row(x \o l, v, w), Tail(y), asked, ph) /\ (a.session_id # NoKey => e.session_id = a.session_id)
  BY <1>24, <1>26, <1>27, <1>28
<1>30. Full(a.queue) => Full(e.queue) /\ Full(l) /\ Full(v) /\ Full(w)
  <2>1. u.queue = a.queue /\ m.t # "DATA"
    BY <1>6, <1>10, <1>15 DEF Takes
  <2>2. Full(l)
    BY <1>20, <1>23, <2>1, FullFacts
  <2> QED  BY <1>19, <1>23, <1>28, <2>1, <2>2
<1>31. Yields(Carrying(e, Row(l, v, w)), a, b, x, Tail(y), asked, ph)
  BY <1>29, <1>30, RowYields
<1> QED  BY <1>25, <1>28, <1>31

\* the server answers the client's half of the exchange
LEMMA ReceiveInit ==
  ASSUME NEW a \in State, NEW b \in State, NEW x \in Seq(Packet), NEW y \in Seq(Packet),
         NEW asked \in BOOLEAN, NEW ph, Joint(a, b, x, y, asked, ph), y # <<>>,
         NEW want \in BOOLEAN, a.server => ph # "handover", y[1].t = "INIT"
  PROVE  Yields(Got(a, y[1], want), a, b, x, Tail(y), asked, ph)
<1>1. y[1] \in Packet /\ Seal(y[1]) = <<a.keyIn, a.seqIn, a.compIn>> /\ Has(y, "INIT")
  BY HeadSealed
<1>2. Exchange(b, a, y) /\ Coherent(a) /\ Cookies(a, b, x) /\ a.server # b.server /\ Coherent(b)
  BY DEF Joint, Half
<1>3. PhaseOf(a) = "agreed" /\ a.server
  <2>1. Has(y, "KEXINIT") <=> y[1].t = "KEXINIT" \/ Has(Tail(y), "KEXINIT")
    BY HasTail
  <2>2. Has(Tail(y), "KEXINIT") => Rank("INIT") < Rank("KEXINIT")
    BY <1>2, NeatTail DEF Exchange, KexTypes
  <2>3. ~Has(y, "KEXINIT")
    BY <2>1, <2>2 DEF Rank
  <2> QED  BY <1>1, <1>2, <2>3 DEF Exchange, Phases, State
<1>4. a.peer = b.my
  BY <1>2, <1>3 DEF Cookies
<1>5. a.handles = {"INIT"} /\ ~a.done /\ (a.initial <=> a.session_id = NoKey) /\ a.my > 0
      /\ (a.auth \/ a.queue = <<>>) /\ \A i \in DOMAIN a.queue : a.queue[i].t = "DATA"
  BY <1>2, <1>3 DEF Coherent, PhaseOf
<1>6. PICK s \in State : s = Taken(a) /\ Takes(a, s)
  BY TakenFacts
<1>7. PICK h, n, c : h = {} /\ n = s.seqOut + 1 /\ c = Advance(s.compOut)
  OBVIOUS
<1>8. PICK g : g = [s EXCEPT !.handles = h]
  OBVIOUS
<1>9. g \in State /\ g.seqOut = s.seqOut /\ g.compOut = s.compOut
  BY <1>7, <1>8, ZenonT(60) DEF State
<1>10. PICK u \in State : u = Sent(g)
  BY <1>9, SentIn
<1>11. /\ u.server = s.server /\ u.auth = s.auth /\ u.keyOut = s.keyOut /\ u.keyIn = s.keyIn
       /\ u.sent = s.sent /\ u.queue = s.queue
       /\ u.initial = s.initial /\ u.peer = s.peer /\ u.session_id = s.session_id /\ u.err = s.err
       /\ u.rekeying = s.rekeying /\ u.done = s.done /\ u.init_sent = s.init_sent /\ u.my = s.my
       /\ u.seqIn = s.seqIn /\ u.compIn = s.compIn
       /\ u.seqOut = n /\ u.compOut = c
  <2>1. u = [g EXCEPT !.seqOut = n, !.usedOut = TRUE, !.compOut = c]
    BY <1>7, <1>9, <1>10 DEF Sent
  <2> QED  BY <1>8, <2>1 DEF State
<1>12. Hash(s) = <<b.my, a.my>> /\ Hash(u) = <<b.my, a.my>> /\ <<b.my, a.my>> # NoKey
  <2>1. s.server = a.server /\ s.my = a.my /\ s.peer = a.peer
    BY <1>6 DEF Takes
  <2>2. Hash(s) = <<b.my, a.my>> /\ Hash(u) = <<b.my, a.my>>
    BY <1>3, <1>4, <1>11, <2>1 DEF Hash
  <2>3. a.my # 0
    BY <1>5
  <2> QED  BY <2>2, <2>3 DEF NoKey
<1>13. PICK k \in State : k = Keyed(u)
  BY KeyedFacts
<1>14. Switches(a, k, <<b.my, a.my>>, 2)
  <2>1. /\ k.server = u.server /\ k.auth = u.auth /\ k.keyIn = u.keyIn /\ k.my = u.my
        /\ k.sent = u.sent /\ k.queue = u.queue /\ k.err = u.err /\ k.initial = u.initial
        /\ k.done = u.done /\ k.init_sent = u.init_sent /\ k.seqIn = u.seqIn /\ k.compIn = u.compIn
        /\ k.session_id = IF u.initial THEN Hash(u) ELSE u.session_id
        /\ k.rekeying = FALSE /\ k.handles = {"NEWKEYS"} /\ k.newIn = Hash(u) /\ k.keyOut = Hash(u)
        /\ k.compOut = Reset(u) /\ k.seqOut = u.seqOut + 1
    BY <1>13, KeyedFacts
  <2>2. Reset(u) = Reset(a)
    BY <1>6, <1>11 DEF Takes, Reset
  <2>3. k.seqOut = a.seqOut + 2
    <3>1. a.seqOut \in Nat
      BY DEF State
    <3> QED  BY <1>6, <1>7, <1>11, <2>1, <3>1 DEF Takes
  <2> QED  BY <1>6, <1>11, <1>12, <2>1, <2>2, <2>3 DEF Switches, Takes
<1>15. <<b.my, a.my>> \in Seq(Nat) /\ <<>> \in Seq(Nat) /\ {"REPLY", "NEWKEYS"} \subseteq KexTypes
  <2>1. a.my \in Nat /\ b.my \in Nat
    BY DEF State
  <2> QED  BY <2>1 DEF KexTypes
<1>16. PICK R \in Packet : R = Pkt(g, "REPLY", <<b.my, a.my>>)
  BY <1>9, <1>15, PktIn
<1>17. PICK m \in Packet : m = Pkt(u, "NEWKEYS", <<>>)
  BY <1>15, PktIn
<1>18. R.t = "REPLY" /\ R.body = <<b.my, a.my>> /\ Seal(R) = <<a.keyOut, a.seqOut, a.compOut>>
  <2>1. g.keyOut = s.keyOut
    BY <1>8 DEF State
  <2> QED  BY <1>6, <1>9, <1>16, <2>1 DEF Pkt, Seal, Takes
<1>19. m.t = "NEWKEYS" /\ Seal(m) = <<a.keyOut, a.seqOut + 1, Advance(a.compOut)>>
  BY <1>6, <1>7, <1>11, <1>17 DEF Pkt, Seal, Takes
<1>20. PICK z \in Seq(Packet), w \in Seq(Packet) : z = Append(Append(x, R), m) /\ w = Tail(y)
  <2>1. Append(Append(x, R), m) \in Seq(Packet) /\ Tail(y) \in Seq(Packet)
    BY TailFacts, AppendProperties
  <2> QED  BY <2>1, Zenon
<1>21. Joint(k, b, z, w, asked, ph)
  <2>1. Joint(k, b, Append(Append(x, R), m), Tail(y), asked, ph)
    BY <1>3, <1>14, <1>18, <1>19, KeyServerStep
  <2> QED  BY <1>20, <2>1
<1>22. /\ ~u.done /\ (u.initial <=> u.session_id = NoKey) /\ u.server
       /\ (u.auth \/ u.queue = <<>>) /\ \A i \in DOMAIN u.queue : u.queue[i].t = "DATA"
  BY <1>3, <1>5, <1>6, <1>11 DEF Takes
<1>23. /\ Joint(Started(u), b, (z \o Run(k)) \o Extra(u), w, asked, ph)
       /\ Started(u).session_id = k.session_id
       /\ Full(Started(u).queue) /\ Full(Extra(u)) /\ (Full(u.queue) => Full(Run(k)))
  BY <1>3, <1>13, <1>21, <1>22, StartedStep
<1>24. PICK q \in Seq(Packet) : q = <<R>>
  <2>1. <<R>> \in Seq(Packet)
    OBVIOUS
  <2> QED  BY <2>1, Zenon
<1>25. /\ Started(u) \in State /\ Extra(u) \in Seq(Packet) /\ Run(k) \in Seq(Packet)
       /\ kex_send_newkeys(kex_derive_keys(Carrying(u, q)), want)
            = Carrying(Started(u), ((Append(q, m) \o Run(k)) \o Extra(u)))
  BY <1>12, <1>13, <1>17, <1>22, StartedFlat
<1>26. Got(a, y[1], want) = kex_send_newkeys(kex_derive_keys(Carrying(u, q)), want)
  <2>1. s.handles = {"INIT"} /\ ~s.done
    BY <1>5, <1>6 DEF Takes
  <2>2. ~ssh_packet_need_rekeying(s, want)
    BY <2>1 DEF ssh_packet_need_rekeying, ssh_packet_is_rekeying
  <2>3. ssh_packet_read_poll2(a, y[1], want) = s
    BY <1>1, <1>6, <2>2, PollFlat
  <2>4. Got(a, y[1], want) = input_kex_gen_init(s, want)
    BY <2>1, <2>3 DEF Got, ssh_dispatch_run, KexTypes
  <2>5. [s EXCEPT !.handles = s.handles \ {"INIT"}] = g
    BY <1>7, <1>8, <2>1
  <2>6. PICK e, d : e = <<>> /\ d = <<b.my, a.my>>
    OBVIOUS
  <2>7. ssh_packet_send2_wrapped(Carrying(g, e), "REPLY", d) = Carrying(Sent(g), Append(e, Pkt(g, "REPLY", d)))
    <3>1. "REPLY" \notin {"NEWKEYS", "SUCCESS"}
      OBVIOUS
    <3>2. PICK sender, kind : sender \in State /\ sender = g /\ kind = "REPLY"
      BY <1>9, Zenon
    <3>3. kind \notin {"NEWKEYS", "SUCCESS"}
      BY <3>1, <3>2, Zenon
    <3>4. ssh_packet_send2_wrapped(Carrying(sender, e), kind, d) = Carrying(Sent(sender), Append(e, Pkt(sender, kind, d)))
      BY <3>2, <3>3, SendFlat
    <3> QED  BY <3>2, <3>4, Zenon
  <2>8. Append(e, R) = q /\ Carrying(g, e) = g
    BY <1>9, <1>24, <2>6, CarryingNothing
  <2>9. ssh_packet_send2_wrapped(g, "REPLY", d) = Carrying(u, q)
    BY <1>10, <1>16, <2>6, <2>7, <2>8
  <2>10. input_kex_gen_init(s, want) = kex_send_newkeys(kex_derive_keys(Carrying(u, q)), want)
    BY <1>12, <2>5, <2>6, <2>9 DEF input_kex_gen_init
  <2> QED  BY <2>4, <2>10
<1>27. PICK v \in Seq(Packet), f \in Seq(Packet), l \in Seq(Packet) :
         v = Run(k) /\ f = Extra(u) /\ l = Append(q, m)
  <2>1. Append(q, m) \in Seq(Packet)
    BY AppendProperties
  <2> QED  BY <1>25, <2>1, Zenon
<1>28. x \o l = z
  BY <1>20, <1>24, <1>27
<1>29. Got(a, y[1], want) = Carrying(Started(u), Row(l, v, f))
  BY <1>25, <1>26, <1>27 DEF Row
<1>30. Joint(Started(u), b, Row(z, v, f), w, asked, ph)
  BY <1>23, <1>27 DEF Row
<1>31. a.session_id # NoKey => Started(u).session_id = a.session_id
  BY <1>5, <1>14, <1>23 DEF Switches
<1>32. PICK e \in State : e = Started(u)
  BY <1>25, Zenon
<1>33. Joint(e, b, Row(x \o l, v, f), w, asked, ph) /\ (a.session_id # NoKey => e.session_id = a.session_id)
  BY <1>28, <1>30, <1>31, <1>32
<1>34. Full(a.queue) => Full(e.queue) /\ Full(l) /\ Full(v) /\ Full(f)
  <2>1. u.queue = a.queue /\ m.t # "DATA" /\ R.t # "DATA"
    BY <1>6, <1>11, <1>18, <1>19 DEF Takes
  <2>2. Full(q)
    BY <1>24, <2>1, FullFacts
  <2>3. Full(l)
    BY <1>27, <2>1, <2>2, FullFacts
  <2> QED  BY <1>23, <1>27, <1>32, <2>1, <2>3
<1>35. Yields(Carrying(e, Row(l, v, f)), a, b, x, w, asked, ph)
  BY <1>33, <1>34, RowYields
<1> QED  BY <1>20, <1>29, <1>32, <1>35

\* one packet, sent at once
LEMMA SendDirect ==
  ASSUME NEW s \in State, NEW t, NEW body, t \notin {"NEWKEYS", "SUCCESS"}
  PROVE  ssh_packet_send2_wrapped(s, t, body) = Carrying(Sent(s), <<Pkt(s, t, body)>>)
<1>1. PICK q, m : q = <<>> /\ m = Pkt(s, t, body)
  OBVIOUS
<1>2. ssh_packet_send2_wrapped(Carrying(s, q), t, body) = Carrying(Sent(s), Append(q, m))
  BY <1>1, SendFlat
<1>3. Carrying(s, q) = s /\ Append(q, m) = <<m>>
  BY <1>1, CarryingNothing
<1> QED  BY <1>1, <1>2, <1>3

\* ssh_packet_send2() with a packet of the upper layers
LEMMA SendYields ==
  ASSUME NEW a \in State, NEW b \in State, NEW x \in Seq(Packet), NEW y \in Seq(Packet),
         NEW asked \in BOOLEAN, NEW ph, Joint(a, b, x, y, asked, ph), a.auth,
         NEW want \in BOOLEAN, a.server => ph # "handover", NEW n \in Nat
  PROVE  Yields(ssh_packet_send2(a, "DATA", <<n>>, want), a, b, x, y, asked, ph)
<1>1. \A i \in DOMAIN a.queue : a.queue[i].t = "DATA"
  BY DEF Joint, Coherent
<1>2. PICK c \in Seq(Nat) : c = <<n>>
  <2>1. <<n>> \in Seq(Nat)
    OBVIOUS
  <2> QED  BY <2>1, Zenon
<1>3. PICK w \in [t : {"EXTINFO", "AUTH", "SUCCESS", "DATA"}, body : Seq(Nat)] :
        w = [t |-> "DATA", body |-> c]
  OBVIOUS
<1>4. a.queue \in Seq([t : {"EXTINFO", "AUTH", "SUCCESS", "DATA"}, body : Seq(Nat)])
  BY DEF State
<1>5. PICK q \in Seq([t : {"EXTINFO", "AUTH", "SUCCESS", "DATA"}, body : Seq(Nat)]) : q = Append(a.queue, w)
  <2>1. Append(a.queue, w) \in Seq([t : {"EXTINFO", "AUTH", "SUCCESS", "DATA"}, body : Seq(Nat)])
    BY <1>4, AppendProperties
  <2> QED  BY <2>1, Zenon
<1>6. \A i \in DOMAIN q : (i \in DOMAIN a.queue /\ q[i] = a.queue[i]) \/ q[i] = w
  BY <1>4, <1>5
<1>7. /\ \A i \in DOMAIN q : q[i].t = "DATA"
      /\ Full(a.queue) => Full(q)
  <2>1. w.t = "DATA" /\ w.body # <<>>
    BY <1>2, <1>3
  <2> QED  BY <1>1, <1>6, <2>1 DEF Full
<1>8. PICK f : f = [a EXCEPT !.queue = q]
  OBVIOUS
<1>9. f \in State
  BY <1>8 DEF State
<1>10. /\ f.server = a.server /\ f.auth = a.auth /\ f.keyOut = a.keyOut /\ f.keyIn = a.keyIn
       /\ f.compIn = a.compIn /\ f.seqIn = a.seqIn /\ f.sent = a.sent
       /\ f.initial = a.initial /\ f.peer = a.peer /\ f.newIn = a.newIn
       /\ f.session_id = a.session_id /\ f.handles = a.handles /\ f.err = a.err
       /\ f.rekeying = a.rekeying /\ f.done = a.done /\ f.init_sent = a.init_sent /\ f.my = a.my
       /\ f.queue = q /\ f.seqOut = a.seqOut /\ f.compOut = a.compOut
  BY <1>8 DEF State
<1>11. PICK r \in Seq(Packet) : r = <<>>
  <2>1. <<>> \in Seq(Packet)
    OBVIOUS
  <2> QED  BY <2>1, Zenon
<1>12. Speaks(a, f, r)
  <2>1. a.seqOut \in Nat /\ a.compOut \in Nat /\ Len(r) = 0 /\ \A i \in DOMAIN r : FALSE
    BY <1>11 DEF State
  <2>2. a.seqOut + Len(r) = a.seqOut /\ Ahead(a.compOut, Len(r)) = a.compOut
    BY <2>1 DEF Ahead
  <2> QED  BY <1>7, <1>10, <2>1, <2>2 DEF Speaks
<1>13. Joint(f, b, x, y, asked, ph)
  <2>1. Joint(f, b, x \o r, y, asked, ph)
    BY <1>9, <1>11, <1>12, SpeakStep, ZenonT(60)
  <2>2. x \o r = x
    BY <1>11
  <2> QED  BY <2>1, <2>2
<1>14. ssh_packet_send2(a, "DATA", <<n>>, want)
         = IF ssh_packet_need_rekeying(a, want) THEN kex_start_rekex(f)
           ELSE IF a.rekeying THEN f ELSE ssh_packet_send2_wrapped(a, "DATA", c)
  BY <1>2, <1>3, <1>5, <1>8 DEF ssh_packet_send2
<1>15. CASE ssh_packet_need_rekeying(a, want)
  <2>1. a.done
    BY <1>15, NeedFacts
  <2>2. Yields(kex_start_rekex(f), a, b, x, y, asked, ph)
    <3>1. /\ f.session_id = a.session_id /\ f.done /\ f.auth /\ (f.server => ph # "handover")
          /\ Full(a.queue) => Full(f.queue)
      BY <1>7, <1>10, <2>1
    <3> QED  BY <1>9, <1>13, <3>1, RekexYields
  <2> QED  BY <1>14, <1>15, <2>2
<1>16. CASE ~ssh_packet_need_rekeying(a, want) /\ a.rekeying
  <2>1. Yields(f, a, b, x, y, asked, ph)
    BY <1>7, <1>9, <1>10, <1>13, StayYields
  <2> QED  BY <1>14, <1>16, <2>1
<1>17. CASE ~ssh_packet_need_rekeying(a, want) /\ ~a.rekeying
  <2>1. PhaseOf(a) \in {"idle", "keyed"}
    BY <1>17 DEF PhaseOf
  <2>2. PICK m : m = Pkt(a, "DATA", c)
    OBVIOUS
  <2>3. m \in Packet /\ <<m>> \in Seq(Packet) /\ Speaks(a, Sent(a), <<m>>) /\ m.body # <<>>
    <3>1. "DATA" \in Plain
      BY DEF Plain
    <3>2. m.body # <<>>
      BY <1>2, <2>2 DEF Pkt
    <3> QED  BY <1>1, <2>2, <3>1, <3>2, SentSpeaks
  <2>4. PICK l \in Seq(Packet) : l = <<m>>
    BY <2>3, Zenon
  <2>5. PICK e \in State : e = Sent(a)
    BY SentIn
  <2>6. Joint(e, b, x \o l, y, asked, ph)
    <3>1. Speaks(a, e, l)
      BY <2>3, <2>4, <2>5
    <3> QED  BY <2>1, <3>1, SpeakStep
  <2>7. x \o l = Append(x, m)
    BY <2>3, <2>4
  <2>8. Joint(e, b, Append(x, m), y, asked, ph)
    BY <2>6, <2>7
  <2>9. e.session_id = a.session_id /\ e.queue = a.queue
    BY <2>5 DEF Sent, State
  <2>10. ssh_packet_send2_wrapped(a, "DATA", c) = Carrying(e, <<m>>)
    <3>1. ssh_packet_send2_wrapped(a, "DATA", c) = Carrying(Sent(a), <<Pkt(a, "DATA", c)>>)
      BY SendDirect
    <3> QED  BY <2>2, <2>5, <3>1
  <2>11. Yields(Carrying(e, <<m>>), a, b, x, y, asked, ph)
    <3>1. PICK k \in Packet : k = m
      BY <2>3, Zenon
    <3>2. k.body # <<>> /\ (Full(a.queue) => Full(e.queue)) /\ Joint(e, b, Append(x, k), y, asked, ph)
          /\ e.session_id = a.session_id
      BY <2>3, <2>8, <2>9, <3>1
    <3>3. Yields(Carrying(e, <<k>>), a, b, x, y, asked, ph)
      BY <3>2, OneYields
    <3> QED  BY <3>1, <3>3
  <2> QED  BY <1>14, <1>17, <2>10, <2>11
<1> QED  BY <1>15, <1>16, <1>17

\* the client asks to log in
LEMMA AskYields ==
  ASSUME NEW a \in State, NEW b \in State, NEW x \in Seq(Packet), NEW y \in Seq(Packet),
         NEW ph, Joint(a, b, x, y, FALSE, ph), ~a.auth, ~a.server, a.done
  PROVE  Yields(ssh_packet_send2(a, "AUTH", <<>>, FALSE), a, b, x, y, TRUE, ph)
<1>1. PhaseOf(a) = "idle" /\ ~a.rekeying
  BY DEF Joint, Coherent, PhaseOf
<1>2. PICK e \in State : e = Sent(a)
  BY SentIn
<1>3. PICK m \in Packet : m = Pkt(a, "AUTH", <<>>)
  <2>1. <<>> \in Seq(Nat)
    OBVIOUS
  <2> QED  BY <2>1, PktIn
<1>4. m.t = "AUTH" /\ Seal(m) = <<a.keyOut, a.seqOut, a.compOut>>
  BY <1>3 DEF Pkt, Seal
<1>5. /\ SameExchange(a, e) /\ e.auth = a.auth /\ e.compIn = a.compIn /\ e.seqIn = a.seqIn
      /\ e.seqOut = a.seqOut + 1 /\ e.compOut = Advance(a.compOut)
  <2>1. PICK n, c : n = a.seqOut + 1 /\ c = Advance(a.compOut)
    OBVIOUS
  <2>2. e = [a EXCEPT !.seqOut = n, !.usedOut = TRUE, !.compOut = c]
    BY <1>2, <2>1 DEF Sent
  <2> QED  BY <2>1, <2>2, ZenonT(60) DEF SameExchange, State
<1>6. Joint(e, b, Append(x, m), y, TRUE, ph)
  BY <1>1, <1>4, <1>5, AskStep
<1>7. ~ssh_packet_need_rekeying(a, FALSE)
  BY DEF ssh_packet_need_rekeying
<1>8. ssh_packet_send2(a, "AUTH", <<>>, FALSE) = Carrying(e, <<m>>)
  <2>1. PICK v, c : v = <<>> /\ c = <<>>
    OBVIOUS
  <2>0. ssh_packet_send2_wrapped(Carrying(a, v), "AUTH", c) = Carrying(Sent(a), Append(v, Pkt(a, "AUTH", c)))
    BY SendFlat
  <2>2. ssh_packet_send2_wrapped(Carrying(a, v), "AUTH", c) = Carrying(e, Append(v, m))
    BY <1>2, <1>3, <2>0, <2>1
  <2>3. Carrying(a, v) = a /\ Append(v, m) = <<m>>
    BY <2>1, CarryingNothing
  <2>4. ssh_packet_send2(a, "AUTH", c, FALSE) = ssh_packet_send2_wrapped(a, "AUTH", c)
    BY <1>1, <1>7 DEF ssh_packet_send2
  <2> QED  BY <2>1, <2>2, <2>3, <2>4
<1>9. e.session_id = a.session_id /\ e.queue = a.queue
  BY <1>5 DEF SameExchange
<1> QED  BY <1>4, <1>6, <1>8, <1>9, OneYields

-----------------------------------------------------------------------------
(* The whole system.                                                        *)

LEMMA JointSym ==
  ASSUME NEW a \in State, NEW b \in State, NEW x, NEW y, NEW asked, NEW ph,
         Joint(a, b, x, y, asked, ph)
  PROVE  Joint(b, a, y, x, asked, ph)
<1>1. a.server \in BOOLEAN /\ b.server \in BOOLEAN /\ a.server # b.server
  BY DEF Joint, State
<1>2. CASE a.server /\ ~b.server
  BY <1>2 DEF Joint
<1>3. CASE ~a.server /\ b.server
  BY <1>3 DEF Joint
<1> QED  BY <1>1, <1>2, <1>3

LEMMA PeerNames ==
  ASSUME NEW p \in Peers
  PROVE  /\ Peers = {p, Other(p)}
         /\ (p = "client" /\ Other(p) = "server") \/ (p = "server" /\ Other(p) = "client")
<1>1. p = "client" \/ p = "server"
  BY DEF Peers
<1>2. CASE p = "client"
  BY <1>2 DEF Peers, Other
<1>3. CASE p = "server"
  BY <1>3 DEF Peers, Other
<1> QED  BY <1>1, <1>2, <1>3

\* what the invariant says of either peer
LEMMA PeerFacts ==
  ASSUME IInv, NEW p \in Peers
  PROVE  /\ st[p] \in State /\ st[Other(p)] \in State /\ Other(p) \in Peers /\ Other(p) # p
         /\ net[p] \in Seq(Packet) /\ net[Other(p)] \in Seq(Packet)
         /\ (made["client"] > 0) \in BOOLEAN
         /\ st[p].server <=> p = "server"
         /\ Joint(st[p], st[Other(p)], net[Other(p)], net[p], made["client"] > 0, phase)
         /\ Full(net[p]) /\ Full(net[Other(p)]) /\ Full(st[p].queue)
<1>1. /\ "client" \in Peers /\ "server" \in Peers /\ Other("client") = "server"
      /\ Other("server") = "client" /\ p \in {"client", "server"} /\ "client" # "server"
  BY DEF Peers, Other
<1>2. st["client"] \in State /\ st["server"] \in State
  BY <1>1 DEF IInv, Shape
<1>3. Joint(st["client"], st["server"], net["server"], net["client"], made["client"] > 0, phase)
  BY DEF IInv
<1>4. Joint(st["server"], st["client"], net["client"], net["server"], made["client"] > 0, phase)
  BY <1>2, <1>3, JointSym
<1>5. ~st["client"].server /\ st["server"].server
  BY <1>2, <1>3 DEF IInv, Joint, State
<1>6. net["client"] \in Seq(Packet) /\ net["server"] \in Seq(Packet) /\ (made["client"] > 0) \in BOOLEAN
  BY <1>1 DEF IInv, Shape
<1>7. Full(net["client"]) /\ Full(net["server"]) /\ Full(st["client"].queue) /\ Full(st["server"].queue)
  BY <1>1 DEF IInv, Filled
<1> HIDE DEF Peers, Other
<1>8. CASE p = "client"
  BY <1>1, <1>2, <1>3, <1>5, <1>6, <1>7, <1>8
<1>9. CASE p = "server"
  BY <1>1, <1>2, <1>4, <1>5, <1>6, <1>7, <1>9
<1> QED  BY <1>1, <1>8, <1>9

\* a handler's outcome, stored by an action
LEMMA StoreStep ==
  ASSUME IInv, NEW p \in Peers, NEW d, NEW q \in Seq(Packet), Full(q), NEW asked \in BOOLEAN, NEW ph,
         Yields(d, st[p], st[Other(p)], net[Other(p)], q, asked, ph), Store(p, d, q)
  PROVE  /\ st' \in [Peers -> State] /\ net' \in [Peers -> Seq(Packet)] /\ Filled'
         /\ ~st'["client"].server
         /\ Joint(st'["client"], st'["server"], net'["server"], net'["client"], asked, ph)
         /\ \A r \in Peers : st[r].session_id # NoKey => st'[r].session_id = st[r].session_id
<1> DEFINE o == Other(p)
<1>1. /\ st[p] \in State /\ st[o] \in State /\ o \in Peers /\ o # p
      /\ net[p] \in Seq(Packet) /\ net[o] \in Seq(Packet)
      /\ st[p].server <=> p = "server"
      /\ Joint(st[p], st[o], net[o], net[p], made["client"] > 0, phase)
      /\ Full(net[p]) /\ Full(net[o]) /\ Full(st[p].queue)
  BY PeerFacts
<1>2. Full(st[o].queue)
  BY <1>1 DEF IInv, Filled
<1>3. PICK e \in State, r \in Seq(Packet) :
        /\ d = Carrying(e, r) /\ Joint(e, st[o], net[o] \o r, q, asked, ph)
        /\ st[p].session_id # NoKey => e.session_id = st[p].session_id
        /\ Full(st[p].queue) => Full(e.queue) /\ Full(r)
  BY DEF Yields
<1>4. d.sent = r /\ [d EXCEPT !.sent = <<>>] = e
  BY <1>3, CarryingFacts
<1>5. PICK z \in Seq(Packet) : z = net[o] \o r
  <2>1. net[o] \o r \in Seq(Packet)
    BY <1>1
  <2> QED  BY <2>1, Zenon
<1>6. Full(z) /\ Full(e.queue)
  BY <1>1, <1>3, <1>5, FullFacts
<1>7. st' = [st EXCEPT ![p] = e] /\ net' = [net EXCEPT ![p] = q, ![o] = z]
  BY <1>1, <1>4, <1>5 DEF Store
<1>8. st \in [Peers -> State] /\ net \in [Peers -> Seq(Packet)]
  BY DEF IInv, Shape
<1>9. Peers = {p, o} /\ ((p = "client" /\ o = "server") \/ (p = "server" /\ o = "client"))
  BY PeerNames
<1> HIDE DEF o
<1>10. /\ st' \in [Peers -> State] /\ net' \in [Peers -> Seq(Packet)]
       /\ st'[p] = e /\ st'[o] = st[o] /\ net'[p] = q /\ net'[o] = z
  BY <1>1, <1>7, <1>8
<1>11. Filled'
  BY <1>2, <1>6, <1>9, <1>10 DEF Filled
<1>12. Joint(e, st[o], z, q, asked, ph)
  BY <1>3, <1>5
<1>13. Joint(st[o], e, q, z, asked, ph)
  BY <1>1, <1>12, JointSym
<1>14. e.server <=> st[p].server
  <2>1. e.server # st[o].server
    BY <1>12 DEF Joint
  <2>2. st[p].server # st[o].server
    BY <1>1 DEF Joint
  <2>3. e.server \in BOOLEAN /\ st[p].server \in BOOLEAN /\ st[o].server \in BOOLEAN
    BY <1>1 DEF State
  <2> QED  BY <2>1, <2>2, <2>3
<1>15. \A k \in Peers : st[k].session_id # NoKey => st'[k].session_id = st[k].session_id
  BY <1>3, <1>9, <1>10
<1>16. CASE p = "client"
  <2>1. ~st'["client"].server
    BY <1>1, <1>10, <1>14, <1>16
  <2> QED  BY <1>9, <1>10, <1>11, <1>12, <1>15, <1>16, <2>1
<1>17. CASE p = "server"
  <2>1. ~st[o].server
    BY <1>9, <1>17 DEF IInv
  <2> QED  BY <1>9, <1>10, <1>11, <1>13, <1>15, <1>17, <2>1
<1> QED  BY <1>9, <1>16, <1>17

\* one step of the system, with what it may do to the session id
Advances == IInv' /\ \A p \in Peers : st[p].session_id # NoKey => st'[p].session_id = st[p].session_id

LEMMA AdvanceStep ==
  ASSUME IInv, NEW p \in Peers, NEW d, NEW q \in Seq(Packet), Full(q),
         Yields(d, st[p], st[Other(p)], net[Other(p)], q, made'["client"] > 0, phase'), Store(p, d, q),
         taken' \in [Peers -> Seq(Nat)], made' \in [Peers -> Nat], rekeys' \in Nat,
         phase' \in {"preauth", "handover", "postauth"}
  PROVE  Advances
<1>1. PICK asked \in BOOLEAN : asked <=> made'["client"] > 0
  OBVIOUS
<1>2. made'["client"] > 0 <=> asked
  BY <1>1
<1>3. (made'["client"] > 0) = asked
  BY <1>2
<1>4. Yields(d, st[p], st[Other(p)], net[Other(p)], q, asked, phase')
  BY <1>3
<1>5. /\ st' \in [Peers -> State] /\ net' \in [Peers -> Seq(Packet)] /\ Filled'
      /\ ~st'["client"].server
      /\ Joint(st'["client"], st'["server"], net'["server"], net'["client"], asked, phase')
      /\ \A r \in Peers : st[r].session_id # NoKey => st'[r].session_id = st[r].session_id
  BY <1>4, StoreStep
<1> QED  BY <1>3, <1>5 DEF Advances, IInv, Shape

\* the packet at the front of the queue is handled
LEMMA ReceiveAdvances ==
  ASSUME IInv, NEW p \in Peers, Receive(p)
  PROVE  Advances
<1> DEFINE a == st[p]
           b == st[Other(p)]
           x == net[Other(p)]
           y == net[p]
<1>1. /\ a \in State /\ b \in State /\ x \in Seq(Packet) /\ y \in Seq(Packet)
      /\ (made["client"] > 0) \in BOOLEAN /\ (a.server <=> p = "server")
      /\ Joint(a, b, x, y, made["client"] > 0, phase) /\ Full(y)
  BY PeerFacts
<1>2. y # <<>> /\ (a.server => phase # "handover")
  BY <1>1 DEF Receive, Runs
<1>3. PICK m : m = y[1]
  OBVIOUS
<1>4. m \in Packet /\ Head(y) = m /\ Tail(y) \in Seq(Packet)
  BY <1>1, <1>2, <1>3
<1>5. PICK want \in BOOLEAN :
        /\ Store(p, Got(a, m, want), Tail(y))
        /\ taken' = IF m.t = "DATA" THEN [taken EXCEPT ![p] = Append(@, m.body[1])] ELSE taken
        /\ phase' = IF m.t = "AUTH" THEN "handover" ELSE phase
        /\ rekeys' = rekeys + (IF want THEN 1 ELSE 0)
  <2>1. Wants \subseteq BOOLEAN
    BY DEF Wants
  <2> QED  BY <1>4, <2>1 DEF Receive, Got
<1>6. made' = made
  BY DEF Receive
<1>7. /\ made \in [Peers -> Nat] /\ taken \in [Peers -> Seq(Nat)] /\ rekeys \in Nat
      /\ phase \in {"preauth", "handover", "postauth"}
  BY DEF IInv, Shape
<1>8. Full(Tail(y))
  <2>1. PICK w : w = Tail(y)
    OBVIOUS
  <2>2. \A i \in DOMAIN w : i + 1 \in DOMAIN y /\ w[i] = y[i + 1]
    BY <1>1, <1>2, <2>1, TailFacts
  <2>3. Full(w)
    BY <1>1, <2>2 DEF Full
  <2> QED  BY <2>1, <2>3
<1>9. taken' \in [Peers -> Seq(Nat)]
  <2>1. CASE m.t = "DATA"
    <3>1. m.body \in Seq(Nat) /\ m.body # <<>>
      <4>1. 1 \in DOMAIN y
        BY <1>1, <1>2
      <4> QED  BY <1>1, <1>3, <1>4, <2>1, <4>1 DEF Full, Packet
    <3>2. PICK n \in Nat : n = m.body[1]
      BY <3>1
    <3>3. Append(taken[p], n) \in Seq(Nat)
      BY <1>7
    <3>4. taken' = [taken EXCEPT ![p] = Append(taken[p], n)]
      BY <1>5, <2>1, <3>2
    <3> QED  BY <1>7, <3>3, <3>4
  <2> QED  BY <1>5, <1>7, <2>1
<1>10. phase' \in {"preauth", "handover", "postauth"} /\ rekeys' \in Nat
  BY <1>5, <1>7
<1>11. Yields(Got(a, m, want), a, b, x, Tail(y), made["client"] > 0, phase')
  <2>1. PICK asked \in BOOLEAN : asked = (made["client"] > 0)
    BY <1>1
  <2>2. Joint(a, b, x, y, asked, phase)
    BY <1>1, <2>1
  <2>3. m.t \in KexTypes \cup {"EXTINFO", "AUTH", "SUCCESS", "DATA"}
    BY <1>4 DEF Packet
  <2> HIDE DEF a, b, x, y
  <2>4. CASE m.t = "AUTH"
    <3>1. Yields(Got(a, y[1], want), a, b, x, Tail(y), asked, "handover")
      BY <1>1, <1>2, <1>3, <2>2, <2>4, ReceiveAuth
    <3> QED  BY <1>3, <1>5, <2>1, <2>4, <3>1
  <2>5. CASE m.t # "AUTH"
    <3>1. phase' = phase
      BY <1>5, <2>5
    <3>2. Yields(Got(a, y[1], want), a, b, x, Tail(y), asked, phase)
      <4>1. CASE y[1].t \in Plain
        BY <1>1, <1>2, <2>2, <4>1, ReceivePlain
      <4>2. CASE y[1].t = "SUCCESS"
        BY <1>1, <1>2, <2>2, <4>2, ReceiveSuccess
      <4>3. CASE y[1].t = "KEXINIT"
        BY <1>1, <1>2, <2>2, <4>3, ReceiveKexinit
      <4>4. CASE y[1].t = "INIT"
        BY <1>1, <1>2, <2>2, <4>4, ReceiveInit
      <4>5. CASE y[1].t = "REPLY"
        BY <1>1, <1>2, <2>2, <4>5, ReceiveReply
      <4>6. CASE y[1].t = "NEWKEYS"
        BY <1>1, <1>2, <2>2, <4>6, ReceiveNewkeys
      <4> QED  BY <1>3, <2>3, <2>5, <4>1, <4>2, <4>3, <4>4, <4>5, <4>6 DEF KexTypes, Plain
    <3> QED  BY <1>3, <2>1, <3>1, <3>2
  <2> QED  BY <2>4, <2>5
<1>12. made' \in [Peers -> Nat] /\ Yields(Got(a, m, want), a, b, x, Tail(y), made'["client"] > 0, phase')
  BY <1>6, <1>7, <1>11
<1>13. PICK d : d = Got(a, m, want)
  OBVIOUS
<1>14. PICK q \in Seq(Packet) : q = Tail(y)
  BY <1>4
<1>15. Full(q) /\ Yields(d, a, b, x, q, made'["client"] > 0, phase') /\ Store(p, d, q)
  BY <1>5, <1>8, <1>12, <1>13, <1>14
<1> QED  BY <1>9, <1>10, <1>12, <1>15, AdvanceStep

LEMMA SendAdvances ==
  ASSUME IInv, NEW p \in Peers, Send(p)
  PROVE  Advances
<1>1. /\ st[p] \in State /\ st[Other(p)] \in State /\ net[p] \in Seq(Packet)
      /\ net[Other(p)] \in Seq(Packet) /\ (made["client"] > 0) \in BOOLEAN
      /\ (st[p].server <=> p = "server") /\ Full(net[p])
      /\ Joint(st[p], st[Other(p)], net[Other(p)], net[p], made["client"] > 0, phase)
  BY PeerFacts
<1>2. /\ made \in [Peers -> Nat] /\ taken \in [Peers -> Seq(Nat)] /\ rekeys \in Nat
      /\ phase \in {"preauth", "handover", "postauth"} /\ "client" \in Peers
  BY DEF IInv, Shape, Peers
<1>3. /\ st[p].auth /\ (p = "server" => phase # "handover") /\ made[p] \in 1..MaxData
      /\ made' = [made EXCEPT ![p] = @ + 1] /\ taken' = taken /\ phase' = phase
  BY DEF Send
<1>4. PICK want \in BOOLEAN : /\ Store(p, ssh_packet_send2(st[p], "DATA", <<made[p]>>, want), net[p])
                              /\ rekeys' = rekeys + (IF want THEN 1 ELSE 0)
  <2>1. Wants \subseteq BOOLEAN
    BY DEF Wants
  <2> QED  BY <2>1 DEF Send
<1>5. made' \in [Peers -> Nat] /\ (made'["client"] > 0 <=> made["client"] > 0) /\ rekeys' \in Nat
  <2>1. made' \in [Peers -> Nat] /\ rekeys' \in Nat
    BY <1>2, <1>3, <1>4
  <2>2. CASE p = "client"
    <3>1. made["client"] \in Nat /\ made'["client"] = made["client"] + 1 /\ made["client"] \in 1..MaxData
      BY <1>2, <1>3, <2>2
    <3>2. made["client"] > 0 /\ made'["client"] > 0
      BY <3>1
    <3> QED  BY <2>1, <3>2
  <2>3. CASE p # "client"
    <3>1. made'["client"] = made["client"]
      BY <1>2, <1>3, <2>3
    <3> QED  BY <2>1, <3>1
  <2> QED  BY <2>2, <2>3
<1>6. PICK asked \in BOOLEAN : asked = (made["client"] > 0)
  BY <1>1
<1>7. PICK n \in Nat : n = made[p]
  BY <1>2
<1>8. Joint(st[p], st[Other(p)], net[Other(p)], net[p], asked, phase) /\ (st[p].server => phase # "handover")
  BY <1>1, <1>3, <1>6
<1>9. Yields(ssh_packet_send2(st[p], "DATA", <<n>>, want), st[p], st[Other(p)], net[Other(p)], net[p],
             asked, phase)
  BY <1>1, <1>3, <1>8, SendYields
<1>10. PICK d : d = ssh_packet_send2(st[p], "DATA", <<made[p]>>, want)
  OBVIOUS
<1>11. (made'["client"] > 0) = asked
  BY <1>5, <1>6
<1>12. Yields(d, st[p], st[Other(p)], net[Other(p)], net[p], made'["client"] > 0, phase')
  BY <1>3, <1>7, <1>9, <1>10, <1>11
<1>13. Store(p, d, net[p]) /\ taken' \in [Peers -> Seq(Nat)] /\ phase' \in {"preauth", "handover", "postauth"}
  BY <1>2, <1>3, <1>4, <1>10
<1> QED  BY <1>1, <1>5, <1>12, <1>13, AdvanceStep

\* kex_start_rekex() by a peer between two exchanges, whoever asked for it
LEMMA RekexAdvances ==
  ASSUME IInv, NEW p \in Peers, st[p].done, st[p].auth, p = "server" => phase # "handover",
         Store(p, kex_start_rekex(st[p]), net[p]), rekeys' = rekeys + 1,
         UNCHANGED <<made, taken, phase>>
  PROVE  Advances
<1>1. /\ st[p] \in State /\ st[Other(p)] \in State /\ net[p] \in Seq(Packet)
      /\ net[Other(p)] \in Seq(Packet) /\ (made["client"] > 0) \in BOOLEAN
      /\ (st[p].server <=> p = "server") /\ Full(net[p])
      /\ Joint(st[p], st[Other(p)], net[Other(p)], net[p], made["client"] > 0, phase)
  BY PeerFacts
<1>2. /\ made \in [Peers -> Nat] /\ taken \in [Peers -> Seq(Nat)] /\ rekeys \in Nat
      /\ phase \in {"preauth", "handover", "postauth"}
  BY DEF IInv, Shape
<1>3. PICK asked \in BOOLEAN : asked = (made["client"] > 0)
  BY <1>1
<1>4. Yields(kex_start_rekex(st[p]), st[p], st[Other(p)], net[Other(p)], net[p], asked, phase)
  <2>1. /\ Joint(st[p], st[Other(p)], net[Other(p)], net[p], asked, phase)
        /\ st[p].server => phase # "handover"
    BY <1>1, <1>3
  <2> QED  BY <1>1, <2>1, RekexYields
<1>5. PICK d : d = kex_start_rekex(st[p])
  OBVIOUS
<1>6. made'["client"] = made["client"] /\ phase' = phase
  OBVIOUS
<1>7. Yields(d, st[p], st[Other(p)], net[Other(p)], net[p], made'["client"] > 0, phase') /\ Store(p, d, net[p])
  BY <1>3, <1>4, <1>5, <1>6
<1>8. /\ made' \in [Peers -> Nat] /\ taken' \in [Peers -> Seq(Nat)] /\ rekeys' \in Nat
      /\ phase' \in {"preauth", "handover", "postauth"}
  BY <1>2
<1> QED  BY <1>1, <1>7, <1>8, AdvanceStep

LEMMA CheckRekeyAdvances ==
  ASSUME IInv, NEW p \in Peers, CheckRekey(p)
  PROVE  Advances
<1>1. st[p] \in State
  BY PeerFacts
<1>2. st[p].auth /\ st[p].done
  <2>1. PICK want \in BOOLEAN : want <=> rekeys < MaxRekeys
    OBVIOUS
  <2>2. ssh_packet_need_rekeying(st[p], want)
    BY <2>1 DEF CheckRekey, ssh_packet_need_rekeying
  <2> QED  BY <1>1, <2>2, NeedFacts
<1> QED  BY <1>2, RekexAdvances DEF CheckRekey, Runs

LEMMA ManualRekeyAdvances ==
  ASSUME IInv, ManualRekey
  PROVE  Advances
<1>1. "client" \in Peers /\ "client" # "server"
  BY DEF Peers
<1>2. st["client"].done /\ st["client"].auth
  BY DEF ManualRekey, ssh_packet_is_rekeying
<1> QED  BY <1>1, <1>2, RekexAdvances DEF ManualRekey

LEMMA AuthenticateAdvances ==
  ASSUME IInv, Authenticate
  PROVE  Advances
<1>1. PICK p \in Peers : p = "client"
  BY DEF Peers
<1>2. /\ st[p] \in State /\ st[Other(p)] \in State /\ net[p] \in Seq(Packet)
      /\ net[Other(p)] \in Seq(Packet) /\ ~st[p].server /\ Full(net[p])
      /\ Joint(st[p], st[Other(p)], net[Other(p)], net[p], made[p] > 0, phase)
  BY <1>1, PeerFacts
<1>3. /\ made \in [Peers -> Nat] /\ taken \in [Peers -> Seq(Nat)] /\ rekeys \in Nat
      /\ phase \in {"preauth", "handover", "postauth"}
  BY DEF IInv, Shape
<1>4. /\ st[p].done /\ ~st[p].auth /\ made[p] = 0 /\ made' = [made EXCEPT ![p] = 1]
      /\ Store(p, ssh_packet_send2(st[p], "AUTH", <<>>, FALSE), net[p])
      /\ taken' = taken /\ phase' = phase /\ rekeys' = rekeys
  BY <1>1 DEF Authenticate
<1>5. (made[p] > 0) = FALSE /\ (made'["client"] > 0) = TRUE /\ made' \in [Peers -> Nat]
  BY <1>1, <1>3, <1>4
<1>6. PICK d : d = ssh_packet_send2(st[p], "AUTH", <<>>, FALSE)
  OBVIOUS
<1>7. Yields(d, st[p], st[Other(p)], net[Other(p)], net[p], TRUE, phase)
  <2>1. Joint(st[p], st[Other(p)], net[Other(p)], net[p], FALSE, phase)
    BY <1>2, <1>5
  <2> QED  BY <1>2, <1>4, <1>6, <2>1, AskYields
<1>8. /\ Yields(d, st[p], st[Other(p)], net[Other(p)], net[p], made'["client"] > 0, phase')
      /\ Store(p, d, net[p]) /\ taken' \in [Peers -> Seq(Nat)] /\ rekeys' \in Nat
      /\ phase' \in {"preauth", "handover", "postauth"}
  BY <1>3, <1>4, <1>5, <1>6, <1>7
<1> QED  BY <1>2, <1>5, <1>8, AdvanceStep

LEMMA HandoverAdvances ==
  ASSUME IInv, Handover
  PROVE  Advances
<1>1. PICK p \in Peers : p = "server"
  BY DEF Peers
<1>2. /\ st[p] \in State /\ st[Other(p)] \in State /\ net[p] \in Seq(Packet)
      /\ net[Other(p)] \in Seq(Packet) /\ st[p].server /\ Full(net[p]) /\ Full(st[p].queue)
      /\ Joint(st[p], st[Other(p)], net[Other(p)], net[p], made["client"] > 0, phase)
      /\ (made["client"] > 0) \in BOOLEAN
  BY <1>1, PeerFacts
<1>3. /\ made \in [Peers -> Nat] /\ taken \in [Peers -> Seq(Nat)] /\ rekeys \in Nat
  BY DEF IInv, Shape
<1>4. /\ phase = "handover" /\ phase' = "postauth" /\ made' = made /\ taken' = taken
      /\ rekeys' = rekeys /\ Store(p, ssh_packet_set_state(st[p]), net[p])
  BY <1>1 DEF Handover
<1>5. PICK asked \in BOOLEAN : asked = (made["client"] > 0)
  BY <1>2
<1>6. Joint(st[p], st[Other(p)], net[Other(p)], net[p], asked, "handover")
  BY <1>2, <1>4, <1>5
<1>7. /\ Coherent(st[p]) /\ PhaseOf(st[p]) = "idle" /\ st[p].queue = <<>> /\ st[p].auth
      /\ st[p].compIn = 1 /\ st[p].compOut = 1
  BY <1>2, <1>6 DEF Joint, Login
<1>8. PICK d : d = ssh_packet_set_state(st[p])
  OBVIOUS
<1>9. /\ d \in State /\ SameExchange(st[p], d) /\ d.auth = st[p].auth /\ d.compIn = st[p].compIn
      /\ d.compOut = st[p].compOut /\ d.seqIn = st[p].seqIn /\ d.seqOut = st[p].seqOut
  BY <1>2, <1>7, <1>8, SetStateFacts
<1>10. Joint(d, st[Other(p)], net[Other(p)], net[p], asked, "postauth")
  BY <1>2, <1>6, <1>9, HandoverStep
<1>11. d.session_id = st[p].session_id /\ d.queue = st[p].queue
  BY <1>9 DEF SameExchange
<1>12. Yields(d, st[p], st[Other(p)], net[Other(p)], net[p], asked, "postauth")
  BY <1>2, <1>9, <1>10, <1>11, StayYields
<1>13. /\ Yields(d, st[p], st[Other(p)], net[Other(p)], net[p], made'["client"] > 0, phase')
       /\ Store(p, d, net[p]) /\ taken' \in [Peers -> Seq(Nat)] /\ rekeys' \in Nat
       /\ phase' \in {"preauth", "handover", "postauth"} /\ made' \in [Peers -> Nat]
  BY <1>3, <1>4, <1>5, <1>8, <1>12
<1> QED  BY <1>2, <1>13, AdvanceStep

-----------------------------------------------------------------------------
(* Both peers begin with their first KEXINIT on its way.                    *)

\* a peer after kex_setup()
Begun(s, sender) ==
  /\ s.server <=> sender
  /\ s.rekeying /\ ~s.auth /\ ~s.done /\ s.init_sent /\ s.initial /\ s.err = "none" /\ s.sent = <<>>
  /\ s.my = 1 /\ s.keyOut = NoKey /\ s.keyIn = NoKey /\ s.compOut = 0 /\ s.compIn = 0
  /\ s.seqOut = 1 /\ s.seqIn = 0 /\ s.session_id = NoKey /\ s.handles = {"KEXINIT"} /\ s.queue = <<>>

LEMMA FirstKexinit ==
  ASSUME NEW server \in BOOLEAN
  PROVE  \E e \in State, m \in Packet :
           /\ kex_send_kexinit(ssh_alloc_session_state(server)) = Carrying(e, <<m>>) /\ Begun(e, server)
           /\ m.t = "KEXINIT" /\ m.body = <<e.my>> /\ Seal(m) = <<NoKey, 0, 0>>
<1>1. NoKey \in Keys /\ {"KEXINIT"} \in SUBSET KexTypes /\ 0 \in Nat /\ 1 \in Nat
      /\ <<>> \in Seq([t : {"EXTINFO", "AUTH", "SUCCESS", "DATA"}, body : Seq(Nat)])
  BY DEF NoKey, Keys, KexTypes
<1>2. PICK o \in Keys, h \in SUBSET KexTypes, z \in Nat, n \in Nat,
           q \in Seq([t : {"EXTINFO", "AUTH", "SUCCESS", "DATA"}, body : Seq(Nat)]) :
        o = NoKey /\ h = {"KEXINIT"} /\ z = 0 /\ n = 1 /\ q = <<>>
  BY <1>1
<1>3. PICK s : s = ssh_alloc_session_state(server)
  OBVIOUS
<1>4. /\ s \in State /\ (s.server <=> server) /\ ~s.auth /\ s.initial /\ s.err = "none" /\ s.sent = q
      /\ s.my = z /\ s.keyOut = o /\ s.keyIn = o /\ s.compOut = z /\ s.compIn = z /\ ~s.init_sent
      /\ s.seqOut = z /\ s.seqIn = z /\ s.session_id = o /\ s.handles = h /\ s.queue = q
  BY <1>1, <1>2, <1>3 DEF ssh_alloc_session_state, State
<1>5. PICK m \in Packet : m = Pkt(s, "KEXINIT", <<s.my + 1>>)
  <2>1. "KEXINIT" \in KexTypes /\ <<s.my + 1>> \in Seq(Nat)
    BY <1>4 DEF KexTypes, State
  <2> QED  BY <1>4, <2>1, PktIn
<1>6. PICK e \in State : e = Rekeyed(s)
  BY <1>4, RekeyedIn
<1>7. kex_send_kexinit(s) = Carrying(e, <<m>>)
  BY <1>4, <1>5, <1>6, KexinitFlat
<1>8. s.seqOut + 1 = n /\ s.my + 1 = n /\ Advance(s.compOut) = z
  BY <1>2, <1>4 DEF Advance
<1>9. m.t = "KEXINIT" /\ m.body = <<n>> /\ Seal(m) = <<o, z, z>>
  BY <1>4, <1>5, <1>8 DEF Pkt, Seal
<1>10. e = [s EXCEPT !.done = FALSE, !.my = n, !.rekeying = TRUE, !.init_sent = TRUE,
                     !.seqOut = n, !.usedOut = TRUE, !.compOut = z]
  BY <1>6, <1>8 DEF Rekeyed
<1>11. /\ e.server = s.server /\ e.auth = s.auth /\ e.initial = s.initial /\ e.err = s.err
       /\ e.sent = s.sent /\ e.keyOut = s.keyOut /\ e.keyIn = s.keyIn /\ e.compIn = s.compIn
       /\ e.seqIn = s.seqIn /\ e.session_id = s.session_id /\ e.handles = s.handles
       /\ e.queue = s.queue /\ e.done = FALSE /\ e.my = n /\ e.rekeying = TRUE
       /\ e.init_sent = TRUE /\ e.seqOut = n /\ e.compOut = z
  BY <1>4, <1>10, ZenonT(60) DEF State
<1>12. Begun(e, server)
  BY <1>2, <1>4, <1>11 DEF Begun
<1>13. /\ kex_send_kexinit(ssh_alloc_session_state(server)) = Carrying(e, <<m>>) /\ Begun(e, server)
       /\ m.t = "KEXINIT" /\ m.body = <<e.my>> /\ Seal(m) = <<NoKey, 0, 0>>
  BY <1>2, <1>3, <1>7, <1>9, <1>11, <1>12
<1> QED  BY <1>13, Zenon

LEMMA BegunJoint ==
  ASSUME NEW a \in State, NEW b \in State, Begun(a, FALSE), Begun(b, TRUE), NEW m \in Packet, NEW k \in Packet,
         m.t = "KEXINIT", m.body = <<a.my>>, Seal(m) = <<NoKey, 0, 0>>,
         k.t = "KEXINIT", k.body = <<b.my>>, Seal(k) = <<NoKey, 0, 0>>
  PROVE  Joint(a, b, <<m>>, <<k>>, FALSE, "preauth")
<1>1. PhaseOf(a) = "sent" /\ PhaseOf(b) = "sent" /\ Coherent(a) /\ Coherent(b)
  <2>1. ASSUME NEW s \in State, NEW f, Begun(s, f) PROVE PhaseOf(s) = "sent" /\ Coherent(s)
    <3>1. PhaseOf(s) = "sent"
      BY <2>1 DEF Begun, PhaseOf
    <3>2. s.init_sent = ~s.done
      BY <2>1 DEF Begun, State
    <3>3. s.my > 0 /\ \A i \in DOMAIN s.queue : FALSE
      BY <2>1 DEF Begun
    <3> QED  BY <2>1, <3>1, <3>2, <3>3 DEF Begun, Coherent
  <2> QED  BY <2>1
<1>2. ASSUME NEW s \in State, NEW r \in State, NEW u \in Packet, NEW f, NEW g, Begun(s, f), Begun(r, g),
             u.t = "KEXINIT", u.body = <<s.my>>, Seal(u) = <<NoKey, 0, 0>>,
             PhaseOf(s) = "sent", PhaseOf(r) = "sent"
      PROVE  Half(s, r, <<u>>)
  <2>1. PICK x \in Seq(Packet) : x = <<u>>
    <3>1. <<u>> \in Seq(Packet)
      OBVIOUS
    <3> QED  BY <3>1, Zenon
  <2>2. DOMAIN x = {1} /\ x[1] = u /\ Len(x) = 1 /\ x # <<>>
    BY <2>1
  <2>3. Exchange(s, r, x)
    BY <1>2, <2>2 DEF Exchange, Phases, Has, Neat, KexTypes
  <2>4. Cookies(s, r, x)
    BY <1>2, <2>2 DEF Cookies, Phases, Begun
  <2>5. Sealed(s, r, x)
    <3>1. u.key = NoKey /\ u.seq = 0 /\ u.comp = 0
      BY <1>2 DEF Seal
    <3>2. NextSeal(u, NoKey, 0) = <<NoKey, 1, 0>>
      BY <1>2, <3>1 DEF NextSeal, Advance
    <3> QED  BY <1>2, <2>2, <3>2 DEF Sealed, Chain, Begun, Reset
  <2> QED  BY <2>1, <2>3, <2>4, <2>5 DEF Half
<1>3. Half(a, b, <<m>>) /\ Half(b, a, <<k>>)
  BY <1>1, <1>2
<1>4. Login(a, b, <<m>>, <<k>>, FALSE, "preauth")
  <2>1. PICK x, y : x = <<m>> /\ y = <<k>>
    OBVIOUS
  <2>2. DOMAIN x = {1} /\ x[1] = m /\ Len(x) = 1 /\ DOMAIN y = {1} /\ y[1] = k
    BY <2>1
  <2>3. ~Has(x, "SUCCESS") /\ ~Has(y, "SUCCESS") /\ ~Has(x, "AUTH") /\ ~Has(y, "AUTH")
    BY <2>2 DEF Has
  <2>4. Login(a, b, x, y, FALSE, "preauth")
    BY <1>1, <2>2, <2>3 DEF Login, Phases, Begun
  <2> QED  BY <2>1, <2>4
<1>5. SameId(a, b) /\ a.server # b.server /\ ~a.server
  BY DEF SameId, Begun
<1> QED  BY <1>1, <1>3, <1>4, <1>5 DEF Joint

LEMMA InitInv == Init => IInv
<1> SUFFICES ASSUME Init PROVE IInv
  OBVIOUS
<1>1. PICK a \in State, m \in Packet :
        /\ kex_send_kexinit(ssh_alloc_session_state(FALSE)) = Carrying(a, <<m>>) /\ Begun(a, FALSE)
        /\ m.t = "KEXINIT" /\ m.body = <<a.my>> /\ Seal(m) = <<NoKey, 0, 0>>
  BY FirstKexinit
<1>2. PICK b \in State, k \in Packet :
        /\ kex_send_kexinit(ssh_alloc_session_state(TRUE)) = Carrying(b, <<k>>) /\ Begun(b, TRUE)
        /\ k.t = "KEXINIT" /\ k.body = <<b.my>> /\ Seal(k) = <<NoKey, 0, 0>>
  BY FirstKexinit
<1>3. PICK x \in Seq(Packet), y \in Seq(Packet) : x = <<m>> /\ y = <<k>>
  <2>1. <<m>> \in Seq(Packet) /\ <<k>> \in Seq(Packet)
    OBVIOUS
  <2> QED  BY <2>1, Zenon
<1>4. /\ Carrying(a, x).sent = x /\ [Carrying(a, x) EXCEPT !.sent = <<>>] = a
      /\ Carrying(b, y).sent = y /\ [Carrying(b, y) EXCEPT !.sent = <<>>] = b
  BY CarryingFacts
<1>5. Joint(a, b, x, y, FALSE, "preauth")
  BY <1>1, <1>2, <1>3, BegunJoint
<1> DEFINE first(p) == kex_send_kexinit(ssh_alloc_session_state(p = "server"))
<1>6. first("client") = Carrying(a, x) /\ first("server") = Carrying(b, y)
  <2>1. ("client" = "server") = FALSE /\ ("server" = "server") = TRUE
    OBVIOUS
  <2> QED  BY <1>1, <1>2, <1>3, <2>1
<1>7. /\ st = [p \in Peers |-> [first(p) EXCEPT !.sent = <<>>]]
      /\ net = [p \in Peers |-> first(Other(p)).sent]
      /\ made = [p \in Peers |-> IF p = "client" THEN 0 ELSE 1]
      /\ taken = [p \in Peers |-> <<>>] /\ phase = "preauth" /\ rekeys = 0
  BY DEF Init
<1>8. /\ Peers = {"client", "server"} /\ Other("client") = "server" /\ Other("server") = "client"
      /\ "client" # "server"
  BY DEF Peers, Other
<1> HIDE DEF first, Peers, Other
<1>9. st["client"] = a /\ st["server"] = b /\ net["client"] = y /\ net["server"] = x
  BY <1>4, <1>6, <1>7, <1>8
<1>10. Shape
  <2>1. st = [p \in Peers |-> st[p]] /\ net = [p \in Peers |-> net[p]]
    BY <1>7
  <2>2. \A p \in Peers : st[p] \in State /\ net[p] \in Seq(Packet)
    BY <1>8, <1>9
  <2>3. st \in [Peers -> State] /\ net \in [Peers -> Seq(Packet)]
    BY <2>1, <2>2
  <2>4. taken \in [Peers -> Seq(Nat)] /\ made \in [Peers -> Nat]
    BY <1>7
  <2> QED  BY <1>7, <2>3, <2>4 DEF Shape
<1>11. Filled
  <2>1. Full(x) /\ Full(y)
    BY <1>1, <1>2, <1>3, FullFacts
  <2>2. Full(a.queue) /\ Full(b.queue)
    BY <1>1, <1>2, FullFacts DEF Begun
  <2> QED  BY <1>8, <1>9, <2>1, <2>2 DEF Filled
<1>12. (made["client"] > 0) = FALSE /\ ~a.server
  BY <1>1, <1>7, <1>8 DEF Begun
<1> QED  BY <1>5, <1>7, <1>9, <1>10, <1>11, <1>12 DEF IInv

-----------------------------------------------------------------------------
(* The theorems.                                                            *)

LEMMA NextInv == IInv /\ [Next]_vars => Advances
<1> SUFFICES ASSUME IInv, [Next]_vars PROVE Advances
  OBVIOUS
<1>1. CASE UNCHANGED vars
  BY <1>1 DEF vars, Advances, IInv, Shape, Filled
<1>2. ASSUME NEW p \in Peers, Receive(p) PROVE Advances
  BY <1>2, ReceiveAdvances
<1>3. ASSUME NEW p \in Peers, Send(p) PROVE Advances
  BY <1>3, SendAdvances
<1>4. ASSUME NEW p \in Peers, CheckRekey(p) PROVE Advances
  BY <1>4, CheckRekeyAdvances
<1>5. CASE Authenticate
  BY <1>5, AuthenticateAdvances
<1>6. CASE ManualRekey
  BY <1>6, ManualRekeyAdvances
<1>7. CASE Handover
  BY <1>7, HandoverAdvances
<1> QED  BY <1>1, <1>2, <1>3, <1>4, <1>5, <1>6, <1>7 DEF Next

LEMMA Invariant == Spec => []IInv
<1>1. IInv /\ [Next]_vars => IInv'
  BY NextInv DEF Advances
<1> QED  BY InitInv, <1>1, PTL DEF Spec

\* The state of both peers, the packets on their way and what was received keep their types
\* in every behaviour: in particular no error, queue or sequence number leaves its range, and
\* every packet of the upper layers that arrives carries its number.
THEOREM TypeCorrect == Spec => []TypeOK
<1>1. IInv => TypeOK
  BY DEF IInv, Shape, TypeOK
<1> QED  BY Invariant, <1>1, PTL

\* For any number of packets, of rekeyings and of reasons to rekey on either side, every
\* packet that is read passes its MAC, decompresses and finds a handler, the signature of the
\* exchange verifies, and no exchange begins on top of another (ssh_packet_read_poll2(),
\* ssh_dispatch_run(), input_kex_gen_reply(), kex_start_rekex()).
THEOREM PacketsHandled == Spec => []EveryPacketHandled
<1>1. IInv => EveryPacketHandled
  <2> SUFFICES ASSUME IInv, NEW p \in Peers PROVE st[p].err = "none"
    BY DEF EveryPacketHandled
  <2>1. Joint(st[p], st[Other(p)], net[Other(p)], net[p], made["client"] > 0, phase)
    BY PeerFacts
  <2> QED  BY <2>1 DEF Joint, Coherent
<1> QED  BY Invariant, <1>1, PTL

\* Between its KEXINIT and its NEWKEYS a peer has only packets of the key exchange on their
\* way (ssh_packet_send2() queues every other one until dequeue()).
THEOREM RekeyingIsExclusive == Spec => []OnlyKexDuringRekey
<1>1. IInv => OnlyKexDuringRekey
  <2> SUFFICES ASSUME IInv, NEW p \in Peers, NEW i \in 1..Len(net[p]), NEW j \in 1..Len(net[p]),
                      i < j, net[p][i].t = "KEXINIT", net[p][j].t \notin KexTypes
               PROVE  FALSE
    BY DEF OnlyKexDuringRekey
  <2>1. /\ Joint(st[p], st[Other(p)], net[Other(p)], net[p], made["client"] > 0, phase)
        /\ net[p] \in Seq(Packet)
    BY PeerFacts
  <2>2. Neat(net[p])
    BY <2>1 DEF Joint, Half, Exchange
  <2>3. i \in DOMAIN net[p] /\ j \in DOMAIN net[p]
    BY <2>1
  <2> QED  BY <2>2, <2>3 DEF Neat
<1> QED  BY Invariant, <1>1, PTL

\* Once a peer has a session id it keeps it, through every rekeying and the handover to the
\* post-authentication process, and the two peers never have different ones
\* (kex_derive_keys(), ssh_packet_set_state()).
THEOREM SessionIdStays == Spec => SessionIdFixed
<1>1. IInv /\ [Next]_vars =>
        \A p \in Peers :
          /\ st[p].session_id # NoKey => st'[p].session_id = st[p].session_id
          /\ NoKey \in {st'[p].session_id, st'[Other(p)].session_id}
             \/ st'[p].session_id = st'[Other(p)].session_id
  <2> SUFFICES ASSUME IInv, [Next]_vars, NEW p \in Peers
               PROVE  /\ st[p].session_id # NoKey => st'[p].session_id = st[p].session_id
                      /\ NoKey \in {st'[p].session_id, st'[Other(p)].session_id}
                         \/ st'[p].session_id = st'[Other(p)].session_id
    OBVIOUS
  <2>1. Advances
    BY NextInv
  <2>2. SameId(st'["client"], st'["server"])
    BY <2>1 DEF Advances, IInv, Joint
  <2>3. (p = "client" /\ Other(p) = "server") \/ (p = "server" /\ Other(p) = "client")
    BY PeerNames
  <2>4. \/ st'["client"].session_id = NoKey
        \/ st'["client"].session_id = st'["server"].session_id
    BY <2>2 DEF SameId
  <2> QED  BY <2>1, <2>3, <2>4 DEF Advances
<1> QED  BY Invariant, <1>1, PTL DEF Spec, SessionIdFixed

=============================================================================
