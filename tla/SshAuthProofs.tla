--------------------------- MODULE SshAuthProofs ---------------------------
(***************************************************************************)
(* What the monitor of SshAuth guarantees for any configuration, any keys  *)
(* and any number of attempts, to a child that follows its program and to  *)
(* one that sends whatever it likes.                                       *)
(*                                                                         *)
(* The monitor changes in one way only, by taking a request (Monitor()) or *)
(* by exiting, so that the facts about a login are an invariant of its     *)
(* record alone.  The terminals are an invariant of both records.          *)
(*                                                                         *)
(* That both processes come to the same verdict is a second invariant,     *)
(* Agree, of a child that follows its program: what each turn of the       *)
(* monitor makes of the lists, the keys and the failures (Judged), the     *)
(* child makes of them too before the next packet (Met, AgreeX).           *)
(***************************************************************************)
EXTENDS SshAuth, FiniteSetTheorems, SequenceTheorems, TLAPS

-----------------------------------------------------------------------------
(* The types of the two records and of the requests.                        *)

ReqTypes == {"MODULI", "SIGN", "PWNAM", "AUTHSERV", "BANNER", "AUTHPASSWORD", "KEYALLOWED",
             "KEYVERIFY", "KEYEXPORT", "TERM", "PTY", "PTYCLEANUP"}
Requests == [t : ReqTypes, kind : Kinds, key : Keys \cup Ttys \cup {NoKey}, data : Kinds,
             good : BOOLEAN, pw : Passwords]

\* a password comes without a key
Proper(q) == /\ q \in Requests
             /\ q.t = "AUTHPASSWORD" => q.key = NoKey
             /\ q.t \in {"KEYALLOWED", "KEYVERIFY"} => q.key \in Keys
             /\ q.t = "PTY" => q.key \in Ttys \cup {NoKey}

Lists == UNION {[D -> Seq(Methods)] : D \in SUBSET Nat}
Reasons == {"none", "multiple attempts for getpwnam", "password authentication not enabled",
            "bad key, not previously allowed", "bad signature data blob", "unsupported request",
            "unpermitted request", "too many authentication attempts",
            "authenticated invalid user", "method not in AuthenticationMethods",
            "unexpected request"}

MState == [phase : {"preauth", "export", "postauth", "direct", "exited"}, permit : SUBSET ReqTypes,
           attempt : Nat, valid : BOOLEAN, failures : Nat, lists : Lists, used : SUBSET Keys,
           key : Keys \cup {NoKey}, kind : Kinds, calls : Nat, force : Commands, pty : BOOLEAN,
           ttys : SUBSET Ttys, method : Methods \cup {"unknown"}, ans : BOOLEAN, fatal : Reasons,
           earned : Seq((Methods \cup {"unknown"}) \X (Keys \cup Ttys \cup {NoKey}))]

CState == [status : {"kex", "service", "auth", "user", "dead"}, sane : BOOLEAN,
           service : {"none", "ssh-connection", "other"}, attempt : Nat, failures : Nat,
           valid : BOOLEAN, lists : Lists, used : SUBSET Keys, none : BOOLEAN, success : BOOLEAN,
           force : Commands, pty : BOOLEAN, ttys : SUBSET Ttys]

-----------------------------------------------------------------------------
(* The invariant of the monitor s under the options o.                      *)

\* r is what is left of the list l; the methods before it are found in e, in their order
Reached(l, r, e) ==
  \E k \in Nat :
    /\ Len(l) = k + Len(r) /\ \A j \in DOMAIN r : r[j] = l[j + k]
    /\ \E f \in [1..k -> DOMAIN e] :
         \A a \in 1..k : e[f[a]][1] = l[a] /\ \A b \in 1..k : a < b => f[a] < f[b]

Progress(o, s) ==
  \A i \in DOMAIN s.lists : i \in DOMAIN o.lists /\ Reached(o.lists[i], s.lists[i], s.earned)

\* a key that was used is not offered again, and what was earned with a key is marked as used
OnceEach(s) ==
  /\ s.key \notin s.used
  /\ \A i \in DOMAIN s.earned : s.earned[i][2] # NoKey => s.earned[i][2] \in s.used
  /\ \A i, j \in DOMAIN s.earned :
       (i # j /\ s.earned[i][2] = s.earned[j][2]) => s.earned[i][2] = NoKey

\* LoginEarned of a monitor that has taken the user in
Entitled(o, s) ==
  /\ o.exists /\ s.earned # <<>>
  /\ o.lists # <<>> => \E i \in DOMAIN o.lists : Within(o.lists[i], s.earned)
  /\ \A i, j \in DOMAIN s.earned :
       (i # j /\ s.earned[i][2] = s.earned[j][2]) => s.earned[i][2] = NoKey
  /\ o.root => auth_root_allowed(o, s.earned[Len(s.earned)][1], s.force)

\* no terminal but after the login, and never more than there may be sessions
Held(s) ==
  /\ s.phase # "postauth" => s.ttys = {}
  /\ IsFiniteSet(s.ttys) /\ Cardinality(s.ttys) <= MaxSessions

Counted(o, s) ==
  /\ s.attempt <= 1 /\ s.failures <= o.tries + 1 /\ (s.phase # "exited" => s.failures <= o.tries)

MInv(o, s) ==
  /\ s \in MState /\ (s.valid => o.exists) /\ OnceEach(s) /\ Progress(o, s) /\ Held(s) /\ Counted(o, s)
  /\ s.phase \in {"export", "postauth", "direct"} => Entitled(o, s)

\* what ties a child that follows its program to the monitor
Tie(x) ==
  /\ x.c.status \in {"kex", "service", "auth"} =>
       x.m.phase \in {"preauth", "export", "exited"} /\ x.c.ttys = {}
  /\ x.m.phase = "postauth" => x.c.ttys = x.m.ttys

\* the child's own counts
Bounded(o, d) ==
  d.attempt <= MaxAttempts /\ d.failures <= o.tries + 1 /\ (d.status # "dead" => d.failures <= o.tries)

Pairs == [c : CState, m : MState]

Good(o, x) == x \in Pairs /\ MInv(o, x.m) /\ Bounded(o, x.c) /\ (x.c.sane => Tie(x))

IInv == conf \in Conf /\ Good(conf, Pair)

-----------------------------------------------------------------------------
(* The lists of AuthenticationMethods.                                      *)

\* nothing of a list is done yet
LEMMA ReachedStart ==
  ASSUME NEW l \in Seq(Methods), NEW e
  PROVE  Reached(l, l, e)
<1>1. Len(l) = 0 + Len(l) /\ \A j \in DOMAIN l : l[j] = l[j + 0]
  OBVIOUS
<1>2. \E f \in [1..0 -> DOMAIN e] :
        \A a \in 1..0 : e[f[a]][1] = l[a] /\ \A b \in 1..0 : a < b => f[a] < f[b]
  <2>1. 1..0 = {}
    OBVIOUS
  <2>2. PICK f : f = [i \in 1..0 |-> 1]
    OBVIOUS
  <2>3. f \in [1..0 -> DOMAIN e] /\ \A a \in 1..0 : FALSE
    BY <2>1, <2>2
  <2> QED  BY <2>3
<1> QED  BY <1>1, <1>2 DEF Reached

\* something more was earned
LEMMA ReachedMore ==
  ASSUME NEW l, NEW r, NEW E, NEW e \in Seq(E), NEW z \in E, Reached(l, r, e)
  PROVE  Reached(l, r, Append(e, z))
<1>1. PICK k \in Nat :
        /\ Len(l) = k + Len(r) /\ \A j \in DOMAIN r : r[j] = l[j + k]
        /\ \E f \in [1..k -> DOMAIN e] :
             \A a \in 1..k : e[f[a]][1] = l[a] /\ \A b \in 1..k : a < b => f[a] < f[b]
  BY DEF Reached
<1>2. PICK f \in [1..k -> DOMAIN e] :
        \A a \in 1..k : e[f[a]][1] = l[a] /\ \A b \in 1..k : a < b => f[a] < f[b]
  BY <1>1
<1>3. PICK w : w = Append(e, z)
  OBVIOUS
<1>4. \A i \in DOMAIN e : i \in DOMAIN w /\ w[i] = e[i]
  BY <1>3
<1>5. f \in [1..k -> DOMAIN w] /\ \A a \in 1..k : w[f[a]][1] = l[a]
  BY <1>2, <1>4
<1>6. \E h \in [1..k -> DOMAIN w] :
        \A a \in 1..k : w[h[a]][1] = l[a] /\ \A b \in 1..k : a < b => h[a] < h[b]
  BY <1>2, <1>5
<1>7. Reached(l, r, w)
  BY <1>1, <1>6, Zenon DEF Reached
<1> QED  BY <1>3, <1>7

\* the method that was next in a list was earned
LEMMA ReachedNext ==
  ASSUME NEW l \in Seq(Methods), NEW r \in Seq(Methods), NEW E, NEW e \in Seq(E), NEW z \in E,
         Reached(l, r, e), r # <<>>, Head(r) = z[1]
  PROVE  /\ Reached(l, Tail(r), Append(e, z))
         /\ Len(r) = 1 => Within(l, Append(e, z))
<1>1. PICK k \in Nat :
        /\ Len(l) = k + Len(r) /\ \A j \in DOMAIN r : r[j] = l[j + k]
        /\ \E f \in [1..k -> DOMAIN e] :
             \A a \in 1..k : e[f[a]][1] = l[a] /\ \A b \in 1..k : a < b => f[a] < f[b]
  BY DEF Reached
<1>2. PICK f \in [1..k -> DOMAIN e] :
        \A a \in 1..k : e[f[a]][1] = l[a] /\ \A b \in 1..k : a < b => f[a] < f[b]
  BY <1>1, Zenon
<1>3. PICK w : w = Append(e, z)
  OBVIOUS
<1>4. PICK n \in Nat : n = Len(e) + 1
  OBVIOUS
<1>5. /\ \A i \in DOMAIN e : i \in DOMAIN w /\ w[i] = e[i] /\ i \in Nat /\ i < n
      /\ n \in DOMAIN w /\ w[n] = z
  BY <1>3, <1>4
<1>6. r[1] = z[1] /\ 1 \in DOMAIN r /\ l[k + 1] = z[1] /\ Len(r) \in Nat
  <2>1. Len(r) \in Nat /\ 1 \in DOMAIN r /\ r[1] = z[1]
    BY EmptySeq
  <2>2. r[1] = l[1 + k]
    BY <1>1, <2>1, Zenon
  <2>3. 1 + k = k + 1
    OBVIOUS
  <2> QED  BY <2>1, <2>2, <2>3
<1>7. PICK g : g = [a \in 1..(k + 1) |-> IF a = k + 1 THEN n ELSE f[a]]
  OBVIOUS
<1>8. g \in [1..(k + 1) -> DOMAIN w] /\ \A a \in 1..(k + 1) : w[g[a]][1] = l[a]
  <2>1. ASSUME NEW a \in 1..(k + 1) PROVE g[a] \in DOMAIN w /\ w[g[a]][1] = l[a]
    <3>1. CASE a = k + 1
      BY <1>5, <1>6, <1>7, <3>1
    <3>2. CASE a # k + 1
      <4>1. a \in 1..k /\ g[a] = f[a]
        BY <1>7, <3>2
      <4>2. f[a] \in DOMAIN e /\ e[f[a]][1] = l[a]
        BY <1>2, <4>1
      <4> QED  BY <1>5, <4>1, <4>2
    <3> QED  BY <3>1, <3>2
  <2> QED  BY <1>7, <2>1
<1>9. \A a, b \in 1..(k + 1) : a < b => g[a] < g[b]
  <2> SUFFICES ASSUME NEW a \in 1..(k + 1), NEW b \in 1..(k + 1), a < b PROVE g[a] < g[b]
    OBVIOUS
  <2>1. a \in 1..k /\ g[a] = f[a] /\ f[a] \in DOMAIN e
    BY <1>2, <1>7
  <2>2. CASE b = k + 1
    BY <1>5, <1>7, <2>1, <2>2
  <2>3. CASE b # k + 1
    <3>1. b \in 1..k /\ g[b] = f[b]
      BY <1>7, <2>3
    <3> QED  BY <1>2, <2>1, <3>1
  <2> QED  BY <2>2, <2>3
<1>10. Reached(l, Tail(r), w)
  <2>1. PICK v \in Seq(Methods) : v = Tail(r)
    <3>1. Tail(r) \in Seq(Methods)
      OBVIOUS
    <3> QED  BY <3>1, Zenon
  <2>2. Len(v) = Len(r) - 1 /\ \A j \in DOMAIN v : v[j] = r[j + 1] /\ j + 1 \in DOMAIN r /\ j \in Nat
    BY <2>1
  <2>3. Len(l) = (k + 1) + Len(v) /\ \A j \in DOMAIN v : v[j] = l[j + (k + 1)]
    <3>1. Len(l) = (k + 1) + Len(v)
      BY <1>1, <1>6, <2>2
    <3>2. ASSUME NEW j \in DOMAIN v PROVE v[j] = l[j + (k + 1)]
      <4>1. v[j] = r[j + 1] /\ j + 1 \in DOMAIN r /\ j \in Nat
        BY <2>2
      <4>2. r[j + 1] = l[(j + 1) + k]
        BY <1>1, <4>1
      <4>3. (j + 1) + k = j + (k + 1)
        BY <4>1
      <4> QED  BY <4>1, <4>2, <4>3
    <3> QED  BY <3>1, <3>2
  <2>4. k + 1 \in Nat
    OBVIOUS
  <2>5. \E h \in [1..(k + 1) -> DOMAIN w] :
          \A a \in 1..(k + 1) : w[h[a]][1] = l[a] /\ \A b \in 1..(k + 1) : a < b => h[a] < h[b]
    BY <1>8, <1>9
  <2>6. Reached(l, v, w)
    BY <2>3, <2>4, <2>5, Zenon DEF Reached
  <2> QED  BY <2>1, <2>6
<1>11. ASSUME Len(r) = 1 PROVE Within(l, w)
  <2>1. DOMAIN l = 1..(k + 1)
    BY <1>1, <1>11
  <2>2. g \in [DOMAIN l -> DOMAIN w]
    BY <1>8, <2>1
  <2>3. \A i \in DOMAIN l : w[g[i]][1] = l[i] /\ \A j \in DOMAIN l : i < j => g[i] < g[j]
    BY <1>8, <1>9, <2>1
  <2> QED  BY <2>2, <2>3 DEF Within
<1> QED  BY <1>3, <1>10, <1>11

-----------------------------------------------------------------------------
(* The monitor before the login.                                            *)

\* MInv does not look at what may be asked next, at the last answer or at its method
LEMMA Framed ==
  ASSUME NEW o \in Conf, NEW s, MInv(o, s), NEW d \in MState,
         d.phase = s.phase, d.attempt = s.attempt, d.valid = s.valid, d.failures = s.failures,
         d.lists = s.lists, d.used = s.used, d.ttys = s.ttys, d.earned = s.earned,
         d.key = s.key \/ d.key \notin s.used,
         d.force = s.force \/ s.phase = "preauth"
  PROVE  MInv(o, d)
<1>1. /\ s \in MState /\ (s.valid => o.exists) /\ OnceEach(s) /\ Progress(o, s) /\ Held(s)
      /\ Counted(o, s) /\ (s.phase \in {"export", "postauth", "direct"} => Entitled(o, s))
  BY DEF MInv
<1>2. OnceEach(d)
  BY <1>1 DEF OnceEach
<1>3. Progress(o, d) /\ Held(d) /\ Counted(o, d)
  BY <1>1 DEF Progress, Held, Counted
<1>4. ASSUME d.phase \in {"export", "postauth", "direct"} PROVE Entitled(o, d)
  <2>1. Entitled(o, s) /\ d.force = s.force
    BY <1>1, <1>4
  <2> QED  BY <2>1 DEF Entitled
<1>5. d.valid => o.exists
  BY <1>1
<1> QED  BY <1>2, <1>3, <1>4, <1>5 DEF MInv

\* a monitor that exits has released its terminals
LEMMA ExitKeeps ==
  ASSUME NEW o \in Conf, NEW s, MInv(o, s), NEW why \in Reasons
  PROVE  /\ MInv(o, Exit(s)) /\ Exit(s).phase = "exited"
         /\ MInv(o, Fatal(s, why)) /\ Fatal(s, why).phase = "exited"
<1>1. /\ s \in MState /\ (s.valid => o.exists) /\ OnceEach(s) /\ Progress(o, s) /\ Held(s)
      /\ Counted(o, s)
  BY DEF MInv
<1>2. ASSUME NEW d \in MState, d.phase = "exited", d.ttys = {}, d.attempt = s.attempt,
             d.valid = s.valid, d.failures = s.failures, d.lists = s.lists, d.used = s.used,
             d.earned = s.earned, d.key = s.key
      PROVE  MInv(o, d)
  <2>1. OnceEach(d) /\ Progress(o, d) /\ (d.valid => o.exists)
    BY <1>1, <1>2 DEF OnceEach, Progress
  <2>2. Held(d)
    <3>1. IsFiniteSet({}) /\ Cardinality({}) = 0
      BY FS_EmptySet
    <3> QED  BY <1>2, <3>1, AuthAssumption DEF Held
  <2>3. Counted(o, d)
    BY <1>1, <1>2 DEF Counted
  <2> QED  BY <1>2, <2>1, <2>2, <2>3 DEF MInv
<1>3. PICK d : d = Exit(s)
  OBVIOUS
<1>4. /\ d \in MState /\ d.phase = "exited" /\ d.ttys = {} /\ d.attempt = s.attempt
      /\ d.valid = s.valid /\ d.failures = s.failures /\ d.lists = s.lists /\ d.used = s.used
      /\ d.earned = s.earned /\ d.key = s.key
  BY <1>1, <1>3 DEF Exit, MState
<1>5. PICK e : e = [d EXCEPT !.fatal = why]
  OBVIOUS
<1>6. /\ e \in MState /\ e.phase = "exited" /\ e.ttys = {} /\ e.attempt = s.attempt
      /\ e.valid = s.valid /\ e.failures = s.failures /\ e.lists = s.lists /\ e.used = s.used
      /\ e.earned = s.earned /\ e.key = s.key
  BY <1>4, <1>5 DEF MState
<1>7. e = Fatal(s, why)
  BY <1>3, <1>5 DEF Fatal
<1>8. MInv(o, d) /\ MInv(o, e)
  BY <1>2, <1>4, <1>6
<1> QED  BY <1>3, <1>4, <1>6, <1>7, <1>8

\* what the request earns was not earned with this key before
Fresh(e, q) ==
  \/ q.key = NoKey
  \/ q.key \in e.used /\ \A i \in DOMAIN e.earned : e.earned[i][2] # q.key

\* the monitor once the request was handled, before the answer is counted
Ready(o, e, q) ==
  /\ MInv(o, e) /\ e.phase \in {"preauth", "exited"}
  /\ (e.phase = "preauth" /\ q.t \in MonDecide) => e.method \in Methods /\ (e.ans => Fresh(e, q))

LEMMA ReadyFatal ==
  ASSUME NEW o \in Conf, NEW s, MInv(o, s), NEW q, NEW why \in Reasons
  PROVE  Ready(o, Fatal(s, why), q)
BY ExitKeeps DEF Ready

\* the lists that are kept keep their place
LEMMA SetupLists ==
  ASSUME NEW o \in Conf, NEW l, l = auth2_setup_methods_lists(o)
  PROVE  /\ l \in Lists /\ DOMAIN l \subseteq DOMAIN o.lists
         /\ \A i \in DOMAIN l : l[i] = o.lists[i]
<1>1. o.lists \in Seq(Seq(Methods))
  BY DEF Conf
<1>2. DOMAIN l \subseteq DOMAIN o.lists /\ \A i \in DOMAIN l : l[i] = o.lists[i]
  BY DEF auth2_setup_methods_lists
<1>3. DOMAIN l \in SUBSET Nat /\ \A i \in DOMAIN l : l[i] \in Seq(Methods)
  BY <1>1, <1>2
<1>4. l = [i \in DOMAIN l |-> l[i]]
  BY DEF auth2_setup_methods_lists
<1>5. l \in [DOMAIN l -> Seq(Methods)]
  BY <1>3, <1>4
<1> QED  BY <1>2, <1>3, <1>5 DEF Lists

\* the first request for a user makes the lists
LEMMA PwnamKeeps ==
  ASSUME NEW o \in Conf, NEW s, MInv(o, s), s.phase = "preauth", NEW q, q.t = "PWNAM"
  PROVE  Ready(o, mm_answer_pwnamallow(o, s), q)
<1>1. CASE s.attempt # 0
  <2>1. "multiple attempts for getpwnam" \in Reasons
    BY DEF Reasons
  <2>2. Ready(o, Fatal(s, "multiple attempts for getpwnam"), q)
    BY <2>1, ReadyFatal
  <2> QED  BY <1>1, <2>2 DEF mm_answer_pwnamallow
<1>2. CASE s.attempt = 0
  <2>1. /\ s \in MState /\ (s.valid => o.exists) /\ OnceEach(s) /\ Progress(o, s) /\ Held(s)
        /\ Counted(o, s)
    BY DEF MInv
  <2>2. o.lists \in Seq(Seq(Methods)) /\ o.exists \in BOOLEAN
    BY DEF Conf
  <2>3. PICK l : l = auth2_setup_methods_lists(o)
    OBVIOUS
  <2>4. DOMAIN l \subseteq DOMAIN o.lists /\ \A i \in DOMAIN l : l[i] = o.lists[i]
    BY <2>3, SetupLists
  <2>5. l \in Lists
    BY <2>3, SetupLists
  <2>6. PICK P \in SUBSET ReqTypes : P = s.permit \cup {"AUTHSERV", "BANNER"}
    <3>1. s.permit \cup {"AUTHSERV", "BANNER"} \in SUBSET ReqTypes
      BY <2>1 DEF MState, ReqTypes
    <3> QED  BY <3>1, Zenon
  <2>7. PICK v \in BOOLEAN : v = o.exists
    BY <2>2, Zenon
  <2>8. PICK g : g = [s EXCEPT !.attempt = 1, !.valid = v, !.ans = v]
    OBVIOUS
  <2>9. /\ g \in MState /\ g.phase = "preauth" /\ g.attempt = 1 /\ g.valid = v
        /\ g.failures = s.failures /\ g.used = s.used /\ g.ttys = s.ttys /\ g.key = s.key
        /\ g.earned = s.earned /\ g.permit = s.permit
    BY <2>1, <2>8, ZenonT(60) DEF MState
  <2>10. PICK d : d = [g EXCEPT !.lists = l, !.permit = P]
    OBVIOUS
  <2>11. /\ d \in MState /\ d.phase = "preauth" /\ d.attempt = 1 /\ d.valid = v
         /\ d.failures = s.failures /\ d.used = s.used /\ d.ttys = s.ttys /\ d.key = s.key
         /\ d.earned = s.earned /\ d.lists = l
    BY <2>5, <2>9, <2>10, ZenonT(60) DEF MState
  <2>12. d = mm_answer_pwnamallow(o, s)
    BY <1>2, <2>1, <2>3, <2>6, <2>7, <2>8, <2>9, <2>10 DEF mm_answer_pwnamallow, MState
  <2>13. Progress(o, d)
    <3>1. ASSUME NEW i \in DOMAIN l PROVE i \in DOMAIN o.lists /\ Reached(o.lists[i], l[i], d.earned)
      <4>1. i \in DOMAIN o.lists /\ l[i] = o.lists[i] /\ o.lists[i] \in Seq(Methods)
        BY <2>2, <2>4
      <4>2. Reached(o.lists[i], o.lists[i], d.earned)
        BY <4>1, ReachedStart
      <4> QED  BY <4>1, <4>2
    <3> QED  BY <2>11, <3>1 DEF Progress
  <2>14. OnceEach(d) /\ Held(d) /\ (d.valid => o.exists)
    BY <2>1, <2>7, <2>11, <1>2 DEF OnceEach, Held
  <2>15. Counted(o, d)
    BY <2>1, <2>11 DEF Counted
  <2>16. MInv(o, d)
    BY <2>11, <2>13, <2>14, <2>15 DEF MInv
  <2> QED  BY <2>11, <2>12, <2>16 DEF Ready, MonDecide
<1>3. s.attempt = 0 \/ s.attempt # 0
  OBVIOUS
<1> QED  BY <1>1, <1>2, <1>3

\* the requests that neither verify a credential nor set up the user
LEMMA SimpleKeep ==
  ASSUME NEW o \in Conf, NEW s, MInv(o, s), s.phase = "preauth", NEW q,
         q.t \notin MonDecide
  PROVE  /\ Ready(o, mm_answer_moduli(s), q) /\ Ready(o, mm_answer_sign(s), q)
         /\ Ready(o, mm_answer_auth2_read_banner(s), q) /\ Ready(o, mm_answer_authserv(s), q)
<1>1. s \in MState
  BY DEF MInv
<1>2. ASSUME NEW b \in BOOLEAN, NEW P \in SUBSET ReqTypes
      PROVE  Ready(o, [s EXCEPT !.ans = b, !.permit = P], q)
  <2>1. PICK d : d = [s EXCEPT !.ans = b, !.permit = P]
    OBVIOUS
  <2>2. /\ d \in MState /\ d.phase = s.phase /\ d.attempt = s.attempt /\ d.valid = s.valid
        /\ d.failures = s.failures /\ d.lists = s.lists /\ d.used = s.used /\ d.ttys = s.ttys
        /\ d.earned = s.earned /\ d.key = s.key /\ d.force = s.force
    BY <1>1, <2>1, ZenonT(60) DEF MState
  <2>3. MInv(o, d)
    BY <2>2, Framed
  <2> QED  BY <2>1, <2>2, <2>3 DEF Ready
<1>3. PICK P0 \in SUBSET ReqTypes : P0 = s.permit
  BY <1>1 DEF MState
<1>4. PICK P1 \in SUBSET ReqTypes : P1 = s.permit \cup {"PWNAM"}
  <2>1. s.permit \cup {"PWNAM"} \in SUBSET ReqTypes
    BY <1>1 DEF MState, ReqTypes
  <2> QED  BY <2>1, Zenon
<1>5. PICK P2 \in SUBSET ReqTypes : P2 = s.permit \cup MonAuth
  <2>1. s.permit \cup MonAuth \in SUBSET ReqTypes
    BY <1>1 DEF MState, ReqTypes, MonAuth
  <2> QED  BY <2>1, Zenon
<1>6. /\ mm_answer_moduli(s) = [s EXCEPT !.ans = TRUE, !.permit = P0]
      /\ mm_answer_auth2_read_banner(s) = [s EXCEPT !.ans = TRUE, !.permit = P0]
  BY <1>1, <1>3 DEF MState, mm_answer_moduli, mm_answer_auth2_read_banner
<1>7. mm_answer_sign(s) = [s EXCEPT !.ans = TRUE, !.permit = P1]
  BY <1>1, <1>4 DEF MState, mm_answer_sign
<1>8. mm_answer_authserv(s) = [s EXCEPT !.ans = FALSE, !.permit = P2]
  BY <1>1, <1>5 DEF MState, mm_answer_authserv
<1>9. /\ Ready(o, [s EXCEPT !.ans = TRUE, !.permit = P0], q)
      /\ Ready(o, [s EXCEPT !.ans = TRUE, !.permit = P1], q)
      /\ Ready(o, [s EXCEPT !.ans = FALSE, !.permit = P2], q)
  BY <1>2
<1> QED  BY <1>6, <1>7, <1>8, <1>9

\* a password is no key
LEMMA PasswordKeeps ==
  ASSUME NEW o \in Conf, NEW s, MInv(o, s), s.phase = "preauth", NEW q, q.key = NoKey, NEW pw
  PROVE  Ready(o, mm_answer_authpassword(o, s, pw), q)
<1>1. CASE "password" \notin o.enabled
  <2>1. "password authentication not enabled" \in Reasons
    BY DEF Reasons
  <2>2. Ready(o, Fatal(s, "password authentication not enabled"), q)
    BY <2>1, ReadyFatal
  <2> QED  BY <1>1, <2>2 DEF mm_answer_authpassword
<1>2. CASE "password" \in o.enabled
  <2>1. s \in MState
    BY DEF MInv
  <2>2. PICK b \in BOOLEAN : b = auth_password(o, s.valid, pw)
    <3>1. auth_password(o, s.valid, pw) \in BOOLEAN
      BY DEF auth_password
    <3> QED  BY <3>1, Zenon
  <2>3. PICK n \in Nat : n = IF s.calls < 2 THEN s.calls + 1 ELSE 2
    <3>1. (IF s.calls < 2 THEN s.calls + 1 ELSE 2) \in Nat
      BY <2>1 DEF MState
    <3> QED  BY <3>1, Zenon
  <2>4. PICK w \in Methods : w = IF pw = "empty" /\ s.calls = 0 THEN "none" ELSE "password"
    <3>1. (IF pw = "empty" /\ s.calls = 0 THEN "none" ELSE "password") \in Methods
      BY DEF Methods
    <3> QED  BY <3>1, Zenon
  <2>5. PICK d : d = [s EXCEPT !.ans = b, !.calls = n, !.method = w]
    OBVIOUS
  <2>6. /\ d \in MState /\ d.phase = s.phase /\ d.attempt = s.attempt /\ d.valid = s.valid
        /\ d.failures = s.failures /\ d.lists = s.lists /\ d.used = s.used /\ d.ttys = s.ttys
        /\ d.earned = s.earned /\ d.key = s.key /\ d.force = s.force /\ d.method \in Methods
    BY <2>1, <2>5, ZenonT(60) DEF MState
  <2>7. MInv(o, d)
    BY <2>6, Framed
  <2>8. d = mm_answer_authpassword(o, s, pw)
    BY <1>2, <2>1, <2>2, <2>3, <2>4, <2>5 DEF mm_answer_authpassword, MState
  <2> QED  BY <2>6, <2>7, <2>8 DEF Ready, Fresh
<1> QED  BY <1>1, <1>2

\* a key that was used is not allowed again
LEMMA KeyallowedKeeps ==
  ASSUME NEW o \in Conf, NEW s, MInv(o, s), s.phase = "preauth", NEW q, q.t \notin MonDecide,
         NEW kind \in Kinds, NEW key \in Keys
  PROVE  Ready(o, mm_answer_keyallowed(o, s, kind, key), q)
<1>1. s \in MState
  BY DEF MInv
<1> DEFINE w == IF kind = "user" THEN "publickey" ELSE "hostbased"
           A == s.valid /\ w \in o.enabled /\ key \notin s.used /\ key \in o.allowed[kind]
<1>2. PICK b \in BOOLEAN : b = A
  <2>1. A \in BOOLEAN
    OBVIOUS
  <2> QED  BY <2>1, Zenon
<1>3. PICK k \in Keys \cup {NoKey} : k = IF b THEN key ELSE NoKey
  <2>1. (IF b THEN key ELSE NoKey) \in Keys \cup {NoKey}
    OBVIOUS
  <2> QED  BY <2>1, Zenon
<1>4. k \notin s.used
  <2>1. CASE b
    BY <1>2, <1>3, <2>1
  <2>2. CASE ~b
    BY <1>1, <1>3, <2>2, AuthAssumption DEF MState
  <2> QED  BY <2>1, <2>2
<1>5. PICK d : d = [s EXCEPT !.ans = b, !.key = k, !.kind = kind]
  OBVIOUS
<1>6. /\ d \in MState /\ d.phase = s.phase /\ d.attempt = s.attempt /\ d.valid = s.valid
      /\ d.failures = s.failures /\ d.lists = s.lists /\ d.used = s.used /\ d.ttys = s.ttys
      /\ d.earned = s.earned /\ d.key = k /\ d.force = s.force
  BY <1>1, <1>5, ZenonT(60) DEF MState
<1>7. MInv(o, d)
  BY <1>4, <1>6, Framed
<1>8. d = mm_answer_keyallowed(o, s, kind, key)
  BY <1>2, <1>3, <1>5 DEF mm_answer_keyallowed
<1> QED  BY <1>6, <1>7, <1>8 DEF Ready

\* merging the options of a key leaves a command and a permission
LEMMA CommandTypes ==
  ASSUME NEW o \in Conf, NEW f \in Commands, NEW kind, NEW key \in Keys
  PROVE  merged_command(f, CommandOf(o, kind, key)) \in Commands
<1>1. o.command[key] \in Commands
  BY DEF Conf
<1>2. CommandOf(o, kind, key) \in Commands
  BY <1>1 DEF CommandOf, Commands
<1> QED  BY <1>2 DEF merged_command, Commands

LEMMA PtyTypes ==
  ASSUME NEW p, NEW q, NEW f, NEW g
  PROVE  merged_pty(p, q, f, g) \in BOOLEAN
BY DEF merged_pty

\* a good signature marks the key as used
LEMMA KeyverifyKeeps ==
  ASSUME NEW o \in Conf, NEW s, MInv(o, s), s.phase = "preauth", NEW q, NEW key \in Keys,
         q.key = key, NEW data, NEW good \in BOOLEAN
  PROVE  Ready(o, mm_answer_keyverify(o, s, key, data, good), q)
<1>0. /\ s \in MState /\ (s.valid => o.exists) /\ OnceEach(s) /\ Progress(o, s) /\ Held(s)
      /\ Counted(o, s)
  BY DEF MInv
<1>1. CASE s.key = NoKey \/ s.key # key
  <2>1. "bad key, not previously allowed" \in Reasons
    BY DEF Reasons
  <2>2. Ready(o, Fatal(s, "bad key, not previously allowed"), q)
    BY <2>1, ReadyFatal
  <2> QED  BY <1>1, <2>2 DEF mm_answer_keyverify
<1>2. CASE ~(s.key = NoKey \/ s.key # key) /\ data # s.kind
  <2>1. "bad signature data blob" \in Reasons
    BY DEF Reasons
  <2>2. Ready(o, Fatal(s, "bad signature data blob"), q)
    BY <2>1, ReadyFatal
  <2> QED  BY <1>2, <2>2 DEF mm_answer_keyverify
<1>3. CASE ~(s.key = NoKey \/ s.key # key) /\ data = s.kind
  <2>1. PICK U \in SUBSET Keys : U = IF good THEN s.used \cup {key} ELSE s.used
    <3>1. (IF good THEN s.used \cup {key} ELSE s.used) \in SUBSET Keys
      BY <1>0 DEF MState
    <3> QED  BY <3>1, Zenon
  <2>2. PICK w \in Methods : w = IF s.kind = "user" THEN "publickey" ELSE "hostbased"
    <3>1. (IF s.kind = "user" THEN "publickey" ELSE "hostbased") \in Methods
      BY DEF Methods
    <3> QED  BY <3>1, Zenon
  <2>3. PICK f \in Commands : f = merged_command(s.force, CommandOf(o, s.kind, key))
    <3>1. s.force \in Commands
      BY <1>0 DEF MState
    <3> QED  BY <3>1, CommandTypes, Zenon
  <2>4. PICK p \in BOOLEAN :
          p = merged_pty(s.pty, PtyOf(o, s.kind, key), s.force, CommandOf(o, s.kind, key))
    <3> DEFINE permit == PtyOf(o, s.kind, key)
               command == CommandOf(o, s.kind, key)
    <3>1. merged_pty(s.pty, permit, s.force, command) \in BOOLEAN
      <4> HIDE DEF permit, command
      <4> QED  BY PtyTypes, Zenon
    <3> QED  BY <3>1, Zenon
  <2>5. PICK g : g = [s EXCEPT !.ans = good, !.key = NoKey, !.used = U]
    OBVIOUS
  <2>6. /\ g \in MState /\ g.phase = s.phase /\ g.attempt = s.attempt /\ g.valid = s.valid
        /\ g.failures = s.failures /\ g.lists = s.lists /\ g.used = U /\ g.ttys = s.ttys
        /\ g.earned = s.earned /\ g.key = NoKey /\ g.ans = good
    BY <1>0, <2>5, ZenonT(60) DEF MState
  <2>7. PICK d : d = [g EXCEPT !.method = w, !.force = f, !.pty = p]
    OBVIOUS
  <2>8. /\ d \in MState /\ d.phase = s.phase /\ d.attempt = s.attempt /\ d.valid = s.valid
        /\ d.failures = s.failures /\ d.lists = s.lists /\ d.used = U /\ d.ttys = s.ttys
        /\ d.earned = s.earned /\ d.key = NoKey /\ d.ans = good /\ d.method = w
    BY <2>6, <2>7, ZenonT(60) DEF MState
  <2>9. d = [s EXCEPT !.ans = good, !.key = NoKey, !.used = U, !.method = w, !.force = f,
                      !.pty = p]
    BY <1>0, <2>5, <2>7 DEF MState
  <2>10. d = mm_answer_keyverify(o, s, key, data, good)
    BY <1>3, <2>1, <2>2, <2>3, <2>4, <2>9 DEF mm_answer_keyverify
  <2>11. s.used \subseteq U /\ (good => key \in U) /\ NoKey \notin U
    BY <2>1, AuthAssumption
  <2>12. OnceEach(d)
    BY <1>0, <2>8, <2>11 DEF OnceEach
  <2>13. Progress(o, d) /\ Held(d) /\ Counted(o, d) /\ (d.valid => o.exists)
    BY <1>0, <2>8 DEF Progress, Held, Counted
  <2>14. MInv(o, d)
    BY <2>8, <2>12, <2>13 DEF MInv
  <2>15. ASSUME d.ans PROVE Fresh(d, q)
    <3>1. key \notin s.used /\ key # NoKey
      BY <1>0, <1>3 DEF OnceEach
    <3>2. \A i \in DOMAIN s.earned : s.earned[i][2] # key
      BY <1>0, <3>1 DEF OnceEach
    <3> QED  BY <2>8, <2>11, <2>15, <3>2 DEF Fresh
  <2> QED  BY <2>8, <2>10, <2>14, <2>15 DEF Ready
<1> QED  BY <1>1, <1>2, <1>3

LEMMA HandlerReady ==
  ASSUME NEW o \in Conf, NEW s, MInv(o, s), s.phase = "preauth", NEW q, Proper(q)
  PROVE  Ready(o, Handler(o, s, q), q)
<1>1. q \in Requests /\ q.t \in ReqTypes /\ q.kind \in Kinds /\ q.data \in Kinds /\ q.good \in BOOLEAN
  BY DEF Proper, Requests
<1>2. CASE q.t \in {"MODULI", "SIGN", "BANNER", "AUTHSERV"}
  <2>1. q.t \notin MonDecide
    BY <1>2 DEF MonDecide
  <2>2. /\ Ready(o, mm_answer_moduli(s), q) /\ Ready(o, mm_answer_sign(s), q)
        /\ Ready(o, mm_answer_auth2_read_banner(s), q) /\ Ready(o, mm_answer_authserv(s), q)
    BY <2>1, SimpleKeep
  <2> QED  BY <1>2, <2>2 DEF Handler
<1>3. CASE q.t = "PWNAM"
  <2>1. Ready(o, mm_answer_pwnamallow(o, s), q)
    BY <1>3, PwnamKeeps
  <2> QED  BY <1>3, <2>1 DEF Handler
<1>4. CASE q.t = "AUTHPASSWORD"
  <2>1. q.key = NoKey
    BY <1>4 DEF Proper
  <2>2. Ready(o, mm_answer_authpassword(o, s, q.pw), q)
    BY <2>1, PasswordKeeps
  <2> QED  BY <1>4, <2>2 DEF Handler
<1>5. CASE q.t = "KEYALLOWED"
  <2>1. q.key \in Keys /\ q.t \notin MonDecide
    BY <1>5 DEF Proper, MonDecide
  <2>2. Ready(o, mm_answer_keyallowed(o, s, q.kind, q.key), q)
    BY <1>1, <2>1, KeyallowedKeeps
  <2> QED  BY <1>5, <2>2 DEF Handler
<1>6. CASE q.t = "KEYVERIFY"
  <2>1. q.key \in Keys
    BY <1>6 DEF Proper
  <2>2. Ready(o, mm_answer_keyverify(o, s, q.key, q.data, q.good), q)
    BY <1>1, <2>1, KeyverifyKeeps
  <2> QED  BY <1>6, <2>2 DEF Handler
<1>7. CASE q.t \in {"KEYEXPORT", "TERM", "PTY", "PTYCLEANUP"}
  <2>1. "unsupported request" \in Reasons
    BY DEF Reasons
  <2>2. Ready(o, Fatal(s, "unsupported request"), q)
    BY <2>1, ReadyFatal
  <2> QED  BY <1>7, <2>2 DEF Handler
<1> QED  BY <1>1, <1>2, <1>3, <1>4, <1>5, <1>6, <1>7 DEF ReqTypes

LEMMA ReadReady ==
  ASSUME NEW o \in Conf, NEW s, MInv(o, s), s.phase = "preauth", NEW q, Proper(q)
  PROVE  Ready(o, monitor_read(o, s, q), q)
<1>1. CASE q.t \notin s.permit
  <2>1. "unpermitted request" \in Reasons
    BY DEF Reasons
  <2>2. Ready(o, Fatal(s, "unpermitted request"), q)
    BY <2>1, ReadyFatal
  <2> QED  BY <1>1, <2>2 DEF monitor_read
<1>2. CASE q.t \in s.permit
  <2>1. PICK e : e = Handler(o, s, q)
    OBVIOUS
  <2>2. Ready(o, e, q)
    BY <2>1, HandlerReady
  <2>3. MInv(o, e) /\ e \in MState
    BY <2>2 DEF Ready, MInv
  <2>4. PICK P \in SUBSET ReqTypes : P = IF q.t \in MonOnce THEN e.permit \ {q.t} ELSE e.permit
    <3>1. (IF q.t \in MonOnce THEN e.permit \ {q.t} ELSE e.permit) \in SUBSET ReqTypes
      BY <2>3 DEF MState
    <3> QED  BY <3>1, Zenon
  <2>5. PICK d : d = [e EXCEPT !.permit = P]
    OBVIOUS
  <2>6. /\ d \in MState /\ d.phase = e.phase /\ d.attempt = e.attempt /\ d.valid = e.valid
        /\ d.failures = e.failures /\ d.lists = e.lists /\ d.used = e.used /\ d.ttys = e.ttys
        /\ d.earned = e.earned /\ d.key = e.key /\ d.force = e.force /\ d.method = e.method
        /\ d.ans = e.ans
    BY <2>3, <2>5 DEF MState
  <2>7. MInv(o, d)
    BY <2>3, <2>6, Framed
  <2>8. Ready(o, d, q)
    BY <2>2, <2>6, <2>7 DEF Ready, Fresh
  <2>9. d = monitor_read(o, s, q)
    BY <1>2, <2>1, <2>3, <2>4, <2>5 DEF monitor_read, MState
  <2> QED  BY <2>8, <2>9
<1> QED  BY <1>1, <1>2

\* MInv of a monitor with one failure more than it may have
AllBut(o, e) ==
  /\ e \in MState /\ (e.valid => o.exists) /\ OnceEach(e) /\ Progress(o, e) /\ Held(e)
  /\ e.attempt <= 1 /\ e.failures <= o.tries + 1

\* a turn ends with the exit, with the login, for which there is then a proof, or with neither
LEMMA VerdictKeeps ==
  ASSUME NEW o \in Conf, NEW e, AllBut(o, e), e.phase = "preauth", NEW ok \in BOOLEAN,
         (ok /\ e.valid) => Entitled(o, e)
  PROVE  MInv(o, Verdict(o, e, ok)) /\ Verdict(o, e, ok).phase \in {"preauth", "export", "exited"}
<1>1. e \in MState /\ o.tries \in Nat
  BY DEF AllBut, Conf
<1>2. CASE failures_exceeded(o, e)
  <2>1. ASSUME NEW why \in Reasons
        PROVE  MInv(o, Fatal(e, why)) /\ Fatal(e, why).phase = "exited"
    <3>1. PICK d : d = Fatal(e, why)
      OBVIOUS
    <3>2. /\ d \in MState /\ d.phase = "exited" /\ d.ttys = {} /\ d.attempt = e.attempt
          /\ d.valid = e.valid /\ d.failures = e.failures /\ d.lists = e.lists
          /\ d.used = e.used /\ d.earned = e.earned /\ d.key = e.key
      BY <1>1, <3>1 DEF Fatal, Exit, MState
    <3>3. OnceEach(d) /\ Progress(o, d) /\ (d.valid => o.exists)
      BY <3>2 DEF AllBut, OnceEach, Progress
    <3>4. Held(d)
      <4>1. IsFiniteSet({}) /\ Cardinality({}) = 0
        BY FS_EmptySet
      <4> QED  BY <3>2, <4>1, AuthAssumption DEF Held
    <3>5. Counted(o, d)
      BY <3>2 DEF AllBut, Counted
    <3> QED  BY <3>1, <3>2, <3>3, <3>4, <3>5 DEF MInv
  <2>2. "too many authentication attempts" \in Reasons
    BY DEF Reasons
  <2>3. PICK d : d = Fatal(e, "too many authentication attempts")
    OBVIOUS
  <2>4. MInv(o, d) /\ d.phase = "exited"
    BY <2>1, <2>2, <2>3
  <2> QED  BY <1>2, <2>3, <2>4 DEF Verdict
<1>3. CASE ~failures_exceeded(o, e)
  <2>1. e.failures <= o.tries
    BY <1>1, <1>3 DEF failures_exceeded, MState
  <2>2. MInv(o, e)
    BY <1>1, <2>1 DEF AllBut, MInv, Counted
  <2>3. CASE ok /\ ~e.valid
    <3>1. "authenticated invalid user" \in Reasons
      BY DEF Reasons
    <3>2. PICK d : d = Fatal(e, "authenticated invalid user")
      OBVIOUS
    <3>3. MInv(o, d) /\ d.phase = "exited"
      BY <2>2, <3>1, <3>2, ExitKeeps
    <3> QED  BY <1>3, <2>3, <3>2, <3>3 DEF Verdict
  <2>4. CASE ok /\ e.valid
    <3>1. PICK P \in SUBSET ReqTypes : P = {"KEYEXPORT"}
      <4>1. {"KEYEXPORT"} \in SUBSET ReqTypes
        BY DEF ReqTypes
      <4> QED  BY <4>1, Zenon
    <3>2. PICK d : d = [e EXCEPT !.phase = "export", !.permit = P]
      OBVIOUS
    <3>3. /\ d \in MState /\ d.phase = "export" /\ d.attempt = e.attempt /\ d.valid = e.valid
          /\ d.failures = e.failures /\ d.lists = e.lists /\ d.used = e.used /\ d.ttys = e.ttys
          /\ d.earned = e.earned /\ d.key = e.key /\ d.force = e.force
      BY <1>1, <3>2, ZenonT(60) DEF MState
    <3>4. Entitled(o, d)
      BY <2>4, <3>3 DEF Entitled
    <3>5. OnceEach(d) /\ Progress(o, d) /\ (d.valid => o.exists)
      BY <3>3 DEF AllBut, OnceEach, Progress
    <3>6. Held(d)
      BY <3>3 DEF AllBut, Held
    <3>7. Counted(o, d)
      BY <2>1, <3>3 DEF AllBut, Counted
    <3>8. MInv(o, d)
      BY <3>3, <3>4, <3>5, <3>6, <3>7 DEF MInv
    <3>9. d = Verdict(o, e, ok)
      BY <1>3, <2>4, <3>1, <3>2 DEF Verdict
    <3> QED  BY <3>3, <3>8, <3>9
  <2>5. CASE ~ok
    BY <1>3, <2>2, <2>5 DEF Verdict
  <2> QED  BY <2>3, <2>4, <2>5
<1> QED  BY <1>2, <1>3

\* what a method was verified with
Credentials == (Methods \cup {"unknown"}) \X (Keys \cup Ttys \cup {NoKey})

\* w: what d has earned with the answer to q
LEMMA CountKeeps ==
  ASSUME NEW o \in Conf, NEW d \in MState, d.phase = "preauth", d.valid => o.exists, OnceEach(d),
         Held(d), Counted(o, d), NEW q, q.key \in Keys \cup Ttys \cup {NoKey},
         d.method \in Methods, d.ans => Fresh(d, q),
         NEW w, w = IF d.ans THEN Append(d.earned, <<d.method, q.key>>) ELSE d.earned,
         \A i \in DOMAIN d.lists : i \in DOMAIN o.lists /\ Reached(o.lists[i], d.lists[i], w),
         NEW partial \in BOOLEAN, NEW ok \in BOOLEAN,
         ok => /\ d.ans /\ (o.lists # <<>> => \E i \in DOMAIN o.lists : Within(o.lists[i], w))
               /\ o.root => auth_root_allowed(o, d.method, d.force)
  PROVE  /\ MInv(o, Count(o, d, q, partial, ok))
         /\ Count(o, d, q, partial, ok).phase \in {"preauth", "export", "exited"}
<1>1. /\ d.earned \in Seq(Credentials) /\ d.failures \in Nat /\ d.attempt \in Nat
      /\ o.tries \in Nat /\ d.ans \in BOOLEAN
  BY DEF MState, Credentials, Conf
<1>2. PICK z \in Credentials : z = <<d.method, q.key>>
  <2>1. <<d.method, q.key>> \in Credentials
    BY DEF Credentials
  <2> QED  BY <2>1, Zenon
<1>3. z[1] = d.method /\ z[2] = q.key
  BY <1>2
<1>4. w = IF d.ans THEN Append(d.earned, z) ELSE d.earned
  BY <1>2
<1>5. PICK n \in Nat : n = IF ~partial /\ ~ok THEN d.failures + 1 ELSE d.failures
  <2>1. (IF ~partial /\ ~ok THEN d.failures + 1 ELSE d.failures) \in Nat
    BY <1>1
  <2> QED  BY <2>1, Zenon
<1>6. w \in Seq(Credentials)
  <2>1. CASE d.ans
    BY <1>1, <1>4, <2>1, AppendProperties
  <2>2. CASE ~d.ans
    BY <1>1, <1>4, <2>2
  <2> QED  BY <2>1, <2>2
<1>7. PICK e : e = [d EXCEPT !.earned = w, !.failures = n]
  OBVIOUS
<1>8. /\ e \in MState /\ e.phase = "preauth" /\ e.attempt = d.attempt /\ e.valid = d.valid
      /\ e.failures = n /\ e.lists = d.lists /\ e.used = d.used /\ e.ttys = d.ttys
      /\ e.earned = w /\ e.key = d.key /\ e.force = d.force
  BY <1>6, <1>7, ZenonT(60) DEF MState, Credentials
<1>9. ASSUME d.ans
      PROVE  /\ Len(w) = Len(d.earned) + 1 /\ w[Len(w)] = z /\ DOMAIN w = 1..Len(w)
             /\ w # <<>> /\ Len(d.earned) \in Nat
             /\ \A i \in 1..Len(d.earned) : w[i] = d.earned[i]
             /\ DOMAIN d.earned = 1..Len(d.earned)
  <2>1. w = Append(d.earned, z)
    BY <1>4, <1>9
  <2>2. /\ Len(w) = Len(d.earned) + 1 /\ w[Len(d.earned) + 1] = z /\ w # <<>>
        /\ \A i \in 1..Len(d.earned) : w[i] = d.earned[i]
    <3>1. PICK v \in Seq(Credentials) : v = d.earned
      BY <1>1, Zenon
    <3>2. PICK y \in Seq(Credentials) : y = Append(v, z)
      <4>1. Append(v, z) \in Seq(Credentials)
        BY AppendProperties
      <4> QED  BY <4>1, Zenon
    <3>3. /\ Len(y) = Len(v) + 1 /\ y[Len(v) + 1] = z /\ y # <<>>
          /\ \A i \in 1..Len(v) : y[i] = v[i]
      <4>1. Append(v, z) # <<>>
        BY AppendProperties
      <4>2. Len(Append(v, z)) = Len(v) + 1
        BY AppendProperties
      <4>3. Append(v, z)[Len(v) + 1] = z
        BY AppendProperties
      <4>4. \A i \in 1..Len(v) : Append(v, z)[i] = v[i]
        BY AppendProperties
      <4> QED  BY <3>2, <4>1, <4>2, <4>3, <4>4, Zenon
    <3> QED  BY <2>1, <3>1, <3>2, <3>3, Zenon
  <2>3. DOMAIN w = 1..Len(w) /\ DOMAIN d.earned = 1..Len(d.earned) /\ Len(d.earned) \in Nat
    BY <1>1, <1>6
  <2> QED  BY <2>2, <2>3
<1>10. OnceEach(e)
  <2>1. CASE ~d.ans
    BY <1>4, <1>8, <2>1 DEF OnceEach
  <2>2. CASE d.ans
    <3>1. PICK l \in Nat : l = Len(d.earned)
      BY <1>9, <2>2
    <3>2. /\ DOMAIN w = 1..(l + 1) /\ w[l + 1] = z /\ DOMAIN d.earned = 1..l
          /\ \A i \in 1..l : w[i] = d.earned[i]
      BY <1>9, <2>2, <3>1
    <3>3. ASSUME NEW i \in 1..l
          PROVE  /\ w[i][2] # NoKey => w[i][2] \in d.used
                 /\ w[i][2] = z[2] => z[2] = NoKey
      <4>1. i \in DOMAIN d.earned /\ w[i] = d.earned[i]
        BY <3>2
      <4>2. d.earned[i][2] # NoKey => d.earned[i][2] \in d.used
        BY <4>1 DEF OnceEach
      <4>3. d.earned[i][2] = q.key => q.key = NoKey
        BY <2>2, <4>1 DEF Fresh
      <4> QED  BY <1>3, <4>1, <4>2, <4>3
    <3>4. z[2] # NoKey => z[2] \in d.used
      BY <1>3, <2>2 DEF Fresh
    <3>5. ASSUME NEW i \in 1..l, NEW j \in 1..l, i # j, w[i][2] = w[j][2] PROVE w[i][2] = NoKey
      <4>1. i \in DOMAIN d.earned /\ j \in DOMAIN d.earned /\ w[i] = d.earned[i] /\ w[j] = d.earned[j]
        BY <3>2
      <4> QED  BY <3>5, <4>1 DEF OnceEach
    <3>6. \A i \in 1..(l + 1) : i \in 1..l \/ i = l + 1
      OBVIOUS
    <3>7. \A i \in DOMAIN w : w[i][2] # NoKey => w[i][2] \in d.used
      BY <3>2, <3>3, <3>4, <3>6
    <3>8. \A i, j \in DOMAIN w : (i # j /\ w[i][2] = w[j][2]) => w[i][2] = NoKey
      BY <3>2, <3>3, <3>5, <3>6, ZenonT(60)
    <3>9. d.key \notin d.used
      BY DEF OnceEach
    <3> QED  BY <1>8, <3>7, <3>8, <3>9 DEF OnceEach
  <2> QED  BY <2>1, <2>2
<1>11. AllBut(o, e)
  <2>1. Progress(o, e)
    BY <1>8 DEF Progress
  <2>2. Held(e)
    BY <1>8 DEF Held
  <2>3. e.attempt <= 1 /\ e.failures <= o.tries + 1
    BY <1>1, <1>5, <1>8 DEF Counted
  <2> QED  BY <1>8, <1>10, <2>1, <2>2, <2>3 DEF AllBut
<1>12. ASSUME ok, e.valid PROVE Entitled(o, e)
  <2>1. o.exists /\ d.ans /\ e.earned # <<>>
    BY <1>8, <1>9, <1>12
  <2>2. o.lists # <<>> => \E i \in DOMAIN o.lists : Within(o.lists[i], e.earned)
    BY <1>8, <1>12
  <2>3. \A i, j \in DOMAIN e.earned :
          (i # j /\ e.earned[i][2] = e.earned[j][2]) => e.earned[i][2] = NoKey
    BY <1>10 DEF OnceEach
  <2>4. e.earned[Len(e.earned)][1] = d.method
    BY <1>3, <1>8, <1>9, <2>1
  <2>5. o.root => auth_root_allowed(o, e.earned[Len(e.earned)][1], e.force)
    BY <1>8, <1>12, <2>4
  <2> QED  BY <2>1, <2>2, <2>3, <2>5 DEF Entitled
<1>13. MInv(o, Verdict(o, e, ok)) /\ Verdict(o, e, ok).phase \in {"preauth", "export", "exited"}
  BY <1>8, <1>11, <1>12, VerdictKeeps
<1>14. Count(o, d, q, partial, ok) = Verdict(o, e, ok)
  <2>1. e = [d EXCEPT !.earned = IF d.ans THEN Append(@, <<d.method, q.key>>) ELSE @,
                      !.failures = IF ~partial /\ ~ok THEN @ + 1 ELSE @]
    BY <1>5, <1>7 DEF MState
  <2> QED  BY <2>1 DEF Count
<1> QED  BY <1>13, <1>14

\* a method takes every list that starts with it one further, up to a list that is complete
LEMMA UpdateReaches ==
  ASSUME NEW o \in Conf, NEW L \in Lists, NEW e \in Seq(Credentials), NEW z \in Credentials,
         \A i \in DOMAIN L : i \in DOMAIN o.lists /\ Reached(o.lists[i], L[i], e),
         NEW u, u = auth2_update_methods_lists(L, z[1])
  PROVE  /\ u.lists \in Lists /\ u.found \in BOOLEAN /\ u.done \in BOOLEAN
         /\ \A i \in DOMAIN u.lists :
              i \in DOMAIN o.lists /\ Reached(o.lists[i], u.lists[i], Append(e, z))
         /\ u.done => \E i \in DOMAIN o.lists : Within(o.lists[i], Append(e, z))
<1>1. PICK D \in SUBSET Nat : L \in [D -> Seq(Methods)]
  BY DEF Lists
<1>2. o.lists \in Seq(Seq(Methods)) /\ \A i \in DOMAIN o.lists : o.lists[i] \in Seq(Methods)
  BY DEF Conf
<1> DEFINE starts == {i \in DOMAIN L : list_starts_with(L[i], z[1])}
           complete == {i \in starts : Len(L[i]) = 1}
           visited(i) == \A j \in complete : i <= j
           R(i) == IF i \in starts /\ visited(i) THEN Tail(L[i]) ELSE L[i]
<1>3. PICK M : M = [i \in DOMAIN L |-> R(i)]
  OBVIOUS
<1>4. u.lists = M /\ u.found = (starts # {}) /\ u.done = (complete # {})
  BY <1>3 DEF auth2_update_methods_lists
<1>5. PICK w : w = Append(e, z)
  OBVIOUS
<1>6. ASSUME NEW i \in DOMAIN L
      PROVE  /\ M[i] \in Seq(Methods) /\ Reached(o.lists[i], M[i], w)
             /\ i \in complete => Within(o.lists[i], w)
  <2>1. i \in DOMAIN o.lists /\ Reached(o.lists[i], L[i], e) /\ L[i] \in Seq(Methods)
        /\ o.lists[i] \in Seq(Methods)
    BY <1>1, <1>2
  <2>2. PICK r \in Seq(Methods) : r = L[i]
    BY <2>1, Zenon
  <2>3. PICK l \in Seq(Methods) : l = o.lists[i]
    BY <2>1, Zenon
  <2>4. Reached(l, r, e)
    BY <2>1, <2>2, <2>3
  <2>5. ASSUME i \in starts
        PROVE  /\ Tail(r) \in Seq(Methods) /\ Reached(l, Tail(r), w)
               /\ Len(r) = 1 => Within(l, w)
    <3>1. r # <<>> /\ Head(r) = z[1]
      BY <2>2, <2>5 DEF list_starts_with
    <3>2. Tail(r) \in Seq(Methods)
      BY <3>1, HeadTailProperties
    <3> QED  BY <1>5, <2>4, <3>1, <3>2, ReachedNext
  <2>6. Reached(l, r, w)
    BY <1>5, <2>4, ReachedMore
  <2>7. M[i] = IF i \in starts /\ visited(i) THEN Tail(r) ELSE r
    BY <1>3, <2>2
  <2>8. M[i] \in Seq(Methods) /\ Reached(l, M[i], w)
    <3> HIDE DEF starts, visited
    <3>1. CASE i \in starts /\ visited(i)
      BY <2>5, <2>7, <3>1
    <3>2. CASE ~(i \in starts /\ visited(i))
      BY <2>6, <2>7, <3>2
    <3> QED  BY <3>1, <3>2
  <2>9. i \in complete => i \in starts /\ Len(r) = 1
    BY <2>2
  <2> QED  BY <2>3, <2>5, <2>8, <2>9
<1> HIDE DEF starts, complete, R
<1>7. M \in Lists
  <2>1. DOMAIN M = DOMAIN L /\ \A i \in DOMAIN M : M[i] \in Seq(Methods)
    BY <1>3, <1>6
  <2>2. M \in [DOMAIN L -> Seq(Methods)] /\ DOMAIN L \in SUBSET Nat
    BY <1>1, <1>3, <2>1
  <2> QED  BY <2>2 DEF Lists
<1>8. \A i \in DOMAIN M : i \in DOMAIN o.lists /\ Reached(o.lists[i], M[i], w)
  BY <1>3, <1>6
<1>9. ASSUME complete # {} PROVE \E i \in DOMAIN o.lists : Within(o.lists[i], w)
  <2>1. PICK i : i \in complete
    BY <1>9
  <2>2. i \in DOMAIN L
    BY <2>1 DEF complete, starts
  <2> QED  BY <1>6, <2>1, <2>2
<1> QED  BY <1>4, <1>5, <1>7, <1>8, <1>9

LEMMA DecideKeeps ==
  ASSUME NEW o \in Conf, NEW d, NEW q, Proper(q), Ready(o, d, q)
  PROVE  MInv(o, Decide(o, d, q)) /\ Decide(o, d, q).phase \in {"preauth", "export", "exited"}
<1>1. CASE d.phase = "exited" \/ q.t \notin MonDecide
  BY <1>1 DEF Ready, Decide
<1>2. CASE ~(d.phase = "exited" \/ q.t \notin MonDecide)
  <2>1. /\ MInv(o, d) /\ d.phase = "preauth" /\ d.method \in Methods /\ (d.ans => Fresh(d, q))
    BY <1>2 DEF Ready
  <2>2. /\ d \in MState /\ (d.valid => o.exists) /\ OnceEach(d) /\ Progress(o, d) /\ Held(d)
        /\ Counted(o, d)
    BY <2>1 DEF MInv
  <2>3. q.key \in Keys \cup Ttys \cup {NoKey}
    BY DEF Proper, Requests
  <2>4. d.earned \in Seq(Credentials) /\ d.lists \in Lists /\ d.ans \in BOOLEAN
    BY <2>2 DEF MState, Credentials
  <2>5. PICK z \in Credentials : z = <<d.method, q.key>>
    <3>1. <<d.method, q.key>> \in Credentials
      BY <2>1, <2>3 DEF Credentials
    <3> QED  BY <3>1, Zenon
  <2>6. z[1] = d.method
    BY <2>5
  <2>7. PICK e \in Seq(Credentials) : e = d.earned
    BY <2>4, Zenon
  <2>8. PICK L \in Lists : L = d.lists
    BY <2>4, Zenon
  <2>9. \A i \in DOMAIN L : i \in DOMAIN o.lists /\ Reached(o.lists[i], L[i], e)
    BY <2>2, <2>7, <2>8 DEF Progress
  <2>10. PICK u : u = auth2_update_methods_lists(L, z[1])
    OBVIOUS
  <2>11. /\ u.lists \in Lists /\ u.found \in BOOLEAN /\ u.done \in BOOLEAN
         /\ \A i \in DOMAIN u.lists :
              i \in DOMAIN o.lists /\ Reached(o.lists[i], u.lists[i], Append(e, z))
         /\ u.done => \E i \in DOMAIN o.lists : Within(o.lists[i], Append(e, z))
    BY <2>9, <2>10, UpdateReaches
  <2>12. Decide(o, d, q) = Required(o, d, q, u)
    BY <1>2, <2>6, <2>8, <2>10 DEF Decide
  <2>13. PICK w : w = IF d.ans THEN Append(d.earned, <<d.method, q.key>>) ELSE d.earned
    OBVIOUS
  <2>14. w = IF d.ans THEN Append(e, z) ELSE e
    BY <2>5, <2>7, <2>13
  <2>15. CASE o.lists = <<>> \/ ~d.ans
    <3>1. \A i \in DOMAIN L : i \in DOMAIN o.lists /\ Reached(o.lists[i], L[i], w)
      <4>1. CASE d.ans
        <5>1. \A i \in DOMAIN L : i \in DOMAIN o.lists /\ Reached(o.lists[i], L[i], Append(e, z))
          BY <2>9, ReachedMore
        <5> QED  BY <2>14, <4>1, <5>1
      <4>2. CASE ~d.ans
        BY <2>9, <2>14, <4>2
      <4> QED  BY <4>1, <4>2
    <3>2. PICK ok \in BOOLEAN : ok = root_checked(o, d, d.ans)
      <4>1. root_checked(o, d, d.ans) \in BOOLEAN
        BY DEF root_checked
      <4> QED  BY <4>1, Zenon
    <3>3. ok => /\ d.ans /\ (o.lists # <<>> => \E i \in DOMAIN o.lists : Within(o.lists[i], w))
                /\ o.root => auth_root_allowed(o, d.method, d.force)
      BY <2>15, <3>2 DEF root_checked
    <3>4. \A i \in DOMAIN d.lists : i \in DOMAIN o.lists /\ Reached(o.lists[i], d.lists[i], w)
      BY <2>8, <3>1
    <3>5. FALSE \in BOOLEAN
      OBVIOUS
    <3>6. /\ MInv(o, Count(o, d, q, FALSE, ok))
          /\ Count(o, d, q, FALSE, ok).phase \in {"preauth", "export", "exited"}
      BY <2>1, <2>2, <2>3, <2>13, <3>3, <3>4, <3>5, CountKeeps
    <3>7. Required(o, d, q, u) = Count(o, d, q, FALSE, ok)
      BY <2>15, <3>2 DEF Required
    <3> QED  BY <2>12, <3>6, <3>7
  <2>16. CASE ~(o.lists = <<>> \/ ~d.ans) /\ ~u.found
    <3>1. "method not in AuthenticationMethods" \in Reasons
      BY DEF Reasons
    <3>2. PICK f : f = Fatal(d, "method not in AuthenticationMethods")
      OBVIOUS
    <3>3. MInv(o, f) /\ f.phase = "exited"
      BY <2>1, <3>1, <3>2, ExitKeeps
    <3> QED  BY <2>12, <2>16, <3>2, <3>3 DEF Required
  <2>17. CASE ~(o.lists = <<>> \/ ~d.ans) /\ u.found
    <3>1. PICK U \in Lists : U = u.lists
      BY <2>11, Zenon
    <3>2. PICK f : f = [d EXCEPT !.lists = U]
      OBVIOUS
    <3>3. /\ f \in MState /\ f.phase = "preauth" /\ f.attempt = d.attempt /\ f.valid = d.valid
          /\ f.failures = d.failures /\ f.lists = U /\ f.used = d.used /\ f.ttys = d.ttys
          /\ f.earned = d.earned /\ f.key = d.key /\ f.force = d.force /\ f.method = d.method
          /\ f.ans = d.ans
      BY <2>1, <2>2, <3>2 DEF MState
    <3>4. OnceEach(f) /\ Held(f) /\ Counted(o, f) /\ (f.valid => o.exists)
      BY <2>2, <3>3, <2>1 DEF OnceEach, Held, Counted
    <3>5. f.ans => Fresh(f, q)
      BY <2>1, <3>3 DEF Fresh
    <3>6. PICK ok \in BOOLEAN : ok = root_checked(o, d, u.done)
      <4>1. root_checked(o, d, u.done) \in BOOLEAN
        BY DEF root_checked
      <4> QED  BY <4>1, Zenon
    <3>7. PICK partial \in BOOLEAN : partial = ~u.done
      <4>1. (~u.done) \in BOOLEAN
        OBVIOUS
      <4> QED  BY <4>1, Zenon
    <3>8. w = Append(e, z) /\ w = IF f.ans THEN Append(f.earned, <<f.method, q.key>>) ELSE f.earned
      BY <2>13, <2>14, <2>17, <3>3
    <3>9. \A i \in DOMAIN f.lists : i \in DOMAIN o.lists /\ Reached(o.lists[i], f.lists[i], w)
      BY <2>11, <3>1, <3>3, <3>8
    <3>10. ok => /\ f.ans /\ (o.lists # <<>> => \E i \in DOMAIN o.lists : Within(o.lists[i], w))
                 /\ o.root => auth_root_allowed(o, f.method, f.force)
      <4>1. ok => u.done /\ (o.root => auth_root_allowed(o, d.method, d.force))
        BY <3>6 DEF root_checked
      <4>2. u.done => \E i \in DOMAIN o.lists : Within(o.lists[i], w)
        BY <2>11, <3>8
      <4> QED  BY <2>17, <3>3, <4>1, <4>2
    <3>11. /\ MInv(o, Count(o, f, q, partial, ok))
           /\ Count(o, f, q, partial, ok).phase \in {"preauth", "export", "exited"}
      BY <2>1, <2>3, <3>3, <3>4, <3>5, <3>8, <3>9, <3>10, CountKeeps
    <3>12. Required(o, d, q, u) = Count(o, f, q, partial, ok)
      BY <2>17, <3>1, <3>2, <3>6, <3>7 DEF Required
    <3> QED  BY <2>12, <3>11, <3>12
  <2> QED  BY <2>11, <2>15, <2>16, <2>17
<1> QED  BY <1>1, <1>2

\* one turn of the loop before the login
LEMMA PreauthKeeps ==
  ASSUME NEW o \in Conf, NEW s, MInv(o, s), s.phase = "preauth", NEW q, Proper(q)
  PROVE  /\ MInv(o, monitor_child_preauth(o, s, q))
         /\ monitor_child_preauth(o, s, q).phase \in {"preauth", "export", "exited"}
<1>1. s \in MState
  BY DEF MInv
<1>2. PICK d : d = [s EXCEPT !.method = "unknown"]
  OBVIOUS
<1>3. /\ d \in MState /\ d.phase = s.phase /\ d.attempt = s.attempt /\ d.valid = s.valid
      /\ d.failures = s.failures /\ d.lists = s.lists /\ d.used = s.used /\ d.ttys = s.ttys
      /\ d.earned = s.earned /\ d.key = s.key /\ d.force = s.force
  BY <1>1, <1>2 DEF MState
<1>4. MInv(o, d) /\ d.phase = "preauth"
  BY <1>3, Framed
<1>5. PICK e : e = monitor_read(o, d, q)
  OBVIOUS
<1>6. Ready(o, e, q)
  BY <1>4, <1>5, ReadReady
<1>7. MInv(o, Decide(o, e, q)) /\ Decide(o, e, q).phase \in {"preauth", "export", "exited"}
  BY <1>6, DecideKeeps
<1> QED  BY <1>2, <1>5, <1>7 DEF monitor_child_preauth

-----------------------------------------------------------------------------
(* The monitor after the login, and all of it.                              *)

LEMMA KeystateKeeps ==
  ASSUME NEW o \in Conf, NEW s, MInv(o, s), s.phase = "export", NEW q
  PROVE  /\ MInv(o, mm_get_keystate(o, s, q))
         /\ q.t # "KEYEXPORT" => mm_get_keystate(o, s, q).phase = "exited"
         /\ mm_get_keystate(o, s, q).ttys = {}
<1>1. /\ s \in MState /\ (s.valid => o.exists) /\ OnceEach(s) /\ Progress(o, s) /\ Held(s)
      /\ Counted(o, s) /\ Entitled(o, s)
  BY DEF MInv
<1>2. CASE q.t # "KEYEXPORT"
  <2>1. "unexpected request" \in Reasons
    BY DEF Reasons
  <2>2. PICK d : d = Fatal(s, "unexpected request")
    OBVIOUS
  <2>3. MInv(o, d) /\ d.phase = "exited"
    BY <2>1, <2>2, ExitKeeps
  <2>4. d.ttys = {}
    BY <2>3 DEF MInv, Held
  <2> QED  BY <1>2, <2>2, <2>3, <2>4 DEF mm_get_keystate
<1>3. CASE q.t = "KEYEXPORT"
  <2>1. ASSUME NEW ph \in {"direct", "postauth"}, NEW P \in SUBSET ReqTypes,
               NEW d, d = [s EXCEPT !.phase = ph, !.permit = P]
        PROVE  MInv(o, d) /\ d.ttys = {}
    <3>1. /\ d \in MState /\ d.phase = ph /\ d.attempt = s.attempt /\ d.valid = s.valid
          /\ d.failures = s.failures /\ d.lists = s.lists /\ d.used = s.used /\ d.ttys = s.ttys
          /\ d.earned = s.earned /\ d.key = s.key /\ d.force = s.force
      BY <1>1, <2>1 DEF MState
    <3>2. OnceEach(d) /\ Progress(o, d) /\ Counted(o, d) /\ (d.valid => o.exists)
      BY <1>1, <3>1 DEF OnceEach, Progress, Counted
    <3>3. Held(d) /\ d.ttys = {}
      BY <1>1, <3>1 DEF Held
    <3>4. Entitled(o, d)
      BY <1>1, <3>1 DEF Entitled
    <3> QED  BY <3>1, <3>2, <3>3, <3>4 DEF MInv
  <2>2. CASE o.root
    <3>1. PICK P \in SUBSET ReqTypes : P = {}
      <4>1. {} \in SUBSET ReqTypes
        OBVIOUS
      <4> QED  BY <4>1, Zenon
    <3>2. PICK d : d = [s EXCEPT !.phase = "direct", !.permit = P]
      OBVIOUS
    <3>3. d = mm_get_keystate(o, s, q)
      BY <1>3, <2>2, <3>1, <3>2 DEF mm_get_keystate
    <3>4. MInv(o, d) /\ d.ttys = {}
      BY <2>1, <3>2
    <3> QED  BY <1>3, <3>3, <3>4
  <2>3. CASE ~o.root
    <3>1. PICK P \in SUBSET ReqTypes :
            P = {"MODULI", "SIGN", "TERM"} \cup (IF s.pty THEN {"PTY", "PTYCLEANUP"} ELSE {})
      <4>1. ({"MODULI", "SIGN", "TERM"} \cup (IF s.pty THEN {"PTY", "PTYCLEANUP"} ELSE {}))
            \in SUBSET ReqTypes
        BY DEF ReqTypes
      <4> QED  BY <4>1, Zenon
    <3>2. PICK d : d = [s EXCEPT !.phase = "postauth", !.permit = P]
      OBVIOUS
    <3>3. d = mm_get_keystate(o, s, q)
      BY <1>3, <2>3, <3>1, <3>2 DEF mm_get_keystate
    <3>4. MInv(o, d) /\ d.ttys = {}
      BY <2>1, <3>2
    <3> QED  BY <1>3, <3>3, <3>4
  <2> QED  BY <2>2, <2>3
<1> QED  BY <1>2, <1>3

\* which terminals the monitor has in use after a request, if it is still there
LEMMA PostauthKeeps ==
  ASSUME NEW o \in Conf, NEW s, MInv(o, s), s.phase = "postauth", NEW q, Proper(q),
         NEW d, d = monitor_child_postauth(o, s, q)
  PROVE  /\ MInv(o, d) /\ d.phase \in {"postauth", "exited"}
         /\ d.phase = "postauth" =>
              /\ q.t = "PTY" => d.ttys = IF d.ans THEN s.ttys \cup {q.key} ELSE s.ttys
              /\ q.t = "PTYCLEANUP" => d.ttys = s.ttys \ {q.key}
              /\ q.t # "TERM"
<1>1. /\ s \in MState /\ (s.valid => o.exists) /\ OnceEach(s) /\ Progress(o, s) /\ Held(s)
      /\ Counted(o, s) /\ Entitled(o, s)
  BY DEF MInv
<1>2. ASSUME NEW b \in BOOLEAN, NEW T \in SUBSET Ttys, IsFiniteSet(T), Cardinality(T) <= MaxSessions,
             d = [s EXCEPT !.ans = b, !.ttys = T]
      PROVE  MInv(o, d) /\ d.phase = "postauth" /\ d.ttys = T /\ (d.ans <=> b)
  <2>1. /\ d \in MState /\ d.phase = "postauth" /\ d.attempt = s.attempt /\ d.valid = s.valid
        /\ d.failures = s.failures /\ d.lists = s.lists /\ d.used = s.used /\ d.ttys = T
        /\ d.earned = s.earned /\ d.key = s.key /\ d.force = s.force /\ (d.ans <=> b)
    BY <1>1, <1>2, ZenonT(60) DEF MState
  <2>2. OnceEach(d) /\ Progress(o, d) /\ Counted(o, d) /\ (d.valid => o.exists)
    BY <1>1, <2>1 DEF OnceEach, Progress, Counted
  <2>3. Held(d)
    BY <1>2, <2>1 DEF Held
  <2>4. Entitled(o, d)
    BY <1>1, <2>1 DEF Entitled
  <2> QED  BY <2>1, <2>2, <2>3, <2>4 DEF MInv
<1>3. PICK T \in SUBSET Ttys : T = s.ttys
  BY <1>1 DEF MState
<1>4. IsFiniteSet(T) /\ Cardinality(T) <= MaxSessions /\ Cardinality(T) \in Nat
  BY <1>1, <1>3, FS_CardinalityType DEF Held
<1>5. CASE q.t \notin s.permit
  <2>1. "unpermitted request" \in Reasons
    BY DEF Reasons
  <2>2. d = Fatal(s, "unpermitted request")
    BY <1>5 DEF monitor_child_postauth
  <2>3. MInv(o, d) /\ d.phase = "exited"
    BY <2>1, <2>2, ExitKeeps, ZenonT(60)
  <2> QED  BY <2>3
<1>6. CASE q.t \in s.permit /\ q.t = "PTY"
  <2>1. CASE q.key = NoKey \/ Cardinality(T) >= MaxSessions
    <3>1. d = [s EXCEPT !.ans = FALSE, !.ttys = T]
      BY <1>1, <1>3, <1>6, <2>1 DEF monitor_child_postauth, mm_answer_pty, MState
    <3>2. MInv(o, d) /\ d.phase = "postauth" /\ d.ttys = T /\ (d.ans <=> FALSE)
      BY <1>2, <1>4, <3>1
    <3> QED  BY <1>3, <1>6, <3>2
  <2>2. CASE ~(q.key = NoKey \/ Cardinality(T) >= MaxSessions)
    <3>1. q.key \in Ttys
      BY <1>6, <2>2 DEF Proper
    <3>2. PICK W \in SUBSET Ttys : W = T \cup {q.key}
      <4>1. T \cup {q.key} \in SUBSET Ttys
        BY <3>1
      <4> QED  BY <4>1, Zenon
    <3>3. IsFiniteSet(W) /\ Cardinality(W) <= Cardinality(T) + 1
      <4>1. /\ IsFiniteSet(T \cup {q.key})
            /\ Cardinality(T \cup {q.key}) = IF q.key \in T THEN Cardinality(T) ELSE Cardinality(T) + 1
        BY <1>4, FS_AddElement
      <4>2. W = T \cup {q.key}
        BY <3>2
      <4> QED  BY <1>4, <4>1, <4>2
    <3>4. Cardinality(W) \in Nat /\ Cardinality(W) <= MaxSessions
      BY <1>4, <2>2, <3>3, FS_CardinalityType, AuthAssumption
    <3>5. d = [s EXCEPT !.ans = TRUE, !.ttys = W]
      BY <1>1, <1>3, <1>6, <2>2, <3>2 DEF monitor_child_postauth, mm_answer_pty, MState
    <3>6. MInv(o, d) /\ d.phase = "postauth" /\ d.ttys = W /\ (d.ans <=> TRUE)
      BY <1>2, <3>3, <3>4, <3>5
    <3> QED  BY <1>3, <1>6, <3>2, <3>6
  <2> QED  BY <2>1, <2>2
<1>7. CASE q.t \in s.permit /\ q.t = "PTYCLEANUP"
  <2>1. PICK W \in SUBSET Ttys : W = T \ {q.key}
    <3>1. T \ {q.key} \in SUBSET Ttys
      OBVIOUS
    <3> QED  BY <3>1, Zenon
  <2>2. IsFiniteSet(W) /\ Cardinality(W) <= MaxSessions
    <3>1. /\ IsFiniteSet(T \ {q.key})
          /\ Cardinality(T \ {q.key}) = IF q.key \in T THEN Cardinality(T) - 1 ELSE Cardinality(T)
      BY <1>4, FS_RemoveElement
    <3>2. W = T \ {q.key}
      BY <2>1
    <3> QED  BY <1>4, <3>1, <3>2, AuthAssumption
  <2>3. PICK b \in BOOLEAN : b = s.ans
    BY <1>1 DEF MState
  <2>4. d = [s EXCEPT !.ans = b, !.ttys = W]
    BY <1>1, <1>3, <1>7, <2>1, <2>3 DEF monitor_child_postauth, mm_answer_pty_cleanup, MState
  <2>5. MInv(o, d) /\ d.phase = "postauth" /\ d.ttys = W
    BY <1>2, <2>2, <2>4
  <2> QED  BY <1>3, <1>7, <2>1, <2>5
<1>8. CASE q.t \in s.permit /\ q.t = "TERM"
  <2>1. "none" \in Reasons
    BY DEF Reasons
  <2>2. d = Exit(s)
    BY <1>8 DEF monitor_child_postauth, mm_answer_term, Exit
  <2>3. MInv(o, d) /\ d.phase = "exited"
    BY <2>1, <2>2, ExitKeeps
  <2> QED  BY <2>3
<1>9. CASE q.t \in s.permit /\ q.t \notin {"PTY", "PTYCLEANUP", "TERM"}
  <2>1. d = [s EXCEPT !.ans = TRUE, !.ttys = T]
    BY <1>1, <1>3, <1>9 DEF monitor_child_postauth, mm_answer_sign, mm_answer_moduli, MState
  <2>2. MInv(o, d) /\ d.phase = "postauth"
    BY <1>2, <1>4, <2>1
  <2> QED  BY <1>9, <2>2
<1> QED  BY <1>5, <1>6, <1>7, <1>8, <1>9

\* whatever the child asks
LEMMA MonitorKeeps ==
  ASSUME NEW o \in Conf, NEW s, MInv(o, s), NEW q, Proper(q), NEW d, d = Monitor(o, s, q)
  PROVE  MInv(o, d)
<1>1. s.phase \in {"preauth", "export", "postauth", "direct", "exited"}
  BY DEF MInv, MState
<1>2. CASE s.phase = "preauth"
  BY <1>2, PreauthKeeps DEF Monitor
<1>3. CASE s.phase = "export"
  BY <1>3, KeystateKeeps DEF Monitor
<1>4. CASE s.phase = "postauth"
  BY <1>4, PostauthKeeps DEF Monitor
<1>5. CASE s.phase \in {"direct", "exited"}
  BY <1>5 DEF Monitor
<1> QED  BY <1>1, <1>2, <1>3, <1>4, <1>5

-----------------------------------------------------------------------------
(* The child until the key state is exported: it asks the monitor, and does *)
(* not come past the login by itself.                                       *)

\* every request of the child is one that Proper describes
LEMMA PlainProper ==
  ASSUME NEW t \in ReqTypes \ {"KEYALLOWED", "KEYVERIFY"}
  PROVE  Proper(Req(t)) /\ Req(t).t = t
BY DEF Proper, Requests, Req, Kinds, Passwords

LEMMA PasswordProper ==
  ASSUME NEW pw \in Passwords, NEW q, q = [Req("AUTHPASSWORD") EXCEPT !.pw = pw]
  PROVE  Proper(q) /\ q.t = "AUTHPASSWORD"
BY DEF Proper, Requests, Req, Kinds, Passwords, ReqTypes

LEMMA KeyallowedProper ==
  ASSUME NEW kind \in Kinds, NEW key \in Keys,
         NEW q, q = [Req("KEYALLOWED") EXCEPT !.kind = kind, !.key = key]
  PROVE  Proper(q) /\ q.t = "KEYALLOWED"
BY DEF Proper, Requests, Req, Kinds, Passwords, ReqTypes

LEMMA KeyverifyProper ==
  ASSUME NEW key \in Keys, NEW kind \in Kinds, NEW good \in BOOLEAN,
         NEW q, q = [Req("KEYVERIFY") EXCEPT !.key = key, !.data = kind, !.good = good]
  PROVE  Proper(q) /\ q.t = "KEYVERIFY"
<1>1. "KEYVERIFY" \in ReqTypes /\ "user" \in Kinds /\ "empty" \in Passwords
  BY DEF ReqTypes, Kinds, Passwords
<1>2. key \in Keys \cup Ttys \cup {NoKey}
  OBVIOUS
<1>3. Req("KEYVERIFY") \in Requests
  BY <1>1 DEF Requests, Req
<1>4. PICK r : r = [Req("KEYVERIFY") EXCEPT !.key = key, !.data = kind]
  OBVIOUS
<1>5. r \in Requests /\ r.t = "KEYVERIFY" /\ r.key = key
  BY <1>2, <1>3, <1>4 DEF Requests, Req
<1>6. q = [r EXCEPT !.good = good]
  BY <1>4
<1>7. q \in Requests /\ q.t = "KEYVERIFY" /\ q.key = key
  BY <1>5, <1>6 DEF Requests
<1> QED  BY <1>7 DEF Proper

LEMMA TtyProper ==
  ASSUME NEW t \in {"PTY", "PTYCLEANUP"}, NEW tty \in Ttys \cup {NoKey},
         NEW q, q = [Req(t) EXCEPT !.key = tty]
  PROVE  Proper(q) /\ q.t = t /\ q.key = tty
BY DEF Proper, Requests, Req, Kinds, Passwords, ReqTypes

\* the child has not exported the key state
Early(o, x) ==
  /\ x \in Pairs /\ MInv(o, x.m) /\ Bounded(o, x.c)
  /\ x.m.phase \in {"preauth", "export", "exited"} /\ x.c.ttys = {}

LEMMA PairExcept ==
  ASSUME NEW C, NEW M, NEW x \in [c : C, m : M], NEW d
  PROVE  [c |-> d, m |-> x.m] = [x EXCEPT !.c = d]
OBVIOUS

\* the child sets something of its own
LEMMA ChildSet ==
  ASSUME NEW o \in Conf, NEW x, Early(o, x), NEW d \in CState, Bounded(o, d), d.ttys = {},
         NEW y, y = [c |-> d, m |-> x.m]
  PROVE  Early(o, y)
<1>1. x.m \in MState
  BY DEF Early, Pairs
<1>2. y \in Pairs /\ y.c = d /\ y.m = x.m
  BY <1>1 DEF Pairs
<1> QED  BY <1>2 DEF Early

LEMMA MonitorEarly ==
  ASSUME NEW o \in Conf, NEW s, MInv(o, s), s.phase \in {"preauth", "export", "exited"},
         NEW q, Proper(q), q.t # "KEYEXPORT", NEW d, d = Monitor(o, s, q)
  PROVE  MInv(o, d) /\ d.phase \in {"preauth", "export", "exited"}
<1>1. MInv(o, d)
  BY MonitorKeeps
<1>2. d.phase \in {"preauth", "export", "exited"}
  <2>1. CASE s.phase = "preauth"
    BY <2>1, PreauthKeeps DEF Monitor
  <2>2. CASE s.phase = "export"
    BY <2>2, KeystateKeeps DEF Monitor
  <2>3. CASE s.phase = "exited"
    BY <2>3 DEF Monitor
  <2> QED  BY <2>1, <2>2, <2>3
<1> QED  BY <1>1, <1>2

LEMMA AskEarly ==
  ASSUME NEW o \in Conf, NEW x, Early(o, x), NEW q, Proper(q), q.t # "KEYEXPORT"
  PROVE  Early(o, Ask(o, x, q))
<1>1. /\ x \in Pairs /\ x.c \in CState /\ x.m \in MState /\ MInv(o, x.m) /\ Bounded(o, x.c)
      /\ x.m.phase \in {"preauth", "export", "exited"} /\ x.c.ttys = {}
  BY DEF Early, Pairs
<1>2. PICK d : d = Monitor(o, x.m, q)
  OBVIOUS
<1>3. MInv(o, d) /\ d.phase \in {"preauth", "export", "exited"}
  <2>1. PICK s : s = x.m
    OBVIOUS
  <2>2. MInv(o, s) /\ s.phase \in {"preauth", "export", "exited"} /\ d = Monitor(o, s, q)
    BY <1>1, <1>2, <2>1
  <2> QED  BY <2>2, MonitorEarly
<1>4. d \in MState
  BY <1>3 DEF MInv
<1>5. PICK e : e = IF d.phase = "exited" THEN [x.c EXCEPT !.status = "dead"] ELSE x.c
  OBVIOUS
<1>6. e \in CState /\ Bounded(o, e) /\ e.ttys = {}
  <2>1. CASE d.phase = "exited"
    <3>1. e \in CState /\ e.ttys = {} /\ e.attempt = x.c.attempt /\ e.failures = x.c.failures
          /\ e.status = "dead"
      BY <1>1, <1>5, <2>1 DEF CState
    <3> QED  BY <1>1, <3>1 DEF Bounded
  <2>2. CASE d.phase # "exited"
    BY <1>1, <1>5, <2>2
  <2> QED  BY <2>1, <2>2
<1>7. PICK y : y = [c |-> e, m |-> d]
  OBVIOUS
<1>8. y \in Pairs /\ y.c = e /\ y.m = d
  BY <1>4, <1>6, <1>7 DEF Pairs
<1>9. y = Ask(o, x, q)
  BY <1>2, <1>5, <1>7 DEF Ask, Answered
<1> QED  BY <1>3, <1>6, <1>8, <1>9 DEF Early

\* the child may end with one failure more than it may have
LEMMA QuitEarly ==
  ASSUME NEW o \in Conf, NEW x \in Pairs, MInv(o, x.m), x.c.attempt <= MaxAttempts,
         x.c.failures <= o.tries + 1, x.c.ttys = {}
  PROVE  Early(o, Quit(x))
<1>1. x.c \in CState /\ x.m \in MState
  BY DEF Pairs
<1>2. PICK d : d = Exit(x.m)
  OBVIOUS
<1>3. MInv(o, d) /\ d.phase = "exited"
  <2>1. "none" \in Reasons
    BY DEF Reasons
  <2> QED  BY <1>2, <2>1, ExitKeeps
<1>4. d \in MState
  BY <1>3 DEF MInv
<1>5. PICK e : e = [x.c EXCEPT !.status = "dead"]
  OBVIOUS
<1>6. e \in CState /\ e.ttys = {} /\ e.attempt = x.c.attempt /\ e.failures = x.c.failures
      /\ e.status = "dead"
  BY <1>1, <1>5 DEF CState
<1>7. Bounded(o, e)
  BY <1>6 DEF Bounded
<1>8. PICK y : y = [c |-> e, m |-> d]
  OBVIOUS
<1>9. y \in Pairs /\ y.c = e /\ y.m = d
  BY <1>4, <1>6, <1>8 DEF Pairs
<1>10. y = Quit(x)
  BY <1>2, <1>5, <1>8 DEF Quit
<1> QED  BY <1>3, <1>6, <1>7, <1>9, <1>10 DEF Early

LEMMA EarlyQuits ==
  ASSUME NEW o \in Conf, NEW x, Early(o, x)
  PROVE  Early(o, Quit(x))
BY QuitEarly DEF Early, Bounded

\* the requests of the methods
LEMMA AsksEarly ==
  ASSUME NEW o \in Conf, NEW x, Early(o, x)
  PROVE  /\ \A pw \in Passwords : Early(o, mm_auth_password(o, x, pw))
         /\ \A kind \in Kinds, key \in Keys : Early(o, mm_key_allowed(o, x, kind, key))
         /\ \A kind \in Kinds, key \in Keys, good \in BOOLEAN :
              Early(o, mm_sshkey_verify(o, x, kind, key, good))
<1>1. ASSUME NEW pw \in Passwords PROVE Early(o, mm_auth_password(o, x, pw))
  <2>1. PICK q : q = [Req("AUTHPASSWORD") EXCEPT !.pw = pw]
    OBVIOUS
  <2>2. Proper(q) /\ q.t = "AUTHPASSWORD"
    BY <2>1, PasswordProper
  <2>3. Early(o, Ask(o, x, q))
    BY <2>2, AskEarly
  <2> QED  BY <2>1, <2>3 DEF mm_auth_password
<1>2. ASSUME NEW kind \in Kinds, NEW key \in Keys PROVE Early(o, mm_key_allowed(o, x, kind, key))
  <2>1. PICK q : q = [Req("KEYALLOWED") EXCEPT !.kind = kind, !.key = key]
    OBVIOUS
  <2>2. Proper(q) /\ q.t = "KEYALLOWED"
    BY <2>1, KeyallowedProper
  <2>3. Early(o, Ask(o, x, q))
    BY <2>2, AskEarly
  <2> QED  BY <2>1, <2>3 DEF mm_key_allowed
<1>3. ASSUME NEW kind \in Kinds, NEW key \in Keys, NEW good \in BOOLEAN
      PROVE  Early(o, mm_sshkey_verify(o, x, kind, key, good))
  <2>1. PICK q : q = [Req("KEYVERIFY") EXCEPT !.key = key, !.data = kind, !.good = good]
    OBVIOUS
  <2>2. Proper(q) /\ q.t = "KEYVERIFY"
    BY <2>1, KeyverifyProper
  <2>3. Early(o, Ask(o, x, q))
    BY <2>2, AskEarly
  <2> QED  BY <2>1, <2>3 DEF mm_sshkey_verify
<1> QED  BY <1>1, <1>2, <1>3

-----------------------------------------------------------------------------
(* input_userauth_request().                                                *)

\* x is given another child that has attempted, failed and ended alike
LEMMA ChildKeeps ==
  ASSUME NEW o \in Conf, NEW x, Early(o, x), NEW d \in CState, d.attempt = x.c.attempt,
         d.failures = x.c.failures, d.status = x.c.status, d.ttys = x.c.ttys,
         NEW y, y = [c |-> d, m |-> x.m]
  PROVE  Early(o, y)
<1>1. Bounded(o, d) /\ d.ttys = {}
  BY DEF Early, Bounded
<1> QED  BY <1>1, ChildSet

LEMMA EarlyTypes ==
  ASSUME NEW o, NEW x, Early(o, x)
  PROVE  x \in Pairs /\ x.c \in CState /\ x.m \in MState /\ MInv(o, x.m)
BY DEF Early, Pairs

\* the methods
LEMMA NoneEarly ==
  ASSUME NEW o \in Conf, NEW x, Early(o, x)
  PROVE  Early(o, userauth_none(o, x).x)
<1>1. x \in Pairs /\ x.c \in CState
  BY EarlyTypes
<1>2. PICK d : d = [x.c EXCEPT !.none = FALSE]
  OBVIOUS
<1>3. d \in CState /\ d.attempt = x.c.attempt /\ d.failures = x.c.failures
      /\ d.status = x.c.status /\ d.ttys = x.c.ttys
  BY <1>1, <1>2 DEF CState
<1>4. PICK y : y = [c |-> d, m |-> x.m]
  OBVIOUS
<1>5. y = [x EXCEPT !.c.none = FALSE]
  <2>1. y = [x EXCEPT !.c = d]
    BY <1>1, <1>4, PairExcept DEF Pairs
  <2> QED  BY <1>2, <2>1, Zenon
<1>6. Early(o, y)
  BY <1>3, <1>4, ChildKeeps
<1>7. "empty" \in Passwords
  BY DEF Passwords
<1>8. Early(o, mm_auth_password(o, y, "empty"))
  BY <1>6, <1>7, AsksEarly
<1> QED  BY <1>5, <1>6, <1>8 DEF userauth_none, Result, ByAnswer

LEMMA PasswdEarly ==
  ASSUME NEW o \in Conf, NEW x, Early(o, x), NEW pw \in Passwords
  PROVE  Early(o, userauth_passwd(o, x, pw).x)
<1>1. Early(o, mm_auth_password(o, x, pw))
  BY AsksEarly
<1> QED  BY <1>1 DEF userauth_passwd, Result, ByAnswer

LEMMA RecordEarly ==
  ASSUME NEW o \in Conf, NEW x, Early(o, x), NEW kind, NEW key \in Keys
  PROVE  Early(o, Record(o, x, kind, key).x)
<1>1. CASE ~x.m.ans
  BY <1>1 DEF Record, Result
<1>2. CASE x.m.ans
  <2>1. x \in Pairs /\ x.c \in CState
    BY EarlyTypes
  <2>2. PICK U \in SUBSET Keys : U = x.c.used \cup {key}
    <3>1. x.c.used \cup {key} \in SUBSET Keys
      BY <2>1 DEF CState
    <3> QED  BY <3>1, Zenon
  <2> DEFINE command == CommandOf(o, kind, key)
  <2>3. PICK f \in Commands : f = merged_command(x.c.force, command)
    <3>1. x.c.force \in Commands
      BY <2>1 DEF CState
    <3> QED  BY <3>1, CommandTypes, Zenon
  <2>4. PICK p \in BOOLEAN : p = merged_pty(x.c.pty, PtyOf(o, kind, key), x.c.force, command)
    <3> DEFINE permit == PtyOf(o, kind, key)
    <3>1. merged_pty(x.c.pty, permit, x.c.force, command) \in BOOLEAN
      <4> HIDE DEF permit, command
      <4> QED  BY PtyTypes, Zenon
    <3> QED  BY <3>1, Zenon
  <2>5. PICK d : d = [x.c EXCEPT !.used = U, !.force = f, !.pty = p]
    OBVIOUS
  <2>6. d \in CState /\ d.attempt = x.c.attempt /\ d.failures = x.c.failures
        /\ d.status = x.c.status /\ d.ttys = x.c.ttys
    BY <2>1, <2>5 DEF CState
  <2>7. PICK y : y = [c |-> d, m |-> x.m]
    OBVIOUS
  <2>8. y = [x EXCEPT !.c = [x.c EXCEPT
               !.used = x.c.used \cup {key}, !.force = merged_command(x.c.force, command),
               !.pty = merged_pty(x.c.pty, PtyOf(o, kind, key), x.c.force, command)]]
    <3>1. y = [x EXCEPT !.c = d]
      BY <2>1, <2>7, PairExcept DEF Pairs
    <3> HIDE DEF command
    <3> QED  BY <2>2, <2>3, <2>4, <2>5, <3>1, Zenon
  <2>9. Early(o, y)
    BY <2>6, <2>7, ChildKeeps
  <2>10. Record(o, x, kind, key) = Result(y, ~Inconsistent(x.c.force, command))
    BY <1>2, <2>8 DEF Record
  <2> QED  BY <2>9, <2>10 DEF Result
<1> QED  BY <1>1, <1>2

LEMMA SignatureEarly ==
  ASSUME NEW o \in Conf, NEW x, Early(o, x), NEW kind \in Kinds, NEW key \in Keys, NEW signed,
         NEW good \in BOOLEAN
  PROVE  Early(o, Signature(o, x, kind, key, signed, good).x)
<1>1. PICK y : y = mm_sshkey_verify(o, x, kind, key, good)
  OBVIOUS
<1>2. Early(o, y)
  BY <1>1, AsksEarly
<1>3. Early(o, Record(o, y, kind, key).x)
  BY <1>2, RecordEarly
<1>4. CASE ~signed
  BY <1>4 DEF Signature
<1>5. CASE signed /\ ~x.m.ans
  BY <1>5 DEF Signature, Result
<1>6. CASE signed /\ x.m.ans
  BY <1>1, <1>3, <1>6 DEF Signature
<1> QED  BY <1>4, <1>5, <1>6

\* any method the client may try
LEMMA MethodEarly ==
  ASSUME NEW o \in Conf, NEW x, Early(o, x), NEW a \in Attempts
  PROVE  Early(o, Method(o, x, a).x)
<1>1. /\ a.method \in Methods /\ a.good \in BOOLEAN /\ a.pw \in Passwords
      /\ a.method \in {"publickey", "hostbased"} => a.key \in Keys
  BY DEF Attempts, Methods, Passwords
<1>2. CASE a.method = "none"
  BY <1>2, NoneEarly DEF Method
<1>3. CASE a.method = "password"
  BY <1>1, <1>3, PasswdEarly DEF Method
<1>4. CASE a.method = "keyboard-interactive"
  BY <1>4 DEF Method, userauth_kbdint, Result
<1>5. "user" \in Kinds /\ "host" \in Kinds
  BY DEF Kinds
<1>6. CASE a.method = "publickey"
  <2>1. PICK key \in Keys : key = a.key
    BY <1>1, <1>6
  <2>2. PICK y : y = mm_key_allowed(o, x, "user", key)
    OBVIOUS
  <2>3. Early(o, y)
    BY <1>5, <2>2, AsksEarly
  <2>4. Early(o, Signature(o, y, "user", key, a.signed, a.good).x)
    BY <1>1, <1>5, <2>3, SignatureEarly
  <2>5. Early(o, userauth_pubkey(o, x, key, a.signed, a.good).x)
    BY <2>2, <2>4 DEF userauth_pubkey, Result
  <2> QED  BY <1>6, <2>1, <2>5 DEF Method
<1>7. CASE a.method = "hostbased"
  <2>1. PICK key \in Keys : key = a.key
    BY <1>1, <1>7
  <2>2. PICK y : y = mm_key_allowed(o, x, "host", key)
    OBVIOUS
  <2>3. Early(o, y)
    BY <1>5, <2>2, AsksEarly
  <2>4. Early(o, Signature(o, y, "host", key, TRUE, a.good).x)
    BY <1>1, <1>5, <2>3, SignatureEarly
  <2>5. Early(o, userauth_hostbased(o, x, key, a.good).x)
    BY <2>2, <2>4 DEF userauth_hostbased, Result
  <2> QED  BY <1>7, <2>1, <2>5 DEF Method
<1> QED  BY <1>1, <1>2, <1>3, <1>4, <1>6, <1>7 DEF Methods

LEMMA UpdateLists ==
  ASSUME NEW L \in Lists, NEW method
  PROVE  auth2_update_methods_lists(L, method).lists \in Lists
<1>1. PICK D \in SUBSET Nat : L \in [D -> Seq(Methods)]
  BY DEF Lists
<1> DEFINE starts == {i \in DOMAIN L : list_starts_with(L[i], method)}
           complete == {i \in starts : Len(L[i]) = 1}
           visited(i) == \A j \in complete : i <= j
           R(i) == IF i \in starts /\ visited(i) THEN Tail(L[i]) ELSE L[i]
<1>2. ASSUME NEW i \in D PROVE R(i) \in Seq(Methods)
  <2>1. PICK l \in Seq(Methods) : l = L[i]
    BY <1>1
  <2>2. i \in starts => l # <<>>
    BY <2>1 DEF list_starts_with
  <2>3. l # <<>> => Tail(l) \in Seq(Methods)
    BY HeadTailProperties
  <2> HIDE DEF starts, visited
  <2> QED  BY <2>1, <2>2, <2>3
<1>3. PICK M : M = [i \in DOMAIN L |-> R(i)]
  OBVIOUS
<1>4. auth2_update_methods_lists(L, method).lists = M
  BY <1>3 DEF auth2_update_methods_lists
<1> HIDE DEF R
<1>5. M \in [D -> Seq(Methods)]
  BY <1>1, <1>2, <1>3
<1> QED  BY <1>4, <1>5 DEF Lists

\* a failure more than there may be ends the child
LEMMA PayEarly ==
  ASSUME NEW o \in Conf, NEW x, Early(o, x), x.c.status # "dead", NEW method, NEW partial
  PROVE  Early(o, Pay(o, x, method, partial))
<1>1. x \in Pairs /\ x.c \in CState /\ x.m \in MState /\ MInv(o, x.m)
  BY EarlyTypes
<1>2. /\ x.c.failures \in Nat /\ o.tries \in Nat /\ x.c.attempt \in Nat /\ x.c.failures <= o.tries
      /\ x.c.attempt <= MaxAttempts /\ x.c.ttys = {}
  BY <1>1 DEF CState, Conf, Early, Bounded
<1>3. PICK n \in Nat :
        n = x.c.failures + (IF ~partial /\ (x.c.attempt > 1 \/ method # "none") THEN 1 ELSE 0)
  <2>1. x.c.failures + (IF ~partial /\ (x.c.attempt > 1 \/ method # "none") THEN 1 ELSE 0) \in Nat
    BY <1>2
  <2> QED  BY <2>1, Zenon
<1>4. n <= o.tries + 1
  BY <1>2, <1>3
<1>5. PICK d : d = [x.c EXCEPT !.failures = n]
  OBVIOUS
<1>6. d \in CState /\ d.attempt = x.c.attempt /\ d.failures = n /\ d.status = x.c.status
      /\ d.ttys = {}
  BY <1>1, <1>2, <1>5 DEF CState
<1>7. PICK y : y = [c |-> d, m |-> x.m]
  OBVIOUS
<1>8. y = [x EXCEPT !.c.failures = n]
  <2>1. y = [x EXCEPT !.c = d]
    BY <1>1, <1>7, PairExcept DEF Pairs
  <2> QED  BY <1>5, <2>1, Zenon
<1>9. Pay(o, x, method, partial) = IF n >= o.tries THEN Quit(y) ELSE y
  BY <1>3, <1>8 DEF Pay
<1>10. y \in Pairs /\ y.c = d /\ y.m = x.m
  BY <1>1, <1>6, <1>7 DEF Pairs
<1>11. CASE n >= o.tries
  <2>1. /\ MInv(o, y.m) /\ y.c.attempt <= MaxAttempts /\ y.c.failures <= o.tries + 1
        /\ y.c.ttys = {}
    BY <1>1, <1>2, <1>4, <1>6, <1>10
  <2>2. Early(o, Quit(y))
    BY <1>10, <2>1, QuitEarly
  <2> QED  BY <1>9, <1>11, <2>2
<1>12. CASE ~(n >= o.tries)
  <2>1. Bounded(o, d)
    BY <1>2, <1>6, <1>12 DEF Bounded
  <2>2. Early(o, y)
    BY <1>6, <1>7, <2>1, ChildSet
  <2> QED  BY <1>9, <1>12, <2>2
<1> QED  BY <1>11, <1>12

LEMMA FinishEarly ==
  ASSUME NEW o \in Conf, NEW x, Early(o, x), x.c.status # "dead", NEW method, NEW root,
         NEW u, u.lists \in Lists
  PROVE  Early(o, Finish(o, x, method, root, u))
<1>1. x \in Pairs /\ x.c \in CState
  BY EarlyTypes
<1>2. Early(o, Pay(o, x, method, FALSE)) /\ Early(o, Quit(x))
  BY PayEarly, EarlyQuits
<1>3. PICK l \in Lists : l = u.lists
  BY Zenon
<1>4. ASSUME NEW d \in CState, d.attempt = x.c.attempt, d.failures = x.c.failures,
             d.status = x.c.status, d.ttys = x.c.ttys, NEW y, y = [x EXCEPT !.c = d]
      PROVE  Early(o, y) /\ y.c = d
  <2>1. y = [c |-> d, m |-> x.m]
    BY <1>1, <1>4, PairExcept DEF Pairs
  <2>2. Early(o, y)
    BY <1>4, <2>1, ChildKeeps
  <2> QED  BY <2>1, <2>2
<1>5. PICK y1 : y1 = [x EXCEPT !.c.success = TRUE]
  OBVIOUS
<1>6. Early(o, y1)
  <2>1. PICK d : d = [x.c EXCEPT !.success = TRUE]
    OBVIOUS
  <2>2. d \in CState /\ d.attempt = x.c.attempt /\ d.failures = x.c.failures
        /\ d.status = x.c.status /\ d.ttys = x.c.ttys
    BY <1>1, <2>1 DEF CState
  <2>3. y1 = [x EXCEPT !.c = d]
    BY <1>5, <2>1, Zenon
  <2> QED  BY <1>4, <2>2, <2>3
<1>7. PICK y2 : y2 = [x EXCEPT !.c = [x.c EXCEPT !.success = TRUE, !.lists = l]]
  OBVIOUS
<1>8. Early(o, y2)
  <2>1. PICK d : d = [x.c EXCEPT !.success = TRUE, !.lists = l]
    OBVIOUS
  <2>2. d \in CState /\ d.attempt = x.c.attempt /\ d.failures = x.c.failures
        /\ d.status = x.c.status /\ d.ttys = x.c.ttys
    BY <1>1, <2>1 DEF CState
  <2>3. y2 = [x EXCEPT !.c = d]
    BY <1>7, <2>1, Zenon
  <2> QED  BY <1>4, <2>2, <2>3
<1>9. PICK y3 : y3 = [x EXCEPT !.c.lists = l]
  OBVIOUS
<1>10. Early(o, y3) /\ y3.c.status = x.c.status
  <2>1. PICK d : d = [x.c EXCEPT !.lists = l]
    OBVIOUS
  <2>2. d \in CState /\ d.attempt = x.c.attempt /\ d.failures = x.c.failures
        /\ d.status = x.c.status /\ d.ttys = x.c.ttys
    BY <1>1, <2>1 DEF CState
  <2>3. y3 = [x EXCEPT !.c = d]
    BY <1>9, <2>1, Zenon
  <2>4. Early(o, y3) /\ y3.c = d
    BY <1>4, <2>2, <2>3
  <2> QED  BY <2>2, <2>4
<1>11. Early(o, Pay(o, y3, method, TRUE))
  BY <1>10, PayEarly
<1>12. Finish(o, x, method, root, u) =
         IF ~root THEN Pay(o, x, method, FALSE)
         ELSE IF o.lists = <<>> THEN y1
         ELSE IF ~u.found THEN Quit(x)
         ELSE IF u.done THEN y2
         ELSE Pay(o, y3, method, TRUE)
  BY <1>3, <1>5, <1>7, <1>9, Zenon DEF Finish
<1> QED  BY <1>2, <1>6, <1>8, <1>11, <1>12

LEMMA UserauthFinishEarly ==
  ASSUME NEW o \in Conf, NEW r, Early(o, r.x), NEW method
  PROVE  Early(o, userauth_finish(o, r, method))
<1>1. PICK x : x = r.x
  OBVIOUS
<1>2. Early(o, x) /\ Early(o, Quit(x))
  BY <1>1, EarlyQuits
<1>3. CASE x.c.status = "dead" \/ r.postponed
  BY <1>1, <1>2, <1>3 DEF userauth_finish
<1>4. CASE ~(x.c.status = "dead" \/ r.postponed) /\ (r.ok /\ ~x.c.valid)
  BY <1>1, <1>2, <1>4 DEF userauth_finish
<1>5. CASE ~(x.c.status = "dead" \/ r.postponed) /\ ~(r.ok /\ ~x.c.valid)
  <2>1. PICK root : root = (r.ok /\ (o.root => auth_root_allowed(o, method, x.c.force)))
    OBVIOUS
  <2>2. PICK u : u = auth2_update_methods_lists(x.c.lists, method)
    OBVIOUS
  <2>3. x.c.lists \in Lists
    BY <1>2, EarlyTypes DEF CState
  <2>4. u.lists \in Lists
    BY <2>2, <2>3, UpdateLists
  <2>5. Early(o, Finish(o, x, method, root, u))
    BY <1>2, <1>5, <2>4, FinishEarly
  <2>6. userauth_finish(o, r, method) = Finish(o, x, method, root, u)
    BY <1>1, <1>5, <2>1, <2>2 DEF userauth_finish
  <2> QED  BY <2>5, <2>6
<1> QED  BY <1>3, <1>4, <1>5

LEMMA SetUserEarly ==
  ASSUME NEW o \in Conf, NEW x, Early(o, x), NEW service \in {"ssh-connection", "other"}
  PROVE  Early(o, SetUser(x, service))
<1>1. x \in Pairs /\ x.c \in CState
  BY EarlyTypes
<1>2. PICK v \in BOOLEAN : v = (x.m.ans /\ service = "ssh-connection")
  <2>1. (x.m.ans /\ service = "ssh-connection") \in BOOLEAN
    OBVIOUS
  <2> QED  BY <2>1, Zenon
<1>3. PICK d : d = [x.c EXCEPT !.service = service, !.valid = v]
  OBVIOUS
<1>4. d \in CState /\ d.attempt = x.c.attempt /\ d.failures = x.c.failures
      /\ d.status = x.c.status /\ d.ttys = x.c.ttys
  BY <1>1, <1>3 DEF CState
<1>5. PICK y : y = [c |-> d, m |-> x.m]
  OBVIOUS
<1>6. Early(o, y)
  BY <1>4, <1>5, ChildKeeps
<1>7. y = [x EXCEPT !.c = d]
  BY <1>1, <1>5, PairExcept DEF Pairs
<1>8. y = SetUser(x, service)
  BY <1>2, <1>3, <1>7, Zenon DEF SetUser
<1> QED  BY <1>6, <1>8

LEMMA BannerEarly ==
  ASSUME NEW o \in Conf, NEW x, Early(o, x)
  PROVE  Early(o, Banner(o, x))
<1>1. "BANNER" \in ReqTypes \ {"KEYALLOWED", "KEYVERIFY"}
  BY DEF ReqTypes
<1>2. Proper(Req("BANNER")) /\ Req("BANNER").t = "BANNER"
  BY <1>1, PlainProper
<1>3. Early(o, Ask(o, x, Req("BANNER")))
  BY <1>2, AskEarly
<1> QED  BY <1>3 DEF Banner

LEMMA SetListsEarly ==
  ASSUME NEW o \in Conf, NEW x, Early(o, x), NEW l \in Lists
  PROVE  Early(o, SetLists(o, x, l))
<1>1. x \in Pairs /\ x.c \in CState
  BY EarlyTypes
<1>2. PICK d : d = [x.c EXCEPT !.lists = l]
  OBVIOUS
<1>3. d \in CState /\ d.attempt = x.c.attempt /\ d.failures = x.c.failures
      /\ d.status = x.c.status /\ d.ttys = x.c.ttys
  BY <1>1, <1>2 DEF CState
<1>4. PICK y : y = [c |-> d, m |-> x.m]
  OBVIOUS
<1>5. Early(o, y) /\ Early(o, Quit(x))
  BY <1>3, <1>4, ChildKeeps, EarlyQuits
<1>6. y = [x EXCEPT !.c = d]
  BY <1>1, <1>4, PairExcept DEF Pairs
<1>7. y = [x EXCEPT !.c.lists = l]
  BY <1>2, <1>6, Zenon
<1> QED  BY <1>5, <1>7 DEF SetLists

LEMMA SetupEarly ==
  ASSUME NEW o \in Conf, NEW x, Early(o, x), NEW service \in {"ssh-connection", "other"}
  PROVE  Early(o, Setup(o, x, service))
<1>1. \A t \in {"PWNAM", "AUTHSERV"} : t \in ReqTypes \ {"KEYALLOWED", "KEYVERIFY"}
  BY DEF ReqTypes
<1>2. /\ Proper(Req("PWNAM")) /\ Req("PWNAM").t = "PWNAM"
      /\ Proper(Req("AUTHSERV")) /\ Req("AUTHSERV").t = "AUTHSERV"
  BY <1>1, PlainProper
<1>3. PICK x1 : x1 = Ask(o, x, Req("PWNAM"))
  OBVIOUS
<1>4. Early(o, x1)
  BY <1>2, <1>3, AskEarly
<1>5. PICK x2 : x2 = SetUser(x1, service)
  OBVIOUS
<1>6. Early(o, x2)
  BY <1>4, <1>5, SetUserEarly
<1>7. PICK x3 : x3 = Ask(o, x2, Req("AUTHSERV"))
  OBVIOUS
<1>8. Early(o, x3)
  BY <1>2, <1>6, <1>7, AskEarly
<1>9. PICK x4 : x4 = Banner(o, x3)
  OBVIOUS
<1>10. Early(o, x4)
  BY <1>8, <1>9, BannerEarly
<1>11. PICK l : l = auth2_setup_methods_lists(o)
  OBVIOUS
<1>12. l \in Lists
  BY <1>11, SetupLists
<1>13. Early(o, SetLists(o, x4, l))
  BY <1>10, <1>12, SetListsEarly
<1> QED  BY <1>3, <1>5, <1>7, <1>9, <1>11, <1>13 DEF Setup

LEMMA BeginEarly ==
  ASSUME NEW o \in Conf, NEW x, Early(o, x), x.c.status # "dead",
         NEW service \in {"ssh-connection", "other"}
  PROVE  Early(o, Begin(o, x, service))
<1>1. x \in Pairs /\ x.c \in CState
  BY EarlyTypes
<1>2. CASE x.c.attempt >= MaxAttempts \/ (x.c.attempt > 0 /\ service # x.c.service)
  BY <1>2, EarlyQuits DEF Begin
<1>3. CASE ~(x.c.attempt >= MaxAttempts \/ (x.c.attempt > 0 /\ service # x.c.service))
  <2>0. x.c.attempt \in Nat
    <3>1. PICK e \in CState : e = x.c
      BY <1>1, Zenon
    <3>2. e.attempt \in Nat
      BY DEF CState
    <3> QED  BY <3>1, <3>2
  <2>1. PICK n \in Nat : n = x.c.attempt + 1
    <3>1. x.c.attempt + 1 \in Nat
      BY <2>0
    <3> QED  BY <3>1, Zenon
  <2>2. PICK d : d = [x.c EXCEPT !.attempt = n]
    OBVIOUS
  <2>3. d \in CState /\ d.attempt = n /\ d.failures = x.c.failures
        /\ d.status = x.c.status /\ d.ttys = x.c.ttys
    BY <1>1, <2>2 DEF CState
  <2>4. n <= MaxAttempts /\ x.c.attempt \in Nat
    BY <1>3, <2>0, <2>1, AuthAssumption
  <2>5. Bounded(o, d) /\ d.ttys = {}
    BY <2>3, <2>4 DEF Early, Bounded
  <2>6. PICK y : y = [c |-> d, m |-> x.m]
    OBVIOUS
  <2>7. Early(o, y)
    BY <2>3, <2>5, <2>6, ChildSet
  <2>8. y = [x EXCEPT !.c = d]
    BY <1>1, <2>6, PairExcept DEF Pairs
  <2>9. y = [x EXCEPT !.c.attempt = n]
    BY <2>2, <2>8, Zenon
  <2>10. CASE x.c.attempt = 0
    <3>1. Early(o, Setup(o, y, service))
      BY <2>7, SetupEarly
    <3>2. n = 1
      BY <2>1, <2>10
    <3> QED  BY <1>3, <2>9, <2>10, <3>1, <3>2 DEF Begin
  <2>11. CASE x.c.attempt # 0
    <3>1. y = [x EXCEPT !.c.attempt = @ + 1]
      BY <2>1, <2>9, Zenon
    <3> QED  BY <1>3, <2>7, <2>11, <3>1 DEF Begin
  <2> QED  BY <2>10, <2>11
<1> QED  BY <1>2, <1>3

LEMMA RequestEarly ==
  ASSUME NEW o \in Conf, NEW x, Early(o, x), x.c.status # "dead",
         NEW service \in {"ssh-connection", "other"}, NEW a \in Attempts
  PROVE  Early(o, input_userauth_request(o, x, service, a))
<1>1. PICK y : y = Begin(o, x, service)
  OBVIOUS
<1>2. Early(o, y)
  BY <1>1, BeginEarly
<1>3. CASE y.c.status = "dead"
  BY <1>1, <1>2, <1>3 DEF input_userauth_request, Try
<1>4. CASE y.c.status # "dead"
  <2>1. PICK r : r = IF authmethod_lookup(o, y.c, a.method) /\ y.c.failures < o.tries
                     THEN Method(o, y, a) ELSE Result(y, FALSE)
    OBVIOUS
  <2>2. Early(o, Method(o, y, a).x)
    BY <1>2, MethodEarly
  <2>3. Early(o, Result(y, FALSE).x)
    BY <1>2 DEF Result
  <2>4. Early(o, r.x)
    BY <2>1, <2>2, <2>3
  <2>5. Early(o, userauth_finish(o, r, a.method))
    BY <2>4, UserauthFinishEarly
  <2> QED  BY <1>1, <1>4, <2>1, <2>5 DEF input_userauth_request, Try
<1> QED  BY <1>3, <1>4

-----------------------------------------------------------------------------
(* The actions.                                                             *)

LEMMA EarlyGood ==
  ASSUME NEW o \in Conf, NEW x, Early(o, x)
  PROVE  Good(o, x)
BY DEF Early, Good, Tie

\* before the login the child and the monitor are an early pair
LEMMA GoodEarly ==
  ASSUME NEW o \in Conf, NEW x, Good(o, x), x.c.sane, x.c.status \in {"kex", "service", "auth"}
  PROVE  Early(o, x) /\ x.c.status # "dead"
BY DEF Early, Good, Tie

\* the pair that a request leaves, whoever makes it
LEMMA AskPair ==
  ASSUME NEW o \in Conf, NEW x, x \in Pairs, MInv(o, x.m), Bounded(o, x.c), NEW q, Proper(q),
         NEW y, y = Ask(o, x, q)
  PROVE  /\ y \in Pairs /\ MInv(o, y.m) /\ Bounded(o, y.c) /\ y.m = Monitor(o, x.m, q)
         /\ y.c.sane = x.c.sane /\ y.c.ttys = x.c.ttys
         /\ y.c.status = IF y.m.phase = "exited" THEN "dead" ELSE x.c.status
<1>1. x.c \in CState /\ x.m \in MState
  BY DEF Pairs
<1>2. PICK s : s = x.m
  OBVIOUS
<1>3. PICK d : d = Monitor(o, s, q)
  OBVIOUS
<1>4. MInv(o, d)
  BY <1>2, <1>3, MonitorKeeps
<1>5. d \in MState
  BY <1>4 DEF MInv
<1>6. PICK e : e = IF d.phase = "exited" THEN [x.c EXCEPT !.status = "dead"] ELSE x.c
  OBVIOUS
<1>7. /\ e \in CState /\ e.attempt = x.c.attempt /\ e.failures = x.c.failures /\ e.ttys = x.c.ttys
      /\ e.sane = x.c.sane /\ e.status = IF d.phase = "exited" THEN "dead" ELSE x.c.status
  <2>1. CASE d.phase = "exited"
    BY <1>1, <1>6, <2>1 DEF CState
  <2>2. CASE d.phase # "exited"
    BY <1>1, <1>6, <2>2
  <2> QED  BY <2>1, <2>2
<1>8. Bounded(o, e)
  BY <1>7 DEF Bounded
<1>9. y = [c |-> e, m |-> d]
  BY <1>2, <1>3, <1>6 DEF Ask, Answered
<1>10. y.c = e /\ y.m = d /\ y \in Pairs
  BY <1>5, <1>7, <1>9 DEF Pairs
<1> QED  BY <1>2, <1>3, <1>4, <1>7, <1>8, <1>10

LEMMA QuitGood ==
  ASSUME NEW o \in Conf, NEW x, Good(o, x)
  PROVE  Good(o, Quit(x))
<1>1. x \in Pairs /\ x.c \in CState /\ x.m \in MState /\ MInv(o, x.m) /\ Bounded(o, x.c)
  BY DEF Good, Pairs
<1>2. PICK d : d = Exit(x.m)
  OBVIOUS
<1>3. MInv(o, d) /\ d.phase = "exited"
  <2>1. "none" \in Reasons
    BY DEF Reasons
  <2> QED  BY <1>1, <1>2, <2>1, ExitKeeps
<1>4. d \in MState
  BY <1>3 DEF MInv
<1>5. PICK e : e = [x.c EXCEPT !.status = "dead"]
  OBVIOUS
<1>6. e \in CState /\ e.attempt = x.c.attempt /\ e.failures = x.c.failures /\ e.status = "dead"
  BY <1>1, <1>5 DEF CState
<1>7. Bounded(o, e)
  BY <1>1, <1>6 DEF Bounded
<1>8. PICK y : y = [c |-> e, m |-> d]
  OBVIOUS
<1>9. y \in Pairs /\ y.c = e /\ y.m = d
  BY <1>4, <1>6, <1>8 DEF Pairs
<1>10. Tie(y)
  BY <1>3, <1>6, <1>9 DEF Tie
<1>11. y = Quit(x)
  BY <1>2, <1>5, <1>8 DEF Quit
<1> QED  BY <1>3, <1>7, <1>9, <1>10, <1>11 DEF Good

LEMMA Becomes ==
  ASSUME conf \in Conf, NEW x, Good(conf, x), Become(x)
  PROVE  IInv'
<1>1. c' = x.c /\ m' = x.m /\ conf' = conf
  BY DEF Become
<1>2. x \in Pairs
  BY DEF Good
<1>3. x = [c |-> x.c, m |-> x.m]
  BY <1>2 DEF Pairs
<1>4. Pair' = x
  BY <1>1, <1>3 DEF Pair
<1>5. IInv' <=> conf' \in Conf /\ Good(conf', Pair')
  BY DEF IInv
<1>6. Good(conf', Pair')
  BY <1>1, <1>4
<1> QED  BY <1>1, <1>5, <1>6

LEMMA PairFields ==
  ASSUME IInv
  PROVE  /\ conf \in Conf /\ Good(conf, Pair) /\ Pair.c = c /\ Pair.m = m /\ Pair \in Pairs
         /\ c \in CState /\ m \in MState /\ MInv(conf, m) /\ Bounded(conf, c)
<1>1. conf \in Conf /\ Good(conf, Pair)
  BY DEF IInv
<1>2. Pair.c = c /\ Pair.m = m
  BY DEF Pair
<1>3. Pair \in Pairs
  BY <1>1 DEF Good
<1>4. c \in CState /\ m \in MState
  BY <1>2, <1>3 DEF Pairs
<1>5. MInv(conf, m) /\ Bounded(conf, c)
  BY <1>1, <1>2 DEF Good
<1> QED  BY <1>1, <1>2, <1>3, <1>4, <1>5

LEMMA KexKeeps ==
  ASSUME IInv, Kex
  PROVE  IInv'
<1>1. conf \in Conf /\ Good(conf, Pair) /\ Pair.c = c
  BY PairFields
<1>2. PICK o \in Conf : o = conf
  BY <1>1
<1>3. c.status = "kex" /\ c.sane
  BY DEF Kex
<1>4. Early(o, Pair)
  BY <1>1, <1>2, <1>3, GoodEarly
<1>5. \A t \in {"MODULI", "SIGN"} : t \in ReqTypes \ {"KEYALLOWED", "KEYVERIFY"}
  BY DEF ReqTypes
<1>6. /\ Proper(Req("MODULI")) /\ Req("MODULI").t = "MODULI"
      /\ Proper(Req("SIGN")) /\ Req("SIGN").t = "SIGN"
  BY <1>5, PlainProper
<1>7. PICK gex \in BOOLEAN :
        \E x \in {IF gex THEN Ask(conf, Pair, Req("MODULI")) ELSE Pair} :
        \E y \in {Ask(conf, x, Req("SIGN"))} :
          Become([y EXCEPT !.c.status = IF @ = "dead" THEN @ ELSE "service"])
  BY DEF Kex
<1>8. PICK x, y : /\ x = IF gex THEN Ask(o, Pair, Req("MODULI")) ELSE Pair
                  /\ y = Ask(o, x, Req("SIGN"))
                  /\ Become([y EXCEPT !.c.status = IF @ = "dead" THEN @ ELSE "service"])
  BY <1>2, <1>7
<1>9. Early(o, Ask(o, Pair, Req("MODULI")))
  BY <1>4, <1>6, AskEarly
<1>10. Early(o, x)
  BY <1>4, <1>8, <1>9
<1>11. Early(o, y)
  BY <1>6, <1>8, <1>10, AskEarly
<1>12. y \in Pairs /\ y.c \in CState
  BY <1>11, EarlyTypes
<1>13. PICK st : st = IF y.c.status = "dead" THEN y.c.status ELSE "service"
  OBVIOUS
<1>14. PICK d : d = [y.c EXCEPT !.status = st]
  OBVIOUS
<1>15. st \in {"kex", "service", "auth", "user", "dead"} /\ (st # "dead" => y.c.status # "dead")
  BY <1>13
<1>16. d \in CState /\ d.attempt = y.c.attempt /\ d.failures = y.c.failures
       /\ d.status = st /\ d.ttys = y.c.ttys
  BY <1>12, <1>14, <1>15 DEF CState
<1>17. Bounded(o, d) /\ d.ttys = {}
  BY <1>11, <1>15, <1>16 DEF Early, Bounded
<1>18. PICK z : z = [c |-> d, m |-> y.m]
  OBVIOUS
<1>19. Early(o, z)
  BY <1>11, <1>16, <1>17, <1>18, ChildSet
<1>20. z = [y EXCEPT !.c = d]
  BY <1>12, <1>18, PairExcept DEF Pairs
<1>21. z = [y EXCEPT !.c.status = IF @ = "dead" THEN @ ELSE "service"]
  BY <1>13, <1>14, <1>20, Zenon
<1>22. Become(z)
  BY <1>8, <1>21
<1>23. Good(conf, z)
  BY <1>2, <1>19, EarlyGood
<1> QED  BY <1>1, <1>22, <1>23, Becomes

LEMMA ServiceKeeps ==
  ASSUME IInv, input_service_request
  PROVE  IInv'
<1>1. conf \in Conf /\ Good(conf, Pair) /\ Pair.c = c /\ Pair \in Pairs /\ c \in CState
  BY PairFields
<1>2. c.status = "service" /\ c.sane
  BY DEF input_service_request
<1>3. Early(conf, Pair)
  BY <1>1, <1>2, GoodEarly
<1>4. PICK d : d = [c EXCEPT !.status = "auth"]
  OBVIOUS
<1>5. d \in CState /\ d.attempt = c.attempt /\ d.failures = c.failures
      /\ d.status = "auth" /\ d.ttys = c.ttys
  BY <1>1, <1>4 DEF CState
<1>6. Bounded(conf, d) /\ d.ttys = {}
  BY <1>1, <1>2, <1>3, <1>5 DEF Early, Bounded
<1>7. PICK z : z = [c |-> d, m |-> Pair.m]
  OBVIOUS
<1>8. Good(conf, z)
  <2>1. Early(conf, z)
    BY <1>1, <1>3, <1>5, <1>6, <1>7, ChildSet
  <2> QED  BY <1>1, <2>1, EarlyGood
<1>9. z = [Pair EXCEPT !.c.status = "auth"]
  <2>1. z = [Pair EXCEPT !.c = d]
    BY <1>1, <1>7, PairExcept DEF Pairs
  <2> QED  BY <1>1, <1>4, <2>1, Zenon
<1>10. Become(z) \/ Become(Quit(Pair))
  BY <1>9 DEF input_service_request
<1>11. Good(conf, Quit(Pair))
  BY <1>1, QuitGood
<1> QED  BY <1>1, <1>8, <1>10, <1>11, Becomes

LEMMA RequestKeeps ==
  ASSUME IInv, UserauthRequest
  PROVE  IInv'
<1>1. conf \in Conf /\ Good(conf, Pair) /\ Pair.c = c
  BY PairFields
<1>2. c.status = "auth" /\ c.sane
  BY DEF UserauthRequest
<1>3. Early(conf, Pair) /\ Pair.c.status # "dead"
  BY <1>1, <1>2, GoodEarly
<1>4. PICK a \in Attempts, service \in {"ssh-connection", "other"} :
        Become(input_userauth_request(conf, Pair, service, a))
  BY DEF UserauthRequest
<1>5. PICK x : x = input_userauth_request(conf, Pair, service, a)
  OBVIOUS
<1>6. Early(conf, x)
  BY <1>1, <1>3, <1>5, RequestEarly
<1>7. Good(conf, x)
  BY <1>1, <1>6, EarlyGood
<1> QED  BY <1>1, <1>4, <1>5, <1>7, Becomes

LEMMA ExportKeeps ==
  ASSUME IInv, Export
  PROVE  IInv'
<1>1. /\ conf \in Conf /\ Good(conf, Pair) /\ Pair.c = c /\ Pair.m = m /\ Pair \in Pairs
      /\ MInv(conf, m) /\ Bounded(conf, c)
  BY PairFields
<1>2. c.status = "auth" /\ c.sane
  BY DEF Export
<1>3. Early(conf, Pair)
  BY <1>1, <1>2, GoodEarly
<1>4. m.phase \in {"preauth", "export", "exited"} /\ c.ttys = {}
  BY <1>1, <1>3 DEF Early
<1>5. PICK x : /\ x = Ask(conf, Pair, Req("KEYEXPORT"))
               /\ Become([x EXCEPT !.c = [x.c EXCEPT !.status = IF x.c.status = "dead" THEN "dead"
                                                                ELSE "user",
                                                     !.force = x.m.force, !.pty = x.m.pty]])
  BY DEF Export
<1>6. "KEYEXPORT" \in ReqTypes \ {"KEYALLOWED", "KEYVERIFY"}
  BY DEF ReqTypes
<1>7. PICK q : q = Req("KEYEXPORT")
  OBVIOUS
<1>8. Proper(q)
  BY <1>6, <1>7, PlainProper
<1>9. /\ x \in Pairs /\ MInv(conf, x.m) /\ Bounded(conf, x.c) /\ x.m = Monitor(conf, m, q)
      /\ x.c.ttys = {}
  <2>1. PICK p : p = Pair
    OBVIOUS
  <2>2. p \in Pairs /\ MInv(conf, p.m) /\ Bounded(conf, p.c) /\ x = Ask(conf, p, q)
    BY <1>1, <1>5, <1>7, <2>1
  <2>3. /\ x \in Pairs /\ MInv(conf, x.m) /\ Bounded(conf, x.c) /\ x.m = Monitor(conf, p.m, q)
        /\ x.c.ttys = p.c.ttys
    BY <1>1, <1>8, <2>2, AskPair
  <2> QED  BY <1>1, <1>4, <2>1, <2>3
<1>10. x.m.ttys = {}
  <2>1. PICK e : e = x.m
    OBVIOUS
  <2>2. CASE m.phase = "export"
    <3>1. e = mm_get_keystate(conf, m, q)
      BY <1>9, <2>1, <2>2 DEF Monitor
    <3>2. e.ttys = {}
      BY <1>1, <2>2, <3>1, KeystateKeeps
    <3> QED  BY <2>1, <3>2
  <2>3. CASE m.phase \in {"preauth", "exited"}
    <3>1. e.phase # "postauth"
      BY <1>1, <1>8, <1>9, <2>1, <2>3, PreauthKeeps DEF Monitor
    <3>2. MInv(conf, e)
      BY <1>9, <2>1
    <3> QED  BY <2>1, <3>1, <3>2 DEF MInv, Held
  <2> QED  BY <1>4, <2>2, <2>3
<1>11. x.c \in CState /\ x.m \in MState
  BY <1>9 DEF Pairs
<1>12. PICK f \in Commands : f = x.m.force
  BY <1>11 DEF MState
<1>13. PICK p \in BOOLEAN : p = x.m.pty
  BY <1>11 DEF MState
<1>14. PICK st : st = IF x.c.status = "dead" THEN "dead" ELSE "user"
  OBVIOUS
<1>15. /\ st \in {"kex", "service", "auth", "user", "dead"} /\ st \in {"user", "dead"}
       /\ (st # "dead" => x.c.status # "dead")
  BY <1>14
<1>16. PICK d : d = [x.c EXCEPT !.status = st, !.force = f, !.pty = p]
  OBVIOUS
<1>17. d \in CState /\ d.attempt = x.c.attempt /\ d.failures = x.c.failures
       /\ d.status = st /\ d.ttys = {}
  BY <1>9, <1>11, <1>15, <1>16 DEF CState
<1>18. Bounded(conf, d)
  BY <1>9, <1>15, <1>17 DEF Bounded
<1>19. PICK z : z = [c |-> d, m |-> x.m]
  OBVIOUS
<1>20. z \in Pairs /\ z.c = d /\ z.m = x.m
  BY <1>11, <1>17, <1>19 DEF Pairs
<1>21. Tie(z)
  BY <1>10, <1>15, <1>17, <1>20 DEF Tie
<1>22. Good(conf, z)
  BY <1>9, <1>18, <1>20, <1>21 DEF Good
<1>23. z = [x EXCEPT !.c = d]
  BY <1>9, <1>19, PairExcept DEF Pairs
<1>24. Become(z)
  BY <1>5, <1>12, <1>13, <1>14, <1>16, <1>23, Zenon
<1> QED  BY <1>1, <1>22, <1>24, Becomes

\* what a request q of the user child makes of the pair x: the terminals that the monitor has
Late(o, x, q, y) ==
  /\ y \in Pairs /\ MInv(o, y.m) /\ Bounded(o, y.c) /\ y.c.ttys = x.c.ttys
  /\ y.c.status \in {"user", "dead"} /\ (y.c.status = "dead" <=> y.m.phase = "exited")
  /\ y.m.phase = "postauth" =>
       /\ x.m.phase = "postauth" /\ x.c.ttys = x.m.ttys
       /\ q.t = "PTY" => y.m.ttys = IF y.m.ans THEN x.c.ttys \cup {q.key} ELSE x.c.ttys
       /\ q.t = "PTYCLEANUP" => y.m.ttys = x.c.ttys \ {q.key}
       /\ q.t # "TERM"

LEMMA AskLate ==
  ASSUME NEW o \in Conf, NEW x, Good(o, x), x.c.sane, x.c.status = "user", NEW q, Proper(q),
         q.t # "KEYEXPORT", NEW y, y = Ask(o, x, q)
  PROVE  Late(o, x, q, y)
<1>1. x \in Pairs /\ MInv(o, x.m) /\ Bounded(o, x.c) /\ Tie(x)
  BY DEF Good
<1>2. /\ y \in Pairs /\ MInv(o, y.m) /\ Bounded(o, y.c) /\ y.m = Monitor(o, x.m, q)
      /\ y.c.ttys = x.c.ttys
      /\ y.c.status = IF y.m.phase = "exited" THEN "dead" ELSE x.c.status
  BY <1>1, AskPair
<1>3. y.c.status \in {"user", "dead"} /\ (y.c.status = "dead" <=> y.m.phase = "exited")
  BY <1>2
<1>4. PICK s : s = x.m
  OBVIOUS
<1>5. PICK d : d = y.m
  OBVIOUS
<1>6. d = Monitor(o, s, q) /\ MInv(o, s)
  BY <1>1, <1>2, <1>4, <1>5
<1>7. s.phase \in {"preauth", "export", "postauth", "direct", "exited"}
  BY <1>6 DEF MInv, MState
<1>8. ASSUME d.phase = "postauth" PROVE s.phase = "postauth"
  <2>1. CASE s.phase \in {"preauth", "export", "exited"}
    <3>1. d.phase \in {"preauth", "export", "exited"}
      BY <1>6, <2>1, MonitorEarly
    <3> QED  BY <1>8, <3>1
  <2>2. CASE s.phase = "direct"
    BY <1>6, <1>8, <2>2 DEF Monitor
  <2> QED  BY <1>7, <2>1, <2>2
<1>9. ASSUME d.phase = "postauth"
      PROVE  /\ q.t = "PTY" => d.ttys = IF d.ans THEN s.ttys \cup {q.key} ELSE s.ttys
             /\ q.t = "PTYCLEANUP" => d.ttys = s.ttys \ {q.key}
             /\ q.t # "TERM"
  <2>1. s.phase = "postauth"
    BY <1>8, <1>9
  <2>2. d = monitor_child_postauth(o, s, q)
    BY <1>6, <2>1 DEF Monitor
  <2>3. d.phase = "postauth" =>
          /\ q.t = "PTY" => d.ttys = IF d.ans THEN s.ttys \cup {q.key} ELSE s.ttys
          /\ q.t = "PTYCLEANUP" => d.ttys = s.ttys \ {q.key}
          /\ q.t # "TERM"
    BY <1>6, <2>1, <2>2, PostauthKeeps
  <2> QED  BY <1>9, <2>3
<1>10. s.phase = "postauth" => x.c.ttys = s.ttys
  BY <1>1, <1>4 DEF Tie
<1> QED  BY <1>2, <1>3, <1>4, <1>5, <1>8, <1>9, <1>10 DEF Late

LEMMA PtyReqKeeps ==
  ASSUME IInv, PtyReq
  PROVE  IInv'
<1>1. /\ conf \in Conf /\ Good(conf, Pair) /\ Pair.c = c /\ Pair.m = m /\ Pair \in Pairs
      /\ c \in CState
  BY PairFields
<1>2. c.status = "user" /\ c.sane
  BY DEF PtyReq
<1>3. PICK tty \in (Ttys \ m.ttys) \cup {NoKey} :
        \E x \in {Ask(conf, Pair, [Req("PTY") EXCEPT !.key = tty])} :
          Become(IF x.c.status # "dead" /\ x.m.ans THEN [x EXCEPT !.c.ttys = @ \cup {tty}] ELSE x)
  BY DEF PtyReq
<1>4. PICK q : q = [Req("PTY") EXCEPT !.key = tty]
  OBVIOUS
<1>5. Proper(q) /\ q.t = "PTY" /\ q.key = tty
  BY <1>4, TtyProper
<1>6. PICK y : /\ y = Ask(conf, Pair, q)
               /\ Become(IF y.c.status # "dead" /\ y.m.ans THEN [y EXCEPT !.c.ttys = @ \cup {tty}]
                         ELSE y)
  BY <1>3, <1>4
<1>7. /\ y \in Pairs /\ MInv(conf, y.m) /\ Bounded(conf, y.c) /\ y.c.ttys = c.ttys
      /\ y.c.status \in {"user", "dead"} /\ (y.c.status = "dead" <=> y.m.phase = "exited")
      /\ y.m.phase = "postauth" =>
           /\ m.phase = "postauth" /\ c.ttys = m.ttys
           /\ y.m.ttys = IF y.m.ans THEN c.ttys \cup {tty} ELSE c.ttys
  <2>1. PICK p : p = Pair
    OBVIOUS
  <2>2. /\ Good(conf, p) /\ p.c.sane /\ p.c.status = "user" /\ q.t # "KEYEXPORT"
        /\ y = Ask(conf, p, q) /\ p.c = c /\ p.m = m
    BY <1>1, <1>2, <1>5, <1>6, <2>1
  <2>3. Late(conf, p, q, y)
    BY <1>1, <1>5, <2>2, AskLate
  <2> QED  BY <1>5, <2>2, <2>3 DEF Late
<1>8. y.c \in CState /\ y.m \in MState
  BY <1>7 DEF Pairs
<1>9. CASE y.c.status # "dead" /\ y.m.ans
  <2>1. m.phase = "postauth"
    BY DEF PtyReq
  <2>2. y.m.phase = "postauth"
    <3>1. y.m = Monitor(conf, m, q)
      <4>1. PICK p : p = Pair
        OBVIOUS
      <4>2. p \in Pairs /\ MInv(conf, p.m) /\ Bounded(conf, p.c) /\ y = Ask(conf, p, q) /\ p.m = m
        BY <1>1, <1>6, <4>1 DEF Good
      <4>3. y.m = Monitor(conf, p.m, q)
        BY <1>1, <1>5, <4>2, AskPair
      <4> QED  BY <4>2, <4>3
    <3>2. PICK d : d = y.m
      OBVIOUS
    <3>3. d = monitor_child_postauth(conf, m, q) /\ MInv(conf, m)
      BY <1>1, <2>1, <3>1, <3>2 DEF Monitor, Good
    <3>4. d.phase \in {"postauth", "exited"}
      BY <1>1, <1>5, <2>1, <3>3, PostauthKeeps
    <3> QED  BY <1>7, <1>9, <3>2, <3>4
  <2>3. PICK T \in SUBSET Ttys : T = c.ttys \cup {tty}
    <3>1. y.m.ttys = c.ttys \cup {tty} /\ y.m.ttys \in SUBSET Ttys
      BY <1>7, <1>8, <1>9, <2>2 DEF MState
    <3>2. c.ttys \cup {tty} \in SUBSET Ttys
      BY <3>1
    <3> QED  BY <3>2, Zenon
  <2>4. y.m.ttys = T /\ y.c.ttys \cup {tty} = T
    BY <1>7, <1>9, <2>2, <2>3
  <2>5. PICK d : d = [y.c EXCEPT !.ttys = T]
    OBVIOUS
  <2>6. d \in CState /\ d.attempt = y.c.attempt /\ d.failures = y.c.failures
        /\ d.status = y.c.status /\ d.ttys = T
    BY <1>8, <2>5 DEF CState
  <2>7. PICK z : z = [c |-> d, m |-> y.m]
    OBVIOUS
  <2>8. z \in Pairs /\ z.c = d /\ z.m = y.m
    BY <1>8, <2>6, <2>7 DEF Pairs
  <2>9. Bounded(conf, d)
    BY <1>7, <2>6 DEF Bounded
  <2>10. Tie(z)
    BY <1>7, <2>4, <2>6, <2>8 DEF Tie
  <2>11. Good(conf, z)
    BY <1>7, <2>8, <2>9, <2>10 DEF Good
  <2>12. z = [y EXCEPT !.c = d]
    BY <1>7, <2>7, PairExcept DEF Pairs
  <2>13. z = [y EXCEPT !.c.ttys = @ \cup {tty}]
    BY <2>4, <2>5, <2>12, Zenon
  <2>14. Become(z)
    BY <1>6, <1>9, <2>13, Zenon
  <2> QED  BY <1>1, <2>11, <2>14, Becomes
<1>10. CASE ~(y.c.status # "dead" /\ y.m.ans)
  <2>1. Tie(y)
    BY <1>7, <1>10 DEF Tie
  <2>2. Good(conf, y)
    BY <1>7, <2>1 DEF Good
  <2>3. Become(y)
    BY <1>6, <1>10, Zenon
  <2> QED  BY <1>1, <2>2, <2>3, Becomes
<1> QED  BY <1>9, <1>10

LEMMA PtyCleanupKeeps ==
  ASSUME IInv, PtyCleanup
  PROVE  IInv'
<1>1. /\ conf \in Conf /\ Good(conf, Pair) /\ Pair.c = c /\ Pair.m = m /\ Pair \in Pairs
      /\ c \in CState
  BY PairFields
<1>2. c.status = "user" /\ c.sane
  BY DEF PtyCleanup
<1>3. PICK tty \in c.ttys :
        \E x \in {Ask(conf, Pair, [Req("PTYCLEANUP") EXCEPT !.key = tty])} :
          Become([x EXCEPT !.c.ttys = @ \ {tty}])
  BY DEF PtyCleanup
<1>4. PICK q : q = [Req("PTYCLEANUP") EXCEPT !.key = tty]
  OBVIOUS
<1>5. Proper(q) /\ q.t = "PTYCLEANUP" /\ q.key = tty
  <2>1. tty \in Ttys
    BY <1>1, <1>3 DEF CState
  <2> QED  BY <1>4, <2>1, TtyProper, ZenonT(60)
<1>6. PICK y : y = Ask(conf, Pair, q) /\ Become([y EXCEPT !.c.ttys = @ \ {tty}])
  BY <1>3, <1>4
<1>7. /\ y \in Pairs /\ MInv(conf, y.m) /\ Bounded(conf, y.c) /\ y.c.ttys = c.ttys
      /\ y.c.status \in {"user", "dead"}
      /\ y.m.phase = "postauth" => y.m.ttys = c.ttys \ {tty}
  <2>1. PICK p : p = Pair
    OBVIOUS
  <2>2. /\ Good(conf, p) /\ p.c.sane /\ p.c.status = "user" /\ q.t # "KEYEXPORT"
        /\ y = Ask(conf, p, q) /\ p.c = c /\ p.m = m
    BY <1>1, <1>2, <1>5, <1>6, <2>1
  <2>3. Late(conf, p, q, y)
    BY <1>1, <1>5, <2>2, AskLate
  <2> QED  BY <1>5, <2>2, <2>3 DEF Late
<1>8. y.c \in CState /\ y.m \in MState
  BY <1>7 DEF Pairs
<1>9. PICK T \in SUBSET Ttys : T = c.ttys \ {tty}
  <2>1. c.ttys \ {tty} \in SUBSET Ttys
    BY <1>1 DEF CState
  <2> QED  BY <2>1, Zenon
<1>10. y.c.ttys \ {tty} = T
  BY <1>7, <1>9
<1>11. PICK d : d = [y.c EXCEPT !.ttys = T]
  OBVIOUS
<1>12. d \in CState /\ d.attempt = y.c.attempt /\ d.failures = y.c.failures
       /\ d.status = y.c.status /\ d.ttys = T
  BY <1>8, <1>11 DEF CState
<1>13. PICK z : z = [c |-> d, m |-> y.m]
  OBVIOUS
<1>14. z \in Pairs /\ z.c = d /\ z.m = y.m
  BY <1>8, <1>12, <1>13 DEF Pairs
<1>15. Bounded(conf, d)
  BY <1>7, <1>12 DEF Bounded
<1>16. Tie(z)
  BY <1>7, <1>9, <1>12, <1>14 DEF Tie
<1>17. Good(conf, z)
  BY <1>7, <1>14, <1>15, <1>16 DEF Good
<1>18. z = [y EXCEPT !.c = d]
  BY <1>7, <1>13, PairExcept DEF Pairs
<1>19. z = [y EXCEPT !.c.ttys = @ \ {tty}]
  BY <1>10, <1>11, <1>18, Zenon
<1>20. Become(z)
  BY <1>6, <1>19, Zenon
<1> QED  BY <1>1, <1>17, <1>20, Becomes

LEMMA TerminateKeeps ==
  ASSUME IInv, Terminate
  PROVE  IInv'
<1>1. /\ conf \in Conf /\ Good(conf, Pair) /\ Pair.c = c /\ Pair.m = m
  BY PairFields
<1>2. c.status = "user" /\ c.sane
  BY DEF Terminate
<1>3. PICK q : q = Req("TERM")
  OBVIOUS
<1>4. Proper(q) /\ q.t = "TERM"
  <2>1. "TERM" \in ReqTypes \ {"KEYALLOWED", "KEYVERIFY"}
    BY DEF ReqTypes
  <2> QED  BY <1>3, <2>1, PlainProper
<1>5. PICK y : y = Ask(conf, Pair, q) /\ Become([y EXCEPT !.c.status = "dead"])
  BY <1>3 DEF Terminate
<1>6. /\ y \in Pairs /\ MInv(conf, y.m) /\ Bounded(conf, y.c) /\ y.m.phase # "postauth"
  <2>1. PICK p : p = Pair
    OBVIOUS
  <2>2. /\ Good(conf, p) /\ p.c.sane /\ p.c.status = "user" /\ q.t # "KEYEXPORT"
        /\ y = Ask(conf, p, q)
    BY <1>1, <1>2, <1>4, <1>5, <2>1
  <2>3. Late(conf, p, q, y)
    BY <1>1, <1>4, <2>2, AskLate
  <2> QED  BY <1>4, <2>3 DEF Late
<1>7. y.c \in CState /\ y.m \in MState
  BY <1>6 DEF Pairs
<1>8. PICK d : d = [y.c EXCEPT !.status = "dead"]
  OBVIOUS
<1>9. d \in CState /\ d.attempt = y.c.attempt /\ d.failures = y.c.failures /\ d.status = "dead"
  BY <1>7, <1>8 DEF CState
<1>10. PICK z : z = [c |-> d, m |-> y.m]
  OBVIOUS
<1>11. z \in Pairs /\ z.c = d /\ z.m = y.m
  BY <1>7, <1>9, <1>10 DEF Pairs
<1>12. Bounded(conf, d) /\ Tie(z)
  BY <1>6, <1>9, <1>11 DEF Bounded, Tie
<1>13. Good(conf, z)
  BY <1>6, <1>11, <1>12 DEF Good
<1>14. z = [y EXCEPT !.c = d]
  BY <1>6, <1>10, PairExcept DEF Pairs
<1>15. Become(z)
  BY <1>5, <1>8, <1>14, Zenon
<1> QED  BY <1>1, <1>13, <1>15, Becomes

LEMMA EndKeeps ==
  ASSUME IInv, ClientGone \/ GraceAlarm
  PROVE  IInv'
<1>1. conf \in Conf /\ Good(conf, Pair)
  BY PairFields
<1>2. Become(Quit(Pair))
  BY DEF ClientGone, GraceAlarm
<1>3. Good(conf, Quit(Pair))
  BY <1>1, QuitGood
<1> QED  BY <1>1, <1>2, <1>3, Becomes

LEMMA FaultyKeeps ==
  ASSUME IInv, BecomesFaulty
  PROVE  IInv'
<1>1. /\ conf \in Conf /\ Pair.c = c /\ Pair.m = m /\ Pair \in Pairs /\ c \in CState
      /\ m \in MState /\ MInv(conf, m) /\ Bounded(conf, c)
  BY PairFields
<1>2. PICK d : d = [c EXCEPT !.sane = FALSE]
  OBVIOUS
<1>3. d \in CState /\ d.attempt = c.attempt /\ d.failures = c.failures /\ d.status = c.status
      /\ (d.sane <=> FALSE)
  BY <1>1, <1>2 DEF CState
<1>4. PICK z : z = [c |-> d, m |-> Pair.m]
  OBVIOUS
<1>5. z \in Pairs /\ z.c = d /\ z.m = m
  BY <1>1, <1>3, <1>4 DEF Pairs
<1>6. Bounded(conf, d)
  BY <1>1, <1>3 DEF Bounded
<1>7. Good(conf, z)
  BY <1>1, <1>3, <1>5, <1>6 DEF Good
<1>8. z = [Pair EXCEPT !.c = d]
  BY <1>1, <1>4, PairExcept DEF Pairs
<1>9. z = [Pair EXCEPT !.c.sane = FALSE]
  BY <1>1, <1>2, <1>8, Zenon
<1>10. Become(z)
  BY <1>9 DEF BecomesFaulty
<1> QED  BY <1>1, <1>7, <1>10, Becomes

\* whatever a faulty child sends
LEMMA StrayProper ==
  ASSUME NEW q, q \in Strays
  PROVE  Proper(q)
<1>1. /\ MonOnce \cup {"KEYEXPORT", "TERM"} \subseteq ReqTypes
      /\ \A t \in MonOnce \cup {"KEYEXPORT", "TERM"} :
           t \notin {"AUTHPASSWORD", "KEYALLOWED", "KEYVERIFY", "PTY"}
  BY DEF MonOnce, ReqTypes
<1>2. "user" \in Kinds /\ "empty" \in Passwords
  BY DEF Kinds, Passwords
<1>3. \A t \in {"AUTHPASSWORD", "KEYALLOWED", "KEYVERIFY", "PTY", "PTYCLEANUP"} : t \in ReqTypes
  BY DEF ReqTypes
<1>4. /\ q.t \in ReqTypes
      /\ q = [t |-> q.t, kind |-> q.kind, key |-> q.key, data |-> q.data, good |-> q.good, pw |-> q.pw]
      /\ q.kind \in Kinds /\ q.data \in Kinds /\ q.pw \in Passwords
  BY <1>1, <1>2, <1>3 DEF Strays
<1>5. q.good \in BOOLEAN
  BY DEF Strays
<1>6. /\ q.key \in Keys \cup Ttys \cup {NoKey} /\ (q.t = "AUTHPASSWORD" => q.key = NoKey)
      /\ (q.t \in {"KEYALLOWED", "KEYVERIFY"} => q.key \in Keys)
      /\ (q.t = "PTY" => q.key \in Ttys \cup {NoKey})
  BY <1>1 DEF Strays
<1>7. q \in Requests
  BY <1>4, <1>5, <1>6 DEF Requests
<1> QED  BY <1>6, <1>7 DEF Proper

LEMMA StrayKeeps ==
  ASSUME IInv, Stray
  PROVE  IInv'
<1>1. /\ conf \in Conf /\ Pair.c = c /\ Pair.m = m /\ Pair \in Pairs
      /\ MInv(conf, m) /\ Bounded(conf, c)
  BY PairFields
<1>2. PICK q : q \in Strays /\ Become(Ask(conf, Pair, q))
  BY Zenon DEF Stray
<1>3. Proper(q)
  BY <1>2, StrayProper
<1>4. ~c.sane
  BY Zenon DEF Stray
<1>5. PICK p : p = Pair
  OBVIOUS
<1>6. PICK y : y = Ask(conf, p, q)
  OBVIOUS
<1>7. p \in Pairs /\ MInv(conf, p.m) /\ Bounded(conf, p.c) /\ ~p.c.sane
  BY <1>1, <1>4, <1>5
<1>8. y \in Pairs /\ MInv(conf, y.m) /\ Bounded(conf, y.c) /\ y.c.sane = p.c.sane
  BY <1>1, <1>3, <1>6, <1>7, AskPair
<1>9. Good(conf, y)
  BY <1>7, <1>8 DEF Good
<1>10. Become(y)
  BY <1>2, <1>5, <1>6
<1> QED  BY <1>1, <1>9, <1>10, Becomes

LEMMA InitHolds ==
  ASSUME Init
  PROVE  IInv
<1>1. conf \in Conf /\ conf.tries \in Nat
  BY AuthAssumption DEF Init, Conf
<1>2. PICK l : l = <<>>
  OBVIOUS
<1>3. l \in Lists /\ DOMAIN l = {} /\ l \in Seq(Credentials)
  <2>1. DOMAIN l = {}
    BY <1>2
  <2>2. {} \in SUBSET Nat /\ l \in [{} -> Seq(Methods)]
    BY <1>2
  <2>3. l \in Lists
    BY <2>2 DEF Lists
  <2> QED  BY <1>2, <2>1, <2>3
<1>4. /\ c = [status |-> "kex", sane |-> TRUE, service |-> "none", attempt |-> 0, failures |-> 0,
              valid |-> FALSE, lists |-> l, used |-> {}, none |-> TRUE, success |-> FALSE,
              force |-> "none", pty |-> TRUE, ttys |-> {}]
      /\ m = [phase |-> "preauth", permit |-> {"MODULI", "SIGN"}, attempt |-> 0, valid |-> FALSE,
              failures |-> 0, lists |-> l, used |-> {}, key |-> NoKey, kind |-> "user", calls |-> 0,
              force |-> "none", pty |-> TRUE, ttys |-> {}, method |-> "unknown", ans |-> FALSE,
              fatal |-> "none", earned |-> l]
  BY <1>2 DEF Init, privsep_preauth_child, monitor_child_preauth_begin
<1>5. /\ c \in CState /\ c.attempt = 0 /\ c.failures = 0 /\ c.status = "kex" /\ c.ttys = {}
  BY <1>3, <1>4 DEF CState, Commands
<1>6. /\ m \in MState /\ m.phase = "preauth" /\ m.attempt = 0 /\ m.failures = 0 /\ m.ttys = {}
      /\ m.used = {} /\ m.lists = l /\ m.earned = l /\ ~m.valid
  BY <1>3, <1>4 DEF MState, ReqTypes, Kinds, Reasons, Credentials, Commands
<1>7. OnceEach(m) /\ Progress(conf, m)
  BY <1>3, <1>6 DEF OnceEach, Progress
<1>8. Held(m)
  <2>1. IsFiniteSet({}) /\ Cardinality({}) = 0
    BY FS_EmptySet
  <2> QED  BY <1>6, <2>1, AuthAssumption DEF Held
<1>9. Counted(conf, m) /\ Bounded(conf, c)
  BY <1>1, <1>5, <1>6, AuthAssumption DEF Counted, Bounded
<1>10. MInv(conf, m)
  BY <1>6, <1>7, <1>8, <1>9 DEF MInv
<1>11. Pair \in Pairs /\ Pair.c = c /\ Pair.m = m
  BY <1>5, <1>6 DEF Pair, Pairs
<1>12. Tie(Pair)
  BY <1>5, <1>6, <1>11 DEF Tie
<1> QED  BY <1>1, <1>9, <1>10, <1>11, <1>12 DEF IInv, Good

LEMMA NextKeeps ==
  ASSUME IInv, [Next]_vars
  PROVE  IInv'
<1>1. CASE Kex
  BY <1>1, KexKeeps
<1>2. CASE input_service_request
  BY <1>2, ServiceKeeps
<1>3. CASE UserauthRequest
  BY <1>3, RequestKeeps
<1>4. CASE Export
  BY <1>4, ExportKeeps
<1>5. CASE PtyReq
  BY <1>5, PtyReqKeeps
<1>6. CASE PtyCleanup
  BY <1>6, PtyCleanupKeeps
<1>7. CASE Terminate
  BY <1>7, TerminateKeeps
<1>8. CASE ClientGone \/ GraceAlarm
  BY <1>8, EndKeeps
<1>9. CASE BecomesFaulty
  BY <1>9, FaultyKeeps
<1>10. CASE Stray
  BY <1>10, StrayKeeps
<1>11. CASE UNCHANGED vars
  <2>1. c' = c /\ m' = m /\ conf' = conf
    BY <1>11 DEF vars
  <2>2. Become(Pair)
    BY <2>1 DEF Become, Pair
  <2>3. conf \in Conf /\ Good(conf, Pair)
    BY DEF IInv
  <2> QED  BY <2>2, <2>3, Becomes
<1> QED  BY <1>1, <1>2, <1>3, <1>4, <1>5, <1>6, <1>7, <1>8, <1>9, <1>10, <1>11 DEF Next

LEMMA Invariant == Spec => []IInv
<1>1. Init => IInv
  BY InitHolds
<1>2. IInv /\ [Next]_vars => IInv'
  BY NextKeeps
<1> QED  BY <1>1, <1>2, PTL DEF Spec

-----------------------------------------------------------------------------
(* Child and monitor agree.                                                 *)

\* Aligned for the options o
AlignedX(o) ==
  /\ (o.lists # <<>> /\ o.root) => o.permit_root \in {"yes", "prohibit-password"}
  /\ o.lists # <<>> => ~(o.empty_ok /\ o.password = "empty")
  /\ (o.root /\ o.permit_root = "forced-commands-only") => \A k \in Keys : o.command[k] = "none"
  /\ \A k, l \in Keys : ~Inconsistent(o.command[k], o.command[l])

\* MonitorTrusts of the child d and the monitor s
Excused(o, d, s) ==
  \/ s.fatal = "none"
  \/ /\ s.fatal = "too many authentication attempts"
     /\ o.empty_ok /\ ~d.none /\ d.failures + 1 = o.tries /\ d.status = "dead"

\* the command f is none or one that a key forces
Known(o, f) == f = "none" \/ \E k \in Keys : o.command[k] = f

LEMMA KnownMerges ==
  ASSUME NEW o, NEW f, Known(o, f), NEW kind, NEW key \in Keys
  PROVE  Known(o, merged_command(f, CommandOf(o, kind, key)))
BY DEF Known, merged_command, CommandOf

\* keys that are aligned never force two commands
LEMMA KnownConsistent ==
  ASSUME NEW o, AlignedX(o), NEW f, Known(o, f), NEW kind, NEW key \in Keys
  PROVE  Inconsistent(f, CommandOf(o, kind, key)) = FALSE
BY DEF Known, AlignedX, Inconsistent, CommandOf

\* what both processes keep of an Authctxt
Shared(o, d, s) ==
  /\ d.lists = s.lists /\ d.used = s.used
  /\ Known(o, d.force) /\ Known(o, s.force)

\* the monitor may have counted one failure that the child has not, the first "none"
Level(o, d, s) ==
  s.failures <= d.failures \/ (o.empty_ok /\ ~d.none /\ s.failures = d.failures + 1)

\* no user yet
Waiting(o, d, s) ==
  /\ d.attempt = 0 /\ ~d.success /\ s.phase = "preauth" /\ s.attempt = 0
  /\ Shared(o, d, s) /\ Level(o, d, s)
  /\ IF d.status = "kex" THEN "MODULI" \in s.permit /\ "SIGN" \in s.permit ELSE "PWNAM" \in s.permit

\* the user is known, a credential may come
Asking(o, d, s) ==
  /\ ~d.success /\ s.phase = "preauth" /\ MonAuth \subseteq s.permit
  /\ Shared(o, d, s) /\ Level(o, d, s)

LetIn(o, d, s) == d.success /\ s.phase = "export" /\ Shared(o, d, s)

\* the user child has the requests that its terminals need
Served(d, s) ==
  /\ s.phase \in {"postauth", "direct"}
  /\ s.phase = "postauth" => /\ "TERM" \in s.permit
                             /\ d.pty => "PTY" \in s.permit /\ "PTYCLEANUP" \in s.permit
                             /\ d.ttys # {} => d.pty

AgreeX(o, d, s) ==
  /\ Excused(o, d, s)
  /\ d.status \in {"kex", "service"} => Waiting(o, d, s)
  /\ d.status = "auth" => IF d.attempt = 0 THEN Waiting(o, d, s)
                          ELSE Asking(o, d, s) \/ LetIn(o, d, s)
  /\ d.status = "user" => Served(d, s)

Agree == (Aligned /\ c.sane) => AgreeX(conf, c, m)

-----------------------------------------------------------------------------
(* What the monitor makes of the requests of a child that asks in turn.      *)

\* e is the monitor s, but for its last answer and the requests that it takes
Quiet(s, e) ==
  /\ e \in MState /\ e.phase = s.phase /\ e.lists = s.lists /\ e.used = s.used
  /\ e.force = s.force /\ e.failures = s.failures /\ e.fatal = s.fatal /\ e.valid = s.valid
  /\ e.attempt = s.attempt

\* every turn starts without a method
LEMMA TurnStarts ==
  ASSUME NEW s \in MState, NEW t, t = [s EXCEPT !.method = "unknown"]
  PROVE  /\ Quiet(s, t) /\ t.permit = s.permit /\ t.key = s.key /\ t.kind = s.kind
         /\ t.calls = s.calls /\ t.pty = s.pty /\ t.earned = s.earned
BY DEF Quiet, MState

\* a turn of the monitor s: the permitted request q makes it h, and e once the answer is counted
Turn(o, s, q, t, h, e) ==
  /\ o \in Conf /\ s \in MState /\ s.phase = "preauth" /\ q.t \in s.permit
  /\ t = [s EXCEPT !.method = "unknown"] /\ h \in MState /\ h = Handler(o, t, q)
  /\ e = Monitor(o, s, q)

\* the requests that may follow one of type k
Following(h, k) == IF k \in MonOnce THEN h.permit \ {k} ELSE h.permit

\* a request in turn is handled, and its answer counted
LEMMA ReadTurn ==
  ASSUME NEW o, NEW s, NEW q, NEW t, NEW h, NEW e, Turn(o, s, q, t, h, e)
  PROVE  e = Decide(o, [h EXCEPT !.permit = Following(h, q.t)], q)
<1>1. t.permit = s.permit
  BY TurnStarts DEF Turn
<1>2. [h EXCEPT !.permit = Following(h, q.t)]
        = [h EXCEPT !.permit = IF q.t \in MonOnce THEN @ \ {q.t} ELSE @]
  BY Zenon DEF Following
<1>3. monitor_read(o, t, q) = [h EXCEPT !.permit = Following(h, q.t)]
  BY <1>1, <1>2, Zenon DEF monitor_read, Turn
<1>4. e = Decide(o, monitor_read(o, t, q), q)
  BY Zenon DEF Monitor, monitor_child_preauth, Turn
<1> QED  BY <1>3, <1>4, Zenon

\* only a credential is decided about
LEMMA NothingToDecide ==
  ASSUME NEW o, NEW d, NEW q, q.t \notin MonDecide
  PROVE  Decide(o, d, q) = d
BY DEF Decide

\* a request of type k leaves the monitor s as e, which takes what R allows
QuietTo(s, e, k, R, b) ==
  Quiet(s, e) /\ e.permit = (IF k \in MonOnce THEN R \ {k} ELSE R) /\ (e.ans <=> b)

\* h answers b and takes R from now on
Answers(t, h, b, R) ==
  b \in BOOLEAN /\ R \in SUBSET ReqTypes /\ h = [t EXCEPT !.ans = b, !.permit = R]

\* a request that only sets the answer and the requests that may follow
LEMMA QuietTurn ==
  ASSUME NEW o, NEW s, NEW q, NEW t, NEW h, NEW e, Turn(o, s, q, t, h, e), q.t \notin MonDecide,
         NEW b, NEW R, Answers(t, h, b, R)
  PROVE  QuietTo(s, e, q.t, R, b)
<1>1. Quiet(s, t) /\ t \in MState
  BY TurnStarts DEF Quiet, Turn
<1>3. h \in MState /\ h.permit = R /\ (h.ans <=> b) /\ Quiet(t, h)
  BY <1>1 DEF MState, Quiet, Answers
<1>4. PICK P \in SUBSET ReqTypes : P = IF q.t \in MonOnce THEN R \ {q.t} ELSE R
  <2>1. (IF q.t \in MonOnce THEN R \ {q.t} ELSE R) \in SUBSET ReqTypes
    BY DEF Answers
  <2> QED  BY <2>1, Zenon
<1>5. PICK g : g = [h EXCEPT !.permit = P]
  OBVIOUS
<1>6. g \in MState /\ g.permit = P /\ (g.ans <=> b) /\ Quiet(h, g)
  BY <1>3, <1>5 DEF MState, Quiet
<1>8. P = Following(h, q.t)
  BY <1>3, <1>4, Zenon DEF Following
<1>9. e = Decide(o, [h EXCEPT !.permit = Following(h, q.t)], q)
  BY ReadTurn, Zenon
<1>10. e = Decide(o, g, q)
  BY <1>5, <1>8, <1>9, Zenon
<1>11. e = g
  BY <1>10, NothingToDecide
<1>12. Quiet(s, g)
  BY <1>1, <1>3, <1>6 DEF Quiet
<1> QED  BY <1>4, <1>6, <1>11, <1>12 DEF QuietTo

\* the key exchange, the service and the banner
LEMMA PlainTurns ==
  ASSUME NEW o \in Conf, NEW s \in MState, s.phase = "preauth",
         NEW k \in {"MODULI", "SIGN", "AUTHSERV", "BANNER"}, NEW q, q.t = k, k \in s.permit,
         NEW e, e = Monitor(o, s, q)
  PROVE  /\ Quiet(s, e)
         /\ k = "MODULI" => e.permit = s.permit \ {"MODULI"}
         /\ k = "SIGN" => e.permit = (s.permit \cup {"PWNAM"}) \ {"SIGN"}
         /\ k = "AUTHSERV" => e.permit = (s.permit \cup MonAuth) \ {"AUTHSERV"}
         /\ k = "BANNER" => e.permit = s.permit \ {"BANNER"}
<1>1. PICK t : t = [s EXCEPT !.method = "unknown"]
  OBVIOUS
<1>2. t \in MState /\ t.phase = "preauth" /\ t.permit = s.permit /\ s.permit \in SUBSET ReqTypes
  BY <1>1, TurnStarts DEF Quiet, MState
<1>3. q.t \notin MonDecide /\ q.t \in MonOnce
  BY DEF MonDecide, MonOnce
<1>4. PICK R \in SUBSET ReqTypes :
        R = IF k = "SIGN" THEN s.permit \cup {"PWNAM"}
            ELSE IF k = "AUTHSERV" THEN s.permit \cup MonAuth ELSE s.permit
  <2>1. /\ s.permit \cup {"PWNAM"} \in SUBSET ReqTypes /\ s.permit \cup MonAuth \in SUBSET ReqTypes
        /\ s.permit \in SUBSET ReqTypes
    BY <1>2 DEF ReqTypes, MonAuth
  <2>2. (IF k = "SIGN" THEN s.permit \cup {"PWNAM"}
         ELSE IF k = "AUTHSERV" THEN s.permit \cup MonAuth ELSE s.permit) \in SUBSET ReqTypes
    BY <2>1
  <2> QED  BY <2>2, Zenon
<1>5. PICK b \in BOOLEAN : b = (k # "AUTHSERV")
  OBVIOUS
<1>6. Handler(o, t, q) = [t EXCEPT !.ans = b, !.permit = R]
  <2>1. CASE k = "SIGN"
    <3>1. R = t.permit \cup {"PWNAM"} /\ b = TRUE
      BY <1>2, <1>4, <1>5, <2>1
    <3>2. Handler(o, t, q) = mm_answer_sign(t)
      BY <2>1 DEF Handler
    <3>3. mm_answer_sign(t) = [t EXCEPT !.ans = TRUE, !.permit = R]
      BY <1>2, <3>1 DEF mm_answer_sign, MState
    <3> QED  BY <3>1, <3>2, <3>3
  <2>2. CASE k = "AUTHSERV"
    <3>1. R = t.permit \cup MonAuth /\ b = FALSE
      BY <1>2, <1>4, <1>5, <2>2
    <3>2. Handler(o, t, q) = mm_answer_authserv(t)
      BY <2>2 DEF Handler
    <3>3. mm_answer_authserv(t) = [t EXCEPT !.ans = FALSE, !.permit = R]
      BY <1>2, <3>1 DEF mm_answer_authserv, MState
    <3> QED  BY <3>1, <3>2, <3>3
  <2>3. CASE k \in {"MODULI", "BANNER"}
    <3>1. R = t.permit /\ b = TRUE
      BY <1>2, <1>4, <1>5, <2>3
    <3>2. Handler(o, t, q) = [t EXCEPT !.ans = TRUE]
      BY <2>3 DEF Handler, mm_answer_moduli, mm_answer_auth2_read_banner
    <3>3. [t EXCEPT !.ans = TRUE] = [t EXCEPT !.ans = TRUE, !.permit = R]
      BY <1>2, <3>1 DEF MState
    <3> QED  BY <3>1, <3>2, <3>3
  <2> QED  BY <2>1, <2>2, <2>3
<1>7. QuietTo(s, e, q.t, R, b)
  <2>1. PICK h : h = [t EXCEPT !.ans = b, !.permit = R]
    OBVIOUS
  <2>2. h \in MState
    BY <1>2, <2>1, ZenonT(60) DEF MState
  <2>3. Turn(o, s, q, t, h, e)
    BY <1>1, <1>6, <2>1, <2>2 DEF Turn
  <2>4. Answers(t, h, b, R)
    BY <2>1 DEF Answers
  <2>5. q.t \notin MonDecide
    BY <1>3
  <2> QED  BY <2>3, <2>4, <2>5, QuietTurn, Zenon
<1> QED  BY <1>3, <1>4, <1>7 DEF QuietTo

\* the monitor s has looked the user up
Named(o, s, e) ==
  /\ e \in MState /\ e.phase = "preauth" /\ e.lists = auth2_setup_methods_lists(o)
  /\ e.used = s.used /\ e.force = s.force /\ e.failures = s.failures /\ e.fatal = s.fatal
  /\ "AUTHSERV" \in e.permit /\ "BANNER" \in e.permit

LEMMA PwnamTurn ==
  ASSUME NEW o \in Conf, NEW s \in MState, s.phase = "preauth", s.attempt = 0, NEW q,
         q.t = "PWNAM", "PWNAM" \in s.permit, NEW e, e = Monitor(o, s, q)
  PROVE  Named(o, s, e)
<1>1. PICK t : t = [s EXCEPT !.method = "unknown"]
  OBVIOUS
<1>2. Quiet(s, t) /\ t \in MState /\ t.permit = s.permit /\ s.permit \in SUBSET ReqTypes
  BY <1>1, TurnStarts DEF Quiet, MState
<1>3. t.attempt = 0 /\ t.phase = "preauth"
  BY <1>2 DEF Quiet
<1>4. PICK l : l = auth2_setup_methods_lists(o)
  OBVIOUS
<1>5. l \in Lists
  BY <1>4, SetupLists
<1>6. PICK P \in SUBSET ReqTypes : P = s.permit \cup {"AUTHSERV", "BANNER"}
  <2>1. s.permit \cup {"AUTHSERV", "BANNER"} \in SUBSET ReqTypes
    BY <1>2 DEF ReqTypes
  <2> QED  BY <2>1, Zenon
<1>7. PICK v \in BOOLEAN : v = o.exists
  BY DEF Conf
<1>8. PICK g : g = [t EXCEPT !.attempt = 1, !.valid = v, !.ans = v]
  OBVIOUS
<1>9. /\ g \in MState /\ g.phase = "preauth" /\ g.used = t.used /\ g.force = t.force
      /\ g.failures = t.failures /\ g.fatal = t.fatal /\ g.permit = s.permit
  BY <1>2, <1>3, <1>8, ZenonT(60) DEF MState
<1>10. PICK h : h = [g EXCEPT !.lists = l, !.permit = P]
  OBVIOUS
<1>11. /\ h \in MState /\ h.phase = "preauth" /\ h.used = g.used /\ h.force = g.force
       /\ h.failures = g.failures /\ h.fatal = g.fatal /\ h.permit = P /\ h.lists = l
  BY <1>5, <1>9, <1>10, ZenonT(60) DEF MState
<1>12. h = mm_answer_pwnamallow(o, t)
  BY <1>2, <1>3, <1>4, <1>6, <1>7, <1>8, <1>9, <1>10 DEF mm_answer_pwnamallow, MState
<1>13. h = Handler(o, t, q)
  BY <1>12 DEF Handler
<1>14. Turn(o, s, q, t, h, e)
  BY <1>1, <1>11, <1>13 DEF Turn
<1>15. PICK R \in SUBSET ReqTypes : R = Following(h, q.t)
  <2>1. Following(h, q.t) \in SUBSET ReqTypes
    BY <1>11 DEF Following
  <2> QED  BY <2>1, Zenon
<1>16. "AUTHSERV" \in R /\ "BANNER" \in R
  BY <1>6, <1>11, <1>15 DEF Following
<1>17. PICK k : k = [h EXCEPT !.permit = R]
  OBVIOUS
<1>18. /\ k \in MState /\ k.phase = "preauth" /\ k.used = h.used /\ k.force = h.force
       /\ k.failures = h.failures /\ k.fatal = h.fatal /\ k.permit = R /\ k.lists = l
  BY <1>11, <1>17 DEF MState
<1>19. e = Decide(o, [h EXCEPT !.permit = Following(h, q.t)], q)
  BY <1>14, ReadTurn, Zenon
<1>20. q.t \notin MonDecide
  BY DEF MonDecide
<1>21. e = k
  <2>1. e = Decide(o, k, q)
    BY <1>15, <1>17, <1>19, Zenon
  <2> QED  BY <1>20, <2>1, NothingToDecide
<1>22. k.used = s.used /\ k.force = s.force /\ k.failures = s.failures /\ k.fatal = s.fatal
  BY <1>2, <1>9, <1>11, <1>18 DEF Quiet
<1> QED  BY <1>4, <1>16, <1>18, <1>21, <1>22 DEF Named

\* the monitor s was asked whether the key would do
Offered(s, e, kind, key) ==
  /\ Quiet(s, e) /\ e.permit = s.permit /\ e.kind = kind /\ e.ans \in BOOLEAN
  /\ e.ans => e.key = key /\ e.valid

LEMMA KeyallowedTurn ==
  ASSUME NEW o \in Conf, NEW s \in MState, s.phase = "preauth", NEW q, q.t = "KEYALLOWED",
         q.kind \in Kinds, q.key \in Keys, "KEYALLOWED" \in s.permit, NEW e, e = Monitor(o, s, q)
  PROVE  Offered(s, e, q.kind, q.key)
<1>1. PICK t : t = [s EXCEPT !.method = "unknown"]
  OBVIOUS
<1>2. Quiet(s, t) /\ t \in MState /\ t.permit = s.permit
  BY <1>1, TurnStarts DEF Quiet
<1>3. PICK kind \in Kinds, key \in Keys : kind = q.kind /\ key = q.key
  OBVIOUS
<1> DEFINE w == IF kind = "user" THEN "publickey" ELSE "hostbased"
           A == t.valid /\ w \in o.enabled /\ key \notin t.used /\ key \in o.allowed[kind]
<1>4. PICK b \in BOOLEAN : b = A
  <2>1. A \in BOOLEAN
    OBVIOUS
  <2> QED  BY <2>1, Zenon
<1>5. PICK k \in Keys \cup {NoKey} : k = IF b THEN key ELSE NoKey
  <2>1. (IF b THEN key ELSE NoKey) \in Keys \cup {NoKey}
    OBVIOUS
  <2> QED  BY <2>1, Zenon
<1>6. PICK h : h = [t EXCEPT !.ans = b, !.key = k, !.kind = kind]
  OBVIOUS
<1>7. /\ h \in MState /\ Quiet(t, h) /\ h.permit = t.permit /\ h.key = k /\ h.kind = kind
      /\ h.ans = b
  BY <1>2, <1>6, ZenonT(60) DEF MState, Quiet
<1>8. h = mm_answer_keyallowed(o, t, kind, key)
  BY <1>4, <1>5, <1>6 DEF mm_answer_keyallowed
<1>9. h = Handler(o, t, q)
  BY <1>3, <1>8 DEF Handler
<1>10. Turn(o, s, q, t, h, e)
  BY <1>1, <1>7, <1>9 DEF Turn
<1>11. q.t \notin MonDecide /\ q.t \notin MonOnce
  BY DEF MonDecide, MonOnce
<1>12. e = Decide(o, [h EXCEPT !.permit = Following(h, q.t)], q)
  BY <1>10, ReadTurn, Zenon
<1>13. [h EXCEPT !.permit = Following(h, q.t)] = h
  BY <1>7, <1>11 DEF Following, MState
<1>14. e = h
  BY <1>11, <1>12, <1>13, NothingToDecide
<1>15. b => t.valid
  BY <1>4
<1> HIDE DEF A
<1>16. Quiet(s, h)
  BY <1>2, <1>7 DEF Quiet
<1>17. b => h.key = key /\ h.valid
  BY <1>5, <1>7, <1>15 DEF Quiet
<1> QED  BY <1>2, <1>3, <1>7, <1>14, <1>16, <1>17 DEF Offered

-----------------------------------------------------------------------------
(* What a turn makes of a credential.                                        *)

\* the answer was counted: partial, ok as in Count()
CountedAs(o, d, e, partial, ok) ==
  /\ e \in MState /\ (e.ans <=> d.ans) /\ e.used = d.used /\ e.force = d.force /\ e.lists = d.lists
  /\ e.failures = IF ~partial /\ ~ok THEN d.failures + 1 ELSE d.failures
  /\ IF e.failures > o.tries
     THEN e.phase = "exited" /\ e.fatal = "too many authentication attempts"
     ELSE /\ e.fatal = d.fatal
          /\ IF ok THEN e.phase = "export" ELSE e.phase = "preauth" /\ e.permit = d.permit

\* what Count() is called with
Countable(o, d, q, partial, ok) ==
  /\ o \in Conf /\ d \in MState /\ d.phase = "preauth" /\ d.method \in Methods
  /\ q.key \in Keys \cup Ttys \cup {NoKey} /\ partial \in BOOLEAN /\ ok \in BOOLEAN
  /\ ok => d.valid

\* the monitor s has exited as d
Gone(s, d, why) ==
  /\ d \in MState /\ d.phase = "exited" /\ d.fatal = why /\ d.ans = s.ans /\ d.used = s.used
  /\ d.force = s.force /\ d.lists = s.lists /\ d.failures = s.failures

LEMMA FatalFields ==
  ASSUME NEW s \in MState, NEW why \in Reasons, NEW d, d = Fatal(s, why)
  PROVE  Gone(s, d, why)
<1>1. PICK g : g = Exit(s)
  OBVIOUS
<1>2. /\ g \in MState /\ g.phase = "exited" /\ g.ans = s.ans /\ g.used = s.used
      /\ g.force = s.force /\ g.lists = s.lists /\ g.failures = s.failures
  BY <1>1, ZenonT(60) DEF Exit, MState
<1>3. d = [g EXCEPT !.fatal = why]
  BY <1>1 DEF Fatal
<1> QED  BY <1>2, <1>3, ZenonT(60) DEF MState, Gone

LEMMA CountTurn ==
  ASSUME NEW o, NEW d, NEW q, NEW partial, NEW ok, Countable(o, d, q, partial, ok),
         NEW e, e = Count(o, d, q, partial, ok)
  PROVE  CountedAs(o, d, e, partial, ok)
<1>1. /\ d \in MState /\ d.earned \in Seq(Credentials) /\ d.failures \in Nat /\ o.tries \in Nat
      /\ d.ans \in BOOLEAN /\ d.phase = "preauth"
  BY DEF Countable, MState, Credentials, Conf
<1>2. PICK z \in Credentials : z = <<d.method, q.key>>
  <2>1. <<d.method, q.key>> \in Credentials
    BY DEF Credentials, Countable
  <2> QED  BY <2>1, Zenon
<1>3. PICK n \in Nat : n = IF ~partial /\ ~ok THEN d.failures + 1 ELSE d.failures
  <2>1. (IF ~partial /\ ~ok THEN d.failures + 1 ELSE d.failures) \in Nat
    BY <1>1
  <2> QED  BY <2>1, Zenon
<1>4. PICK w \in Seq(Credentials) : w = IF d.ans THEN Append(d.earned, z) ELSE d.earned
  <2>1. CASE d.ans
    <3>1. Append(d.earned, z) \in Seq(Credentials)
      BY <1>1, AppendProperties
    <3> QED  BY <2>1, <3>1
  <2>2. CASE ~d.ans
    BY <1>1, <2>2
  <2> QED  BY <2>1, <2>2
<1>5. PICK g : g = [d EXCEPT !.earned = w, !.failures = n]
  OBVIOUS
<1>6. /\ g \in MState /\ g.phase = "preauth" /\ g.valid = d.valid /\ g.ans = d.ans
      /\ g.used = d.used /\ g.force = d.force /\ g.lists = d.lists /\ g.failures = n
      /\ g.fatal = d.fatal /\ g.permit = d.permit
  BY <1>1, <1>4, <1>5, ZenonT(60) DEF MState, Credentials
<1>7. e = Verdict(o, g, ok)
  <2>1. w = IF d.ans THEN Append(d.earned, <<d.method, q.key>>) ELSE d.earned
    BY <1>2, <1>4
  <2>2. g = [d EXCEPT !.earned = IF d.ans THEN Append(@, <<d.method, q.key>>) ELSE @,
                      !.failures = IF ~partial /\ ~ok THEN @ + 1 ELSE @]
    BY <1>3, <1>5, <2>1, Zenon
  <2> QED  BY <2>2, Zenon DEF Count
<1>8. CASE n > o.tries
  <2>1. failures_exceeded(o, g)
    BY <1>6, <1>8 DEF failures_exceeded
  <2>2. PICK why \in Reasons : why = "too many authentication attempts"
    BY DEF Reasons
  <2>3. e = Fatal(g, why)
    BY <1>7, <2>1, <2>2 DEF Verdict
  <2>4. /\ e \in MState /\ e.phase = "exited" /\ e.fatal = "too many authentication attempts"
        /\ e.ans = g.ans /\ e.used = g.used /\ e.force = g.force /\ e.lists = g.lists
        /\ e.failures = g.failures
    <3>1. Gone(g, e, why)
      BY <1>6, <2>3, FatalFields
    <3> QED  BY <2>2, <3>1 DEF Gone
  <2> QED  BY <1>3, <1>6, <1>8, <2>4 DEF CountedAs
<1>9. CASE ~(n > o.tries) /\ ok
  <2>1. ~failures_exceeded(o, g) /\ g.valid
    BY <1>6, <1>9 DEF failures_exceeded, Countable
  <2>2. PICK P \in SUBSET ReqTypes : P = {"KEYEXPORT"}
    <3>1. {"KEYEXPORT"} \in SUBSET ReqTypes
      BY DEF ReqTypes
    <3> QED  BY <3>1, Zenon
  <2>3. e = [g EXCEPT !.phase = "export", !.permit = P]
    BY <1>7, <1>9, <2>1, <2>2 DEF Verdict
  <2>4. /\ e \in MState /\ e.phase = "export" /\ e.fatal = g.fatal
        /\ e.ans = g.ans /\ e.used = g.used /\ e.force = g.force /\ e.lists = g.lists
        /\ e.failures = g.failures
    BY <1>6, <2>3, ZenonT(60) DEF MState
  <2> QED  BY <1>3, <1>6, <1>9, <2>4 DEF CountedAs
<1>10. CASE ~(n > o.tries) /\ ~ok
  <2>1. ~failures_exceeded(o, g)
    BY <1>6, <1>10 DEF failures_exceeded
  <2>2. e = g
    BY <1>7, <1>10, <2>1 DEF Verdict
  <2> QED  BY <1>3, <1>6, <1>10, <2>2 DEF CountedAs
<1> QED  BY <1>8, <1>9, <1>10

\* root may come in by this method
MayRoot(o, method, force) == o.root => auth_root_allowed(o, method, force)

\* the three ways in which a turn of the monitor h ends
Failed(o, h, e) ==
  /\ e.lists = h.lists /\ e.failures = h.failures + 1
  /\ IF e.failures > o.tries
     THEN e.phase = "exited" /\ e.fatal = "too many authentication attempts"
     ELSE e.phase = "preauth" /\ e.fatal = h.fatal /\ e.permit = h.permit
Won(h, e, l) == e.phase = "export" /\ e.fatal = h.fatal /\ e.lists = l
Partly(h, e, l) ==
  /\ e.phase = "preauth" /\ e.fatal = h.fatal /\ e.lists = l /\ e.permit = h.permit
  /\ e.failures = h.failures

\* u: what the method leaves of the lists
Settled(o, h, e, u) ==
  /\ e \in MState /\ (e.ans <=> h.ans) /\ e.used = h.used /\ e.force = h.force
  /\ ~h.ans => Failed(o, h, e)
  /\ (h.ans /\ o.lists = <<>>) =>
       IF MayRoot(o, h.method, h.force) THEN Won(h, e, h.lists) ELSE Failed(o, h, e)
  /\ (h.ans /\ o.lists # <<>>) =>
       IF u.done THEN Won(h, e, u.lists) ELSE Partly(h, e, u.lists)

\* an answer that the monitor can count: of a user who exists, with a method that is next in one
\* of the lists
Decidable(o, h, q, u) ==
  /\ o \in Conf /\ h \in MState /\ h.phase = "preauth" /\ h.method \in Methods
  /\ q.key \in Keys \cup Ttys \cup {NoKey} /\ h.failures <= o.tries /\ (h.ans => h.valid)
  /\ u = auth2_update_methods_lists(h.lists, h.method)
  /\ (h.ans /\ o.lists # <<>>) => u.found /\ MayRoot(o, h.method, h.force)

LEMMA RequiredTurn ==
  ASSUME NEW o, NEW h, NEW q, NEW u, Decidable(o, h, q, u), NEW e, e = Required(o, h, q, u)
  PROVE  Settled(o, h, e, u)
<1>1. /\ o \in Conf /\ h \in MState /\ h.phase = "preauth" /\ h.method \in Methods
      /\ q.key \in Keys \cup Ttys \cup {NoKey} /\ h.failures <= o.tries /\ (h.ans => h.valid)
  BY DEF Decidable
<1>2. h.lists \in Lists /\ h.failures \in Nat /\ o.tries \in Nat /\ h.ans \in BOOLEAN
  BY <1>1 DEF MState, Conf
<1>3. PICK rt \in BOOLEAN : rt = MayRoot(o, h.method, h.force)
  <2>1. MayRoot(o, h.method, h.force) \in BOOLEAN
    BY DEF MayRoot
  <2> QED  BY <2>1, Zenon
<1>4. CASE o.lists = <<>> \/ ~h.ans
  <2>1. PICK ok \in BOOLEAN : ok = (h.ans /\ rt)
    <3>1. (h.ans /\ rt) \in BOOLEAN
      OBVIOUS
    <3> QED  BY <3>1, Zenon
  <2>2. root_checked(o, h, h.ans) = ok
    BY <1>2, <1>3, <2>1 DEF root_checked, MayRoot
  <2>3. e = Count(o, h, q, FALSE, ok)
    BY <1>4, <2>2 DEF Required
  <2>4. Countable(o, h, q, FALSE, ok)
    BY <1>1, <2>1 DEF Countable
  <2>5. CountedAs(o, h, e, FALSE, ok)
    BY <2>3, <2>4, CountTurn
  <2>6. CASE ok
    <3>1. e.failures = h.failures
      BY <2>5, <2>6 DEF CountedAs
    <3>2. ~(e.failures > o.tries)
      BY <1>1, <1>2, <3>1
    <3>3. Won(h, e, h.lists)
      BY <2>5, <2>6, <3>2 DEF CountedAs, Won
    <3>4. h.ans /\ rt /\ o.lists = <<>>
      BY <1>4, <2>1, <2>6
    <3>5. e \in MState /\ (e.ans <=> h.ans) /\ e.used = h.used /\ e.force = h.force
      BY <2>5 DEF CountedAs
    <3> QED  BY <1>3, <3>3, <3>4, <3>5 DEF Settled
  <2>7. CASE ~ok
    <3>1. Failed(o, h, e)
      BY <2>5, <2>7 DEF CountedAs, Failed
    <3>2. ~h.ans \/ (~rt /\ o.lists = <<>>)
      BY <1>4, <2>1, <2>7
    <3>3. e \in MState /\ (e.ans <=> h.ans) /\ e.used = h.used /\ e.force = h.force
      BY <2>5 DEF CountedAs
    <3> QED  BY <1>3, <3>1, <3>2, <3>3 DEF Settled
  <2> QED  BY <2>6, <2>7
<1>5. CASE o.lists # <<>> /\ h.ans
  <2>1. u.found /\ rt
    BY <1>3, <1>5 DEF Decidable
  <2>2. u.lists \in Lists /\ u.done \in BOOLEAN
    <3>1. u.lists \in Lists
      BY <1>2, UpdateLists DEF Decidable
    <3>2. u.done \in BOOLEAN
      BY DEF Decidable, auth2_update_methods_lists
    <3> QED  BY <3>1, <3>2
  <2>3. PICK U \in Lists : U = u.lists
    BY <2>2, Zenon
  <2>4. PICK ok \in BOOLEAN : ok = u.done
    BY <2>2, Zenon
  <2>5. PICK partial \in BOOLEAN : partial = ~ok
    <3>1. (~ok) \in BOOLEAN
      OBVIOUS
    <3> QED  BY <3>1, Zenon
  <2>6. root_checked(o, h, u.done) = ok
    BY <1>3, <2>1, <2>4 DEF root_checked, MayRoot
  <2>7. PICK f : f = [h EXCEPT !.lists = U]
    OBVIOUS
  <2>8. /\ f \in MState /\ f.phase = "preauth" /\ f.method = h.method /\ f.failures = h.failures
        /\ f.valid = h.valid /\ f.lists = U /\ f.ans = h.ans /\ f.used = h.used
        /\ f.force = h.force /\ f.fatal = h.fatal /\ f.permit = h.permit
    BY <1>1, <2>7 DEF MState
  <2>9. e = Count(o, f, q, partial, ok)
    BY <1>5, <2>1, <2>3, <2>4, <2>5, <2>6, <2>7 DEF Required
  <2>10. Countable(o, f, q, partial, ok)
    BY <1>1, <1>5, <2>8 DEF Countable
  <2>11. CountedAs(o, f, e, partial, ok)
    BY <2>9, <2>10, CountTurn
  <2>12. e.failures = h.failures
    BY <2>5, <2>8, <2>11 DEF CountedAs
  <2>13. ~(e.failures > o.tries)
    BY <1>1, <1>2, <2>12
  <2>14. e \in MState /\ (e.ans <=> h.ans) /\ e.used = h.used /\ e.force = h.force
    BY <2>8, <2>11 DEF CountedAs
  <2>15. ok => Won(h, e, U)
    BY <2>8, <2>11, <2>13 DEF CountedAs, Won
  <2>16. ~ok => Partly(h, e, U)
    BY <2>8, <2>11, <2>12, <2>13 DEF CountedAs, Partly
  <2>17. IF u.done THEN Won(h, e, u.lists) ELSE Partly(h, e, u.lists)
    BY <2>3, <2>4, <2>15, <2>16
  <2> QED  BY <1>5, <2>14, <2>17 DEF Settled
<1> QED  BY <1>2, <1>4, <1>5

\* the turn of a request that carries a credential
LEMMA CredentialTurn ==
  ASSUME NEW o, NEW s, NEW q, NEW t, NEW h, NEW e, Turn(o, s, q, t, h, e), q.t \in MonDecide,
         NEW u, Decidable(o, h, q, u)
  PROVE  Settled(o, h, e, u)
<1>1. e = Decide(o, [h EXCEPT !.permit = Following(h, q.t)], q)
  BY ReadTurn, Zenon
<1>2. q.t \notin MonOnce
  BY DEF MonDecide, MonOnce
<1>3. h \in MState /\ h.phase = "preauth"
  BY DEF Decidable
<1>4. [h EXCEPT !.permit = Following(h, q.t)] = h
  BY <1>2, <1>3 DEF Following, MState
<1>5. e = Required(o, h, q, auth2_update_methods_lists(h.lists, h.method))
  BY <1>1, <1>3, <1>4 DEF Decide
<1>6. e = Required(o, h, q, u)
  BY <1>5 DEF Decidable
<1> QED  BY <1>6, RequiredTurn

\* how the monitor s has judged a credential of the method that the child tries
Judged(o, s, e, method) ==
  /\ e \in MState /\ e.ans \in BOOLEAN /\ (Known(o, s.force) => Known(o, e.force))
  /\ ~e.ans => Failed(o, s, e)
  /\ (e.ans /\ o.lists = <<>>) =>
       IF MayRoot(o, method, e.force) THEN Won(s, e, s.lists) ELSE Failed(o, s, e)
  /\ (e.ans /\ o.lists # <<>>) =>
       /\ MayRoot(o, method, e.force) /\ auth2_update_methods_lists(s.lists, method).found
       /\ IF auth2_update_methods_lists(s.lists, method).done
          THEN Won(s, e, auth2_update_methods_lists(s.lists, method).lists)
          ELSE Partly(s, e, auth2_update_methods_lists(s.lists, method).lists)

\* a method that may be tried is found in the lists
LEMMA AllowedFound ==
  ASSUME NEW o, NEW l, NEW method, o.lists # <<>>, auth2_method_allowed(o, l, method)
  PROVE  auth2_update_methods_lists(l, method).found
BY DEF auth2_method_allowed, auth2_update_methods_lists

\* h and s differ in nothing that the ends of a turn are about
Alike(s, h) ==
  /\ h.lists = s.lists /\ h.failures = s.failures /\ h.fatal = s.fatal /\ h.permit = s.permit

LEMMA AlikeEnds ==
  ASSUME NEW o, NEW s, NEW h, NEW e, Alike(s, h)
  PROVE  /\ Failed(o, h, e) => Failed(o, s, e)
         /\ \A l : Won(h, e, l) => Won(s, e, l)
         /\ \A l : Partly(h, e, l) => Partly(s, e, l)
BY DEF Alike, Failed, Won, Partly

\* from what the monitor did to what the child may conclude
LEMMA SettledJudged ==
  ASSUME NEW o, NEW s, NEW h, NEW e, NEW u, NEW method, Settled(o, h, e, u), Alike(s, h),
         h \in MState, u = auth2_update_methods_lists(h.lists, h.method),
         Known(o, s.force) => Known(o, h.force),
         h.ans => (MayRoot(o, method, h.force) <=> MayRoot(o, h.method, h.force)),
         (h.ans /\ o.lists # <<>>) => h.method = method /\ MayRoot(o, method, h.force) /\ u.found
  PROVE  Judged(o, s, e, method)
<1>1. /\ e \in MState /\ (e.ans <=> h.ans) /\ e.force = h.force /\ e.ans \in BOOLEAN
      /\ h.ans \in BOOLEAN
  BY DEF Settled, MState
<1>2. h.lists = s.lists
  BY DEF Alike
<1>3. /\ Failed(o, h, e) => Failed(o, s, e)
      /\ \A l : Won(h, e, l) => Won(s, e, l)
      /\ \A l : Partly(h, e, l) => Partly(s, e, l)
  BY AlikeEnds
<1>4. ~e.ans => Failed(o, s, e)
  BY <1>1, <1>3 DEF Settled
<1>5. ASSUME e.ans, o.lists = <<>>
      PROVE  IF MayRoot(o, method, e.force) THEN Won(s, e, s.lists) ELSE Failed(o, s, e)
  <2>1. IF MayRoot(o, h.method, h.force) THEN Won(h, e, h.lists) ELSE Failed(o, h, e)
    BY <1>1, <1>5 DEF Settled
  <2>2. MayRoot(o, method, e.force) <=> MayRoot(o, h.method, h.force)
    BY <1>1, <1>5
  <2> QED  BY <1>2, <1>3, <2>1, <2>2
<1>6. ASSUME e.ans, o.lists # <<>>
      PROVE  /\ MayRoot(o, method, e.force) /\ auth2_update_methods_lists(s.lists, method).found
             /\ IF auth2_update_methods_lists(s.lists, method).done
                THEN Won(s, e, auth2_update_methods_lists(s.lists, method).lists)
                ELSE Partly(s, e, auth2_update_methods_lists(s.lists, method).lists)
  <2>1. h.method = method /\ MayRoot(o, method, e.force) /\ u.found
    BY <1>1, <1>6
  <2>2. u = auth2_update_methods_lists(s.lists, method)
    BY <1>2, <2>1
  <2>3. IF u.done THEN Won(h, e, u.lists) ELSE Partly(h, e, u.lists)
    BY <1>1, <1>6 DEF Settled
  <2>4. IF u.done THEN Won(s, e, u.lists) ELSE Partly(s, e, u.lists)
    BY <1>3, <2>3
  <2> QED  BY <2>1, <2>2, <2>4
<1> QED  BY <1>1, <1>4, <1>5, <1>6 DEF Judged

\* the monitor s may judge a credential of the method
Judging(o, s, method) ==
  /\ o \in Conf /\ AlignedX(o) /\ s \in MState /\ s.phase = "preauth" /\ s.failures <= o.tries
  /\ MonAuth \subseteq s.permit /\ auth2_method_allowed(o, s.lists, method)

\* a password; the child's method is "none" or "password", the monitor makes it out by itself
LEMMA PasswordTurn ==
  ASSUME NEW o, NEW s, NEW method \in {"none", "password"}, Judging(o, s, method),
         "password" \in o.enabled, NEW q, q.t = "AUTHPASSWORD", q.key = NoKey,
         method = "none" => q.pw = "empty", NEW e, e = Monitor(o, s, q)
  PROVE  Judged(o, s, e, method) /\ e.used = s.used
<1>1. /\ o \in Conf /\ AlignedX(o) /\ s \in MState /\ s.phase = "preauth" /\ s.failures <= o.tries
      /\ MonAuth \subseteq s.permit /\ auth2_method_allowed(o, s.lists, method)
  BY DEF Judging
<1>2. PICK t : t = [s EXCEPT !.method = "unknown"]
  OBVIOUS
<1>3. Quiet(s, t) /\ t \in MState /\ t.permit = s.permit
  BY <1>1, <1>2, TurnStarts DEF Quiet
<1>4. PICK b \in BOOLEAN : b = auth_password(o, t.valid, q.pw)
  <2>1. auth_password(o, t.valid, q.pw) \in BOOLEAN
    BY DEF auth_password
  <2> QED  BY <2>1, Zenon
<1>5. PICK n \in Nat : n = IF t.calls < 2 THEN t.calls + 1 ELSE 2
  <2>1. (IF t.calls < 2 THEN t.calls + 1 ELSE 2) \in Nat
    BY <1>3 DEF MState
  <2> QED  BY <2>1, Zenon
<1>6. PICK w \in Methods : w = IF q.pw = "empty" /\ t.calls = 0 THEN "none" ELSE "password"
  <2>1. (IF q.pw = "empty" /\ t.calls = 0 THEN "none" ELSE "password") \in Methods
    BY DEF Methods
  <2> QED  BY <2>1, Zenon
<1>7. PICK h : h = [t EXCEPT !.ans = b, !.calls = n, !.method = w]
  OBVIOUS
<1>8. /\ h \in MState /\ Quiet(t, h) /\ h.permit = t.permit /\ (h.ans <=> b) /\ h.method = w
  BY <1>3, <1>7, ZenonT(60) DEF MState, Quiet
<1>9. h = mm_answer_authpassword(o, t, q.pw)
  BY <1>3, <1>4, <1>5, <1>6, <1>7 DEF mm_answer_authpassword, MState
<1>10. h = Handler(o, t, q)
  BY <1>9 DEF Handler
<1>11. q.t \in s.permit /\ q.t \in MonDecide
  BY <1>1 DEF MonAuth, MonDecide
<1>12. Turn(o, s, q, t, h, e)
  BY <1>1, <1>2, <1>8, <1>10, <1>11 DEF Turn
<1>13. PICK u : u = auth2_update_methods_lists(h.lists, h.method)
  OBVIOUS
<1>14. /\ h.phase = "preauth" /\ h.failures = s.failures /\ h.valid = t.valid /\ h.lists = s.lists
       /\ h.force = s.force /\ h.used = s.used
  BY <1>1, <1>3, <1>8 DEF Quiet
<1>15. h.ans => h.valid /\ (o.root => o.permit_root = "yes") /\ q.pw = o.password
                /\ (q.pw # "empty" \/ o.empty_ok)
  BY <1>4, <1>8, <1>14 DEF auth_password
<1>16. ASSUME h.ans PROVE MayRoot(o, method, h.force) /\ MayRoot(o, h.method, h.force)
  BY <1>15, <1>16 DEF MayRoot, auth_root_allowed
<1>17. ASSUME h.ans, o.lists # <<>> PROVE h.method = method /\ u.found
  <2>1. q.pw # "empty"
    BY <1>1, <1>15, <1>17 DEF AlignedX
  <2>2. w = "password" /\ method = "password"
    BY <1>6, <2>1
  <2>3. auth2_update_methods_lists(s.lists, "password").found
    BY <1>1, <1>17, <2>2, AllowedFound
  <2> QED  BY <1>8, <1>13, <1>14, <2>2, <2>3
<1>18. Decidable(o, h, q, u)
  BY <1>1, <1>6, <1>8, <1>13, <1>14, <1>15, <1>16, <1>17 DEF Decidable
<1>19. Settled(o, h, e, u)
  BY <1>11, <1>12, <1>18, CredentialTurn
<1>20. Alike(s, h)
  BY <1>3, <1>8 DEF Quiet, Alike
<1>21. Judged(o, s, e, method)
  BY <1>8, <1>13, <1>14, <1>16, <1>17, <1>19, <1>20, SettledJudged
<1>22. e.used = s.used
  BY <1>14, <1>19 DEF Settled
<1> QED  BY <1>21, <1>22

\* the method of a key
KeyMethod(kind) == IF kind = "user" THEN "publickey" ELSE "hostbased"

\* a signature by the key that the monitor has just allowed
LEMMA KeyverifyTurn ==
  ASSUME NEW o, NEW s, NEW kind \in Kinds, Judging(o, s, KeyMethod(kind)), NEW key \in Keys,
         s.key = key, s.kind = kind, s.valid, NEW q, q.t = "KEYVERIFY", q.key = key, q.data = kind,
         NEW good \in BOOLEAN, q.good = good, NEW e, e = Monitor(o, s, q)
  PROVE  /\ Judged(o, s, e, KeyMethod(kind)) /\ (e.ans <=> good)
         /\ e.used = IF good THEN s.used \cup {key} ELSE s.used
<1>1. /\ o \in Conf /\ AlignedX(o) /\ s \in MState /\ s.phase = "preauth" /\ s.failures <= o.tries
      /\ MonAuth \subseteq s.permit /\ auth2_method_allowed(o, s.lists, KeyMethod(kind))
  BY DEF Judging
<1>2. PICK t : t = [s EXCEPT !.method = "unknown"]
  OBVIOUS
<1>3. Quiet(s, t) /\ t \in MState /\ t.permit = s.permit /\ t.key = key /\ t.kind = kind
  BY <1>1, <1>2, TurnStarts, ZenonT(60) DEF Quiet
<1>4. PICK U \in SUBSET Keys : U = IF good THEN t.used \cup {key} ELSE t.used
  <2>1. (IF good THEN t.used \cup {key} ELSE t.used) \in SUBSET Keys
    BY <1>3 DEF MState
  <2> QED  BY <2>1, Zenon
<1>5. PICK w \in Methods : w = KeyMethod(kind)
  <2>1. KeyMethod(kind) \in Methods
    BY DEF Methods, KeyMethod
  <2> QED  BY <2>1, Zenon
<1>6. PICK f \in Commands : f = merged_command(t.force, CommandOf(o, t.kind, key))
  <2>1. t.force \in Commands
    BY <1>3 DEF MState
  <2> QED  BY <1>1, <2>1, CommandTypes, Zenon
<1>7. PICK p \in BOOLEAN :
        p = merged_pty(t.pty, PtyOf(o, t.kind, key), t.force, CommandOf(o, t.kind, key))
  <2> DEFINE permit == PtyOf(o, t.kind, key)
             command == CommandOf(o, t.kind, key)
  <2>1. merged_pty(t.pty, permit, t.force, command) \in BOOLEAN
    <3> HIDE DEF permit, command
    <3> QED  BY PtyTypes, Zenon
  <2> QED  BY <2>1, Zenon
<1>8. PICK g : g = [t EXCEPT !.ans = good, !.key = NoKey, !.used = U]
  OBVIOUS
<1>9. /\ g \in MState /\ g.phase = t.phase /\ g.lists = t.lists /\ g.failures = t.failures
      /\ g.fatal = t.fatal /\ g.valid = t.valid /\ g.permit = t.permit /\ g.used = U
      /\ g.ans = good
  BY <1>3, <1>8, ZenonT(60) DEF MState
<1>10. PICK h : h = [g EXCEPT !.method = w, !.force = f, !.pty = p]
  OBVIOUS
<1>11. /\ h \in MState /\ h.phase = g.phase /\ h.lists = g.lists /\ h.failures = g.failures
       /\ h.fatal = g.fatal /\ h.valid = g.valid /\ h.permit = g.permit /\ h.used = U
       /\ h.ans = good /\ h.method = w /\ h.force = f
  BY <1>9, <1>10, ZenonT(60) DEF MState
<1>12. h = [t EXCEPT !.ans = good, !.key = NoKey, !.used = U, !.method = w, !.force = f, !.pty = p]
  BY <1>3, <1>8, <1>10 DEF MState
<1>13. h = mm_answer_keyverify(o, t, key, kind, good)
  <2>1. ~(t.key = NoKey \/ t.key # key) /\ kind = t.kind
    BY <1>3, AuthAssumption
  <2>2. w = IF t.kind = "user" THEN "publickey" ELSE "hostbased"
    BY <1>3, <1>5 DEF KeyMethod
  <2> QED  BY <1>4, <1>6, <1>7, <1>12, <2>1, <2>2 DEF mm_answer_keyverify
<1>14. h = Handler(o, t, q)
  BY <1>13 DEF Handler
<1>15. q.t \in s.permit /\ q.t \in MonDecide
  BY <1>1 DEF MonAuth, MonDecide
<1>16. Turn(o, s, q, t, h, e)
  BY <1>1, <1>2, <1>11, <1>14, <1>15 DEF Turn
<1>17. PICK u : u = auth2_update_methods_lists(h.lists, h.method)
  OBVIOUS
<1>18. /\ h.phase = "preauth" /\ h.failures = s.failures /\ h.valid /\ h.lists = s.lists
       /\ t.used = s.used /\ t.force = s.force /\ h.fatal = s.fatal /\ h.permit = s.permit
  BY <1>1, <1>3, <1>9, <1>11 DEF Quiet
<1>19. o.lists # <<>> => u.found
  BY <1>1, <1>5, <1>11, <1>17, <1>18, AllowedFound
<1>20. o.lists # <<>> => MayRoot(o, w, h.force)
  BY <1>1, <1>5 DEF AlignedX, MayRoot, auth_root_allowed, KeyMethod
<1>21. Decidable(o, h, q, u)
  BY <1>1, <1>11, <1>17, <1>18, <1>19, <1>20 DEF Decidable
<1>22. Settled(o, h, e, u)
  BY <1>15, <1>16, <1>21, CredentialTurn
<1>23. Alike(s, h)
  BY <1>18 DEF Alike
<1>24. Known(o, s.force) => Known(o, h.force)
  BY <1>6, <1>11, <1>18, KnownMerges
<1>25. Judged(o, s, e, w)
  BY <1>11, <1>17, <1>19, <1>20, <1>22, <1>23, <1>24, SettledJudged
<1>26. e.used = U /\ (e.ans <=> good)
  BY <1>11, <1>22 DEF Settled
<1> QED  BY <1>4, <1>5, <1>18, <1>25, <1>26

-----------------------------------------------------------------------------
(* What the child makes of the answer.                                       *)

\* the child's count of failures may be n
LevelAt(o, d, s, n) == s.failures <= n \/ (o.empty_ok /\ ~d.none /\ s.failures = n + 1)

\* what a failure costs the child
Paid(d, method) == d.failures + (IF d.attempt > 1 \/ method # "none" THEN 1 ELSE 0)

\* the method has failed, and Pay() is next
Owing(o, d, s, method) ==
  /\ s.phase = "preauth" /\ MonAuth \subseteq s.permit /\ Shared(o, d, s)
  /\ LevelAt(o, d, s, Paid(d, method))

\* the method has succeeded, and the child has not looked at its lists yet
Winning(o, d, s, u) ==
  /\ d.used = s.used /\ Known(o, d.force) /\ Known(o, s.force)
  /\ o.lists = <<>> => s.phase = "export" /\ d.lists = s.lists
  /\ o.lists # <<>> =>
       /\ u.found /\ s.lists = u.lists
       /\ IF u.done THEN s.phase = "export"
          ELSE s.phase = "preauth" /\ MonAuth \subseteq s.permit /\ Level(o, d, s)

\* the pair that a method hands to userauth_finish()
Met(o, d, s, ok, postponed, method) ==
  /\ d.status = "dead" => Excused(o, d, s)
  /\ d.status # "dead" =>
       /\ d.status = "auth" /\ d.attempt # 0 /\ ~d.success /\ s.fatal = "none"
       /\ postponed => Asking(o, d, s)
       /\ (~postponed /\ ~(ok /\ MayRoot(o, method, d.force))) => Owing(o, d, s, method)
       /\ (~postponed /\ ok /\ MayRoot(o, method, d.force)) =>
            Winning(o, d, s, auth2_update_methods_lists(d.lists, method))

\* the child ends, for a reason of its own or of the client
LEMMA QuitAgrees ==
  ASSUME NEW o, NEW x \in Pairs, Excused(o, x.c, x.m), NEW y, y = Quit(x)
  PROVE  AgreeX(o, y.c, y.m)
<1>1. x.c \in CState /\ x.m \in MState
  BY DEF Pairs
<1>2. PICK d : d = [x.c EXCEPT !.status = "dead"]
  OBVIOUS
<1>3. d.status = "dead" /\ d.none = x.c.none /\ d.failures = x.c.failures
  BY <1>1, <1>2 DEF CState
<1>4. PICK s : s = Exit(x.m)
  OBVIOUS
<1>5. s.fatal = x.m.fatal
  BY <1>1, <1>4 DEF Exit, MState
<1>6. y.c = d /\ y.m = s
  BY <1>2, <1>4 DEF Quit
<1>7. Excused(o, d, s)
  BY <1>3, <1>5 DEF Excused
<1> QED  BY <1>3, <1>6, <1>7 DEF AgreeX

\* what Pay() is called with
Payable(o, d, s, n) ==
  /\ d \in CState /\ s \in MState /\ d.status = "auth" /\ d.attempt # 0 /\ ~d.success /\ s.fatal = "none"
  /\ s.phase = "preauth" /\ MonAuth \subseteq s.permit /\ Shared(o, d, s) /\ LevelAt(o, d, s, n)

LEMMA PayAgrees ==
  ASSUME NEW o, NEW x \in Pairs, NEW method, NEW partial \in BOOLEAN, NEW n \in Nat,
         n = IF partial THEN x.c.failures ELSE Paid(x.c, method), Payable(o, x.c, x.m, n),
         NEW y, y = Pay(o, x, method, partial)
  PROVE  AgreeX(o, y.c, y.m)
<1>1. x.c \in CState /\ x.m \in MState
  BY DEF Pairs
<1>2. n = x.c.failures + (IF ~partial /\ (x.c.attempt > 1 \/ method # "none") THEN 1 ELSE 0)
  <2>1. x.c.failures \in Nat
    BY <1>1 DEF CState
  <2> QED  BY <2>1 DEF Paid
<1>3. PICK d : d = [x.c EXCEPT !.failures = n]
  OBVIOUS
<1>4. /\ d \in CState /\ d.attempt = x.c.attempt /\ d.failures = n /\ d.status = x.c.status
      /\ d.success = x.c.success /\ d.none = x.c.none /\ d.lists = x.c.lists
      /\ d.used = x.c.used /\ d.force = x.c.force
  BY <1>1, <1>3 DEF CState
<1>5. PICK z : z = [c |-> d, m |-> x.m]
  OBVIOUS
<1>6. z = [x EXCEPT !.c.failures = n]
  <2>1. z = [x EXCEPT !.c = d]
    BY <1>5, PairExcept DEF Pairs
  <2> QED  BY <1>3, <2>1, Zenon
<1>7. y = IF n >= o.tries THEN Quit(z) ELSE z
  BY <1>2, <1>6 DEF Pay
<1>8. z \in Pairs /\ z.c = d /\ z.m = x.m
  BY <1>1, <1>4, <1>5 DEF Pairs
<1>9. Excused(o, z.c, z.m)
  BY <1>8 DEF Excused, Payable
<1>10. CASE n >= o.tries
  BY <1>7, <1>8, <1>9, <1>10, QuitAgrees
<1>11. CASE ~(n >= o.tries)
  <2>1. Asking(o, d, x.m)
    BY <1>4 DEF Payable, Asking, Shared, LevelAt, Level
  <2>2. d.status = "auth" /\ d.attempt # 0
    BY <1>4 DEF Payable
  <2>3. AgreeX(o, d, x.m)
    BY <1>8, <1>9, <2>1, <2>2 DEF AgreeX
  <2> QED  BY <1>7, <1>8, <1>11, <2>3
<1> QED  BY <1>10, <1>11

\* the child has succeeded; u is what is left of the lists
LEMMA FinishWins ==
  ASSUME NEW o, NEW x \in Pairs, NEW u, u.lists \in Lists, Winning(o, x.c, x.m, u),
         x.c.status = "auth", x.c.attempt # 0, ~x.c.success, x.m.fatal = "none",
         NEW method, NEW y, y = Finish(o, x, method, TRUE, u)
  PROVE  AgreeX(o, y.c, y.m)
<1>1. x.c \in CState /\ x.m \in MState
  BY DEF Pairs
<1>2. PICK l \in Lists : l = u.lists
  BY Zenon
<1>3. ASSUME NEW d \in CState, d.status = "auth", d.attempt # 0, LetIn(o, d, x.m),
             NEW z, z = [x EXCEPT !.c = d]
      PROVE  AgreeX(o, z.c, z.m)
  <2>1. z = [c |-> d, m |-> x.m]
    BY <1>3, PairExcept DEF Pairs
  <2>2. z.c = d /\ z.m = x.m
    BY <2>1
  <2> QED  BY <1>3, <2>2 DEF AgreeX, Excused
<1>4. CASE o.lists = <<>>
  <2>1. PICK d : d = [x.c EXCEPT !.success = TRUE]
    OBVIOUS
  <2>2. /\ d \in CState /\ d.status = "auth" /\ d.attempt # 0 /\ d.success /\ d.lists = x.c.lists
        /\ d.used = x.c.used /\ d.force = x.c.force
    BY <1>1, <2>1 DEF CState
  <2>3. LetIn(o, d, x.m)
    BY <1>4, <2>2 DEF Winning, LetIn, Shared
  <2>4. PICK z : z = [x EXCEPT !.c = d]
    OBVIOUS
  <2>5. z = [x EXCEPT !.c.success = TRUE]
    BY <2>1, <2>4, Zenon
  <2>6. y = z
    BY <1>4, <2>5 DEF Finish
  <2> QED  BY <1>3, <2>2, <2>3, <2>4, <2>6
<1>5. CASE o.lists # <<>> /\ u.done
  <2>1. PICK d : d = [x.c EXCEPT !.success = TRUE, !.lists = l]
    OBVIOUS
  <2>2. /\ d \in CState /\ d.status = "auth" /\ d.attempt # 0 /\ d.success /\ d.lists = l
        /\ d.used = x.c.used /\ d.force = x.c.force
    BY <1>1, <2>1 DEF CState
  <2>3. LetIn(o, d, x.m) /\ u.found
    BY <1>2, <1>5, <2>2 DEF Winning, LetIn, Shared
  <2>4. PICK z : z = [x EXCEPT !.c = d]
    OBVIOUS
  <2>5. z = [x EXCEPT !.c = [x.c EXCEPT !.success = TRUE, !.lists = u.lists]]
    BY <1>2, <2>1, <2>4, Zenon
  <2>6. y = z
    BY <1>5, <2>3, <2>5 DEF Finish
  <2> QED  BY <1>3, <2>2, <2>3, <2>4, <2>6
<1>6. CASE o.lists # <<>> /\ ~u.done
  <2>1. PICK d : d = [x.c EXCEPT !.lists = l]
    OBVIOUS
  <2>2. /\ d \in CState /\ d.status = "auth" /\ d.attempt # 0 /\ ~d.success /\ d.lists = l
        /\ d.used = x.c.used /\ d.force = x.c.force /\ d.failures = x.c.failures
        /\ d.none = x.c.none /\ d.failures \in Nat
    BY <1>1, <2>1 DEF CState
  <2>3. PICK z : z = [c |-> d, m |-> x.m]
    OBVIOUS
  <2>4. z \in Pairs /\ z.c = d /\ z.m = x.m
    BY <1>1, <2>2, <2>3 DEF Pairs
  <2>5. z = [x EXCEPT !.c.lists = u.lists]
    <3>1. z = [x EXCEPT !.c = d]
      BY <2>3, PairExcept DEF Pairs
    <3> QED  BY <1>2, <2>1, <3>1, Zenon
  <2>6. u.found
    BY <1>6 DEF Winning
  <2>7. y = Pay(o, z, method, TRUE)
    BY <1>6, <2>5, <2>6 DEF Finish
  <2>8. Payable(o, d, x.m, d.failures)
    BY <1>1, <1>2, <1>6, <2>2 DEF Winning, Payable, Shared, Level, LevelAt
  <2>9. PICK n \in Nat : n = d.failures
    BY <2>2
  <2>10. Payable(o, z.c, z.m, n) /\ n = IF TRUE THEN z.c.failures ELSE Paid(z.c, method)
    BY <2>4, <2>8, <2>9
  <2>11. TRUE \in BOOLEAN
    OBVIOUS
  <2> QED  BY <2>4, <2>7, <2>10, <2>11, PayAgrees
<1> QED  BY <1>4, <1>5, <1>6

\* userauth_finish() keeps both in step
LEMMA MetAgrees ==
  ASSUME NEW o, NEW r, NEW method, r.x \in Pairs, r.ok \in BOOLEAN,
         Met(o, r.x.c, r.x.m, r.ok, r.postponed, method), NEW y, y = userauth_finish(o, r, method)
  PROVE  AgreeX(o, y.c, y.m)
<1>1. PICK x \in Pairs : x = r.x
  BY Zenon
<1>2. PICK ok \in BOOLEAN : ok = r.ok
  BY Zenon
<1>3. Met(o, x.c, x.m, ok, r.postponed, method)
  BY <1>1, <1>2
<1>4. x.c \in CState /\ x.m \in MState
  BY DEF Pairs
<1>5. CASE x.c.status = "dead"
  <2>1. y = x
    BY <1>1, <1>5 DEF userauth_finish
  <2> QED  BY <1>3, <1>5, <2>1 DEF Met, AgreeX
<1>6. CASE x.c.status # "dead" /\ r.postponed
  <2>1. y = x
    BY <1>1, <1>6 DEF userauth_finish
  <2>2. Asking(o, x.c, x.m) /\ x.c.status = "auth" /\ x.c.attempt # 0 /\ x.m.fatal = "none"
    BY <1>3, <1>6 DEF Met
  <2> QED  BY <2>1, <2>2 DEF AgreeX, Excused
<1>7. CASE x.c.status # "dead" /\ ~r.postponed
  <2>1. x.c.status = "auth" /\ x.c.attempt # 0 /\ ~x.c.success /\ x.m.fatal = "none"
    BY <1>3, <1>7 DEF Met
  <2>2. Excused(o, x.c, x.m)
    BY <2>1 DEF Excused
  <2>3. CASE ok /\ ~x.c.valid
    <3>1. y = Quit(x)
      BY <1>1, <1>2, <1>7, <2>3 DEF userauth_finish
    <3> QED  BY <2>2, <3>1, QuitAgrees
  <2>4. CASE ~(ok /\ ~x.c.valid)
    <3>1. PICK u : u = auth2_update_methods_lists(x.c.lists, method)
      OBVIOUS
    <3>2. x.c.lists \in Lists
      BY <1>4 DEF CState
    <3>3. u.lists \in Lists
      BY <3>1, <3>2, UpdateLists
    <3>4. PICK root \in BOOLEAN : root = (ok /\ MayRoot(o, method, x.c.force))
      <4>1. (ok /\ MayRoot(o, method, x.c.force)) \in BOOLEAN
        OBVIOUS
      <4> QED  BY <4>1, Zenon
    <3>5. y = Finish(o, x, method, root, u)
      BY <1>1, <1>2, <1>7, <2>4, <3>1, <3>4 DEF userauth_finish, MayRoot
    <3>6. CASE root
      <4>1. Winning(o, x.c, x.m, u)
        BY <1>3, <1>7, <3>1, <3>4, <3>6 DEF Met
      <4>2. y = Finish(o, x, method, TRUE, u)
        BY <3>5, <3>6
      <4> QED  BY <2>1, <3>3, <4>1, <4>2, FinishWins
    <3>7. CASE ~root
      <4>1. Owing(o, x.c, x.m, method)
        BY <1>3, <1>7, <3>4, <3>7 DEF Met
      <4>2. y = Pay(o, x, method, FALSE)
        BY <3>5, <3>7 DEF Finish
      <4>3. PICK n \in Nat : n = Paid(x.c, method)
        <5>1. Paid(x.c, method) \in Nat
          BY <1>4 DEF CState, Paid
        <5> QED  BY <5>1, Zenon
      <4>4. Payable(o, x.c, x.m, n)
        BY <1>4, <2>1, <4>1, <4>3 DEF Payable, Owing
      <4>5. FALSE \in BOOLEAN /\ n = IF FALSE THEN x.c.failures ELSE Paid(x.c, method)
        BY <4>3
      <4> QED  BY <4>2, <4>4, <4>5, PayAgrees
    <3> QED  BY <3>6, <3>7
  <2> QED  BY <2>3, <2>4
<1> QED  BY <1>5, <1>6, <1>7

\* root may come in with the same methods for both
LEMMA RootAlike ==
  ASSUME NEW o, AlignedX(o), NEW method, NEW f, NEW g, Known(o, f), Known(o, g)
  PROVE  MayRoot(o, method, f) <=> MayRoot(o, method, g)
BY DEF AlignedX, MayRoot, auth_root_allowed, Known

\* the failure that the monitor counts is one that the child counts too, but for a first "none"
Due(o, d, s, method) ==
  \/ s.failures + 1 <= Paid(d, method)
  \/ o.empty_ok /\ ~d.none /\ s.failures + 1 = Paid(d, method) + 1

\* the child d tries a method with the monitor s
Trying(o, d, s, method) ==
  /\ o \in Conf /\ AlignedX(o) /\ d \in CState /\ s \in MState
  /\ d.status = "auth" /\ d.attempt # 0 /\ d.failures < o.tries /\ s.fatal = "none"
  /\ s.failures <= o.tries /\ auth2_method_allowed(o, d.lists, method)
  /\ Asking(o, d, s) /\ Due(o, d, s, method)

\* what the answer e makes of the child d
Carried(o, d, D, e) ==
  /\ D \in CState
  /\ e.phase = "exited" => D.status = "dead" /\ D.none = d.none /\ D.failures = d.failures
  /\ e.phase # "exited" =>
       /\ D.status = d.status /\ D.attempt = d.attempt /\ D.success = d.success /\ D.none = d.none
       /\ D.failures = d.failures /\ D.lists = d.lists /\ D.used = e.used
       /\ (Known(o, d.force) => Known(o, D.force))

LEMMA DueExcused ==
  ASSUME NEW a \in Nat, NEW b \in Nat, NEW n \in Nat, NEW p \in {b, b + 1}, b < n, a + 1 > n,
         NEW odd \in BOOLEAN, a + 1 <= p \/ (odd /\ a + 1 = p + 1)
  PROVE  odd /\ b + 1 = n
OBVIOUS

LEMMA JudgedMet ==
  ASSUME NEW o, NEW d, NEW s, NEW e, NEW method, NEW D, Trying(o, d, s, method),
         Judged(o, s, e, method), Carried(o, d, D, e)
  PROVE  Met(o, D, e, e.ans, FALSE, method)
<1>1. /\ o \in Conf /\ AlignedX(o) /\ d \in CState /\ s \in MState /\ e \in MState /\ D \in CState
      /\ d.status = "auth" /\ d.attempt # 0 /\ d.failures < o.tries /\ s.fatal = "none"
      /\ e.ans \in BOOLEAN
  BY DEF Trying, Judged, Carried
<1>2. /\ d.failures \in Nat /\ s.failures \in Nat /\ o.tries \in Nat /\ e.failures \in Nat
  BY <1>1 DEF CState, MState, Conf
<1>3. ~d.success /\ s.phase = "preauth" /\ MonAuth \subseteq s.permit /\ Shared(o, d, s)
      /\ Level(o, d, s) /\ Due(o, d, s, method)
  BY DEF Trying, Asking
<1>4. PICK p \in {d.failures, d.failures + 1} : p = Paid(d, method)
  BY <1>2 DEF Paid
<1>5. ASSUME e.phase # "exited"
      PROVE  /\ D.status = "auth" /\ D.attempt # 0 /\ ~D.success /\ D.none = d.none
             /\ D.failures = d.failures /\ D.lists = d.lists /\ D.used = e.used
             /\ Known(o, D.force) /\ Known(o, e.force)
             /\ D.attempt = d.attempt
  BY <1>1, <1>3, <1>5 DEF Carried, Judged, Shared
<1>6. ASSUME Failed(o, s, e), e.failures <= o.tries => ~(e.ans /\ MayRoot(o, method, D.force))
      PROVE  Met(o, D, e, e.ans, FALSE, method)
  <2>1. CASE e.failures > o.tries
    <3>1. /\ e.phase = "exited" /\ e.fatal = "too many authentication attempts"
          /\ e.failures = s.failures + 1
      BY <1>6, <2>1 DEF Failed
    <3>2. D.status = "dead" /\ D.none = d.none /\ D.failures = d.failures
      BY <3>1 DEF Carried
    <3>3. PICK odd \in BOOLEAN : odd = (o.empty_ok /\ ~d.none)
      <4>1. (o.empty_ok /\ ~d.none) \in BOOLEAN
        OBVIOUS
      <4> QED  BY <4>1, Zenon
    <3>4. s.failures + 1 <= p \/ (odd /\ s.failures + 1 = p + 1)
      BY <1>3, <1>4, <3>3 DEF Due
    <3>5. s.failures + 1 > o.tries
      BY <2>1, <3>1
    <3>6. odd /\ d.failures + 1 = o.tries
      BY <1>1, <1>2, <1>4, <3>4, <3>5, DueExcused
    <3>7. Excused(o, D, e)
      BY <3>1, <3>2, <3>3, <3>6 DEF Excused
    <3> QED  BY <3>2, <3>7 DEF Met
  <2>2. CASE ~(e.failures > o.tries)
    <3>1. /\ e.phase = "preauth" /\ e.fatal = "none" /\ e.permit = s.permit
          /\ e.failures = s.failures + 1 /\ e.lists = s.lists
      BY <1>1, <1>6, <2>2 DEF Failed
    <3>2. Shared(o, D, e)
      BY <1>3, <1>5, <3>1 DEF Shared
    <3>3. Paid(D, method) = Paid(d, method)
      BY <1>5, <3>1 DEF Paid
    <3>4. LevelAt(o, D, e, Paid(D, method))
      BY <1>3, <1>5, <3>1, <3>3 DEF Due, LevelAt
    <3>5. Owing(o, D, e, method)
      BY <1>3, <3>1, <3>2, <3>4 DEF Owing
    <3>6. ~(e.ans /\ MayRoot(o, method, D.force))
      BY <1>2, <1>6, <2>2
    <3> QED  BY <1>5, <3>1, <3>5, <3>6 DEF Met
  <2> QED  BY <2>1, <2>2
<1>7. ASSUME e.phase # "exited" PROVE MayRoot(o, method, D.force) <=> MayRoot(o, method, e.force)
  BY <1>1, <1>5, <1>7, RootAlike
<1>8. PICK u : u = auth2_update_methods_lists(d.lists, method)
  OBVIOUS
<1>9. ASSUME e.phase # "exited", e.fatal = "none", Winning(o, D, e, u)
      PROVE  Met(o, D, e, e.ans, FALSE, method) \/ ~(e.ans /\ MayRoot(o, method, D.force))
  BY <1>5, <1>8, <1>9 DEF Met
<1>10. CASE ~e.ans
  <2>1. Failed(o, s, e)
    BY <1>10 DEF Judged
  <2> QED  BY <1>6, <1>10, <2>1
<1>11. CASE e.ans /\ o.lists = <<>>
  <2>1. CASE MayRoot(o, method, e.force)
    <3>1. Won(s, e, s.lists)
      BY <1>11, <2>1 DEF Judged
    <3>2. e.phase = "export" /\ e.fatal = "none" /\ e.lists = d.lists
      BY <1>1, <1>3, <3>1 DEF Won, Shared
    <3>3. Winning(o, D, e, u)
      BY <1>5, <1>11, <3>2 DEF Winning
    <3> QED  BY <1>7, <1>9, <1>11, <2>1, <3>2, <3>3
  <2>2. CASE ~MayRoot(o, method, e.force)
    <3>1. Failed(o, s, e)
      BY <1>11, <2>2 DEF Judged
    <3>2. e.failures <= o.tries => e.phase = "preauth"
      <4>1. e.failures <= o.tries => ~(e.failures > o.tries)
        BY <1>2
      <4> QED  BY <3>1, <4>1, Zenon DEF Failed
    <3>3. e.failures <= o.tries => ~(e.ans /\ MayRoot(o, method, D.force))
      BY <1>7, <2>2, <3>2
    <3> QED  BY <1>6, <3>1, <3>3
  <2> QED  BY <2>1, <2>2
<1>12. CASE e.ans /\ o.lists # <<>>
  <2>1. u = auth2_update_methods_lists(s.lists, method)
    BY <1>3, <1>8 DEF Shared
  <2>2. /\ MayRoot(o, method, e.force) /\ u.found
        /\ IF u.done THEN Won(s, e, u.lists) ELSE Partly(s, e, u.lists)
    BY <1>12, <2>1 DEF Judged
  <2>3. CASE u.done
    <3>1. e.phase = "export" /\ e.fatal = "none" /\ e.lists = u.lists
      BY <1>1, <2>2, <2>3 DEF Won
    <3>2. Winning(o, D, e, u)
      BY <1>5, <1>12, <2>2, <2>3, <3>1 DEF Winning
    <3> QED  BY <1>7, <1>9, <1>12, <2>2, <3>1, <3>2
  <2>4. CASE ~u.done
    <3>1. /\ e.phase = "preauth" /\ e.fatal = "none" /\ e.lists = u.lists /\ e.permit = s.permit
          /\ e.failures = s.failures
      BY <1>1, <2>2, <2>4 DEF Partly
    <3>2. Level(o, D, e)
      BY <1>3, <1>5, <3>1 DEF Level
    <3>3. Winning(o, D, e, u)
      BY <1>3, <1>5, <1>12, <2>2, <2>4, <3>1, <3>2 DEF Winning
    <3> QED  BY <1>7, <1>9, <1>12, <2>2, <3>1, <3>3
  <2> QED  BY <2>3, <2>4
<1> QED  BY <1>1, <1>10, <1>11, <1>12

\* a request leaves the child as it was, or dead with the monitor
Asked(d, D, e) ==
  /\ D \in CState
  /\ e.phase # "exited" => D = d
  /\ e.phase = "exited" => /\ D.status = "dead" /\ D.none = d.none /\ D.failures = d.failures
                           /\ D.force = d.force

LEMMA AskFields ==
  ASSUME NEW o, NEW x \in Pairs, NEW q, NEW e, e = Monitor(o, x.m, q), NEW y, y = Ask(o, x, q)
  PROVE  y.m = e /\ Asked(x.c, y.c, e)
<1>1. x.c \in CState
  BY DEF Pairs
<1>2. PICK d \in CState : d = x.c
  BY <1>1
<1>3. y = [c |-> IF e.phase = "exited" THEN [d EXCEPT !.status = "dead"] ELSE d, m |-> e]
  BY <1>2 DEF Ask, Answered
<1>4. y.m = e /\ y.c = IF e.phase = "exited" THEN [d EXCEPT !.status = "dead"] ELSE d
  BY <1>3
<1>5. CASE e.phase = "exited"
  <2>1. y.c = [d EXCEPT !.status = "dead"]
    BY <1>4, <1>5
  <2>2. /\ y.c \in CState /\ y.c.status = "dead" /\ y.c.none = d.none /\ y.c.failures = d.failures
        /\ y.c.force = d.force
    BY <2>1 DEF CState
  <2> QED  BY <1>2, <1>4, <1>5, <2>2 DEF Asked
<1>6. CASE e.phase # "exited"
  BY <1>2, <1>4, <1>6 DEF Asked
<1> QED  BY <1>5, <1>6

\* the child d asks for no credential, or its monitor for none that would do
LEMMA RefusedMet ==
  ASSUME NEW o, NEW d \in CState, NEW s \in MState, d.status = "auth", d.attempt # 0,
         s.fatal = "none", Asking(o, d, s), NEW method
  PROVE  Met(o, d, s, FALSE, FALSE, method)
<1>1. d.failures \in Nat /\ s.failures \in Nat
  BY DEF CState, MState
<1>2. PICK p \in {d.failures, d.failures + 1} : p = Paid(d, method)
  BY <1>1 DEF Paid
<1>3. s.failures <= p \/ (o.empty_ok /\ ~d.none /\ s.failures = p + 1)
  BY <1>1, <1>2 DEF Asking, Level
<1>4. LevelAt(o, d, s, Paid(d, method))
  BY <1>2, <1>3 DEF LevelAt
<1>5. Owing(o, d, s, method)
  BY <1>4 DEF Owing, Asking
<1> QED  BY <1>5 DEF Met, Asking

\* a method that the monitor judges
LEMMA AnsweredMet ==
  ASSUME NEW o, NEW d, NEW s, NEW e, NEW method, NEW D, Trying(o, d, s, method),
         Judged(o, s, e, method), e.used = s.used, Asked(d, D, e)
  PROVE  Met(o, D, e, e.ans, FALSE, method)
<1>1. D \in CState
  BY DEF Asked
<1>2. d.used = s.used
  BY DEF Trying, Asking, Shared
<1>3. Carried(o, d, D, e)
  BY <1>1, <1>2 DEF Asked, Carried
<1> QED  BY <1>3, JudgedMet

LEMMA TryingJudging ==
  ASSUME NEW o, NEW d, NEW s, NEW method, Trying(o, d, s, method)
  PROVE  Judging(o, s, method)
BY DEF Trying, Judging, Asking, Shared

\* the child that tries the method, with a pair x between two packets
Tries(o, x, method) ==
  /\ o \in Conf /\ AlignedX(o) /\ x \in Pairs /\ x.c.status = "auth" /\ x.c.attempt # 0
  /\ x.c.failures < o.tries /\ x.m.fatal = "none" /\ x.m.failures <= o.tries
  /\ authmethod_lookup(o, x.c, method) /\ Asking(o, x.c, x.m)

LEMMA TriesTrying ==
  ASSUME NEW o, NEW x, NEW method, Tries(o, x, method), method # "none"
  PROVE  Trying(o, x.c, x.m, method) /\ method \in o.enabled
<1>1. x.c \in CState /\ x.m \in MState
  BY DEF Tries, Pairs
<1>2. x.c.failures \in Nat /\ x.m.failures \in Nat
  BY <1>1 DEF CState, MState
<1>3. Paid(x.c, method) = x.c.failures + 1
  BY DEF Paid
<1>4. Level(o, x.c, x.m)
  BY DEF Tries, Asking
<1>5. Due(o, x.c, x.m, method)
  BY <1>2, <1>3, <1>4 DEF Due, Level
<1>6. method \in o.enabled /\ auth2_method_allowed(o, x.c.lists, method)
  BY DEF Tries, authmethod_lookup
<1> QED  BY <1>1, <1>5, <1>6 DEF Tries, Trying

\* userauth_passwd()
LEMMA PasswdMet ==
  ASSUME NEW o, NEW x, Tries(o, x, "password"), NEW pw \in Passwords,
         NEW r, r = userauth_passwd(o, x, pw)
  PROVE  Met(o, r.x.c, r.x.m, r.ok, r.postponed, "password") /\ r.ok \in BOOLEAN
<1>1. PICK q : q = [Req("AUTHPASSWORD") EXCEPT !.pw = pw]
  OBVIOUS
<1>2. q.t = "AUTHPASSWORD" /\ q.key = NoKey /\ q.pw = pw
  BY <1>1 DEF Req
<1>3. PICK e : e = Monitor(o, x.m, q)
  OBVIOUS
<1>4. PICK y : y = Ask(o, x, q)
  OBVIOUS
<1>5. x \in Pairs
  BY DEF Tries
<1>6. y.m = e /\ Asked(x.c, y.c, e)
  BY <1>3, <1>4, <1>5, AskFields
<1>7. Trying(o, x.c, x.m, "password") /\ "password" \in o.enabled
  BY TriesTrying
<1>8. Judging(o, x.m, "password")
  BY <1>7, TryingJudging
<1>9. Judged(o, x.m, e, "password") /\ e.used = x.m.used
  <2>1. PICK s : s = x.m
    OBVIOUS
  <2>2. PICK method \in {"none", "password"} : method = "password"
    OBVIOUS
  <2>3. Judging(o, s, method) /\ e = Monitor(o, s, q) /\ (method = "none" => q.pw = "empty")
    BY <1>3, <1>8, <2>1, <2>2
  <2>4. Judged(o, s, e, method) /\ e.used = s.used
    BY <1>2, <1>7, <2>3, PasswordTurn
  <2> QED  BY <2>1, <2>2, <2>4
<1>10. Met(o, y.c, e, e.ans, FALSE, "password")
  BY <1>6, <1>7, <1>9, AnsweredMet
<1>11. r.x = y /\ r.ok = y.m.ans /\ r.postponed = FALSE
  BY <1>1, <1>4 DEF userauth_passwd, ByAnswer, Result, mm_auth_password
<1>12. e.ans \in BOOLEAN
  BY <1>9 DEF Judged
<1> QED  BY <1>6, <1>10, <1>11, <1>12

\* userauth_none(): the monitor, which is asked only if empty passwords are permitted, counts it
LEMMA NoneMet ==
  ASSUME NEW o, NEW x, Tries(o, x, "none"), NEW r, r = userauth_none(o, x)
  PROVE  Met(o, r.x.c, r.x.m, r.ok, r.postponed, "none") /\ r.ok \in BOOLEAN
<1>1. x \in Pairs /\ x.c \in CState /\ x.m \in MState
  BY DEF Tries, Pairs
<1>2. PICK d : d = [x.c EXCEPT !.none = FALSE]
  OBVIOUS
<1>3. /\ d \in CState /\ d.status = x.c.status /\ d.attempt = x.c.attempt /\ d.none = FALSE
      /\ d.failures = x.c.failures /\ d.lists = x.c.lists /\ d.used = x.c.used
      /\ d.force = x.c.force /\ d.success = x.c.success /\ d.failures \in Nat
  BY <1>1, <1>2 DEF CState
<1>4. x.c.none /\ auth2_method_allowed(o, x.c.lists, "none")
  BY DEF Tries, authmethod_lookup
<1>5. x.m.failures <= d.failures /\ x.m.failures \in Nat
  BY <1>1, <1>3, <1>4 DEF Tries, Asking, Level, MState
<1>6. Asking(o, d, x.m)
  BY <1>3, <1>5 DEF Tries, Asking, Level, Shared
<1>7. PICK z : z = [c |-> d, m |-> x.m]
  OBVIOUS
<1>8. z \in Pairs /\ z.c = d /\ z.m = x.m
  BY <1>1, <1>3, <1>7 DEF Pairs
<1>9. z = [x EXCEPT !.c.none = FALSE]
  <2>1. z = [x EXCEPT !.c = d]
    BY <1>1, <1>7, PairExcept DEF Pairs
  <2> QED  BY <1>2, <2>1, Zenon
<1>10. d.status = "auth" /\ d.attempt # 0 /\ x.m.fatal = "none"
  BY <1>3 DEF Tries
<1>11. CASE ~(o.empty_ok /\ "password" \in o.enabled)
  <2>1. r = Result(z, FALSE)
    BY <1>9, <1>11 DEF userauth_none
  <2>2. r.x = z /\ r.ok = FALSE /\ r.postponed = FALSE
    BY <2>1 DEF Result
  <2>3. Met(o, d, x.m, FALSE, FALSE, "none")
    BY <1>1, <1>3, <1>6, <1>10, RefusedMet
  <2> QED  BY <1>8, <2>2, <2>3
<1>12. CASE o.empty_ok /\ "password" \in o.enabled
  <2>1. PICK q : q = [Req("AUTHPASSWORD") EXCEPT !.pw = "empty"]
    OBVIOUS
  <2>2. q.t = "AUTHPASSWORD" /\ q.key = NoKey /\ q.pw = "empty"
    BY <2>1 DEF Req
  <2>3. PICK e : e = Monitor(o, x.m, q)
    OBVIOUS
  <2>4. PICK y : y = Ask(o, z, q)
    OBVIOUS
  <2>5. y.m = e /\ Asked(d, y.c, e)
    <3>1. e = Monitor(o, z.m, q)
      BY <1>8, <2>3
    <3>2. y.m = e /\ Asked(z.c, y.c, e)
      BY <1>8, <2>4, <3>1, AskFields
    <3> QED  BY <1>8, <3>2
  <2>6. Due(o, d, x.m, "none")
    <3>1. PICK p \in {d.failures, d.failures + 1} : p = Paid(d, "none")
      BY <1>3 DEF Paid
    <3>2. x.m.failures + 1 <= p \/ (o.empty_ok /\ ~d.none /\ x.m.failures + 1 = p + 1)
      BY <1>3, <1>5, <1>12, <3>1
    <3> QED  BY <3>1, <3>2 DEF Due
  <2>7. Trying(o, d, x.m, "none")
    BY <1>1, <1>3, <1>4, <1>6, <1>10, <2>6 DEF Tries, Trying
  <2>8. Judging(o, x.m, "none")
    BY <2>7, TryingJudging
  <2>9. Judged(o, x.m, e, "none") /\ e.used = x.m.used
    <3>1. PICK s : s = x.m
      OBVIOUS
    <3>2. PICK method \in {"none", "password"} : method = "none"
      OBVIOUS
    <3>3. Judging(o, s, method) /\ e = Monitor(o, s, q) /\ (method = "none" => q.pw = "empty")
      BY <2>2, <2>3, <2>8, <3>1, <3>2
    <3>4. Judged(o, s, e, method) /\ e.used = s.used
      BY <1>12, <2>2, <3>3, PasswordTurn
    <3> QED  BY <3>1, <3>2, <3>4
  <2>10. Met(o, y.c, e, e.ans, FALSE, "none")
    BY <2>5, <2>7, <2>9, AnsweredMet
  <2>11. r.x = y /\ r.ok = y.m.ans /\ r.postponed = FALSE
    <3>1. r = ByAnswer(mm_auth_password(o, z, "empty"))
      BY <1>9, <1>12 DEF userauth_none
    <3> QED  BY <2>1, <2>4, <3>1 DEF ByAnswer, Result, mm_auth_password
  <2>12. e.ans \in BOOLEAN
    BY <2>9 DEF Judged
  <2> QED  BY <2>5, <2>10, <2>11, <2>12
<1> QED  BY <1>11, <1>12

\* the monitor e has taken the key of the child d, and so does z, the pair then
Recording(o, d, z, e, kind, key, r) ==
  /\ d \in CState /\ z \in Pairs /\ z.m = e /\ e.ans /\ Asked(d, z.c, e) /\ key \in Keys
  /\ e.used = d.used \cup {key} /\ r = Record(o, z, kind, key)
  /\ o \in Conf /\ AlignedX(o) /\ Known(o, z.c.force)

Recorded(o, d, e, r) ==
  Carried(o, d, r.x.c, e) /\ r.x.m = e /\ r.ok = TRUE /\ r.postponed = FALSE

\* Record(): the child takes the key over as the monitor does
LEMMA RecordCarried ==
  ASSUME NEW o, NEW d, NEW z, NEW e, NEW kind, NEW key, NEW r, Recording(o, d, z, e, kind, key, r)
  PROVE  Recorded(o, d, e, r)
<1>0. /\ d \in CState /\ z \in Pairs /\ z.m = e /\ e.ans /\ Asked(d, z.c, e) /\ key \in Keys
      /\ e.used = d.used \cup {key} /\ r = Record(o, z, kind, key)
      /\ o \in Conf /\ AlignedX(o) /\ Known(o, z.c.force)
  BY DEF Recording
<1> USE <1>0
<1>1. z.c \in CState /\ z.m \in MState
  BY DEF Pairs
<1>2. PICK U \in SUBSET Keys : U = z.c.used \cup {key}
  <2>1. z.c.used \cup {key} \in SUBSET Keys
    BY <1>1 DEF CState
  <2> QED  BY <2>1, Zenon
<1> DEFINE command == CommandOf(o, kind, key)
<1>3. PICK f \in Commands : f = merged_command(z.c.force, command)
  <2>1. z.c.force \in Commands
    BY <1>1 DEF CState
  <2> QED  BY <2>1, CommandTypes, Zenon
<1>4. PICK p \in BOOLEAN : p = merged_pty(z.c.pty, PtyOf(o, kind, key), z.c.force, command)
  <2> DEFINE permit == PtyOf(o, kind, key)
  <2>1. merged_pty(z.c.pty, permit, z.c.force, command) \in BOOLEAN
    <3> HIDE DEF permit, command
    <3> QED  BY PtyTypes, Zenon
  <2> QED  BY <2>1, Zenon
<1>5. PICK D : D = [z.c EXCEPT !.used = U, !.force = f, !.pty = p]
  OBVIOUS
<1>6. /\ D \in CState /\ D.status = z.c.status /\ D.attempt = z.c.attempt /\ D.none = z.c.none
      /\ D.success = z.c.success /\ D.failures = z.c.failures /\ D.lists = z.c.lists
      /\ D.used = U /\ D.force = f
  BY <1>1, <1>5, ZenonT(60) DEF CState
<1>7. PICK y : y = [c |-> D, m |-> z.m]
  OBVIOUS
<1>8. y = [z EXCEPT !.c = [z.c EXCEPT
             !.used = z.c.used \cup {key}, !.force = merged_command(z.c.force, command),
             !.pty = merged_pty(z.c.pty, PtyOf(o, kind, key), z.c.force, command)]]
  <2>1. y = [z EXCEPT !.c = D]
    BY <1>7, PairExcept DEF Pairs
  <2> HIDE DEF command
  <2> QED  BY <1>2, <1>3, <1>4, <1>5, <2>1, Zenon
<1>9. r = Result(y, TRUE)
  <2>1. Inconsistent(z.c.force, command) = FALSE
    BY KnownConsistent, Zenon
  <2>2. r = Result(y, ~Inconsistent(z.c.force, command))
    BY <1>8 DEF Record
  <2> QED  BY <2>1, <2>2
<1>10. r.x = y /\ r.ok = TRUE /\ r.postponed = FALSE
  BY <1>9 DEF Result
<1>11. r.x.c = D /\ r.x.m = e
  BY <1>7, <1>10
<1>12. Carried(o, d, D, e)
  <2>1. CASE e.phase = "exited"
    BY <1>6, <2>1 DEF Carried, Asked
  <2>2. CASE e.phase # "exited"
    <3>1. z.c = d
      BY <2>2 DEF Asked
    <3>2. D.used = e.used
      BY <1>2, <1>6, <3>1
    <3>3. Known(o, d.force) => Known(o, D.force)
      BY <1>3, <1>6, <3>1, KnownMerges
    <3> QED  BY <1>6, <2>2, <3>1, <3>2, <3>3 DEF Carried
  <2> QED  BY <2>1, <2>2
<1> QED  BY <1>10, <1>11, <1>12 DEF Recorded

\* a method of the child and what userauth_finish() is given of it
Meets(o, r, method) == Met(o, r.x.c, r.x.m, r.ok, r.postponed, method) /\ r.ok \in BOOLEAN

\* r comes of a key of the client, with a signature or without
Offering(o, x, kind, key, signed, good, r) ==
  /\ kind \in Kinds /\ key \in Keys /\ signed \in BOOLEAN /\ good \in BOOLEAN
  /\ Tries(o, x, KeyMethod(kind))
  /\ r = Signature(o, mm_key_allowed(o, x, kind, key), kind, key, signed, good)

\* a key is offered, and signs if the client sends a signature with it
LEMMA KeyMeets ==
  ASSUME NEW o, NEW x, NEW kind, NEW key, NEW signed, NEW good, NEW r,
         Offering(o, x, kind, key, signed, good, r)
  PROVE  Meets(o, r, KeyMethod(kind))
<1>1. /\ kind \in Kinds /\ key \in Keys /\ signed \in BOOLEAN /\ good \in BOOLEAN
      /\ Tries(o, x, KeyMethod(kind))
  BY DEF Offering
<1>2. PICK y : y = mm_key_allowed(o, x, kind, key) /\ r = Signature(o, y, kind, key, signed, good)
  BY Zenon DEF Offering
<1> USE <1>1, <1>2
<1>3. Met(o, r.x.c, r.x.m, r.ok, r.postponed, KeyMethod(kind)) /\ r.ok \in BOOLEAN
  <2>1. x \in Pairs /\ x.c \in CState /\ x.m \in MState /\ o \in Conf
    BY DEF Tries, Pairs
  <2>2. PICK method : method = KeyMethod(kind)
    OBVIOUS
  <2>3. Trying(o, x.c, x.m, method)
    <3>1. method # "none"
      BY <2>2 DEF KeyMethod
    <3> QED  BY <2>2, <3>1, TriesTrying
  <2>4. PICK q : q = [Req("KEYALLOWED") EXCEPT !.kind = kind, !.key = key]
    OBVIOUS
  <2>5. q.t = "KEYALLOWED" /\ q.kind = kind /\ q.key = key
    BY <2>4 DEF Req
  <2>6. PICK s : s = Monitor(o, x.m, q)
    OBVIOUS
  <2>7. Offered(x.m, s, kind, key)
    <3>1. PICK w \in MState : w = x.m
      BY <2>1
    <3>2. w.phase = "preauth" /\ "KEYALLOWED" \in w.permit /\ s = Monitor(o, w, q)
      BY <2>3, <2>6, <3>1 DEF Trying, Asking, MonAuth
    <3>3. Offered(w, s, q.kind, q.key)
      BY <2>1, <2>5, <3>2, KeyallowedTurn
    <3> QED  BY <2>5, <3>1, <3>3
  <2>8. /\ s \in MState /\ s.phase = "preauth" /\ s.lists = x.m.lists /\ s.used = x.m.used
        /\ s.force = x.m.force /\ s.failures = x.m.failures /\ s.fatal = x.m.fatal
        /\ s.permit = x.m.permit /\ s.ans \in BOOLEAN /\ s.kind = kind
        /\ (s.ans => s.key = key /\ s.valid)
    BY <2>3, <2>7 DEF Offered, Quiet, Trying, Asking
  <2>9. y = Ask(o, x, q)
    BY <2>4 DEF mm_key_allowed
  <2>10. y.m = s /\ y.c = x.c
    BY <2>1, <2>6, <2>8, <2>9, AskFields DEF Asked
  <2>11. y \in Pairs
    <3>1. y = [c |-> y.c, m |-> y.m]
      BY <2>9 DEF Ask, Answered
    <3> QED  BY <2>1, <2>8, <2>10, <3>1 DEF Pairs
  <2>12. Asking(o, x.c, s)
    BY <2>3, <2>8 DEF Trying, Asking, Shared, Level
  <2>13. Trying(o, x.c, s, method)
    BY <2>3, <2>8, <2>12 DEF Trying, Due
  <2>14. x.c.status = "auth" /\ x.c.attempt # 0 /\ s.fatal = "none" /\ ~x.c.success
    BY <2>13 DEF Trying, Asking
  <2>15. Met(o, x.c, s, FALSE, FALSE, method)
    BY <2>1, <2>8, <2>12, <2>14, RefusedMet
  <2>16. CASE ~signed
    <3>1. r = [x |-> y, ok |-> FALSE, postponed |-> y.m.ans]
      BY <2>16 DEF Signature
    <3>2. r.x = y /\ r.ok = FALSE /\ r.postponed = s.ans
      BY <2>10, <3>1
    <3>3. Met(o, x.c, s, FALSE, s.ans, method)
      <4>1. CASE s.ans
        BY <2>12, <2>14, <4>1 DEF Met
      <4>2. CASE ~s.ans
        <5>1. s.ans = FALSE
          BY <2>8, <4>2
        <5> QED  BY <2>15, <5>1
      <4> QED  BY <4>1, <4>2
    <3> QED  BY <2>2, <2>10, <3>2, <3>3
  <2>17. CASE signed /\ ~s.ans
    <3>1. r = Result(y, FALSE)
      BY <2>10, <2>17 DEF Signature
    <3>2. r.x = y /\ r.ok = FALSE /\ r.postponed = FALSE
      BY <3>1 DEF Result
    <3> QED  BY <2>2, <2>10, <2>15, <3>2
  <2>18. CASE signed /\ s.ans
    <3>1. PICK z : z = mm_sshkey_verify(o, y, kind, key, good)
      OBVIOUS
    <3>2. r = Record(o, z, kind, key)
      BY <2>10, <2>18, <3>1 DEF Signature
    <3>3. PICK k : k = [Req("KEYVERIFY") EXCEPT !.key = key, !.data = kind, !.good = good]
      OBVIOUS
    <3>4. k.t = "KEYVERIFY" /\ k.key = key /\ k.data = kind /\ k.good = good
      BY <3>3 DEF Req
    <3>5. z = Ask(o, y, k)
      BY <3>1, <3>3 DEF mm_sshkey_verify
    <3>6. PICK e : e = Monitor(o, s, k)
      OBVIOUS
    <3>7. z.m = e /\ Asked(x.c, z.c, e)
      <4>1. e = Monitor(o, y.m, k)
        BY <2>10, <3>6
      <4>2. z.m = e /\ Asked(y.c, z.c, e)
        BY <2>11, <3>5, <4>1, AskFields
      <4> QED  BY <2>10, <4>2
    <3>8. Judging(o, s, method)
      BY <2>13, TryingJudging
    <3>9. /\ Judged(o, s, e, method) /\ (e.ans <=> good)
          /\ e.used = IF good THEN s.used \cup {key} ELSE s.used
      <4>1. Judging(o, s, KeyMethod(kind))
        BY <2>2, <3>8
      <4>2. s.key = key /\ s.kind = kind /\ s.valid
        BY <2>8, <2>18
      <4>3. /\ Judged(o, s, e, KeyMethod(kind)) /\ (e.ans <=> good)
            /\ e.used = IF good THEN s.used \cup {key} ELSE s.used
        BY <3>4, <3>6, <4>1, <4>2, KeyverifyTurn
      <4> QED  BY <2>2, <4>3
    <3>10. e \in MState /\ e.ans \in BOOLEAN
      BY <3>9 DEF Judged
    <3>11. z \in Pairs
      <4>1. z = [c |-> z.c, m |-> z.m]
        BY <3>5 DEF Ask, Answered
      <4>2. z.c \in CState
        BY <3>7 DEF Asked
      <4> QED  BY <3>7, <3>10, <4>1, <4>2 DEF Pairs
    <3>12. CASE ~good
      <4>1. r = Result(z, FALSE)
        BY <3>2, <3>7, <3>9, <3>12 DEF Record
      <4>2. r.x = z /\ r.ok = FALSE /\ r.postponed = FALSE
        BY <4>1 DEF Result
      <4>3. Met(o, z.c, e, e.ans, FALSE, method)
        BY <2>13, <3>7, <3>9, <3>12, AnsweredMet
      <4>4. e.ans = FALSE
        BY <3>9, <3>10, <3>12
      <4> QED  BY <2>2, <3>7, <4>2, <4>3, <4>4
    <3>13. CASE good
      <4>1. e.ans /\ e.ans = TRUE
        BY <3>9, <3>10, <3>13
      <4>2. e.used = x.c.used \cup {key}
        BY <2>12, <3>9, <3>13 DEF Asking, Shared
      <4>3. PICK d \in CState : d = x.c
        BY <2>1
      <4>4. Asked(d, z.c, e) /\ e.used = d.used \cup {key} /\ Trying(o, d, s, method)
        BY <2>13, <3>7, <4>2, <4>3
      <4>5. Carried(o, d, r.x.c, e) /\ r.x.m = e /\ r.ok = TRUE /\ r.postponed = FALSE
        <5>0. o \in Conf /\ AlignedX(o) /\ Known(o, z.c.force)
          <6>1. o \in Conf /\ AlignedX(o) /\ Known(o, d.force)
            BY <4>4 DEF Trying, Asking, Shared
          <6>2. z.c.force = d.force
            BY <4>4 DEF Asked
          <6> QED  BY <6>1, <6>2
        <5>1. Recording(o, d, z, e, kind, key, r)
          BY <3>2, <3>7, <3>11, <4>1, <4>3, <4>4, <5>0 DEF Recording
        <5>2. Recorded(o, d, e, r)
          BY <5>1, RecordCarried, Zenon
        <5> QED  BY <5>2 DEF Recorded
      <4>6. Met(o, r.x.c, e, e.ans, FALSE, method)
        BY <3>9, <4>4, <4>5, JudgedMet
      <4> QED  BY <2>2, <4>1, <4>5, <4>6
    <3> QED  BY <3>12, <3>13
  <2> QED  BY <2>8, <2>16, <2>17, <2>18
<1> QED  BY <1>3 DEF Meets

\* nothing is asked
LEMMA ResultMeets ==
  ASSUME NEW o, NEW x \in Pairs, x.c.status = "auth", x.c.attempt # 0, x.m.fatal = "none",
         Asking(o, x.c, x.m), NEW method, NEW r, r = Result(x, FALSE)
  PROVE  Meets(o, r, method)
<1>1. r.x = x /\ r.ok = FALSE /\ r.postponed = FALSE
  BY DEF Result
<1>2. PICK d \in CState, s \in MState : d = x.c /\ s = x.m
  BY DEF Pairs
<1>3. d.status = "auth" /\ d.attempt # 0 /\ s.fatal = "none" /\ Asking(o, d, s)
  BY <1>2
<1>4. Met(o, d, s, FALSE, FALSE, method)
  BY <1>3, RefusedMet
<1> QED  BY <1>1, <1>2, <1>4 DEF Meets

\* Method(): whichever the client names
LEMMA MethodMeets ==
  ASSUME NEW o, NEW x, NEW a \in Attempts, Tries(o, x, a.method), NEW r, r = Method(o, x, a)
  PROVE  Meets(o, r, a.method)
<1>1. /\ a.method \in Methods /\ a.good \in BOOLEAN /\ a.pw \in Passwords /\ a.signed \in BOOLEAN
      /\ a.method \in {"publickey", "hostbased"} => a.key \in Keys
  BY DEF Attempts, Methods, Passwords
<1>2. ASSUME NEW z, z = Result(x, FALSE) PROVE Meets(o, z, a.method)
  <2>1. /\ x \in Pairs /\ x.c.status = "auth" /\ x.c.attempt # 0 /\ x.m.fatal = "none"
        /\ Asking(o, x.c, x.m)
    BY DEF Tries
  <2>2. PICK method : method = a.method
    OBVIOUS
  <2>3. Meets(o, z, method)
    BY <1>2, <2>1, ResultMeets
  <2> QED  BY <2>2, <2>3
<1>3. CASE a.method = "none"
  <2>1. Tries(o, x, "none") /\ r = userauth_none(o, x)
    BY <1>3 DEF Method
  <2>2. Met(o, r.x.c, r.x.m, r.ok, r.postponed, "none") /\ r.ok \in BOOLEAN
    BY <2>1, NoneMet
  <2> QED  BY <1>3, <2>2 DEF Meets
<1>4. CASE a.method = "password"
  <2>1. PICK pw \in Passwords : pw = a.pw
    BY <1>1
  <2>2. Tries(o, x, "password") /\ r = userauth_passwd(o, x, pw)
    BY <1>4, <2>1 DEF Method
  <2>3. Met(o, r.x.c, r.x.m, r.ok, r.postponed, "password") /\ r.ok \in BOOLEAN
    BY <2>2, PasswdMet
  <2> QED  BY <1>4, <2>3 DEF Meets
<1>5. CASE a.method = "keyboard-interactive"
  <2>1. r = Result(x, FALSE)
    BY <1>5 DEF Method, userauth_kbdint
  <2> QED  BY <1>2, <2>1
<1>6. CASE a.method = "publickey"
  <2>1. PICK key \in Keys, signed \in BOOLEAN, good \in BOOLEAN :
          key = a.key /\ signed = a.signed /\ good = a.good
    BY <1>1, <1>6
  <2>2. r = userauth_pubkey(o, x, key, signed, good)
    BY <1>6, <2>1 DEF Method
  <2>3. CASE key \in x.c.used \/ ~x.c.valid
    BY <1>2, <2>2, <2>3 DEF userauth_pubkey
  <2>4. CASE ~(key \in x.c.used \/ ~x.c.valid)
    <3>1. PICK kind \in Kinds : kind = "user"
      BY DEF Kinds
    <3>2. KeyMethod(kind) = a.method
      BY <1>6, <3>1 DEF KeyMethod
    <3>3. r = Signature(o, mm_key_allowed(o, x, kind, key), kind, key, signed, good)
      BY <2>2, <2>4, <3>1 DEF userauth_pubkey
    <3>4. Tries(o, x, KeyMethod(kind))
      BY <3>2
    <3>5. Offering(o, x, kind, key, signed, good, r)
      BY <3>3, <3>4 DEF Offering
    <3>6. Meets(o, r, KeyMethod(kind))
      BY <3>5, KeyMeets
    <3> QED  BY <3>2, <3>6
  <2> QED  BY <2>3, <2>4
<1>7. CASE a.method = "hostbased"
  <2>1. PICK key \in Keys, signed \in BOOLEAN, good \in BOOLEAN :
          key = a.key /\ signed = TRUE /\ good = a.good
    BY <1>1, <1>7
  <2>2. r = userauth_hostbased(o, x, key, good)
    BY <1>7, <2>1 DEF Method
  <2>3. CASE ~x.c.valid
    BY <1>2, <2>2, <2>3 DEF userauth_hostbased
  <2>4. CASE x.c.valid
    <3>1. PICK kind \in Kinds : kind = "host"
      BY DEF Kinds
    <3>2. KeyMethod(kind) = a.method
      BY <1>7, <3>1 DEF KeyMethod
    <3>3. r = Signature(o, mm_key_allowed(o, x, kind, key), kind, key, signed, good)
      BY <2>1, <2>2, <2>4, <3>1 DEF userauth_hostbased
    <3>4. Tries(o, x, KeyMethod(kind))
      BY <3>2
    <3>5. Offering(o, x, kind, key, signed, good, r)
      BY <3>3, <3>4 DEF Offering
    <3>6. Meets(o, r, KeyMethod(kind))
      BY <3>5, KeyMeets
    <3> QED  BY <3>2, <3>6
  <2> QED  BY <2>3, <2>4
<1> QED  BY <1>1, <1>3, <1>4, <1>5, <1>6, <1>7 DEF Methods

\* Try(): the second half of a request
LEMMA TryAgrees ==
  ASSUME NEW o \in Conf, AlignedX(o), NEW x, Early(o, x), x.c.status = "auth", x.c.attempt # 0,
         x.m.fatal = "none", Asking(o, x.c, x.m), NEW a \in Attempts, NEW y, y = Try(o, x, a)
  PROVE  AgreeX(o, y.c, y.m)
<1>1. x \in Pairs /\ x.c \in CState /\ x.m \in MState /\ MInv(o, x.m)
  BY EarlyTypes
<1>2. PICK method : method = a.method
  OBVIOUS
<1>3. PICK r : r = IF authmethod_lookup(o, x.c, method) /\ x.c.failures < o.tries
                   THEN Method(o, x, a) ELSE Result(x, FALSE)
  OBVIOUS
<1>4. y = userauth_finish(o, r, method)
  BY <1>2, <1>3 DEF Try
<1>5. r.x \in Pairs /\ Meets(o, r, method)
  <2>1. CASE authmethod_lookup(o, x.c, method) /\ x.c.failures < o.tries
    <3>1. r = Method(o, x, a)
      BY <1>3, <2>1
    <3>2. Early(o, r.x)
      BY <3>1, MethodEarly
    <3>3. x.m.failures <= o.tries
      BY <1>1 DEF MInv, Counted, Asking
    <3>4. Tries(o, x, a.method)
      BY <1>1, <1>2, <2>1, <3>3 DEF Tries
    <3>5. Meets(o, r, a.method)
      BY <3>1, <3>4, MethodMeets
    <3> QED  BY <1>2, <3>2, <3>5, EarlyTypes
  <2>2. CASE ~(authmethod_lookup(o, x.c, method) /\ x.c.failures < o.tries)
    <3>1. r = Result(x, FALSE)
      BY <1>3, <2>2
    <3>2. r.x = x
      BY <3>1 DEF Result
    <3>3. Meets(o, r, method)
      BY <1>1, <3>1, ResultMeets
    <3> QED  BY <1>1, <3>2, <3>3
  <2> QED  BY <2>1, <2>2
<1> QED  BY <1>4, <1>5, MetAgrees DEF Meets

-----------------------------------------------------------------------------
(* The first request.                                                        *)

\* the child sets the context up
Opening(o, d, s) ==
  /\ d \in CState /\ s \in MState /\ d.status = "auth" /\ d.attempt # 0 /\ ~d.success
  /\ s.phase = "preauth" /\ s.fatal = "none" /\ d.used = s.used
  /\ Known(o, d.force) /\ Known(o, s.force) /\ Level(o, d, s)

LEMMA OpeningNamed ==
  ASSUME NEW o, NEW d, NEW s, NEW e, Opening(o, d, s), Named(o, s, e)
  PROVE  Opening(o, d, e)
BY DEF Opening, Named, Level

LEMMA OpeningQuiet ==
  ASSUME NEW o, NEW d, NEW s, NEW e, Opening(o, d, s), Quiet(s, e)
  PROVE  Opening(o, d, e)
BY DEF Opening, Quiet, Level

\* a request that leaves the monitor at work leaves the child alone
LEMMA AskStays ==
  ASSUME NEW o, NEW x \in Pairs, NEW q, NEW e \in MState, e = Monitor(o, x.m, q),
         e.phase # "exited", NEW y, y = Ask(o, x, q)
  PROVE  y \in Pairs /\ y.c = x.c /\ y.m = e
<1>1. y.m = e /\ Asked(x.c, y.c, e)
  BY AskFields
<1>2. y.c = x.c /\ x.c \in CState
  BY <1>1 DEF Asked, Pairs
<1>3. y = [c |-> y.c, m |-> y.m]
  BY DEF Ask, Answered
<1> QED  BY <1>1, <1>2, <1>3 DEF Pairs

\* SetUser() changes what both do not share
LEMMA SetUserOpening ==
  ASSUME NEW o, NEW x \in Pairs, Opening(o, x.c, x.m), NEW service \in {"ssh-connection", "other"},
         NEW y, y = SetUser(x, service)
  PROVE  y \in Pairs /\ y.m = x.m /\ Opening(o, y.c, y.m)
<1>1. x.c \in CState /\ x.m \in MState
  BY DEF Pairs
<1>2. PICK v \in BOOLEAN : v = (x.m.ans /\ service = "ssh-connection")
  <2>1. (x.m.ans /\ service = "ssh-connection") \in BOOLEAN
    OBVIOUS
  <2> QED  BY <2>1, Zenon
<1>3. PICK d : d = [x.c EXCEPT !.service = service, !.valid = v]
  OBVIOUS
<1>4. /\ d \in CState /\ d.attempt = x.c.attempt /\ d.failures = x.c.failures
      /\ d.status = x.c.status /\ d.success = x.c.success /\ d.none = x.c.none
      /\ d.used = x.c.used /\ d.force = x.c.force
  BY <1>1, <1>3 DEF CState
<1>5. PICK z : z = [c |-> d, m |-> x.m]
  OBVIOUS
<1>6. z = [x EXCEPT !.c = d]
  BY <1>5, PairExcept DEF Pairs
<1>7. y = z
  BY <1>2, <1>3, <1>6, Zenon DEF SetUser
<1>8. z \in Pairs /\ z.c = d /\ z.m = x.m
  BY <1>1, <1>4, <1>5 DEF Pairs
<1>9. Opening(o, d, x.m)
  BY <1>4 DEF Opening, Level
<1> QED  BY <1>7, <1>8, <1>9

\* the child and the monitor after the first half of a request
Begun(o, y) ==
  \/ y.c.status = "dead" /\ AgreeX(o, y.c, y.m)
  \/ y.c.status = "auth" /\ y.c.attempt # 0 /\ y.m.fatal = "none" /\ Asking(o, y.c, y.m)

\* ending the connection is always a way to go on
LEMMA QuitBegun ==
  ASSUME NEW o, NEW x \in Pairs, Excused(o, x.c, x.m), NEW y, y = Quit(x)
  PROVE  Begun(o, y)
<1>1. AgreeX(o, y.c, y.m)
  BY QuitAgrees
<1>2. x.c \in CState
  BY DEF Pairs
<1>3. y.c = [x.c EXCEPT !.status = "dead"]
  BY DEF Quit
<1>4. y.c.status = "dead"
  BY <1>2, <1>3 DEF CState
<1> QED  BY <1>1, <1>4 DEF Begun

\* SetLists(): both start from the same lists
LEMMA SetListsBegun ==
  ASSUME NEW o, NEW x \in Pairs, Opening(o, x.c, x.m), NEW l \in Lists, x.m.lists = l,
         MonAuth \subseteq x.m.permit, NEW y, y = SetLists(o, x, l)
  PROVE  Begun(o, y)
<1>1. x.c \in CState /\ x.m \in MState
  BY DEF Pairs
<1>2. CASE o.lists # <<>> /\ DOMAIN l = {}
  <2>1. y = Quit(x) /\ Excused(o, x.c, x.m)
    BY <1>2 DEF SetLists, Excused, Opening
  <2> QED  BY <2>1, QuitBegun
<1>3. CASE ~(o.lists # <<>> /\ DOMAIN l = {})
  <2>1. PICK d : d = [x.c EXCEPT !.lists = l]
    OBVIOUS
  <2>2. /\ d \in CState /\ d.attempt = x.c.attempt /\ d.failures = x.c.failures
        /\ d.status = x.c.status /\ d.success = x.c.success /\ d.none = x.c.none
        /\ d.used = x.c.used /\ d.force = x.c.force /\ d.lists = l
    BY <1>1, <2>1 DEF CState
  <2>3. PICK z : z = [c |-> d, m |-> x.m]
    OBVIOUS
  <2>4. z = [x EXCEPT !.c = d]
    BY <2>3, PairExcept DEF Pairs
  <2>5. z = [x EXCEPT !.c.lists = l]
    BY <2>1, <2>4, Zenon
  <2>6. x.c.status # "dead"
    BY DEF Opening
  <2>7. y = z
    BY <1>3, <2>5, <2>6 DEF SetLists
  <2>8. Asking(o, d, x.m) /\ d.status = "auth" /\ d.attempt # 0 /\ x.m.fatal = "none"
    BY <2>2 DEF Opening, Asking, Shared, Level
  <2> QED  BY <2>3, <2>7, <2>8 DEF Begun
<1> QED  BY <1>2, <1>3

\* Setup(): the requests of the first attempt are all in turn
LEMMA SetupBegun ==
  ASSUME NEW o \in Conf, NEW x \in Pairs, Opening(o, x.c, x.m), x.m.attempt = 0,
         "PWNAM" \in x.m.permit, NEW service \in {"ssh-connection", "other"},
         NEW y, y = Setup(o, x, service)
  PROVE  Begun(o, y)
<1>1. PICK l : l = auth2_setup_methods_lists(o)
  OBVIOUS
<1>2. l \in Lists
  BY <1>1, SetupLists
<1>3. PICK k1, k2, k3 : k1 = Req("PWNAM") /\ k2 = Req("AUTHSERV") /\ k3 = Req("BANNER")
  OBVIOUS
<1>4. k1.t = "PWNAM" /\ k2.t = "AUTHSERV" /\ k3.t = "BANNER"
  BY <1>3 DEF Req
<1>5. PICK s \in MState : s = x.m
  BY DEF Pairs
<1>6. s.phase = "preauth" /\ s.attempt = 0 /\ "PWNAM" \in s.permit
  BY <1>5 DEF Opening
<1>7. PICK s1 : s1 = Monitor(o, s, k1)
  OBVIOUS
<1>8. Named(o, s, s1)
  BY <1>4, <1>6, <1>7, PwnamTurn
<1>9. PICK x1 : x1 = Ask(o, x, k1)
  OBVIOUS
<1>10. x1 \in Pairs /\ x1.c = x.c /\ x1.m = s1
  <2>1. s1 \in MState /\ s1.phase # "exited" /\ s1 = Monitor(o, x.m, k1)
    BY <1>5, <1>7, <1>8 DEF Named
  <2> QED  BY <1>9, <2>1, AskStays
<1>11. Opening(o, x1.c, x1.m)
  BY <1>5, <1>8, <1>10, OpeningNamed
<1>12. PICK x2 : x2 = SetUser(x1, service)
  OBVIOUS
<1>13. x2 \in Pairs /\ x2.m = s1 /\ Opening(o, x2.c, x2.m)
  BY <1>10, <1>11, <1>12, SetUserOpening
<1>14. PICK s2 : s2 = Monitor(o, s1, k2)
  OBVIOUS
<1>15. Quiet(s1, s2) /\ MonAuth \subseteq s2.permit /\ "BANNER" \in s2.permit
  <2>1. s1 \in MState /\ s1.phase = "preauth" /\ "AUTHSERV" \in s1.permit /\ "BANNER" \in s1.permit
    BY <1>8 DEF Named
  <2>2. PICK k \in {"MODULI", "SIGN", "AUTHSERV", "BANNER"} : k = "AUTHSERV"
    OBVIOUS
  <2>3. k2.t = k /\ k \in s1.permit
    BY <1>4, <2>1, <2>2
  <2>4. Quiet(s1, s2) /\ (k = "AUTHSERV" => s2.permit = (s1.permit \cup MonAuth) \ {"AUTHSERV"})
    BY <1>14, <2>1, <2>3, PlainTurns
  <2> QED  BY <2>1, <2>2, <2>4 DEF MonAuth
<1>16. PICK x3 : x3 = Ask(o, x2, k2)
  OBVIOUS
<1>17. s2 \in MState /\ s2.phase = "preauth" /\ s2.lists = l
  BY <1>1, <1>8, <1>15 DEF Quiet, Named
<1>18. x3 \in Pairs /\ x3.c = x2.c /\ x3.m = s2
  <2>1. s2.phase # "exited" /\ s2 = Monitor(o, x2.m, k2)
    BY <1>13, <1>14, <1>17
  <2> QED  BY <1>13, <1>16, <1>17, <2>1, AskStays
<1>19. Opening(o, x3.c, x3.m)
  BY <1>13, <1>15, <1>18, OpeningQuiet
<1>20. PICK x4 : x4 = Banner(o, x3)
  OBVIOUS
<1>21. x4 \in Pairs /\ Opening(o, x4.c, x4.m) /\ x4.m.lists = l /\ MonAuth \subseteq x4.m.permit
  <2>1. CASE ~o.banner
    <3>1. x4 = x3
      BY <1>20, <2>1 DEF Banner
    <3> QED  BY <1>15, <1>17, <1>18, <1>19, <3>1
  <2>2. CASE o.banner
    <3>1. x4 = Ask(o, x3, k3)
      BY <1>3, <1>20, <2>2 DEF Banner
    <3>2. PICK s3 : s3 = Monitor(o, s2, k3)
      OBVIOUS
    <3>3. PICK k \in {"MODULI", "SIGN", "AUTHSERV", "BANNER"} : k = "BANNER"
      OBVIOUS
    <3>4. k3.t = k /\ k \in s2.permit
      BY <1>4, <1>15, <3>3
    <3>5. Quiet(s2, s3) /\ (k = "BANNER" => s3.permit = s2.permit \ {"BANNER"})
      BY <1>17, <3>2, <3>4, PlainTurns
    <3>6. s3 \in MState /\ s3.phase # "exited" /\ s3.lists = l /\ MonAuth \subseteq s3.permit
      BY <1>15, <1>17, <3>3, <3>5 DEF Quiet, MonAuth
    <3>7. s3 = Monitor(o, x3.m, k3)
      BY <1>18, <3>2
    <3>8. x4 \in Pairs /\ x4.c = x3.c /\ x4.m = s3
      BY <1>18, <3>1, <3>6, <3>7, AskStays
    <3>9. Opening(o, x4.c, x4.m)
      BY <1>18, <1>19, <3>5, <3>8, OpeningQuiet
    <3> QED  BY <3>6, <3>8, <3>9
  <2> QED  BY <2>1, <2>2
<1>22. y = SetLists(o, x4, l)
  BY <1>1, <1>3, <1>9, <1>12, <1>16, <1>20 DEF Setup
<1> QED  BY <1>2, <1>21, <1>22, SetListsBegun

\* Begin(): the first half of a request
LEMMA BeginBegun ==
  ASSUME NEW o \in Conf, NEW x \in Pairs, x.c.status = "auth", ~x.c.success,
         AgreeX(o, x.c, x.m), NEW service \in {"ssh-connection", "other"},
         x.m.fatal = "none", NEW y, y = Begin(o, x, service)
  PROVE  Begun(o, y)
<1>1. x.c \in CState /\ x.m \in MState
  BY DEF Pairs
<1>2. x.c.attempt \in Nat /\ x.c.failures \in Nat
  BY <1>1 DEF CState
<1>3. CASE x.c.attempt >= MaxAttempts \/ (x.c.attempt > 0 /\ service # x.c.service)
  <2>1. y = Quit(x) /\ Excused(o, x.c, x.m)
    BY <1>3 DEF Begin, AgreeX
  <2> QED  BY <2>1, QuitBegun
<1>4. CASE ~(x.c.attempt >= MaxAttempts \/ (x.c.attempt > 0 /\ service # x.c.service))
  <2>1. PICK n \in Nat : n = x.c.attempt + 1
    <3>1. x.c.attempt + 1 \in Nat
      BY <1>2
    <3> QED  BY <3>1, Zenon
  <2>2. PICK d : d = [x.c EXCEPT !.attempt = n]
    OBVIOUS
  <2>3. /\ d \in CState /\ d.attempt = n /\ d.failures = x.c.failures /\ d.lists = x.c.lists
        /\ d.status = "auth" /\ d.success = x.c.success /\ d.none = x.c.none
        /\ d.used = x.c.used /\ d.force = x.c.force
    BY <1>1, <2>2 DEF CState
  <2>4. n # 0
    BY <1>2, <2>1
  <2>5. PICK z : z = [c |-> d, m |-> x.m]
    OBVIOUS
  <2>6. z \in Pairs /\ z.c = d /\ z.m = x.m
    BY <1>1, <2>3, <2>5 DEF Pairs
  <2>7. z = [x EXCEPT !.c = d]
    BY <2>5, PairExcept DEF Pairs
  <2>8. z = [x EXCEPT !.c.attempt = n]
    BY <2>2, <2>7, Zenon
  <2>9. CASE x.c.attempt = 0
    <3>1. Waiting(o, x.c, x.m)
      BY <2>9 DEF AgreeX
    <3>2. Opening(o, d, x.m) /\ x.m.attempt = 0 /\ "PWNAM" \in x.m.permit
      BY <1>1, <2>3, <2>4, <3>1 DEF Waiting, Opening, Shared, Level
    <3>3. n = 1
      BY <2>1, <2>9
    <3>4. y = Setup(o, z, service)
      BY <1>4, <2>8, <2>9, <3>3 DEF Begin
    <3>5. Opening(o, z.c, z.m) /\ z.m.attempt = 0 /\ "PWNAM" \in z.m.permit
      BY <2>6, <3>2
    <3> QED  BY <2>6, <3>4, <3>5, SetupBegun
  <2>10. CASE x.c.attempt # 0
    <3>1. z = [x EXCEPT !.c.attempt = @ + 1]
      BY <2>1, <2>8, Zenon
    <3>2. y = z
      BY <1>4, <2>10, <3>1 DEF Begin
    <3>3. Asking(o, x.c, x.m)
      BY <2>10 DEF AgreeX, LetIn
    <3>4. Asking(o, d, x.m)
      BY <2>3, <3>3 DEF Asking, Shared, Level
    <3> QED  BY <2>3, <2>4, <2>6, <3>2, <3>4 DEF Begun
  <2> QED  BY <2>9, <2>10
<1> QED  BY <1>3, <1>4

\* input_userauth_request(): both processes agree after a packet if they did before
LEMMA RequestAgrees ==
  ASSUME NEW o \in Conf, AlignedX(o), NEW x, Early(o, x), x.c.status = "auth", ~x.c.success,
         AgreeX(o, x.c, x.m), NEW service \in {"ssh-connection", "other"}, NEW a \in Attempts,
         NEW y, y = input_userauth_request(o, x, service, a)
  PROVE  AgreeX(o, y.c, y.m)
<1>1. x \in Pairs /\ x.m.phase \in {"preauth", "export", "exited"} /\ x.c.status # "dead"
  BY DEF Early
<1>2. x.m.fatal = "none"
  BY DEF AgreeX, Excused
<1>3. PICK z : z = Begin(o, x, service)
  OBVIOUS
<1>4. Begun(o, z)
  BY <1>1, <1>2, <1>3, BeginBegun
<1>5. Early(o, z)
  BY <1>1, <1>3, BeginEarly
<1>6. y = Try(o, z, a)
  BY <1>3 DEF input_userauth_request
<1>7. CASE z.c.status = "dead"
  <2>1. y = z /\ AgreeX(o, z.c, z.m)
    BY <1>4, <1>6, <1>7 DEF Try, Begun
  <2> QED  BY <2>1
<1>8. CASE z.c.status # "dead"
  <2>1. z.c.status = "auth" /\ z.c.attempt # 0 /\ z.m.fatal = "none" /\ Asking(o, z.c, z.m)
    BY <1>4, <1>8 DEF Begun
  <2> QED  BY <1>5, <1>6, <2>1, TryAgrees
<1> QED  BY <1>7, <1>8

-----------------------------------------------------------------------------
(* The actions of a child that follows its program.                          *)

\* both agree before a step of the child
Agreed == IInv /\ AlignedX(conf) /\ c.sane /\ AgreeX(conf, c, m)

LEMMA BecomesAgreed ==
  ASSUME NEW x, AgreeX(conf, x.c, x.m), Become(x)
  PROVE  AgreeX(conf, c', m')
<1>1. c' = x.c /\ m' = x.m
  BY DEF Become
<1> QED  BY <1>1

\* the key exchange lets the user come
LEMMA WaitingQuiet ==
  ASSUME NEW o, NEW d, NEW s, Waiting(o, d, s), NEW e, Quiet(s, e), "PWNAM" \in e.permit,
         NEW D, D.status = "service", D.attempt = d.attempt, D.success = d.success,
         D.failures = d.failures, D.lists = d.lists, D.used = d.used, D.none = d.none,
         D.force = d.force
  PROVE  Waiting(o, D, e)
BY DEF Waiting, Quiet, Shared, Level

LEMMA KexAgrees ==
  ASSUME Agreed, Kex
  PROVE  AgreeX(conf, c', m')
<1>1. /\ conf \in Conf /\ Pair.c = c /\ Pair.m = m /\ Pair \in Pairs /\ c \in CState /\ m \in MState
  BY PairFields DEF Agreed
<1>2. c.status = "kex" /\ Waiting(conf, c, m) /\ m.fatal = "none"
  BY DEF Kex, Agreed, AgreeX, Excused
<1>3. m.phase = "preauth" /\ "MODULI" \in m.permit /\ "SIGN" \in m.permit
  BY <1>2 DEF Waiting
<1>4. PICK o \in Conf, p \in Pairs : o = conf /\ p = Pair
  BY <1>1
<1>5. PICK k1, k2 : k1 = Req("MODULI") /\ k2 = Req("SIGN")
  OBVIOUS
<1>6. k1.t = "MODULI" /\ k2.t = "SIGN"
  BY <1>5 DEF Req
<1>7. PICK gex \in BOOLEAN :
        \E x \in {IF gex THEN Ask(conf, Pair, Req("MODULI")) ELSE Pair} :
        \E y \in {Ask(conf, x, Req("SIGN"))} :
          Become([y EXCEPT !.c.status = IF @ = "dead" THEN @ ELSE "service"])
  BY DEF Kex
<1>8. PICK x, y : /\ x = IF gex THEN Ask(o, p, k1) ELSE p
                  /\ y = Ask(o, x, k2)
                  /\ Become([y EXCEPT !.c.status = IF @ = "dead" THEN @ ELSE "service"])
  BY <1>4, <1>5, <1>7
<1>9. x \in Pairs /\ x.c = c /\ Quiet(m, x.m) /\ "SIGN" \in x.m.permit
  <2>1. CASE ~gex
    <3>1. x = p
      BY <1>8, <2>1
    <3> QED  BY <1>1, <1>3, <1>4, <3>1 DEF Quiet
  <2>2. CASE gex
    <3>1. PICK s1 : s1 = Monitor(o, m, k1)
      OBVIOUS
    <3>2. PICK k \in {"MODULI", "SIGN", "AUTHSERV", "BANNER"} : k = "MODULI"
      OBVIOUS
    <3>3. k1.t = k /\ k \in m.permit
      BY <1>3, <1>6, <3>2
    <3>4. Quiet(m, s1) /\ (k = "MODULI" => s1.permit = m.permit \ {"MODULI"})
      BY <1>1, <1>3, <3>1, <3>3, PlainTurns
    <3>5. s1 \in MState /\ s1.phase # "exited" /\ "SIGN" \in s1.permit
      BY <1>3, <3>2, <3>4 DEF Quiet
    <3>6. s1 = Monitor(o, p.m, k1) /\ x = Ask(o, p, k1)
      BY <1>1, <1>4, <1>8, <2>2, <3>1
    <3>7. x \in Pairs /\ x.c = p.c /\ x.m = s1
      BY <3>5, <3>6, AskStays
    <3> QED  BY <1>1, <1>4, <3>4, <3>5, <3>7
  <2> QED  BY <2>1, <2>2
<1>10. PICK s \in MState : s = x.m
  BY <1>9 DEF Quiet
<1>11. s.phase = "preauth" /\ "SIGN" \in s.permit
  BY <1>3, <1>9, <1>10 DEF Quiet
<1>12. PICK e : e = Monitor(o, s, k2)
  OBVIOUS
<1>13. Quiet(s, e) /\ "PWNAM" \in e.permit
  <2>1. PICK k \in {"MODULI", "SIGN", "AUTHSERV", "BANNER"} : k = "SIGN"
    OBVIOUS
  <2>2. k2.t = k /\ k \in s.permit
    BY <1>6, <1>11, <2>1
  <2>3. Quiet(s, e) /\ (k = "SIGN" => e.permit = (s.permit \cup {"PWNAM"}) \ {"SIGN"})
    BY <1>11, <1>12, <2>2, PlainTurns
  <2> QED  BY <2>1, <2>3
<1>14. y \in Pairs /\ y.c = c /\ y.m = e
  <2>1. e \in MState /\ e.phase # "exited" /\ e = Monitor(o, x.m, k2)
    BY <1>10, <1>11, <1>12, <1>13 DEF Quiet
  <2> QED  BY <1>8, <1>9, <2>1, AskStays
<1>15. Quiet(m, e)
  BY <1>9, <1>10, <1>13 DEF Quiet
<1>16. PICK d : d = [y.c EXCEPT !.status = "service"]
  OBVIOUS
<1>17. /\ d \in CState /\ d.attempt = c.attempt /\ d.failures = c.failures /\ d.lists = c.lists
       /\ d.status = "service" /\ d.success = c.success /\ d.none = c.none /\ d.used = c.used
       /\ d.force = c.force
  BY <1>1, <1>14, <1>16 DEF CState
<1>18. PICK z : z = [c |-> d, m |-> y.m]
  OBVIOUS
<1>19. z = [y EXCEPT !.c.status = IF @ = "dead" THEN @ ELSE "service"]
  <2>1. z = [y EXCEPT !.c = d]
    BY <1>14, <1>18, PairExcept DEF Pairs
  <2>2. (IF y.c.status = "dead" THEN y.c.status ELSE "service") = "service"
    BY <1>2, <1>14
  <2>3. d = [y.c EXCEPT !.status = IF y.c.status = "dead" THEN y.c.status ELSE "service"]
    BY <1>16, <2>2, Zenon
  <2>4. z = [y EXCEPT !.c = [y.c EXCEPT !.status = IF y.c.status = "dead" THEN y.c.status
                                                   ELSE "service"]]
    BY <2>1, <2>3, Zenon
  <2> QED  BY <2>4, Zenon
<1>20. Become(z)
  BY <1>8, <1>19
<1>21. Waiting(conf, d, e)
  BY <1>2, <1>13, <1>15, <1>17, WaitingQuiet
<1>22. e.fatal = "none"
  BY <1>2, <1>15 DEF Quiet
<1>23. AgreeX(conf, d, e)
  BY <1>17, <1>21, <1>22 DEF AgreeX, Excused
<1>24. AgreeX(conf, z.c, z.m)
  BY <1>14, <1>18, <1>23
<1> QED  BY <1>20, <1>24, BecomesAgreed

LEMMA QuitsAgreed ==
  ASSUME Agreed, Become(Quit(Pair))
  PROVE  AgreeX(conf, c', m')
<1>1. Pair \in Pairs /\ Pair.c = c /\ Pair.m = m
  BY PairFields DEF Agreed
<1>2. PICK p \in Pairs : p = Pair
  BY <1>1
<1>3. PICK y : y = Quit(p)
  OBVIOUS
<1>4. Excused(conf, p.c, p.m)
  BY <1>1, <1>2 DEF Agreed, AgreeX
<1>5. AgreeX(conf, y.c, y.m)
  BY <1>3, <1>4, QuitAgrees
<1>6. Become(y)
  BY <1>2, <1>3
<1> QED  BY <1>5, <1>6, BecomesAgreed

LEMMA ServiceAgrees ==
  ASSUME Agreed, input_service_request
  PROVE  AgreeX(conf, c', m')
<1>1. Pair \in Pairs /\ Pair.c = c /\ Pair.m = m /\ c \in CState
  BY PairFields DEF Agreed
<1>2. c.status = "service" /\ Waiting(conf, c, m) /\ m.fatal = "none"
  BY DEF input_service_request, Agreed, AgreeX, Excused
<1>3. PICK d : d = [c EXCEPT !.status = "auth"]
  OBVIOUS
<1>4. /\ d \in CState /\ d.attempt = c.attempt /\ d.failures = c.failures /\ d.lists = c.lists
      /\ d.status = "auth" /\ d.success = c.success /\ d.none = c.none /\ d.used = c.used
      /\ d.force = c.force
  BY <1>1, <1>3 DEF CState
<1>5. Waiting(conf, d, m) /\ d.attempt = 0
  BY <1>2, <1>4 DEF Waiting, Shared, Level
<1>6. PICK z : z = [c |-> d, m |-> Pair.m]
  OBVIOUS
<1>7. z = [Pair EXCEPT !.c.status = "auth"]
  <2>1. z = [Pair EXCEPT !.c = d]
    BY <1>1, <1>6, PairExcept DEF Pairs
  <2> QED  BY <1>1, <1>3, <2>1, Zenon
<1>8. AgreeX(conf, z.c, z.m)
  BY <1>1, <1>2, <1>4, <1>5, <1>6 DEF AgreeX, Excused
<1>9. Become(z) \/ Become(Quit(Pair))
  BY <1>7 DEF input_service_request
<1> QED  BY <1>8, <1>9, BecomesAgreed, QuitsAgreed

LEMMA UserauthAgrees ==
  ASSUME Agreed, UserauthRequest
  PROVE  AgreeX(conf, c', m')
<1>1. conf \in Conf /\ Good(conf, Pair) /\ Pair.c = c /\ Pair.m = m
  BY PairFields DEF Agreed
<1>2. c.status = "auth" /\ c.sane /\ ~c.success
  BY DEF UserauthRequest
<1>3. PICK p : p = Pair
  OBVIOUS
<1>4. p.c.status = "auth" /\ p.c.sane /\ ~p.c.success /\ AgreeX(conf, p.c, p.m) /\ Good(conf, p)
  BY <1>1, <1>2, <1>3 DEF Agreed
<1>5. Early(conf, p)
  BY <1>1, <1>4, GoodEarly
<1>6. PICK a \in Attempts, service \in {"ssh-connection", "other"} :
        Become(input_userauth_request(conf, p, service, a))
  BY <1>3 DEF UserauthRequest
<1>7. PICK x : x = input_userauth_request(conf, p, service, a)
  OBVIOUS
<1>8. AlignedX(conf)
  BY DEF Agreed
<1>9. AgreeX(conf, x.c, x.m)
  BY <1>1, <1>4, <1>5, <1>7, <1>8, RequestAgrees
<1> QED  BY <1>6, <1>7, <1>9, BecomesAgreed

\* the monitor s has given the session to the user child
Forked(s, e) ==
  /\ e \in MState /\ e.phase \in {"postauth", "direct"} /\ e.fatal = s.fatal
  /\ e.phase = "postauth" => /\ "TERM" \in e.permit
                             /\ e.pty => "PTY" \in e.permit /\ "PTYCLEANUP" \in e.permit

LEMMA KeystateTurn ==
  ASSUME NEW o, NEW s \in MState, s.phase = "export", NEW q, q.t = "KEYEXPORT",
         NEW e, e = Monitor(o, s, q)
  PROVE  Forked(s, e)
<1>1. e = mm_get_keystate(o, s, q)
  BY DEF Monitor
<1>2. CASE o.root
  <2>1. PICK P \in SUBSET ReqTypes : P = {}
    <3>1. {} \in SUBSET ReqTypes
      OBVIOUS
    <3> QED  BY <3>1, Zenon
  <2>2. e = [s EXCEPT !.phase = "direct", !.permit = P]
    BY <1>1, <1>2, <2>1 DEF mm_get_keystate
  <2> QED  BY <2>2, ZenonT(60) DEF Forked, MState
<1>3. CASE ~o.root
  <2>1. PICK P \in SUBSET ReqTypes :
          P = {"MODULI", "SIGN", "TERM"} \cup (IF s.pty THEN {"PTY", "PTYCLEANUP"} ELSE {})
    <3>1. ({"MODULI", "SIGN", "TERM"} \cup (IF s.pty THEN {"PTY", "PTYCLEANUP"} ELSE {}))
          \in SUBSET ReqTypes
      BY DEF ReqTypes
    <3> QED  BY <3>1, Zenon
  <2>2. e = [s EXCEPT !.phase = "postauth", !.permit = P]
    BY <1>1, <1>3, <2>1 DEF mm_get_keystate
  <2>3. e \in MState /\ e.phase = "postauth" /\ e.permit = P /\ e.fatal = s.fatal /\ e.pty = s.pty
    BY <2>2, ZenonT(60) DEF MState
  <2> QED  BY <2>1, <2>3 DEF Forked
<1> QED  BY <1>2, <1>3

LEMMA ExportAgrees ==
  ASSUME Agreed, Export
  PROVE  AgreeX(conf, c', m')
<1>1. /\ conf \in Conf /\ Good(conf, Pair) /\ Pair.c = c /\ Pair.m = m /\ Pair \in Pairs
      /\ c \in CState /\ m \in MState
  BY PairFields DEF Agreed
<1>2. c.status = "auth" /\ c.sane /\ c.success
  BY DEF Export
<1>3. Early(conf, Pair)
  BY <1>1, <1>2, GoodEarly
<1>4. c.ttys = {}
  BY <1>1, <1>3 DEF Early
<1>5. m.phase = "export" /\ m.fatal = "none"
  BY <1>2 DEF Agreed, AgreeX, Excused, Waiting, Asking, LetIn
<1>6. PICK q : q = Req("KEYEXPORT")
  OBVIOUS
<1>7. q.t = "KEYEXPORT"
  BY <1>6 DEF Req
<1>8. PICK x : /\ x = Ask(conf, Pair, q)
               /\ Become([x EXCEPT !.c = [x.c EXCEPT !.status = IF x.c.status = "dead" THEN "dead"
                                                                ELSE "user",
                                                     !.force = x.m.force, !.pty = x.m.pty]])
  BY <1>6 DEF Export
<1>9. PICK e : e = Monitor(conf, m, q)
  OBVIOUS
<1>10. Forked(m, e)
  BY <1>1, <1>5, <1>7, <1>9, KeystateTurn
<1>11. e \in MState /\ e.phase # "exited"
  BY <1>10 DEF Forked
<1>12. x \in Pairs /\ x.c = c /\ x.m = e
  <2>1. PICK p \in Pairs : p = Pair
    BY <1>1
  <2>2. e = Monitor(conf, p.m, q) /\ x = Ask(conf, p, q)
    BY <1>1, <1>8, <1>9, <2>1
  <2>3. x \in Pairs /\ x.c = p.c /\ x.m = e
    BY <1>11, <2>2, AskStays
  <2> QED  BY <1>1, <2>1, <2>3
<1>13. PICK f \in Commands : f = x.m.force
  BY <1>11, <1>12 DEF MState
<1>14. PICK t \in BOOLEAN : t = x.m.pty
  BY <1>11, <1>12 DEF MState
<1>15. PICK st \in {"kex", "service", "auth", "user", "dead"} :
         st = "user" /\ st = IF x.c.status = "dead" THEN "dead" ELSE "user"
  BY <1>2, <1>12
<1>16. PICK d : d = [x.c EXCEPT !.status = st, !.force = f, !.pty = t]
  OBVIOUS
<1>17. d.status = "user" /\ (d.pty <=> t) /\ d.ttys = {}
  BY <1>1, <1>4, <1>12, <1>15, <1>16 DEF CState
<1>18. PICK z : z = [c |-> d, m |-> x.m]
  OBVIOUS
<1>19. z = [x EXCEPT !.c = d]
  BY <1>12, <1>18, PairExcept DEF Pairs
<1>20. Become(z)
  BY <1>8, <1>13, <1>14, <1>15, <1>16, <1>19, Zenon
<1>21. Served(d, e)
  BY <1>10, <1>12, <1>14, <1>17 DEF Served, Forked
<1>22. e.fatal = "none"
  BY <1>5, <1>10 DEF Forked
<1>23. AgreeX(conf, d, e)
  BY <1>17, <1>21, <1>22 DEF AgreeX, Excused
<1>24. AgreeX(conf, z.c, z.m)
  BY <1>12, <1>18, <1>23
<1> QED  BY <1>20, <1>24, BecomesAgreed

\* the monitor s serves a request of the user child
LEMMA UserTurn ==
  ASSUME NEW o, NEW s \in MState, s.phase = "postauth", NEW q, q.t \in s.permit,
         q.t \in {"PTY", "PTYCLEANUP", "TERM"}, NEW e \in MState, e = Monitor(o, s, q)
  PROVE  /\ e.fatal = s.fatal
         /\ q.t # "TERM" => e.phase = "postauth" /\ e.permit = s.permit
<1>1. e = monitor_child_postauth(o, s, q)
  BY DEF Monitor
<1>2. CASE q.t = "TERM"
  <2>1. e = mm_answer_term(s)
    BY <1>1, <1>2 DEF monitor_child_postauth
  <2> QED  BY <1>2, <2>1 DEF mm_answer_term, MState
<1>3. CASE q.t = "PTYCLEANUP"
  <2>1. e = mm_answer_pty_cleanup(s, q.key)
    BY <1>1, <1>3 DEF monitor_child_postauth
  <2> QED  BY <2>1 DEF mm_answer_pty_cleanup, MState
<1>4. CASE q.t = "PTY"
  <2>1. e = mm_answer_pty(s, q.key)
    BY <1>1, <1>4 DEF monitor_child_postauth
  <2> QED  BY <2>1 DEF mm_answer_pty, MState
<1> QED  BY <1>2, <1>3, <1>4

\* the pair x of a user child that makes a request
Sends(x, q) ==
  /\ x \in Pairs /\ x.c.status = "user" /\ x.m.fatal = "none" /\ Served(x.c, x.m)
  /\ q.t \in {"PTY", "PTYCLEANUP"}
  /\ q.t = "PTY" => x.c.pty
  /\ q.t = "PTYCLEANUP" => x.c.ttys # {}

\* a request for a terminal is always permitted
LEMMA TtyTurn ==
  ASSUME NEW o \in Conf, NEW x, MInv(o, x.m), NEW q, Proper(q), Sends(x, q), NEW y, y = Ask(o, x, q)
  PROVE  y \in Pairs /\ y.c = x.c /\ y.m.fatal = "none" /\ Served(y.c, y.m)
<1>1. x \in Pairs /\ x.c \in CState /\ x.m \in MState
  BY DEF Sends, Pairs
<1>2. PICK s \in MState : s = x.m
  BY <1>1
<1>3. PICK e : e = Monitor(o, s, q)
  OBVIOUS
<1>4. MInv(o, s)
  BY <1>2
<1>5. MInv(o, e)
  BY <1>3, <1>4, MonitorKeeps
<1>6. e \in MState
  BY <1>5 DEF MInv
<1>7. /\ e.fatal = "none" /\ e.phase = s.phase /\ e.permit = s.permit
      /\ s.phase \in {"postauth", "direct"}
  <2>1. CASE s.phase = "direct"
    <3>1. e = s
      BY <1>3, <2>1 DEF Monitor
    <3> QED  BY <1>2, <2>1, <3>1 DEF Sends
  <2>2. CASE s.phase = "postauth"
    <3>1. q.t \in s.permit /\ q.t # "TERM" /\ q.t \in {"PTY", "PTYCLEANUP", "TERM"}
      BY <1>2, <2>2 DEF Sends, Served
    <3>2. e.fatal = s.fatal /\ e.phase = "postauth" /\ e.permit = s.permit
      BY <1>3, <1>6, <2>2, <3>1, UserTurn
    <3> QED  BY <1>2, <2>2, <3>2 DEF Sends
  <2> QED  BY <1>2, <2>1, <2>2 DEF Sends, Served
<1>8. y \in Pairs /\ y.c = x.c /\ y.m = e
  <2>1. e.phase # "exited" /\ e = Monitor(o, x.m, q)
    BY <1>2, <1>3, <1>7
  <2> QED  BY <1>1, <1>6, <2>1, AskStays
<1>9. Served(x.c, e)
  BY <1>2, <1>7 DEF Sends, Served
<1> QED  BY <1>7, <1>8, <1>9

LEMMA PtyReqAgrees ==
  ASSUME Agreed, PtyReq
  PROVE  AgreeX(conf, c', m')
<1>1. /\ conf \in Conf /\ Pair.c = c /\ Pair.m = m /\ Pair \in Pairs /\ c \in CState
      /\ MInv(conf, m)
  BY PairFields DEF Agreed
<1>2. c.status = "user" /\ c.pty /\ m.fatal = "none" /\ Served(c, m)
  BY DEF PtyReq, Agreed, AgreeX, Excused
<1>3. PICK tty \in (Ttys \ m.ttys) \cup {NoKey} :
        \E x \in {Ask(conf, Pair, [Req("PTY") EXCEPT !.key = tty])} :
          Become(IF x.c.status # "dead" /\ x.m.ans THEN [x EXCEPT !.c.ttys = @ \cup {tty}] ELSE x)
  BY DEF PtyReq
<1>4. PICK q : q = [Req("PTY") EXCEPT !.key = tty]
  OBVIOUS
<1>5. Proper(q) /\ q.t = "PTY"
  BY <1>4, TtyProper
<1>6. PICK p : p = Pair
  OBVIOUS
<1>7. PICK y : /\ y = Ask(conf, p, q)
               /\ Become(IF y.c.status # "dead" /\ y.m.ans THEN [y EXCEPT !.c.ttys = @ \cup {tty}]
                         ELSE y)
  BY <1>3, <1>4, <1>6
<1>8. MInv(conf, p.m) /\ Sends(p, q)
  BY <1>1, <1>2, <1>5, <1>6 DEF Sends
<1>9. y \in Pairs /\ y.c = c /\ y.m.fatal = "none" /\ Served(y.c, y.m)
  <2>1. y \in Pairs /\ y.c = p.c /\ y.m.fatal = "none" /\ Served(y.c, y.m)
    BY <1>1, <1>5, <1>7, <1>8, TtyTurn
  <2> QED  BY <1>1, <1>6, <2>1
<1>10. CASE y.m.ans
  <2>1. PICK T : T = y.c.ttys \cup {tty}
    OBVIOUS
  <2>2. PICK d : d = [y.c EXCEPT !.ttys = T]
    OBVIOUS
  <2>3. d.status = "user" /\ d.pty
    BY <1>1, <1>2, <1>9, <2>2 DEF CState
  <2>4. PICK z : z = [c |-> d, m |-> y.m]
    OBVIOUS
  <2>5. z = [y EXCEPT !.c.ttys = @ \cup {tty}]
    <3>1. z = [y EXCEPT !.c = d]
      BY <1>9, <2>4, PairExcept DEF Pairs
    <3> QED  BY <2>1, <2>2, <3>1, Zenon
  <2>6. Become(z)
    <3>1. y.c.status # "dead"
      BY <1>2, <1>9
    <3> QED  BY <1>7, <1>10, <2>5, <3>1, Zenon
  <2>7. Served(d, y.m)
    BY <1>2, <1>9, <2>3 DEF Served
  <2>8. AgreeX(conf, z.c, z.m)
    BY <1>9, <2>3, <2>4, <2>7 DEF AgreeX, Excused
  <2> QED  BY <2>6, <2>8, BecomesAgreed
<1>11. CASE ~y.m.ans
  <2>1. Become(y)
    BY <1>7, <1>11, Zenon
  <2>2. AgreeX(conf, y.c, y.m)
    BY <1>2, <1>9 DEF AgreeX, Excused
  <2> QED  BY <2>1, <2>2, BecomesAgreed
<1> QED  BY <1>10, <1>11

LEMMA PtyCleanupAgrees ==
  ASSUME Agreed, PtyCleanup
  PROVE  AgreeX(conf, c', m')
<1>1. /\ conf \in Conf /\ Pair.c = c /\ Pair.m = m /\ Pair \in Pairs /\ c \in CState
      /\ MInv(conf, m)
  BY PairFields DEF Agreed
<1>2. c.status = "user" /\ m.fatal = "none" /\ Served(c, m)
  BY DEF PtyCleanup, Agreed, AgreeX, Excused
<1>3. PICK tty \in c.ttys :
        \E x \in {Ask(conf, Pair, [Req("PTYCLEANUP") EXCEPT !.key = tty])} :
          Become([x EXCEPT !.c.ttys = @ \ {tty}])
  BY DEF PtyCleanup
<1>4. PICK q : q = [Req("PTYCLEANUP") EXCEPT !.key = tty]
  OBVIOUS
<1>5. Proper(q) /\ q.t = "PTYCLEANUP"
  <2>1. tty \in Ttys
    BY <1>1, <1>3 DEF CState
  <2> QED  BY <1>4, <2>1, TtyProper
<1>6. PICK p : p = Pair
  OBVIOUS
<1>7. PICK y : y = Ask(conf, p, q) /\ Become([y EXCEPT !.c.ttys = @ \ {tty}])
  BY <1>3, <1>4, <1>6
<1>8. MInv(conf, p.m) /\ Sends(p, q)
  BY <1>1, <1>2, <1>3, <1>5, <1>6 DEF Sends
<1>9. y \in Pairs /\ y.c = c /\ y.m.fatal = "none" /\ Served(y.c, y.m)
  <2>1. y \in Pairs /\ y.c = p.c /\ y.m.fatal = "none" /\ Served(y.c, y.m)
    BY <1>1, <1>5, <1>7, <1>8, TtyTurn
  <2> QED  BY <1>1, <1>6, <2>1
<1>10. PICK T : T = y.c.ttys \ {tty}
  OBVIOUS
<1>11. PICK d : d = [y.c EXCEPT !.ttys = T]
  OBVIOUS
<1>12. d.status = "user" /\ d.pty = c.pty /\ d.ttys = T
  BY <1>1, <1>2, <1>9, <1>11 DEF CState
<1>13. PICK z : z = [c |-> d, m |-> y.m]
  OBVIOUS
<1>14. z = [y EXCEPT !.c.ttys = @ \ {tty}]
  <2>1. z = [y EXCEPT !.c = d]
    BY <1>9, <1>13, PairExcept DEF Pairs
  <2> QED  BY <1>10, <1>11, <2>1, Zenon
<1>15. Become(z)
  BY <1>7, <1>14
<1>16. Served(d, y.m)
  BY <1>3, <1>9, <1>12 DEF Served
<1>17. AgreeX(conf, z.c, z.m)
  BY <1>9, <1>12, <1>13, <1>16 DEF AgreeX, Excused
<1> QED  BY <1>15, <1>17, BecomesAgreed

LEMMA TerminateAgrees ==
  ASSUME Agreed, Terminate
  PROVE  AgreeX(conf, c', m')
<1>1. /\ conf \in Conf /\ Pair.c = c /\ Pair.m = m /\ Pair \in Pairs /\ c \in CState
      /\ MInv(conf, m) /\ Bounded(conf, c) /\ m \in MState
  BY PairFields DEF Agreed
<1>2. c.status = "user" /\ m.phase = "postauth" /\ m.fatal = "none" /\ Served(c, m)
  BY DEF Terminate, Agreed, AgreeX, Excused
<1>3. PICK q : q = Req("TERM")
  OBVIOUS
<1>4. Proper(q) /\ q.t = "TERM"
  <2>1. "TERM" \in ReqTypes \ {"KEYALLOWED", "KEYVERIFY"}
    BY DEF ReqTypes
  <2> QED  BY <1>3, <2>1, PlainProper
<1>5. PICK p : p = Pair
  OBVIOUS
<1>6. PICK y : y = Ask(conf, p, q) /\ Become([y EXCEPT !.c.status = "dead"])
  BY <1>3, <1>5 DEF Terminate
<1>7. y \in Pairs /\ MInv(conf, y.m) /\ y.m = Monitor(conf, m, q)
  <2>1. p \in Pairs /\ MInv(conf, p.m) /\ Bounded(conf, p.c) /\ p.m = m
    BY <1>1, <1>5
  <2>2. y \in Pairs /\ MInv(conf, y.m) /\ y.m = Monitor(conf, p.m, q)
    BY <1>1, <1>4, <1>6, <2>1, AskPair
  <2> QED  BY <2>1, <2>2
<1>8. PICK e \in MState : e = y.m
  BY <1>7 DEF MInv
<1>9. e.fatal = "none"
  <2>1. q.t \in m.permit /\ q.t \in {"PTY", "PTYCLEANUP", "TERM"} /\ e = Monitor(conf, m, q)
    BY <1>2, <1>4, <1>7, <1>8 DEF Served
  <2>2. e.fatal = m.fatal
    BY <1>1, <1>2, <2>1, UserTurn
  <2> QED  BY <1>2, <2>2
<1>10. PICK d : d = [y.c EXCEPT !.status = "dead"]
  OBVIOUS
<1>11. d.status = "dead"
  BY <1>7, <1>10 DEF Pairs, CState
<1>12. PICK z : z = [c |-> d, m |-> y.m]
  OBVIOUS
<1>13. z = [y EXCEPT !.c.status = "dead"]
  <2>1. z = [y EXCEPT !.c = d]
    BY <1>7, <1>12, PairExcept DEF Pairs
  <2> QED  BY <1>10, <2>1, Zenon
<1>14. AgreeX(conf, z.c, z.m)
  BY <1>8, <1>9, <1>11, <1>12 DEF AgreeX, Excused
<1>15. Become(z)
  BY <1>6, <1>13
<1> QED  BY <1>14, <1>15, BecomesAgreed

\* a child that has left its program does not come back to it
LEMMA StaysFaulty ==
  ASSUME IInv, BecomesFaulty \/ Stray
  PROVE  ~c'.sane
<1>1. /\ conf \in Conf /\ Pair.c = c /\ Pair.m = m /\ Pair \in Pairs /\ c \in CState
      /\ MInv(conf, m) /\ Bounded(conf, c)
  BY PairFields
<1>2. CASE BecomesFaulty
  <2>1. PICK d : d = [c EXCEPT !.sane = FALSE]
    OBVIOUS
  <2>2. ~d.sane
    BY <1>1, <2>1 DEF CState
  <2>3. PICK z : z = [c |-> d, m |-> Pair.m]
    OBVIOUS
  <2>4. z = [Pair EXCEPT !.c = d]
    BY <1>1, <2>3, PairExcept DEF Pairs
  <2>5. z = [Pair EXCEPT !.c.sane = FALSE]
    BY <1>1, <2>1, <2>4, Zenon
  <2>6. Become(z)
    BY <1>2, <2>5 DEF BecomesFaulty
  <2> QED  BY <2>2, <2>3, <2>6 DEF Become
<1>3. CASE Stray
  <2>1. PICK q : q \in Strays /\ Become(Ask(conf, Pair, q))
    BY <1>3, Zenon DEF Stray
  <2>2. Proper(q)
    BY <2>1, StrayProper
  <2>3. ~c.sane
    BY <1>3, Zenon DEF Stray
  <2>4. PICK p : p = Pair
    OBVIOUS
  <2>5. PICK y : y = Ask(conf, p, q)
    OBVIOUS
  <2>6. p \in Pairs /\ MInv(conf, p.m) /\ Bounded(conf, p.c) /\ ~p.c.sane
    BY <1>1, <2>3, <2>4
  <2>7. y.c.sane = p.c.sane
    BY <1>1, <2>2, <2>5, <2>6, AskPair
  <2>8. c' = y.c
    BY <2>1, <2>4, <2>5 DEF Become
  <2> QED  BY <2>6, <2>7, <2>8
<1> QED  BY <1>2, <1>3

LEMMA InitAgrees ==
  ASSUME Init
  PROVE  Agree
<1>1. c.status = "kex" /\ m.fatal = "none"
  BY DEF Init, privsep_preauth_child, monitor_child_preauth_begin
<1>2. Waiting(conf, c, m)
  BY DEF Init, privsep_preauth_child, monitor_child_preauth_begin, Waiting, Shared, Level, Known
<1> QED  BY <1>1, <1>2 DEF Agree, AgreeX, Excused

\* every step of the program keeps both in step
LEMMA NextAgrees ==
  ASSUME IInv, Agree, [Next]_vars
  PROVE  Agree'
<1>1. CASE UNCHANGED vars
  <2>1. c' = c /\ m' = m /\ conf' = conf
    BY <1>1 DEF vars
  <2> QED  BY <2>1 DEF Agree, Aligned
<1>2. CASE BecomesFaulty \/ Stray
  BY <1>2, StaysFaulty DEF Agree
<1>3. CASE Next /\ ~(BecomesFaulty \/ Stray)
  <2>1. conf' = conf
    BY <1>3 DEF Next, Kex, input_service_request, UserauthRequest, Export, PtyReq, PtyCleanup,
                Terminate, ClientGone, GraceAlarm, Become
  <2>2. c'.sane => c.sane
    <3>1. CASE GraceAlarm
      <4>1. c' = [c EXCEPT !.status = "dead"]
        BY <3>1 DEF GraceAlarm, Become, Quit, Pair
      <4>2. c \in CState
        BY PairFields
      <4> QED  BY <4>1, <4>2 DEF CState
    <3>2. CASE ~GraceAlarm
      BY <1>3, <3>2 DEF Next, Kex, input_service_request, UserauthRequest, Export, PtyReq,
                        PtyCleanup, Terminate, ClientGone
    <3> QED  BY <3>1, <3>2
  <2> SUFFICES ASSUME Aligned, c.sane PROVE AgreeX(conf, c', m')
    <3>1. Aligned' <=> Aligned
      BY <2>1 DEF Aligned
    <3> QED  BY <2>1, <2>2, <3>1 DEF Agree
  <2>3. AlignedX(conf)
    BY DEF Aligned, AlignedX
  <2>4. Agreed
    BY <2>3 DEF Agree, Agreed
  <2>5. CASE Kex
    BY <2>4, <2>5, KexAgrees
  <2>6. CASE input_service_request
    BY <2>4, <2>6, ServiceAgrees
  <2>7. CASE UserauthRequest
    BY <2>4, <2>7, UserauthAgrees
  <2>8. CASE Export
    BY <2>4, <2>8, ExportAgrees
  <2>9. CASE PtyReq
    BY <2>4, <2>9, PtyReqAgrees
  <2>10. CASE PtyCleanup
    BY <2>4, <2>10, PtyCleanupAgrees
  <2>11. CASE Terminate
    BY <2>4, <2>11, TerminateAgrees
  <2>12. CASE ClientGone \/ GraceAlarm
    <3>1. Become(Quit(Pair))
      BY <2>12 DEF ClientGone, GraceAlarm
    <3> QED  BY <2>4, <3>1, QuitsAgreed
  <2> QED  BY <1>3, <2>5, <2>6, <2>7, <2>8, <2>9, <2>10, <2>11, <2>12, ZenonT(60) DEF Next
<1> QED  BY <1>1, <1>2, <1>3

LEMMA InStep == Spec => []Agree
<1>1. Init => Agree
  BY InitAgrees
<1>2. IInv /\ Agree /\ [Next]_vars => Agree'
  BY NextAgrees
<1> QED  BY <1>1, <1>2, Invariant, PTL DEF Spec

-----------------------------------------------------------------------------
(* The results.                                                             *)

\* The records of child and monitor stay what they are declared to be; the counts of attempts,
\* failures and terminals stay within their limits (auth.c, auth2.c, monitor.c).
THEOREM TypeCorrect == Spec => []TypeOK
<1>1. IInv => TypeOK
  <2> SUFFICES ASSUME IInv PROVE TypeOK
    OBVIOUS
  <2>1. /\ conf \in Conf /\ c \in CState /\ m \in MState /\ MInv(conf, m) /\ Bounded(conf, c)
    BY PairFields
  <2>2. conf.tries \in Nat
    BY <2>1 DEF Conf
  <2>3. /\ c.status \in {"kex", "service", "auth", "user", "dead"} /\ c.used \subseteq Keys
        /\ c.ttys \subseteq Ttys /\ c.attempt \in Nat /\ c.failures \in Nat
    BY <2>1 DEF CState
  <2>4. c.attempt \in 0..MaxAttempts /\ c.failures \in 0..(conf.tries + 1)
    BY <2>1, <2>2, <2>3, AuthAssumption DEF Bounded
  <2>5. /\ m.phase \in {"preauth", "export", "postauth", "direct", "exited"}
        /\ m.used \subseteq Keys /\ m.key \in Keys \cup {NoKey} /\ m.ttys \subseteq Ttys
        /\ m.attempt \in Nat /\ m.failures \in Nat
    BY <2>1 DEF MState
  <2>6. /\ m.attempt \in 0..1 /\ m.failures \in 0..(conf.tries + 1)
        /\ Cardinality(m.ttys) <= MaxSessions
    BY <2>1, <2>2, <2>5 DEF MInv, Counted, Held
  <2> QED  BY <2>1, <2>3, <2>4, <2>5, <2>6 DEF TypeOK
<1> QED  BY <1>1, Invariant, PTL

\* The monitor takes a user in only if the account exists and it has itself verified all the
\* methods of one list of AuthenticationMethods in their order, no key twice, the last of them
\* one that root may use: for every configuration, and for a child that sends anything
\* (monitor_child_preauth()).
THEOREM LoginsAreEarned == Spec => []LoginEarned
<1>1. IInv => LoginEarned
  <2> SUFFICES ASSUME IInv, m.phase \in {"export", "postauth", "direct"}
               PROVE  Entitled(conf, m)
    BY DEF LoginEarned, Entitled
  <2>1. MInv(conf, m)
    BY PairFields
  <2> QED  BY <2>1 DEF MInv
<1> QED  BY <1>1, Invariant, PTL

\* A monitor that is gone has released every terminal, whatever ended it; until then a child
\* that follows its program and the monitor agree which terminals are in use
\* (mm_answer_pty(), mm_answer_term(), cleanup_exit()).
THEOREM TerminalsReleased == Spec => []TtysReleased
<1>1. IInv => TtysReleased
  <2> SUFFICES ASSUME IInv PROVE TtysReleased
    OBVIOUS
  <2>1. MInv(conf, m) /\ Good(conf, Pair) /\ Pair.c = c /\ Pair.m = m
    BY PairFields
  <2>2. m.phase = "exited" => m.ttys = {}
    BY <2>1 DEF MInv, Held
  <2>3. c.sane /\ m.phase = "postauth" => c.ttys = m.ttys
    BY <2>1 DEF Good, Tie
  <2> QED  BY <2>2, <2>3 DEF TtysReleased
<1> QED  BY <1>1, Invariant, PTL

\* Between two packets the child and the monitor, who each keep an Authctxt of their own and
\* update it separately, agree on the verdict, on the lists of AuthenticationMethods that are
\* left and on the keys that were used: for every configuration that makes both look at root
\* and at empty passwords alike, every order of methods and any number of attempts
\* (userauth_finish() against monitor_child_preauth()).
THEOREM VerdictsAgree == Spec => []SameVerdict
<1>1. IInv /\ Agree => SameVerdict
  <2> SUFFICES ASSUME Agree, Aligned, c.sane, c.status = "auth"
               PROVE  (c.success <=> m.phase = "export") /\ c.lists = m.lists /\ c.used = m.used
    BY DEF SameVerdict
  <2>1. Waiting(conf, c, m) \/ Asking(conf, c, m) \/ LetIn(conf, c, m)
    BY DEF Agree, AgreeX
  <2> QED  BY <2>1 DEF Waiting, Asking, LetIn, Shared
<1> QED  BY <1>1, Invariant, InStep, PTL

\* The monitor never takes a request of a child that follows its program for an attack, but for
\* the one attempt too many that it counts when empty passwords are permitted, and that only in
\* the attempt after which the child would have ended the connection itself (monitor_read(),
\* "Shouldn't happen" in monitor_child_preauth()).
THEOREM ChildrenTrusted == Spec => []MonitorTrusts
<1>1. Agree => MonitorTrusts
  BY DEF Agree, AgreeX, Excused, MonitorTrusts
<1> QED  BY <1>1, InStep, PTL

=============================================================================
