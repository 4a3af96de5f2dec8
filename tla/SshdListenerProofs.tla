------------------------- MODULE SshdListenerProofs -------------------------
(***************************************************************************)
(* Proofs about the listening sshd, for any number of connections, any     *)
(* limits and any signals: the type invariant, that the counters are       *)
(* exact, that a restart leaves no child behind that still needs the       *)
(* listener, and that PerSourceMaxStartups is honoured for the connections *)
(* that srclimit.c counts.                                                 *)
(***************************************************************************)
EXTENDS SshdListener, FiniteSetTheorems, TLAPS

(* The slots with a pipe, and those whose child has still to report. *)
Occupied == {i \in Slots : pipes[i] # NoConn}
Awaited == {i \in Slots : pipes[i] # NoConn /\ flags[i]}

Served == {"forked", "closed", "ready", "auth", "gone"}
Entry == {NoEntry} \cup [id : Slots, addr : {Source[c] : c \in Conns}]

(* The types of everything but the counters. *)
Shape ==
  /\ pc \in {"top", "poll", "accept", "exec", "exit"}
  /\ pipes \in [Slots -> Conns \cup {NoConn}] /\ flags \in [Slots -> BOOLEAN]
  /\ srcs \in [Slots -> Entry]
  /\ uncounted \subseteq Conns /\ lameduck \in BOOLEAN /\ open \in BOOLEAN
  /\ pending \subseteq Signals /\ received \subseteq Signals /\ backlog \in Seq(Conns)
  /\ child \in [Conns -> {"new", "queued", "refused", "auth", "gone"} \cup Unauthenticated]
  /\ byte \subseteq Conns /\ hups \in 0..MaxHups

(* Connections that wait for accept() wait once and have no child yet. *)
Waiting ==
  /\ \A k \in DOMAIN backlog : child[backlog[k]] = "queued"
  /\ \A k, l \in DOMAIN backlog : backlog[k] = backlog[l] => k = l
  /\ pc = "accept" => backlog # <<>>

(* A pipe belongs to one child and a child to one pipe. *)
OnePipe ==
  /\ \A i \in Slots : pipes[i] # NoConn => child[pipes[i]] \in Served
  /\ \A i, j \in Slots : pipes[i] # NoConn /\ pipes[i] = pipes[j] => i = j

(* A child that has not reported is one that the listener waits for. *)
Expected ==
  /\ \A c \in byte : child[c] \in {"ready", "auth", "gone"}
  /\ \A c \in Conns : child[c] \in {"forked", "closed"} => \E i \in Slots : pipes[i] = c /\ flags[i]

Counts == startups = Cardinality(Occupied) /\ listening = Cardinality(Awaited)

(* Every pipe of a counted child has its own entry in srclimit.c, with the *)
(* child's address; entries that a failed socketpair() leaves may be there *)
(* as well.                                                                *)
Covered ==
  \A i \in Slots : pipes[i] # NoConn /\ pipes[i] \notin uncounted =>
    \E j \in Slots : srcs[j].id = i /\ srcs[j].addr = Source[pipes[i]]

FromSource(a) == {i \in Slots : srcs[i].addr = a}
Bounded == \A c \in Conns : Cardinality(FromSource(Source[c])) <= PerSource

IInv == Shape /\ Waiting /\ OnePipe /\ Expected /\ RestartSafe /\ Counts /\ Covered /\ Bounded

-----------------------------------------------------------------------------
LEMMA MinIsLeast ==
  ASSUME NEW S, S \subseteq Nat, S # {}
  PROVE  Min(S) \in S
<1>1. \E x \in S : \A y \in S : ~(<<y, x>> \in OpToRel(<, Nat))
  BY NatLessThanWellFounded, WFMin, Zenon
<1>2. PICK x \in S : \A y \in S : ~(<<y, x>> \in OpToRel(<, Nat)) BY <1>1, Zenon
<1>3. \A y \in S : x <= y
  <2>1. ASSUME NEW y \in S PROVE x <= y
    <3>1. ~(y < x) BY <1>2 DEF OpToRel
    <3> QED BY <3>1
  <2> QED BY <2>1
<1> QED BY <1>3 DEF Min

LEMMA SlotsFinite ==
  /\ Slots \subseteq Nat /\ 0 \notin Slots /\ IsFiniteSet(Slots) /\ Cardinality(Slots) = MaxStartups
  /\ \A S \in SUBSET Slots : /\ IsFiniteSet(S) /\ Cardinality(S) \in Nat
                             /\ Cardinality(S) <= MaxStartups
                             /\ Cardinality(S) = MaxStartups => S = Slots
<1>1. Slots \subseteq Nat /\ 0 \notin Slots BY ListenerAssumption DEF Slots
<1>2. IsFiniteSet(Slots) /\ Cardinality(Slots) = MaxStartups
  BY ListenerAssumption, FS_Interval DEF Slots
<1>3. ASSUME NEW S \in SUBSET Slots
      PROVE  /\ IsFiniteSet(S) /\ Cardinality(S) \in Nat /\ Cardinality(S) <= MaxStartups
             /\ Cardinality(S) = MaxStartups => S = Slots
  BY <1>2, FS_Subset, FS_CardinalityType
<1> QED BY <1>1, <1>2, <1>3

(* drop_connection() lets a connection pass only when a slot is free, and  *)
(* counts it only when an entry is, so that both loops that look for one   *)
(* find it.                                                                *)
LEMMA RoomForOne ==
  ASSUME Shape, Counts, FALSE \in should_drop_connection(startups)
  PROVE  FreePipe \in Slots /\ pipes[FreePipe] = NoConn
<1>1. startups < MaxStartups
  <2>1. startups \in Nat BY SlotsFinite DEF Counts, Occupied
  <2>2. SUFFICES ASSUME startups >= MaxStartups PROVE FALSE BY <2>1, ListenerAssumption
  <2>3. ~(startups < Begin) BY <2>1, <2>2, ListenerAssumption
  <2>4. should_drop_connection(startups) = {TRUE} BY <2>2, <2>3 DEF should_drop_connection
  <2> QED BY <2>4
<1>2. {i \in Slots : pipes[i] = NoConn} # {}
  <2>1. SUFFICES ASSUME {i \in Slots : pipes[i] = NoConn} = {} PROVE FALSE OBVIOUS
  <2>2. Occupied = Slots BY <2>1 DEF Occupied
  <2> QED BY <1>1, <2>2, SlotsFinite, ListenerAssumption DEF Counts
<1>3. FreePipe \in {i \in Slots : pipes[i] = NoConn}
  <2> DEFINE S == {i \in Slots : pipes[i] = NoConn}
  <2>1. S \subseteq Nat BY SlotsFinite
  <2>2. Min(S) \in S BY <1>2, <2>1, MinIsLeast
  <2> QED BY <2>2 DEF FreePipe
<1> QED BY <1>3

LEMMA RoomForEntry ==
  ASSUME Unused # {}
  PROVE  Min(Unused) \in Slots /\ srcs[Min(Unused)] = NoEntry
<1>1. Unused \subseteq Nat BY SlotsFinite DEF Unused
<1>2. Min(Unused) \in Unused BY <1>1, MinIsLeast
<1> QED BY <1>2 DEF Unused

LEMMA BacklogParts ==
  ASSUME Shape, Waiting, backlog # <<>>
  PROVE  /\ Head(backlog) \in Conns /\ child[Head(backlog)] = "queued" /\ Tail(backlog) \in Seq(Conns)
         /\ \A k \in DOMAIN Tail(backlog) : /\ k + 1 \in DOMAIN backlog
                                              /\ Tail(backlog)[k] = backlog[k + 1]
                                              /\ Tail(backlog)[k] # Head(backlog)
<1>1. backlog \in Seq(Conns) /\ Len(backlog) \in Nat /\ Len(backlog) > 0 BY DEF Shape
<1>2. Head(backlog) = backlog[1] /\ 1 \in DOMAIN backlog BY <1>1
<1>3. ASSUME NEW k \in DOMAIN Tail(backlog)
      PROVE  k + 1 \in DOMAIN backlog /\ Tail(backlog)[k] = backlog[k + 1] /\ k \in Nat /\ k + 1 # 1
  BY <1>1
<1> QED BY <1>1, <1>2, <1>3 DEF Waiting

-----------------------------------------------------------------------------
LEMMA NextShape == ASSUME IInv, [Next]_vars PROVE Shape'
<1> USE ListenerAssumption DEF IInv
<1>1. CASE Top
  <2>1. lameduck' \in BOOLEAN /\ open' \in BOOLEAN
    BY <1>1, Zenon DEF Top, close_listen_socks, Shape
  <2>0. backlog' \in Seq(Conns) /\ pc' \in {"top", "poll", "accept", "exec", "exit"}
    <3>1. backlog' = <<>> \/ backlog' = backlog BY <1>1, Zenon DEF Top, close_listen_socks
    <3>2. pc' = "exec" \/ pc' = "exit" \/ pc' = "poll" BY <1>1, Zenon DEF Top
    <3>3. backlog \in Seq(Conns) /\ <<>> \in Seq(Conns) BY DEF Shape
    <3> QED BY <3>1, <3>2, <3>3
  <2>2. child' \in [Conns -> {"new", "queued", "refused", "auth", "gone"} \cup Unauthenticated]
    BY <1>1 DEF Top, close_listen_socks, Shape
  <2> QED BY <1>1, <2>0, <2>1, <2>2 DEF Top, Shape, tables
<1>2. CASE Exec
  <2>1. Free \in [Slots -> Conns \cup {NoConn}] /\ Unset \in [Slots -> BOOLEAN]
        /\ [i \in Slots |-> NoEntry] \in [Slots -> Entry]
    BY DEF Free, Unset, Entry
  <2> QED BY <1>2, <2>1 DEF Exec, Shape, tables
<1>3. CASE Poll
  <2>1. pipes' \in [Slots -> Conns \cup {NoConn}] /\ flags' \in [Slots -> BOOLEAN] BY <1>3 DEF Poll, Shape
  <2>2. srcs' \in [Slots -> Entry] BY <1>3 DEF Poll, Shape, srclimit_done, Entry
  <2>3. pc' \in {"top", "accept"} BY <1>3 DEF Poll
  <2> QED BY <1>3, <2>1, <2>2, <2>3 DEF Poll, Shape
<1>4. CASE PollInterrupted BY <1>4 DEF PollInterrupted, Shape, tables
<1>5. CASE Accept
  <2>1. CASE UNCHANGED <<backlog, child, tables>> BY <1>5, <2>1 DEF Accept, Shape, tables
  <2>2. ASSUME backlog' = Tail(backlog), NEW c, c = Head(backlog), Refuse(c) PROVE Shape'
    <3>1. c \in Conns /\ Tail(backlog) \in Seq(Conns)
      BY <1>5, <2>2, BacklogParts DEF Accept, Waiting
    <3>2. child' \in [Conns -> {"new", "queued", "refused", "auth", "gone"} \cup Unauthenticated]
      BY <2>2, <3>1 DEF Refuse, Shape
    <3> QED BY <1>5, <2>2, <3>1, <3>2 DEF Accept, Shape, tables, Refuse
  <2>3. ASSUME backlog' = Tail(backlog), NEW c, c = Head(backlog),
               FALSE \in should_drop_connection(startups), srclimit_check_allow(c),
               Fork(c) \/ NoSocketpair(c)
        PROVE  Shape'
    <3>1. c \in Conns /\ Tail(backlog) \in Seq(Conns)
      BY <1>5, <2>3, BacklogParts DEF Accept, Waiting
    <3>2. FreePipe \in Slots BY <2>3, RoomForOne
    <3>3. child' \in [Conns -> {"new", "queued", "refused", "auth", "gone"} \cup Unauthenticated]
      BY <2>3, <3>1 DEF Fork, NoSocketpair, Shape, Unauthenticated
    <3>4. srcs' \in [Slots -> Entry] /\ uncounted' \subseteq Conns
      <4>1. CASE AllowUncounted(c) BY <3>1, <4>1 DEF AllowUncounted, Shape
      <4>2. CASE AllowCounted(c)
        <5>1. Min(Unused) \in Slots BY <4>2, RoomForEntry DEF AllowCounted
        <5> QED BY <3>1, <3>2, <4>2, <5>1 DEF AllowCounted, Shape, Entry
      <4> QED BY <2>3, <4>1, <4>2 DEF srclimit_check_allow
    <3>5. pipes' \in [Slots -> Conns \cup {NoConn}]
      <4>1. pipes \in [Slots -> Conns \cup {NoConn}] BY DEF Shape
      <4>2. CASE Fork(c) BY <3>1, <4>1, <4>2 DEF Fork
      <4>3. CASE NoSocketpair(c) BY <4>1, <4>3 DEF NoSocketpair
      <4> QED BY <2>3, <4>2, <4>3
    <3>6. flags' \in [Slots -> BOOLEAN]
      <4>1. flags \in [Slots -> BOOLEAN] BY DEF Shape
      <4>2. CASE Fork(c) BY <4>1, <4>2 DEF Fork
      <4>3. CASE NoSocketpair(c) BY <4>1, <4>3 DEF NoSocketpair
      <4> QED BY <2>3, <4>2, <4>3
    <3> QED BY <1>5, <2>3, <3>1, <3>3, <3>4, <3>5, <3>6 DEF Accept, Shape
  <2> QED BY <1>5, <2>1, <2>2, <2>3 DEF Accept
<1>6. ASSUME NEW c \in Conns, Connect(c) PROVE Shape'
  <2>1. backlog' \in Seq(Conns)
    <3>1. backlog' = Append(backlog, c) \/ backlog' = backlog BY <1>6, Zenon DEF Connect
    <3>2. backlog \in Seq(Conns) BY DEF Shape
    <3>3. Append(backlog, c) \in Seq(Conns) BY <3>2
    <3> QED BY <3>1, <3>2, <3>3, Zenon
  <2>2. child' \in [Conns -> {"new", "queued", "refused", "auth", "gone"} \cup Unauthenticated]
    BY <1>6 DEF Connect, Shape
  <2> QED BY <1>6, <2>1, <2>2 DEF Connect, Shape, tables
<1>7. ASSUME NEW c \in Conns,
             ChildCloses(c) \/ ChildReports(c) \/ Authenticate(c) \/ GiveUp(c) \/ Crash(c)
      PROVE  Shape'
  <2>1. \E from, to \in Unauthenticated \cup {"auth", "gone"} : Step(c, from, to)
    BY <1>7, Zenon DEF ChildCloses, ChildReports, Authenticate, GiveUp, Crash, Unauthenticated
  <2>2. byte' \subseteq Conns
    <3>1. byte' = byte \/ byte' = byte \cup {c}
      BY <1>7, Zenon DEF ChildCloses, ChildReports, Authenticate, GiveUp, Crash
    <3> QED BY <3>1 DEF Shape
  <2>3. child' \in [Conns -> {"new", "queued", "refused", "auth", "gone"} \cup Unauthenticated]
    BY <2>1 DEF Step, Shape
  <2>4. UNCHANGED <<pc, tables, lameduck, open, pending, received, backlog, hups>>
    BY <2>1 DEF Step
  <2> QED BY <2>2, <2>3, <2>4 DEF Shape, tables
<1>8. ASSUME NEW s \in Signals, Signal(s) PROVE Shape'
  <2>1. UNCHANGED <<pc, tables, lameduck, open, backlog, child, byte>>
    BY <1>8 DEF Signal
  <2>2. pending' \subseteq Signals /\ received' \subseteq Signals
    <3>1. pending' \in {pending, pending \cup {s}} /\ received' \in {received, received \cup {s}}
      BY <1>8 DEF Signal
    <3> QED  BY <3>1 DEF Shape
  <2>3. hups' \in 0..MaxHups
    <3>1. hups \in 0..MaxHups /\ MaxHups \in Nat
      BY DEF Shape
    <3>2. hups' = hups \/ (hups' = hups + 1 /\ hups < MaxHups)
      BY <1>8 DEF Signal
    <3> QED  BY <3>1, <3>2
  <2> QED  BY <2>1, <2>2, <2>3 DEF Shape, tables
<1>9. CASE UNCHANGED vars BY <1>9 DEF vars, tables, Shape
<1> QED BY <1>1, <1>2, <1>3, <1>4, <1>5, <1>6, <1>7, <1>8, <1>9 DEF Next, Listener

(* What accept() does with a connection: it takes the first of the backlog *)
(* and refuses it, or allows it and forks, or allows it in vain.           *)
LEMMA AcceptCases ==
  ASSUME IInv, Accept
  PROVE  \/ UNCHANGED <<backlog, child, tables>>
         \/ \E c \in Conns :
              /\ child[c] = "queued" /\ backlog' = Tail(backlog) /\ c = Head(backlog)
              /\ \A i \in Slots : pipes[i] # c
              /\ \/ Refuse(c)
                 \/ /\ srclimit_check_allow(c)
                    /\ FreePipe \in Slots /\ pipes[FreePipe] = NoConn
                    /\ Fork(c) \/ NoSocketpair(c)
<1> SUFFICES ASSUME ~UNCHANGED <<backlog, child, tables>>
             PROVE  \E c \in Conns :
                      /\ child[c] = "queued" /\ backlog' = Tail(backlog) /\ c = Head(backlog)
                      /\ \A i \in Slots : pipes[i] # c
                      /\ \/ Refuse(c)
                         \/ /\ srclimit_check_allow(c)
                            /\ FreePipe \in Slots /\ pipes[FreePipe] = NoConn
                            /\ Fork(c) \/ NoSocketpair(c)
  OBVIOUS
<1> DEFINE h == Head(backlog)
<1>1. h \in Conns /\ child[h] = "queued" BY BacklogParts DEF Accept, IInv, Waiting
<1>2. \A i \in Slots : pipes[i] # h BY <1>1, ListenerAssumption DEF IInv, OnePipe, Served
<1>3. /\ backlog' = Tail(backlog)
      /\ \/ Refuse(h)
         \/ /\ FALSE \in should_drop_connection(startups) /\ srclimit_check_allow(h)
            /\ Fork(h) \/ NoSocketpair(h)
  BY DEF Accept
<1>4. FALSE \in should_drop_connection(startups) =>
        FreePipe \in Slots /\ pipes[FreePipe] = NoConn
  BY RoomForOne DEF IInv
<1> QED BY <1>1, <1>2, <1>3, <1>4

(* The steps of a child: one of them, which is neither new nor queued. *)
ChildStep(c) ==
  /\ child[c] \in {"forked", "closed", "ready"}
  /\ \E to \in Served : child' = [child EXCEPT ![c] = to]
  /\ \/ child'[c] = "closed" /\ child[c] = "forked"
     \/ child'[c] \in {"ready", "auth", "gone"}
  /\ byte' \subseteq byte \cup {c} /\ (byte' = byte \/ child'[c] = "ready")
  /\ UNCHANGED <<pc, tables, backlog>>

LEMMA ChildSteps ==
  ASSUME Shape, NEW c \in Conns,
         ChildCloses(c) \/ ChildReports(c) \/ Authenticate(c) \/ GiveUp(c) \/ Crash(c)
  PROVE  ChildStep(c)
BY DEF ChildCloses, ChildReports, Authenticate, GiveUp, Crash, Step, ChildStep, Served, Shape

(* For the tables the listener's other steps change nothing, or leave only *)
(* the backlog's children refused.                                         *)
Quiet ==
  /\ UNCHANGED <<tables, byte>> /\ (pc' # "accept" \/ pc' = pc)
  /\ \/ UNCHANGED <<backlog, child>>
     \/ /\ backlog' = <<>> /\ pc' # "accept"
        /\ child' = [c \in Conns |-> IF child[c] = "queued" THEN "refused" ELSE child[c]]

LEMMA StepKinds ==
  ASSUME IInv, [Next]_vars
  PROVE  \/ Quiet
         \/ Exec \/ Poll \/ Accept
         \/ \E c \in Conns : Connect(c) \/ ChildStep(c)
<1>1. CASE Top BY <1>1, Zenon DEF Top, close_listen_socks, Quiet
<1>2. CASE PollInterrupted BY <1>2 DEF PollInterrupted, Quiet
<1>3. ASSUME NEW s \in Signals, Signal(s) PROVE Quiet BY <1>3 DEF Signal, Quiet
<1>4. CASE UNCHANGED vars BY <1>4 DEF vars, tables, Quiet
<1> QED BY <1>1, <1>2, <1>3, <1>4, ChildSteps DEF Next, Listener, IInv

-----------------------------------------------------------------------------
LEMMA NextWaiting == ASSUME IInv, [Next]_vars PROVE Waiting'
<1> USE DEF IInv
<1>1. CASE Quiet
  <2>1. CASE UNCHANGED <<backlog, child>> BY <1>1, <2>1 DEF Quiet, Waiting
  <2>2. CASE backlog' = <<>> /\ pc' # "accept" BY <2>2 DEF Waiting
  <2> QED BY <1>1, <2>1, <2>2 DEF Quiet
<1>2. CASE Exec BY <1>2 DEF Exec, Waiting
<1>3. CASE Poll BY <1>3 DEF Poll, Waiting
<1>4. CASE Accept
  <2>1. CASE UNCHANGED <<backlog, child, tables>> BY <1>4, <2>1 DEF Accept, Waiting
  <2>2. ASSUME NEW c \in Conns, c = Head(backlog), backlog' = Tail(backlog),
               \E to : child' = [child EXCEPT ![c] = to]
        PROVE  Waiting'
    <3>0. backlog # <<>> BY <1>4 DEF Accept, Waiting
    <3>1. ASSUME NEW k \in DOMAIN backlog' PROVE child'[backlog'[k]] = "queued"
      BY <2>2, <3>0, <3>1, BacklogParts DEF Waiting, Shape
    <3>2. ASSUME NEW k \in DOMAIN backlog', NEW l \in DOMAIN backlog', backlog'[k] = backlog'[l]
          PROVE  k = l
      <4>1. k + 1 = l + 1 BY <2>2, <3>0, <3>2, BacklogParts DEF Waiting
      <4>2. k \in Nat /\ l \in Nat BY <2>2, <3>0, BacklogParts
      <4> QED BY <4>1, <4>2
    <3> QED BY <1>4, <3>1, <3>2 DEF Accept, Waiting
  <2> QED BY <1>4, <2>1, <2>2, AcceptCases DEF Refuse, Fork, NoSocketpair
<1>5. ASSUME NEW c \in Conns, Connect(c) PROVE Waiting'
  <2>0. backlog \in Seq(Conns) /\ child[c] = "new" /\ pc' = pc BY <1>5 DEF Connect, Shape
  <2>1. \A k \in DOMAIN backlog : backlog[k] \in Conns /\ backlog[k] # c BY <2>0 DEF Waiting
  <2>2. CASE backlog' = Append(backlog, c) /\ child' = [child EXCEPT ![c] = "queued"]
    <3>1. /\ DOMAIN backlog' = DOMAIN backlog \cup {Len(backlog) + 1}
          /\ backlog'[Len(backlog) + 1] = c /\ Len(backlog) + 1 \notin DOMAIN backlog
          /\ \A k \in DOMAIN backlog : backlog'[k] = backlog[k]
      BY <2>0, <2>2
    <3>2. backlog' # <<>> BY <2>0, <2>2
    <3>3. \A k \in DOMAIN backlog' : child'[backlog'[k]] = "queued"
      BY <2>1, <2>2, <3>1 DEF Waiting, Shape
    <3>4. \A k, l \in DOMAIN backlog' : backlog'[k] = backlog'[l] => k = l
      BY <2>1, <3>1 DEF Waiting
    <3> QED BY <3>2, <3>3, <3>4 DEF Waiting
  <2>3. CASE backlog' = backlog /\ child' = [child EXCEPT ![c] = "refused"]
    BY <2>0, <2>1, <2>3 DEF Waiting, Shape
  <2>4. \/ backlog' = Append(backlog, c) /\ child' = [child EXCEPT ![c] = "queued"]
        \/ backlog' = backlog /\ child' = [child EXCEPT ![c] = "refused"]
    BY <1>5, Zenon DEF Connect
  <2> QED BY <2>2, <2>3, <2>4
<1>6. ASSUME NEW c \in Conns, ChildStep(c) PROVE Waiting'
  <2>1. \A k \in DOMAIN backlog : backlog[k] \in Conns /\ backlog[k] # c
    BY <1>6 DEF ChildStep, Waiting, Shape
  <2>2. UNCHANGED <<pc, backlog>> /\ \E to \in Served : child' = [child EXCEPT ![c] = to]
    BY <1>6 DEF ChildStep
  <2> QED BY <2>1, <2>2 DEF Waiting, Shape
<1> QED BY <1>1, <1>2, <1>3, <1>4, <1>5, <1>6, StepKinds

LEMMA NextOnePipe == ASSUME IInv, [Next]_vars PROVE OnePipe'
<1> USE DEF IInv
<1>0. \A i \in Slots : pipes[i] # NoConn => pipes[i] \in Conns BY DEF Shape
<1>1. CASE Quiet
  <2>1. pipes' = pipes BY <1>1 DEF Quiet, tables
  <2>2. \A i \in Slots : pipes[i] # NoConn => child'[pipes[i]] = child[pipes[i]]
    BY <1>0, <1>1 DEF Quiet, OnePipe, Served, Shape
  <2> QED BY <2>1, <2>2 DEF OnePipe
<1>2. CASE Exec BY <1>2 DEF Exec, OnePipe, Free, tables
<1>3. CASE Poll BY <1>3 DEF Poll, OnePipe, Shape
<1>4. CASE Accept
  <2>1. CASE UNCHANGED <<backlog, child, tables>> BY <2>1 DEF tables, OnePipe
  <2>2. ASSUME NEW c \in Conns, \A i \in Slots : pipes[i] # c, pipes' = pipes,
               child' = [child EXCEPT ![c] = "refused"]
        PROVE  OnePipe'
    BY <1>0, <2>2 DEF OnePipe, Shape
  <2>3. ASSUME NEW c \in Conns, \A i \in Slots : pipes[i] # c, FreePipe \in Slots, Fork(c)
        PROVE  OnePipe'
    <3>1. PICK to \in {"forked", "gone"} : child' = [child EXCEPT ![c] = to] BY <2>3 DEF Fork
    <3>2. /\ \A i \in Slots : pipes'[i] = IF i = FreePipe THEN c ELSE pipes[i]
          /\ child'[c] \in Served /\ \A d \in Conns : d # c => child'[d] = child[d]
      BY <2>3, <3>1 DEF Fork, Shape, Served
    <3>3. \A i \in Slots : pipes'[i] # NoConn => child'[pipes'[i]] \in Served
      BY <1>0, <2>3, <3>2 DEF OnePipe
    <3>4. \A i, j \in Slots : pipes'[i] # NoConn /\ pipes'[i] = pipes'[j] => i = j
      BY <2>3, <3>2 DEF OnePipe
    <3> QED BY <3>3, <3>4 DEF OnePipe
  <2> QED BY <1>4, <2>1, <2>2, <2>3, AcceptCases DEF Refuse, NoSocketpair, tables
<1>5. ASSUME NEW c \in Conns, Connect(c) PROVE OnePipe'
  <2>1. child[c] = "new" /\ pipes' = pipes /\ \E to : child' = [child EXCEPT ![c] = to]
    BY <1>5, Zenon DEF Connect, tables
  <2>2. \A i \in Slots : pipes[i] # c BY <2>1, ListenerAssumption DEF OnePipe, Served
  <2> QED BY <1>0, <2>1, <2>2 DEF OnePipe, Shape
<1>6. ASSUME NEW c \in Conns, ChildStep(c) PROVE OnePipe'
  <2>1. PICK to \in Served : child' = [child EXCEPT ![c] = to] BY <1>6 DEF ChildStep
  <2>2. pipes' = pipes BY <1>6 DEF ChildStep, tables
  <2> QED BY <1>0, <2>1, <2>2 DEF OnePipe, Shape
<1> QED BY <1>1, <1>2, <1>3, <1>4, <1>5, <1>6, StepKinds

LEMMA NextExpected == ASSUME IInv, [Next]_vars PROVE Expected'
<1> USE DEF IInv
<1>1. CASE Quiet
  <2>1. UNCHANGED <<pipes, flags, byte>> BY <1>1 DEF Quiet, tables
  <2>2. \A c \in Conns : child'[c] = child[c] \/ (child[c] = "queued" /\ child'[c] = "refused")
    BY <1>1 DEF Quiet, Shape
  <2>3. byte \subseteq Conns BY DEF Shape
  <2> QED BY <2>1, <2>2, <2>3 DEF Expected
<1>2. CASE Exec
  <2>1. UNCHANGED <<child, byte>> /\ (UNCHANGED tables \/ pipes' = Free) BY <1>2, Zenon DEF Exec
  <2>2. \A c \in Conns : child[c] \notin {"forked", "closed"} BY <1>2 DEF Exec, RestartSafe
  <2> QED BY <2>1, <2>2 DEF Expected
<1>3. CASE Poll
  <2>1. UNCHANGED child /\ byte' \subseteq byte BY <1>3 DEF Poll
  <2>2. ASSUME NEW c \in Conns, child[c] \in {"forked", "closed"}
        PROVE  \E i \in Slots : pipes'[i] = c /\ flags'[i]
    <3>1. PICK i \in Slots : pipes[i] = c /\ flags[i] BY <2>2 DEF Expected
    <3>2. i \notin Reported BY <2>2, <3>1 DEF Reported, Expected
    <3>3. i \notin Ended BY <2>2, <3>1 DEF Ended
    <3>4. pipes'[i] = c BY <1>3, <3>1, <3>3 DEF Poll
    <3>5. flags'[i] = (flags[i] /\ i \notin Reported) BY <1>3 DEF Poll
    <3> QED BY <3>1, <3>2, <3>4, <3>5
  <2> QED BY <2>1, <2>2 DEF Expected
<1>4. CASE Accept
  <2>0. byte' = byte BY <1>4 DEF Accept
  <2>1. CASE UNCHANGED <<backlog, child, tables>> BY <2>0, <2>1 DEF tables, Expected
  <2>2. ASSUME NEW c \in Conns, child[c] = "queued", UNCHANGED <<pipes, flags>>,
               child' = [child EXCEPT ![c] = "refused"]
        PROVE  Expected'
    BY <2>0, <2>2 DEF Expected, Shape
  <2>3. ASSUME NEW c \in Conns, child[c] = "queued", FreePipe \in Slots, pipes[FreePipe] = NoConn, Fork(c)
        PROVE  Expected'
    <3>1. PICK to \in {"forked", "gone"} : child' = [child EXCEPT ![c] = to] BY <2>3 DEF Fork
    <3>2. /\ \A i \in Slots : i # FreePipe => pipes'[i] = pipes[i] /\ flags'[i] = flags[i]
          /\ pipes'[FreePipe] = c /\ flags'[FreePipe]
      BY <2>3 DEF Fork, Shape
    <3>3. child'[c] \in {"forked", "gone"} /\ \A d \in Conns : d # c => child'[d] = child[d]
      BY <3>1 DEF Shape
    <3>4. \A d \in byte : d # c /\ d \in Conns BY <2>3 DEF Expected, Shape
    <3>5. ASSUME NEW d \in Conns, child'[d] \in {"forked", "closed"}
          PROVE  \E i \in Slots : pipes'[i] = d /\ flags'[i]
      <4>1. CASE d = c BY <2>3, <3>2, <4>1
      <4>2. CASE d # c
        <5>1. PICK i \in Slots : pipes[i] = d /\ flags[i] BY <3>3, <3>5, <4>2 DEF Expected
        <5>2. i # FreePipe BY <2>3, <5>1, ListenerAssumption
        <5> QED BY <3>2, <5>1, <5>2
      <4> QED BY <4>1, <4>2
    <3> QED BY <2>0, <3>3, <3>4, <3>5 DEF Expected
  <2> QED BY <1>4, <2>1, <2>2, <2>3, AcceptCases DEF Refuse, NoSocketpair, tables
<1>5. ASSUME NEW c \in Conns, Connect(c) PROVE Expected'
  <2>1. child[c] = "new" /\ UNCHANGED <<pipes, flags, byte>>
        /\ \E to \in {"queued", "refused"} : child' = [child EXCEPT ![c] = to]
    BY <1>5, Zenon DEF Connect, tables
  <2> QED BY <2>1 DEF Expected, Shape
<1>6. ASSUME NEW c \in Conns, ChildStep(c) PROVE Expected'
  <2>1. PICK to \in Served : child' = [child EXCEPT ![c] = to] BY <1>6 DEF ChildStep
  <2>2. \A d \in Conns : d # c => child'[d] = child[d] BY <2>1 DEF Shape
  <2>3. UNCHANGED <<pipes, flags>> BY <1>6 DEF ChildStep, tables
  <2>4. \A d \in Conns : child'[d] \in {"forked", "closed"} => child[d] \in {"forked", "closed"}
    BY <1>6, <2>2 DEF ChildStep
  <2>5. \A d \in byte' : child'[d] \in {"ready", "auth", "gone"}
    <3>1. byte \subseteq Conns BY DEF Shape
    <3>2. c \in byte => child[c] = "ready" BY <1>6 DEF Expected, ChildStep
    <3>3. c \in byte' => child'[c] \in {"ready", "auth", "gone"} BY <1>6, <3>2 DEF ChildStep
    <3>4. byte' \subseteq byte \cup {c} BY <1>6 DEF ChildStep
    <3> QED BY <2>2, <3>1, <3>3, <3>4 DEF Expected
  <2> QED BY <2>3, <2>4, <2>5 DEF Expected
<1> QED BY <1>1, <1>2, <1>3, <1>4, <1>5, <1>6, StepKinds

LEMMA NextRestartSafe == ASSUME IInv, [Next]_vars PROVE RestartSafe'
<1> USE DEF IInv
<1> SUFFICES ASSUME pc' = "exec", NEW c \in Conns, child'[c] \in {"forked", "closed"} PROVE FALSE
  BY DEF RestartSafe
<1>1. CASE Top
  <2>1. listening <= 0 BY <1>1 DEF Top, may_restart
  <2>2. Awaited = {}
    <3>1. Awaited \in SUBSET Slots BY DEF Awaited
    <3>2. Cardinality(Awaited) = 0 BY <2>1, <3>1, SlotsFinite DEF Counts
    <3> QED BY <3>1, <3>2, SlotsFinite, FS_EmptySet
  <2>3. child[c] \in {"forked", "closed"} BY <1>1 DEF Top, close_listen_socks, Shape
  <2>4. PICK i \in Slots : pipes[i] = c /\ flags[i] BY <2>3 DEF Expected
  <2>5. i \in Awaited BY <2>4, ListenerAssumption DEF Awaited
  <2> QED BY <2>2, <2>5
<1>2. ASSUME pc = "exec", child[c] \in {"forked", "closed"} PROVE FALSE BY <1>2 DEF RestartSafe
<1>3. CASE Exec BY <1>3 DEF Exec
<1>4. CASE Poll \/ PollInterrupted \/ Accept BY <1>4 DEF Poll, PollInterrupted, Accept
<1>5. ASSUME NEW d \in Conns, Connect(d) PROVE FALSE
  <2>1. pc' = pc /\ \E to \in {"queued", "refused"} : child' = [child EXCEPT ![d] = to]
    BY <1>5, Zenon DEF Connect
  <2> QED BY <1>2, <2>1 DEF Shape
<1>6. ASSUME NEW d \in Conns, ChildStep(d) PROVE FALSE
  <2>1. pc' = pc /\ \E to \in Served : child' = [child EXCEPT ![d] = to] BY <1>6 DEF ChildStep
  <2>2. c = d \/ child'[c] = child[c] BY <2>1 DEF Shape
  <2> QED BY <1>2, <1>6, <2>1, <2>2 DEF ChildStep
<1>7. ASSUME NEW s \in Signals, Signal(s) PROVE FALSE BY <1>2, <1>7 DEF Signal
<1>8. CASE UNCHANGED vars BY <1>2, <1>8 DEF vars
<1> QED BY <1>1, <1>3, <1>4, <1>5, <1>6, <1>7, <1>8, ChildSteps DEF Next, Listener

LEMMA NextCounts == ASSUME IInv, [Next]_vars PROVE Counts'
<1> USE DEF IInv
<1>0. Occupied \in SUBSET Slots /\ Awaited \in SUBSET Slots BY DEF Occupied, Awaited
<1>1. ASSUME UNCHANGED tables PROVE Counts' BY <1>1 DEF tables, Counts, Occupied, Awaited
<1>2. CASE Exec
  <2>1. UNCHANGED tables \/ (startups' = 0 /\ listening' = 0 /\ pipes' = Free)
    BY <1>2, Zenon DEF Exec
  <2>2. CASE startups' = 0 /\ listening' = 0 /\ pipes' = Free
    <3>1. Occupied' = {} /\ Awaited' = {} BY <2>2 DEF Occupied, Awaited, Free
    <3> QED BY <2>2, <3>1, FS_EmptySet DEF Counts
  <2> QED BY <1>1, <2>1, <2>2
<1>3. CASE Poll
  <2> DEFINE Told == {i \in Reported \cup Ended : flags[i]}
  <2>1. Ended \subseteq Occupied BY DEF Ended, Occupied
  <2>2. Occupied' = Occupied \ Ended BY <1>3 DEF Poll, Occupied, Shape
  <2>3. Told \subseteq Awaited
    <3>1. Reported \subseteq Occupied BY ListenerAssumption DEF Reported, Occupied, Shape
    <3> QED BY <2>1, <3>1 DEF Occupied, Awaited
  <2>4. Awaited' = Awaited \ Told
    <3>1. \A i \in Slots : pipes'[i] = IF i \in Ended THEN NoConn ELSE pipes[i] BY <1>3 DEF Poll
    <3>2. \A i \in Slots : flags'[i] <=> (flags[i] /\ i \notin Reported)
      BY <1>3 DEF Poll
    <3>3. \A i \in Slots : i \in Awaited' <=> (i \in Awaited /\ i \notin Told)
      BY <3>1, <3>2 DEF Awaited
    <3>4. Awaited' \subseteq Slots BY DEF Awaited
    <3> QED BY <1>0, <3>3, <3>4
  <2>5. Cardinality(Occupied') = Cardinality(Occupied) - Cardinality(Ended)
    <3>1. Occupied \cap Ended = Ended BY <2>1
    <3> QED BY <1>0, <2>2, <3>1, FS_Difference, SlotsFinite
  <2>6. Cardinality(Awaited') = Cardinality(Awaited) - Cardinality(Told)
    <3>1. Awaited \cap Told = Told BY <2>3
    <3> HIDE DEF Told
    <3> QED BY <1>0, <2>4, <3>1, FS_Difference, SlotsFinite
  <2>7. startups' = startups - Cardinality(Ended) /\ listening' = listening - Cardinality(Told)
    BY <1>3 DEF Poll, StillListening
  <2> QED BY <2>5, <2>6, <2>7 DEF Counts
<1>4. CASE Accept
  <2>1. ASSUME UNCHANGED <<startups, listening, pipes, flags>> PROVE Counts'
    BY <2>1 DEF Counts, Occupied, Awaited
  <2>2. ASSUME NEW c \in Conns, FreePipe \in Slots, pipes[FreePipe] = NoConn, Fork(c)
        PROVE  Counts'
    <3>0. FreePipe \notin Occupied /\ FreePipe \notin Awaited BY <2>2 DEF Occupied, Awaited
    <3>1. Occupied' = Occupied \cup {FreePipe} BY <2>2, ListenerAssumption DEF Fork, Occupied, Shape
    <3>2. Awaited' = Awaited \cup {FreePipe}
      <4>1. \A i \in Slots : i # FreePipe => pipes'[i] = pipes[i] /\ flags'[i] = flags[i]
        BY <2>2 DEF Fork, Shape
      <4>2. pipes'[FreePipe] # NoConn /\ flags'[FreePipe] BY <2>2, ListenerAssumption DEF Fork, Shape
      <4>3. \A i \in Slots : i \in Awaited' <=> (i \in Awaited \/ i = FreePipe)
        BY <4>1, <4>2 DEF Awaited
      <4>4. Awaited' \subseteq Slots BY DEF Awaited
      <4> QED BY <1>0, <2>2, <4>3, <4>4
    <3>3. Cardinality(Occupied') = Cardinality(Occupied) + 1
      BY <1>0, <3>0, <3>1, FS_AddElement, SlotsFinite
    <3>4. Cardinality(Awaited') = Cardinality(Awaited) + 1
      BY <1>0, <3>0, <3>2, FS_AddElement, SlotsFinite
    <3> QED BY <2>2, <3>3, <3>4 DEF Fork, Counts
  <2> QED BY <1>1, <1>4, <2>1, <2>2, AcceptCases DEF Refuse, NoSocketpair, tables
<1>5. ASSUME NEW c \in Conns, Connect(c) \/ ChildStep(c) PROVE Counts'
  BY <1>1, <1>5 DEF Connect, ChildStep
<1> QED BY <1>1, <1>2, <1>3, <1>4, <1>5, StepKinds DEF Quiet

(* The tables of srclimit.c. *)
LEMMA NextCovered == ASSUME IInv, [Next]_vars PROVE Covered'
<1> USE DEF IInv
<1>1. ASSUME UNCHANGED tables PROVE Covered' BY <1>1 DEF tables, Covered
<1>2. CASE Exec
  <2>1. UNCHANGED tables \/ pipes' = Free BY <1>2, Zenon DEF Exec
  <2> QED BY <1>1, <2>1 DEF Covered, Free
<1>3. CASE Poll
  <2> SUFFICES ASSUME NEW i \in Slots, pipes'[i] # NoConn, pipes'[i] \notin uncounted'
               PROVE  \E j \in Slots : srcs'[j].id = i /\ srcs'[j].addr = Source[pipes'[i]]
    BY DEF Covered
  <2>1. i \notin Ended /\ pipes'[i] = pipes[i] /\ uncounted' = uncounted BY <1>3 DEF Poll
  <2>2. PICK j \in Slots : srcs[j].id = i /\ srcs[j].addr = Source[pipes[i]] BY <2>1 DEF Covered
  <2>3. srcs'[j] = srcs[j] BY <1>3, <2>1, <2>2 DEF Poll, srclimit_done
  <2> QED BY <2>1, <2>2, <2>3
<1>4. CASE Accept
  <2>1. ASSUME NEW c \in Conns, FreePipe \in Slots, pipes[FreePipe] = NoConn,
               srclimit_check_allow(c), Fork(c) \/ NoSocketpair(c)
        PROVE  Covered'
    <3> SUFFICES ASSUME NEW i \in Slots, pipes'[i] # NoConn, pipes'[i] \notin uncounted'
                 PROVE  \E j \in Slots : srcs'[j].id = i /\ srcs'[j].addr = Source[pipes'[i]]
      BY DEF Covered
    <3>0. pipes'[i] = pipes[i] \/ (i = FreePipe /\ pipes'[i] = c)
      BY <2>1 DEF Fork, NoSocketpair, Shape
    <3>1. CASE AllowUncounted(c)
      <4>1. uncounted' = uncounted \cup {c} /\ srcs' = srcs BY <3>1 DEF AllowUncounted
      <4>2. pipes'[i] = pipes[i] /\ pipes[i] \notin uncounted BY <3>0, <4>1
      <4>3. PICK j \in Slots : srcs[j].id = i /\ srcs[j].addr = Source[pipes[i]]
        BY <4>2 DEF Covered
      <4> QED BY <4>1, <4>2, <4>3
    <3>2. CASE AllowCounted(c)
      <4> DEFINE e == Min(Unused)
      <4>1. e \in Slots /\ srcs[e] = NoEntry /\ uncounted' = uncounted
        BY <3>2, RoomForEntry DEF AllowCounted
      <4>2. srcs'[e] = [id |-> FreePipe, addr |-> Source[c]]
            /\ \A j \in Slots : j # e => srcs'[j] = srcs[j]
        BY <3>2, <4>1 DEF AllowCounted, Shape
      <4>3. CASE pipes'[i] = pipes[i]
        <5>1. PICK j \in Slots : srcs[j].id = i /\ srcs[j].addr = Source[pipes[i]]
          BY <4>1, <4>3 DEF Covered
        <5>2. j # e BY <4>1, <5>1, SlotsFinite DEF NoEntry
        <5> QED BY <4>2, <4>3, <5>1, <5>2
      <4>4. CASE i = FreePipe /\ pipes'[i] = c BY <4>1, <4>2, <4>4
      <4> QED BY <3>0, <4>3, <4>4
    <3> QED BY <2>1, <3>1, <3>2 DEF srclimit_check_allow
  <2> QED BY <1>1, <1>4, <2>1, AcceptCases DEF Refuse
<1>5. ASSUME NEW c \in Conns, Connect(c) \/ ChildStep(c) PROVE Covered'
  BY <1>1, <1>5 DEF Connect, ChildStep
<1> QED BY <1>1, <1>2, <1>3, <1>4, <1>5, StepKinds DEF Quiet

LEMMA NextBounded == ASSUME IInv, [Next]_vars PROVE Bounded'
<1> USE DEF IInv
<1>0. ASSUME NEW c \in Conns, FromSource(Source[c])' \subseteq FromSource(Source[c])
      PROVE  Cardinality(FromSource(Source[c])') <= PerSource
  <2>1. FromSource(Source[c]) \in SUBSET Slots BY DEF FromSource
  <2>2. Cardinality(FromSource(Source[c])') <= Cardinality(FromSource(Source[c]))
    BY <1>0, <2>1, SlotsFinite, FS_Subset
  <2>3. Cardinality(FromSource(Source[c])) <= PerSource /\ Cardinality(FromSource(Source[c])) \in Nat
        /\ Cardinality(FromSource(Source[c])') \in Nat
    BY <1>0, <2>1, SlotsFinite DEF Bounded
  <2> QED BY <2>2, <2>3, ListenerAssumption
<1>1. ASSUME UNCHANGED tables PROVE Bounded' BY <1>1 DEF tables, Bounded, FromSource
<1>2. CASE Exec
  <2>1. UNCHANGED tables \/ srcs' = [i \in Slots |-> NoEntry] BY <1>2, Zenon DEF Exec
  <2>2. CASE srcs' = [i \in Slots |-> NoEntry]
    <3>1. \A c \in Conns : FromSource(Source[c])' = {}
      BY <2>2, ListenerAssumption DEF FromSource, NoEntry
    <3> QED BY <1>0, <3>1 DEF Bounded
  <2> QED BY <1>1, <2>1, <2>2
<1>3. CASE Poll
  <2>1. \A j \in Slots : srcs'[j] \in {srcs[j], NoEntry} BY <1>3 DEF Poll, srclimit_done
  <2>2. \A c \in Conns : FromSource(Source[c])' \subseteq FromSource(Source[c])
    BY <2>1, ListenerAssumption DEF FromSource, NoEntry
  <2> QED BY <1>0, <2>2 DEF Bounded
<1>4. CASE Accept
  <2>0. ASSUME NEW c \in Conns, AllowUncounted(c) PROVE Bounded'
    BY <2>0 DEF AllowUncounted, Bounded, FromSource
  <2>1. ASSUME NEW c \in Conns, AllowCounted(c) PROVE Bounded'
    <3> SUFFICES ASSUME NEW d \in Conns PROVE Cardinality(FromSource(Source[d])') <= PerSource
      BY DEF Bounded
    <3> DEFINE e == Min(Unused)
    <3>0. e \in Slots BY <2>1, RoomForEntry DEF AllowCounted
    <3>1. srcs'[e].addr = Source[c] /\ \A j \in Slots : j # e => srcs'[j] = srcs[j]
      BY <2>1, <3>0 DEF AllowCounted, Shape
    <3>2. CASE Source[d] # Source[c]
      <4>1. FromSource(Source[d])' \subseteq FromSource(Source[d]) BY <3>1, <3>2 DEF FromSource
      <4> QED BY <1>0, <4>1
    <3>3. CASE Source[d] = Source[c]
      <4> DEFINE F == FromSource(Source[c])
      <4>0. F \in SUBSET Slots BY DEF FromSource
      <4>1. FromSource(Source[d])' = F \cup {e}
        BY <3>0, <3>1, <3>3 DEF FromSource
      <4>2. Cardinality(F) < PerSource BY <2>1 DEF AllowCounted, FromSource
      <4>3. Cardinality(F \cup {e}) <= Cardinality(F) + 1 /\ Cardinality(F) \in Nat
        BY <4>0, SlotsFinite, FS_AddElement
      <4>4. F \cup {e} \in SUBSET Slots BY <3>0, <4>0
      <4>5. Cardinality(F \cup {e}) \in Nat BY <4>4, SlotsFinite
      <4> HIDE DEF F, e
      <4> QED BY <4>1, <4>2, <4>3, <4>5, ListenerAssumption
    <3> QED BY <3>2, <3>3
  <2> QED BY <1>1, <1>4, <2>0, <2>1, AcceptCases DEF Refuse, srclimit_check_allow
<1>5. ASSUME NEW c \in Conns, Connect(c) \/ ChildStep(c) PROVE Bounded'
  BY <1>1, <1>5 DEF Connect, ChildStep
<1> QED BY <1>1, <1>2, <1>3, <1>4, <1>5, StepKinds DEF Quiet

-----------------------------------------------------------------------------
LEMMA InitIInv == ASSUME Init PROVE IInv
<1> USE ListenerAssumption
<1>1. Shape
  <2>1. Free \in [Slots -> Conns \cup {NoConn}] /\ Unset \in [Slots -> BOOLEAN]
        /\ [i \in Slots |-> NoEntry] \in [Slots -> Entry]
    BY DEF Free, Unset, Entry
  <2>2. lameduck \in BOOLEAN /\ open \in BOOLEAN BY Zenon DEF Init
  <2>3. backlog \in Seq(Conns) /\ hups \in 0..MaxHups BY DEF Init
  <2> QED BY <2>1, <2>2, <2>3 DEF Init, Shape
<1>2. Waiting /\ Expected BY DEF Init, Waiting, Expected
<1>3. OnePipe /\ Covered BY DEF Init, Free, OnePipe, Covered
<1>4. RestartSafe BY DEF Init, RestartSafe
<1>5. Counts
  <2>1. Occupied = {} /\ Awaited = {} BY DEF Init, Free, Occupied, Awaited
  <2> QED BY <2>1, FS_EmptySet DEF Init, Counts
<1>6. Bounded
  <2>1. \A c \in Conns : FromSource(Source[c]) = {} BY DEF Init, FromSource, NoEntry
  <2> QED BY <2>1, FS_EmptySet DEF Bounded
<1> QED BY <1>1, <1>2, <1>3, <1>4, <1>5, <1>6 DEF IInv

LEMMA Invariance == Spec => []IInv
<1>1. Init => IInv BY InitIInv
<1>2. IInv /\ [Next]_vars => IInv'
  <2> SUFFICES ASSUME IInv, [Next]_vars PROVE IInv' OBVIOUS
  <2> QED BY NextShape, NextWaiting, NextOnePipe, NextExpected, NextRestartSafe, NextCounts,
             NextCovered, NextBounded DEF IInv
<1> QED BY <1>1, <1>2, PTL DEF Spec

(* Every variable keeps its type; in particular startups and listening     *)
(* never leave 0..MaxStartups, and listening is never above startups.      *)
THEOREM TypeCorrect == Spec => []TypeOK
<1>1. IInv => TypeOK
  <2> SUFFICES ASSUME IInv PROVE TypeOK OBVIOUS
  <2>1. Occupied \in SUBSET Slots /\ Awaited \in SUBSET Occupied BY DEF Occupied, Awaited
  <2>2. startups \in 0..MaxStartups BY <2>1, SlotsFinite, ListenerAssumption DEF IInv, Counts
  <2>3. listening \in 0..startups
    <3>1. IsFiniteSet(Occupied) /\ Awaited \in SUBSET Slots BY <2>1, SlotsFinite
    <3>2. Cardinality(Awaited) <= Cardinality(Occupied) BY <2>1, <3>1, FS_Subset
    <3>3. Cardinality(Awaited) \in Nat /\ Cardinality(Occupied) \in Nat BY <2>1, <3>1, SlotsFinite
    <3> QED BY <3>2, <3>3 DEF IInv, Counts
  <2> QED BY <2>2, <2>3 DEF IInv, Shape, Entry, TypeOK
<1> QED BY <1>1, Invariance, PTL

(* However connections, reports, deaths and restarts interleave, startups  *)
(* is the number of pipes that server_accept_loop() watches, listening the *)
(* number of reports it still waits for, and no child has two slots.       *)
THEOREM CountersExact == Spec => []CountsExact
<1>1. IInv => CountsExact
  <2> SUFFICES ASSUME IInv PROVE CountsExact OBVIOUS
  <2>1. startups = Cardinality({i \in Slots : pipes[i] # NoConn})
        /\ listening = Cardinality({i \in Slots : pipes[i] # NoConn /\ flags[i]})
    BY DEF IInv, Counts, Occupied, Awaited
  <2>2. ASSUME NEW c \in Early PROVE Cardinality({i \in Slots : pipes[i] = c}) = 1
    <3>1. pipes \in [Slots -> Conns \cup {NoConn}] /\ c \in Conns /\ c # NoConn /\ c \in Range(pipes)
      BY <2>2, ListenerAssumption DEF IInv, Shape, Early
    <3>2. PICK i \in Slots : pipes[i] = c BY <3>1 DEF Range
    <3>3. {j \in Slots : pipes[j] = c} = {i} BY <3>1, <3>2 DEF IInv, OnePipe
    <3> QED BY <3>3, FS_Singleton
  <2> QED BY <2>1, <2>2 DEF CountsExact
<1> QED BY <1>1, Invariance, PTL

(* When the listener restarts itself after SIGHUP, every child that it     *)
(* forked has closed the listening sockets and has received its state.     *)
THEOREM RestartIsSafe == Spec => []RestartSafe
<1>1. IInv => RestartSafe BY DEF IInv
<1> QED BY <1>1, Invariance, PTL

(* PerSourceMaxStartups is never exceeded by the connections srclimit.c    *)
(* counts: whatever entries failed socketpairs leave behind, and whatever  *)
(* connections are allowed without one, the end of a child never takes     *)
(* away the entry of another.  The slots of counted unauthenticated        *)
(* children from one address are mapped, one to one, to its entries.       *)
THEOREM LimitIsHonoured == Spec => []LimitHonoured
<1>1. IInv => LimitHonoured
  <2> SUFFICES ASSUME IInv, NEW c \in Early \ uncounted
               PROVE  Cardinality({d \in Early \ uncounted : Source[d] = Source[c]}) <= PerSource
    BY DEF LimitHonoured
  <2> DEFINE D == {d \in Early \ uncounted : Source[d] = Source[c]}
             F == FromSource(Source[c])
             Has(d, j) == \E i \in Slots : pipes[i] = d /\ srcs[j].id = i
             f == [d \in D |-> CHOOSE j \in F : Has(d, j)]
  <2>1. c \in Conns BY DEF Early
  <2>0. F \in SUBSET Slots BY DEF FromSource
  <2>2. IsFiniteSet(F) /\ Cardinality(F) \in Nat BY <2>0, SlotsFinite
  <2>3. Cardinality(F) <= PerSource BY <2>1 DEF IInv, Bounded
  <2>4. ASSUME NEW d \in D PROVE \E j \in F : Has(d, j)
    <3>1. d \in Conns /\ d # NoConn /\ Source[d] = Source[c] /\ d \in Range(pipes) /\ d \notin uncounted
          /\ pipes \in [Slots -> Conns \cup {NoConn}]
      BY <2>4, ListenerAssumption DEF Early, IInv, Shape
    <3>2. PICK i \in Slots : pipes[i] = d BY <3>1 DEF Range
    <3>3. PICK j \in Slots : srcs[j].id = i /\ srcs[j].addr = Source[pipes[i]]
      BY <3>1, <3>2 DEF IInv, Covered
    <3>4. j \in F BY <3>1, <3>2, <3>3 DEF FromSource
    <3> QED BY <3>2, <3>3, <3>4
  <2>5. ASSUME NEW d \in D PROVE f[d] \in F /\ Has(d, f[d])
    <3>1. f[d] = CHOOSE j \in F : Has(d, j) BY <2>5
    <3>2. PICK j \in F : Has(d, j) BY <2>4, <2>5
    <3> HIDE DEF F, f, Has
    <3> QED BY <3>1, <3>2
  <2>6. f \in Injection(D, F)
    <3>1. f \in [D -> F] BY <2>5
    <3>2. ASSUME NEW a \in D, NEW b \in D, f[a] = f[b] PROVE a = b
      <4> HIDE DEF f
      <4>1. Has(a, f[a]) BY <2>5
      <4>2. Has(b, f[b]) BY <2>5
      <4>3. PICK i \in Slots : pipes[i] = a /\ srcs[f[a]].id = i BY <4>1
      <4>4. PICK k \in Slots : pipes[k] = b /\ srcs[f[b]].id = k BY <4>2
      <4> QED BY <3>2, <4>3, <4>4
    <3> HIDE DEF f, D, F
    <3> QED BY <3>1, <3>2 DEF Injection, IsInjective
  <2>7. Cardinality(D) <= Cardinality(F) /\ IsFiniteSet(D)
    <3> HIDE DEF f, D, F
    <3> QED BY <2>2, <2>6, FS_Injection
  <2>8. Cardinality(D) \in Nat BY <2>7, FS_CardinalityType
  <2> HIDE DEF F, D
  <2>9. Cardinality(D) <= PerSource BY <2>2, <2>3, <2>7, <2>8, ListenerAssumption
  <2> QED BY <2>9 DEF D
<1> QED BY <1>1, Invariance, PTL

=============================================================================
