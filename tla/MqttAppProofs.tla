--------------------------- MODULE MqttAppProofs ---------------------------
(***************************************************************************)
(* Proofs about the MQTT client, for any number of threads, messages and   *)
(* tokens: the type invariant, that tokens are handed over one at a time   *)
(* and to their own publisher, and that a single publisher implements the  *)
(* stop-and-wait protocol; that one subscriber's samples are complete when *)
(* the statistics are taken, and that no semaphore outlives its use with   *)
(* at most one publisher.  Last, the statistics themselves.                *)
(***************************************************************************)
EXTENDS MqttApp, RttStats, TLAPS

(* The phases of a handover: the semaphore is free; the callback has taken *)
(* it; the token is stored; a publisher has seen it and will post.         *)
Free == qos1_pubmutex = 1 /\ cb.pc # "store" /\ stored = {}
        /\ \A p \in Pubs : ppc[p] # "post"
Taken == qos1_pubmutex = 0 /\ cb.pc = "store" /\ stored = {}
         /\ \A p \in Pubs : ppc[p] # "post"
Stored == qos1_pubmutex = 0 /\ cb.pc # "store" /\ (\E t \in Tokens : stored = {t})
          /\ \A p \in Pubs : ppc[p] # "post"
Seen == qos1_pubmutex = 0 /\ cb.pc # "store" /\ stored = {}
        /\ \E p \in Pubs : ppc[p] = "post" /\ \A q \in Pubs : ppc[q] = "post" => q = p

Phases ==
    IF main.pc = "setup"
    THEN qos1_pubmutex = 0 /\ cb = Idle /\ stored = {} /\ unacked = {}
         /\ \A p \in Pubs : ppc[p] = "none"
    ELSE Free \/ Taken \/ Stored \/ Seen

(* Every token on its way belongs to one spinning publisher and is in one  *)
(* place: unacknowledged, in the callback, or stored.                      *)
Owned(t) == \E p \in Pubs : ppc[p] = "spin" /\ token[p] = t

Ownership ==
    /\ \A t \in unacked \cup stored : Owned(t)
    /\ cb.pc = "idle" => cb.dt = 0
    /\ cb.pc # "idle" => Owned(cb.dt)
    /\ cb.dt \notin unacked \cup stored
    /\ unacked \cap stored = {}
    /\ \A p \in Pubs : ppc[p] \in {"spin", "post"} => token[p] \in Tokens
    /\ \A p, q \in Pubs : ppc[p] = "spin" /\ ppc[q] \in {"spin", "post"} /\ token[p] = token[q]
                            => p = q
    /\ \A p \in Pubs : ppc[p] = "spin" /\ deliveredtoken = token[p] => token[p] \in stored

(* main creates every publisher once. *)
NotCreated ==
    /\ main.pc \in {"setup", "create_subs"} => \A p \in Pubs : ppc[p] = "none"
    /\ main.pc = "create_pubs" => \A p \in Pubs : p > main.n => ppc[p] = "none"

(* The inductive invariant. *)
IInv == TypeOK /\ NotCreated /\ Phases /\ Ownership

-----------------------------------------------------------------------------
(* The invariant holds before main has done anything. *)
LEMMA InitIInv == Init => IInv
<1> SUFFICES ASSUME Init PROVE IInv OBVIOUS
<1>1. TypeOK
  <2>1. main \in [pc: MainPCs, n: Nat] BY DEF Init, MainPCs
  <2>2. cb \in [pc: {"idle", "wait", "store"}, dt: Tokens \cup {0}] BY DEF Init, Idle
  <2>3. spc \in [Subs -> SubPCs] /\ ppc \in [Pubs -> PubPCs]
    BY DEF Init, SubPCs, PubPCs
  <2>4. token \in [Pubs -> Tokens \cup {0}] BY DEF Init
  <2>5. samples \in Seq((Subs \cup {0}) \X (Subs \cup {0})) BY DEF Init
  <2> QED BY <2>1, <2>2, <2>3, <2>4, <2>5 DEF Init, TypeOK
<1>2. Phases BY DEF Init, Phases
<1>3. Ownership BY DEF Init, Ownership, Idle
<1>4. NotCreated BY DEF Init, NotCreated
<1> QED BY <1>1, <1>2, <1>3, <1>4 DEF IInv

(* What main's position and loop counter may become. *)
LEMMA MainMoves ==
  ASSUME TypeOK
  PROVE  /\ \A l \in MainPCs : Goto(l) => main' \in [pc: MainPCs, n: Nat]
         /\ Again => main' \in [pc: MainPCs, n: Nat]
<1>1. ASSUME NEW l \in MainPCs, Goto(l) PROVE main' \in [pc: MainPCs, n: Nat]
  BY <1>1 DEF Goto
<1>2. ASSUME Again PROVE main' \in [pc: MainPCs, n: Nat]
  BY <1>2 DEF Again, TypeOK
<1> QED BY <1>1, <1>2

(* Every step of main, of a thread or of a callback keeps the types. *)
LEMMA TypeStep == IInv /\ [Next]_vars => TypeOK'
<1> SUFFICES ASSUME IInv, [Next]_vars PROVE TypeOK' OBVIOUS
<1>t. TypeOK BY DEF IInv
<1>m. /\ \A l \in MainPCs : Goto(l) => main' \in [pc: MainPCs, n: Nat]
      /\ Again => main' \in [pc: MainPCs, n: Nat]
  BY <1>t, MainMoves
<1>l. /\ "create_subs" \in MainPCs /\ "create_pubs" \in MainPCs /\ "join_subs" \in MainPCs
      /\ "stats" \in MainPCs /\ "join_pubs" \in MainPCs /\ "destroy" \in MainPCs
      /\ "disconnect" \in MainPCs
  BY DEF MainPCs
<1> USE <1>t DEF TypeOK, semVars, bufVars, netVars, Uses
<1>1. CASE MainSetup
  <2>1. main' \in [pc: MainPCs, n: Nat]
    BY <1>1, <1>m, <1>l DEF MainSetup, MainAt
  <2>2. /\ qos1_pubmutex' \in Nat /\ done_receiving' \in Nat /\ stop_publish' \in Nat
        /\ status' \in {"running", "exited", "failed"}
    BY <1>1 DEF MainSetup, MainAt
  <2>5. live' \subseteq Semaphores
    <3>1. live' = {"done_receiving", "stop_publish", "qos1_pubmutex"} \/ live' = live
      BY <1>1 DEF MainSetup
    <3> QED BY <3>1 DEF Semaphores
  <2>4. connected' \in BOOLEAN
    <3>1. connected' = TRUE \/ connected' = connected BY <1>1 DEF MainSetup
    <3> QED BY <3>1, Zenon
  <2>3. UNCHANGED <<topic_sub, kill_sub, unacked, msgs, kills, kills_seen>>
    BY <1>1 DEF MainSetup
  <2> QED BY <1>1, <2>1, <2>2, <2>3, <2>4, <2>5 DEF MainSetup
<1>2. CASE MainCreateSubs
  <2>1. main' \in [pc: MainPCs, n: Nat] BY <1>2, <1>m, <1>l DEF MainCreateSubs
  <2>2. spc' \in [Subs -> SubPCs] BY <1>2 DEF MainCreateSubs, SubPCs
  <2> QED BY <1>2, <2>1, <2>2 DEF MainCreateSubs
<1>3. CASE MainCreatePubs
  <2>1. main' \in [pc: MainPCs, n: Nat] BY <1>3, <1>m, <1>l DEF MainCreatePubs
  <2>2. ppc' \in [Pubs -> PubPCs] BY <1>3 DEF MainCreatePubs, PubPCs
  <2> QED BY <1>3, <2>1, <2>2 DEF MainCreatePubs
<1>4. CASE MainJoinSubs
  <2>1. main' \in [pc: MainPCs, n: Nat] BY <1>4, <1>m, <1>l DEF MainJoinSubs
  <2> QED BY <1>4, <2>1 DEF MainJoinSubs, MainAt
<1>5. CASE MainStats
  <2>1. main' \in [pc: MainPCs, n: Nat] BY <1>5, <1>m, <1>l DEF MainStats
  <2> QED BY <1>5, <2>1 DEF MainStats
<1>6. CASE MainJoinPubs
  <2>1. main' \in [pc: MainPCs, n: Nat] BY <1>6, <1>m, <1>l DEF MainJoinPubs
  <2> QED BY <1>6, <2>1 DEF MainJoinPubs, MainAt
<1>7. CASE MainDestroy
  <2>1. main' \in [pc: MainPCs, n: Nat] BY <1>7, <1>m, <1>l DEF MainDestroy
  <2>2. live' \subseteq Semaphores BY <1>7 DEF MainDestroy
  <2> QED BY <1>7, <2>1, <2>2 DEF MainDestroy
<1> USE DEF SubPCs, PubPCs
<1>8. CASE MainDisconnect BY <1>8, ZenonT(60) DEF MainDisconnect, MainAt
<1>9. ASSUME NEW i \in Subs, Sub(i) PROVE TypeOK'
  <2>1. CASE SubAllocReceive(i) BY <2>1 DEF SubAllocReceive, SubStep
  <2>2. CASE SubAllocRtt(i) BY <2>2 DEF SubAllocRtt, SubStep
  <2>3. CASE SubSubscribe(i) BY <2>3, ZenonT(60) DEF SubSubscribe, SubStep, ExitFailure
  <2>4. CASE SubWait(i) BY <2>4 DEF SubWait, SubStep
  <2>5. CASE SubSignal(i) BY <2>5 DEF SubSignal, SubStep
  <2>6. CASE SubUnsubscribe(i) BY <2>6, ZenonT(60) DEF SubUnsubscribe, SubStep, ExitFailure
  <2> QED BY <1>9, <2>1, <2>2, <2>3, <2>4, <2>5, <2>6 DEF Sub
<1>10. ASSUME NEW p \in Pubs, Pub(p) PROVE TypeOK'
  <2>1. CASE PubSubscribe(p) BY <2>1, ZenonT(60) DEF PubSubscribe, PubStep, ExitFailure
  <2>2. CASE PubClear(p) BY <2>2 DEF PubClear, PubStep
  <2>3. CASE PubPublish(p) BY <2>3 DEF PubPublish, PubStep, ExitFailure, FreshTokens
  <2>4. CASE PubSpin(p) BY <2>4 DEF PubSpin, PubStep
  <2>5. CASE PubPost(p) BY <2>5 DEF PubPost, PubStep
  <2>6. CASE PubCheck(p) BY <2>6 DEF PubCheck, PubStep
  <2>7. CASE PubUnsubscribe(p) BY <2>7, ZenonT(60) DEF PubUnsubscribe, PubStep, ExitFailure
  <2> QED BY <1>10, <2>1, <2>2, <2>3, <2>4, <2>5, <2>6, <2>7 DEF Pub
<1>11. CASE CbAck
  <2>1. /\ cb' \in [pc: {"idle", "wait", "store"}, dt: Tokens \cup {0}]
        /\ unacked' \subseteq Tokens
    BY <1>11 DEF CbAck
  <2> QED BY <1>11, <2>1 DEF CbAck, CbAt
<1>12. CASE CbWait BY <1>12 DEF CbWait, CbAt
<1>13. CASE CbStore
  <2>1. cb.dt \in Tokens
    BY <1>13, IInv DEF CbStore, CbAt, IInv, Ownership, Owned
  <2>2. cb' \in [pc: {"idle", "wait", "store"}, dt: Tokens \cup {0}]
    BY <1>13 DEF CbStore, Idle
  <2>3. stored' \subseteq Tokens /\ deliveredtoken' \in Tokens \cup {-1, 0}
    BY <1>13, <2>1 DEF CbStore
  <2> QED BY <1>13, <2>2, <2>3 DEF CbStore
<1>14. CASE CbMessage
  <2>1. samples' \in Seq((Subs \cup {0}) \X (Subs \cup {0}))
    <3> DEFINE Pair == (Subs \cup {0}) \X (Subs \cup {0})
               s == <<receive_ts, rtt_ts>>
    <3>1. s \in Pair /\ samples \in Seq(Pair) OBVIOUS
    <3>2. samples' = samples \/ samples' = Append(samples, s) BY <1>14 DEF CbMessage
    <3> HIDE DEF Pair, s, TypeOK
    <3>3. samples' \in Seq(Pair) BY <3>1, <3>2
    <3> QED BY <3>3 DEF Pair
  <2>2. done_receiving' \in Nat BY <1>14 DEF CbMessage
  <2>3. misused' \in BOOLEAN
    <3>1. misused' = misused \/ misused' = (misused \/ "done_receiving" \notin live)
      BY <1>14 DEF CbMessage
    <3> QED BY <3>1, Zenon
  <2> QED BY <1>14, <2>1, <2>2, <2>3 DEF CbMessage
<1>15. CASE CbKill BY <1>15 DEF CbKill, CbAt
<1>16. CASE BrokerMessage BY <1>16 DEF BrokerMessage, NetStep
<1>17. CASE BrokerKill BY <1>17 DEF BrokerKill, NetStep
<1>18. CASE ConnLost BY <1>18, ZenonT(60) DEF ConnLost, NetStep
<1>19. CASE UNCHANGED vars BY <1>19 DEF vars
<1> QED
  BY <1>1, <1>2, <1>3, <1>4, <1>5, <1>6, <1>7, <1>8, <1>9, <1>10, <1>11, <1>12, <1>13,
     <1>14, <1>15, <1>16, <1>17, <1>18, <1>19 DEF Next, Main, Cb

(* The loops of main create each thread once. *)
LEMMA CreatedStep == IInv /\ [Next]_vars => NotCreated'
<1> SUFFICES ASSUME IInv, [Next]_vars PROVE NotCreated' OBVIOUS
<1>t. TypeOK /\ NotCreated BY DEF IInv
<1>1. CASE MainSetup \/ MainCreateSubs
  <2>1. /\ main.pc \in {"setup", "create_subs"} /\ ppc' = ppc
    BY <1>1 DEF MainSetup, MainCreateSubs, MainAt
  <2> QED BY <1>t, <2>1 DEF NotCreated
<1>2. CASE MainCreatePubs
  <2>1. CASE main.n < NUM_PUBS
    <3>1. /\ ppc' = [ppc EXCEPT ![main.n + 1] = "subscribe"]
          /\ main' = [main EXCEPT !.n = main.n + 1] /\ main.pc = "create_pubs"
      BY <1>2, <2>1 DEF MainCreatePubs, MainAt, Again
    <3>2. main'.pc = "create_pubs" /\ main'.n = main.n + 1 /\ main.n \in Nat
      BY <1>t, <3>1 DEF TypeOK
    <3>3. ASSUME NEW p \in Pubs, p > main.n + 1 PROVE ppc'[p] = "none"
      <4>1. p > main.n /\ p # main.n + 1 BY <3>2, <3>3 DEF Pubs
      <4>2. ppc[p] = "none" BY <1>t, <3>1, <4>1 DEF NotCreated
      <4> QED BY <1>t, <3>1, <4>1, <4>2 DEF TypeOK
    <3> QED BY <3>2, <3>3 DEF NotCreated
  <2>2. CASE ~(main.n < NUM_PUBS)
    BY <1>2, <2>2 DEF MainCreatePubs, Goto, NotCreated
  <2> QED BY <2>1, <2>2
<1>3. CASE MainJoinSubs \/ MainStats \/ MainJoinPubs \/ MainDestroy \/ MainDisconnect
  <2>1. main'.pc \in {"join_subs", "stats", "join_pubs", "destroy", "disconnect"}
    BY <1>3, <1>t DEF MainJoinSubs, MainStats, MainJoinPubs, MainDestroy, MainDisconnect,
                      MainAt, Goto, Again, TypeOK
  <2> QED BY <2>1 DEF NotCreated
<1>4. ASSUME NEW p \in Pubs, Pub(p) PROVE NotCreated'
  <2>1. main' = main /\ (ppc' = ppc \/ (ppc[p] # "none" /\ \E l : ppc' = [ppc EXCEPT ![p] = l]))
    BY <1>4 DEF Pub, PubSubscribe, PubClear, PubPublish, PubSpin, PubPost, PubCheck,
                PubUnsubscribe, PubStep, ExitFailure
  <2> QED BY <1>t, <2>1 DEF NotCreated, TypeOK
<1>5. CASE UNCHANGED <<main, ppc>>
  BY <1>5, <1>t DEF NotCreated
<1>6. ASSUME NEW i \in Subs, Sub(i) PROVE UNCHANGED <<main, ppc>>
  BY <1>6 DEF Sub, SubAllocReceive, SubAllocRtt, SubSubscribe, SubWait, SubSignal,
              SubUnsubscribe, ExitFailure
<1>7. ASSUME Cb \/ BrokerMessage \/ BrokerKill \/ ConnLost PROVE UNCHANGED <<main, ppc>>
  BY <1>7 DEF Cb, CbAck, CbWait, CbStore, CbMessage, CbKill, BrokerMessage, BrokerKill,
              ConnLost, NetStep
<1> QED BY <1>1, <1>2, <1>3, <1>4, <1>5, <1>6, <1>7 DEF Next, Main, vars

-----------------------------------------------------------------------------
handshakeVars == <<cb, token, deliveredtoken, qos1_pubmutex, unacked, stored>>

(* A step that moves no publisher into or out of the handshake keeps it. *)
LEMMA QuietStep ==
  ASSUME IInv, UNCHANGED handshakeVars,
         main.pc = "setup" <=> main'.pc = "setup",
         \A p \in Pubs : /\ ppc'[p] = "spin" <=> ppc[p] = "spin"
                         /\ ppc'[p] = "post" <=> ppc[p] = "post",
         main.pc = "setup" => ppc' = ppc
  PROVE  Phases' /\ Ownership'
<1>1. CASE main.pc = "setup"
  BY <1>1 DEF IInv, Phases, Ownership, Owned, handshakeVars
<1>2. CASE main.pc # "setup"
  <2>1. Phases'
    <3>1. CASE Free BY <1>2, <3>1 DEF Phases, Free, handshakeVars
    <3>2. CASE Taken BY <1>2, <3>2 DEF Phases, Taken, handshakeVars
    <3>3. CASE Stored BY <1>2, <3>3 DEF Phases, Stored, handshakeVars
    <3>4. CASE Seen BY <1>2, <3>4 DEF Phases, Seen, handshakeVars
    <3> QED BY <1>2, <3>1, <3>2, <3>3, <3>4 DEF IInv, Phases
  <2>2. \A t : Owned(t) => Owned(t)' BY DEF Owned, handshakeVars
  <2>3. Ownership'
    BY <2>2 DEF IInv, Ownership, handshakeVars, TypeOK
  <2> QED BY <2>1, <2>3
<1> QED BY <1>1, <1>2

(* Every step keeps the phases of the handover and who owns which token:   *)
(* the publish, the callback's two steps, the spin loop and the post.      *)
LEMMA HandshakeStep == IInv /\ [Next]_vars => Phases' /\ Ownership'
<1> SUFFICES ASSUME IInv, [Next]_vars PROVE Phases' /\ Ownership' OBVIOUS
<1>t. TypeOK /\ NotCreated /\ Phases /\ Ownership BY DEF IInv
<1>n. 0 \notin Tokens BY CountAssumption DEF Tokens
<1>1. CASE MainSetup
  <2>1. CASE main' = main
    <3>1. UNCHANGED handshakeVars /\ ppc' = ppc
      BY <1>1, <2>1 DEF MainSetup, MainAt, Goto, semVars, netVars, handshakeVars
    <3> QED BY IInv, <2>1, <3>1, QuietStep
  <2>2. CASE main' # main
    <3>1. /\ qos1_pubmutex' = 1 /\ main'.pc = "create_subs" /\ main.pc = "setup"
          /\ UNCHANGED <<cb, token, deliveredtoken, unacked, stored, ppc>>
      BY <1>1, <2>2 DEF MainSetup, MainAt, Goto
    <3>2. Phases' BY <1>t, <3>1 DEF Phases, Free, Idle
    <3>3. Ownership' BY <1>t, <3>1 DEF Phases, Ownership, Owned, Idle
    <3> QED BY <3>2, <3>3
  <2> QED BY <2>1, <2>2
<1>2. CASE MainCreatePubs
  <2>1. /\ UNCHANGED handshakeVars /\ main.pc = "create_pubs"
        /\ main'.pc \in {"create_pubs", "join_subs"}
    BY <1>2, <1>t DEF MainCreatePubs, MainAt, Goto, Again, TypeOK, semVars, netVars,
                      handshakeVars
  <2>2. CASE ppc' = ppc BY IInv, <2>1, <2>2, QuietStep
  <2>3. CASE ppc' # ppc
    <3>1. main.n + 1 \in Pubs /\ ppc' = [ppc EXCEPT ![main.n + 1] = "subscribe"]
      <4>1. main.n < NUM_PUBS BY <1>2, <2>3 DEF MainCreatePubs
      <4>2. main.n \in Nat BY <1>t DEF TypeOK
      <4> QED BY <1>2, <4>1, <4>2, CountAssumption DEF MainCreatePubs, Pubs
    <3>2. ppc[main.n + 1] = "none"
      BY <1>t, <2>1, <3>1 DEF TypeOK, NotCreated
    <3> QED BY IInv, <1>t, <2>1, <3>1, <3>2, QuietStep DEF TypeOK
  <2> QED BY <2>2, <2>3
<1>3. ASSUME NEW p \in Pubs, ppc[p] # "none" PROVE main.pc # "setup"
  BY <1>t, <1>3 DEF Phases
<1>4. ASSUME NEW p \in Pubs, PubSubscribe(p) \/ PubCheck(p) \/ PubUnsubscribe(p)
      PROVE  Phases' /\ Ownership'
  <2>1. /\ UNCHANGED handshakeVars /\ main' = main
        /\ ppc[p] \in {"subscribe", "check", "unsubscribe"}
        /\ \/ ppc' = ppc
           \/ \E l \in {"clear", "unsubscribe", "done"} : ppc' = [ppc EXCEPT ![p] = l]
    BY <1>4 DEF PubSubscribe, PubCheck, PubUnsubscribe, PubStep, ExitFailure, semVars,
                netVars, handshakeVars
  <2>2. main.pc # "setup" BY <1>3, <2>1
  <2>3. \A q \in Pubs : /\ ppc'[q] = "spin" <=> ppc[q] = "spin"
                        /\ ppc'[q] = "post" <=> ppc[q] = "post"
    BY <1>t, <2>1 DEF TypeOK
  <2> QED BY IInv, <2>1, <2>2, <2>3, QuietStep
<1>5. ASSUME NEW p \in Pubs, PubClear(p) PROVE Phases' /\ Ownership'
  <2>1. /\ ppc[p] = "clear" /\ ppc' = [ppc EXCEPT ![p] = "publish"] /\ deliveredtoken' = 0
        /\ UNCHANGED <<main, cb, token, qos1_pubmutex, unacked, stored>>
    BY <1>5 DEF PubClear, PubStep, semVars, netVars
  <2>2. main.pc # "setup" BY <1>3, <2>1
  <2>3. \A q \in Pubs : /\ ppc'[q] = "spin" <=> ppc[q] = "spin"
                        /\ ppc'[q] = "post" <=> ppc[q] = "post"
    BY <1>t, <2>1 DEF TypeOK
  <2>4. Phases'
    <3>1. CASE Free BY <2>1, <2>2, <2>3, <3>1 DEF Phases, Free
    <3>2. CASE Taken BY <2>1, <2>2, <2>3, <3>2 DEF Phases, Taken
    <3>3. CASE Stored BY <2>1, <2>2, <2>3, <3>3 DEF Phases, Stored
    <3>4. CASE Seen BY <2>1, <2>2, <2>3, <3>4 DEF Phases, Seen
    <3> QED BY <1>t, <2>2, <3>1, <3>2, <3>3, <3>4 DEF Phases
  <2>5. \A t : Owned(t) => Owned(t)' BY <2>1, <2>3 DEF Owned
  <2>6. \A q \in Pubs : ~(ppc'[q] = "spin" /\ deliveredtoken' = token'[q])
    BY <1>t, <1>n, <2>1, <2>3 DEF Ownership
  <2>7. Ownership' BY <1>t, <2>1, <2>3, <2>5, <2>6 DEF Ownership
  <2> QED BY <2>4, <2>7
<1>6. ASSUME NEW p \in Pubs, PubPublish(p) PROVE Phases' /\ Ownership'
  <2>1. CASE status' = "failed"
    <3>1. UNCHANGED <<handshakeVars, main, ppc>>
      BY <1>6, <2>1 DEF PubPublish, PubStep, ExitFailure, semVars, netVars, handshakeVars
    <3> QED BY IInv, <3>1, QuietStep DEF handshakeVars
  <2>2. CASE status' # "failed"
    <3>1. /\ ppc[p] = "publish"
          /\ UNCHANGED <<main, cb, deliveredtoken, qos1_pubmutex, stored>>
      BY <1>6, <2>2 DEF PubPublish, PubStep, ExitFailure, semVars
    <3>2. PICK t \in FreshTokens :
                 /\ token' = [token EXCEPT ![p] = t]
                 /\ unacked' = IF QOS = 0 THEN unacked ELSE unacked \cup {t}
      BY <1>6, <2>2 DEF PubPublish, ExitFailure
    <3>3. ppc' = [ppc EXCEPT ![p] = IF QOS = 0 THEN "check" ELSE "spin"]
      BY <1>6, <2>2 DEF PubPublish, PubStep, ExitFailure
    <3>4. /\ t \in Tokens /\ t \notin unacked /\ t # deliveredtoken /\ t # cb.dt
          /\ \A q \in Pubs : token[q] # t
      BY DEF FreshTokens
    <3>5. main.pc # "setup" BY <1>3, <3>1
    <3>6. \A q \in Pubs : /\ q # p => ppc'[q] = ppc[q] /\ token'[q] = token[q]
                          /\ ppc'[q] = "post" <=> ppc[q] = "post"
                          /\ ppc[q] = "spin" => ppc'[q] = "spin" /\ token'[q] = token[q]
      BY <1>t, <3>1, <3>2, <3>3 DEF TypeOK
    <3>7. Phases'
      <4>1. CASE Free BY <3>1, <3>5, <3>6, <4>1 DEF Phases, Free
      <4>2. CASE Taken BY <3>1, <3>5, <3>6, <4>2 DEF Phases, Taken
      <4>3. CASE Stored BY <3>1, <3>5, <3>6, <4>3 DEF Phases, Stored
      <4>4. CASE Seen BY <3>1, <3>5, <3>6, <4>4 DEF Phases, Seen
      <4> QED BY <1>t, <3>5, <4>1, <4>2, <4>3, <4>4 DEF Phases
    <3>8. \A u : Owned(u) => Owned(u)' BY <3>6 DEF Owned
    <3>9. t \notin stored BY <1>t, <3>4 DEF Ownership, Owned
    <3>10. CASE QOS = 0
      <4>1. \A q \in Pubs : ppc'[q] = "spin" <=> ppc[q] = "spin"
        BY <1>t, <3>1, <3>3, <3>10 DEF TypeOK
      <4> QED BY <1>t, <3>1, <3>2, <3>4, <3>6, <3>7, <3>8, <3>10, <4>1 DEF Ownership, TypeOK
    <3>11. CASE QOS # 0
      <4>1. ppc'[p] = "spin" /\ token'[p] = t /\ unacked' = unacked \cup {t}
        BY <1>t, <3>2, <3>3, <3>11 DEF TypeOK
      <4>2. Owned(t)' BY <4>1 DEF Owned
      <4>3. \A u \in unacked' \cup stored' : Owned(u)'
        BY <1>t, <3>1, <3>8, <4>1, <4>2 DEF Ownership
      <4>4. /\ cb'.pc = "idle" => cb'.dt = 0
            /\ cb'.pc # "idle" => Owned(cb.dt)'
            /\ cb'.dt \notin unacked' \cup stored'
            /\ unacked' \cap stored' = {}
        BY <1>t, <3>1, <3>4, <3>8, <3>9, <4>1 DEF Ownership
      <4>5. \A q \in Pubs : ppc'[q] \in {"spin", "post"} => token'[q] \in Tokens
        BY <1>t, <3>4, <3>6, <4>1 DEF Ownership
      <4>6. \A q, r \in Pubs : ppc'[q] = "spin" /\ ppc'[r] \in {"spin", "post"}
                                 /\ token'[q] = token'[r] => q = r
        BY <1>t, <3>4, <3>6, <4>1 DEF Ownership
      <4>7. \A q \in Pubs : ppc'[q] = "spin" /\ deliveredtoken' = token'[q]
                              => token'[q] \in stored'
        BY <1>t, <3>1, <3>4, <3>6, <4>1 DEF Ownership
      <4> QED BY <3>1, <3>7, <4>3, <4>4, <4>5, <4>6, <4>7 DEF Ownership
    <3> QED BY <3>10, <3>11
  <2> QED BY <2>1, <2>2
<1>7. ASSUME NEW p \in Pubs, PubSpin(p) PROVE Phases' /\ Ownership'
  <2>1. /\ ppc[p] = "spin" /\ deliveredtoken = token[p] /\ stored' = stored \ {token[p]}
        /\ ppc' = [ppc EXCEPT ![p] = "post"]
        /\ UNCHANGED <<main, cb, token, deliveredtoken, qos1_pubmutex, unacked>>
    BY <1>7 DEF PubSpin, PubStep, semVars, netVars
  <2>2. main.pc # "setup" BY <1>3, <2>1
  <2>3. token[p] \in stored BY <1>t, <2>1 DEF Ownership
  <2>4. Stored BY <1>t, <2>2, <2>3 DEF Phases, Free, Taken, Seen
  <2>5. stored = {token[p]} /\ stored' = {} BY <2>1, <2>3, <2>4 DEF Stored
  <2>6. \A q \in Pubs : q # p => ppc'[q] = ppc[q] /\ ppc[q] # "post"
    BY <1>t, <2>1, <2>4 DEF TypeOK, Stored
  <2>7. ppc'[p] = "post" BY <1>t, <2>1 DEF TypeOK
  <2>8. Seen' BY <2>1, <2>4, <2>5, <2>6, <2>7 DEF Stored, Seen
  <2>9. \A t : Owned(t) /\ t # token[p] => Owned(t)' BY <2>1, <2>6 DEF Owned
  <2>10. token[p] \notin unacked /\ cb.dt # token[p] BY <1>t, <2>3 DEF Ownership
  <2>11. \A t \in unacked' \cup stored' : Owned(t)'
    BY <1>t, <2>1, <2>5, <2>9, <2>10 DEF Ownership
  <2>12. cb'.pc # "idle" => Owned(cb.dt)'
    <3>1. cb.pc # "idle" => \E q \in Pubs : ppc[q] = "spin" /\ token[q] = cb.dt
      BY <1>t DEF Ownership, Owned
    <3>2. cb.pc # "idle" => \E q \in Pubs : ppc'[q] = "spin" /\ token'[q] = cb'.dt
      BY <2>1, <2>6, <2>10, <3>1
    <3> QED BY <2>1, <3>2 DEF Owned
  <2>13. \A q, r \in Pubs : ppc'[q] = "spin" /\ ppc'[r] \in {"spin", "post"}
                              /\ token'[q] = token'[r] => q = r
    BY <1>t, <2>1, <2>6, <2>7 DEF Ownership
  <2>14. \A q \in Pubs : ~(ppc'[q] = "spin" /\ deliveredtoken' = token'[q])
    BY <1>t, <2>1, <2>6, <2>7 DEF Ownership
  <2>15. \A q \in Pubs : ppc'[q] \in {"spin", "post"} => token'[q] \in Tokens
    BY <1>t, <2>1, <2>6, <2>7 DEF Ownership
  <2>16. Ownership'
    BY <1>t, <2>1, <2>5, <2>11, <2>12, <2>13, <2>14, <2>15 DEF Ownership
  <2> QED BY <2>1, <2>2, <2>8, <2>16 DEF Phases
<1>8. ASSUME NEW p \in Pubs, PubPost(p) PROVE Phases' /\ Ownership'
  <2>1. /\ ppc[p] = "post" /\ ppc' = [ppc EXCEPT ![p] = "check"]
        /\ qos1_pubmutex' = qos1_pubmutex + 1
        /\ UNCHANGED <<main, cb, token, deliveredtoken, unacked, stored>>
    BY <1>8 DEF PubPost, PubStep, netVars
  <2>2. main.pc # "setup" BY <1>3, <2>1
  <2>3. Seen BY <1>t, <2>1, <2>2 DEF Phases, Free, Taken, Stored
  <2>4. \A q \in Pubs : ppc'[q] # "post" /\ (ppc'[q] = "spin" <=> ppc[q] = "spin")
    BY <1>t, <2>1, <2>3 DEF Seen, TypeOK
  <2>5. Free' BY <2>1, <2>3, <2>4 DEF Seen, Free
  <2>6. \A t : Owned(t) => Owned(t)' BY <2>1, <2>4 DEF Owned
  <2>7. Ownership' BY <1>t, <2>1, <2>4, <2>6 DEF Ownership
  <2> QED BY <2>1, <2>2, <2>5, <2>7 DEF Phases
<1>9. CASE CbAck
  <2>1. PICK t \in unacked : cb' = [pc |-> "wait", dt |-> t] /\ unacked' = unacked \ {t}
    BY <1>9 DEF CbAck
  <2>2. /\ cb.pc = "idle"
        /\ UNCHANGED <<main, ppc, token, deliveredtoken, qos1_pubmutex, stored>>
    BY <1>9 DEF CbAck, CbAt, semVars
  <2>3. main.pc # "setup" BY <1>t, <2>1 DEF Phases
  <2>4. Phases'
    <3>1. CASE Free BY <2>1, <2>2, <2>3, <3>1 DEF Phases, Free
    <3>2. CASE Stored BY <2>1, <2>2, <2>3, <3>2 DEF Phases, Stored
    <3>3. CASE Seen BY <2>1, <2>2, <2>3, <3>3 DEF Phases, Seen
    <3> QED BY <1>t, <2>2, <2>3, <3>1, <3>2, <3>3 DEF Phases, Taken
  <2>5. \A u : Owned(u) => Owned(u)' BY <2>2 DEF Owned
  <2>6. Owned(t) BY <1>t DEF Ownership
  <2>7. Owned(cb.dt)'
    <3>1. \E q \in Pubs : ppc'[q] = "spin" /\ token'[q] = cb'.dt
      BY <2>1, <2>2, <2>6 DEF Owned
    <3> QED BY <3>1 DEF Owned
  <2>8. /\ \A u \in unacked' \cup stored' : Owned(u)'
        /\ cb'.dt \notin unacked' \cup stored'
        /\ unacked' \cap stored' = {}
    BY <1>t, <2>1, <2>2, <2>5 DEF Ownership
  <2>9. Ownership' BY <1>t, <2>1, <2>2, <2>7, <2>8 DEF Ownership
  <2> QED BY <2>4, <2>9
<1>10. CASE CbWait
  <2>1. /\ cb.pc = "wait" /\ cb' = [cb EXCEPT !.pc = "store"] /\ qos1_pubmutex > 0
        /\ qos1_pubmutex' = qos1_pubmutex - 1
        /\ UNCHANGED <<main, ppc, token, deliveredtoken, unacked, stored>>
    BY <1>10 DEF CbWait, CbAt, netVars
  <2>2. cb'.pc = "store" /\ cb'.dt = cb.dt BY <1>t, <2>1 DEF TypeOK
  <2>3. main.pc # "setup" BY <1>t, <2>1 DEF Phases
  <2>4. Free BY <1>t, <2>1, <2>3 DEF Phases, Taken, Stored, Seen
  <2>5. Taken' BY <2>1, <2>2, <2>4 DEF Free, Taken
  <2>6. \A u : Owned(u) => Owned(u)' BY <2>1 DEF Owned
  <2>7. Owned(cb.dt)'
    <3>1. \E q \in Pubs : ppc'[q] = "spin" /\ token'[q] = cb'.dt
      BY <1>t, <2>1, <2>2 DEF Ownership, Owned
    <3> QED BY <3>1 DEF Owned
  <2>8. Ownership' BY <1>t, <2>1, <2>2, <2>6, <2>7 DEF Ownership
  <2> QED BY <2>1, <2>3, <2>5, <2>8 DEF Phases
<1>11. CASE CbStore
  <2>1. /\ cb.pc = "store" /\ cb' = Idle /\ deliveredtoken' = cb.dt
        /\ stored' = stored \cup {cb.dt}
        /\ UNCHANGED <<main, ppc, token, unacked, qos1_pubmutex>>
    BY <1>11 DEF CbStore, CbAt, netVars, semVars
  <2>2. cb'.pc = "idle" /\ cb'.dt = 0 BY <2>1 DEF Idle
  <2>3. main.pc # "setup" BY <1>t, <2>1 DEF Phases, Idle
  <2>4. Taken BY <1>t, <2>1, <2>3 DEF Phases, Free, Stored, Seen
  <2>5. cb.dt \in Tokens /\ Owned(cb.dt) BY <1>t, <2>1 DEF Ownership, Owned
  <2>6. Stored' BY <2>1, <2>2, <2>4, <2>5 DEF Taken, Stored
  <2>7. \A u : Owned(u) => Owned(u)' BY <2>1 DEF Owned
  <2>8. /\ \A u \in unacked' \cup stored' : Owned(u)'
        /\ cb'.dt \notin unacked' \cup stored'
        /\ unacked' \cap stored' = {}
    BY <1>t, <1>n, <2>1, <2>2, <2>4, <2>5, <2>7 DEF Ownership, Taken, TypeOK
  <2>9. \A q \in Pubs : ppc'[q] = "spin" /\ deliveredtoken' = token'[q] => token'[q] \in stored'
    BY <2>1
  <2>10. Ownership' BY <1>t, <2>1, <2>2, <2>8, <2>9 DEF Ownership
  <2> QED BY <2>1, <2>3, <2>6, <2>10 DEF Phases
<1>12. ASSUME UNCHANGED <<handshakeVars, ppc>>, main'.pc = "setup" <=> main.pc = "setup"
       PROVE  Phases' /\ Ownership'
  BY IInv, <1>12, QuietStep
<1>13. ASSUME \E i \in Subs : Sub(i) PROVE UNCHANGED <<handshakeVars, ppc, main>>
  BY <1>13 DEF Sub, SubAllocReceive, SubAllocRtt, SubSubscribe, SubWait, SubSignal,
               SubUnsubscribe, ExitFailure, handshakeVars, semVars, netVars
<1>14. ASSUME CbMessage \/ CbKill \/ BrokerMessage \/ BrokerKill \/ ConnLost \/ UNCHANGED vars
       PROVE  UNCHANGED <<handshakeVars, ppc, main>>
  BY <1>14 DEF CbMessage, CbKill, BrokerMessage, BrokerKill, ConnLost, NetStep, vars,
               handshakeVars, semVars, netVars
<1>15. ASSUME \/ MainCreateSubs \/ MainJoinSubs \/ MainStats \/ MainJoinPubs \/ MainDestroy
              \/ MainDisconnect
       PROVE  /\ UNCHANGED <<handshakeVars, ppc>>
              /\ main'.pc = "setup" <=> main.pc = "setup"
  BY <1>15, <1>t DEF MainCreateSubs, MainJoinSubs, MainStats, MainJoinPubs, MainDestroy,
               MainDisconnect, MainAt, Goto, Again, TypeOK, handshakeVars, semVars, netVars
<1> QED
  BY <1>1, <1>2, <1>4, <1>5, <1>6, <1>7, <1>8, <1>9, <1>10, <1>11, <1>12, <1>13, <1>14,
     <1>15 DEF Next, Main, Pub, Cb

-----------------------------------------------------------------------------
(* The inductive invariant holds for any number of threads. *)
LEMMA Inductive == Spec => []IInv
<1>1. IInv /\ [Next]_vars => IInv'
  BY TypeStep, CreatedStep, HandshakeStep DEF IInv
<1> QED BY InitIInv, <1>1, PTL DEF Spec

(* The type invariant of the MQTT client. *)
THEOREM TypeCorrect == Spec => []TypeOK
<1>1. IInv => TypeOK BY DEF IInv
<1> QED BY Inductive, <1>1, PTL

(* However many publishers share deliveredtoken and qos1_pubmutex, at most *)
(* one token is being handed over.                                         *)
THEOREM ExclusiveCorrect == Spec => []HandoverExclusive
<1>1. IInv => HandoverExclusive
  <2> SUFFICES ASSUME IInv PROVE HandoverExclusive OBVIOUS
  <2>1. CASE main.pc = "setup"
    BY <2>1 DEF IInv, Phases, Idle, HandoverExclusive
  <2>2. CASE main.pc # "setup"
    BY <2>2 DEF IInv, Phases, Free, Taken, Stored, Seen, HandoverExclusive
  <2> QED BY <2>1, <2>2
<1> QED BY Inductive, <1>1, PTL

(* A publisher goes on only after its own message was acknowledged. *)
THEOREM DeliveryCorrect == Spec => []PostAfterDelivery
<1>1. IInv => PostAfterDelivery
  <2> SUFFICES ASSUME IInv, NEW p \in Pubs, ppc[p] = "post"
               PROVE  token[p] \notin unacked /\ cb.dt # token[p]
    BY DEF PostAfterDelivery
  <2>1. ~Owned(token[p]) BY DEF IInv, Ownership, Owned
  <2>2. token[p] \notin unacked BY <2>1 DEF IInv, Ownership
  <2>3. token[p] # 0 BY CountAssumption DEF IInv, Ownership, Tokens
  <2> QED BY <2>1, <2>2, <2>3 DEF IInv, Ownership
<1> QED BY Inductive, <1>1, PTL

-----------------------------------------------------------------------------
(* One publisher.  Its token also stays until it has acknowledged it. *)
SingleInv ==
    /\ IInv
    /\ TokenVisible
    /\ ppc[1] = "post" => deliveredtoken = token[1]

(* With one publisher, the stronger invariant holds initially. *)
LEMMA SingleInit ==
  ASSUME NUM_PUBS = 1
  PROVE  Init => SingleInv
<1> SUFFICES ASSUME Init PROVE SingleInv OBVIOUS
<1>1. IInv BY InitIInv
<1>2. \A p \in Pubs : ppc[p] = "none" BY DEF Init
<1>3. 1 \in Pubs BY DEF Pubs
<1> QED BY <1>1, <1>2, <1>3 DEF SingleInv, TokenVisible

(* With one publisher, every step keeps the stronger invariant. *)
LEMMA SingleStep ==
  ASSUME NUM_PUBS = 1
  PROVE  SingleInv /\ [Next]_vars => SingleInv'
<1> SUFFICES ASSUME SingleInv, [Next]_vars PROVE SingleInv' OBVIOUS
<1>p. Pubs = {1} BY DEF Pubs
<1>i. IInv /\ IInv'
  BY TypeStep, CreatedStep, HandshakeStep DEF SingleInv, IInv
<1>t. ppc \in [Pubs -> PubPCs] /\ token \in [Pubs -> Tokens \cup {0}]
  BY <1>i DEF IInv, TypeOK
<1> SUFFICES /\ ppc'[1] = "spin" /\ token'[1] \in stored' => deliveredtoken' = token'[1]
             /\ ppc'[1] = "post" => deliveredtoken' = token'[1]
  BY <1>p, <1>i DEF SingleInv, TokenVisible
<1>1. CASE Pub(1)
  <2>1. CASE PubClear(1) BY <1>p, <1>t, <2>1 DEF PubClear, PubStep
  <2>2. CASE PubPublish(1)
    <3>1. CASE status' = "failed"
      BY <1>p, <2>2, <3>1 DEF PubPublish, PubStep, ExitFailure, SingleInv, TokenVisible
    <3>2. CASE status' # "failed"
      <4>1. PICK t \in FreshTokens : token' = [token EXCEPT ![1] = t]
        BY <2>2, <3>2 DEF PubPublish, ExitFailure
      <4>2. stored' = stored /\ ppc'[1] \in {"spin", "check"} /\ token'[1] = t
        BY <1>p, <1>t, <2>2, <3>2, <4>1 DEF PubPublish, PubStep, ExitFailure
      <4>3. token[1] # t BY <1>p DEF FreshTokens
      <4>4. t \notin stored BY <1>i, <1>p, <4>3 DEF IInv, Ownership, Owned
      <4> QED BY <4>2, <4>4
    <3> QED BY <3>1, <3>2
  <2>3. CASE PubSpin(1) BY <1>p, <1>t, <2>3 DEF PubSpin, PubStep
  <2>4. CASE PubSubscribe(1) \/ PubCheck(1) \/ PubUnsubscribe(1) \/ PubPost(1)
    BY <1>p, <1>t, <2>4 DEF PubSubscribe, PubCheck, PubUnsubscribe, PubPost, PubStep,
                            ExitFailure, SingleInv, TokenVisible
  <2> QED BY <1>1, <2>1, <2>2, <2>3, <2>4 DEF Pub
<1>2. CASE CbStore
  <2>1. /\ cb.pc = "store" /\ deliveredtoken' = cb.dt /\ stored' = stored \cup {cb.dt}
        /\ UNCHANGED <<ppc, token, main>>
    BY <1>2 DEF CbStore, CbAt
  <2>2. main.pc # "setup" BY <1>i, <2>1 DEF IInv, Phases, Idle
  <2>3. Taken BY <1>i, <2>1, <2>2 DEF IInv, Phases, Free, Stored, Seen
  <2> QED BY <1>p, <2>1, <2>3 DEF Taken
<1>3. ASSUME UNCHANGED <<ppc, token, deliveredtoken, stored>>
      PROVE  /\ ppc'[1] = "spin" /\ token'[1] \in stored' => deliveredtoken' = token'[1]
             /\ ppc'[1] = "post" => deliveredtoken' = token'[1]
  BY <1>p, <1>3 DEF SingleInv, TokenVisible
<1>4. CASE MainCreatePubs
  <2>1. UNCHANGED <<token, deliveredtoken, stored>> /\
        (ppc' = ppc \/ \E j : ppc' = [ppc EXCEPT ![j] = "subscribe"])
    BY <1>4 DEF MainCreatePubs
  <2> QED BY <1>p, <1>t, <2>1 DEF SingleInv, TokenVisible
<1>5. ASSUME \/ MainSetup \/ MainCreateSubs \/ MainJoinSubs \/ MainStats \/ MainJoinPubs
             \/ MainDestroy \/ MainDisconnect
      PROVE  UNCHANGED <<ppc, token, deliveredtoken, stored>>
  BY <1>5 DEF MainSetup, MainCreateSubs, MainJoinSubs, MainStats, MainJoinPubs, MainDestroy,
              MainDisconnect
<1>6. ASSUME \E i \in Subs : Sub(i) PROVE UNCHANGED <<ppc, token, deliveredtoken, stored>>
  BY <1>6 DEF Sub, SubAllocReceive, SubAllocRtt, SubSubscribe, SubWait, SubSignal,
              SubUnsubscribe, ExitFailure
<1>7. ASSUME \/ CbAck \/ CbWait \/ CbMessage \/ CbKill \/ BrokerMessage \/ BrokerKill
             \/ ConnLost \/ UNCHANGED vars
      PROVE  UNCHANGED <<ppc, token, deliveredtoken, stored>>
  BY <1>7 DEF CbAck, CbWait, CbMessage, CbKill, BrokerMessage, BrokerKill, ConnLost, NetStep,
              vars
<1> QED BY <1>p, <1>1, <1>2, <1>3, <1>4, <1>5, <1>6, <1>7 DEF Next, Main, Cb

(* With one publisher a stored token stays visible until it was seen. *)
THEOREM SingleTokenVisible ==
  ASSUME NUM_PUBS = 1
  PROVE  Spec => []TokenVisible
<1>1. Init => SingleInv BY SingleInit
<1>2. SingleInv /\ [Next]_vars => SingleInv' BY SingleStep
<1>3. SingleInv => TokenVisible BY DEF SingleInv
<1> QED BY <1>1, <1>2, <1>3, PTL DEF Spec

-----------------------------------------------------------------------------
(* Where the handshake of a single publisher stands: when it does not wait *)
(* the slot is empty; when it does, the slot is empty or holds its token.  *)
LEMMA SingleShape ==
  ASSUME NUM_PUBS = 1, SingleInv
  PROVE  /\ Slot = IF Stored \/ Seen THEN deliveredtoken ELSE 0
         /\ ppc[1] \notin {"spin", "post"} => cb.pc = "idle" /\ stored = {}
         /\ ppc[1] \notin {"spin", "post"} => ~Stored /\ ~Seen
         /\ Stored \/ Seen => deliveredtoken = token[1] /\ token[1] \in Tokens
                              /\ ppc[1] \in {"spin", "post"}
<1>p. Pubs = {1} BY DEF Pubs
<1>i. TypeOK /\ Phases /\ Ownership /\ TokenVisible BY DEF SingleInv, IInv
<1>1. Slot = IF Stored \/ Seen THEN deliveredtoken ELSE 0
  <2>1. CASE main.pc = "setup"
    <3>1. ~Stored /\ ~Seen BY <1>p, <1>i, <2>1 DEF Phases, Stored, Seen
    <3> QED BY <2>1, <3>1 DEF Slot
  <2>2. CASE main.pc # "setup"
    BY <1>i, <2>2 DEF Phases, Free, Taken, Stored, Seen, Slot
  <2> QED BY <2>1, <2>2
<1>2. ppc[1] \notin {"spin", "post"} => cb.pc = "idle" /\ stored = {}
  BY <1>p, <1>i DEF Ownership, Owned
<1>3. ppc[1] \notin {"spin", "post"} => ~Stored /\ ~Seen
  BY <1>p, <1>2 DEF Stored, Seen
<1>4. ASSUME Stored
      PROVE  deliveredtoken = token[1] /\ token[1] \in Tokens /\ ppc[1] \in {"spin", "post"}
  <2>1. PICK t \in Tokens : stored = {t} BY <1>4 DEF Stored
  <2>2. ppc[1] = "spin" /\ token[1] = t BY <1>p, <1>i, <2>1 DEF Ownership, Owned
  <2> QED BY <1>p, <1>i, <2>1, <2>2 DEF TokenVisible
<1>5. ASSUME Seen
      PROVE  deliveredtoken = token[1] /\ token[1] \in Tokens /\ ppc[1] \in {"spin", "post"}
  <2>1. ppc[1] = "post" BY <1>p, <1>5 DEF Seen
  <2> QED BY <1>p, <1>i, <2>1 DEF SingleInv, Ownership
<1> QED BY <1>1, <1>2, <1>3, <1>4, <1>5

(* Every step of the client with one publisher is a step of the abstract   *)
(* protocol or leaves its state alone.                                     *)
LEMMA RefineStep ==
  ASSUME NUM_PUBS = 1
  PROVE  SingleInv /\ SingleInv' /\ [Next]_vars => [Protocol!Next]_(Protocol!vars)
<1> SUFFICES ASSUME SingleInv, SingleInv', [Next]_vars
             PROVE  [Protocol!Next]_(Protocol!vars)
  OBVIOUS
<1>p. Pubs = {1} /\ 0 \notin Tokens BY CountAssumption DEF Pubs, Tokens
<1>i. TypeOK /\ NotCreated /\ Phases /\ Ownership BY DEF SingleInv, IInv
<1>t. ppc \in [Pubs -> PubPCs] /\ token \in [Pubs -> Tokens \cup {0}] BY <1>i DEF TypeOK
<1>s. /\ Slot = IF Stored \/ Seen THEN deliveredtoken ELSE 0
      /\ ppc[1] \notin {"spin", "post"} => cb.pc = "idle" /\ stored = {}
      /\ ppc[1] \notin {"spin", "post"} => ~Stored /\ ~Seen
      /\ Stored \/ Seen => deliveredtoken = token[1] /\ token[1] \in Tokens
                           /\ ppc[1] \in {"spin", "post"}
  BY SingleShape
<1> DEFINE Stutter == Outstanding' = Outstanding /\ Slot' = Slot
<1>v. Stutter => [Protocol!Next]_(Protocol!vars) BY DEF Protocol!vars
<1>1. CASE PubPublish(1) /\ status' # "failed" /\ QOS # 0
  <2>1. PICK t \in FreshTokens : token' = [token EXCEPT ![1] = t]
    BY <1>1 DEF PubPublish, ExitFailure
  <2>2. /\ ppc[1] = "publish" /\ ppc'[1] = "spin" /\ token'[1] = t
        /\ UNCHANGED <<main, qos1_pubmutex, cb, deliveredtoken>>
    BY <1>p, <1>t, <1>1, <2>1 DEF PubPublish, PubStep, ExitFailure, semVars
  <2>3. Outstanding = 0 /\ Outstanding' = t /\ t \in Tokens
    BY <2>2 DEF Outstanding, FreshTokens
  <2>4. Slot' = Slot BY <2>2 DEF Slot
  <2> QED BY <2>3, <2>4 DEF Protocol!Next, Protocol!Publish
<1>2. CASE CbStore
  <2>1. /\ cb.pc = "store" /\ cb' = Idle /\ deliveredtoken' = cb.dt
        /\ UNCHANGED <<ppc, token, main, qos1_pubmutex>>
    BY <1>2 DEF CbStore, CbAt, semVars
  <2>2. main.pc # "setup" BY <1>i, <2>1 DEF Phases, Idle
  <2>3. qos1_pubmutex = 0 BY <1>i, <2>1, <2>2 DEF Phases, Free, Taken, Stored, Seen
  <2>4. ppc[1] = "spin" /\ token[1] = cb.dt /\ cb.dt \in Tokens
    BY <1>p, <1>i, <2>1 DEF Ownership, Owned
  <2>5. Outstanding = cb.dt /\ Outstanding' = Outstanding BY <2>1, <2>4 DEF Outstanding
  <2>6. Slot = 0 BY <2>1 DEF Slot
  <2>7. Slot' = cb.dt BY <2>1, <2>2, <2>3 DEF Slot, Idle
  <2> QED BY <1>p, <2>4, <2>5, <2>6, <2>7 DEF Protocol!Next, Protocol!Deliver
<1>3. CASE PubPost(1)
  <2>1. /\ ppc[1] = "post" /\ ppc'[1] = "check" /\ qos1_pubmutex' = qos1_pubmutex + 1
        /\ UNCHANGED <<main, cb, token, deliveredtoken>>
    BY <1>p, <1>t, <1>3 DEF PubPost, PubStep
  <2>2. main.pc # "setup" BY <1>p, <1>i, <2>1 DEF Phases
  <2>3. Seen BY <1>p, <1>i, <2>1, <2>2 DEF Phases, Free, Taken, Stored
  <2>4. Slot = token[1] /\ Outstanding = token[1] /\ token[1] \in Tokens
    BY <1>s, <2>1, <2>3 DEF Outstanding
  <2>5. Slot' = 0 /\ Outstanding' = 0 BY <2>1, <2>3 DEF Slot, Outstanding, Seen
  <2> QED BY <1>p, <2>4, <2>5 DEF Protocol!Next, Protocol!Acknowledge
<1>4. CASE PubSpin(1)
  <2>1. /\ ppc[1] = "spin" /\ ppc'[1] = "post"
        /\ UNCHANGED <<main, cb, token, deliveredtoken, qos1_pubmutex>>
    BY <1>p, <1>t, <1>4 DEF PubSpin, PubStep, semVars
  <2> QED BY <1>v, <2>1 DEF Outstanding, Slot
<1>5. CASE PubClear(1)
  <2>1. /\ ppc[1] = "clear" /\ ppc'[1] = "publish"
        /\ UNCHANGED <<main, cb, token, qos1_pubmutex>>
    BY <1>p, <1>t, <1>5 DEF PubClear, PubStep, semVars
  <2>2. Slot = 0 BY <1>s, <2>1
  <2>3. main.pc # "setup" BY <1>p, <1>i, <2>1 DEF Phases
  <2>4. Free BY <1>i, <1>s, <2>1, <2>3 DEF Phases, Taken
  <2>5. Slot' = 0 BY <2>1, <2>4 DEF Slot, Free
  <2> QED BY <1>v, <2>1, <2>2, <2>5 DEF Outstanding
<1>6. CASE PubSubscribe(1) \/ PubCheck(1) \/ PubUnsubscribe(1)
  <2>1. /\ ppc[1] \notin {"spin", "post"} /\ ppc'[1] \notin {"spin", "post"}
        /\ UNCHANGED <<main, cb, token, deliveredtoken, qos1_pubmutex>>
    BY <1>p, <1>t, <1>6 DEF PubSubscribe, PubCheck, PubUnsubscribe, PubStep, ExitFailure,
                            semVars
  <2> QED BY <1>v, <2>1 DEF Outstanding, Slot
<1>7. CASE PubPublish(1) /\ (status' = "failed" \/ QOS = 0)
  <2>1. /\ ppc[1] \notin {"spin", "post"} /\ ppc'[1] \notin {"spin", "post"}
        /\ UNCHANGED <<main, cb, deliveredtoken, qos1_pubmutex>>
    BY <1>p, <1>t, <1>7 DEF PubPublish, PubStep, ExitFailure, semVars
  <2> QED BY <1>v, <2>1 DEF Outstanding, Slot
<1>8. CASE CbWait
  <2>1. /\ cb.pc = "wait" /\ qos1_pubmutex > 0 /\ cb' = [cb EXCEPT !.pc = "store"]
        /\ UNCHANGED <<ppc, token>>
    BY <1>8 DEF CbWait, CbAt
  <2>2. cb'.pc = "store" BY <1>i, <2>1 DEF TypeOK
  <2>3. Slot = 0 /\ Slot' = 0 BY <2>1, <2>2 DEF Slot
  <2> QED BY <1>v, <2>1, <2>3 DEF Outstanding
<1>9. CASE CbAck
  <2>1. /\ cb.pc = "idle" /\ \E t : cb' = [pc |-> "wait", dt |-> t]
        /\ UNCHANGED <<ppc, token, main, deliveredtoken, qos1_pubmutex>>
    BY <1>9 DEF CbAck, CbAt, semVars
  <2> QED BY <1>v, <2>1 DEF Outstanding, Slot
<1>10. CASE MainSetup
  <2>1. /\ main.pc = "setup" /\ UNCHANGED <<ppc, token, cb, deliveredtoken>>
        /\ (main' = main \/ qos1_pubmutex' = 1)
    BY <1>10 DEF MainSetup, MainAt
  <2>2. Slot = 0 /\ Slot' = 0 BY <2>1 DEF Slot
  <2> QED BY <1>v, <2>1, <2>2 DEF Outstanding
<1>11. CASE MainCreatePubs
  <2>1. /\ main.pc = "create_pubs" /\ main'.pc # "setup"
        /\ UNCHANGED <<token, cb, deliveredtoken, qos1_pubmutex>>
        /\ \/ ppc' = ppc
           \/ main.n < 1 /\ ppc' = [ppc EXCEPT ![main.n + 1] = "subscribe"]
    BY <1>11, <1>i DEF MainCreatePubs, MainAt, Goto, Again, semVars, TypeOK
  <2>2. Slot' = Slot BY <2>1 DEF Slot
  <2>3. Outstanding' = Outstanding
    <3>1. CASE ppc' = ppc BY <2>1, <3>1 DEF Outstanding
    <3>2. CASE main.n < 1 /\ ppc' = [ppc EXCEPT ![main.n + 1] = "subscribe"]
      <4>1. main.n = 0 BY <1>i, <3>2 DEF TypeOK
      <4>2. ppc[1] = "none" BY <1>p, <1>i, <2>1, <4>1 DEF NotCreated
      <4>3. ppc'[1] = "subscribe" BY <1>p, <1>t, <3>2, <4>1
      <4> QED BY <4>2, <4>3 DEF Outstanding
    <3> QED BY <2>1, <3>1, <3>2
  <2> QED BY <1>v, <2>2, <2>3
<1>12. ASSUME /\ UNCHANGED <<ppc, token, cb, deliveredtoken, qos1_pubmutex>>
              /\ main'.pc = "setup" <=> main.pc = "setup"
       PROVE  [Protocol!Next]_(Protocol!vars)
  BY <1>v, <1>12 DEF Outstanding, Slot
<1>13. ASSUME \/ MainCreateSubs \/ MainJoinSubs \/ MainStats \/ MainJoinPubs \/ MainDestroy
              \/ MainDisconnect
       PROVE  /\ UNCHANGED <<ppc, token, cb, deliveredtoken, qos1_pubmutex>>
              /\ main'.pc = "setup" <=> main.pc = "setup"
  BY <1>13, <1>i DEF MainCreateSubs, MainJoinSubs, MainStats, MainJoinPubs, MainDestroy,
                     MainDisconnect, MainAt, Goto, Again, TypeOK, semVars
<1>14. ASSUME \E i \in Subs : Sub(i)
       PROVE  UNCHANGED <<ppc, token, cb, deliveredtoken, qos1_pubmutex, main>>
  BY <1>14 DEF Sub, SubAllocReceive, SubAllocRtt, SubSubscribe, SubWait, SubSignal,
               SubUnsubscribe, ExitFailure, semVars
<1>15. ASSUME CbMessage \/ CbKill \/ BrokerMessage \/ BrokerKill \/ ConnLost \/ UNCHANGED vars
       PROVE  UNCHANGED <<ppc, token, cb, deliveredtoken, qos1_pubmutex, main>>
  BY <1>15 DEF CbMessage, CbKill, BrokerMessage, BrokerKill, ConnLost, NetStep, vars, semVars
<1> HIDE DEF Stutter
<1> QED
  BY <1>p, <1>1, <1>2, <1>3, <1>4, <1>5, <1>6, <1>7, <1>8, <1>9, <1>10, <1>11, <1>12, <1>13,
     <1>14, <1>15 DEF Next, Main, Pub, Cb

(* With one publisher the semaphore and the variable implement the         *)
(* stop-and-wait protocol: messages are delivered and acknowledged in      *)
(* turn, none twice and none skipped.                                      *)
THEOREM SingleStopAndWait ==
  ASSUME NUM_PUBS = 1
  PROVE  Spec => Protocol!Spec
<1>1. Init => SingleInv BY SingleInit
<1>2. SingleInv /\ [Next]_vars => SingleInv' BY SingleStep
<1>3. Init => Protocol!Init
  <2> SUFFICES ASSUME Init PROVE Outstanding = 0 /\ Slot = 0 BY DEF Protocol!Init
  <2>1. 1 \in Pubs BY DEF Pubs
  <2> QED BY <2>1 DEF Init, Outstanding, Slot
<1>4. SingleInv /\ SingleInv' /\ [Next]_vars => [Protocol!Next]_(Protocol!vars)
  BY RefineStep
<1> QED BY <1>1, <1>2, <1>3, <1>4, PTL DEF Spec, Protocol!Spec

-----------------------------------------------------------------------------
(* The subscribers.  main creates each of them once and joins the last.    *)
SubsNotCreated ==
    /\ main.pc = "setup" => \A i \in Subs : spc[i] = "none"
    /\ main.pc = "create_subs" => \A i \in Subs : i > main.n => spc[i] = "none"

SubsJoined == main.pc \in {"stats", "join_pubs", "destroy", "disconnect"}
              \/ (main.pc = "join_subs" /\ main.n > 0)

PubsJoined == main.pc \in {"destroy", "disconnect"} \/ (main.pc = "join_pubs" /\ main.n > 0)

LastJoined ==
    /\ SubsJoined /\ NUM_SUBS > 0 => spc[NUM_SUBS] = "done"
    /\ PubsJoined /\ NUM_PUBS > 0 => ppc[NUM_PUBS] = "done"

(* Behind sem_wait(&done_receiving), which is posted once, with the message*)
(* after the last sample: one subscriber gets there.                       *)
Past(i) == spc[i] \in {"signal", "unsubscribe", "done"}

OnePasses ==
    /\ done_receiving <= 1
    /\ done_receiving = 1 \/ (\E i \in Subs : Past(i)) => it > MAX_ITER
    /\ done_receiving = 1 => \A i \in Subs : ~Past(i)
    /\ \A i, j \in Subs : Past(i) /\ Past(j) => i = j

(* A message is handled once, and none is there before a subscriber waits. *)
Waited == \E i \in Subs : spc[i] = "wait" \/ Past(i)

Messages ==
    /\ it <= msgs
    /\ topic_sub \/ msgs > 0 => Waited
    /\ main.pc = "setup" => kills = 0 /\ ~kill_sub
    /\ kills_seen <= kills

ThreadInv == SubsNotCreated /\ LastJoined /\ OnePasses /\ Messages

(* The steps of the subscribers, and what else they change. *)
LEMMA SubMoves ==
  ASSUME TypeOK, NEW i \in Subs, Sub(i)
  PROVE  /\ UNCHANGED <<main, ppc, cb, kill_sub, msgs, kills, kills_seen, it, live>>
         /\ \/ spc' = spc /\ UNCHANGED <<done_receiving, topic_sub, misused, stop_publish>>
            \/ /\ spc[i] = "alloc_receive" /\ spc' = [spc EXCEPT ![i] = "alloc_rtt"]
               /\ UNCHANGED <<done_receiving, topic_sub, misused, stop_publish>>
            \/ /\ spc[i] = "alloc_rtt" /\ spc' = [spc EXCEPT ![i] = "subscribe"]
               /\ UNCHANGED <<done_receiving, topic_sub, misused, stop_publish>>
            \/ /\ spc[i] = "subscribe" /\ spc' = [spc EXCEPT ![i] = "wait"]
               /\ UNCHANGED <<done_receiving, misused, stop_publish>>
            \/ /\ spc[i] = "wait" /\ spc' = [spc EXCEPT ![i] = "signal"]
               /\ done_receiving > 0 /\ done_receiving' = done_receiving - 1
               /\ Uses("done_receiving") /\ UNCHANGED <<topic_sub, stop_publish>>
            \/ /\ spc[i] = "signal" /\ spc' = [spc EXCEPT ![i] = "unsubscribe"]
               /\ Uses("stop_publish") /\ UNCHANGED <<done_receiving, topic_sub>>
            \/ /\ spc[i] = "unsubscribe" /\ spc' = [spc EXCEPT ![i] = "done"]
               /\ UNCHANGED <<done_receiving, misused, stop_publish>>
<1>1. CASE SubAllocReceive(i) BY <1>1 DEF SubAllocReceive, SubStep, semVars, netVars, bufVars
<1>2. CASE SubAllocRtt(i) BY <1>2 DEF SubAllocRtt, SubStep, semVars, netVars, bufVars
<1>3. CASE SubSubscribe(i)
  BY <1>3 DEF SubSubscribe, SubStep, semVars, netVars, bufVars, ExitFailure
<1>4. CASE SubWait(i) BY <1>4 DEF SubWait, SubStep, semVars, netVars, bufVars
<1>5. CASE SubSignal(i) BY <1>5 DEF SubSignal, SubStep, semVars, netVars, bufVars
<1>6. CASE SubUnsubscribe(i)
  BY <1>6 DEF SubUnsubscribe, SubStep, semVars, netVars, bufVars, ExitFailure
<1> QED BY <1>1, <1>2, <1>3, <1>4, <1>5, <1>6 DEF Sub

(* The threads stand where main, the samples and the messages allow.       *)
LEMMA ThreadStep == IInv /\ ThreadInv /\ [Next]_vars => ThreadInv'
<1> SUFFICES ASSUME IInv, ThreadInv, [Next]_vars PROVE ThreadInv' OBVIOUS
<1>t. TypeOK /\ SubsNotCreated /\ LastJoined /\ OnePasses /\ Messages
  BY DEF IInv, ThreadInv
<1>c. NUM_SUBS \in Nat /\ NUM_PUBS \in Nat /\ MAX_ITER \in Nat BY CountAssumption
<1>y. /\ spc \in [Subs -> SubPCs] /\ ppc \in [Pubs -> PubPCs] /\ main.n \in Nat /\ main.pc \in MainPCs
      /\ it \in Nat /\ msgs \in Nat /\ kills \in Nat /\ kills_seen \in Nat /\ done_receiving \in Nat
      /\ main \in [pc: MainPCs, n: Nat]
  BY <1>t DEF TypeOK
<1> HIDE DEF TypeOK
<1>1. ASSUME NEW i \in Subs, Sub(i) PROVE ThreadInv'
  <2>1. /\ UNCHANGED <<main, ppc, msgs, kills, kill_sub, kills_seen, it>>
        /\ \/ spc' = spc /\ UNCHANGED <<done_receiving, topic_sub>>
           \/ /\ spc[i] \in {"alloc_receive", "alloc_rtt"}
              /\ (\E l \in {"alloc_rtt", "subscribe"} : spc' = [spc EXCEPT ![i] = l])
              /\ UNCHANGED <<done_receiving, topic_sub>>
           \/ spc[i] = "subscribe" /\ spc' = [spc EXCEPT ![i] = "wait"] /\ UNCHANGED done_receiving
           \/ /\ spc[i] = "wait" /\ spc' = [spc EXCEPT ![i] = "signal"]
              /\ done_receiving > 0 /\ done_receiving' = done_receiving - 1
              /\ UNCHANGED topic_sub
           \/ /\ spc[i] \in {"signal", "unsubscribe"}
              /\ \E l \in {"unsubscribe", "done"} : spc' = [spc EXCEPT ![i] = l]
              /\ UNCHANGED done_receiving
    BY <1>t, <1>1, SubMoves
  <2>2. SubsNotCreated' BY <1>t, <1>y, <2>1 DEF SubsNotCreated
  <2>3. LastJoined'
    <3>1. spc[i] # "done" \/ spc' = spc BY <2>1
    <3>2. \A j \in Subs : spc[j] = "done" => spc'[j] = "done" BY <1>y, <2>1, <3>1
    <3>3. NUM_SUBS > 0 => NUM_SUBS \in Subs BY <1>c DEF Subs
    <3> QED BY <1>t, <2>1, <3>2, <3>3 DEF LastJoined, SubsJoined, PubsJoined
  <2>4. OnePasses'
    BY <1>t, <1>y, <1>c, <2>1 DEF OnePasses, Past
  <2>5. Messages'
    <3>1. Waited => Waited' BY <1>y, <2>1 DEF Waited, Past
    <3>2. topic_sub' = topic_sub \/ Waited'
      BY <1>y, <2>1 DEF Waited, Past
    <3> QED BY <1>t, <2>1, <3>1, <3>2 DEF Messages
  <2> QED BY <2>2, <2>3, <2>4, <2>5 DEF ThreadInv
<1>2. CASE MainSetup \/ MainCreateSubs
  <2>1. CASE MainSetup
    <3>1. /\ main.pc = "setup" /\ UNCHANGED <<spc, ppc, it, topic_sub, msgs, kills, kill_sub, kills_seen>>
          /\ main' = main \/ (main' = [pc |-> "create_subs", n |-> 0])
          /\ done_receiving' = done_receiving \/ done_receiving' = 0
      BY <2>1 DEF MainSetup, MainAt, Goto, bufVars, semVars, netVars
    <3>2. SubsNotCreated' /\ LastJoined'
      BY <1>t, <3>1 DEF SubsNotCreated, LastJoined, SubsJoined, PubsJoined
    <3>3. OnePasses' /\ Messages'
      BY <1>t, <1>y, <3>1 DEF OnePasses, Messages, Past, Waited
    <3> QED BY <3>2, <3>3 DEF ThreadInv
  <2>2. CASE MainCreateSubs
    <3>1. /\ main.pc = "create_subs"
          /\ UNCHANGED <<ppc, it, topic_sub, msgs, kills, kill_sub, kills_seen, done_receiving>>
          /\ \/ /\ main.n < NUM_SUBS /\ spc' = [spc EXCEPT ![main.n + 1] = "alloc_receive"]
                /\ main' = [main EXCEPT !.n = main.n + 1]
             \/ main' = [pc |-> "create_pubs", n |-> 0] /\ spc' = spc
      BY <2>2 DEF MainCreateSubs, MainAt, Goto, Again, bufVars, semVars, netVars
    <3>2. CASE spc' = spc
      <4>1. main'.pc = main.pc \/ main'.pc = "create_pubs" BY <1>y, <3>1
      <4>2. main'.n >= main.n \/ main'.pc = "create_pubs" BY <1>y, <3>1
      <4>3. SubsNotCreated' BY <1>t, <1>y, <3>1, <3>2, <4>1, <4>2 DEF SubsNotCreated, Subs
      <4>4. LastJoined' /\ OnePasses' /\ Messages'
        BY <1>t, <1>y, <3>1, <3>2, <4>1
           DEF LastJoined, SubsJoined, PubsJoined, OnePasses, Messages, Past, Waited
      <4> QED BY <4>3, <4>4 DEF ThreadInv
    <3>3. CASE spc' # spc
      <4>1. /\ main.n < NUM_SUBS /\ spc' = [spc EXCEPT ![main.n + 1] = "alloc_receive"]
            /\ main'.pc = "create_subs" /\ main'.n = main.n + 1 /\ main.n + 1 \in Subs
        BY <1>y, <1>c, <3>1, <3>3 DEF Subs
      <4>2. spc[main.n + 1] = "none" BY <1>t, <1>y, <3>1, <4>1 DEF SubsNotCreated
      <4>3. \A i \in Subs : Past(i)' <=> Past(i) BY <1>y, <4>1, <4>2 DEF Past
      <4>4. \A i \in Subs : spc'[i] = "wait" <=> spc[i] = "wait" BY <1>y, <4>1, <4>2
      <4>5. SubsNotCreated' BY <1>t, <1>y, <3>1, <4>1 DEF SubsNotCreated, Subs
      <4>6. LastJoined' BY <4>1 DEF LastJoined, SubsJoined, PubsJoined
      <4>7. OnePasses' BY <1>t, <3>1, <4>3 DEF OnePasses
      <4>8. Waited' <=> Waited BY <4>3, <4>4 DEF Waited
      <4>9. Messages' BY <1>t, <3>1, <4>1, <4>8 DEF Messages
      <4> QED BY <4>5, <4>6, <4>7, <4>9 DEF ThreadInv
    <3> QED BY <3>2, <3>3
  <2> QED BY <1>2, <2>1, <2>2
<1>3. CASE MainCreatePubs \/ MainJoinSubs \/ MainStats \/ MainJoinPubs \/ MainDestroy \/ MainDisconnect
  <2>1. /\ main.pc \notin {"setup", "create_subs"}
        /\ main'.pc \notin {"setup", "create_subs"}
        /\ UNCHANGED <<spc, it, msgs, kills, kill_sub, kills_seen, done_receiving, topic_sub>>
    BY <1>3, <1>y DEF MainCreatePubs, MainJoinSubs, MainStats, MainJoinPubs, MainDestroy, MainDisconnect,
           MainAt, Goto, Again, bufVars, semVars, netVars
  <2>2. SubsNotCreated' BY <2>1 DEF SubsNotCreated
  <2>3. OnePasses' BY <1>t, <2>1 DEF OnePasses, Past
  <2>4. Messages' BY <1>t, <2>1 DEF Messages, Past, Waited
  <2>5. LastJoined'
    <3>1. CASE MainCreatePubs
      <4>1. main'.pc \in {"create_pubs", "join_subs"} /\ (main'.pc = "join_subs" => main'.n = 0)
        BY <3>1, <1>y DEF MainCreatePubs, MainAt, Goto, Again
      <4> QED BY <4>1 DEF LastJoined, SubsJoined, PubsJoined
    <3>2. CASE MainJoinSubs
      <4>1. /\ main.pc = "join_subs" /\ ppc' = ppc
            /\ \/ main'.pc = "join_subs" /\ (main.n = 0 => spc[NUM_SUBS] = "done")
               \/ main'.pc = "stats" /\ main.n >= NUM_SUBS
        BY <3>2, <1>y, <1>c DEF MainJoinSubs, MainAt, Goto, Again
      <4>2. NUM_SUBS > 0 => spc[NUM_SUBS] = "done"
        BY <1>t, <1>y, <1>c, <4>1 DEF LastJoined, SubsJoined
      <4> QED BY <2>1, <4>1, <4>2 DEF LastJoined, SubsJoined, PubsJoined
    <3>3. CASE MainJoinPubs
      <4>1. /\ main.pc = "join_pubs" /\ ppc' = ppc
            /\ \/ main'.pc = "join_pubs" /\ (main.n = 0 => ppc[NUM_PUBS] = "done")
               \/ main'.pc = "destroy" /\ main.n >= NUM_PUBS
        BY <3>3, <1>y, <1>c DEF MainJoinPubs, MainAt, Goto, Again
      <4>2. NUM_PUBS > 0 => ppc[NUM_PUBS] = "done"
        BY <1>t, <1>y, <1>c, <4>1 DEF LastJoined, PubsJoined
      <4> QED BY <1>t, <2>1, <4>1, <4>2 DEF LastJoined, SubsJoined, PubsJoined
    <3>4. CASE MainStats
      <4>1. main.pc = "stats" /\ ppc' = ppc /\ main'.pc = "join_pubs" /\ main'.n = 0
        BY <3>4 DEF MainStats, MainAt, Goto
      <4> QED BY <1>t, <2>1, <4>1 DEF LastJoined, SubsJoined, PubsJoined
    <3>5. CASE MainDestroy \/ MainDisconnect
      <4>1. main.pc \in {"destroy", "disconnect"} /\ ppc' = ppc /\ main'.pc \in {"destroy", "disconnect"}
        BY <3>5, <1>y DEF MainDestroy, MainDisconnect, MainAt, Goto, Again
      <4> QED BY <1>t, <2>1, <4>1 DEF LastJoined, SubsJoined, PubsJoined
    <3> QED BY <1>3, <3>1, <3>2, <3>3, <3>4, <3>5
  <2> QED BY <2>2, <2>3, <2>4, <2>5 DEF ThreadInv
<1>4. ASSUME NEW p \in Pubs, Pub(p) PROVE ThreadInv'
  <2>1. /\ UNCHANGED <<main, spc, it, msgs, kills, kills_seen, done_receiving, topic_sub>>
        /\ ppc[p] # "none" /\ (ppc' = ppc \/ (ppc[p] # "done" /\ \E l : ppc' = [ppc EXCEPT ![p] = l]))
    BY <1>4 DEF Pub, PubSubscribe, PubClear, PubPublish, PubSpin, PubPost, PubCheck,
                PubUnsubscribe, PubStep, ExitFailure, bufVars, semVars, netVars
  <2>2. main.pc # "setup" BY <2>1 DEF IInv, NotCreated
  <2>3. \A q \in Pubs : ppc[q] = "done" => ppc'[q] = "done" BY <1>y, <2>1
  <2>4. NUM_PUBS > 0 => NUM_PUBS \in Pubs BY <1>c DEF Pubs
  <2>5. LastJoined' BY <1>t, <2>1, <2>3, <2>4 DEF LastJoined, SubsJoined, PubsJoined
  <2>6. SubsNotCreated' /\ OnePasses' /\ Messages'
    BY <1>t, <2>1, <2>2 DEF SubsNotCreated, OnePasses, Messages, Past, Waited
  <2> QED BY <2>5, <2>6 DEF ThreadInv
<1>5. CASE CbMessage
  <2>1. /\ UNCHANGED <<main, spc, ppc, msgs, kills, kill_sub, kills_seen, topic_sub>>
        /\ it < msgs /\ it' = it + 1
        /\ done_receiving' = IF it = MAX_ITER THEN done_receiving + 1 ELSE done_receiving
    BY <1>5 DEF CbMessage, netVars
  <2>2. SubsNotCreated' /\ LastJoined' /\ Messages'
    BY <1>t, <1>y, <2>1 DEF SubsNotCreated, LastJoined, SubsJoined, PubsJoined, Messages, Past, Waited
  <2>3. OnePasses' BY <1>t, <1>y, <1>c, <2>1 DEF OnePasses, Past
  <2> QED BY <2>2, <2>3 DEF ThreadInv
<1>6. CASE BrokerMessage \/ BrokerKill \/ CbKill
  <2>1. /\ UNCHANGED <<main, spc, ppc, it, done_receiving, topic_sub, kill_sub>>
        /\ msgs' = msgs \/ (msgs' = msgs + 1 /\ topic_sub)
        /\ kills' = kills \/ (kills' = kills + 1 /\ kill_sub)
        /\ kills_seen' = kills_seen \/ (kills_seen < kills /\ kills_seen' = kills_seen + 1)
        /\ kills_seen' = kills_seen \/ kills' = kills
    BY <1>6 DEF BrokerMessage, BrokerKill, CbKill, NetStep, netVars, semVars, bufVars
  <2>2. SubsNotCreated' /\ LastJoined' /\ OnePasses'
    BY <1>t, <2>1 DEF SubsNotCreated, LastJoined, SubsJoined, PubsJoined, OnePasses, Past
  <2>3. Messages' BY <1>t, <1>y, <2>1 DEF Messages, Past, Waited
  <2> QED BY <2>2, <2>3 DEF ThreadInv
<1>7. CASE CbAck \/ CbWait \/ CbStore \/ ConnLost \/ UNCHANGED vars
  <2>1. UNCHANGED <<main, spc, ppc, it, done_receiving, topic_sub, msgs, kills, kill_sub, kills_seen>>
    BY <1>7 DEF CbAck, CbWait, CbStore, ConnLost, NetStep, vars, netVars, semVars, bufVars
  <2> QED
    BY <1>t, <2>1 DEF ThreadInv, SubsNotCreated, LastJoined, SubsJoined, PubsJoined, OnePasses, Past,
                      Messages, Waited
<1> QED
  BY <1>1, <1>2, <1>3, <1>4, <1>5, <1>6, <1>7 DEF Next, Main, Cb

(* Nothing has started yet. *)
LEMMA ThreadInit == Init => ThreadInv
BY CountAssumption
   DEF Init, ThreadInv, SubsNotCreated, LastJoined, SubsJoined, PubsJoined, OnePasses, Past,
       Messages, Waited

(* The threads' invariant holds for any number of them. *)
LEMMA ThreadsInductive == Spec => [](IInv /\ ThreadInv)
<1>1. (IInv /\ ThreadInv) /\ [Next]_vars => (IInv /\ ThreadInv)'
  BY TypeStep, CreatedStep, HandshakeStep, ThreadStep DEF IInv
<1> QED BY InitIInv, ThreadInit, <1>1, PTL DEF Spec

-----------------------------------------------------------------------------
(* One subscriber.  Its two buffers are allocated before it subscribes, so *)
(* every sample is written to them.                                        *)
Recorded ==
    /\ Len(samples) = IF it < MAX_ITER THEN it ELSE MAX_ITER
    /\ \A j \in 1..Len(samples) : samples[j] = <<receive_ts, rtt_ts>>

(* With one subscriber every step keeps the samples where they belong. *)
LEMMA RecordedStep ==
  ASSUME NUM_SUBS = 1
  PROVE  IInv /\ ThreadInv /\ Recorded /\ [Next]_vars => Recorded'
<1> SUFFICES ASSUME IInv, ThreadInv, Recorded, [Next]_vars PROVE Recorded' OBVIOUS
<1>y. it \in Nat /\ msgs \in Nat /\ MAX_ITER \in Nat /\ Subs = {1}
  BY CountAssumption DEF IInv, TypeOK, Subs
<1>1. CASE UNCHANGED <<samples, it, receive_ts, rtt_ts>> BY <1>1 DEF Recorded
<1>2. CASE CbMessage
  <2>1. /\ UNCHANGED <<receive_ts, rtt_ts>> /\ it' = it + 1
        /\ samples' = IF it < MAX_ITER THEN Append(samples, <<receive_ts, rtt_ts>>) ELSE samples
    BY <1>2 DEF CbMessage
  <2>2. CASE it >= MAX_ITER BY <1>y, <2>1, <2>2 DEF Recorded
  <2>3. CASE it < MAX_ITER
    <3>1. PICK S : S = (Subs \cup {0}) \X (Subs \cup {0}) OBVIOUS
    <3>2. PICK z : z = <<receive_ts, rtt_ts>> OBVIOUS
    <3>3. z \in S /\ samples \in Seq(S) BY <3>1, <3>2 DEF IInv, TypeOK
    <3>4. samples' = Append(samples, z) BY <2>1, <2>3, <3>2
    <3>5. Len(samples) = it BY <2>3 DEF Recorded
    <3>6. Len(samples') = it + 1 BY <3>3, <3>4, <3>5
    <3>7. \A j \in 1..it : samples[j] = z BY <3>2, <3>5 DEF Recorded
    <3>8. \A j \in 1..(it + 1) : samples'[j] = z BY <1>y, <3>3, <3>4, <3>5, <3>7
    <3>9. Len(samples') = IF it' < MAX_ITER THEN it' ELSE MAX_ITER BY <1>y, <2>1, <2>3, <3>6
    <3>10. <<receive_ts', rtt_ts'>> = z BY <2>1, <3>2
    <3> QED BY <3>6, <3>8, <3>9, <3>10 DEF Recorded
  <2> QED BY <1>y, <2>2, <2>3
<1>3. ASSUME NEW i \in Subs, SubAllocReceive(i) \/ SubAllocRtt(i) PROVE Recorded'
  <2>1. UNCHANGED <<samples, it>> /\ spc[i] \in {"alloc_receive", "alloc_rtt"}
    BY <1>3 DEF SubAllocReceive, SubAllocRtt, SubStep
  <2>2. ~Waited BY <1>y, <2>1 DEF Waited, Past
  <2>3. it = 0 BY <1>y, <2>2 DEF ThreadInv, Messages
  <2>4. Len(samples) = 0 BY <1>y, <2>3 DEF Recorded
  <2> QED BY <1>y, <2>1, <2>3, <2>4 DEF Recorded
<1>4. ASSUME NEW i \in Subs, SubSubscribe(i) \/ SubWait(i) \/ SubSignal(i) \/ SubUnsubscribe(i)
      PROVE  UNCHANGED <<samples, it, receive_ts, rtt_ts>>
  BY <1>4 DEF SubSubscribe, SubWait, SubSignal, SubUnsubscribe, ExitFailure, bufVars
<1>5. ASSUME NEW p \in Pubs, Pub(p) PROVE UNCHANGED <<samples, it, receive_ts, rtt_ts>>
  BY <1>5 DEF Pub, PubSubscribe, PubClear, PubPublish, PubSpin, PubPost, PubCheck,
              PubUnsubscribe, ExitFailure, bufVars
<1>6. ASSUME Main \/ CbAck \/ CbWait \/ CbStore \/ CbKill \/ BrokerMessage \/ BrokerKill
             \/ ConnLost \/ UNCHANGED vars
      PROVE  UNCHANGED <<samples, it, receive_ts, rtt_ts>>
  BY <1>6 DEF Main, MainSetup, MainCreateSubs, MainCreatePubs, MainJoinSubs, MainStats, MainJoinPubs,
              MainDestroy, MainDisconnect, CbAck, CbWait, CbStore, CbKill, BrokerMessage,
              BrokerKill, ConnLost, NetStep, bufVars, vars
<1> QED BY <1>1, <1>2, <1>3, <1>4, <1>5, <1>6 DEF Next, Cb, Sub

(* With one subscriber, for any number of publishers, samples and          *)
(* messages: when main computes the statistics the buffers are full.       *)
THEOREM SingleSamplesComplete ==
  ASSUME NUM_SUBS = 1
  PROVE  Spec => []SamplesComplete
<1>1. Init => Recorded BY CountAssumption DEF Init, Recorded
<1>2. IInv /\ ThreadInv /\ Recorded /\ [Next]_vars => Recorded' BY RecordedStep
<1>3. IInv /\ ThreadInv /\ Recorded => SamplesComplete
  <2> SUFFICES ASSUME IInv, ThreadInv, Recorded,
                      main.pc \in {"stats", "join_pubs", "destroy", "disconnect"}
               PROVE  /\ Len(samples) = MAX_ITER
                      /\ \A j \in 1..MAX_ITER : samples[j] = <<receive_ts, rtt_ts>>
    BY DEF SamplesComplete
  <2>1. Past(1) /\ 1 \in Subs BY DEF ThreadInv, LastJoined, SubsJoined, Past, Subs
  <2>2. it > MAX_ITER BY <2>1 DEF ThreadInv, OnePasses
  <2>3. Len(samples) = MAX_ITER BY <2>2, CountAssumption DEF Recorded, IInv, TypeOK
  <2> QED BY <2>3 DEF Recorded
<1> QED BY ThreadsInductive, <1>1, <1>2, <1>3, PTL DEF Spec

-----------------------------------------------------------------------------
(* At most one publisher, any number of subscribers. *)
Stopped == \E p \in Pubs : ppc[p] \in {"unsubscribe", "done"}

Semaphored ==
    /\ main.pc \notin {"setup", "destroy", "disconnect"} => live = Semaphores
    /\ stop_publish > 0 \/ Stopped => StopRequests >= 1
    /\ SemaphoresAlive

(* What was asked for stays asked for. *)
LEMMA StopRequestsGrow ==
  ASSUME IInv, ThreadInv, [Next]_vars
  PROVE  /\ StopRequests \in Nat /\ StopRequests' \in Nat /\ StopRequests' >= StopRequests
         /\ kills_seen' = kills_seen + 1 => StopRequests' >= StopRequests + 1
<1> DEFINE gone == \E i \in Subs : spc[i] \in {"unsubscribe", "done"}
<1>y. kills_seen \in Nat /\ spc \in [Subs -> SubPCs] /\ main \in [pc: MainPCs, n: Nat] BY DEF IInv, TypeOK
<1>1. gone => gone'
  <2>1. CASE spc' = spc BY <2>1
  <2>2. CASE MainCreateSubs
    <3>1. CASE spc' # spc
      <4>1. /\ main.pc = "create_subs" /\ main.n < NUM_SUBS
            /\ spc' = [spc EXCEPT ![main.n + 1] = "alloc_receive"]
        BY <2>2, <3>1 DEF MainCreateSubs, MainAt
      <4>2. main.n + 1 \in Subs /\ main.n + 1 > main.n BY <1>y, <4>1, CountAssumption DEF Subs
      <4>3. spc[main.n + 1] = "none" BY <4>1, <4>2 DEF ThreadInv, SubsNotCreated
      <4> QED BY <1>y, <4>1, <4>3
    <3> QED BY <3>1, <2>1
  <2>3. ASSUME NEW i \in Subs, Sub(i) PROVE gone => gone'
    <3>1. spc' = spc \/ \E l : spc' = [spc EXCEPT ![i] = l]
                         /\ (spc[i] \in {"unsubscribe", "done"} => l = "done")
      BY <2>3, SubMoves DEF IInv
    <3> QED BY <1>y, <3>1
  <2>4. ASSUME NEW p \in Pubs, Pub(p) PROVE spc' = spc
    BY <2>4 DEF Pub, PubSubscribe, PubClear, PubPublish, PubSpin, PubPost, PubCheck,
                PubUnsubscribe, ExitFailure
  <2>5. ASSUME \/ MainSetup \/ MainCreatePubs \/ MainJoinSubs \/ MainStats \/ MainJoinPubs
               \/ MainDestroy \/ MainDisconnect \/ Cb \/ BrokerMessage \/ BrokerKill
               \/ ConnLost \/ UNCHANGED vars
        PROVE  spc' = spc
    BY <2>5 DEF MainSetup, MainCreatePubs, MainJoinSubs, MainStats, MainJoinPubs, MainDestroy,
                MainDisconnect, Cb, CbAck, CbWait, CbStore, CbMessage, CbKill, BrokerMessage,
                BrokerKill, ConnLost, NetStep, vars
  <2> HIDE DEF gone
  <2> QED BY <2>1, <2>2, <2>3, <2>4, <2>5 DEF Next, Main
<1>2. kills_seen' = kills_seen \/ kills_seen' = kills_seen + 1
  <2>1. ASSUME NEW i \in Subs, Sub(i) PROVE kills_seen' = kills_seen
    BY <2>1, SubMoves DEF IInv
  <2>2. ASSUME NEW p \in Pubs, Pub(p) PROVE kills_seen' = kills_seen
    BY <2>2 DEF Pub, PubSubscribe, PubClear, PubPublish, PubSpin, PubPost, PubCheck,
                PubUnsubscribe, ExitFailure, netVars
  <2>3. ASSUME Main \/ BrokerMessage \/ BrokerKill \/ ConnLost \/ UNCHANGED vars
        PROVE  kills_seen' = kills_seen
    BY <2>3 DEF Main, MainSetup, MainCreateSubs, MainCreatePubs, MainJoinSubs, MainStats, MainJoinPubs,
                MainDestroy, MainDisconnect, BrokerMessage, BrokerKill, ConnLost, NetStep, netVars, vars
  <2>4. ASSUME Cb PROVE kills_seen' = kills_seen \/ kills_seen' = kills_seen + 1
    BY <2>4 DEF Cb, CbAck, CbWait, CbStore, CbMessage, CbKill, netVars
  <2> QED BY <2>1, <2>2, <2>3, <2>4 DEF Next
<1>3. StopRequests = kills_seen + (IF gone THEN 1 ELSE 0) BY DEF StopRequests
<1>4. StopRequests' = kills_seen' + (IF gone' THEN 1 ELSE 0) BY DEF StopRequests
<1> HIDE DEF gone
<1> QED BY <1>y, <1>1, <1>2, <1>3, <1>4

(* With at most one publisher, a semaphore is used only while it is alive, *)
(* or by a pubkill that nobody is left to take.                            *)
LEMMA SemaphoredStep ==
  ASSUME NUM_PUBS <= 1
  PROVE  IInv /\ ThreadInv /\ Semaphored /\ [Next]_vars => Semaphored'
<1> SUFFICES ASSUME IInv, ThreadInv, Semaphored, [Next]_vars PROVE Semaphored' OBVIOUS
<1>c. NUM_SUBS \in Nat /\ NUM_PUBS \in Nat /\ NUM_PUBS \in {0, 1} /\ MAX_ITER \in Nat
  BY CountAssumption
<1>p. \A p \in Pubs : NUM_PUBS = 1 /\ p = 1 BY <1>c DEF Pubs
<1>s. NUM_SUBS > 0 => NUM_SUBS \in Subs BY <1>c DEF Subs
<1>g. /\ StopRequests \in Nat /\ StopRequests' \in Nat /\ StopRequests' >= StopRequests
      /\ kills_seen' = kills_seen + 1 => StopRequests' >= StopRequests + 1
  BY StopRequestsGrow
<1>y. /\ spc \in [Subs -> SubPCs] /\ ppc \in [Pubs -> PubPCs] /\ main \in [pc: MainPCs, n: Nat]
      /\ stop_publish \in Nat /\ done_receiving \in Nat /\ it \in Nat /\ msgs \in Nat
      /\ kills \in Nat /\ kills_seen \in Nat
  BY DEF IInv, TypeOK
<1>i. /\ main.pc \notin {"setup", "destroy", "disconnect"} => live = Semaphores
      /\ stop_publish > 0 \/ Stopped => StopRequests >= 1
      /\ misused => StopRequests > NUM_PUBS
  BY DEF Semaphored, SemaphoresAlive
(* The semaphores are alive while main is between init and destroy. *)
<1>a. ASSUME NEW s \in Semaphores, main.pc \notin {"setup", "destroy", "disconnect"}, Uses(s)
      PROVE  misused' => StopRequests' > NUM_PUBS
  <2>1. misused' = (misused \/ s \notin live) /\ s \in live BY <1>a, <1>i DEF Uses
  <2>2. misused' => misused BY <2>1, Zenon
  <2> QED BY <1>c, <1>g, <1>i, <2>2
<1>u. ASSUME misused' = misused PROVE misused' => StopRequests' > NUM_PUBS
  BY <1>u, <1>c, <1>g, <1>i
<1>n. Semaphores = {"done_receiving", "stop_publish", "qos1_pubmutex"} BY DEF Semaphores
<1>1. ASSUME NEW i \in Subs, Sub(i) PROVE Semaphored'
  <2>1. /\ UNCHANGED <<main, ppc, cb, kill_sub, msgs, kills, kills_seen, it, live>>
        /\ \/ UNCHANGED <<misused, stop_publish>>
           \/ /\ spc[i] = "wait" /\ done_receiving > 0
              /\ Uses("done_receiving") /\ stop_publish' = stop_publish
           \/ /\ spc[i] = "signal" /\ spc' = [spc EXCEPT ![i] = "unsubscribe"]
              /\ Uses("stop_publish")
    BY <1>1, SubMoves DEF IInv
  <2>2. CASE UNCHANGED <<misused, stop_publish>>
    BY <1>g, <1>i, <1>u, <1>y, <2>1, <2>2 DEF Semaphored, SemaphoresAlive, Stopped
  <2>3. CASE /\ spc[i] = "wait" /\ done_receiving > 0
             /\ Uses("done_receiving") /\ stop_publish' = stop_publish
    <3>1. main.pc # "setup" BY <2>3 DEF ThreadInv, SubsNotCreated
    <3>2. done_receiving = 1 BY <1>y, <2>3 DEF ThreadInv, OnePasses
    <3>3. spc[NUM_SUBS] # "done" /\ NUM_SUBS > 0
      BY <1>c, <1>s, <3>2 DEF ThreadInv, OnePasses, Past, Subs
    <3>4. main.pc \notin {"destroy", "disconnect"}
      BY <3>3 DEF ThreadInv, LastJoined, SubsJoined
    <3>5. misused' => StopRequests' > NUM_PUBS BY <1>a, <1>n, <2>3, <3>1, <3>4
    <3> QED BY <1>g, <1>i, <1>y, <2>1, <2>3, <3>5 DEF Semaphored, SemaphoresAlive, Stopped
  <2>4. CASE /\ spc[i] = "signal" /\ spc' = [spc EXCEPT ![i] = "unsubscribe"]
             /\ Uses("stop_publish")
    <3>1. main.pc # "setup" BY <2>4 DEF ThreadInv, SubsNotCreated
    <3>2. Past(i) BY <2>4 DEF Past
    <3>3. spc[NUM_SUBS] # "done" /\ NUM_SUBS > 0
      BY <1>c, <1>s, <2>4, <3>2 DEF ThreadInv, OnePasses, Past, Subs
    <3>4. main.pc \notin {"destroy", "disconnect"}
      BY <3>3 DEF ThreadInv, LastJoined, SubsJoined
    <3>5. misused' => StopRequests' > NUM_PUBS BY <1>a, <1>n, <2>4, <3>1, <3>4
    <3>6. spc'[i] = "unsubscribe" BY <1>y, <2>4
    <3>7. StopRequests' >= 1 BY <1>y, <2>1, <3>6 DEF StopRequests
    <3> QED BY <1>i, <2>1, <3>5, <3>7 DEF Semaphored, SemaphoresAlive, Stopped
  <2> QED BY <2>1, <2>2, <2>3, <2>4
<1>2. ASSUME NEW p \in Pubs, Pub(p) PROVE Semaphored'
  <2>1. /\ UNCHANGED <<main, live>> /\ ppc[p] \notin {"none", "done"}
        /\ \/ UNCHANGED <<misused, stop_publish>>
           \/ \E s \in Semaphores : Uses(s)
        /\ stop_publish' = stop_publish \/ stop_publish > 0
        /\ \/ ppc' = ppc
           \/ \E l \in PubPCs :
                /\ ppc' = [ppc EXCEPT ![p] = l]
                /\ l \in {"unsubscribe", "done"} => stop_publish > 0 \/ ppc[p] = "unsubscribe"
    <3> USE <1>n DEF PubPCs
    <3>1. CASE PubSubscribe(p) BY <3>1 DEF PubSubscribe, PubStep, ExitFailure, semVars
    <3>2. CASE PubClear(p) BY <3>2 DEF PubClear, PubStep, semVars
    <3>3. CASE PubPublish(p) BY <3>3 DEF PubPublish, PubStep, ExitFailure, semVars
    <3>4. CASE PubSpin(p) BY <3>4 DEF PubSpin, PubStep, semVars
    <3>5. CASE PubPost(p) BY <3>5 DEF PubPost, PubStep
    <3>6. CASE PubCheck(p) BY <3>6 DEF PubCheck, PubStep
    <3>7. CASE PubUnsubscribe(p) BY <3>7 DEF PubUnsubscribe, PubStep, ExitFailure, semVars
    <3> QED BY <1>2, <3>1, <3>2, <3>3, <3>4, <3>5, <3>6, <3>7 DEF Pub
  <2>2. main.pc \notin {"setup", "destroy", "disconnect"}
    BY <1>p, <2>1 DEF IInv, NotCreated, ThreadInv, LastJoined, PubsJoined
  <2>3. misused' => StopRequests' > NUM_PUBS BY <1>a, <1>u, <2>1, <2>2
  <2>4. Stopped' => Stopped \/ stop_publish > 0 BY <1>y, <2>1 DEF Stopped
  <2> QED BY <1>g, <1>i, <2>1, <2>3, <2>4 DEF Semaphored, SemaphoresAlive
<1>3. CASE CbWait
  <2>1. /\ UNCHANGED <<main, live, ppc, stop_publish>> /\ cb.pc = "wait" /\ Uses("qos1_pubmutex")
    BY <1>3 DEF CbWait, CbAt
  <2>2. main.pc # "setup" BY <2>1 DEF IInv, Phases, Idle
  <2>3. PICK p \in Pubs : ppc[p] = "spin" BY <2>1 DEF IInv, Ownership, Owned
  <2>4. main.pc \notin {"destroy", "disconnect"}
    BY <1>p, <2>3 DEF ThreadInv, LastJoined, PubsJoined
  <2>5. misused' => StopRequests' > NUM_PUBS BY <1>a, <1>n, <2>1, <2>2, <2>4
  <2> QED BY <1>g, <1>i, <2>1, <2>5 DEF Semaphored, SemaphoresAlive, Stopped
<1>4. CASE CbMessage
  <2>1. /\ UNCHANGED <<main, live, ppc, stop_publish>> /\ it < msgs
        /\ misused' = misused \/ (it = MAX_ITER /\ Uses("done_receiving"))
    BY <1>4 DEF CbMessage
  <2>2. Waited BY <1>y, <2>1 DEF ThreadInv, Messages
  <2>3. main.pc # "setup" BY <2>2 DEF ThreadInv, SubsNotCreated, Waited, Past
  <2>4. ASSUME it = MAX_ITER PROVE main.pc \notin {"destroy", "disconnect"}
    <3>1. \A i \in Subs : ~Past(i) BY <1>c, <2>4 DEF ThreadInv, OnePasses
    <3>2. NUM_SUBS > 0 BY <1>c, <2>2 DEF Waited, Subs
    <3> QED BY <1>s, <3>1, <3>2 DEF ThreadInv, LastJoined, SubsJoined, Past
  <2>5. misused' => StopRequests' > NUM_PUBS BY <1>a, <1>n, <1>u, <2>1, <2>3, <2>4
  <2> QED BY <1>g, <1>i, <2>1, <2>5 DEF Semaphored, SemaphoresAlive, Stopped
<1>5. CASE CbKill
  <2>1. /\ UNCHANGED <<main, live, ppc>> /\ kills_seen < kills /\ kills_seen' = kills_seen + 1
        /\ Uses("stop_publish")
    BY <1>5 DEF CbKill
  <2>2. StopRequests' >= StopRequests + 1 BY <1>g, <2>1
  <2>3. main.pc # "setup" BY <1>y, <2>1 DEF ThreadInv, Messages
  <2>4. CASE main.pc \notin {"destroy", "disconnect"}
    <3>1. misused' => StopRequests' > NUM_PUBS BY <1>a, <1>n, <2>1, <2>3, <2>4
    <3> QED BY <1>g, <1>i, <2>1, <2>2, <3>1 DEF Semaphored, SemaphoresAlive
  <2>5. CASE main.pc \in {"destroy", "disconnect"}
    <3>1. NUM_PUBS > 0 => Stopped
      BY <1>c, <2>5 DEF ThreadInv, LastJoined, PubsJoined, Stopped, Pubs
    <3>2. StopRequests' > NUM_PUBS BY <1>c, <1>g, <1>i, <2>2, <3>1
    <3> QED BY <1>c, <1>g, <1>i, <2>1, <2>5, <3>2 DEF Semaphored, SemaphoresAlive
  <2> QED BY <2>4, <2>5
<1>6. ASSUME CbAck \/ CbStore \/ BrokerMessage \/ BrokerKill \/ ConnLost \/ UNCHANGED vars
      PROVE  Semaphored'
  <2>1. UNCHANGED <<main, live, ppc, stop_publish, misused>>
    BY <1>6 DEF CbAck, CbStore, BrokerMessage, BrokerKill, ConnLost, NetStep, vars, semVars
  <2> QED BY <1>g, <1>i, <1>u, <2>1 DEF Semaphored, SemaphoresAlive, Stopped
<1>7. ASSUME Main PROVE Semaphored'
  <2>1. UNCHANGED misused
    BY <1>7 DEF Main, MainSetup, MainCreateSubs, MainCreatePubs, MainJoinSubs, MainStats, MainJoinPubs,
                MainDestroy, MainDisconnect
  <2>2. stop_publish' = stop_publish \/ stop_publish' = 0
    BY <1>7 DEF Main, MainSetup, MainCreateSubs, MainCreatePubs, MainJoinSubs, MainStats, MainJoinPubs,
                MainDestroy, MainDisconnect, semVars
  <2>3. Stopped' => Stopped
    <3>1. ppc' = ppc \/ \E j : ppc' = [ppc EXCEPT ![j] = "subscribe"]
      BY <1>7 DEF Main, MainSetup, MainCreateSubs, MainCreatePubs, MainJoinSubs, MainStats, MainJoinPubs,
                  MainDestroy, MainDisconnect
    <3> QED BY <1>y, <3>1 DEF Stopped
  <2>4. main'.pc \notin {"setup", "destroy", "disconnect"} => live' = Semaphores
    <3>1. CASE MainSetup BY <3>1, <1>n DEF MainSetup, MainAt
    <3>2. CASE MainCreateSubs \/ MainCreatePubs \/ MainJoinSubs \/ MainStats \/ MainJoinPubs
      BY <3>2, <1>i DEF MainCreateSubs, MainCreatePubs, MainJoinSubs, MainStats, MainJoinPubs, MainAt
    <3>3. CASE MainDestroy \/ MainDisconnect
      BY <3>3, <1>y DEF MainDestroy, MainDisconnect, MainAt, Goto, Again
    <3> QED BY <1>7, <3>1, <3>2, <3>3 DEF Main
  <2> QED BY <1>g, <1>i, <1>u, <1>y, <2>1, <2>2, <2>3, <2>4 DEF Semaphored, SemaphoresAlive
<1> QED BY <1>1, <1>2, <1>3, <1>4, <1>5, <1>6, <1>7 DEF Next, Cb

(* With at most one publisher and any number of subscribers: no semaphore  *)
(* is used before sem_init or after sem_destroy, unless more requests to   *)
(* stop arrive than there are publishers to take them.                     *)
THEOREM SingleSemaphoresAlive ==
  ASSUME NUM_PUBS <= 1
  PROVE  Spec => []SemaphoresAlive
<1>1. Init => Semaphored
  <2> SUFFICES ASSUME Init PROVE Semaphored OBVIOUS
  <2>1. stop_publish = 0 /\ ~Stopped /\ misused = FALSE /\ main.pc = "setup" BY DEF Init, Stopped
  <2> QED BY <2>1 DEF Semaphored, SemaphoresAlive
<1>2. IInv /\ ThreadInv /\ Semaphored /\ [Next]_vars => Semaphored' BY SemaphoredStep
<1>3. Semaphored => SemaphoresAlive BY DEF Semaphored
<1> QED BY ThreadsInductive, <1>1, <1>2, <1>3, PTL DEF Spec

-----------------------------------------------------------------------------
(* The statistics of the samples (RttStats), for every width of a word,    *)
(* every buffer and every value of the options.  The argument follows the  *)
(* first loop of summary_stats: Progress ties the counter to the index,    *)
(* and Bounds says that the accumulator lies between the number of samples *)
(* read times any lower and any upper bound of them.                       *)


Read == {k \in Indices : idx <= k /\ k < pos}

Progress ==
    /\ stage = "sort" => ct = 0 /\ acc = 0
    /\ stage = "sum" => /\ pos >= idx /\ ct = pos - idx
                        /\ pos = idx \/ (pos <= max_iter /\ pos <= End)

Bounds ==
    stage = "sum" => \A b \in Word :
                       /\ (\A k \in Read : rtts[k] <= b) => acc <= ct * b
                       /\ (\A k \in Read : b <= rtts[k]) => ct * b <= acc

StatsIInv == StatsTypeOK /\ Progress /\ Bounds /\ StatsDefined /\ MeanInRange

(* A remainder is smaller than a positive divisor. *)
LEMMA ModRange == ASSUME NEW a \in Int, NEW n \in Nat, n > 0
                  PROVE  a % n \in 0..(n - 1)
  OBVIOUS

(* A product with a larger factor is larger. *)
LEMMA MulMono == ASSUME NEW a \in Nat, NEW x \in Nat, NEW y \in Nat, x <= y
                 PROVE  a * x <= a * y /\ a * x \in Nat /\ a * y \in Nat
  OBVIOUS

(* The square of the width is positive and above every word's multiple     *)
(* that occurs.                                                            *)
LEMMA SquareWord == ASSUME NEW c \in Nat, c <= WORD
                    PROVE  WORD * WORD \in Nat /\ WORD * WORD > 0 /\ c * (WORD - 1) < WORD * WORD
<1>1. c * (WORD - 1) <= WORD * (WORD - 1)
  BY WordAssumption
<1>2. WORD * (WORD - 1) = WORD * WORD - WORD
  BY WordAssumption
<1> QED BY <1>1, <1>2, WordAssumption

(* DROP_IDX and the bound of the loops, without the product. *)
LEMMA IdxType == ASSUME StatsTypeOK
                 PROVE  /\ idx \in Nat /\ End \in Word
                        /\ idx <= max_iter => End = max_iter - idx
<1>1. max_iter * DROP_RATIO \in Nat
  BY WordAssumption DEF StatsTypeOK, Word
<1>2. (max_iter * DROP_RATIO) % WORD \in Word
  BY <1>1, ModRange, WordAssumption DEF Word
<1>3. idx \in Nat
  BY <1>2, WordAssumption DEF idx, DROP_IDX, Word
<1>4. End \in Word
  BY <1>3, ModRange, WordAssumption DEF End, Word, StatsTypeOK
<1>5. ASSUME idx <= max_iter PROVE End = max_iter - idx
  BY <1>3, <1>5, WordAssumption DEF End, Word, StatsTypeOK
<1> QED BY <1>3, <1>4, <1>5

(* The options do not change, and nor does what they determine. *)
LEMMA OptionsFixed == ASSUME UNCHANGED options
                      PROVE  idx' = idx /\ End' = End /\ Indices' = Indices
  BY DEF options, idx, DROP_IDX, End, Indices

(* The accumulator after one more sample still fits. *)
LEMMA SumFits == ASSUME StatsIInv, Sum
                 PROVE  /\ rtts[pos] \in Word /\ pos < max_iter
                        /\ ct' = ct + 1 /\ ct + 1 <= max_iter
                        /\ acc' = acc + rtts[pos]
<1> USE DEF Sum
<1>0. stage = "sum" /\ pos \in Indices /\ pos \in Nat /\ ct \in Nat /\ acc \in Nat /\ max_iter \in Word
  BY DEF StatsIInv, StatsTypeOK, Word, Long
<1>1. rtts[pos] \in Word
  BY <1>0 DEF StatsIInv, StatsTypeOK
<1>2. pos < max_iter /\ pos >= idx /\ ct = pos - idx /\ idx \in Nat
  BY <1>0, IdxType DEF StatsIInv, Progress, Indices, Word
<1>3. ct + 1 <= max_iter /\ ct + 1 < WORD
  BY <1>0, <1>2, WordAssumption DEF Word
<1>4. ct' = ct + 1
  BY <1>0, <1>3, WordAssumption
<1>5. \A k \in Read : rtts[k] <= WORD - 1
  BY WordAssumption DEF Read, StatsIInv, StatsTypeOK, Word
<1>6. acc <= ct * (WORD - 1)
  BY <1>0, <1>5, WordAssumption DEF StatsIInv, Bounds, Word
<1>7. acc + rtts[pos] <= (ct + 1) * (WORD - 1)
  BY <1>0, <1>1, <1>6, WordAssumption DEF Word
<1>8. /\ WORD * WORD \in Nat /\ WORD * WORD > 0
      /\ (ct + 1) * (WORD - 1) < WORD * WORD
      /\ (ct + 1) * (WORD - 1) \in Int
  BY <1>0, <1>3, SquareWord, WordAssumption
<1>9. acc + rtts[pos] < WORD * WORD /\ acc + rtts[pos] \in Nat
  BY <1>0, <1>1, <1>7, <1>8 DEF Word
<1>10. acc' = acc + rtts[pos]
  BY <1>8, <1>9
<1> QED BY <1>1, <1>2, <1>3, <1>4, <1>10

(* The quotient lies where the bounds of the dividend put it. *)
LEMMA Quotient == ASSUME NEW a \in Nat, NEW c \in Nat, c > 0
                  PROVE  /\ a \div c \in Nat
                         /\ c * (a \div c) <= a /\ a < c * ((a \div c) + 1)
  OBVIOUS

(* Between leaving the loop and printing, the mean is in range. *)
LEMMA MeanStep == ASSUME StatsIInv, Mean, ct # 0
                  PROVE  /\ acc \div ct \in Word /\ mean' = acc \div ct
                         /\ \E k \in Kept : rtts[k] <= acc \div ct
                         /\ \E k \in Kept : acc \div ct <= rtts[k]
<1> DEFINE m == acc \div ct
<1>0. stage = "sum" /\ pos \in Nat /\ ct \in Nat /\ ct > 0 /\ acc \in Nat /\ max_iter \in Nat
  BY DEF StatsIInv, StatsTypeOK, Word, Long, Mean
<1>1. idx \in Nat /\ End \in Nat
  BY IdxType DEF StatsIInv, Word
<1>2. pos >= idx /\ ct = pos - idx /\ pos <= max_iter /\ pos = End /\ idx < pos
  BY <1>0, <1>1 DEF StatsIInv, Progress, Mean, InLoop
<1>3. Read = Kept
  BY <1>2 DEF Read, Kept
<1>4. idx \in Kept
  BY <1>0, <1>1, <1>2 DEF Kept, Indices
<1>5. \A k \in Kept : rtts[k] \in Word
  BY DEF Kept, StatsIInv, StatsTypeOK
<1>6. m \in Nat /\ ct * m <= acc /\ acc < ct * (m + 1)
  BY <1>0, Quotient
<1> HIDE DEF m
<1>7. \E k \in Kept : rtts[k] <= m
  <2>1. SUFFICES ASSUME \A k \in Kept : ~(rtts[k] <= m) PROVE FALSE
    OBVIOUS
  <2>2. \A k \in Kept : m + 1 <= rtts[k]
    BY <2>1, <1>5, <1>6 DEF Word
  <2>3. m + 1 \in Word
    BY <2>2, <1>4, <1>5, <1>6, WordAssumption DEF Word
  <2>4. ct * (m + 1) <= acc
    BY <2>2, <2>3, <1>0, <1>3 DEF StatsIInv, Bounds
  <2> QED BY <2>4, <1>6, <1>0
<1>8. m \in Word
  <2>1. \A k \in Read : rtts[k] <= WORD - 1
    BY <1>3, <1>5, WordAssumption DEF Word
  <2>2. acc <= ct * (WORD - 1)
    BY <2>1, <1>0, WordAssumption DEF StatsIInv, Bounds, Word
  <2>3. CASE m <= WORD - 1
    BY <2>3, <1>6, WordAssumption DEF Word
  <2>4. CASE m >= WORD
    <3>1. ct * WORD <= ct * m
      BY <2>4, <1>0, <1>6, MulMono, WordAssumption
    <3>2. ct * (WORD - 1) = ct * WORD - ct
      BY <1>0, WordAssumption
    <3> QED BY <3>1, <3>2, <2>2, <1>0, <1>6, WordAssumption
  <2> QED BY <2>3, <2>4, <1>6, WordAssumption
<1>9. \E k \in Kept : m <= rtts[k]
  <2>1. SUFFICES ASSUME \A k \in Kept : ~(m <= rtts[k]) PROVE FALSE
    OBVIOUS
  <2>2. m > 0
    BY <2>1, <1>4, <1>5, <1>6 DEF Word
  <2>3. (\A k \in Kept : rtts[k] <= m - 1) /\ m - 1 \in Word
    <3>1. m - 1 \in Word
      BY <2>2, <1>6, <1>8, WordAssumption DEF Word
    <3>2. ASSUME NEW k \in Kept PROVE rtts[k] <= m - 1
      <4>1. ~(m <= rtts[k]) /\ rtts[k] \in Int
        BY <2>1, <1>5, WordAssumption DEF Word
      <4> QED BY <4>1, <1>6
    <3> QED BY <3>1, <3>2
  <2>4. acc <= ct * (m - 1)
    BY <2>3, <1>0, <1>3 DEF StatsIInv, Bounds
  <2>5. ct * (m - 1) = ct * m - ct
    BY <1>0, <1>6
  <2> QED BY <2>4, <2>5, <1>6, <1>0
<1>10. mean' = m
  BY <1>0, <1>8, WordAssumption DEF Mean, Word, m
<1> QED BY <1>7, <1>8, <1>9, <1>10 DEF m

(* The invariant holds initially. *)
LEMMA StatsInitIInv == StatsInit => StatsIInv
<1> SUFFICES ASSUME StatsInit PROVE StatsIInv
  OBVIOUS
<1>1. \A r, d \in Times : Sample(r, d) \in Word
  BY ModRange, WordAssumption DEF Sample, Word
<1>2. rtts \in [Indices -> Word]
  BY <1>1 DEF StatsInit
<1>3. WORD * WORD \in Nat /\ WORD * WORD > 0
  BY SquareWord, WordAssumption
<1>4. StatsTypeOK
  BY <1>2, <1>3, WordAssumption DEF StatsInit, StatsTypeOK, Word, Long
<1> QED BY <1>4 DEF StatsInit, StatsIInv, Progress, Bounds, StatsDefined, MeanInRange

(* The types are preserved. *)
LEMMA StatsNextType == StatsIInv /\ [StatsNext]_stats_vars => StatsTypeOK'
<1> SUFFICES ASSUME StatsIInv, [StatsNext]_stats_vars PROVE StatsTypeOK'
  OBVIOUS
<1>0. StatsTypeOK /\ WORD * WORD \in Nat /\ WORD * WORD > 0
  BY SquareWord, WordAssumption DEF StatsIInv
<1>pos. idx \in Nat
  BY <1>0, IdxType
<1>1. CASE Qsort
  <2>1. PICK f \in Permutations : rtts' = [k \in Indices |-> rtts[f[k]]]
    BY <1>1 DEF Qsort
  <2>2. f \in [Indices -> Indices]
    BY <2>1 DEF Permutations
  <2>3. rtts' \in [Indices -> Word]
    BY <2>1, <2>2, <1>0 DEF StatsTypeOK
  <2>4. rtts' \in [Indices' -> Word]
    BY <2>3, <1>1, OptionsFixed DEF Qsort
  <2> QED BY <2>4, <1>0, <1>1, <1>pos DEF Qsort, StatsTypeOK, options
<1>2. CASE Outside
  BY <1>2, <1>0 DEF Outside, StatsTypeOK, options, Indices
<1>3. CASE Sum
  <2>1. acc' \in Long
    BY <1>0, <1>3, ModRange DEF Sum, StatsTypeOK, Long, Word
  <2>2. ct' \in Word
    BY <1>0, <1>3, ModRange, WordAssumption DEF Sum, StatsTypeOK, Word
  <2> QED BY <2>1, <2>2, <1>3, <1>0 DEF Sum, StatsTypeOK, options, Indices
<1>4. CASE Mean
  <2>1. CASE ct = 0
    BY <2>1, <1>4, <1>0 DEF Mean, StatsTypeOK, options, Indices
  <2>2. CASE ct # 0
    <3>1. mean' \in Word
      BY <2>2, <1>4, MeanStep
    <3>2. acc' \in Long
      BY <2>2, <1>4, <1>0 DEF Mean, Long
    <3> QED BY <3>1, <3>2, <2>2, <1>4, <1>0, <1>pos DEF Mean, StatsTypeOK, options, Indices
  <2> QED BY <2>1, <2>2
<1>5. CASE Squares
  <2>1. Square(rtts[pos]) \in Int
    BY <1>0, <1>5, WordAssumption DEF Squares, Square, StatsTypeOK, Word
  <2>2. acc' \in Long
    BY <2>1, <1>0, <1>5, ModRange DEF Squares, StatsTypeOK, Long
  <2> QED BY <2>2, <1>5, <1>0 DEF Squares, StatsTypeOK, options, Indices
<1>6. CASE StdDev
  BY <1>6, <1>0 DEF StdDev, StatsTypeOK, options, Indices
<1>7. CASE UNCHANGED stats_vars
  BY <1>7, <1>0 DEF stats_vars, StatsTypeOK, options, Indices
<1> QED BY <1>1, <1>2, <1>3, <1>4, <1>5, <1>6, <1>7 DEF StatsNext

(* Every step preserves the invariant. *)
LEMMA StatsNextIInv == StatsIInv /\ [StatsNext]_stats_vars => StatsIInv'
<1> SUFFICES ASSUME StatsIInv, [StatsNext]_stats_vars PROVE StatsIInv'
  OBVIOUS
<1>t. StatsTypeOK /\ StatsTypeOK'
  BY StatsNextType DEF StatsIInv
<1>pos. idx \in Nat /\ End \in Word /\ (idx <= max_iter => End = max_iter - idx) /\ max_iter \in Nat
  BY <1>t, IdxType DEF StatsTypeOK, Word
<1>o. UNCHANGED options /\ idx' = idx /\ End' = End /\ Indices' = Indices
  BY OptionsFixed DEF StatsNext, Qsort, Outside, Sum, Mean, Squares, StdDev, stats_vars, options
<1>1. CASE Qsort
  <2>1. stage' = "sum" /\ pos' = idx /\ ct' = ct /\ acc' = acc /\ stage = "sort"
    BY <1>1 DEF Qsort
  <2>2. ct = 0 /\ acc = 0
    BY <2>1 DEF StatsIInv, Progress
  <2>3. Progress'
    BY <2>1, <2>2, <1>o, <1>pos DEF Progress
  <2>4. Bounds'
    <3>1. \A b \in Word : 0 * b = 0
      BY WordAssumption DEF Word
    <3> QED BY <2>1, <2>2, <3>1 DEF Bounds
  <2> QED BY <2>1, <2>3, <2>4, <1>t DEF StatsIInv, StatsDefined, MeanInRange
<1>2. CASE Outside
  <2>1. stage = "sum" /\ stage' = "outside" /\ pos \in Nat /\ pos < End /\ pos >= max_iter
    BY <1>2, <1>t, <1>pos DEF Outside, InLoop, Indices, StatsTypeOK
  <2>2. 2 * idx >= max_iter
    BY <2>1, <1>pos DEF Word
  <2>3. StatsDefined'
    BY <2>2, <1>o DEF StatsDefined, options
  <2> QED BY <2>1, <2>3, <1>t DEF StatsIInv, Progress, Bounds, MeanInRange
<1>3. CASE Sum
  <2>0. /\ stage = "sum" /\ stage' = "sum" /\ pos \in Nat /\ pos' = pos + 1 /\ pos < End /\ pos \in Indices
        /\ rtts' = rtts /\ ct \in Nat /\ acc \in Nat
    BY <1>3, <1>t DEF Sum, InLoop, StatsTypeOK, Word, Long
  <2>1. /\ rtts[pos] \in Word /\ pos < max_iter
        /\ ct' = ct + 1 /\ acc' = acc + rtts[pos]
    BY <1>3, SumFits
  <2>2. pos >= idx /\ ct = pos - idx
    BY <2>0 DEF StatsIInv, Progress
  <2>3. Progress'
    BY <2>0, <2>1, <2>2, <1>pos, <1>o DEF Progress, options, Word
  <2>4. Read' = Read \cup {pos}
    <3>1. Read' = {k \in Indices : idx <= k /\ k < pos + 1}
      BY <2>0, <1>o DEF Read
    <3>2. \A k \in Indices : k \in Int /\ (k < pos + 1 <=> k < pos \/ k = pos)
      BY <2>0, <1>pos DEF Indices
    <3>3. pos \in Indices /\ idx <= pos
      BY <2>0, <2>2, <1>pos
    <3> QED BY <3>1, <3>2, <3>3 DEF Read
  <2>5. Bounds'
    <3> SUFFICES ASSUME NEW b \in Word
                 PROVE  /\ (\A k \in Read' : rtts[k] <= b) => acc' <= ct' * b
                        /\ (\A k \in Read' : b <= rtts[k]) => ct' * b <= acc'
      BY <2>0 DEF Bounds
    <3>1. (ct + 1) * b = ct * b + b /\ ct * b \in Int /\ b \in Int /\ rtts[pos] \in Int
      BY <2>0, <2>1, WordAssumption DEF Word
    <3>2. ASSUME \A k \in Read' : rtts[k] <= b PROVE acc' <= ct' * b
      <4>1. acc <= ct * b /\ rtts[pos] <= b
        BY <2>0, <2>4, <3>2 DEF StatsIInv, Bounds
      <4> QED BY <4>1, <3>1, <2>0, <2>1
    <3>3. ASSUME \A k \in Read' : b <= rtts[k] PROVE ct' * b <= acc'
      <4>1. ct * b <= acc /\ b <= rtts[pos]
        BY <2>0, <2>4, <3>3 DEF StatsIInv, Bounds
      <4> QED BY <4>1, <3>1, <2>0, <2>1
    <3> QED BY <3>2, <3>3
  <2> QED BY <2>0, <2>3, <2>5, <1>t DEF StatsIInv, StatsDefined, MeanInRange
<1>4. CASE Mean
  <2>0. stage = "sum" /\ ~(pos < End) /\ pos \in Nat /\ ct \in Nat /\ rtts' = rtts
    BY <1>4, <1>t DEF Mean, InLoop, StatsTypeOK, Word
  <2>1. CASE ct = 0
    <3>1. stage' = "divided" /\ pos = idx
      BY <2>0, <2>1, <1>4, <1>pos DEF Mean, StatsIInv, Progress
    <3>2. 2 * idx >= max_iter
      BY <3>1, <2>0, <1>pos DEF Word
    <3>3. StatsDefined'
      BY <3>2, <1>o DEF StatsDefined, options
    <3> QED BY <3>1, <3>3, <1>t DEF StatsIInv, Progress, Bounds, MeanInRange
  <2>2. CASE ct # 0
    <3>1. stage' = "squares"
      BY <2>2, <1>4 DEF Mean
    <3>2. Kept' = Kept
      BY <1>o DEF Kept
    <3>3. MeanInRange'
      BY <3>2, <2>0, <2>2, <1>4, MeanStep DEF MeanInRange
    <3> QED BY <3>1, <3>3, <1>t DEF StatsIInv, Progress, Bounds, StatsDefined
  <2> QED BY <2>1, <2>2
<1>5. CASE Squares \/ StdDev
  <2>1. stage = "squares" /\ stage' \in {"squares", "printed"} /\ rtts' = rtts /\ mean' = mean
    BY <1>5 DEF Squares, StdDev
  <2>2. Kept' = Kept
    BY <1>o DEF Kept
  <2>3. MeanInRange'
    BY <2>1, <2>2 DEF StatsIInv, MeanInRange
  <2> QED BY <2>1, <2>3, <1>t DEF StatsIInv, Progress, Bounds, StatsDefined
<1>6. CASE UNCHANGED stats_vars
  <2>1. Kept' = Kept /\ Read' = Read
    BY <1>6, <1>o DEF Kept, Read, stats_vars
  <2>2. /\ stage' = stage /\ pos' = pos /\ ct' = ct /\ acc' = acc /\ mean' = mean /\ rtts' = rtts
        /\ max_iter' = max_iter
    BY <1>6 DEF stats_vars, options
  <2> QED BY <2>1, <2>2, <1>o, <1>t DEF StatsIInv, Progress, Bounds, StatsDefined, MeanInRange
<1> QED BY <1>1, <1>2, <1>3, <1>4, <1>5, <1>6 DEF StatsNext

(* The invariant holds in every reachable state. *)
THEOREM StatsInvariant == StatsSpec => []StatsIInv
  BY StatsInitIInv, StatsNextIInv, PTL DEF StatsSpec

(* The words and the double words of summary_stats stay inside their types. *)
THEOREM StatsTypeCorrect == StatsSpec => []StatsTypeOK
<1>1. StatsIInv => StatsTypeOK
  BY DEF StatsIInv
<1> QED BY <1>1, StatsInvariant, PTL

(* summary_stats reads inside the buffer and divides by a non-zero count   *)
(* whenever the ratio leaves a sample, for every width and every option.   *)
THEOREM StatsDefinedCorrect == StatsSpec => []StatsDefined
<1>1. StatsIInv => StatsDefined
  BY DEF StatsIInv
<1> QED BY <1>1, StatsInvariant, PTL

(* The mean that summary_stats prints lies between two of the samples it   *)
(* kept.                                                                   *)
THEOREM StatsMeanCorrect == StatsSpec => []MeanInRange
<1>1. StatsIInv => MeanInRange
  BY DEF StatsIInv
<1> QED BY <1>1, StatsInvariant, PTL

=============================================================================
