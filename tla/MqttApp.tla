------------------------------ MODULE MqttApp ------------------------------
(***************************************************************************)
(* The MQTT benchmark client, applications/mqtt-app/mqtt.c: the main       *)
(* thread, the subscriber and publisher threads it creates, and the thread *)
(* of the Paho MQTTClient library (external) that runs the callbacks       *)
(* delivered and msgarrvd, one at a time.  They share three semaphores,    *)
(* the volatile deliveredtoken and the sample buffers.                     *)
(*                                                                         *)
(* Payloads, logging and option parsing are left out; a sample is the pair *)
(* of buffers it was written to.                                           *)
(***************************************************************************)
EXTENDS Integers, Sequences

CONSTANTS
    NUM_SUBS, NUM_PUBS,     \* how many topics --sub and --pub list
    MAX_ITER,               \* samples to record
    QOS,
    MayFail,                \* a library call may return an error
    MayLose,                \* the connection may be lost
    MaxMsgs,                \* bound: messages on the subscribed topic
    MaxKills,               \* bound: messages on 'pubkill'
    MaxToken                \* bound: delivery tokens in use (65535 in MQTT)

ASSUME CountAssumption ==
    /\ NUM_SUBS \in Nat /\ NUM_PUBS \in Nat
    /\ NUM_SUBS + NUM_PUBS > 0      \* "Must specify either --pub or --sub list"
    /\ MAX_ITER \in Nat /\ QOS \in 0..2
    /\ MaxMsgs \in Nat /\ MaxKills \in Nat /\ MaxToken \in Nat
    /\ MayFail \in BOOLEAN /\ MayLose \in BOOLEAN

Subs == 1..NUM_SUBS
Pubs == 1..NUM_PUBS
Tokens == 1..MaxToken

VARIABLES
    status,             \* the process: "running", "exited" or "failed"
    main,               \* main's position, and its loop counter
    spc, ppc,           \* the position of every subscriber and publisher
    cb,                 \* the callback thread: position and argument of delivered
    token,              \* every publisher's local token
    deliveredtoken,
    stop_publish, done_receiving, qos1_pubmutex,
    live,               \* the semaphores that are initialised
    receive_ts, rtt_ts, \* which subscriber's allocation the pointers hold; 0 is NULL
    it,                 \* the static counter of msgarrvd
    samples,            \* the buffers each recorded sample was written to
    connected, topic_sub, kill_sub,     \* external: the broker's view of us
    unacked,            \* external: tokens published and not acknowledged yet
    msgs, kills, kills_seen,            \* external: messages sent, and pubkills handled
    stored,             \* history: tokens delivered() stored that no publisher saw yet
    misused             \* history: a semaphore was used outside its lifetime

semVars == <<stop_publish, done_receiving, qos1_pubmutex>>
bufVars == <<receive_ts, rtt_ts, it, samples>>
netVars == <<connected, topic_sub, kill_sub, unacked, msgs, kills, kills_seen>>
vars == <<status, main, spc, ppc, cb, token, deliveredtoken, semVars, live,
          bufVars, netVars, stored, misused>>

Idle == [pc |-> "idle", dt |-> 0]

Init ==
    /\ status = "running"
    /\ main = [pc |-> "setup", n |-> 0]
    /\ spc = [i \in Subs |-> "none"] /\ ppc = [p \in Pubs |-> "none"]
    /\ cb = Idle
    /\ token = [p \in Pubs |-> 0]
    /\ deliveredtoken = -1
    /\ stop_publish = 0 /\ done_receiving = 0 /\ qos1_pubmutex = 0
    /\ live = {}
    /\ receive_ts = 0 /\ rtt_ts = 0 /\ it = 0 /\ samples = <<>>
    /\ connected = FALSE /\ topic_sub = FALSE /\ kill_sub = FALSE
    /\ unacked = {} /\ msgs = 0 /\ kills = 0 /\ kills_seen = 0
    /\ stored = {} /\ misused = FALSE

(* Using a semaphore before sem_init or after sem_destroy is undefined;    *)
(* the model remembers it and goes on with the value it last had.          *)
Uses(s) == misused' = (misused \/ s \notin live)

(* A call of the library returns MQTTCLIENT_SUCCESS or an error. *)
CallSucceeds == connected
CallFails == MayFail \/ ~connected

(* exit(EXIT_FAILURE): the whole process ends. *)
ExitFailure ==
    /\ status' = "failed"
    /\ UNCHANGED <<main, spc, ppc, cb, token, deliveredtoken, semVars, live,
                   bufVars, netVars, stored, misused>>

-----------------------------------------------------------------------------
(* main *)

MainAt(l) == status = "running" /\ main.pc = l

Goto(l) == main' = [pc |-> l, n |-> 0]
Again == main' = [main EXCEPT !.n = @ + 1]

(* MQTTClient_create, _setCallbacks, _connect, then the three sem_init;    *)
(* an error returns from main.                                             *)
MainSetup ==
    /\ MainAt("setup")
    /\ \/ /\ connected' = TRUE
          /\ live' = {"done_receiving", "stop_publish", "qos1_pubmutex"}
          /\ qos1_pubmutex' = 1 /\ done_receiving' = 0 /\ stop_publish' = 0
          /\ Goto("create_subs")
          /\ UNCHANGED <<status, topic_sub, kill_sub, unacked, msgs, kills, kills_seen>>
       \/ /\ MayFail
          /\ status' = "failed"
          /\ UNCHANGED <<main, semVars, live, netVars>>
    /\ UNCHANGED <<spc, ppc, cb, token, deliveredtoken, bufVars, stored, misused>>

MainCreateSubs ==
    /\ MainAt("create_subs")
    /\ IF main.n < NUM_SUBS
       THEN spc' = [spc EXCEPT ![main.n + 1] = "alloc_receive"] /\ Again
       ELSE Goto("create_pubs") /\ UNCHANGED spc
    /\ UNCHANGED <<status, ppc, cb, token, deliveredtoken, semVars, live, bufVars,
                   netVars, stored, misused>>

MainCreatePubs ==
    /\ MainAt("create_pubs")
    /\ IF main.n < NUM_PUBS
       THEN ppc' = [ppc EXCEPT ![main.n + 1] = "subscribe"] /\ Again
       ELSE Goto("join_subs") /\ UNCHANGED ppc
    /\ UNCHANGED <<status, spc, cb, token, deliveredtoken, semVars, live, bufVars,
                   netVars, stored, misused>>

(* pthread_join(sub_tid): sub_tid holds the last thread created.  Joining  *)
(* it a second time is undefined: the call returns or the process dies.    *)
MainJoinSubs ==
    /\ MainAt("join_subs")
    /\ IF main.n < NUM_SUBS
       THEN /\ main.n = 0 => spc[NUM_SUBS] = "done"
            /\ \/ Again /\ UNCHANGED status
               \/ main.n > 0 /\ status' = "failed" /\ UNCHANGED main
       ELSE Goto("stats") /\ UNCHANGED status
    /\ UNCHANGED <<spc, ppc, cb, token, deliveredtoken, semVars, live, bufVars,
                   netVars, stored, misused>>

(* if (rtt_ts) summary_stats(rtt_ts); module RttStats has the computation. *)
MainStats ==
    /\ MainAt("stats")
    /\ Goto("join_pubs")
    /\ UNCHANGED <<status, spc, ppc, cb, token, deliveredtoken, semVars, live, bufVars,
                   netVars, stored, misused>>

(* Mutant: the publishers are not waited for. *)
MainJoinPubsUnwaited ==
    /\ MainAt("join_pubs")
    /\ Goto("destroy")
    /\ UNCHANGED <<status, spc, ppc, cb, token, deliveredtoken, semVars, live, bufVars,
                   netVars, stored, misused>>

MainJoinPubs ==
    /\ MainAt("join_pubs")
    /\ IF main.n < NUM_PUBS
       THEN /\ main.n = 0 => ppc[NUM_PUBS] = "done"
            /\ \/ Again /\ UNCHANGED status
               \/ main.n > 0 /\ status' = "failed" /\ UNCHANGED main
       ELSE Goto("destroy") /\ UNCHANGED status
    /\ UNCHANGED <<spc, ppc, cb, token, deliveredtoken, semVars, live, bufVars,
                   netVars, stored, misused>>

DestroyOrder == <<"done_receiving", "stop_publish", "qos1_pubmutex">>

MainDestroy ==
    /\ MainAt("destroy")
    /\ live' = live \ {DestroyOrder[main.n + 1]}
    /\ IF main.n < 2 THEN Again ELSE Goto("disconnect")
    /\ UNCHANGED <<status, spc, ppc, cb, token, deliveredtoken, semVars, bufVars,
                   netVars, stored, misused>>

(* MQTTClient_disconnect, MQTTClient_destroy and the return from main,     *)
(* which ends every thread that is left.                                   *)
MainDisconnect ==
    /\ MainAt("disconnect")
    /\ \/ CallSucceeds /\ status' = "exited"
       \/ CallFails /\ status' = "failed"
    /\ connected' = FALSE
    /\ UNCHANGED <<main, spc, ppc, cb, token, deliveredtoken, semVars, live, bufVars,
                   topic_sub, kill_sub, unacked, msgs, kills, kills_seen, stored, misused>>

Main == \/ MainSetup \/ MainCreateSubs \/ MainCreatePubs \/ MainJoinSubs \/ MainStats
        \/ MainJoinPubs \/ MainDestroy \/ MainDisconnect

-----------------------------------------------------------------------------
(* subscribe_thread *)

SubStep(i, from, to) ==
    /\ status = "running" /\ spc[i] = from
    /\ spc' = [spc EXCEPT ![i] = to]

(* The two calloc, one statement each. *)
SubAllocReceive(i) ==
    /\ SubStep(i, "alloc_receive", "alloc_rtt")
    /\ receive_ts' = i
    /\ UNCHANGED <<status, main, ppc, cb, token, deliveredtoken, semVars, live, rtt_ts, it,
                   samples, netVars, stored, misused>>

SubAllocRtt(i) ==
    /\ SubStep(i, "alloc_rtt", "subscribe")
    /\ rtt_ts' = i
    /\ UNCHANGED <<status, main, ppc, cb, token, deliveredtoken, semVars, live, receive_ts,
                   it, samples, netVars, stored, misused>>

(* SUBSCRIBE(SUBS[0], QOS): every subscriber uses the first topic. *)
SubSubscribe(i) ==
    \/ /\ CallSucceeds
       /\ SubStep(i, "subscribe", "wait")
       /\ topic_sub' = TRUE
       /\ UNCHANGED <<status, main, ppc, cb, token, deliveredtoken, semVars, live, bufVars,
                      connected, kill_sub, unacked, msgs, kills, kills_seen, stored, misused>>
    \/ status = "running" /\ spc[i] = "subscribe" /\ CallFails /\ ExitFailure

(* Mutant: the subscriber does not block. *)
SubWaitUnblocked(i) ==
    /\ SubStep(i, "wait", "signal")
    /\ done_receiving' = done_receiving - 1
    /\ Uses("done_receiving")
    /\ UNCHANGED <<status, main, ppc, cb, token, deliveredtoken, stop_publish, qos1_pubmutex,
                   live, bufVars, netVars, stored>>

(* sem_wait(&done_receiving) *)
SubWait(i) ==
    /\ done_receiving > 0
    /\ SubStep(i, "wait", "signal")
    /\ done_receiving' = done_receiving - 1
    /\ Uses("done_receiving")
    /\ UNCHANGED <<status, main, ppc, cb, token, deliveredtoken, stop_publish, qos1_pubmutex,
                   live, bufVars, netVars, stored>>

(* sem_post(&stop_publish) *)
SubSignal(i) ==
    /\ SubStep(i, "signal", "unsubscribe")
    /\ stop_publish' = stop_publish + 1
    /\ Uses("stop_publish")
    /\ UNCHANGED <<status, main, ppc, cb, token, deliveredtoken, done_receiving,
                   qos1_pubmutex, live, bufVars, netVars, stored>>

SubUnsubscribe(i) ==
    \/ /\ CallSucceeds
       /\ SubStep(i, "unsubscribe", "done")
       /\ topic_sub' = FALSE
       /\ UNCHANGED <<status, main, ppc, cb, token, deliveredtoken, semVars, live, bufVars,
                      connected, kill_sub, unacked, msgs, kills, kills_seen, stored, misused>>
    \/ status = "running" /\ spc[i] = "unsubscribe" /\ CallFails /\ ExitFailure

Sub(i) == \/ SubAllocReceive(i) \/ SubAllocRtt(i) \/ SubSubscribe(i) \/ SubWait(i)
          \/ SubSignal(i) \/ SubUnsubscribe(i)

-----------------------------------------------------------------------------
(* publish_thread *)

PubStep(p, from, to) ==
    /\ status = "running" /\ ppc[p] = from
    /\ ppc' = [ppc EXCEPT ![p] = to]

(* SUBSCRIBE(pubkill, 1) *)
PubSubscribe(p) ==
    \/ /\ CallSucceeds
       /\ PubStep(p, "subscribe", "clear")
       /\ kill_sub' = TRUE
       /\ UNCHANGED <<status, main, spc, cb, token, deliveredtoken, semVars, live, bufVars,
                      connected, topic_sub, unacked, msgs, kills, kills_seen, stored, misused>>
    \/ status = "running" /\ ppc[p] = "subscribe" /\ CallFails /\ ExitFailure

(* deliveredtoken = 0, at the top of the loop. *)
PubClear(p) ==
    /\ PubStep(p, "clear", "publish")
    /\ deliveredtoken' = 0
    /\ UNCHANGED <<status, main, spc, cb, token, semVars, live, bufVars, netVars, stored,
                   misused>>

(* External: message ids are handed out in turn, so that one comes back    *)
(* only long after it was used.                                            *)
FreshTokens ==
    Tokens \ (unacked \cup {deliveredtoken, cb.dt} \cup {token[p] : p \in Pubs})

(* MQTTClient_publishMessage; with QoS 0 nobody acknowledges and nobody    *)
(* waits.                                                                  *)
PubPublish(p) ==
    \/ /\ CallSucceeds
       /\ \E t \in FreshTokens :
            /\ token' = [token EXCEPT ![p] = t]
            /\ unacked' = IF QOS = 0 THEN unacked ELSE unacked \cup {t}
       /\ PubStep(p, "publish", IF QOS = 0 THEN "check" ELSE "spin")
       /\ UNCHANGED <<status, main, spc, cb, deliveredtoken, semVars, live, bufVars,
                      connected, topic_sub, kill_sub, msgs, kills, kills_seen, stored, misused>>
    \/ status = "running" /\ ppc[p] = "publish" /\ CallFails /\ ExitFailure

(* Mutants: the token is cleared again inside the loop; the loop is left   *)
(* out.                                                                    *)
PubSpinClears(p) ==
    /\ status = "running" /\ ppc[p] = "spin"
    /\ \/ /\ deliveredtoken = token[p]
          /\ ppc' = [ppc EXCEPT ![p] = "post"] /\ stored' = stored \ {token[p]}
          /\ UNCHANGED deliveredtoken
       \/ deliveredtoken' = 0 /\ UNCHANGED <<ppc, stored>>
    /\ UNCHANGED <<status, main, spc, cb, token, semVars, live, bufVars, netVars, misused>>
PubSpinSkipped(p) ==
    /\ PubStep(p, "spin", "post")
    /\ UNCHANGED <<status, main, spc, cb, token, deliveredtoken, semVars, live, bufVars,
                   netVars, stored, misused>>

(* while (deliveredtoken != token) { } *)
PubSpin(p) ==
    /\ deliveredtoken = token[p]
    /\ PubStep(p, "spin", "post")
    /\ stored' = stored \ {token[p]}
    /\ UNCHANGED <<status, main, spc, cb, token, deliveredtoken, semVars, live, bufVars,
                   netVars, misused>>

(* Mutant: the post is forgotten. *)
PubPostMissing(p) ==
    /\ PubStep(p, "post", "check")
    /\ UNCHANGED <<status, main, spc, cb, token, deliveredtoken, semVars, live, bufVars,
                   netVars, stored, misused>>

(* sem_post(&qos1_pubmutex) *)
PubPost(p) ==
    /\ PubStep(p, "post", "check")
    /\ qos1_pubmutex' = qos1_pubmutex + 1
    /\ Uses("qos1_pubmutex")
    /\ UNCHANGED <<status, main, spc, cb, token, deliveredtoken, stop_publish,
                   done_receiving, live, bufVars, netVars, stored>>

(* usleep, then while (sem_trywait(&stop_publish)) *)
PubCheck(p) ==
    /\ IF stop_publish > 0
       THEN PubStep(p, "check", "unsubscribe") /\ stop_publish' = stop_publish - 1
       ELSE PubStep(p, "check", "clear") /\ UNCHANGED stop_publish
    /\ Uses("stop_publish")
    /\ UNCHANGED <<status, main, spc, cb, token, deliveredtoken, done_receiving,
                   qos1_pubmutex, live, bufVars, netVars, stored>>

PubUnsubscribe(p) ==
    \/ /\ CallSucceeds
       /\ PubStep(p, "unsubscribe", "done")
       /\ kill_sub' = FALSE
       /\ UNCHANGED <<status, main, spc, cb, token, deliveredtoken, semVars, live, bufVars,
                      connected, topic_sub, unacked, msgs, kills, kills_seen, stored, misused>>
    \/ status = "running" /\ ppc[p] = "unsubscribe" /\ CallFails /\ ExitFailure

Pub(p) == \/ PubSubscribe(p) \/ PubClear(p) \/ PubPublish(p) \/ PubSpin(p) \/ PubPost(p)
          \/ PubCheck(p) \/ PubUnsubscribe(p)

-----------------------------------------------------------------------------
(* The callback thread *)

CbAt(l) == status = "running" /\ cb.pc = l

(* An acknowledgement arrives and the library calls delivered(dt). *)
CbAck ==
    /\ CbAt("idle") /\ connected
    /\ \E t \in unacked : cb' = [pc |-> "wait", dt |-> t] /\ unacked' = unacked \ {t}
    /\ UNCHANGED <<status, main, spc, ppc, token, deliveredtoken, semVars, live, bufVars,
                   connected, topic_sub, kill_sub, msgs, kills, kills_seen, stored, misused>>

(* Mutant: the callback only looks whether the semaphore is free. *)
CbWaitUntaken ==
    /\ CbAt("wait") /\ qos1_pubmutex > 0
    /\ cb' = [cb EXCEPT !.pc = "store"]
    /\ UNCHANGED <<status, main, spc, ppc, token, deliveredtoken, semVars, live, bufVars,
                   netVars, stored, misused>>

(* sem_wait(&qos1_pubmutex) *)
CbWait ==
    /\ CbAt("wait") /\ qos1_pubmutex > 0
    /\ qos1_pubmutex' = qos1_pubmutex - 1
    /\ cb' = [cb EXCEPT !.pc = "store"]
    /\ Uses("qos1_pubmutex")
    /\ UNCHANGED <<status, main, spc, ppc, token, deliveredtoken, stop_publish,
                   done_receiving, live, bufVars, netVars, stored>>

(* deliveredtoken = dt *)
CbStore ==
    /\ CbAt("store")
    /\ deliveredtoken' = cb.dt
    /\ stored' = stored \cup {cb.dt}
    /\ cb' = Idle
    /\ UNCHANGED <<status, main, spc, ppc, token, semVars, live, bufVars, netVars, misused>>

(* Mutant: the buffer being full is not signalled. *)
CbMessageUnsignalled ==
    /\ CbAt("idle") /\ it < msgs
    /\ IF it < MAX_ITER
       THEN samples' = Append(samples, <<receive_ts, rtt_ts>>)
       ELSE UNCHANGED samples
    /\ it' = it + 1
    /\ UNCHANGED <<status, main, spc, ppc, cb, token, deliveredtoken, semVars, live,
                   receive_ts, rtt_ts, netVars, stored, misused>>

(* msgarrvd on the subscribed topic. *)
CbMessage ==
    /\ CbAt("idle") /\ it < msgs
    /\ IF it < MAX_ITER
       THEN samples' = Append(samples, <<receive_ts, rtt_ts>>)
       ELSE UNCHANGED samples
    /\ IF it = MAX_ITER
       THEN done_receiving' = done_receiving + 1 /\ Uses("done_receiving")
       ELSE UNCHANGED <<done_receiving, misused>>
    /\ it' = it + 1
    /\ UNCHANGED <<status, main, spc, ppc, cb, token, deliveredtoken, stop_publish,
                   qos1_pubmutex, live, receive_ts, rtt_ts, netVars, stored>>

(* msgarrvd on 'pubkill'. *)
CbKill ==
    /\ CbAt("idle") /\ kills_seen < kills
    /\ kills_seen' = kills_seen + 1
    /\ stop_publish' = stop_publish + 1
    /\ Uses("stop_publish")
    /\ UNCHANGED <<status, main, spc, ppc, cb, token, deliveredtoken, done_receiving,
                   qos1_pubmutex, live, bufVars, connected, topic_sub, kill_sub, unacked,
                   msgs, kills, stored>>

Cb == CbAck \/ CbWait \/ CbStore \/ CbMessage \/ CbKill

-----------------------------------------------------------------------------
(* The broker and the network, external.  A message the library has        *)
(* received waits for the callback thread, also after an unsubscribe.      *)

NetStep ==
    /\ status = "running" /\ connected
    /\ UNCHANGED <<status, main, spc, ppc, cb, token, deliveredtoken, semVars, live, bufVars,
                   topic_sub, kill_sub, unacked, kills_seen, stored, misused>>

BrokerMessage ==
    /\ NetStep /\ topic_sub /\ msgs < MaxMsgs
    /\ msgs' = msgs + 1
    /\ UNCHANGED <<kills, connected>>

BrokerKill ==
    /\ NetStep /\ kill_sub /\ kills < MaxKills
    /\ kills' = kills + 1
    /\ UNCHANGED <<msgs, connected>>

(* connlost only prints. *)
ConnLost ==
    /\ NetStep /\ MayLose
    /\ connected' = FALSE
    /\ UNCHANGED <<msgs, kills>>

Next == \/ Main \/ Cb \/ BrokerMessage \/ BrokerKill \/ ConnLost
        \/ \E i \in Subs : Sub(i)
        \/ \E p \in Pubs : Pub(p)

Spec == Init /\ [][Next]_vars

(* Every thread keeps running.  The receive thread of the library serves   *)
(* its socket in order, so an event that waits is handled however many     *)
(* others come.  Nothing makes the broker send: the last publisher may     *)
(* have stopped, on a pubkill, before the subscriber has its samples.      *)
Fairness ==
    /\ WF_vars(Main) /\ WF_vars(CbWait) /\ WF_vars(CbStore)
    /\ SF_vars(CbAck) /\ SF_vars(CbMessage) /\ SF_vars(CbKill)
    /\ \A i \in Subs : WF_vars(Sub(i))
    /\ \A p \in Pubs : WF_vars(Pub(p))

FairSpec == Spec /\ Fairness

-----------------------------------------------------------------------------
MainPCs == {"setup", "create_subs", "create_pubs", "join_subs", "stats", "join_pubs",
            "destroy", "disconnect"}
SubPCs == {"none", "alloc_receive", "alloc_rtt", "subscribe", "wait", "signal",
           "unsubscribe", "done"}
PubPCs == {"none", "subscribe", "clear", "publish", "spin", "post", "check",
           "unsubscribe", "done"}
Semaphores == {"done_receiving", "stop_publish", "qos1_pubmutex"}

(* The type invariant. *)
TypeOK ==
    /\ status \in {"running", "exited", "failed"}
    /\ main \in [pc: MainPCs, n: Nat]
    /\ spc \in [Subs -> SubPCs] /\ ppc \in [Pubs -> PubPCs]
    /\ cb \in [pc: {"idle", "wait", "store"}, dt: Tokens \cup {0}]
    /\ token \in [Pubs -> Tokens \cup {0}]
    /\ deliveredtoken \in Tokens \cup {-1, 0}
    /\ stop_publish \in Nat /\ done_receiving \in Nat /\ qos1_pubmutex \in Nat
    /\ live \subseteq Semaphores
    /\ receive_ts \in Subs \cup {0} /\ rtt_ts \in Subs \cup {0}
    /\ it \in Nat /\ samples \in Seq((Subs \cup {0}) \X (Subs \cup {0}))
    /\ connected \in BOOLEAN /\ topic_sub \in BOOLEAN /\ kill_sub \in BOOLEAN
    /\ unacked \subseteq Tokens
    /\ msgs \in Nat /\ kills \in Nat /\ kills_seen \in Nat
    /\ stored \subseteq Tokens /\ misused \in BOOLEAN

(* "Wait till last delivered thread acknowledges deliver token"            *)
(* (mqtt.c:69): a token delivered() has stored stays in deliveredtoken     *)
(* until the publisher that spins on it has seen it.                       *)
TokenVisible ==
    \A p \in Pubs : ppc[p] = "spin" /\ token[p] \in stored => deliveredtoken = token[p]

(* However many publishers there are, at most one token is being handed    *)
(* over: the semaphore is free, or the callback is about to store a token, *)
(* or one publisher is about to acknowledge the one it saw.                *)
HandoverExclusive ==
    /\ qos1_pubmutex + (IF cb.pc = "store" THEN 1 ELSE 0) <= 1
    /\ \A p \in Pubs : ppc[p] = "post" =>
         /\ qos1_pubmutex = 0 /\ cb.pc # "store"
         /\ \A q \in Pubs : ppc[q] = "post" => q = p

(* A publisher goes on only after its own message was acknowledged.        *)
PostAfterDelivery ==
    \A p \in Pubs : ppc[p] = "post" => token[p] \notin unacked /\ cb.dt # token[p]

(* When main computes the statistics, and ever after, all MAX_ITER samples *)
(* have been written to the buffers that the pointers hold.                *)
SamplesComplete ==
    main.pc \in {"stats", "join_pubs", "destroy", "disconnect"} /\ NUM_SUBS > 0 =>
      /\ Len(samples) = MAX_ITER
      /\ \A j \in 1..MAX_ITER : samples[j] = <<receive_ts, rtt_ts>>

StopRequests == kills_seen + (IF \E i \in Subs : spc[i] \in {"unsubscribe", "done"}
                              THEN 1 ELSE 0)

(* No thread uses a semaphore before sem_init or after sem_destroy, unless *)
(* more requests to stop arrive than there are publishers to take them.    *)
SemaphoresAlive == misused => StopRequests > NUM_PUBS

(* Once the subscribed topic has carried one message more than there are   *)
(* samples to record, the process ends, however many pubkills came and     *)
(* whenever: the subscriber leaves sem_wait (mqtt.c:172) and stops the     *)
(* publisher, and main's two joins return.  With fewer messages it need    *)
(* not end: a pubkill may stop all who publish, and nobody else posts.     *)
Terminates == (msgs > MAX_ITER) ~> (status # "running")

(* The token handshake of one publisher as an abstract stop-and-wait       *)
(* protocol: the slot is full from the store of the token to the post that *)
(* acknowledges it.                                                        *)
Outstanding == IF ppc[1] \in {"spin", "post"} THEN token[1] ELSE 0
Slot == IF main.pc # "setup" /\ qos1_pubmutex = 0 /\ cb.pc # "store"
        THEN deliveredtoken ELSE 0

Protocol == INSTANCE StopAndWait WITH outstanding <- Outstanding, slot <- Slot

(* With one publisher every message is delivered and acknowledged, in      *)
(* turn, and none is skipped or taken twice.                               *)
StopAndWaitHolds == Protocol!FairSpec

=============================================================================
