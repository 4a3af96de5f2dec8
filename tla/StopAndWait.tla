---------------------------- MODULE StopAndWait ----------------------------
(***************************************************************************)
(* What the semaphore qos1_pubmutex and the variable deliveredtoken of     *)
(* mqtt.c are for: one message is outstanding at a time, its token is      *)
(* handed over through a single slot, and nothing else is published before *)
(* the publisher has taken it.  0 stands for no token.                     *)
(***************************************************************************)
EXTENDS Integers

CONSTANT Tokens

VARIABLES outstanding,  \* the token the publisher waits for
          slot          \* the token the callback handed over

Init == outstanding = 0 /\ slot = 0

Publish == /\ outstanding = 0
           /\ outstanding' \in Tokens
           /\ UNCHANGED slot

Deliver == /\ outstanding # 0 /\ slot = 0
           /\ slot' = outstanding
           /\ UNCHANGED outstanding

Acknowledge == /\ slot # 0 /\ slot = outstanding
               /\ slot' = 0 /\ outstanding' = 0

Next == Publish \/ Deliver \/ Acknowledge

vars == <<outstanding, slot>>

Spec == Init /\ [][Next]_vars

(* Every published message is delivered and its token taken. *)
FairSpec == Spec /\ WF_vars(Deliver) /\ WF_vars(Acknowledge)

=============================================================================
