---------------------------- MODULE PacketStream ----------------------------
(***************************************************************************)
(* What the packet layer promises to the code above it: the packets that   *)
(* one peer sends reach the other one in the order they were sent, none of *)
(* them lost, repeated or changed, and each of them arrives in the end.    *)
(***************************************************************************)
EXTENDS Naturals, Sequences

CONSTANTS Peers, Limit, Other(_)

VARIABLES
  count,      \* packets each peer has sent
  pending,    \* packets each peer has yet to receive
  got         \* packets each peer has received

vars == <<count, pending, got>>

Init == count = [p \in Peers |-> 0] /\ pending = [p \in Peers |-> <<>>]
        /\ got = [p \in Peers |-> <<>>]

Send(p) ==
  /\ count[p] < Limit
  /\ count' = [count EXCEPT ![p] = @ + 1]
  /\ pending' = [pending EXCEPT ![Other(p)] = Append(@, count[p] + 1)]
  /\ UNCHANGED got

Deliver(p) ==
  /\ pending[p] # <<>>
  /\ got' = [got EXCEPT ![p] = Append(@, Head(pending[p]))]
  /\ pending' = [pending EXCEPT ![p] = Tail(@)]
  /\ UNCHANGED count

Next == \E p \in Peers : Send(p) \/ Deliver(p)

Spec == Init /\ [][Next]_vars /\ \A p \in Peers : WF_vars(Deliver(p))
=============================================================================
