---------------------------- MODULE ReliableStream ----------------------------
(***************************************************************************)
(* What a connected pair of SOCK_STREAM sockets promises each application: *)
(* the payloads the peer handed to Xsend, in the order they were sent,     *)
(* each exactly once.  Sent and received payloads are kept as whole        *)
(* histories, so a receiver's position in the stream is Len(rcvd).         *)
(***************************************************************************)
EXTENDS Naturals, Sequences

CONSTANTS Side, Data, Peer(_)

VARIABLES sent, rcvd

Init == /\ sent = [s \in Side |-> << >>]
        /\ rcvd = [s \in Side |-> << >>]

Send(s, payload) == /\ sent' = [sent EXCEPT ![s] = Append(@, payload)]
                    /\ UNCHANGED rcvd

Deliver(s) ==
    /\ Len(rcvd[s]) < Len(sent[Peer(s)])
    /\ rcvd' = [rcvd EXCEPT ![s] = Append(@, sent[Peer(s)][Len(@) + 1])]
    /\ UNCHANGED sent

Next == \E s \in Side : Deliver(s) \/ \E payload \in Data : Send(s, payload)

Spec == Init /\ [][Next]_<<sent, rcvd>>
===============================================================================
