----------------------------- MODULE MCXTransport -----------------------------
(***************************************************************************)
(* XTransport with a few ports of each kind.                               *)
(***************************************************************************)
EXTENDS XTransport, TLC

CONSTANTS ClientSends, AcceptedSends

SIDs == Clients \cup Listeners
SendBounds == [p \in Clients \cup Listeners \cup AcceptPorts |->
                  IF p \in Clients THEN ClientSends ELSE AcceptedSends]
Payloads == UNION {{p} \X (1 .. SendBounds[p]) : p \in Clients \cup Listeners \cup AcceptPorts}

\* Ports of one kind are interchangeable.
PortSymmetry == Permutations(Clients) \cup Permutations(Listeners) \cup Permutations(AcceptPorts)
===============================================================================
