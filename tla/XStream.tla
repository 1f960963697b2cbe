-------------------------------- MODULE XStream --------------------------------
(***************************************************************************)
(* One established SOCK_STREAM connection: the Go-Back-N data transfer of  *)
(* XTRANSPORT between the socket that called Xconnect ("client") and the   *)
(* one Xaccept returned ("server"), from the moment both are set up until  *)
(* each is torn down.                                                      *)
(*                                                                         *)
(* Click runs an element's handlers one at a time, so a handler is one     *)
(* action.  The network keeps every packet ever pushed to it until it is   *)
(* lost: a packet may be received late, out of order, many times or never. *)
(***************************************************************************)
EXTENDS StreamSocket, Sequences

CONSTANTS
    MaxSends,     \* bound: Xsend calls of each side
    MaxLosses,    \* bound: packets the network destroys
    DupSynAcks    \* SYNACKs still in flight once the connection is up (the
                  \* answers to SYNs that were retransmitted or duplicated)

Side == {"client", "server"}

ASSUME BoundsAssumption == /\ MaxSends \in [Side -> Nat]
                           /\ MaxLosses \in Nat
                           /\ DupSynAcks \in Nat

ASSUME ServiceIDs == {"SID_client", "SID_server"} \subseteq XIDs

Peer(s) == IF s = "client" THEN "server" ELSE "client"

VARIABLES
    dag,      \* portToDAGinfo of the two sockets
    active,   \* whether a side's socket is still in portToDAGinfo, portToActive
    data,     \* DATA packets in flight, by the side that sent them
    acks,     \* numbers of the ACKs in flight, by the side that sent them
    synacks,  \* SYNACKs in flight to the client
    sent,     \* payloads each application has handed to Xsend
    rcvd,     \* payloads pushed up to each application
    closed,   \* whether the application has called Xclose
    gaveup,   \* whether run_timer has exhausted MAX_RETRANSMIT_TRIES
    losses    \* packets lost so far

vars == <<dag, active, data, acks, synacks, sent, rcvd, closed, gaveup, losses>>

Init ==
    /\ dag = [s \in Side |->
                IF s = "client"
                THEN SynackInfo(XconnectInfo(XsocketInfo, "SID_client", "SID_server"))
                ELSE XacceptInfo("SID_server", "SID_client")]
    /\ active = [s \in Side |-> TRUE]
    /\ data = [s \in Side |-> {}]
    /\ acks = [s \in Side |-> {}]
    /\ synacks = DupSynAcks
    /\ sent = [s \in Side |-> << >>]
    /\ rcvd = [s \in Side |-> << >>]
    /\ closed = [s \in Side |-> FALSE]
    /\ gaveup = [s \in Side |-> FALSE]
    /\ losses = 0

-------------------------------------------------------------------------------
\* The application's calls.

Xsend(s, payload) ==
    /\ ~closed[s]
    /\ Len(sent[s]) < MaxSends[s]
    /\ active[s] /\ dag[s].isConnected
    /\ dag' = [dag EXCEPT ![s] = XsendInfo(@, payload)]
    /\ data' = [data EXCEPT ![s] = @ \cup {NextPacket(dag[s], payload)}]
    /\ sent' = [sent EXCEPT ![s] = Append(@, payload)]
    /\ UNCHANGED <<active, acks, synacks, rcvd, closed, gaveup, losses>>

Xclose(s) ==
    /\ ~closed[s]
    /\ dag' = [dag EXCEPT ![s] = XcloseInfo(@)]
    /\ closed' = [closed EXCEPT ![s] = TRUE]
    /\ UNCHANGED <<active, data, acks, synacks, sent, rcvd, gaveup, losses>>

-------------------------------------------------------------------------------
\* ProcessNetworkPacket at side s.

\* DATA: only the packet in sequence goes up; a cumulative ACK goes out always.
RecvDATA(s, p) ==
    /\ p \in data[Peer(s)]
    /\ active[s]
    /\ dag' = [dag EXCEPT ![s] = DataInfo(@, p.seq)]
    /\ rcvd' = IF InSequence(dag[s], p.seq)
               THEN [rcvd EXCEPT ![s] = Append(@, p.data)]
               ELSE rcvd
    /\ acks' = [acks EXCEPT ![s] = @ \cup {CumulativeAck(dag[s], p.seq)}]
    /\ UNCHANGED <<active, data, synacks, sent, closed, gaveup, losses>>

RecvACK(s, n) ==
    /\ n \in acks[Peer(s)]
    /\ active[s]
    /\ dag' = [dag EXCEPT ![s] = AckInfo(@, n)]
    /\ UNCHANGED <<active, data, acks, synacks, sent, rcvd, closed, gaveup, losses>>

\* A SYNACK that arrives when the connection is already up.
RecvSYNACK ==
    /\ synacks > 0
    /\ active["client"]
    /\ dag' = [dag EXCEPT !["client"] = SynackInfo(@)]
    /\ synacks' = synacks - 1
    /\ UNCHANGED <<active, data, acks, sent, rcvd, closed, gaveup, losses>>

-------------------------------------------------------------------------------
\* run_timer's branches for the socket of side s.  No SYN is outstanding here.

TimerData(s) ==
    /\ active[s]
    /\ DataTimeout(dag[s], TRUE)
    /\ dag' = [dag EXCEPT ![s] = DataTimeoutInfo(@)]
    /\ data' = [data EXCEPT ![s] = @ \cup Retransmitted(dag[s])]
    /\ gaveup' = [gaveup EXCEPT ![s] = @ \/ ~DataRetry(dag[s])]
    /\ UNCHANGED <<active, acks, synacks, sent, rcvd, closed, losses>>

\* The entries of the socket are erased; what dag keeps is out of reach.  The code then
\* frees sent_pkt through its pointer to the erased entry; as long as that does not end
\* Click, and all of this state with it, it changes nothing that is modelled.
TimerTeardown(s) ==
    /\ active[s]
    /\ \E expired \in BOOLEAN : TeardownTimeout(dag[s], expired)
    /\ dag' = [dag EXCEPT ![s].timer_on = FALSE]
    /\ active' = [active EXCEPT ![s] = FALSE]
    /\ UNCHANGED <<data, acks, synacks, sent, rcvd, closed, gaveup, losses>>

-------------------------------------------------------------------------------
\* The network loses every copy of a packet.

LoseDATA(s, p) == /\ p \in data[s]
                  /\ losses < MaxLosses
                  /\ data' = [data EXCEPT ![s] = @ \ {p}]
                  /\ losses' = losses + 1
                  /\ UNCHANGED <<dag, active, acks, synacks, sent, rcvd, closed, gaveup>>

LoseACK(s, n) == /\ n \in acks[s]
                 /\ losses < MaxLosses
                 /\ acks' = [acks EXCEPT ![s] = @ \ {n}]
                 /\ losses' = losses + 1
                 /\ UNCHANGED <<dag, active, data, synacks, sent, rcvd, closed, gaveup>>

Next ==
    \/ \E s \in Side :
          \/ \E payload \in Data : Xsend(s, payload)
          \/ Xclose(s)
          \/ \E p \in data[Peer(s)] : RecvDATA(s, p)
          \/ \E n \in acks[Peer(s)] : RecvACK(s, n)
          \/ TimerData(s)
          \/ TimerTeardown(s)
          \/ \E p \in data[s] : LoseDATA(s, p)
          \/ \E n \in acks[s] : LoseACK(s, n)
    \/ RecvSYNACK

Spec == Init /\ [][Next]_vars

-------------------------------------------------------------------------------
\* Fairness.  A pending Click timer fires; a packet that stays in the network
\* is eventually handed to the element.  Applications owe nothing.

ReceiveFairness ==
    \A s \in Side :
        /\ \A i \in 0 .. MaxSends[Peer(s)] - 1 :
               WF_vars(\E p \in data[Peer(s)] : p.seq = i /\ RecvDATA(s, p))
        /\ \A n \in 0 .. MaxSends[s] : WF_vars(RecvACK(s, n))

\* run_timer prefers an expired retransmission to an expired teardown, so the
\* teardown is owed only to a socket that waits for no data ACK.
TimerFairness ==
    \A s \in Side :
        /\ WF_vars(TimerData(s))
        /\ WF_vars(~dag[s].dataack_waiting /\ TimerTeardown(s))

FairSpec == Spec /\ ReceiveFairness /\ TimerFairness

-------------------------------------------------------------------------------
\* Every variable has its type, and the bounds hold.
TypeOK ==
    /\ dag \in [Side -> DAGinfo]
    /\ active \in [Side -> BOOLEAN]
    /\ data \in [Side -> SUBSET Packet]
    /\ acks \in [Side -> SUBSET Nat]
    /\ synacks \in 0 .. DupSynAcks
    /\ sent \in [Side -> Seq(Data)] /\ \A s \in Side : Len(sent[s]) <= MaxSends[s]
    /\ rcvd \in [Side -> Seq(Data)]
    /\ closed \in [Side -> BOOLEAN]
    /\ gaveup \in [Side -> BOOLEAN]
    /\ losses \in 0 .. MaxLosses

\* What ProcessNetworkPacket pushes up to an application is what its peer gave
\* to Xsend, in order, nothing skipped and nothing twice, whatever the network
\* reorders or duplicates, however often run_timer retransmits, and even when
\* Xsend has overwritten slots of sent_pkt that were still in use.
InOrderDelivery ==
    \A s \in Side :
        /\ Len(rcvd[s]) <= Len(sent[Peer(s)])
        /\ \A i \in 1 .. Len(rcvd[s]) : rcvd[s][i] = sent[Peer(s)][i]

\* An ACK never runs ahead of the peer's application: base, which the ACK
\* branch copies from the packet, counts only payloads already pushed up.
AckedIsDelivered == \A s \in Side : dag[s].base <= Len(rcvd[Peer(s)])

\* Payloads Xsend took and the peer has not been given.
Undelivered(s) == Len(rcvd[Peer(s)]) .. Len(sent[s]) - 1

\* As long as a side has not sent more than MAX_WIN_SIZE packets, each of them
\* stays in its slot until the peer has it: "Clear all Acked packets" clears
\* none too many, even when a stale ACK has moved base backwards.
UndeliveredIsBuffered ==
    \A s \in Side : Len(sent[s]) <= MAX_WIN_SIZE =>
        \A i \in Undelivered(s) :
            dag[s].sent_pkt[i % MAX_WIN_SIZE] = [seq |-> i, data |-> sent[s][i + 1]]

\* While something is undelivered the retransmission timer is armed, until the
\* socket is torn down or run_timer gives up; a duplicate SYNACK also disarms
\* it, so the client is covered only until it processes one.
UndeliveredIsTimed ==
    \A s \in Side :
        (/\ Len(sent[s]) <= MAX_WIN_SIZE
         /\ active[s] /\ ~gaveup[s]
         /\ s = "client" => synacks = DupSynAcks
         /\ Undelivered(s) # {})
        => dag[s].timer_on /\ dag[s].dataack_waiting

\* A duplicate SYNACK has switched off the timer the client still waits for.
SynackDisarmed(s) ==
    /\ s = "client" /\ synacks < DupSynAcks
    /\ active[s] /\ ~dag[s].timer_on
    /\ dag[s].dataack_waiting \/ dag[s].teardown_waiting

\* SOCK_STREAM is for "reliable communications": a payload given to Xsend reaches
\* the peer unless an application closes its socket or the retransmissions run out.
Reliable ==
    \A s \in Side : \A i \in 1 .. MaxSends[s] :
        Len(sent[s]) >= i ~> \/ Len(rcvd[Peer(s)]) >= i
                            \/ gaveup[s] \/ closed[s] \/ closed[Peer(s)]

\* What the code does keep of Reliable: losses and reordering alone never make a
\* payload disappear.  The exceptions are a side that sends more than MAX_WIN_SIZE
\* packets, whose slots Xsend reuses, and a client whose retransmission timer a
\* duplicate SYNACK has disarmed for good.
EventuallyDelivered ==
    \A s \in Side :
        \/ <>[]SynackDisarmed(s)
        \/ \A i \in 1 .. MaxSends[s] :
               Len(sent[s]) >= i ~> \/ Len(rcvd[Peer(s)]) >= i
                                   \/ gaveup[s] \/ closed[s] \/ closed[Peer(s)]
                                   \/ Len(sent[s]) > MAX_WIN_SIZE

\* A side that only ever received is torn down by run_timer once it is closed,
\* except a client whose teardown timer a duplicate SYNACK has disarmed for good.
ReceiverIsTornDown ==
    \A s \in Side :
        \/ <>[]SynackDisarmed(s)
        \/ closed[s] /\ sent[s] = << >> ~> ~active[s]

\* Xclose "causes the XIA transport to tear down the underlying XIA socket state".
ClosedIsTornDown == \A s \in Side : closed[s] ~> ~active[s]

\* The connection implements a pair of reliable streams: every handler either
\* leaves the two histories alone, sends, or delivers the next payload.
Stream == INSTANCE ReliableStream
            WITH Side <- Side, Data <- Data, Peer <- Peer, sent <- sent, rcvd <- rcvd

ImplementsReliableStream == Stream!Spec
===============================================================================
