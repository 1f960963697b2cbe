------------------------------ MODULE XTransport ------------------------------
(***************************************************************************)
(* The SOCK_STREAM half of an XTRANSPORT element: its tables, the API      *)
(* calls that reach it over UDP, the packets it exchanges with the network *)
(* and its timer.  Client and server sockets share one element here; two   *)
(* hosts split the same tables along keys that never meet.                 *)
(*                                                                         *)
(* A socket is named by its UDP control port.  The SID that Xbind gives a  *)
(* listener, or Xconnect draws at random for a client, is named by the     *)
(* port too: SIDs are unique, as the API expects of its callers.           *)
(***************************************************************************)
EXTENDS StreamSocket, Sequences

CONSTANTS
    Clients, Listeners, AcceptPorts,  \* the ports each kind of socket may use
    MaxSyns,                          \* bound: SYNs that reach the element
    MaxSends                          \* bound: Xsend calls on each port

Ports == Clients \cup Listeners \cup AcceptPorts

ASSUME SIDsAssumption == /\ XIDs = Clients \cup Listeners
                         /\ Data = UNION {{p} \X (1 .. MaxSends[p]) : p \in Ports}
                         /\ Clients \cap Listeners = {}
                         /\ AcceptPorts \cap (Clients \cup Listeners) = {}
                         /\ NULL \notin Ports \cup DAGinfo
                         /\ MaxSyns \in Nat /\ MaxSends \in [Ports -> Nat]

VARIABLES
    portToDAGinfo,        \* with portToActive, which has the same ports
    XIDtoPort, XIDpairToPort,
    routes,               \* SIDs the route table sends to this element
    pending_connection_buf,
    net,                  \* packets pushed to NETWORK_PORT; any of them may
                          \* arrive late, repeatedly or never
    inbox,                \* messages pushed to API_PORT for each port, ever
    taken,                \* how many of them the API library has consumed
    app,                  \* where the application is with the socket
    listener,             \* the listener an Xaccept was called on
    syns                  \* SYNs received so far

tables == <<XIDtoPort, XIDpairToPort, routes>>
vars   == <<portToDAGinfo, tables, pending_connection_buf, net, inbox, taken,
            app, listener, syns>>

\* What is pushed up to an application.
Granted == <<"Connection_granted", NULL>>
Request == <<"Connection_request", NULL>>
Payload(x) == <<"payload", x>>

Msg == [type : {"SYN", "SYNACK", "DATA", "ACK"}, src : XIDs, dst : XIDs,
        num : Nat, data : Data \cup {NULL}]

Segment(type, src, dst, num, payload) ==
    [type |-> type, src |-> src, dst |-> dst, num |-> num, data |-> payload]

Open(p) == portToDAGinfo[p] # NULL

Init ==
    /\ portToDAGinfo = [p \in Ports |-> NULL]
    /\ XIDtoPort = [x \in XIDs |-> NULL]
    /\ XIDpairToPort = [pair \in XIDs \X XIDs |-> NULL]
    /\ routes = {}
    /\ pending_connection_buf = << >>
    /\ net = {}
    /\ inbox = [p \in Ports |-> << >>]
    /\ taken = [p \in Ports |-> 0]
    /\ app = [p \in Ports |-> "none"]
    /\ listener = [a \in AcceptPorts |-> NULL]
    /\ syns = 0

-------------------------------------------------------------------------------
\* ProcessAPIPacket.

Xsocket(p) ==
    /\ p \in Clients \cup Listeners
    /\ app[p] = "none"
    /\ portToDAGinfo' = [portToDAGinfo EXCEPT ![p] = XsocketInfo]
    /\ app' = [app EXCEPT ![p] = "open"]
    /\ UNCHANGED <<tables, pending_connection_buf, net, inbox, taken, listener, syns>>

Xbind(l) ==
    /\ app[l] = "open"
    /\ portToDAGinfo' = [portToDAGinfo EXCEPT ![l] = XbindInfo(@, l)]
    /\ XIDtoPort' = [XIDtoPort EXCEPT ![l] = l]
    /\ routes' = routes \cup {l}
    /\ app' = [app EXCEPT ![l] = "listening"]
    /\ UNCHANGED <<XIDpairToPort, pending_connection_buf, net, inbox, taken, listener, syns>>

Xconnect(c, dst) ==
    /\ app[c] = "open"
    /\ portToDAGinfo' = [portToDAGinfo EXCEPT ![c] = XconnectInfo(@, c, dst)]
    /\ XIDpairToPort' = [XIDpairToPort EXCEPT ![<<c, dst>>] = c]
    /\ XIDtoPort' = [XIDtoPort EXCEPT ![c] = c]
    /\ routes' = routes \cup {c}
    /\ net' = net \cup {Segment("SYN", c, dst, 0, NULL)}
    /\ app' = [app EXCEPT ![c] = "connecting"]
    /\ UNCHANGED <<pending_connection_buf, inbox, taken, listener, syns>>

XconnectReturnsAtOnce(c) ==
    /\ app[c] = "connecting"
    /\ taken' = [taken EXCEPT ![c] = @ + 1]
    /\ app' = [app EXCEPT ![c] = "up"]
    /\ UNCHANGED <<portToDAGinfo, tables, pending_connection_buf, net, inbox, listener, syns>>

\* The rest of the library's Xconnect: it blocks in recvfrom, and anything that
\* arrives other than "^Connection-failed^" means the connection is up.
XconnectReturns(c) ==
    /\ app[c] = "connecting"
    /\ taken[c] < Len(inbox[c])
    /\ taken' = [taken EXCEPT ![c] = @ + 1]
    /\ app' = [app EXCEPT ![c] = "up"]
    /\ UNCHANGED <<portToDAGinfo, tables, pending_connection_buf, net, inbox, listener, syns>>

\* The library's Xaccept waits for a request on the listener l ...
XacceptNotified(l, a) ==
    /\ app[l] = "listening" /\ app[a] = "none"
    /\ taken[l] < Len(inbox[l])
    /\ taken' = [taken EXCEPT ![l] = @ + 1]
    /\ app' = [app EXCEPT ![a] = "accepting"]
    /\ listener' = [listener EXCEPT ![a] = l]
    /\ UNCHANGED <<portToDAGinfo, tables, pending_connection_buf, net, inbox, syns>>

\* ... and then lets the new port a have whatever heads the element's one queue.
Xaccept(a) ==
    /\ app[a] = "accepting"
    /\ IF pending_connection_buf # << >>
       THEN LET conn == Head(pending_connection_buf)
            IN  /\ portToDAGinfo' = [portToDAGinfo EXCEPT ![a] = XacceptInfo(conn.src, conn.dst)]
                /\ XIDpairToPort' = [XIDpairToPort EXCEPT ![<<conn.src, conn.dst>>] = a]
                /\ pending_connection_buf' = Tail(pending_connection_buf)
                /\ app' = [app EXCEPT ![a] = "up"]
       ELSE /\ app' = [app EXCEPT ![a] = "ECONNABORTED"]
            /\ UNCHANGED <<portToDAGinfo, XIDpairToPort, pending_connection_buf>>
    /\ UNCHANGED <<XIDtoPort, routes, net, inbox, taken, listener, syns>>

Xsend(p) ==
    /\ app[p] = "up"
    /\ Open(p) /\ portToDAGinfo[p].isConnected
    /\ LET d == portToDAGinfo[p]
           payload == <<p, d.next_seqnum + 1>>
       IN  /\ d.next_seqnum < MaxSends[p]
           /\ portToDAGinfo' = [portToDAGinfo EXCEPT ![p] = XsendInfo(d, payload)]
           /\ net' = net \cup {Segment("DATA", d.src_path, d.dst_path, d.next_seqnum, payload)}
    /\ UNCHANGED <<tables, pending_connection_buf, inbox, taken, app, listener, syns>>

\* An application blocked in Xconnect cannot close.
Xclose(p) ==
    /\ app[p] \in {"open", "listening", "up"}
    /\ portToDAGinfo' = [portToDAGinfo EXCEPT ![p] = XcloseInfo(@)]
    /\ app' = [app EXCEPT ![p] = "closed"]
    /\ UNCHANGED <<tables, pending_connection_buf, net, inbox, taken, listener, syns>>

-------------------------------------------------------------------------------
\* ProcessNetworkPacket, for a packet whose SID is routed to this element.

Arrives(m, type) == m.type = type /\ m.dst \in routes

\* The port a connected socket's packet belongs to.
PairPort(m) == XIDpairToPort[<<m.dst, m.src>>]

\* Every SYN is queued, a repeated one too.
QueuedOnce(conn) == IF conn \in {pending_connection_buf[i] : i \in DOMAIN pending_connection_buf}
                    THEN pending_connection_buf
                    ELSE Append(pending_connection_buf, conn)

Queued(conn) == Append(pending_connection_buf, conn)

RecvSYN(m) ==
    /\ Arrives(m, "SYN")
    /\ syns < MaxSyns
    /\ syns' = syns + 1
    /\ pending_connection_buf' = Queued([src |-> m.dst, dst |-> m.src])
    /\ net' = net \cup {Segment("SYNACK", m.dst, m.src, 0, NULL)}
    /\ LET dport == XIDtoPort[m.dst]
       IN  inbox' = IF dport = NULL THEN inbox
                                    ELSE [inbox EXCEPT ![dport] = Append(@, Request)]
    /\ UNCHANGED <<portToDAGinfo, tables, taken, app, listener>>

\* Only the first SYNACK goes up to the API.
EverySynackGrants(d) == TRUE

SynackGrants(d) == d.synack_waiting

RecvSYNACK(m) ==
    /\ Arrives(m, "SYNACK")
    /\ LET p == PairPort(m)
           d == portToDAGinfo[p]
       IN  /\ p # NULL /\ Open(p)
           /\ portToDAGinfo' = [portToDAGinfo EXCEPT ![p] = SynackInfo(d)]
           /\ inbox' = IF SynackGrants(d) THEN [inbox EXCEPT ![p] = Append(@, Granted)]
                                          ELSE inbox
    /\ UNCHANGED <<tables, pending_connection_buf, net, taken, app, listener, syns>>

RecvDATA(m) ==
    /\ Arrives(m, "DATA")
    /\ LET p == PairPort(m)
           d == portToDAGinfo[p]
       IN  /\ p # NULL /\ Open(p)
           /\ portToDAGinfo' = [portToDAGinfo EXCEPT ![p] = DataInfo(d, m.num)]
           /\ inbox' = IF InSequence(d, m.num) THEN [inbox EXCEPT ![p] = Append(@, Payload(m.data))]
                                               ELSE inbox
           /\ net' = net \cup {Segment("ACK", m.dst, m.src, CumulativeAck(d, m.num), NULL)}
    /\ UNCHANGED <<tables, pending_connection_buf, taken, app, listener, syns>>

RecvACK(m) ==
    /\ Arrives(m, "ACK")
    /\ LET p == PairPort(m)
       IN  /\ p # NULL /\ Open(p)
           /\ portToDAGinfo' = [portToDAGinfo EXCEPT ![p] = AckInfo(@, m.num)]
    /\ UNCHANGED <<tables, pending_connection_buf, net, inbox, taken, app, listener, syns>>

-------------------------------------------------------------------------------
\* run_timer, for one expired port.

\* The report of a failed connection is pushed only in a DEBUG build.
TimerSYN(p) ==
    /\ Open(p)
    /\ LET d == portToDAGinfo[p]
       IN  /\ SynTimeout(d, TRUE)
           /\ portToDAGinfo' = [portToDAGinfo EXCEPT ![p] = SynTimeoutInfo(d)]
           /\ net' = IF SynRetry(d)
                     THEN net \cup {Segment("SYN", d.src_path, d.dst_path, 0, NULL)}
                     ELSE net
    /\ UNCHANGED <<tables, pending_connection_buf, inbox, taken, app, listener, syns>>

TimerData(p) ==
    /\ Open(p)
    /\ LET d == portToDAGinfo[p]
       IN  /\ DataTimeout(d, TRUE)
           /\ portToDAGinfo' = [portToDAGinfo EXCEPT ![p] = DataTimeoutInfo(d)]
           /\ net' = net \cup {Segment("DATA", d.src_path, d.dst_path, q.seq, q.data) :
                                   q \in Retransmitted(d)}
    /\ UNCHANGED <<tables, pending_connection_buf, inbox, taken, app, listener, syns>>

\* An accepted socket shares its SID with the listener, which keeps the route.
TeardownFreesSID(d) == d.src_path # NULL

TeardownKeepsSID(d) == FALSE

FreesSID(d) == d.src_path # NULL /\ ~d.isAcceptSocket

TimerTeardown(p) ==
    /\ Open(p)
    /\ LET d == portToDAGinfo[p]
       IN  /\ \E expired \in BOOLEAN : TeardownTimeout(d, expired)
           /\ routes' = IF FreesSID(d) THEN routes \ {d.src_path} ELSE routes
           /\ XIDtoPort' = IF FreesSID(d) THEN [XIDtoPort EXCEPT ![d.src_path] = NULL]
                                          ELSE XIDtoPort
    /\ portToDAGinfo' = [portToDAGinfo EXCEPT ![p] = NULL]
    /\ UNCHANGED <<XIDpairToPort, pending_connection_buf, net, inbox, taken, app, listener, syns>>

Next ==
    \/ \E p \in Ports : \/ Xsocket(p) \/ Xsend(p) \/ Xclose(p)
                        \/ TimerSYN(p) \/ TimerData(p) \/ TimerTeardown(p)
    \/ \E l \in Listeners : \/ Xbind(l)
                            \/ \E c \in Clients : Xconnect(c, l)
                            \/ \E a \in AcceptPorts : XacceptNotified(l, a)
    \/ \E a \in AcceptPorts : Xaccept(a)
    \/ \E c \in Clients : XconnectReturns(c)
    \/ \E m \in net : RecvSYN(m) \/ RecvSYNACK(m) \/ RecvDATA(m) \/ RecvACK(m)

Spec == Init /\ [][Next]_vars

-------------------------------------------------------------------------------
\* The tables hold what their types say.
TypeOK ==
    /\ portToDAGinfo \in [Ports -> DAGinfo \cup {NULL}]
    /\ XIDtoPort \in [XIDs -> Ports \cup {NULL}]
    /\ XIDpairToPort \in [XIDs \X XIDs -> Ports \cup {NULL}]
    /\ routes \subseteq XIDs
    /\ pending_connection_buf \in Seq([src : XIDs, dst : XIDs])
    /\ net \subseteq Msg
    /\ inbox \in [Ports -> Seq({Granted, Request} \cup {Payload(x) : x \in Data})]
    /\ taken \in [Ports -> Nat] /\ \A p \in Ports : taken[p] <= Len(inbox[p])
    /\ app \in [Ports -> {"none", "open", "listening", "connecting", "accepting", "up",
                        "closed", "ECONNABORTED"}]
    /\ listener \in [AcceptPorts -> Listeners \cup {NULL}]
    /\ syns \in 0 .. MaxSyns

\* An application hears of its connection at most once, however many SYNs were
\* retransmitted and however many SYNACKs come back ("this prevents the API from
\* getting multiple connection granted messages").
GrantedOnce ==
    \A c \in Clients : \A i, j \in DOMAIN inbox[c] :
        inbox[c][i] = Granted /\ inbox[c][j] = Granted => i = j

\* The SYNACK branch uses portToDAGinfo.get_pointer without a check; it is safe
\* because teardown takes away the route of a SID together with its socket.
SynackFindsSocket ==
    \A m \in net : Arrives(m, "SYNACK") => PairPort(m) # NULL /\ Open(PairPort(m))

\* Xaccept answers ECONNABORTED when the queue is empty; no application that was
\* told of a request ever meets that, though all listeners share one queue and
\* several accepts may be between the notice and the queue.
AcceptNeverAborts == \A a \in AcceptPorts : app[a] # "ECONNABORTED"

\* The SID of listener l is routed here until l itself has been closed and torn down.
Serves(l) == \/ l \in routes
             \/ app[l] = "closed" /\ ~Open(l)

\* Until its application closes it, a client's or a listener's socket stays in the
\* tables and its SID stays routed to it, whatever is torn down meanwhile.  An accepted
\* socket stays in portToDAGinfo; its SID is the listener's, so its route outlives other
\* accepted sockets of that listener but goes when the listener's own socket is torn
\* down (run_timer deletes the route and XIDtoPort of a socket that was not accepted).
ReachableUntilClosed ==
    /\ \A p \in Clients \cup Listeners :
          app[p] \in {"listening", "connecting", "up"} =>
              Open(p) /\ XIDtoPort[p] = p /\ p \in routes
    /\ \A a \in AcceptPorts :
          app[a] = "up" => Open(a) /\ Serves(portToDAGinfo[a].src_path)

\* Each accepted socket is given a prefix of what its client sent, and nothing
\* else, even when a repeated SYN made Xaccept create a second socket for the
\* same client, which then takes over the pair's entry in XIDpairToPort.
AcceptedStreamInOrder ==
    \A a \in AcceptPorts : Open(a) =>
        \A i \in DOMAIN inbox[a] : inbox[a][i] = Payload(<<portToDAGinfo[a].dst_path, i>>)

\* Xaccept "accepts the first available connection request for the listening
\* socket, sockfd": the connection was addressed to the SID of that socket.
AcceptsOwnRequest ==
    \A a \in AcceptPorts : Open(a) => portToDAGinfo[a].src_path = listener[a]

\* Xconnect is "waiting for SYNACK from destination server": what it consumes is
\* the notice of the SYNACK.
ConnectConsumesGrant ==
    \A c \in Clients :
        app[c] = "connecting" /\ inbox[c] # << >> => inbox[c][1] = Granted
===============================================================================
