--------------------------- MODULE XTransportSteps ----------------------------
(***************************************************************************)
(* The inductive invariant of an XTRANSPORT element: which port, SID and   *)
(* message may stand where, which payload a stored packet carries, and     *)
(* that every notice and every accept under way has its own entry in the   *)
(* queue of pending connections.  The steps that leave the queue alone     *)
(* preserve it; XTransportProofs has the steps that do not.                *)
(***************************************************************************)
EXTENDS XTransport, FiniteSets, TLAPS

\* Where the application may be with a socket of each kind; a socket in use is open.
Kinds ==
    /\ \A c \in Clients : app[c] \in {"none", "open", "connecting", "up", "closed"}
    /\ \A l \in Listeners : app[l] \in {"none", "open", "listening", "closed"}
    /\ \A a \in AcceptPorts : app[a] \in {"none", "accepting", "up", "closed"}
    /\ \A p \in Ports : app[p] \in {"open", "listening", "connecting", "up"} => Open(p)

\* The DAGinfo d of port p while its application is in state s.
Sound(p, s, d) ==
    /\ d.synack_waiting \/ d.dataack_waiting => d.isConnected
    /\ d.teardown_waiting => s = "closed"
    /\ s \notin {"none", "accepting"}
    /\ s = "open" => ~d.isConnected
    /\ p \in AcceptPorts <=> d.isAcceptSocket
    /\ p \in Clients => /\ d.src_path \in {NULL, p}
                        /\ d.isConnected => d.src_path = p /\ d.dst_path \in Listeners
    /\ p \in Listeners => d.src_path \in {NULL, p} /\ ~d.isConnected
    /\ p \in AcceptPorts => /\ d.isConnected /\ ~d.synack_waiting
                            /\ d.src_path \in Listeners /\ d.dst_path \in Clients
    /\ \A i \in Slots : d.sent_pkt[i] # NULL => d.sent_pkt[i].data = <<p, d.sent_pkt[i].seq + 1>>

Sockets == \A p \in Ports : Open(p) => Sound(p, app[p], portToDAGinfo[p])

\* SIDs lead to their own port, and a client's SID only while the socket is there.
Routing ==
    /\ \A x \in XIDs : XIDtoPort[x] \in {NULL, x}
    /\ \A p \in Clients \cup Listeners :
           app[p] \in {"listening", "connecting", "up"} => XIDtoPort[p] = p /\ p \in routes
    /\ \A c \in Clients : c \in routes => Open(c) /\ portToDAGinfo[c].src_path = c

\* A pair of SIDs leads to the client, or to an accepted socket with that pair.
LeadsTo(x, y, p) ==
    /\ app[p] \notin {"none", "open", "accepting"}
    /\ Open(p) => portToDAGinfo[p].isConnected
    /\ \/ x \in Clients /\ y \in Listeners /\ p = x
       \/ /\ x \in Listeners /\ y \in Clients /\ p \in AcceptPorts
          /\ Open(p) => portToDAGinfo[p].src_path = x /\ portToDAGinfo[p].dst_path = y

Pairs ==
    \A x, y \in XIDs :
        XIDpairToPort[<<x, y>>] # NULL => LeadsTo(x, y, XIDpairToPort[<<x, y>>])

\* A connected client is found by the pair of its SID and its listener's.
Connected ==
    \A c \in Clients :
        Open(c) /\ portToDAGinfo[c].isConnected =>
            XIDpairToPort[<<c, portToDAGinfo[c].dst_path>>] = c

\* A message under way, given the table of pairs.
Proper(m, pairs) ==
    /\ m.type = "SYN" => /\ m.src \in Clients /\ m.dst \in Listeners
                         /\ pairs[<<m.src, m.dst>>] = m.src
    /\ m.type = "SYNACK" => /\ m.src \in Listeners /\ m.dst \in Clients
                            /\ pairs[<<m.dst, m.src>>] = m.dst
    /\ m.type = "DATA" => /\ m.data \in Data
                          /\ m.src \in Clients => m.data = <<m.src, m.num + 1>>

Messages ==
    /\ \A m \in net : Proper(m, XIDpairToPort)
    /\ pending_connection_buf \in Seq([src : Listeners, dst : Clients])

\* What was pushed up to an accepted socket, and how expected_seqnum counts it.
Streams ==
    \A a \in AcceptPorts :
        /\ app[a] \in {"none", "accepting"} => inbox[a] = << >>
        /\ Open(a) =>
              /\ portToDAGinfo[a].expected_seqnum = Len(inbox[a])
              /\ \A i \in DOMAIN inbox[a] : inbox[a][i] = Payload(<<portToDAGinfo[a].dst_path, i>>)

\* A client that was told of its connection does not wait for the SYNACK any more.
Grants ==
    /\ GrantedOnce
    /\ \A c \in Clients : \A i \in DOMAIN inbox[c] :
           inbox[c][i] = Granted => /\ app[c] \notin {"none", "open"}
                                    /\ Open(c) => ~portToDAGinfo[c].synack_waiting

\* The notices not yet consumed and the accepts not yet served.
Claims ==
    {n \in (Listeners \cup AcceptPorts) \X Nat :
        \/ n[1] \in Listeners /\ taken[n[1]] < n[2] /\ n[2] <= Len(inbox[n[1]])
        \/ n[1] \in AcceptPorts /\ n[2] = 0 /\ app[n[1]] = "accepting"}

\* Each of them has its own entry in the queue.
Claimed == IsFiniteSet(Claims) /\ Cardinality(Claims) <= Len(pending_connection_buf)

IndInv ==
    /\ TypeOK /\ Kinds /\ Sockets /\ Routing /\ Pairs /\ Connected /\ Messages
    /\ Streams /\ Grants /\ Claimed

-------------------------------------------------------------------------------
\* The slot of a sequence number is one of sent_pkt.
LEMMA SlotIndex ==
    ASSUME NEW i \in Nat
    PROVE  i % MAX_WIN_SIZE \in Slots
  BY WindowAssumption, SMTT(30) DEF Slots

\* Xsend stores its packet, and neither waits for a SYNACK nor moves expected_seqnum.
LEMMA XsendFacts ==
    ASSUME NEW d \in DAGinfo, NEW payload \in Data
    PROVE  LET e == XsendInfo(d, payload) IN
           /\ e \in DAGinfo
           /\ e.expected_seqnum = d.expected_seqnum /\ e.synack_waiting = d.synack_waiting
           /\ e.sent_pkt = [d.sent_pkt EXCEPT ![d.seq_num % MAX_WIN_SIZE] = NextPacket(d, payload)]
  <1>1. NextPacket(d, payload) \in Packet  BY Zenon DEF NextPacket, Packet, DAGinfo
  <1>2. d.seq_num \in Nat  BY Zenon DEF DAGinfo
  <1>3. d.seq_num % MAX_WIN_SIZE \in Slots  BY Zenon, <1>2, SlotIndex
  <1> DEFINE f == [d.sent_pkt EXCEPT ![d.seq_num % MAX_WIN_SIZE] = NextPacket(d, payload)]
             a == d.seq_num + 1
             b == d.next_seqnum + 1
  <1>4. f \in [Slots -> Packet \cup {NULL}] /\ a \in Nat /\ b \in Nat
    BY <1>1, <1>3 DEF DAGinfo
  <1>5. XsendInfo(d, payload) =
          [d EXCEPT !.sent_pkt = f, !.seq_num = a, !.next_seqnum = b,
                    !.timer_on = TRUE, !.dataack_waiting = TRUE, !.num_retransmit_tries = 0]
    BY Zenon DEF XsendInfo, DAGinfo
  <1> HIDE DEF f, a, b
  <1>6. [d EXCEPT !.sent_pkt = f, !.seq_num = a, !.next_seqnum = b, !.timer_on = TRUE,
                  !.dataack_waiting = TRUE, !.num_retransmit_tries = 0] \in DAGinfo
    BY ZenonT(30), <1>4 DEF DAGinfo
  <1> QED  BY <1>5, <1>6 DEF DAGinfo, f

\* A SYNACK does not move expected_seqnum.
LEMMA SynackFacts ==
    ASSUME NEW d \in DAGinfo
    PROVE  SynackInfo(d).expected_seqnum = d.expected_seqnum
  BY Zenon DEF SynackInfo, DAGinfo

\* A DATA packet in sequence moves expected_seqnum by one, and the ACK carries the new number.
LEMMA DataFacts ==
    ASSUME NEW d \in DAGinfo, NEW seq \in Nat
    PROVE  LET e == DataInfo(d, seq) IN
           /\ e \in DAGinfo
           /\ e.expected_seqnum = d.expected_seqnum + (IF InSequence(d, seq) THEN 1 ELSE 0)
           /\ CumulativeAck(d, seq) = e.expected_seqnum
           /\ e.synack_waiting = d.synack_waiting
  BY DEF DataInfo, CumulativeAck, InSequence, DAGinfo

\* An ACK only clears slots.
LEMMA AckFacts ==
    ASSUME NEW d \in DAGinfo, NEW ack \in Nat
    PROVE  LET e == AckInfo(d, ack) IN
           /\ e \in DAGinfo
           /\ e.expected_seqnum = d.expected_seqnum
           /\ \A i \in Slots : e.sent_pkt[i] =
                  IF i \in AckedSlots(d, ack) THEN NULL ELSE d.sent_pkt[i]
           /\ e.synack_waiting = d.synack_waiting
  BY ZenonT(30), SMT DEF AckInfo, AllAcked, DAGinfo

\* A retransmission resends packets that are in their slots.
LEMMA DataTimeoutFacts ==
    ASSUME NEW d \in DAGinfo
    PROVE  LET e == DataTimeoutInfo(d) IN
           /\ e \in DAGinfo
           /\ e.expected_seqnum = d.expected_seqnum
           /\ e.synack_waiting = d.synack_waiting
           /\ \A p \in Retransmitted(d) : p \in Packet /\ \E i \in Slots : p = d.sent_pkt[i]
  <1>1. \A p \in Buffered(d) : p \in Packet /\ \E i \in Slots : p = d.sent_pkt[i]
    <2>1. \A i \in d.base .. d.next_seqnum - 1 : i % MAX_WIN_SIZE \in Slots
      BY SlotIndex DEF DAGinfo
    <2> QED  BY Zenon, <2>1 DEF Buffered, DAGinfo
  <1>2. \A p \in Retransmitted(d) : p \in Packet /\ \E i \in Slots : p = d.sent_pkt[i]
    BY Zenon, <1>1 DEF Retransmitted
  <1>3. DataTimeoutInfo(d) \in DAGinfo
    <2>1. [d EXCEPT !.num_retransmit_tries = @ + 1] \in DAGinfo  BY DEF DAGinfo
    <2>2. [d EXCEPT !.timer_on = FALSE, !.dataack_waiting = FALSE,
                    !.num_retransmit_tries = 0] \in DAGinfo
      BY Zenon DEF DAGinfo
    <2> QED  BY Zenon, <2>1, <2>2 DEF DataTimeoutInfo
  <1> QED  BY Zenon, <1>2, <1>3 DEF DataTimeoutInfo, DAGinfo

\* What every handler of an open socket leaves as it was.
Keeps(d, e) ==
    /\ e \in DAGinfo
    /\ e.src_path = d.src_path /\ e.dst_path = d.dst_path
    /\ e.isConnected = d.isConnected /\ e.isAcceptSocket = d.isAcceptSocket
    /\ e.teardown_waiting = d.teardown_waiting
    /\ e.synack_waiting => d.synack_waiting

\* SYNACK, DATA, ACK and the two retransmission timers.
LEMMA HandlersKeep ==
    ASSUME NEW d \in DAGinfo, NEW n \in Nat
    PROVE  /\ Keeps(d, SynackInfo(d)) /\ ~SynackInfo(d).synack_waiting
           /\ Keeps(d, DataInfo(d, n)) /\ Keeps(d, AckInfo(d, n))
           /\ Keeps(d, SynTimeoutInfo(d)) /\ Keeps(d, DataTimeoutInfo(d))
  <1>1. Keeps(d, SynackInfo(d)) /\ ~SynackInfo(d).synack_waiting
    BY Zenon DEF Keeps, SynackInfo, DAGinfo
  <1>2. Keeps(d, DataInfo(d, n))
    BY Zenon, DataFacts DEF Keeps, DataInfo, DAGinfo
  <1>3. Keeps(d, AckInfo(d, n))
    <2>1. AckInfo(d, n) \in DAGinfo /\ AckInfo(d, n).synack_waiting = d.synack_waiting
      BY Zenon, AckFacts
    <2>2. AckInfo(d, n).src_path = d.src_path /\ AckInfo(d, n).dst_path = d.dst_path
      BY Zenon DEF AckInfo, AllAcked, DAGinfo
    <2>3. /\ AckInfo(d, n).isConnected = d.isConnected
          /\ AckInfo(d, n).isAcceptSocket = d.isAcceptSocket
          /\ AckInfo(d, n).teardown_waiting = d.teardown_waiting
      BY Zenon DEF AckInfo, AllAcked, DAGinfo
    <2> QED  BY Zenon, <2>1, <2>2, <2>3 DEF Keeps
  <1>4. Keeps(d, SynTimeoutInfo(d))
    <2>1. CASE SynRetry(d)  BY <2>1 DEF Keeps, SynTimeoutInfo, DAGinfo
    <2>2. CASE ~SynRetry(d)  BY ZenonT(60), <2>2 DEF Keeps, SynTimeoutInfo, DAGinfo
    <2> QED  BY Zenon, <2>1, <2>2
  <1>5. Keeps(d, DataTimeoutInfo(d))
    BY ZenonT(60), DataTimeoutFacts DEF Keeps, DataTimeoutInfo, DAGinfo
  <1> QED  BY Zenon, <1>1, <1>2, <1>3, <1>4, <1>5

\* The same handlers touch a stored packet only to drop it; only an ACK may start a wait for
\* another ACK, and only a DATA packet moves expected_seqnum.
LEMMA HandlersStore ==
    ASSUME NEW d \in DAGinfo, NEW n \in Nat,
           NEW e \in {SynackInfo(d), DataInfo(d, n), AckInfo(d, n), SynTimeoutInfo(d),
                      DataTimeoutInfo(d)}
    PROVE  /\ e # AckInfo(d, n) => (e.dataack_waiting => d.dataack_waiting)
           /\ \A i \in Slots : e.sent_pkt[i] \in {NULL, d.sent_pkt[i]}
           /\ e # DataInfo(d, n) => e.expected_seqnum = d.expected_seqnum
  <1>1. CASE e = SynackInfo(d)  BY Zenon, <1>1 DEF SynackInfo, DAGinfo
  <1>2. CASE e = DataInfo(d, n)  BY Zenon, <1>2 DEF DataInfo, DAGinfo
  <1>3. CASE e = AckInfo(d, n)  BY Zenon, <1>3, AckFacts
  <1>4. CASE e = SynTimeoutInfo(d)  BY Zenon, <1>4 DEF SynTimeoutInfo, DAGinfo
  <1>5. CASE e = DataTimeoutInfo(d)  BY Zenon, <1>5 DEF DataTimeoutInfo, DAGinfo
  <1> QED  BY Zenon, <1>1, <1>2, <1>3, <1>4, <1>5

\* A handler that keeps what it should leaves the socket sound.
LEMMA SoundKept ==
    ASSUME NEW p \in Ports, NEW s, NEW d \in DAGinfo, NEW e, Sound(p, s, d), Keeps(d, e),
           e.dataack_waiting => d.isConnected,
           \A i \in Slots : e.sent_pkt[i] \in {NULL, d.sent_pkt[i]}
    PROVE  Sound(p, s, e)
  <1>1. \A i \in Slots : e.sent_pkt[i] # NULL => e.sent_pkt[i].data = <<p, e.sent_pkt[i].seq + 1>>
    BY Zenon DEF Sound
  <1>2. e.synack_waiting \/ e.dataack_waiting => e.isConnected  BY Zenon DEF Sound, Keeps
  <1>3. p \in AcceptPorts <=> e.isAcceptSocket  BY Zenon DEF Sound, Keeps
  <1> QED  BY Zenon, <1>1, <1>2, <1>3 DEF Sound, Keeps

\* The type invariant's facts about one port.
LEMMA PortTypes ==
    ASSUME TypeOK, NEW p \in Ports
    PROVE  /\ portToDAGinfo[p] \in DAGinfo \cup {NULL}
           /\ Open(p) => portToDAGinfo[p] \in DAGinfo
           /\ inbox[p] \in Seq({Granted, Request} \cup {Payload(x) : x \in Data})
           /\ taken[p] \in Nat /\ taken[p] <= Len(inbox[p]) /\ Len(inbox[p]) \in Nat
  <1> DEFINE Note == {Granted, Request} \cup {Payload(x) : x \in Data}
  <1>1. /\ portToDAGinfo[p] \in DAGinfo \cup {NULL}
        /\ Open(p) => portToDAGinfo[p] \in DAGinfo
        /\ inbox[p] \in Seq(Note)
        /\ taken[p] \in Nat /\ taken[p] <= Len(inbox[p])
    BY Zenon DEF TypeOK, Open
  <1> HIDE DEF Note
  <1>2. Len(inbox[p]) \in Nat  BY <1>1
  <1> QED  BY Zenon, <1>1, <1>2 DEF Note

\* The step leaves of port q what a pair of SIDs that leads to it relies on.
PeerKept(q) ==
    /\ app[q] \notin {"none", "open", "accepting"} => app'[q] \notin {"none", "open", "accepting"}
    /\ Open(q)' => /\ Open(q)
                   /\ portToDAGinfo'[q].isConnected = portToDAGinfo[q].isConnected
                   /\ portToDAGinfo'[q].src_path = portToDAGinfo[q].src_path
                   /\ portToDAGinfo'[q].dst_path = portToDAGinfo[q].dst_path

\* A pair whose port keeps that still leads there.
LEMMA LeadsToKept ==
    ASSUME NEW x, NEW y, NEW q, LeadsTo(x, y, q), PeerKept(q)
    PROVE  LeadsTo(x, y, q)'
  BY Zenon DEF LeadsTo, PeerKept

\* A step that leaves the table of pairs alone and keeps its ports preserves Pairs.
LEMMA PairsKept ==
    ASSUME Pairs, UNCHANGED XIDpairToPort,
           \A x, y \in XIDs : XIDpairToPort[<<x, y>>] # NULL => PeerKept(XIDpairToPort[<<x, y>>])
    PROVE  Pairs'
  <1> SUFFICES ASSUME NEW x \in XIDs, NEW y \in XIDs, XIDpairToPort[<<x, y>>] # NULL
               PROVE  LeadsTo(x, y, XIDpairToPort[<<x, y>>])'
    BY Zenon DEF Pairs
  <1> DEFINE q == XIDpairToPort[<<x, y>>]
  <1>1. LeadsTo(x, y, q) /\ PeerKept(q) /\ q' = q  BY Zenon DEF Pairs
  <1> HIDE DEF q
  <1>2. LeadsTo(x, y, q)'  BY Zenon, <1>1, LeadsToKept
  <1> QED  BY Zenon, <1>2 DEF q

\* An open socket's DAGinfo is replaced by the one a handler leaves; the tables and the
\* applications stay, and what is sent is proper.
LEMMA HandlerStep ==
    ASSUME IndInv, NEW p \in Ports, Open(p), NEW e,
           portToDAGinfo' = [portToDAGinfo EXCEPT ![p] = e],
           Keeps(portToDAGinfo[p], e), Sound(p, app[p], e),
           UNCHANGED <<tables, app, pending_connection_buf>>,
           \A m \in net' \ net : Proper(m, XIDpairToPort)
    PROVE  /\ portToDAGinfo' \in [Ports -> DAGinfo \cup {NULL}]
           /\ \A q \in Ports : Open(q)' = Open(q)
           /\ portToDAGinfo'[p] = e /\ \A q \in Ports \ {p} : portToDAGinfo'[q] = portToDAGinfo[q]
           /\ Kinds' /\ Sockets' /\ Routing' /\ Pairs' /\ Connected' /\ Messages'
  <1> USE DEF IndInv
  <1>1. e \in DAGinfo /\ e # NULL  BY Zenon, SIDsAssumption DEF Keeps
  <1>2. portToDAGinfo \in [Ports -> DAGinfo \cup {NULL}]  BY Zenon DEF TypeOK
  <1>3. /\ portToDAGinfo' \in [Ports -> DAGinfo \cup {NULL}]
        /\ portToDAGinfo'[p] = e
        /\ \A q \in Ports \ {p} : portToDAGinfo'[q] = portToDAGinfo[q]
    BY Zenon, <1>1, <1>2
  <1>4. \A q \in Ports : Open(q)' = Open(q)  BY Zenon, <1>1, <1>3 DEF Open
  <1>5. UNCHANGED <<XIDtoPort, XIDpairToPort, routes>>  BY Zenon DEF tables
  <1>6. Kinds'  BY Zenon, <1>4 DEF Kinds
  <1>7. Sockets'  BY Zenon, <1>3, <1>4 DEF Sockets
  <1>8. /\ \A q \in Ports : portToDAGinfo'[q].src_path = portToDAGinfo[q].src_path
        /\ \A q \in Ports : portToDAGinfo'[q].dst_path = portToDAGinfo[q].dst_path
        /\ \A q \in Ports : portToDAGinfo'[q].isConnected = portToDAGinfo[q].isConnected
    BY Zenon, <1>3 DEF Keeps
  <1>9. Routing'  BY Zenon, <1>4, <1>5, <1>8 DEF Routing, Ports
  <1>10. Pairs'
    <2>1. \A x, y \in XIDs : XIDpairToPort[<<x, y>>] \in Ports \cup {NULL}  BY Zenon DEF TypeOK
    <2>2. \A q \in Ports : PeerKept(q)  BY Zenon, <1>4, <1>8 DEF PeerKept
    <2> QED  BY Zenon, <1>5, <2>1, <2>2, PairsKept
  <1>11. Messages'  BY Zenon, <1>5 DEF Messages
  <1>12. Connected'  BY <1>4, <1>5, <1>8 DEF Connected, Ports
  <1> QED  BY Zenon, <1>3, <1>4, <1>6, <1>7, <1>9, <1>10, <1>11, <1>12

\* The claims change only with the applications and with what listeners are sent or take.
LEMMA ClaimsKept ==
    ASSUME Claimed, UNCHANGED pending_connection_buf,
           \A l \in Listeners : inbox'[l] = inbox[l] /\ taken'[l] = taken[l],
           \A a \in AcceptPorts : app'[a] = "accepting" <=> app[a] = "accepting"
    PROVE  Claimed'
  <1>1. Claims' = Claims  BY Zenon DEF Claims
  <1> QED  BY Zenon, <1>1 DEF Claimed

\* Handlers that push nothing up.
LEMMA QuietHandler ==
    ASSUME IndInv, NEW p \in Ports, Open(p), NEW e,
           portToDAGinfo' = [portToDAGinfo EXCEPT ![p] = e],
           Keeps(portToDAGinfo[p], e), Sound(p, app[p], e),
           e.expected_seqnum = portToDAGinfo[p].expected_seqnum,
           UNCHANGED <<tables, pending_connection_buf, inbox, taken, app, listener, syns>>,
           net' \subseteq Msg, \A m \in net' \ net : Proper(m, XIDpairToPort)
    PROVE  IndInv'
  <1> USE DEF IndInv
  <1>1. /\ portToDAGinfo' \in [Ports -> DAGinfo \cup {NULL}]
        /\ \A q \in Ports : Open(q)' = Open(q)
        /\ portToDAGinfo'[p] = e /\ \A q \in Ports \ {p} : portToDAGinfo'[q] = portToDAGinfo[q]
        /\ Kinds' /\ Sockets' /\ Routing' /\ Pairs' /\ Connected' /\ Messages'
    BY Zenon, HandlerStep
  <1>2. TypeOK'  BY Zenon, <1>1 DEF TypeOK, tables
  <1>3. \A q \in Ports : /\ portToDAGinfo'[q].expected_seqnum = portToDAGinfo[q].expected_seqnum
                         /\ portToDAGinfo'[q].dst_path = portToDAGinfo[q].dst_path
                         /\ portToDAGinfo'[q].synack_waiting => portToDAGinfo[q].synack_waiting
    BY Zenon, <1>1 DEF Keeps
  <1>4. Streams'  BY <1>1, <1>3 DEF Streams, Ports
  <1>5. Grants'  BY Zenon, <1>1, <1>3 DEF Grants, GrantedOnce, Ports
  <1>6. Claimed'  BY Zenon, ClaimsKept
  <1> QED  BY Zenon, <1>1, <1>2, <1>4, <1>5, <1>6

\* A segment between known SIDs is a message.
LEMMA SegmentType ==
    ASSUME NEW type \in {"SYN", "SYNACK", "DATA", "ACK"}, NEW src \in XIDs, NEW dst \in XIDs,
           NEW n \in Nat, NEW payload \in Data \cup {NULL}
    PROVE  /\ Segment(type, src, dst, n, payload) \in Msg
           /\ Segment(type, src, dst, n, payload).type = type
           /\ Segment(type, src, dst, n, payload).src = src
           /\ Segment(type, src, dst, n, payload).dst = dst
           /\ Segment(type, src, dst, n, payload).num = n
           /\ Segment(type, src, dst, n, payload).data = payload
  BY Zenon DEF Segment, Msg

\* A connected socket sends between a client's and a listener's SID.
LEMMA ConnectedPaths ==
    ASSUME IndInv, NEW p \in Ports, Open(p), portToDAGinfo[p].isConnected
    PROVE  /\ portToDAGinfo[p].src_path \in XIDs /\ portToDAGinfo[p].dst_path \in XIDs
           /\ p \in Clients => portToDAGinfo[p].src_path = p /\ portToDAGinfo[p].dst_path \in Listeners
           /\ portToDAGinfo[p].src_path \in Clients => p \in Clients
  <1>1. Sound(p, app[p], portToDAGinfo[p])  BY Zenon DEF IndInv, Sockets
  <1>2. p \in Clients \/ p \in AcceptPorts  BY Zenon, <1>1 DEF Ports, Sound
  <1> QED  BY Zenon, <1>1, <1>2, SIDsAssumption DEF Sound

\* A DATA segment of a connected socket is proper when its payload carries port and number.
LEMMA DataIsProper ==
    ASSUME IndInv, NEW p \in Ports, Open(p), portToDAGinfo[p].isConnected, NEW n \in Nat,
           <<p, n + 1>> \in Data
    PROVE  LET m == Segment("DATA", portToDAGinfo[p].src_path, portToDAGinfo[p].dst_path, n,
                            <<p, n + 1>>)
           IN  m \in Msg /\ Proper(m, XIDpairToPort)
  <1> DEFINE src == portToDAGinfo[p].src_path
             dst == portToDAGinfo[p].dst_path
             m == Segment("DATA", src, dst, n, <<p, n + 1>>)
  <1>1. src \in XIDs /\ dst \in XIDs /\ (src \in Clients => src = p)
    BY Zenon, ConnectedPaths
  <1> HIDE DEF src, dst
  <1>2. m \in Msg /\ m.type = "DATA" /\ m.src = src /\ m.num = n /\ m.data = <<p, n + 1>>
    BY SMTT(30), <1>1, SegmentType
  <1> HIDE DEF m
  <1>3. Proper(m, XIDpairToPort)  BY Zenon, <1>1, <1>2 DEF Proper
  <1> QED  BY Zenon, <1>2, <1>3 DEF m, src, dst

\* Xsend: the payload's number is that of its packet.
LEMMA SendStep ==
    ASSUME IndInv, NEW p \in Ports, Xsend(p)
    PROVE  IndInv'
  <1> DEFINE d == portToDAGinfo[p]
             payload == <<p, d.next_seqnum + 1>>
             e == XsendInfo(d, payload)
             m == Segment("DATA", d.src_path, d.dst_path, d.next_seqnum, payload)
  <1>1. /\ Open(p) /\ d.isConnected /\ d.next_seqnum < MaxSends[p] /\ app[p] = "up"
        /\ portToDAGinfo' = [portToDAGinfo EXCEPT ![p] = e]
        /\ net' = net \cup {m}
        /\ UNCHANGED <<tables, pending_connection_buf, inbox, taken, app, listener, syns>>
    BY Zenon DEF Xsend
  <1>2. d \in DAGinfo /\ Sound(p, app[p], d) /\ TypeOK
    BY Zenon, <1>1, PortTypes DEF IndInv, Sockets
  <1>3. d.next_seqnum \in Nat /\ payload \in Data
    <2>1. d.next_seqnum \in Nat /\ MaxSends[p] \in Nat  BY Zenon, <1>2, SIDsAssumption DEF DAGinfo
    <2>2. d.next_seqnum + 1 \in 1 .. MaxSends[p]  BY <1>1, <2>1
    <2>3. payload \in {p} \X (1 .. MaxSends[p])  BY Zenon, <2>2
    <2> QED  BY Zenon, <2>1, <2>3, SIDsAssumption
  <1>4. m \in Msg /\ Proper(m, XIDpairToPort)
    BY Zenon, <1>1, <1>3, DataIsProper
  <1>5. /\ e \in DAGinfo /\ e.expected_seqnum = d.expected_seqnum
        /\ e.synack_waiting = d.synack_waiting
        /\ e.sent_pkt = [d.sent_pkt EXCEPT ![d.seq_num % MAX_WIN_SIZE] = NextPacket(d, payload)]
    BY Zenon, <1>2, <1>3, XsendFacts
  <1>6. Keeps(d, e)
    <2>1. e.src_path = d.src_path /\ e.dst_path = d.dst_path
      BY Zenon, <1>2 DEF XsendInfo, DAGinfo
    <2>2. /\ e.isConnected = d.isConnected /\ e.isAcceptSocket = d.isAcceptSocket
          /\ e.teardown_waiting = d.teardown_waiting
      BY Zenon, <1>2 DEF XsendInfo, DAGinfo
    <2> QED  BY Zenon, <1>5, <2>1, <2>2 DEF Keeps
  <1>7. \A i \in Slots : e.sent_pkt[i] # NULL => e.sent_pkt[i].data = <<p, e.sent_pkt[i].seq + 1>>
    <2>1. NextPacket(d, payload).data = <<p, NextPacket(d, payload).seq + 1>>
      BY Zenon DEF NextPacket
    <2>2. d.sent_pkt \in [Slots -> Packet \cup {NULL}]  BY Zenon, <1>2 DEF DAGinfo
    <2>3. \A i \in Slots : e.sent_pkt[i] \in {NextPacket(d, payload), d.sent_pkt[i]}
      BY Zenon, <1>5, <2>2
    <2> QED  BY Zenon, <1>2, <2>1, <2>3 DEF Sound
  <1> HIDE DEF d, e, m
  <1>8. Sound(p, app[p], e)  BY Zenon, <1>1, <1>2, <1>6, <1>7 DEF Sound, Keeps
  <1>9. net' \subseteq Msg /\ \A k \in net' \ net : Proper(k, XIDpairToPort)
    BY Zenon, <1>1, <1>2, <1>4 DEF TypeOK
  <1> QED  BY Zenon, <1>1, <1>5, <1>6, <1>8, <1>9, QuietHandler DEF d

\* A packet of a connected socket finds a port that is connected.
LEMMA PairFacts ==
    ASSUME IndInv, NEW m \in net, PairPort(m) # NULL
    PROVE  /\ m \in Msg /\ m.num \in Nat /\ m.src \in XIDs /\ m.dst \in XIDs
           /\ PairPort(m) \in Clients \cup AcceptPorts
           /\ app[PairPort(m)] \notin {"none", "open", "accepting"}
           /\ Open(PairPort(m)) => portToDAGinfo[PairPort(m)].isConnected
           /\ PairPort(m) \in Clients => PairPort(m) = m.dst
           /\ PairPort(m) \in AcceptPorts =>
                 /\ m.src \in Clients
                 /\ Open(PairPort(m)) => portToDAGinfo[PairPort(m)].dst_path = m.src
  <1>1. m \in Msg  BY Zenon DEF IndInv, TypeOK
  <1>2. m.num \in Nat /\ m.src \in XIDs /\ m.dst \in XIDs  BY Zenon, <1>1 DEF Msg
  <1> QED  BY <1>1, <1>2, SIDsAssumption DEF PairPort, IndInv, Pairs, LeadsTo

\* An ACK changes the socket and nothing else.
LEMMA AckStep ==
    ASSUME IndInv, NEW m \in net, RecvACK(m)
    PROVE  IndInv'
  <1> DEFINE p == PairPort(m)
             d == portToDAGinfo[p]
             e == AckInfo(d, m.num)
  <1>1. /\ p # NULL /\ Open(p)
        /\ portToDAGinfo' = [portToDAGinfo EXCEPT ![p] = e]
        /\ UNCHANGED <<tables, pending_connection_buf, net, inbox, taken, app, listener, syns>>
    BY Zenon DEF RecvACK
  <1>2. p \in Ports /\ m.num \in Nat /\ d.isConnected  BY Zenon, <1>1, PairFacts DEF Ports
  <1>3. d \in DAGinfo /\ Sound(p, app[p], d) /\ TypeOK
    BY Zenon, <1>1, <1>2, PortTypes DEF IndInv, Sockets
  <1>4. Keeps(d, e)  BY ZenonT(60), <1>2, <1>3, HandlersKeep
  <1>5. /\ \A i \in Slots : e.sent_pkt[i] \in {NULL, d.sent_pkt[i]}
        /\ e.expected_seqnum = d.expected_seqnum
    BY ZenonT(60), SMT, <1>2, <1>3, HandlersStore, AckFacts
  <1> HIDE DEF p, d, e
  <1>6. Sound(p, app[p], e)  BY Zenon, <1>2, <1>3, <1>4, <1>5, SoundKept
  <1>7. net' \subseteq Msg /\ net' \ net = {}  BY Zenon, <1>1, <1>3 DEF TypeOK
  <1> QED  BY Zenon, <1>1, <1>2, <1>4, <1>5, <1>6, <1>7, QuietHandler DEF d

\* The SYN is sent again, or the socket gives up.
LEMMA TimerSynStep ==
    ASSUME IndInv, NEW p \in Ports, TimerSYN(p)
    PROVE  IndInv'
  <1> DEFINE d == portToDAGinfo[p]
             e == SynTimeoutInfo(d)
             m == Segment("SYN", d.src_path, d.dst_path, 0, NULL)
  <1>1. /\ Open(p) /\ d.synack_waiting
        /\ portToDAGinfo' = [portToDAGinfo EXCEPT ![p] = e]
        /\ net' \in {net, net \cup {m}}
        /\ UNCHANGED <<tables, pending_connection_buf, inbox, taken, app, listener, syns>>
    BY Zenon DEF TimerSYN, SynTimeout
  <1>2. d \in DAGinfo /\ Sound(p, app[p], d) /\ TypeOK
    BY Zenon, <1>1, PortTypes DEF IndInv, Sockets
  <1>3. d.isConnected /\ p \in Clients /\ d.src_path = p /\ d.dst_path \in Listeners
    BY Zenon, <1>1, <1>2 DEF Sound, Ports
  <1>4. Keeps(d, e)  BY Zenon, <1>2, HandlersKeep
  <1>5. /\ \A i \in Slots : e.sent_pkt[i] \in {NULL, d.sent_pkt[i]}
        /\ e.expected_seqnum = d.expected_seqnum
    <2>1. e.expected_seqnum = d.expected_seqnum  BY Zenon, <1>2 DEF SynTimeoutInfo, DAGinfo
    <2> QED  BY Zenon, <1>2, <2>1, HandlersStore
  <1>6. e.dataack_waiting => d.isConnected  BY Zenon, <1>3
  <1>7. XIDpairToPort[<<p, d.dst_path>>] = p
    <2>1. p \in XIDs /\ d.dst_path \in XIDs  BY Zenon, <1>3, SIDsAssumption
    <2> QED  BY Zenon, <1>1, <1>3, <2>1 DEF IndInv, Connected
  <1>8. m \in Msg /\ Proper(m, XIDpairToPort)
    <2>1. p \in XIDs /\ d.dst_path \in XIDs  BY <1>3, SIDsAssumption
    <2>2. m \in Msg /\ m.type = "SYN" /\ m.src = p /\ m.dst = d.dst_path
      BY <1>3, <2>1, SegmentType
    <2> HIDE DEF m
    <2> QED  BY Zenon, <1>3, <1>7, <2>2 DEF Proper
  <1> HIDE DEF d, e, m
  <1>9. Sound(p, app[p], e)  BY Zenon, <1>2, <1>4, <1>5, <1>6, SoundKept
  <1>10. net' \subseteq Msg /\ \A k \in net' \ net : Proper(k, XIDpairToPort)
    BY Zenon, <1>1, <1>2, <1>8 DEF TypeOK
  <1> QED  BY Zenon, <1>1, <1>4, <1>5, <1>9, <1>10, QuietHandler DEF d

\* The packets sent again are those that were stored.
LEMMA TimerDataStep ==
    ASSUME IndInv, NEW p \in Ports, TimerData(p)
    PROVE  IndInv'
  <1> DEFINE d == portToDAGinfo[p]
             e == DataTimeoutInfo(d)
             S == {Segment("DATA", d.src_path, d.dst_path, q.seq, q.data) : q \in Retransmitted(d)}
  <1>1. /\ Open(p) /\ d.dataack_waiting
        /\ portToDAGinfo' = [portToDAGinfo EXCEPT ![p] = e]
        /\ net' = net \cup S
        /\ UNCHANGED <<tables, pending_connection_buf, inbox, taken, app, listener, syns>>
    BY Zenon DEF TimerData, DataTimeout
  <1>2. d \in DAGinfo /\ Sound(p, app[p], d) /\ TypeOK
    BY Zenon, <1>1, PortTypes DEF IndInv, Sockets
  <1>3. d.isConnected  BY Zenon, <1>1, <1>2 DEF Sound
  <1>4. Keeps(d, e)  BY Zenon, <1>2, HandlersKeep
  <1>5. /\ \A i \in Slots : e.sent_pkt[i] \in {NULL, d.sent_pkt[i]}
        /\ e.expected_seqnum = d.expected_seqnum
    BY Zenon, <1>2, HandlersStore, DataTimeoutFacts
  <1>6. \A q \in Retransmitted(d) : q \in Packet /\ \E i \in Slots : q = d.sent_pkt[i]
    BY Zenon, <1>2, DataTimeoutFacts
  <1>7. \A q \in Retransmitted(d) : q.seq \in Nat /\ q.data \in Data /\ q.data = <<p, q.seq + 1>>
    <2> SUFFICES ASSUME NEW q \in Retransmitted(d)
                 PROVE  q.seq \in Nat /\ q.data \in Data /\ q.data = <<p, q.seq + 1>>
      OBVIOUS
    <2>1. q \in Packet /\ q # NULL  BY Zenon, <1>6, NullAssumption
    <2>2. q.data = <<p, q.seq + 1>>  BY SMTT(30), <1>2, <1>6, <2>1 DEF Sound
    <2> QED  BY Zenon, <2>1, <2>2 DEF Packet
  <1>8. \A k \in S : k \in Msg /\ Proper(k, XIDpairToPort)
    <2> SUFFICES ASSUME NEW q \in Retransmitted(d)
                 PROVE  LET k == Segment("DATA", d.src_path, d.dst_path, q.seq, q.data)
                        IN  k \in Msg /\ Proper(k, XIDpairToPort)
      OBVIOUS
    <2>1. q.seq \in Nat /\ q.data \in Data /\ q.data = <<p, q.seq + 1>>  BY Zenon, <1>7
    <2> QED  BY Zenon, <1>1, <1>3, <2>1, DataIsProper
  <1> HIDE DEF d, e, S
  <1>9. Sound(p, app[p], e)  BY Zenon, <1>2, <1>3, <1>4, <1>5, SoundKept
  <1>10. net' \subseteq Msg /\ \A k \in net' \ net : Proper(k, XIDpairToPort)
    BY Zenon, <1>1, <1>2, <1>8 DEF TypeOK
  <1> QED  BY Zenon, <1>1, <1>4, <1>5, <1>9, <1>10, QuietHandler DEF d

\* One message more on one port.
LEMMA Pushes ==
    ASSUME TypeOK, NEW p \in Ports, NEW x \in {Granted, Request} \cup {Payload(y) : y \in Data},
           inbox' = [inbox EXCEPT ![p] = Append(@, x)], UNCHANGED taken
    PROVE  /\ inbox' \in [Ports -> Seq({Granted, Request} \cup {Payload(y) : y \in Data})]
           /\ \A q \in Ports : taken'[q] <= Len(inbox'[q])
           /\ \A q \in Ports \ {p} : inbox'[q] = inbox[q]
           /\ inbox[p] \in Seq({Granted, Request} \cup {Payload(y) : y \in Data})
           /\ inbox'[p] = Append(inbox[p], x) /\ Len(inbox'[p]) = Len(inbox[p]) + 1
           /\ DOMAIN inbox[p] = 1 .. Len(inbox[p])
           /\ DOMAIN inbox'[p] = DOMAIN inbox[p] \cup {Len(inbox[p]) + 1}
           /\ \A i \in DOMAIN inbox[p] : inbox'[p][i] = inbox[p][i]
           /\ inbox'[p][Len(inbox[p]) + 1] = x
  <1> DEFINE Note == {Granted, Request} \cup {Payload(y) : y \in Data}
  <1>0. inbox \in [Ports -> Seq(Note)] /\ taken \in [Ports -> Nat]  BY Zenon DEF TypeOK
  <1>1. /\ inbox \in [Ports -> Seq(Note)] /\ taken \in [Ports -> Nat]
        /\ inbox[p] \in Seq(Note) /\ Len(inbox[p]) \in Nat
    <2> HIDE DEF Note
    <2> QED  BY <1>0
  <1>2. \A q \in Ports : taken[q] <= Len(inbox[q])  BY Zenon, PortTypes
  <1> HIDE DEF Note
  <1>3. x \in Note  BY Zenon DEF Note
  <1>4. /\ Append(inbox[p], x) \in Seq(Note)
        /\ Len(Append(inbox[p], x)) = Len(inbox[p]) + 1
        /\ \A i \in 1 .. Len(inbox[p]) : Append(inbox[p], x)[i] = inbox[p][i]
        /\ Append(inbox[p], x)[Len(inbox[p]) + 1] = x
    BY <1>1, <1>3
  <1>5. /\ inbox'[p] = Append(inbox[p], x)
        /\ \A q \in Ports \ {p} : inbox'[q] = inbox[q]
        /\ inbox' \in [Ports -> Seq(Note)]
    BY Zenon, <1>1, <1>4
  <1>6. \A q \in Ports : taken'[q] <= Len(inbox'[q])
    <2> TAKE q \in Ports
    <2>1. CASE q = p  BY <1>1, <1>2, <1>4, <1>5, <2>1
    <2>2. CASE q # p  BY Zenon, <1>2, <1>5, <2>2
    <2> QED  BY Zenon, <2>1, <2>2
  <1>7. DOMAIN inbox[p] = 1 .. Len(inbox[p])  BY <1>1
  <1>8. DOMAIN inbox'[p] = 1 .. (Len(inbox[p]) + 1)  BY <1>4, <1>5
  <1>9. DOMAIN inbox'[p] = DOMAIN inbox[p] \cup {Len(inbox[p]) + 1}  BY <1>1, <1>7, <1>8
  <1> QED  BY Zenon, <1>1, <1>4, <1>5, <1>6, <1>7, <1>9 DEF Note

\* The first SYNACK goes up to the application, and from then on the client does not wait.
LEMMA SynackStep ==
    ASSUME IndInv, NEW m \in net, RecvSYNACK(m)
    PROVE  IndInv'
  <1> DEFINE p == PairPort(m)
             d == portToDAGinfo[p]
             e == SynackInfo(d)
  <1>1. /\ p # NULL /\ Open(p)
        /\ portToDAGinfo' = [portToDAGinfo EXCEPT ![p] = e]
        /\ inbox' = IF SynackGrants(d) THEN [inbox EXCEPT ![p] = Append(@, Granted)] ELSE inbox
        /\ UNCHANGED <<tables, pending_connection_buf, net, taken, app, listener, syns>>
    BY SMTT(30) DEF RecvSYNACK
  <1>2. p \in Ports /\ d.isConnected /\ app[p] \notin {"none", "open"} /\ p \notin Listeners
    BY Zenon, <1>1, PairFacts, SIDsAssumption DEF Ports
  <1>3. d \in DAGinfo /\ Sound(p, app[p], d) /\ TypeOK
    BY Zenon, <1>1, <1>2, PortTypes DEF IndInv, Sockets
  <1>4. Keeps(d, e) /\ ~e.synack_waiting  BY Zenon, <1>3, HandlersKeep
  <1>5. /\ \A i \in Slots : e.sent_pkt[i] \in {NULL, d.sent_pkt[i]}
        /\ e.expected_seqnum = d.expected_seqnum
    <2>1. e.expected_seqnum = d.expected_seqnum  BY Zenon, <1>3, SynackFacts
    <2> QED  BY Zenon, <1>3, <2>1, HandlersStore
  <1> HIDE DEF p, d, e
  <1>6. Sound(p, app[p], e)  BY Zenon, <1>2, <1>3, <1>4, <1>5, SoundKept
  <1>7. net' \subseteq Msg /\ net' \ net = {}  BY Zenon, <1>1, <1>3 DEF TypeOK
  <1>8. CASE ~d.synack_waiting
    <2>1. UNCHANGED inbox  BY Zenon, <1>1, <1>8 DEF SynackGrants
    <2> QED  BY Zenon, <1>1, <1>2, <1>4, <1>5, <1>6, <1>7, <2>1, QuietHandler DEF d
  <1>9. CASE d.synack_waiting
    <2>1. inbox' = [inbox EXCEPT ![p] = Append(@, Granted)]  BY Zenon, <1>1, <1>9 DEF SynackGrants
    <2>2. p \in Clients  BY Zenon, <1>2, <1>3, <1>9 DEF Sound, Ports
    <2>3. /\ portToDAGinfo' \in [Ports -> DAGinfo \cup {NULL}]
          /\ \A q \in Ports : Open(q)' = Open(q)
          /\ portToDAGinfo'[p] = e
          /\ \A q \in Ports \ {p} : portToDAGinfo'[q] = portToDAGinfo[q]
          /\ Kinds' /\ Sockets' /\ Routing' /\ Pairs' /\ Connected' /\ Messages'
      BY Zenon, <1>1, <1>2, <1>4, <1>6, <1>7, HandlerStep DEF d
    <2>4. /\ inbox' \in [Ports -> Seq({Granted, Request} \cup {Payload(y) : y \in Data})]
          /\ \A q \in Ports : taken'[q] <= Len(inbox'[q])
          /\ \A q \in Ports \ {p} : inbox'[q] = inbox[q]
          /\ DOMAIN inbox'[p] = DOMAIN inbox[p] \cup {Len(inbox[p]) + 1}
          /\ \A i \in DOMAIN inbox[p] : inbox'[p][i] = inbox[p][i]
      BY Zenon, <1>1, <1>2, <1>3, <2>1, Pushes
    <2>5. TypeOK'  BY Zenon, <1>1, <1>3, <1>7, <2>3, <2>4 DEF TypeOK, tables
    <2>6. \A a \in AcceptPorts : a \in Ports \ {p}  BY Zenon, <2>2, SIDsAssumption DEF Ports
    <2>7. \A l \in Listeners : l \in Ports \ {p}  BY ZenonT(60), <2>2, SIDsAssumption DEF Ports
    <2>8. Streams'  BY <1>1, <2>3, <2>4, <2>6 DEF Streams, IndInv
    <2>9. Grants'
      <3>1. \A i \in DOMAIN inbox[p] : inbox[p][i] # Granted
        BY Zenon, <1>1, <1>9, <2>2 DEF d, IndInv, Grants
      <3>2. \A i, j \in DOMAIN inbox'[p] :
              inbox'[p][i] = Granted /\ inbox'[p][j] = Granted => i = j
        BY Zenon, <2>4, <3>1
      <3>3. GrantedOnce'
        BY Zenon, <2>2, <2>4, <3>2 DEF GrantedOnce, IndInv, Grants, Ports
      <3>4. ASSUME NEW c \in Clients, NEW i \in DOMAIN inbox'[c], inbox'[c][i] = Granted
            PROVE  app'[c] \notin {"none", "open"} /\ (Open(c)' => ~portToDAGinfo'[c].synack_waiting)
        <4>1. CASE c = p  BY Zenon, <1>1, <1>2, <1>4, <2>3, <4>1
        <4>2. CASE c # p
          BY Zenon, <1>1, <2>3, <2>4, <3>4, <4>2 DEF Grants, IndInv, Ports
        <4> QED  BY Zenon, <4>1, <4>2
      <3> QED  BY Zenon, <3>3, <3>4 DEF Grants
    <2>10. Claimed'  BY Zenon, <1>1, <2>4, <2>7, ClaimsKept DEF IndInv
    <2> QED  BY Zenon, <2>3, <2>5, <2>8, <2>9, <2>10 DEF IndInv
  <1> QED  BY Zenon, <1>8, <1>9

\* A DATA packet in sequence goes up; its ACK promises nothing a proper message has to keep.
LEMMA DataStep ==
    ASSUME IndInv, NEW m \in net, RecvDATA(m)
    PROVE  IndInv'
  <1> DEFINE p == PairPort(m)
             d == portToDAGinfo[p]
             e == DataInfo(d, m.num)
             k == Segment("ACK", m.dst, m.src, CumulativeAck(d, m.num), NULL)
  <1>1. /\ m.type = "DATA" /\ p # NULL /\ Open(p)
        /\ portToDAGinfo' = [portToDAGinfo EXCEPT ![p] = e]
        /\ inbox' = IF InSequence(d, m.num) THEN [inbox EXCEPT ![p] = Append(@, Payload(m.data))]
                                            ELSE inbox
        /\ net' = net \cup {k}
        /\ UNCHANGED <<tables, pending_connection_buf, taken, app, listener, syns>>
    BY SMTT(30) DEF RecvDATA, Arrives
  <1>2. /\ p \in Ports /\ d.isConnected /\ app[p] \notin {"none", "open", "accepting"}
        /\ p \notin Listeners /\ m.num \in Nat /\ m.src \in XIDs /\ m.dst \in XIDs
        /\ p \in AcceptPorts => m.src \in Clients /\ d.dst_path = m.src
    BY Zenon, <1>1, PairFacts, SIDsAssumption DEF Ports
  <1>3. d \in DAGinfo /\ Sound(p, app[p], d) /\ TypeOK
    BY ZenonT(30), <1>1, <1>2, PortTypes DEF IndInv, Sockets
  <1>4. Keeps(d, e)  BY Zenon, <1>2, <1>3, HandlersKeep
  <1>5. \A i \in Slots : e.sent_pkt[i] \in {NULL, d.sent_pkt[i]}
    BY Zenon, <1>2, <1>3, HandlersStore
  <1>6. /\ e.expected_seqnum = d.expected_seqnum + (IF InSequence(d, m.num) THEN 1 ELSE 0)
        /\ e.synack_waiting = d.synack_waiting
        /\ CumulativeAck(d, m.num) = e.expected_seqnum
    BY Zenon, <1>2, <1>3, DataFacts
  <1>7. k \in Msg /\ k.type = "ACK"
    <2>1. CumulativeAck(d, m.num) \in Nat  BY Zenon, <1>4, <1>6 DEF Keeps, DAGinfo
    <2> QED  BY SMTT(30), <1>2, <2>1, SegmentType
  <1>8. m.data \in Data /\ (m.src \in Clients => m.data = <<m.src, m.num + 1>>)
    BY Zenon, <1>1 DEF IndInv, Messages, Proper
  <1>e. /\ d.expected_seqnum \in Nat
        /\ InSequence(d, m.num) <=> m.num = d.expected_seqnum
    BY Zenon, <1>3 DEF InSequence, DAGinfo
  <1> HIDE DEF p, d, e, k
  <1>9. Sound(p, app[p], e)  BY Zenon, <1>2, <1>3, <1>4, <1>5, SoundKept
  <1>10. net' \subseteq Msg /\ \A x \in net' \ net : Proper(x, XIDpairToPort)
    BY Zenon, <1>1, <1>3, <1>7 DEF TypeOK, Proper
  <1>11. CASE ~InSequence(d, m.num)
    <2>1. UNCHANGED inbox /\ e.expected_seqnum = d.expected_seqnum
      BY <1>1, <1>6, <1>e, <1>11
    <2> QED  BY Zenon, <1>1, <1>2, <1>4, <1>9, <1>10, <2>1, QuietHandler DEF d
  <1>12. CASE InSequence(d, m.num)
    <2>1. inbox' = [inbox EXCEPT ![p] = Append(@, Payload(m.data))]  BY Zenon, <1>1, <1>12
    <2>2. Payload(m.data) \in {Granted, Request} \cup {Payload(y) : y \in Data}  BY Zenon, <1>8
    <2>3. /\ portToDAGinfo' \in [Ports -> DAGinfo \cup {NULL}]
          /\ \A q \in Ports : Open(q)' = Open(q)
          /\ portToDAGinfo'[p] = e
          /\ \A q \in Ports \ {p} : portToDAGinfo'[q] = portToDAGinfo[q]
          /\ Kinds' /\ Sockets' /\ Routing' /\ Pairs' /\ Connected' /\ Messages'
      BY ZenonT(30), <1>1, <1>2, <1>4, <1>9, <1>10, HandlerStep DEF d
    <2>4. /\ inbox' \in [Ports -> Seq({Granted, Request} \cup {Payload(y) : y \in Data})]
          /\ \A q \in Ports : taken'[q] <= Len(inbox'[q])
          /\ \A q \in Ports \ {p} : inbox'[q] = inbox[q]
          /\ Len(inbox'[p]) = Len(inbox[p]) + 1
          /\ DOMAIN inbox'[p] = DOMAIN inbox[p] \cup {Len(inbox[p]) + 1}
          /\ \A i \in DOMAIN inbox[p] : inbox'[p][i] = inbox[p][i]
          /\ inbox'[p][Len(inbox[p]) + 1] = Payload(m.data)
      BY ZenonT(60), <1>1, <1>2, <1>3, <2>1, <2>2, Pushes
    <2>5. TypeOK'  BY ZenonT(30), <1>1, <1>3, <1>10, <2>3, <2>4 DEF TypeOK, tables
    <2>6. \A l \in Listeners : l \in Ports \ {p}  BY Zenon, <1>2 DEF Ports
    <2>7. Claimed'  BY Zenon, <1>1, <2>4, <2>6, ClaimsKept DEF IndInv
    <2>8. Streams'
      <3> SUFFICES ASSUME NEW a \in AcceptPorts
                   PROVE  /\ app'[a] \in {"none", "accepting"} => inbox'[a] = << >>
                          /\ Open(a)' =>
                               /\ portToDAGinfo'[a].expected_seqnum = Len(inbox'[a])
                               /\ \A i \in DOMAIN inbox'[a] :
                                     inbox'[a][i] = Payload(<<portToDAGinfo'[a].dst_path, i>>)
        BY SMTT(30) DEF Streams
      <3>1. CASE a # p
        <4>1. a \in Ports \ {p}  BY Zenon, <3>1 DEF Ports
        <4> QED  BY ZenonT(60), <1>1, <2>3, <2>4, <4>1 DEF Streams, IndInv
      <3>2. CASE a = p
        <4>1. /\ d.expected_seqnum = Len(inbox[p])
              /\ \A i \in DOMAIN inbox[p] : inbox[p][i] = Payload(<<d.dst_path, i>>)
          BY Zenon, <1>1, <3>2 DEF d, Streams, IndInv
        <4>2. m.data = <<d.dst_path, Len(inbox[p]) + 1>>
          BY Zenon, <1>2, <1>8, <1>12, <1>e, <3>2, <4>1
        <4>3. portToDAGinfo'[p].dst_path = d.dst_path  BY Zenon, <1>4, <2>3 DEF Keeps
        <4>4. \A i \in DOMAIN inbox'[p] : inbox'[p][i] = Payload(<<d.dst_path, i>>)
          BY Zenon, <2>4, <4>1, <4>2
        <4>5. e.expected_seqnum = Len(inbox'[p])  BY Zenon, <1>6, <1>12, <2>4, <4>1
        <4> QED  BY ZenonT(30), <1>1, <1>2, <2>3, <3>2, <4>3, <4>4, <4>5
      <3> QED  BY Zenon, <3>1, <3>2
    <2>9. Grants'
      <3>1. Payload(m.data) # Granted  BY SMTT(30) DEF Payload, Granted
      <3>2. \A c \in Clients : \A i \in DOMAIN inbox'[c] :
              inbox'[c][i] = Granted => i \in DOMAIN inbox[c] /\ inbox[c][i] = Granted
        BY <2>4, <3>1 DEF Ports
      <3>3. \A c \in Clients : portToDAGinfo'[c].synack_waiting = portToDAGinfo[c].synack_waiting
        BY ZenonT(30), <1>6, <2>3 DEF d, Ports
      <3>4. GrantedOnce'  BY Zenon, <3>2 DEF GrantedOnce, Grants, IndInv
      <3> QED  BY Zenon, <1>1, <2>3, <3>2, <3>3, <3>4 DEF Grants, IndInv, Ports
    <2> QED  BY Zenon, <2>3, <2>5, <2>7, <2>8, <2>9 DEF IndInv
  <1> QED  BY Zenon, <1>11, <1>12

\* An API call that sets the DAGinfo of p to e and moves its application to state s.
LEMMA ApiStep ==
    ASSUME IndInv, NEW p \in Ports, NEW e \in DAGinfo,
           NEW s \in {"open", "listening", "connecting", "up", "closed"},
           portToDAGinfo' = [portToDAGinfo EXCEPT ![p] = e], app' = [app EXCEPT ![p] = s],
           Sound(p, s, e)
    PROVE  /\ portToDAGinfo' \in [Ports -> DAGinfo \cup {NULL}]
           /\ portToDAGinfo'[p] = e /\ \A q \in Ports \ {p} : portToDAGinfo'[q] = portToDAGinfo[q]
           /\ app'[p] = s /\ \A q \in Ports \ {p} : app'[q] = app[q]
           /\ app' \in [Ports -> {"none", "open", "listening", "connecting", "accepting", "up",
                                  "closed", "ECONNABORTED"}]
           /\ Open(p)' /\ \A q \in Ports \ {p} : Open(q)' = Open(q)
           /\ Sockets'
           /\ app[p] # "accepting" /\ UNCHANGED <<pending_connection_buf, inbox, taken>> => Claimed'
  <1>1. TypeOK /\ Claimed /\ Sockets  BY Zenon DEF IndInv
  <1>2. /\ portToDAGinfo \in [Ports -> DAGinfo \cup {NULL}]
        /\ app \in [Ports -> {"none", "open", "listening", "connecting", "accepting", "up",
                              "closed", "ECONNABORTED"}]
    BY Zenon, <1>1 DEF TypeOK
  <1>3. e # NULL  BY Zenon, SIDsAssumption
  <1>4. /\ portToDAGinfo' \in [Ports -> DAGinfo \cup {NULL}]
        /\ portToDAGinfo'[p] = e /\ \A q \in Ports \ {p} : portToDAGinfo'[q] = portToDAGinfo[q]
    BY Zenon, <1>2
  <1>5. /\ app' \in [Ports -> {"none", "open", "listening", "connecting", "accepting", "up",
                               "closed", "ECONNABORTED"}]
        /\ app'[p] = s /\ \A q \in Ports \ {p} : app'[q] = app[q]
    BY Zenon, <1>2
  <1>6. Open(p)' /\ \A q \in Ports \ {p} : Open(q)' = Open(q)  BY Zenon, <1>3, <1>4 DEF Open
  <1>7. Sockets'  BY Zenon, <1>1, <1>4, <1>5, <1>6 DEF Sockets
  <1>8. ASSUME app[p] # "accepting", UNCHANGED <<pending_connection_buf, inbox, taken>>
        PROVE  Claimed'
    <2>1. \A a \in AcceptPorts : app'[a] = "accepting" <=> app[a] = "accepting"
      BY Zenon, <1>5, <1>8 DEF Ports
    <2> QED  BY Zenon, <1>1, <1>8, <2>1, ClaimsKept
  <1> QED  BY Zenon, <1>4, <1>5, <1>6, <1>7, <1>8

\* No pair leads to a port that is not connected or accepted yet.
LEMMA NotPaired ==
    ASSUME IndInv, NEW p \in Ports, app[p] \in {"none", "open", "accepting"},
           NEW x \in XIDs, NEW y \in XIDs
    PROVE  XIDpairToPort[<<x, y>>] \in (Ports \ {p}) \cup {NULL}
  <1>1. <<x, y>> \in XIDs \X XIDs  OBVIOUS
  <1>2. XIDpairToPort[<<x, y>>] \in Ports \cup {NULL}  BY Zenon, <1>1 DEF IndInv, TypeOK
  <1>3. XIDpairToPort[<<x, y>>] # NULL
          => app[XIDpairToPort[<<x, y>>]] \notin {"none", "open", "accepting"}
    BY SMTT(30) DEF IndInv, Pairs, LeadsTo
  <1> QED  BY Zenon, <1>2, <1>3

\* A new socket.
LEMMA XsocketFacts ==
    /\ XsocketInfo \in DAGinfo
    /\ XsocketInfo.src_path = NULL
    /\ ~XsocketInfo.isConnected /\ ~XsocketInfo.isAcceptSocket /\ ~XsocketInfo.teardown_waiting
    /\ ~XsocketInfo.synack_waiting /\ ~XsocketInfo.dataack_waiting
    /\ XsocketInfo.expected_seqnum = 0
    /\ \A i \in Slots : XsocketInfo.sent_pkt[i] = NULL
  BY Zenon DEF XsocketInfo, DAGinfo

\* Xsocket: a port not used before.
LEMMA SocketStep ==
    ASSUME IndInv, NEW p \in Ports, Xsocket(p)
    PROVE  IndInv'
  <1> USE DEF IndInv
  <1>1. /\ p \in Clients \cup Listeners /\ app[p] = "none"
        /\ portToDAGinfo' = [portToDAGinfo EXCEPT ![p] = XsocketInfo]
        /\ app' = [app EXCEPT ![p] = "open"]
        /\ UNCHANGED <<XIDtoPort, XIDpairToPort, routes, pending_connection_buf, net, inbox, taken,
                       listener, syns>>
    BY SMTT(30) DEF Xsocket, tables
  <1>2. Sound(p, "open", XsocketInfo)
    BY Zenon, <1>1, XsocketFacts, SIDsAssumption DEF Sound
  <1>3. /\ portToDAGinfo' \in [Ports -> DAGinfo \cup {NULL}]
        /\ portToDAGinfo'[p] = XsocketInfo
        /\ \A q \in Ports \ {p} : portToDAGinfo'[q] = portToDAGinfo[q]
        /\ app'[p] = "open" /\ \A q \in Ports \ {p} : app'[q] = app[q]
        /\ app' \in [Ports -> {"none", "open", "listening", "connecting", "accepting", "up",
                               "closed", "ECONNABORTED"}]
        /\ Open(p)' /\ \A q \in Ports \ {p} : Open(q)' = Open(q)
        /\ Sockets' /\ Claimed'
    BY ZenonT(30), <1>1, <1>2, XsocketFacts, ApiStep
  <1>4. ~Open(p)  BY Zenon, <1>1 DEF Sockets, Sound
  <1>5. TypeOK'  BY Zenon, <1>1, <1>3 DEF TypeOK
  <1>6. Kinds'  BY SMTT(30), <1>1, <1>3, SIDsAssumption DEF Kinds, Ports
  <1>7. Routing'  BY <1>1, <1>3, <1>4 DEF Routing, Ports
  <1>8. Pairs'
    <2>1. \A x, y \in XIDs : XIDpairToPort[<<x, y>>] \in (Ports \ {p}) \cup {NULL}
      BY ZenonT(30), <1>1, NotPaired
    <2>2. \A q \in Ports \ {p} : PeerKept(q)  BY Zenon, <1>3 DEF PeerKept
    <2> QED  BY Zenon, <1>1, <2>1, <2>2, PairsKept
  <1>9. Connected'  BY Zenon, <1>1, <1>3, XsocketFacts DEF Connected, Ports
  <1>10. Messages'  BY Zenon, <1>1 DEF Messages
  <1>11. Streams'
    <2>1. \A a \in AcceptPorts : a \in Ports \ {p}  BY Zenon, <1>1, SIDsAssumption DEF Ports
    <2> QED  BY <1>1, <1>3, <2>1 DEF Streams
  <1>12. Grants'  BY SMTT(30), <1>1, <1>3 DEF Grants, GrantedOnce, Ports
  <1> QED  BY Zenon, <1>3, <1>5, <1>6, <1>7, <1>8, <1>9, <1>10, <1>11, <1>12

\* Xbind: the listener's SID is its own.
LEMMA BindStep ==
    ASSUME IndInv, NEW l \in Listeners, Xbind(l)
    PROVE  IndInv'
  <1> USE DEF IndInv
  <1> DEFINE d == portToDAGinfo[l]
             e == XbindInfo(d, l)
  <1>1. /\ app[l] = "open"
        /\ portToDAGinfo' = [portToDAGinfo EXCEPT ![l] = e]
        /\ XIDtoPort' = [XIDtoPort EXCEPT ![l] = l]
        /\ routes' = routes \cup {l}
        /\ app' = [app EXCEPT ![l] = "listening"]
        /\ UNCHANGED <<XIDpairToPort, pending_connection_buf, net, inbox, taken, listener, syns>>
    BY Zenon DEF Xbind
  <1>2. l \in Ports /\ l \in XIDs /\ l \notin Clients /\ l \notin AcceptPorts /\ Open(l)
    BY Zenon, <1>1, SIDsAssumption DEF Ports, Kinds
  <1>3. d \in DAGinfo /\ Sound(l, app[l], d)  BY Zenon, <1>2, PortTypes DEF Sockets
  <1>4. /\ e \in DAGinfo /\ e.src_path = l /\ ~e.isConnected /\ e.sent_pkt = d.sent_pkt
        /\ e.isAcceptSocket = d.isAcceptSocket /\ e.teardown_waiting = d.teardown_waiting
        /\ e.synack_waiting = d.synack_waiting /\ e.dataack_waiting = d.dataack_waiting
    BY Zenon, <1>2, <1>3 DEF XbindInfo, DAGinfo
  <1> HIDE DEF d, e
  <1>5. Sound(l, "listening", e)  BY Zenon, <1>1, <1>2, <1>3, <1>4 DEF Sound
  <1>6. /\ portToDAGinfo' \in [Ports -> DAGinfo \cup {NULL}]
        /\ portToDAGinfo'[l] = e /\ \A q \in Ports \ {l} : portToDAGinfo'[q] = portToDAGinfo[q]
        /\ app'[l] = "listening" /\ \A q \in Ports \ {l} : app'[q] = app[q]
        /\ app' \in [Ports -> {"none", "open", "listening", "connecting", "accepting", "up",
                               "closed", "ECONNABORTED"}]
        /\ Open(l)' /\ \A q \in Ports \ {l} : Open(q)' = Open(q)
        /\ Sockets' /\ Claimed'
    BY Zenon, <1>1, <1>2, <1>4, <1>5, ApiStep
  <1>7. XIDtoPort' \in [XIDs -> Ports \cup {NULL}] /\ routes' \subseteq XIDs
    BY Zenon, <1>1, <1>2 DEF TypeOK
  <1>8. TypeOK'  BY Zenon, <1>1, <1>6, <1>7 DEF TypeOK
  <1>9. Kinds'  BY Zenon, <1>2, <1>6 DEF Kinds, Ports
  <1>10. XIDtoPort'[l] = l /\ \A x \in XIDs \ {l} : XIDtoPort'[x] = XIDtoPort[x]
    BY Zenon, <1>1, <1>2 DEF TypeOK
  <1>11. Routing'
    <2>1. \A x \in XIDs : XIDtoPort'[x] \in {NULL, x}  BY Zenon, <1>10 DEF Routing
    <2>2. \A p \in Clients \cup Listeners :
            app'[p] \in {"listening", "connecting", "up"} => XIDtoPort'[p] = p /\ p \in routes'
      BY SMTT(30), <1>1, <1>6, <1>10, SIDsAssumption DEF Routing, Ports
    <2>3. \A c \in Clients : c \in routes' => Open(c)' /\ portToDAGinfo'[c].src_path = c
      BY <1>1, <1>2, <1>6 DEF Routing, Ports
    <2> QED  BY Zenon, <2>1, <2>2, <2>3 DEF Routing
  <1>12. Pairs'
    <2>1. \A x, y \in XIDs : XIDpairToPort[<<x, y>>] \in (Ports \ {l}) \cup {NULL}
      BY ZenonT(30), <1>1, <1>2, NotPaired
    <2>2. \A q \in Ports \ {l} : PeerKept(q)  BY Zenon, <1>6 DEF PeerKept
    <2> QED  BY Zenon, <1>1, <2>1, <2>2, PairsKept
  <1>13. Connected' /\ Messages' /\ Streams' /\ Grants'
    <2>1. \A q \in Clients \cup AcceptPorts : q \in Ports \ {l}  BY Zenon, <1>2 DEF Ports
    <2>2. Connected'  BY Zenon, <1>1, <1>6, <2>1 DEF Connected
    <2>3. Messages'  BY Zenon, <1>1 DEF Messages
    <2>4. Streams'  BY ZenonT(30), <1>1, <1>6, <2>1 DEF Streams
    <2>5. Grants'  BY SMTT(30), <1>1, <1>6, <2>1 DEF Grants, GrantedOnce
    <2> QED  BY Zenon, <2>2, <2>3, <2>4, <2>5
  <1> QED  BY Zenon, <1>6, <1>8, <1>9, <1>11, <1>12, <1>13

\* Xconnect: the client's SID and pair lead to it, and the SYN it sends says so.
LEMMA ConnectStep ==
    ASSUME IndInv, NEW c \in Clients, NEW l \in Listeners, Xconnect(c, l)
    PROVE  IndInv'
  <1> USE DEF IndInv
  <1> DEFINE d == portToDAGinfo[c]
             e == XconnectInfo(d, c, l)
             m == Segment("SYN", c, l, 0, NULL)
  <1>1. /\ app[c] = "open"
        /\ portToDAGinfo' = [portToDAGinfo EXCEPT ![c] = e]
        /\ XIDpairToPort' = [XIDpairToPort EXCEPT ![<<c, l>>] = c]
        /\ XIDtoPort' = [XIDtoPort EXCEPT ![c] = c]
        /\ routes' = routes \cup {c}
        /\ net' = net \cup {m}
        /\ app' = [app EXCEPT ![c] = "connecting"]
        /\ UNCHANGED <<pending_connection_buf, inbox, taken, listener, syns>>
    BY SMTT(30) DEF Xconnect
  <1>2. /\ c \in Ports /\ c \in XIDs /\ l \in XIDs /\ c \notin Listeners /\ c \notin AcceptPorts
        /\ Open(c)
    BY Zenon, <1>1, SIDsAssumption DEF Ports, Kinds
  <1>3. d \in DAGinfo /\ Sound(c, app[c], d)  BY Zenon, <1>2, PortTypes DEF Sockets
  <1>4. /\ e \in DAGinfo /\ e.src_path = c /\ e.dst_path = l /\ e.isConnected
        /\ e.sent_pkt = d.sent_pkt /\ e.isAcceptSocket = d.isAcceptSocket
        /\ e.teardown_waiting = d.teardown_waiting
    <2> DEFINE n == d.num_connect_tries + 1
    <2>1. n \in Nat  BY <1>3 DEF DAGinfo
    <2>2. e = [d EXCEPT !.src_path = c, !.dst_path = l, !.isConnected = TRUE,
                        !.seq_num = 0, !.base = 0, !.next_seqnum = 0, !.expected_seqnum = 0,
                        !.num_connect_tries = n, !.timer_on = TRUE, !.synack_waiting = TRUE]
      BY SMTT(30) DEF XconnectInfo
    <2> HIDE DEF d, e, n
    <2> QED  BY Zenon, <1>2, <1>3, <2>1, <2>2 DEF DAGinfo
  <1>5. m \in Msg /\ m.type = "SYN" /\ m.src = c /\ m.dst = l  BY <1>2, SegmentType
  <1> HIDE DEF d, e, m
  <1>6. Sound(c, "connecting", e)  BY Zenon, <1>1, <1>2, <1>3, <1>4 DEF Sound
  <1>7. /\ portToDAGinfo' \in [Ports -> DAGinfo \cup {NULL}]
        /\ portToDAGinfo'[c] = e /\ \A q \in Ports \ {c} : portToDAGinfo'[q] = portToDAGinfo[q]
        /\ app'[c] = "connecting" /\ \A q \in Ports \ {c} : app'[q] = app[q]
        /\ app' \in [Ports -> {"none", "open", "listening", "connecting", "accepting", "up",
                               "closed", "ECONNABORTED"}]
        /\ Open(c)' /\ \A q \in Ports \ {c} : Open(q)' = Open(q)
        /\ Sockets' /\ Claimed'
    BY ZenonT(30), <1>1, <1>2, <1>4, <1>6, ApiStep
  <1>8. /\ XIDpairToPort' \in [XIDs \X XIDs -> Ports \cup {NULL}]
        /\ XIDpairToPort'[<<c, l>>] = c
        /\ \A x, y \in XIDs : x # c \/ y # l => XIDpairToPort'[<<x, y>>] = XIDpairToPort[<<x, y>>]
    BY Zenon, <1>1, <1>2 DEF TypeOK
  <1>9. /\ XIDtoPort' \in [XIDs -> Ports \cup {NULL}] /\ routes' \subseteq XIDs
        /\ XIDtoPort'[c] = c /\ \A x \in XIDs \ {c} : XIDtoPort'[x] = XIDtoPort[x]
    BY Zenon, <1>1, <1>2 DEF TypeOK
  <1>10. TypeOK'
    <2>1. net' \subseteq Msg  BY Zenon, <1>1, <1>5 DEF TypeOK
    <2> QED  BY ZenonT(30), <1>1, <1>7, <1>8, <1>9, <2>1 DEF TypeOK
  <1>11. Kinds'  BY Zenon, <1>2, <1>7 DEF Kinds, Ports
  <1>12. Routing'
    <2>1. \A x \in XIDs : XIDtoPort'[x] \in {NULL, x}  BY Zenon, <1>9 DEF Routing
    <2>2. \A p \in Clients \cup Listeners :
            app'[p] \in {"listening", "connecting", "up"} => XIDtoPort'[p] = p /\ p \in routes'
      BY Zenon, <1>1, <1>7, <1>9, SIDsAssumption DEF Routing, Ports
    <2>3. \A k \in Clients : k \in routes' => Open(k)' /\ portToDAGinfo'[k].src_path = k
      BY <1>1, <1>4, <1>7 DEF Routing, Ports
    <2> QED  BY Zenon, <2>1, <2>2, <2>3 DEF Routing
  <1>13. Pairs'
    <2>1. \A x, y \in XIDs : XIDpairToPort[<<x, y>>] \in (Ports \ {c}) \cup {NULL}
      BY Zenon, <1>1, <1>2, NotPaired
    <2>2. \A q \in Ports \ {c} : PeerKept(q)  BY ZenonT(30), <1>7 DEF PeerKept
    <2>3. LeadsTo(c, l, c)'
      <3>1. app'[c] = "connecting" /\ portToDAGinfo'[c].isConnected  BY Zenon, <1>4, <1>7
      <3>2. app'[c] \notin {"none", "open", "accepting"}  BY Zenon, <3>1
      <3> QED  BY Zenon, <3>1, <3>2 DEF LeadsTo
    <2> SUFFICES ASSUME NEW x \in XIDs, NEW y \in XIDs, XIDpairToPort'[<<x, y>>] # NULL
                 PROVE  LeadsTo(x, y, XIDpairToPort[<<x, y>>])'
      BY SMTT(30) DEF Pairs
    <2>4. CASE x = c /\ y = l
      <3>1. XIDpairToPort'[<<x, y>>] = c  BY Zenon, <1>8, <2>4
      <3> QED  BY Zenon, <2>3, <2>4, <3>1 DEF LeadsTo
    <2>5. CASE x # c \/ y # l
      <3> DEFINE q == XIDpairToPort[<<x, y>>]
      <3>1. q' = q  BY Zenon, <1>8, <2>5
      <3>2. LeadsTo(x, y, q) /\ q \in Ports \ {c}  BY Zenon, <2>1, <3>1 DEF Pairs
      <3>3. PeerKept(q)  BY Zenon, <2>2, <3>2
      <3> HIDE DEF q
      <3>4. LeadsTo(x, y, q)'  BY Zenon, <3>1, <3>2, <3>3, LeadsToKept
      <3> QED  BY Zenon, <3>4 DEF q
    <2> QED  BY Zenon, <2>4, <2>5
  <1>14. Connected'
    <2> SUFFICES ASSUME NEW k \in Clients, Open(k)', portToDAGinfo'[k].isConnected
                 PROVE  XIDpairToPort'[<<k, portToDAGinfo'[k].dst_path>>] = k
      BY SMTT(30) DEF Connected
    <2>1. CASE k = c  BY Zenon, <1>4, <1>7, <1>8, <2>1
    <2>2. CASE k # c
      <3>1. k \in Ports \ {c} /\ k \in XIDs  BY Zenon, <2>2, SIDsAssumption DEF Ports
      <3>2. portToDAGinfo'[k] = portToDAGinfo[k] /\ Open(k)  BY Zenon, <1>7, <3>1
      <3>3. portToDAGinfo[k].dst_path \in XIDs  BY Zenon, <3>1, <3>2, ConnectedPaths
      <3> QED  BY ZenonT(30), <1>8, <2>2, <3>1, <3>2, <3>3 DEF Connected
    <2> QED  BY Zenon, <2>1, <2>2
  <1>15. Messages'
    <2>1. Proper(m, XIDpairToPort')  BY Zenon, <1>5, <1>8 DEF Proper
    <2>2. ASSUME NEW k \in net PROVE Proper(k, XIDpairToPort')
      <3>1. k \in Msg /\ Proper(k, XIDpairToPort)  BY Zenon DEF TypeOK, Messages
      <3>2. k.src \in XIDs /\ k.dst \in XIDs  BY Zenon, <3>1 DEF Msg
      <3>3. k.type = "SYN" => XIDpairToPort'[<<k.src, k.dst>>] = k.src
        BY Zenon, <1>8, <3>1, <3>2 DEF Proper
      <3>4. k.type = "SYNACK" => XIDpairToPort'[<<k.dst, k.src>>] = k.dst
        BY Zenon, <1>8, <3>1, <3>2 DEF Proper
      <3> QED  BY Zenon, <3>1, <3>3, <3>4 DEF Proper
    <2> QED  BY Zenon, <1>1, <2>1, <2>2 DEF Messages
  <1>16. Streams'
    <2>1. \A a \in AcceptPorts : a \in Ports \ {c}  BY Zenon, <1>2 DEF Ports
    <2> QED  BY ZenonT(30), <1>1, <1>7, <2>1 DEF Streams
  <1>17. Grants'
    <2>1. \A i \in DOMAIN inbox[c] : inbox[c][i] # Granted  BY Zenon, <1>1 DEF Grants
    <2> QED  BY <1>1, <1>7, <2>1 DEF Grants, GrantedOnce, Ports
  <1> QED  BY Zenon, <1>7, <1>10, <1>11, <1>12, <1>13, <1>14, <1>15, <1>16, <1>17

\* The library's Xconnect returns: the client is up.
LEMMA ReturnStep ==
    ASSUME IndInv, NEW c \in Clients, XconnectReturns(c)
    PROVE  IndInv'
  <1> USE DEF IndInv
  <1>1. /\ app[c] = "connecting" /\ taken[c] < Len(inbox[c])
        /\ taken' = [taken EXCEPT ![c] = @ + 1]
        /\ app' = [app EXCEPT ![c] = "up"]
        /\ UNCHANGED <<portToDAGinfo, XIDtoPort, XIDpairToPort, routes, pending_connection_buf,
                       net, inbox, listener, syns>>
    BY Zenon DEF XconnectReturns, tables
  <1>2. c \in Ports /\ c \notin Listeners /\ c \notin AcceptPorts
    BY Zenon, SIDsAssumption DEF Ports
  <1>3. /\ taken' \in [Ports -> Nat] /\ taken'[c] = taken[c] + 1
        /\ \A q \in Ports \ {c} : taken'[q] = taken[q]
        /\ app'[c] = "up" /\ \A q \in Ports \ {c} : app'[q] = app[q]
        /\ app' \in [Ports -> {"none", "open", "listening", "connecting", "accepting", "up",
                               "closed", "ECONNABORTED"}]
    BY <1>1, <1>2 DEF TypeOK
  <1>4. \A q \in Ports : taken'[q] <= Len(inbox'[q])
    <2> TAKE q \in Ports
    <2>1. taken[q] \in Nat /\ taken[q] <= Len(inbox[q]) /\ Len(inbox[q]) \in Nat
      BY Zenon, PortTypes
    <2> QED  BY <1>1, <1>3, <2>1
  <1>5. TypeOK'  BY Zenon, <1>1, <1>3, <1>4 DEF TypeOK
  <1>6. \A q \in Ports : Open(q)' = Open(q)  BY Zenon, <1>1 DEF Open
  <1>7. Kinds'  BY Zenon, <1>1, <1>2, <1>3, <1>6 DEF Kinds, Ports
  <1>8. Sockets'
    <2>1. \A d : Sound(c, "connecting", d) => Sound(c, "up", d)  BY Zenon, <1>2 DEF Sound
    <2>2. \A q \in Ports \ {c} : Open(q)' => Sound(q, app'[q], portToDAGinfo'[q])
      BY Zenon, <1>1, <1>3, <1>6 DEF Sockets
    <2>3. Open(c)' => Sound(c, app'[c], portToDAGinfo'[c])
      BY <1>1, <1>2, <1>3, <1>6, <2>1 DEF Sockets
    <2> QED  BY ZenonT(30), <2>2, <2>3 DEF Sockets
  <1>9. Routing'  BY Zenon, <1>1, <1>2, <1>3, <1>6 DEF Routing, Ports
  <1>10. Pairs'
    <2>1. \A x, y \in XIDs : XIDpairToPort[<<x, y>>] \in Ports \cup {NULL}  BY SMTT(30) DEF TypeOK
    <2>2. \A q \in Ports : PeerKept(q)  BY Zenon, <1>1, <1>3, <1>6 DEF PeerKept
    <2> QED  BY Zenon, <1>1, <2>1, <2>2, PairsKept
  <1>11. Connected' /\ Messages'  BY Zenon, <1>1, <1>6 DEF Connected, Messages, Ports
  <1>12. Streams'  BY ZenonT(60), <1>1, <1>2, <1>3, <1>6 DEF Streams, Ports
  <1>13. Grants'  BY Zenon, <1>1, <1>3, <1>6 DEF Grants, GrantedOnce, Ports
  <1>14. Claimed'
    <2>1. /\ \A l \in Listeners : inbox'[l] = inbox[l] /\ taken'[l] = taken[l]
          /\ \A a \in AcceptPorts : app'[a] = "accepting" <=> app[a] = "accepting"
      BY Zenon, <1>1, <1>2, <1>3 DEF Ports
    <2> QED  BY Zenon, <1>1, <2>1, ClaimsKept
  <1> QED  BY Zenon, <1>5, <1>7, <1>8, <1>9, <1>10, <1>11, <1>12, <1>13, <1>14

\* Xclose only starts the wait for the teardown.
LEMMA CloseStep ==
    ASSUME IndInv, NEW p \in Ports, Xclose(p)
    PROVE  IndInv'
  <1> USE DEF IndInv
  <1> DEFINE d == portToDAGinfo[p]
             e == XcloseInfo(d)
  <1>1. /\ app[p] \in {"open", "listening", "up"}
        /\ portToDAGinfo' = [portToDAGinfo EXCEPT ![p] = e]
        /\ app' = [app EXCEPT ![p] = "closed"]
        /\ UNCHANGED <<XIDtoPort, XIDpairToPort, routes, pending_connection_buf, net, inbox, taken,
                       listener, syns>>
    BY Zenon DEF Xclose, tables
  <1>2. Open(p)  BY Zenon, <1>1 DEF Kinds
  <1>3. d \in DAGinfo /\ Sound(p, app[p], d)  BY Zenon, <1>2, PortTypes DEF Sockets
  <1>4. /\ e \in DAGinfo /\ e.src_path = d.src_path /\ e.dst_path = d.dst_path
        /\ e.isConnected = d.isConnected /\ e.isAcceptSocket = d.isAcceptSocket
        /\ e.synack_waiting = d.synack_waiting /\ e.dataack_waiting = d.dataack_waiting
        /\ e.sent_pkt = d.sent_pkt /\ e.expected_seqnum = d.expected_seqnum
    BY Zenon, <1>3 DEF XcloseInfo, DAGinfo
  <1> HIDE DEF d, e
  <1>5. Sound(p, "closed", e)  BY Zenon, <1>3, <1>4 DEF Sound
  <1>6. /\ portToDAGinfo' \in [Ports -> DAGinfo \cup {NULL}]
        /\ portToDAGinfo'[p] = e /\ \A q \in Ports \ {p} : portToDAGinfo'[q] = portToDAGinfo[q]
        /\ app'[p] = "closed" /\ \A q \in Ports \ {p} : app'[q] = app[q]
        /\ app' \in [Ports -> {"none", "open", "listening", "connecting", "accepting", "up",
                               "closed", "ECONNABORTED"}]
        /\ Open(p)' /\ \A q \in Ports \ {p} : Open(q)' = Open(q)
        /\ Sockets' /\ Claimed'
    BY Zenon, <1>1, <1>4, <1>5, ApiStep
  <1>7. \A q \in Ports : /\ Open(q)' = Open(q)
                         /\ portToDAGinfo'[q].src_path = portToDAGinfo[q].src_path
                         /\ portToDAGinfo'[q].dst_path = portToDAGinfo[q].dst_path
                         /\ portToDAGinfo'[q].isConnected = portToDAGinfo[q].isConnected
                         /\ portToDAGinfo'[q].synack_waiting = portToDAGinfo[q].synack_waiting
                         /\ portToDAGinfo'[q].expected_seqnum = portToDAGinfo[q].expected_seqnum
    <2>1. Open(p)' = Open(p)  BY Zenon, <1>2, <1>6 DEF Open
    <2> QED  BY Zenon, <1>4, <1>6, <2>1 DEF d
  <1>8. TypeOK'  BY Zenon, <1>1, <1>6 DEF TypeOK
  <1>9. Kinds'  BY Zenon, <1>6 DEF Kinds, Ports
  <1>10. Routing'
    <2>1. Clients \cup Listeners \subseteq Ports  BY Zenon DEF Ports
    <2>2. \A x \in XIDs : XIDtoPort'[x] \in {NULL, x}  BY Zenon, <1>1 DEF Routing
    <2>3. \A q \in Ports : app'[q] \in {"listening", "connecting", "up"} => app[q] = app'[q]
      BY Zenon, <1>6
    <2>4. \A q \in Clients \cup Listeners :
            app'[q] \in {"listening", "connecting", "up"} => XIDtoPort'[q] = q /\ q \in routes'
      BY Zenon, <1>1, <2>1, <2>3 DEF Routing
    <2>5. \A c \in Clients : c \in routes' => Open(c)' /\ portToDAGinfo'[c].src_path = c
      BY ZenonT(60), <1>1, <1>7, <2>1 DEF Routing
    <2> QED  BY Zenon, <2>2, <2>4, <2>5 DEF Routing
  <1>11. Pairs'
    <2>1. \A x, y \in XIDs : XIDpairToPort[<<x, y>>] \in Ports \cup {NULL}  BY Zenon DEF TypeOK
    <2>2. \A q \in Ports : PeerKept(q)  BY Zenon, <1>6, <1>7 DEF PeerKept
    <2> QED  BY Zenon, <1>1, <2>1, <2>2, PairsKept
  <1>12. Connected' /\ Messages'
    <2>1. Clients \subseteq Ports  BY Zenon DEF Ports
    <2>2. XIDpairToPort' = XIDpairToPort  BY Zenon, <1>1
    <2>3. Connected'  BY Zenon, <1>7, <2>1, <2>2 DEF Connected
    <2>4. Messages'  BY Zenon, <1>1 DEF Messages
    <2> QED  BY Zenon, <2>3, <2>4
  <1>13. Streams'
    <2>1. AcceptPorts \subseteq Ports  BY Zenon DEF Ports
    <2>2. \A a \in AcceptPorts : app'[a] \in {"none", "accepting"} => app[a] = app'[a]
      BY Zenon, <1>6, <2>1
    <2>3. UNCHANGED inbox  BY Zenon, <1>1
    <2> QED  BY ZenonT(60), <1>7, <2>1, <2>2, <2>3 DEF Streams
  <1>14. Grants'  BY SMTT(30), <1>1, <1>6, <1>7 DEF Grants, GrantedOnce, Ports
  <1> QED  BY Zenon, <1>6, <1>8, <1>9, <1>10, <1>11, <1>12, <1>13, <1>14

\* The teardown takes a closed socket away, and with it its SID unless it was accepted.
LEMMA TeardownStep ==
    ASSUME IndInv, NEW p \in Ports, TimerTeardown(p)
    PROVE  IndInv'
  <1> USE DEF IndInv
  <1> DEFINE d == portToDAGinfo[p]
  <1>1. /\ Open(p) /\ d.teardown_waiting
        /\ routes' = IF FreesSID(d) THEN routes \ {d.src_path} ELSE routes
        /\ XIDtoPort' = IF FreesSID(d) THEN [XIDtoPort EXCEPT ![d.src_path] = NULL] ELSE XIDtoPort
        /\ portToDAGinfo' = [portToDAGinfo EXCEPT ![p] = NULL]
        /\ UNCHANGED <<XIDpairToPort, pending_connection_buf, net, inbox, taken, app, listener, syns>>
    BY SMTT(30) DEF TimerTeardown, TeardownTimeout
  <1>2. d \in DAGinfo /\ Sound(p, app[p], d)  BY Zenon, <1>1, PortTypes DEF Sockets
  <1>3. app[p] = "closed" /\ (FreesSID(d) => p \in XIDs /\ d.src_path = p)
    BY Zenon, <1>1, <1>2, SIDsAssumption DEF Sound, FreesSID, Ports
  <1>4. p \in Clients /\ p \in routes => FreesSID(d)
    <2> SUFFICES ASSUME p \in Clients, p \in routes PROVE FreesSID(d)  OBVIOUS
    <2>1. p \notin AcceptPorts /\ p # NULL  BY Zenon, SIDsAssumption
    <2>2. d.src_path = p  BY Zenon DEF Routing
    <2>3. ~d.isAcceptSocket  BY Zenon, <1>2, <2>1 DEF Sound
    <2> QED  BY Zenon, <2>1, <2>2, <2>3 DEF FreesSID
  <1> HIDE DEF d
  <1>5. /\ portToDAGinfo' \in [Ports -> DAGinfo \cup {NULL}]
        /\ portToDAGinfo'[p] = NULL
        /\ \A q \in Ports \ {p} : portToDAGinfo'[q] = portToDAGinfo[q]
    BY Zenon, <1>1 DEF TypeOK
  <1>6. ~Open(p)' /\ \A q \in Ports \ {p} : Open(q)' = Open(q)  BY Zenon, <1>5 DEF Open
  <1>7. /\ XIDtoPort' \in [XIDs -> Ports \cup {NULL}] /\ routes' \subseteq XIDs
        /\ \A x \in XIDs : XIDtoPort'[x] \in {NULL, XIDtoPort[x]}
        /\ \A x \in XIDs \ {p} : XIDtoPort'[x] = XIDtoPort[x] /\ (x \in routes <=> x \in routes')
        /\ p \in Clients => p \notin routes'
    BY Zenon, <1>1, <1>3, <1>4 DEF TypeOK
  <1>8. TypeOK'  BY Zenon, <1>1, <1>5, <1>7 DEF TypeOK
  <1>9. Kinds'  BY ZenonT(30), <1>1, <1>3, <1>6 DEF Kinds, Ports
  <1>10. Sockets'  BY Zenon, <1>1, <1>5, <1>6 DEF Sockets
  <1>11. Routing'
    <2>1. \A x \in XIDs : XIDtoPort'[x] \in {NULL, x}  BY Zenon, <1>7 DEF Routing
    <2>2. \A q \in Clients \cup Listeners :
            app'[q] \in {"listening", "connecting", "up"} => XIDtoPort'[q] = q /\ q \in routes'
      BY Zenon, <1>1, <1>3, <1>7, SIDsAssumption DEF Routing
    <2>3. \A c \in Clients : c \in routes' => Open(c)' /\ portToDAGinfo'[c].src_path = c
      BY ZenonT(30), <1>5, <1>6, <1>7, SIDsAssumption DEF Routing, Ports
    <2> QED  BY Zenon, <2>1, <2>2, <2>3 DEF Routing
  <1>12. Pairs'
    <2>1. \A x, y \in XIDs : XIDpairToPort[<<x, y>>] \in Ports \cup {NULL}  BY DEF TypeOK
    <2>2. \A q \in Ports : PeerKept(q)  BY Zenon, <1>1, <1>5, <1>6 DEF PeerKept
    <2> QED  BY Zenon, <1>1, <2>1, <2>2, PairsKept
  <1>13. Connected' /\ Messages'  BY Zenon, <1>1, <1>5, <1>6 DEF Connected, Messages, Ports
  <1>14. Streams'  BY Zenon, <1>1, <1>5, <1>6 DEF Streams, Ports
  <1>15. Grants'  BY Zenon, <1>1, <1>5, <1>6 DEF Grants, GrantedOnce, Ports
  <1>16. Claimed'  BY Zenon, <1>1, ClaimsKept
  <1> QED  BY Zenon, <1>8, <1>9, <1>10, <1>11, <1>12, <1>13, <1>14, <1>15, <1>16

\* A step that changes nothing.
LEMMA StutterStep ==
    ASSUME IndInv, UNCHANGED vars
    PROVE  IndInv'
  <1> USE DEF IndInv
  <1>1. UNCHANGED <<portToDAGinfo, XIDtoPort, XIDpairToPort, routes, pending_connection_buf, net,
                    inbox, taken, app, listener, syns>>
    BY Zenon DEF vars, tables
  <1>2. \A p \in Ports : Open(p)' = Open(p)  BY Zenon, <1>1 DEF Open
  <1>3. TypeOK' /\ Messages'  BY Zenon, <1>1 DEF TypeOK, Messages
  <1>4. Kinds' /\ Sockets'  BY ZenonT(30), <1>1, <1>2 DEF Kinds, Sockets
  <1>5. Routing' /\ Connected'  BY ZenonT(30), <1>1, <1>2 DEF Routing, Connected, Ports
  <1>6. Streams' /\ Grants'  BY ZenonT(30), <1>1, <1>2 DEF Streams, Grants, GrantedOnce, Ports
  <1>7. Pairs'
    <2>1. \A x, y \in XIDs : XIDpairToPort[<<x, y>>] \in Ports \cup {NULL}  BY Zenon DEF TypeOK
    <2>2. \A q \in Ports : PeerKept(q)  BY Zenon, <1>1, <1>2 DEF PeerKept
    <2> QED  BY Zenon, <1>1, <2>1, <2>2, PairsKept
  <1>8. Claimed'  BY Zenon, <1>1, ClaimsKept
  <1> QED  BY Zenon, <1>3, <1>4, <1>5, <1>6, <1>7, <1>8
===============================================================================
