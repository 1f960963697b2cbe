----------------------------- MODULE XStreamProofs -----------------------------
(***************************************************************************)
(* Proofs about XStream for every window size, retry limit, payload set    *)
(* and bound: types, in-order delivery, soundness of ACKs, that the        *)
(* connection implements ReliableStream; and that an undelivered payload   *)
(* stays buffered and timed while no more than a window of them was sent.  *)
(*                                                                         *)
(* In-order delivery is not inductive.  It needs to be known that whatever *)
(* can still reach a receiver (a DATA packet in flight, a slot of sent_pkt *)
(* that run_timer may resend) carries the payload its number stands for,   *)
(* and that the counters of a DAGinfo count the histories.                 *)
(***************************************************************************)
EXTENDS XStream, TLAPS

-------------------------------------------------------------------------------
(* What each handler does to a DAGinfo *)

\* The slot index i % MAX_WIN_SIZE stays inside sent_pkt, and is i itself for
\* the first MAX_WIN_SIZE sequence numbers.
LEMMA SlotIndex ==
    ASSUME NEW i \in Nat
    PROVE  /\ i % MAX_WIN_SIZE \in Slots
           /\ i < MAX_WIN_SIZE => i % MAX_WIN_SIZE = i
BY WindowAssumption, SMTT(30) DEF Slots

\* Xsocket, Xconnect followed by its SYNACK, and Xaccept leave a well-formed
\* socket with nothing sent, nothing received and no timer running.
LEMMA FreshSocket ==
    ASSUME NEW src \in XIDs, NEW dst \in XIDs,
           NEW d \in {SynackInfo(XconnectInfo(XsocketInfo, src, dst)), XacceptInfo(src, dst)}
    PROVE  /\ d \in DAGinfo
           /\ d.isConnected /\ ~d.synack_waiting
           /\ d.seq_num = 0 /\ d.next_seqnum = 0 /\ d.expected_seqnum = 0 /\ d.base = 0
           /\ d.sent_pkt = [i \in Slots |-> NULL]
<1>1. /\ XsocketInfo \in DAGinfo
      /\ XsocketInfo.sent_pkt = [i \in Slots |-> NULL]
      /\ XsocketInfo.synack_waiting = FALSE
      /\ XsocketInfo.seq_num = 0 /\ XsocketInfo.next_seqnum = 0
      /\ XsocketInfo.expected_seqnum = 0 /\ XsocketInfo.base = 0
  BY Zenon DEF XsocketInfo, DAGinfo
<1>2. CASE d = XacceptInfo(src, dst)
  BY Zenon, <1>1, <1>2 DEF XacceptInfo, DAGinfo
<1>3. CASE d = SynackInfo(XconnectInfo(XsocketInfo, src, dst))
  <2> DEFINE c == XconnectInfo(XsocketInfo, src, dst)
             n == XsocketInfo.num_connect_tries + 1
  <2>1. n \in Nat
    BY <1>1 DEF DAGinfo
  <2>2. c = [XsocketInfo EXCEPT
               !.src_path = src, !.dst_path = dst, !.isConnected = TRUE,
               !.seq_num = 0, !.base = 0, !.next_seqnum = 0, !.expected_seqnum = 0,
               !.num_connect_tries = n, !.timer_on = TRUE, !.synack_waiting = TRUE]
    BY Zenon DEF XconnectInfo
  <2> HIDE DEF c, n
  <2>3. /\ c \in DAGinfo
        /\ c.isConnected
        /\ c.seq_num = 0 /\ c.next_seqnum = 0 /\ c.expected_seqnum = 0 /\ c.base = 0
        /\ c.sent_pkt = [i \in Slots |-> NULL]
    BY ZenonT(30), <1>1, <2>1, <2>2 DEF DAGinfo
  <2> QED BY Zenon, <1>3, <2>3 DEF SynackInfo, DAGinfo, c
<1> QED BY Zenon, <1>2, <1>3

\* Xsend stores the packet in the slot of seq_num, counts it and arms the timer.
LEMMA XsendFacts ==
    ASSUME NEW d \in DAGinfo, NEW payload \in Data
    PROVE  LET e == XsendInfo(d, payload) IN
           /\ e \in DAGinfo
           /\ NextPacket(d, payload) \in Packet
           /\ e.seq_num = d.seq_num + 1 /\ e.next_seqnum = d.next_seqnum + 1
           /\ e.base = d.base /\ e.expected_seqnum = d.expected_seqnum
           /\ e.sent_pkt = [d.sent_pkt EXCEPT ![d.seq_num % MAX_WIN_SIZE] = NextPacket(d, payload)]
           /\ e.timer_on /\ e.dataack_waiting /\ e.synack_waiting = d.synack_waiting
<1>1. NextPacket(d, payload) \in Packet
  BY Zenon DEF NextPacket, Packet, DAGinfo
<1>2. d.seq_num \in Nat
  BY Zenon DEF DAGinfo
<1>3. d.seq_num % MAX_WIN_SIZE \in Slots
  BY Zenon, <1>2, SlotIndex
<1> DEFINE f == [d.sent_pkt EXCEPT ![d.seq_num % MAX_WIN_SIZE] = NextPacket(d, payload)]
           a == d.seq_num + 1
           b == d.next_seqnum + 1
<1>4. f \in [Slots -> Packet \cup {NULL}] /\ a \in Nat /\ b \in Nat
  BY <1>1, <1>3 DEF DAGinfo
<1>5. XsendInfo(d, payload) =
        [d EXCEPT !.sent_pkt = f, !.seq_num = a, !.next_seqnum = b,
                  !.timer_on = TRUE, !.dataack_waiting = TRUE, !.num_retransmit_tries = 0]
  BY Zenon DEF XsendInfo, DAGinfo
<1> HIDE DEF f, a, b
<1>6. [d EXCEPT !.sent_pkt = f, !.seq_num = a, !.next_seqnum = b, !.timer_on = TRUE,
                !.dataack_waiting = TRUE, !.num_retransmit_tries = 0] \in DAGinfo
  BY Zenon, <1>4 DEF DAGinfo
<1> QED BY <1>1, <1>5, <1>6 DEF DAGinfo, f, a, b

\* Xclose touches only the timer and the teardown flag.
LEMMA XcloseFacts ==
    ASSUME NEW d \in DAGinfo
    PROVE  LET e == XcloseInfo(d) IN
           /\ e \in DAGinfo
           /\ e.seq_num = d.seq_num /\ e.next_seqnum = d.next_seqnum
           /\ e.base = d.base /\ e.expected_seqnum = d.expected_seqnum
           /\ e.sent_pkt = d.sent_pkt
           /\ e.timer_on
           /\ e.dataack_waiting = d.dataack_waiting /\ e.synack_waiting = d.synack_waiting
BY Zenon DEF XcloseInfo, DAGinfo

\* A SYNACK touches only the timer and synack_waiting.
LEMMA SynackFacts ==
    ASSUME NEW d \in DAGinfo
    PROVE  LET e == SynackInfo(d) IN
           /\ e \in DAGinfo
           /\ e.seq_num = d.seq_num /\ e.next_seqnum = d.next_seqnum
           /\ e.base = d.base /\ e.expected_seqnum = d.expected_seqnum
           /\ e.sent_pkt = d.sent_pkt /\ ~e.synack_waiting
BY Zenon DEF SynackInfo, DAGinfo

\* A DATA packet moves expected_seqnum by one or leaves the socket alone, and
\* the ACK that answers it carries the new expected_seqnum.
LEMMA DataFacts ==
    ASSUME NEW d \in DAGinfo, NEW seq \in Nat
    PROVE  LET e == DataInfo(d, seq) IN
           /\ e \in DAGinfo
           /\ e.expected_seqnum = d.expected_seqnum + (IF InSequence(d, seq) THEN 1 ELSE 0)
           /\ CumulativeAck(d, seq) = e.expected_seqnum
           /\ e.seq_num = d.seq_num /\ e.next_seqnum = d.next_seqnum /\ e.base = d.base
           /\ e.sent_pkt = d.sent_pkt
           /\ e.timer_on = d.timer_on
           /\ e.dataack_waiting = d.dataack_waiting /\ e.synack_waiting = d.synack_waiting
BY DEF DataInfo, CumulativeAck, InSequence, DAGinfo

\* An ACK sets base to its number and clears slots; it stops the timer only
\* when it acknowledges everything sent.
LEMMA AckFacts ==
    ASSUME NEW d \in DAGinfo, NEW ack \in Nat
    PROVE  LET e == AckInfo(d, ack) IN
           /\ e \in DAGinfo
           /\ e.base = ack
           /\ e.seq_num = d.seq_num /\ e.next_seqnum = d.next_seqnum
           /\ e.expected_seqnum = d.expected_seqnum
           /\ \A i \in Slots : e.sent_pkt[i] =
                  IF i \in AckedSlots(d, ack) THEN NULL ELSE d.sent_pkt[i]
           /\ (ack # d.next_seqnum /\ d.timer_on) => e.timer_on
           /\ (ack # d.next_seqnum /\ d.dataack_waiting) => e.dataack_waiting
           /\ e.synack_waiting = d.synack_waiting
BY ZenonT(30), SMT DEF AckInfo, AllAcked, DAGinfo

\* A retransmission resends packets that are in their slots, and changes only
\* timer fields; it keeps the timer armed if it resent anything.
LEMMA DataTimeoutFacts ==
    ASSUME NEW d \in DAGinfo
    PROVE  LET e == DataTimeoutInfo(d) IN
           /\ e \in DAGinfo
           /\ e.seq_num = d.seq_num /\ e.next_seqnum = d.next_seqnum
           /\ e.base = d.base /\ e.expected_seqnum = d.expected_seqnum
           /\ e.sent_pkt = d.sent_pkt
           /\ Retransmitted(d) # {} =>
                 e.timer_on = d.timer_on /\ e.dataack_waiting = d.dataack_waiting
           /\ e.synack_waiting = d.synack_waiting
           /\ \A p \in Retransmitted(d) : p \in Packet /\ \E i \in Slots : p = d.sent_pkt[i]
<1>1. \A p \in Buffered(d) : p \in Packet /\ \E i \in Slots : p = d.sent_pkt[i]
  <2>1. \A i \in d.base .. d.next_seqnum - 1 : i % MAX_WIN_SIZE \in Slots
    BY SlotIndex DEF DAGinfo
  <2> QED BY Zenon, <2>1 DEF Buffered, DAGinfo
<1>2. \A p \in Retransmitted(d) : p \in Packet /\ \E i \in Slots : p = d.sent_pkt[i]
  BY Zenon, <1>1 DEF Retransmitted
<1>3. DataTimeoutInfo(d) \in DAGinfo
  <2>1. [d EXCEPT !.num_retransmit_tries = @ + 1] \in DAGinfo
    BY DEF DAGinfo
  <2>2. [d EXCEPT !.timer_on = FALSE, !.dataack_waiting = FALSE,
                  !.num_retransmit_tries = 0] \in DAGinfo
    BY Zenon DEF DAGinfo
  <2> QED BY Zenon, <2>1, <2>2 DEF DataTimeoutInfo
<1> QED BY ZenonT(30), <1>2, <1>3 DEF DataTimeoutInfo, DAGinfo

-------------------------------------------------------------------------------
(* The connection *)

\* Packet p is one that an application's history sq explains.
Explains(sq, p) == p.seq < Len(sq) /\ p.data = sq[p.seq + 1]

CountersMatch ==
    \A s \in Side : /\ dag[s].seq_num = Len(sent[s])
                    /\ dag[s].next_seqnum = Len(sent[s])
                    /\ dag[s].expected_seqnum = Len(rcvd[s])

InFlightIsSent == \A s \in Side : \A p \in data[s] : Explains(sent[s], p)

SlotsAreSent ==
    \A s \in Side : \A i \in Slots :
        dag[s].sent_pkt[i] # NULL => Explains(sent[s], dag[s].sent_pkt[i])

AcksAreDelivered == \A s \in Side : \A n \in acks[s] : n <= Len(rcvd[s])

IndInv == /\ TypeOK
          /\ CountersMatch
          /\ InFlightIsSent
          /\ SlotsAreSent
          /\ AcksAreDelivered
          /\ InOrderDelivery
          /\ AckedIsDelivered

-------------------------------------------------------------------------------
\* A connection has two ends, each the peer of the other.
LEMMA PeerFacts ==
    ASSUME NEW s \in Side
    PROVE  Peer(s) \in Side /\ Peer(Peer(s)) = s /\ Peer(s) # s
BY Zenon DEF Peer, Side

\* What handing one more payload to Xsend, or up to an application, does to a
\* history.
LEMMA AppendFacts ==
    ASSUME NEW sq \in Seq(Data), NEW x \in Data
    PROVE  /\ Append(sq, x) \in Seq(Data)
           /\ Len(Append(sq, x)) = Len(sq) + 1
           /\ \A i \in 1 .. Len(sq) : Append(sq, x)[i] = sq[i]
           /\ Append(sq, x)[Len(sq) + 1] = x
OBVIOUS

\* A longer history still explains a packet.
LEMMA ExplainsAppend ==
    ASSUME NEW sq \in Seq(Data), NEW x \in Data, NEW p \in Packet, Explains(sq, p)
    PROVE  Explains(Append(sq, x), p)
<1>1. p.seq \in Nat /\ p.seq + 1 \in 1 .. Len(sq)
  BY DEF Packet, Explains
<1> QED BY <1>1, AppendFacts DEF Explains

-------------------------------------------------------------------------------
\* The connection starts out explained: nothing sent, nothing received.
LEMMA InitIndInv == Init => IndInv
<1> SUFFICES ASSUME Init PROVE IndInv
  OBVIOUS
<1>1. \A s \in Side :
         /\ dag[s] \in DAGinfo
         /\ dag[s].seq_num = 0 /\ dag[s].next_seqnum = 0
         /\ dag[s].expected_seqnum = 0 /\ dag[s].base = 0
         /\ dag[s].sent_pkt = [i \in Slots |-> NULL]
  <2>1. "SID_client" \in XIDs /\ "SID_server" \in XIDs
    BY Zenon, ServiceIDs
  <2> TAKE s \in Side
  <2>2. CASE s = "client"
    BY <2>1, <2>2, FreshSocket DEF Init, Side
  <2>3. CASE s = "server"
    BY Zenon, <2>1, <2>3, FreshSocket DEF Init, Side
  <2> QED BY Zenon, <2>2, <2>3 DEF Side
<1>2. TypeOK
  <2>1. dag \in [Side -> DAGinfo]
    BY Zenon, <1>1 DEF Init
  <2>2. << >> \in Seq(Data) /\ Len(<< >>) = 0
    OBVIOUS
  <2> QED BY <2>1, <2>2, BoundsAssumption DEF Init, TypeOK
<1>3. \A s \in Side : Len(sent[s]) = 0 /\ Len(rcvd[s]) = 0
  BY Zenon DEF Init
<1>4. CountersMatch /\ AckedIsDelivered /\ InOrderDelivery
  BY <1>1, <1>3, PeerFacts DEF CountersMatch, AckedIsDelivered, InOrderDelivery
<1>5. InFlightIsSent /\ AcksAreDelivered
  BY Zenon DEF Init, InFlightIsSent, AcksAreDelivered
<1>6. SlotsAreSent
  BY Zenon, <1>1 DEF SlotsAreSent
<1> QED BY Zenon, <1>2, <1>4, <1>5, <1>6 DEF IndInv

-------------------------------------------------------------------------------
\* The timer fields of a socket are free to change: a step that leaves counters,
\* slots and histories alone, and puts no unexplained packet or new ACK into the
\* network, preserves the invariant.
LEMMA QuietStep ==
    ASSUME IndInv, TypeOK', UNCHANGED <<sent, rcvd>>,
           \A s \in Side : /\ dag'[s].seq_num = dag[s].seq_num
                           /\ dag'[s].next_seqnum = dag[s].next_seqnum
                           /\ dag'[s].expected_seqnum = dag[s].expected_seqnum
                           /\ dag'[s].base = dag[s].base
                           /\ dag'[s].sent_pkt = dag[s].sent_pkt,
           \A s \in Side : \A p \in data'[s] : Explains(sent[s], p),
           \A s \in Side : acks'[s] \subseteq acks[s]
    PROVE  IndInv'
<1>1. CountersMatch'
  BY DEF IndInv, CountersMatch
<1>2. InFlightIsSent'
  BY Zenon DEF InFlightIsSent
<1>3. SlotsAreSent'
  BY Zenon DEF IndInv, SlotsAreSent
<1>4. AcksAreDelivered'
  BY Zenon DEF IndInv, AcksAreDelivered
<1>5. InOrderDelivery'
  BY Zenon DEF IndInv, InOrderDelivery
<1>6. AckedIsDelivered'
  BY Zenon DEF IndInv, AckedIsDelivered
<1> QED BY Zenon, <1>1, <1>2, <1>3, <1>4, <1>5, <1>6 DEF IndInv

\* Xclose only arms the timer.
LEMMA XcloseStep ==
    ASSUME IndInv, NEW s \in Side, Xclose(s)
    PROVE  IndInv'
<1>1. dag \in [Side -> DAGinfo] /\ dag[s] \in DAGinfo
  BY Zenon DEF IndInv, TypeOK
<1>2. TypeOK'
  BY Zenon, <1>1, XcloseFacts DEF IndInv, TypeOK, Xclose
<1>3. \A t \in Side : \A p \in data'[t] : Explains(sent[t], p)
  BY Zenon DEF IndInv, InFlightIsSent, Xclose
<1> QED BY <1>1, <1>2, <1>3, XcloseFacts, QuietStep DEF Xclose

\* A SYNACK only stops the timer.
LEMMA RecvSYNACKStep ==
    ASSUME IndInv, RecvSYNACK
    PROVE  IndInv'
<1>1. "client" \in Side /\ dag \in [Side -> DAGinfo] /\ dag["client"] \in DAGinfo
  BY Zenon DEF IndInv, TypeOK, Side
<1>2. synacks' \in 0 .. DupSynAcks
  BY BoundsAssumption DEF IndInv, TypeOK, RecvSYNACK
<1>3. TypeOK'
  BY Zenon, <1>1, <1>2, SynackFacts DEF IndInv, TypeOK, RecvSYNACK
<1>4. \A t \in Side : \A p \in data'[t] : Explains(sent[t], p)
  BY Zenon DEF IndInv, InFlightIsSent, RecvSYNACK
<1> QED BY <1>1, <1>3, <1>4, SynackFacts, QuietStep DEF RecvSYNACK

\* run_timer resends only what is in the slots, and the slots are explained.
LEMMA TimerDataStep ==
    ASSUME IndInv, NEW s \in Side, TimerData(s)
    PROVE  IndInv'
<1>1. dag \in [Side -> DAGinfo] /\ dag[s] \in DAGinfo
  BY DEF IndInv, TypeOK
<1>2. \A p \in Retransmitted(dag[s]) : p \in Packet /\ Explains(sent[s], p)
  <2> TAKE p \in Retransmitted(dag[s])
  <2>1. PICK i \in Slots : p = dag[s].sent_pkt[i]
    BY Zenon, <1>1, DataTimeoutFacts
  <2>2. p \in Packet /\ p # NULL
    BY Zenon, <1>1, DataTimeoutFacts, NullAssumption
  <2> QED BY Zenon, <2>1, <2>2 DEF IndInv, SlotsAreSent
<1>3. TypeOK'
  <2>1. dag' \in [Side -> DAGinfo]
    BY Zenon, <1>1, DataTimeoutFacts DEF TimerData
  <2>2. data' \in [Side -> SUBSET Packet]
    BY Zenon, <1>2 DEF IndInv, TypeOK, TimerData
  <2>3. gaveup' \in [Side -> BOOLEAN]
    BY Zenon DEF IndInv, TypeOK, TimerData
  <2> QED BY Zenon, <2>1, <2>2, <2>3 DEF IndInv, TypeOK, TimerData
<1>4. \A t \in Side : \A p \in data'[t] : Explains(sent[t], p)
  BY Zenon, <1>2 DEF IndInv, TypeOK, InFlightIsSent, TimerData
<1> QED BY <1>1, <1>3, <1>4, DataTimeoutFacts, QuietStep DEF TimerData

\* Tearing a socket down leaves what it sent and received as it is.
LEMMA TimerTeardownStep ==
    ASSUME IndInv, NEW s \in Side, TimerTeardown(s)
    PROVE  IndInv'
<1>1. dag \in [Side -> DAGinfo] /\ dag[s] \in DAGinfo
  BY DEF IndInv, TypeOK
<1>2. dag' = [dag EXCEPT ![s] = [dag[s] EXCEPT !.timer_on = FALSE]]
  BY Zenon DEF TimerTeardown
<1>3. [dag[s] EXCEPT !.timer_on = FALSE] \in DAGinfo
  BY Zenon, <1>1 DEF DAGinfo
<1>4. TypeOK'
  BY <1>1, <1>2, <1>3 DEF IndInv, TypeOK, TimerTeardown
<1>5. \A t \in Side : \A p \in data'[t] : Explains(sent[t], p)
  BY Zenon DEF IndInv, InFlightIsSent, TimerTeardown
<1>6. \A t \in Side : /\ dag'[t].seq_num = dag[t].seq_num
                      /\ dag'[t].next_seqnum = dag[t].next_seqnum
                      /\ dag'[t].expected_seqnum = dag[t].expected_seqnum
                      /\ dag'[t].base = dag[t].base
                      /\ dag'[t].sent_pkt = dag[t].sent_pkt
  BY Zenon, <1>1, <1>2 DEF DAGinfo
<1> QED BY Zenon, <1>4, <1>5, <1>6, QuietStep DEF TimerTeardown

\* Losing a packet takes nothing out of the histories.
LEMMA LoseStep ==
    ASSUME IndInv, NEW s \in Side,
           (\E p \in data[s] : LoseDATA(s, p)) \/ (\E n \in acks[s] : LoseACK(s, n))
    PROVE  IndInv'
<1>1. TypeOK'
  <2>1. losses' \in 0 .. MaxLosses
    BY BoundsAssumption DEF IndInv, TypeOK, LoseDATA, LoseACK
  <2>2. data' \in [Side -> SUBSET Packet] /\ acks' \in [Side -> SUBSET Nat]
    BY ZenonT(30), SMT DEF IndInv, TypeOK, LoseDATA, LoseACK
  <2>3. UNCHANGED <<dag, active, synacks, sent, rcvd, closed, gaveup>>
    BY Zenon DEF LoseDATA, LoseACK
  <2> QED BY Zenon, <2>1, <2>2, <2>3 DEF IndInv, TypeOK
<1>2. \A t \in Side : data'[t] \subseteq data[t] /\ acks'[t] \subseteq acks[t]
  BY ZenonT(30), SMT DEF IndInv, TypeOK, LoseDATA, LoseACK
<1>3. UNCHANGED <<dag, sent, rcvd>>
  BY Zenon DEF LoseDATA, LoseACK
<1>4. \A t \in Side : \A p \in data'[t] : Explains(sent[t], p)
  BY Zenon, <1>2 DEF IndInv, InFlightIsSent
<1> QED BY Zenon, <1>1, <1>2, <1>3, <1>4, QuietStep

-------------------------------------------------------------------------------
\* Xsend puts one packet into its slot and into the network, and the history it
\* extends explains that packet and every older one.
LEMMA XsendStep ==
    ASSUME IndInv, NEW s \in Side, NEW payload \in Data, Xsend(s, payload)
    PROVE  IndInv'
<1> DEFINE q == NextPacket(dag[s], payload)
<1>1. dag \in [Side -> DAGinfo] /\ dag[s] \in DAGinfo
  BY Zenon DEF IndInv, TypeOK
<1>2. /\ sent \in [Side -> Seq(Data)] /\ rcvd \in [Side -> Seq(Data)]
      /\ sent[s] \in Seq(Data)
      /\ sent' = [sent EXCEPT ![s] = Append(sent[s], payload)]
      /\ sent'[s] = Append(sent[s], payload)
  BY Zenon DEF IndInv, TypeOK, Xsend
<1>3. q \in Packet /\ Explains(sent'[s], q)
  <2>1. q \in Packet
    BY Zenon, <1>1, XsendFacts
  <2>2. q.seq = Len(sent[s]) /\ q.data = payload
    BY Zenon DEF NextPacket, IndInv, CountersMatch
  <2>3. Len(sent'[s]) = Len(sent[s]) + 1 /\ sent'[s][Len(sent[s]) + 1] = payload
    BY Zenon, <1>2, AppendFacts
  <2>4. Len(sent[s]) \in Nat
    BY <1>2
  <2> HIDE DEF q
  <2> QED BY <2>1, <2>2, <2>3, <2>4 DEF Explains
<1>4. /\ dag'[s] = XsendInfo(dag[s], payload)
      /\ \A t \in Side : t # s => dag'[t] = dag[t] /\ sent'[t] = sent[t] /\ data'[t] = data[t]
      /\ data'[s] = data[s] \cup {q}
      /\ UNCHANGED <<rcvd, acks>>
  BY Zenon, <1>1, <1>2 DEF IndInv, TypeOK, Xsend
<1>5. LET e == XsendInfo(dag[s], payload) IN
      /\ e.seq_num = dag[s].seq_num + 1 /\ e.next_seqnum = dag[s].next_seqnum + 1
      /\ e.base = dag[s].base /\ e.expected_seqnum = dag[s].expected_seqnum
  BY Zenon, <1>1, XsendFacts, Zenon
<1>6. TypeOK'
  <2>1. dag' \in [Side -> DAGinfo]
    BY Zenon, <1>1, XsendFacts DEF Xsend
  <2>2. data' \in [Side -> SUBSET Packet]
    BY Zenon, <1>3 DEF IndInv, TypeOK, Xsend
  <2>3. sent' \in [Side -> Seq(Data)]
    BY Zenon, <1>2, AppendFacts
  <2>4. \A t \in Side : Len(sent'[t]) <= MaxSends[t]
    <3>1. Len(sent'[s]) = Len(sent[s]) + 1 /\ Len(sent[s]) \in Nat
      BY <1>2, AppendFacts
    <3>2. Len(sent[s]) < MaxSends[s] /\ MaxSends[s] \in Nat
      BY Zenon, BoundsAssumption DEF Xsend
    <3>3. Len(sent'[s]) <= MaxSends[s]
      BY <3>1, <3>2
    <3>4. \A t \in Side : Len(sent[t]) <= MaxSends[t]
      BY Zenon DEF IndInv, TypeOK
    <3> QED BY Zenon, <1>4, <3>3, <3>4
  <2> QED BY Zenon, <2>1, <2>2, <2>3, <2>4 DEF IndInv, TypeOK, Xsend
<1> HIDE DEF q
<1>7. CountersMatch'
  <2>1. /\ dag'[s].seq_num = dag[s].seq_num + 1
        /\ dag'[s].next_seqnum = dag[s].next_seqnum + 1
        /\ dag'[s].expected_seqnum = dag[s].expected_seqnum
    BY Zenon, <1>4, <1>5
  <2>2. Len(sent'[s]) = Len(sent[s]) + 1
    BY Zenon, <1>2, AppendFacts
  <2> QED BY SMTT(30), <1>4, <2>1, <2>2 DEF IndInv, CountersMatch
<1>8. InFlightIsSent'
  <2>1. \A p \in data[s] : p \in Packet /\ Explains(sent[s], p)
    BY Zenon DEF IndInv, TypeOK, InFlightIsSent
  <2>2. \A p \in data'[s] : Explains(sent'[s], p)
    BY Zenon, <1>2, <1>3, <1>4, <2>1, ExplainsAppend
  <2> QED BY Zenon, <1>4, <2>2 DEF IndInv, InFlightIsSent
<1>9. SlotsAreSent'
  <2> SUFFICES ASSUME NEW i \in Slots, dag'[s].sent_pkt[i] # NULL
               PROVE  Explains(sent'[s], dag'[s].sent_pkt[i])
    BY ZenonT(60), <1>4 DEF IndInv, SlotsAreSent
  <2>1. dag[s].sent_pkt \in [Slots -> Packet \cup {NULL}]
    BY Zenon, <1>1 DEF DAGinfo
  <2>2. dag'[s].sent_pkt = [dag[s].sent_pkt EXCEPT ![dag[s].seq_num % MAX_WIN_SIZE] = q]
    BY <1>1, <1>4, XsendFacts DEF q
  <2>3. CASE dag'[s].sent_pkt[i] = q
    BY Zenon, <1>3, <2>3
  <2>4. CASE dag'[s].sent_pkt[i] = dag[s].sent_pkt[i]
    <3>1. dag[s].sent_pkt[i] \in Packet /\ Explains(sent[s], dag[s].sent_pkt[i])
      BY Zenon, <2>1, <2>4 DEF IndInv, SlotsAreSent
    <3> QED BY Zenon, <1>2, <2>4, <3>1, ExplainsAppend
  <2> QED BY Zenon, <2>1, <2>2, <2>3, <2>4
<1>10. AcksAreDelivered'
  BY Zenon, <1>4 DEF IndInv, AcksAreDelivered
<1>11. InOrderDelivery'
  <2> SUFFICES ASSUME NEW t \in Side
               PROVE  /\ Len(rcvd[t]) <= Len(sent'[Peer(t)])
                      /\ \A i \in 1 .. Len(rcvd[t]) : rcvd[t][i] = sent'[Peer(t)][i]
    BY Zenon, <1>4 DEF InOrderDelivery
  <2>1. /\ Len(rcvd[t]) \in Nat /\ Len(sent[Peer(t)]) \in Nat
        /\ Len(rcvd[t]) <= Len(sent[Peer(t)])
        /\ \A i \in 1 .. Len(rcvd[t]) : rcvd[t][i] = sent[Peer(t)][i]
    BY <1>2, PeerFacts DEF IndInv, InOrderDelivery
  <2>2. CASE Peer(t) = s
    BY <1>2, <2>1, <2>2, AppendFacts
  <2>3. CASE Peer(t) # s
    BY Zenon, <1>4, <2>1, <2>3, PeerFacts
  <2> QED BY Zenon, <2>2, <2>3
<1>12. AckedIsDelivered'
  <2>1. dag'[s].base = dag[s].base
    BY Zenon, <1>4, <1>5
  <2> QED BY Zenon, <1>4, <2>1 DEF IndInv, AckedIsDelivered
<1> QED BY Zenon, <1>6, <1>7, <1>8, <1>9, <1>10, <1>11, <1>12 DEF IndInv

\* A packet in sequence extends rcvd by the payload its number stands for, since
\* the packet is explained; any other packet only causes an ACK.
LEMMA RecvDATAStep ==
    ASSUME IndInv, NEW s \in Side, NEW p \in data[Peer(s)], RecvDATA(s, p)
    PROVE  IndInv'
<1>1. dag \in [Side -> DAGinfo] /\ dag[s] \in DAGinfo
  BY Zenon DEF IndInv, TypeOK
<1>2. /\ p \in Packet /\ p.seq \in Nat /\ p.data \in Data
      /\ Explains(sent[Peer(s)], p)
  BY PeerFacts DEF IndInv, TypeOK, InFlightIsSent, Packet
<1>3. /\ sent \in [Side -> Seq(Data)] /\ rcvd \in [Side -> Seq(Data)]
      /\ sent[Peer(s)] \in Seq(Data) /\ rcvd[s] \in Seq(Data)
      /\ dag[s].expected_seqnum = Len(rcvd[s])
  BY Zenon, PeerFacts DEF IndInv, TypeOK, CountersMatch
<1> DEFINE e == DataInfo(dag[s], p.seq)
<1>4. /\ e \in DAGinfo
      /\ e.seq_num = dag[s].seq_num /\ e.next_seqnum = dag[s].next_seqnum
      /\ e.base = dag[s].base /\ e.sent_pkt = dag[s].sent_pkt
      /\ CumulativeAck(dag[s], p.seq) = e.expected_seqnum
  BY Zenon, <1>1, <1>2, DataFacts
<1>5. /\ rcvd'[s] \in Seq(Data)
      /\ e.expected_seqnum = Len(rcvd'[s])
      /\ Len(rcvd[s]) <= Len(rcvd'[s])
      /\ Len(rcvd'[s]) <= Len(sent[Peer(s)])
      /\ \A i \in 1 .. Len(rcvd'[s]) : rcvd'[s][i] = sent[Peer(s)][i]
  <2>1. /\ Len(rcvd[s]) <= Len(sent[Peer(s)])
        /\ \A i \in 1 .. Len(rcvd[s]) : rcvd[s][i] = sent[Peer(s)][i]
    BY Zenon DEF IndInv, InOrderDelivery
  <2>2. CASE InSequence(dag[s], p.seq)
    <3>1. rcvd'[s] = Append(rcvd[s], p.data) /\ p.seq = Len(rcvd[s])
      BY Zenon, <1>3, <2>2 DEF RecvDATA, InSequence
    <3>2. p.data = sent[Peer(s)][Len(rcvd[s]) + 1] /\ Len(rcvd[s]) < Len(sent[Peer(s)])
      BY Zenon, <1>2, <3>1 DEF Explains
    <3>3. e.expected_seqnum = Len(rcvd[s]) + 1
      <4>1. e.expected_seqnum = dag[s].expected_seqnum + 1
        BY Zenon, <1>1, <1>2, <2>2, DataFacts
      <4> QED BY Zenon, <1>3, <4>1
    <3> HIDE DEF e
    <3> QED BY SMTT(30), <1>2, <1>3, <2>1, <3>1, <3>2, <3>3, AppendFacts
  <2>3. CASE ~InSequence(dag[s], p.seq)
    <3>1. rcvd' = rcvd
      BY Zenon, <2>3 DEF RecvDATA
    <3>2. e.expected_seqnum = Len(rcvd[s])
      <4>1. e.expected_seqnum = dag[s].expected_seqnum + 0
        BY Zenon, <1>1, <1>2, <2>3, DataFacts
      <4>2. dag[s].expected_seqnum \in Nat
        BY Zenon, <1>1 DEF DAGinfo
      <4> HIDE DEF e
      <4> QED BY <1>3, <4>1, <4>2
    <3> HIDE DEF e
    <3> QED BY <1>3, <2>1, <3>1, <3>2
  <2> QED BY Zenon, <2>2, <2>3
<1>6. /\ dag'[s] = e
      /\ \A t \in Side : t # s => dag'[t] = dag[t] /\ rcvd'[t] = rcvd[t] /\ acks'[t] = acks[t]
      /\ acks'[s] = acks[s] \cup {e.expected_seqnum}
      /\ UNCHANGED <<sent, data>>
  BY Zenon, <1>1, <1>3, <1>4 DEF IndInv, TypeOK, RecvDATA
<1>7. dag' \in [Side -> DAGinfo]
  BY Zenon, <1>1, <1>4 DEF RecvDATA
<1> HIDE DEF e
<1>8. TypeOK'
  <2>1. rcvd' \in [Side -> Seq(Data)]
    BY Zenon, <1>2, <1>3, AppendFacts DEF RecvDATA
  <2>2. acks' \in [Side -> SUBSET Nat]
    <3>1. e.expected_seqnum \in Nat
      BY Zenon, <1>4 DEF DAGinfo
    <3> QED BY SMTT(30), <1>4, <3>1 DEF IndInv, TypeOK, RecvDATA
  <2> QED BY Zenon, <1>7, <2>1, <2>2 DEF IndInv, TypeOK, RecvDATA
<1>9. CountersMatch'
  BY SMTT(30), <1>4, <1>5, <1>6 DEF IndInv, CountersMatch
<1>10. InFlightIsSent'
  BY Zenon, <1>6 DEF IndInv, InFlightIsSent
<1>11. SlotsAreSent'
  BY <1>4, <1>6 DEF IndInv, SlotsAreSent
<1>12. AcksAreDelivered'
  <2>1. \A n \in acks[s] : n \in Nat /\ n <= Len(rcvd[s])
    BY Zenon DEF IndInv, TypeOK, AcksAreDelivered
  <2>2. \A n \in acks'[s] : n <= Len(rcvd'[s])
    BY <1>3, <1>5, <1>6, <2>1
  <2> QED BY Zenon, <1>6, <2>2 DEF IndInv, AcksAreDelivered
<1>13. InOrderDelivery'
  <2> SUFFICES ASSUME NEW t \in Side
               PROVE  /\ Len(rcvd'[t]) <= Len(sent'[Peer(t)])
                      /\ \A i \in 1 .. Len(rcvd'[t]) : rcvd'[t][i] = sent'[Peer(t)][i]
    BY Zenon DEF InOrderDelivery
  <2>1. CASE t = s
    BY Zenon, <1>5, <1>6, <2>1
  <2>2. CASE t # s
    <3>1. rcvd'[t] = rcvd[t] /\ sent' = sent
      BY Zenon, <1>6, <2>2
    <3>2. /\ Len(rcvd[t]) <= Len(sent[Peer(t)])
          /\ \A i \in 1 .. Len(rcvd[t]) : rcvd[t][i] = sent[Peer(t)][i]
      BY Zenon DEF IndInv, InOrderDelivery
    <3> QED BY Zenon, <3>1, <3>2
  <2> QED BY Zenon, <2>1, <2>2
<1>14. AckedIsDelivered'
  <2> SUFFICES ASSUME NEW t \in Side PROVE dag'[t].base <= Len(rcvd'[Peer(t)])
    BY Zenon DEF AckedIsDelivered
  <2>1. dag'[t].base = dag[t].base /\ dag[t].base \in Nat
    BY Zenon, <1>1, <1>4, <1>6 DEF DAGinfo
  <2>2. dag[t].base <= Len(rcvd[Peer(t)])
    BY Zenon DEF IndInv, AckedIsDelivered
  <2>3. CASE Peer(t) = s
    BY <1>3, <1>5, <2>1, <2>2, <2>3
  <2>4. CASE Peer(t) # s
    BY Zenon, <1>6, <2>1, <2>2, <2>4, PeerFacts
  <2> QED BY Zenon, <2>3, <2>4
<1> QED BY Zenon, <1>8, <1>9, <1>10, <1>11, <1>12, <1>13, <1>14 DEF IndInv

\* An ACK moves base to a number the peer has delivered and only empties slots.
LEMMA RecvACKStep ==
    ASSUME IndInv, NEW s \in Side, NEW n \in acks[Peer(s)], RecvACK(s, n)
    PROVE  IndInv'
<1>1. dag \in [Side -> DAGinfo] /\ dag[s] \in DAGinfo
  BY Zenon DEF IndInv, TypeOK
<1>2. n \in Nat /\ n <= Len(rcvd[Peer(s)])
  BY Zenon, PeerFacts DEF IndInv, TypeOK, AcksAreDelivered
<1> DEFINE e == AckInfo(dag[s], n)
<1>3. /\ e \in DAGinfo /\ e.base = n
      /\ e.seq_num = dag[s].seq_num /\ e.next_seqnum = dag[s].next_seqnum
      /\ e.expected_seqnum = dag[s].expected_seqnum
      /\ \A i \in Slots : e.sent_pkt[i] = NULL \/ e.sent_pkt[i] = dag[s].sent_pkt[i]
  <2>1. /\ e \in DAGinfo /\ e.base = n
        /\ e.seq_num = dag[s].seq_num /\ e.next_seqnum = dag[s].next_seqnum
        /\ e.expected_seqnum = dag[s].expected_seqnum
        /\ \A i \in Slots : e.sent_pkt[i] = IF i \in AckedSlots(dag[s], n) THEN NULL
                                                               ELSE dag[s].sent_pkt[i]
    BY <1>1, <1>2, AckFacts, ZenonT(30)
  <2> HIDE DEF e
  <2> QED BY Zenon, <2>1
<1>4. /\ dag' = [dag EXCEPT ![s] = e]
      /\ UNCHANGED <<active, data, acks, synacks, sent, rcvd, closed, gaveup, losses>>
  BY Zenon DEF RecvACK
<1> HIDE DEF e
<1>5. TypeOK'
  BY Zenon, <1>1, <1>3, <1>4 DEF IndInv, TypeOK
<1>6. CountersMatch'
  BY Zenon, <1>1, <1>3, <1>4 DEF IndInv, CountersMatch
<1>7. InFlightIsSent' /\ AcksAreDelivered' /\ InOrderDelivery'
  BY Zenon, <1>4 DEF IndInv, InFlightIsSent, AcksAreDelivered, InOrderDelivery
<1>8. SlotsAreSent'
  BY Zenon, <1>1, <1>3, <1>4 DEF IndInv, SlotsAreSent
<1>9. AckedIsDelivered'
  BY Zenon, <1>1, <1>2, <1>3, <1>4 DEF IndInv, AckedIsDelivered
<1> QED BY Zenon, <1>5, <1>6, <1>7, <1>8, <1>9 DEF IndInv

-------------------------------------------------------------------------------
\* Every step preserves the invariant.
LEMMA NextIndInv == IndInv /\ [Next]_vars => IndInv'
<1> SUFFICES ASSUME IndInv, [Next]_vars PROVE IndInv'
  OBVIOUS
<1>1. ASSUME NEW s \in Side, NEW payload \in Data, Xsend(s, payload) PROVE IndInv'
  BY Zenon, <1>1, XsendStep
<1>2. ASSUME NEW s \in Side, Xclose(s) PROVE IndInv'
  BY Zenon, <1>2, XcloseStep
<1>3. ASSUME NEW s \in Side, NEW p \in data[Peer(s)], RecvDATA(s, p) PROVE IndInv'
  BY Zenon, <1>3, RecvDATAStep
<1>4. ASSUME NEW s \in Side, NEW n \in acks[Peer(s)], RecvACK(s, n) PROVE IndInv'
  BY Zenon, <1>4, RecvACKStep
<1>5. ASSUME NEW s \in Side, TimerData(s) PROVE IndInv'
  BY <1>5, TimerDataStep
<1>6. ASSUME NEW s \in Side, TimerTeardown(s) PROVE IndInv'
  BY <1>6, TimerTeardownStep
<1>7. ASSUME NEW s \in Side,
             (\E p \in data[s] : LoseDATA(s, p)) \/ (\E n \in acks[s] : LoseACK(s, n))
      PROVE  IndInv'
  BY Zenon, <1>7, LoseStep
<1>8. CASE RecvSYNACK
  BY Zenon, <1>8, RecvSYNACKStep
<1>9. CASE UNCHANGED vars
  BY Zenon, <1>9 DEF vars, IndInv, TypeOK, CountersMatch, InFlightIsSent, SlotsAreSent,
              AcksAreDelivered, InOrderDelivery, AckedIsDelivered
<1> QED BY Zenon, <1>1, <1>2, <1>3, <1>4, <1>5, <1>6, <1>7, <1>8, <1>9 DEF Next

\* The invariant holds in every state the handlers and the timer lead to.
LEMMA Invariance == Spec => []IndInv
BY InitIndInv, NextIndInv, PTL DEF Spec

\* The handlers keep every field and every packet well formed.
THEOREM TypeCorrect == Spec => []TypeOK
<1>1. IndInv => TypeOK
  BY Zenon DEF IndInv
<1> QED BY <1>1, Invariance, PTL

\* For every window size, payload set and number of sends, losses and duplicate
\* SYNACKs: an application is given a prefix of what its peer sent.
THEOREM DeliveryInOrder == Spec => []InOrderDelivery
<1>1. IndInv => InOrderDelivery
  BY Zenon DEF IndInv
<1> QED BY <1>1, Invariance, PTL

\* The sender's base never counts a payload the peer's application lacks.
THEOREM AcksSound == Spec => []AckedIsDelivered
<1>1. IndInv => AckedIsDelivered
  BY Zenon DEF IndInv
<1> QED BY <1>1, Invariance, PTL

\* The Go-Back-N handlers implement a pair of reliable streams: an Xsend maps to
\* Send, an in-sequence DATA packet to Deliver, everything else to a stutter.
THEOREM Refinement == Spec => ImplementsReliableStream
<1>1. Init => Stream!Init
  BY Zenon DEF Init, Stream!Init
<1>2. IndInv /\ [Next]_vars => [Stream!Next]_<<sent, rcvd>>
  <2> SUFFICES ASSUME IndInv, [Next]_vars, ~UNCHANGED <<sent, rcvd>>
               PROVE  Stream!Next
    OBVIOUS
  <2>1. ASSUME NEW s \in Side, NEW payload \in Data, Xsend(s, payload)
        PROVE  Stream!Send(s, payload)
    BY Zenon, <2>1 DEF Xsend, Stream!Send
  <2>2. ASSUME NEW s \in Side, NEW p \in data[Peer(s)], RecvDATA(s, p), rcvd' # rcvd
        PROVE  Stream!Deliver(s)
    <3>1. /\ InSequence(dag[s], p.seq)
          /\ rcvd' = [rcvd EXCEPT ![s] = Append(rcvd[s], p.data)]
          /\ UNCHANGED sent
      BY Zenon, <2>2 DEF RecvDATA
    <3>2. p.seq = Len(rcvd[s])
      BY Zenon, <3>1 DEF InSequence, IndInv, CountersMatch
    <3>3. Explains(sent[Peer(s)], p)
      BY Zenon, PeerFacts DEF IndInv, InFlightIsSent
    <3>4. Len(rcvd[s]) < Len(sent[Peer(s)]) /\ p.data = sent[Peer(s)][Len(rcvd[s]) + 1]
      BY Zenon, <3>2, <3>3 DEF Explains
    <3> QED BY Zenon, <3>1, <3>4 DEF Stream!Deliver
  <2>3. \/ \E s \in Side, payload \in Data : Xsend(s, payload)
        \/ \E s \in Side : \E p \in data[Peer(s)] : RecvDATA(s, p) /\ rcvd' # rcvd
    BY ZenonT(30), SMT DEF Next, vars, Xclose, RecvACK, RecvDATA, RecvSYNACK, TimerData,
           TimerTeardown, LoseDATA, LoseACK
  <2> QED BY Zenon, <2>1, <2>2, <2>3 DEF Stream!Next
<1> QED BY <1>1, <1>2, Invariance, PTL DEF Spec, ImplementsReliableStream, Stream!Spec

-------------------------------------------------------------------------------
(* Nothing that still has to be delivered is dropped from the buffer or left  *)
(* without a timer, as long as the window has not been overrun.               *)

Recoverable == IndInv /\ UndeliveredIsBuffered /\ UndeliveredIsTimed

\* What the invariant says of one side: its undelivered packets are numbered
\* from base or later, below next_seqnum, and sit in slots of their own.
LEMMA UndeliveredFacts ==
    ASSUME IndInv, NEW s \in Side, NEW i \in Undelivered(s)
    PROVE  /\ i \in Nat /\ Len(sent[s]) \in Nat /\ Len(rcvd[Peer(s)]) \in Nat
           /\ Len(rcvd[Peer(s)]) <= i /\ i < Len(sent[s])
           /\ dag[s] \in DAGinfo
           /\ dag[s].base \in Nat /\ dag[s].base <= i
           /\ dag[s].next_seqnum = Len(sent[s]) /\ dag[s].seq_num = Len(sent[s])
           /\ Len(sent[s]) <= MAX_WIN_SIZE => i \in Slots /\ i % MAX_WIN_SIZE = i
<1>1. /\ Len(sent[s]) \in Nat /\ Len(rcvd[Peer(s)]) \in Nat
      /\ dag[s] \in DAGinfo
  BY PeerFacts DEF IndInv, TypeOK
<1>2. i \in Nat /\ Len(rcvd[Peer(s)]) <= i /\ i < Len(sent[s])
  BY <1>1 DEF Undelivered
<1>3. /\ dag[s].base \in Nat /\ dag[s].base <= Len(rcvd[Peer(s)])
      /\ dag[s].next_seqnum = Len(sent[s]) /\ dag[s].seq_num = Len(sent[s])
  BY Zenon, <1>1 DEF IndInv, AckedIsDelivered, CountersMatch, DAGinfo
<1>4. ASSUME Len(sent[s]) <= MAX_WIN_SIZE PROVE i \in Slots /\ i % MAX_WIN_SIZE = i
  <2>1. i < MAX_WIN_SIZE
    BY <1>1, <1>2, <1>4, WindowAssumption
  <2> QED BY Zenon, <1>2, <2>1, SlotIndex DEF Slots
<1>5. dag[s].base <= i
  BY <1>1, <1>2, <1>3
<1> QED BY Zenon, <1>1, <1>2, <1>3, <1>4, <1>5

\* A step that leaves a side's slots and the two histories of its direction
\* alone keeps its packets buffered; delivering only shortens what is owed.
LEMMA BufferedFrame ==
    ASSUME IndInv, UndeliveredIsBuffered, NEW s \in Side,
           dag'[s].sent_pkt = dag[s].sent_pkt, sent'[s] = sent[s],
           Len(rcvd'[Peer(s)]) \in Nat, Len(rcvd[Peer(s)]) <= Len(rcvd'[Peer(s)]),
           Len(sent[s]) <= MAX_WIN_SIZE, NEW i \in Undelivered(s)'
    PROVE  /\ i \in Undelivered(s)
           /\ dag'[s].sent_pkt[i % MAX_WIN_SIZE] = [seq |-> i, data |-> sent'[s][i + 1]]
<1>1. Len(sent[s]) \in Nat /\ Len(rcvd[Peer(s)]) \in Nat
  BY PeerFacts DEF IndInv, TypeOK
<1>2. i \in Undelivered(s)
  BY <1>1 DEF Undelivered
<1> QED BY Zenon, <1>2 DEF UndeliveredIsBuffered

\* Xsend fills the one slot no undelivered packet uses, and arms the timer.
LEMMA XsendRecoverable ==
    ASSUME Recoverable, IndInv', NEW s \in Side, NEW payload \in Data, Xsend(s, payload)
    PROVE  UndeliveredIsBuffered' /\ UndeliveredIsTimed'
<1>1. IndInv /\ dag \in [Side -> DAGinfo] /\ dag[s] \in DAGinfo /\ sent \in [Side -> Seq(Data)]
  BY Zenon DEF Recoverable, IndInv, TypeOK
<1>2. /\ dag'[s] = XsendInfo(dag[s], payload)
      /\ sent'[s] = Append(sent[s], payload)
      /\ \A t \in Side : t # s => dag'[t] = dag[t] /\ sent'[t] = sent[t]
      /\ UNCHANGED <<rcvd, active, gaveup, synacks>>
  BY Zenon, <1>1 DEF Xsend
<1> DEFINE e == XsendInfo(dag[s], payload)
<1>3. /\ e.timer_on /\ e.dataack_waiting
      /\ e.sent_pkt = [dag[s].sent_pkt EXCEPT ![dag[s].seq_num % MAX_WIN_SIZE] =
                                                 NextPacket(dag[s], payload)]
  BY Zenon, <1>1, XsendFacts, Zenon
<1>4. dag'[s].timer_on /\ dag'[s].dataack_waiting
  BY Zenon, <1>2, <1>3
<1>5. ASSUME NEW t \in Side, t # s PROVE Undelivered(t)' = Undelivered(t)
  BY Zenon, <1>2, <1>5 DEF Undelivered
<1>6. UndeliveredIsTimed'
  <2>1. \A t \in Side : t # s => dag'[t] = dag[t] /\ sent'[t] = sent[t] /\ Undelivered(t)' = Undelivered(t)
    BY Zenon, <1>2, <1>5
  <2> QED BY Zenon, <1>2, <1>4, <2>1 DEF Recoverable, UndeliveredIsTimed
<1>7. ASSUME NEW i \in Undelivered(s)', Len(sent'[s]) <= MAX_WIN_SIZE
      PROVE  dag'[s].sent_pkt[i % MAX_WIN_SIZE] = [seq |-> i, data |-> sent'[s][i + 1]]
  <2> DEFINE n == Len(sent[s])
  <2>1. /\ n \in Nat /\ Len(sent'[s]) = n + 1 /\ Len(rcvd[Peer(s)]) \in Nat
        /\ Len(rcvd[Peer(s)]) <= n
        /\ sent'[s][n + 1] = payload
        /\ \A j \in 1 .. n : sent'[s][j] = sent[s][j]
    <3>1. /\ n \in Nat /\ Len(sent'[s]) = n + 1 /\ sent'[s][n + 1] = payload
          /\ \A j \in 1 .. n : sent'[s][j] = sent[s][j]
      <4>1. sent[s] \in Seq(Data) /\ sent'[s] = Append(sent[s], payload)
        BY Zenon, <1>1, <1>2
      <4>2. n \in Nat
        BY <4>1
      <4>3. /\ Len(sent'[s]) = n + 1 /\ sent'[s][n + 1] = payload
            /\ \A j \in 1 .. n : sent'[s][j] = sent[s][j]
        BY <4>1, AppendFacts
      <4> QED BY Zenon, <4>2, <4>3
    <3>2. Peer(s) \in Side /\ rcvd \in [Side -> Seq(Data)]
      BY Zenon, <1>1, PeerFacts DEF IndInv, TypeOK
    <3>3. Len(rcvd[Peer(s)]) \in Nat
      BY <3>2
    <3>4. Len(rcvd[Peer(s)]) <= n
      BY Zenon, <1>1, PeerFacts DEF IndInv, InOrderDelivery
    <3> QED BY Zenon, <3>1, <3>3, <3>4
  <2>2. /\ i \in Nat /\ i <= n /\ n < MAX_WIN_SIZE
        /\ i # n => i \in Undelivered(s)
    BY <1>2, <1>7, <2>1, WindowAssumption DEF Undelivered
  <2>3. n % MAX_WIN_SIZE = n /\ i % MAX_WIN_SIZE = i /\ n \in Slots /\ i \in Slots
    <3>1. n \in Slots /\ i \in Slots /\ i < MAX_WIN_SIZE
      BY <2>1, <2>2, WindowAssumption DEF Slots
    <3>2. i % MAX_WIN_SIZE = i
      BY Zenon, <2>2, <3>1, SlotIndex
    <3> HIDE DEF n
    <3>3. n % MAX_WIN_SIZE = n
      BY Zenon, <2>1, <2>2, SlotIndex
    <3> QED BY Zenon, <3>1, <3>2, <3>3
  <2>4. dag[s].seq_num = n /\ dag[s].next_seqnum = n
    BY Zenon, <1>1 DEF IndInv, CountersMatch
  <2>5. dag'[s].sent_pkt = [dag[s].sent_pkt EXCEPT ![dag[s].seq_num % MAX_WIN_SIZE] =
                                                       NextPacket(dag[s], payload)]
    BY Zenon, <1>2, <1>3
  <2>6. dag'[s].sent_pkt = [dag[s].sent_pkt EXCEPT ![n] = [seq |-> n, data |-> payload]]
    BY Zenon, <2>3, <2>4, <2>5 DEF NextPacket
  <2>7. dag[s].sent_pkt \in [Slots -> Packet \cup {NULL}]
    BY Zenon, <1>1 DEF DAGinfo
  <2>8. CASE i = n
    BY <2>1, <2>3, <2>6, <2>7, <2>8
  <2>9. CASE i # n
    <3>1. dag[s].sent_pkt[i % MAX_WIN_SIZE] = [seq |-> i, data |-> sent[s][i + 1]]
      <4>1. i \in Undelivered(s) /\ Len(sent[s]) <= MAX_WIN_SIZE
        BY <2>2, <2>9, WindowAssumption
      <4> QED BY Zenon, <4>1, Zenon DEF Recoverable, UndeliveredIsBuffered
    <3>2. sent'[s][i + 1] = sent[s][i + 1]
      <4>1. n \in Nat
        BY Zenon, <2>1
      <4> HIDE DEF n
      <4>2. i + 1 \in 1 .. n
        BY <2>2, <2>9, <4>1
      <4> QED BY Zenon, <2>1, <4>2
    <3>3. dag'[s].sent_pkt[i] = dag[s].sent_pkt[i]
      BY Zenon, <2>3, <2>6, <2>7, <2>9
    <3> QED BY Zenon, <2>3, <3>1, <3>2, <3>3
  <2> QED BY Zenon, <2>8, <2>9
<1>8. UndeliveredIsBuffered'
  <2>1. \A t \in Side : t # s => dag'[t] = dag[t] /\ sent'[t] = sent[t] /\ Undelivered(t)' = Undelivered(t)
    BY SMTT(30), <1>2, <1>5
  <2>2. ASSUME NEW t \in Side, t # s, Len(sent'[t]) <= MAX_WIN_SIZE, NEW i \in Undelivered(t)'
        PROVE  dag'[t].sent_pkt[i % MAX_WIN_SIZE] = [seq |-> i, data |-> sent'[t][i + 1]]
    BY <2>1, <2>2 DEF Recoverable, UndeliveredIsBuffered
  <2> QED BY Zenon, <1>7, <2>2 DEF UndeliveredIsBuffered
<1> QED BY Zenon, <1>6, <1>8

\* Delivering shortens what the peer owes and touches no slot or timer.
LEMMA RecvDATARecoverable ==
    ASSUME Recoverable, IndInv', NEW s \in Side, NEW p \in data[Peer(s)], RecvDATA(s, p)
    PROVE  UndeliveredIsBuffered' /\ UndeliveredIsTimed'
<1>1. /\ IndInv /\ UndeliveredIsBuffered /\ dag \in [Side -> DAGinfo] /\ dag[s] \in DAGinfo
      /\ rcvd \in [Side -> Seq(Data)] /\ p.seq \in Nat /\ p.data \in Data
  <2>1. IndInv /\ UndeliveredIsBuffered
    BY Zenon DEF Recoverable
  <2>2. dag \in [Side -> DAGinfo] /\ rcvd \in [Side -> Seq(Data)] /\ data \in [Side -> SUBSET Packet]
    BY Zenon, <2>1 DEF IndInv, TypeOK
  <2>3. p \in Packet
    BY Zenon, <2>2, PeerFacts
  <2> QED BY Zenon, <2>1, <2>2, <2>3 DEF Packet
<1>2. LET e == DataInfo(dag[s], p.seq) IN
      /\ e.sent_pkt = dag[s].sent_pkt
      /\ e.timer_on = dag[s].timer_on /\ e.dataack_waiting = dag[s].dataack_waiting
  BY Zenon, <1>1, DataFacts
<1>3. \A t \in Side : /\ dag'[t].sent_pkt = dag[t].sent_pkt
                      /\ dag'[t].timer_on = dag[t].timer_on
                      /\ dag'[t].dataack_waiting = dag[t].dataack_waiting
  BY Zenon, <1>1, <1>2 DEF RecvDATA
<1>4. \A t \in Side : Len(rcvd'[t]) \in Nat /\ Len(rcvd[t]) <= Len(rcvd'[t])
  <2>1. rcvd' = [rcvd EXCEPT ![s] = Append(rcvd[s], p.data)] \/ rcvd' = rcvd
    BY Zenon DEF RecvDATA
  <2>2. Len(Append(rcvd[s], p.data)) = Len(rcvd[s]) + 1 /\ \A t \in Side : Len(rcvd[t]) \in Nat
    BY <1>1, AppendFacts
  <2> QED BY <1>1, <2>1, <2>2
<1>5. UNCHANGED <<sent, active, gaveup, synacks>>
  BY Zenon DEF RecvDATA
<1>6. UndeliveredIsBuffered'
  BY Zenon, <1>1, <1>3, <1>4, <1>5, PeerFacts, BufferedFrame DEF UndeliveredIsBuffered
<1>7. \A t \in Side : Undelivered(t)' # {} => Undelivered(t) # {}
  <2>1. \A t \in Side : Len(sent[t]) \in Nat /\ Len(rcvd[t]) \in Nat
    <3>1. \A t \in Side : sent[t] \in Seq(Data) /\ rcvd[t] \in Seq(Data)
      BY Zenon DEF Recoverable, IndInv, TypeOK
    <3> QED BY <3>1
  <2> QED BY <1>4, <1>5, <2>1, PeerFacts DEF Undelivered
<1>8. UndeliveredIsTimed'
  BY Zenon, <1>3, <1>5, <1>7 DEF Recoverable, UndeliveredIsTimed
<1> QED BY Zenon, <1>6, <1>8

\* An ACK below next_seqnum clears slots below what is undelivered and keeps the
\* timer; only an ACK of everything stops it.
LEMMA RecvACKRecoverable ==
    ASSUME Recoverable, IndInv', NEW s \in Side, NEW n \in acks[Peer(s)], RecvACK(s, n)
    PROVE  UndeliveredIsBuffered' /\ UndeliveredIsTimed'
<1>1. IndInv /\ dag \in [Side -> DAGinfo] /\ dag[s] \in DAGinfo
  BY Zenon DEF Recoverable, IndInv, TypeOK
<1>2. n \in Nat /\ n <= Len(rcvd[Peer(s)])
  BY Zenon, PeerFacts DEF Recoverable, IndInv, TypeOK, AcksAreDelivered
<1> DEFINE e == AckInfo(dag[s], n)
<1>3. /\ \A i \in Slots : e.sent_pkt[i] = IF i \in AckedSlots(dag[s], n) THEN NULL
                                                             ELSE dag[s].sent_pkt[i]
      /\ (n # dag[s].next_seqnum /\ dag[s].timer_on) => e.timer_on
      /\ (n # dag[s].next_seqnum /\ dag[s].dataack_waiting) => e.dataack_waiting
  BY ZenonT(60), <1>1, <1>2, AckFacts
<1>4. /\ dag'[s] = e
      /\ \A t \in Side : t # s => dag'[t] = dag[t]
      /\ UNCHANGED <<sent, rcvd, active, gaveup, synacks>>
  BY Zenon, <1>1 DEF RecvACK
<1> HIDE DEF e
<1>5. \A t \in Side : Undelivered(t)' = Undelivered(t)
  BY Zenon, <1>4 DEF Undelivered
<1>6. ASSUME NEW i \in Undelivered(s), Len(sent[s]) <= MAX_WIN_SIZE
      PROVE  e.sent_pkt[i % MAX_WIN_SIZE] = dag[s].sent_pkt[i % MAX_WIN_SIZE]
  <2>1. /\ i \in Slots /\ i % MAX_WIN_SIZE = i /\ i \in Nat /\ n <= i
        /\ dag[s].base \in Nat /\ i < MAX_WIN_SIZE
    BY SMTT(30), <1>1, <1>2, <1>6, UndeliveredFacts, WindowAssumption
  <2>2. \A j \in dag[s].base .. n - 1 : j \in Nat /\ j < MAX_WIN_SIZE /\ j # i
    <3>1. i \in Nat /\ n <= i /\ i < MAX_WIN_SIZE /\ dag[s].base \in Nat /\ MAX_WIN_SIZE \in Nat
      BY Zenon, <2>1, WindowAssumption
    <3> DEFINE b == dag[s].base
    <3> HIDE DEF b
    <3>2. b \in Nat
      BY Zenon, <3>1 DEF b
    <3>3. \A j \in b .. n - 1 : j \in Nat /\ j < MAX_WIN_SIZE /\ j # i
      BY <1>2, <3>1, <3>2
    <3> QED BY Zenon, <3>3 DEF b
  <2>3. \A j \in dag[s].base .. n - 1 : j % MAX_WIN_SIZE = j
    BY Zenon, <2>2, SlotIndex
  <2>4. i \notin AckedSlots(dag[s], n)
    BY Zenon, <2>2, <2>3 DEF AckedSlots
  <2> QED BY Zenon, <1>3, <2>1, <2>4
<1>7. UndeliveredIsBuffered'
  <2>1. ASSUME NEW t \in Side, Len(sent[t]) <= MAX_WIN_SIZE, NEW i \in Undelivered(t)
        PROVE  dag'[t].sent_pkt[i % MAX_WIN_SIZE] = [seq |-> i, data |-> sent[t][i + 1]]
    <3>1. dag[t].sent_pkt[i % MAX_WIN_SIZE] = [seq |-> i, data |-> sent[t][i + 1]]
      BY Zenon, <2>1 DEF Recoverable, UndeliveredIsBuffered
    <3>2. CASE t = s
      BY Zenon, <1>4, <1>6, <2>1, <3>1, <3>2
    <3>3. CASE t # s
      BY Zenon, <1>4, <3>1, <3>3
    <3> QED BY Zenon, <3>2, <3>3
  <2> QED BY Zenon, <1>4, <1>5, <2>1 DEF UndeliveredIsBuffered
<1>8. Undelivered(s) # {} => n # dag[s].next_seqnum
  <2> SUFFICES ASSUME NEW i \in Undelivered(s) PROVE n # dag[s].next_seqnum
    OBVIOUS
  <2> QED BY <1>1, <1>2, UndeliveredFacts
<1>9. UndeliveredIsTimed'
  BY <1>3, <1>4, <1>5, <1>8 DEF Recoverable, UndeliveredIsTimed
<1> QED BY <1>7, <1>9

\* While run_timer has tries left it finds the oldest undelivered packet in its
\* slot, so it resends and stays armed; otherwise it has given up.
LEMMA TimerDataRecoverable ==
    ASSUME Recoverable, IndInv', NEW s \in Side, TimerData(s)
    PROVE  UndeliveredIsBuffered' /\ UndeliveredIsTimed'
<1>1. IndInv /\ dag \in [Side -> DAGinfo] /\ dag[s] \in DAGinfo /\ gaveup \in [Side -> BOOLEAN]
  BY Zenon DEF Recoverable, IndInv, TypeOK
<1> DEFINE e == DataTimeoutInfo(dag[s])
<1>2. /\ e.sent_pkt = dag[s].sent_pkt
      /\ Retransmitted(dag[s]) # {} =>
            e.timer_on = dag[s].timer_on /\ e.dataack_waiting = dag[s].dataack_waiting
  BY Zenon, <1>1, DataTimeoutFacts
<1>3. /\ dag'[s] = e
      /\ \A t \in Side : t # s => dag'[t] = dag[t] /\ gaveup'[t] = gaveup[t]
      /\ gaveup'[s] = (gaveup[s] \/ ~DataRetry(dag[s]))
      /\ UNCHANGED <<sent, rcvd, active, synacks>>
  BY Zenon, <1>1 DEF TimerData
<1> HIDE DEF e
<1>4. \A t \in Side : Undelivered(t)' = Undelivered(t) /\ dag'[t].sent_pkt = dag[t].sent_pkt
  BY ZenonT(60), <1>2, <1>3 DEF Undelivered
<1>5. UndeliveredIsBuffered'
  BY <1>3, <1>4 DEF Recoverable, UndeliveredIsBuffered
<1>6. ASSUME Len(sent[s]) <= MAX_WIN_SIZE, Undelivered(s) # {}, DataRetry(dag[s])
      PROVE  Retransmitted(dag[s]) # {}
  <2>1. PICK i \in Undelivered(s) : TRUE
    BY Zenon, <1>6
  <2>2. i \in dag[s].base .. dag[s].next_seqnum - 1 /\ i + 1 \in 1 .. Len(sent[s])
    BY <1>1, <2>1, UndeliveredFacts
  <2>3. dag[s].sent_pkt[i % MAX_WIN_SIZE] = [seq |-> i, data |-> sent[s][i + 1]]
    BY Zenon, <1>6, <2>1 DEF Recoverable, UndeliveredIsBuffered
  <2>4. [seq |-> i, data |-> sent[s][i + 1]] \in Packet
    <3>1. i \in Nat
      BY Zenon, <1>1, <2>1, UndeliveredFacts
    <3>2. sent[s] \in Seq(Data)
      BY Zenon, <1>1 DEF IndInv, TypeOK
    <3>3. sent[s][i + 1] \in Data
      BY <2>2, <3>2
    <3> QED BY Zenon, <3>1, <3>3 DEF Packet
  <2>5. dag[s].sent_pkt[i % MAX_WIN_SIZE] \in Buffered(dag[s])
    BY Zenon, <2>2, <2>3, <2>4, NullAssumption DEF Buffered
  <2> QED BY Zenon, <1>6, <2>5 DEF Retransmitted
<1>7. UndeliveredIsTimed'
  <2> SUFFICES ASSUME NEW t \in Side,
                      Len(sent[t]) <= MAX_WIN_SIZE, active[t], ~gaveup'[t],
                      t = "client" => synacks = DupSynAcks, Undelivered(t) # {}
               PROVE  dag'[t].timer_on /\ dag'[t].dataack_waiting
    BY Zenon, <1>3, <1>4 DEF UndeliveredIsTimed
  <2>1. ~gaveup[t]
    BY Zenon, <1>3
  <2>2. dag[t].timer_on /\ dag[t].dataack_waiting
    BY Zenon, <2>1 DEF Recoverable, UndeliveredIsTimed
  <2>3. CASE t = s
    <3>1. Retransmitted(dag[s]) # {}
      BY Zenon, <1>3, <1>6, <2>3
    <3> QED BY Zenon, <1>2, <1>3, <2>2, <2>3, <3>1
  <2>4. CASE t # s
    BY Zenon, <1>3, <2>2, <2>4
  <2> QED BY Zenon, <2>3, <2>4
<1> QED BY Zenon, <1>5, <1>7

\* The steps that leave slots and histories alone keep packets buffered; they
\* keep the timer too, except a teardown and a SYNACK, which the property
\* leaves out.
LEMMA QuietRecoverable ==
    ASSUME Recoverable, UNCHANGED <<sent, rcvd, gaveup>>,
           \A t \in Side : dag'[t].sent_pkt = dag[t].sent_pkt,
           \A t \in Side : (active'[t] /\ (t = "client" => synacks' = DupSynAcks)) =>
               /\ active[t] /\ (t = "client" => synacks = DupSynAcks)
               /\ dag[t].timer_on => dag'[t].timer_on
               /\ dag[t].dataack_waiting => dag'[t].dataack_waiting
    PROVE  UndeliveredIsBuffered' /\ UndeliveredIsTimed'
<1>1. \A t \in Side : Undelivered(t)' = Undelivered(t)
  BY Zenon DEF Undelivered
<1>2. UndeliveredIsBuffered'
  BY <1>1 DEF Recoverable, UndeliveredIsBuffered
<1>3. UndeliveredIsTimed'
  BY Zenon, <1>1 DEF Recoverable, UndeliveredIsTimed
<1> QED BY Zenon, <1>2, <1>3

\* Every step preserves recoverability.
LEMMA NextRecoverable == Recoverable /\ [Next]_vars => Recoverable'
<1> SUFFICES ASSUME Recoverable, [Next]_vars
             PROVE  UndeliveredIsBuffered' /\ UndeliveredIsTimed'
  BY Zenon, NextIndInv DEF Recoverable
<1>0. /\ IndInv' /\ IndInv
      /\ dag \in [Side -> DAGinfo] /\ active \in [Side -> BOOLEAN]
      /\ synacks \in 0 .. DupSynAcks
  BY Zenon, NextIndInv DEF Recoverable, IndInv, TypeOK
<1>1. ASSUME NEW s \in Side, NEW payload \in Data, Xsend(s, payload)
      PROVE  UndeliveredIsBuffered' /\ UndeliveredIsTimed'
  BY Zenon, <1>0, <1>1, XsendRecoverable
<1>2. ASSUME NEW s \in Side, Xclose(s)
      PROVE  UndeliveredIsBuffered' /\ UndeliveredIsTimed'
  <2>1. LET e == XcloseInfo(dag[s]) IN
        /\ e.sent_pkt = dag[s].sent_pkt
        /\ e.timer_on /\ e.dataack_waiting = dag[s].dataack_waiting
    BY Zenon, <1>0, XcloseFacts
  <2>2. /\ dag'[s] = XcloseInfo(dag[s])
        /\ \A t \in Side : t # s => dag'[t] = dag[t]
        /\ UNCHANGED <<sent, rcvd, gaveup, active, synacks>>
    BY Zenon, <1>0, <1>2 DEF Xclose
  <2> QED BY Zenon, <2>1, <2>2, QuietRecoverable
<1>3. ASSUME NEW s \in Side, NEW p \in data[Peer(s)], RecvDATA(s, p)
      PROVE  UndeliveredIsBuffered' /\ UndeliveredIsTimed'
  BY Zenon, <1>0, <1>3, RecvDATARecoverable
<1>4. ASSUME NEW s \in Side, NEW n \in acks[Peer(s)], RecvACK(s, n)
      PROVE  UndeliveredIsBuffered' /\ UndeliveredIsTimed'
  BY Zenon, <1>0, <1>4, RecvACKRecoverable
<1>5. ASSUME NEW s \in Side, TimerData(s)
      PROVE  UndeliveredIsBuffered' /\ UndeliveredIsTimed'
  BY Zenon, <1>0, <1>5, TimerDataRecoverable
<1>6. ASSUME NEW s \in Side, TimerTeardown(s)
      PROVE  UndeliveredIsBuffered' /\ UndeliveredIsTimed'
  <2>1. /\ dag'[s].sent_pkt = dag[s].sent_pkt
        /\ ~active'[s]
        /\ \A t \in Side : t # s => dag'[t] = dag[t] /\ active'[t] = active[t]
        /\ UNCHANGED <<sent, rcvd, gaveup, synacks>>
    BY <1>0, <1>6 DEF TimerTeardown, DAGinfo
  <2> QED BY Zenon, <2>1, QuietRecoverable
<1>7. ASSUME NEW s \in Side,
             (\E p \in data[s] : LoseDATA(s, p)) \/ (\E n \in acks[s] : LoseACK(s, n))
      PROVE  UndeliveredIsBuffered' /\ UndeliveredIsTimed'
  <2>1. UNCHANGED <<sent, rcvd, gaveup, dag, active, synacks>>
    BY Zenon, <1>7 DEF LoseDATA, LoseACK
  <2> QED BY Zenon, <2>1, QuietRecoverable
<1>8. CASE RecvSYNACK
  <2>1. SynackInfo(dag["client"]).sent_pkt = dag["client"].sent_pkt
    BY Zenon, <1>0, SynackFacts DEF Side
  <2>2. /\ dag'["client"] = SynackInfo(dag["client"])
        /\ \A t \in Side : t # "client" => dag'[t] = dag[t]
        /\ UNCHANGED <<sent, rcvd, gaveup, active>>
    BY Zenon, <1>0, <1>8 DEF RecvSYNACK, Side
  <2>3. synacks' # DupSynAcks
    BY <1>0, <1>8, BoundsAssumption DEF RecvSYNACK
  <2> QED BY Zenon, <2>1, <2>2, <2>3, QuietRecoverable
<1>9. CASE UNCHANGED vars
  <2>1. UNCHANGED <<sent, rcvd, gaveup, dag, active, synacks>>
    BY Zenon, <1>9 DEF vars
  <2> QED BY Zenon, <2>1, QuietRecoverable
<1> QED BY Zenon, <1>1, <1>2, <1>3, <1>4, <1>5, <1>6, <1>7, <1>8, <1>9 DEF Next

\* Nothing is owed at the start, so everything owed is buffered and timed.
LEMMA InitRecoverable == Init => Recoverable
<1> SUFFICES ASSUME Init PROVE UndeliveredIsBuffered /\ UndeliveredIsTimed
  BY Zenon, InitIndInv DEF Recoverable
<1>1. \A s \in Side : Undelivered(s) = {}
  <2>1. \A s \in Side : Len(sent[s]) = 0 /\ Len(rcvd[s]) = 0
    BY DEF Init
  <2> QED BY <2>1, PeerFacts DEF Undelivered
<1> QED BY Zenon, <1>1 DEF UndeliveredIsBuffered, UndeliveredIsTimed

\* No packet the peer still lacks is ever dropped from sent_pkt while a side has
\* sent at most MAX_WIN_SIZE packets.
THEOREM BufferingSound == Spec => []UndeliveredIsBuffered
<1>1. Recoverable => UndeliveredIsBuffered
  BY Zenon DEF Recoverable
<1> QED BY <1>1, InitRecoverable, NextRecoverable, PTL DEF Spec

\* No packet the peer still lacks is ever left without a running timer, short of
\* a teardown, exhausted retries, an overrun window or a duplicate SYNACK.
THEOREM TimerSound == Spec => []UndeliveredIsTimed
<1>1. Recoverable => UndeliveredIsTimed
  BY Zenon DEF Recoverable
<1> QED BY <1>1, InitRecoverable, NextRecoverable, PTL DEF Spec
===============================================================================
