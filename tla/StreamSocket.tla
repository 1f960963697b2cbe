----------------------------- MODULE StreamSocket -----------------------------
(***************************************************************************)
(* The per-socket state of XTRANSPORT (struct DAGinfo, xtransport.hh) and  *)
(* what each handler of xtransport.cc does to it, as operators from a      *)
(* DAGinfo to the DAGinfo the handler leaves behind.  The modules that     *)
(* drive sockets (XStream, XTransport) take every socket transition from   *)
(* here, so a handler is written down once.                                *)
(*                                                                         *)
(* A path is abstracted to its destination node, an XID; a packet kept for *)
(* retransmission to its sequence number and payload (copy_packet keeps    *)
(* both); a Timestamp to the question whether it has passed, which the     *)
(* driving modules answer nondeterministically.                            *)
(***************************************************************************)
EXTENDS Integers

CONSTANTS
    MAX_WIN_SIZE,          \* slots of sent_pkt (100 in the code)
    MAX_CONNECT_TRIES,     \* 30 in the code
    MAX_RETRANSMIT_TRIES,  \* 100 in the code
    Data,                  \* payloads of Xsend
    XIDs,                  \* service identifiers
    NULL                   \* a null pointer, an unset path

ASSUME WindowAssumption == MAX_WIN_SIZE \in Nat \ {0}
ASSUME TriesAssumption  == MAX_CONNECT_TRIES \in Nat /\ MAX_RETRANSMIT_TRIES \in Nat

Slots == 0 .. MAX_WIN_SIZE - 1

Packet == [seq : Nat, data : Data]

ASSUME NullAssumption   == NULL \notin XIDs /\ NULL \notin Packet

DAGinfo ==
    [ src_path : XIDs \cup {NULL}, dst_path : XIDs \cup {NULL},
      isConnected : BOOLEAN, isAcceptSocket : BOOLEAN,
      timer_on : BOOLEAN, synack_waiting : BOOLEAN,
      dataack_waiting : BOOLEAN, teardown_waiting : BOOLEAN,
      num_connect_tries : Nat, num_retransmit_tries : Nat,
      seq_num : Nat, base : Nat, next_seqnum : Nat, expected_seqnum : Nat,
      sent_pkt : [Slots -> Packet \cup {NULL}] ]

-------------------------------------------------------------------------------
(* API handlers.                                                           *)

\* Xsocket: the constructor's values and the handler's.  The sequence numbers
\* stay uninitialised in the code until Xconnect or Xaccept sets them to 0, and
\* nothing reads them before that.
XsocketInfo ==
    [ src_path |-> NULL, dst_path |-> NULL,
      isConnected |-> FALSE, isAcceptSocket |-> FALSE,
      timer_on |-> FALSE, synack_waiting |-> FALSE,
      dataack_waiting |-> FALSE, teardown_waiting |-> FALSE,
      num_connect_tries |-> 0, num_retransmit_tries |-> 0,
      seq_num |-> 0, base |-> 0, next_seqnum |-> 0, expected_seqnum |-> 0,
      sent_pkt |-> [i \in Slots |-> NULL] ]

XbindInfo(d, xid) == [d EXCEPT !.src_path = xid, !.isConnected = FALSE]

XconnectInfo(d, src, dst) ==
    [d EXCEPT !.src_path = src, !.dst_path = dst, !.isConnected = TRUE,
              !.seq_num = 0, !.base = 0, !.next_seqnum = 0, !.expected_seqnum = 0,
              !.num_connect_tries = @ + 1,
              !.timer_on = TRUE, !.synack_waiting = TRUE]

\* The DAGinfo a SYN queues, completed by the Xaccept that takes it.
XacceptInfo(src, dst) ==
    [XsocketInfo EXCEPT !.src_path = src, !.dst_path = dst,
                        !.isConnected = TRUE, !.isAcceptSocket = TRUE]

NextPacket(d, payload) == [seq |-> d.next_seqnum, data |-> payload]

\* No window check: the slot is overwritten whatever it holds.
XsendInfo(d, payload) ==
    [d EXCEPT !.sent_pkt[d.seq_num % MAX_WIN_SIZE] = NextPacket(d, payload),
              !.seq_num = @ + 1, !.next_seqnum = @ + 1,
              !.timer_on = TRUE, !.dataack_waiting = TRUE,
              !.num_retransmit_tries = 0]

XcloseInfoUntimed(d) == [d EXCEPT !.teardown_waiting = TRUE]

XcloseInfo(d) == [d EXCEPT !.timer_on = TRUE, !.teardown_waiting = TRUE]

-------------------------------------------------------------------------------
(* Packets from the network.                                               *)

SynackInfo(d) == [d EXCEPT !.timer_on = FALSE, !.synack_waiting = FALSE]

InSequenceAnyLater(d, seq) == seq >= d.expected_seqnum

InSequenceOrEarlier(d, seq) == seq <= d.expected_seqnum

InSequence(d, seq) == seq = d.expected_seqnum

DataInfo(d, seq) == IF InSequence(d, seq)
                    THEN [d EXCEPT !.expected_seqnum = @ + 1]
                    ELSE d

\* The number the ACK for a DATA packet carries: cumulative, not the packet's.
PacketAck(d, seq) == seq + 1

LastReceivedAck(d, seq) == DataInfo(d, seq).expected_seqnum - 1

CumulativeAck(d, seq) == DataInfo(d, seq).expected_seqnum

\* The slots the loop "Clear all Acked packets" visits.
AckedSlotsOffByOne(d, ack) == {i % MAX_WIN_SIZE : i \in d.base .. ack}

AckedSlots(d, ack) == {i % MAX_WIN_SIZE : i \in d.base .. ack - 1}

AllAckedIgnored(d, ack) == TRUE

AllAcked(d, ack) == ack = d.next_seqnum

AckInfo(d, ack) ==
    LET resetTimer == d.base < ack
        done       == resetTimer /\ AllAcked(d, ack)
    IN  [d EXCEPT !.sent_pkt = [i \in Slots |->
                                   IF i \in AckedSlots(d, ack) THEN NULL ELSE @[i]],
                  !.base = ack,
                  !.timer_on = IF resetTimer THEN ~done ELSE @,
                  !.dataack_waiting = IF resetTimer THEN ~done ELSE @,
                  !.num_retransmit_tries = IF done THEN 0 ELSE @]

-------------------------------------------------------------------------------
(* run_timer, for one socket: the three branches in the order it tries     *)
(* them.  "expired" is expiry <= now.                                      *)

SynTimeout(d, expired)  == d.timer_on /\ d.synack_waiting /\ expired

DataTimeout(d, expired) == /\ d.timer_on /\ ~SynTimeout(d, expired)
                           /\ d.dataack_waiting /\ expired

TeardownTimeout(d, expired) == /\ d.timer_on /\ ~SynTimeout(d, expired)
                               /\ ~DataTimeout(d, expired)
                               /\ d.teardown_waiting

SynRetry(d) == d.num_connect_tries <= MAX_CONNECT_TRIES

SynTimeoutInfo(d) == IF SynRetry(d)
                     THEN [d EXCEPT !.num_connect_tries = @ + 1]
                     ELSE [d EXCEPT !.timer_on = FALSE, !.synack_waiting = FALSE]

BufferedAfterBase(d) ==
    {d.sent_pkt[i % MAX_WIN_SIZE] : i \in d.base + 1 .. d.next_seqnum - 1} \ {NULL}

\* The packets between base and next_seqnum that are still in their slots.
Buffered(d) ==
    {d.sent_pkt[i % MAX_WIN_SIZE] : i \in d.base .. d.next_seqnum - 1} \ {NULL}

DataRetry(d) == d.num_retransmit_tries < MAX_RETRANSMIT_TRIES

Retransmitted(d) == IF DataRetry(d) THEN Buffered(d) ELSE {}

DataTimeoutInfo(d) ==
    IF Retransmitted(d) # {}
    THEN [d EXCEPT !.num_retransmit_tries = @ + 1]
    ELSE [d EXCEPT !.timer_on = FALSE, !.dataack_waiting = FALSE,
                   !.num_retransmit_tries = 0]
===============================================================================
