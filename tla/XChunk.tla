-------------------------------- MODULE XChunk --------------------------------
(***************************************************************************)
(* An XSOCK_CHUNK socket of XTRANSPORT: content requests by CID, their     *)
(* retransmission, the answers that come in from the content cache and the *)
(* XreadChunk call that blocks until its chunk is there.                   *)
(*                                                                         *)
(* One application thread drives the socket, so it makes no call while it  *)
(* is blocked in XreadChunk.  The content of a chunk is abstracted to      *)
(* whether its SHA-1 matches the CID.  The application reads a requested   *)
(* chunk once per request: XreadChunk of a chunk that was read already     *)
(* dereferences the end of XIDtoCIDresponsePkt.                            *)
(***************************************************************************)
EXTENDS Naturals, Sequences, FiniteSets

CONSTANTS
    CIDs,
    NULL,
    MaxLosses   \* bound: requests and answers the network destroys

Content == {"matching", "corrupt"}
Status  == {"WAITING_FOR_CHUNK", "READY_TO_READ", "INVALID_HASH"}

ASSUME ChunkAssumption ==
    /\ NULL \notin CIDs \cup Content \cup Status \cup {"no", "yes"} \cup (CIDs \X Content)
    /\ MaxLosses \in Nat

VARIABLES
    XIDtoCIDreqPkt,       \* CIDs with a request kept for retransmission
    XIDtoTimerOn,         \* CIDs with a running timer (and XIDtoExpiryTime)
    XIDtoStatus,
    XIDtoReadReq,
    XIDtoCIDresponsePkt,
    requests, answers,    \* in flight; delivery does not use them up
    reading,              \* the CID XreadChunk is blocked on
    inbox,                \* chunks pushed to the socket's UDP port
    losses

socket == <<XIDtoCIDreqPkt, XIDtoTimerOn, XIDtoStatus, XIDtoReadReq, XIDtoCIDresponsePkt>>
vars   == <<socket, requests, answers, reading, inbox, losses>>

Init ==
    /\ XIDtoCIDreqPkt = {} /\ XIDtoTimerOn = {}
    /\ XIDtoStatus = [c \in CIDs |-> NULL]
    /\ XIDtoReadReq = [c \in CIDs |-> NULL]
    /\ XIDtoCIDresponsePkt = [c \in CIDs |-> NULL]
    /\ requests = {} /\ answers = {}
    /\ reading = NULL
    /\ inbox = << >>
    /\ losses = 0

-------------------------------------------------------------------------------
\* XrequestChunks: one message that asks for several CIDs.
XrequestChunk(cids) ==
    /\ reading = NULL
    /\ requests' = requests \cup cids
    /\ XIDtoCIDreqPkt' = XIDtoCIDreqPkt \cup cids
    /\ XIDtoStatus' = [c \in CIDs |-> IF c \in cids THEN "WAITING_FOR_CHUNK" ELSE XIDtoStatus[c]]
    /\ XIDtoReadReq' = [c \in CIDs |-> IF c \in cids THEN "no" ELSE XIDtoReadReq[c]]
    /\ XIDtoTimerOn' = XIDtoTimerOn \cup cids
    /\ UNCHANGED <<XIDtoCIDresponsePkt, answers, reading, inbox, losses>>

\* The note that a reader waits for c.
ReadNoteReset(c) == [XIDtoReadReq EXCEPT ![c] = "no"]

ReadNote(c) == [XIDtoReadReq EXCEPT ![c] = "yes"]

\* The chunk is not there yet: leave a note for ProcessCachePacket.
XreadChunkWaits(c) ==
    /\ reading = NULL
    /\ XIDtoStatus[c] = "WAITING_FOR_CHUNK"
    /\ reading' = c
    /\ XIDtoReadReq' = ReadNote(c)
    /\ UNCHANGED <<XIDtoCIDreqPkt, XIDtoTimerOn, XIDtoStatus, XIDtoCIDresponsePkt,
                   requests, answers, inbox, losses>>

\* The chunk is buffered: hand it up and drop it.
XreadChunkFinds(c) ==
    /\ reading = NULL
    /\ XIDtoStatus[c] \in {"READY_TO_READ", "INVALID_HASH"}
    /\ XIDtoCIDresponsePkt[c] # NULL
    /\ reading' = c
    /\ XIDtoReadReq' = [XIDtoReadReq EXCEPT ![c] = "no"]
    /\ inbox' = Append(inbox, <<c, XIDtoCIDresponsePkt[c]>>)
    /\ XIDtoCIDresponsePkt' = [XIDtoCIDresponsePkt EXCEPT ![c] = NULL]
    /\ UNCHANGED <<XIDtoCIDreqPkt, XIDtoTimerOn, XIDtoStatus, requests, answers, losses>>

\* click_reply takes the next datagram on the port and XreadChunk returns it.
XreadChunkReturns ==
    /\ reading # NULL /\ inbox # << >>
    /\ inbox' = Tail(inbox)
    /\ reading' = NULL
    /\ UNCHANGED <<socket, requests, answers, losses>>

-------------------------------------------------------------------------------
\* The timers left when an answer has settled the request for c.
SettledButTimed(timers, c) == timers

SettledTimers(timers, c) == timers \ {c}

HashFailed(content) == IF content = "matching" THEN "READY_TO_READ" ELSE "REQUEST_FAILED"

HashStatus(content) == IF content = "matching" THEN "READY_TO_READ" ELSE "INVALID_HASH"

\* A read request that was served is forgotten.
ServedKeepsNote(c) == XIDtoReadReq

Served(c) == [XIDtoReadReq EXCEPT ![c] = NULL]

\* An answer: straight up to a blocked XreadChunk, otherwise into the buffer.
ProcessCachePacket(c, content) ==
    /\ <<c, content>> \in answers
    /\ XIDtoCIDreqPkt' = XIDtoCIDreqPkt \ {c}
    /\ XIDtoTimerOn' = SettledTimers(XIDtoTimerOn, c)
    /\ XIDtoStatus' = [XIDtoStatus EXCEPT ![c] = HashStatus(content)]
    /\ IF XIDtoReadReq[c] = "yes"
       THEN /\ XIDtoReadReq' = Served(c)
            /\ inbox' = Append(inbox, <<c, content>>)
            /\ UNCHANGED XIDtoCIDresponsePkt
       ELSE /\ XIDtoCIDresponsePkt' = [XIDtoCIDresponsePkt EXCEPT ![c] = content]
            /\ UNCHANGED <<XIDtoReadReq, inbox>>
    /\ UNCHANGED <<requests, answers, reading, losses>>

\* run_timer resends a request without limit.
TimerCIDSilent(c) == c \in XIDtoTimerOn /\ UNCHANGED vars

TimerCID(c) ==
    /\ c \in XIDtoTimerOn
    /\ c \in XIDtoCIDreqPkt
    /\ requests' = requests \cup {c}
    /\ UNCHANGED <<socket, answers, reading, inbox, losses>>

-------------------------------------------------------------------------------
\* A cache or publisher answers a request.
Answer(c, content) ==
    /\ c \in requests
    /\ answers' = answers \cup {<<c, content>>}
    /\ UNCHANGED <<socket, requests, reading, inbox, losses>>

LoseRequest(c) == /\ c \in requests /\ losses < MaxLosses
                  /\ requests' = requests \ {c}
                  /\ losses' = losses + 1
                  /\ UNCHANGED <<socket, answers, reading, inbox>>

LoseAnswer(a) == /\ a \in answers /\ losses < MaxLosses
                 /\ answers' = answers \ {a}
                 /\ losses' = losses + 1
                 /\ UNCHANGED <<socket, requests, reading, inbox>>

Next ==
    \/ \E cids \in SUBSET CIDs \ {{}} : XrequestChunk(cids)
    \/ \E c \in CIDs :
          \/ XreadChunkWaits(c) \/ XreadChunkFinds(c)
          \/ TimerCID(c) \/ LoseRequest(c)
          \/ \E content \in Content : ProcessCachePacket(c, content) \/ Answer(c, content)
    \/ XreadChunkReturns
    \/ \E a \in answers : LoseAnswer(a)

Spec == Init /\ [][Next]_vars

\* The timer fires, a publisher that holds the chunk answers a request it gets,
\* and what stays in the network arrives.
Fairness ==
    \A c \in CIDs : /\ WF_vars(TimerCID(c))
                    /\ WF_vars(Answer(c, "matching"))
                    /\ \A content \in Content : WF_vars(ProcessCachePacket(c, content))

FairSpec == Spec /\ Fairness

-------------------------------------------------------------------------------
\* Every table entry has its type; in particular no request is ever recorded as
\* REQUEST_FAILED, which only XgetChunkStatus reports, for a CID it does not know.
TypeOK ==
    /\ XIDtoCIDreqPkt \subseteq CIDs /\ XIDtoTimerOn \subseteq CIDs
    /\ XIDtoStatus \in [CIDs -> Status \cup {NULL}]
    /\ XIDtoReadReq \in [CIDs -> {NULL, "no", "yes"}]
    /\ XIDtoCIDresponsePkt \in [CIDs -> Content \cup {NULL}]
    /\ requests \subseteq CIDs /\ answers \subseteq CIDs \X Content
    /\ reading \in CIDs \cup {NULL}
    /\ inbox \in Seq(CIDs \X Content)
    /\ losses \in 0 .. MaxLosses

\* run_timer looks a timed CID up in XIDtoCIDreqPkt without checking that it is
\* there; every running timer has its request, and exactly the chunks still
\* waited for have one.
TimedIsRequested ==
    /\ XIDtoTimerOn = XIDtoCIDreqPkt
    /\ \A c \in CIDs : c \in XIDtoTimerOn <=> XIDtoStatus[c] = "WAITING_FOR_CHUNK"

\* All answers share the socket's one UDP port, and click_reply takes what comes:
\* still a blocked XreadChunk is only ever handed the chunk it asked for, and no
\* chunk is left behind on the port for a later call.
ReplyIsForReader ==
    /\ Len(inbox) <= 1
    /\ inbox # << >> => reading = inbox[1][1]

\* A blocked reader is never forgotten: its chunk is on the port, or the note is
\* there for ProcessCachePacket and the request is still being retransmitted.
BlockedIsNoted ==
    reading # NULL =>
        \/ inbox # << >>
        \/ XIDtoReadReq[reading] = "yes" /\ reading \in XIDtoTimerOn

\* XIDtoStatus knows a CID from its first XrequestChunk on.
Reads == INSTANCE ChunkReads
             WITH asked <- {c \in CIDs : XIDtoStatus[c] # NULL},
                  reply <- IF inbox = << >> THEN NULL ELSE inbox[1]

\* The tables, notes, timers and the network together are a read that gets one
\* reply about its own chunk: no answer that is repeated, late or meant for an
\* earlier read adds a second one, takes it back or makes a chunk known that was
\* not asked for.
ImplementsChunkReads == Reads!Spec

\* XreadChunk of a requested chunk returns, whatever is lost on the way.
ReadReturns == \A c \in CIDs : reading = c ~> inbox # << >>
===============================================================================
