----------------------------- MODULE XChunkProofs -----------------------------
(***************************************************************************)
(* The safety of chunk reads for any set of CIDs and any number of losses. *)
(* The invariants the runs check are not inductive together: that a chunk  *)
(* on the port is the reader's own rests on a note in XIDtoReadReq being   *)
(* there only while its reader is blocked and has not been served.         *)
(***************************************************************************)
EXTENDS XChunk, TLAPS

\* A read note stands for the one reader that is blocked and still unserved.
NoteIsReader ==
    \A c \in CIDs : XIDtoReadReq[c] = "yes" => reading = c /\ inbox = << >>

IndInv == /\ TypeOK
          /\ TimedIsRequested
          /\ ReplyIsForReader
          /\ BlockedIsNoted
          /\ NoteIsReader

\* Before the first XrequestChunk nothing is waited for.
LEMMA InitIndInv == Init => IndInv
  BY ChunkAssumption DEF Init, IndInv, TypeOK, TimedIsRequested, ReplyIsForReader,
     BlockedIsNoted, NoteIsReader, Status

\* XrequestChunk: each requested CID gets its packet, timer and status together.
LEMMA RequestStep ==
    ASSUME IndInv, NEW cids \in SUBSET CIDs \ {{}}, XrequestChunk(cids)
    PROVE  IndInv'
  <1> USE DEF IndInv, XrequestChunk
  <1>1. TypeOK'  BY DEF TypeOK, Status
  <1>2. TimedIsRequested'  BY DEF TimedIsRequested, TypeOK
  <1>3. ReplyIsForReader'  BY DEF ReplyIsForReader
  <1>4. BlockedIsNoted'  BY DEF BlockedIsNoted
  <1>5. NoteIsReader'  BY DEF NoteIsReader
  <1> QED  BY <1>1, <1>2, <1>3, <1>4, <1>5

\* XreadChunk of a chunk that is still on its way leaves the reader's note.
LEMMA WaitStep ==
    ASSUME IndInv, NEW c \in CIDs, XreadChunkWaits(c)
    PROVE  IndInv'
  <1> USE DEF IndInv, XreadChunkWaits, ReadNote
  <1>0. inbox = << >> /\ c \in XIDtoTimerOn
    BY ChunkAssumption, SMT DEF ReplyIsForReader, TimedIsRequested, TypeOK
  <1>1. TypeOK'  BY DEF TypeOK
  <1>2. TimedIsRequested'  BY DEF TimedIsRequested, TypeOK
  <1>3. ReplyIsForReader'  BY <1>0 DEF ReplyIsForReader
  <1>4. BlockedIsNoted'  BY <1>0 DEF BlockedIsNoted, TypeOK
  <1>5. NoteIsReader'
    BY <1>0, ChunkAssumption DEF NoteIsReader, TypeOK
  <1> QED  BY <1>1, <1>2, <1>3, <1>4, <1>5

\* XreadChunk of a buffered chunk puts it on the port, which is empty.
LEMMA FindStep ==
    ASSUME IndInv, NEW c \in CIDs, XreadChunkFinds(c)
    PROVE  IndInv'
  <1> USE DEF IndInv, XreadChunkFinds
  <1>0. inbox = << >>
    BY ChunkAssumption, SMT DEF ReplyIsForReader, TypeOK
  <1>a. inbox' = << <<c, XIDtoCIDresponsePkt[c]>> >>
    BY <1>0
  <1>b. XIDtoCIDresponsePkt[c] \in Content
    BY DEF TypeOK
  <1>1. TypeOK'  BY <1>a, <1>b DEF TypeOK
  <1>2. TimedIsRequested'  BY DEF TimedIsRequested, TypeOK
  <1>3. ReplyIsForReader'  BY <1>a DEF ReplyIsForReader
  <1>4. BlockedIsNoted'  BY <1>a DEF BlockedIsNoted
  <1>5. NoteIsReader'
    BY ChunkAssumption DEF NoteIsReader, TypeOK
  <1> QED  BY <1>1, <1>2, <1>3, <1>4, <1>5

\* click_reply takes the one chunk on the port, so nothing is left there.
LEMMA ReturnStep ==
    ASSUME IndInv, XreadChunkReturns
    PROVE  IndInv'
  <1> USE DEF IndInv, XreadChunkReturns, socket
  <1>0. Len(inbox) = 1 /\ inbox \in Seq(CIDs \X Content)
    <2>1. inbox \in Seq(CIDs \X Content) /\ Len(inbox) <= 1 /\ inbox # << >>
      BY DEF ReplyIsForReader, TypeOK
    <2>2. Len(inbox) # 0
      BY <2>1
    <2>3. Len(inbox) \in Nat
      BY <2>1
    <2>4. \A n \in Nat : n <= 1 /\ n # 0 => n = 1
      OBVIOUS
    <2> QED  BY <2>1, <2>2, <2>3, <2>4, Zenon
  <1>a. inbox' = << >>
    <2>1. inbox' \in Seq(CIDs \X Content) /\ Len(inbox') = 0
      BY <1>0
    <2> QED  BY <2>1
  <1>1. TypeOK'  BY <1>a DEF TypeOK
  <1>2. TimedIsRequested'  BY DEF TimedIsRequested
  <1>3. ReplyIsForReader'  BY <1>a DEF ReplyIsForReader
  <1>4. BlockedIsNoted'  BY DEF BlockedIsNoted
  <1>5. NoteIsReader'  BY DEF NoteIsReader
  <1> QED  BY <1>1, <1>2, <1>3, <1>4, <1>5

\* An answer settles its request, and serves the blocked reader if it is its own.
LEMMA AnswerStep ==
    ASSUME IndInv, NEW c \in CIDs, NEW content \in Content,
           ProcessCachePacket(c, content)
    PROVE  IndInv'
  <1> USE DEF IndInv, ProcessCachePacket, SettledTimers, Served
  <1>0. HashStatus(content) \in {"READY_TO_READ", "INVALID_HASH"}
    BY DEF HashStatus
  <1>2. TimedIsRequested'  BY <1>0 DEF TimedIsRequested, TypeOK
  <1>3. CASE XIDtoReadReq[c] = "yes"
    <2>0. reading = c /\ inbox' = << <<c, content>> >>
      <3>1. reading = c /\ inbox = << >>
        BY <1>3 DEF NoteIsReader
      <3>2. inbox' = Append(inbox, <<c, content>>)
        BY <1>3
      <3> QED  BY <3>1, <3>2
    <2>1. TypeOK'  BY <1>3, <1>0, <2>0 DEF TypeOK, Status
    <2>2. ReplyIsForReader'  BY <2>0 DEF ReplyIsForReader
    <2>3. BlockedIsNoted'  BY <2>0 DEF BlockedIsNoted
    <2>4. NoteIsReader'
      BY <1>3, <2>0, ChunkAssumption DEF NoteIsReader, TypeOK
    <2> QED  BY <1>2, <2>1, <2>2, <2>3, <2>4
  <1>4. CASE XIDtoReadReq[c] # "yes"
    <2>1. TypeOK'  BY <1>4, <1>0 DEF TypeOK, Status
    <2>2. ReplyIsForReader'  BY <1>4 DEF ReplyIsForReader
    <2>3. BlockedIsNoted'  BY <1>4 DEF BlockedIsNoted, TypeOK
    <2>4. NoteIsReader'  BY <1>4 DEF NoteIsReader
    <2> QED  BY <1>2, <2>1, <2>2, <2>3, <2>4
  <1> QED  BY <1>3, <1>4

\* Retransmission, the publishers and the network leave the socket alone.
LEMMA NetworkStep ==
    ASSUME IndInv, UNCHANGED <<socket, reading, inbox>>, TypeOK'
    PROVE  IndInv'
  BY DEF IndInv, socket, TimedIsRequested, ReplyIsForReader, BlockedIsNoted, NoteIsReader

\* Every handler and timer step of a chunk socket keeps the inductive invariant.
LEMMA NextIndInv == IndInv /\ [Next]_vars => IndInv'
  <1> SUFFICES ASSUME IndInv, [Next]_vars PROVE IndInv'
    OBVIOUS
  <1>1. ASSUME NEW cids \in SUBSET CIDs \ {{}}, XrequestChunk(cids) PROVE IndInv'
    BY <1>1, RequestStep
  <1>2. ASSUME NEW c \in CIDs, XreadChunkWaits(c) PROVE IndInv'
    BY <1>2, WaitStep
  <1>3. ASSUME NEW c \in CIDs, XreadChunkFinds(c) PROVE IndInv'
    BY <1>3, FindStep
  <1>4. ASSUME NEW c \in CIDs, TimerCID(c) PROVE IndInv'
    <2>1. TypeOK'  BY <1>4 DEF IndInv, TypeOK, TimerCID, socket
    <2> QED  BY <1>4, <2>1, NetworkStep DEF TimerCID
  <1>5. ASSUME NEW c \in CIDs, LoseRequest(c) PROVE IndInv'
    <2>1. TypeOK'  BY <1>5, ChunkAssumption DEF IndInv, TypeOK, LoseRequest, socket
    <2> QED  BY <1>5, <2>1, NetworkStep DEF LoseRequest
  <1>6. ASSUME NEW c \in CIDs, NEW content \in Content, ProcessCachePacket(c, content)
        PROVE  IndInv'
    BY <1>6, AnswerStep
  <1>7. ASSUME NEW c \in CIDs, NEW content \in Content, Answer(c, content) PROVE IndInv'
    <2>1. TypeOK'  BY <1>7 DEF IndInv, TypeOK, Answer, socket
    <2> QED  BY <1>7, <2>1, NetworkStep DEF Answer
  <1>8. ASSUME XreadChunkReturns PROVE IndInv'
    BY <1>8, ReturnStep
  <1>9. ASSUME NEW a \in answers, LoseAnswer(a) PROVE IndInv'
    <2>1. TypeOK'  BY <1>9, ChunkAssumption DEF IndInv, TypeOK, LoseAnswer, socket
    <2> QED  BY <1>9, <2>1, NetworkStep DEF LoseAnswer
  <1>10. ASSUME UNCHANGED vars PROVE IndInv'
    <2>1. TypeOK'  BY <1>10 DEF IndInv, TypeOK, vars, socket
    <2> QED  BY <1>10, <2>1, NetworkStep DEF vars
  <1> QED
    BY <1>1, <1>2, <1>3, <1>4, <1>5, <1>6, <1>7, <1>8, <1>9, <1>10 DEF Next

\* Every table of the chunk socket keeps its type; no known CID is ever recorded
\* as REQUEST_FAILED.
THEOREM TypeCorrect == Spec => []TypeOK
  <1>1. IndInv => TypeOK  BY DEF IndInv
  <1> QED  BY <1>1, InitIndInv, NextIndInv, PTL DEF Spec

\* run_timer never looks up a request that is gone: a CID has a running timer
\* exactly while its request is kept and its chunk is waited for.
THEOREM TimersSound == Spec => []TimedIsRequested
  <1>1. IndInv => TimedIsRequested  BY DEF IndInv
  <1> QED  BY <1>1, InitIndInv, NextIndInv, PTL DEF Spec

\* XreadChunk is only ever handed the chunk it asked for, however answers to
\* several requests, duplicates among them, interleave with the reads.
THEOREM RepliesSound == Spec => []ReplyIsForReader
  <1>1. IndInv => ReplyIsForReader  BY DEF IndInv
  <1> QED  BY <1>1, InitIndInv, NextIndInv, PTL DEF Spec

\* A blocked XreadChunk is never forgotten by ProcessCachePacket and run_timer.
THEOREM BlockedSound == Spec => []BlockedIsNoted
  <1>1. IndInv => BlockedIsNoted  BY DEF IndInv
  <1> QED  BY <1>1, InitIndInv, NextIndInv, PTL DEF Spec
-------------------------------------------------------------------------------
(* The reads an application sees *)

\* A publisher answers what was asked for, so an answer in flight, however old, is about a CID
\* the status table knows.
AnswersWereAsked ==
    /\ \A c \in requests : XIDtoStatus[c] # NULL
    /\ \A c \in CIDs, content \in Content : <<c, content>> \in answers => XIDtoStatus[c] # NULL

\* The CIDs that were asked for and the reply on the port.
Asked   == {c \in CIDs : XIDtoStatus[c] # NULL}
OnPort  == IF inbox = << >> THEN NULL ELSE inbox[1]

\* What a handler may do to the reads, in the terms of the port.
ReadsStep ==
    \/ \E cids \in SUBSET CIDs : /\ reading = NULL /\ Asked' = Asked \cup cids
                                 /\ reading' = reading /\ OnPort' = OnPort
    \/ \E c \in CIDs : /\ reading = NULL /\ c \in Asked /\ reading' = c
                       /\ OnPort' \in {NULL} \cup ({c} \X Content) /\ Asked' = Asked
    \/ /\ reading # NULL /\ OnPort = NULL /\ OnPort' \in {reading} \X Content
       /\ Asked' = Asked /\ reading' = reading
    \/ OnPort # NULL /\ reading' = NULL /\ OnPort' = NULL /\ Asked' = Asked
    \/ Asked' = Asked /\ reading' = reading /\ OnPort' = OnPort

\* A status is never NULL.
LEMMA StatusNotNull == NULL \notin Status
  BY ChunkAssumption

\* A chunk on the port is not NULL: the port holds a chunk exactly when it is not empty.
LEMMA PortHolds ==
    ASSUME TypeOK
    PROVE  /\ inbox = << >> <=> OnPort = NULL
           /\ inbox # << >> => OnPort \in CIDs \X Content
  <1>1. inbox # << >> => inbox[1] \in CIDs \X Content  BY DEF TypeOK
  <1>2. NULL \notin CIDs \X Content  BY ChunkAssumption
  <1> QED  BY Zenon, <1>1, <1>2 DEF OnPort

\* Before the first XrequestChunk nothing was asked.
LEMMA InitAsked == Init => AnswersWereAsked
  BY DEF Init, AnswersWereAsked

\* XrequestChunk: the CIDs of the message are asked for.
LEMMA RequestRead ==
    ASSUME IndInv, AnswersWereAsked, NEW cids \in SUBSET CIDs \ {{}}, XrequestChunk(cids)
    PROVE  AnswersWereAsked' /\ ReadsStep
  <1>1. /\ reading = NULL /\ UNCHANGED <<answers, reading, inbox>> /\ requests' = requests \cup cids
        /\ XIDtoStatus' = [c \in CIDs |-> IF c \in cids THEN "WAITING_FOR_CHUNK" ELSE XIDtoStatus[c]]
    BY Zenon DEF XrequestChunk
  <1>2. "WAITING_FOR_CHUNK" # NULL  BY ChunkAssumption DEF Status
  <1>3. Asked' = Asked \cup cids  BY Zenon, <1>1, <1>2 DEF Asked
  <1>4. OnPort' = OnPort  BY Zenon, <1>1 DEF OnPort
  <1>5. AnswersWereAsked'
    BY Zenon, <1>1, <1>2 DEF AnswersWereAsked, IndInv, TypeOK
  <1> QED  BY Zenon, <1>1, <1>3, <1>4, <1>5 DEF ReadsStep

\* XreadChunk, whether the chunk is on its way or buffered.
LEMMA CallRead ==
    ASSUME IndInv, AnswersWereAsked, NEW c \in CIDs, XreadChunkWaits(c) \/ XreadChunkFinds(c)
    PROVE  AnswersWereAsked' /\ ReadsStep
  <1>1. /\ reading = NULL /\ reading' = c /\ UNCHANGED <<XIDtoStatus, requests, answers>>
        /\ XIDtoStatus[c] \in Status
    BY DEF XreadChunkWaits, XreadChunkFinds, Status
  <1>2. Asked' = Asked /\ c \in Asked  BY Zenon, <1>1, StatusNotNull DEF Asked
  <1>3. AnswersWereAsked'  BY Zenon, <1>1 DEF AnswersWereAsked
  <1>4. inbox = << >>
    BY ChunkAssumption, <1>1 DEF IndInv, ReplyIsForReader, TypeOK
  <1>5. OnPort' \in {NULL} \cup ({c} \X Content)
    <2>1. CASE XreadChunkWaits(c)
      BY Zenon, <1>4, <2>1 DEF XreadChunkWaits, OnPort
    <2>2. CASE XreadChunkFinds(c)
      <3>1. inbox' = << <<c, XIDtoCIDresponsePkt[c]>> >>  BY <1>4, <2>2 DEF XreadChunkFinds
      <3>2. XIDtoCIDresponsePkt[c] \in Content  BY <2>2 DEF XreadChunkFinds, IndInv, TypeOK
      <3>3. OnPort' = <<c, XIDtoCIDresponsePkt[c]>>  BY <3>1 DEF OnPort
      <3> QED  BY Zenon, <3>2, <3>3
    <2> QED  BY Zenon, <2>1, <2>2
  <1> QED  BY Zenon, <1>1, <1>2, <1>3, <1>5 DEF ReadsStep

\* click_reply takes the chunk off the port and leaves it empty.
LEMMA ReturnRead ==
    ASSUME IndInv, AnswersWereAsked, XreadChunkReturns
    PROVE  AnswersWereAsked' /\ ReadsStep
  <1>1. /\ inbox # << >> /\ inbox' = Tail(inbox) /\ reading' = NULL
        /\ UNCHANGED <<XIDtoStatus, requests, answers>>
    BY Zenon DEF XreadChunkReturns, socket
  <1>2. inbox \in Seq(CIDs \X Content) /\ Len(inbox) <= 1
    BY Zenon DEF IndInv, TypeOK, ReplyIsForReader
  <1>3. inbox' = << >>  BY <1>1, <1>2
  <1>4. OnPort # NULL /\ OnPort' = NULL
    <2>1. OnPort # NULL  BY Zenon, <1>1, PortHolds DEF IndInv
    <2>2. OnPort' = NULL  BY Zenon, <1>3 DEF OnPort
    <2> QED  BY Zenon, <2>1, <2>2
  <1>5. Asked' = Asked /\ AnswersWereAsked'  BY Zenon, <1>1 DEF Asked, AnswersWereAsked
  <1> QED  BY Zenon, <1>1, <1>4, <1>5 DEF ReadsStep

\* ProcessCachePacket: the one answer the reader waits for, or nothing the reader sees.
LEMMA AnswerRead ==
    ASSUME IndInv, AnswersWereAsked, NEW c \in CIDs, NEW content \in Content,
           ProcessCachePacket(c, content)
    PROVE  AnswersWereAsked' /\ ReadsStep
  <1>1. /\ <<c, content>> \in answers /\ UNCHANGED <<requests, answers, reading>>
        /\ XIDtoStatus' = [XIDtoStatus EXCEPT ![c] = HashStatus(content)]
    BY Zenon DEF ProcessCachePacket
  <1>2. HashStatus(content) # NULL  BY ChunkAssumption DEF HashStatus, Status
  <1>3. XIDtoStatus[c] # NULL  BY Zenon, <1>1 DEF AnswersWereAsked
  <1>4. \A d \in CIDs : XIDtoStatus'[d] # NULL <=> XIDtoStatus[d] # NULL
    BY Zenon, <1>1, <1>2, <1>3 DEF IndInv, TypeOK
  <1>5. Asked' = Asked  BY Zenon, <1>4 DEF Asked
  <1>6. AnswersWereAsked'
    <2>1. requests \subseteq CIDs  BY Zenon DEF IndInv, TypeOK
    <2> QED  BY Zenon, <1>1, <1>4, <2>1 DEF AnswersWereAsked
  <1>7. CASE XIDtoReadReq[c] = "yes"
    <2>1. reading = c /\ inbox = << >>  BY Zenon, <1>7 DEF IndInv, NoteIsReader
    <2>2. inbox' = << <<c, content>> >>
      <3>1. inbox' = Append(inbox, <<c, content>>)  BY Zenon, <1>7 DEF ProcessCachePacket
      <3> QED  BY <2>1, <3>1
    <2>3. OnPort = NULL /\ OnPort' = <<c, content>>  BY <2>1, <2>2 DEF OnPort
    <2>4. reading # NULL  BY ChunkAssumption, <2>1
    <2>5. OnPort' \in {reading} \X Content  BY Zenon, <2>1, <2>3
    <2> QED  BY Zenon, <1>1, <1>5, <1>6, <2>3, <2>4, <2>5 DEF ReadsStep
  <1>8. CASE XIDtoReadReq[c] # "yes"
    <2>1. inbox' = inbox  BY Zenon, <1>8 DEF ProcessCachePacket
    <2>2. OnPort' = OnPort  BY Zenon, <2>1 DEF OnPort
    <2> QED  BY Zenon, <1>1, <1>5, <1>6, <2>2 DEF ReadsStep
  <1> QED  BY Zenon, <1>7, <1>8

\* Every step of the socket and of the network is a step of the reads, or nothing to them.
LEMMA NextReads ==
    IndInv /\ AnswersWereAsked /\ [Next]_vars => AnswersWereAsked' /\ ReadsStep
  <1> SUFFICES ASSUME IndInv, AnswersWereAsked, [Next]_vars PROVE AnswersWereAsked' /\ ReadsStep
    OBVIOUS
  <1>1. ASSUME UNCHANGED <<socket, reading, inbox>>, requests' \subseteq requests \cup XIDtoCIDreqPkt,
               \A c \in CIDs, content \in Content :
                   <<c, content>> \in answers' => <<c, content>> \in answers \/ c \in requests
        PROVE  AnswersWereAsked' /\ ReadsStep
    <2>1. UNCHANGED <<XIDtoStatus, inbox, reading>>  BY Zenon, <1>1 DEF socket
    <2>2. \A c \in XIDtoCIDreqPkt : XIDtoStatus[c] # NULL
      <3>1. \A c \in XIDtoCIDreqPkt : c \in CIDs /\ XIDtoStatus[c] = "WAITING_FOR_CHUNK"
        BY Zenon DEF IndInv, TypeOK, TimedIsRequested
      <3> QED  BY <3>1, ChunkAssumption DEF Status
    <2>3. AnswersWereAsked'  BY Zenon, <1>1, <2>1, <2>2 DEF AnswersWereAsked
    <2>4. Asked' = Asked /\ OnPort' = OnPort  BY Zenon, <2>1 DEF Asked, OnPort
    <2> QED  BY Zenon, <2>1, <2>3, <2>4 DEF ReadsStep
  <1>2. ASSUME NEW c \in CIDs, TimerCID(c) PROVE AnswersWereAsked' /\ ReadsStep
    BY Zenon, <1>1, <1>2 DEF TimerCID
  <1>3. ASSUME NEW c \in CIDs, LoseRequest(c) PROVE AnswersWereAsked' /\ ReadsStep
    BY Zenon, <1>1, <1>3 DEF LoseRequest
  <1>4. ASSUME NEW c \in CIDs, NEW content \in Content, Answer(c, content)
        PROVE  AnswersWereAsked' /\ ReadsStep
    BY Zenon, <1>1, <1>4 DEF Answer
  <1>5. ASSUME NEW a \in answers, LoseAnswer(a) PROVE AnswersWereAsked' /\ ReadsStep
    BY Zenon, <1>1, <1>5 DEF LoseAnswer
  <1>6. ASSUME UNCHANGED vars PROVE AnswersWereAsked' /\ ReadsStep
    BY Zenon, <1>1, <1>6 DEF vars
  <1> QED
    BY Zenon, <1>2, <1>3, <1>4, <1>5, <1>6, RequestRead, CallRead, ReturnRead, AnswerRead DEF Next

\* A chunk socket implements the reads of ChunkReads for any set of CIDs and any number of
\* losses: every read gets one reply, about the chunk it asked for.
THEOREM ReadsImplemented == Spec => ImplementsChunkReads
  <1>1. Init => Reads!Init
    <2> SUFFICES ASSUME Init PROVE Reads!Init  OBVIOUS
    <2>1. {c \in CIDs : XIDtoStatus[c] # NULL} = {}  BY Zenon DEF Init
    <2> QED  BY Zenon, <2>1 DEF Init, Reads!Init
  <1>2. IndInv /\ AnswersWereAsked /\ [Next]_vars =>
          [Reads!Next]_<<Asked, reading, OnPort>>
    <2> SUFFICES ASSUME IndInv, AnswersWereAsked, [Next]_vars
                 PROVE  [Reads!Next]_<<Asked, reading, OnPort>>
      OBVIOUS
    <2>1. ReadsStep  BY Zenon, NextReads
    <2> QED
      BY Zenon, <2>1 DEF ReadsStep, Asked, OnPort, Reads!Next, Reads!Request, Reads!Read,
         Reads!Reply, Reads!Return
  <1>3. Spec => Reads!Init /\ [][Reads!Next]_<<Asked, reading, OnPort>>
    BY <1>1, <1>2, InitIndInv, NextIndInv, InitAsked, NextReads, PTL DEF Spec
  <1> QED  BY <1>3, PTL DEF ImplementsChunkReads, Reads!Spec, Asked, OnPort
===============================================================================
