------------------------------ MODULE ChunkReads ------------------------------
(***************************************************************************)
(* What an XSOCK_CHUNK socket promises the application: XreadChunk of a    *)
(* chunk that was asked for gets one reply, which is about that chunk and  *)
(* stays the same until the call returns it.                               *)
(***************************************************************************)
CONSTANTS CIDs, Content, NULL

VARIABLES asked, reading, reply

Init == asked = {} /\ reading = NULL /\ reply = NULL

Request(cids) == /\ reading = NULL
                 /\ asked' = asked \cup cids
                 /\ UNCHANGED <<reading, reply>>

\* The call; the chunk may be there at once.
Read(c) == /\ reading = NULL /\ c \in asked
           /\ reading' = c
           /\ reply' \in {NULL} \cup ({c} \X Content)
           /\ UNCHANGED asked

Reply == /\ reading # NULL /\ reply = NULL
         /\ reply' \in {reading} \X Content
         /\ UNCHANGED <<asked, reading>>

Return == /\ reply # NULL
          /\ reading' = NULL /\ reply' = NULL
          /\ UNCHANGED asked

Next == \/ \E cids \in SUBSET CIDs : Request(cids)
        \/ \E c \in CIDs : Read(c)
        \/ Reply \/ Return

Spec == Init /\ [][Next]_<<asked, reading, reply>>
===============================================================================
