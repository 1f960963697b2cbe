--------------------------- MODULE XTransportProofs ---------------------------
(***************************************************************************)
(* The tables of an XTRANSPORT element for any number of ports, SYNs,      *)
(* sends and retries: the invariants of XTransport, which are not          *)
(* inductive on their own, follow from IndInv.  The steps that fill and    *)
(* drain the queue of pending connections are here, with the counting of   *)
(* notices and accepts they need, then the theorems.                       *)
(***************************************************************************)
EXTENDS XTransportSteps, FiniteSetTheorems

\* Before any notice or accept there is nothing to claim.
LEMMA NoClaims ==
    ASSUME \A l \in Listeners : taken[l] = 0 /\ inbox[l] = << >>,
           \A a \in AcceptPorts : app[a] = "none"
    PROVE  Claims = {}
  <1>1. ASSUME NEW l \in Listeners, NEW k \in Nat
        PROVE  ~(taken[l] < k /\ k <= Len(inbox[l]))
    <2>1. taken[l] = 0 /\ Len(inbox[l]) = 0  OBVIOUS
    <2> QED  BY <2>1
  <1>2. \A a \in AcceptPorts : app[a] # "accepting"  OBVIOUS
  <1>3. \A n \in (Listeners \cup AcceptPorts) \X Nat : n[2] \in Nat  OBVIOUS
  <1>4. \A n \in (Listeners \cup AcceptPorts) \X Nat :
          ~ \/ n[1] \in Listeners /\ taken[n[1]] < n[2] /\ n[2] <= Len(inbox[n[1]])
            \/ n[1] \in AcceptPorts /\ n[2] = 0 /\ app[n[1]] = "accepting"
    BY Zenon, <1>1, <1>2, <1>3
  <1> QED  BY Zenon, <1>4 DEF Claims

\* The tables start empty.
LEMMA InitIndInv == Init => IndInv
  <1> SUFFICES ASSUME Init PROVE IndInv  OBVIOUS
  <1> USE SIDsAssumption DEF Init, Open
  <1>1. TypeOK
    <2>1. \A p \in Ports : inbox[p] = << >> /\ taken[p] = 0  OBVIOUS
    <2>2. \A p \in Ports : taken[p] <= Len(inbox[p])  BY <2>1
    <2> QED  BY SMTT(30), <2>2 DEF TypeOK
  <1>2. Kinds /\ Sockets /\ Routing /\ Pairs /\ Connected
    BY ZenonT(60) DEF Kinds, Sockets, Routing, Pairs, Connected, Ports
  <1>3. Messages /\ Streams /\ Grants
    BY SMTT(30) DEF Messages, Streams, Grants, GrantedOnce, Ports
  <1>4. Claimed
    <2>1. \A l \in Listeners : taken[l] = 0 /\ inbox[l] = << >>  BY Zenon DEF Ports
    <2>2. \A a \in AcceptPorts : app[a] = "none"  BY Zenon DEF Ports
    <2>3. Claims = {}  BY Zenon, <2>1, <2>2, NoClaims
    <2> QED  BY SMTT(30), <2>3, FS_EmptySet DEF Claimed
  <1> QED  BY ZenonT(60), <1>1, <1>2, <1>3, <1>4 DEF IndInv

\* The type of an entry of the queue.
Pending == [src : Listeners, dst : Clients]

\* A SYN is queued, answered, and notified if its listener is still bound.
LEMMA SynStep ==
    ASSUME IndInv, NEW m \in net, RecvSYN(m)
    PROVE  IndInv'
  <1> USE DEF IndInv
  <1> DEFINE l == m.dst
             c == m.src
             k == Segment("SYNACK", l, c, 0, NULL)
             conn == [src |-> l, dst |-> c]
             queue == pending_connection_buf
  <1>1. /\ m.type = "SYN" /\ syns < MaxSyns /\ syns' = syns + 1
        /\ queue' = Append(queue, conn)
        /\ net' = net \cup {k}
        /\ inbox' = IF XIDtoPort[l] = NULL THEN inbox
                    ELSE [inbox EXCEPT ![XIDtoPort[l]] = Append(@, Request)]
        /\ UNCHANGED <<portToDAGinfo, XIDtoPort, XIDpairToPort, routes, taken, app, listener>>
    BY Zenon DEF RecvSYN, Arrives, Queued, tables
  <1>2. l \in Listeners /\ c \in Clients /\ XIDpairToPort[<<c, l>>] = c
    BY ZenonT(60), <1>1 DEF Messages, Proper
  <1>3. l \in XIDs /\ c \in XIDs /\ l \in Ports /\ l \notin Clients /\ l \notin AcceptPorts
    BY ZenonT(60), <1>2, SIDsAssumption DEF Ports
  <1>4. k \in Msg /\ k.type = "SYNACK" /\ k.src = l /\ k.dst = c  BY SMTT(30), <1>3, SegmentType
  <1>5. conn \in Pending /\ conn \in [src : XIDs, dst : XIDs]  BY ZenonT(60), <1>2, <1>3 DEF Pending
  <1> HIDE DEF l, c, k, conn
  <1>6. /\ queue \in Seq(Pending) /\ queue' \in Seq(Pending)
        /\ Len(queue) \in Nat /\ Len(queue') = Len(queue) + 1
    <2>1. queue \in Seq(Pending)  BY ZenonT(60) DEF Messages, Pending
    <2> HIDE DEF queue
    <2> QED  BY SMTT(30), <1>1, <1>5, <2>1
  <1>7. queue' \in Seq([src : XIDs, dst : XIDs])
    <2> DEFINE All == [src : XIDs, dst : XIDs]
    <2>1. queue \in Seq(All) /\ conn \in All  BY ZenonT(60), <1>5 DEF TypeOK
    <2> HIDE DEF queue, All
    <2>2. queue' \in Seq(All)  BY SMTT(30), <1>1, <2>1
    <2> QED  BY Zenon, <2>2 DEF All
  <1>8. Messages'
    <2>1. Proper(k, XIDpairToPort)  BY ZenonT(60), <1>2, <1>4 DEF Proper
    <2>2. \A x \in net' : Proper(x, XIDpairToPort')  BY Zenon, <1>1, <2>1 DEF Messages
    <2> QED  BY ZenonT(60), <1>6, <2>2 DEF Messages, Pending
  <1>9. \A q \in Ports : Open(q)' = Open(q)  BY ZenonT(60), <1>1 DEF Open
  <1>10. Kinds' /\ Sockets' /\ Routing' /\ Connected'
    BY ZenonT(60), <1>1, <1>9 DEF Kinds, Sockets, Routing, Connected, Ports
  <1>11. Pairs'
    <2>1. \A x, y \in XIDs : XIDpairToPort[<<x, y>>] \in Ports \cup {NULL}  BY Zenon DEF TypeOK
    <2>2. \A q \in Ports : PeerKept(q)  BY ZenonT(60), <1>1, <1>9 DEF PeerKept
    <2> QED  BY Zenon, <1>1, <2>1, <2>2, PairsKept
  <1>12. net' \subseteq Msg /\ syns' \in 0 .. MaxSyns
    <2>1. net' \subseteq Msg  BY ZenonT(60), <1>1, <1>4 DEF TypeOK
    <2>2. syns \in 0 .. MaxSyns  BY ZenonT(60) DEF TypeOK
    <2>3. syns' \in 0 .. MaxSyns  BY SMTT(30), <1>1, <2>2, SIDsAssumption
    <2> QED  BY Zenon, <2>1, <2>3
  <1>13. CASE XIDtoPort[l] = NULL
    <2>1. UNCHANGED inbox  BY ZenonT(60), <1>1, <1>13
    <2>2. TypeOK'  BY ZenonT(60), <1>1, <1>7, <1>12, <2>1 DEF TypeOK
    <2>3. Streams' /\ Grants'  BY ZenonT(60), <1>1, <1>9, <2>1 DEF Streams, Grants, GrantedOnce, Ports
    <2>4. Claims' = Claims  BY ZenonT(60), <1>1, <2>1 DEF Claims
    <2>5. IsFiniteSet(Claims) /\ Cardinality(Claims) <= Len(queue)  BY Zenon DEF Claimed
    <2>6. Cardinality(Claims) \in Nat  BY ZenonT(60), <2>5, FS_CardinalityType
    <2>7. Claimed'  BY SMTT(30), <1>6, <2>4, <2>5, <2>6 DEF Claimed
    <2> QED  BY ZenonT(60), <1>8, <1>10, <1>11, <2>2, <2>3, <2>7
  <1>14. CASE XIDtoPort[l] # NULL
    <2>1. XIDtoPort[l] = l  BY ZenonT(60), <1>3, <1>14 DEF Routing
    <2>2. inbox' = [inbox EXCEPT ![l] = Append(@, Request)]  BY ZenonT(60), <1>1, <1>14, <2>1
    <2>3. /\ inbox' \in [Ports -> Seq({Granted, Request} \cup {Payload(y) : y \in Data})]
          /\ \A q \in Ports : taken'[q] <= Len(inbox'[q])
          /\ \A q \in Ports \ {l} : inbox'[q] = inbox[q]
          /\ Len(inbox'[l]) = Len(inbox[l]) + 1
      BY ZenonT(60), <1>1, <1>3, <2>2, Pushes
    <2>4. TypeOK'  BY ZenonT(60), <1>1, <1>7, <1>12, <2>3 DEF TypeOK
    <2>5. \A q \in Clients \cup AcceptPorts : q \in Ports \ {l}  BY ZenonT(60), <1>3 DEF Ports
    <2>6. Streams' /\ Grants'
      <3>1. \A q \in Clients \cup AcceptPorts :
               /\ inbox'[q] = inbox[q] /\ app'[q] = app[q] /\ Open(q)' = Open(q)
               /\ portToDAGinfo'[q] = portToDAGinfo[q]
        BY ZenonT(30), <1>1, <1>9, <2>3, <2>5
      <3>2. Streams'  BY ZenonT(30), <3>1 DEF Streams
      <3>3. GrantedOnce'  BY ZenonT(30), <3>1 DEF Grants, GrantedOnce
      <3>4. Grants'  BY ZenonT(30), <3>1, <3>3 DEF Grants
      <3> QED  BY Zenon, <3>2, <3>4
    <2>7. Claims' \subseteq Claims \cup {<<l, Len(inbox[l]) + 1>>}
      <3>1. \A q \in Listeners \ {l} : inbox'[q] = inbox[q]  BY Zenon, <2>3 DEF Ports
      <3>2. Len(inbox[l]) \in Nat  BY ZenonT(60), <1>3, PortTypes
      <3>3. \A i \in Nat : i <= Len(inbox[l]) + 1 => i <= Len(inbox[l]) \/ i = Len(inbox[l]) + 1
        BY SMTT(30), <3>2
      <3> QED  BY SMTT(30), <1>1, <2>3, <3>1, <3>3 DEF Claims
    <2>8. IsFiniteSet(Claims) /\ Cardinality(Claims) <= Len(queue)  BY DEF Claimed
    <2>9. Cardinality(Claims) \in Nat  BY SMTT(30), <2>8, FS_CardinalityType
    <2> DEFINE bigger == Claims \cup {<<l, Len(inbox[l]) + 1>>}
    <2>10. IsFiniteSet(bigger) /\ Cardinality(bigger) <= Cardinality(Claims) + 1
      <3> DEFINE claim == <<l, Len(inbox[l]) + 1>>
      <3> HIDE DEF claim
      <3>1. /\ IsFiniteSet(Claims \cup {claim})
            /\ \/ Cardinality(Claims \cup {claim}) = Cardinality(Claims)
               \/ Cardinality(Claims \cup {claim}) = Cardinality(Claims) + 1
        BY ZenonT(60), <2>8, FS_AddElement
      <3>2. bigger = Claims \cup {claim}  BY Zenon DEF claim
      <3> HIDE DEF bigger
      <3> QED  BY SMTT(30), <2>9, <3>1, <3>2
    <2> HIDE DEF bigger
    <2>11. IsFiniteSet(Claims') /\ Cardinality(Claims') <= Cardinality(bigger)
      BY ZenonT(60), <2>7, <2>10, FS_Subset DEF bigger
    <2>12. Cardinality(Claims') \in Nat /\ Cardinality(bigger) \in Nat
      BY ZenonT(60), <2>10, <2>11, FS_CardinalityType
    <2>13. Cardinality(Claims') <= Len(queue')  BY SMTT(30), <1>6, <2>8, <2>9, <2>10, <2>11, <2>12
    <2>14. Claimed'  BY Zenon, <2>11, <2>13 DEF Claimed
    <2> QED  BY SMTT(30), <1>8, <1>10, <1>11, <2>4, <2>6, <2>14
  <1> QED  BY ZenonT(60), <1>13, <1>14

\* Xaccept's first half: the notice is consumed and the accept is under way.
LEMMA NotifiedStep ==
    ASSUME IndInv, NEW l \in Listeners, NEW a \in AcceptPorts, XacceptNotified(l, a)
    PROVE  IndInv'
  <1> USE DEF IndInv
  <1>1. /\ app[l] = "listening" /\ app[a] = "none" /\ taken[l] < Len(inbox[l])
        /\ taken' = [taken EXCEPT ![l] = @ + 1]
        /\ app' = [app EXCEPT ![a] = "accepting"]
        /\ listener' = [listener EXCEPT ![a] = l]
        /\ UNCHANGED <<portToDAGinfo, XIDtoPort, XIDpairToPort, routes, pending_connection_buf, net,
                       inbox, syns>>
    BY Zenon DEF XacceptNotified, tables
  <1>2. l \in Ports /\ a \in Ports /\ a \notin Clients /\ a \notin Listeners /\ l \notin AcceptPorts
    BY Zenon, SIDsAssumption DEF Ports
  <1>3. taken[l] \in Nat /\ Len(inbox[l]) \in Nat  BY ZenonT(60), <1>2, PortTypes
  <1>4. /\ app'[a] = "accepting" /\ \A q \in Ports \ {a} : app'[q] = app[q]
        /\ app' \in [Ports -> {"none", "open", "listening", "connecting", "accepting", "up",
                               "closed", "ECONNABORTED"}]
    BY ZenonT(60), <1>1, <1>2 DEF TypeOK
  <1>5. /\ taken' \in [Ports -> Nat] /\ taken'[l] = taken[l] + 1
        /\ \A q \in Ports \ {l} : taken'[q] = taken[q]
    BY SMTT(30), <1>1, <1>2, <1>3 DEF TypeOK
  <1>6. taken'[l] <= Len(inbox[l])  BY SMTT(30), <1>1, <1>3, <1>5
  <1>7. ~Open(a)  BY Zenon, <1>1, <1>2 DEF Sockets, Sound
  <1>8. \A q \in Ports : Open(q)' = Open(q)  BY Zenon, <1>1 DEF Open
  <1>9. TypeOK'
    <2>1. \A q \in Ports : taken'[q] <= Len(inbox'[q])  BY ZenonT(60), <1>1, <1>5, <1>6 DEF TypeOK
    <2>2. listener' \in [AcceptPorts -> Listeners \cup {NULL}]  BY Zenon, <1>1 DEF TypeOK
    <2> QED  BY ZenonT(60), <1>1, <1>4, <1>5, <2>1, <2>2 DEF TypeOK
  <1>10. Kinds'  BY ZenonT(60), <1>2, <1>4, <1>8 DEF Kinds, Ports
  <1>11. Sockets'  BY ZenonT(60), <1>1, <1>4, <1>7, <1>8 DEF Sockets
  <1>12. Routing' /\ Connected'  BY ZenonT(60), <1>1, <1>2, <1>4, <1>8 DEF Routing, Connected, Ports
  <1>13. Pairs'
    <2>1. \A x, y \in XIDs : XIDpairToPort[<<x, y>>] \in (Ports \ {a}) \cup {NULL}
      BY Zenon, <1>1, <1>2, NotPaired
    <2>2. \A q \in Ports \ {a} : PeerKept(q)  BY Zenon, <1>1, <1>4, <1>8 DEF PeerKept
    <2> QED  BY ZenonT(60), <1>1, <2>1, <2>2, PairsKept
  <1>14. Messages'  BY Zenon, <1>1 DEF Messages
  <1>15. Streams'  BY SMTT(30), <1>1, <1>2, <1>4, <1>8 DEF Streams, Ports
  <1>16. Grants'  BY ZenonT(60), <1>1, <1>2, <1>4, <1>8 DEF Grants, GrantedOnce, Ports
  <1>17. Claimed'
    <2> DEFINE notice == <<l, taken[l] + 1>>
               accept == <<a, 0>>
               rest == Claims \ {notice}
    <2>1. notice \in Claims
      <3>1. taken[l] + 1 \in Nat /\ taken[l] < taken[l] + 1 /\ taken[l] + 1 <= Len(inbox[l])
        BY <1>1, <1>3
      <3> QED  BY Zenon, <3>1 DEF Claims
    <2>2. Claims' \subseteq rest \cup {accept}
      <3> SUFFICES ASSUME NEW n \in Claims', n # accept PROVE n \in rest  OBVIOUS
      <3>1. n \in (Listeners \cup AcceptPorts) \X Nat  BY Zenon DEF Claims
      <3>2. n[1] \in Ports /\ n[2] \in Nat /\ n = <<n[1], n[2]>>  BY <3>1 DEF Ports
      <3>3. CASE n[1] \in Listeners /\ taken'[n[1]] < n[2] /\ n[2] <= Len(inbox'[n[1]])
        <4>1. n[1] # l => n \in Claims /\ n # notice  BY SMTT(30), <1>1, <1>5, <3>1, <3>2, <3>3 DEF Claims
        <4>2. n[1] = l => taken[l] < n[2] /\ n[2] # taken[l] + 1
          BY SMTT(30), <1>3, <1>5, <3>2, <3>3
        <4>3. n[1] = l => n \in Claims /\ n # notice  BY SMTT(30), <1>1, <3>1, <3>2, <3>3, <4>2 DEF Claims
        <4> QED  BY Zenon, <4>1, <4>3
      <3>4. CASE n[1] \in AcceptPorts /\ n[2] = 0 /\ app'[n[1]] = "accepting"
        <4>1. n[1] # a  BY Zenon, <3>2, <3>4
        <4>2. n \in Claims  BY Zenon, <1>4, <3>1, <3>2, <3>4, <4>1 DEF Claims
        <4>3. n[1] # l  BY Zenon, <1>2, <3>4
        <4> QED  BY <4>2, <4>3
      <3> QED  BY Zenon, <3>3, <3>4 DEF Claims
    <2>3. IsFiniteSet(Claims) /\ Cardinality(Claims) <= Len(pending_connection_buf)
      BY Zenon DEF Claimed
    <2>4. Cardinality(Claims) \in Nat /\ Len(pending_connection_buf) \in Nat
      BY <2>3, FS_CardinalityType DEF Messages
    <2> HIDE DEF notice, accept, rest
    <2>5. IsFiniteSet(rest) /\ Cardinality(rest) = Cardinality(Claims) - 1
      BY Zenon, <2>1, <2>3, FS_RemoveElement DEF rest
    <2>6. /\ IsFiniteSet(rest \cup {accept})
          /\ \/ Cardinality(rest \cup {accept}) = Cardinality(rest)
             \/ Cardinality(rest \cup {accept}) = Cardinality(rest) + 1
      BY Zenon, <2>5, FS_AddElement
    <2>7. IsFiniteSet(Claims') /\ Cardinality(Claims') <= Cardinality(rest \cup {accept})
      BY Zenon, <2>2, <2>6, FS_Subset
    <2>8. Cardinality(Claims') \in Nat /\ Cardinality(rest \cup {accept}) \in Nat
      BY Zenon, <2>6, <2>7, FS_CardinalityType
    <2>9. Cardinality(Claims') <= Len(pending_connection_buf)
      BY SMTT(30), <2>3, <2>4, <2>5, <2>6, <2>7, <2>8
    <2> QED  BY ZenonT(60), <1>1, <2>7, <2>9 DEF Claimed
  <1> QED  BY ZenonT(60), <1>9, <1>10, <1>11, <1>12, <1>13, <1>14, <1>15, <1>16, <1>17

\* The socket Xaccept makes.
LEMMA AcceptFacts ==
    ASSUME NEW x \in XIDs, NEW y \in XIDs
    PROVE  LET e == XacceptInfo(x, y) IN
           /\ e \in DAGinfo
           /\ e.src_path = x /\ e.dst_path = y /\ e.isConnected /\ e.isAcceptSocket
           /\ ~e.teardown_waiting /\ ~e.synack_waiting /\ ~e.dataack_waiting
           /\ e.expected_seqnum = 0
           /\ \A i \in Slots : e.sent_pkt[i] = NULL
  BY ZenonT(60), XsocketFacts DEF XacceptInfo, DAGinfo

\* Xaccept's second half: the accept under way has an entry to take.
LEMMA AcceptStep ==
    ASSUME IndInv, NEW a \in AcceptPorts, Xaccept(a)
    PROVE  IndInv'
  <1> USE DEF IndInv
  <1> DEFINE queue == pending_connection_buf
             conn == Head(queue)
             e == XacceptInfo(conn.src, conn.dst)
             accept == <<a, 0>>
  <1>1. /\ app[a] = "accepting"
        /\ UNCHANGED <<XIDtoPort, routes, net, inbox, taken, listener, syns>>
    BY Zenon DEF Xaccept
  <1>2. a \in Ports /\ a \notin Clients /\ a \notin Listeners  BY Zenon, SIDsAssumption DEF Ports
  <1>3. queue \in Seq(Pending)  BY Zenon DEF Messages, Pending
  <1>4. accept \in Claims  BY Zenon, <1>1 DEF Claims
  <1>5. IsFiniteSet(Claims) /\ Cardinality(Claims) <= Len(queue)  BY Zenon DEF Claimed
  <1>6. Cardinality(Claims) \in Nat /\ Len(queue) \in Nat
    BY <1>3, <1>5, FS_CardinalityType
  <1>7. /\ IsFiniteSet(Claims \ {accept})
        /\ Cardinality(Claims \ {accept}) = Cardinality(Claims) - 1
    BY Zenon, <1>4, <1>5, FS_RemoveElement
  <1>8. Cardinality(Claims \ {accept}) \in Nat  BY Zenon, <1>7, FS_CardinalityType
  <1>9. Len(queue) > 0  BY SMTT(30), <1>5, <1>6, <1>7, <1>8
  <1>10. queue # << >>  BY <1>9
  <1>11. /\ portToDAGinfo' = [portToDAGinfo EXCEPT ![a] = e]
         /\ XIDpairToPort' = [XIDpairToPort EXCEPT ![<<conn.src, conn.dst>>] = a]
         /\ queue' = Tail(queue)
         /\ app' = [app EXCEPT ![a] = "up"]
    BY Zenon, <1>10 DEF Xaccept
  <1>12. conn \in Pending /\ Tail(queue) \in Seq(Pending) /\ Len(Tail(queue)) = Len(queue) - 1
    <2> HIDE DEF queue
    <2> QED  BY <1>3, <1>10
  <1>13. Tail(queue) \in Seq([src : XIDs, dst : XIDs])
    <2> DEFINE All == [src : XIDs, dst : XIDs]
    <2>1. queue \in Seq(All)  BY Zenon DEF TypeOK
    <2> HIDE DEF queue, All
    <2>2. Tail(queue) \in Seq(All)  BY <1>10, <2>1
    <2> QED  BY Zenon, <2>2 DEF All
  <1>14. conn.src \in Listeners /\ conn.dst \in Clients  BY Zenon, <1>12 DEF Pending
  <1>15. conn.src \in XIDs /\ conn.dst \in XIDs  BY Zenon, <1>14, SIDsAssumption
  <1>16. /\ e \in DAGinfo
         /\ e.src_path = conn.src /\ e.dst_path = conn.dst /\ e.isConnected /\ e.isAcceptSocket
         /\ ~e.teardown_waiting /\ ~e.synack_waiting /\ ~e.dataack_waiting
         /\ e.expected_seqnum = 0
         /\ \A i \in Slots : e.sent_pkt[i] = NULL
    BY <1>15, AcceptFacts
  <1> HIDE DEF conn, e, queue
  <1>17. Sound(a, "up", e)  BY Zenon, <1>2, <1>14, <1>16 DEF Sound
  <1>18. /\ portToDAGinfo' \in [Ports -> DAGinfo \cup {NULL}]
         /\ portToDAGinfo'[a] = e
         /\ \A q \in Ports \ {a} : portToDAGinfo'[q] = portToDAGinfo[q]
         /\ app'[a] = "up" /\ \A q \in Ports \ {a} : app'[q] = app[q]
         /\ app' \in [Ports -> {"none", "open", "listening", "connecting", "accepting", "up",
                                "closed", "ECONNABORTED"}]
         /\ Open(a)' /\ \A q \in Ports \ {a} : Open(q)' = Open(q)
         /\ Sockets'
    BY ZenonT(30), <1>2, <1>11, <1>16, <1>17, ApiStep
  <1>19. /\ XIDpairToPort' \in [XIDs \X XIDs -> Ports \cup {NULL}]
         /\ \A x, y \in XIDs :
               XIDpairToPort'[<<x, y>>] = IF x = conn.src /\ y = conn.dst THEN a
                                          ELSE XIDpairToPort[<<x, y>>]
    BY Zenon, <1>2, <1>11, <1>15 DEF TypeOK
  <1>20. TypeOK'  BY ZenonT(60), <1>1, <1>11, <1>13, <1>18, <1>19 DEF TypeOK, queue
  <1>21. Kinds'  BY Zenon, <1>2, <1>18 DEF Kinds, Ports
  <1>22. Routing'  BY Zenon, <1>1, <1>2, <1>18 DEF Routing, Ports
  <1>23. Pairs'
    <2>1. \A x, y \in XIDs : XIDpairToPort[<<x, y>>] \in (Ports \ {a}) \cup {NULL}
      BY Zenon, <1>1, <1>2, NotPaired
    <2>2. \A q \in Ports \ {a} : PeerKept(q)  BY Zenon, <1>18 DEF PeerKept
    <2> SUFFICES ASSUME NEW x \in XIDs, NEW y \in XIDs, XIDpairToPort'[<<x, y>>] # NULL
                 PROVE  LeadsTo(x, y, XIDpairToPort[<<x, y>>])'
      BY Zenon DEF Pairs
    <2>3. CASE x = conn.src /\ y = conn.dst
      <3>1. XIDpairToPort'[<<x, y>>] = a  BY Zenon, <1>19, <2>3
      <3>2. LeadsTo(x, y, a)'  BY Zenon, <1>14, <1>16, <1>18, <2>3 DEF LeadsTo
      <3> QED  BY Zenon, <3>1, <3>2 DEF LeadsTo
    <2>4. CASE ~(x = conn.src /\ y = conn.dst)
      <3> DEFINE q == XIDpairToPort[<<x, y>>]
      <3>1. q' = q  BY Zenon, <1>19, <2>4
      <3>2. LeadsTo(x, y, q) /\ q \in Ports \ {a}  BY Zenon, <2>1, <3>1 DEF Pairs
      <3>3. PeerKept(q)  BY Zenon, <2>2, <3>2
      <3> HIDE DEF q
      <3>4. LeadsTo(x, y, q)'  BY Zenon, <3>1, <3>2, <3>3, LeadsToKept
      <3> QED  BY Zenon, <3>4 DEF q
    <2> QED  BY Zenon, <2>3, <2>4
  <1>24. \A c \in Clients, l \in XIDs : XIDpairToPort'[<<c, l>>] = XIDpairToPort[<<c, l>>]
    <2> SUFFICES ASSUME NEW c \in Clients, NEW l \in XIDs
                 PROVE  XIDpairToPort'[<<c, l>>] = XIDpairToPort[<<c, l>>]
      BY Zenon
    <2>1. c # conn.src /\ c \in XIDs  BY ZenonT(60), <1>14, SIDsAssumption
    <2> QED  BY Zenon, <1>19, <2>1
  <1>25. Connected'
    <2> SUFFICES ASSUME NEW c \in Clients, Open(c)', portToDAGinfo'[c].isConnected
                 PROVE  XIDpairToPort'[<<c, portToDAGinfo'[c].dst_path>>] = c
      BY Zenon DEF Connected
    <2>1. c \in Ports \ {a}  BY Zenon, <1>2 DEF Ports
    <2>2. Open(c) /\ portToDAGinfo'[c] = portToDAGinfo[c]  BY ZenonT(60), <1>18, <2>1
    <2>3. portToDAGinfo[c].dst_path \in Listeners  BY ZenonT(60), <2>1, <2>2 DEF Sockets, Sound
    <2> QED  BY SMTT(30), <1>24, <2>2, <2>3, SIDsAssumption DEF Connected
  <1>26. Messages'
    <2>1. \A m \in net : Proper(m, XIDpairToPort')
      BY ZenonT(60), <1>24, SIDsAssumption DEF Messages, Proper
    <2> QED  BY Zenon, <1>1, <1>11, <1>12, <2>1 DEF Messages, Pending, queue
  <1>27. Streams'
    <2>1. inbox[a] = << >>  BY Zenon, <1>1 DEF Streams
    <2> QED  BY <1>1, <1>16, <1>18, <2>1 DEF Streams, Ports
  <1>28. Grants'  BY Zenon, <1>1, <1>2, <1>18 DEF Grants, GrantedOnce, Ports
  <1>29. Claimed'
    <2>1. Claims' \subseteq Claims \ {accept}
      <3>1. accept \notin Claims'  BY Zenon, <1>2, <1>18 DEF Claims
      <3>2. Claims' \subseteq Claims  BY Zenon, <1>1, <1>18 DEF Claims, Ports
      <3> QED  BY Zenon, <3>1, <3>2
    <2>2. IsFiniteSet(Claims') /\ Cardinality(Claims') <= Cardinality(Claims \ {accept})
      BY Zenon, <1>7, <2>1, FS_Subset
    <2>3. Cardinality(Claims') \in Nat  BY Zenon, <2>2, FS_CardinalityType
    <2>4. Cardinality(Claims') <= Len(queue')
      BY SMTT(30), <1>5, <1>6, <1>7, <1>8, <1>11, <1>12, <2>2, <2>3
    <2> QED  BY Zenon, <2>2, <2>4 DEF Claimed, queue
  <1> QED
    BY Zenon, <1>18, <1>20, <1>21, <1>22, <1>23, <1>25, <1>26, <1>27, <1>28, <1>29

-------------------------------------------------------------------------------
\* Every handler, timer, API call and stuttering step preserves the invariant.
LEMMA NextIndInv == IndInv /\ [Next]_vars => IndInv'
  <1> SUFFICES ASSUME IndInv, [Next]_vars PROVE IndInv'  OBVIOUS
  <1>1. ASSUME NEW p \in Ports,
               \/ Xsocket(p) \/ Xsend(p) \/ Xclose(p)
               \/ TimerSYN(p) \/ TimerData(p) \/ TimerTeardown(p)
        PROVE  IndInv'
    BY ZenonT(60), <1>1, SocketStep, SendStep, CloseStep, TimerSynStep, TimerDataStep, TeardownStep
  <1>2. ASSUME NEW l \in Listeners,
               \/ Xbind(l)
               \/ \E c \in Clients : Xconnect(c, l)
               \/ \E a \in AcceptPorts : XacceptNotified(l, a)
        PROVE  IndInv'
    BY Zenon, <1>2, BindStep, ConnectStep, NotifiedStep
  <1>3. ASSUME NEW m \in net, RecvSYN(m) \/ RecvSYNACK(m) \/ RecvDATA(m) \/ RecvACK(m)
        PROVE  IndInv'
    BY ZenonT(60), <1>3, SynStep, SynackStep, DataStep, AckStep
  <1>4. CASE UNCHANGED vars  BY Zenon, <1>4, StutterStep
  <1> QED  BY ZenonT(60), <1>1, <1>2, <1>3, <1>4, AcceptStep, ReturnStep DEF Next

\* The whole invariant holds of every state the element reaches.
LEMMA Invariance == Spec => []IndInv
  BY InitIndInv, NextIndInv, PTL DEF Spec

\* Every table, queue and counter of the element keeps its type.
THEOREM TypeCorrect == Spec => []TypeOK
  <1>1. IndInv => TypeOK  BY Zenon DEF IndInv
  <1> QED  BY <1>1, Invariance, PTL

\* The API hears of a connection at most once, however often SYN and SYNACK are repeated.
THEOREM GrantOnce == Spec => []GrantedOnce
  <1>1. IndInv => GrantedOnce  BY Zenon DEF IndInv, Grants
  <1> QED  BY <1>1, Invariance, PTL

\* A SYNACK that is still routed to this element finds its socket.
THEOREM SynackSafe == Spec => []SynackFindsSocket
  <1>1. IndInv => SynackFindsSocket
    <2> SUFFICES ASSUME IndInv, NEW m \in net, Arrives(m, "SYNACK")
                 PROVE  PairPort(m) # NULL /\ Open(PairPort(m))
      BY Zenon DEF SynackFindsSocket
    <2>1. m.type = "SYNACK" /\ m.dst \in routes  BY Zenon DEF Arrives
    <2>2. m.dst \in Clients /\ PairPort(m) = m.dst
      BY Zenon, <2>1 DEF IndInv, Messages, Proper, PairPort
    <2>3. Open(m.dst)  BY Zenon, <2>1, <2>2 DEF IndInv, Routing
    <2> QED  BY Zenon, <2>2, <2>3, SIDsAssumption DEF Ports
  <1> QED  BY <1>1, Invariance, PTL

\* Whoever was told of a request finds an entry in the shared queue.
THEOREM AcceptSafe == Spec => []AcceptNeverAborts
  <1>1. IndInv => AcceptNeverAborts  BY Zenon DEF IndInv, Kinds, AcceptNeverAborts
  <1> QED  BY <1>1, Invariance, PTL

-------------------------------------------------------------------------------
\* Whoever waits in the queue or was accepted has a SID that its listener still serves.
Serving ==
    /\ \A i \in DOMAIN pending_connection_buf : Serves(pending_connection_buf[i].src)
    /\ \A a \in AcceptPorts : Open(a) => Serves(portToDAGinfo[a].src_path)

\* Where the entries of a longer queue come from ...
LEMMA AppendEntries ==
    ASSUME NEW S, NEW seq \in Seq(S), NEW e \in S, NEW i \in DOMAIN Append(seq, e)
    PROVE  Append(seq, e)[i] = e \/ (i \in DOMAIN seq /\ Append(seq, e)[i] = seq[i])
  <1>1. DOMAIN seq = 1 .. Len(seq) /\ DOMAIN Append(seq, e) = 1 .. Len(seq) + 1  OBVIOUS
  <1>2. /\ \A j \in 1 .. Len(seq) : Append(seq, e)[j] = seq[j]
        /\ Append(seq, e)[Len(seq) + 1] = e /\ Len(seq) \in Nat
    OBVIOUS
  <1> QED  BY <1>1, <1>2

\* ... and those of one whose head was taken.
LEMMA TailEntries ==
    ASSUME NEW S, NEW seq \in Seq(S), seq # << >>
    PROVE  /\ 1 \in DOMAIN seq /\ Head(seq) = seq[1]
           /\ \A i \in DOMAIN Tail(seq) : i + 1 \in DOMAIN seq /\ Tail(seq)[i] = seq[i + 1]
  <1>1. /\ DOMAIN seq = 1 .. Len(seq) /\ DOMAIN Tail(seq) = 1 .. Len(seq) - 1
        /\ Len(seq) >= 1 /\ Len(seq) \in Nat /\ Head(seq) = seq[1]
    OBVIOUS
  <1>2. \A i \in 1 .. Len(seq) - 1 : Tail(seq)[i] = seq[i + 1]  OBVIOUS
  <1> QED  BY <1>1, <1>2

\* The SIDs it speaks of are listeners'.
LEMMA ServingTypes ==
    ASSUME IndInv
    PROVE  /\ \A i \in DOMAIN pending_connection_buf : pending_connection_buf[i].src \in Listeners
           /\ \A a \in AcceptPorts : Open(a) => portToDAGinfo[a].src_path \in Listeners
  <1>1. pending_connection_buf \in Seq(Pending)  BY Zenon DEF IndInv, Messages, Pending
  <1>2. \A i \in DOMAIN pending_connection_buf : pending_connection_buf[i].src \in Listeners
    <2> SUFFICES ASSUME NEW i \in DOMAIN pending_connection_buf
                 PROVE  pending_connection_buf[i].src \in Listeners
      OBVIOUS
    <2>1. pending_connection_buf[i] \in Pending  BY SMTT(30), <1>1
    <2> QED  BY Zenon, <2>1 DEF Pending
  <1>3. \A a \in AcceptPorts : Open(a) => portToDAGinfo[a].src_path \in Listeners
    BY Zenon DEF IndInv, Sockets, Sound, Ports
  <1> QED  BY Zenon, <1>2, <1>3

\* A step that stops serving no listener and neither queues nor accepts a connection.
LEMMA ServingKept ==
    ASSUME IndInv, Serving, UNCHANGED pending_connection_buf,
           \A l \in Listeners : Serves(l) => Serves(l)',
           \A a \in AcceptPorts : Open(a)' =>
               Open(a) /\ portToDAGinfo'[a].src_path = portToDAGinfo[a].src_path
    PROVE  Serving'
  BY ZenonT(30), ServingTypes DEF Serving

\* Such is every step that touches one socket: a closed one does not come back, and an
\* accepted one keeps its SID.
LEMMA OneSocketServing ==
    ASSUME IndInv, Serving, NEW p \in Ports, UNCHANGED pending_connection_buf,
           routes \subseteq routes',
           \A q \in Ports \ {p} : app'[q] = app[q] /\ portToDAGinfo'[q] = portToDAGinfo[q],
           app[p] = "closed" => app'[p] = "closed" /\ (Open(p)' => Open(p)),
           p \in AcceptPorts /\ Open(p)' =>
               Open(p) /\ portToDAGinfo'[p].src_path = portToDAGinfo[p].src_path
    PROVE  Serving'
  <1>1. \A q \in Ports \ {p} : Open(q)' = Open(q)  BY Zenon DEF Open
  <1>2. \A l \in Listeners : Serves(l) => Serves(l)'
    BY ZenonT(30), <1>1 DEF Serves, Ports
  <1>3. \A a \in AcceptPorts : Open(a)' =>
            Open(a) /\ portToDAGinfo'[a].src_path = portToDAGinfo[a].src_path
    BY ZenonT(30), <1>1 DEF Ports
  <1> QED  BY Zenon, <1>2, <1>3, ServingKept

\* The calls of an application on its own socket.
LEMMA CallServing ==
    ASSUME IndInv, Serving, NEW p \in Ports,
           \/ Xsocket(p) \/ Xclose(p) \/ Xbind(p) \/ XconnectReturns(p)
           \/ \E dst \in Listeners : p \in Clients /\ Xconnect(p, dst)
           \/ \E l \in Listeners : p \in AcceptPorts /\ XacceptNotified(l, p)
    PROVE  Serving'
  <1>1. /\ UNCHANGED pending_connection_buf /\ routes \subseteq routes' /\ app[p] # "closed"
        /\ \E s : app' = [app EXCEPT ![p] = s]
        /\ \E e : portToDAGinfo' = [portToDAGinfo EXCEPT ![p] = e]
    <2>1. portToDAGinfo = [portToDAGinfo EXCEPT ![p] = portToDAGinfo[p]]
      BY SMTT(30) DEF IndInv, TypeOK
    <2> QED
      BY ZenonT(60), <2>1 DEF Xsocket, Xclose, Xbind, XconnectReturns, Xconnect, XacceptNotified, tables
  <1>2. \A q \in Ports \ {p} : app'[q] = app[q] /\ portToDAGinfo'[q] = portToDAGinfo[q]
    BY ZenonT(30), <1>1 DEF IndInv, TypeOK
  <1>3. ASSUME p \in AcceptPorts, Open(p)'
        PROVE  Open(p) /\ portToDAGinfo'[p].src_path = portToDAGinfo[p].src_path
    <2>1. p \notin Clients \cup Listeners  BY Zenon, <1>3, SIDsAssumption
    <2>2. app[p] \in {"none", "accepting", "up", "closed"}  BY Zenon, <1>3 DEF IndInv, Kinds
    <2>3. CASE Xclose(p)
      <3>1. app[p] = "up" /\ portToDAGinfo' = [portToDAGinfo EXCEPT ![p] = XcloseInfo(portToDAGinfo[p])]
        BY Zenon, <2>2, <2>3 DEF Xclose
      <3>2. Open(p)  BY Zenon, <3>1 DEF IndInv, Kinds
      <3>3. portToDAGinfo[p] \in DAGinfo  BY Zenon, <3>2, PortTypes DEF IndInv
      <3>4. portToDAGinfo'[p] = XcloseInfo(portToDAGinfo[p])  BY Zenon, <3>1 DEF IndInv, TypeOK
      <3> QED  BY Zenon, <3>2, <3>3, <3>4 DEF XcloseInfo, DAGinfo
    <2>4. CASE UNCHANGED portToDAGinfo  BY Zenon, <1>3, <2>4 DEF Open
    <2> QED
      BY ZenonT(60), <2>1, <2>2, <2>3, <2>4 DEF Xsocket, Xbind, XconnectReturns, XacceptNotified
  <1> QED  BY Zenon, <1>1, <1>2, <1>3, OneSocketServing

\* What Xsend, a packet or a retransmission does to one open socket.
LEMMA HandlerServing ==
    ASSUME IndInv, Serving, NEW p \in Ports, Open(p), NEW e,
           portToDAGinfo' = [portToDAGinfo EXCEPT ![p] = e],
           e.src_path = portToDAGinfo[p].src_path,
           UNCHANGED <<routes, app, pending_connection_buf>>
    PROVE  Serving'
  <1>1. portToDAGinfo'[p] = e /\ \A q \in Ports \ {p} : portToDAGinfo'[q] = portToDAGinfo[q]
    BY Zenon DEF IndInv, TypeOK
  <1> QED  BY ZenonT(30), <1>1, OneSocketServing

\* Xsend, SYNACK, DATA, ACK and the two retransmission timers.
LEMMA HandlersServing ==
    ASSUME IndInv, Serving,
           \/ \E p \in Ports : Xsend(p) \/ TimerSYN(p) \/ TimerData(p)
           \/ \E m \in net : RecvSYNACK(m) \/ RecvDATA(m) \/ RecvACK(m)
    PROVE  Serving'
  <1>1. ASSUME NEW p \in Ports, Xsend(p) \/ TimerSYN(p) \/ TimerData(p) PROVE Serving'
    <2>1. /\ Open(p) /\ UNCHANGED <<routes, app, pending_connection_buf>>
          /\ \E e : /\ portToDAGinfo' = [portToDAGinfo EXCEPT ![p] = e]
                    /\ \/ e = XsendInfo(portToDAGinfo[p], <<p, portToDAGinfo[p].next_seqnum + 1>>)
                       \/ e = SynTimeoutInfo(portToDAGinfo[p])
                       \/ e = DataTimeoutInfo(portToDAGinfo[p])
      BY ZenonT(60), <1>1 DEF Xsend, TimerSYN, TimerData, tables
    <2>2. portToDAGinfo[p] \in DAGinfo  BY Zenon, <2>1, PortTypes DEF IndInv
    <2>3. /\ XsendInfo(portToDAGinfo[p], <<p, portToDAGinfo[p].next_seqnum + 1>>).src_path
                = portToDAGinfo[p].src_path
          /\ SynTimeoutInfo(portToDAGinfo[p]).src_path = portToDAGinfo[p].src_path
          /\ DataTimeoutInfo(portToDAGinfo[p]).src_path = portToDAGinfo[p].src_path
      <3>1. 0 \in Nat  OBVIOUS
      <3>2. XsendInfo(portToDAGinfo[p], <<p, portToDAGinfo[p].next_seqnum + 1>>).src_path
                = portToDAGinfo[p].src_path
        BY Zenon, <2>2 DEF XsendInfo, DAGinfo
      <3> QED  BY Zenon, <2>2, <3>1, <3>2, HandlersKeep DEF Keeps
    <2> QED  BY ZenonT(30), <2>1, <2>3, HandlerServing
  <1>2. ASSUME NEW m \in net, RecvSYNACK(m) \/ RecvDATA(m) \/ RecvACK(m) PROVE Serving'
    <2> DEFINE p == PairPort(m)
    <2>1. /\ p # NULL /\ Open(p) /\ UNCHANGED <<routes, app, pending_connection_buf>>
          /\ \E e : /\ portToDAGinfo' = [portToDAGinfo EXCEPT ![p] = e]
                    /\ \/ e = SynackInfo(portToDAGinfo[p])
                       \/ e = DataInfo(portToDAGinfo[p], m.num)
                       \/ e = AckInfo(portToDAGinfo[p], m.num)
      BY ZenonT(60), <1>2 DEF RecvSYNACK, RecvDATA, RecvACK, tables
    <2>2. m.num \in Nat /\ p \in Ports  BY Zenon, <2>1, PairFacts DEF Ports
    <2> HIDE DEF p
    <2>3. portToDAGinfo[p] \in DAGinfo  BY Zenon, <2>1, <2>2, PortTypes DEF IndInv
    <2>4. /\ SynackInfo(portToDAGinfo[p]).src_path = portToDAGinfo[p].src_path
          /\ DataInfo(portToDAGinfo[p], m.num).src_path = portToDAGinfo[p].src_path
          /\ AckInfo(portToDAGinfo[p], m.num).src_path = portToDAGinfo[p].src_path
      <3>1. Keeps(portToDAGinfo[p], SynackInfo(portToDAGinfo[p]))  BY Zenon, <2>2, <2>3, HandlersKeep
      <3>2. Keeps(portToDAGinfo[p], DataInfo(portToDAGinfo[p], m.num))
        BY Zenon, <2>2, <2>3, HandlersKeep
      <3>3. Keeps(portToDAGinfo[p], AckInfo(portToDAGinfo[p], m.num))
        BY Zenon, <2>2, <2>3, HandlersKeep
      <3> QED  BY Zenon, <3>1, <3>2, <3>3 DEF Keeps
    <2> QED  BY ZenonT(30), <2>1, <2>2, <2>4, HandlerServing
  <1> QED  BY Zenon, <1>1, <1>2

\* A route goes only with the socket of the client or listener whose SID it is.
LEMMA TeardownServing ==
    ASSUME IndInv, Serving, NEW p \in Ports, TimerTeardown(p)
    PROVE  Serving'
  <1>1. /\ Open(p) /\ portToDAGinfo' = [portToDAGinfo EXCEPT ![p] = NULL]
        /\ portToDAGinfo[p].teardown_waiting
        /\ routes' = IF FreesSID(portToDAGinfo[p]) THEN routes \ {portToDAGinfo[p].src_path} ELSE routes
        /\ UNCHANGED <<app, pending_connection_buf>>
    BY Zenon DEF TimerTeardown, TeardownTimeout
  <1>2. ~Open(p)' /\ \A q \in Ports \ {p} : portToDAGinfo'[q] = portToDAGinfo[q] /\ Open(q)' = Open(q)
    BY Zenon, <1>1 DEF IndInv, TypeOK, Open
  <1>3. Sound(p, app[p], portToDAGinfo[p])  BY Zenon, <1>1 DEF IndInv, Sockets
  <1>4. FreesSID(portToDAGinfo[p]) => portToDAGinfo[p].src_path = p
    BY Zenon, <1>3 DEF Sound, FreesSID, Ports
  <1>5. app[p] = "closed"  BY Zenon, <1>1, <1>3 DEF Sound
  <1>6. ASSUME NEW l \in Listeners, Serves(l) PROVE Serves(l)'
    <2>1. CASE l = p  BY Zenon, <2>1, <1>1, <1>2, <1>5 DEF Serves
    <2>2. CASE l # p
      <3>1. Open(l)' = Open(l)  BY Zenon, <2>2, <1>2 DEF Ports
      <3>2. l \in routes => l \in routes'  BY Zenon, <2>2, <1>1, <1>4
      <3> QED  BY Zenon, <1>6, <3>1, <3>2, <1>1 DEF Serves
    <2> QED  BY Zenon, <2>1, <2>2
  <1>7. \A a \in AcceptPorts : Open(a)' =>
            Open(a) /\ portToDAGinfo'[a].src_path = portToDAGinfo[a].src_path
    BY Zenon, <1>2 DEF Ports
  <1> QED  BY Zenon, <1>1, <1>6, <1>7, ServingKept

\* A SYN is queued only while its listener's SID is routed here.
LEMMA SynServing ==
    ASSUME IndInv, Serving, NEW m \in net, RecvSYN(m)
    PROVE  Serving'
  <1> DEFINE conn == [src |-> m.dst, dst |-> m.src]
             queue == pending_connection_buf
  <1>1. /\ m.dst \in routes /\ m.type = "SYN" /\ queue' = Append(queue, conn)
        /\ UNCHANGED <<portToDAGinfo, routes, app>>
    BY Zenon DEF RecvSYN, Arrives, Queued, tables
  <1>2. m.dst \in Listeners /\ m.src \in Clients  BY Zenon, <1>1 DEF IndInv, Messages, Proper
  <1>3. conn \in Pending /\ conn.src = m.dst  BY Zenon, <1>2 DEF Pending
  <1>4. queue \in Seq(Pending)  BY Zenon DEF IndInv, Messages, Pending
  <1> HIDE DEF conn, queue
  <1>5. \A i \in DOMAIN queue' : queue'[i] = conn \/ (i \in DOMAIN queue /\ queue'[i] = queue[i])
    <2>1. \A i \in DOMAIN Append(queue, conn) :
              Append(queue, conn)[i] = conn \/ (i \in DOMAIN queue /\ Append(queue, conn)[i] = queue[i])
      BY SMTT(30), <1>3, <1>4, AppendEntries
    <2> QED  BY Zenon, <1>1, <2>1
  <1>6. \A l \in Listeners : Serves(l)' = Serves(l)  BY Zenon, <1>1 DEF Serves, Open
  <1>7. \A i \in DOMAIN queue : queue[i].src \in Listeners /\ Serves(queue[i].src)
    BY Zenon, ServingTypes DEF Serving, queue
  <1>8. \A i \in DOMAIN queue' : Serves(queue[i].src)'
    <2>1. Serves(m.dst)  BY Zenon, <1>1 DEF Serves
    <2> SUFFICES ASSUME NEW i \in DOMAIN queue' PROVE Serves(queue[i].src)'  BY Zenon
    <2>2. CASE queue'[i] = conn  BY Zenon, <2>1, <2>2, <1>2, <1>3, <1>6
    <2>3. CASE i \in DOMAIN queue /\ queue'[i] = queue[i]  BY Zenon, <2>3, <1>6, <1>7
    <2> QED  BY Zenon, <1>5, <2>2, <2>3
  <1>9. \A a \in AcceptPorts : Open(a)' => Serves(portToDAGinfo[a].src_path)'
    BY Zenon, <1>1, <1>6, ServingTypes DEF Serving, Open
  <1> QED  BY Zenon, <1>8, <1>9 DEF Serving, queue

\* Xaccept gives the new socket the SID at the head of the queue.
LEMMA AcceptServing ==
    ASSUME IndInv, Serving, NEW a \in AcceptPorts, Xaccept(a)
    PROVE  Serving'
  <1> DEFINE queue == pending_connection_buf
             conn == Head(queue)
  <1>0. a \in Ports /\ a \notin Listeners /\ app[a] = "accepting"
    BY Zenon, SIDsAssumption DEF Ports, Xaccept
  <1>1. CASE queue # << >>
    <2>1. /\ portToDAGinfo' = [portToDAGinfo EXCEPT ![a] = XacceptInfo(conn.src, conn.dst)]
          /\ queue' = Tail(queue) /\ UNCHANGED routes /\ app' = [app EXCEPT ![a] = "up"]
      BY Zenon, <1>1 DEF Xaccept
    <2>2. queue \in Seq(Pending)  BY Zenon DEF IndInv, Messages, Pending
    <2>3. \A i \in DOMAIN queue : queue[i].src \in Listeners /\ Serves(queue[i].src)
      BY Zenon, ServingTypes DEF Serving
    <2>4. /\ portToDAGinfo'[a] = XacceptInfo(conn.src, conn.dst)
          /\ \A q \in Ports \ {a} : portToDAGinfo'[q] = portToDAGinfo[q] /\ app'[q] = app[q]
      BY Zenon, <1>0, <2>1 DEF IndInv, TypeOK
    <2>5. XacceptInfo(conn.src, conn.dst).src_path = conn.src
      BY Zenon DEF XacceptInfo, XsocketInfo
    <2> HIDE DEF queue, conn
    <2>6. /\ 1 \in DOMAIN queue
          /\ \A i \in DOMAIN Tail(queue) : i + 1 \in DOMAIN queue /\ Tail(queue)[i] = queue[i + 1]
      BY Zenon, <1>1, <2>2, TailEntries
    <2>7. conn = queue[1]  BY Zenon, <1>1, <2>2, TailEntries DEF conn
    <2>8. \A l \in Listeners : Serves(l)' = Serves(l)
      BY Zenon, <1>0, <2>1, <2>4 DEF Serves, Open, Ports
    <2>9. \A i \in DOMAIN queue' : Serves(queue[i].src)'
      BY Zenon, <2>1, <2>3, <2>6, <2>8
    <2>10. ASSUME NEW b \in AcceptPorts, Open(b)' PROVE Serves(portToDAGinfo[b].src_path)'
      <3>1. CASE b = a  BY Zenon, <3>1, <2>3, <2>4, <2>5, <2>6, <2>7, <2>8
      <3>2. CASE b # a
        <4>1. portToDAGinfo'[b] = portToDAGinfo[b]  BY Zenon, <3>2, <2>4 DEF Ports
        <4> QED  BY Zenon, <4>1, <2>8, <2>10, ServingTypes DEF Serving, Open
      <3> QED  BY Zenon, <3>1, <3>2
    <2> QED  BY Zenon, <2>9, <2>10 DEF Serving, queue
  <1>2. CASE queue = << >>
    <2>1. /\ UNCHANGED <<portToDAGinfo, pending_connection_buf, routes>>
          /\ app' = [app EXCEPT ![a] = "ECONNABORTED"]
      BY Zenon, <1>2 DEF Xaccept
    <2>2. \A l \in Listeners : app'[l] = app[l]
      BY Zenon, <1>0, <2>1 DEF IndInv, TypeOK, Ports
    <2> QED  BY Zenon, <2>1, <2>2, ServingKept DEF Serves, Open
  <1> QED  BY Zenon, <1>1, <1>2

\* Every step keeps the listeners of queued and accepted connections served.
LEMMA NextServing == IndInv /\ Serving /\ [Next]_vars => Serving'
  <1> SUFFICES ASSUME IndInv, Serving, [Next]_vars PROVE Serving'  OBVIOUS
  <1>1. ASSUME NEW p \in Ports, Xsocket(p) \/ Xsend(p) \/ Xclose(p)
                                \/ TimerSYN(p) \/ TimerData(p) \/ TimerTeardown(p)
        PROVE  Serving'
    BY Zenon, <1>1, CallServing, HandlersServing, TeardownServing
  <1>2. ASSUME NEW l \in Listeners,
               \/ Xbind(l)
               \/ \E c \in Clients : Xconnect(c, l)
               \/ \E a \in AcceptPorts : XacceptNotified(l, a)
        PROVE  Serving'
    BY Zenon, <1>2, CallServing DEF Ports
  <1>3. ASSUME NEW m \in net, RecvSYN(m) \/ RecvSYNACK(m) \/ RecvDATA(m) \/ RecvACK(m)
        PROVE  Serving'
    BY Zenon, <1>3, SynServing, HandlersServing
  <1>4. ASSUME NEW c \in Clients, XconnectReturns(c) PROVE Serving'
    BY Zenon, <1>4, CallServing DEF Ports
  <1>5. CASE UNCHANGED vars
    BY Zenon, <1>5, ServingKept DEF vars, tables, Serves, Open
  <1> QED  BY ZenonT(60), <1>1, <1>2, <1>3, <1>4, <1>5, AcceptServing DEF Next

\* A client's or listener's socket in use stays in the tables, routed under its own SID; an
\* accepted one stays, and its SID is routed until its listener is closed and torn down.
THEOREM Reachable == Spec => []ReachableUntilClosed
  <1>1. Init => Serving  BY SMTT(30) DEF Init, Serving, Open, Ports
  <1>2. IndInv /\ Serving => ReachableUntilClosed
    BY Zenon DEF IndInv, Kinds, Routing, Serving, ReachableUntilClosed, Ports
  <1> QED  BY <1>1, <1>2, Invariance, NextServing, PTL DEF Spec

\* An accepted socket is given a prefix of what its client sent.
THEOREM AcceptedInOrder == Spec => []AcceptedStreamInOrder
  <1>1. IndInv => AcceptedStreamInOrder  BY Zenon DEF IndInv, Streams, AcceptedStreamInOrder
  <1> QED  BY <1>1, Invariance, PTL
===============================================================================
