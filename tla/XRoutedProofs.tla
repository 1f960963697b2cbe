---------------------------- MODULE XRoutedProofs -----------------------------
(***************************************************************************)
(* xrouted for any set of ADs, any topology and any number of Hellos, LSAs *)
(* and restarts: every entry of a table lists links that exist and is an   *)
(* LSA of its AD that the router has passed on; a route in Click leads to  *)
(* a neighbour; the routes of a calculation are shortest.  What makes the  *)
(* first two inductive is that the same holds of the neighbour tables and  *)
(* of every LSA under way.                                                 *)
(***************************************************************************)
EXTENDS XRouted, ShortestPathProofs

-------------------------------------------------------------------------------
(* The calculation *)

\* The counter of a router falls back only when the router calculates, or restarts.
LEMMA OnlyCalculationResets ==
    ASSUME TypeOK, [Next]_vars, NEW q \in ADs, calc_dijstra_ticks[q] > calc_dijstra_ticks'[q],
           restarts' = restarts
    PROVE  \E lsa : LsaAccepted(q, lsa) /\ calcShortestPath(q, Updated(q, lsa))
  <1>0. calc_dijstra_ticks[q] \in Nat /\ calc_dijstra_ticks' # calc_dijstra_ticks
    <2>1. calc_dijstra_ticks[q] \in 0..(CALC_DIJKSTRA_INTERVAL - 1)  BY Zenon DEF TypeOK
    <2> QED  BY <2>1, RoutedAssumption
  <1>1. PICK r \in ADs : timeout_handler(r) \/ HelloStep(r) \/ LsaStep(r) \/ Restart(r)
    BY Zenon, <1>0 DEF Next, vars, local
  <1>2. ~timeout_handler(r)  BY Zenon, <1>0 DEF timeout_handler
  <1>3. ~HelloStep(r)
    BY Zenon, <1>0 DEF HelloStep, processHelloKnown, processHelloNew, processHelloCount
  <1>4. ~Restart(r)
    <2>1. restarts[r] \in Nat  BY Zenon DEF TypeOK
    <2>2. ASSUME Restart(r) PROVE FALSE
      <3>1. restarts' = [restarts EXCEPT ![r] = @ + 1]  BY Zenon, <2>2 DEF Restart
      <3>2. restarts'[r] = restarts[r] + 1  BY Zenon, <3>1 DEF TypeOK
      <3> QED  BY SMTT(30), <2>1, <3>2
    <2> QED  BY Zenon, <2>2
  <1>5. PICK lsa \in Lsas : processLSA(r, lsa)  BY ZenonT(60), <1>1, <1>2, <1>3, <1>4 DEF LsaStep
  <1>6. ~processLSAIgnored(r, lsa)  BY Zenon, <1>0 DEF processLSAIgnored
  <1>7. ~processLSANoCalc(r, lsa)
    <2>1. SUFFICES ASSUME calc_dijstra_ticks' = [calc_dijstra_ticks EXCEPT ![r] = @ + 1] PROVE FALSE
      BY Zenon DEF processLSANoCalc
    <2>2. calc_dijstra_ticks'[q] \in {calc_dijstra_ticks[q], calc_dijstra_ticks[q] + 1}
      BY Zenon, <2>1 DEF TypeOK
    <2> QED  BY <1>0, <2>2
  <1>8. processLSACalc(r, lsa)  BY ZenonT(60), <1>5, <1>6, <1>7 DEF processLSA
  <1>9. q = r
    <2>1. calc_dijstra_ticks' = [calc_dijstra_ticks EXCEPT ![r] = 0]  BY Zenon, <1>8 DEF processLSACalc
    <2>2. q # r => calc_dijstra_ticks'[q] = calc_dijstra_ticks[q]  BY Zenon, <2>1 DEF TypeOK
    <2> QED  BY <1>0, <2>2
  <1> QED  BY Zenon, <1>8, <1>9 DEF processLSACalc

\* What NewRoutes writes are hops, and they are neighbours the router's own entry lists.
LEMMA NewRoutesToNeighbours ==
    ASSUME NEW r \in ADs, NEW table \in [ADs -> Entry \cup {NULL}], NEW blank \in BOOLEAN
    PROVE  /\ NewRoutes(r, table, blank) \in [ADs -> Hop]
           /\ \A d \in ADs : NewRoutes(r, table, blank)[d] # NULL =>
                 table[r] # NULL /\ NewRoutes(r, table, blank)[d] \in table[r].neighbors
  <1>1. IsTable(table)  BY Zenon DEF IsTable, Entry
  <1>2. CASE blank  BY Zenon, <1>2 DEF NewRoutes, Hop
  <1>3. CASE ~blank
    <2>1. NewRoutes(r, table, blank) = Routes(table, r)  BY Zenon, <1>3 DEF NewRoutes
    <2>2. Hop = ADs \cup {NULL}  BY Zenon DEF Hop
    <2>3. /\ Routes(table, r) \in [ADs -> ADs \cup {NULL}]
          /\ \A d \in ADs : Routes(table, r)[d] # NULL =>
                table[r] # NULL /\ Routes(table, r)[d] \in table[r].neighbors
      BY ZenonT(60), <1>1, RoutesToNeighbours
    <2> QED  BY Zenon, <2>1, <2>2, <2>3
  <1> QED  BY Zenon, <1>2, <1>3

\* The routes of a calculation from T.
LEMMA CalculationRoutes ==
    ASSUME TypeOK, NEW r \in ADs, NEW T \in [ADs -> Entry \cup {NULL}], calcShortestPath(r, T)
    PROVE  /\ ADrouteTable' \in [ADs -> [ADs -> Hop]]
           /\ \A d \in ADs : ADrouteTable'[r][d] # NULL =>
                 T[r] # NULL /\ ADrouteTable'[r][d] \in T[r].neighbors
  <1> DEFINE left(spared) == [a \in ADs |-> IF a \in Abnormal(T) \ spared THEN NULL ELSE T[a]]
             blank(spared) == \E a \in ADs \ {r} : left(spared)[a] # NULL /\ left(spared)[a].dest = NULL
  <1>1. PICK spared \in SUBSET Abnormal(T) :
          ADrouteTable' = [ADrouteTable EXCEPT ![r] = NewRoutes(r, left(spared), blank(spared))]
    BY Zenon DEF calcShortestPath
  <1> DEFINE table == left(spared)
             new == NewRoutes(r, table, blank(spared))
  <1>2. table \in [ADs -> Entry \cup {NULL}] /\ (table[r] # NULL => table[r] = T[r])  OBVIOUS
  <1>3. blank(spared) \in BOOLEAN  OBVIOUS
  <1>4. ADrouteTable' = [ADrouteTable EXCEPT ![r] = new]  BY ZenonT(60), <1>1
  <1> HIDE DEF table, blank
  <1>5. /\ new \in [ADs -> Hop]
        /\ \A d \in ADs : new[d] # NULL => table[r] # NULL /\ new[d] \in table[r].neighbors
    BY Zenon, <1>2, <1>3, NewRoutesToNeighbours
  <1> HIDE DEF new
  <1> QED  BY ZenonT(60), <1>2, <1>4, <1>5 DEF TypeOK

\* What the router has heard, after the calculation has left blank entries behind.
LEMMA ShortestInHeard ==
    ASSUME FewADs, NEW r \in ADs, NEW table \in [ADs -> Entry \cup {NULL}], NEW checked,
           \A a \in ADs : table[a] # NULL /\ table[a].dest = NULL => a = r /\ table[a].neighbors = {}
    PROVE  ShortestRoutes(Heard(Touched(table, r, checked)), r, Routes(table, r))
  <1> DEFINE new == Touched(table, r, checked)
             H == Heard(new)
  <1>1. IsTable(table)  BY Zenon DEF IsTable, Entry
  <1>2. ASSUME NEW a \in ADs PROVE new[a] = table[a] \/ (table[a] = NULL /\ new[a] = Blank)
    BY Zenon DEF Touched
  <1>3. H = [a \in ADs |-> IF new[a] = NULL THEN NULL
                           ELSE IF new[a].dest = NULL THEN NULL ELSE new[a]]
    BY Zenon DEF Heard
  <1> HIDE DEF new, H
  <1>4. Blank.dest = NULL  BY Zenon DEF Blank
  <1>5. ASSUME NEW a \in ADs, ~(table[a] # NULL /\ table[a].dest = NULL) PROVE H[a] = table[a]
    BY Zenon, <1>2, <1>3, <1>4, <1>5
  <1>6. CASE table[r] # NULL /\ table[r].dest = NULL
    <2>1. \A a \in ADs \ {r} : H[a] = table[a]  BY Zenon, <1>5
    <2>2. H[r] = NULL  BY Zenon, <1>2, <1>3, <1>6
    <2>3. table[r].neighbors = {}  BY Zenon, <1>6
    <2> QED  BY Zenon, <1>1, <2>1, <2>2, <2>3, ShortestWithoutBlank DEF H, new
  <1>7. CASE ~(table[r] # NULL /\ table[r].dest = NULL)
    <2>1. \A a \in ADs : H[a] = table[a]  BY ZenonT(60), <1>5, <1>7
    <2>2. H = [a \in ADs |-> H[a]]  BY Zenon, <1>3
    <2>3. H = table  BY Zenon, <2>1, <2>2
    <2>4. ShortestRoutes(table, r, Routes(table, r))  BY Zenon, <1>1, RoutesCorrect
    <2> QED  BY Zenon, <2>3, <2>4 DEF H, new
  <1> QED  BY Zenon, <1>6, <1>7

-------------------------------------------------------------------------------
(* The link state *)

\* The types of what the link state is made of.
Shape ==
    /\ neighborTable \in [ADs -> SUBSET ADs]
    /\ lsa_seq \in [ADs -> 0..(MAX_SEQNUM - 1)]
    /\ originated \in [ADs -> Nat]
    /\ networkTable \in [ADs -> [ADs -> Entry \cup {NULL}]]
    /\ lsas \subseteq ADs \X LSA

NeighboursAreLinked == \A r \in ADs : \A b \in neighborTable[r] : Linked(r, b)

\* An LSA under way lists links of its AD, and the AD has broadcast it itself.
LsasAreTrue ==
    \A q \in ADs, lsa \in LSA : <<q, lsa>> \in lsas =>
        /\ \A b \in lsa.neighbors : Linked(lsa.dest, b)
        /\ <<lsa.dest, lsa>> \in lsas

\* What LinkStateIsTrue and RecordsAreFlooded say of r's entry for a, when the links are net
\* and the broadcasts so far are sent; and a blank entry lists nobody.
GoodEntry(r, a, entry, net, sent) ==
    /\ \A b \in entry.neighbors : {a, b} \in net
    /\ entry.dest = NULL => entry.neighbors = {}
    /\ a # r => \/ entry.dest = NULL
                \/ \E lsa \in LSA : /\ Records(entry, lsa) /\ lsa.dest = a
                                    /\ <<a, lsa>> \in sent /\ <<r, lsa>> \in sent

TablesAreGood ==
    \A r, a \in ADs : networkTable[r][a] # NULL => GoodEntry(r, a, networkTable[r][a], links, lsas)

IndInv == Shape /\ NeighboursAreLinked /\ LsasAreTrue /\ TablesAreGood

\* The invariant contains the two properties.
LEMMA GoodIsBoth == TablesAreGood => LinkStateIsTrue /\ RecordsAreFlooded
  <1> SUFFICES ASSUME TablesAreGood PROVE LinkStateIsTrue /\ RecordsAreFlooded  OBVIOUS
  <1>1. LinkStateIsTrue  BY Zenon DEF TablesAreGood, GoodEntry, LinkStateIsTrue, Linked
  <1>2. \A r \in ADs, lsa \in LSA : <<r, lsa>> \in lsas => lsa \in Lsas
    BY DEF Lsas
  <1>3. RecordsAreFlooded  BY Zenon, <1>2 DEF TablesAreGood, GoodEntry, RecordsAreFlooded
  <1> QED  BY Zenon, <1>1, <1>3

\* xrouted starts with empty tables and nothing is under way.
LEMMA InitIndInv == Init => IndInv
  BY RoutedAssumption DEF Init, IndInv, Shape, NeighboursAreLinked, LsasAreTrue, TablesAreGood

\* A good entry stays good when more is broadcast.
LEMMA GoodIsMonotone ==
    ASSUME NEW r \in ADs, NEW a \in ADs, NEW entry, NEW net, NEW sent, NEW more,
           sent \subseteq more, GoodEntry(r, a, entry, net, sent)
    PROVE  GoodEntry(r, a, entry, net, more)
  BY Zenon DEF GoodEntry

\* LSAs are never taken back, so entries that are not written stay good.
LEMMA TableStep ==
    ASSUME IndInv, NEW r \in ADs,
           \A q \in ADs \ {r} : networkTable'[q] = networkTable[q],
           \A a \in ADs : \/ networkTable'[r][a] \in {networkTable[r][a], NULL}
                          \/ GoodEntry(r, a, networkTable'[r][a], links, lsas'),
           lsas \subseteq lsas', links' = links
    PROVE  TablesAreGood'
  <1> SUFFICES ASSUME NEW q \in ADs, NEW a \in ADs, networkTable'[q][a] # NULL
               PROVE  GoodEntry(q, a, networkTable'[q][a], links, lsas')
    BY Zenon DEF TablesAreGood
  <1>1. CASE networkTable'[q][a] = networkTable[q][a]
    BY Zenon, <1>1, GoodIsMonotone DEF IndInv, TablesAreGood
  <1>2. CASE networkTable'[q][a] # networkTable[q][a]
    BY Zenon, <1>2
  <1> QED  BY Zenon, <1>1, <1>2

\* sendLSA: what a router advertises are neighbours it has heard, so links.
LEMMA SendLSAStep ==
    ASSUME IndInv, NEW r \in ADs, timeout_handler(r), sendLSA(r)
    PROVE  IndInv'
  <1> DEFINE lsa == Advertisement(r)
  <1> USE DEF IndInv
  <1>1. /\ lsas' = lsas \cup {<<r, lsa>>}
        /\ UNCHANGED <<neighborTable, networkTable, links>>
    BY Zenon DEF timeout_handler, sendLSA
  <1>2. /\ lsa.dest = r /\ lsa.neighbors \subseteq neighborTable[r]
        /\ lsa \in LSA
    BY SMTT(30), RoutedAssumption DEF Advertisement, FirstOf, LSA, Shape
  <1> HIDE DEF lsa
  <1>3. Shape'
    <2>1. lsa_seq' \in [ADs -> 0..(MAX_SEQNUM - 1)]
      BY RoutedAssumption DEF Shape, sendLSA, NextSeq
    <2>2. originated' \in [ADs -> Nat]  BY DEF Shape, sendLSA
    <2> QED  BY SMTT(30), <1>1, <1>2, <2>1, <2>2 DEF Shape
  <1>4. NeighboursAreLinked'  BY Zenon, <1>1 DEF NeighboursAreLinked, Linked
  <1>5. LsasAreTrue'
    <2>1. \A b \in lsa.neighbors : Linked(lsa.dest, b)  BY Zenon, <1>2 DEF NeighboursAreLinked
    <2> QED  BY Zenon, <1>1, <1>2, <2>1 DEF LsasAreTrue, Linked
  <1>7. TablesAreGood'  BY Zenon, <1>1, TableStep
  <1> QED  BY Zenon, <1>3, <1>4, <1>5, <1>7

\* A Hello makes its sender, which is linked, a neighbour; the own entry lists the neighbours.
LEMMA HelloStepKeeps ==
    ASSUME IndInv, NEW r \in ADs, HelloStep(r)
    PROVE  IndInv'
  <1> USE DEF IndInv
  <1>1. UNCHANGED <<lsa_seq, originated, lsas, links>>
    BY Zenon DEF HelloStep, processHelloKnown, processHelloNew, processHelloCount, network
  <1>2. LsasAreTrue'  BY Zenon, <1>1 DEF LsasAreTrue, Linked
  <1>3. ASSUME neighborTable' = neighborTable,
               networkTable' = [networkTable EXCEPT ![r][r] = OwnEntry(r, neighborTable[r])]
        PROVE  IndInv'
    <2>1. OwnEntry(r, neighborTable[r]) \in Entry
      BY RoutedAssumption DEF OwnEntry, Entry, Shape
    <2>2. Shape'  BY ZenonT(60), <1>1, <1>3, <2>1 DEF Shape
    <2>3. NeighboursAreLinked'  BY Zenon, <1>1, <1>3 DEF NeighboursAreLinked, Linked
    <2>4. \A a \in ADs : \/ networkTable'[r][a] = networkTable[r][a]
                         \/ GoodEntry(r, a, networkTable'[r][a], links, lsas')
      <3>1. GoodEntry(r, r, OwnEntry(r, neighborTable[r]), links, lsas')
        <4>1. r # NULL  BY Zenon, PathAssumption
        <4> QED  BY Zenon, <4>1 DEF GoodEntry, OwnEntry, NeighboursAreLinked, Linked
      <3> QED  BY Zenon, <1>3, <3>1 DEF Shape
    <2>5. \A q \in ADs \ {r} : networkTable'[q] = networkTable[q]  BY Zenon, <1>3 DEF Shape
    <2> QED  BY ZenonT(60), <1>1, <1>2, <2>2, <2>3, <2>4, <2>5, TableStep
  <1>4. ASSUME NEW n \in ADs, processHelloNew(r, n) PROVE IndInv'
    <2>1. /\ neighborTable' = [neighborTable EXCEPT ![r] = @ \cup {n}] /\ Linked(n, r)
          /\ networkTable' = networkTable
      BY Zenon, <1>4 DEF processHelloNew, HelloArrives
    <2>2. Shape'  BY Zenon, <1>1, <2>1 DEF Shape
    <2>3. NeighboursAreLinked'
      <3>1. Linked(r, n)  BY Zenon, <2>1 DEF Linked
      <3> QED  BY ZenonT(60), <1>1, <2>1, <3>1 DEF NeighboursAreLinked, Linked, Shape
    <2>4. TablesAreGood'  BY Zenon, <1>1, <2>1, TableStep
    <2> QED  BY Zenon, <1>2, <2>2, <2>3, <2>4
  <1> QED
    BY Zenon, <1>3, <1>4 DEF HelloStep, processHelloKnown, processHelloCount

\* An LSA that arrives is one under way.
LEMMA ArrivingLsa ==
    ASSUME IndInv, NEW r \in ADs, NEW lsa, LsaArrives(r, lsa)
    PROVE  /\ lsa \in LSA /\ <<lsa.dest, lsa>> \in lsas
           /\ \A b \in lsa.neighbors : {lsa.dest, b} \in links
  <1>1. PICK q \in ADs : <<q, lsa>> \in lsas  BY Zenon DEF LsaArrives
  <1>2. lsa \in LSA  BY Zenon, <1>1 DEF IndInv, Shape
  <1> QED  BY Zenon, <1>1, <1>2 DEF IndInv, LsasAreTrue, Linked

\* The entry made from an LSA that is news is that LSA, which is passed on in the same step.
LEMMA UpdatedIsGood ==
    ASSUME IndInv, NEW r \in ADs, NEW lsa, LsaAccepted(r, lsa)
    PROVE  /\ Updated(r, lsa) \in [ADs -> Entry \cup {NULL}]
           /\ \A a \in ADs : \/ Updated(r, lsa)[a] = networkTable[r][a]
                             \/ GoodEntry(r, a, Updated(r, lsa)[a], links, lsas')
  <1> DEFINE entry == [dest |-> lsa.dest, seq |-> lsa.seq, neighbors |-> lsa.neighbors,
                       age |-> lsa.age]
  <1>1. /\ lsa \in LSA /\ <<lsa.dest, lsa>> \in lsas /\ lsa.dest # r
        /\ \A b \in lsa.neighbors : {lsa.dest, b} \in links
        /\ lsas' = lsas \cup {<<r, lsa>>}
    BY Zenon, ArrivingLsa DEF LsaAccepted, Rebroadcast
  <1>2. entry \in Entry /\ lsa.dest \in ADs  BY Zenon, <1>1 DEF Entry, LSA
  <1>3. GoodEntry(r, lsa.dest, entry, links, lsas')
    <2>1. Records(entry, lsa)  BY Zenon DEF Records
    <2>2. entry.dest # NULL
      <3>0. ADs \subseteq Nat /\ NULL \notin Nat  BY Zenon, PathAssumption
      <3>1. lsa.dest # NULL  BY Zenon, <1>2, <3>0
      <3> QED  BY Zenon, <3>1
    <2> QED  BY Zenon, <1>1, <2>1, <2>2 DEF GoodEntry
  <1> HIDE DEF entry
  <1>4. networkTable[r] \in [ADs -> Entry \cup {NULL}]  BY Zenon DEF IndInv, Shape
  <1>5. Updated(r, lsa) = [networkTable[r] EXCEPT ![lsa.dest] = entry]  BY Zenon DEF Updated, entry
  <1> QED  BY Zenon, <1>2, <1>3, <1>4, <1>5

\* A blank entry, which operator[] makes, says nothing.
LEMMA BlankIsGood ==
    ASSUME NEW r \in ADs, NEW a \in ADs, NEW net, NEW sent
    PROVE  Blank \in Entry /\ GoodEntry(r, a, Blank, net, sent)
  BY RoutedAssumption DEF Blank, Entry, GoodEntry

\* The calculation only drops entries and makes blank ones.
LEMMA CalculationKeepsEntries ==
    ASSUME IndInv, NEW r \in ADs, NEW T \in [ADs -> Entry \cup {NULL}], calcShortestPath(r, T)
    PROVE  /\ networkTable' \in [ADs -> [ADs -> Entry \cup {NULL}]]
           /\ \A q \in ADs \ {r} : networkTable'[q] = networkTable[q]
           /\ \A a \in ADs : networkTable'[r][a] \in {T[a], Blank, NULL}
  <1> DEFINE left(spared) == [a \in ADs |-> IF a \in Abnormal(T) \ spared THEN NULL ELSE T[a]]
             blank(spared) == \E a \in ADs \ {r} : left(spared)[a] # NULL /\ left(spared)[a].dest = NULL
             asked(spared) == IF blank(spared) THEN {r} ELSE Checked(left(spared), r)
  <1>1. PICK spared \in SUBSET Abnormal(T) :
          networkTable' = [networkTable EXCEPT ![r] = Touched(left(spared), r, asked(spared))]
    BY Zenon DEF calcShortestPath
  <1> DEFINE new == Touched(left(spared), r, asked(spared))
  <1> HIDE DEF asked
  <1>2. new = [a \in ADs |-> new[a]] /\ \A a \in ADs : new[a] \in {T[a], Blank, NULL}
    BY Zenon DEF Touched
  <1>3. Blank \in Entry  BY Zenon, BlankIsGood
  <1> HIDE DEF new
  <1>4. new \in [ADs -> Entry \cup {NULL}]
    <2>1. \A a \in ADs : new[a] \in Entry \cup {NULL}  BY Zenon, <1>2, <1>3
    <2> QED  BY Zenon, <1>2, <2>1
  <1>5. networkTable' = [networkTable EXCEPT ![r] = new]  BY Zenon, <1>1 DEF new
  <1> QED  BY ZenonT(60), <1>2, <1>4, <1>5 DEF IndInv, Shape

\* processLSA, whether the LSA is ignored, recorded, or recorded and calculated from.
LEMMA LsaStepKeeps ==
    ASSUME IndInv, NEW r \in ADs, LsaStep(r)
    PROVE  IndInv'
  <1> USE DEF IndInv
  <1>0. PICK lsa \in Lsas : processLSA(r, lsa)  BY Zenon DEF LsaStep
  <1>1. CASE processLSAIgnored(r, lsa)
    <2>1. UNCHANGED <<neighborTable, lsa_seq, originated, networkTable, lsas, links>>
      BY Zenon, <1>1 DEF processLSAIgnored, network
    <2> QED
      BY Zenon, <2>1 DEF Shape, NeighboursAreLinked, LsasAreTrue, TablesAreGood, Linked
  <1>2. ASSUME LsaAccepted(r, lsa),
               networkTable' \in [ADs -> [ADs -> Entry \cup {NULL}]],
               \A q \in ADs \ {r} : networkTable'[q] = networkTable[q],
               \A a \in ADs : networkTable'[r][a] \in {Updated(r, lsa)[a], Blank, NULL}
        PROVE  IndInv'
    <2>1. /\ UNCHANGED <<neighborTable, lsa_seq, originated, links>>
          /\ lsas' = lsas \cup {<<r, lsa>>} /\ LsaArrives(r, lsa)
      BY Zenon, <1>2 DEF LsaAccepted, Rebroadcast
    <2>2. /\ lsa \in LSA /\ <<lsa.dest, lsa>> \in lsas
          /\ \A b \in lsa.neighbors : {lsa.dest, b} \in links
      BY ZenonT(60), <2>1, ArrivingLsa
    <2>3. Shape'  BY SMTT(30), <1>2, <2>1, <2>2 DEF Shape
    <2>4. NeighboursAreLinked'  BY Zenon, <2>1 DEF NeighboursAreLinked, Linked
    <2>5. LsasAreTrue'  BY Zenon, <2>1, <2>2 DEF LsasAreTrue, Linked
    <2>6. \A a \in ADs : \/ networkTable'[r][a] \in {networkTable[r][a], NULL}
                         \/ GoodEntry(r, a, networkTable'[r][a], links, lsas')
      BY SMTT(30), <1>2, UpdatedIsGood, BlankIsGood
    <2>7. TablesAreGood'  BY ZenonT(60), <1>2, <2>1, <2>6, TableStep
    <2> QED  BY ZenonT(60), <2>3, <2>4, <2>5, <2>7
  <1>3. CASE processLSANoCalc(r, lsa)
    <2>1. LsaAccepted(r, lsa) /\ networkTable' = [networkTable EXCEPT ![r] = Updated(r, lsa)]
      BY Zenon, <1>3 DEF processLSANoCalc
    <2>2. Updated(r, lsa) \in [ADs -> Entry \cup {NULL}]  BY Zenon, <2>1, UpdatedIsGood
    <2> QED  BY Zenon, <1>2, <2>1, <2>2 DEF Shape
  <1>4. CASE processLSACalc(r, lsa)
    <2>1. LsaAccepted(r, lsa) /\ calcShortestPath(r, Updated(r, lsa))
      BY Zenon, <1>4 DEF processLSACalc
    <2>2. Updated(r, lsa) \in [ADs -> Entry \cup {NULL}]  BY Zenon, <2>1, UpdatedIsGood
    <2> QED  BY Zenon, <1>2, <2>1, <2>2, CalculationKeepsEntries
  <1> QED  BY Zenon, <1>0, <1>1, <1>3, <1>4 DEF processLSA

\* A restarted xrouted has forgotten everything; its LSAs are still under way.
LEMMA RestartStep ==
    ASSUME IndInv, NEW r \in ADs, Restart(r)
    PROVE  IndInv'
  <1> USE DEF IndInv
  <1>1. /\ neighborTable' = [neighborTable EXCEPT ![r] = {}]
        /\ lsa_seq' = [lsa_seq EXCEPT ![r] = 0]
        /\ networkTable' = [networkTable EXCEPT ![r] = [a \in ADs |-> NULL]]
        /\ UNCHANGED <<links, lsas, originated>>
    BY Zenon DEF Restart
  <1>2. Shape'  BY <1>1, RoutedAssumption DEF Shape
  <1>3. NeighboursAreLinked'  BY Zenon, <1>1 DEF NeighboursAreLinked, Linked, Shape
  <1>4. LsasAreTrue'  BY Zenon, <1>1 DEF LsasAreTrue, Linked
  <1>5. /\ \A q \in ADs \ {r} : networkTable'[q] = networkTable[q]
        /\ \A a \in ADs : networkTable'[r][a] = NULL
    BY Zenon, <1>1 DEF Shape
  <1>6. TablesAreGood'  BY SMTT(30), <1>1, <1>5, TableStep
  <1> QED  BY ZenonT(60), <1>2, <1>3, <1>4, <1>6

\* Every step of every router preserves the invariant.
LEMMA NextIndInv == IndInv /\ [Next]_vars => IndInv'
  <1> SUFFICES ASSUME IndInv, [Next]_vars PROVE IndInv'  OBVIOUS
  <1>1. ASSUME NEW r \in ADs, timeout_handler(r), sendHello(r) PROVE IndInv'
    <2>1. UNCHANGED <<neighborTable, lsa_seq, originated, networkTable, lsas, links>>
      BY Zenon, <1>1 DEF timeout_handler, sendHello
    <2> QED
      BY Zenon, <2>1 DEF IndInv, Shape, NeighboursAreLinked, LsasAreTrue, TablesAreGood, Linked
  <1>2. CASE UNCHANGED vars
    BY Zenon, <1>2 DEF vars, local, network, IndInv, Shape, NeighboursAreLinked, LsasAreTrue,
       TablesAreGood, Linked
  <1>3. ASSUME NEW r \in ADs, timeout_handler(r) PROVE IndInv'
    BY Zenon, <1>1, <1>3, SendLSAStep DEF timeout_handler
  <1> QED  BY ZenonT(60), <1>2, <1>3, HelloStepKeeps, LsaStepKeeps, RestartStep DEF Next

\* The whole invariant holds of every state the network reaches.
LEMMA Invariance == Spec => []IndInv
  BY InitIndInv, NextIndInv, PTL DEF Spec

\* No router's table lists a link that does not exist, in any network.
THEOREM LinkStateTrue == Spec => []LinkStateIsTrue
  <1>1. IndInv => LinkStateIsTrue  BY Zenon, GoodIsBoth DEF IndInv
  <1> QED  BY <1>1, Invariance, PTL

\* What a router has recorded about another is that router's own LSA, passed on unaltered.
THEOREM RecordsFlooded == Spec => []RecordsAreFlooded
  <1>1. IndInv => RecordsAreFlooded  BY Zenon, GoodIsBoth DEF IndInv
  <1> QED  BY <1>1, Invariance, PTL
-------------------------------------------------------------------------------
(* Types, and the routes *)

\* The types Shape does not cover.
Rest ==
    /\ links \in Topologies /\ num_neighbors \in [ADs -> Nat]
    /\ hello_seq \in [ADs -> 0..hello_lsa_ratio]
    /\ calc_dijstra_ticks \in [ADs -> 0..(CALC_DIJKSTRA_INTERVAL - 1)]
    /\ ADrouteTable \in [ADs -> [ADs -> Hop]] /\ clickAD \in [ADs -> [ADs -> Hop]]
    /\ click4ID \in [ADs -> Hop] /\ dual_router_AD \in [ADs -> Hop]
    /\ counting \in [ADs -> BOOLEAN]
    /\ hellos \subseteq ADs /\ restarts \in [ADs -> Nat]

\* The two parts of the type invariant.
LEMMA TypesSplit == (TypeOK <=> Shape /\ Rest) /\ (TypeOK <=> Shape /\ Rest)'
  BY Zenon DEF TypeOK, Shape, Rest

\* What the routing table and Click hold after a calculation.
LEMMA CalcTypes ==
    ASSUME IndInv, TypeOK, RoutesLeadToNeighbours, NEW r \in ADs, NEW lsa, processLSACalc(r, lsa)
    PROVE  Rest' /\ RoutesLeadToNeighbours'
  <1>0. PICK T, routes, dual :
          T = Updated(r, lsa) /\ routes = ADrouteTable'[r] /\ dual = dual_router_AD'[r]
    OBVIOUS
  <1>1. LsaAccepted(r, lsa) /\ LsaArrives(r, lsa) /\ calcShortestPath(r, T)
    BY Zenon, <1>0 DEF processLSACalc, LsaAccepted
  <1>2. UNCHANGED <<links, num_neighbors, hello_seq, counting, hellos, restarts>>
    BY Zenon, <1>1 DEF LsaAccepted
  <1>3. clickAD' = [clickAD EXCEPT ![r] = ClickRoutes(r, routes)]
    BY Zenon, <1>0 DEF processLSACalc, updateClickRoutingTable
  <1>4. click4ID' = [click4ID EXCEPT ![r] =
                        IF r \notin DualRouters /\ dual # NULL
                        THEN IF routes[dual] # NULL THEN routes[dual] ELSE @
                        ELSE @]
    BY Zenon, <1>0 DEF processLSACalc, updateClickRoutingTable
  <1>5. calc_dijstra_ticks' \in [ADs -> 0..(CALC_DIJKSTRA_INTERVAL - 1)]
    <2>1. calc_dijstra_ticks' = [calc_dijstra_ticks EXCEPT ![r] = 0]  BY Zenon DEF processLSACalc
    <2>2. 0 \in 0..(CALC_DIJKSTRA_INTERVAL - 1)  BY RoutedAssumption
    <2>3. calc_dijstra_ticks \in [ADs -> 0..(CALC_DIJKSTRA_INTERVAL - 1)]  BY Zenon DEF TypeOK
    <2> QED  BY Zenon, <2>1, <2>2, <2>3
  <1>6. /\ T \in [ADs -> Entry \cup {NULL}]
        /\ \A a \in ADs : T[a] = networkTable[r][a] \/ GoodEntry(r, a, T[a], links, lsas')
    BY Zenon, <1>0, <1>1, UpdatedIsGood
  <1>7. /\ ADrouteTable' \in [ADs -> [ADs -> Hop]] /\ routes \in [ADs -> Hop]
        /\ \A d \in ADs : routes[d] # NULL => T[r] # NULL /\ routes[d] \in T[r].neighbors
    <2>1. /\ ADrouteTable' \in [ADs -> [ADs -> Hop]]
          /\ \A d \in ADs : ADrouteTable'[r][d] # NULL =>
                T[r] # NULL /\ ADrouteTable'[r][d] \in T[r].neighbors
      BY ZenonT(60), <1>1, <1>6, CalculationRoutes
    <2> QED  BY Zenon, <1>0, <2>1
  <1>8. \A d \in ADs : routes[d] # NULL => Linked(r, routes[d])
    <2>1. T[r] # NULL => \A b \in T[r].neighbors : {r, b} \in links
      BY Zenon, <1>6 DEF IndInv, TablesAreGood, GoodEntry
    <2> QED  BY Zenon, <1>7, <2>1 DEF Linked
  <1>9. dual_router_AD' \in [ADs -> Hop] /\ dual \in Hop
    <2>1. lsa \in LSA  BY Zenon, <1>1, ArrivingLsa
    <2>2. lsa.dest \in Hop  BY Zenon, <2>1 DEF LSA, Hop
    <2>3. dual_router_AD' = [dual_router_AD EXCEPT ![r] = IF lsa.dual THEN lsa.dest ELSE @]
      BY Zenon, <1>1 DEF LsaArrives
    <2>4. dual_router_AD \in [ADs -> Hop]  BY Zenon DEF TypeOK
    <2> QED  BY Zenon, <1>0, <2>2, <2>3, <2>4
  <1>10. clickAD \in [ADs -> [ADs -> Hop]] /\ click4ID \in [ADs -> Hop]  BY Zenon DEF TypeOK
  <1>11. /\ ClickRoutes(r, routes) \in [ADs -> Hop]
         /\ \A d \in ADs : ClickRoutes(r, routes)[d] = IF routes[d] # NULL THEN routes[d]
                                                       ELSE clickAD[r][d]
    BY <1>7, <1>10 DEF ClickRoutes
  <1>12. /\ clickAD' \in [ADs -> [ADs -> Hop]] /\ clickAD'[r] = ClickRoutes(r, routes)
         /\ \A q \in ADs \ {r} : clickAD'[q] = clickAD[q]
    BY Zenon, <1>3, <1>10, <1>11
  <1>13. click4ID' \in [ADs -> Hop]
    <2>1. dual # NULL => routes[dual] \in Hop  BY Zenon, <1>7, <1>9 DEF Hop
    <2> QED  BY Zenon, <1>4, <1>10, <2>1
  <1>14. Rest'
    BY ZenonT(60), <1>2, <1>5, <1>7, <1>9, <1>12, <1>13 DEF TypeOK, Rest
  <1>15. ASSUME NEW q \in ADs, NEW d \in ADs, clickAD'[q][d] # NULL
         PROVE  {q, clickAD'[q][d]} \in links'
    <2>1. ASSUME clickAD'[q][d] = clickAD[q][d] PROVE {q, clickAD'[q][d]} \in links'
      BY Zenon, <1>2, <1>15, <2>1 DEF RoutesLeadToNeighbours, Linked
    <2>2. CASE q # r  BY Zenon, <1>12, <2>1, <2>2
    <2>3. CASE q = r /\ routes[d] = NULL  BY Zenon, <1>11, <1>12, <2>1, <2>3
    <2>4. CASE q = r /\ routes[d] # NULL
      <3>1. clickAD'[q][d] = routes[d]  BY Zenon, <1>11, <1>12, <2>4
      <3> QED  BY Zenon, <1>2, <1>8, <2>4, <3>1 DEF Linked
    <2> QED  BY Zenon, <2>2, <2>3, <2>4
  <1> QED  BY Zenon, <1>14, <1>15 DEF RoutesLeadToNeighbours, Linked

\* No other step writes a route into Click.
LEMMA NextTypes ==
    ASSUME IndInv, TypeOK, RoutesLeadToNeighbours, [Next]_vars
    PROVE  TypeOK' /\ RoutesLeadToNeighbours'
  <1>1. Shape'  BY Zenon, NextIndInv DEF IndInv
  <1>2. Rest  BY Zenon, TypesSplit
  <1>3. SUFFICES Rest' /\ RoutesLeadToNeighbours'  BY Zenon, <1>1, TypesSplit
  <1>4. ASSUME clickAD' = clickAD, links' = links PROVE RoutesLeadToNeighbours'
    BY Zenon, <1>4 DEF RoutesLeadToNeighbours, Linked
  <1>5. CASE UNCHANGED vars
    BY Zenon, <1>2, <1>4, <1>5 DEF vars, local, click, network, Rest
  <1>6. ASSUME NEW r \in ADs, timeout_handler(r) PROVE Rest' /\ RoutesLeadToNeighbours'
    <2>1. /\ UNCHANGED <<links, num_neighbors, calc_dijstra_ticks, ADrouteTable, dual_router_AD,
                         counting, clickAD, click4ID, restarts>>
          /\ sendHello(r) \/ sendLSA(r)
      BY Zenon, <1>6 DEF timeout_handler, click
    <2>2. hello_seq' \in [ADs -> 0..hello_lsa_ratio] /\ hellos' \subseteq ADs
      <3>0. hello_lsa_ratio \in Nat  BY RoutedAssumption
      <3>1. CASE sendHello(r)
        <4>1. hello_seq[r] + 1 \in 0..hello_lsa_ratio  BY <1>2, <3>0, <3>1 DEF Rest, sendHello
        <4> QED  BY Zenon, <1>2, <3>1, <4>1 DEF Rest, sendHello
      <3>2. CASE sendLSA(r)  BY <1>2, <3>0, <3>2 DEF Rest, sendLSA
      <3> QED  BY Zenon, <2>1, <3>1, <3>2
    <2> QED  BY Zenon, <1>2, <1>4, <2>1, <2>2 DEF Rest
  <1>7. ASSUME NEW r \in ADs, HelloStep(r) PROVE Rest' /\ RoutesLeadToNeighbours'
    <2>1. UNCHANGED <<links, hello_seq, calc_dijstra_ticks, ADrouteTable, dual_router_AD, clickAD,
                      click4ID, hellos, restarts>>
      BY Zenon, <1>7 DEF HelloStep, processHelloKnown, processHelloNew, processHelloCount, click, network
    <2>2. num_neighbors' \in [ADs -> Nat] /\ counting' \in [ADs -> BOOLEAN]
      <3>1. /\ num_neighbors' = num_neighbors \/ num_neighbors' = [num_neighbors EXCEPT ![r] = @ + 1]
            /\ \/ counting' = counting
               \/ counting' = [counting EXCEPT ![r] = TRUE]
               \/ counting' = [counting EXCEPT ![r] = FALSE]
        BY Zenon, <1>7 DEF HelloStep, processHelloKnown, processHelloNew, processHelloCount
      <3>2. num_neighbors' \in [ADs -> Nat]  BY SMTT(30), <1>2, <3>1 DEF Rest
      <3>3. counting' \in [ADs -> BOOLEAN]  BY Zenon, <1>2, <3>1 DEF Rest
      <3> QED  BY Zenon, <3>2, <3>3
    <2> QED  BY Zenon, <1>2, <1>4, <2>1, <2>2 DEF Rest
  <1>8. ASSUME NEW r \in ADs, LsaStep(r) PROVE Rest' /\ RoutesLeadToNeighbours'
    <2>0. PICK lsa \in Lsas : processLSA(r, lsa)  BY Zenon, <1>8 DEF LsaStep
    <2>1. CASE processLSACalc(r, lsa)  BY Zenon, <2>1, CalcTypes
    <2>2. ASSUME LsaArrives(r, lsa) PROVE dual_router_AD' \in [ADs -> Hop]
      <3>0. lsa \in LSA  BY Zenon, <2>2, ArrivingLsa
      <3>1. lsa.dest \in Hop  BY Zenon, <3>0 DEF LSA, Hop
      <3> QED  BY Zenon, <1>2, <2>2, <3>1 DEF LsaArrives, Rest
    <2>3. CASE processLSAIgnored(r, lsa)
      <3>1. /\ UNCHANGED <<links, num_neighbors, hello_seq, calc_dijstra_ticks, ADrouteTable,
                           counting, clickAD, click4ID, hellos, restarts>>
            /\ LsaArrives(r, lsa)
        BY Zenon, <2>3 DEF processLSAIgnored, click, network
      <3> QED  BY Zenon, <1>2, <1>4, <2>2, <3>1 DEF Rest
    <2>4. CASE processLSANoCalc(r, lsa)
      <3>1. /\ UNCHANGED <<links, num_neighbors, hello_seq, ADrouteTable, counting, clickAD,
                           click4ID, hellos, restarts>>
            /\ LsaArrives(r, lsa) /\ calc_dijstra_ticks[r] + 1 # CALC_DIJKSTRA_INTERVAL
            /\ calc_dijstra_ticks' = [calc_dijstra_ticks EXCEPT ![r] = @ + 1]
        BY Zenon, <2>4 DEF processLSANoCalc, LsaAccepted, click
      <3>2. calc_dijstra_ticks' \in [ADs -> 0..(CALC_DIJKSTRA_INTERVAL - 1)]
        <4>1. CALC_DIJKSTRA_INTERVAL \in Nat  BY RoutedAssumption
        <4>2. calc_dijstra_ticks[r] \in 0..(CALC_DIJKSTRA_INTERVAL - 1)  BY Zenon, <1>2 DEF Rest
        <4>3. calc_dijstra_ticks[r] + 1 \in 0..(CALC_DIJKSTRA_INTERVAL - 1)
          BY SMTT(30), <3>1, <4>1, <4>2
        <4> QED  BY Zenon, <1>2, <3>1, <4>3 DEF Rest
      <3> QED  BY Zenon, <1>2, <1>4, <2>2, <3>1, <3>2 DEF Rest
    <2> QED  BY Zenon, <2>0, <2>1, <2>3, <2>4 DEF processLSA
  <1>9. ASSUME NEW r \in ADs, Restart(r) PROVE Rest' /\ RoutesLeadToNeighbours'
    <2>1. /\ UNCHANGED <<links, clickAD, click4ID, hellos>>
          /\ num_neighbors' = [num_neighbors EXCEPT ![r] = 0]
          /\ hello_seq' = [hello_seq EXCEPT ![r] = 0]
          /\ calc_dijstra_ticks' = [calc_dijstra_ticks EXCEPT ![r] = 0]
          /\ ADrouteTable' = [ADrouteTable EXCEPT ![r] = [a \in ADs |-> NULL]]
          /\ dual_router_AD' = [dual_router_AD EXCEPT ![r] = NULL]
          /\ counting' = [counting EXCEPT ![r] = FALSE]
          /\ restarts' = [restarts EXCEPT ![r] = @ + 1]
      BY Zenon, <1>9 DEF Restart, click
    <2>2. NULL \in Hop /\ [a \in ADs |-> NULL] \in [ADs -> Hop]  BY Zenon DEF Hop
    <2> QED  BY <1>2, <1>4, <2>1, <2>2, RoutedAssumption DEF Rest
  <1> QED  BY Zenon, <1>5, <1>6, <1>7, <1>8, <1>9 DEF Next

\* All of the invariants hold of every state the network reaches.
LEMMA AllInvariance == Spec => [](IndInv /\ TypeOK /\ RoutesLeadToNeighbours)
  <1>1. Init => TypeOK /\ RoutesLeadToNeighbours
    <2> SUFFICES ASSUME Init PROVE TypeOK /\ RoutesLeadToNeighbours  OBVIOUS
    <2>1. Shape  BY Zenon, InitIndInv DEF IndInv
    <2>2. NULL \in Hop /\ [a \in ADs |-> NULL] \in [ADs -> Hop]  BY Zenon DEF Hop
    <2>3. Rest  BY <2>2, RoutedAssumption DEF Init, Rest
    <2>4. RoutesLeadToNeighbours  BY Zenon DEF Init, RoutesLeadToNeighbours
    <2> QED  BY Zenon, <2>1, <2>3, <2>4, TypesSplit
  <1> QED  BY <1>1, Invariance, NextTypes, PTL DEF Spec

\* Every variable of xrouted stays within its type.
THEOREM TypeCorrect == Spec => []TypeOK
  BY AllInvariance, PTL

\* In any network a route in Click leads to a neighbour, also one left over from an earlier
\* calculation or an earlier life of xrouted.
THEOREM RoutesToNeighboursOnly == Spec => []RoutesLeadToNeighbours
  BY AllInvariance, PTL
-------------------------------------------------------------------------------
(* The routes are shortest *)

\* A calculation from the table with an LSA that is news.
LEMMA CalculationIsShortest ==
    ASSUME FewADs, IndInv, TypeOK, NEW r \in ADs, NEW lsa, LsaAccepted(r, lsa),
           calcShortestPath(r, Updated(r, lsa))
    PROVE  \/ ShortestRoutes(Heard(networkTable'[r]), r, ADrouteTable'[r])
           \/ /\ \E a \in ADs \ {r} : networkTable[r][a] # NULL /\ networkTable[r][a].dest = NULL
              /\ \A d \in ADs : ADrouteTable'[r][d] = NULL
  <1>0. PICK T : T = Updated(r, lsa)  OBVIOUS
  <1>1. /\ T \in [ADs -> Entry \cup {NULL}]
        /\ \A a \in ADs : T[a] = networkTable[r][a] \/ GoodEntry(r, a, T[a], links, lsas')
    BY Zenon, <1>0, UpdatedIsGood
  <1>2. \A a \in ADs : T[a] # NULL /\ T[a].dest = NULL =>
                          T[a].neighbors = {} /\ T[a] = networkTable[r][a]
    <2>1. lsa \in LSA  BY Zenon, ArrivingLsa DEF LsaAccepted
    <2>2. ADs \subseteq Nat /\ NULL \notin Nat  BY Zenon, PathAssumption
    <2>3. lsa.dest \in ADs /\ lsa.dest # NULL
      <3>1. lsa.dest \in ADs  BY Zenon, <2>1 DEF LSA
      <3> QED  BY Zenon, <2>2, <3>1
    <2>4. networkTable[r] \in [ADs -> Entry \cup {NULL}]  BY Zenon DEF TypeOK
    <2>5. \A a \in ADs : a # lsa.dest => T[a] = networkTable[r][a]  BY Zenon, <1>0, <2>4 DEF Updated
    <2>6. T[lsa.dest].dest = lsa.dest  BY Zenon, <1>0, <2>3, <2>4 DEF Updated
    <2>7. \A a \in ADs : T[a] # NULL /\ T[a].dest = NULL => T[a] = networkTable[r][a]
      BY Zenon, <2>3, <2>5, <2>6
    <2>8. \A a \in ADs : T[a] # NULL /\ T[a].dest = NULL => T[a].neighbors = {}
      <3>1. \A a \in ADs : networkTable[r][a] # NULL /\ networkTable[r][a].dest = NULL =>
                             networkTable[r][a].neighbors = {}
        BY Zenon DEF IndInv, TablesAreGood, GoodEntry
      <3> QED  BY Zenon, <2>7, <3>1
    <2> QED  BY Zenon, <2>7, <2>8
  <1> DEFINE left(spared) == [a \in ADs |-> IF a \in Abnormal(T) \ spared THEN NULL ELSE T[a]]
             blank(t) == \E a \in ADs \ {r} : t[a] # NULL /\ t[a].dest = NULL
             asked(t) == IF blank(t) THEN {r} ELSE Checked(t, r)
  <1>3. PICK spared \in SUBSET Abnormal(T) :
          /\ ADrouteTable' = [ADrouteTable EXCEPT ![r] = NewRoutes(r, left(spared), blank(left(spared)))]
          /\ networkTable' = [networkTable EXCEPT ![r] = Touched(left(spared), r, asked(left(spared)))]
    <2>1. calcShortestPath(r, T)  BY Zenon, <1>0
    <2> QED  BY Zenon, <2>1 DEF calcShortestPath
  <1>4. PICK table : table = left(spared)  OBVIOUS
  <1>5. /\ table \in [ADs -> Entry \cup {NULL}]
        /\ \A a \in ADs : table[a] # NULL => table[a] = T[a]
    BY Zenon, <1>1, <1>4
  <1> HIDE DEF left
  <1>6. /\ ADrouteTable'[r] = NewRoutes(r, table, blank(table))
        /\ networkTable'[r] = Touched(table, r, asked(table))
    <2> HIDE DEF blank, asked
    <2> QED  BY Zenon, <1>3, <1>4 DEF TypeOK
  <1>7. CASE blank(table)
    <2>1. PICK a \in ADs \ {r} : table[a] # NULL /\ table[a].dest = NULL  BY Zenon, <1>7
    <2>2. networkTable[r][a] # NULL /\ networkTable[r][a].dest = NULL  BY Zenon, <1>2, <1>5, <2>1
    <2> HIDE DEF blank
    <2>3. ADrouteTable'[r] = [b \in ADs |-> NULL]  BY Zenon, <1>6, <1>7 DEF NewRoutes
    <2>4. \A d \in ADs : ADrouteTable'[r][d] = NULL  BY Zenon, <2>3
    <2> QED  BY Zenon, <2>2, <2>4
  <1>8. CASE ~blank(table)
    <2>1. \A a \in ADs : table[a] # NULL /\ table[a].dest = NULL => a = r /\ table[a].neighbors = {}
      BY Zenon, <1>2, <1>5, <1>8
    <2> HIDE DEF blank, asked
    <2>2. ADrouteTable'[r] = Routes(table, r)  BY Zenon, <1>6, <1>8 DEF NewRoutes
    <2>3. ShortestRoutes(Heard(Touched(table, r, asked(table))), r, Routes(table, r))
      BY Zenon, <1>5, <2>1, ShortestInHeard
    <2> QED  BY Zenon, <1>6, <2>2, <2>3
  <1> QED  BY Zenon, <1>7, <1>8

\* In every network of at most MAX_HOP_COUNT ADs, whatever LSAs were lost, repeated, delayed or
\* outlived a restart, a calculation gives every AD heard of the first hop of a shortest path
\* in the link state of that moment, or gives no route at all for one of the two reasons.
THEOREM RoutesShortest == FewADs => (Spec => RoutesAreShortest)
  <1> SUFFICES ASSUME FewADs PROVE Spec => RoutesAreShortest  OBVIOUS
  <1> DEFINE Step ==
        \A r \in ADs :
           calc_dijstra_ticks[r] > calc_dijstra_ticks'[r] /\ restarts' = restarts =>
               \/ ShortestRoutes(Heard(networkTable'[r]), r, ADrouteTable'[r])
               \/ /\ \E a \in ADs \ {r} : networkTable[r][a] # NULL /\ networkTable[r][a].dest = NULL
                  /\ \A d \in ADs : ADrouteTable'[r][d] = NULL
  <1>1. IndInv /\ TypeOK /\ [Next]_vars => [Step]_vars
    <2> SUFFICES ASSUME IndInv, TypeOK, [Next]_vars PROVE Step  OBVIOUS
    <2> QED  BY ZenonT(60), OnlyCalculationResets, CalculationIsShortest
  <1>2. Spec => [][Step]_vars
    <2> HIDE DEF Step
    <2> QED  BY <1>1, AllInvariance, PTL DEF Spec
  <1> QED  BY Zenon, <1>2 DEF RoutesAreShortest
-------------------------------------------------------------------------------
(* Records only get newer *)

\* As long as a has not restarted and its numbers have not wrapped, its n-th LSA carries the
\* n-th number from FirstSeq[a] on, and the next one will too.
Counted(a) == restarts[a] = 0 /\ FirstSeq[a] + originated[a] <= MAX_SEQNUM

Numbered ==
    \A a \in ADs : Counted(a) =>
        /\ FirstSeq[a] + originated[a] < MAX_SEQNUM => lsa_seq[a] = FirstSeq[a] + originated[a]
        /\ \A q \in ADs, lsa \in LSA : <<q, lsa>> \in lsas /\ lsa.dest = a =>
               lsa.age \in 1..originated[a] /\ lsa.seq = FirstSeq[a] + lsa.age - 1

\* A step that sends nothing new and leaves the counters alone keeps the numbering.
LEMMA NumberingKept ==
    ASSUME Numbered, UNCHANGED <<lsa_seq, originated, restarts>>,
           \A q \in ADs, lsa \in LSA : <<q, lsa>> \in lsas' => \E p \in ADs : <<p, lsa>> \in lsas
    PROVE  Numbered'
  <1> SUFFICES ASSUME NEW a \in ADs, Counted(a)'
               PROVE  (/\ FirstSeq[a] + originated[a] < MAX_SEQNUM =>
                              lsa_seq[a] = FirstSeq[a] + originated[a]
                       /\ \A q \in ADs, lsa \in LSA : <<q, lsa>> \in lsas /\ lsa.dest = a =>
                              lsa.age \in 1..originated[a] /\ lsa.seq = FirstSeq[a] + lsa.age - 1)'
    BY Zenon DEF Numbered
  <1>1. Counted(a)  BY Zenon DEF Counted
  <1> QED  BY Zenon, <1>1 DEF Numbered

\* sendLSA: the number sent is the next one, and the one after it is next.
LEMMA SendNumbers ==
    ASSUME IndInv, Numbered, NEW r \in ADs, timeout_handler(r), sendLSA(r)
    PROVE  Numbered'
  <1>1. /\ lsas' = lsas \cup {<<r, Advertisement(r)>>} /\ restarts' = restarts
        /\ lsa_seq' = [lsa_seq EXCEPT ![r] = NextSeq(r)]
        /\ originated' = [originated EXCEPT ![r] = @ + 1]
    BY Zenon DEF timeout_handler, sendLSA
  <1>2. /\ Advertisement(r).dest = r /\ Advertisement(r).seq = lsa_seq[r]
        /\ Advertisement(r).age = originated[r] + 1
    BY Zenon DEF Advertisement
  <1>3. /\ originated \in [ADs -> Nat] /\ lsa_seq \in [ADs -> 0..(MAX_SEQNUM - 1)]
        /\ MAX_SEQNUM \in Nat \ {0} /\ FirstSeq \in [ADs -> 0..(MAX_SEQNUM - 1)]
    BY RoutedAssumption DEF IndInv, Shape
  <1> SUFFICES ASSUME NEW a \in ADs, Counted(a)'
               PROVE  (/\ FirstSeq[a] + originated[a] < MAX_SEQNUM =>
                              lsa_seq[a] = FirstSeq[a] + originated[a]
                       /\ \A q \in ADs, lsa \in LSA : <<q, lsa>> \in lsas /\ lsa.dest = a =>
                              lsa.age \in 1..originated[a] /\ lsa.seq = FirstSeq[a] + lsa.age - 1)'
    BY Zenon DEF Numbered
  <1>4. CASE a # r
    <2>1. originated'[a] = originated[a] /\ lsa_seq'[a] = lsa_seq[a]  BY Zenon, <1>1, <1>3, <1>4
    <2>2. Counted(a)  BY Zenon, <1>1, <2>1 DEF Counted
    <2>3. \A q \in ADs, lsa \in LSA : <<q, lsa>> \in lsas' /\ lsa.dest = a => <<q, lsa>> \in lsas
      BY Zenon, <1>1, <1>2, <1>4
    <2> QED  BY Zenon, <2>1, <2>2, <2>3 DEF Numbered
  <1>5. CASE a = r
    <2>1. originated'[a] = originated[a] + 1 /\ lsa_seq'[a] = (lsa_seq[a] + 1) % MAX_SEQNUM
      BY Zenon, <1>1, <1>3, <1>5 DEF NextSeq
    <2>2. Counted(a) /\ FirstSeq[a] + originated[a] < MAX_SEQNUM
      BY <1>1, <1>3, <2>1 DEF Counted
    <2>3. lsa_seq[a] = FirstSeq[a] + originated[a]  BY Zenon, <2>2 DEF Numbered
    <2>4. FirstSeq[a] + originated'[a] < MAX_SEQNUM => lsa_seq'[a] = FirstSeq[a] + originated'[a]
      BY <1>3, <2>1, <2>3
    <2>5. ASSUME NEW q \in ADs, NEW lsa \in LSA, <<q, lsa>> \in lsas', lsa.dest = a
          PROVE  lsa.age \in 1..originated'[a] /\ lsa.seq = FirstSeq[a] + lsa.age - 1
      <3>1. CASE <<q, lsa>> \in lsas
        <4>1. lsa.age \in 1..originated[a] /\ lsa.seq = FirstSeq[a] + lsa.age - 1
          BY Zenon, <2>2, <2>5, <3>1 DEF Numbered
        <4> QED  BY <1>3, <2>1, <4>1
      <3>2. CASE lsa = Advertisement(r)
        <4>1. lsa.age = originated[a] + 1 /\ lsa.seq = FirstSeq[a] + originated[a]
          BY Zenon, <1>2, <1>5, <2>3, <3>2
        <4> QED  BY <1>3, <2>1, <4>1
      <3> QED  BY Zenon, <1>1, <2>5, <3>1, <3>2
    <2> QED  BY Zenon, <2>4, <2>5
  <1> QED  BY Zenon, <1>4, <1>5

\* A restart begins the numbers again, and a restarted router is no longer counted.
LEMMA RestartNumbers ==
    ASSUME TypeOK, Numbered, NEW r \in ADs, Restart(r)
    PROVE  Numbered'
  <1>1. /\ restarts' = [restarts EXCEPT ![r] = @ + 1] /\ lsa_seq' = [lsa_seq EXCEPT ![r] = 0]
        /\ lsas' = lsas /\ originated' = originated
    BY Zenon DEF Restart
  <1>2. restarts \in [ADs -> Nat] /\ lsa_seq \in [ADs -> 0..(MAX_SEQNUM - 1)]  BY Zenon DEF TypeOK
  <1>3. restarts'[r] # 0  BY <1>1, <1>2
  <1>4. \A a \in ADs : Counted(a)' => Counted(a) /\ lsa_seq'[a] = lsa_seq[a]
    BY Zenon, <1>1, <1>2, <1>3 DEF Counted
  <1> QED  BY Zenon, <1>1, <1>4 DEF Numbered

\* Every step keeps the numbering: an LSA passed on is one that was sent.
LEMMA NextNumbered == IndInv /\ TypeOK /\ Numbered /\ [Next]_vars => Numbered'
  <1> SUFFICES ASSUME IndInv, TypeOK, Numbered, [Next]_vars PROVE Numbered'  OBVIOUS
  <1>1. ASSUME NEW r \in ADs, timeout_handler(r), sendHello(r) PROVE Numbered'
    BY Zenon, <1>1, NumberingKept DEF timeout_handler, sendHello
  <1>2. ASSUME NEW r \in ADs, HelloStep(r) PROVE Numbered'
    BY Zenon, <1>2, NumberingKept
       DEF HelloStep, processHelloKnown, processHelloNew, processHelloCount, network
  <1>3. ASSUME NEW r \in ADs, LsaStep(r) PROVE Numbered'
    <2>1. PICK lsa \in Lsas : processLSA(r, lsa)  BY Zenon, <1>3 DEF LsaStep
    <2>2. CASE processLSAIgnored(r, lsa)
      BY Zenon, <2>2, NumberingKept DEF processLSAIgnored, network
    <2>3. CASE LsaAccepted(r, lsa)
      <3>1. lsas' = lsas \cup {<<r, lsa>>} /\ UNCHANGED <<lsa_seq, originated, restarts>>
        BY Zenon, <2>3 DEF LsaAccepted, Rebroadcast
      <3>2. lsa \in LSA /\ <<lsa.dest, lsa>> \in lsas
        BY Zenon, <2>3, ArrivingLsa DEF LsaAccepted
      <3>3. lsa.dest \in ADs  BY Zenon, <3>2 DEF LSA
      <3> QED  BY Zenon, <3>1, <3>2, <3>3, NumberingKept
    <2> QED  BY Zenon, <2>1, <2>2, <2>3 DEF processLSA, processLSANoCalc, processLSACalc
  <1>4. CASE UNCHANGED vars
    BY Zenon, <1>4, NumberingKept DEF vars, local, network
  <1>5. ASSUME NEW r \in ADs, timeout_handler(r) PROVE Numbered'
    BY Zenon, <1>1, <1>5, SendNumbers DEF timeout_handler
  <1> QED  BY Zenon, <1>2, <1>3, <1>4, <1>5, RestartNumbers DEF Next

\* The numbering holds from the start, and so always.
LEMMA NumberedInvariance == Spec => [](IndInv /\ Numbered)
  <1>1. Init => Numbered
    <2> SUFFICES ASSUME Init PROVE Numbered  OBVIOUS
    <2>1. \A a \in ADs : originated[a] = 0 /\ lsa_seq[a] = FirstSeq[a] /\ lsas = {}
      BY Zenon DEF Init
    <2> QED  BY <2>1, RoutedAssumption DEF Numbered
  <1> QED  BY <1>1, AllInvariance, NextNumbered, PTL DEF Spec

\* An LSA that is accepted while the numbers are in order is newer than the record it replaces.
LEMMA AcceptedIsNewer ==
    ASSUME IndInv, Numbered, NEW r \in ADs, NEW lsa, LsaAccepted(r, lsa),
           InSequence(lsa.dest), networkTable[r][lsa.dest] # NULL,
           networkTable[r][lsa.dest].dest # NULL
    PROVE  networkTable[r][lsa.dest].age <= lsa.age
  <1>1. LsaArrives(r, lsa) /\ lsa.dest # r /\ ~Seen(r, lsa)  BY Zenon DEF LsaAccepted
  <1>2. lsa \in LSA /\ <<lsa.dest, lsa>> \in lsas  BY Zenon, <1>1, ArrivingLsa
  <1>3. PICK a \in ADs : a = lsa.dest  BY Zenon, <1>2 DEF LSA
  <1>4. PICK entry : entry = networkTable[r][a]  OBVIOUS
  <1>5. GoodEntry(r, a, entry, links, lsas)
    BY Zenon, <1>3, <1>4 DEF IndInv, TablesAreGood
  <1>6. PICK m \in LSA : Records(entry, m) /\ m.dest = a /\ <<a, m>> \in lsas
    BY Zenon, <1>1, <1>3, <1>4, <1>5 DEF GoodEntry
  <1>7. Counted(a) /\ originated[a] <= SEQ_WINDOW  BY Zenon, <1>3 DEF InSequence, Counted
  <1>8. /\ m.age \in 1..originated[a] /\ m.seq = FirstSeq[a] + m.age - 1
        /\ lsa.age \in 1..originated[a] /\ lsa.seq = FirstSeq[a] + lsa.age - 1
    BY Zenon, <1>2, <1>3, <1>6, <1>7 DEF Numbered
  <1>9. entry.seq = m.seq /\ entry.age = m.age  BY Zenon, <1>6 DEF Records
  <1>10. ~(lsa.seq <= entry.seq /\ entry.seq - lsa.seq < SEQ_WINDOW)
    BY Zenon, <1>1, <1>3, <1>4 DEF Seen
  <1>11. originated[a] \in Nat /\ FirstSeq[a] \in Nat /\ SEQ_WINDOW \in Nat
    BY RoutedAssumption DEF IndInv, Shape
  <1>12. entry.age <= lsa.age  BY <1>7, <1>8, <1>9, <1>10, <1>11
  <1> QED  BY Zenon, <1>3, <1>4, <1>12

\* processLSA: the entry of the sender of the LSA gets newer; of the others the calculation may
\* drop one, and makes only blank ones.
LEMMA LsaStepNewer ==
    ASSUME IndInv, Numbered, NEW r \in ADs, LsaStep(r),
           NEW q \in ADs, NEW a \in ADs \ {q}, InSequence(a),
           networkTable[q][a] # NULL, networkTable'[q][a] # NULL,
           networkTable[q][a].dest # NULL, networkTable'[q][a].dest # NULL
    PROVE  networkTable[q][a].age <= networkTable'[q][a].age
  <1>0. PICK lsa \in Lsas : processLSA(r, lsa)  BY Zenon DEF LsaStep
  <1>1. networkTable[q][a].age <= networkTable[q][a].age
    <2>1. networkTable[q][a] \in Entry  BY Zenon DEF IndInv, Shape
    <2>2. networkTable[q][a].age \in Nat  BY Zenon, <2>1 DEF Entry
    <2> QED  BY <2>2
  <1>2. CASE processLSAIgnored(r, lsa)
    <2>1. networkTable' = networkTable  BY Zenon, <1>2 DEF processLSAIgnored
    <2> QED  BY Zenon, <1>1, <2>1
  <1>3. ASSUME LsaAccepted(r, lsa),
               \A p \in ADs \ {r} : networkTable'[p] = networkTable[p],
               \A b \in ADs : networkTable'[r][b] \in {Updated(r, lsa)[b], Blank, NULL}
        PROVE  networkTable[q][a].age <= networkTable'[q][a].age
    <2>1. CASE q # r  BY Zenon, <1>1, <1>3, <2>1
    <2>2. CASE q = r
      <3>1. networkTable'[r][a] = Updated(r, lsa)[a]
        <4>1. Blank.dest = NULL  BY Zenon DEF Blank
        <4> QED  BY Zenon, <1>3, <2>2, <4>1
      <3>2. networkTable[r] \in [ADs -> Entry \cup {NULL}]  BY Zenon DEF IndInv, Shape
      <3>3. CASE a # lsa.dest
        <4>1. Updated(r, lsa)[a] = networkTable[r][a]  BY Zenon, <3>2, <3>3 DEF Updated
        <4> QED  BY Zenon, <1>1, <2>2, <3>1, <4>1
      <3>4. CASE a = lsa.dest
        <4>1. Updated(r, lsa)[a].age = lsa.age  BY Zenon, <3>2, <3>4 DEF Updated
        <4>2. networkTable[r][a].age <= lsa.age  BY Zenon, <1>3, <2>2, <3>4, AcceptedIsNewer
        <4> QED  BY Zenon, <2>2, <3>1, <4>1, <4>2
      <3> QED  BY Zenon, <3>3, <3>4
    <2> QED  BY Zenon, <2>1, <2>2
  <1>4. CASE processLSANoCalc(r, lsa)
    <2>1. LsaAccepted(r, lsa) /\ networkTable' = [networkTable EXCEPT ![r] = Updated(r, lsa)]
      BY Zenon, <1>4 DEF processLSANoCalc
    <2> QED  BY Zenon, <1>3, <2>1 DEF IndInv, Shape
  <1>5. CASE processLSACalc(r, lsa)
    <2>1. LsaAccepted(r, lsa) /\ calcShortestPath(r, Updated(r, lsa))
      BY Zenon, <1>5 DEF processLSACalc
    <2>2. Updated(r, lsa) \in [ADs -> Entry \cup {NULL}]  BY Zenon, <2>1, UpdatedIsGood
    <2> QED  BY Zenon, <1>3, <2>1, <2>2, CalculationKeepsEntries
  <1> QED  BY Zenon, <1>0, <1>2, <1>4, <1>5 DEF processLSA

\* The other steps leave what a router has on record about the others, or forget all of it.
LEMMA OtherStepsKeepRecords ==
    ASSUME IndInv, [Next]_vars, \A r \in ADs : ~LsaStep(r)
    PROVE  \A q \in ADs : \A a \in ADs \ {q} : networkTable'[q][a] \in {networkTable[q][a], NULL}
  <1> DEFINE Kept == \A q \in ADs : \A a \in ADs \ {q} : networkTable'[q][a] \in {networkTable[q][a], NULL}
  <1>0. networkTable \in [ADs -> [ADs -> Entry \cup {NULL}]]  BY Zenon DEF IndInv, Shape
  <1>1. networkTable' = networkTable => Kept  BY Zenon
  <1>2. ASSUME NEW r \in ADs, HelloStep(r) PROVE Kept
    <2>1. ASSUME networkTable' = [networkTable EXCEPT ![r][r] = OwnEntry(r, neighborTable[r])]
          PROVE  Kept
      <3> SUFFICES ASSUME NEW q \in ADs, NEW a \in ADs \ {q}
                   PROVE  networkTable'[q][a] = networkTable[q][a]
        BY Zenon
      <3>1. networkTable' = [networkTable EXCEPT ![r] = [networkTable[r] EXCEPT ![r] = OwnEntry(r, neighborTable[r])]]
        BY Zenon, <2>1
      <3>2. CASE q # r
        <4>1. networkTable'[q] = networkTable[q]  BY Zenon, <1>0, <3>1, <3>2
        <4> QED  BY Zenon, <4>1
      <3>3. CASE q = r
        <4>1. networkTable'[r] = [networkTable[r] EXCEPT ![r] = OwnEntry(r, neighborTable[r])]
          BY Zenon, <1>0, <3>1
        <4>2. networkTable[r] \in [ADs -> Entry \cup {NULL}]  BY Zenon, <1>0
        <4> QED  BY Zenon, <3>3, <4>1, <4>2
      <3> QED  BY Zenon, <3>2, <3>3
    <2> HIDE DEF Kept
    <2> QED
      BY Zenon, <1>1, <1>2, <2>1 DEF HelloStep, processHelloKnown, processHelloNew, processHelloCount
  <1>3. ASSUME NEW r \in ADs, Restart(r) PROVE Kept
    <2>1. networkTable' = [networkTable EXCEPT ![r] = [a \in ADs |-> NULL]]
      BY Zenon, <1>3 DEF Restart
    <2> QED  BY Zenon, <1>0, <2>1
  <1> HIDE DEF Kept
  <1>4. ASSUME NEW r \in ADs, timeout_handler(r) PROVE Kept
    BY Zenon, <1>1, <1>4 DEF timeout_handler
  <1>5. ASSUME UNCHANGED vars PROVE Kept  BY Zenon, <1>1, <1>5 DEF vars, local
  <1>6. ASSUME Next PROVE Kept
    <2>1. PICK r \in ADs : timeout_handler(r) \/ HelloStep(r) \/ LsaStep(r) \/ Restart(r)
      BY Zenon, <1>6 DEF Next
    <2> QED  BY Zenon, <1>2, <1>3, <1>4, <2>1
  <1>7. Kept  BY Zenon, <1>5, <1>6
  <1> QED  BY Zenon, <1>7 DEF Kept

\* In any network, for every window and every first number, whatever LSAs were lost, repeated or
\* delayed: while a router's numbers are in order, no other router replaces what it has on
\* record about it by something older.
THEOREM RecordsNewer == Spec => RecordsOnlyGetNewer
  <1> DEFINE Step ==
        \A r \in ADs : \A a \in ADs \ {r} :
           LET old == networkTable[r][a]
               new == networkTable'[r][a]
           IN  InSequence(a) /\ old # NULL /\ new # NULL =>
                   (old.dest # NULL /\ new.dest # NULL => old.age <= new.age)
  <1>1. IndInv /\ Numbered /\ [Next]_vars => [Step]_vars
    <2> SUFFICES ASSUME IndInv, Numbered, [Next]_vars,
                        NEW q \in ADs, NEW a \in ADs \ {q}, InSequence(a),
                        networkTable[q][a] # NULL, networkTable'[q][a] # NULL,
                        networkTable[q][a].dest # NULL, networkTable'[q][a].dest # NULL
                 PROVE  networkTable[q][a].age <= networkTable'[q][a].age
      BY Zenon
    <2>1. ASSUME NEW r \in ADs, LsaStep(r)
          PROVE  networkTable[q][a].age <= networkTable'[q][a].age
      BY Zenon, <2>1, LsaStepNewer
    <2>2. CASE \A r \in ADs : ~LsaStep(r)
      <3>1. networkTable'[q][a] = networkTable[q][a]  BY Zenon, <2>2, OtherStepsKeepRecords
      <3>2. networkTable[q][a] \in Entry  BY Zenon DEF IndInv, Shape
      <3>3. networkTable[q][a].age \in Nat  BY Zenon, <3>2 DEF Entry
      <3>4. networkTable[q][a].age <= networkTable[q][a].age  BY <3>3
      <3> QED  BY Zenon, <3>1, <3>4
    <2> QED  BY Zenon, <2>1, <2>2
  <1>2. Spec => [][Step]_vars
    <2> HIDE DEF Step
    <2> QED  BY <1>1, NumberedInvariance, PTL DEF Spec
  <1> QED  BY Zenon, <1>2 DEF RecordsOnlyGetNewer
===============================================================================
