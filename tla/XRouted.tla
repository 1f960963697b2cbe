------------------------------- MODULE XRouted --------------------------------
(***************************************************************************)
(* xrouted, the link-state routing daemon of an XIA router: Hello messages *)
(* to the neighbours, flooded link-state advertisements (LSAs), shortest   *)
(* paths and the AD routes it writes into Click.                           *)
(*                                                                         *)
(* There is one router per AD and a router stands for its AD, its HID and  *)
(* the port that leads to it; ADs are numbers, ordered as map<string, ..>  *)
(* orders their names.  The network delivers a broadcast to any linked     *)
(* router, in any order, late, more than once or never.  timeout_handler   *)
(* runs in a signal handler, so it also runs in the middle of              *)
(* processHello.                                                           *)
(***************************************************************************)
EXTENDS ShortestPath

CONSTANTS
    Topologies,     \* the sets of links {a, b} the network may have
    DualRouters,    \* ADs with a dual XIA-IPv4 router
    hello_lsa_ratio, CALC_DIJKSTRA_INTERVAL, MAX_SEQNUM, SEQ_WINDOW,
    FirstSeq,       \* lsa_seq of each router when the others come up
    MaxTicks,       \* bound: timer ticks of each router
    MaxRestarts     \* bound: restarts of each router's xrouted

ASSUME RoutedAssumption ==
    /\ \A links \in Topologies : links \subseteq {{a, b} : a, b \in ADs}
    /\ DualRouters \subseteq ADs
    /\ hello_lsa_ratio \in Nat /\ CALC_DIJKSTRA_INTERVAL \in Nat \ {0}
    /\ MAX_SEQNUM \in Nat \ {0} /\ SEQ_WINDOW \in Nat
    /\ FirstSeq \in [ADs -> 0..(MAX_SEQNUM - 1)]
    /\ MaxTicks \in [ADs -> Nat] /\ MaxRestarts \in [ADs -> Nat]

VARIABLES
    \* route_state of each router
    neighborTable, num_neighbors, lsa_seq, hello_seq, calc_dijstra_ticks,
    networkTable,   \* AD -> the entry of its last LSA, a blank entry, or NULL
    ADrouteTable,   \* AD -> next hop, or NULL
    dual_router_AD,
    counting,       \* processHello has inserted a neighbour and not counted it yet
    \* the AD table and the default IP route of each router's Click
    clickAD, click4ID,
    \* the network
    links,
    hellos,         \* routers whose Hello is under way
    lsas,           \* <<broadcaster, LSA>>
    originated, restarts

local   == <<neighborTable, num_neighbors, lsa_seq, hello_seq, calc_dijstra_ticks, networkTable,
             ADrouteTable, dual_router_AD, counting>>
click   == <<clickAD, click4ID>>
network == <<links, hellos, lsas, originated, restarts>>
vars    == <<local, click, network>>

Linked(a, b) == {a, b} \in links

\* operator[] of networkTable makes a blank entry for an AD not yet heard of.
Blank == [dest |-> NULL, seq |-> 0, neighbors |-> {}, age |-> 0]

Init ==
    /\ links \in Topologies
    /\ neighborTable = [r \in ADs |-> {}]
    /\ num_neighbors = [r \in ADs |-> 0]
    /\ lsa_seq = FirstSeq
    /\ hello_seq = [r \in ADs |-> 0]
    /\ calc_dijstra_ticks = [r \in ADs |-> 0]
    /\ networkTable = [r \in ADs |-> [a \in ADs |-> NULL]]
    /\ ADrouteTable = [r \in ADs |-> [a \in ADs |-> NULL]]
    /\ dual_router_AD = [r \in ADs |-> NULL]
    /\ counting = [r \in ADs |-> FALSE]
    /\ clickAD = [r \in ADs |-> [a \in ADs |-> NULL]]
    /\ click4ID = [r \in ADs |-> NULL]
    /\ hellos = {} /\ lsas = {}
    /\ originated = [r \in ADs |-> 0]
    /\ restarts = [r \in ADs |-> 0]

-------------------------------------------------------------------------------
(* The timer *)

sendHello(r) ==
    /\ hello_seq[r] < hello_lsa_ratio
    /\ hellos' = hellos \cup {r}
    /\ hello_seq' = [hello_seq EXCEPT ![r] = @ + 1]
    /\ UNCHANGED <<lsa_seq, lsas, originated>>

\* The first n of the neighbours, in the order of neighborTable.
FirstOf(S, n) == {a \in S : Cardinality({b \in S : b < a}) < n}

\* num_neighbors tells the receiver how many of the listed neighbours to read.
\* "age" counts the LSAs of the router: history, not part of the message.
Advertisement(r) ==
    [dest |-> r, seq |-> lsa_seq[r], neighbors |-> FirstOf(neighborTable[r], num_neighbors[r]),
     dual |-> r \in DualRouters, age |-> originated[r] + 1]

\* A plausible slip: the sequence number is not wrapped.
NextSeqUnwrapped(r) == lsa_seq[r] + 1

NextSeq(r) == (lsa_seq[r] + 1) % MAX_SEQNUM

sendLSA(r) ==
    /\ hello_seq[r] = hello_lsa_ratio
    /\ lsas' = lsas \cup {<<r, Advertisement(r)>>}
    /\ lsa_seq' = [lsa_seq EXCEPT ![r] = NextSeq(r)]
    /\ originated' = [originated EXCEPT ![r] = @ + 1]
    /\ hello_seq' = [hello_seq EXCEPT ![r] = 0]
    /\ UNCHANGED hellos

Ticks(r) == originated[r] * (hello_lsa_ratio + 1) + hello_seq[r]

timeout_handler(r) ==
    /\ Ticks(r) < MaxTicks[r]
    /\ sendHello(r) \/ sendLSA(r)
    /\ UNCHANGED <<neighborTable, num_neighbors, calc_dijstra_ticks, networkTable, ADrouteTable,
                   dual_router_AD, counting, click, links, restarts>>

-------------------------------------------------------------------------------
(* Hello *)

\* A plausible slip: the router lists itself.
OwnEntryWithSelf(r, neighbors) ==
    [dest |-> r, seq |-> 0, neighbors |-> neighbors \cup {r}, age |-> 0]

\* The router's entry about itself; its sequence number is never read.
OwnEntry(r, neighbors) == [dest |-> r, seq |-> 0, neighbors |-> neighbors, age |-> 0]

HelloArrives(r, n) == n \in hellos /\ Linked(n, r) /\ n # r /\ ~counting[r]

processHelloKnown(r, n) ==
    /\ HelloArrives(r, n) /\ n \in neighborTable[r]
    /\ networkTable' = [networkTable EXCEPT ![r][r] = OwnEntry(r, neighborTable[r])]
    /\ UNCHANGED <<neighborTable, num_neighbors, lsa_seq, hello_seq, calc_dijstra_ticks,
                   ADrouteTable, dual_router_AD, counting, click, network>>

\* A new neighbour, up to "neighborTable[neighborAD] = entry" ...
processHelloNew(r, n) ==
    /\ HelloArrives(r, n) /\ n \notin neighborTable[r]
    /\ neighborTable' = [neighborTable EXCEPT ![r] = @ \cup {n}]
    /\ counting' = [counting EXCEPT ![r] = TRUE]
    /\ UNCHANGED <<num_neighbors, lsa_seq, hello_seq, calc_dijstra_ticks, networkTable,
                   ADrouteTable, dual_router_AD, click, network>>

\* ... and from "num_neighbors++" on.
processHelloCount(r) ==
    /\ counting[r]
    /\ num_neighbors' = [num_neighbors EXCEPT ![r] = @ + 1]
    /\ networkTable' = [networkTable EXCEPT ![r][r] = OwnEntry(r, neighborTable[r])]
    /\ counting' = [counting EXCEPT ![r] = FALSE]
    /\ UNCHANGED <<neighborTable, lsa_seq, hello_seq, calc_dijstra_ticks, ADrouteTable,
                   dual_router_AD, click, network>>

-------------------------------------------------------------------------------
(* LSAs *)

\* A plausible slip: only a repetition is recognised.
SeenSame(r, lsa) == networkTable[r][lsa.dest] # NULL /\ lsa.seq = networkTable[r][lsa.dest].seq

Seen(r, lsa) ==
    LET entry == networkTable[r][lsa.dest]
    IN  /\ entry # NULL
        /\ lsa.seq <= entry.seq /\ entry.seq - lsa.seq < SEQ_WINDOW

LsaArrives(r, lsa) ==
    /\ ~counting[r]
    /\ \E b \in ADs \ {r} : Linked(b, r) /\ <<b, lsa>> \in lsas
    /\ dual_router_AD' = [dual_router_AD EXCEPT ![r] = IF lsa.dual THEN lsa.dest ELSE @]

processLSAIgnored(r, lsa) ==
    /\ LsaArrives(r, lsa)
    /\ lsa.dest = r \/ Seen(r, lsa)
    /\ UNCHANGED <<neighborTable, num_neighbors, lsa_seq, hello_seq, calc_dijstra_ticks,
                   networkTable, ADrouteTable, counting, click, network>>

\* The network table with the new entry.
Updated(r, lsa) ==
    [networkTable[r] EXCEPT ![lsa.dest] =
        [dest |-> lsa.dest, seq |-> lsa.seq, neighbors |-> lsa.neighbors, age |-> lsa.age]]

\* A plausible slip: the LSA is kept and not passed on.
NotRebroadcast(r, lsa) == lsas

Rebroadcast(r, lsa) == lsas \cup {<<r, lsa>>}

\* The LSA is news: it is recorded and broadcast again.
LsaAccepted(r, lsa) ==
    /\ LsaArrives(r, lsa)
    /\ lsa.dest # r /\ ~Seen(r, lsa)
    /\ lsas' = Rebroadcast(r, lsa)
    /\ UNCHANGED <<neighborTable, num_neighbors, lsa_seq, hello_seq, counting, links, hellos,
                   originated, restarts>>

processLSANoCalc(r, lsa) ==
    /\ LsaAccepted(r, lsa)
    /\ calc_dijstra_ticks[r] + 1 # CALC_DIJKSTRA_INTERVAL
    /\ calc_dijstra_ticks' = [calc_dijstra_ticks EXCEPT ![r] = @ + 1]
    /\ networkTable' = [networkTable EXCEPT ![r] = Updated(r, lsa)]
    /\ UNCHANGED <<ADrouteTable, click>>

Abnormal(T) == {a \in ADs : T[a] # NULL /\ (T[a].dest = NULL \/ T[a].neighbors = {})}

\* The table after calcShortestPath: operator[] has made an entry for every AD
\* the loop asked about.
Touched(T, me, checked) ==
    [a \in ADs |-> IF T[a] # NULL THEN T[a]
                   ELSE IF a = me \/ \E c \in checked : T[c] # NULL /\ a \in T[c].neighbors
                   THEN Blank ELSE NULL]

\* A plausible slip: ADrouteTable is not cleared first.
NewRoutesKeepOld(r, table, blank) ==
    [a \in ADs |-> IF blank \/ Routes(table, r)[a] = NULL THEN ADrouteTable[r][a]
                   ELSE Routes(table, r)[a]]

NewRoutes(r, table, blank) == IF blank THEN [a \in ADs |-> NULL] ELSE Routes(table, r)

\* calcShortestPath from the table T.  The loop that filters out abnormal
\* entries goes on from the entry it has just erased, so some of them may stay
\* (or xrouted crashes, which is a Restart).  A blank entry that stays makes
\* selectedAD empty and ends the calculation.
calcShortestPath(r, T) ==
    \E spared \in SUBSET Abnormal(T) :
        LET table == [a \in ADs |-> IF a \in Abnormal(T) \ spared THEN NULL ELSE T[a]]
            blank == \E a \in ADs \ {r} : table[a] # NULL /\ table[a].dest = NULL
        IN  /\ ADrouteTable' = [ADrouteTable EXCEPT ![r] = NewRoutes(r, table, blank)]
            /\ networkTable' = [networkTable EXCEPT ![r] =
                                   Touched(table, r, IF blank THEN {r} ELSE Checked(table, r))]

\* A plausible slip: the destination is written as the next hop.
ClickRoutesToDest(r, routes) ==
    [a \in ADs |-> IF routes[a] # NULL THEN a ELSE clickAD[r][a]]

\* Routes are set and never removed.
ClickRoutes(r, routes) ==
    [a \in ADs |-> IF routes[a] # NULL THEN routes[a] ELSE clickAD[r][a]]

updateClickRoutingTable(r) ==
    LET routes == ADrouteTable'[r]
        dual   == dual_router_AD'[r]
    IN  /\ clickAD' = [clickAD EXCEPT ![r] = ClickRoutes(r, routes)]
        /\ click4ID' = [click4ID EXCEPT ![r] =
                           IF r \notin DualRouters /\ dual # NULL
                           THEN IF routes[dual] # NULL THEN routes[dual] ELSE @
                           ELSE @]

processLSACalc(r, lsa) ==
    /\ LsaAccepted(r, lsa)
    /\ calc_dijstra_ticks[r] + 1 = CALC_DIJKSTRA_INTERVAL
    /\ calcShortestPath(r, Updated(r, lsa))
    /\ calc_dijstra_ticks' = [calc_dijstra_ticks EXCEPT ![r] = 0]
    /\ updateClickRoutingTable(r)

processLSA(r, lsa) == processLSAIgnored(r, lsa) \/ processLSANoCalc(r, lsa) \/ processLSACalc(r, lsa)

\* xrouted stops and is started again: initRouteState.  Click keeps its routes.
Restart(r) ==
    /\ restarts[r] < MaxRestarts[r]
    /\ restarts' = [restarts EXCEPT ![r] = @ + 1]
    /\ neighborTable' = [neighborTable EXCEPT ![r] = {}]
    /\ num_neighbors' = [num_neighbors EXCEPT ![r] = 0]
    /\ lsa_seq' = [lsa_seq EXCEPT ![r] = 0]
    /\ hello_seq' = [hello_seq EXCEPT ![r] = 0]
    /\ calc_dijstra_ticks' = [calc_dijstra_ticks EXCEPT ![r] = 0]
    /\ networkTable' = [networkTable EXCEPT ![r] = [a \in ADs |-> NULL]]
    /\ ADrouteTable' = [ADrouteTable EXCEPT ![r] = [a \in ADs |-> NULL]]
    /\ dual_router_AD' = [dual_router_AD EXCEPT ![r] = NULL]
    /\ counting' = [counting EXCEPT ![r] = FALSE]
    /\ UNCHANGED <<click, links, hellos, lsas, originated>>

HelloStep(r) ==
    \/ \E n \in ADs : processHelloKnown(r, n) \/ processHelloNew(r, n)
    \/ processHelloCount(r)

Lsas == {m[2] : m \in lsas}

LsaStep(r) == \E lsa \in Lsas : processLSA(r, lsa)

Next == \E r \in ADs : timeout_handler(r) \/ HelloStep(r) \/ LsaStep(r) \/ Restart(r)

Spec == Init /\ [][Next]_vars
-------------------------------------------------------------------------------
Entry == [dest : ADs \cup {NULL}, seq : 0..(MAX_SEQNUM - 1), neighbors : SUBSET ADs, age : Nat]
LSA   == [dest : ADs, seq : 0..(MAX_SEQNUM - 1), neighbors : SUBSET ADs, dual : BOOLEAN, age : Nat]
Hop   == ADs \cup {NULL}

\* The type invariant.
TypeOK ==
    /\ links \in Topologies
    /\ neighborTable \in [ADs -> SUBSET ADs] /\ num_neighbors \in [ADs -> Nat]
    /\ lsa_seq \in [ADs -> 0..(MAX_SEQNUM - 1)]
    /\ hello_seq \in [ADs -> 0..hello_lsa_ratio]
    /\ calc_dijstra_ticks \in [ADs -> 0..(CALC_DIJKSTRA_INTERVAL - 1)]
    /\ networkTable \in [ADs -> [ADs -> Entry \cup {NULL}]]
    /\ ADrouteTable \in [ADs -> [ADs -> Hop]] /\ clickAD \in [ADs -> [ADs -> Hop]]
    /\ click4ID \in [ADs -> Hop] /\ dual_router_AD \in [ADs -> Hop]
    /\ counting \in [ADs -> BOOLEAN]
    /\ hellos \subseteq ADs /\ lsas \subseteq ADs \X LSA
    /\ originated \in [ADs -> Nat] /\ restarts \in [ADs -> Nat]

\* Every entry of every router's table lists links that exist, whatever mixture
\* of old, repeated and new LSAs made it, and although an LSA may be sent while
\* processHello has inserted a neighbour it has not counted.
LinkStateIsTrue ==
    \A r, a \in ADs : networkTable[r][a] # NULL => \A b \in networkTable[r][a].neighbors : Linked(a, b)

Records(entry, lsa) ==
    entry.dest = lsa.dest /\ entry.seq = lsa.seq /\ entry.neighbors = lsa.neighbors /\ entry.age = lsa.age

\* What a router has on record about another one is an LSA of that router,
\* unaltered, and the router has passed it on to its own neighbours.
RecordsAreFlooded ==
    \A r, a \in ADs :
        a # r /\ networkTable[r][a] # NULL =>
            \/ networkTable[r][a].dest = NULL
            \/ \E lsa \in Lsas : /\ Records(networkTable[r][a], lsa) /\ lsa.dest = a
                                 /\ <<a, lsa>> \in lsas /\ <<r, lsa>> \in lsas

\* The numbers of a's LSAs so far have neither wrapped nor begun again, and span one window.
InSequence(a) ==
    /\ restarts[a] = 0
    /\ FirstSeq[a] + originated[a] <= MAX_SEQNUM /\ originated[a] <= SEQ_WINDOW

\* Of the LSAs of one router, which arrive in any order, late and repeated, by
\* several ways, an older one never takes the place of a newer one, as long as
\* their sequence numbers are in order: the check in processLSA is enough.
RecordsOnlyGetNewer ==
    [][\A r \in ADs : \A a \in ADs \ {r} :
           LET old == networkTable[r][a]
               new == networkTable'[r][a]
           IN  InSequence(a) /\ old # NULL /\ new # NULL =>
                   (old.dest # NULL /\ new.dest # NULL => old.age <= new.age)]_vars

\* A route in Click leads to a neighbour, also when it is left over from an
\* earlier calculation or an earlier life of xrouted.
RoutesLeadToNeighbours ==
    \A r, d \in ADs : clickAD[r][d] # NULL => Linked(r, clickAD[r][d])

Heard(T) == [a \in ADs |-> IF T[a] = NULL THEN NULL ELSE IF T[a].dest = NULL THEN NULL ELSE T[a]]

\* A calculation gives every AD the router has heard of the first hop of a
\* shortest path in the link state it has by then; or no route to anyone, when
\* some AD heard of cannot be reached or a blank entry outlived the filter.
RoutesAreShortest ==
    [][\A r \in ADs :
           calc_dijstra_ticks[r] > calc_dijstra_ticks'[r] /\ restarts' = restarts =>
               \/ ShortestRoutes(Heard(networkTable'[r]), r, ADrouteTable'[r])
               \/ /\ \E a \in ADs \ {r} : networkTable[r][a] # NULL /\ networkTable[r][a].dest = NULL
                  /\ \A d \in ADs : ADrouteTable'[r][d] = NULL]_vars
===============================================================================
