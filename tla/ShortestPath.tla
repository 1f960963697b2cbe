----------------------------- MODULE ShortestPath -----------------------------
(***************************************************************************)
(* calcShortestPath of xrouted as a function of the link-state table, and  *)
(* the definition of shortest paths it is checked against.  A table T maps *)
(* an AD to its entry, with the field neighbors, or to NULL.               *)
(***************************************************************************)
EXTENDS Naturals, FiniteSets

CONSTANTS ADs, NULL, MAX_HOP_COUNT

ASSUME PathAssumption ==
    /\ ADs \subseteq Nat /\ IsFiniteSet(ADs) /\ NULL \notin Nat
    /\ MAX_HOP_COUNT \in Nat \ {0}

Unreached == 10000000

\* The costs and previous nodes at the top of the loop; left are the keys of
\* the local copy "table".
Start(T, me) ==
    LET mine == IF T[me] = NULL THEN {} ELSE T[me].neighbors
    IN  [left |-> {a \in ADs \ {me} : T[a] # NULL},
         cost |-> [a \in ADs |-> IF a = me THEN 0 ELSE IF a \in mine THEN 1 ELSE Unreached],
         prevNode |-> [a \in ADs |-> IF a \in mine THEN me ELSE NULL]]

\* The first of the cheapest nodes, in the order of the table.
Cheapest(s) ==
    CHOOSE a \in s.left :
        \A b \in s.left : s.cost[a] < s.cost[b] \/ (s.cost[a] = s.cost[b] /\ a <= b)

\* Node a is checked and the nodes it makes cheaper are noted.
Relax(T, s, a) ==
    LET cheaper == {b \in T[a].neighbors \cap (s.left \ {a}) : s.cost[b] > s.cost[a] + 1}
    IN  [left |-> s.left \ {a},
         cost |-> [b \in ADs |-> IF b \in cheaper THEN s.cost[a] + 1 ELSE s.cost[b]],
         prevNode |-> [b \in ADs |-> IF b \in cheaper THEN a ELSE s.prevNode[b]]]

\* The loop gives up when every node left is unreached.
Stuck(s) == \A a \in s.left : s.cost[a] = Unreached

Dijkstra(T, me) ==
    LET run[n \in 0..Cardinality(ADs)] ==
            IF n = 0 THEN Start(T, me)
            ELSE LET s == run[n - 1] IN IF Stuck(s) THEN s ELSE Relax(T, s, Cheapest(s))
    IN  run[Cardinality(ADs)]

\* Back along prevNode until the node after me, for less than MAX_HOP_COUNT steps.
FirstHop(s, me, d) ==
    LET back[h \in 0..MAX_HOP_COUNT] ==
            IF h = 0 THEN d
            ELSE LET a == back[h - 1] IN IF s.prevNode[a] = me THEN a ELSE s.prevNode[a]
        last == back[MAX_HOP_COUNT - 1]
    IN  IF s.prevNode[last] = me THEN last ELSE NULL

\* ADrouteTable: no route at all when the loop gave up.
Routes(T, me) ==
    LET s == Dijkstra(T, me)
    IN  [d \in ADs |-> IF s.left = {} /\ d # me /\ T[d] # NULL THEN FirstHop(s, me, d) ELSE NULL]

\* The nodes whose neighbours the loop looked at.
Checked(T, me) == {me} \cup {a \in ADs \ Dijkstra(T, me).left : T[a] # NULL}

-------------------------------------------------------------------------------
(* The reference *)

\* The nodes at most k links away from a.
Ball(T, a, k) ==
    LET ball[i \in 0..k] ==
            IF i = 0 THEN {a}
            ELSE LET inner == ball[i - 1]
                 IN  inner \cup UNION {T[b].neighbors : b \in {c \in inner : T[c] # NULL}}
    IN  ball[k]

AtDistance(T, a, b, k) == b \in Ball(T, a, k) /\ (k > 0 => b \notin Ball(T, a, k - 1))

\* h is the first hop of a shortest path from me to d.
OnShortestPath(T, me, h, d) ==
    /\ h \in T[me].neighbors
    /\ \E k \in 1..Cardinality(ADs) : AtDistance(T, me, d, k) /\ AtDistance(T, h, d, k - 1)

AllReachable(T, me) ==
    \A d \in ADs : T[d] # NULL => d \in Ball(T, me, Cardinality(ADs))

\* What the table of routes has to be: for every AD heard of the first hop of a
\* shortest path, if all of them can be reached, and else nothing.
ShortestRoutes(T, me, routes) ==
    \A d \in ADs :
        IF d # me /\ T[d] # NULL /\ AllReachable(T, me)
        THEN routes[d] # NULL /\ OnShortestPath(T, me, routes[d], d)
        ELSE routes[d] = NULL
===============================================================================
