------------------------------ MODULE MCXRouted -------------------------------
(***************************************************************************)
(* Small networks for the routing daemon.                                  *)
(***************************************************************************)
EXTENDS XRouted

\* calcShortestPath agrees with the definition of shortest paths on every link
\* state of three routers and on every undirected network of five.
Tables(S) == [S -> [neighbors : SUBSET S] \cup {NULL}]

Five == INSTANCE ShortestPath WITH ADs <- 1..5

Undirected(E) == [a \in 1..5 |-> [neighbors |-> {b \in 1..5 : {a, b} \in E}]]

ASSUME CalculationIsRight ==
    /\ \A T \in Tables(ADs) : \A me \in ADs : ShortestRoutes(T, me, Routes(T, me))
    /\ \A E \in SUBSET {{a, b} : a, b \in 1..5} :
           (\A a \in 1..5 : {a} \notin E) =>
               Five!ShortestRoutes(Undirected(E), 1, Five!Routes(Undirected(E), 1))

Line == {{1, 2}, {2, 3}}

MCTopologies == {Line}

\* Router 3 has been up, alone, until its sequence number is about to wrap:
\* it sends the last two numbers, and the next one is 0.
MCFirstSeq == <<0, 1, MAX_SEQNUM - 2>>

MCMaxTicks == <<0, 2, 4>>
MCMaxRestarts == <<1, 0, 0>>
===============================================================================
