-------------------------- MODULE ShortestPathProofs --------------------------
(***************************************************************************)
(* calcShortestPath computes shortest paths from every link-state table of *)
(* any finite set of ADs.  The loop of the code is a recursive function,   *)
(* and what it computes is proved by induction on the number of rounds,    *)
(* stated with sets: the rounds after which the loop invariant Searched    *)
(* holds contain 0 and with each round the next.                           *)
(***************************************************************************)
EXTENDS ShortestPath, FiniteSetTheorems, TLAPS

\* Induction up to n, with the property given as a set.
LEMMA BoundedInduction ==
    ASSUME NEW n \in Nat, NEW S, 0 \in S, \A i \in 0..(n - 1) : i \in S => i + 1 \in S
    PROVE  n \in S
  <1> DEFINE U == (0..n) \ S
             V == U \ {n}
             pred == [i \in U |-> i - 1]
  <1>1. SUFFICES ASSUME n \notin S PROVE FALSE  OBVIOUS
  <1>2. IsFiniteSet(U) /\ n \in U
    <2>1. IsFiniteSet(0..n)  BY FS_Interval
    <2> QED  BY <1>1, <2>1, FS_Subset
  <1>3. IsFiniteSet(V) /\ Cardinality(V) = Cardinality(U) - 1 /\ Cardinality(U) \in Nat
    BY ZenonT(30), <1>2, FS_RemoveElement, FS_CardinalityType
  <1>4. \A i \in U : i - 1 \in V  OBVIOUS
  <1>5. pred \in [U -> V]  BY <1>4
  <1>6. \A i \in U : i \in Nat /\ pred[i] = i - 1  OBVIOUS
  <1>7. PICK x, y \in U : x # y /\ pred[x] = pred[y]
    <2> HIDE DEF U, V, pred
    <2>1. Cardinality(V) < Cardinality(U)  BY <1>3
    <2> QED  BY ZenonT(30), <1>2, <1>3, <1>5, <2>1, FS_PigeonHole
  <1> HIDE DEF U, V, pred
  <1>8. x \in Nat /\ y \in Nat /\ x - 1 = y - 1  BY <1>6, <1>7
  <1> QED  BY <1>7, <1>8

\* There is a number of ADs.
LEMMA NumberOfADs == Cardinality(ADs) \in Nat
  BY PathAssumption, FS_CardinalityType

\* The nodes of B and their neighbours.
Grow(T, B) == B \cup UNION {T[b].neighbors : b \in {c \in B : T[c] # NULL}}

BallBody(T, a, f, i) == IF i = 0 THEN {a} ELSE Grow(T, f[i - 1])

\* The recursion of Ball is well defined.
LEMMA BallUnfolds ==
    ASSUME NEW N \in Nat, NEW T, NEW a
    PROVE  \E f : f = [i \in 0..N |-> BallBody(T, a, f, i)]
  <1> DEFINE Defined == {k \in 0..N : \E f : f = [i \in 0..k |-> BallBody(T, a, f, i)]}
  <1> USE DEF BallBody
  <1>1. 0 \in Defined
    <2> DEFINE f == [i \in 0..0 |-> {a}]
    <2>1. f = [i \in 0..0 |-> BallBody(T, a, f, i)]  OBVIOUS
    <2> HIDE DEF f
    <2> QED  BY <2>1
  <1>2. ASSUME NEW k \in 0..(N - 1), k \in Defined PROVE k + 1 \in Defined
    <2>1. PICK f : f = [i \in 0..k |-> BallBody(T, a, f, i)]  BY <1>2
    <2> DEFINE g == [i \in 0..(k + 1) |-> IF i = k + 1 THEN BallBody(T, a, f, k + 1) ELSE f[i]]
    <2>2. ASSUME NEW i \in 0..(k + 1) PROVE g[i] = BallBody(T, a, g, i)
      <3>1. CASE i = k + 1
        <4>1. g[i] = BallBody(T, a, f, k + 1) /\ g[i - 1] = f[k]  BY <3>1
        <4> HIDE DEF g
        <4> QED  BY <3>1, <4>1
      <3>2. CASE i \in 0..k
        <4>1. g[i] = f[i] /\ (i # 0 => g[i - 1] = f[i - 1])  BY <3>2
        <4>2. f[i] = BallBody(T, a, f, i)  BY ZenonT(30), <2>1, <3>2
        <4> HIDE DEF g
        <4> QED  BY <4>1, <4>2
      <3> QED  BY <3>1, <3>2
    <2>3. g = [i \in 0..(k + 1) |-> g[i]]  OBVIOUS
    <2> HIDE DEF g, BallBody
    <2>4. g = [i \in 0..(k + 1) |-> BallBody(T, a, g, i)]  BY <2>2, <2>3
    <2> QED  BY <2>4
  <1> HIDE DEF Defined
  <1>3. N \in Defined  BY <1>1, <1>2, BoundedInduction
  <1> QED  BY <1>3 DEF Defined

BallFcn(T, a, k) == CHOOSE f : f = [i \in 0..k |-> BallBody(T, a, f, i)]

\* Ball's recursive function satisfies its defining equations.
LEMMA BallEquations ==
    ASSUME NEW T, NEW a, NEW k \in Nat
    PROVE  /\ Ball(T, a, k) = BallFcn(T, a, k)[k]
           /\ BallFcn(T, a, k)[0] = {a}
           /\ \A i \in 0..(k - 1) : BallFcn(T, a, k)[i + 1] = Grow(T, BallFcn(T, a, k)[i])
  <1> DEFINE f == BallFcn(T, a, k)
  <1>1. f = [i \in 0..k |-> BallBody(T, a, f, i)]
    <2>1. \E h : h = [i \in 0..k |-> BallBody(T, a, h, i)]  BY ZenonT(30), BallUnfolds
    <2> QED  BY Zenon, <2>1 DEF BallFcn
  <1>2. Ball(T, a, k) = f[k]  BY DEF Ball, BallFcn, BallBody, Grow
  <1> HIDE DEF f
  <1>3. f[0] = {a}  BY <1>1 DEF BallBody
  <1>4. ASSUME NEW i \in 0..(k - 1) PROVE f[i + 1] = Grow(T, f[i])
    <2>1. i + 1 \in 0..k /\ i + 1 # 0 /\ (i + 1) - 1 = i  OBVIOUS
    <2>2. f[i + 1] = BallBody(T, a, f, i + 1)  BY <1>1, <2>1
    <2> QED  BY Zenon, <2>1, <2>2 DEF BallBody
  <1> QED  BY <1>2, <1>3, <1>4 DEF f

\* A ball grows by the neighbours of its nodes.
LEMMA BallStep ==
    ASSUME NEW T, NEW a, NEW k \in Nat
    PROVE  /\ Ball(T, a, 0) = {a}
           /\ \A x : x \in Ball(T, a, k + 1) <=>
                 \/ x \in Ball(T, a, k)
                 \/ \E b \in Ball(T, a, k) : T[b] # NULL /\ x \in T[b].neighbors
  <1> DEFINE f == BallFcn(T, a, k)
             g == BallFcn(T, a, k + 1)
             Same == {i \in 0..k : f[i] = g[i]}
  <1>1. Ball(T, a, 0) = {a}  BY BallEquations
  <1>2. /\ Ball(T, a, k) = f[k] /\ f[0] = {a}
        /\ \A i \in 0..(k - 1) : f[i + 1] = Grow(T, f[i])
    BY BallEquations
  <1>3. /\ Ball(T, a, k + 1) = g[k + 1] /\ g[0] = {a}
        /\ \A i \in 0..k : g[i + 1] = Grow(T, g[i])
    <2>1. k + 1 \in Nat /\ (k + 1) - 1 = k  OBVIOUS
    <2> QED  BY <2>1, BallEquations
  <1> HIDE DEF f, g
  <1>4. 0 \in Same  BY <1>2, <1>3
  <1>5. ASSUME NEW i \in 0..(k - 1), i \in Same PROVE i + 1 \in Same
    <2>1. f[i + 1] = Grow(T, f[i]) /\ g[i + 1] = Grow(T, g[i])  BY <1>2, <1>3
    <2> QED  BY <1>5, <2>1
  <1>6. k \in Same
    <2> HIDE DEF Same
    <2> QED  BY <1>4, <1>5, BoundedInduction
  <1>7. Ball(T, a, k + 1) = Grow(T, Ball(T, a, k))  BY <1>2, <1>3, <1>6
  <1> QED  BY <1>1, <1>7 DEF Grow

\* A ball contains the smaller ones.
LEMMA BallGrows ==
    ASSUME NEW T, NEW a, NEW k \in Nat, NEW j \in 0..k
    PROVE  Ball(T, a, j) \subseteq Ball(T, a, k)
  <1> DEFINE Inside == {i \in 0..(k - j) : Ball(T, a, j) \subseteq Ball(T, a, j + i)}
  <1>1. 0 \in Inside  OBVIOUS
  <1>2. ASSUME NEW i \in 0..((k - j) - 1), i \in Inside PROVE i + 1 \in Inside
    <2>1. j + i \in Nat /\ j + (i + 1) = (j + i) + 1 /\ i + 1 \in 0..(k - j)  OBVIOUS
    <2>2. Ball(T, a, j + i) \subseteq Ball(T, a, (j + i) + 1)  BY <2>1, BallStep
    <2> QED  BY <1>2, <2>1, <2>2
  <1>3. k - j \in Inside
    <2>1. k - j \in Nat  OBVIOUS
    <2> HIDE DEF Inside
    <2> QED  BY <1>1, <1>2, <2>1, BoundedInduction
  <1> QED  BY <1>3

\* A path may be extended at its beginning.
LEMMA BallFromNeighbour ==
    ASSUME NEW T, NEW a, NEW b, T[a] # NULL, b \in T[a].neighbors, NEW k \in Nat
    PROVE  Ball(T, b, k) \subseteq Ball(T, a, k + 1)
  <1> DEFINE Inside == {i \in 0..k : Ball(T, b, i) \subseteq Ball(T, a, i + 1)}
  <1>1. 0 \in Inside
    <2>1. a \in Ball(T, a, 0) /\ Ball(T, b, 0) = {b}  BY BallStep
    <2>2. b \in Ball(T, a, 0 + 1)  BY <2>1, BallStep
    <2> QED  BY <2>1, <2>2
  <1>2. ASSUME NEW i \in 0..(k - 1), i \in Inside PROVE i + 1 \in Inside
    <2>1. i \in Nat /\ i + 1 \in Nat /\ i + 1 \in 0..k  OBVIOUS
    <2>2. Ball(T, b, i) \subseteq Ball(T, a, i + 1)  BY <1>2
    <2>3. ASSUME NEW x \in Ball(T, b, i + 1) PROVE x \in Ball(T, a, (i + 1) + 1)
      BY SMTT(30), <2>1, <2>2, <2>3, BallStep
    <2> QED  BY <2>1, <2>3
  <1>3. k \in Inside
    <2> HIDE DEF Inside
    <2> QED  BY <1>1, <1>2, BoundedInduction
  <1> QED  BY <1>3

\* Every non-empty set of natural numbers has a least element.
LEMMA LeastNatural ==
    ASSUME NEW S \in SUBSET Nat, S # {}
    PROVE  \E m \in S : \A x \in S : m <= x
  <1>1. SUFFICES ASSUME \A m \in S : \E x \in S : x < m PROVE FALSE  OBVIOUS
  <1>2. PICK n \in S : TRUE  OBVIOUS
  <1> DEFINE Below == {i \in 0..n : \A x \in S : i < x}
  <1>3. 0 \in Below  BY <1>1
  <1>4. ASSUME NEW i \in 0..(n - 1), i \in Below PROVE i + 1 \in Below
    <2>1. ASSUME NEW x \in S PROVE i + 1 < x
      <3>1. x # i + 1  BY <1>1, <1>4
      <3> QED  BY <1>4, <3>1
    <2> QED  BY <2>1
  <1>5. n \in Below
    <2> HIDE DEF Below
    <2> QED  BY <1>3, <1>4, BoundedInduction
  <1> QED  BY <1>5

\* The neighbours an entry lists are ADs.
IsTable(T) == \A a \in ADs : T[a] # NULL => T[a].neighbors \subseteq ADs

\* The keys of the loop's local copy of the table, as it starts.
Keys(T, me) == {a \in ADs \ {me} : T[a] # NULL}

\* What the loop of calcShortestPath has achieved after n rounds: the nodes checked are the
\* closest ones, a node that is reached has a path of its cost through nodes checked, and no
\* link of a node checked leads to a node that costs more than one hop more.
Searched(T, me, s, n) ==
    LET K    == Keys(T, me)
        done == K \ s.left
    IN  /\ s.left \subseteq K
        /\ s.cost \in [ADs -> 0..Unreached] /\ s.cost[me] = 0
        /\ \A a \in K : s.cost[a] # Unreached =>
               /\ a \in Ball(T, me, s.cost[a]) /\ s.cost[a] \in 1..(n + 1)
               /\ s.prevNode[a] \in {me} \cup done
               /\ T[s.prevNode[a]] # NULL /\ a \in T[s.prevNode[a]].neighbors
               /\ s.cost[a] = s.cost[s.prevNode[a]] + 1
        /\ \A a \in done : /\ s.cost[a] # Unreached /\ s.cost[a] <= n
                           /\ \A b \in s.left : s.cost[a] <= s.cost[b]
        /\ \A a \in {me} \cup done, b \in K :
               T[a] # NULL /\ b \in T[a].neighbors => s.cost[b] <= s.cost[a] + 1

\* The loop starts with the router's own neighbours one hop away.
LEMMA StartSearched ==
    ASSUME NEW T, IsTable(T), NEW me \in ADs
    PROVE  Searched(T, me, Start(T, me), 0)
  <1> DEFINE s == Start(T, me)
             mine == IF T[me] = NULL THEN {} ELSE T[me].neighbors
             K == Keys(T, me)
  <1>1. /\ s.left = K
        /\ s.cost = [a \in ADs |-> IF a = me THEN 0 ELSE IF a \in mine THEN 1 ELSE Unreached]
        /\ s.prevNode = [a \in ADs |-> IF a \in mine THEN me ELSE NULL]
    BY DEF Start, Keys
  <1>2. \A a \in K : a \in ADs /\ a # me  BY DEF Keys
  <1>3. \A a \in mine : T[me] # NULL /\ a \in T[me].neighbors  OBVIOUS
  <1>4. \A b : T[me] # NULL /\ b \in T[me].neighbors => b \in mine  OBVIOUS
  <1>u. Unreached \in Nat /\ Unreached > 1  BY DEF Unreached
  <1> HIDE DEF s, K, mine
  <1>5. \A a \in mine : a \in Ball(T, me, 1)
    <2>1. me \in Ball(T, me, 0) /\ 0 + 1 = 1  BY BallStep
    <2> QED  BY <1>3, <2>1, BallStep
  <1>6. s.cost \in [ADs -> 0..Unreached] /\ s.cost[me] = 0  BY <1>1, <1>u
  <1>7. \A a \in K : s.cost[a] = (IF a \in mine THEN 1 ELSE Unreached)  BY <1>1, <1>2
  <1>8. \A a \in K : s.prevNode[a] = (IF a \in mine THEN me ELSE NULL)  BY <1>1, <1>2
  <1>9. K \ s.left = {}  BY <1>1
  <1>10. ASSUME NEW a \in K, s.cost[a] # Unreached
         PROVE  /\ a \in Ball(T, me, s.cost[a]) /\ s.cost[a] \in 1..(0 + 1)
                /\ s.prevNode[a] \in {me} \cup (K \ s.left)
                /\ T[s.prevNode[a]] # NULL /\ a \in T[s.prevNode[a]].neighbors
                /\ s.cost[a] = s.cost[s.prevNode[a]] + 1
    <2>1. a \in mine /\ s.cost[a] = 1 /\ s.prevNode[a] = me  BY <1>7, <1>8, <1>10
    <2> QED  BY <1>3, <1>5, <1>6, <2>1
  <1>11. ASSUME NEW b \in K, T[me] # NULL, b \in T[me].neighbors
         PROVE  s.cost[b] <= s.cost[me] + 1
    BY <1>4, <1>6, <1>7, <1>11
  <1>12. s.left \subseteq K  BY <1>1
  <1> QED  BY SMTT(30), <1>6, <1>9, <1>10, <1>11, <1>12 DEF Searched, s, K

\* Among the nodes left there is a first of the cheapest.
LEMMA CheapestExists ==
    ASSUME NEW s, s.left \subseteq ADs, s.left # {}, s.cost \in [ADs -> Nat]
    PROVE  /\ Cheapest(s) \in s.left
           /\ \A b \in s.left : s.cost[Cheapest(s)] <= s.cost[b]
  <1> DEFINE Costs == {c \in Nat : \E b \in s.left : s.cost[b] = c}
             First(a) == \A b \in s.left :
                            s.cost[a] < s.cost[b] \/ (s.cost[a] = s.cost[b] /\ a <= b)
  <1>0. \A b \in s.left : b \in ADs /\ b \in Nat /\ s.cost[b] \in Nat
    <2>1. ADs \subseteq Nat  BY PathAssumption
    <2> QED  BY ZenonT(30), <2>1
  <1>1. Costs \subseteq Nat /\ Costs # {} /\ \A b \in s.left : s.cost[b] \in Costs  BY <1>0
  <1>2. PICK c \in Costs : \A x \in Costs : c <= x
    <2> HIDE DEF Costs
    <2> QED  BY <1>1, LeastNatural
  <1> DEFINE Best == {b \in s.left : s.cost[b] = c}
  <1>3. Best \subseteq Nat /\ Best # {}  BY <1>0, <1>2
  <1>4. PICK a \in Best : \A x \in Best : a <= x
    <2> HIDE DEF Best
    <2> QED  BY <1>3, LeastNatural
  <1>5. ASSUME NEW b \in s.left
        PROVE  s.cost[a] < s.cost[b] \/ (s.cost[a] = s.cost[b] /\ a <= b)
    <2>1. c \in Nat /\ s.cost[a] = c /\ s.cost[b] \in Nat /\ c <= s.cost[b]  BY <1>0, <1>1, <1>2, <1>4
    <2>2. s.cost[b] = c => a <= b  BY <1>4
    <2> HIDE DEF Best, Costs
    <2> QED  BY SMTT(30), <2>1, <2>2
  <1>6. \E x \in s.left : First(x)  BY <1>4, <1>5
  <1>7. Cheapest(s) = CHOOSE x \in s.left : First(x)  BY DEF Cheapest
  <1>8. Cheapest(s) \in s.left /\ First(Cheapest(s))
    <2> HIDE DEF First
    <2> QED  BY <1>6, <1>7
  <1> QED  BY <1>0, <1>8

\* Checking the cheapest node left.
LEMMA RelaxSearched ==
    ASSUME NEW T, IsTable(T), NEW me \in ADs, NEW s, NEW n \in Nat, Searched(T, me, s, n),
           ~Stuck(s)
    PROVE  /\ Searched(T, me, Relax(T, s, Cheapest(s)), n + 1)
           /\ Cheapest(s) \in s.left
           /\ Relax(T, s, Cheapest(s)).left = s.left \ {Cheapest(s)}
  <1> DEFINE K == Keys(T, me)
             a == Cheapest(s)
             t == Relax(T, s, a)
             done == K \ s.left
             cheaper == {b \in T[a].neighbors \cap (s.left \ {a}) : s.cost[b] > s.cost[a] + 1}
  <1>u. Unreached \in Nat /\ Unreached > 1  BY DEF Unreached
  <1>K. \A b \in K : b \in ADs /\ b # me /\ T[b] # NULL  BY DEF Keys
  <1>1. /\ s.left \subseteq K
        /\ s.cost \in [ADs -> 0..Unreached] /\ s.cost[me] = 0
        /\ \A b \in done : /\ s.cost[b] # Unreached /\ s.cost[b] <= n
                           /\ \A c \in s.left : s.cost[b] <= s.cost[c]
    BY SMTT(30) DEF Searched
  <1>2. ASSUME NEW b \in K, s.cost[b] # Unreached
        PROVE  /\ b \in Ball(T, me, s.cost[b]) /\ s.cost[b] \in 1..(n + 1)
               /\ s.prevNode[b] \in {me} \cup done
               /\ T[s.prevNode[b]] # NULL /\ b \in T[s.prevNode[b]].neighbors
               /\ s.cost[b] = s.cost[s.prevNode[b]] + 1
    BY <1>2 DEF Searched
  <1>3. \A c \in {me} \cup done, b \in K :
           T[c] # NULL /\ b \in T[c].neighbors => s.cost[b] <= s.cost[c] + 1
    BY DEF Searched
  <1>4. a \in s.left /\ \A b \in s.left : s.cost[a] <= s.cost[b]
    <2>1. s.left \subseteq ADs /\ s.cost \in [ADs -> Nat]  BY <1>1, <1>K, <1>u
    <2>2. s.left # {}  BY SMTT(30) DEF Stuck
    <2> QED  BY <2>1, <2>2, CheapestExists
  <1>5. /\ t.left = s.left \ {a}
        /\ t.cost = [b \in ADs |-> IF b \in cheaper THEN s.cost[a] + 1 ELSE s.cost[b]]
        /\ t.prevNode = [b \in ADs |-> IF b \in cheaper THEN a ELSE s.prevNode[b]]
    BY DEF Relax
  <1>6. \A b : b \in cheaper <=> /\ b \in T[a].neighbors /\ b \in s.left /\ b # a
                                 /\ s.cost[b] > s.cost[a] + 1
    OBVIOUS
  <1> HIDE DEF K, a, t, done, cheaper
  <1>d. \A b : b \in done <=> b \in K /\ b \notin s.left  BY SMTT(30) DEF done
  <1>7. \A b \in ADs : s.cost[b] \in Nat /\ s.cost[b] <= Unreached  BY <1>1, <1>u
  <1>8. /\ a \in K /\ a \in ADs /\ T[a] # NULL /\ a # me
        /\ s.cost[a] \in Nat /\ s.cost[a] # Unreached /\ s.cost[a] < Unreached
    <2>1. PICK b \in s.left : s.cost[b] # Unreached  BY DEF Stuck
    <2>2. b \in ADs /\ a \in ADs /\ a \in K /\ T[a] # NULL /\ a # me  BY <1>1, <1>4, <1>K
    <2>3. s.cost[a] <= s.cost[b]  BY <1>4
    <2> QED  BY SMTT(30), <1>7, <2>1, <2>2, <2>3, <1>u
  <1>9. \A b \in ADs : /\ b \in cheaper => t.cost[b] = s.cost[a] + 1 /\ t.prevNode[b] = a
                       /\ b \notin cheaper => t.cost[b] = s.cost[b] /\ t.prevNode[b] = s.prevNode[b]
    BY <1>5
  <1>10. \A b \in cheaper : b \in K /\ b \in ADs /\ b \in s.left /\ b # a /\ b # me  BY <1>1, <1>6, <1>K
  <1>11. /\ a \notin cheaper /\ me \notin cheaper
         /\ \A b \in done : b \notin cheaper
    BY <1>6, <1>10, <1>d
  <1>12. \A b : b \in K \ t.left <=> b \in done \/ b = a  BY SMTT(30), <1>5, <1>8, <1>d
  <1>13. /\ t.cost \in [ADs -> 0..Unreached] /\ t.cost[me] = 0
    <2>1. \A b \in ADs : (IF b \in cheaper THEN s.cost[a] + 1 ELSE s.cost[b]) \in 0..Unreached
      BY SMTT(30), <1>7, <1>8, <1>u
    <2>2. t.cost[me] = 0  BY <1>1, <1>9, <1>11
    <2> QED  BY SMTT(30), <1>5, <2>1, <2>2
  <1>14. t.left \subseteq K  BY SMTT(30), <1>1, <1>5
  <1>15. s.cost[a] \in 1..(n + 1) /\ a \in Ball(T, me, s.cost[a])  BY SMTT(30), <1>2, <1>8
  <1>16. \A b \in {me, a} \cup done : b \in ADs /\ t.cost[b] = s.cost[b]
    BY SMTT(30), <1>8, <1>9, <1>11, <1>d, <1>K
  <1>17. ASSUME NEW b \in K, t.cost[b] # Unreached
         PROVE  /\ b \in Ball(T, me, t.cost[b]) /\ t.cost[b] \in 1..(n + 1 + 1)
                /\ t.prevNode[b] \in {me} \cup (K \ t.left)
                /\ T[t.prevNode[b]] # NULL /\ b \in T[t.prevNode[b]].neighbors
                /\ t.cost[b] = t.cost[t.prevNode[b]] + 1
    <2>0. b \in ADs  BY SMTT(30), <1>K
    <2>1. CASE b \in cheaper
      <3>1. t.cost[b] = s.cost[a] + 1 /\ t.prevNode[b] = a /\ b \in T[a].neighbors
        BY SMTT(30), <1>6, <1>9, <2>0, <2>1
      <3>2. b \in Ball(T, me, s.cost[a] + 1)  BY ZenonT(30), <1>8, <1>15, <3>1, BallStep
      <3>3. t.cost[a] = s.cost[a]  BY <1>16
      <3>4. a \in K \ t.left  BY <1>12
      <3> QED  BY SMTT(30), <1>8, <1>15, <3>1, <3>2, <3>3, <3>4
    <2>2. CASE b \notin cheaper
      <3>1. t.cost[b] = s.cost[b] /\ t.prevNode[b] = s.prevNode[b]  BY SMTT(30), <1>9, <2>0, <2>2
      <3>2. s.cost[b] # Unreached  BY SMTT(30), <1>17, <3>1
      <3>3. /\ b \in Ball(T, me, s.cost[b]) /\ s.cost[b] \in 1..(n + 1)
            /\ s.prevNode[b] \in {me} \cup done
            /\ T[s.prevNode[b]] # NULL /\ b \in T[s.prevNode[b]].neighbors
            /\ s.cost[b] = s.cost[s.prevNode[b]] + 1
        BY SMTT(30), <1>2, <3>2
      <3>4. t.cost[s.prevNode[b]] = s.cost[s.prevNode[b]]  BY SMTT(30), <1>16, <3>3
      <3>5. s.prevNode[b] \in {me} \cup (K \ t.left)  BY SMTT(30), <1>12, <3>3
      <3>6. s.cost[b] \in 1..(n + 1 + 1)  BY <3>3
      <3> QED  BY <3>1, <3>3, <3>4, <3>5, <3>6
    <2> QED  BY <2>1, <2>2
  <1>18. ASSUME NEW b \in K \ t.left
         PROVE  /\ t.cost[b] # Unreached /\ t.cost[b] <= n + 1
                /\ \A c \in t.left : t.cost[b] <= t.cost[c]
    <2>1. (b \in done \/ b = a) /\ t.cost[b] = s.cost[b] /\ b \in ADs  BY SMTT(30), <1>12, <1>16
    <2>2. /\ s.cost[b] # Unreached /\ s.cost[b] <= n + 1 /\ s.cost[b] \in Nat
          /\ \A c \in s.left : s.cost[b] <= s.cost[c]
      BY SMTT(30), <1>1, <1>4, <1>7, <1>8, <1>15, <2>1 DEF done
    <2>3. ASSUME NEW c \in t.left PROVE s.cost[b] <= t.cost[c]
      <3>1. c \in s.left /\ c \in ADs  BY SMTT(30), <1>5, <1>1, <1>K
      <3>2. s.cost[b] <= s.cost[c] /\ s.cost[b] <= s.cost[a]  BY SMTT(30), <1>4, <2>2, <3>1
      <3> QED  BY SMTT(30), <1>7, <1>8, <1>9, <2>2, <3>1, <3>2
    <2> QED  BY SMTT(30), <2>1, <2>2, <2>3
  <1>19. ASSUME NEW c \in {me} \cup (K \ t.left), NEW b \in K, T[c] # NULL, b \in T[c].neighbors
         PROVE  t.cost[b] <= t.cost[c] + 1
    <2>0. (c = me \/ c \in done \/ c = a) /\ b \in ADs  BY <1>12, <1>K
    <2>1. t.cost[c] = s.cost[c] /\ c \in ADs  BY SMTT(30), <1>16, <2>0
    <2>2. t.cost[b] <= s.cost[b]
      <3>1. b \in cheaper => t.cost[b] = s.cost[a] + 1 /\ s.cost[b] > s.cost[a] + 1
        BY SMTT(30), <1>6, <1>9, <2>0
      <3> QED  BY SMTT(30), <1>7, <1>8, <1>9, <2>0, <3>1
    <2>3. t.cost[b] \in Nat  BY <1>13, <2>0, <1>u
    <2>4. CASE c = me \/ c \in done
      <3>1. s.cost[b] <= s.cost[c] + 1  BY SMTT(30), <1>3, <1>19, <2>4
      <3> QED  BY SMTT(30), <1>7, <2>0, <2>1, <2>2, <2>3, <3>1
    <2>5. CASE c = a
      <3>1. CASE b \in cheaper  BY SMTT(30), <1>8, <1>9, <2>0, <2>1, <2>5, <3>1
      <3>2. CASE b \notin cheaper /\ b \in s.left /\ b # a
        <4>1. ~(s.cost[b] > s.cost[a] + 1)  BY SMTT(30), <1>6, <1>19, <2>5, <3>2
        <4> QED  BY SMTT(30), <1>7, <1>8, <2>0, <2>1, <2>2, <2>3, <2>5, <4>1
      <3>3. CASE b = a  BY SMTT(30), <1>8, <2>0, <2>1, <2>5, <3>3
      <3>4. CASE b \notin s.left
        <4>1. s.cost[b] <= s.cost[a]  BY SMTT(30), <1>1, <1>4, <1>d, <3>4
        <4> QED  BY SMTT(30), <1>7, <1>8, <2>0, <2>1, <2>2, <2>3, <2>5, <4>1
      <3> QED  BY SMTT(30), <3>1, <3>2, <3>3, <3>4
    <2> QED  BY <2>0, <2>4, <2>5
  <1>20. Searched(T, me, t, n + 1)
    BY SMTT(30), <1>13, <1>14, <1>17, <1>18, <1>19 DEF Searched, K
  <1> QED  BY <1>4, <1>5, <1>20 DEF t, a

\* One round of the loop.
Round(T, s) == IF Stuck(s) THEN s ELSE Relax(T, s, Cheapest(s))

RunBody(T, me, f, i) == IF i = 0 THEN Start(T, me) ELSE Round(T, f[i - 1])

\* The recursion of Dijkstra is well defined.
LEMMA RunUnfolds ==
    ASSUME NEW N \in Nat, NEW T, NEW me
    PROVE  \E f : f = [i \in 0..N |-> RunBody(T, me, f, i)]
  <1> DEFINE Defined == {k \in 0..N : \E f : f = [i \in 0..k |-> RunBody(T, me, f, i)]}
  <1> USE DEF RunBody
  <1>1. 0 \in Defined
    <2> DEFINE f == [i \in 0..0 |-> Start(T, me)]
    <2>1. f = [i \in 0..0 |-> RunBody(T, me, f, i)]  OBVIOUS
    <2> HIDE DEF f
    <2> QED  BY <2>1
  <1>2. ASSUME NEW k \in 0..(N - 1), k \in Defined PROVE k + 1 \in Defined
    <2>1. PICK f : f = [i \in 0..k |-> RunBody(T, me, f, i)]  BY <1>2
    <2> DEFINE g == [i \in 0..(k + 1) |-> IF i = k + 1 THEN RunBody(T, me, f, k + 1) ELSE f[i]]
    <2>2. ASSUME NEW i \in 0..(k + 1) PROVE g[i] = RunBody(T, me, g, i)
      <3>1. CASE i = k + 1
        <4>1. g[i] = RunBody(T, me, f, k + 1) /\ g[i - 1] = f[k]  BY <3>1
        <4> HIDE DEF g
        <4> QED  BY <3>1, <4>1
      <3>2. CASE i \in 0..k
        <4>1. g[i] = f[i] /\ (i # 0 => g[i - 1] = f[i - 1])  BY <3>2
        <4>2. f[i] = RunBody(T, me, f, i)  BY <2>1, <3>2
        <4> HIDE DEF g
        <4> QED  BY <4>1, <4>2
      <3> QED  BY <3>1, <3>2
    <2>3. g = [i \in 0..(k + 1) |-> g[i]]  OBVIOUS
    <2> HIDE DEF g, RunBody
    <2>4. g = [i \in 0..(k + 1) |-> RunBody(T, me, g, i)]  BY <2>2, <2>3
    <2> QED  BY <2>4
  <1> HIDE DEF Defined
  <1>3. N \in Defined  BY <1>1, <1>2, BoundedInduction
  <1> QED  BY <1>3 DEF Defined

RunFcn(T, me) == CHOOSE f : f = [i \in 0..Cardinality(ADs) |-> RunBody(T, me, f, i)]

\* Dijkstra's recursive function goes round by round.
LEMMA RunEquations ==
    ASSUME NEW T, NEW me, Cardinality(ADs) \in Nat
    PROVE  /\ Dijkstra(T, me) = RunFcn(T, me)[Cardinality(ADs)]
           /\ RunFcn(T, me)[0] = Start(T, me)
           /\ \A i \in 0..(Cardinality(ADs) - 1) : RunFcn(T, me)[i + 1] = Round(T, RunFcn(T, me)[i])
  <1> DEFINE f == RunFcn(T, me)
             N == Cardinality(ADs)
  <1>1. f = [i \in 0..N |-> RunBody(T, me, f, i)]
    <2>1. \E h : h = [i \in 0..N |-> RunBody(T, me, h, i)]  BY ZenonT(30), RunUnfolds
    <2> QED  BY Zenon, <2>1 DEF RunFcn
  <1>2. Dijkstra(T, me) = f[N]  BY DEF Dijkstra, RunFcn, RunBody, Round
  <1> HIDE DEF f, N
  <1>N. N \in Nat  BY DEF N
  <1>3. f[0] = Start(T, me)  BY <1>1, <1>N DEF RunBody
  <1>4. ASSUME NEW i \in 0..(N - 1) PROVE f[i + 1] = Round(T, f[i])
    <2>1. i + 1 \in 0..N /\ i + 1 # 0 /\ (i + 1) - 1 = i  BY <1>N
    <2>2. f[i + 1] = RunBody(T, me, f, i + 1)  BY ZenonT(30), <1>1, <2>1
    <2> QED  BY Zenon, <2>1, <2>2 DEF RunBody
  <1> QED  BY <1>2, <1>3, <1>4 DEF f, N

\* The loop ends, with nothing left or with nothing reached left, and it has done its search.
LEMMA DijkstraSearches ==
    ASSUME NEW T, IsTable(T), NEW me \in ADs
    PROVE  /\ Searched(T, me, Dijkstra(T, me), Cardinality(ADs))
           /\ Stuck(Dijkstra(T, me))
           /\ Cardinality(ADs) \in Nat
  <1> DEFINE N == Cardinality(ADs)
             f == RunFcn(T, me)
             Good == {i \in 0..N : /\ Searched(T, me, f[i], i)
                                   /\ Stuck(f[i]) \/ Cardinality(f[i].left) + i <= N}
  <1>1. IsFiniteSet(ADs) /\ N \in Nat  BY PathAssumption, FS_CardinalityType
  <1>2. /\ Dijkstra(T, me) = f[N] /\ f[0] = Start(T, me)
        /\ \A i \in 0..(N - 1) : f[i + 1] = Round(T, f[i])
    BY <1>1, RunEquations
  <1> HIDE DEF N, f
  <1>3. ASSUME NEW s, NEW i, Searched(T, me, s, i)
        PROVE  IsFiniteSet(s.left) /\ Cardinality(s.left) \in Nat /\ Cardinality(s.left) <= N
    <2>1. s.left \subseteq ADs  BY <1>3 DEF Searched, Keys
    <2> QED  BY SMTT(30), <1>1, <2>1, FS_Subset, FS_CardinalityType DEF N
  <1>4. 0 \in Good
    <2>1. Searched(T, me, f[0], 0)  BY <1>2, StartSearched
    <2>2. Cardinality(f[0].left) \in Nat /\ Cardinality(f[0].left) <= N  BY <1>3, <2>1
    <2> QED  BY <1>1, <2>1, <2>2
  <1>5. ASSUME NEW i \in 0..(N - 1), i \in Good PROVE i + 1 \in Good
    <2> DEFINE s == f[i]
               t == f[i + 1]
    <2>1. /\ Searched(T, me, s, i) /\ (Stuck(s) \/ Cardinality(s.left) + i <= N)
          /\ t = Round(T, s) /\ i \in Nat /\ i + 1 \in 0..N
      BY SMTT(30), <1>1, <1>2, <1>5
    <2> HIDE DEF s, t
    <2>2. CASE Stuck(s)
      <3>1. t = s  BY <2>1, <2>2 DEF Round
      <3>2. \A a \in Keys(T, me) : a \in ADs  BY SMTT(30) DEF Keys
      <3>3. s.cost \in [ADs -> 0..Unreached]  BY SMTT(30), <2>1 DEF Searched
      <3>4. \A a \in ADs : s.cost[a] <= i => s.cost[a] <= i + 1
        <4>1. Unreached \in Nat  BY DEF Unreached
        <4> QED  BY <2>1, <3>3, <4>1
      <3>5. \A c : c \in 1..(i + 1) => c \in 1..(i + 1 + 1)  BY SMTT(30), <2>1
      <3>6. Searched(T, me, s, i + 1)  BY <2>1, <3>2, <3>4, <3>5 DEF Searched
      <3> QED  BY <2>1, <2>2, <3>1, <3>6 DEF t
    <2>3. CASE ~Stuck(s)
      <3> DEFINE a == Cheapest(s)
      <3>1. Searched(T, me, t, i + 1) /\ a \in s.left /\ t.left = s.left \ {a}
        BY <2>1, <2>3, RelaxSearched DEF Round
      <3>2. IsFiniteSet(s.left) /\ Cardinality(s.left) \in Nat  BY <1>3, <2>1
      <3>3. Cardinality(t.left) = Cardinality(s.left) - 1  BY ZenonT(30), <3>1, <3>2, FS_RemoveElement
      <3>4. Cardinality(t.left) + (i + 1) <= N  BY <1>1, <2>1, <2>3, <3>2, <3>3
      <3> QED  BY SMTT(30), <2>1, <3>1, <3>4 DEF t
    <2> QED  BY <2>2, <2>3
  <1>6. N \in Good
    <2> HIDE DEF Good
    <2> QED  BY <1>1, <1>4, <1>5, BoundedInduction
  <1>7. Stuck(f[N])
    <2>1. CASE Cardinality(f[N].left) + N <= N
      <3>1. IsFiniteSet(f[N].left) /\ Cardinality(f[N].left) \in Nat  BY <1>3, <1>6
      <3>2. Cardinality(f[N].left) = 0  BY <1>1, <2>1, <3>1
      <3>3. f[N].left = {}  BY <3>1, <3>2, FS_EmptySet
      <3> QED  BY <3>3 DEF Stuck
    <2> QED  BY <1>6, <2>1
  <1> QED  BY <1>1, <1>2, <1>6, <1>7 DEF N

\* One step back along prevNode.
Back(s, me, a) == IF s.prevNode[a] = me THEN a ELSE s.prevNode[a]

BackBody(s, me, d, f, i) == IF i = 0 THEN d ELSE Back(s, me, f[i - 1])

BackFcn(s, me, d) == CHOOSE f : f = [i \in 0..MAX_HOP_COUNT |-> BackBody(s, me, d, f, i)]

\* FirstHop's recursive function goes back step by step.
LEMMA BackEquations ==
    ASSUME NEW s, NEW me, NEW d
    PROVE  /\ LET last == BackFcn(s, me, d)[MAX_HOP_COUNT - 1]
              IN  FirstHop(s, me, d) = IF s.prevNode[last] = me THEN last ELSE NULL
           /\ BackFcn(s, me, d)[0] = d
           /\ \A i \in 0..(MAX_HOP_COUNT - 1) : BackFcn(s, me, d)[i + 1] = Back(s, me, BackFcn(s, me, d)[i])
  <1> DEFINE f == BackFcn(s, me, d)
             N == MAX_HOP_COUNT
  <1>N. N \in Nat  BY PathAssumption
  <1>1. f = [i \in 0..N |-> BackBody(s, me, d, f, i)]
    <2> HIDE DEF N
    <2>1. \E h : h = [i \in 0..N |-> BackBody(s, me, d, h, i)]
      <3> DEFINE Defined == {k \in 0..N : \E h : h = [i \in 0..k |-> BackBody(s, me, d, h, i)]}
      <3> USE DEF BackBody
      <3>1. 0 \in Defined
        <4> DEFINE h == [i \in 0..0 |-> d]
        <4>1. h = [i \in 0..0 |-> BackBody(s, me, d, h, i)]  OBVIOUS
        <4> HIDE DEF h, BackBody
        <4>2. 0 \in 0..N  BY <1>N
        <4> QED  BY <4>1, <4>2
      <3>2. ASSUME NEW k \in 0..(N - 1), k \in Defined PROVE k + 1 \in Defined
        <4>1. PICK h : h = [i \in 0..k |-> BackBody(s, me, d, h, i)]  BY <3>2
        <4> DEFINE g == [i \in 0..(k + 1) |-> IF i = k + 1 THEN BackBody(s, me, d, h, k + 1) ELSE h[i]]
        <4>2. ASSUME NEW i \in 0..(k + 1) PROVE g[i] = BackBody(s, me, d, g, i)
          <5>1. CASE i = k + 1
            <6>1. g[i] = BackBody(s, me, d, h, k + 1) /\ g[i - 1] = h[k]  BY <5>1
            <6> HIDE DEF g
            <6> QED  BY <5>1, <6>1
          <5>2. CASE i \in 0..k
            <6>1. g[i] = h[i] /\ (i # 0 => g[i - 1] = h[i - 1])  BY <5>2
            <6>2. h[i] = BackBody(s, me, d, h, i)  BY <4>1, <5>2
            <6> HIDE DEF g
            <6> QED  BY <6>1, <6>2
          <5> QED  BY <5>1, <5>2
        <4>3. g = [i \in 0..(k + 1) |-> g[i]]  OBVIOUS
        <4> HIDE DEF g, BackBody
        <4>4. g = [i \in 0..(k + 1) |-> BackBody(s, me, d, g, i)]  BY <4>2, <4>3
        <4>5. k + 1 \in 0..N  BY <1>N
        <4> QED  BY <4>4, <4>5
      <3> HIDE DEF Defined
      <3>3. N \in Defined  BY <1>N, <3>1, <3>2, BoundedInduction
      <3> QED  BY <3>3 DEF Defined
    <2> QED  BY Zenon, <2>1 DEF BackFcn, N
  <1>2. FirstHop(s, me, d) = IF s.prevNode[f[N - 1]] = me THEN f[N - 1] ELSE NULL
    BY DEF FirstHop, BackFcn, BackBody, Back
  <1> HIDE DEF f, N
  <1>3. f[0] = d  BY <1>1, <1>N DEF BackBody
  <1>4. ASSUME NEW i \in 0..(N - 1) PROVE f[i + 1] = Back(s, me, f[i])
    <2>1. i + 1 \in 0..N /\ i + 1 # 0 /\ (i + 1) - 1 = i  BY <1>N
    <2>2. f[i + 1] = BackBody(s, me, d, f, i + 1)  BY ZenonT(30), <1>1, <2>1
    <2> QED  BY Zenon, <2>1, <2>2 DEF BackBody
  <1> QED  BY <1>2, <1>3, <1>4 DEF f, N

\* With nothing left, the way back from a node d stays among the nodes of the table, each of
\* which is on a path of minimal cost to d, and it is at the node after me in MAX_HOP_COUNT
\* steps if d costs no more.
LEMMA BackStaysOnPath ==
    ASSUME NEW T, IsTable(T), NEW me \in ADs, NEW s, NEW n \in Nat, Searched(T, me, s, n),
           s.left = {}, NEW d \in Keys(T, me), NEW i \in 0..(MAX_HOP_COUNT - 1)
    PROVE  LET a == BackFcn(s, me, d)[i]
           IN  /\ a \in Keys(T, me) /\ s.cost[a] <= s.cost[d]
               /\ d \in Ball(T, a, s.cost[d] - s.cost[a])
               /\ s.cost[a] = 1 \/ s.cost[a] = s.cost[d] - i
  <1> DEFINE f == BackFcn(s, me, d)
             K == Keys(T, me)
             k == s.cost[d]
             OnPath == {h \in 0..i : /\ f[h] \in K /\ s.cost[f[h]] <= k
                                     /\ d \in Ball(T, f[h], k - s.cost[f[h]])
                                     /\ s.cost[f[h]] = 1 \/ s.cost[f[h]] = k - h}
  <1>0. MAX_HOP_COUNT \in Nat /\ i \in Nat  BY PathAssumption
  <1>1. f[0] = d /\ \A h \in 0..(i - 1) : f[h + 1] = Back(s, me, f[h])
    <2>1. \A h \in 0..(MAX_HOP_COUNT - 1) : f[h + 1] = Back(s, me, f[h])  BY BackEquations
    <2>2. f[0] = d  BY BackEquations
    <2> HIDE DEF f
    <2>3. \A h \in 0..(i - 1) : h \in 0..(MAX_HOP_COUNT - 1)  BY SMTT(30), <1>0
    <2> QED  BY <2>1, <2>2, <2>3
  <1>2. ASSUME NEW a \in K
        PROVE  /\ a \in ADs /\ a # me /\ s.cost[a] \in Nat /\ s.cost[a] >= 1 /\ T[a] # NULL
               /\ s.prevNode[a] \in {me} \cup K
               /\ T[s.prevNode[a]] # NULL /\ a \in T[s.prevNode[a]].neighbors
               /\ s.cost[a] = s.cost[s.prevNode[a]] + 1
    <2>1. a \in K \ s.left  BY <1>2
    <2>2. s.cost[a] # Unreached  BY SMTT(30), <2>1 DEF Searched
    <2>3. /\ s.cost[a] \in 1..(n + 1)
          /\ s.prevNode[a] \in {me} \cup (K \ s.left)
          /\ T[s.prevNode[a]] # NULL /\ a \in T[s.prevNode[a]].neighbors
          /\ s.cost[a] = s.cost[s.prevNode[a]] + 1
      BY <2>2 DEF Searched
    <2>4. a \in ADs /\ a # me /\ T[a] # NULL  BY DEF Keys
    <2> QED  BY <2>3, <2>4
  <1>3. s.cost[me] = 0  BY DEF Searched
  <1> HIDE DEF f, K
  <1>k. d \in K /\ k \in Nat  BY <1>2 DEF K
  <1> HIDE DEF k
  <1>4. 0 \in OnPath
    <2>1. k - s.cost[d] = 0 /\ k = k - 0 /\ s.cost[d] = k  BY <1>k DEF k
    <2>2. d \in Ball(T, d, 0)  BY SMTT(30), BallStep
    <2> QED  BY SMTT(30), <1>0, <1>1, <1>k, <2>1, <2>2
  <1>5. ASSUME NEW h \in 0..(i - 1), h \in OnPath PROVE h + 1 \in OnPath
    <2> DEFINE a == f[h]
               c == s.cost[a]
               p == s.prevNode[a]
    <2>1. /\ a \in K /\ c <= k /\ d \in Ball(T, a, k - c) /\ (c = 1 \/ c = k - h)
          /\ f[h + 1] = Back(s, me, a) /\ h + 1 \in 0..i /\ h \in Nat
      BY SMTT(30), <1>0, <1>1, <1>5
    <2> HIDE DEF a, c, p
    <2>2. /\ c \in Nat /\ c >= 1 /\ p \in {me} \cup K /\ T[p] # NULL /\ a \in T[p].neighbors
          /\ c = s.cost[p] + 1
      BY <1>2, <2>1 DEF c, p
    <2>3. CASE p = me
      <3>1. f[h + 1] = a  BY <2>1, <2>3 DEF Back, p
      <3>2. s.cost[a] = 1 /\ c = 1  BY <1>3, <2>2, <2>3 DEF c
      <3> QED  BY <2>1, <3>1, <3>2
    <2>4. CASE p # me
      <3>1. f[h + 1] = p  BY <2>1, <2>4 DEF Back, p
      <3>2. p \in K /\ s.cost[p] \in Nat /\ s.cost[p] >= 1  BY <1>2, <2>2, <2>4
      <3>3. s.cost[p] = k - (h + 1)  BY <1>k, <2>1, <2>2, <3>2
      <3>4. k - c \in Nat /\ (k - c) + 1 = k - s.cost[p] /\ s.cost[p] <= k
        BY SMTT(30), <1>k, <2>1, <2>2, <3>2
      <3>5. d \in Ball(T, p, (k - c) + 1)  BY <2>1, <2>2, <3>4, BallFromNeighbour
      <3> QED  BY SMTT(30), <2>1, <3>1, <3>2, <3>3, <3>4, <3>5
    <2> QED  BY SMTT(30), <2>3, <2>4
  <1>6. i \in OnPath
    <2> HIDE DEF OnPath
    <2> QED  BY <1>0, <1>4, <1>5, BoundedInduction
  <1> QED  BY <1>6 DEF f, K, k

\* With nothing left, the first hop found is a neighbour of the router.
LEMMA FirstHopIsNeighbour ==
    ASSUME NEW T, IsTable(T), NEW me \in ADs, NEW s, NEW n \in Nat, Searched(T, me, s, n),
           s.left = {}, NEW d \in Keys(T, me), FirstHop(s, me, d) # NULL
    PROVE  /\ FirstHop(s, me, d) \in ADs
           /\ T[me] # NULL /\ FirstHop(s, me, d) \in T[me].neighbors
  <1> DEFINE i == MAX_HOP_COUNT - 1
             a == BackFcn(s, me, d)[i]
  <1>1. FirstHop(s, me, d) = a /\ s.prevNode[a] = me  BY BackEquations
  <1>2. i \in 0..(MAX_HOP_COUNT - 1)  BY SMTT(30), PathAssumption
  <1> HIDE DEF i
  <1>3. a \in Keys(T, me)  BY <1>2, BackStaysOnPath
  <1> HIDE DEF a
  <1>4. a \in ADs  BY <1>3 DEF Keys
  <1>5. s.cost[a] # Unreached  BY <1>3 DEF Searched
  <1>6. T[s.prevNode[a]] # NULL /\ a \in T[s.prevNode[a]].neighbors  BY <1>3, <1>5 DEF Searched
  <1> QED  BY <1>1, <1>4, <1>6

\* Every route of a calculation leads to a neighbour the router's own entry lists.
LEMMA RoutesToNeighbours ==
    ASSUME NEW T, IsTable(T), NEW me \in ADs
    PROVE  /\ Routes(T, me) \in [ADs -> ADs \cup {NULL}]
           /\ \A d \in ADs : Routes(T, me)[d] # NULL =>
                 T[me] # NULL /\ Routes(T, me)[d] \in T[me].neighbors
  <1> DEFINE s == Dijkstra(T, me)
             hop(d) == IF s.left = {} /\ d # me /\ T[d] # NULL THEN FirstHop(s, me, d) ELSE NULL
  <1>1. Searched(T, me, s, Cardinality(ADs)) /\ Cardinality(ADs) \in Nat  BY DijkstraSearches
  <1>2. Routes(T, me) = [d \in ADs |-> hop(d)]  BY DEF Routes
  <1> HIDE DEF s
  <1>3. ASSUME NEW d \in ADs, hop(d) # NULL
        PROVE  hop(d) \in ADs /\ T[me] # NULL /\ hop(d) \in T[me].neighbors
    <2>1. s.left = {} /\ d \in Keys(T, me) /\ hop(d) = FirstHop(s, me, d)  BY <1>3 DEF Keys
    <2> HIDE DEF hop
    <2> QED  BY <1>1, <1>3, <2>1, FirstHopIsNeighbour
  <1> HIDE DEF hop
  <1>4. \A d \in ADs : hop(d) \in ADs \cup {NULL}  BY <1>3
  <1> QED  BY <1>2, <1>3, <1>4

\* A ball around an AD holds ADs.
LEMMA BallOfADs ==
    ASSUME NEW T, IsTable(T), NEW me \in ADs, NEW k \in Nat
    PROVE  Ball(T, me, k) \subseteq ADs
  <1> DEFINE Inside == {i \in 0..k : Ball(T, me, i) \subseteq ADs}
  <1>1. 0 \in Inside  BY BallStep
  <1>2. ASSUME NEW i \in 0..(k - 1), i \in Inside PROVE i + 1 \in Inside
    <2>1. i \in Nat /\ i + 1 \in 0..k /\ Ball(T, me, i) \subseteq ADs  BY <1>2
    <2>2. ASSUME NEW x \in Ball(T, me, i + 1) PROVE x \in ADs
      BY <2>1, <2>2, BallStep DEF IsTable
    <2> QED  BY <2>1, <2>2
  <1>3. k \in Inside
    <2> HIDE DEF Inside
    <2> QED  BY <1>1, <1>2, BoundedInduction
  <1> QED  BY <1>3

\* When the loop has ended, no node costs more than its distance.
LEMMA SearchIsExact ==
    ASSUME NEW T, IsTable(T), NEW me \in ADs, NEW s, NEW n \in Nat, Searched(T, me, s, n),
           Stuck(s), NEW k \in Nat, k < Unreached, NEW d \in Keys(T, me), d \in Ball(T, me, k)
    PROVE  s.cost[d] <= k
  <1> DEFINE K == Keys(T, me)
             Exact == {i \in 0..k : \A b \in K : b \in Ball(T, me, i) => s.cost[b] <= i}
  <1>u. Unreached \in Nat  BY DEF Unreached
  <1>0. /\ s.cost \in [ADs -> 0..Unreached] /\ s.cost[me] = 0
        /\ \A a \in {me} \cup (K \ s.left), b \in K :
               T[a] # NULL /\ b \in T[a].neighbors => s.cost[b] <= s.cost[a] + 1
    BY DEF Searched
  <1>K. \A b : b \in K <=> b \in ADs /\ b # me /\ T[b] # NULL  BY DEF Keys
  <1> HIDE DEF K
  <1>1. 0 \in Exact  BY <1>K, BallStep
  <1>2. ASSUME NEW i \in 0..(k - 1), i \in Exact PROVE i + 1 \in Exact
    <2>1. i \in Nat /\ i + 1 \in 0..k /\ i < Unreached  BY <1>2, <1>u
    <2>2. ASSUME NEW b \in K, b \in Ball(T, me, i + 1) PROVE s.cost[b] <= i + 1
      <3>0. s.cost[b] \in Nat  BY <1>0, <1>K, <1>u
      <3>1. CASE b \in Ball(T, me, i)  BY <1>2, <2>1, <3>0, <3>1
      <3>2. CASE b \notin Ball(T, me, i)
        <4>1. PICK a \in Ball(T, me, i) : T[a] # NULL /\ b \in T[a].neighbors
          BY <2>1, <2>2, <3>2, BallStep
        <4>2. a \in ADs  BY <2>1, BallOfADs
        <4>3. CASE a = me
          BY <1>0, <2>1, <3>0, <4>1, <4>3
        <4>4. CASE a # me
          <5>1. a \in K /\ s.cost[a] <= i /\ s.cost[a] \in Nat
            BY SMTT(30), <1>2, <1>0, <1>K, <1>u, <4>1, <4>2, <4>4
          <5>2. s.cost[a] # Unreached  BY <1>u, <2>1, <5>1
          <5>3. a \notin s.left  BY <5>2 DEF Stuck
          <5>4. s.cost[b] <= s.cost[a] + 1  BY <1>0, <4>1, <5>1, <5>3
          <5> QED  BY <2>1, <3>0, <5>1, <5>4
        <4> QED  BY <4>3, <4>4
      <3> QED  BY <3>1, <3>2
    <2> QED  BY <2>1, <2>2
  <1>3. k \in Exact
    <2> HIDE DEF Exact
    <2> QED  BY <1>1, <1>2, BoundedInduction
  <1> QED  BY <1>3 DEF K

\* MAX_HOP_COUNT steps back are enough for every path, and no cost reaches that of a node not
\* reached.
FewADs == Cardinality(ADs) <= MAX_HOP_COUNT /\ Cardinality(ADs) < Unreached

\* calcShortestPath computes shortest routes, from every link-state table: for every AD of the
\* table the first hop of a shortest path, if all of them can be reached, and else nothing.
THEOREM RoutesCorrect ==
    ASSUME FewADs, NEW T, IsTable(T), NEW me \in ADs
    PROVE  ShortestRoutes(T, me, Routes(T, me))
  <1> DEFINE s == Dijkstra(T, me)
             N == Cardinality(ADs)
             K == Keys(T, me)
             routes == Routes(T, me)
  <1>1. Searched(T, me, s, N) /\ Stuck(s) /\ N \in Nat  BY DijkstraSearches
  <1>2. /\ \A d \in K : routes[d] = (IF s.left = {} THEN FirstHop(s, me, d) ELSE NULL)
        /\ \A d \in ADs \ K : routes[d] = NULL
    BY DEF Routes, Keys
  <1>K. \A b : b \in K <=> b \in ADs /\ b # me /\ T[b] # NULL  BY DEF Keys
  <1>h. MAX_HOP_COUNT \in Nat /\ MAX_HOP_COUNT > 0 /\ N <= MAX_HOP_COUNT /\ N < Unreached
    BY PathAssumption DEF FewADs
  <1>u. Unreached \in Nat  BY DEF Unreached
  <1> HIDE DEF s, N, K, routes
  <1>3. CASE s.left # {}
    <2>1. PICK d \in s.left : TRUE  BY <1>3
    <2>2. d \in K /\ s.cost[d] = Unreached  BY <1>1 DEF Searched, Stuck, K
    <2>3. d \notin Ball(T, me, N)
      <3>1. SUFFICES ASSUME d \in Ball(T, me, N) PROVE FALSE  OBVIOUS
      <3>2. s.cost[d] <= N  BY <1>1, <1>h, <2>2, <3>1, SearchIsExact DEF K
      <3> QED  BY <1>1, <1>h, <1>u, <2>2, <3>2
    <2>4. ~AllReachable(T, me)  BY <1>K, <2>2, <2>3 DEF AllReachable, N
    <2>5. \A b \in ADs : routes[b] = NULL  BY <1>2, <1>3
    <2> QED  BY <2>4, <2>5 DEF ShortestRoutes, routes
  <1>4. CASE s.left = {}
    <2>1. ASSUME NEW d \in K
          PROVE  /\ s.cost[d] \in 1..N /\ d \in Ball(T, me, s.cost[d])
                 /\ \A k \in Nat : k < s.cost[d] => d \notin Ball(T, me, k)
      <3>1. s.cost[d] # Unreached /\ s.cost[d] <= N  BY SMTT(30), <1>1, <1>4 DEF Searched, K
      <3>2. s.cost[d] \in 1..(N + 1) /\ d \in Ball(T, me, s.cost[d])  BY <1>1, <3>1 DEF Searched, K
      <3>3. ASSUME NEW k \in Nat, k < s.cost[d], d \in Ball(T, me, k) PROVE FALSE
        <4>1. k < Unreached  BY SMTT(30), <1>1, <1>h, <1>u, <3>1, <3>2, <3>3
        <4>2. s.cost[d] <= k  BY SMTT(30), <1>1, <3>3, <4>1, SearchIsExact DEF K
        <4> QED  BY SMTT(30), <3>2, <3>3, <4>2
      <3> QED  BY SMTT(30), <1>1, <3>1, <3>2, <3>3
    <2>2. AllReachable(T, me)
      <3>1. me \in Ball(T, me, N)
        <4>1. me \in Ball(T, me, 0)  BY SMTT(30), BallStep
        <4> QED  BY <1>1, <4>1, BallGrows
      <3>2. \A d \in K : d \in Ball(T, me, N)  BY SMTT(30), <1>1, <2>1, BallGrows
      <3> QED  BY <1>K, <3>1, <3>2 DEF AllReachable, N
    <2>3. ASSUME NEW d \in K PROVE routes[d] # NULL /\ OnShortestPath(T, me, routes[d], d)
      <3> DEFINE i == MAX_HOP_COUNT - 1
                 a == BackFcn(s, me, d)[i]
                 k == s.cost[d]
      <3>1. i \in 0..(MAX_HOP_COUNT - 1)  BY SMTT(30), <1>h
      <3>2. /\ a \in Keys(T, me) /\ s.cost[a] <= k /\ d \in Ball(T, a, k - s.cost[a])
            /\ s.cost[a] = 1 \/ s.cost[a] = k - i
        <4> HIDE DEF i
        <4> QED  BY SMTT(30), <1>1, <1>4, <2>3, <3>1, BackStaysOnPath DEF K
      <3>3. FirstHop(s, me, d) = IF s.prevNode[a] = me THEN a ELSE NULL  BY BackEquations
      <3> HIDE DEF a
      <3>4. a \in K /\ s.cost[a] \in 1..N /\ k \in 1..N  BY <2>1, <2>3, <3>2 DEF K
      <3>5. s.cost[a] = 1
        <4> DEFINE c == s.cost[a]
        <4>1. c \in 1..N /\ k \in 1..N /\ (c = 1 \/ c = k - i)  BY <3>2, <3>4
        <4> HIDE DEF c, k
        <4>2. c = 1  BY SMTT(30), <1>1, <1>h, <4>1
        <4> QED  BY <4>2 DEF c
      <3> HIDE DEF i, k
      <3>6. /\ s.prevNode[a] \in {me} \cup (K \ s.left)
            /\ T[s.prevNode[a]] # NULL /\ a \in T[s.prevNode[a]].neighbors
            /\ s.cost[a] = s.cost[s.prevNode[a]] + 1
        <4>1. s.cost[a] # Unreached  BY SMTT(30), <1>1, <1>4, <3>4 DEF Searched, K
        <4> QED  BY SMTT(30), <1>1, <3>4, <4>1 DEF Searched, K
      <3>7. s.prevNode[a] = me
        <4>1. SUFFICES ASSUME s.prevNode[a] \in K PROVE FALSE  BY <3>6
        <4>2. s.cost[s.prevNode[a]] \in 1..N  BY <2>1, <4>1
        <4> QED  BY <3>5, <3>6, <4>2
      <3>8. routes[d] = a /\ a # NULL /\ a \in T[me].neighbors /\ T[me] # NULL
        <4>0. ADs \subseteq Nat /\ NULL \notin Nat  BY PathAssumption
        <4>1. a \in ADs /\ a # NULL  BY <1>K, <3>4, <4>0
        <4> QED  BY SMTT(30), <1>2, <1>4, <2>3, <3>3, <3>6, <3>7, <4>1
      <3>9. AtDistance(T, me, d, k)
        <4>1. d \in Ball(T, me, k) /\ (k > 0 => k - 1 \in Nat /\ k - 1 < k)  BY <2>1, <3>4 DEF k
        <4>2. k > 0 => d \notin Ball(T, me, k - 1)  BY <2>1, <4>1 DEF k
        <4> QED  BY SMTT(30), <4>1, <4>2 DEF AtDistance
      <3>10. AtDistance(T, a, d, k - 1)
        <4>1. d \in Ball(T, a, k - 1)  BY <3>2, <3>5
        <4>2. ASSUME k - 1 > 0 PROVE d \notin Ball(T, a, (k - 1) - 1)
          <5>1. (k - 1) - 1 \in Nat /\ ((k - 1) - 1) + 1 = k - 1 /\ k - 1 \in Nat /\ k - 1 < k
            BY <3>4, <4>2
          <5>2. d \notin Ball(T, me, k - 1)  BY SMTT(30), <2>1, <5>1 DEF k
          <5>3. Ball(T, a, (k - 1) - 1) \subseteq Ball(T, me, ((k - 1) - 1) + 1)
            BY <3>8, <5>1, BallFromNeighbour
          <5> QED  BY <5>1, <5>2, <5>3
        <4> QED  BY <4>1, <4>2 DEF AtDistance
      <3> QED  BY <3>4, <3>8, <3>9, <3>10 DEF OnShortestPath, N
    <2> QED  BY <1>2, <1>K, <2>2, <2>3 DEF ShortestRoutes, routes
  <1> QED  BY <1>3, <1>4

\* A router that lists nobody reaches nobody.
LEMMA LonelyBall ==
    ASSUME NEW T, NEW me, T[me] = NULL \/ T[me].neighbors = {}, NEW k \in Nat
    PROVE  Ball(T, me, k) = {me}
  <1> DEFINE Alone == {i \in 0..k : Ball(T, me, i) = {me}}
  <1>1. 0 \in Alone  BY BallStep
  <1>2. ASSUME NEW i \in 0..(k - 1), i \in Alone PROVE i + 1 \in Alone
    <2>1. i \in Nat /\ i + 1 \in 0..k /\ Ball(T, me, i) = {me}  BY <1>2
    <2>2. \A x : x \in Ball(T, me, i + 1) <=> x = me  BY <2>1, BallStep
    <2>3. Ball(T, me, i + 1) = {me}  BY <2>2
    <2> QED  BY <2>1, <2>3
  <1>3. k \in Alone
    <2> HIDE DEF Alone
    <2> QED  BY SMTT(30), <1>1, <1>2, BoundedInduction
  <1> QED  BY <1>3

\* The routes from a table are also shortest in the table H that leaves out the router's own
\* entry, when that is blank.
LEMMA ShortestWithoutBlank ==
    ASSUME FewADs, NEW T, IsTable(T), NEW me \in ADs, NEW H,
           \A a \in ADs \ {me} : H[a] = T[a],
           H[me] = NULL, T[me] = NULL \/ T[me].neighbors = {}
    PROVE  ShortestRoutes(H, me, Routes(T, me))
  <1> DEFINE routes == Routes(T, me)
             N == Cardinality(ADs)
  <1>1. ShortestRoutes(T, me, routes)  BY RoutesCorrect
  <1>2. N \in Nat  BY NumberOfADs
  <1>3. Ball(T, me, N) = {me} /\ Ball(H, me, N) = {me}  BY <1>2, LonelyBall
  <1> HIDE DEF routes
  <1>4. ASSUME NEW d \in ADs
        PROVE  routes[d] = NULL /\ ~(d # me /\ H[d] # NULL /\ AllReachable(H, me))
    <2>1. ~(d # me /\ T[d] # NULL /\ AllReachable(T, me))  BY <1>3 DEF AllReachable
    <2>2. ~(d # me /\ H[d] # NULL /\ AllReachable(H, me))  BY <1>3 DEF AllReachable
    <2>3. routes[d] = NULL  BY <1>1, <2>1 DEF ShortestRoutes
    <2> QED  BY <2>2, <2>3
  <1> QED  BY SMTT(30), <1>4 DEF ShortestRoutes, routes
===============================================================================
