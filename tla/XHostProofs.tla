----------------------------- MODULE XHostProofs ------------------------------
(***************************************************************************)
(* The safety of host configuration and registration for any set of ADs    *)
(* and any number of beacons, moves, restarts and failures.  That a        *)
(* settled client is registered is not inductive: it rests on there being  *)
(* one registration of the present run of xhcp_client at a time, for the   *)
(* AD it is configured for, either as a request or as an answer.           *)
(***************************************************************************)
EXTENDS XHost, FiniteSetTheorems, TLAPS

\* The record of the hostname is the host in the AD it is configured for, or a stranger's.
Recorded == name_to_dag_db_table[Host] = DagIn(myAD) \/ Taken

\* What a packet to the name server says: xhcp_client registers the host's own hostname, with
\* the migrate flag, from the socket of its run, and so it alone does unless an application
\* has claimed the hostname.
RequestsAreWellFormed ==
    \A r \in requests :
        /\ r.socket # NULL => r.name = Host /\ r.migrate /\ r.dag.hid = Self /\ r.socket <= restarts
        /\ r.name = Host /\ ~claimed => r.migrate /\ (r.dag.hid = Self => r.socket # NULL)

\* A registration under way is one xhcp_client waits for, for its present AD.
OneRegistration ==
    /\ waiting => update_ns /\ myAD # NULL
    /\ \A r \in requests : r.socket = restarts =>
           /\ waiting /\ r.dag.ad = myAD
           /\ answer # NULL => answer.socket # restarts
    /\ answer # NULL => answer.socket <= restarts
    /\ answer # NULL /\ answer.socket = restarts =>
           /\ waiting /\ answer.ad = myAD
           /\ restarts = 0 /\ nsRestarts = 0 /\ ~claimed => Recorded

IndInv ==
    /\ TypeOK /\ ClickFollowsBeacon
    /\ RequestsAreWellFormed /\ OneRegistration /\ SettledIsRegistered

\* Counting one more beacon keeps the counter in its range.
LEMMA CountedInRange ==
    ASSUME TypeOK
    PROVE  Counted \in 0..(XHCP_CLIENT_NAME_REGISTER_WAIT + beacon_response_freq - 1)
  BY HostAssumption, SMT DEF TypeOK, Counted

\* The bound on what else happens counts restarts, failures and other registrations.
LEMMA EventsAreCounted ==
    ASSUME TypeOK
    PROVE  /\ restarts \in Nat /\ nsRestarts \in Nat /\ others \in Nat /\ MaxEvents \in Nat
           /\ restarts + nsRestarts + others <= MaxEvents
  BY Zenon, HostAssumption DEF TypeOK

\* Before the first beacon nothing is configured, asked or answered.
LEMMA InitIndInv == Init => IndInv
  <1> SUFFICES ASSUME Init PROVE IndInv  OBVIOUS
  <1> USE HostAssumption DEF Init
  <1>1. beacons \in Seq(ADs) /\ Len(beacons) <= MaxBeacons  OBVIOUS
  <1>a. /\ clickHID \in [ADs -> {"none", "port", "discard"}] /\ registers \in [ADs -> BOOLEAN]
        /\ timeStamp \in [ADs -> {"none", "fresh", "expired"}]
        /\ name_to_dag_db_table \in [{Host, Service} -> DAG \union {NULL}]
    OBVIOUS
  <1>b. /\ beacon_reception_count
              \in 0..(XHCP_CLIENT_NAME_REGISTER_WAIT + beacon_response_freq - 1)
        /\ moves \in 0..MaxMoves /\ {restarts, nsRestarts, others} \subseteq Nat
        /\ restarts + nsRestarts + others <= MaxEvents /\ rebooted \subseteq ADs
    OBVIOUS
  <1>c. TypeOK  BY Zenon, <1>1, <1>a, <1>b DEF TypeOK
  <1>2. RequestsAreWellFormed /\ OneRegistration /\ SettledIsRegistered
    BY Zenon DEF RequestsAreWellFormed, OneRegistration, SettledIsRegistered
  <1>3. ClickFollowsBeacon
    <2>1. adTable \ {myAD} = {}  OBVIOUS
    <2> QED  BY <2>1, FS_EmptySet DEF ClickFollowsBeacon
  <1> QED  BY Zenon, <1>c, <1>2, <1>3 DEF IndInv

\* Reading a beacon leaves the client configured for the AD it names.
LEMMA ReadsBeaconConfigures ==
    ASSUME TypeOK, ReadsBeacon
    PROVE  /\ Head(beacons) \in ADs /\ beacons' \in Seq(ADs) /\ Len(beacons') <= MaxBeacons
           /\ myAD' = Head(beacons)
           /\ clickAD' \in ADs \union {NULL} /\ defaultNext' \in ADs \union {NULL}
           /\ adTable' \subseteq ADs /\ hidTable' \subseteq ADs
           /\ clickHID' \in [ADs -> {"none", "port", "discard"}]
           /\ registers' \in [ADs -> BOOLEAN]
  <1> USE DEF ReadsBeacon, TypeOK
  <1>1. Head(beacons) \in ADs /\ beacons' \in Seq(ADs) /\ Len(beacons') <= MaxBeacons
    BY SMTT(30), HostAssumption
  <1>2. /\ myAD' = Head(beacons)
        /\ clickAD' \in ADs \union {NULL} /\ defaultNext' \in ADs \union {NULL}
        /\ adTable' \subseteq ADs /\ hidTable' \subseteq ADs
    BY SMTT(30), <1>1 DEF UpdateAD, Configure, click
  <1>3. clickHID' \in [ADs -> {"none", "port", "discard"}] /\ registers' \in [ADs -> BOOLEAN]
    BY Zenon DEF HostRegister
  <1> QED  BY Zenon, <1>1, <1>2, <1>3

\* A beacon of a new AD replaces the local AD entry of the old one, so none is left over.
LEMMA ReadsBeaconFollows ==
    ASSUME TypeOK, ClickFollowsBeacon, ReadsBeacon
    PROVE  ClickFollowsBeacon' /\ clickAD' = myAD' /\ defaultNext' = myAD'
  <1> DEFINE ad == Head(beacons)
  <1>0. ad \in ADs /\ ad # NULL  BY Zenon, ReadsBeaconConfigures, HostAssumption
  <1>1. restarts' = restarts  BY Zenon DEF ReadsBeacon
  <1> HIDE DEF ad
  <1>2. CASE myAD = ad
    <2>1. UNCHANGED <<click, myAD>>  BY Zenon, <1>2 DEF ReadsBeacon, UpdateAD, ad
    <2> QED  BY Zenon, <2>1, <1>0, <1>1, <1>2 DEF ClickFollowsBeacon, click
  <1>3. CASE myAD # ad
    <2>1. Configure(ad)  BY Zenon, <1>3 DEF ReadsBeacon, UpdateAD, ad
    <2>2. adTable' \ {myAD'} \subseteq adTable \ {myAD}  BY Zenon, <2>1 DEF Configure
    <2>3. IsFiniteSet(adTable \ {myAD})  BY Zenon, HostAssumption, FS_Subset DEF TypeOK
    <2>4. /\ Cardinality(adTable' \ {myAD'}) <= Cardinality(adTable \ {myAD})
          /\ Cardinality(adTable' \ {myAD'}) \in Nat /\ Cardinality(adTable \ {myAD}) \in Nat
      BY Zenon, <2>2, <2>3, FS_Subset, FS_CardinalityType
    <2>5. Cardinality(adTable' \ {myAD'}) <= restarts'
      BY <2>4, <1>1 DEF ClickFollowsBeacon, TypeOK
    <2> QED  BY Zenon, <2>1, <2>5 DEF Configure, ClickFollowsBeacon
  <1> QED  BY Zenon, <1>2, <1>3

\* A client that dies leaves at most its own AD behind.
LEMMA RestartFollows ==
    ASSUME TypeOK, ClickFollowsBeacon, ClientRestart
    PROVE  ClickFollowsBeacon'
  <1>1. adTable' = adTable /\ myAD' = NULL /\ restarts' = restarts + 1
    BY Zenon DEF ClientRestart, click
  <1>2. adTable' \ {myAD'} = adTable  BY SMTT(30), <1>1, HostAssumption DEF TypeOK
  <1>3. IsFiniteSet(adTable)  BY Zenon, HostAssumption, FS_Subset DEF TypeOK
  <1> DEFINE all == Cardinality(adTable)
             old == Cardinality(adTable \ {myAD})
  <1>4. all \in Nat /\ old \in Nat /\ old = IF myAD \in adTable THEN all - 1 ELSE all
    BY Zenon, <1>3, FS_RemoveElement, FS_CardinalityType
  <1>5. old <= restarts /\ restarts \in Nat  BY Zenon DEF ClickFollowsBeacon, TypeOK
  <1>6. Cardinality(adTable' \ {myAD'}) <= restarts'
    <2> HIDE DEF all, old
    <2>1. all <= restarts + 1  BY <1>4, <1>5
    <2> QED  BY Zenon, <2>1, <1>1, <1>2 DEF all
  <1> QED  BY Zenon, <1>1, <1>6 DEF ClickFollowsBeacon

\* A beacon that registers nothing: a new AD sets update_ns, so the client is not settled.
LEMMA BeaconOnlyStep == ASSUME IndInv, BeaconOnly PROVE IndInv'
  <1> USE DEF IndInv, BeaconOnly
  <1>0. ReadsBeacon  OBVIOUS
  <1>a. /\ beacon_reception_count' = Counted /\ update_ns' \in BOOLEAN
        /\ UNCHANGED <<at, waiting, timeStamp, name_to_dag_db_table, requests, answer, moves,
                       restarts, nsRestarts, others, claimed, rebooted>>
    BY Zenon, <1>0 DEF ReadsBeacon
  <1>1. TypeOK'  BY ZenonT(60), <1>0, <1>a, ReadsBeaconConfigures, CountedInRange DEF TypeOK
  <1>2. /\ ~waiting /\ ~waiting' /\ myAD' = Head(beacons)
        /\ UNCHANGED <<name_to_dag_db_table, requests, answer, restarts, nsRestarts, claimed>>
    BY Zenon, <1>0, ReadsBeaconConfigures DEF ReadsBeacon
  <1>3. RequestsAreWellFormed'  BY Zenon, <1>2 DEF RequestsAreWellFormed
  <1>4. OneRegistration'  BY Zenon, <1>2 DEF OneRegistration
  <1>5. SettledIsRegistered'
    <2>1. CASE myAD = Head(beacons)  BY Zenon, <1>2, <2>1 DEF SettledIsRegistered, Taken
    <2>2. CASE myAD # Head(beacons)  BY Zenon, <1>2, <2>2 DEF SettledIsRegistered
    <2> QED  BY Zenon, <2>1, <2>2
  <1>6. ClickFollowsBeacon'  BY Zenon, <1>0, ReadsBeaconFollows
  <1> QED  BY ZenonT(60), <1>1, <1>3, <1>4, <1>5, <1>6

\* A registration leaves for the AD of the beacon, and no other of this run is under way.
LEMMA RegisterHostStep == ASSUME IndInv, XregisterHost PROVE IndInv'
  <1> USE DEF IndInv
  <1> DEFINE new == [name |-> Host, dag |-> DagIn(clickAD'), migrate |-> TRUE, socket |-> restarts]
  <1>0. ReadsBeacon  BY Zenon DEF XregisterHost
  <1>1. /\ ~waiting /\ waiting' /\ update_ns' /\ myAD' \in ADs
        /\ UNCHANGED <<name_to_dag_db_table, answer, restarts, nsRestarts, claimed>>
    BY Zenon, <1>0, ReadsBeaconConfigures DEF ReadsBeacon, XregisterHost
  <1>2. clickAD' = myAD' /\ ClickFollowsBeacon'  BY Zenon, <1>0, ReadsBeaconFollows
  <1>3. requests' \subseteq requests \union {new}  BY Zenon DEF XregisterHost
  <1>4. /\ new \in Request /\ new.name = Host /\ new.migrate /\ new.socket = restarts
        /\ new.dag.hid = Self /\ new.dag.ad = myAD'
    <2>1. restarts \in 0..MaxEvents  BY EventsAreCounted
    <2>2. DagIn(clickAD') = [ad |-> myAD', hid |-> Self]  BY Zenon, <1>2 DEF DagIn
    <2>3. [ad |-> myAD', hid |-> Self] \in DAG  BY Zenon, <1>1 DEF DAG
    <2> QED  BY SMTT(30), <2>1, <2>2, <2>3 DEF Request
  <1> HIDE DEF new
  <1>a. requests' \subseteq Request  BY Zenon, <1>3, <1>4 DEF TypeOK
  <1>b. /\ beacon_reception_count' = Counted /\ update_ns' = TRUE /\ waiting' = TRUE
        /\ UNCHANGED <<at, timeStamp, name_to_dag_db_table, answer, moves, restarts, nsRestarts,
                       others, claimed, rebooted>>
    BY Zenon, <1>0 DEF XregisterHost, ReadsBeacon
  <1>5. TypeOK'
    BY ZenonT(60), <1>0, <1>1, <1>a, <1>b, ReadsBeaconConfigures, CountedInRange DEF TypeOK
  <1>6. RequestsAreWellFormed'
    BY SMTT(30), <1>1, <1>3, <1>4, HostAssumption DEF RequestsAreWellFormed, TypeOK
  <1>7. OneRegistration'
    BY Zenon, <1>1, <1>3, <1>4, HostAssumption DEF OneRegistration
  <1>8. SettledIsRegistered'  BY Zenon, <1>1 DEF SettledIsRegistered
  <1> QED  BY Zenon, <1>2, <1>5, <1>6, <1>7, <1>8

\* A registration that fails on the host is tried again.
LEMMA RegisterHostFailsStep == ASSUME IndInv, XregisterHostFails PROVE IndInv'
  <1> USE DEF IndInv
  <1>0. ReadsBeacon  BY Zenon DEF XregisterHostFails
  <1>1. /\ ~waiting /\ ~waiting' /\ update_ns'
        /\ UNCHANGED <<name_to_dag_db_table, requests, answer, restarts, nsRestarts, claimed>>
    BY Zenon, <1>0 DEF ReadsBeacon, XregisterHostFails
  <1>2. others' \in Nat /\ restarts + nsRestarts + others' <= MaxEvents
    <2>1. MayHappen /\ others' = others + 1  BY Zenon DEF XregisterHostFails
    <2> QED  BY <2>1, EventsAreCounted DEF MayHappen
  <1>a. /\ beacon_reception_count' = 0 /\ update_ns' = TRUE /\ waiting' = waiting
        /\ UNCHANGED <<at, timeStamp, name_to_dag_db_table, requests, answer, moves, restarts,
                       nsRestarts, claimed, rebooted>>
    BY Zenon, <1>0 DEF XregisterHostFails, ReadsBeacon
  <1>b. 0 \in 0..(XHCP_CLIENT_NAME_REGISTER_WAIT + beacon_response_freq - 1)
    BY HostAssumption
  <1>c. {restarts, nsRestarts, others'} \subseteq Nat  BY Zenon, <1>2, EventsAreCounted
  <1>3. TypeOK'
    BY Zenon, <1>0, <1>2, <1>a, <1>b, <1>c, ReadsBeaconConfigures DEF TypeOK
  <1>4. ClickFollowsBeacon'  BY Zenon, <1>0, ReadsBeaconFollows
  <1>5. RequestsAreWellFormed'  BY Zenon, <1>1 DEF RequestsAreWellFormed
  <1>6. OneRegistration'  BY Zenon, <1>1 DEF OneRegistration
  <1>7. SettledIsRegistered'  BY Zenon, <1>1 DEF SettledIsRegistered
  <1> QED  BY Zenon, <1>3, <1>4, <1>5, <1>6, <1>7

\* The answer settles the client, and the name server has recorded what it asked for.
LEMMA AnswerStep == ASSUME IndInv, AnswerArrives PROVE IndInv'
  <1> USE DEF IndInv, AnswerArrives
  <1>1. TypeOK'  BY Zenon DEF TypeOK, click, gateway, bounds
  <1>2. /\ UNCHANGED <<myAD, name_to_dag_db_table, requests, restarts, nsRestarts, claimed>>
        /\ answer # NULL /\ answer' = NULL
    BY Zenon DEF bounds
  <1>3. ClickFollowsBeacon'  BY Zenon DEF ClickFollowsBeacon, click, bounds
  <1>4. RequestsAreWellFormed'  BY Zenon, <1>2 DEF RequestsAreWellFormed
  <1>5. CASE waiting /\ answer.socket = restarts /\ Reachable(answer.ad)
    <2>1. ~waiting' /\ \A r \in requests : r.socket # restarts  BY Zenon, <1>2, <1>5 DEF OneRegistration
    <2>2. OneRegistration'  BY Zenon, <2>1, <1>2 DEF OneRegistration
    <2>3. SettledIsRegistered'
      BY Zenon, <1>2, <1>5 DEF OneRegistration, SettledIsRegistered, Recorded, Taken
    <2> QED  BY Zenon, <2>2, <2>3, <1>1, <1>3, <1>4
  <1>6. CASE ~(waiting /\ answer.socket = restarts /\ Reachable(answer.ad))
    <2>1. UNCHANGED <<waiting, update_ns>>  BY Zenon, <1>6
    <2>2. OneRegistration'  BY Zenon, <2>1, <1>2 DEF OneRegistration
    <2>3. SettledIsRegistered'  BY Zenon, <2>1, <1>2 DEF SettledIsRegistered, Taken
    <2> QED  BY <2>2, <2>3, <1>1, <1>3, <1>4
  <1> QED  BY Zenon, <1>5, <1>6

\* A new run of xhcp_client has no registration under way.
LEMMA ClientRestartStep == ASSUME IndInv, ClientRestart PROVE IndInv'
  <1> USE DEF IndInv
  <1>1. /\ restarts' = restarts + 1 /\ restarts \in Nat /\ restarts' + nsRestarts + others <= MaxEvents
        /\ ~waiting' /\ myAD' = NULL
        /\ UNCHANGED <<name_to_dag_db_table, requests, answer, nsRestarts, claimed, rebooted>>
    <2>1. /\ MayHappen /\ restarts' = restarts + 1 /\ ~waiting' /\ myAD' = NULL
          /\ UNCHANGED <<name_to_dag_db_table, requests, answer, nsRestarts, claimed, rebooted>>
      BY Zenon DEF ClientRestart, naming
    <2> QED  BY <2>1, EventsAreCounted DEF MayHappen
  <1>a. /\ beacons' \in Seq(ADs) /\ Len(beacons') <= MaxBeacons
        /\ beacon_reception_count'
              \in 0..(XHCP_CLIENT_NAME_REGISTER_WAIT + beacon_response_freq - 1)
    BY SMTT(30), HostAssumption DEF ClientRestart
  <1>b. /\ {restarts', nsRestarts', others'} \subseteq Nat
        /\ restarts' + nsRestarts' + others' <= MaxEvents
    BY <1>1 DEF TypeOK, ClientRestart
  <1>2. TypeOK'
    BY Zenon, <1>1, <1>a, <1>b DEF TypeOK, ClientRestart, click, gateway, naming
  <1>3. ClickFollowsBeacon'  BY Zenon, RestartFollows
  <1>4. \A r \in requests : r.socket # NULL => r.socket \in 0..MaxEvents
    BY Zenon DEF TypeOK, Request
  <1>5. answer # NULL => answer.socket \in 0..MaxEvents
    BY Zenon DEF TypeOK, Answer
  <1>6. RequestsAreWellFormed'  BY <1>1, <1>4 DEF RequestsAreWellFormed
  <1>7. OneRegistration'
    <2>1. \A r \in requests : r.socket # restarts + 1
      BY <1>1, <1>4, HostAssumption DEF RequestsAreWellFormed
    <2>2. answer # NULL => answer.socket <= restarts + 1 /\ answer.socket # restarts + 1
      BY <1>1, <1>5 DEF OneRegistration
    <2> QED  BY Zenon, <1>1, <2>1, <2>2 DEF OneRegistration
  <1>8. SettledIsRegistered'  BY Zenon, <1>1 DEF SettledIsRegistered
  <1> QED  BY SMTT(30), <1>2, <1>3, <1>6, <1>7, <1>8

\* Beacons, moves and the gateways' xrouted touch neither the client's state nor its packets.
LEMMA OtherSteps ==
    ASSUME IndInv,
           \/ Beacon
           \/ \E a \in ADs : Move(a) \/ processHostRegister(a) \/ Expire(a) \/ Purge(a)
           \/ \E a \in ADs : XroutedRestart(a)
           \/ UNCHANGED vars
    PROVE  IndInv'
  <1> USE DEF IndInv
  <1>1. /\ UNCHANGED <<myAD, update_ns, waiting, clickAD, adTable, defaultNext,
                       name_to_dag_db_table, answer, restarts, nsRestarts, claimed>>
        /\ hidTable \subseteq hidTable' /\ requests' \subseteq requests
    BY Zenon DEF Beacon, Move, processHostRegister, Expire, Purge, XroutedRestart, vars, client, click, gateway,
           naming, bounds
  <1>2. TypeOK'
    <2>1. CASE Beacon
      <3>1. beacons' \in Seq(ADs) /\ Len(beacons') <= MaxBeacons
        <4>1. at \in ADs /\ beacons \in Seq(ADs) /\ MaxBeacons \in Nat
          BY Zenon, HostAssumption DEF TypeOK
        <4>2. beacons' = Append(beacons, at) /\ Len(beacons) < MaxBeacons  BY Zenon, <2>1 DEF Beacon
        <4> QED  BY <4>1, <4>2
      <3>2. hidTable' \subseteq ADs  BY Zenon, <2>1 DEF Beacon, TypeOK
      <3>3. UNCHANGED <<at, client, clickAD, adTable, defaultNext, gateway, naming, bounds>>
        BY Zenon, <2>1 DEF Beacon
      <3> QED  BY ZenonT(60), <3>1, <3>2, <3>3 DEF TypeOK, client, gateway, naming, bounds
    <2>2. ASSUME NEW a \in ADs, Move(a) PROVE TypeOK'
      <3>1. moves' \in 0..MaxMoves
        <4>1. moves \in 0..MaxMoves /\ MaxMoves \in Nat  BY Zenon, HostAssumption DEF TypeOK
        <4>2. moves' = moves + 1 /\ moves < MaxMoves  BY Zenon, <2>2 DEF Move
        <4> QED  BY <4>1, <4>2
      <3> QED  BY ZenonT(60), <2>2, <3>1 DEF Move, TypeOK, client, click, gateway
    <2>3. ASSUME NEW a \in ADs, processHostRegister(a) PROVE TypeOK'
      BY Zenon, <2>3 DEF processHostRegister, TypeOK, client, click, naming, bounds
    <2>4. ASSUME NEW a \in ADs, Expire(a) PROVE TypeOK'
      BY Zenon, <2>4 DEF Expire, TypeOK, client, click, naming, bounds
    <2>5. ASSUME NEW a \in ADs, Purge(a) PROVE TypeOK'
      BY Zenon, <2>5 DEF Purge, TypeOK, client, click, naming, bounds
    <2>6. CASE UNCHANGED vars
      BY Zenon, <2>6 DEF TypeOK, vars, client, click, gateway, naming, bounds
    <2>7. ASSUME NEW a \in ADs, XroutedRestart(a) PROVE TypeOK'
      <3>1. /\ {restarts, nsRestarts, others'} \subseteq Nat
            /\ restarts + nsRestarts + others' <= MaxEvents
        <4>1. MayHappen /\ others' = others + 1  BY Zenon, <2>7 DEF XroutedRestart
        <4> QED  BY <4>1, EventsAreCounted DEF MayHappen
      <3> QED  BY ZenonT(60), <2>7, <3>1 DEF XroutedRestart, TypeOK, client, click, naming
    <2> QED  BY Zenon, <2>1, <2>2, <2>3, <2>4, <2>5, <2>6, <2>7
  <1>3. ClickFollowsBeacon'  BY Zenon, <1>1 DEF ClickFollowsBeacon
  <1>4. RequestsAreWellFormed'  BY Zenon, <1>1 DEF RequestsAreWellFormed
  <1>5. OneRegistration'  BY Zenon, <1>1 DEF OneRegistration, Recorded, Taken
  <1>6. SettledIsRegistered'  BY Zenon, <1>1 DEF SettledIsRegistered, Taken
  <1> QED  BY Zenon, <1>2, <1>3, <1>4, <1>5, <1>6

\* A registration by another application or host is on no socket of xhcp_client.
LEMMA OtherRegistration ==
    ASSUME IndInv,
           \/ \E name \in {Host, Service}, dag \in DAG : XregisterName(name, dag)
           \/ \E a \in ADs : StrangerRegisters(a)
    PROVE  IndInv'
  <1> USE DEF IndInv
  <1>1. /\ UNCHANGED <<at, beacons, client, click, gateway, name_to_dag_db_table, answer, moves,
                       restarts, nsRestarts, rebooted>>
        /\ MayHappen /\ others' = others + 1 /\ claimed' \in BOOLEAN /\ (claimed => claimed')
    BY Zenon DEF XregisterName, StrangerRegisters, TypeOK
  <1>2. PICK r \in Request :
          /\ requests' = requests \union {r} /\ r.socket = NULL
          /\ r.name = Host /\ ~claimed' => r.migrate /\ r.dag.hid = Stranger
    <2>1. ASSUME NEW name \in {Host, Service}, NEW dag \in DAG, XregisterName(name, dag)
          PROVE  \E r \in Request :
                   /\ requests' = requests \union {r} /\ r.socket = NULL
                   /\ r.name = Host /\ ~claimed' => r.migrate /\ r.dag.hid = Stranger
      <3> DEFINE r == [name |-> name, dag |-> dag, migrate |-> FALSE, socket |-> NULL]
      <3>1. r \in Request /\ r.socket = NULL /\ r.name = name  BY Zenon DEF Request
      <3>2. requests' = requests \union {r} /\ (name = Host => claimed')
        BY Zenon, <2>1 DEF XregisterName
      <3> QED  BY Zenon, <3>1, <3>2
    <2>2. ASSUME NEW a \in ADs, StrangerRegisters(a)
          PROVE  \E r \in Request :
                   /\ requests' = requests \union {r} /\ r.socket = NULL
                   /\ r.name = Host /\ ~claimed' => r.migrate /\ r.dag.hid = Stranger
      <3> DEFINE r == [name |-> Host, dag |-> [ad |-> a, hid |-> Stranger], migrate |-> TRUE,
                       socket |-> NULL]
      <3>1. r \in Request /\ r.socket = NULL /\ r.migrate /\ r.dag.hid = Stranger
        BY Zenon DEF Request, DAG
      <3>2. requests' = requests \union {r}  BY Zenon, <2>2 DEF StrangerRegisters
      <3> QED  BY Zenon, <3>1, <3>2
    <2> QED  BY Zenon, <2>1, <2>2
  <1>3. others' \in Nat /\ restarts + nsRestarts + others' <= MaxEvents
    BY <1>1, EventsAreCounted DEF MayHappen
  <1>a. {restarts, nsRestarts, others'} \subseteq Nat  BY Zenon, <1>3, EventsAreCounted
  <1>4. TypeOK'  BY Zenon, <1>1, <1>2, <1>3, <1>a DEF TypeOK, client, click, gateway
  <1>5. ClickFollowsBeacon'  BY Zenon, <1>1 DEF ClickFollowsBeacon, client, click
  <1>6. RequestsAreWellFormed'
    BY Zenon, <1>1, <1>2, HostAssumption DEF RequestsAreWellFormed
  <1>7. OneRegistration'
    <2>1. r.socket # restarts  BY Zenon, <1>2, HostAssumption DEF TypeOK
    <2> QED  BY Zenon, <2>1, <1>1, <1>2 DEF OneRegistration, Recorded, Taken, client
  <1>8. SettledIsRegistered'  BY Zenon, <1>1 DEF SettledIsRegistered, Taken, client
  <1> QED  BY Zenon, <1>4, <1>5, <1>6, <1>7, <1>8

\* What a registration does to the record of the hostname: one by the host itself makes it the
\* host's unless a stranger has it; any other leaves the host's or a stranger's record alone, unless
\* an application has claimed the hostname.
LEMMA RegisterRecords ==
    ASSUME IndInv, NEW r \in Request, Register(r)
    PROVE  /\ name_to_dag_db_table' \in [{Host, Service} -> DAG \union {NULL}]
           /\ r.socket # NULL => name_to_dag_db_table'[Host] = r.dag \/ Taken'
           /\ r.socket = NULL /\ ~claimed =>
                 \A a \in ADs : name_to_dag_db_table[Host] = DagIn(a)
                                    => name_to_dag_db_table'[Host] = DagIn(a)
           /\ ~claimed /\ Taken => Taken'
           /\ name_to_dag_db_table[Host] # NULL =>
                 \/ name_to_dag_db_table'[Host].hid = name_to_dag_db_table[Host].hid
                 \/ r.name = Host /\ ~r.migrate /\ r.dag = name_to_dag_db_table'[Host]
  <1> DEFINE old == name_to_dag_db_table[Host]
             new == name_to_dag_db_table'[Host]
  <1> USE DEF IndInv
  <1>0. r \in requests /\ r.dag \in DAG /\ r.name \in {Host, Service}
    BY Zenon DEF Register, Request
  <1>1. name_to_dag_db_table \in [{Host, Service} -> DAG \union {NULL}]  BY Zenon DEF TypeOK
  <1>2. name_to_dag_db_table' \in [{Host, Service} -> DAG \union {NULL}]
    BY Zenon, <1>0, <1>1 DEF Register, migrate
  <1>3. CASE r.name = Service
    <2>1. new = old  BY Zenon, <1>1, <1>3, HostAssumption DEF Register, migrate
    <2>2. r.socket = NULL  BY Zenon, <1>0, <1>3, HostAssumption DEF RequestsAreWellFormed
    <2> QED  BY Zenon, <1>2, <2>1, <2>2 DEF Taken
  <1>4. CASE r.name = Host
    <2>1. IF r.migrate THEN new = IF old = NULL \/ old.hid = r.dag.hid THEN r.dag ELSE old
                       ELSE new = r.dag
      BY Zenon, <1>0, <1>1, <1>4 DEF Register, migrate
    <2>2. /\ r.dag # NULL /\ r.dag.hid \in {Self, Stranger}
          /\ old # NULL => old.hid \in {Self, Stranger}
      BY Zenon, <1>0, <1>1, HostAssumption DEF DAG
    <2>3. /\ r.socket # NULL => r.dag.hid = Self /\ r.migrate
          /\ ~claimed => r.migrate /\ (r.dag.hid = Self => r.socket # NULL)
      BY Zenon, <1>0, <1>4 DEF RequestsAreWellFormed
    <2>4. r.socket # NULL => new = r.dag \/ Taken'
      BY Zenon, <2>1, <2>2, <2>3 DEF Taken
    <2>5. ASSUME NEW a \in ADs, r.socket = NULL, ~claimed, old = DagIn(a) PROVE new = DagIn(a)
      <3>1. DagIn(a) # NULL /\ DagIn(a).hid = Self  BY HostAssumption DEF DagIn, DAG
      <3> QED  BY Zenon, <2>1, <2>2, <2>3, <2>5, <3>1
    <2>6. ~claimed /\ Taken => Taken'  BY Zenon, <2>1, <2>2, <2>3 DEF Taken
    <2>7. old # NULL => new.hid = old.hid \/ (r.name = Host /\ ~r.migrate /\ r.dag = new)
      BY Zenon, <1>4, <2>1
    <2> QED  BY Zenon, <1>2, <2>4, <2>5, <2>6, <2>7
  <1> QED  BY Zenon, <1>0, <1>3, <1>4

\* The name server answers the registration it has just recorded.
LEMMA RegisterStep == ASSUME IndInv, NEW r \in Request, Register(r) PROVE IndInv'
  <1> USE DEF IndInv
  <1>0. /\ r \in requests /\ requests' = requests \ {r}
        /\ UNCHANGED <<at, beacons, client, click, gateway, bounds>>
        /\ answer' = IF r.socket = NULL THEN answer ELSE [ad |-> r.dag.ad, socket |-> r.socket]
    BY ZenonT(60) DEF Register
  <1>1. TypeOK'
    <2>1. r.socket # NULL => answer' \in Answer  BY Zenon, <1>0 DEF Request, DAG, Answer
    <2> QED
      BY <2>1, <1>0, RegisterRecords DEF TypeOK, client, click, gateway, bounds
  <1>2. ClickFollowsBeacon'  BY Zenon, <1>0 DEF ClickFollowsBeacon, client, click, bounds
  <1>3. RequestsAreWellFormed'  BY Zenon, <1>0 DEF RequestsAreWellFormed, bounds
  <1>u. UNCHANGED <<myAD, update_ns, waiting, restarts, nsRestarts, claimed>>  BY Zenon, <1>0 DEF client, bounds
  <1>4. CASE r.socket = NULL
    <2>1. answer' = answer  BY Zenon, <1>0, <1>4
    <2>2. myAD # NULL /\ ~claimed /\ Recorded => Recorded'
      BY Zenon, <1>4, <1>u, RegisterRecords DEF Recorded, TypeOK
    <2>3. OneRegistration'  BY Zenon, <1>0, <1>u, <2>1, <2>2 DEF OneRegistration
    <2>4. SettledIsRegistered'  BY Zenon, <1>u, <2>2 DEF SettledIsRegistered, Recorded
    <2> QED  BY Zenon, <1>1, <1>2, <1>3, <2>3, <2>4
  <1>5. CASE r.socket # NULL /\ r.socket = restarts
    <2>1. /\ answer' = [ad |-> r.dag.ad, socket |-> restarts] /\ answer' # NULL
          /\ waiting /\ r.dag.ad = myAD /\ update_ns /\ myAD # NULL
      <3>1. answer' = [ad |-> r.dag.ad, socket |-> restarts] /\ r.dag.ad \in ADs
            /\ restarts \in 0..MaxEvents
        BY Zenon, <1>0, <1>5 DEF Request, DAG
      <3>2. answer' # NULL  BY <3>1, HostAssumption DEF Answer
      <3>3. waiting /\ r.dag.ad = myAD /\ update_ns /\ myAD # NULL
        BY Zenon, <1>0, <1>5 DEF OneRegistration
      <3> QED  BY Zenon, <3>1, <3>2, <3>3
    <2>2. \A q \in requests' : q.socket # restarts
      <3> SUFFICES ASSUME NEW q \in requests, q.socket = restarts PROVE q = r
        BY Zenon, <1>0
      <3>1. q \in Request /\ q.socket # NULL  BY Zenon, <1>5 DEF TypeOK
      <3>2. q.dag.ad = myAD  BY Zenon DEF OneRegistration
      <3>3. q.name = r.name /\ q.migrate = r.migrate /\ q.dag.hid = r.dag.hid
        BY Zenon, <1>0, <1>5, <3>1 DEF RequestsAreWellFormed, Request
      <3>4. q.dag = r.dag
        <4>1. q.dag \in DAG /\ r.dag \in DAG  BY Zenon, <3>1 DEF Request
        <4>2. q.dag.ad = r.dag.ad /\ q.dag.hid = r.dag.hid  BY Zenon, <2>1, <3>2, <3>3
        <4> QED  BY <4>1, <4>2 DEF DAG
      <3> QED  BY <1>5, <3>1, <3>3, <3>4 DEF Request
    <2>3. Recorded'
      <3>1. r.dag = DagIn(myAD)
        BY ZenonT(60), <1>0, <1>5, <2>1 DEF RequestsAreWellFormed, Request, DAG, DagIn
      <3> QED  BY Zenon, <3>1, <1>5, <1>u, RegisterRecords DEF Recorded
    <2>4. OneRegistration'
      BY <1>u, <2>1, <2>2, <2>3, EventsAreCounted DEF OneRegistration
    <2>5. SettledIsRegistered'  BY Zenon, <1>u, <2>1 DEF SettledIsRegistered
    <2> QED  BY SMTT(30), <1>1, <1>2, <1>3, <2>4, <2>5
  <1>6. CASE r.socket # NULL /\ r.socket # restarts
    <2>1. /\ answer'.socket = r.socket /\ r.socket <= restarts /\ restarts # 0
      <3>1. answer'.socket = r.socket /\ r.socket <= restarts
        BY Zenon, <1>0, <1>6 DEF RequestsAreWellFormed
      <3>2. r.socket \in Nat  BY <1>6, EventsAreCounted DEF Request
      <3> QED  BY <3>1, <3>2, <1>6, EventsAreCounted
    <2>2. OneRegistration'  BY Zenon, <1>0, <1>u, <1>6, <2>1 DEF OneRegistration
    <2>3. SettledIsRegistered'  BY Zenon, <1>u, <2>1 DEF SettledIsRegistered
    <2> QED  BY <1>1, <1>2, <1>3, <2>2, <2>3
  <1> QED  BY Zenon, <1>4, <1>5, <1>6

\* A name server that has lost its table voids every promise about the record.
LEMMA NsRestartStep == ASSUME IndInv, NsRestart PROVE IndInv'
  <1> USE DEF IndInv
  <1>1. /\ UNCHANGED <<at, beacons, client, click, gateway, requests, answer, moves, restarts, others,
                       claimed, rebooted>>
        /\ MayHappen /\ nsRestarts' = nsRestarts + 1 /\ nsRestarts' # 0
        /\ name_to_dag_db_table' = [n \in {Host, Service} |-> NULL]
    BY EventsAreCounted DEF NsRestart
  <1>2. nsRestarts' \in Nat /\ restarts + nsRestarts' + others <= MaxEvents
    BY <1>1, EventsAreCounted DEF MayHappen
  <1>3. TypeOK'  BY Zenon, <1>1, <1>2 DEF TypeOK, client, click, gateway
  <1>4. ClickFollowsBeacon'  BY Zenon, <1>1 DEF ClickFollowsBeacon, client, click
  <1>5. RequestsAreWellFormed'  BY Zenon, <1>1 DEF RequestsAreWellFormed
  <1>6. OneRegistration'  BY Zenon, <1>1 DEF OneRegistration, client
  <1>7. SettledIsRegistered'  BY Zenon, <1>1 DEF SettledIsRegistered
  <1> QED  BY <1>3, <1>4, <1>5, <1>6, <1>7

\* Every step of the daemons, the network and the host preserves the invariant.
LEMMA NextIndInv == IndInv /\ [Next]_vars => IndInv'
  <1> SUFFICES ASSUME IndInv, [Next]_vars PROVE IndInv'  OBVIOUS
  <1> QED
    BY SMTT(30), BeaconOnlyStep, RegisterHostStep, RegisterHostFailsStep, AnswerStep, ClientRestartStep,
       OtherSteps, OtherRegistration, RegisterStep, NsRestartStep DEF Next

\* The whole invariant holds of every state the system reaches.
LEMMA Invariance == Spec => []IndInv
  BY InitIndInv, NextIndInv, PTL DEF Spec

\* The variables keep their types, the beacon counter its range and the queue its bound.
THEOREM TypeCorrect == Spec => []TypeOK
  <1>1. IndInv => TypeOK  BY Zenon DEF IndInv
  <1> QED  BY <1>1, Invariance, PTL

\* Click on the host follows the last beacon, and one dead client leaves one AD entry at most.
THEOREM ClickFollows == Spec => []ClickFollowsBeacon
  <1>1. IndInv => ClickFollowsBeacon  BY Zenon DEF IndInv
  <1> QED  BY <1>1, Invariance, PTL

\* A client that has stopped registering is registered in its AD, or a stranger has its name,
\* as long as no application has registered the hostname.
THEOREM Settled == Spec => []SettledIsRegistered
  <1>1. IndInv => SettledIsRegistered  BY Zenon DEF IndInv
  <1> QED  BY <1>1, Invariance, PTL

\* No registration of xhcp_client takes a hostname from one host to another; only an
\* XregisterName of the hostname does.
THEOREM HostNameSafe == Spec => HostNameKeepsHID
  <1> DEFINE old == name_to_dag_db_table[Host]
             new == name_to_dag_db_table'[Host]
             Keeps == old # NULL /\ new # NULL /\ old.hid # new.hid
                 => \E r \in requests \ requests' : r.name = Host /\ ~r.migrate /\ r.dag = new
  <1>1. IndInv /\ [Next]_vars => [Keeps]_vars
    <2> SUFFICES ASSUME IndInv, Next PROVE Keeps  OBVIOUS
    <2>1. ASSUME NEW r \in Request, Register(r) PROVE Keeps
      <3>1. r \in requests \ requests'  BY Zenon, <2>1 DEF Register
      <3> QED  BY Zenon, <2>1, <3>1, RegisterRecords
    <2>2. CASE NsRestart  BY Zenon, <2>2 DEF NsRestart
    <2>3. CASE name_to_dag_db_table' = name_to_dag_db_table  BY Zenon, <2>3
    <2> QED
      BY ZenonT(60), <2>1, <2>2, <2>3 DEF Next, Beacon, BeaconOnly, XregisterHost, XregisterHostFails,
         ReadsBeacon, AnswerArrives, ClientRestart, Move, processHostRegister, Expire, Purge,
         XroutedRestart, XregisterName, StrangerRegisters, naming
  <1>2. Spec => [][Keeps]_vars  BY <1>1, Invariance, PTL DEF Spec
  <1> QED  BY Zenon, <1>2 DEF HostNameKeepsHID
=============================================================================
