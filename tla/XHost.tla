-------------------------------- MODULE XHost ---------------------------------
(***************************************************************************)
(* A mobile host and what keeps it reachable: xhcp_server on the gateway   *)
(* of each AD sends beacons, xhcp_client on the host configures Click from *)
(* them, registers the host with the gateway's xrouted and its name with   *)
(* the name server, and xrouted purges the routes of hosts it no longer    *)
(* hears.                                                                  *)
(*                                                                         *)
(* An AD has one gateway and stands for its AD, the gateway's HID and its  *)
(* 4ID.  A DAG is the pair of its AD and its HID.  The host moves between  *)
(* ADs; what was under way on the link it leaves may be lost.              *)
(***************************************************************************)
EXTENDS Naturals, Sequences, FiniteSets

CONSTANTS
    ADs, NULL,
    HomeAD,             \* where the host starts
    Self, Stranger,     \* HIDs: the host, and another host with its hostname
    Host, Service,      \* the names: the hostname, and a service on the host
    beacon_response_freq, XHCP_CLIENT_NAME_REGISTER_WAIT,
    MaxBeacons,         \* bound: beacons in the socket of xhcp_client
    MaxMoves,           \* bound: moves of the host
    MaxEvents           \* bound: restarts, failures and other registrations, together

DAG == [ad : ADs, hid : {Self, Stranger}]
\* socket: the run of xhcp_client whose _xregister waits for the answer, or NULL.
Request == [name : {Host, Service}, dag : DAG, migrate : BOOLEAN,
            socket : (0..MaxEvents) \union {NULL}]
Answer == [ad : ADs, socket : 0..MaxEvents]

ASSUME HostAssumption ==
    /\ IsFiniteSet(ADs) /\ HomeAD \in ADs
    /\ NULL \notin ADs \union Nat \union DAG \union Answer
    /\ Self # Stranger /\ Host # Service
    /\ beacon_response_freq \in Nat \ {0} /\ XHCP_CLIENT_NAME_REGISTER_WAIT \in Nat
    /\ {MaxBeacons, MaxMoves, MaxEvents} \subseteq Nat

VARIABLES
    at,             \* the AD whose link the host is on
    beacons,        \* received by Click, not yet read by xhcp_client
    \* xhcp_client
    myAD, beacon_reception_count, update_ns,
    waiting,        \* it is in _xregister, waiting for the answer
    \* Click on the host: XupdateAD's AD, the ADs and HIDs with an entry, the default next hop
    clickAD, adTable, hidTable, defaultNext,
    \* the gateway of each AD: Click's entry for the host's HID, xrouted's socket and timeStamp
    clickHID, registers, timeStamp,
    \* the name server and the packets to and from it
    name_to_dag_db_table, requests, answer,
    moves,
    restarts, nsRestarts,   \* of xhcp_client and of the name server
    others,                 \* failures, restarts of an xrouted and registrations of others so far
    claimed,                \* an application has registered the hostname with XregisterName
    rebooted                \* the gateways whose xrouted was started again

client  == <<myAD, beacon_reception_count, update_ns, waiting>>
click   == <<clickAD, adTable, hidTable, defaultNext>>
gateway == <<clickHID, registers, timeStamp>>
naming  == <<name_to_dag_db_table, requests, answer>>
bounds  == <<moves, restarts, nsRestarts, others, claimed, rebooted>>
vars    == <<at, beacons, client, click, gateway, naming, bounds>>

MayHappen == restarts + nsRestarts + others < MaxEvents

DagIn(a) == [ad |-> a, hid |-> Self]

Init ==
    /\ at = HomeAD /\ beacons = <<>>
    /\ myAD = NULL /\ beacon_reception_count = 0 /\ update_ns = FALSE /\ waiting = FALSE
    /\ clickAD = NULL /\ adTable = {} /\ hidTable = {} /\ defaultNext = NULL
    /\ clickHID = [a \in ADs |-> "none"]
    /\ registers = [a \in ADs |-> FALSE]
    /\ timeStamp = [a \in ADs |-> "none"]
    /\ name_to_dag_db_table = [n \in {Host, Service} |-> NULL]
    /\ requests = {} /\ answer = NULL
    /\ moves = 0 /\ restarts = 0 /\ nsRestarts = 0 /\ others = 0
    /\ claimed = FALSE /\ rebooted = {}

-------------------------------------------------------------------------------
(* xhcp_client. *)

\* The gateway broadcasts its beacon; Click on the host learns the gateway's HID from it.
Beacon ==
    /\ Len(beacons) < MaxBeacons
    /\ beacons' = Append(beacons, at)
    /\ hidTable' = hidTable \union {at}
    /\ UNCHANGED <<at, client, clickAD, adTable, defaultNext, gateway, naming, bounds>>

ConfigureKeepOld(ad) ==
    /\ clickAD' = ad /\ defaultNext' = ad /\ myAD' = ad
    /\ adTable' = adTable \union {ad}
    /\ hidTable' = (hidTable \ {myAD}) \union {ad}

\* A new AD: XupdateAD, drop the old local AD and gateway entries, set the new ones.
Configure(ad) ==
    /\ clickAD' = ad /\ defaultNext' = ad /\ myAD' = ad
    /\ adTable' = (adTable \ {myAD}) \union {ad}
    /\ hidTable' = (hidTable \ {myAD}) \union {ad}

UpdateAD(ad) ==
    IF myAD # ad THEN Configure(ad) ELSE UNCHANGED <<click, myAD>>

CountedModulo == (beacon_reception_count + 1) % beacon_response_freq

\* beacon_reception_count + 1; counts past the wait that agree modulo the frequency are one.
Counted ==
    LET n == beacon_reception_count + 1
    IN IF n >= XHCP_CLIENT_NAME_REGISTER_WAIT + beacon_response_freq
       THEN n - beacon_response_freq ELSE n

HostRegisterOnce ==
    IF Counted = beacon_response_freq
    THEN /\ clickHID' = [clickHID EXCEPT ![at] = "port"]
         /\ registers' = [registers EXCEPT ![at] = TRUE]
    ELSE UNCHANGED <<clickHID, registers>>

\* The host-register broadcast: the gateway's Click learns the host's port on its way to xrouted.
HostRegister ==
    IF Counted % beacon_response_freq = 0
    THEN /\ clickHID' = [clickHID EXCEPT ![at] = "port"]
         /\ registers' = [registers EXCEPT ![at] = TRUE]
    ELSE UNCHANGED <<clickHID, registers>>

Registering == (update_ns \/ myAD # Head(beacons)) /\ Counted >= XHCP_CLIENT_NAME_REGISTER_WAIT

\* The part of the loop before the registration of the name.
ReadsBeacon ==
    /\ ~waiting /\ beacons # <<>>
    /\ beacons' = Tail(beacons)
    /\ UpdateAD(Head(beacons))
    /\ HostRegister
    /\ UNCHANGED <<at, timeStamp, name_to_dag_db_table, answer, moves, restarts, nsRestarts, claimed,
                   rebooted>>

BeaconOnly ==
    /\ ReadsBeacon
    /\ ~Registering
    /\ beacon_reception_count' = Counted
    /\ update_ns' = (update_ns \/ myAD # Head(beacons))
    /\ UNCHANGED <<waiting, requests, others>>

\* XregisterHost: the request leaves by the default route, which a stale beacon points elsewhere.
XregisterHost ==
    /\ ReadsBeacon
    /\ Registering
    /\ beacon_reception_count' = Counted
    /\ update_ns' = TRUE /\ waiting' = TRUE
    /\ requests' = IF defaultNext' # at THEN requests ELSE requests \union
           {[name |-> Host, dag |-> DagIn(clickAD'), migrate |-> TRUE, socket |-> restarts]}
    /\ UNCHANGED others

XregisterHostFailsUnseen ==
    /\ ReadsBeacon
    /\ Registering /\ MayHappen
    /\ beacon_reception_count' = 0
    /\ update_ns' = FALSE
    /\ others' = others + 1
    /\ UNCHANGED <<waiting, requests>>

\* XregisterHost fails before it sends the request.
XregisterHostFails ==
    /\ ReadsBeacon
    /\ Registering /\ MayHappen
    /\ beacon_reception_count' = 0
    /\ update_ns' = TRUE
    /\ others' = others + 1
    /\ UNCHANGED <<waiting, requests>>

\* The answer reaches the host only if it is in the AD the request came from and that gateway
\* has the host's port; _xregister then returns 0.
Reachable(a) == at = a /\ clickHID[a] = "port"

AnswerArrives ==
    /\ answer # NULL
    /\ answer' = NULL
    /\ IF waiting /\ answer.socket = restarts /\ Reachable(answer.ad)
       THEN waiting' = FALSE /\ update_ns' = FALSE
       ELSE UNCHANGED <<waiting, update_ns>>
    /\ UNCHANGED <<at, beacons, myAD, beacon_reception_count, click, gateway,
                   name_to_dag_db_table, requests, bounds>>

\* xhcp_client dies and is started again; Click keeps what it configured.
ClientRestart ==
    /\ MayHappen
    /\ restarts' = restarts + 1
    /\ beacons' = <<>>
    /\ myAD' = NULL /\ beacon_reception_count' = 0 /\ update_ns' = FALSE /\ waiting' = FALSE
    /\ UNCHANGED <<at, click, gateway, naming, moves, nsRestarts, others, claimed, rebooted>>

\* The host moves to another link; a request still on the old one may be lost.
Move(a) ==
    /\ moves < MaxMoves /\ a # at
    /\ at' = a
    /\ moves' = moves + 1
    /\ requests' \in {requests, {r \in requests : r.dag.hid # Self}}
    /\ UNCHANGED <<beacons, client, click, gateway, name_to_dag_db_table, answer, restarts,
                   nsRestarts, others, claimed, rebooted>>

-------------------------------------------------------------------------------
(* xrouted on the gateways. *)

\* setRoute writes back the port it reads: -1, to which nothing is sent, if there is no entry.
processHostRegister(a) ==
    /\ registers[a]
    /\ registers' = [registers EXCEPT ![a] = FALSE]
    /\ clickHID' = [clickHID EXCEPT ![a] = IF @ = "none" THEN "discard" ELSE @]
    /\ timeStamp' = [timeStamp EXCEPT ![a] = "fresh"]
    /\ UNCHANGED <<at, beacons, client, click, naming, bounds>>

\* EXPIRE_TIME passes without a registration.
Expire(a) ==
    /\ timeStamp[a] = "fresh"
    /\ timeStamp' = [timeStamp EXCEPT ![a] = "expired"]
    /\ UNCHANGED <<at, beacons, client, click, clickHID, registers, naming, bounds>>

PurgeStampOnly(a) ==
    /\ timeStamp[a] = "expired"
    /\ timeStamp' = [timeStamp EXCEPT ![a] = "none"]
    /\ UNCHANGED <<at, beacons, client, click, clickHID, registers, naming, bounds>>

\* The purge of the main loop deletes the route and the stamp of an expired host.  It then
\* reads the iterator it has erased: if that ends xrouted, XroutedRestart follows.
Purge(a) ==
    /\ timeStamp[a] = "expired"
    /\ timeStamp' = [timeStamp EXCEPT ![a] = "none"]
    /\ clickHID' = [clickHID EXCEPT ![a] = "none"]
    /\ UNCHANGED <<at, beacons, client, click, registers, naming, bounds>>

\* xrouted dies and is started again: the time stamps were in memory and what its socket held
\* is gone, while Click keeps its routes.
XroutedRestart(a) ==
    /\ MayHappen
    /\ others' = others + 1
    /\ rebooted' = rebooted \union {a}
    /\ registers' = [registers EXCEPT ![a] = FALSE]
    /\ timeStamp' = [timeStamp EXCEPT ![a] = "none"]
    /\ UNCHANGED <<at, beacons, client, click, clickHID, naming, moves, restarts, nsRestarts, claimed>>

-------------------------------------------------------------------------------
(* The name server. *)

\* An application binds a name, which may be the hostname, to a DAG of its choice.
XregisterName(name, dag) ==
    /\ MayHappen
    /\ others' = others + 1
    /\ claimed' = (claimed \/ name = Host)
    /\ requests' = requests \union
           {[name |-> name, dag |-> dag, migrate |-> FALSE, socket |-> NULL]}
    /\ UNCHANGED <<at, beacons, client, click, gateway, name_to_dag_db_table, answer, moves,
                   restarts, nsRestarts, rebooted>>

\* xhcp_client on another host with the same hostname registers it.
StrangerRegisters(a) ==
    /\ MayHappen
    /\ others' = others + 1
    /\ requests' = requests \union
           {[name |-> Host, dag |-> [ad |-> a, hid |-> Stranger], migrate |-> TRUE, socket |-> NULL]}
    /\ UNCHANGED <<at, beacons, client, click, gateway, name_to_dag_db_table, answer, moves,
                   restarts, nsRestarts, claimed, rebooted>>

migrateAnyHID(name, dag) == [name_to_dag_db_table EXCEPT ![name] = dag]

\* A host record is replaced only by one of the same HID.  The walk over the other records
\* replaces the AD in a local Graph and leaves the table alone.
migrate(name, dag) ==
    LET old == name_to_dag_db_table[name]
    IN IF old = NULL \/ old.hid = dag.hid
       THEN [name_to_dag_db_table EXCEPT ![name] = dag] ELSE name_to_dag_db_table

RegisterAnswersAll(r) ==
    /\ r \in requests
    /\ requests' = requests \ {r}
    /\ name_to_dag_db_table' = IF r.migrate THEN migrate(r.name, r.dag)
                               ELSE [name_to_dag_db_table EXCEPT ![r.name] = r.dag]
    /\ answer' = [ad |-> r.dag.ad, socket |-> r.socket]
    /\ UNCHANGED <<at, beacons, client, click, gateway, bounds>>

\* The answer is success whatever migrate did, and goes to the source of the request.
Register(r) ==
    /\ r \in requests
    /\ requests' = requests \ {r}
    /\ name_to_dag_db_table' = IF r.migrate THEN migrate(r.name, r.dag)
                               ELSE [name_to_dag_db_table EXCEPT ![r.name] = r.dag]
    /\ answer' = IF r.socket = NULL THEN answer ELSE [ad |-> r.dag.ad, socket |-> r.socket]
    /\ UNCHANGED <<at, beacons, client, click, gateway, bounds>>

\* The table is in memory only.
NsRestart ==
    /\ MayHappen
    /\ nsRestarts' = nsRestarts + 1
    /\ name_to_dag_db_table' = [n \in {Host, Service} |-> NULL]
    /\ UNCHANGED <<at, beacons, client, click, gateway, requests, answer, moves, restarts, others,
                   claimed, rebooted>>

-------------------------------------------------------------------------------
ClientStep == BeaconOnly \/ XregisterHost \/ XregisterHostFails

Next ==
    \/ Beacon
    \/ BeaconOnly \/ XregisterHost \/ XregisterHostFails \/ AnswerArrives \/ ClientRestart
    \/ \E a \in ADs : Move(a)
    \/ \E a \in ADs : processHostRegister(a) \/ Expire(a) \/ Purge(a) \/ XroutedRestart(a)
    \/ \E name \in {Host, Service}, dag \in DAG : XregisterName(name, dag)
    \/ \E a \in ADs : StrangerRegisters(a)
    \/ \E r \in Request : Register(r)
    \/ NsRestart

Spec == Init /\ [][Next]_vars

\* Beacons keep coming and every daemon keeps running; the network delivers what it took.
FairSpec ==
    /\ Spec
    /\ WF_vars(Beacon) /\ WF_vars(ClientStep) /\ WF_vars(AnswerArrives)
    /\ \A a \in ADs : WF_vars(processHostRegister(a)) /\ WF_vars(Expire(a)) /\ WF_vars(Purge(a))
    /\ WF_vars(\E r \in Request : r.dag.hid = Self /\ Register(r))

-------------------------------------------------------------------------------
(* Properties. *)

\* Every variable has its type; the beacon counter stays below the wait plus the frequency.
TypeOK ==
    /\ at \in ADs /\ beacons \in Seq(ADs) /\ Len(beacons) <= MaxBeacons
    /\ myAD \in ADs \union {NULL} /\ update_ns \in BOOLEAN /\ waiting \in BOOLEAN
    /\ beacon_reception_count \in 0..(XHCP_CLIENT_NAME_REGISTER_WAIT + beacon_response_freq - 1)
    /\ clickAD \in ADs \union {NULL} /\ adTable \subseteq ADs /\ hidTable \subseteq ADs
    /\ defaultNext \in ADs \union {NULL}
    /\ clickHID \in [ADs -> {"none", "port", "discard"}]
    /\ registers \in [ADs -> BOOLEAN]
    /\ timeStamp \in [ADs -> {"none", "fresh", "expired"}]
    /\ name_to_dag_db_table \in [{Host, Service} -> DAG \union {NULL}]
    /\ requests \subseteq Request /\ answer \in Answer \union {NULL}
    /\ moves \in 0..MaxMoves
    /\ {restarts, nsRestarts, others} \subseteq Nat /\ restarts + nsRestarts + others <= MaxEvents
    /\ claimed \in BOOLEAN /\ rebooted \subseteq ADs

\* xhcp_client is in _xregister for an answer that cannot come any more: Xrecvfrom has no timeout.
Hung ==
    /\ waiting
    /\ answer = NULL \/ answer.socket # restarts
    /\ \A r \in requests : r.socket # restarts

Taken == name_to_dag_db_table[Host] # NULL /\ name_to_dag_db_table[Host].hid = Stranger

\* Click on the host follows the last beacon xhcp_client read: source AD, local AD entry and
\* default route name one AD, the default route's next hop has an entry, and the only AD
\* entries left over are those of an xhcp_client that died, one for each.
ClickFollowsBeacon ==
    /\ myAD # NULL => clickAD = myAD /\ defaultNext = myAD /\ myAD \in adTable \intersect hidTable
    /\ Cardinality(adTable \ {myAD}) <= restarts

\* When xhcp_client has stopped trying to register (update_ns is 0), the name server's record
\* of the hostname is the host in its AD, unless another host has the name or an application
\* has registered it.
SettledIsRegistered ==
    restarts = 0 /\ nsRestarts = 0 /\ ~claimed /\ myAD # NULL /\ ~update_ns
        => name_to_dag_db_table[Host] = DagIn(myAD) \/ Taken

\* migrate never lets one host take another's hostname: a record changes its HID only by a
\* restart of the name server, or in the step that handles an XregisterName of that hostname,
\* which checks nothing.
HostNameKeepsHID ==
    [][LET old == name_to_dag_db_table[Host]
           new == name_to_dag_db_table'[Host]
       IN old # NULL /\ new # NULL /\ old.hid # new.hid
              => \E r \in requests \ requests' : r.name = Host /\ ~r.migrate /\ r.dag = new]_vars

\* A host that stays in an AD is in the end registered there, provided that xhcp_client does
\* not hang in _xregister, that neither it nor the name server is restarted and that no
\* application registers the hostname.
RegistrationFollowsHost ==
    \A a \in ADs :
        <>[](at = a /\ ~Hung /\ restarts = 0 /\ nsRestarts = 0 /\ ~claimed)
            => <>[](name_to_dag_db_table[Host] = DagIn(a) \/ Taken)

\* A gateway keeps getting back its route to a host that stays and whose client does not hang,
\* whatever it purges or overwrites in between.
HostRouteReturns ==
    \A a \in ADs : <>[](at = a /\ ~Hung) => []<>(clickHID[a] = "port")

\* The gateway's xrouted was started again and has not heard of the host since.
Forgotten(a) == a \in rebooted /\ timeStamp[a] = "none" /\ ~registers[a]

\* The route of a host that has left is purged, or the host comes back.  Only an xrouted that
\* was started again leaves it in place, as long as it does not hear of the host.
DepartedIsPurged ==
    \A a \in ADs : at # a ~> (clickHID[a] = "none" \/ at = a \/ Forgotten(a))
=============================================================================
