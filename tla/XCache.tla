-------------------------------- MODULE XCache --------------------------------
(***************************************************************************)
(* xcached, the external content cache, and the applications that use it   *)
(* through libxcache: the select loop of XcacheController::run, the        *)
(* commands it parses and handles, its slices, metas and content store,    *)
(* and the API calls that write a command and may wait for the answer.     *)
(*                                                                         *)
(* A connection is an AF_UNIX SOCK_SEQPACKET socket.  A command is reduced *)
(* to what decides its fate in the daemon: whether it is longer than the   *)
(* 512 bytes one read takes ("long"; the read throws the rest away) and,   *)
(* if not, whether it holds a zero byte, where buffer.append(buf) stops.   *)
(* The bytes of a chunk are left out.                                      *)
(***************************************************************************)
EXTENDS Naturals, Sequences, FiniteSets, Functions

CONSTANTS
    Clients,
    CIDs,
    Sizes,      \* cache sizes an application asks for
    Lengths,    \* what XcacheMeta::len, which nothing ever sets, may hold
    Policies,   \* cachePolicy arguments; 0 is serialised as a zero byte
    NULL,
    MaxCommands \* bound: commands each application sends

ASSUME CacheAssumption ==
    /\ Sizes \subseteq Nat /\ Lengths \subseteq Nat /\ Lengths # {} /\ Policies \subseteq Nat
    /\ MaxCommands \in [Clients -> Nat]
    /\ NULL \notin Nat \cup CIDs \cup BOOLEAN
    /\ NULL \notin [len : Nat, refCount : Nat, store : BOOLEAN]

VARIABLES
    \* the daemon
    activeConnections, backlog,
    fds,            \* connections of this pass of the loop still to be looked at
    partial,        \* the long command read from the first of fds: the do loop reads on
    stray,          \* allfds held a bit of no open descriptor when run() began
    xcached,        \* "running", "searching" (blocked in search()) or "dead"
    slices,         \* sliceMap: [maxSize, metaMap], the context id is the index
    metaMap,        \* CID -> [len, refCount, store], or NULL
    \* the applications and their connections
    app, contextId, calls,
    asked,          \* the command whose answer the application waits for
    toDaemon, toApp

daemon  == <<activeConnections, backlog, fds, partial, xcached>>
content == <<slices, metaMap>>
apps    == <<app, contextId, calls, asked>>
vars    == <<daemon, stray, content, apps, toDaemon, toApp>>

HasZero(ns)  == 0 \in ns
\* XcacheAllocateSlice leaves the context id unset, which reads as 0.
NewSliceMsg(size, policy) == [cmd |-> "NEWSLICE", contextid |-> 0, size |-> size, long |-> FALSE,
                              zero |-> HasZero({size, policy})]
StoreMsg(ctx, c, long, zero) == [cmd |-> "STORE", contextid |-> ctx, cid |-> c,
                                 long |-> long, zero |-> zero]
\* sockaddr_x is longer than 512 bytes, and so is every GETCHUNK.
GetChunkMsg == [cmd |-> "GETCHUNK", long |-> TRUE, zero |-> FALSE]
StatusMsg   == [cmd |-> "STATUS", long |-> FALSE, zero |-> FALSE]

Init ==
    /\ activeConnections = << >> /\ backlog = << >> /\ fds = << >>
    /\ partial = NULL /\ xcached = "running"
    /\ stray \in BOOLEAN
    /\ slices = << >>
    /\ metaMap = [c \in CIDs |-> NULL]
    /\ app = [p \in Clients |-> "out"]
    /\ contextId = [p \in Clients |-> NULL]
    /\ calls = [p \in Clients |-> 0]
    /\ asked = [p \in Clients |-> NULL]
    /\ toDaemon = [p \in Clients |-> << >>]
    /\ toApp = [p \in Clients |-> << >>]

-------------------------------------------------------------------------------
(* The API *)

XcacheInit(p) ==
    /\ app[p] = "out" /\ xcached # "dead"
    /\ app' = [app EXCEPT ![p] = "running"]
    /\ backlog' = Append(backlog, p)
    /\ UNCHANGED <<activeConnections, fds, partial, xcached, stray, content, contextId, calls,
                   asked, toDaemon, toApp>>

\* One thread per connection: no command while an answer is awaited.
send_command(p, m) ==
    /\ app[p] = "running" /\ asked[p] = NULL /\ xcached # "dead"
    /\ calls[p] < MaxCommands[p]
    /\ calls' = [calls EXCEPT ![p] = @ + 1]
    /\ toDaemon' = [toDaemon EXCEPT ![p] = Append(@, m)]
    /\ UNCHANGED <<daemon, stray, content, app, contextId, toApp>>

XcacheAllocateSlice(p) ==
    \E size \in Sizes, policy \in Policies :
        /\ send_command(p, NewSliceMsg(size, policy))
        /\ asked' = [asked EXCEPT ![p] = NewSliceMsg(size, policy)]

XcachePutChunk(p) ==
    /\ contextId[p] # NULL
    /\ \E c \in CIDs, how \in {"text", "binary", "long"} :
           send_command(p, StoreMsg(contextId[p], c, how = "long", how = "binary"))
    /\ UNCHANGED asked

XcacheGetChunk(p) ==
    /\ send_command(p, GetChunkMsg)
    /\ asked' = [asked EXCEPT ![p] = GetChunkMsg]

\* No call of the library sends STATUS; the protocol has it.
Status(p) == send_command(p, StatusMsg) /\ UNCHANGED asked

\* An answer, or the end of the connection, for which an empty answer is taken too.  Only
\* XcacheAllocateSlice looks at the context id; without one it has no slice.
get_response_blocking(p) ==
    /\ app[p] = "running" /\ asked[p] # NULL
    /\ toApp[p] # << >> \/ xcached = "dead"
    /\ LET answer == IF toApp[p] = << >> THEN NULL ELSE Head(toApp[p])
       IN  contextId' = IF asked[p].cmd = "NEWSLICE" THEN [contextId EXCEPT ![p] = answer]
                                                     ELSE contextId
    /\ toApp' = [toApp EXCEPT ![p] = IF @ = << >> THEN @ ELSE Tail(@)]
    /\ asked' = [asked EXCEPT ![p] = NULL]
    /\ UNCHANGED <<daemon, stray, content, app, calls, toDaemon>>

\* The application ends, perhaps in the middle of a call.
Exit(p) ==
    /\ app[p] = "running"
    /\ app' = [app EXCEPT ![p] = "gone"]
    /\ asked' = [asked EXCEPT ![p] = NULL]
    /\ contextId' = [contextId EXCEPT ![p] = NULL]
    /\ toApp' = [toApp EXCEPT ![p] = << >>]
    /\ UNCHANGED <<daemon, stray, content, calls, toDaemon>>

-------------------------------------------------------------------------------
(* The select loop of XcacheController::run *)

Readable(p) == toDaemon[p] # << >> \/ app[p] = "gone"

\* A plausible slip: the connection is accepted and not remembered.
AcceptedForgotten == activeConnections

Accepted == IF backlog = << >> THEN activeConnections ELSE Append(activeConnections, Head(backlog))

\* The connections of s that are in S, in the order of s.
Among(s, S) ==
    LET kept[n \in 0..Len(s)] ==
            IF n = 0 THEN << >>
            ELSE IF s[n] \in S THEN Append(kept[n - 1], s[n]) ELSE kept[n - 1]
    IN  kept[Len(s)]

\* select() and one accept(); a connection accepted now is looked at in the
\* next pass.
Select ==
    /\ xcached = "running" /\ fds = << >> /\ ~stray
    /\ backlog # << >> \/ \E i \in DOMAIN activeConnections : Readable(activeConnections[i])
    /\ fds' = Among(activeConnections, {p \in Clients : Readable(p)})
    /\ activeConnections' = Accepted
    /\ backlog' = IF backlog = << >> THEN << >> ELSE Tail(backlog)
    /\ UNCHANGED <<partial, xcached, stray, content, apps, toDaemon, toApp>>

\* select() fails on the stray descriptor and leaves every bit set: accept()
\* waits for a connection, then every older connection is read.
SelectFails ==
    /\ xcached = "running" /\ fds = << >> /\ stray
    /\ backlog # << >>
    /\ fds' = activeConnections
    /\ activeConnections' = Accepted
    /\ backlog' = Tail(backlog)
    /\ UNCHANGED <<partial, xcached, stray, content, apps, toDaemon, toApp>>

\* The read of the do loop returns the next message of the first of fds.
Reads(p, m) ==
    /\ xcached = "running" /\ fds # << >> /\ p = Head(fds)
    /\ toDaemon[p] # << >> /\ m = Head(toDaemon[p])
    /\ toDaemon' = [toDaemon EXCEPT ![p] = Tail(@)]

\* 512 bytes: another read follows, which waits for the next message.
ReadOn ==
    \E p \in Clients : \E m \in Range(toDaemon[p]) :
        /\ Reads(p, m) /\ m.long
        /\ partial' = IF partial = NULL THEN m ELSE partial
        /\ UNCHANGED <<activeConnections, backlog, fds, xcached, stray, content, apps, toApp>>

\* read() returned 0: the connection is closed and what was read of a long
\* command is forgotten.
ReadEof ==
    /\ xcached = "running" /\ fds # << >>
    /\ LET p == Head(fds) IN
       /\ toDaemon[p] = << >> /\ app[p] = "gone"
       /\ activeConnections' = Among(activeConnections, Clients \ {p})
    /\ fds' = Tail(fds) /\ partial' = NULL
    /\ UNCHANGED <<backlog, xcached, stray, content, apps, toDaemon, toApp>>

NextConnection ==
    /\ fds' = Tail(fds) /\ partial' = NULL
    /\ UNCHANGED <<activeConnections, backlog, xcached>>

\* The daemon dies, and with it every connection.
Dies ==
    /\ xcached' = "dead" /\ partial' = NULL
    /\ activeConnections' = << >> /\ backlog' = << >> /\ fds' = << >>

\* What a long command and the messages that follow it may be parsed as: the field that was
\* cut short ends in their bytes, and the fields found in the rest of them override the
\* long command's own, the command and the context id included.  Context id 0 stands for
\* every id of no slice; a command that handleCmd does not know is ignored, like a failed parse.
Merged ==
    [cmd : {"NEWSLICE"}, contextid : 0..Len(slices), size : Sizes \cup {0}]
    \cup [cmd : {"STORE"}, contextid : 0..Len(slices), cid : CIDs]
    \cup [cmd : {"GETCHUNK", "STATUS"}]

\* cmd is what ParseFromString makes of what was read when the message m of p ends the
\* do loop.  A zero byte cuts a message short, and alone it does not parse.
Parses(p, m, cmd) ==
    /\ Reads(p, m) /\ ~m.long
    /\ IF partial = NULL THEN ~m.zero /\ cmd = m ELSE cmd \in Merged

ParseFails ==
    \E p \in Clients : \E m \in Range(toDaemon[p]) :
        /\ Reads(p, m) /\ ~m.long
        /\ partial # NULL \/ m.zero
        /\ NextConnection
        /\ UNCHANGED <<stray, content, apps, toApp>>

-------------------------------------------------------------------------------
(* XcacheController::handleCmd *)

\* Plausible slips: the id before the increment, and an id never incremented.
NewContextIdEarly == Len(slices)
NewContextIdFixed == 1

NewContextId == Len(slices) + 1

\* A plausible slip: the first slice instead of the one found.
lookupSliceFirst(cmd) == IF cmd.contextid \in DOMAIN slices THEN 1 ELSE NULL

lookupSlice(cmd) == IF cmd.contextid \in DOMAIN slices THEN cmd.contextid ELSE NULL

\* A NEWSLICE that came whole finds no slice, for ids begin at 1.  The write of the answer
\* to an application that has gone ends the daemon with SIGPIPE.
newSlice(p, cmd) ==
    /\ cmd.cmd = "NEWSLICE"
    /\ \/ /\ lookupSlice(cmd) # NULL
          /\ UNCHANGED <<slices, toApp>>
          /\ NextConnection
       \/ /\ lookupSlice(cmd) = NULL
          /\ slices' = Append(slices, [maxSize |-> cmd.size, metaMap |-> {}])
          /\ \/ /\ app[p] = "running"
                /\ toApp' = [toApp EXCEPT ![p] = Append(@, NewContextId)]
                /\ NextConnection
             \/ /\ app[p] = "gone"
                /\ UNCHANGED toApp
                /\ Dies
    /\ UNCHANGED metaMap

\* The meta of the CID, allocated with an unset length when it is new.
LookupMeta(c) ==
    IF metaMap[c] # NULL THEN {metaMap[c]}
    ELSE {[len |-> l, refCount |-> 0, store |-> FALSE] : l \in Lengths}

\* Plausible slips: no reference taken, and the store manager not reached.
StoredUnreferenced(meta) == [meta EXCEPT !.store = TRUE]
StoredNowhere(meta) == [meta EXCEPT !.refCount = @ + 1]

\* The meta once addMeta and the store manager are done with it.
Stored(meta) == [meta EXCEPT !.refCount = @ + 1, !.store = TRUE]

hasRoom(slice, meta) == slice.maxSize >= meta.len

\* The meta is in the map before the slice is looked up.  policy.evict()
\* returns NULL, so a slice without room ends the daemon in removeMeta.
store(cmd) ==
    /\ cmd.cmd = "STORE"
    /\ \E meta \in LookupMeta(cmd.cid) :
       LET i == lookupSlice(cmd) IN
       \/ /\ i # NULL => cmd.cid \in slices[i].metaMap
          /\ metaMap' = [metaMap EXCEPT ![cmd.cid] = meta]
          /\ UNCHANGED slices
          /\ NextConnection
       \/ /\ i # NULL /\ cmd.cid \notin slices[i].metaMap
          /\ ~hasRoom(slices[i], meta)
          /\ metaMap' = [metaMap EXCEPT ![cmd.cid] = meta]
          /\ UNCHANGED slices
          /\ Dies
       \/ /\ i # NULL /\ cmd.cid \notin slices[i].metaMap
          /\ hasRoom(slices[i], meta)
          /\ slices' = [slices EXCEPT ![i].metaMap = @ \cup {cmd.cid}]
          /\ metaMap' = [metaMap EXCEPT ![cmd.cid] = Stored(meta)]
          /\ NextConnection
    /\ UNCHANGED toApp

\* A GETCHUNK is always long, so it gets here only as what a merged command is parsed as.
\* search() hands Xconnect the string object that holds the DAG, not its bytes: Xconnect
\* may refuse what it finds there, in which case the answer written is empty, crash on it,
\* or wait for ever for the answer to a SYN that nobody gets.
search(p, cmd) ==
    /\ cmd.cmd = "GETCHUNK"
    /\ \/ /\ app[p] = "running"
          /\ toApp' = [toApp EXCEPT ![p] = Append(@, NULL)]
          /\ NextConnection
       \/ /\ UNCHANGED toApp
          /\ Dies
       \/ /\ xcached' = "searching"
          /\ UNCHANGED <<activeConnections, backlog, fds, partial, toApp>>
    /\ UNCHANGED content

\* Every meta of every slice is read from its store; a NULL store is
\* dereferenced.
status(cmd) ==
    /\ cmd.cmd = "STATUS"
    /\ IF \A i \in DOMAIN slices : \A c \in slices[i].metaMap : metaMap[c].store
       THEN NextConnection
       ELSE Dies
    /\ UNCHANGED <<content, toApp>>

handleCmd ==
    \E p \in Clients : \E m \in Range(toDaemon[p]) : \E cmd \in {m} \cup Merged :
        /\ Parses(p, m, cmd)
        /\ newSlice(p, cmd) \/ store(cmd) \/ search(p, cmd) \/ status(cmd)
        /\ UNCHANGED <<stray, apps>>

DaemonStep == Select \/ SelectFails \/ ReadOn \/ ReadEof \/ ParseFails \/ handleCmd

AppStep(p) ==
    \/ XcacheInit(p) \/ XcacheAllocateSlice(p) \/ XcachePutChunk(p) \/ XcacheGetChunk(p)
    \/ Status(p) \/ get_response_blocking(p) \/ Exit(p)

Next == DaemonStep \/ \E p \in Clients : AppStep(p)

Spec == Init /\ [][Next]_vars

\* The daemon's loop runs as long as it has something to do, and an answer
\* that has arrived wakes the application that waits for it.  Applications
\* need not send, answer or exit.
FairSpec == Spec /\ WF_vars(DaemonStep) /\ \A p \in Clients : WF_vars(get_response_blocking(p))
-------------------------------------------------------------------------------
Message == [cmd : {"NEWSLICE"}, contextid : {0}, size : Sizes, long : {FALSE}, zero : BOOLEAN]
           \cup [cmd : {"STORE"}, contextid : Nat \ {0}, cid : CIDs, long : BOOLEAN, zero : BOOLEAN]
           \cup {GetChunkMsg, StatusMsg}

\* The type invariant.
TypeOK ==
    /\ activeConnections \in Seq(Clients) /\ backlog \in Seq(Clients) /\ fds \in Seq(Clients)
    /\ partial \in Message \cup {NULL} /\ stray \in BOOLEAN
    /\ xcached \in {"running", "searching", "dead"}
    /\ slices \in Seq([maxSize : Sizes \cup {0}, metaMap : SUBSET CIDs])
    /\ metaMap \in [CIDs -> [len : Lengths, refCount : Nat, store : BOOLEAN] \cup {NULL}]
    /\ app \in [Clients -> {"out", "running", "gone"}]
    /\ contextId \in [Clients -> (Nat \ {0}) \cup {NULL}]
    /\ calls \in [Clients -> Nat] /\ \A p \in Clients : calls[p] <= MaxCommands[p]
    /\ asked \in [Clients -> Message \cup {NULL}]
    /\ toDaemon \in [Clients -> Seq(Message)]
    /\ toApp \in [Clients -> Seq((Nat \ {0}) \cup {NULL})]

\* A meta counts the slices that hold it: XcacheSlice::addMeta, which any
\* application may reach, and XcacheMeta::ref agree across all the slices that
\* share the meta.
RefCountMatchesSlices ==
    \A c \in CIDs :
        LET holders == {i \in DOMAIN slices : c \in slices[i].metaMap}
        IN  IF metaMap[c] = NULL THEN holders = {} ELSE metaMap[c].refCount = Cardinality(holders)

\* store() creates the meta, adds it to the slice and hands it to the store
\* manager in three steps with error returns between them; even so whatever a
\* slice holds has its content stored, so status() never follows a NULL store.
SlicedIsStored ==
    \A i \in DOMAIN slices : \A c \in slices[i].metaMap : metaMap[c] # NULL /\ metaMap[c].store

Granted(p) == ({contextId[p]} \cup Range(toApp[p])) \ {NULL}

\* No two applications are ever given the same slice, nor one that does not
\* exist, however their NEWSLICE commands interleave.
SlicesAreNotShared ==
    \A p \in Clients :
        /\ Granted(p) \subseteq DOMAIN slices
        /\ \A q \in Clients \ {p} : Granted(p) \cap Granted(q) = {}

\* A command that came whole reaches only its sender's slice, although a STORE is acted upon
\* long after the library has put the context id into it: the step that changes a slice
\* handles what came over the connection being read, and no other application has the id.
\* For what a long command and the next are parsed as (partial # NULL) nothing is promised:
\* it may name any slice.
StoredByOwner ==
    [][\A i \in DOMAIN slices : slices'[i] # slices[i] /\ partial = NULL =>
           fds # << >> /\ \A q \in Clients \ {Head(fds)} : i \notin Granted(q)]_vars

\* The daemon waits in read() for one application, and all others wait for it.
BlockedInRead ==
    /\ xcached = "running" /\ fds # << >>
    /\ toDaemon[Head(fds)] = << >> /\ app[Head(fds)] = "running"

Blocked == BlockedInRead \/ xcached = "searching"

AllocatesSlice(p) == asked[p] # NULL /\ asked[p].cmd = "NEWSLICE"

\* p's NEWSLICE is under way, holds no zero byte, and will not be taken for the
\* rest of a long command p sent before it.
ProperlyAsked(p) ==
    /\ AllocatesSlice(p) /\ ~asked[p].zero
    /\ toDaemon[p] # << >> /\ \A m \in Range(toDaemon[p]) : ~m.long
    /\ ~(partial # NULL /\ fds # << >> /\ p = Head(fds))

\* XcacheAllocateSlice returns, even when the daemon dies, unless the daemon
\* stays in a read() some other application never ends or in search(), or select()
\* is broken by the uninitialised descriptor set.
SliceIsGranted ==
    ~stray /\ []<>~Blocked => \A p \in Clients : ProperlyAsked(p) ~> asked[p] = NULL
===============================================================================
