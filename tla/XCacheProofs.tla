----------------------------- MODULE XCacheProofs -----------------------------
(***************************************************************************)
(* The bookkeeping of xcached for any number of applications, CIDs, slices *)
(* and commands: reference counts, stored content and context ids.  The    *)
(* three properties are inductive once the messages on the connections are *)
(* known to be commands of the library.                                    *)
(***************************************************************************)
EXTENDS XCache, FiniteSetTheorems, TLAPS

\* Appending to a sequence, as the daemon does to toApp, slices and activeConnections.
LEMMA AppendProperties ==
    ASSUME NEW S, NEW seq \in Seq(S), NEW e \in S
    PROVE  /\ Append(seq, e) \in Seq(S) /\ Append(seq, e) # << >>
           /\ Len(Append(seq, e)) = Len(seq) + 1
           /\ \A j \in 1..Len(seq) : Append(seq, e)[j] = seq[j]
           /\ Append(seq, e)[Len(seq) + 1] = e
  OBVIOUS

\* Taking the first element off a sequence, as a read of toDaemon and a step of the loop do.
LEMMA HeadTailProperties ==
    ASSUME NEW S, NEW seq \in Seq(S), seq # << >>
    PROVE  /\ Head(seq) \in S /\ Tail(seq) \in Seq(S)
           /\ Len(Tail(seq)) = Len(seq) - 1
           /\ \A j \in 1..Len(Tail(seq)) : Tail(seq)[j] = seq[j + 1]
  OBVIOUS

\* Replacing one element of a sequence, as a STORE does to its slice.
LEMMA ExceptProperties ==
    ASSUME NEW S, NEW seq \in Seq(S), NEW i \in 1..Len(seq), NEW e \in S
    PROVE  [seq EXCEPT ![i] = e] \in Seq(S)
  OBVIOUS

Slice  == [maxSize : Sizes \cup {0}, metaMap : SUBSET CIDs]
Meta   == [len : Lengths, refCount : Nat, store : BOOLEAN]
Answer == (Nat \ {0}) \cup {NULL}

\* The types of the content and of what the commands are made of.
Shape ==
    /\ slices \in Seq(Slice)
    /\ metaMap \in [CIDs -> Meta \cup {NULL}]
    /\ partial \in Message \cup {NULL}
    /\ toDaemon \in [Clients -> Seq(Message)]
    /\ toApp \in [Clients -> Seq(Answer)]
    /\ contextId \in [Clients -> Answer]

\* The slices that hold the meta of c.
Holders(c) == {i \in DOMAIN slices : c \in slices[i].metaMap}

IndInv == Shape /\ RefCountMatchesSlices /\ SlicedIsStored /\ SlicesAreNotShared

\* xcached starts without slices, metas or connections.
LEMMA InitIndInv == Init => IndInv
  <1> SUFFICES ASSUME Init PROVE IndInv  OBVIOUS
  <1> USE DEF Init
  <1>1. Shape  BY DEF Shape, Answer
  <1>2. RefCountMatchesSlices  BY DEF RefCountMatchesSlices
  <1>3. SlicedIsStored  BY DEF SlicedIsStored
  <1>4. SlicesAreNotShared  BY DEF SlicesAreNotShared, Granted, Range
  <1> QED  BY Zenon, <1>1, <1>2, <1>3, <1>4 DEF IndInv

\* The content is untouched and no application is given an id it did not have before.
LEMMA QuietStep ==
    ASSUME IndInv, Shape', UNCHANGED content, \A p \in Clients : Granted(p)' \subseteq Granted(p)
    PROVE  IndInv'
  <1> USE DEF IndInv, content
  <1>1. RefCountMatchesSlices'  BY Zenon DEF RefCountMatchesSlices
  <1>2. SlicedIsStored'  BY Zenon DEF SlicedIsStored
  <1>3. SlicesAreNotShared'
    <2>1. SUFFICES ASSUME NEW p \in Clients
                   PROVE  /\ Granted(p)' \subseteq DOMAIN slices
                          /\ \A q \in Clients \ {p} : Granted(p)' \cap Granted(q)' = {}
      BY Zenon DEF SlicesAreNotShared
    <2>2. Granted(p) \subseteq DOMAIN slices /\ \A q \in Clients \ {p} : Granted(p) \cap Granted(q) = {}
      BY Zenon DEF SlicesAreNotShared
    <2> QED  BY Zenon, <2>2
  <1> QED  BY Zenon, <1>1, <1>2, <1>3

\* A command the library sends is one of the messages.
LEMMA SendStep ==
    ASSUME IndInv, NEW p \in Clients, NEW m \in Message, send_command(p, m)
    PROVE  IndInv'
  <1>1. toDaemon' \in [Clients -> Seq(Message)]
    BY DEF IndInv, Shape, send_command
  <1>2. UNCHANGED <<content, partial, toApp, contextId>>
    BY Zenon DEF send_command, daemon
  <1>3. Shape'  BY Zenon, <1>1, <1>2 DEF IndInv, Shape, content
  <1>4. \A q \in Clients : Granted(q)' = Granted(q)  BY Zenon, <1>2 DEF Granted
  <1> QED  BY Zenon, <1>2, <1>3, <1>4, QuietStep

\* Reading an answer gives an application no id it had not been sent.
LEMMA AnswerRead ==
    ASSUME IndInv, NEW p \in Clients, get_response_blocking(p)
    PROVE  /\ contextId' \in [Clients -> Answer] /\ toApp' \in [Clients -> Seq(Answer)]
           /\ \A q \in Clients : Granted(q)' \subseteq Granted(q)
  <1> DEFINE answer == IF toApp[p] = << >> THEN NULL ELSE Head(toApp[p])
             rest == IF toApp[p] = << >> THEN toApp[p] ELSE Tail(toApp[p])
  <1>1. /\ contextId' = contextId \/ contextId' = [contextId EXCEPT ![p] = answer]
        /\ toApp' = [toApp EXCEPT ![p] = rest]
    BY Zenon DEF get_response_blocking
  <1>2. /\ contextId \in [Clients -> Answer] /\ toApp \in [Clients -> Seq(Answer)]
        /\ toApp[p] \in Seq(Answer)
    BY Zenon DEF IndInv, Shape
  <1>3. /\ answer \in Answer /\ rest \in Seq(Answer)
        /\ answer \in Range(toApp[p]) \cup {NULL} /\ Range(rest) \subseteq Range(toApp[p])
    <2>1. CASE toApp[p] = << >>  BY Zenon, <1>2, <2>1 DEF Answer
    <2>2. CASE toApp[p] # << >>
      <3>1. /\ Head(toApp[p]) \in Answer /\ Tail(toApp[p]) \in Seq(Answer)
            /\ Head(toApp[p]) \in Range(toApp[p]) /\ Range(Tail(toApp[p])) \subseteq Range(toApp[p])
        BY <1>2, <2>2, HeadTailProperties DEF Range
      <3> QED  BY Zenon, <2>2, <3>1
    <2> QED  BY Zenon, <2>1, <2>2
  <1> HIDE DEF answer, rest
  <1>4. \A q \in Clients : /\ contextId'[q] = contextId[q] \/ (q = p /\ contextId'[q] = answer)
                           /\ toApp'[q] = toApp[q] \/ (q = p /\ toApp'[q] = rest)
    BY Zenon, <1>1, <1>2
  <1>5. \A q \in Clients : Granted(q)' \subseteq Granted(q)
    BY Zenon, <1>3, <1>4 DEF Granted
  <1> QED  BY Zenon, <1>1, <1>2, <1>3, <1>5

\* The calls of the library, the answers they read and the end of an application.
LEMMA AppStepKeeps ==
    ASSUME IndInv, NEW p \in Clients, AppStep(p)
    PROVE  IndInv'
  <1> USE DEF IndInv
  <1>1. CASE XcacheInit(p)
    <2>1. UNCHANGED <<content, partial, toDaemon, toApp, contextId>>  BY Zenon, <1>1 DEF XcacheInit
    <2>2. Shape'  BY Zenon, <2>1 DEF Shape, content
    <2>3. \A q \in Clients : Granted(q)' = Granted(q)  BY Zenon, <2>1 DEF Granted
    <2> QED  BY Zenon, <2>1, <2>2, <2>3, QuietStep
  <1>2. CASE XcacheAllocateSlice(p)
    <2>1. PICK size \in Sizes, policy \in Policies : send_command(p, NewSliceMsg(size, policy))
      BY Zenon, <1>2 DEF XcacheAllocateSlice
    <2>2. NewSliceMsg(size, policy) \in Message  BY DEF NewSliceMsg, HasZero, Message
    <2> QED  BY Zenon, <2>1, <2>2, SendStep
  <1>3. CASE XcachePutChunk(p)
    <2>1. PICK c \in CIDs, how \in {"text", "binary", "long"} :
            send_command(p, StoreMsg(contextId[p], c, how = "long", how = "binary"))
      BY Zenon, <1>3 DEF XcachePutChunk
    <2>2. contextId[p] \in Nat \ {0}  BY Zenon, <1>3 DEF XcachePutChunk, Shape, Answer
    <2>3. StoreMsg(contextId[p], c, how = "long", how = "binary") \in Message
      BY Zenon, <2>2 DEF StoreMsg, Message
    <2> QED  BY Zenon, <2>1, <2>3, SendStep
  <1>4. CASE XcacheGetChunk(p) \/ Status(p)
    BY Zenon, <1>4, SendStep DEF XcacheGetChunk, Status, Message
  <1>5. CASE get_response_blocking(p)
    <2>1. UNCHANGED <<content, partial, toDaemon>>  BY Zenon, <1>5 DEF get_response_blocking, daemon
    <2>2. Shape'  BY Zenon, <1>5, <2>1, AnswerRead DEF Shape, content
    <2> QED  BY Zenon, <1>5, <2>1, <2>2, AnswerRead, QuietStep
  <1>6. CASE Exit(p)
    <2>1. /\ UNCHANGED <<content, partial, toDaemon>>
          /\ contextId' = [contextId EXCEPT ![p] = NULL]
          /\ toApp' = [toApp EXCEPT ![p] = << >>]
      BY Zenon, <1>6 DEF Exit, daemon
    <2>2. Shape'  BY <2>1 DEF Shape, Answer, content
    <2>3. \A q \in Clients : Granted(q)' \subseteq Granted(q)
      BY <2>1 DEF Granted, Range, Shape
    <2> QED  BY Zenon, <2>1, <2>2, <2>3, QuietStep
  <1> QED  BY Zenon, <1>1, <1>2, <1>3, <1>4, <1>5, <1>6 DEF AppStep

\* What newSlice and store rely on in a command.
WellFormed(cmd) ==
    /\ cmd.cmd = "NEWSLICE" => cmd.size \in Sizes \cup {0}
    /\ cmd.cmd = "STORE" => cmd.cid \in CIDs

\* The messages have it.
LEMMA MessageFields ==
    ASSUME NEW cmd \in Message
    PROVE  WellFormed(cmd)
  <1>1. CASE cmd \in [cmd : {"NEWSLICE"}, contextid : {0}, size : Sizes, long : {FALSE},
                      zero : BOOLEAN]
    BY Zenon, <1>1 DEF WellFormed
  <1>2. CASE cmd \in [cmd : {"STORE"}, contextid : Nat \ {0}, cid : CIDs, long : BOOLEAN,
                      zero : BOOLEAN]
    BY Zenon, <1>2 DEF WellFormed
  <1>3. CASE cmd \in {GetChunkMsg, StatusMsg}
    BY <1>3 DEF GetChunkMsg, StatusMsg, WellFormed
  <1> QED  BY Zenon, <1>1, <1>2, <1>3 DEF Message

\* So has whatever a long command and the next are parsed as.
LEMMA MergedFields ==
    ASSUME NEW cmd \in Merged
    PROVE  WellFormed(cmd)
  <1>1. CASE cmd \in [cmd : {"NEWSLICE"}, contextid : 0..Len(slices), size : Sizes \cup {0}]
    BY Zenon, <1>1 DEF WellFormed
  <1>2. CASE cmd \in [cmd : {"STORE"}, contextid : 0..Len(slices), cid : CIDs]
    BY Zenon, <1>2 DEF WellFormed
  <1>3. CASE cmd \in [cmd : {"GETCHUNK", "STATUS"}]
    BY <1>3 DEF WellFormed
  <1> QED  BY Zenon, <1>1, <1>2, <1>3 DEF Merged

\* A command handled is a message or something merged from several.
LEMMA ParsedFields ==
    ASSUME IndInv, NEW p \in Clients, NEW m \in Range(toDaemon[p]), NEW cmd, Parses(p, m, cmd)
    PROVE  WellFormed(cmd) /\ toDaemon' \in [Clients -> Seq(Message)]
  <1>1. toDaemon[p] \in Seq(Message) /\ m \in Message  BY DEF IndInv, Shape, Range
  <1>2. WellFormed(cmd)  BY Zenon, <1>1, MessageFields, MergedFields DEF Parses
  <1>3. toDaemon' \in [Clients -> Seq(Message)]
    BY Zenon, <1>1, HeadTailProperties DEF Parses, Reads, IndInv, Shape
  <1> QED  BY Zenon, <1>2, <1>3

\* The daemon forgets a long command, whether it goes on to the next connection or dies.
LEMMA PartialForgotten ==
    ASSUME NextConnection \/ Dies
    PROVE  partial' = NULL
  BY Zenon DEF NextConnection, Dies

\* The loop up to the point where a command is parsed leaves the content alone.
LEMMA LoopStep ==
    ASSUME IndInv, Select \/ SelectFails \/ ReadOn \/ ReadEof \/ ParseFails
    PROVE  IndInv'
  <1> USE DEF IndInv
  <1>1. UNCHANGED <<content, toApp, contextId>>
    BY Zenon DEF Select, SelectFails, ReadOn, ReadEof, ParseFails, apps
  <1>2. toDaemon' \in [Clients -> Seq(Message)] /\ partial' \in Message \cup {NULL}
    <2>1. CASE Select \/ SelectFails \/ ReadEof
      BY Zenon, <2>1 DEF Select, SelectFails, ReadEof, Shape
    <2>2. ASSUME NEW p \in Clients, NEW m \in Range(toDaemon[p]), Reads(p, m),
                 partial' \in {m, partial, NULL}
          PROVE  toDaemon' \in [Clients -> Seq(Message)] /\ partial' \in Message \cup {NULL}
      <3>1. toDaemon[p] \in Seq(Message) /\ m \in Message  BY DEF Shape, Range
      <3>2. toDaemon' \in [Clients -> Seq(Message)]
        BY Zenon, <2>2, <3>1, HeadTailProperties DEF Reads, Shape
      <3> QED  BY Zenon, <2>2, <3>1, <3>2 DEF Shape
    <2>3. CASE ReadOn  BY Zenon, <2>2, <2>3 DEF ReadOn
    <2>4. CASE ParseFails  BY Zenon, <2>2, <2>4, PartialForgotten DEF ParseFails
    <2> QED  BY Zenon, <2>1, <2>3, <2>4
  <1>3. Shape'  BY Zenon, <1>1, <1>2 DEF Shape, content
  <1>4. \A q \in Clients : Granted(q)' = Granted(q)  BY Zenon, <1>1 DEF Granted
  <1> QED  BY Zenon, <1>1, <1>3, <1>4, QuietStep

\* newSlice: the new slice is empty and its id is one no application has been given.
LEMMA NewSliceStep ==
    ASSUME IndInv, NEW p \in Clients, NEW cmd, WellFormed(cmd), newSlice(p, cmd),
           toDaemon' \in [Clients -> Seq(Message)], UNCHANGED contextId
    PROVE  IndInv'
  <1> USE DEF IndInv
  <1>0. SUFFICES ASSUME slices' # slices PROVE IndInv'
    <2>1. ASSUME slices' = slices, toApp' = toApp PROVE IndInv'
      <3>1. UNCHANGED <<content, toApp>> /\ partial' = NULL
        BY Zenon, <2>1, PartialForgotten DEF newSlice, content
      <3>2. Shape'  BY Zenon, <3>1 DEF Shape, content
      <3>3. \A q \in Clients : Granted(q)' = Granted(q)  BY Zenon, <3>1 DEF Granted
      <3> QED  BY Zenon, <3>1, <3>2, <3>3, QuietStep
    <2>2. (slices' = slices /\ toApp' = toApp) \/ slices' # slices
      BY SMTT(30), AppendProperties DEF newSlice, Shape
    <2> QED  BY Zenon, <2>1, <2>2
  <1> DEFINE n == Len(slices) + 1
             slice == [maxSize |-> cmd.size, metaMap |-> {}]
  <1>1. slice \in Slice  BY Zenon DEF newSlice, Slice, WellFormed
  <1>a. slice.metaMap = {}  OBVIOUS
  <1>2. slices \in Seq(Slice) /\ slices' = Append(slices, slice) /\ metaMap' = metaMap
    BY Zenon, <1>0 DEF newSlice, Shape
  <1>3. /\ slices' \in Seq(Slice) /\ DOMAIN slices' = DOMAIN slices \cup {n}
        /\ n \notin DOMAIN slices /\ n \in Nat \ {0} /\ slices'[n].metaMap = {}
        /\ \A i \in DOMAIN slices : slices'[i] = slices[i]
    <2> HIDE DEF slice
    <2>1. /\ slices' \in Seq(Slice) /\ Len(slices') = n /\ Len(slices) \in Nat
          /\ DOMAIN slices = 1..Len(slices) /\ DOMAIN slices' = 1..n
          /\ \A i \in 1..Len(slices) : slices'[i] = slices[i]
          /\ slices'[n] = slice
      BY <1>1, <1>2, AppendProperties
    <2>2. DOMAIN slices' = DOMAIN slices \cup {n} /\ n \notin DOMAIN slices /\ n \in Nat \ {0}
      BY <2>1
    <2>3. slices'[n].metaMap = {}  BY Zenon, <2>1, <1>a
    <2>4. \A i \in DOMAIN slices : slices'[i] = slices[i]  BY Zenon, <2>1
    <2> QED  BY Zenon, <2>1, <2>2, <2>3, <2>4
  <1>4. toApp' = toApp \/ toApp' = [toApp EXCEPT ![p] = Append(@, n)]
    BY Zenon DEF newSlice, NewContextId
  <1> HIDE DEF n, slice
  <1>5. Shape'
    <2>1. partial' = NULL  BY Zenon, PartialForgotten DEF newSlice
    <2>2. toApp' \in [Clients -> Seq(Answer)]
      <3>1. toApp[p] \in Seq(Answer)  BY Zenon DEF Shape
      <3>2. Append(toApp[p], n) \in Seq(Answer)  BY Zenon, <1>3, <3>1, AppendProperties DEF Answer
      <3> QED  BY Zenon, <1>4, <3>2 DEF Shape
    <2> QED  BY Zenon, <1>2, <1>3, <2>1, <2>2 DEF Shape
  <1>6. \A c \in CIDs : Holders(c)' = Holders(c)  BY Zenon, <1>3 DEF Holders
  <1>7. RefCountMatchesSlices'  BY Zenon, <1>2, <1>6 DEF RefCountMatchesSlices, Holders
  <1>8. SlicedIsStored'  BY ZenonT(60), <1>2, <1>3 DEF SlicedIsStored
  <1>9. SlicesAreNotShared'
    <2>1. \A q \in Clients : Granted(q)' \subseteq Granted(q) \cup (IF q = p THEN {n} ELSE {})
      <3>1. toApp[p] \in Seq(Answer)  BY DEF Shape
      <3>2. Range(Append(toApp[p], n)) \subseteq Range(toApp[p]) \cup {n}
        BY SMTT(30), <1>3, <3>1, AppendProperties DEF Range, Answer
      <3>3. \A q \in Clients : toApp'[q] = toApp[q] \/ (q = p /\ toApp'[q] = Append(toApp[p], n))
        BY Zenon, <1>4 DEF Shape
      <3> QED  BY Zenon, <3>2, <3>3 DEF Granted
    <2>2. \A q \in Clients : Granted(q) \subseteq DOMAIN slices /\ n \notin Granted(q)
      BY Zenon, <1>3 DEF SlicesAreNotShared
    <2>3. \A q \in Clients : Granted(q)' \subseteq DOMAIN slices'  BY Zenon, <1>3, <2>1, <2>2
    <2>4. \A q \in Clients : \A q2 \in Clients \ {q} : Granted(q)' \cap Granted(q2)' = {}
      <3>1. \A q \in Clients : \A q2 \in Clients \ {q} : Granted(q) \cap Granted(q2) = {}
        BY Zenon DEF SlicesAreNotShared
      <3> QED  BY <2>1, <2>2, <3>1
    <2> QED  BY Zenon, <2>3, <2>4 DEF SlicesAreNotShared
  <1> QED  BY Zenon, <1>5, <1>7, <1>8, <1>9

\* addMeta and the store manager keep a meta a meta, counted once more and stored.
LEMMA StoredMeta ==
    ASSUME NEW meta \in Meta
    PROVE  /\ Stored(meta) \in Meta /\ Stored(meta) # NULL
           /\ Stored(meta).refCount = meta.refCount + 1 /\ Stored(meta).store
  <1> DEFINE counted == [meta EXCEPT !.refCount = @ + 1]
  <1>a. counted \in Meta  BY DEF Meta
  <1>b. Stored(meta) = [counted EXCEPT !.store = TRUE]  BY Zenon DEF Stored, Meta
  <1>1. Stored(meta) \in Meta
    <2> HIDE DEF counted
    <2> QED  BY Zenon, <1>a, <1>b DEF Meta
  <1>2. Stored(meta).refCount = meta.refCount + 1  BY Zenon DEF Stored, Meta
  <1>3. Stored(meta).store = TRUE  BY Zenon DEF Stored, Meta
  <1>4. NULL \notin Meta  BY Zenon, CacheAssumption DEF Meta
  <1> QED  BY Zenon, <1>1, <1>2, <1>3, <1>4

\* The meta looked up is the one in the map, or a new one no slice counts.
LEMMA LookedUpMeta ==
    ASSUME Shape, NEW c \in CIDs, NEW meta \in LookupMeta(c)
    PROVE  /\ meta \in Meta
           /\ metaMap[c] # NULL => meta = metaMap[c]
           /\ metaMap[c] = NULL => meta.refCount = 0
  <1>1. CASE metaMap[c] # NULL
    <2>1. meta = metaMap[c]  BY Zenon, <1>1 DEF LookupMeta
    <2>2. metaMap[c] \in Meta  BY Zenon, <1>1 DEF Shape
    <2> QED  BY Zenon, <1>1, <2>1, <2>2
  <1>2. CASE metaMap[c] = NULL
    <2>1. PICK l \in Lengths : meta = [len |-> l, refCount |-> 0, store |-> FALSE]
      BY Zenon, <1>2 DEF LookupMeta
    <2>2. meta \in Meta /\ meta.refCount = 0  BY Zenon, <2>1 DEF Meta
    <2> QED  BY Zenon, <1>2, <2>2
  <1> QED  BY Zenon, <1>1, <1>2

\* A slice holds CIDs, before and after one is added to one of them.
LEMMA SliceWithMeta ==
    ASSUME slices \in Seq(Slice), NEW ctx \in DOMAIN slices, NEW c \in CIDs,
           slices' = [slices EXCEPT ![ctx].metaMap = @ \cup {c}]
    PROVE  /\ slices' \in Seq(Slice) /\ DOMAIN slices' = DOMAIN slices
           /\ slices'[ctx].metaMap = slices[ctx].metaMap \cup {c}
           /\ \A i \in DOMAIN slices \ {ctx} : slices'[i] = slices[i]
  <1> DEFINE slice == [slices[ctx] EXCEPT !.metaMap = @ \cup {c}]
  <1>1. slices[ctx] \in Slice  OBVIOUS
  <1>2. slice.metaMap = slices[ctx].metaMap \cup {c}  BY Zenon, <1>1 DEF Slice
  <1>3. slice \in Slice  BY Zenon, <1>1 DEF Slice
  <1>4. slices' = [slices EXCEPT ![ctx] = slice]  OBVIOUS
  <1> HIDE DEF slice
  <1>5. slices' \in Seq(Slice) /\ DOMAIN slices' = DOMAIN slices
    <2>1. ctx \in 1..Len(slices)  OBVIOUS
    <2>2. [slices EXCEPT ![ctx] = slice] \in Seq(Slice)
      BY Zenon, <1>3, <2>1, ExceptProperties
    <2> QED  BY Zenon, <1>4, <2>2
  <1>6. slices'[ctx] = slice /\ \A i \in DOMAIN slices \ {ctx} : slices'[i] = slices[i]
    BY Zenon, <1>4
  <1> QED  BY Zenon, <1>2, <1>5, <1>6

\* What a slice holds is a CID.
LEMMA SliceHolds ==
    ASSUME slices \in Seq(Slice), NEW i \in DOMAIN slices
    PROVE  slices[i].metaMap \subseteq CIDs
  <1>1. slices[i] \in Slice  OBVIOUS
  <1> QED  BY Zenon, <1>1 DEF Slice

\* store: the meta is made if need be; it counts the slice it is added to and gets its store.
LEMMA StoreStep ==
    ASSUME IndInv, NEW cmd, WellFormed(cmd), store(cmd),
           toDaemon' \in [Clients -> Seq(Message)], UNCHANGED contextId
    PROVE  IndInv'
  <1> USE DEF IndInv
  <1> DEFINE c == cmd.cid
             ctx == cmd.contextid
  <1>1. c \in CIDs  BY Zenon DEF store, WellFormed
  <1>2. PICK meta \in LookupMeta(c) :
          \/ metaMap' = [metaMap EXCEPT ![c] = meta] /\ UNCHANGED slices
          \/ /\ ctx \in DOMAIN slices /\ c \notin slices[ctx].metaMap
             /\ slices' = [slices EXCEPT ![ctx].metaMap = @ \cup {c}]
             /\ metaMap' = [metaMap EXCEPT ![c] = Stored(meta)]
    BY Zenon DEF store, lookupSlice
  <1> HIDE DEF c, ctx
  <1>3. /\ meta \in Meta
        /\ metaMap[c] # NULL => meta = metaMap[c]
        /\ metaMap[c] = NULL => meta.refCount = 0
    BY Zenon, <1>1, <1>2, LookedUpMeta
  <1>4. metaMap \in [CIDs -> Meta \cup {NULL}] /\ slices \in Seq(Slice)  BY Zenon DEF Shape
  <1>5. /\ partial' = NULL /\ toApp' = toApp
        /\ \A p \in Clients : Granted(p)' = Granted(p)
    BY Zenon, PartialForgotten DEF store, Granted
  <1>r. IsFiniteSet(Holders(c)) /\ meta.refCount = Cardinality(Holders(c))
    <2>1. DOMAIN slices = 1..Len(slices) /\ Len(slices) \in Nat  BY <1>4
    <2>2. IsFiniteSet(DOMAIN slices)  BY <2>1, FS_Interval
    <2>3. IsFiniteSet(Holders(c))  BY Zenon, <2>2, FS_Subset DEF Holders
    <2>4. metaMap[c] = NULL => Holders(c) = {}  BY Zenon, <1>1 DEF RefCountMatchesSlices, Holders
    <2>5. metaMap[c] # NULL => metaMap[c].refCount = Cardinality(Holders(c))
      BY Zenon, <1>1 DEF RefCountMatchesSlices, Holders
    <2> QED  BY Zenon, <1>3, <2>3, <2>4, <2>5, FS_EmptySet
  <1>6. CASE metaMap' = [metaMap EXCEPT ![c] = meta] /\ UNCHANGED slices
    <2>1. Shape'  BY Zenon, <1>1, <1>3, <1>5, <1>6 DEF Shape
    <2>2. \A d \in CIDs : Holders(d)' = Holders(d)  BY Zenon, <1>6 DEF Holders
    <2>3. metaMap'[c] = meta /\ \A d \in CIDs \ {c} : metaMap'[d] = metaMap[d]
      BY Zenon, <1>1, <1>4, <1>6
    <2>4. meta # NULL \/ Holders(c) = {}
      BY Zenon, <1>1, <1>3 DEF RefCountMatchesSlices, Holders
    <2>5. RefCountMatchesSlices'
      <3> SUFFICES ASSUME NEW d \in CIDs
                   PROVE  IF metaMap'[d] = NULL THEN Holders(d)' = {}
                          ELSE metaMap'[d].refCount = Cardinality(Holders(d)')
        BY Zenon DEF RefCountMatchesSlices, Holders
      <3>1. CASE d = c  BY ZenonT(60), <1>r, <2>2, <2>3, <2>4, <3>1
      <3>2. CASE d # c  BY ZenonT(30), <2>2, <2>3, <3>2 DEF RefCountMatchesSlices, Holders
      <3> QED  BY Zenon, <3>1, <3>2
    <2>6. SlicedIsStored'
      <3>1. \A i \in DOMAIN slices : \A d \in slices[i].metaMap : metaMap[d] # NULL /\ metaMap[d].store
        BY Zenon DEF SlicedIsStored
      <3>2. \A i \in DOMAIN slices : \A d \in slices[i].metaMap : d \in CIDs
        BY Zenon, <1>4, SliceHolds
      <3>3. \A i \in DOMAIN slices : \A d \in slices[i].metaMap : metaMap'[d] = metaMap[d]
        BY ZenonT(60), <1>3, <2>3, <3>1, <3>2
      <3> QED  BY SMTT(30), <1>6, <3>1, <3>3 DEF SlicedIsStored
    <2>7. SlicesAreNotShared'  BY <1>5, <1>6 DEF SlicesAreNotShared
    <2> QED  BY Zenon, <2>1, <2>5, <2>6, <2>7
  <1>7. CASE /\ ctx \in DOMAIN slices /\ c \notin slices[ctx].metaMap
             /\ slices' = [slices EXCEPT ![ctx].metaMap = @ \cup {c}]
             /\ metaMap' = [metaMap EXCEPT ![c] = Stored(meta)]
    <2>1. /\ slices' \in Seq(Slice) /\ DOMAIN slices' = DOMAIN slices
          /\ slices'[ctx].metaMap = slices[ctx].metaMap \cup {c}
          /\ \A i \in DOMAIN slices \ {ctx} : slices'[i] = slices[i]
      BY Zenon, <1>1, <1>4, <1>7, SliceWithMeta
    <2>2. /\ Stored(meta) \in Meta /\ Stored(meta).refCount = meta.refCount + 1
          /\ Stored(meta).store /\ Stored(meta) # NULL
      BY Zenon, <1>3, StoredMeta
    <2>3. metaMap'[c] = Stored(meta) /\ \A d \in CIDs \ {c} : metaMap'[d] = metaMap[d]
      BY Zenon, <1>1, <1>4, <1>7
    <2>4. Shape'  BY ZenonT(60), <1>1, <1>5, <1>7, <2>1, <2>2 DEF Shape
    <2>5. /\ Holders(c)' = Holders(c) \cup {ctx} /\ ctx \notin Holders(c)
          /\ \A d \in CIDs \ {c} : Holders(d)' = Holders(d)
      BY SMTT(30), <1>7, <2>1 DEF Holders
    <2>6. Cardinality(Holders(c)') = Stored(meta).refCount
      <3>1. Cardinality(Holders(c) \cup {ctx}) = Cardinality(Holders(c)) + 1
        BY Zenon, <1>r, <2>5, FS_AddElement
      <3> QED  BY Zenon, <1>r, <2>2, <2>5, <3>1
    <2>7. RefCountMatchesSlices'
      <3> SUFFICES ASSUME NEW d \in CIDs
                   PROVE  IF metaMap'[d] = NULL THEN Holders(d)' = {}
                          ELSE metaMap'[d].refCount = Cardinality(Holders(d)')
        BY DEF RefCountMatchesSlices, Holders
      <3>1. CASE d = c  BY Zenon, <2>2, <2>3, <2>6, <3>1
      <3>2. CASE d # c  BY ZenonT(60), <2>3, <2>5, <3>2 DEF RefCountMatchesSlices, Holders
      <3> QED  BY SMTT(30), <3>1, <3>2
    <2>8. SlicedIsStored'
      <3>1. \A i \in DOMAIN slices : \A d \in slices[i].metaMap :
              d \in CIDs /\ metaMap[d] # NULL /\ metaMap[d].store
        BY Zenon, <1>4, SliceHolds DEF SlicedIsStored
      <3>2. \A i \in DOMAIN slices : slices'[i].metaMap \subseteq slices[i].metaMap \cup {c}
        BY Zenon, <2>1
      <3> QED  BY SMTT(30), <2>1, <2>2, <2>3, <3>1, <3>2 DEF SlicedIsStored
    <2>9. SlicesAreNotShared'  BY Zenon, <1>5, <2>1 DEF SlicesAreNotShared
    <2> QED  BY <2>4, <2>7, <2>8, <2>9
  <1> QED  BY Zenon, <1>2, <1>6, <1>7

\* status only reads.
LEMMA StatusStep ==
    ASSUME IndInv, NEW cmd, status(cmd),
           toDaemon' \in [Clients -> Seq(Message)], UNCHANGED contextId
    PROVE  IndInv'
  <1>1. UNCHANGED <<content, toApp>> /\ partial' = NULL
    BY Zenon, PartialForgotten DEF status
  <1>2. Shape'  BY Zenon, <1>1 DEF IndInv, Shape, content
  <1>3. \A q \in Clients : Granted(q)' = Granted(q)  BY Zenon, <1>1 DEF Granted
  <1> QED  BY Zenon, <1>1, <1>2, <1>3, QuietStep

\* search leaves the content alone; an empty answer grants nothing.
LEMMA SearchStep ==
    ASSUME IndInv, NEW p \in Clients, NEW cmd, search(p, cmd),
           toDaemon' \in [Clients -> Seq(Message)], UNCHANGED contextId
    PROVE  IndInv' /\ \A q \in Clients : Granted(q)' \subseteq Granted(q)
  <1>1. UNCHANGED content /\ (toApp' = toApp \/ toApp' = [toApp EXCEPT ![p] = Append(@, NULL)])
    BY Zenon DEF search
  <1>2. partial' \in Message \cup {NULL}  BY Zenon, PartialForgotten DEF search, IndInv, Shape
  <1>3. toApp[p] \in Seq(Answer) /\ NULL \in Answer  BY Zenon DEF IndInv, Shape, Answer
  <1>4. /\ Append(toApp[p], NULL) \in Seq(Answer)
        /\ Range(Append(toApp[p], NULL)) \subseteq Range(toApp[p]) \cup {NULL}
    BY SMTT(30), <1>3, AppendProperties DEF Range
  <1>5. \A q \in Clients : toApp'[q] = toApp[q] \/ (q = p /\ toApp'[q] = Append(toApp[p], NULL))
    BY Zenon, <1>1 DEF IndInv, Shape
  <1>6. toApp' \in [Clients -> Seq(Answer)]  BY Zenon, <1>1, <1>4 DEF IndInv, Shape
  <1>7. Shape'  BY Zenon, <1>1, <1>2, <1>6 DEF IndInv, Shape, content
  <1>8. \A q \in Clients : Granted(q)' \subseteq Granted(q)  BY Zenon, <1>4, <1>5 DEF Granted
  <1> QED  BY Zenon, <1>1, <1>7, <1>8, QuietStep

\* Every step of the daemon and of the applications preserves the invariant.
LEMMA NextIndInv == IndInv /\ [Next]_vars => IndInv'
  <1> SUFFICES ASSUME IndInv, [Next]_vars PROVE IndInv'  OBVIOUS
  <1>1. CASE handleCmd
    <2> DEFINE Handles(p, m, cmd) == /\ Parses(p, m, cmd)
                                     /\ newSlice(p, cmd) \/ store(cmd) \/ search(p, cmd) \/ status(cmd)
                                     /\ UNCHANGED contextId
    <2>a. PICK p \in Clients : \E m \in Range(toDaemon[p]) : \E cmd \in {m} \cup Merged :
            Handles(p, m, cmd)
      BY Zenon, <1>1 DEF handleCmd, apps
    <2>b. PICK m \in Range(toDaemon[p]) : \E cmd \in {m} \cup Merged : Handles(p, m, cmd)
      BY Zenon, <2>a
    <2>1. PICK cmd : Handles(p, m, cmd)  BY Zenon, <2>b
    <2>2. WellFormed(cmd) /\ toDaemon' \in [Clients -> Seq(Message)]
      BY Zenon, <2>1, ParsedFields
    <2> QED  BY Zenon, <2>1, <2>2, NewSliceStep, StoreStep, SearchStep, StatusStep
  <1>2. CASE UNCHANGED vars
    <2>1. UNCHANGED <<content, partial, toDaemon, toApp, contextId>>
      BY Zenon, <1>2 DEF vars, daemon, apps
    <2>2. Shape'  BY Zenon, <2>1 DEF IndInv, Shape, content
    <2>3. \A q \in Clients : Granted(q)' = Granted(q)  BY Zenon, <2>1 DEF Granted
    <2> QED  BY Zenon, <2>1, <2>2, <2>3, QuietStep
  <1> QED  BY Zenon, <1>1, <1>2, LoopStep, AppStepKeeps DEF Next, DaemonStep

\* The whole invariant holds of every state xcached reaches.
LEMMA Invariance == Spec => []IndInv
  BY InitIndInv, NextIndInv, PTL DEF Spec

-------------------------------------------------------------------------------
(* The type invariant *)

\* Induction up to n, with the property given as a set: the predecessor function would be an
\* injection of the least counterexamples into fewer of them.
LEMMA BoundedInduction ==
    ASSUME NEW n \in Nat, NEW S, 0 \in S, \A i \in 0..(n - 1) : i \in S => i + 1 \in S
    PROVE  n \in S
  <1> DEFINE U == (0..n) \ S
             V == U \ {n}
             pred == [i \in U |-> i - 1]
  <1>1. SUFFICES ASSUME n \notin S PROVE FALSE  OBVIOUS
  <1>2. IsFiniteSet(U) /\ n \in U
    <2>1. IsFiniteSet(0..n)  BY FS_Interval
    <2> QED  BY <1>1, <2>1, FS_Subset
  <1>3. IsFiniteSet(V) /\ Cardinality(V) = Cardinality(U) - 1 /\ Cardinality(U) \in Nat
    BY Zenon, <1>2, FS_RemoveElement, FS_CardinalityType
  <1>4. \A i \in U : i - 1 \in V  OBVIOUS
  <1>5. pred \in [U -> V]  BY Zenon, <1>4
  <1>6. \A i \in U : i \in Nat /\ pred[i] = i - 1  OBVIOUS
  <1>7. PICK x, y \in U : x # y /\ pred[x] = pred[y]
    <2> HIDE DEF U, V, pred
    <2>1. Cardinality(V) < Cardinality(U)  BY <1>3
    <2> QED  BY Zenon, <1>2, <1>3, <1>5, <2>1, FS_PigeonHole
  <1> HIDE DEF U, V, pred
  <1>8. x \in Nat /\ y \in Nat /\ x - 1 = y - 1  BY Zenon, <1>6, <1>7
  <1> QED  BY <1>7, <1>8

\* The body of Among's recursion.
Body(s, S, f, n) ==
    IF n = 0 THEN << >> ELSE IF s[n] \in S THEN Append(f[n - 1], s[n]) ELSE f[n - 1]

\* The recursion of Among is well defined: there is a function for every length, so for that of s.
LEMMA AmongUnfolds ==
    ASSUME NEW N \in Nat, NEW s, NEW S
    PROVE  \E f : f = [n \in 0..N |-> Body(s, S, f, n)]
  <1> DEFINE Defined == {k \in 0..N : \E f : f = [n \in 0..k |-> Body(s, S, f, n)]}
  <1> USE DEF Body
  <1>1. 0 \in Defined
    <2> DEFINE f == [n \in 0..0 |-> << >>]
    <2>1. f = [n \in 0..0 |-> Body(s, S, f, n)]  OBVIOUS
    <2> HIDE DEF f
    <2> QED  BY <2>1
  <1>2. ASSUME NEW k \in 0..(N - 1), k \in Defined PROVE k + 1 \in Defined
    <2>1. PICK f : f = [n \in 0..k |-> Body(s, S, f, n)]  BY ZenonT(30), <1>2
    <2> DEFINE g == [n \in 0..(k + 1) |-> IF n = k + 1 THEN Body(s, S, f, k + 1) ELSE f[n]]
    <2>2. ASSUME NEW n \in 0..(k + 1) PROVE g[n] = Body(s, S, g, n)
      <3>1. CASE n = k + 1
        <4>1. g[n] = Body(s, S, f, k + 1) /\ g[n - 1] = f[k]  BY <3>1
        <4> HIDE DEF g
        <4> QED  BY <3>1, <4>1
      <3>2. CASE n \in 0..k
        <4>1. g[n] = f[n] /\ (n # 0 => g[n - 1] = f[n - 1])  BY <3>2
        <4>2. f[n] = Body(s, S, f, n)  BY Zenon, <2>1, <3>2
        <4> HIDE DEF g
        <4> QED  BY Zenon, <4>1, <4>2
      <3> QED  BY <3>1, <3>2
    <2>3. g = [n \in 0..(k + 1) |-> g[n]]  OBVIOUS
    <2> HIDE DEF g, Body
    <2>4. g = [n \in 0..(k + 1) |-> Body(s, S, g, n)]  BY Zenon, <2>2, <2>3
    <2> QED  BY <2>4
  <1> HIDE DEF Defined
  <1>3. N \in Defined  BY Zenon, <1>1, <1>2, BoundedInduction
  <1> QED  BY Zenon, <1>3 DEF Defined

\* What Among keeps of a sequence is a sequence of the same elements.
LEMMA AmongType ==
    ASSUME NEW C, NEW s \in Seq(C), NEW S
    PROVE  Among(s, S) \in Seq(C)
  <1> DEFINE N == Len(s)
             kept == CHOOSE f : f = [n \in 0..N |-> Body(s, S, f, n)]
             Typed == {n \in 0..N : kept[n] \in Seq(C)}
  <1>1. N \in Nat /\ \A n \in 1..N : s[n] \in C  OBVIOUS
  <1>2. \E f : f = [n \in 0..N |-> Body(s, S, f, n)]
    BY Zenon, <1>1, AmongUnfolds
  <1>3. kept = [n \in 0..N |-> Body(s, S, kept, n)]
    BY Zenon, <1>2
  <1>4. Among(s, S) = kept[N]  BY Zenon DEF Among, Body
  <1> HIDE DEF kept, N
  <1>5. 0 \in Typed  BY <1>1, <1>3 DEF Body
  <1>6. ASSUME NEW n \in 0..(N - 1), n \in Typed PROVE n + 1 \in Typed
    <2>0. n + 1 \in 0..N /\ n + 1 # 0 /\ (n + 1) - 1 = n  BY <1>1
    <2>1. kept[n + 1] = IF s[n + 1] \in S THEN Append(kept[n], s[n + 1]) ELSE kept[n]
      <3>1. kept[n + 1] = Body(s, S, kept, n + 1)  BY Zenon, <1>3, <2>0
      <3> QED  BY Zenon, <2>0, <3>1 DEF Body
    <2>2. s[n + 1] \in C /\ kept[n] \in Seq(C)  BY <1>1, <1>6
    <2>3. kept[n + 1] \in Seq(C)  BY <2>1, <2>2
    <2> QED  BY <1>1, <2>3
  <1>7. N \in Typed
    <2> HIDE DEF Typed
    <2> QED  BY Zenon, <1>1, <1>5, <1>6, BoundedInduction
  <1> QED  BY Zenon, <1>4, <1>7

\* The rest of TypeOK: the connections, the daemon's flags and the applications.
Connections ==
    /\ activeConnections \in Seq(Clients) /\ backlog \in Seq(Clients) /\ fds \in Seq(Clients)
    /\ stray \in BOOLEAN /\ xcached \in {"running", "searching", "dead"}
    /\ app \in [Clients -> {"out", "running", "gone"}]
    /\ calls \in [Clients -> Nat] /\ \A p \in Clients : calls[p] <= MaxCommands[p]
    /\ asked \in [Clients -> Message \cup {NULL}]

\* A command the library sends counts as one of the application's calls.
LEMMA SendTypes ==
    ASSUME Connections, NEW p \in Clients, NEW m, send_command(p, m)
    PROVE  /\ calls' \in [Clients -> Nat] /\ \A q \in Clients : calls'[q] <= MaxCommands[q]
           /\ UNCHANGED <<activeConnections, backlog, fds, stray, xcached, app>>
  <1>1. calls[p] \in Nat /\ calls[p] < MaxCommands[p] /\ MaxCommands[p] \in Nat
    BY Zenon, CacheAssumption DEF Connections, send_command
  <1>2. calls[p] + 1 \in Nat /\ calls[p] + 1 <= MaxCommands[p]  BY <1>1
  <1>3. calls' = [calls EXCEPT ![p] = calls[p] + 1]  BY Zenon DEF send_command
  <1> QED  BY Zenon, <1>2, <1>3 DEF Connections, send_command, daemon

\* The calls of the library keep the types.
LEMMA AppTypes ==
    ASSUME IndInv, Connections, NEW p \in Clients, AppStep(p)
    PROVE  Connections'
  <1>1. CASE XcacheInit(p)
    BY Zenon, <1>1, AppendProperties DEF XcacheInit, Connections
  <1>2. ASSUME NEW m, send_command(p, m),
               asked' = asked \/ (m \in Message /\ asked' = [asked EXCEPT ![p] = m])
        PROVE  Connections'
    <2>1. asked' \in [Clients -> Message \cup {NULL}]  BY Zenon, <1>2 DEF Connections
    <2> QED  BY <1>2, <2>1, SendTypes DEF Connections
  <1>3. CASE XcacheAllocateSlice(p)
    <2>1. PICK size \in Sizes, policy \in Policies :
            /\ send_command(p, NewSliceMsg(size, policy))
            /\ asked' = [asked EXCEPT ![p] = NewSliceMsg(size, policy)]
      BY Zenon, <1>3 DEF XcacheAllocateSlice
    <2>2. NewSliceMsg(size, policy) \in Message  BY DEF NewSliceMsg, HasZero, Message
    <2> QED  BY Zenon, <1>2, <2>1, <2>2
  <1>4. CASE XcachePutChunk(p)
    <2>1. PICK c \in CIDs, how \in {"text", "binary", "long"} :
            send_command(p, StoreMsg(contextId[p], c, how = "long", how = "binary"))
      BY Zenon, <1>4 DEF XcachePutChunk
    <2>2. asked' = asked  BY Zenon, <1>4 DEF XcachePutChunk
    <2> QED  BY Zenon, <1>2, <2>1, <2>2
  <1>5. CASE XcacheGetChunk(p) \/ Status(p)
    BY Zenon, <1>2, <1>5 DEF XcacheGetChunk, Status, Message
  <1>6. CASE get_response_blocking(p)
    BY Zenon, <1>6 DEF get_response_blocking, daemon, Connections
  <1>7. CASE Exit(p)
    BY Zenon, <1>7 DEF Exit, daemon, Connections
  <1> QED  BY Zenon, <1>1, <1>3, <1>4, <1>5, <1>6, <1>7 DEF AppStep

\* So does going on to the next connection, and dying.
LEMMA NextConnectionTypes ==
    ASSUME Connections, fds # << >>, NextConnection \/ Dies, UNCHANGED <<stray, apps>>
    PROVE  Connections'
  <1>1. fds \in Seq(Clients) /\ Tail(fds) \in Seq(Clients)
    BY Zenon, HeadTailProperties DEF Connections
  <1>2. CASE NextConnection  BY Zenon, <1>1, <1>2 DEF Connections, NextConnection, apps
  <1>3. CASE Dies
    <2>1. << >> \in Seq(Clients)  OBVIOUS
    <2> QED  BY Zenon, <1>3, <2>1 DEF Connections, Dies, apps
  <1> QED  BY Zenon, <1>2, <1>3

\* The select loop keeps the types: what it looks at are connections it has accepted.
LEMMA DaemonTypes ==
    ASSUME Connections, DaemonStep
    PROVE  Connections'
  <1>1. Accepted \in Seq(Clients) /\ (backlog # << >> => Tail(backlog) \in Seq(Clients))
    BY Zenon, HeadTailProperties, AppendProperties DEF Accepted, Connections
  <1>2. CASE Select
    <2>1. /\ fds' = Among(activeConnections, {p \in Clients : Readable(p)})
          /\ activeConnections' = Accepted
          /\ backlog' = IF backlog = << >> THEN << >> ELSE Tail(backlog)
          /\ UNCHANGED <<xcached, stray, apps>>
      BY Zenon, <1>2 DEF Select
    <2>2. fds' \in Seq(Clients)  BY Zenon, <2>1, AmongType DEF Connections
    <2>3. backlog' \in Seq(Clients)  BY <1>1, <2>1
    <2> QED  BY Zenon, <1>1, <2>1, <2>2, <2>3 DEF Connections, apps
  <1>3. CASE SelectFails
    BY Zenon, <1>1, <1>3 DEF SelectFails, Connections, apps
  <1>4. CASE ReadOn
    BY Zenon, <1>4 DEF ReadOn, Connections, apps
  <1>5. CASE ReadEof
    <2>1. /\ fds # << >> /\ fds' = Tail(fds)
          /\ \E S : activeConnections' = Among(activeConnections, S)
          /\ UNCHANGED <<backlog, xcached, stray, apps>>
      BY Zenon, <1>5 DEF ReadEof
    <2>2. activeConnections' \in Seq(Clients)  BY <2>1, AmongType DEF Connections
    <2>3. fds' \in Seq(Clients)  BY Zenon, <2>1, HeadTailProperties DEF Connections
    <2> QED  BY <2>1, <2>2, <2>3 DEF Connections, apps
  <1>6. CASE ParseFails
    BY Zenon, <1>6, NextConnectionTypes DEF ParseFails, Reads
  <1>7. CASE handleCmd
    <2>1. /\ fds # << >> /\ UNCHANGED <<stray, apps>>
          /\ \/ NextConnection \/ Dies
             \/ xcached' = "searching" /\ UNCHANGED <<activeConnections, backlog, fds>>
      BY <1>7 DEF handleCmd, Parses, Reads, newSlice, store, search, status
    <2>2. CASE NextConnection \/ Dies  BY ZenonT(60), <2>1, <2>2, NextConnectionTypes
    <2>3. CASE xcached' = "searching" /\ UNCHANGED <<activeConnections, backlog, fds>>
      BY Zenon, <2>1, <2>3 DEF Connections, apps
    <2> QED  BY Zenon, <2>1, <2>2, <2>3
  <1> QED  BY SMTT(30), <1>2, <1>3, <1>4, <1>5, <1>6, <1>7 DEF DaemonStep

\* Every variable of the daemon and of the applications keeps its type.
THEOREM TypeCorrect == Spec => []TypeOK
  <1>1. Init => Connections
    BY CacheAssumption DEF Init, Connections
  <1>2. IndInv /\ Connections /\ [Next]_vars => Connections'
    <2> SUFFICES ASSUME IndInv, Connections, [Next]_vars PROVE Connections'  OBVIOUS
    <2>1. CASE UNCHANGED vars  BY Zenon, <2>1 DEF vars, daemon, apps, Connections
    <2> QED  BY Zenon, <2>1, AppTypes, DaemonTypes DEF Next
  <1>3. IndInv /\ Connections => TypeOK
    BY Zenon DEF IndInv, Shape, Slice, Meta, Answer, Connections, TypeOK
  <1> QED  BY <1>1, <1>2, <1>3, Invariance, PTL DEF Spec

\* A meta's reference count is the number of slices that hold it, for any number of slices.
THEOREM RefCountsMatch == Spec => []RefCountMatchesSlices
  <1>1. IndInv => RefCountMatchesSlices  BY Zenon DEF IndInv
  <1> QED  BY <1>1, Invariance, PTL

\* What a slice holds has its content stored, so status never follows a NULL store.
THEOREM SlicedStored == Spec => []SlicedIsStored
  <1>1. IndInv => SlicedIsStored  BY Zenon DEF IndInv
  <1> QED  BY <1>1, Invariance, PTL

\* No two applications are given the same slice, nor one that does not exist.
THEOREM SlicesNotShared == Spec => []SlicesAreNotShared
  <1>1. IndInv => SlicesAreNotShared  BY Zenon DEF IndInv
  <1> QED  BY <1>1, Invariance, PTL
-------------------------------------------------------------------------------
(* Whose slices a command reaches *)

\* A STORE on p's connection names a slice that exists and that no other application holds.
Own(p, m) ==
    m.cmd = "STORE" => /\ m.contextid \in DOMAIN slices
                       /\ \A q \in Clients \ {p} : m.contextid \notin Granted(q)

\* So it is with all commands on the connections.
CommandsAreOwn == \A p \in Clients : \A m \in Range(toDaemon[p]) : Own(p, m)

\* Slices stay, and no application is given the id of an old slice.
OldIdsStay ==
    /\ DOMAIN slices \subseteq DOMAIN slices'
    /\ \A q \in Clients : Granted(q)' \cap DOMAIN slices \subseteq Granted(q)

\* A step of the library, or of the loop up to the parse, changes no slice.
LEMMA NoNewIds ==
    ASSUME IndInv, (DaemonStep /\ ~handleCmd) \/ \E p \in Clients : AppStep(p)
    PROVE  OldIdsStay /\ UNCHANGED slices
  <1>1. ASSUME UNCHANGED <<slices, toApp, contextId>> PROVE OldIdsStay /\ UNCHANGED slices
    BY Zenon, <1>1 DEF OldIdsStay, Granted
  <1>2. CASE DaemonStep /\ ~handleCmd
    <2>1. UNCHANGED <<slices, toApp, contextId>>
      BY Zenon, <1>2 DEF DaemonStep, Select, SelectFails, ReadOn, ReadEof, ParseFails, content, apps
    <2> QED  BY Zenon, <1>1, <2>1
  <1>3. ASSUME NEW p \in Clients, AppStep(p) PROVE OldIdsStay /\ UNCHANGED slices
    <2>1. CASE get_response_blocking(p)
      <3>1. UNCHANGED slices  BY Zenon, <2>1 DEF get_response_blocking, content
      <3>2. \A q \in Clients : Granted(q)' \subseteq Granted(q)  BY Zenon, <2>1, AnswerRead
      <3> QED  BY Zenon, <3>1, <3>2 DEF OldIdsStay
    <2>2. CASE Exit(p)
      <3>1. /\ UNCHANGED slices
            /\ contextId' = [contextId EXCEPT ![p] = NULL] /\ toApp' = [toApp EXCEPT ![p] = << >>]
        BY Zenon, <2>2 DEF Exit, content
      <3>2. \A q \in Clients : Granted(q)' \subseteq Granted(q)
        BY <3>1 DEF Granted, Range, IndInv, Shape
      <3> QED  BY Zenon, <3>1, <3>2 DEF OldIdsStay
    <2>3. CASE ~get_response_blocking(p) /\ ~Exit(p)
      <3>1. UNCHANGED <<slices, toApp, contextId>>
        BY Zenon, <1>3, <2>3 DEF AppStep, XcacheInit, XcacheAllocateSlice, XcachePutChunk,
           XcacheGetChunk, Status, send_command, content
      <3> QED  BY Zenon, <1>1, <3>1
    <2> QED  BY Zenon, <2>1, <2>2, <2>3
  <1> QED  BY Zenon, <1>2, <1>3

\* handleCmd: NEWSLICE leaves the old slices and grants a new id; STORE changes one slice.
LEMMA HandledIds ==
    ASSUME IndInv, NEW p \in Clients, NEW m \in Range(toDaemon[p]), NEW cmd, Parses(p, m, cmd),
           newSlice(p, cmd) \/ store(cmd) \/ search(p, cmd) \/ status(cmd), UNCHANGED apps
    PROVE  /\ OldIdsStay
           /\ \A i \in DOMAIN slices : slices'[i] # slices[i] => cmd.cmd = "STORE" /\ i = cmd.contextid
  <1>0. /\ contextId' = contextId /\ WellFormed(cmd) /\ slices \in Seq(Slice)
        /\ toDaemon' \in [Clients -> Seq(Message)]
    BY Zenon, ParsedFields DEF apps, IndInv, Shape
  <1>1. CASE status(cmd)
    <2>1. UNCHANGED <<slices, toApp>>  BY Zenon, <1>1 DEF status, content
    <2> QED  BY Zenon, <1>0, <2>1 DEF OldIdsStay, Granted
  <1>2. CASE store(cmd)
    <2>1. toApp' = toApp /\ cmd.cmd = "STORE"  BY Zenon, <1>2 DEF store
    <2>2. \A q \in Clients : Granted(q)' = Granted(q)  BY Zenon, <1>0, <2>1 DEF Granted
    <2>3. cmd.cid \in CIDs  BY Zenon, <1>0, <2>1 DEF WellFormed
    <2>4. \/ slices' = slices
          \/ /\ cmd.contextid \in DOMAIN slices
             /\ slices' = [slices EXCEPT ![cmd.contextid].metaMap = @ \cup {cmd.cid}]
      BY Zenon, <1>2 DEF store, lookupSlice
    <2>5. /\ DOMAIN slices' = DOMAIN slices
          /\ \A i \in DOMAIN slices : slices'[i] # slices[i] => i = cmd.contextid
      BY Zenon, <1>0, <2>3, <2>4, SliceWithMeta
    <2> QED  BY Zenon, <2>1, <2>2, <2>5 DEF OldIdsStay
  <1>3. CASE newSlice(p, cmd)
    <2>0. CASE UNCHANGED <<slices, toApp>>  BY Zenon, <1>0, <2>0 DEF OldIdsStay, Granted
    <2>a. SUFFICES ASSUME ~UNCHANGED <<slices, toApp>>
                   PROVE  OldIdsStay /\ \A i \in DOMAIN slices : slices'[i] = slices[i]
      BY Zenon, <2>0
    <2> DEFINE n == Len(slices) + 1
               slice == [maxSize |-> cmd.size, metaMap |-> {}]
    <2>1. slice \in Slice  BY Zenon, <1>0, <1>3 DEF newSlice, Slice, WellFormed
    <2>2. slices' = Append(slices, slice)  BY Zenon, <1>3, <2>a DEF newSlice
    <2>3. toApp' = toApp \/ toApp' = [toApp EXCEPT ![p] = Append(@, n)]
      BY Zenon, <1>3, <2>a DEF newSlice, NewContextId
    <2> HIDE DEF slice
    <2>4. /\ DOMAIN slices \subseteq DOMAIN slices' /\ n \notin DOMAIN slices /\ n \in Nat \ {0}
          /\ \A i \in DOMAIN slices : slices'[i] = slices[i]
      BY <1>0, <2>1, <2>2, AppendProperties
    <2> HIDE DEF n
    <2>5. toApp[p] \in Seq(Answer)  BY Zenon DEF IndInv, Shape
    <2>6. Range(Append(toApp[p], n)) \subseteq Range(toApp[p]) \cup {n}
      BY SMTT(30), <2>4, <2>5, AppendProperties DEF Range, Answer
    <2>7. \A q \in Clients : toApp'[q] = toApp[q] \/ (q = p /\ toApp'[q] = Append(toApp[p], n))
      BY Zenon, <2>3 DEF IndInv, Shape
    <2>8. \A q \in Clients : Granted(q)' \subseteq Granted(q) \cup {n}
      BY Zenon, <1>0, <2>6, <2>7 DEF Granted
    <2> QED  BY Zenon, <2>4, <2>8 DEF OldIdsStay
  <1>4. CASE search(p, cmd)
    <2>1. \A q \in Clients : Granted(q)' \subseteq Granted(q)  BY Zenon, <1>0, <1>4, SearchStep
    <2>2. slices' = slices  BY Zenon, <1>4 DEF search, content
    <2> QED  BY Zenon, <2>1, <2>2 DEF OldIdsStay
  <1> QED  BY Zenon, <1>1, <1>2, <1>3, <1>4

\* A command stays its sender's as long as old ids stay.
LEMMA OwnStays ==
    ASSUME OldIdsStay, NEW p, NEW m, Own(p, m)
    PROVE  Own(p, m)'
  BY Zenon DEF OldIdsStay, Own

\* The commands on the connections: those that stay, and one put on a connection by its owner.
LEMMA CommandsStay ==
    ASSUME CommandsAreOwn, OldIdsStay,
           \A p \in Clients : \A m \in Range(toDaemon'[p]) : m \in Range(toDaemon[p]) \/ Own(p, m)
    PROVE  CommandsAreOwn'
  <1>1. ASSUME NEW p \in Clients, NEW m \in Range(toDaemon'[p]) PROVE Own(p, m)'
    BY Zenon, <1>1, OwnStays DEF CommandsAreOwn
  <1> QED  BY Zenon, <1>1 DEF CommandsAreOwn

\* A read takes the first command off a connection.
LEMMA ReadTakes ==
    ASSUME IndInv, NEW p \in Clients, NEW m, Reads(p, m)
    PROVE  \A q \in Clients : Range(toDaemon'[q]) \subseteq Range(toDaemon[q])
  <1>1. /\ toDaemon[p] # << >> /\ toDaemon' = [toDaemon EXCEPT ![p] = Tail(toDaemon[p])]
        /\ toDaemon \in [Clients -> Seq(Message)]
    BY Zenon DEF Reads, IndInv, Shape
  <1>2. toDaemon[p] \in Seq(Message)  BY Zenon, <1>1
  <1>3. Range(Tail(toDaemon[p])) \subseteq Range(toDaemon[p])
    BY <1>1, <1>2, HeadTailProperties DEF Range
  <1>4. \A q \in Clients : toDaemon'[q] = toDaemon[q] \/ (q = p /\ toDaemon'[q] = Tail(toDaemon[p]))
    BY Zenon, <1>1
  <1> QED  BY Zenon, <1>3, <1>4

\* An application sends STORE for the slice it was given, which no other application has.
LEMMA SentIsOwn ==
    ASSUME IndInv, NEW p \in Clients, AppStep(p)
    PROVE  \A q \in Clients : \A m \in Range(toDaemon'[q]) : m \in Range(toDaemon[q]) \/ Own(q, m)
  <1>1. toDaemon \in [Clients -> Seq(Message)]  BY Zenon DEF IndInv, Shape
  <1>2. ASSUME NEW m \in Message, send_command(p, m), Own(p, m)
        PROVE  \A q \in Clients : \A k \in Range(toDaemon'[q]) : k \in Range(toDaemon[q]) \/ Own(q, k)
    <2>1. toDaemon' = [toDaemon EXCEPT ![p] = Append(toDaemon[p], m)]
      BY Zenon, <1>2 DEF send_command
    <2>2. Range(Append(toDaemon[p], m)) \subseteq Range(toDaemon[p]) \cup {m}
      <3>1. toDaemon[p] \in Seq(Message)  BY Zenon, <1>1
      <3> QED  BY SMTT(30), <3>1, AppendProperties DEF Range
    <2>3. \A q \in Clients : \/ toDaemon'[q] = toDaemon[q]
                             \/ q = p /\ toDaemon'[q] = Append(toDaemon[p], m)
      BY Zenon, <1>1, <2>1
    <2> QED  BY Zenon, <1>2, <2>1, <2>2, <2>3
  <1>3. CASE XcacheAllocateSlice(p)
    <2>1. PICK size \in Sizes, policy \in Policies : send_command(p, NewSliceMsg(size, policy))
      BY Zenon, <1>3 DEF XcacheAllocateSlice
    <2>2. NewSliceMsg(size, policy) \in Message  BY DEF NewSliceMsg, HasZero, Message
    <2>3. NewSliceMsg(size, policy).cmd = "NEWSLICE"  BY Zenon DEF NewSliceMsg
    <2>4. Own(p, NewSliceMsg(size, policy))  BY <2>3 DEF Own
    <2> QED  BY Zenon, <1>2, <2>1, <2>2, <2>4
  <1>4. CASE XcachePutChunk(p)
    <2>1. PICK c \in CIDs, how \in {"text", "binary", "long"} :
            send_command(p, StoreMsg(contextId[p], c, how = "long", how = "binary"))
      BY Zenon, <1>4 DEF XcachePutChunk
    <2>2. contextId[p] \in Nat \ {0} /\ contextId[p] # NULL
      BY Zenon, <1>4 DEF XcachePutChunk, IndInv, Shape, Answer
    <2>3. StoreMsg(contextId[p], c, how = "long", how = "binary") \in Message
      BY Zenon, <2>2 DEF StoreMsg, Message
    <2>4. contextId[p] \in Granted(p)  BY Zenon, <2>2 DEF Granted
    <2>5. /\ contextId[p] \in DOMAIN slices
          /\ \A q \in Clients \ {p} : contextId[p] \notin Granted(q)
      BY Zenon, <2>4 DEF IndInv, SlicesAreNotShared
    <2>6. StoreMsg(contextId[p], c, how = "long", how = "binary").contextid = contextId[p]
      BY Zenon DEF StoreMsg
    <2>7. Own(p, StoreMsg(contextId[p], c, how = "long", how = "binary"))
      BY Zenon, <2>5, <2>6 DEF Own
    <2> QED  BY Zenon, <1>2, <2>1, <2>3, <2>7
  <1>5. CASE XcacheGetChunk(p) \/ Status(p)
    <2>1. GetChunkMsg \in Message /\ StatusMsg \in Message  BY Zenon DEF Message
    <2>2. Own(p, GetChunkMsg) /\ Own(p, StatusMsg)  BY DEF Own, GetChunkMsg, StatusMsg
    <2> QED  BY Zenon, <1>2, <1>5, <2>1, <2>2 DEF XcacheGetChunk, Status
  <1>6. CASE XcacheInit(p) \/ get_response_blocking(p) \/ Exit(p)
    BY Zenon, <1>6 DEF XcacheInit, get_response_blocking, Exit, daemon
  <1> QED  BY Zenon, <1>3, <1>4, <1>5, <1>6 DEF AppStep

\* A command that came whole is its sender's.
LEMMA ParsedIsOwn ==
    ASSUME CommandsAreOwn, partial = NULL, NEW p \in Clients, NEW m \in Range(toDaemon[p]), NEW cmd,
           Parses(p, m, cmd)
    PROVE  fds # << >> /\ p = Head(fds) /\ Own(p, cmd)
  BY Zenon DEF CommandsAreOwn, Parses, Reads

\* Every step keeps the commands on their owners' connections.
LEMMA NextOwn == IndInv /\ CommandsAreOwn /\ [Next]_vars => CommandsAreOwn'
  <1> SUFFICES ASSUME IndInv, CommandsAreOwn, [Next]_vars PROVE CommandsAreOwn'  OBVIOUS
  <1>1. CASE UNCHANGED vars
    BY Zenon, <1>1 DEF vars, daemon, content, apps, CommandsAreOwn, Own, Granted
  <1>2. ASSUME NEW p \in Clients, AppStep(p) PROVE CommandsAreOwn'
    <2>1. OldIdsStay  BY Zenon, <1>2, NoNewIds
    <2> QED  BY Zenon, <1>2, <2>1, SentIsOwn, CommandsStay
  <1>3. CASE DaemonStep /\ ~handleCmd
    <2>1. OldIdsStay  BY Zenon, <1>3, NoNewIds
    <2>2. \A q \in Clients : Range(toDaemon'[q]) \subseteq Range(toDaemon[q])
      BY Zenon, <1>3, ReadTakes DEF DaemonStep, Select, SelectFails, ReadOn, ReadEof, ParseFails
    <2> QED  BY Zenon, <2>1, <2>2, CommandsStay
  <1>4. CASE handleCmd
    <2>1. PICK p \in Clients : \E m \in Range(toDaemon[p]) : \E cmd \in {m} \cup Merged :
            Parses(p, m, cmd) /\ (newSlice(p, cmd) \/ store(cmd) \/ search(p, cmd) \/ status(cmd)) /\ UNCHANGED apps
      BY Zenon, <1>4 DEF handleCmd
    <2>2. PICK m \in Range(toDaemon[p]) : \E cmd \in {m} \cup Merged :
            Parses(p, m, cmd) /\ (newSlice(p, cmd) \/ store(cmd) \/ search(p, cmd) \/ status(cmd)) /\ UNCHANGED apps
      BY Zenon, <2>1
    <2>3. PICK cmd : Parses(p, m, cmd) /\ (newSlice(p, cmd) \/ store(cmd) \/ search(p, cmd) \/ status(cmd)) /\ UNCHANGED apps
      BY Zenon, <2>2
    <2>4. OldIdsStay  BY Zenon, <2>3, HandledIds
    <2>5. \A q \in Clients : Range(toDaemon'[q]) \subseteq Range(toDaemon[q])
      BY Zenon, <2>3, ReadTakes DEF Parses
    <2> QED  BY Zenon, <2>4, <2>5, CommandsStay
  <1> QED  BY Zenon, <1>1, <1>2, <1>3, <1>4 DEF Next, DaemonStep

\* For any number of applications, commands and slices, and however long a STORE waits on its
\* connection, a command that came whole changes no slice of another application.
THEOREM SlicesStoredByOwner == Spec => StoredByOwner
  <1> DEFINE Step ==
        \A i \in DOMAIN slices : slices'[i] # slices[i] /\ partial = NULL =>
           fds # << >> /\ \A q \in Clients \ {Head(fds)} : i \notin Granted(q)
  <1>1. Init => CommandsAreOwn
    BY DEF Init, CommandsAreOwn, Range
  <1>2. IndInv /\ CommandsAreOwn /\ [Next]_vars => [Step]_vars
    <2> SUFFICES ASSUME IndInv, CommandsAreOwn, [Next]_vars,
                        NEW i \in DOMAIN slices, slices'[i] # slices[i], partial = NULL
                 PROVE  fds # << >> /\ \A q \in Clients \ {Head(fds)} : i \notin Granted(q)
      BY Zenon
    <2>1. handleCmd  BY Zenon, NoNewIds DEF Next, vars, content, DaemonStep
    <2>2. PICK p \in Clients : \E m \in Range(toDaemon[p]) : \E cmd \in {m} \cup Merged :
            Parses(p, m, cmd) /\ (newSlice(p, cmd) \/ store(cmd) \/ search(p, cmd) \/ status(cmd)) /\ UNCHANGED apps
      BY Zenon, <2>1 DEF handleCmd
    <2>3. PICK m \in Range(toDaemon[p]) : \E cmd \in {m} \cup Merged :
            Parses(p, m, cmd) /\ (newSlice(p, cmd) \/ store(cmd) \/ search(p, cmd) \/ status(cmd)) /\ UNCHANGED apps
      BY Zenon, <2>2
    <2>4. PICK cmd : Parses(p, m, cmd) /\ (newSlice(p, cmd) \/ store(cmd) \/ search(p, cmd) \/ status(cmd)) /\ UNCHANGED apps
      BY Zenon, <2>3
    <2>5. cmd.cmd = "STORE" /\ i = cmd.contextid  BY Zenon, <2>4, HandledIds
    <2>6. fds # << >> /\ p = Head(fds) /\ Own(p, cmd)  BY Zenon, <2>4, ParsedIsOwn
    <2> QED  BY Zenon, <2>5, <2>6 DEF Own
  <1>3. Spec => [][Step]_vars
    <2> HIDE DEF Step
    <2> QED  BY <1>1, <1>2, NextOwn, Invariance, PTL DEF Spec
  <1> QED  BY Zenon, <1>3 DEF StoredByOwner
===============================================================================
