----------------------------- MODULE HubProofs -----------------------------
(***************************************************************************)
(* Proofs about the hub for any number of connections, transactions and    *)
(* blocks and any limits.                                                  *)
(***************************************************************************)
EXTENDS Hub, FiniteSetTheorems, TLAPS

-----------------------------------------------------------------------------
(* Bags of push goroutines *)

\* Starting goroutines adds exactly these to the kinds that are in flight.
LEMMA SpawnDomain ==
    ASSUME NEW P, Spawn(P)
    PROVE  DOMAIN pushes' = DOMAIN pushes \cup P
BY DEF Spawn, (+), SetToBag

\* A goroutine that takes a step leaves the others alone.
LEMMA BecomesDomain ==
    ASSUME NEW p, NEW q, Becomes(p, q)
    PROVE  DOMAIN pushes' \subseteq DOMAIN pushes \cup {r \in {q} : r.to # {}}
BY DEF Becomes, (+), (-), SetToBag

\* What the loop starts are push goroutines.
LEMMA PushOfType ==
    ASSUME NEW kind \in {"stats", "mempool", "block", "tx"},
           NEW key \in Txid \cup Hash \cup {NoKey},
           NEW to \in SUBSET Conn
    PROVE  PushOf(kind, key, to) \in Push
BY DEF PushOf, Push, Message

LEMMA LoopPushesType ==
    ASSUME TypeOK
    PROVE  /\ PushAll \subseteq Push
           /\ PushMempool \subseteq Push
           /\ \A h \in Hash : PushBlock(h) \subseteq Push
<1>1. \A t \in DOMAIN watchers : watchers[t] \in SUBSET Conn /\ t \in Txid
  BY DEF TypeOK
<1>2. clients \in SUBSET Conn
  BY DEF TypeOK
<1>3. PushAll \subseteq Push
  BY <1>1, <1>2, PushOfType DEF PushAll
<1>4. PushMempool \subseteq Push
  BY <1>2, PushOfType DEF PushMempool
<1>5. \A h \in Hash : PushBlock(h) \subseteq Push
  BY <1>2, PushOfType DEF PushBlock
<1>6. QED
  BY <1>3, <1>4, <1>5

-----------------------------------------------------------------------------
(* Type correctness *)

LEMMA InitType == Init => TypeOK
<1> SUFFICES ASSUME Init PROVE TypeOK
  OBVIOUS
<1>1. DOMAIN watchers = {}
  <2>1. watchers = [t \in {} |-> {}]
    BY Zenon DEF Init
  <2>2. QED
    BY <2>1, Zenon
<1>2. DOMAIN pushes \subseteq Push
  BY DEF Init, EmptyBag, SetToBag
<1>3. unregister \in Seq(Conn) /\ Len(unregister) <= UnregCap
  BY HubAssumption DEF HubAssumption, Init
<1>4. blocks \in Seq(Hash) /\ Len(blocks) <= 1
  BY DEF Init
<1>5. /\ watched \in [Conn -> SUBSET Txid]
      /\ send \in [Conn -> 0 .. SendBuf]
      /\ done \in [Conn -> BOOLEAN]
      /\ open \in [Conn -> BOOLEAN]
  BY HubAssumption DEF HubAssumption, Init
<1>6. /\ reader \in [Conn -> {"none", "registering", "reading", "sending",
                              "leaving", "gone"}]
      /\ cmd \in [Conn -> Command \cup {NoCmd}]
      /\ \A c \in Conn : reader[c] = "sending" => cmd[c] \in Command
      /\ writer \in [Conn -> {"none", "running", "gone"}]
  BY DEF Init
<1>7. /\ clients \subseteq Conn
      /\ running \in BOOLEAN /\ mempoolDirty \in BOOLEAN /\ mempoolCh \in BOOLEAN
      /\ notifier \in Hash \cup {NoHash}
      /\ owed \subseteq Conn \X (Hash \cup {NoKey})
  BY DEF Init
<1>8. QED
  BY <1>1, <1>2, <1>3, <1>4, <1>5, <1>6, <1>7 DEF TypeOK

LEMMA PumpsType ==
    ASSUME TypeOK, NEW c \in Conn, Pumps(c)
    PROVE  TypeOK'
<1> USE HubAssumption
    DEF HubAssumption, loopVars, chanVars, connVars, pumpVars
<1>1. CASE Upgrade(c)
  BY <1>1 DEF Upgrade, TypeOK
<1>2. CASE ConnFails(c)
  BY <1>2 DEF ConnFails, TypeOK
<1>3. CASE ReadCommand(c)
  BY <1>3 DEF ReadCommand, TypeOK
<1>4. CASE ReadFails(c)
  BY <1>4 DEF ReadFails, TypeOK
<1>5. CASE Leave(c)
  BY <1>5 DEF Leave, TypeOK
<1>6. CASE Write(c)
  BY <1>6 DEF Write, TypeOK
<1>7. ASSUME NEW left \in 0 .. SendBuf, WriterEnds(c, left)
      PROVE  TypeOK'
  BY <1>7 DEF WriterEnds, TypeOK
<1>8. send[c] \in 0 .. SendBuf /\ (send[c] > 0 => send[c] - 1 \in 0 .. SendBuf)
  BY DEF TypeOK
<1>9. CASE WriterStops(c) \/ PingFails(c) \/ WriteFails(c)
  BY <1>7, <1>8, <1>9 DEF WriterStops, PingFails, WriteFails
<1>10. QED
  BY <1>1, <1>2, <1>3, <1>4, <1>5, <1>6, <1>9 DEF Pumps

\* removeWatcher keeps the map a map of sets of connections.
LEMMA RemoveWatcherType ==
    ASSUME TypeOK, NEW c, NEW T, RemoveWatcher(c, T)
    PROVE  /\ DOMAIN watchers' \subseteq Txid
           /\ \A t \in DOMAIN watchers' : watchers'[t] \subseteq Conn
BY DEF RemoveWatcher, TypeOK

LEMMA LoopForType ==
    ASSUME TypeOK, NEW c \in Conn, LoopFor(c)
    PROVE  TypeOK'
<1> USE HubAssumption
    DEF HubAssumption, loopVars, chanVars, connVars, pumpVars
<1>1. CASE RegisterAdmitted(c)
  <2> DEFINE P == {PushOf("stats", NoKey, {c}), PushOf("mempool", NoKey, {c})}
  <2>1. P \subseteq Push
    BY PushOfType
  <2>2. DOMAIN pushes' = DOMAIN pushes \cup P
    BY <1>1, SpawnDomain DEF RegisterAdmitted
  <2>3. DOMAIN pushes' \subseteq Push
    BY <2>1, <2>2 DEF TypeOK
  <2>4. QED
    BY <1>1, <2>3 DEF RegisterAdmitted, StartPumps, TypeOK
<1>2. CASE RegisterRejected(c)
  BY <1>2 DEF RegisterRejected, StartPumps, Shutdown, TypeOK
<1>3. CASE IgnoreCommand(c)
  BY <1>3 DEF IgnoreCommand, TakeCommand, TypeOK
<1>4. CASE Watch(c)
  <2> DEFINE t == cmd[c].txid
             P == {PushOf("tx", t, {c})}
  <2>1. t \in Txid
    BY <1>4 DEF Watch, TakeCommand, TypeOK, Command
  <2>2. P \subseteq Push
    BY <2>1, PushOfType
  <2>3. DOMAIN pushes' = DOMAIN pushes \cup P
    BY <1>4, SpawnDomain DEF Watch
  <2>4. DOMAIN pushes' \subseteq Push
    BY <2>2, <2>3 DEF TypeOK
  <2>5. QED
    BY <1>4, <2>1, <2>4 DEF Watch, TakeCommand, WithWatcher, TypeOK
<1>5. CASE Unwatch(c)
  BY <1>5, RemoveWatcherType DEF Unwatch, TakeCommand, TypeOK
<1>6. QED
  BY <1>1, <1>2, <1>3, <1>4, <1>5 DEF LoopFor

LEMMA LoopType ==
    ASSUME TypeOK, Loop
    PROVE  TypeOK'
<1> USE HubAssumption
    DEF HubAssumption, loopVars, chanVars, connVars, pumpVars
<1>1. CASE Unregister
  <2> DEFINE c == Head(unregister)
  <2>1. c \in Conn /\ unregister' \in Seq(Conn) /\ Len(unregister') <= UnregCap
    BY <1>1 DEF Unregister, TypeOK
  <2>2. CASE c \in clients
    <3>1. /\ DOMAIN watchers' \subseteq Txid
          /\ \A t \in DOMAIN watchers' : watchers'[t] \subseteq Conn
      BY <1>1, <2>2, RemoveWatcherType DEF Unregister, Drop
    <3>2. QED
      BY <1>1, <2>1, <2>2, <3>1 DEF Unregister, Drop, Shutdown, TypeOK
  <2>3. CASE c \notin clients
    BY <1>1, <2>1, <2>3 DEF Unregister, Drop, TypeOK
  <2>4. QED
    BY <2>2, <2>3
<1>2. CASE BlockEvent
  <2> DEFINE P == PushAll \cup PushMempool \cup PushBlock(Head(blocks))
  <2>1. Head(blocks) \in Hash
    BY <1>2 DEF BlockEvent, TypeOK
  <2>2. P \subseteq Push
    BY <2>1, LoopPushesType
  <2>3. DOMAIN pushes' = DOMAIN pushes \cup P
    BY <1>2, SpawnDomain DEF BlockEvent
  <2>4. DOMAIN pushes' \subseteq Push
    BY <2>2, <2>3 DEF TypeOK
  <2>5. owed' \subseteq Conn \X (Hash \cup {NoKey})
    BY <1>2 DEF BlockEvent, TypeOK
  <2>6. blocks' \in Seq(Hash) /\ Len(blocks') <= 1
    BY <1>2 DEF BlockEvent
  <2> HIDE DEF P
  <2>7. QED
    BY <1>2, <2>4, <2>5, <2>6 DEF BlockEvent, TypeOK
<1>3. CASE MempoolEvent
  BY <1>3 DEF MempoolEvent, TypeOK
<1>4. CASE MempoolTick
  <2>1. DOMAIN pushes' = DOMAIN pushes \cup PushMempool
    BY <1>4, SpawnDomain DEF MempoolTick
  <2>2. DOMAIN pushes' \subseteq Push
    BY <2>1, LoopPushesType DEF TypeOK
  <2>3. QED
    BY <1>4, <2>2 DEF MempoolTick, TypeOK
<1>5. CASE Tick
  <2>1. DOMAIN pushes' = DOMAIN pushes \cup PushAll
    BY <1>5, SpawnDomain DEF Tick
  <2>2. DOMAIN pushes' \subseteq Push
    BY <2>1, LoopPushesType DEF TypeOK
  <2>3. QED
    BY <1>5, <2>2 DEF Tick, TypeOK
<1>6. CASE Stop
  BY <1>6 DEF Stop, Shutdown, TypeOK
<1>7. QED
  BY <1>1, <1>2, <1>3, <1>4, <1>5, <1>6 DEF Loop

LEMMA PushStepType ==
    ASSUME TypeOK, NEW p \in BagToSet(pushes), PushStep(p)
    PROVE  TypeOK'
<1> USE HubAssumption
    DEF HubAssumption, loopVars, chanVars, connVars, pumpVars
<1>1. p \in Push
  BY DEF TypeOK, BagToSet
<1>2. ASSUME NEW q \in Push, Becomes(p, q)
      PROVE  DOMAIN pushes' \subseteq Push
  BY <1>2, BecomesDomain DEF TypeOK
<1>3. CASE FetchFails(p)
  <2>1. [p EXCEPT !.to = {}] \in Push
    BY <1>1 DEF Push
  <2>2. DOMAIN pushes' \subseteq Push
    BY <1>2, <1>3, <2>1 DEF FetchFails
  <2>3. QED
    BY <1>3, <2>2 DEF FetchFails, TypeOK
<1>4. ASSUME NEW c \in Conn, Offer(p, c)
      PROVE  DOMAIN pushes' \subseteq Push
  <2>1. [p EXCEPT !.to = @ \ {c}, !.fetched = TRUE] \in Push
    BY <1>1 DEF Push
  <2>2. QED
    BY <1>2, <1>4, <2>1 DEF Offer
<1>5. ASSUME NEW c \in Conn, Enqueue(p, c)
      PROVE  TypeOK'
  <2>1. send' \in [Conn -> 0 .. SendBuf]
    BY <1>5 DEF Enqueue, TypeOK
  <2>2. DOMAIN pushes' \subseteq Push
    BY <1>4, <1>5 DEF Enqueue
  <2>3. QED
    BY <1>5, <2>1, <2>2 DEF Enqueue, Offer, TypeOK
<1>6. ASSUME NEW c \in Conn, Swallow(p, c)
      PROVE  TypeOK'
  BY <1>4, <1>6 DEF Swallow, Offer, TypeOK
<1>7. ASSUME NEW c \in Conn, TooSlow(p, c)
      PROVE  TypeOK'
  <2>1. unregister' \in Seq(Conn) /\ Len(unregister') <= UnregCap
    BY <1>7 DEF TooSlow, TypeOK
  <2>2. QED
    BY <1>4, <1>7, <2>1 DEF TooSlow, Offer, TypeOK
<1>8. QED
  BY <1>3, <1>5, <1>6, <1>7 DEF PushStep

LEMMA NotifyType ==
    ASSUME TypeOK, Notify
    PROVE  TypeOK'
<1> USE HubAssumption
    DEF HubAssumption, loopVars, chanVars, connVars, pumpVars
<1>1. ASSUME NEW h \in Hash, NotifyBlockDrain(h)
      PROVE  TypeOK'
  BY <1>1 DEF NotifyBlockDrain, TypeOK
<1>2. CASE NotifyBlockSend
  BY <1>2 DEF NotifyBlockSend, TypeOK
<1>3. CASE NotifyMempool
  BY <1>3 DEF NotifyMempool, TypeOK
<1>4. QED
  BY <1>1, <1>2, <1>3 DEF Notify

LEMMA StutterType ==
    ASSUME TypeOK, UNCHANGED vars
    PROVE  TypeOK'
BY DEF TypeOK, vars, loopVars, chanVars, connVars, pumpVars

\* Every variable of the hub and the pumps keeps its type, and no channel or
\* send buffer exceeds its capacity.
THEOREM TypeCorrect == Spec => []TypeOK
<1>1. Init => TypeOK
  BY InitType
<1>2. TypeOK /\ [Next]_vars => TypeOK'
  BY PumpsType, LoopForType, LoopType, PushStepType, NotifyType, StutterType
  DEF Next
<1>3. QED
  BY <1>1, <1>2, PTL DEF Spec

-----------------------------------------------------------------------------
(***************************************************************************)
(* The registry.  WatchBooksAgree is not inductive by itself: a connection *)
(* that registers must enter with an empty watch set and be in nobody's    *)
(* book.  The second follows from the sets holding clients only, the first *)
(* is FreshUnwatched.                                                      *)
(***************************************************************************)
FreshUnwatched == \A c \in Conn : c \notin Answered => watched[c] = {}

RegistryInv ==
    /\ TypeOK
    /\ WatchBooksAgree
    /\ RegisteredUntilShutdown
    /\ FreshUnwatched

LEMMA TypeStep == TypeOK /\ [Next]_vars => TypeOK'
BY PumpsType, LoopForType, LoopType, PushStepType, NotifyType, StutterType
DEF Next

LEMMA RegistryInit == Init => RegistryInv
<1> SUFFICES ASSUME Init PROVE RegistryInv
  OBVIOUS
<1>1. DOMAIN watchers = {}
  <2>1. watchers = [t \in {} |-> {}]
    BY Zenon DEF Init
  <2>2. QED
    BY <2>1, Zenon
<1>2. clients = {} /\ Answered = {}
  BY DEF Init, Answered
<1>3. \A c \in Conn : ~done[c] /\ watched[c] = {}
  BY DEF Init
<1>4. QED
  BY <1>1, <1>2, <1>3, InitType
  DEF RegistryInv, WatchBooksAgree, RegisteredUntilShutdown, FreshUnwatched

\* Steps that leave the loop's books, the done channels and the set of
\* answered connections alone.
LEMMA RegistryUntouched ==
    ASSUME RegistryInv, TypeOK', Answered' = Answered,
           UNCHANGED <<running, clients, watchers, watched, done>>
    PROVE  RegistryInv'
BY DEF RegistryInv, WatchBooksAgree, RegisteredUntilShutdown, FreshUnwatched

LEMMA PumpsRegistry ==
    ASSUME RegistryInv, TypeOK', NEW c \in Conn, Pumps(c)
    PROVE  RegistryInv'
<1>1. UNCHANGED <<running, clients, watchers, watched, done>>
  BY DEF Pumps, Upgrade, ConnFails, ReadCommand, ReadFails, Leave, Write,
         WriterStops, PingFails, WriteFails, WriterEnds, loopVars, connVars
<1>2. Answered' = Answered
  BY DEF RegistryInv, TypeOK, Answered, Pumps, Upgrade, ConnFails,
         ReadCommand, ReadFails, Leave, Write, WriterStops, PingFails,
         WriteFails, WriterEnds, pumpVars
<1>3. QED
  BY <1>1, <1>2, RegistryUntouched

\* Removing c from the sets of the txids T: the map afterwards.
LEMMA RemoveWatcherBooks ==
    ASSUME NEW c, NEW T, RemoveWatcher(c, T),
           \A t \in DOMAIN watchers : watchers[t] # {}
    PROVE  /\ \A t : t \in DOMAIN watchers' =>
                   /\ t \in DOMAIN watchers
                   /\ watchers'[t] # {}
                   /\ watchers'[t] = IF t \in T THEN watchers[t] \ {c}
                                               ELSE watchers[t]
           /\ \A t \in DOMAIN watchers : \A d :
                   d \in watchers[t] /\ (t \in T => d # c)
                       => t \in DOMAIN watchers'
BY DEF RemoveWatcher

LEMMA LoopForRegistry ==
    ASSUME RegistryInv, TypeOK', NEW c \in Conn, LoopFor(c)
    PROVE  RegistryInv'
<1> USE DEF loopVars, chanVars, connVars, pumpVars
<1>a. TypeOK /\ WatchBooksAgree /\ RegisteredUntilShutdown /\ FreshUnwatched
  BY DEF RegistryInv
<1>1. CASE RegisterAdmitted(c)
  <2>1. Answered' = Answered \cup {c} /\ c \notin Answered
    BY <1>1, <1>a DEF RegisterAdmitted, StartPumps, Answered, TypeOK
  <2>2. c \notin clients /\ watched[c] = {} /\ ~done[c]
    BY <1>a, <2>1 DEF RegisteredUntilShutdown, FreshUnwatched
  <2>3. /\ clients' = clients \cup {c}
        /\ UNCHANGED <<running, watchers, watched, done>>
    BY <1>1 DEF RegisterAdmitted
  <2>4. WatchBooksAgree'
    BY <1>a, <2>2, <2>3 DEF WatchBooksAgree
  <2>5. RegisteredUntilShutdown'
    BY <1>a, <2>1, <2>2, <2>3 DEF RegisteredUntilShutdown
  <2>6. FreshUnwatched'
    BY <1>a, <2>1, <2>3 DEF FreshUnwatched
  <2>7. QED
    BY <2>4, <2>5, <2>6 DEF RegistryInv
<1>2. CASE RegisterRejected(c)
  <2>1. Answered' = Answered \cup {c} /\ c \notin Answered
    BY <1>2, <1>a DEF RegisterRejected, StartPumps, Answered, TypeOK
  <2>2. UNCHANGED <<running, clients, watchers, watched>>
    BY <1>2 DEF RegisterRejected
  <2>3. c \notin clients /\ \A d \in Conn : done'[d] = (done[d] \/ d = c)
    BY <1>2, <1>a, <2>1 DEF RegisterRejected, Shutdown, RegisteredUntilShutdown
  <2>4. WatchBooksAgree' /\ FreshUnwatched'
    BY <1>a, <2>1, <2>2 DEF WatchBooksAgree, FreshUnwatched
  <2>5. RegisteredUntilShutdown'
    BY <1>a, <2>1, <2>2, <2>3 DEF RegisteredUntilShutdown
  <2>6. QED
    BY <2>4, <2>5 DEF RegistryInv
<1>3. ASSUME TakeCommand(c)
      PROVE  /\ Answered' = Answered /\ c \in Answered
             /\ UNCHANGED <<running, clients, done>>
  BY <1>3, <1>a DEF TakeCommand, Answered, TypeOK
<1>4. CASE IgnoreCommand(c)
  BY <1>3, <1>4, RegistryUntouched DEF IgnoreCommand
<1>5. CASE Watch(c)
  <2> DEFINE t == cmd[c].txid
  <2>1. /\ Answered' = Answered /\ c \in Answered /\ c \in clients
        /\ UNCHANGED <<running, clients, done>>
    BY <1>3, <1>5 DEF Watch
  <2>2. /\ DOMAIN watchers' = DOMAIN watchers \cup {t}
        /\ \A u \in DOMAIN watchers' :
             watchers'[u] = (IF u \in DOMAIN watchers THEN watchers[u] ELSE {})
                              \cup (IF u = t THEN {c} ELSE {})
    BY <1>5 DEF Watch, WithWatcher
  <2>3. \A d \in Conn : watched'[d] = watched[d] \cup (IF d = c THEN {t} ELSE {})
    BY <1>5, <1>a DEF Watch, TypeOK
  <2>4. ASSUME NEW d \in clients', NEW u \in Txid
        PROVE  u \in watched'[d] <=> u \in DOMAIN watchers' /\ d \in watchers'[u]
    BY <1>a, <2>1, <2>2, <2>3 DEF WatchBooksAgree, TypeOK
  <2>5. ASSUME NEW u \in DOMAIN watchers'
        PROVE  watchers'[u] # {} /\ watchers'[u] \subseteq clients'
    BY <1>a, <2>1, <2>2 DEF WatchBooksAgree
  <2>6. WatchBooksAgree'
    BY <2>4, <2>5 DEF WatchBooksAgree
  <2>7. RegisteredUntilShutdown' /\ FreshUnwatched'
    BY <1>a, <2>1, <2>3 DEF RegisteredUntilShutdown, FreshUnwatched
  <2>8. QED
    BY <2>6, <2>7 DEF RegistryInv
<1>6. CASE Unwatch(c)
  <2> DEFINE t == cmd[c].txid
  <2>1. /\ Answered' = Answered /\ c \in Answered /\ c \in clients
        /\ UNCHANGED <<running, clients, done>>
    BY <1>3, <1>6 DEF Unwatch
  <2>2. \A d \in Conn : watched'[d] = watched[d] \ (IF d = c THEN {t} ELSE {})
    BY <1>6, <1>a DEF Unwatch, TypeOK
  <2>3. RemoveWatcher(c, {t})
    BY <1>6 DEF Unwatch
  <2>4. /\ \A u : u \in DOMAIN watchers' =>
               /\ u \in DOMAIN watchers
               /\ watchers'[u] # {}
               /\ watchers'[u] = IF u \in {t} THEN watchers[u] \ {c}
                                            ELSE watchers[u]
        /\ \A u \in DOMAIN watchers : \A d :
               d \in watchers[u] /\ (u \in {t} => d # c) => u \in DOMAIN watchers'
    <3>1. \A u \in DOMAIN watchers : watchers[u] # {}
      BY <1>a DEF WatchBooksAgree
    <3> HIDE DEF t
    <3>2. QED
      BY <2>3, <3>1, RemoveWatcherBooks
  <2>5. ASSUME NEW d \in clients', NEW u \in Txid
        PROVE  u \in watched'[d] <=> u \in DOMAIN watchers' /\ d \in watchers'[u]
    <3>1. d \in clients /\ d \in Conn
      BY <1>a, <2>1 DEF TypeOK
    <3>2. u \in watched[d] <=> u \in DOMAIN watchers /\ d \in watchers[u]
      BY <1>a, <3>1 DEF WatchBooksAgree
    <3>3. u \in watched'[d] <=> u \in watched[d] /\ (d = c => u # t)
      BY <2>2, <3>1
    <3>4. u \in DOMAIN watchers' /\ d \in watchers'[u]
            <=> u \in DOMAIN watchers /\ d \in watchers[u] /\ (u = t => d # c)
      <4> HIDE DEF t
      <4>1. QED
        BY <2>4
    <3>5. QED
      BY <3>2, <3>3, <3>4
  <2>6. ASSUME NEW u \in DOMAIN watchers'
        PROVE  watchers'[u] # {} /\ watchers'[u] \subseteq clients'
    BY <1>a, <2>1, <2>4 DEF WatchBooksAgree
  <2>7. WatchBooksAgree'
    BY <2>5, <2>6 DEF WatchBooksAgree
  <2>8. RegisteredUntilShutdown' /\ FreshUnwatched'
    BY <1>a, <2>1, <2>2 DEF RegisteredUntilShutdown, FreshUnwatched
  <2>9. QED
    BY <2>7, <2>8 DEF RegistryInv
<1>7. QED
  BY <1>1, <1>2, <1>4, <1>5, <1>6 DEF LoopFor

LEMMA UnregisterRegistry ==
    ASSUME RegistryInv, TypeOK', Unregister
    PROVE  RegistryInv'
<1> USE DEF pumpVars
<1> DEFINE c == Head(unregister)
<1>a. TypeOK /\ WatchBooksAgree /\ RegisteredUntilShutdown /\ FreshUnwatched
  BY DEF RegistryInv
<1>1. Answered' = Answered /\ UNCHANGED <<running, watched>> /\ running
  BY DEF Unregister, Answered
<1>2. CASE c \notin clients
  <2>1. UNCHANGED <<clients, watchers, done>>
    BY <1>2 DEF Unregister, Drop
  <2>2. QED
    BY <1>1, <2>1, RegistryUntouched
<1>3. CASE c \in clients
  <2>1. /\ clients' = clients \ {c}
        /\ RemoveWatcher(c, watched[c])
        /\ \A d \in Conn : done'[d] = (done[d] \/ d = c)
    BY <1>3 DEF Unregister, Drop, Shutdown
  <2>2. \A u \in DOMAIN watchers : watchers[u] # {}
    BY <1>a DEF WatchBooksAgree
  <2> HIDE DEF c
  <2>3. /\ \A u : u \in DOMAIN watchers' =>
               /\ u \in DOMAIN watchers
               /\ watchers'[u] # {}
               /\ watchers'[u] = IF u \in watched[c] THEN watchers[u] \ {c}
                                                   ELSE watchers[u]
        /\ \A u \in DOMAIN watchers : \A d :
               d \in watchers[u] /\ (u \in watched[c] => d # c)
                 => u \in DOMAIN watchers'
    BY <2>1, <2>2, RemoveWatcherBooks
  <2>4. ASSUME NEW d \in clients', NEW u \in Txid
        PROVE  u \in watched'[d] <=> u \in DOMAIN watchers' /\ d \in watchers'[u]
    <3>1. d \in clients /\ d # c
      BY <2>1
    <3>2. u \in watched[d] <=> u \in DOMAIN watchers /\ d \in watchers[u]
      BY <1>a, <3>1 DEF WatchBooksAgree
    <3>3. u \in DOMAIN watchers' /\ d \in watchers'[u]
            <=> u \in DOMAIN watchers /\ d \in watchers[u]
      BY <2>3, <3>1
    <3>4. QED
      BY <1>1, <3>2, <3>3
  <2>5. ASSUME NEW u \in DOMAIN watchers'
        PROVE  watchers'[u] # {} /\ watchers'[u] \subseteq clients'
    <3>1. u \in DOMAIN watchers /\ watchers'[u] # {} /\ u \in Txid
      BY <1>a, <2>3 DEF TypeOK
    <3>2. watchers[u] \subseteq clients
      BY <1>a, <3>1 DEF WatchBooksAgree
    <3>3. c \notin watchers'[u]
      BY <1>3, <1>a, <2>3, <3>1 DEF WatchBooksAgree
    <3>4. QED
      BY <2>1, <2>3, <3>1, <3>2, <3>3
  <2>6. WatchBooksAgree'
    BY <2>4, <2>5 DEF WatchBooksAgree
  <2>7. c \in Conn
    BY <1>3, <1>a DEF TypeOK
  <2>8. RegisteredUntilShutdown'
    BY <1>3, <1>a, <1>1, <2>1, <2>7 DEF RegisteredUntilShutdown
  <2>9. FreshUnwatched'
    BY <1>a, <1>1 DEF FreshUnwatched
  <2>10. QED
    BY <2>6, <2>8, <2>9 DEF RegistryInv
<1>4. QED
  BY <1>2, <1>3

LEMMA LoopRegistry ==
    ASSUME RegistryInv, TypeOK', Loop
    PROVE  RegistryInv'
<1> USE DEF loopVars, chanVars, connVars, pumpVars
<1>1. CASE BlockEvent \/ MempoolEvent \/ MempoolTick \/ Tick
  <2>1. /\ UNCHANGED <<running, clients, watchers, watched, done>>
        /\ Answered' = Answered
    BY <1>1 DEF BlockEvent, MempoolEvent, MempoolTick, Tick, Answered
  <2>2. QED
    BY <2>1, RegistryUntouched
<1>2. CASE Stop
  <2>1. /\ Answered' = Answered
        /\ ~running'
        /\ UNCHANGED <<clients, watchers, watched>>
        /\ \A d \in Conn : done'[d] = (done[d] \/ d \in clients)
    BY <1>2 DEF Stop, Shutdown, Answered
  <2>2. QED
    BY <2>1 DEF RegistryInv, WatchBooksAgree, RegisteredUntilShutdown,
                FreshUnwatched
<1>3. QED
  BY <1>1, <1>2, UnregisterRegistry DEF Loop

LEMMA OthersRegistry ==
    ASSUME RegistryInv, TypeOK',
           \/ \E p \in BagToSet(pushes) : PushStep(p)
           \/ Notify
           \/ UNCHANGED vars
    PROVE  RegistryInv'
<1>1. /\ UNCHANGED <<running, clients, watchers, watched, done>>
      /\ Answered' = Answered
  BY DEF PushStep, FetchFails, Offer, Enqueue, Swallow, TooSlow, Notify,
         NotifyBlockDrain, NotifyBlockSend, NotifyMempool, vars, loopVars,
         chanVars, connVars, pumpVars, Answered
<1>2. QED
  BY <1>1, RegistryUntouched

LEMMA RegistryInvariant == Spec => []RegistryInv
<1>1. Init => RegistryInv
  BY RegistryInit
<1>2. RegistryInv /\ [Next]_vars => RegistryInv'
  <2> SUFFICES ASSUME RegistryInv, [Next]_vars PROVE RegistryInv'
    OBVIOUS
  <2>1. TypeOK'
    BY TypeStep DEF RegistryInv
  <2>2. QED
    BY <2>1, PumpsRegistry, LoopForRegistry, LoopRegistry, OthersRegistry
    DEF Next
<1>3. QED
  BY <1>1, <1>2, PTL DEF Spec

\* The loop's two books of watch registrations agree in every reachable state,
\* hold registered clients only, and keep no empty set.
THEOREM WatchBooksCorrect == Spec => []WatchBooksAgree
<1>1. RegistryInv => WatchBooksAgree
  BY DEF RegistryInv
<1>2. QED
  BY <1>1, RegistryInvariant, PTL

\* While the loop runs, a connection whose pumps were started is registered
\* exactly until it is shut down.
THEOREM RegistrationCorrect == Spec => []RegisteredUntilShutdown
<1>1. RegistryInv => RegisteredUntilShutdown
  BY DEF RegistryInv
<1>2. QED
  BY <1>1, RegistryInvariant, PTL

-----------------------------------------------------------------------------
(***************************************************************************)
(* The feed.  NoLostWakeup needs NotifierNeverBlocks: only because the     *)
(* channel is empty when NotifyBlock sends can no older block be in front. *)
(***************************************************************************)
FeedInv == TypeOK /\ NotifierNeverBlocks /\ NoLostWakeup

LEMMA FeedInit == Init => FeedInv
BY InitType DEF Init, FeedInv, NotifierNeverBlocks, NoLostWakeup

LEMMA FeedStep ==
    ASSUME FeedInv, TypeOK', [Next]_vars
    PROVE  FeedInv'
<1> USE DEF loopVars, chanVars, connVars, pumpVars
<1>a. TypeOK /\ NotifierNeverBlocks /\ NoLostWakeup
  BY DEF FeedInv
\* Steps that touch neither the channels from the node nor what is owed, or
\* only owe less.
<1>b. ASSUME UNCHANGED <<blocks, mempoolCh, mempoolDirty, notifier>>,
             owed' \subseteq owed
      PROVE  FeedInv'
  BY <1>a, <1>b DEF FeedInv, NotifierNeverBlocks, NoLostWakeup
<1>1. ASSUME NEW c \in Conn, Pumps(c) \/ LoopFor(c)
      PROVE  FeedInv'
  <2>1. UNCHANGED <<blocks, mempoolCh, mempoolDirty, notifier, owed>>
    BY <1>1 DEF Pumps, Upgrade, ConnFails, ReadCommand, ReadFails, Leave,
         Write, WriterStops, PingFails, WriteFails, WriterEnds, LoopFor,
         RegisterAdmitted, RegisterRejected, IgnoreCommand, Watch, Unwatch,
         TakeCommand
  <2>2. QED
    BY <1>b, <2>1
<1>2. CASE Unregister
  <2>1. /\ UNCHANGED <<blocks, mempoolCh, mempoolDirty, notifier>>
        /\ owed' \subseteq owed
    BY <1>2 DEF Unregister, Drop
  <2>2. QED
    BY <1>b, <2>1
<1>3. CASE BlockEvent
  <2>1. /\ blocks' = <<>>
        /\ owed' = owed \ (Conn \X {NoKey, Head(blocks)})
        /\ UNCHANGED <<mempoolCh, notifier>>
    BY <1>3 DEF BlockEvent
  <2>2. ASSUME NEW o \in owed'
        PROVE  o[2] # NoKey /\ notifier = o[2]
    <3>1. o \in owed /\ o[1] \in Conn /\ o = <<o[1], o[2]>>
      BY <1>a, <2>1 DEF TypeOK
    <3>2. o[2] # NoKey /\ o[2] # Head(blocks)
      BY <2>1, <3>1
    <3>3. blocks # <<o[2]>>
      BY <3>2
    <3>4. QED
      BY <1>a, <3>1, <3>2, <3>3 DEF NoLostWakeup
  <2>3. QED
    BY <1>a, <2>1, <2>2 DEF FeedInv, NotifierNeverBlocks, NoLostWakeup
<1>4. CASE MempoolEvent
  BY <1>4, <1>a DEF MempoolEvent, FeedInv, NotifierNeverBlocks, NoLostWakeup
<1>5. CASE MempoolTick
  <2>1. /\ owed' = owed \ (Conn \X {NoKey})
        /\ UNCHANGED <<blocks, notifier>>
    BY <1>5 DEF MempoolTick
  <2>2. ASSUME NEW o \in owed'
        PROVE  o \in owed /\ o[2] # NoKey
    BY <1>a, <2>1 DEF TypeOK
  <2>3. QED
    BY <1>a, <2>1, <2>2 DEF FeedInv, NotifierNeverBlocks, NoLostWakeup
<1>6. CASE Tick \/ Stop
  <2>1. UNCHANGED <<blocks, mempoolCh, mempoolDirty, notifier, owed>>
    BY <1>6 DEF Tick, Stop
  <2>2. QED
    BY <1>b, <2>1
<1>7. ASSUME NEW p \in BagToSet(pushes), PushStep(p)
      PROVE  FeedInv'
  <2>1. UNCHANGED <<blocks, mempoolCh, mempoolDirty, notifier, owed>>
    BY <1>7 DEF PushStep, FetchFails, Offer, Enqueue, Swallow, TooSlow
  <2>2. QED
    BY <1>b, <2>1
<1>8. ASSUME NEW h \in Hash, NotifyBlockDrain(h)
      PROVE  FeedInv'
  <2>1. /\ notifier' = h /\ blocks' = <<>>
        /\ owed' = {o \in owed : o[2] = NoKey} \cup (clients \X {h})
        /\ UNCHANGED <<mempoolCh, mempoolDirty>>
    BY <1>8 DEF NotifyBlockDrain
  <2>2. ASSUME NEW o \in owed'
        PROVE  o[2] = h \/ (o \in owed /\ o[2] = NoKey)
    BY <2>1
  <2>3. h # NoKey
    BY HubAssumption DEF HubAssumption
  <2>4. QED
    BY <1>a, <2>1, <2>2, <2>3 DEF FeedInv, NotifierNeverBlocks, NoLostWakeup
<1>9. CASE NotifyBlockSend
  <2>1. blocks = <<>> /\ notifier # NoHash
    BY <1>9, <1>a DEF NotifyBlockSend, NotifierNeverBlocks
  <2>2. /\ blocks' = <<notifier>> /\ notifier' = NoHash
        /\ UNCHANGED <<owed, mempoolCh, mempoolDirty>>
    BY <1>9, <2>1 DEF NotifyBlockSend
  <2>3. \A o \in owed : o[2] # NoKey => o[2] = notifier
    BY <1>a, <2>1 DEF NoLostWakeup
  <2>4. QED
    BY <1>a, <2>2, <2>3 DEF FeedInv, NotifierNeverBlocks, NoLostWakeup
<1>10. CASE NotifyMempool
  <2>1. /\ mempoolCh' = TRUE /\ owed' = owed \cup (clients \X {NoKey})
        /\ UNCHANGED <<blocks, notifier, mempoolDirty>>
    BY <1>10 DEF NotifyMempool
  <2>2. QED
    BY <1>a, <2>1 DEF FeedInv, NotifierNeverBlocks, NoLostWakeup
<1>11. CASE UNCHANGED vars
  BY <1>11, <1>b DEF vars
<1>12. QED
  BY <1>1, <1>2, <1>3, <1>4, <1>5, <1>6, <1>7, <1>8, <1>9, <1>10, <1>11
  DEF Next, Loop, Notify

LEMMA FeedInvariant == Spec => []FeedInv
<1>1. FeedInv /\ [Next]_vars => FeedInv'
  BY TypeStep, FeedStep DEF FeedInv
<1>2. QED
  BY <1>1, FeedInit, PTL DEF Spec

\* No news of a block or of the mempool is lost between the node and a push
\* to every client registered at the time.
THEOREM WakeupsCorrect == Spec => []NoLostWakeup
<1>1. FeedInv => NoLostWakeup
  BY DEF FeedInv
<1>2. QED
  BY <1>1, FeedInvariant, PTL

\* The notification goroutine never blocks on the hub.
THEOREM NotifierCorrect == Spec => []NotifierNeverBlocks
<1>1. FeedInv => NotifierNeverBlocks
  BY DEF FeedInv
<1>2. QED
  BY <1>1, FeedInvariant, PTL

-----------------------------------------------------------------------------
(* The limits.  Counting needs the counted sets to be finite. *)

LimitsInv ==
    /\ TypeOK
    /\ WithinLimits
    /\ IsFiniteSet(clients)
    /\ \A c \in Conn : IsFiniteSet(watched[c])

LEMMA LimitsInit == Init => LimitsInv
<1> SUFFICES ASSUME Init PROVE LimitsInv
  OBVIOUS
<1>1. clients = {} /\ \A c \in Conn : watched[c] = {}
  BY DEF Init
<1>2. QED
  BY <1>1, InitType, FS_EmptySet, HubAssumption
  DEF HubAssumption, LimitsInv, WithinLimits

\* Steps that register nobody and nothing.
LEMMA LimitsShrink ==
    ASSUME LimitsInv, TypeOK', clients' \subseteq clients,
           \A c \in Conn : watched'[c] \subseteq watched[c]
    PROVE  LimitsInv'
<1> USE HubAssumption DEF HubAssumption
<1>1. /\ IsFiniteSet(clients') /\ Cardinality(clients') <= Cardinality(clients)
      /\ Cardinality(clients') \in Nat /\ Cardinality(clients) \in Nat
  BY FS_Subset, FS_CardinalityType DEF LimitsInv
<1>2. ASSUME NEW c \in Conn
      PROVE  IsFiniteSet(watched'[c]) /\ Cardinality(watched'[c]) <= MaxWatched
  <2>1. IsFiniteSet(watched[c]) /\ Cardinality(watched[c]) <= MaxWatched
    BY DEF LimitsInv, WithinLimits
  <2>2. /\ IsFiniteSet(watched'[c])
        /\ Cardinality(watched'[c]) <= Cardinality(watched[c])
        /\ Cardinality(watched'[c]) \in Nat /\ Cardinality(watched[c]) \in Nat
    BY <2>1, FS_Subset, FS_CardinalityType
  <2>3. QED
    BY <2>1, <2>2
<1>3. QED
  BY <1>1, <1>2 DEF LimitsInv, WithinLimits

LEMMA LimitsStep ==
    ASSUME LimitsInv, TypeOK', [Next]_vars
    PROVE  LimitsInv'
<1> USE HubAssumption
    DEF HubAssumption, loopVars, chanVars, connVars, pumpVars
<1>a. TypeOK /\ WithinLimits
  BY DEF LimitsInv
<1>1. ASSUME NEW c \in Conn, RegisterAdmitted(c)
      PROVE  LimitsInv'
  <2>1. /\ clients' = clients \cup {c}
        /\ watched' = watched
        /\ ~FullHouse
    BY <1>1 DEF RegisterAdmitted
  <2>2. /\ IsFiniteSet(clients \cup {c})
        /\ Cardinality(clients \cup {c}) <= Cardinality(clients) + 1
        /\ Cardinality(clients) \in Nat
    <3>1. IsFiniteSet(clients) /\ Cardinality(clients) \in Nat
      BY FS_CardinalityType DEF LimitsInv
    <3>2. /\ IsFiniteSet(clients \cup {c})
          /\ Cardinality(clients \cup {c}) =
                IF c \in clients THEN Cardinality(clients) ELSE Cardinality(clients) + 1
      BY <3>1, FS_AddElement, Zenon
    <3>3. QED
      BY <3>1, <3>2
  <2>3. MaxClients > 0 => Cardinality(clients \cup {c}) <= MaxClients
    <3>1. CASE MaxClients > 0
      <4>1. Cardinality(clients) < MaxClients
        BY <2>1, <2>2, <3>1 DEF FullHouse
      <4>2. Cardinality(clients \cup {c}) \in Nat
        BY <2>2, FS_CardinalityType
      <4>3. QED
        BY <2>2, <4>1, <4>2
    <3>2. QED
      BY <3>1
  <2>4. QED
    BY <2>1, <2>2, <2>3 DEF LimitsInv, WithinLimits
<1>2. ASSUME NEW c \in Conn, Watch(c)
      PROVE  LimitsInv'
  <2> DEFINE t == cmd[c].txid
  <2>1. /\ clients' = clients
        /\ watched' = [watched EXCEPT ![c] = @ \cup {t}]
        /\ ~OverCap(c, t)
    BY <1>2 DEF Watch, TakeCommand
  <2> HIDE DEF t
  <2>2. /\ IsFiniteSet(watched[c]) /\ Cardinality(watched[c]) <= MaxWatched
        /\ Cardinality(watched[c]) \in Nat
    BY FS_CardinalityType DEF LimitsInv, WithinLimits
  <2>3. /\ IsFiniteSet(watched[c] \cup {t})
        /\ Cardinality(watched[c] \cup {t}) <= MaxWatched
    <3>1. CASE t \in watched[c]
      <4>1. watched[c] \cup {t} = watched[c]
        BY <3>1
      <4>2. QED
        BY <2>2, <4>1
    <3>2. CASE t \notin watched[c]
      <4>1. Cardinality(watched[c]) < MaxWatched
        BY <2>1, <2>2, <3>2 DEF OverCap
      <4>2. /\ IsFiniteSet(watched[c] \cup {t})
            /\ Cardinality(watched[c] \cup {t}) = Cardinality(watched[c]) + 1
        BY <2>2, <3>2, FS_AddElement
      <4>3. QED
        BY <2>2, <4>1, <4>2
    <3>3. QED
      BY <3>1, <3>2
  <2>4. \A d \in Conn : watched'[d] = IF d = c THEN watched[c] \cup {t} ELSE watched[d]
    BY <1>a, <2>1 DEF TypeOK
  <2>5. \A d \in Conn : /\ IsFiniteSet(watched'[d])
                       /\ Cardinality(watched'[d]) <= MaxWatched
    BY <2>3, <2>4 DEF LimitsInv, WithinLimits
  <2>6. QED
    BY <2>1, <2>5 DEF LimitsInv, WithinLimits
<1>3. ASSUME NEW c \in Conn,
             Pumps(c) \/ RegisterRejected(c) \/ IgnoreCommand(c) \/ Unwatch(c)
      PROVE  LimitsInv'
  <2>1. CASE Pumps(c)
    <3>1. clients' = clients /\ watched' = watched
      BY <2>1 DEF Pumps, Upgrade, ConnFails, ReadCommand, ReadFails, Leave,
           Write, WriterStops, PingFails, WriteFails, WriterEnds
    <3>2. QED
      BY <3>1, LimitsShrink
  <2>2. CASE RegisterRejected(c) \/ IgnoreCommand(c)
    <3>1. clients' = clients /\ watched' = watched
      BY <2>2 DEF RegisterRejected, IgnoreCommand, TakeCommand
    <3>2. QED
      BY <3>1, LimitsShrink
  <2>3. CASE Unwatch(c)
    <3>1. clients' = clients /\ \A d \in Conn : watched'[d] \subseteq watched[d]
      BY <2>3, <1>a DEF Unwatch, TakeCommand, TypeOK
    <3>2. QED
      BY <3>1, LimitsShrink
  <2>4. QED
    BY <1>3, <2>1, <2>2, <2>3
<1>4. CASE Loop
  <2>1. clients' \subseteq clients /\ watched' = watched
    BY <1>4 DEF Loop, Unregister, Drop, BlockEvent, MempoolEvent, MempoolTick,
         Tick, Stop
  <2>2. QED
    BY <2>1, LimitsShrink
<1>5. ASSUME \/ \E p \in BagToSet(pushes) : PushStep(p)
             \/ Notify
             \/ UNCHANGED vars
      PROVE  LimitsInv'
  <2>1. clients' = clients /\ watched' = watched
    BY <1>5 DEF PushStep, FetchFails, Offer, Enqueue, Swallow, TooSlow,
         Notify, NotifyBlockDrain, NotifyBlockSend, NotifyMempool, vars
  <2>2. QED
    BY <2>1, LimitsShrink
<1>6. QED
  BY <1>1, <1>2, <1>3, <1>4, <1>5 DEF Next, LoopFor

\* No client ever holds more than maxWatchedPerClient registrations, and no
\* more than MaxClients clients are registered.
THEOREM LimitsCorrect == Spec => []WithinLimits
<1>1. LimitsInv /\ [Next]_vars => LimitsInv'
  BY TypeStep, LimitsStep DEF LimitsInv
<1>2. LimitsInv => WithinLimits
  BY DEF LimitsInv
<1>3. QED
  BY <1>1, <1>2, LimitsInit, PTL DEF Spec
-----------------------------------------------------------------------------
(***************************************************************************)
(* The hub implements WatchServer.  The sets the pushes are started from   *)
(* are the clients' own watch sets, because the two books agree: so a step *)
(* of the loop is judged by what it does to the watch set of one client.   *)
(***************************************************************************)
ServedIsWatched ==
    Served = [c \in Conn |-> IF c \in Joined THEN watched[c] ELSE {}]

ServiceInv == RegistryInv /\ LimitsInv /\ ServedIsWatched

LEMMA ServedByTheBooks == RegistryInv => ServedIsWatched
<1> SUFFICES ASSUME RegistryInv, NEW c \in Conn
             PROVE  Served[c] = IF c \in Joined THEN watched[c] ELSE {}
  BY DEF Served, ServedIsWatched
<1>1. TypeOK /\ WatchBooksAgree
  BY DEF RegistryInv
<1>2. CASE c \in Joined
  <2>1. running /\ c \in clients /\ watched[c] \subseteq Txid
    BY <1>1, <1>2 DEF Joined, TypeOK
  <2> QED
    BY <1>1, <1>2, <2>1 DEF Served, TypeOK, WatchBooksAgree
<1>3. CASE c \notin Joined
  BY <1>1, <1>3 DEF Served, Joined, WatchBooksAgree
<1> QED
  BY <1>2, <1>3

\* The abstract module counts with an instance of its own.
LEMMA CountedAlike == \A S : Server!Cardinality(S) = Cardinality(S)
BY DEF Server!Cardinality, Cardinality

\* A step that leaves the registry alone is a stutter of the server.
LEMMA ServiceUntouched ==
    ASSUME UNCHANGED <<running, clients, watchers, done>>
    PROVE  UNCHANGED Server!serverVars
BY DEF Server!serverVars, Joined, Closed, Served

LEMMA AdmittedJoins ==
    ASSUME ServiceInv, ServiceInv', NEW c \in Conn, RegisterAdmitted(c)
    PROVE  Server!Join(c)
<1>1. /\ running /\ running' = running /\ ~ FullHouse
      /\ clients' = clients \cup {c}
      /\ UNCHANGED <<watched, done>>
  BY DEF RegisterAdmitted, connVars
<1>2. c \notin Answered
  BY DEF RegisterAdmitted, StartPumps, Answered
<1>3. c \notin clients /\ ~ done[c] /\ watched[c] = {}
  BY <1>2 DEF ServiceInv, RegistryInv, RegisteredUntilShutdown, FreshUnwatched
<1>4. ~ Server!Full
  <2>1. Joined = clients
    BY <1>1 DEF Joined
  <2>2. Cardinality(clients) # MaxClients \/ ~ MaxClients > 0
    BY <1>1, HubAssumption DEF HubAssumption, FullHouse
  <2> QED
    BY <2>1, <2>2, CountedAlike DEF Server!Full
<1>5. Served' = Served
  <2>1. Served = [d \in Conn |-> IF d \in Joined THEN watched[d] ELSE {}]
    BY DEF ServiceInv, ServedIsWatched
  <2>2. Served' = [d \in Conn |-> IF d \in Joined' THEN watched'[d] ELSE {}]
    BY DEF ServiceInv, ServedIsWatched
  <2>3. Joined' = Joined \cup {c}
    BY <1>1 DEF Joined
  <2> QED
    BY <1>1, <1>3, <2>1, <2>2, <2>3
<1> QED
  BY <1>1, <1>3, <1>4, <1>5 DEF Server!Join, Joined, Closed

LEMMA RejectedTurnedAway ==
    ASSUME ServiceInv, NEW c \in Conn, RegisterRejected(c)
    PROVE  Server!TurnAway(c)
<1>1. /\ running /\ FullHouse
      /\ UNCHANGED <<running, clients, watchers>>
      /\ \A d \in Conn : done'[d] = (done[d] \/ d = c)
  BY DEF RegisterRejected, Shutdown, loopVars
<1>2. c \notin Answered
  BY DEF RegisterRejected, StartPumps, Answered
<1>3. c \notin clients /\ ~ done[c]
  BY <1>2 DEF ServiceInv, RegistryInv, RegisteredUntilShutdown
<1>4. Server!Full
  <2>1. Joined = clients
    BY <1>1 DEF Joined
  <2>2. Cardinality(clients) \in Nat /\ MaxClients \in Nat
    BY HubAssumption, FS_CardinalityType
    DEF HubAssumption, ServiceInv, LimitsInv
  <2>3. MaxClients > 0 /\ Cardinality(clients) = MaxClients
    BY <1>1, <2>2 DEF FullHouse, ServiceInv, LimitsInv, WithinLimits
  <2> QED
    BY <2>1, <2>3, CountedAlike DEF Server!Full
<1>5. Joined' = Joined /\ Served' = Served
  BY <1>1 DEF Joined, Served
<1>6. Closed' = Closed \cup {c}
  BY <1>1 DEF Closed
<1> QED
  BY <1>1, <1>3, <1>4, <1>5, <1>6 DEF Server!TurnAway, Joined, Closed

LEMMA CommandsServed ==
    ASSUME ServiceInv, ServiceInv', NEW c \in Conn, Watch(c) \/ Unwatch(c)
    PROVE  \E t \in Txid : Server!TakeUp(c, t) \/ Server!GiveUp(c, t)
<1> DEFINE t == cmd[c].txid
<1> SUFFICES t \in Txid /\ (Server!TakeUp(c, t) \/ Server!GiveUp(c, t))
  OBVIOUS
<1>1. /\ running /\ c \in clients
      /\ UNCHANGED <<running, clients, done>>
  BY DEF Watch, Unwatch, TakeCommand, connVars
<1>2. t \in Txid
  BY DEF Watch, Unwatch, TakeCommand, ServiceInv, RegistryInv, TypeOK, Command
<1>3. Joined = clients /\ Joined' = Joined /\ Closed' = Closed
  BY <1>1 DEF Joined, Closed
<1>4. /\ Served = [d \in Conn |-> IF d \in Joined THEN watched[d] ELSE {}]
      /\ Served' = [d \in Conn |-> IF d \in Joined THEN watched'[d] ELSE {}]
  <2>1. Served' = [d \in Conn |-> IF d \in Joined' THEN watched'[d] ELSE {}]
    BY DEF ServiceInv, ServedIsWatched
  <2> QED
    BY <1>3, <2>1 DEF ServiceInv, ServedIsWatched
<1>5. watched \in [Conn -> SUBSET Txid]
  BY DEF ServiceInv, RegistryInv, TypeOK
<1>6. CASE Watch(c)
  <2>1. ~ OverCap(c, t) /\ watched' = [watched EXCEPT ![c] = @ \cup {t}]
    BY <1>6 DEF Watch
  <2> HIDE DEF t
  <2>2. Served' = [Served EXCEPT ![c] = @ \cup {t}]
    BY <1>1, <1>3, <1>4, <1>5, <2>1
  <2>3. t \in Served[c] \/ Cardinality(Served[c]) < MaxWatched
    <3>1. Served[c] = watched[c]
      BY <1>1, <1>3, <1>4
    <3>2. Cardinality(watched[c]) \in Nat /\ MaxWatched \in Nat
      BY HubAssumption, FS_CardinalityType
      DEF HubAssumption, ServiceInv, LimitsInv
    <3> QED
      BY <2>1, <3>1, <3>2 DEF OverCap
  <2> QED
    BY <1>1, <1>2, <1>3, <2>2, <2>3, CountedAlike
    DEF Server!TakeUp
<1>7. CASE Unwatch(c)
  <2>1. watched' = [watched EXCEPT ![c] = @ \ {t}]
    BY <1>7 DEF Unwatch
  <2> HIDE DEF t
  <2>2. Served' = [Served EXCEPT ![c] = @ \ {t}]
    BY <1>1, <1>3, <1>4, <1>5, <2>1
  <2> QED
    BY <1>1, <1>2, <1>3, <2>2 DEF Server!GiveUp
<1> QED
  BY <1>2, <1>6, <1>7

LEMMA UnregisterDeparts ==
    ASSUME ServiceInv, ServiceInv', Unregister
    PROVE  \/ UNCHANGED Server!serverVars
           \/ \E c \in Conn : Server!Depart(c)
<1> DEFINE c == Head(unregister)
<1>1. running /\ UNCHANGED <<running, watched>> /\ c \in Conn
  BY DEF Unregister, ServiceInv, RegistryInv, TypeOK
<1>2. CASE c \notin clients
  <2>1. UNCHANGED <<clients, watchers, done>>
    BY <1>2 DEF Unregister, Drop
  <2> QED
    BY <1>1, <2>1, ServiceUntouched
<1>3. CASE c \in clients
  <2>1. /\ clients' = clients \ {c}
        /\ \A d \in Conn : done'[d] = (done[d] \/ d = c)
    BY <1>3 DEF Unregister, Drop, Shutdown
  <2> HIDE DEF c
  <2>2. /\ c \in Joined /\ Joined' = Joined \ {c}
        /\ Closed' = Closed \cup {c}
    BY <1>1, <1>3, <2>1 DEF Joined, Closed
  <2>3. Served' = [Served EXCEPT ![c] = {}]
    <3>1. Served = [d \in Conn |-> IF d \in Joined THEN watched[d] ELSE {}]
      BY DEF ServiceInv, ServedIsWatched
    <3>2. Served' = [d \in Conn |-> IF d \in Joined' THEN watched'[d] ELSE {}]
      BY DEF ServiceInv, ServedIsWatched
    <3> QED
      BY <1>1, <2>2, <3>1, <3>2
  <2> QED
    BY <1>1, <2>2, <2>3 DEF Server!Depart
<1> QED
  BY <1>2, <1>3

LEMMA StopCloses ==
    ASSUME ServiceInv, Stop
    PROVE  Server!Close
<1>1. /\ running /\ ~ running'
      /\ \A d \in Conn : done'[d] = (done[d] \/ d \in clients)
  BY DEF Stop, Shutdown
<1>2. clients \subseteq Conn
  BY DEF ServiceInv, RegistryInv, TypeOK
<1>3. Joined' = {} /\ Served' = [c \in Conn |-> {}]
  BY <1>1 DEF Joined, Served
<1>4. Closed' = Closed \cup Joined
  BY <1>1, <1>2 DEF Closed, Joined
<1>5. running' = FALSE
  BY DEF Stop
<1> QED
  BY <1>3, <1>4, <1>5 DEF Server!Close

LEMMA ServiceStep ==
    ASSUME ServiceInv, ServiceInv', [Next]_vars
    PROVE  [Server!ServerNext]_(Server!serverVars)
<1>1. ASSUME NEW c \in Conn, LoopFor(c)
      PROVE  [Server!ServerNext]_(Server!serverVars)
  <2>1. CASE RegisterAdmitted(c)
    BY <2>1, AdmittedJoins DEF Server!ServerNext
  <2>2. CASE RegisterRejected(c)
    BY <2>2, RejectedTurnedAway DEF Server!ServerNext
  <2>3. CASE IgnoreCommand(c)
    <3>1. UNCHANGED <<running, clients, watchers, done>>
      BY <2>3 DEF IgnoreCommand, TakeCommand, connVars
    <3> QED
      BY <3>1, ServiceUntouched
  <2>4. CASE Watch(c) \/ Unwatch(c)
    BY <2>4, CommandsServed DEF Server!ServerNext
  <2> QED
    BY <1>1, <2>1, <2>2, <2>3, <2>4 DEF LoopFor
<1>2. CASE Unregister
  BY <1>2, UnregisterDeparts DEF Server!ServerNext
<1>3. CASE Stop
  BY <1>3, StopCloses DEF Server!ServerNext
<1>4. ASSUME \/ \E c \in Conn : Pumps(c)
             \/ BlockEvent \/ MempoolEvent \/ MempoolTick \/ Tick
             \/ \E p \in BagToSet(pushes) : PushStep(p)
             \/ Notify
             \/ UNCHANGED vars
      PROVE  [Server!ServerNext]_(Server!serverVars)
  <2>1. UNCHANGED <<running, clients, watchers, done>>
    BY <1>4 DEF Pumps, Upgrade, ConnFails, ReadCommand, ReadFails, Leave,
       Write, WriterStops, PingFails, WriteFails, WriterEnds, BlockEvent,
       MempoolEvent, MempoolTick, Tick, PushStep, FetchFails, Offer, Enqueue,
       Swallow, TooSlow, Notify, NotifyBlockDrain, NotifyBlockSend,
       NotifyMempool, vars, loopVars, chanVars, connVars
  <2> QED
    BY <2>1, ServiceUntouched
<1> QED
  BY <1>1, <1>2, <1>3, <1>4 DEF Next, Loop

LEMMA ServiceStart == Init => Server!ServerInit
<1> SUFFICES ASSUME Init PROVE Server!ServerInit
  OBVIOUS
<1>1. running = TRUE /\ clients = {} /\ done = [c \in Conn |-> FALSE]
  BY DEF Init
<1>2. DOMAIN watchers = {}
  BY DEF Init
<1>3. Joined = {} /\ Closed = {} /\ Served = [c \in Conn |-> {}]
  BY <1>1, <1>2 DEF Joined, Closed, Served
<1> QED
  BY <1>1, <1>3 DEF Server!ServerInit

\* The hub implements the abstract watch server, for any connections,
\* transactions and limits: nobody's watches change but by its own commands
\* or its end, and no connection that was closed is ever served again.
THEOREM HubServesWatches == Spec => WatchesServed
<1>1. LimitsInv /\ [Next]_vars => LimitsInv'
  BY TypeStep, LimitsStep DEF LimitsInv
<1>2. RegistryInv /\ LimitsInv => ServiceInv
  BY ServedByTheBooks DEF ServiceInv
<1> QED
  BY <1>1, <1>2, ServiceStart, ServiceStep, RegistryInvariant, LimitsInit, PTL
  DEF Spec, WatchesServed, Server!ServerSpec
=============================================================================
