-------------------------------- MODULE Hub --------------------------------
(***************************************************************************)
(* The WebSocket hub of btcdwatchd (internal/api/hub.go) together with the *)
(* two pump goroutines of every connection (internal/api/ws.go).           *)
(*                                                                         *)
(* One event-loop goroutine owns the client set and the watch              *)
(* registrations.  Around it run, concurrently:                            *)
(*   - handleWS and the read and write pump of every connection,           *)
(*   - short-lived push goroutines, each of which fetches a payload and    *)
(*     offers it to the clients it was started for, one after the other,   *)
(*   - the node's notification goroutine (NotifyBlock, NotifyMempool).     *)
(* They meet in Go channels: the unbuffered `register' and `commands' are  *)
(* hand-offs between a blocked sender and the loop, the buffered ones are  *)
(* sequences.  Each action is one atomic step of one goroutine.            *)
(***************************************************************************)
EXTENDS Naturals, FiniteSets, Sequences, SequencesExt, Bags

CONSTANTS
    Conn,         \* connections; one that closed is never used again
    Txid,         \* transaction ids a client may watch
    Hash,         \* block hashes the node announces
    NoHash,       \* "the notifier holds no block"
    NoKey,        \* key of a push that is about no transaction or block
    NoCmd,        \* "the read pump holds no command"
    MaxClients,   \* Hub.MaxClients; 0 means unlimited
    MaxWatched,   \* maxWatchedPerClient
    SendBuf,      \* sendBufferSize
    UnregCap,     \* capacity of the unregister channel
    MaxPushes     \* bound on the backlog of push goroutines (state space)

ASSUME HubAssumption ==
    /\ MaxClients \in Nat
    /\ MaxWatched \in Nat
    /\ SendBuf \in Nat \ {0}
    /\ UnregCap \in Nat \ {0}
    /\ MaxPushes \in Nat
    /\ NoHash \notin Hash
    /\ NoKey \notin Hash \cup Txid

VARIABLES
    running,       \* FALSE once the loop has seen ctx.Done
    clients,       \* h.clients, the registered connections
    watchers,      \* h.watchers, a map from watched txids to their clients
    mempoolDirty,  \* h.mempoolDirty
    unregister,    \* buffered channel of connections to drop
    blocks,        \* buffered channel of capacity 1
    mempoolCh,     \* buffered channel of capacity 1 that carries no data
    watched,       \* c.watched of every connection, owned by the loop
    send,          \* number of messages in c.send of every connection: nobody
                   \* on this side looks into a message once it is queued
    done,          \* is c.done closed?
    open,          \* is the socket still usable?
    reader,        \* control state of handleWS followed by the read pump
    cmd,           \* the command the read pump is handing to the loop
    writer,        \* control state of the write pump
    notifier,      \* the block NotifyBlock is about to send, or NoHash
    pushes,        \* bag of push goroutines in flight
    owed           \* history: <<c, k>> when client c was registered as k was
                   \* announced (k a block, or NoKey for the mempool) and no
                   \* push of it has started since

loopVars   == <<running, clients, watchers, mempoolDirty, watched>>
chanVars   == <<unregister, blocks, mempoolCh>>
connVars   == <<send, done, open>>
pumpVars   == <<reader, cmd, writer>>
vars == <<loopVars, chanVars, connVars, pumpVars, notifier, pushes, owed>>

-----------------------------------------------------------------------------
Command == [watch : BOOLEAN, txid : Txid]
Message == [kind : {"stats", "mempool", "block", "tx"},
            key  : Txid \cup Hash \cup {NoKey}]

\* A push goroutine: what it pushes, the clients it has still to offer the
\* payload to, and whether its fetch is known to have succeeded.
Push == [msg : Message, to : SUBSET Conn, fetched : BOOLEAN]

\* The connections whose registration the loop has answered.
Answered == {c \in Conn : reader[c] \notin {"none", "registering"}}

-----------------------------------------------------------------------------
(* Starting push goroutines *)

PushOf(kind, key, to) ==
    [msg |-> [kind |-> kind, key |-> key], to |-> to, fetched |-> FALSE]

Spawn(P) == pushes' = pushes (+) SetToBag(P)

\* MaxPushes bounds the state space: no command is read, no tick comes and
\* the node says nothing new while more than that many pushes are under way.
Quiet == BagCardinality(pushes) <= MaxPushes

\* pushAll: stats for every client, and the state of every watched txid for
\* the clients that watch it at this moment.
PushAll ==
    {PushOf("stats", NoKey, clients) : c \in clients}
        \cup {PushOf("tx", t, watchers[t]) : t \in DOMAIN watchers}

\* The mempool push to every client; no goroutine when there is none.
PushMempool == {PushOf("mempool", NoKey, clients) : c \in clients}

PushBlock(h) == {PushOf("block", h, clients) : c \in clients}

-----------------------------------------------------------------------------
(* Connections *)

\* c.shutdown(): close(done), then close the socket (once, hence idempotent).
Shutdown(C) ==
    /\ done' = [c \in Conn |-> done[c] \/ c \in C]
    /\ open' = [c \in Conn |-> open[c] /\ c \notin C]

\* handleWS upgrades the request and blocks on `register <- c'.
Upgrade(c) ==
    /\ reader[c] = "none"
    /\ reader' = [reader EXCEPT ![c] = "registering"]
    /\ open' = [open EXCEPT ![c] = TRUE]
    /\ UNCHANGED <<loopVars, chanVars, send, done, cmd, writer, notifier,
                   pushes, owed>>

\* The peer closes the connection or the network loses it.
ConnFails(c) ==
    /\ open[c]
    /\ open' = [open EXCEPT ![c] = FALSE]
    /\ UNCHANGED <<loopVars, chanVars, send, done, pumpVars, notifier,
                   pushes, owed>>

\* The read pump parses a watch or unwatch frame and blocks on `commands'.
\* Frames buffered before the socket closed are still parsed.  Other frames
\* and malformed txids are skipped without a change of state.
ReadCommand(c) ==
    /\ Quiet
    /\ reader[c] = "reading"
    /\ \E m \in Command : cmd' = [cmd EXCEPT ![c] = m]
    /\ reader' = [reader EXCEPT ![c] = "sending"]
    /\ UNCHANGED <<loopVars, chanVars, connVars, writer, notifier, pushes,
                   owed>>

\* Deviation: the read pump ends without its deferred function.
ReadFailsAtOnce(c) ==
    /\ reader[c] = "reading"
    /\ reader' = [reader EXCEPT ![c] = "gone"]
    /\ UNCHANGED <<loopVars, chanVars, connVars, cmd, writer, notifier,
                   pushes, owed>>

\* ReadJSON fails: the socket is closed, no pong arrived in time, or the
\* frame was not JSON or too long.  The deferred function comes next.
ReadFails(c) ==
    /\ reader[c] = "reading"
    /\ reader' = [reader EXCEPT ![c] = "leaving"]
    /\ UNCHANGED <<loopVars, chanVars, connVars, cmd, writer, notifier,
                   pushes, owed>>

\* Deviation: the unregister channel is taken for unbounded.
LeaveWithoutWaiting(c) ==
    /\ reader[c] = "leaving"
    /\ unregister' = Append(unregister, c)
    /\ reader' = [reader EXCEPT ![c] = "gone"]
    /\ open' = [open EXCEPT ![c] = FALSE]
    /\ UNCHANGED <<loopVars, blocks, mempoolCh, send, done, cmd, writer,
                   notifier, pushes, owed>>

\* The deferred function of the read pump: `unregister <- c' blocks while the
\* channel is full, then the socket is closed.
Leave(c) ==
    /\ reader[c] = "leaving"
    /\ Len(unregister) < UnregCap
    /\ unregister' = Append(unregister, c)
    /\ reader' = [reader EXCEPT ![c] = "gone"]
    /\ open' = [open EXCEPT ![c] = FALSE]
    /\ UNCHANGED <<loopVars, blocks, mempoolCh, send, done, cmd, writer,
                   notifier, pushes, owed>>

\* The write pump writes the next queued message.
Write(c) ==
    /\ writer[c] = "running"
    /\ open[c]
    /\ send[c] > 0
    /\ send' = [send EXCEPT ![c] = @ - 1]
    /\ UNCHANGED <<loopVars, chanVars, done, open, pumpVars, notifier, pushes,
                   owed>>

\* The write pump ends and closes the socket: it found done closed, or
\* writing the next message, or a ping, failed or ran into its deadline.
WriterEnds(c, left) ==
    /\ writer[c] = "running"
    /\ writer' = [writer EXCEPT ![c] = "gone"]
    /\ send' = [send EXCEPT ![c] = left]
    /\ open' = [open EXCEPT ![c] = FALSE]
    /\ UNCHANGED <<loopVars, chanVars, done, reader, cmd, notifier, pushes,
                   owed>>

\* Deviation: the write pump does not select on done.
WriterIgnoresDone(c) == FALSE /\ WriterEnds(c, send[c])

WriterStops(c) == done[c] /\ WriterEnds(c, send[c])

PingFails(c) == WriterEnds(c, send[c])

WriteFails(c) == send[c] > 0 /\ WriterEnds(c, send[c] - 1)

-----------------------------------------------------------------------------
(* The event loop (Hub.Run): one action per case of its select *)

\* The sender blocked on `register' proceeds and starts the two pumps.
StartPumps(c) ==
    /\ reader[c] = "registering"
    /\ reader' = [reader EXCEPT ![c] = "reading"]
    /\ writer' = [writer EXCEPT ![c] = "running"]

\* Deviation: one client too many.
FullHousePlusOne == MaxClients > 0 /\ Cardinality(clients) > MaxClients

FullHouse == MaxClients > 0 /\ Cardinality(clients) >= MaxClients

RegisterAdmitted(c) ==
    /\ running
    /\ ~FullHouse
    /\ StartPumps(c)
    /\ clients' = clients \cup {c}
    /\ Spawn({PushOf("stats", NoKey, {c}), PushOf("mempool", NoKey, {c})})
    /\ UNCHANGED <<running, watchers, mempoolDirty, watched, chanVars,
                   connVars, cmd, notifier, owed>>

\* Deviation: the rejected connection is not closed.
RejectedLeftOpen(c) ==
    /\ running
    /\ FullHouse
    /\ StartPumps(c)
    /\ UNCHANGED <<loopVars, chanVars, connVars, cmd, notifier, pushes, owed>>

RegisterRejected(c) ==
    /\ running
    /\ FullHouse
    /\ StartPumps(c)
    /\ Shutdown({c})
    /\ UNCHANGED <<loopVars, chanVars, send, cmd, notifier, pushes, owed>>

\* removeWatcher for the txids T of one client: the client leaves the sets,
\* and a set that becomes empty leaves the map.
RemoveWatcher(c, T) ==
    LET rest(t) == IF t \in T THEN watchers[t] \ {c} ELSE watchers[t]
    IN  watchers' = [t \in {u \in DOMAIN watchers : rest(u) # {}} |-> rest(t)]

\* Deviation: a dropped client stays in the watchers map.
DropKeepsWatchers(c) ==
    IF c \in clients
    THEN /\ clients' = clients \ {c}
         /\ Shutdown({c})
         /\ owed' = {o \in owed : o[1] # c}
         /\ UNCHANGED watchers
    ELSE UNCHANGED <<clients, watchers, done, open, owed>>

\* drop(c): nothing to do for a connection that is not registered (rejected,
\* or dropped before).
Drop(c) ==
    IF c \in clients
    THEN /\ clients' = clients \ {c}
         /\ RemoveWatcher(c, watched[c])
         /\ Shutdown({c})
         /\ owed' = {o \in owed : o[1] # c}
    ELSE UNCHANGED <<clients, watchers, done, open, owed>>

Unregister ==
    /\ running
    /\ unregister # <<>>
    /\ unregister' = Tail(unregister)
    /\ Drop(Head(unregister))
    /\ UNCHANGED <<running, mempoolDirty, watched, blocks, mempoolCh, send,
                   pumpVars, notifier, pushes>>

\* The sender blocked on `commands' proceeds and reads its next frame.
TakeCommand(c) ==
    /\ running
    /\ reader[c] = "sending"
    /\ reader' = [reader EXCEPT ![c] = "reading"]
    /\ cmd' = [cmd EXCEPT ![c] = NoCmd]
    /\ UNCHANGED <<running, clients, mempoolDirty, chanVars, connVars, writer,
                   notifier, owed>>

\* Deviation: one registration too many.
OverCapPlusOne(c, t) ==
    Cardinality(watched[c]) > MaxWatched /\ t \notin watched[c]

\* The cap on watch registrations, for a txid not yet watched.
OverCap(c, t) == Cardinality(watched[c]) >= MaxWatched /\ t \notin watched[c]

\* A command of a connection that is not (or no longer) registered, or one
\* watch too many, is ignored.
IgnoreCommand(c) ==
    /\ TakeCommand(c)
    /\ c \notin clients \/ (cmd[c].watch /\ OverCap(c, cmd[c].txid))
    /\ UNCHANGED <<watchers, watched, pushes>>

\* The map with client c added to the set of txid t.
WithWatcher(c, t) ==
    [u \in DOMAIN watchers \cup {t} |->
        (IF u \in DOMAIN watchers THEN watchers[u] ELSE {})
            \cup (IF u = t THEN {c} ELSE {})]

Watch(c) ==
    LET t == cmd[c].txid
    IN  /\ TakeCommand(c)
        /\ c \in clients
        /\ cmd[c].watch
        /\ ~OverCap(c, t)
        /\ watchers' = WithWatcher(c, t)
        /\ watched' = [watched EXCEPT ![c] = @ \cup {t}]
        /\ Spawn({PushOf("tx", t, {c})})

Unwatch(c) ==
    LET t == cmd[c].txid
    IN  /\ TakeCommand(c)
        /\ c \in clients
        /\ ~cmd[c].watch
        /\ watched' = [watched EXCEPT ![c] = @ \ {t}]
        /\ RemoveWatcher(c, {t})
        /\ UNCHANGED pushes

\* A block: stats and watched transactions for everyone, and at once the
\* mempool and the block itself, which settles a pending mempool push.
BlockEvent ==
    /\ running
    /\ blocks # <<>>
    /\ blocks' = <<>>
    /\ mempoolDirty' = FALSE
    /\ Spawn(PushAll \cup PushMempool \cup PushBlock(Head(blocks)))
    /\ owed' = owed \ (Conn \X {NoKey, Head(blocks)})
    /\ UNCHANGED <<running, clients, watchers, watched, unregister, mempoolCh,
                   connVars, pumpVars, notifier>>

\* Deviation: a signal that arrives beside a block is left to the block.
MempoolEventLeftToBlock ==
    /\ running
    /\ mempoolCh
    /\ mempoolCh' = FALSE
    /\ mempoolDirty' = (mempoolDirty \/ blocks = <<>>)
    /\ UNCHANGED <<running, clients, watchers, watched, unregister, blocks,
                   connVars, pumpVars, notifier, pushes, owed>>

MempoolEvent ==
    /\ running
    /\ mempoolCh
    /\ mempoolCh' = FALSE
    /\ mempoolDirty' = TRUE
    /\ UNCHANGED <<running, clients, watchers, watched, unregister, blocks,
                   connVars, pumpVars, notifier, pushes, owed>>

\* Deviation: the tick clears the flag but starts no push.
MempoolTickClearsOnly ==
    /\ running
    /\ mempoolDirty
    /\ mempoolDirty' = FALSE
    /\ UNCHANGED <<running, clients, watchers, watched, chanVars, connVars,
                   pumpVars, notifier, pushes, owed>>

MempoolTick ==
    /\ running
    /\ mempoolDirty
    /\ mempoolDirty' = FALSE
    /\ Spawn(PushMempool)
    /\ owed' = owed \ (Conn \X {NoKey})
    /\ UNCHANGED <<running, clients, watchers, watched, chanVars, connVars,
                   pumpVars, notifier>>

Tick ==
    /\ Quiet
    /\ running
    /\ Spawn(PushAll)
    /\ UNCHANGED <<loopVars, chanVars, connVars, pumpVars, notifier, owed>>

\* Deviation: the loop returns without closing its connections.
StopOnly ==
    /\ running
    /\ running' = FALSE
    /\ UNCHANGED <<clients, watchers, mempoolDirty, watched, chanVars, connVars,
                   pumpVars, notifier, pushes, owed>>

\* ctx.Done: every registered client is shut down and the loop returns.
Stop ==
    /\ running
    /\ running' = FALSE
    /\ Shutdown(clients)
    /\ UNCHANGED <<clients, watchers, mempoolDirty, watched, chanVars, send,
                   pumpVars, notifier, pushes, owed>>

-----------------------------------------------------------------------------
(* The push goroutines *)

\* The bag of pushes with goroutine p in a new state, or ended once it has
\* nobody left to send to.
Becomes(p, q) ==
    pushes' = (pushes (-) SetToBag({p}))
                (+) SetToBag({r \in {q} : r.to # {}})

\* The node is unreachable or the transaction is gone: nothing is pushed.
FetchFails(p) ==
    /\ ~p.fetched
    /\ Becomes(p, [p EXCEPT !.to = {}])
    /\ UNCHANGED <<loopVars, chanVars, connVars, pumpVars, notifier, owed>>

\* The fan-out reaches client c.  Nobody sees the fetch return, so that is
\* part of the first such step.
Offer(p, c) ==
    /\ c \in p.to
    /\ Becomes(p, [p EXCEPT !.to = @ \ {c}, !.fetched = TRUE])
    /\ UNCHANGED <<loopVars, blocks, mempoolCh, done, open, pumpVars,
                   notifier, owed>>

\* trySend takes either ready case of its select: the buffer has room ...
Enqueue(p, c) ==
    /\ Offer(p, c)
    /\ send[c] < SendBuf
    /\ send' = [send EXCEPT ![c] = @ + 1]
    /\ UNCHANGED unregister

\* ... or the client is already being dropped.
Swallow(p, c) ==
    /\ Offer(p, c)
    /\ done[c]
    /\ UNCHANGED <<send, unregister>>

\* Neither case is ready: the message is lost and the client is queued for
\* removal unless that queue is full, too.
TooSlow(p, c) ==
    /\ Offer(p, c)
    /\ ~done[c]
    /\ send[c] >= SendBuf
    /\ unregister' = IF Len(unregister) < UnregCap
                     THEN Append(unregister, c) ELSE unregister
    /\ UNCHANGED send

-----------------------------------------------------------------------------
(* The notification goroutine; it runs one callback at a time *)

\* Deviation: the channel is not emptied first.
NotifyBlockKeeps(h) ==
    /\ Quiet
    /\ notifier = NoHash
    /\ notifier' = h
    /\ owed' = {o \in owed : o[2] = NoKey} \cup (clients \X {h})
    /\ UNCHANGED <<loopVars, chanVars, connVars, pumpVars, pushes>>

\* NotifyBlock empties the channel: a block the loop has not taken yet is
\* superseded.  History: every registered client is owed this block now.
NotifyBlockDrain(h) ==
    /\ Quiet
    /\ notifier = NoHash
    /\ notifier' = h
    /\ blocks' = <<>>
    /\ owed' = {o \in owed : o[2] = NoKey} \cup (clients \X {h})
    /\ UNCHANGED <<loopVars, unregister, mempoolCh, connVars, pumpVars,
                   pushes>>

\* ... and then sends, which would block on a full channel.
NotifyBlockSend ==
    /\ notifier # NoHash
    /\ Len(blocks) < 1
    /\ blocks' = Append(blocks, notifier)
    /\ notifier' = NoHash
    /\ UNCHANGED <<loopVars, unregister, mempoolCh, connVars, pumpVars,
                   pushes, owed>>

\* NotifyMempool coalesces with a signal not yet taken.  History: from now on
\* every registered client is owed a mempool push.
NotifyMempool ==
    /\ Quiet
    /\ notifier = NoHash
    /\ mempoolCh' = TRUE
    /\ owed' = owed \cup (clients \X {NoKey})
    /\ UNCHANGED <<loopVars, unregister, blocks, connVars, pumpVars, notifier,
                   pushes>>

-----------------------------------------------------------------------------
Init ==
    /\ running = TRUE
    /\ clients = {}
    /\ watchers = [t \in {} |-> {}]
    /\ mempoolDirty = FALSE
    /\ unregister = <<>>
    /\ blocks = <<>>
    /\ mempoolCh = FALSE
    /\ watched = [c \in Conn |-> {}]
    /\ send = [c \in Conn |-> 0]
    /\ done = [c \in Conn |-> FALSE]
    /\ open = [c \in Conn |-> FALSE]
    /\ reader = [c \in Conn |-> "none"]
    /\ cmd = [c \in Conn |-> NoCmd]
    /\ writer = [c \in Conn |-> "none"]
    /\ notifier = NoHash
    /\ pushes = EmptyBag
    /\ owed = {}

Pumps(c) ==
    \/ Upgrade(c) \/ ConnFails(c)
    \/ ReadCommand(c) \/ ReadFails(c) \/ Leave(c)
    \/ Write(c) \/ WriterStops(c) \/ PingFails(c) \/ WriteFails(c)

LoopFor(c) ==
    \/ RegisterAdmitted(c) \/ RegisterRejected(c)
    \/ IgnoreCommand(c) \/ Watch(c) \/ Unwatch(c)

Loop ==
    \/ Unregister \/ BlockEvent \/ MempoolEvent \/ MempoolTick \/ Tick \/ Stop

PushStep(p) ==
    \/ FetchFails(p)
    \/ \E c \in Conn : Enqueue(p, c) \/ Swallow(p, c) \/ TooSlow(p, c)

Notify ==
    \/ \E h \in Hash : NotifyBlockDrain(h)
    \/ NotifyBlockSend \/ NotifyMempool

Next ==
    \/ \E c \in Conn : Pumps(c) \/ LoopFor(c)
    \/ Loop
    \/ \E p \in BagToSet(pushes) : PushStep(p)
    \/ Notify

Spec == Init /\ [][Next]_vars

(***************************************************************************)
(* Fairness.  The loop always returns to its select, whose ready cases are *)
(* picked at random, so a case that stays ready is taken, and so is one    *)
(* that is ready again and again (a block drained by the next); senders    *)
(* blocked on a channel are served in the order they came; a closed socket *)
(* holds finitely many frames; a write ends by its deadline and the RPC of *)
(* a push returns or fails.  Nothing obliges a peer, the node or the tick. *)
(***************************************************************************)
Fairness ==
    /\ WF_vars(Unregister) /\ SF_vars(BlockEvent)
    /\ WF_vars(MempoolEvent) /\ WF_vars(MempoolTick)
    /\ WF_vars(NotifyBlockSend)
    /\ WF_vars(\E p \in BagToSet(pushes) : PushStep(p))
    /\ \A c \in Conn :
        /\ WF_vars(LoopFor(c))
        /\ SF_vars(ReadFails(c) /\ ~open[c])
        /\ SF_vars(Leave(c))
        /\ WF_vars(WriterStops(c))

FairSpec == Spec /\ Fairness

-----------------------------------------------------------------------------
(* Properties *)

\* Every variable has its type; channels and send buffers respect their
\* capacities.
TypeOK ==
    /\ running \in BOOLEAN
    /\ clients \subseteq Conn
    /\ DOMAIN watchers \subseteq Txid
    /\ \A t \in DOMAIN watchers : watchers[t] \subseteq Conn
    /\ mempoolDirty \in BOOLEAN
    /\ unregister \in Seq(Conn) /\ Len(unregister) <= UnregCap
    /\ blocks \in Seq(Hash) /\ Len(blocks) <= 1
    /\ mempoolCh \in BOOLEAN
    /\ watched \in [Conn -> SUBSET Txid]
    /\ send \in [Conn -> 0 .. SendBuf]
    /\ done \in [Conn -> BOOLEAN]
    /\ open \in [Conn -> BOOLEAN]
    /\ reader \in [Conn -> {"none", "registering", "reading", "sending",
                            "leaving", "gone"}]
    /\ cmd \in [Conn -> Command \cup {NoCmd}]
    /\ \A c \in Conn : reader[c] = "sending" => cmd[c] \in Command
    /\ writer \in [Conn -> {"none", "running", "gone"}]
    /\ notifier \in Hash \cup {NoHash}
    /\ DOMAIN pushes \subseteq Push
    /\ owed \subseteq Conn \X (Hash \cup {NoKey})

\* The two books the loop keeps agree: a registered client is in the set of
\* a txid exactly when it watches that txid.  Nobody else is in any set, and
\* no empty set stays in the map (commands racing drops, shared txids).
WatchBooksAgree ==
    /\ \A c \in clients, t \in Txid :
        t \in watched[c] <=> t \in DOMAIN watchers /\ c \in watchers[t]
    /\ \A t \in DOMAIN watchers :
        watchers[t] # {} /\ watchers[t] \subseteq clients

\* While the loop runs, a connection whose pumps were started is registered
\* exactly until it is shut down: no connection lives on without pushes (a
\* rejected one included), and none that was shut down is ever pushed to
\* again.  Before its registration is answered it is neither.
RegisteredUntilShutdown ==
    \A c \in Conn :
        IF c \in Answered
        THEN running => (c \in clients <=> ~done[c])
        ELSE c \notin clients /\ ~done[c]

\* No client holds more than maxWatchedPerClient registrations and no more
\* than MaxClients are registered.
WithinLimits ==
    /\ \A c \in Conn : Cardinality(watched[c]) <= MaxWatched
    /\ MaxClients > 0 => Cardinality(clients) <= MaxClients

\* The drain of NotifyBlock leaves room for its send: the one notification
\* goroutine never blocks on the hub, even once the loop has stopped.
NotifierNeverBlocks == notifier # NoHash => blocks = <<>>

\* No wake-up is lost: while a client is owed the newest block or a mempool
\* push, the news is still on its way to the loop (latest block wins, bursts
\* of arrivals coalesce, a block settles the mempool push).
NoLostWakeup ==
    \A o \in owed :
        IF o[2] = NoKey THEN mempoolCh \/ mempoolDirty
                        ELSE notifier = o[2] \/ blocks = <<o[2]>>

\* What a client of the hub sees of its registry
Joined == IF running THEN clients ELSE {}

Closed == {c \in Conn : done[c]}

Served ==
    [c \in Conn |->
        IF running THEN {t \in DOMAIN watchers : c \in watchers[t]} ELSE {}]

Server == INSTANCE WatchServer WITH
    up <- running, joined <- Joined, gone <- Closed, served <- Served

\* The hub keeps the promise of WatchServer: whatever commands, drops, losses,
\* rejections and pushes to slow clients race, a step changes the watches of
\* one connection only, by what it asked for, or ends them with it.
WatchesServed == Server!ServerSpec

\* A registered client whose connection is lost is dropped, however full the
\* unregister channel is.
LostConnReaped ==
    \A c \in Conn : c \in clients /\ ~open[c] ~> c \notin clients \/ ~running

\* No goroutine leak: both pumps of a connection that was shut down end.
PumpsEnd ==
    \A c \in Conn : done[c] ~> \/ reader[c] = "gone" /\ writer[c] = "gone"
                              \/ ~running

\* An announced block and an announced change of the mempool are pushed to
\* every client registered at the time, unless a newer block comes first.
OwedPushStarts ==
    \A c \in Conn, k \in Hash \cup {NoKey} :
        <<c, k>> \in owed ~> <<c, k>> \notin owed \/ ~running
=============================================================================
