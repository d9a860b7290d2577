----------------------------- MODULE LiveSocket -----------------------------
(***************************************************************************)
(* The browser's websocket (web/src/api/ws.ts): one connection for the     *)
(* whole page, opened when a view first subscribes, reopened with backoff  *)
(* after it closes, and the watches of the views, sent to the server as    *)
(* they come and go and replayed on a new connection.                      *)
(*                                                                         *)
(* Everything here runs on one JavaScript thread, one callback at a time.  *)
(* What happens between the callbacks is the network: the connection may   *)
(* be lost long before the browser says so, and what is sent meanwhile is  *)
(* lost without an error.  Commands about different transactions do not    *)
(* interact at the server, so each has a stream of its own.                *)
(***************************************************************************)
EXTENDS Naturals, Sequences

CONSTANTS
    Socket,          \* the WebSocket objects the page may have at a time
    Txid,            \* the transactions watched
    Callback,        \* the callbacks of the views
    None,            \* no socket, no transaction
    InitialBackoff,  \* INITIAL_BACKOFF_MS
    MaxBackoff,      \* MAX_BACKOFF_MS
    MaxWire          \* bound on the unread commands about one transaction

ASSUME LiveSocketAssumption ==
    /\ None \notin Socket /\ None \notin Txid
    /\ InitialBackoff \in Nat \ {0} /\ MaxBackoff \in Nat
    /\ InitialBackoff <= MaxBackoff
    /\ MaxWire \in Nat \ {0}

VARIABLES
    ws,        \* this.ws
    link,      \* the state of every socket
    open,      \* this.open
    timers,    \* pending reconnect timeouts; this.reconnectTimer: timers > 0
    backoff,   \* this.backoff
    watches,   \* this.watches: the callbacks of every transaction
    wire,      \* commands sent and not read yet, per socket and transaction
    server     \* the transactions the server watches for every connection

connVars  == <<ws, link, open, timers, backoff>>
watchVars == <<watches, wire, server>>
socketVars == <<connVars, watchVars>>

\* "none": not in use.  "dead": no longer connected, onclose not run yet.
Link == {"none", "connecting", "up", "dead"}

Quiet == [t \in Txid |-> <<>>]

Up == ws # None /\ link[ws] = "up"

-----------------------------------------------------------------------------
(* Connecting *)

\* new WebSocket(...), one of those not in use
Connect(s) ==
    /\ link[s] = "none" /\ s = CHOOSE r \in Socket : link[r] = "none"
    /\ ws' = s
    /\ link' = [link EXCEPT ![s] = "connecting"]

\* Seeded fault: a pending reconnect does not stop ensure() from connecting.
EnsureIgnoresTimer ==
    IF ws = None THEN \E s \in Socket : Connect(s) ELSE UNCHANGED <<ws, link>>

Ensure ==
    IF ws = None /\ timers = 0
    THEN \E s \in Socket : Connect(s)
    ELSE UNCHANGED <<ws, link>>

\* onStats, onMempool, onBlock, onConnection
Subscribe ==
    /\ ws = None /\ timers = 0
    /\ Ensure
    /\ UNCHANGED <<open, timers, backoff, watchVars>>

TimerFires ==
    /\ timers > 0
    /\ timers' = timers - 1
    /\ \E s \in Socket : Connect(s)
    /\ UNCHANGED <<open, backoff, watchVars>>

\* Seeded fault: watches are not replayed on a new connection.
OpensWithoutReplay(s) ==
    /\ link[s] = "connecting"
    /\ link' = [link EXCEPT ![s] = "up"]
    /\ open' = TRUE
    /\ backoff' = InitialBackoff
    /\ UNCHANGED <<ws, timers, watchVars>>

\* onopen: every watch is replayed on the new connection.
Opens(s) ==
    /\ link[s] = "connecting"
    /\ link' = [link EXCEPT ![s] = "up"]
    /\ open' = TRUE
    /\ backoff' = InitialBackoff
    /\ wire' = [wire EXCEPT ![s] = [t \in Txid |->
                    IF watches[t] # {} THEN <<"watch">> ELSE <<>>]]
    /\ UNCHANGED <<ws, timers, watches, server>>

Fails(s) ==
    /\ link[s] = "connecting"
    /\ link' = [link EXCEPT ![s] = "dead"]
    /\ UNCHANGED <<ws, open, timers, backoff, watchVars>>

\* The connection is gone: so is what was under way, and the server's
\* hub drops the client and its watches (Hub.tla, Drop).
Lost(s) ==
    /\ link[s] = "up"
    /\ link' = [link EXCEPT ![s] = "dead"]
    /\ wire' = [wire EXCEPT ![s] = Quiet]
    /\ server' = [server EXCEPT ![s] = {}]
    /\ UNCHANGED <<ws, open, timers, backoff, watches>>

\* onclose
Closes(s) ==
    /\ link[s] = "dead"
    /\ link' = [link EXCEPT ![s] = "none"]
    /\ ws' = None /\ open' = FALSE
    /\ timers' = timers + 1
    /\ backoff' = IF 2 * backoff <= MaxBackoff THEN 2 * backoff ELSE MaxBackoff
    /\ UNCHANGED watchVars

-----------------------------------------------------------------------------
(* Watches *)

\* What the server is told when the callbacks of a transaction change.
Command(before, after) ==
    IF before = {} /\ after # {} THEN <<"watch">>
    ELSE IF before # {} /\ after = {} THEN <<"unwatch">>
    ELSE <<>>

\* send(): nothing unless open; lost if the connection is.
Send(after) ==
    IF open /\ Up
    THEN wire' = [wire EXCEPT ![ws] =
                    [t \in Txid |-> @[t] \o Command(watches[t], after[t])]]
    ELSE UNCHANGED wire

After(c, old, new) ==
    [t \in Txid |-> CASE t = old -> watches[t] \ {c}
                      [] t = new -> watches[t] \cup {c}
                      [] OTHER -> watches[t]]

\* A view's callback c gives up transaction old (its effect is cleaned up)
\* and takes up new (its effect runs again); either may be None.
Moves(c, old, new) ==
    /\ old # new
    /\ old # None => c \in watches[old]
    /\ new # None => c \notin watches[new]
    /\ Up => \A t \in Txid : Len(wire[ws][t]) < MaxWire
    /\ watches' = After(c, old, new)
    /\ Send(After(c, old, new))
    /\ IF new = None THEN UNCHANGED <<ws, link>> ELSE Ensure
    /\ UNCHANGED <<open, timers, backoff, server>>

\* The hub handles the next command of a connection (Hub.tla, Watch and
\* Unwatch; a page never comes near the cap on a client's watches).
ServerReads(s, t) ==
    /\ wire[s][t] # <<>>
    /\ wire' = [wire EXCEPT ![s][t] = Tail(@)]
    /\ server' = [server EXCEPT ![s] = IF Head(wire[s][t]) = "watch"
                                       THEN @ \cup {t} ELSE @ \ {t}]
    /\ UNCHANGED <<connVars, watches>>

-----------------------------------------------------------------------------
SocketInit ==
    /\ ws = None /\ link = [s \in Socket |-> "none"] /\ open = FALSE
    /\ timers = 0 /\ backoff = InitialBackoff
    /\ watches = [t \in Txid |-> {}]
    /\ wire = [s \in Socket |-> Quiet]
    /\ server = [s \in Socket |-> {}]

SocketNext ==
    \/ Subscribe \/ TimerFires
    \/ \E s \in Socket :
        \/ Opens(s) \/ Fails(s) \/ Lost(s) \/ Closes(s)
        \/ \E t \in Txid : ServerReads(s, t)
    \/ \E c \in Callback, old, new \in Txid \cup {None} : Moves(c, old, new)

SocketSpec == SocketInit /\ [][SocketNext]_socketVars

-----------------------------------------------------------------------------
(* Properties *)

\* Every variable has its type; a reconnect delay stays within its limits.
SocketTypeOK ==
    /\ ws \in Socket \cup {None}
    /\ link \in [Socket -> Link]
    /\ open \in BOOLEAN
    /\ timers \in Nat
    /\ backoff \in InitialBackoff .. MaxBackoff
    /\ watches \in [Txid -> SUBSET Callback]
    /\ wire \in [Socket -> [Txid -> Seq({"watch", "unwatch"})]]
    /\ server \in [Socket -> SUBSET Txid]

\* However views subscribe, connections fail and timeouts fire, the page has
\* one connection or one pending reconnect, never two of either: `ensure'
\* and the reconnect timer (ws.ts:96, :143) do not both connect, and the
\* close of an old connection never clears the socket of a newer one.
OneConnection ==
    /\ timers <= 1
    /\ timers = 1 => ws = None
    /\ \A s \in Socket : link[s] # "none" => s = ws

\* What the server will serve on a connection once it has read everything.
Told(s) ==
    {t \in Txid : IF wire[s][t] = <<>> THEN t \in server[s]
                  ELSE wire[s][t][Len(wire[s][t])] = "watch"}

\* The socket keeps its promise (ws.ts:24, "a dropped connection never
\* silently loses a watch"): over the live connection the server has been
\* told exactly of the transactions some view watches, whatever sequence of
\* losses, reopenings and views changing led there.
Promise == INSTANCE Subscription WITH
    held      <- {t \in Txid : watches[t] # {}},
    connected <- Up,
    served    <- IF Up THEN Told(ws) ELSE {}

PromiseKept == Promise!SubSpec
=============================================================================
