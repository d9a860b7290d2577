-------------------------- MODULE LiveSocketProofs --------------------------
(***************************************************************************)
(* The browser's socket (LiveSocket.tla) has one connection or one pending *)
(* reconnect, and keeps the promise of Subscription.tla, for any sockets,  *)
(* transactions, callbacks and delays; and the page that watches a         *)
(* transaction (WatchTx.tla) uses it only as it may be used.               *)
(***************************************************************************)
EXTENDS WatchTx, SequenceTheorems, TLAPS

\* What a page sends to the server.
Commands == {"watch", "unwatch"}

\* Nothing is under way to, or watched at, a connection that is not up.
QuietUnlessUp ==
    \A s \in Socket : link[s] # "up" => wire[s] = Quiet /\ server[s] = {}

\* A connection that is up has run its onopen.
UpIsOpen == Up => open

\* What the live connection has been told is what the views watch.
ToldOfWatches ==
    Up => \A t \in Txid : t \in Told(ws) <=> watches[t] # {}

SocketInv ==
    /\ SocketTypeOK /\ OneConnection
    /\ QuietUnlessUp /\ UpIsOpen /\ ToldOfWatches

-----------------------------------------------------------------------------
(* Streams of commands *)

\* After one more command, the last one is that command.
LEMMA LastAppended ==
    ASSUME NEW w \in Seq(Commands), NEW c \in Commands
    PROVE  /\ w \o <<c>> \in Seq(Commands) /\ w \o <<c>> # <<>>
           /\ (w \o <<c>>)[Len(w \o <<c>>)] = c
<1>1. <<c>> \in Seq(Commands) /\ Len(<<c>>) = 1 /\ <<c>>[1] = c
  OBVIOUS
<1>2. Len(w) \in Nat
  OBVIOUS
<1>3. w \o <<c>> \in Seq(Commands) /\ Len(w \o <<c>>) = Len(w) + 1
  BY <1>1, ConcatProperties
<1>4. (w \o <<c>>)[Len(w) + 1] = <<c>>[Len(w) + 1 - Len(w)]
  BY <1>1, <1>2, ConcatProperties
<1> QED
  BY <1>1, <1>2, <1>3, <1>4

\* Reading the first command leaves the last one, if there is another.
LEMMA LastOfTail ==
    ASSUME NEW w \in Seq(Commands), w # <<>>
    PROVE  /\ Tail(w) \in Seq(Commands) /\ Head(w) \in Commands
           /\ Tail(w) = <<>> => w[Len(w)] = Head(w)
           /\ Tail(w) # <<>> => Tail(w)[Len(Tail(w))] = w[Len(w)]
<1>1. Len(w) \in Nat /\ Len(w) # 0
  BY EmptySeq
<1>2. Head(w) = w[1] /\ Head(w) \in Commands /\ Tail(w) \in Seq(Commands)
  BY <1>1
<1>3. Len(Tail(w)) = Len(w) - 1
  BY <1>1, HeadTailProperties
<1>4. Tail(w) = <<>> => Len(w) = 1
  <2>1. Tail(w) = <<>> => Len(Tail(w)) = 0
    BY EmptySeq
  <2> QED
    BY <1>1, <1>3, <2>1
<1>5. ASSUME Tail(w) # <<>>
      PROVE  Tail(w)[Len(Tail(w))] = w[Len(w)]
  <2>1. Len(Tail(w)) \in 1 .. Len(Tail(w))
    BY <1>2, <1>5, EmptySeq
  <2>2. Tail(w)[Len(Tail(w))] = w[Len(Tail(w)) + 1]
    BY <1>1, <2>1, HeadTailProperties
  <2>3. Len(Tail(w)) + 1 = Len(w)
    BY <1>1, <1>3
  <2> QED
    BY <2>2, <2>3
<1> QED
  BY <1>2, <1>4, <1>5

\* The server of a connection with stream w and watches S ends up serving t.
Tells(w, t, S) == IF w = <<>> THEN t \in S ELSE w[Len(w)] = "watch"

\* Telling of a change of a transaction's callbacks leaves the connection
\* told of the new ones, if it was told of the old ones.
LEMMA CommandTells ==
    ASSUME NEW w \in Seq(Commands), NEW t, NEW S, NEW before, NEW after,
           Tells(w, t, S) <=> before # {}
    PROVE  Tells(w \o Command(before, after), t, S) <=> after # {}
<1>1. CASE before = {} /\ after # {}
  <2>1. Command(before, after) = <<"watch">> /\ "watch" \in Commands
    BY <1>1 DEF Command, Commands
  <2> QED
    BY <1>1, <2>1, LastAppended DEF Tells
<1>2. CASE before # {} /\ after = {}
  <2>1. Command(before, after) = <<"unwatch">> /\ "unwatch" \in Commands
    BY <1>2 DEF Command, Commands
  <2> QED
    BY <1>2, <2>1, LastAppended DEF Tells
<1>3. CASE (before = {}) <=> (after = {})
  <2>1. Command(before, after) = <<>>
    BY <1>3 DEF Command
  <2>2. w \o <<>> = w
    OBVIOUS
  <2> QED
    BY <1>3, <2>1, <2>2
<1> QED
  BY <1>1, <1>2, <1>3
-----------------------------------------------------------------------------
(* Types *)

\* What is sent is a stream of commands, empty or of one.
LEMMA CommandType ==
    \A before, after : Command(before, after) \in Seq(Commands)
<1>1. <<"watch">> \in Seq(Commands) /\ <<"unwatch">> \in Seq(Commands)
      /\ <<>> \in Seq(Commands)
  BY DEF Commands
<1> QED
  BY <1>1 DEF Command

\* Connecting keeps the types of the socket and its states.
LEMMA ConnectTypes ==
    ASSUME SocketTypeOK, NEW s \in Socket, Connect(s)
    PROVE  ws' \in Socket \cup {None} /\ link' \in [Socket -> Link]
BY DEF SocketTypeOK, Connect, Link

\* So does ensure().
LEMMA EnsureTypes ==
    ASSUME SocketTypeOK, Ensure
    PROVE  ws' \in Socket \cup {None} /\ link' \in [Socket -> Link]
BY ConnectTypes DEF Ensure, SocketTypeOK

LEMMA MovesTypes ==
    ASSUME SocketTypeOK, NEW c \in Callback,
           NEW old \in Txid \cup {None}, NEW new \in Txid \cup {None},
           Moves(c, old, new)
    PROVE  SocketTypeOK'
<1>1. watches' \in [Txid -> SUBSET Callback]
  BY DEF Moves, After, SocketTypeOK
<1>2. wire' \in [Socket -> [Txid -> Seq(Commands)]]
  <2>1. CASE open /\ Up
    <3>1. ws \in Socket
      BY <2>1 DEF Up, SocketTypeOK
    <3> DEFINE told == [t \in Txid |-> wire[ws][t] \o
                          Command(watches[t], After(c, old, new)[t])]
    <3>2. told \in [Txid -> Seq(Commands)]
      BY <3>1, CommandType, ConcatProperties DEF SocketTypeOK, Commands
    <3>3. wire' = [wire EXCEPT ![ws] = told]
      BY <2>1, <3>1 DEF Moves, Send, SocketTypeOK
    <3> QED
      BY <3>1, <3>2, <3>3 DEF SocketTypeOK, Commands
  <2>2. CASE ~ (open /\ Up)
    BY <2>2 DEF Moves, Send, SocketTypeOK, Commands
  <2> QED
    BY <2>1, <2>2
<1>3. ws' \in Socket \cup {None} /\ link' \in [Socket -> Link]
  BY EnsureTypes DEF Moves, SocketTypeOK
<1> QED
  BY <1>1, <1>2, <1>3 DEF SocketTypeOK, Moves, Commands

LEMMA ReadsTypes ==
    ASSUME SocketTypeOK, NEW s \in Socket, NEW t \in Txid, ServerReads(s, t)
    PROVE  SocketTypeOK'
<1>1. Tail(wire[s][t]) \in Seq(Commands)
  BY LastOfTail DEF ServerReads, SocketTypeOK, Commands
<1>2. wire' \in [Socket -> [Txid -> Seq(Commands)]]
  BY <1>1 DEF ServerReads, SocketTypeOK, Commands
<1>3. server' \in [Socket -> SUBSET Txid]
  BY DEF ServerReads, SocketTypeOK
<1> QED
  BY <1>2, <1>3 DEF ServerReads, SocketTypeOK, connVars, Commands

\* Types are kept by the callbacks of the socket.
LEMMA CallbackTypes ==
    ASSUME SocketTypeOK, NEW s \in Socket,
           Opens(s) \/ Fails(s) \/ Lost(s) \/ Closes(s)
    PROVE  SocketTypeOK'
<1>1. Quiet \in [Txid -> Seq(Commands)]
      /\ [t \in Txid |-> IF watches[t] # {} THEN <<"watch">> ELSE <<>>]
            \in [Txid -> Seq(Commands)]
  BY DEF Quiet, Commands
<1>2. CASE Opens(s)
  BY <1>1, <1>2, LiveSocketAssumption
     DEF Opens, SocketTypeOK, Link, LiveSocketAssumption, Commands
<1>3. CASE Fails(s)
  BY <1>3 DEF Fails, SocketTypeOK, Link, watchVars
<1>4. CASE Lost(s)
  BY <1>1, <1>4 DEF Lost, SocketTypeOK, Link, Commands
<1>5. CASE Closes(s)
  <2>1. backoff' \in InitialBackoff .. MaxBackoff
    BY <1>5, LiveSocketAssumption
       DEF Closes, SocketTypeOK, LiveSocketAssumption
  <2>2. timers' \in Nat
    BY <1>5 DEF Closes, SocketTypeOK
  <2>3. ws' \in Socket \cup {None} /\ open' \in BOOLEAN
        /\ link' \in [Socket -> Link]
    BY <1>5 DEF Closes, SocketTypeOK, Link
  <2>4. watches' = watches /\ wire' = wire /\ server' = server
    BY <1>5 DEF Closes, watchVars
  <2> QED
    BY <2>1, <2>2, <2>3, <2>4 DEF SocketTypeOK
<1> QED
  BY <1>2, <1>3, <1>4, <1>5

LEMMA SocketTypesKept ==
    ASSUME SocketTypeOK, [SocketNext]_socketVars
    PROVE  SocketTypeOK'
<1>1. CASE Subscribe
  BY <1>1, EnsureTypes DEF Subscribe, SocketTypeOK, watchVars
<1>2. CASE TimerFires
  <2>1. timers' \in Nat
    BY <1>2 DEF TimerFires, SocketTypeOK
  <2> QED
    BY <1>2, <2>1, ConnectTypes DEF TimerFires, SocketTypeOK, watchVars
<1>3. CASE UNCHANGED socketVars
  BY <1>3 DEF socketVars, connVars, watchVars, SocketTypeOK
<1> QED
  BY <1>1, <1>2, <1>3, MovesTypes, ReadsTypes, CallbackTypes DEF SocketNext
-----------------------------------------------------------------------------
(* One connection *)

\* With no socket, every one is unused and none is up.
LEMMA NoneIdle ==
    ASSUME SocketTypeOK, OneConnection, ws = None
    PROVE  ~ Up /\ \A s \in Socket : link[s] = "none"
BY LiveSocketAssumption DEF OneConnection, Up, LiveSocketAssumption

\* Connecting without a pending reconnect makes the first connection.
LEMMA ConnectIsFirst ==
    ASSUME SocketTypeOK, OneConnection, ws = None, timers' = 0,
           NEW s \in Socket, Connect(s)
    PROVE  OneConnection' /\ ~ Up'
<1>1. \A r \in Socket : link'[r] = IF r = s THEN "connecting" ELSE "none"
  BY NoneIdle DEF Connect, SocketTypeOK
<1> QED
  BY <1>1 DEF Connect, OneConnection, Up

LEMMA OneConnectionKept ==
    ASSUME SocketTypeOK, OneConnection, [SocketNext]_socketVars
    PROVE  OneConnection'
<1>1. CASE Subscribe
  BY <1>1, ConnectIsFirst DEF Subscribe, Ensure
<1>2. CASE TimerFires
  <2>1. timers = 1 /\ ws = None /\ timers' = 0
    BY <1>2 DEF TimerFires, OneConnection, SocketTypeOK
  <2> QED
    BY <1>2, <2>1, ConnectIsFirst DEF TimerFires
<1>3. ASSUME NEW s \in Socket, Opens(s) \/ Fails(s) \/ Lost(s)
      PROVE  OneConnection'
  <2>1. ws' = ws /\ timers' = timers /\ s = ws
        /\ \A r \in Socket : r # s => link'[r] = link[r]
    BY <1>3 DEF Opens, Fails, Lost, OneConnection, SocketTypeOK
  <2> QED
    BY <2>1 DEF OneConnection
<1>4. ASSUME NEW s \in Socket, Closes(s)
      PROVE  OneConnection'
  <2>1. s = ws /\ ws # None
    BY <1>4, LiveSocketAssumption
       DEF Closes, OneConnection, LiveSocketAssumption
  <2>2. timers = 0
    BY <2>1 DEF OneConnection, SocketTypeOK
  <2>3. timers' = 1 /\ ws' = None
    BY <1>4, <2>2 DEF Closes
  <2>4. \A r \in Socket : link'[r] = "none"
    BY <1>4, <2>1 DEF Closes, OneConnection, SocketTypeOK
  <2> QED
    BY <2>3, <2>4 DEF OneConnection
<1>5. ASSUME NEW c \in Callback, NEW old \in Txid \cup {None},
             NEW new \in Txid \cup {None}, Moves(c, old, new)
      PROVE  OneConnection'
  <2>1. timers' = timers
    BY <1>5 DEF Moves
  <2> QED
    BY <1>5, <2>1, ConnectIsFirst DEF Moves, Ensure, OneConnection
<1>6. ASSUME NEW s \in Socket, NEW t \in Txid, ServerReads(s, t)
      PROVE  OneConnection'
  BY <1>6 DEF ServerReads, connVars, OneConnection
<1>7. CASE UNCHANGED socketVars
  BY <1>7 DEF socketVars, connVars, OneConnection
<1> QED
  BY <1>1, <1>2, <1>3, <1>4, <1>5, <1>6, <1>7 DEF SocketNext
-----------------------------------------------------------------------------
(* What the server is told *)

\* Connecting leaves every connection that is not up quiet, and is itself
\* not up yet.
LEMMA ConnectTells ==
    ASSUME SocketInv, ws = None, timers' = 0, NEW s \in Socket, Connect(s),
           UNCHANGED <<wire, server>>
    PROVE  QuietUnlessUp' /\ ~ Up'
<1>1. ~ Up' /\ \A r \in Socket : link[r] = "none"
  BY ConnectIsFirst, NoneIdle DEF SocketInv
<1> QED
  BY <1>1 DEF SocketInv, QuietUnlessUp, Quiet

LEMMA OpensTells ==
    ASSUME SocketInv, NEW s \in Socket, Opens(s)
    PROVE  QuietUnlessUp' /\ UpIsOpen' /\ ToldOfWatches'
<1> DEFINE replay == [t \in Txid |->
                        IF watches[t] # {} THEN <<"watch">> ELSE <<>>]
<1>1. s = ws /\ ws' = ws /\ open' = TRUE /\ watches' = watches
  BY DEF Opens, SocketInv, OneConnection
<1>2. wire'[s] = replay /\ server'[s] = {}
  BY DEF Opens, SocketInv, QuietUnlessUp, SocketTypeOK
<1>3. \A r \in Socket : r # s => /\ link'[r] = link[r]
                                /\ wire'[r] = wire[r] /\ server'[r] = server[r]
  BY DEF Opens, SocketInv, SocketTypeOK
<1>4. link'[s] = "up"
  BY DEF Opens, SocketInv, SocketTypeOK
<1>5. ASSUME NEW t \in Txid
      PROVE  (t \in Told(ws))' <=> watches'[t] # {}
  <2>1. CASE watches[t] # {}
    <3>1. wire'[s][t] = <<"watch">>
      BY <1>2, <2>1
    <3>2. <<"watch">> # <<>> /\ <<"watch">>[Len(<<"watch">>)] = "watch"
      OBVIOUS
    <3>3. (t \in Told(ws))'
      BY <1>1, <3>1, <3>2 DEF Told
    <3> QED
      BY <1>1, <2>1, <3>3
  <2>2. CASE watches[t] = {}
    <3>1. wire'[s][t] = <<>>
      BY <1>2, <2>2
    <3> QED
      BY <1>1, <1>2, <2>2, <3>1 DEF Told
  <2> QED
    BY <2>1, <2>2
<1>6. QuietUnlessUp'
  BY <1>3, <1>4 DEF SocketInv, QuietUnlessUp, Quiet
<1> QED
  BY <1>1, <1>5, <1>6 DEF UpIsOpen, ToldOfWatches

\* A socket that fails, is lost or closes leaves nothing behind.
LEMMA EndsTells ==
    ASSUME SocketInv, NEW s \in Socket, Fails(s) \/ Lost(s) \/ Closes(s)
    PROVE  QuietUnlessUp' /\ ~ Up'
<1>1. s = ws
  BY DEF Fails, Lost, Closes, SocketInv, OneConnection
<1>2. link'[s] # "up" /\ ws' \in {ws, None}
  BY DEF Fails, Lost, Closes, SocketInv, SocketTypeOK
<1>3. wire'[s] = Quiet /\ server'[s] = {}
  BY DEF Fails, Lost, Closes, watchVars, SocketInv, SocketTypeOK,
         QuietUnlessUp
<1>4. \A r \in Socket : r # s => /\ link'[r] = link[r]
                                /\ wire'[r] = wire[r] /\ server'[r] = server[r]
  BY DEF Fails, Lost, Closes, watchVars, SocketInv, SocketTypeOK
<1>5. QuietUnlessUp'
  BY <1>3, <1>4 DEF SocketInv, QuietUnlessUp, Quiet
<1> QED
  BY <1>1, <1>2, <1>5 DEF Up

\* What a view changes is sent at once over a connection that is up.
LEMMA MovesTells ==
    ASSUME SocketInv, NEW c \in Callback, NEW old \in Txid \cup {None},
           NEW new \in Txid \cup {None}, Moves(c, old, new)
    PROVE  QuietUnlessUp' /\ UpIsOpen' /\ ToldOfWatches'
<1> DEFINE after == After(c, old, new)
<1>1. CASE Up
  <2>1. open /\ ws \in Socket
    BY <1>1 DEF SocketInv, UpIsOpen, Up, SocketTypeOK
  <2>2. ws' = ws /\ link' = link /\ open' = open /\ server' = server
        /\ watches' = after
    BY <1>1 DEF Moves, Ensure, Up
  <2>3. wire' = [wire EXCEPT ![ws] = [t \in Txid |->
                    wire[ws][t] \o Command(watches[t], after[t])]]
    BY <1>1, <2>1 DEF Moves, Send, SocketInv, SocketTypeOK
  <2>4. ASSUME NEW t \in Txid
        PROVE  (t \in Told(ws))' <=> after[t] # {}
    <3>1. wire[ws][t] \in Seq(Commands)
      BY <2>1 DEF SocketInv, SocketTypeOK, Commands
    <3>2. Tells(wire[ws][t], t, server[ws]) <=> watches[t] # {}
      BY <1>1 DEF SocketInv, ToldOfWatches, Told, Tells
    <3>3. wire'[ws][t] = wire[ws][t] \o Command(watches[t], after[t])
      BY <2>1, <2>3 DEF SocketInv, SocketTypeOK
    <3> HIDE DEF after
    <3>4. Tells(wire'[ws][t], t, server[ws]) <=> after[t] # {}
      BY <3>1, <3>2, <3>3, CommandTells
    <3> QED
      BY <2>2, <3>4 DEF Told, Tells
  <2>5. QuietUnlessUp'
    BY <1>1, <2>1, <2>2, <2>3
       DEF SocketInv, QuietUnlessUp, Quiet, Up, SocketTypeOK
  <2> QED
    BY <1>1, <2>1, <2>2, <2>4, <2>5 DEF UpIsOpen, ToldOfWatches
<1>2. CASE ~ Up
  <2>1. UNCHANGED <<wire, server>>
    BY <1>2 DEF Moves, Send
  <2>2. CASE UNCHANGED <<ws, link>>
    BY <1>2, <2>1, <2>2
       DEF SocketInv, QuietUnlessUp, UpIsOpen, ToldOfWatches, Up, Quiet
  <2>3. CASE ws = None /\ timers = 0 /\ \E s \in Socket : Connect(s)
    <3>1. timers' = 0
      BY <2>3 DEF Moves
    <3> QED
      BY <2>1, <2>3, <3>1, ConnectTells DEF UpIsOpen, ToldOfWatches
  <2> QED
    BY <2>2, <2>3 DEF Moves, Ensure
<1> QED
  BY <1>1, <1>2

\* Reading a command changes nothing about what has been told.
LEMMA ReadsTells ==
    ASSUME SocketInv, NEW s \in Socket, NEW t \in Txid, ServerReads(s, t)
    PROVE  QuietUnlessUp' /\ UpIsOpen' /\ ToldOfWatches'
<1>1. wire[s][t] \in Seq(Commands) /\ wire[s][t] # <<>>
  BY DEF ServerReads, SocketInv, SocketTypeOK, Commands
<1>2. link[s] = "up" /\ s = ws
  BY <1>1 DEF SocketInv, QuietUnlessUp, OneConnection, Quiet
<1>3. ws' = ws /\ link' = link /\ open' = open /\ watches' = watches
  BY DEF ServerReads, connVars
<1>4. wire'[s][t] = Tail(wire[s][t])
      /\ \A u \in Txid : u # t => wire'[s][u] = wire[s][u]
  BY DEF ServerReads, SocketInv, SocketTypeOK
<1>5. \A u \in Txid : u # t => (u \in server'[s] <=> u \in server[s])
  BY DEF ServerReads, SocketInv, SocketTypeOK
<1>6. t \in server'[s] <=> Head(wire[s][t]) = "watch"
  BY DEF ServerReads, SocketInv, SocketTypeOK
<1>7. (t \in Told(ws))' <=> t \in Told(ws)
  <2>1. CASE Tail(wire[s][t]) = <<>>
    BY <1>1, <1>2, <1>3, <1>4, <1>6, <2>1, LastOfTail DEF Told
  <2>2. CASE Tail(wire[s][t]) # <<>>
    BY <1>1, <1>2, <1>3, <1>4, <2>2, LastOfTail DEF Told
  <2> QED
    BY <2>1, <2>2
<1>8. \A u \in Txid : u # t => ((u \in Told(ws))' <=> u \in Told(ws))
  BY <1>2, <1>3, <1>4, <1>5 DEF Told
<1>9. \A r \in Socket : r # s => /\ link'[r] = link[r]
                                /\ wire'[r] = wire[r] /\ server'[r] = server[r]
  BY <1>3 DEF ServerReads, SocketInv, SocketTypeOK
<1>10. ToldOfWatches'
  BY <1>2, <1>3, <1>7, <1>8 DEF SocketInv, ToldOfWatches, Up
<1>11. QuietUnlessUp'
  BY <1>2, <1>3, <1>9 DEF SocketInv, QuietUnlessUp, Quiet
<1> QED
  BY <1>3, <1>10, <1>11 DEF SocketInv, UpIsOpen, Up

LEMMA SocketStep ==
    ASSUME SocketInv, [SocketNext]_socketVars
    PROVE  SocketInv'
<1>1. SocketTypeOK' /\ OneConnection'
  BY SocketTypesKept, OneConnectionKept DEF SocketInv
<1>2. CASE Subscribe
  <2>1. timers' = 0 /\ UNCHANGED <<wire, server>>
    BY <1>2 DEF Subscribe, watchVars
  <2> QED
    BY <1>1, <1>2, <2>1, ConnectTells
       DEF Subscribe, Ensure, SocketInv, UpIsOpen, ToldOfWatches
<1>3. CASE TimerFires
  <2>1. timers = 1 /\ ws = None
    BY <1>3 DEF TimerFires, SocketInv, OneConnection, SocketTypeOK
  <2>2. timers' = 0 /\ UNCHANGED <<wire, server>>
    BY <1>3, <2>1 DEF TimerFires, watchVars
  <2> QED
    BY <1>1, <1>3, <2>1, <2>2, ConnectTells
       DEF TimerFires, SocketInv, UpIsOpen, ToldOfWatches
<1>4. ASSUME NEW s \in Socket, Fails(s) \/ Lost(s) \/ Closes(s)
      PROVE  SocketInv'
  BY <1>1, <1>4, EndsTells DEF SocketInv, UpIsOpen, ToldOfWatches
<1>5. CASE UNCHANGED socketVars
  BY <1>1, <1>5 DEF socketVars, connVars, watchVars, SocketInv,
     QuietUnlessUp, Quiet, UpIsOpen, ToldOfWatches, Told, Up
<1> QED
  BY <1>1, <1>2, <1>3, <1>4, <1>5, OpensTells, MovesTells, ReadsTells
     DEF SocketNext, SocketInv

LEMMA SocketStart ==
    SocketInit => SocketInv
<1> SUFFICES ASSUME SocketInit PROVE SocketInv
  OBVIOUS
<1>1. Quiet \in [Txid -> Seq(Commands)]
  BY DEF Quiet, Commands
<1>2. SocketTypeOK
  <2>1. backoff \in InitialBackoff .. MaxBackoff /\ timers \in Nat
    BY LiveSocketAssumption DEF SocketInit, LiveSocketAssumption
  <2>2. wire \in [Socket -> [Txid -> Seq(Commands)]]
        /\ server \in [Socket -> SUBSET Txid]
        /\ watches \in [Txid -> SUBSET Callback]
    BY <1>1 DEF SocketInit
  <2> QED
    BY <2>1, <2>2 DEF SocketInit, SocketTypeOK, Link, Commands
<1>3. OneConnection /\ QuietUnlessUp /\ ~ Up
  BY DEF SocketInit, OneConnection, QuietUnlessUp, Up
<1> QED
  BY <1>2, <1>3 DEF SocketInv, UpIsOpen, ToldOfWatches

-----------------------------------------------------------------------------
(* The page as a user of the socket *)

\* Rendering moves the page's callback, or leaves the socket alone.
LEMMA RenderMoves ==
    ASSUME WatchTxAssumption, NEW v, NEW x, NEW w, NEW F, NEW busy,
           Wanted(view, tx, watching) \in Txid \cup {None},
           Wanted(v, x, w) \in Txid \cup {None},
           Render(v, x, w, F, busy)
    PROVE  [SocketNext]_socketVars
<1>1. TheCallback \in Callback
  BY DEF TheCallback, WatchTxAssumption
<1> QED
  BY <1>1 DEF Render, SocketNext

\* What the page makes of transactions are transactions.
PageTypes ==
    /\ status \in [Txid -> {"pending", "confirmed"}]
    /\ view = "pending" => tx \in Tx
    /\ search.at = "answered" => search.tx \in Tx \cup {None}
    /\ flights \subseteq Flight

\* What the page watches, or would watch, is a transaction or nothing.
LEMMA WantedType ==
    ASSUME NEW v, NEW x, NEW w, v = "pending" => x \in Tx
    PROVE  Wanted(v, x, w) \in Txid \cup {None}
BY DEF Wanted, Tx

\* Rendering keeps the types of the page.
LEMMA RenderTypes ==
    ASSUME NEW v, NEW x, NEW w, NEW F, NEW busy, F \subseteq Flight,
           v = "pending" => x \in Tx, Render(v, x, w, F, busy)
    PROVE  flights' \subseteq Flight /\ (view' = "pending" => tx' \in Tx)
<1>1. Unmounted(F) \subseteq Flight
  BY DEF Unmounted, Flight
<1> QED
  BY <1>1 DEF Render

\* Starting a fetch, or not, keeps the types of the page and its socket.
LEMMA ConfirmTypes ==
    ASSUME PageTypes, NEW t \in Txid, Confirm(t)
    PROVE  flights' \subseteq Flight
<1>1. [id |-> t, own |-> TRUE, answer |-> "none"] \in Flight
  BY DEF Flight
<1> QED
  BY <1>1 DEF Confirm, PageTypes

\* A step that renders the page uses the socket properly and keeps the
\* types of the page.
LEMMA Renders ==
    ASSUME PageTypes, NEW v, NEW x, NEW w, NEW F, NEW busy,
           F \subseteq Flight, v = "pending" => x \in Tx,
           Render(v, x, w, F, busy), status' = status,
           search' \in {search, NoSearch, Asked}
    PROVE  PageTypes' /\ [SocketNext]_socketVars
<1>1. Wanted(v, x, w) \in Txid \cup {None}
      /\ Wanted(view, tx, watching) \in Txid \cup {None}
  BY WantedType DEF PageTypes
<1>2. [SocketNext]_socketVars
  BY <1>1, WatchTxAssumption, RenderMoves
<1>3. search'.at = "answered" => search'.tx \in Tx \cup {None}
  BY DEF PageTypes, NoSearch, Asked
<1> QED
  BY <1>2, <1>3, RenderTypes DEF PageTypes

LEMMA UserStep ==
    ASSUME PageTypes, User \/ SearchReturns
    PROVE  PageTypes' /\ [SocketNext]_socketVars
<1>1. CASE Search
  BY <1>1, Renders DEF Search, PageTypes, nodeVars
<1>2. CASE GoHome
  BY <1>2, Renders DEF GoHome, PageTypes, nodeVars
<1>3. CASE WatchStart \/ WatchStop
  BY <1>3, Renders DEF WatchStart, WatchStop, PageTypes, nodeVars
<1>4. CASE SearchReturns
  BY <1>4, Renders DEF SearchReturns, PageTypes, nodeVars
<1> QED
  BY <1>1, <1>2, <1>3, <1>4 DEF User

LEMMA FetchStep ==
    ASSUME PageTypes, NEW f \in flights,
           FetchReads(f) \/ FetchReturns(f) \/ FetchFails(f)
    PROVE  PageTypes' /\ [SocketNext]_socketVars
<1>1. f \in Flight
  BY DEF PageTypes
<1>2. CASE FetchReads(f)
  <2>1. [f EXCEPT !.answer = status[f.id]] \in Flight
    BY <1>1 DEF PageTypes, Flight
  <2> QED
    BY <1>2, <2>1 DEF FetchReads, PageTypes, nodeVars
<1>3. CASE FetchReturns(f)
  <2>1. [id |-> f.id, status |-> f.answer] \in Tx
    BY <1>1, <1>3 DEF FetchReturns, Flight, Tx
  <2>2. flights \ {f} \subseteq Flight
    BY DEF PageTypes
  <2>3. CASE f.answer = "confirmed"
    BY <1>3, <2>1, <2>2, <2>3, Renders DEF FetchReturns, nodeVars
  <2>4. CASE f.answer # "confirmed"
    BY <1>3, <2>1, <2>2, <2>4, Renders DEF FetchReturns, nodeVars
  <2> QED
    BY <2>3, <2>4
<1>4. CASE FetchFails(f)
  BY <1>4 DEF FetchFails, PageTypes, nodeVars
<1> QED
  BY <1>2, <1>3, <1>4

LEMMA PageStep ==
    ASSUME PageTypes, [Next]_vars
    PROVE  PageTypes' /\ [SocketNext]_socketVars
<1>1. CASE SearchReads
  <2>1. search'.at = "answered" /\ search'.tx \in Tx \cup {None}
    BY <1>1 DEF SearchReads, Found, PageTypes, Tx
  <2> QED
    BY <1>1, <2>1 DEF SearchReads, PageTypes, nodeVars
<1>2. CASE Poll
  <2>1. tx.id \in Txid
    BY <1>2 DEF Poll, Wanted, PageTypes, Tx
  <2> QED
    BY <1>2, <2>1, ConfirmTypes DEF Poll, PageTypes, nodeVars
<1>3. ASSUME NEW s \in Socket, NEW t \in Txid, PushArrives(s, t)
      PROVE  PageTypes' /\ [SocketNext]_socketVars
  BY <1>3, ConfirmTypes DEF PushArrives, PageTypes
<1>4. ASSUME NEW s \in Socket, NEW t \in Txid, PushTx(s, t)
      PROVE  PageTypes' /\ [SocketNext]_socketVars
  BY <1>4 DEF PushTx, PageTypes, pageVars
<1>5. ASSUME NEW t \in Txid, Mined(t)
      PROVE  PageTypes' /\ [SocketNext]_socketVars
  BY <1>5 DEF Mined, PageTypes, pageVars
<1>6. ASSUME UNCHANGED pageVars, status' = status, SocketNext
      PROVE  PageTypes' /\ [SocketNext]_socketVars
  BY <1>6 DEF PageTypes, pageVars
<1>7. CASE Connects
  BY <1>6, <1>7 DEF Connects, SocketNext, nodeVars
<1>8. ASSUME NEW s \in Socket, Reopens(s) \/ Breaks(s) \/ Notices(s)
      PROVE  PageTypes' /\ [SocketNext]_socketVars
  BY <1>6, <1>8 DEF Reopens, Breaks, Notices, SocketNext, nodeVars
<1>9. ASSUME NEW s \in Socket, NEW t \in Txid, Reads(s, t)
      PROVE  PageTypes' /\ [SocketNext]_socketVars
  BY <1>6, <1>9 DEF Reads, SocketNext, nodeVars
<1>10. CASE UNCHANGED vars
  BY <1>10 DEF vars, nodeVars, pageVars, PageTypes
<1> QED
  BY <1>1, <1>2, <1>3, <1>4, <1>5, <1>7, <1>8, <1>9, <1>10, UserStep,
     FetchStep DEF Next, Fetching, Network

LEMMA PageStart ==
    Init => SocketInit /\ PageTypes
BY DEF Init, PageTypes, NoSearch

\* All that the page of a watched transaction does with the socket are steps
\* of the socket: it never watches what is no transaction and never gives up
\* or takes up a watch twice.
THEOREM PageUsesSocket ==
    Spec => SocketSpec
BY PageStart, PageStep, PTL DEF Spec, SocketSpec

-----------------------------------------------------------------------------
(* What holds of the socket, and with it of the page *)

\* However views subscribe, connections fail and timeouts fire, there is one
\* connection or one pending reconnect, never two of either.
THEOREM SocketOneConnection ==
    Spec => []OneConnection
<1>1. SocketInv => OneConnection
  BY DEF SocketInv
<1> QED
  BY <1>1, SocketStart, SocketStep, PageUsesSocket, PTL DEF SocketSpec

\* Being connected, being told and being watched change together.
LEMMA PromiseStep ==
    ASSUME SocketInv, SocketInv', [SocketNext]_socketVars
    PROVE  [Promise!SubNext]_(Promise!subVars)
<1> DEFINE held == {t \in Txid : watches[t] # {}}
           served == IF Up THEN Told(ws) ELSE {}
<1>2. served' = IF Up' THEN held' ELSE {}
  BY DEF SocketInv, ToldOfWatches, Told
<1>3. held' \subseteq Txid
  OBVIOUS
<1>4. Up' = Up \/ held' = held
  <2>1. ASSUME UNCHANGED watches
        PROVE  held' = held
    BY <2>1
  <2>2. ASSUME NEW c \in Callback, NEW old \in Txid \cup {None},
               NEW new \in Txid \cup {None}, Moves(c, old, new)
        PROVE  Up' = Up
    <3>1. CASE UNCHANGED <<ws, link>>
      BY <3>1 DEF Up
    <3>2. CASE ws = None /\ timers = 0 /\ \E s \in Socket : Connect(s)
      <4>1. timers' = 0
        BY <2>2, <3>2 DEF Moves
      <4>2. ~ Up /\ ~ Up'
        BY <3>2, <4>1, ConnectIsFirst, NoneIdle DEF SocketInv
      <4> QED
        BY <4>2 DEF Up
    <3> QED
      BY <2>2, <3>1, <3>2 DEF Moves, Ensure
  <2> QED
    BY <2>1, <2>2 DEF SocketNext, Subscribe, TimerFires, Opens, Fails, Lost,
       Closes, ServerReads, watchVars, socketVars
<1>5. CASE Up' = Up
  <2> SUFFICES \E H \in SUBSET Txid : /\ held' = H
                                     /\ served' = (IF Up THEN H ELSE {})
                                     /\ Up' = Up
    BY DEF Promise!SubNext, Promise!Change
  <2> HIDE DEF held, served
  <2> QED
    BY <1>2, <1>3, <1>5
<1>6. CASE Up' # Up /\ held' = held
  <2> SUFFICES \/ ~ Up /\ Up' = TRUE /\ served' = held /\ held' = held
               \/ Up /\ Up' = FALSE /\ served' = {} /\ held' = held
    BY DEF Promise!SubNext, Promise!Connect, Promise!Disconnect
  <2>1. Up \in BOOLEAN /\ Up' \in BOOLEAN
    BY DEF Up
  <2> HIDE DEF held, served
  <2> QED
    BY <1>2, <1>6, <2>1
<1> QED
  BY <1>4, <1>5, <1>6

\* The socket implements the abstract subscription: whatever sequence of
\* losses, reopenings and changes led there, the live connection's server has
\* been told of exactly the watches that some view holds.
THEOREM SocketKeepsPromise ==
    Spec => PromiseKept
<1>1. SocketInit => Promise!SubInit
  BY DEF SocketInit, Promise!SubInit, Up
<1> QED
  BY <1>1, SocketStart, SocketStep, PromiseStep, PageUsesSocket, PTL
     DEF SocketSpec, PromiseKept, Promise!SubSpec

-----------------------------------------------------------------------------
(* The page keeps to its own transaction *)

\* The socket knows of no other callback than that of the page on screen.
WatchedOnly ==
    \A t \in Txid : watches[t] \subseteq
        IF t = Wanted(view, tx, watching) THEN {TheCallback} ELSE {}

\* Only the page of a pending transaction has a fetch, one at a time, exactly
\* while its flag is set.
OneFetch ==
    /\ checking \in BOOLEAN
    /\ checking <=> \E f \in flights : f.own
    /\ \A f \in flights : f.own => view = "pending"
    /\ \A f, g \in flights : f.own /\ g.own => f = g

\* No answer on its way says "confirmed" of a transaction that is not.
AnswersTrue ==
    /\ \A f \in flights : f.answer = "confirmed" => status[f.id] = "confirmed"
    /\ search.at = "answered" /\ search.tx # None =>
           (search.tx.status = "confirmed" =>
                status[search.tx.id] = "confirmed")

PageTrue ==
    ~ strayed =>
        /\ view \in {"pending", "confirmed"} => tx.status = view
        /\ view = "confirmed" => status[tx.id] = "confirmed"
        /\ \A f \in flights : f.own => f.id = tx.id

OwnInv ==
    /\ PageTypes /\ WatchedOnly /\ OneFetch /\ AnswersTrue /\ PageTrue
    /\ view = "pending" => search.at = "none"
    /\ view = "confirmed" => tx \in Tx

\* Rendering moves the callback along with what the page watches.
LEMMA RenderWatches ==
    ASSUME WatchedOnly, NEW v, NEW x, NEW w, NEW F, NEW busy,
           Wanted(view, tx, watching) \in Txid \cup {None},
           Wanted(v, x, w) \in Txid \cup {None},
           Render(v, x, w, F, busy)
    PROVE  WatchedOnly'
<1> DEFINE old == Wanted(view, tx, watching)
           new == Wanted(v, x, w)
<1>1. Wanted(view, tx, watching)' = new
  BY DEF Render, Wanted
<1>2. CASE old = new
  <2>1. watches' = watches
    BY <1>2 DEF Render, socketVars, watchVars
  <2> QED
    BY <1>1, <1>2, <2>1 DEF WatchedOnly
<1>3. CASE old # new
  <2>1. watches' = After(TheCallback, old, new)
    BY <1>3 DEF Render, Moves
  <2> SUFFICES ASSUME NEW t \in Txid
      PROVE  watches'[t] \subseteq IF t = new THEN {TheCallback} ELSE {}
    BY <1>1 DEF WatchedOnly
  <2>2. watches[t] \subseteq IF t = old THEN {TheCallback} ELSE {}
    BY DEF WatchedOnly
  <2> HIDE DEF old, new
  <2> QED
    BY <1>3, <2>1, <2>2 DEF After
<1> QED
  BY <1>2, <1>3

\* Rendering leaves fetches to the page that began them.
LEMMA RenderFetches ==
    ASSUME OneFetch, flights \subseteq Flight, NEW v, NEW x, NEW w,
           NEW F \in SUBSET flights, NEW busy \in BOOLEAN,
           busy <=> \E f \in F : f.own,
           Render(v, x, w, F, busy)
    PROVE  /\ OneFetch'
           /\ \A f \in flights' : \E g \in F :
                  f.id = g.id /\ f.answer = g.answer /\ (f.own => f = g)
<1>1. view' = v /\ F \subseteq Flight
  BY DEF Render
<1>2. CASE view = "pending" /\ v # "pending"
  <2>1. flights' = Unmounted(F) /\ checking' = FALSE
    BY <1>2 DEF Render
  <2>2. \A f \in flights' : \E g \in F :
            f.id = g.id /\ f.answer = g.answer /\ f.own = FALSE
    BY <1>1, <2>1 DEF Unmounted, Flight
  <2> QED
    BY <2>1, <2>2 DEF OneFetch
<1>3. CASE ~ (view = "pending" /\ v # "pending")
  <2>1. flights' = F /\ checking' = busy
    BY <1>3 DEF Render
  <2> QED
    BY <1>1, <1>3, <2>1 DEF OneFetch
<1> QED
  BY <1>2, <1>3

\* What a step that renders the page leaves to show is whether the page then
\* tells the truth.
LEMMA RenderOwn ==
    ASSUME OwnInv, NEW v, NEW x, NEW w, NEW F \in SUBSET flights,
           NEW busy \in BOOLEAN, busy <=> \E f \in F : f.own,
           v \in {"pending", "confirmed"} => x \in Tx,
           Render(v, x, w, F, busy), status' = status,
           search' \in {search, NoSearch, Asked},
           v = "pending" => search'.at = "none", PageTrue'
    PROVE  OwnInv'
<1>1. PageTypes /\ F \subseteq Flight
  BY DEF OwnInv, PageTypes
<1>2. PageTypes'
  BY <1>1, Renders
<1>3. WatchedOnly'
  BY <1>1, WantedType, RenderWatches DEF OwnInv, PageTypes
<1>4. OneFetch' /\ \A f \in flights' : \E g \in F :
          f.id = g.id /\ f.answer = g.answer /\ (f.own => f = g)
  BY RenderFetches DEF OwnInv, PageTypes
<1>5. AnswersTrue'
  <2>1. \A f \in flights' : f.answer = "confirmed" =>
            status'[f.id] = "confirmed"
    BY <1>4 DEF OwnInv, AnswersTrue
  <2>2. search'.at = "answered" => search' = search
    BY DEF NoSearch, Asked
  <2> QED
    BY <2>1, <2>2 DEF OwnInv, AnswersTrue
<1>6. view' = v /\ tx' = x
  BY DEF Render
<1> QED
  BY <1>2, <1>3, <1>4, <1>5, <1>6 DEF OwnInv

\* A page without fetches of its own tells the truth if its transaction does.
LEMMA RenderTruth ==
    ASSUME OwnInv, NEW v, NEW x, NEW w, v # "pending" \/ view # "pending",
           Render(v, x, w, flights, checking), status' = status,
           v \in {"pending", "confirmed"} => x.status = v,
           v = "confirmed" => status[x.id] = "confirmed"
    PROVE  PageTrue'
<1>1. checking \in BOOLEAN /\ (checking <=> \E f \in flights : f.own)
      /\ OneFetch /\ flights \subseteq Flight
  BY DEF OwnInv, OneFetch, PageTypes
<1>2. OneFetch' /\ \A f \in flights' : \E g \in flights :
          f.id = g.id /\ f.answer = g.answer /\ (f.own => f = g)
  BY <1>1, RenderFetches
<1>3. view' = v /\ tx' = x
  BY DEF Render
<1>4. \A f \in flights' : ~ f.own
  BY <1>1, <1>2, <1>3 DEF OneFetch
<1> QED
  BY <1>3, <1>4 DEF PageTrue

LEMMA UserOwn ==
    ASSUME OwnInv, User \/ SearchReturns
    PROVE  OwnInv'
<1>1. checking \in BOOLEAN /\ (checking <=> \E f \in flights : f.own)
      /\ flights \in SUBSET flights
  BY DEF OwnInv, OneFetch
<1>2. CASE Search
  <2>1. Render("loading", tx, FALSE, flights, checking)
        /\ search' = Asked /\ status' = status
    BY <1>2 DEF Search, nodeVars
  <2>2. PageTrue'
    BY <2>1, RenderTruth
  <2> QED
    BY <1>1, <2>1, <2>2, RenderOwn
<1>3. CASE GoHome
  <2>1. Render("landing", None, FALSE, flights, checking)
        /\ search' = search /\ status' = status
    BY <1>3 DEF GoHome, nodeVars
  <2>2. PageTrue'
    BY <2>1, RenderTruth
  <2> QED
    BY <1>1, <2>1, <2>2, RenderOwn
<1>4. CASE WatchStart \/ WatchStop
  <2>1. PICK w : Render(view, tx, w, flights, checking)
    BY <1>4 DEF WatchStart, WatchStop
  <2>2. view = "pending" /\ search' = search /\ status' = status
        /\ strayed' = strayed
    BY <1>4 DEF WatchStart, WatchStop, nodeVars
  <2>3. view' = view /\ tx' = tx /\ flights' = flights
    BY <2>1, <2>2 DEF Render
  <2>4. PageTrue'
    BY <2>2, <2>3 DEF OwnInv, PageTrue
  <2> QED
    BY <1>1, <2>1, <2>2, <2>4, RenderOwn DEF OwnInv, PageTypes
<1>5. CASE SearchReturns
  <2>1. search.at = "answered" /\ view # "pending" /\ search' = NoSearch
        /\ search'.at = "none" /\ status' = status
    BY <1>5 DEF SearchReturns, OwnInv, NoSearch, nodeVars
  <2>2. CASE search.tx = None
    <3>1. Render("other", tx, watching, flights, checking)
      BY <1>5, <2>2 DEF SearchReturns
    <3>2. PageTrue'
      BY <2>1, <3>1, RenderTruth
    <3> QED
      BY <1>1, <2>1, <3>1, <3>2, RenderOwn
  <2>3. CASE search.tx # None
    <3>1. Render(search.tx.status, search.tx, watching, flights, checking)
      BY <1>5, <2>3 DEF SearchReturns
    <3>2. search.tx \in Tx
          /\ (search.tx.status = "confirmed" =>
                  status[search.tx.id] = "confirmed")
      BY <2>1, <2>3 DEF OwnInv, PageTypes, AnswersTrue
    <3>3. PageTrue'
      BY <2>1, <3>1, <3>2, RenderTruth
    <3> QED
      BY <1>1, <2>1, <3>1, <3>2, <3>3, RenderOwn
  <2> QED
    BY <2>2, <2>3
<1> QED
  BY <1>2, <1>3, <1>4, <1>5 DEF User

\* A fetch starts for the page's own transaction.
LEMMA ConfirmOwn ==
    ASSUME OwnInv, view = "pending", Confirm(tx.id),
           UNCHANGED <<watches, status, view, tx, watching, search, strayed>>
    PROVE  OwnInv'
<1> DEFINE new == [id |-> tx.id, own |-> TRUE, answer |-> "none"]
<1>1. CASE checking
  BY <1>1 DEF Confirm, OwnInv, PageTypes, WatchedOnly, OneFetch, AnswersTrue,
     PageTrue, Wanted
<1>2. CASE ~ checking
  <2>1. flights' = flights \cup {new} /\ checking' = TRUE
    BY <1>2 DEF Confirm
  <2>2. new.own /\ new.id = tx.id /\ new.answer = "none"
    OBVIOUS
  <2>3. tx \in Tx /\ new \in Flight
    BY DEF OwnInv, PageTypes, Tx, Flight
  <2> HIDE DEF new
  <2>4. \A f \in flights : ~ f.own
    BY <1>2 DEF OwnInv, OneFetch
  <2>5. OneFetch' /\ PageTrue' /\ AnswersTrue'
    BY <2>1, <2>2, <2>4 DEF OwnInv, OneFetch, PageTrue, AnswersTrue
  <2>6. PageTypes' /\ WatchedOnly'
    BY <2>1, <2>3 DEF OwnInv, PageTypes, WatchedOnly, Wanted
  <2> QED
    BY <2>5, <2>6 DEF OwnInv
<1> QED
  BY <1>1, <1>2 DEF OwnInv, OneFetch

LEMMA FetchOwn ==
    ASSUME OwnInv, NEW f \in flights,
           FetchReads(f) \/ FetchReturns(f) \/ FetchFails(f)
    PROVE  OwnInv'
<1> DEFINE F == flights \ {f}
           busy == checking /\ ~ f.own
<1>1. PageTypes /\ OneFetch /\ AnswersTrue /\ PageTrue /\ f \in Flight
      /\ PageTypes'
  BY FetchStep DEF OwnInv, PageTypes
<1>2. busy \in BOOLEAN /\ (busy <=> \E g \in F : g.own)
      /\ F \in SUBSET flights
  BY <1>1 DEF OneFetch
<1>3. CASE FetchReads(f)
  <2> DEFINE e == [f EXCEPT !.answer = status[f.id]]
  <2>1. flights' = F \cup {e} /\ e.id = f.id /\ e.own = f.own
        /\ e.answer = status[f.id]
        /\ UNCHANGED <<watches, status, view, tx, watching, search, strayed,
                       checking>>
    BY <1>1, <1>3 DEF FetchReads, Flight, nodeVars, socketVars, watchVars
  <2> HIDE DEF e
  <2>2. OneFetch' /\ AnswersTrue' /\ PageTrue'
    BY <1>1, <2>1 DEF OneFetch, AnswersTrue, PageTrue
  <2> QED
    BY <1>1, <2>1, <2>2 DEF OwnInv, WatchedOnly, Wanted
<1>4. CASE FetchReturns(f)
  <2> DEFINE new == [id |-> f.id, status |-> f.answer]
  <2>1. f.answer \in {"pending", "confirmed"} /\ new \in Tx
        /\ new.id = f.id /\ new.status = f.answer
    BY <1>1, <1>4 DEF FetchReturns, Flight, Tx
  <2>2. status' = status /\ search' = search
        /\ strayed' = (strayed \/ ~ f.own)
    BY <1>4 DEF FetchReturns, nodeVars
  <2>3. f.own => view = "pending" /\ (~ strayed => f.id = tx.id)
    BY <1>1 DEF OneFetch, PageTrue
  <2>4. f.own => \A g \in F : ~ g.own
    BY <1>1 DEF OneFetch
  <2>5. CASE f.answer = "confirmed"
    <3>1. Render("confirmed", new, FALSE, F, busy)
      BY <1>4, <2>5 DEF FetchReturns
    <3>2. status[f.id] = "confirmed"
      BY <1>1, <2>5 DEF AnswersTrue
    <3> HIDE DEF new, F, busy
    <3>3. view' = "confirmed" /\ tx' = new
      BY <3>1 DEF Render
    <3>4. OneFetch'
      BY <1>1, <1>2, <3>1, RenderFetches DEF PageTypes
    <3>5. PageTrue'
      BY <2>1, <2>2, <2>5, <3>2, <3>3, <3>4 DEF PageTrue, OneFetch
    <3> QED
      BY <1>2, <2>1, <2>2, <3>1, <3>5, RenderOwn
  <2>6. CASE f.answer # "confirmed"
    <3>1. Render(view, new, watching, F, busy)
      BY <1>4, <2>6 DEF FetchReturns
    <3>2. view' = view /\ tx' = new /\ flights' = F
      BY <3>1 DEF Render
    <3> HIDE DEF new, F, busy
    <3>3. PageTrue'
      BY <2>1, <2>2, <2>3, <2>4, <2>6, <3>2 DEF PageTrue
    <3> QED
      BY <1>2, <2>1, <2>2, <3>1, <3>3, RenderOwn DEF OwnInv
  <2> QED
    BY <2>5, <2>6
<1>5. CASE FetchFails(f)
  <2>1. flights' = F /\ checking' = busy
        /\ UNCHANGED <<watches, status, view, tx, watching, search, strayed>>
    BY <1>5 DEF FetchFails, nodeVars, socketVars, watchVars
  <2>2. OneFetch' /\ AnswersTrue' /\ PageTrue'
    BY <1>1, <1>2, <2>1 DEF OneFetch, AnswersTrue, PageTrue
  <2> QED
    BY <1>1, <2>1, <2>2 DEF OwnInv, WatchedOnly, Wanted
<1> QED
  BY <1>3, <1>4, <1>5

\* What does not touch the page or the callbacks, and confirms at most.
LEMMA ElsewhereOwn ==
    ASSUME OwnInv, UNCHANGED pageVars, watches' = watches,
           status' \in [Txid -> {"pending", "confirmed"}],
           \A t \in Txid : status[t] = "confirmed" => status'[t] = "confirmed"
    PROVE  OwnInv'
<1>1. PageTypes' /\ WatchedOnly' /\ OneFetch'
  BY DEF OwnInv, pageVars, PageTypes, WatchedOnly, Wanted, OneFetch
<1>2. AnswersTrue'
  <2>1. \A f \in flights : f.id \in Txid
    BY DEF OwnInv, PageTypes, Flight
  <2>2. search.at = "answered" /\ search.tx # None => search.tx.id \in Txid
    BY DEF OwnInv, PageTypes, Tx
  <2> QED
    BY <2>1, <2>2 DEF OwnInv, AnswersTrue, pageVars
<1>3. PageTrue'
  <2>1. view = "confirmed" => tx.id \in Txid
    BY DEF OwnInv, Tx
  <2> QED
    BY <2>1 DEF OwnInv, PageTrue, pageVars
<1> QED
  BY <1>1, <1>2, <1>3 DEF OwnInv, pageVars

LEMMA OwnStep ==
    ASSUME OwnInv, [Next]_vars
    PROVE  OwnInv'
<1>1. CASE SearchReads
  <2>1. UNCHANGED <<watches, status, view, tx, watching, flights, checking,
                    strayed>> /\ search.at = "asked"
    BY <1>1 DEF SearchReads, socketVars, watchVars, nodeVars, Asked
  <2>2. PageTypes'
    BY <1>1, PageStep DEF OwnInv, Next
  <2>3. search'.tx # None => search'.tx.status = status[search'.tx.id]
    BY <1>1 DEF SearchReads, Found
  <2>4. AnswersTrue' /\ WatchedOnly' /\ OneFetch' /\ PageTrue'
    BY <2>1, <2>3
       DEF OwnInv, AnswersTrue, WatchedOnly, Wanted, OneFetch, PageTrue
  <2> QED
    BY <2>1, <2>2, <2>4 DEF OwnInv
<1>2. CASE Poll
  BY <1>2, ConfirmOwn
     DEF Poll, Wanted, nodeVars, socketVars, watchVars
<1>3. ASSUME NEW s \in Socket, NEW t \in Txid, PushArrives(s, t)
      PROVE  OwnInv'
  <2>1. UNCHANGED <<watches, status, view, tx, watching, search, strayed>>
    BY <1>3 DEF PushArrives, socketVars, watchVars
  <2>2. CASE watches[t] # {}
    <3>1. t = Wanted(view, tx, watching) /\ t # None /\ Confirm(t)
      BY <1>3, <2>2, LiveSocketAssumption
         DEF OwnInv, WatchedOnly, PushArrives, LiveSocketAssumption
    <3>2. view = "pending" /\ t = tx.id
      BY <3>1 DEF Wanted
    <3> QED
      BY <2>1, <3>1, <3>2, ConfirmOwn
  <2>3. CASE watches[t] = {}
    <3>1. UNCHANGED <<flights, checking>>
      BY <1>3, <2>3 DEF PushArrives
    <3> QED
      BY <2>1, <3>1, ElsewhereOwn DEF pageVars, OwnInv, PageTypes
  <2> QED
    BY <2>2, <2>3
<1>4. ASSUME NEW t \in Txid, Mined(t)
      PROVE  OwnInv'
  <2>1. /\ status' \in [Txid -> {"pending", "confirmed"}]
        /\ \A r \in Txid : status[r] = "confirmed" => status'[r] = "confirmed"
        /\ UNCHANGED pageVars /\ watches' = watches
    BY <1>4 DEF Mined, OwnInv, PageTypes, socketVars, watchVars
  <2> QED
    BY <2>1, ElsewhereOwn
<1>5. ASSUME UNCHANGED <<pageVars, status, watches>>
      PROVE  OwnInv'
  BY <1>5, ElsewhereOwn DEF OwnInv, PageTypes
<1>6. ASSUME NEW s \in Socket, NEW t \in Txid, PushTx(s, t) \/ Reads(s, t)
      PROVE  OwnInv'
  BY <1>5, <1>6
     DEF PushTx, Reads, ServerReads, nodeVars, socketVars, watchVars
<1>7. CASE Connects
  BY <1>5, <1>7
     DEF Connects, Subscribe, TimerFires, nodeVars, watchVars
<1>8. ASSUME NEW s \in Socket, Reopens(s) \/ Breaks(s) \/ Notices(s)
      PROVE  OwnInv'
  BY <1>5, <1>8 DEF Reopens, Breaks, Notices, Opens, Fails, Lost, Closes,
     nodeVars, watchVars
<1>9. CASE UNCHANGED vars
  BY <1>5, <1>9 DEF vars, nodeVars, socketVars, watchVars
<1> QED
  BY <1>1, <1>2, <1>3, <1>4, <1>6, <1>7, <1>8, <1>9, UserOwn, FetchOwn
     DEF Next, Fetching, Network

LEMMA OwnStart ==
    Init => OwnInv
<1> SUFFICES ASSUME Init PROVE OwnInv
  OBVIOUS
<1>1. flights = {} /\ search.at = "none" /\ view = "landing" /\ ~ checking
      /\ checking \in BOOLEAN
  BY DEF Init, NoSearch
<1>2. WatchedOnly
  BY DEF Init, SocketInit, WatchedOnly
<1>3. OneFetch /\ AnswersTrue /\ PageTrue
  BY <1>1 DEF OneFetch, AnswersTrue, PageTrue
<1> QED
  BY <1>1, <1>2, <1>3, PageStart DEF OwnInv

\* Unless an answer to an earlier page strays to it, a page asks about its
\* own transaction only, one fetch at a time, and says "confirmed" only of
\* what the node has confirmed.
THEOREM PageKeepsToItsOwn ==
    Spec => []PageIsOwn
<1>1. OwnInv => PageIsOwn
  BY DEF OwnInv, OneFetch, PageTrue, PageIsOwn
<1> QED
  BY <1>1, OwnStart, OwnStep, PTL DEF Spec
=============================================================================
