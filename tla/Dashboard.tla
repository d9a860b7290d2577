------------------------------ MODULE Dashboard ------------------------------
(***************************************************************************)
(* The landing page's data (web/src/hooks/useNetworkData.ts): dashboard    *)
(* numbers, live mempool payload, mined-block flash and ribbon of recent   *)
(* blocks, fed by the pushes of the socket and, while it is down, by a     *)
(* REST poll; and the flight of a mined block over the page                *)
(* (MempoolQueue.tsx, MinedRibbon.tsx).                                    *)
(*                                                                         *)
(* The server answers from its live cache (LiveCache.tla), which lags the  *)
(* node.  Its push goroutines deliver in any order, a REST answer may come *)
(* long after newer pushes, and the chain may be reorganised meanwhile.    *)
(* LiveSocket.tla models how the socket comes and goes.                    *)
(***************************************************************************)
EXTENDS Naturals, Sequences, FiniteSets

CONSTANTS
    None,        \* null
    Asked,       \* a request the server has not answered yet
    Branch,      \* tells apart the blocks of one height
    MaxHeight,   \* bound on the chain
    RibbonMax,   \* RECENT_BLOCKS_MAX, and the server's recentBlockCount
    FlashTime,   \* minedFlashSeconds
    FlightTime,  \* FLIGHT_MS
    MaxInbox,    \* bound on the pushes under way
    MaxFaults    \* bound on lost connections and failed requests

ASSUME DashboardAssumption ==
    /\ Branch # {}
    /\ MaxHeight \in Nat \ {0} /\ RibbonMax \in Nat \ {0}
    /\ FlightTime \in Nat \ {0} /\ FlashTime \in Nat
    /\ FlightTime < FlashTime
    /\ MaxInbox \in Nat \ {0} /\ MaxFaults \in Nat
    /\ None \notin Nat

VARIABLES
    chain,       \* the node's best chain: the branch at every height
    cached,      \* the dashboard numbers in the server's live cache, or None
    open,        \* live.isOpen
    inbox,       \* pushes under way to this page
    loads,       \* REST loads under way: Asked, or what the server answered
    stats,       \* data.stats
    mempool,     \* is there a data.mempool?
    minedFlash,  \* data.minedFlash
    blocks,      \* data.blocks
    connected,   \* data.connected
    flashTimers, \* the pending flash timeouts: the block and the time left
    flying,      \* useFlyingBlock's state: a height, or None
    flight,      \* time left of its timeout, or None
    faults       \* lost connections and failed requests so far

serverVars == <<chain, cached>>
linkVars   == <<open, inbox, loads>>
dataVars   == <<stats, mempool, minedFlash, blocks, connected>>
timerVars  == <<flashTimers, flying, flight>>
vars       == <<serverVars, linkVars, dataVars, timerVars, faults>>

-----------------------------------------------------------------------------
(* The server *)

BlockAt(c, h) == [height |-> h, branch |-> c[h]]

\* The newest RibbonMax blocks of a chain.
Window(c) ==
    {BlockAt(c, h) : h \in {i \in 1 .. Len(c) : i + RibbonMax > Len(c)}}

InFlight(type) == {m \in inbox : m.type = type}

Push(M) == inbox' = IF open THEN inbox \cup M ELSE inbox

\* A block extends the chain, or two of another branch replace its tip.  The
\* hub flashes them, but skips one when the next follows too fast.
BlockConnected ==
    /\ InFlight("block") = {}
    /\ \E b \in Branch, base \in {Len(chain), Len(chain) - 1} :
        /\ base > 0
        /\ chain' = SubSeq(chain, 1, base)
                        \o [i \in 1 .. Len(chain) - base + 1 |-> b]
        /\ base < Len(chain) => b # chain[Len(chain)]
        /\ Len(chain') <= MaxHeight
        /\ \E H \in SUBSET (base + 1 .. Len(chain')) :
            Push({[type |-> "block", block |-> BlockAt(chain', h)] : h \in H})
    /\ UNCHANGED <<cached, open, loads, dataVars, timerVars, faults>>

\* refreshLive; a walk cut short has the newest of the recent blocks, or none.
Refresh ==
    /\ \/ /\ cached' = [height |-> Len(chain), window |-> Window(chain)]
          /\ UNCHANGED faults
       \/ /\ faults < MaxFaults /\ faults' = faults + 1
          /\ \E h \in {b.height : b \in Window(chain)} :
                cached' = [height |-> Len(chain),
                           window |-> {b \in Window(chain) : b.height > h}]
    /\ UNCHANGED <<chain, linkVars, dataVars, timerVars>>

\* pushStats: on registering, at a block and at every tick of the hub
PushStats ==
    /\ open /\ cached # None /\ Cardinality(InFlight("stats")) < MaxInbox
    /\ Push({[type |-> "stats", stats |-> cached]})
    /\ UNCHANGED <<serverVars, open, loads, dataVars, timerVars, faults>>

-----------------------------------------------------------------------------
(* mergeRecentBlocks *)

\* Seeded fault: the window replaces the blocks shown.
MergeReplacing(preferred, fallback) == preferred

Merge(preferred, fallback) ==
    LET all == preferred \cup
                   {b \in fallback : \A p \in preferred : p.height # b.height}
    IN {b \in all :
            Cardinality({c \in all : c.height > b.height}) < RibbonMax}

-----------------------------------------------------------------------------
(* Pushes and answers *)

\* applyStats, without the fee tiers it asks for at a new height
ApplyStats(s) ==
    /\ stats' = s
    /\ connected' = TRUE
    /\ blocks' = Merge(s.window, blocks)
    /\ UNCHANGED <<mempool, minedFlash, timerVars>>

\* onMempool, on registering, at a block and after arrivals; its content is
\* left out, and so nothing depends on how long it has been under way.
MempoolArrives ==
    /\ open /\ cached # None
    /\ mempool' = TRUE
    /\ UNCHANGED <<serverVars, linkVars, stats, minedFlash, blocks, connected,
                   timerVars, faults>>

\* useFlyingBlock's effect, run when the height announced changes
Fly(h) ==
    IF minedFlash # None /\ minedFlash.height = h
    THEN UNCHANGED <<flying, flight>>
    ELSE flying' = h /\ flight' = FlightTime

\* Seeded fault: the timeout of the flash before is not cleared.
BlockArrivesKeepingTimer(b) ==
    /\ minedFlash' = b
    /\ blocks' = Merge({b}, blocks)
    /\ flashTimers' = flashTimers \cup {[of |-> b, left |-> FlashTime]}
    /\ Fly(b.height)
    /\ UNCHANGED <<stats, mempool, connected>>

\* onBlock
BlockArrives(b) ==
    /\ minedFlash' = b
    /\ blocks' = Merge({b}, blocks)
    /\ flashTimers' = {[of |-> b, left |-> FlashTime]}
    /\ Fly(b.height)
    /\ UNCHANGED <<stats, mempool, connected>>

Arrives(m) ==
    /\ m \in inbox
    /\ inbox' = inbox \ {m}
    /\ \/ m.type = "stats" /\ ApplyStats(m.stats)
       \/ m.type = "block" /\ BlockArrives(m.block)
    /\ UNCHANGED <<serverVars, open, loads, faults>>

\* Seeded fault: the poll stops once the socket has been up.
PollOnceOnly ==
    /\ ~open /\ stats = None
    /\ loads' = loads \cup {Asked}
    /\ UNCHANGED <<serverVars, open, inbox, dataVars, timerVars, faults>>

\* load(), by its interval
Poll ==
    /\ ~open
    /\ loads' = loads \cup {Asked}
    /\ UNCHANGED <<serverVars, open, inbox, dataVars, timerVars, faults>>

LoadReads ==
    /\ Asked \in loads /\ cached # None
    /\ loads' = (loads \ {Asked}) \cup {cached}
    /\ UNCHANGED <<serverVars, open, inbox, dataVars, timerVars, faults>>

\* The answer is taken even if the socket has opened since.
LoadReturns(s) ==
    /\ s \in loads \ {Asked}
    /\ loads' = loads \ {s}
    /\ ApplyStats(s)
    /\ UNCHANGED <<serverVars, open, inbox, faults>>

\* The server has nothing yet, or is out of reach.
LoadFails(l) ==
    /\ l \in loads
    /\ loads' = loads \ {l}
    /\ IF l = Asked /\ cached = None
       THEN UNCHANGED faults
       ELSE faults < MaxFaults /\ faults' = faults + 1
    /\ connected' = FALSE
    /\ UNCHANGED <<serverVars, open, inbox, stats, mempool, minedFlash, blocks,
                   timerVars>>

-----------------------------------------------------------------------------
(* The socket *)

Opens ==
    /\ ~open
    /\ open' = TRUE
    /\ UNCHANGED <<serverVars, inbox, loads, dataVars, timerVars, faults>>

\* The connection goes and what was under way with it; both effects hear of
\* it.  A flight is cut off: its timeout is cleared with the height.
Closes ==
    /\ open /\ faults < MaxFaults
    /\ open' = FALSE
    /\ inbox' = {}
    /\ connected' = FALSE
    /\ mempool' = FALSE /\ minedFlash' = None
    /\ flight' = IF minedFlash = None THEN flight ELSE None
    /\ faults' = faults + 1
    /\ UNCHANGED <<serverVars, loads, stats, blocks,
                   flashTimers, flying>>

-----------------------------------------------------------------------------
(* Timeouts *)

Due == flight = 0 \/ \E t \in flashTimers : t.left = 0

Tick ==
    /\ ~Due /\ (flight # None \/ flashTimers # {})
    /\ flashTimers' = {[t EXCEPT !.left = @ - 1] : t \in flashTimers}
    /\ flight' = IF flight = None THEN None ELSE flight - 1
    /\ UNCHANGED <<serverVars, linkVars, dataVars, flying, faults>>

FlightEnds ==
    /\ flight = 0
    /\ flight' = None /\ flying' = None
    /\ UNCHANGED <<serverVars, linkVars, dataVars, flashTimers, faults>>

\* The height announced becomes null, which also clears a flight's timeout.
FlashEnds ==
    /\ \E t \in flashTimers :
        /\ t.left = 0
        /\ flashTimers' = flashTimers \ {t}
    /\ minedFlash' = None
    /\ flight' = IF minedFlash = None THEN flight ELSE None
    /\ UNCHANGED <<serverVars, linkVars, stats, mempool, blocks, connected,
                   flying, faults>>

-----------------------------------------------------------------------------
\* Mounting subscribes to the socket and loads at once.
Init ==
    /\ chain = <<CHOOSE b \in Branch : TRUE>> /\ cached = None
    /\ open = FALSE /\ inbox = {} /\ loads = {Asked}
    /\ stats = None /\ mempool = FALSE /\ minedFlash = None /\ blocks = {}
    /\ connected = FALSE
    /\ flashTimers = {} /\ flying = None /\ flight = None
    /\ faults = 0

Receive(type) == \E m \in InFlight(type) : Arrives(m)

Loaded == \E l \in loads : LoadReturns(l)

Next ==
    \/ BlockConnected \/ Refresh \/ PushStats \/ MempoolArrives
    \/ \E type \in {"stats", "block"} : Receive(type)
    \/ Poll \/ LoadReads \/ Loaded
    \/ \E l \in loads : LoadFails(l)
    \/ Opens \/ Closes
    \/ Tick \/ FlightEnds \/ FlashEnds

Spec == Init /\ [][Next]_vars

(***************************************************************************)
(* Fairness.  The tickers of the live cache, of the hub and of the page's  *)
(* poll fire, and what was sent or asked is answered.  The socket need     *)
(* never open; MaxFaults bounds how often it is lost or a request fails.   *)
(***************************************************************************)
Fairness ==
    /\ WF_vars(Refresh /\ UNCHANGED faults)
    /\ WF_vars(PushStats) /\ WF_vars(Receive("stats"))
    /\ WF_vars(Poll) /\ WF_vars(LoadReads) /\ WF_vars(Loaded)
    /\ WF_vars(LoadFails(Asked) /\ UNCHANGED faults)

FairSpec == Spec /\ Fairness

-----------------------------------------------------------------------------
(* Properties *)

\* The status the landing page shows, of a node that is in sync
LiveStatusPill ==
    IF ~connected \/ stats = None THEN "connecting" ELSE "live"

Newest(B) == CHOOSE h \in {b.height : b \in B} : \A b \in B : b.height <= h

\* The ribbon never loses the newest block to a payload that does not know it
\* yet (useNetworkData.ts:65, "blocks pushed since then stay"): pushes may
\* overtake each other and a REST answer may be older than either.
NewestStays == [][blocks # {} => Newest(blocks') >= Newest(blocks)]_vars

\* What only a live connection can keep up to date is never left behind: no
\* live payload outlives its connection (useNetworkData.ts:138), a flash on
\* the page has a timeout of its own, no timeout of an earlier flash ends it
\* early, and while it is up a flight has the timeout that ends it.
LiveLayerSound ==
    /\ ~open => ~mempool /\ minedFlash = None
    /\ minedFlash # None => flashTimers # {}
    /\ \A t \in flashTimers : minedFlash \in {None, t.of}
    /\ minedFlash # None /\ flying # None => flight # None

\* With or without a socket, and after whatever overtook what, the page comes
\* to show the node's height and exactly the newest blocks of its chain, no
\* orphan among them, and says that the network is live.
DashboardSettles ==
    <>[](/\ LiveStatusPill = "live"
         /\ stats.height = Len(chain)
         /\ blocks = Window(chain))
=============================================================================
