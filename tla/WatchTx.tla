------------------------------ MODULE WatchTx ------------------------------
(***************************************************************************)
(* "Watch this transaction": the page of a pending transaction             *)
(* (web/src/hooks/useWatchTx.ts and the reducer, web/src/state.ts) over    *)
(* the live socket (LiveSocket.tla) and the server that pushes to it.      *)
(*                                                                         *)
(* While the connection is open the server's pushes tell of the            *)
(* confirmation; while it is not, a poll does.  Either way the page then   *)
(* fetches the transaction, and what the fetch answers goes to the         *)
(* reducer, whatever page is shown by then.  A dispatch, the render and    *)
(* the effects it causes are one step.  Only "confirmed" pushes are        *)
(* modelled: a push of a queue position changes figures on the page only.  *)
(***************************************************************************)
EXTENDS LiveSocket, FiniteSets

CONSTANTS
    MaxFaults,   \* bound on the connections and fetches that fail
    MaxFlights   \* bound on the confirmation fetches under way

ASSUME WatchTxAssumption ==
    MaxFaults \in Nat /\ MaxFlights \in Nat \ {0} /\ Callback # {}

VARIABLES
    status,     \* of every transaction, at the node
    news,       \* transactions whose confirmation is pushed on a connection
    view,       \* state.view; "other" stands for every page without a tx
    tx,         \* state.tx: its txid and status
    watching,   \* state.watching
    search,     \* the latest search: under way, answered, or none
    flights,    \* the fetches of confirm() under way
    checking,   \* checking.current of the page on screen
    strayed,    \* history: has an answer to an earlier page been applied?
    faults      \* number of failures so far

nodeVars == <<status, news>>
pageVars == <<view, tx, watching, search, flights, checking, strayed>>
vars == <<socketVars, nodeVars, pageVars, faults>>

Tx == [id : Txid, status : {"pending", "confirmed"}]

\* tx = None: the search found no transaction (and perhaps something else).
Found(x) == [at |-> "answered", tx |-> x]
NoSearch == [at |-> "none", tx |-> None]
Asked    == [at |-> "asked", tx |-> None]

\* own: started by the page on screen, whose flag it resets when it ends.
Flight == [id : Txid, own : BOOLEAN, answer : {"none", "pending", "confirmed"}]

TheCallback == CHOOSE c \in Callback : TRUE

-----------------------------------------------------------------------------
(* The page *)

\* The transaction useWatchTx watches on a page, or None.
Wanted(v, x, w) == IF v = "pending" /\ w THEN x.id ELSE None

\* Leaving the page of a pending transaction unmounts it: the fetches it
\* started go on, with a flag nobody looks at any more.
Unmounted(F) == {[f EXCEPT !.own = FALSE] : f \in F}

\* The page becomes what the reducer says, fetches F being under way, and
\* the effects of useWatchTx run if it watches something else than before.
Render(v, x, w, F, busy) ==
    LET leaves == view = "pending" /\ v # "pending"
        old == Wanted(view, tx, watching)
        new == Wanted(v, x, w)
    IN  /\ view' = v /\ tx' = x /\ watching' = w
        /\ flights' = IF leaves THEN Unmounted(F) ELSE F
        /\ checking' = (busy /\ ~ leaves)
        /\ IF old = new THEN UNCHANGED socketVars
                        ELSE Moves(TheCallback, old, new)

\* search-start
Search ==
    /\ Render("loading", tx, FALSE, flights, checking)
    /\ search' = Asked
    /\ UNCHANGED <<nodeVars, strayed, faults>>

\* The server finds a transaction, or something else, or nothing.
SearchReads ==
    /\ search = Asked
    /\ search' \in {Found([id |-> t, status |-> status[t]]) : t \in Txid}
                     \cup {Found(None)}
    /\ UNCHANGED <<socketVars, nodeVars, view, tx, watching, flights, checking,
                   strayed, faults>>

\* search-result
SearchReturns ==
    /\ search.at = "answered"
    /\ IF search.tx = None
       THEN Render("other", tx, watching, flights, checking)
       ELSE Render(search.tx.status, search.tx, watching, flights, checking)
    /\ search' = NoSearch /\ strayed' = FALSE
    /\ UNCHANGED <<nodeVars, faults>>

\* reset; the search under way goes on.
GoHome ==
    /\ view # "landing"
    /\ Render("landing", None, FALSE, flights, checking)
    /\ strayed' = FALSE
    /\ UNCHANGED <<nodeVars, search, faults>>

WatchStart ==
    /\ view = "pending" /\ ~ watching
    /\ Render(view, tx, TRUE, flights, checking)
    /\ UNCHANGED <<nodeVars, search, strayed, faults>>

WatchStop ==
    /\ view = "pending" /\ watching
    /\ Render(view, tx, FALSE, flights, checking)
    /\ UNCHANGED <<nodeVars, search, strayed, faults>>

-----------------------------------------------------------------------------
(* Learning of the confirmation *)

\* confirm() of the page watching t, unless a fetch of it is under way.
Confirm(t) ==
    IF checking THEN UNCHANGED <<flights, checking>>
    ELSE /\ Cardinality(flights) < MaxFlights
         /\ checking' = TRUE
         /\ flights' = flights \cup
                         {[id |-> t, own |-> TRUE, answer |-> "none"]}

\* A push arrives: it finds the callbacks of its transaction, if any.
PushArrives(s, t) ==
    /\ t \in news[s]
    /\ news' = [news EXCEPT ![s] = @ \ {t}]
    /\ IF watches[t] # {} THEN Confirm(t) ELSE UNCHANGED <<flights, checking>>
    /\ UNCHANGED <<socketVars, status, view, tx, watching, search, strayed,
                   faults>>

\* Seeded fault: the poll is for pages that have a connection.
PollWhenOpen ==
    /\ Wanted(view, tx, watching) # None /\ open
    /\ Confirm(tx.id)
    /\ UNCHANGED <<socketVars, nodeVars, view, tx, watching, search, strayed,
                   faults>>

\* The countdown of the poll ends; there is one while the socket is closed.
Poll ==
    /\ Wanted(view, tx, watching) # None /\ ~ open
    /\ Confirm(tx.id)
    /\ UNCHANGED <<socketVars, nodeVars, view, tx, watching, search, strayed,
                   faults>>

FetchReads(f) ==
    /\ f.answer = "none"
    /\ flights' = (flights \ {f}) \cup {[f EXCEPT !.answer = status[f.id]]}
    /\ UNCHANGED <<socketVars, nodeVars, view, tx, watching, search, checking,
                   strayed, faults>>

\* tx-updated, whichever page is shown by now
FetchReturns(f) ==
    /\ f.answer # "none"
    /\ LET new == [id |-> f.id, status |-> f.answer]
       IN  IF f.answer = "confirmed"
           THEN Render("confirmed", new, FALSE, flights \ {f},
                       checking /\ ~ f.own)
           ELSE Render(view, new, watching, flights \ {f}, checking /\ ~ f.own)
    /\ strayed' = (strayed \/ ~ f.own)
    /\ UNCHANGED <<nodeVars, search, faults>>

\* Seeded fault: a failed fetch leaves the flag set.
FetchFailsStuck(f) ==
    /\ faults < MaxFaults /\ faults' = faults + 1
    /\ flights' = flights \ {f}
    /\ UNCHANGED <<socketVars, nodeVars, view, tx, watching, search, checking,
                   strayed>>

FetchFails(f) ==
    /\ faults < MaxFaults /\ faults' = faults + 1
    /\ flights' = flights \ {f}
    /\ checking' = (checking /\ ~ f.own)
    /\ UNCHANGED <<socketVars, nodeVars, view, tx, watching, search, strayed>>

-----------------------------------------------------------------------------
(* The node, the server and the network *)

Mined(t) ==
    /\ status[t] = "pending"
    /\ status' = [status EXCEPT ![t] = "confirmed"]
    /\ UNCHANGED <<socketVars, news, pageVars, faults>>

\* pushTx, after the watch command, after a block and with every tick: a
\* client that watches t is told of its state again and again.
PushTx(s, t) ==
    /\ t \in server[s] /\ status[t] = "confirmed" /\ t \notin news[s]
    /\ news' = [news EXCEPT ![s] = @ \cup {t}]
    /\ UNCHANGED <<socketVars, status, pageVars, faults>>

Connects == (Subscribe \/ TimerFires) /\ UNCHANGED <<nodeVars, pageVars, faults>>
Reopens(s) == Opens(s) /\ UNCHANGED <<nodeVars, pageVars, faults>>
Reads(s, t) == ServerReads(s, t) /\ UNCHANGED <<nodeVars, pageVars, faults>>

Breaks(s) ==
    /\ faults < MaxFaults /\ faults' = faults + 1
    /\ Fails(s) \/ Lost(s)
    /\ UNCHANGED <<nodeVars, pageVars>>

\* What had arrived before the connection was lost is delivered or dropped.
Notices(s) ==
    /\ Closes(s)
    /\ news' = [news EXCEPT ![s] = {}]
    /\ UNCHANGED <<status, pageVars, faults>>

-----------------------------------------------------------------------------
Init ==
    /\ SocketInit
    /\ status = [t \in Txid |-> "pending"] /\ news = [s \in Socket |-> {}]
    /\ view = "landing" /\ tx = None /\ watching = FALSE /\ search = NoSearch
    /\ flights = {} /\ checking = FALSE /\ strayed = FALSE /\ faults = 0

User == Search \/ GoHome \/ WatchStart \/ WatchStop

Fetching ==
    \E f \in flights : FetchReads(f) \/ FetchReturns(f) \/ FetchFails(f)

Network ==
    \/ Connects
    \/ \E s \in Socket :
        \/ Reopens(s) \/ Breaks(s) \/ Notices(s)
        \/ \E t \in Txid : Reads(s, t) \/ PushTx(s, t) \/ PushArrives(s, t)

Next ==
    \/ User \/ SearchReads \/ SearchReturns
    \/ Poll \/ Fetching \/ Network
    \/ \E t \in Txid : Mined(t)

Spec == Init /\ [][Next]_vars

\* What does not depend on the user or on luck goes on: the poll's timer runs,
\* the browser notices a lost connection, requests are answered, the server
\* reads its clients' commands and its ticker pushes.  Failures are finitely
\* many, but nothing says that the socket ever connects (a proxy may refuse
\* websockets): then the poll has to do.
Fairness ==
    /\ WF_vars(Poll)
    /\ WF_vars(\E f \in flights : FetchReads(f))
    /\ WF_vars(\E f \in flights : FetchReturns(f))
    /\ \A s \in Socket :
        /\ WF_vars(Notices(s))
        /\ \A t \in Txid :
            /\ WF_vars(Reads(s, t)) /\ WF_vars(PushTx(s, t))
            /\ WF_vars(PushArrives(s, t))

FairSpec == Spec /\ Fairness

-----------------------------------------------------------------------------
(* Properties *)

\* As long as no answer to an earlier page has been applied to this one, the
\* page of a pending transaction asks only about that transaction, one fetch
\* at a time and exactly while its flag says so (useWatchTx.ts:33), and a
\* page says "confirmed" only of what the node has confirmed.
PageIsOwn ==
    ~ strayed =>
        /\ view \in {"pending", "confirmed"} => tx.status = view
        /\ view = "confirmed" => status[tx.id] = "confirmed"
        /\ checking <=> \E f \in flights : f.own
        /\ \A f \in flights : f.own => view = "pending" /\ f.id = tx.id
        /\ \A f, g \in flights : f.own /\ g.own => f = g

\* The page watches transaction t.
Watches(t) == view = "pending" /\ watching /\ tx.id = t

ShownConfirmed(t) == view = "confirmed" /\ tx.id = t

\* Where only the user's stop, search or way home leads from a watched page.
StoppedOrLeft ==
    view \in {"landing", "loading"} \/ (view = "pending" /\ ~ watching)

\* A watched transaction that confirms ends up shown as confirmed, by a push
\* or by the poll, unless the user stops watching it or leaves the page, or an
\* answer to an earlier page is applied to this one (`strayed`: a late answer shows
\* the earlier transaction instead and, if "pending", watches it: FetchReturns).
WatchEnds ==
    \A t \in Txid :
        (Watches(t) /\ status[t] = "confirmed")
            ~> (ShownConfirmed(t) \/ StoppedOrLeft \/ strayed)
=============================================================================
