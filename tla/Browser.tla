------------------------------ MODULE Browser ------------------------------
(***************************************************************************)
(* The pages of the app: searches, the landing page, Back and Forward, the *)
(* buttons from block to block, and the answers that arrive while the user *)
(* is already elsewhere (web/src/App.tsx, hooks/useSearch.ts, state.ts,    *)
(* views).  Nav.tla has the history they write.                            *)
(*                                                                         *)
(* A callback of the one JavaScript thread is one step; between a request  *)
(* and its answer the user goes on.  What a page shows is the query it     *)
(* answers; the content of a page is left out, as is the watch of a        *)
(* pending transaction (WatchTx.tla) and the pages of a list (Paging.tla). *)
(***************************************************************************)
EXTENDS Nav, FiniteSets

CONSTANTS
    TxQuery, AddressQuery,   \* queries that find a transaction, an address
    WrongQuery,              \* queries that find nothing
    MaxHeight,               \* heights of blocks are queries, too
    None,                    \* no query
    MaxEntries,              \* bound on the history
    MaxNavs                  \* bound on the block fetches under way

\* A query is of one kind: 64 hex digits, an address, or a decimal number.
ASSUME BrowserAssumption ==
    /\ MaxHeight \in Nat /\ MaxEntries \in Nat /\ MaxNavs \in Nat
    /\ Query = TxQuery \cup AddressQuery \cup WrongQuery \cup 0 .. MaxHeight
    /\ TxQuery \cap AddressQuery = {}
    /\ (TxQuery \cup AddressQuery) \cap 0 .. MaxHeight = {}
    /\ None \notin Query \cup {Home}

VARIABLES
    tip,        \* the height of the chain
    ready,      \* are there dashboard numbers, of a node that is in sync?
    h,          \* the tab's history
    view,       \* state.view; "tx" is a confirmed or a pending transaction
    page,       \* the query whose answer is shown, or None
    searches,   \* searches whose answers will be applied
    navs,       \* block fetches of BlockView under way
    strayed,    \* history: has an answer been shown on another query's entry?
    mismarked   \* history: has an entry been marked with another's kind?

vars == <<tip, ready, h, view, page, searches, navs, strayed, mismarked>>

View == {"landing", "loading", "notfound", "error", "tx", "address", "block"}

Height == 0 .. MaxHeight

\* What a query finds, if it finds something.
KindOf(q) == CASE q \in TxQuery -> "tx"
               [] q \in AddressQuery -> "address"
               [] q \in Height -> "block"
               [] q = Home -> "home"
               [] OTHER -> "none"

\* kindOfResult of the answer: "none" for nothing found.
Result(q) == IF q \in Height /\ q > tip THEN "none" ELSE KindOf(q)

-----------------------------------------------------------------------------
(* What the user can search for: the input and the links of each page.      *)

SearchBar == Query
StatsBar == Height
MinedRibbon == Height
ArrivalsFeed == TxQuery

\* Nothing but the status pill while the node is away or syncing
LandingLinks ==
    IF ready THEN UNION {SearchBar, StatsBar, MinedRibbon, ArrivalsFeed}
             ELSE {}

AmountHeader == AddressQuery
ReceivingAddress == AddressQuery
TxIOCard == AddressQuery
PendingTx == AmountHeader \cup ReceivingAddress
ConfirmedTx == UNION {AmountHeader, Height, TxIOCard}
ActivityRow == TxQuery
BlockTxRow == TxQuery

Links == CASE view = "landing" -> LandingLinks
           [] view = "tx" -> PendingTx \cup ConfirmedTx
           [] view = "address" -> ActivityRow
           [] view = "block" -> BlockTxRow
           [] OTHER -> {}

\* Leaving a block's page unmounts it; its fetches go on.
Left(v, N) == IF v = "block" THEN N ELSE {[n EXCEPT !.own = FALSE] : n \in N}

-----------------------------------------------------------------------------
(* Searches *)

\* Seeded fault: answers of earlier searches are applied as well.
SupersedeNone(S) == S

\* A new search takes a new number: answers to earlier ones are dropped.
Supersede(S) == {}

\* search-start
Start(q, N) ==
    /\ searches' = Supersede(searches) \cup {q}
    /\ view' = "loading"
    /\ navs' = Left("loading", N)
    /\ strayed' = FALSE
    /\ UNCHANGED <<tip, ready, page>>

\* A search pushes its query; the bound is on the history's length.
SearchFor(q, N) ==
    /\ h.at < MaxEntries
    /\ h' = PushQuery(h, q)
    /\ Start(q, N)
    /\ UNCHANGED mismarked

Search(q) == q \in Links /\ SearchFor(q, navs)

\* markKind: the current entry is marked, whichever it is by now.
Mark(g, kind) ==
    /\ h' = MarkKind(g, kind)
    /\ mismarked' = (mismarked \/ kind \notin {"none", KindOf(Current(g).q)})

ViewOf(kind) == IF kind = "none" THEN "notfound" ELSE kind

\* search-result
SearchReturns(q) ==
    /\ q \in searches
    /\ searches' = searches \ {q}
    /\ view' = ViewOf(Result(q))
    /\ page' = IF Result(q) = "none" THEN page ELSE q
    /\ Mark(h, Result(q))
    /\ navs' = Left(view', navs)
    /\ strayed' = (strayed \/ q # Current(h).q)
    /\ UNCHANGED <<tip, ready>>

\* search-error
SearchFails(q) ==
    /\ q \in searches
    /\ searches' = searches \ {q}
    /\ view' = "error"
    /\ navs' = Left("error", navs)
    /\ strayed' = (strayed \/ q # Current(h).q)
    /\ UNCHANGED <<tip, ready, h, page, mismarked>>

-----------------------------------------------------------------------------
(* The landing page, Back and Forward *)

\* reset; a search under way goes on.
Landing ==
    /\ view' = "landing" /\ page' = None
    /\ navs' = Left("landing", navs)
    /\ strayed' = FALSE
    /\ UNCHANGED <<tip, ready, searches>>

GoHome ==
    /\ h.at < MaxEntries
    /\ Landing
    /\ Mark(PushQuery(h, Home), "home")

\* The browser moves to another entry of the history: popstate.
Traverse(i) ==
    /\ i \in 1 .. Len(h.entries) /\ i # h.at
    /\ LET g == [h EXCEPT !.at = i]
       IN  IF Current(g).q = Home
           THEN Landing /\ Mark(g, "home")
           ELSE Start(Current(g).q, navs) /\ h' = g /\ UNCHANGED mismarked

\* "Back to ..." on the page of a result
BackButton ==
    /\ view \in {"tx", "address", "block"}
    /\ BackLabel(Current(h)) # "none"
    /\ Traverse(h.at - 1)

\* The app is loaded anew on the current entry of g, which keeps its state
\* (readEntry); nothing under way survives.
Load(g) ==
    /\ page' = None /\ navs' = {} /\ strayed' = FALSE /\ ready' = FALSE
    /\ IF Current(g).q = Home
       THEN view' = "landing" /\ searches' = {} /\ Mark(g, "home")
       ELSE /\ view' = "loading" /\ searches' = {Current(g).q}
            /\ h' = g /\ UNCHANGED mismarked
    /\ UNCHANGED tip

\* A reload, or Back to an entry of a page the browser has discarded
Reload(i) == i \in 1 .. Len(h.entries) /\ Load([h EXCEPT !.at = i])

\* An edited or shared URL: an entry the app has written nothing on
EnterUrl(q) ==
    /\ h.at < MaxEntries /\ q # Current(h).q
    /\ Load(Append1(h, FreshEntry(q)))

-----------------------------------------------------------------------------
(* From block to block *)

\* navigate(): previous, or next unless at the tip; one at a time
Navigate(height) ==
    /\ view = "block" /\ height \in Height
    /\ height + 1 = page \/ (height = page + 1 /\ page < tip)
    /\ \A n \in navs : ~ n.own
    /\ Cardinality(navs) < MaxNavs
    /\ navs' = navs \cup {[height |-> height, own |-> TRUE]}
    /\ UNCHANGED <<tip, ready, h, view, page, searches, strayed, mismarked>>

\* The answer is shown and pushed, even if its page has been left since.
NavAnswers(n) ==
    /\ h.at < MaxEntries
    /\ view' = "block" /\ page' = n.height
    /\ navs' = navs \ {n}
    /\ Mark(PushQuery(h, n.height), "block")
    /\ strayed' = FALSE
    /\ UNCHANGED <<tip, ready, searches>>

\* A failed fetch becomes a search.
NavFails(n) == SearchFor(n.height, navs \ {n})

BlockMined ==
    /\ tip < MaxHeight /\ tip' = tip + 1
    /\ UNCHANGED <<ready, h, view, page, searches, navs, strayed, mismarked>>

\* The first numbers arrive, or the node falls behind or catches up.
StatsArrive ==
    /\ ready' = ~ready
    /\ UNCHANGED <<tip, h, view, page, searches, navs, strayed, mismarked>>

-----------------------------------------------------------------------------
\* The tab opens on the landing page or on a link.
Init ==
    /\ tip = 0 /\ ready = FALSE
    /\ \E q \in Query \cup {Home} :
        /\ h = [entries |->
                  <<IF q = Home THEN [FreshEntry(q) EXCEPT !.kind = "home"]
                                ELSE FreshEntry(q)>>, at |-> 1]
        /\ view = IF q = Home THEN "landing" ELSE "loading"
        /\ searches = IF q = Home THEN {} ELSE {q}
    /\ page = None /\ navs = {}
    /\ strayed = FALSE /\ mismarked = FALSE

Next ==
    \/ \E q \in Query : Search(q) \/ SearchReturns(q) \/ SearchFails(q)
    \/ GoHome
    \/ \E i \in 1 .. MaxEntries : Traverse(i) \/ Reload(i)
    \/ \E q \in Query \cup {Home} : EnterUrl(q)
    \/ \E height \in Height : Navigate(height)
    \/ \E n \in navs : NavAnswers(n) \/ NavFails(n)
    \/ BackButton \/ BlockMined \/ StatsArrive

Spec == Init /\ [][Next]_vars

-----------------------------------------------------------------------------
(* Properties *)

\* "Each result the user navigates to is one history entry at ?q=<query>"
\* (nav.ts:4): a page shows the answer to the query of the current entry, so
\* that its URL can be shared, and while it loads that answer is on its way
\* and no other.  The exception is an answer that finds the user elsewhere,
\* which only a search left for the landing page, or a block asked for on a
\* page left since, can do here; the late answers to the fetches of a watched
\* transaction are those of WatchTx.
ShownIsAsked ==
    ~ strayed =>
        /\ view \in {"tx", "address", "block"} =>
               page = Current(h).q /\ KindOf(page) = view
        /\ view = "landing" => Current(h).q = Home
        /\ view = "loading" => Current(h).q \in searches
        /\ Cardinality(searches) <= 1

\* "The entry's state remembers what it showed so the in-page back button
\* can name where it goes" (nav.ts:5): what an entry says of the one before
\* it is what Back will show, however the entries came about (searches,
\* reloads, edited URLs, entries that never got an answer), unless an answer
\* has marked another query's entry; and no two neighbours are the same.
HistorySound ==
    /\ \A i \in 1 .. Len(h.entries) - 1 : h.entries[i].q # h.entries[i + 1].q
    /\ ~ mismarked => \A i \in 1 .. Len(h.entries) :
           LET label == BackLabel(h.entries[i])
           IN  label # "none" => i > 1 /\ label = KindOf(h.entries[i - 1].q)
=============================================================================
