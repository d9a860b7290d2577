------------------------------- MODULE Paging -------------------------------
(***************************************************************************)
(* Lists shown page by page: the activity of an address and the            *)
(* transactions of a block.  The server answers a page from what the node  *)
(* has when asked, and says whether there is more from a count it may have *)
(* cached, or, when it stopped counting a long history, from the length of *)
(* the page (address.go, block.go); the page asks for the rest from the    *)
(* length of what it shows (AddressView.tsx, BlockView.tsx,                *)
(* hooks/useLoadMore.ts), and the reducer appends what arrives if it is    *)
(* about the list then shown (state.ts).                                   *)
(*                                                                         *)
(* The history of an address grows at the end it is listed from, and loses *)
(* a pending transaction that is evicted; a block is fixed.  Items are     *)
(* numbered as they appear.                                                *)
(***************************************************************************)
EXTENDS Naturals, Sequences, SequencesExt

CONSTANTS
    Address, Block,   \* the lists, by their query
    None,
    Limit,            \* rows of a page
    BlockSize,        \* transactions of a block
    MaxScan,          \* s.maxScan: where the count of an address stops
    MaxItems,         \* bound on the items of an address
    MaxRows,          \* bound on the rows shown
    MaxFlights        \* bound on the pages under way

ASSUME PagingAssumption ==
    /\ Address \cap Block = {} /\ None \notin Address \cup Block
    /\ Limit \in Nat \ {0} /\ BlockSize \in Nat \ {0}
    /\ MaxScan \in Nat \ {0}
    /\ MaxItems \in Nat /\ MaxRows \in Nat /\ MaxFlights \in Nat

VARIABLES
    items,     \* what the node lists for every query, first to last
    born,      \* number of items an address ever had
    count,     \* the cached number of transactions of every address; it is
               \* MaxScan exactly if the totals are approximate
    list,      \* the list on screen, or None
    loading,   \* the flag of useLoadMore on screen
    flights,   \* pages asked for and not shown yet
    moved,     \* history: did the items move since the list was shown?
    crossed,   \* history: has a page asked for by an earlier showing been
               \* appended to it?
    miscounted,\* history: was the last answer's count not the node's?
    capped     \* history: did the last answer go by the page's length?

serverVars == <<items, born, count>>
history == <<moved, crossed, miscounted, capped>>
vars == <<serverVars, list, loading, flights, history>>

Query == Address \cup Block

\* own: asked for by the component on screen, whose flag it resets.
\* fresh: asked for from the list on screen.  rows = None: not answered yet.
Flight(q, offset) ==
    [q |-> q, offset |-> offset, own |-> TRUE, fresh |-> TRUE,
     rows |-> None, more |-> FALSE, exact |-> TRUE, capped |-> FALSE]

-----------------------------------------------------------------------------
(* The server *)

PageEnd(q, offset) ==
    IF offset + Limit <= Len(items[q]) THEN offset + Limit ELSE Len(items[q])

Page(q, offset) == SubSeq(items[q], offset + 1, PageEnd(q, offset))

\* addressTotals scans the history, and stops at the cap.
Scanned(q) == IF Len(items[q]) < MaxScan THEN Len(items[q]) ELSE MaxScan

\* The count of an address is the cached one while that is not too old; the
\* one of a block is its own.
Counts(q) ==
    IF q \in Block THEN Len(items[q])
    ELSE IF count[q] # None THEN count[q] ELSE Scanned(q)

Approximate(q) == q \in Address /\ Counts(q) = MaxScan

\* Seeded fault: a count that stopped at the cap is taken for the whole.
HasMoreByCount(q, offset) == offset + Len(Page(q, offset)) < Counts(q)

HasMore(q, offset) ==
    IF Approximate(q) THEN Len(Page(q, offset)) = Limit
                      ELSE offset + Len(Page(q, offset)) < Counts(q)

\* An answer fills the cache.
Counted(q) ==
    count' = IF q \in Address THEN [count EXCEPT ![q] = Counts(q)] ELSE count

\* An answer does not rest on an outdated count.
Exact(q) == Approximate(q) \/ Counts(q) = Len(items[q])

\* A transaction of an address appears, or its newest one is evicted.
Grow(q) ==
    /\ born < MaxItems
    /\ born' = born + 1
    /\ items' = [items EXCEPT ![q] = <<<<q, born'>>>> \o @]
    /\ moved' = (moved \/ (list # None /\ list.q = q))
    /\ UNCHANGED <<count, list, loading, flights, crossed, miscounted, capped>>

Evict(q) ==
    /\ items[q] # <<>>
    /\ items' = [items EXCEPT ![q] = Tail(@)]
    /\ moved' = (moved \/ (list # None /\ list.q = q))
    /\ UNCHANGED <<born, count, list, loading, flights, crossed, miscounted,
                   capped>>

\* totalsTTL is over, or a new block drops the totals.
Expire(q) ==
    /\ count[q] # None
    /\ count' = [count EXCEPT ![q] = None]
    /\ UNCHANGED <<items, born, list, loading, flights, history>>

-----------------------------------------------------------------------------
(* The page *)

Stale(F) == {[f EXCEPT !.fresh = FALSE] : f \in F}
Orphaned(F) == {[f EXCEPT !.own = FALSE, !.fresh = FALSE] : f \in F}

\* search-result: the list's first page replaces what was shown.
Show(q, inPlace) ==
    /\ list' = [q |-> q, rows |-> Page(q, 0), more |-> HasMore(q, 0)]
    /\ Counted(q)
    /\ loading' = (inPlace /\ loading)
    /\ flights' = IF inPlace THEN Stale(flights) ELSE Orphaned(flights)
    /\ moved' = FALSE /\ crossed' = FALSE /\ miscounted' = ~ Exact(q)
    /\ capped' = Approximate(q)
    /\ UNCHANGED <<items, born>>

\* By a search: the loading view has unmounted the page before.
Open(q) == Show(q, FALSE)

\* By the buttons of a block, which swap the block in place, even for the one
\* shown when its answer is late.
NextBlock(q) ==
    /\ list # None /\ list.q \in Block
    /\ Show(q, TRUE)

Leave ==
    /\ list # None
    /\ list' = None /\ loading' = FALSE /\ flights' = Orphaned(flights)
    /\ moved' = FALSE /\ crossed' = FALSE /\ miscounted' = FALSE
    /\ capped' = FALSE
    /\ UNCHANGED serverVars

\* Seeded fault: the next page is asked for from the last page's offset.
LoadMoreFromLastPage ==
    /\ list # None /\ list.more /\ ~ loading
    /\ loading' = TRUE
    /\ flights' = flights \cup {Flight(list.q, Len(list.rows) - Limit)}
    /\ UNCHANGED <<serverVars, list, history>>

\* The button is there if there is more, and disabled while loading.
LoadMore ==
    /\ list # None /\ list.more /\ ~ loading
    /\ Cardinality(flights) < MaxFlights /\ Len(list.rows) < MaxRows
    /\ loading' = TRUE
    /\ flights' = flights \cup {Flight(list.q, Len(list.rows))}
    /\ UNCHANGED <<serverVars, list, history>>

PageReads(f) ==
    /\ f.rows = None
    /\ flights' = (flights \ {f}) \cup
            {[f EXCEPT !.rows = Page(f.q, f.offset),
                       !.more = HasMore(f.q, f.offset), !.exact = Exact(f.q),
                       !.capped = Approximate(f.q)]}
    /\ Counted(f.q)
    /\ UNCHANGED <<items, born, list, loading, history>>

\* Seeded fault: a page is appended to whatever list is shown.
AppendsAny(f) == list # None

\* The reducer drops a page about another list than the one shown.
Appends(f) == list # None /\ list.q = f.q

\* address-more, block-more
PageArrives(f) ==
    /\ f.rows # None
    /\ flights' = flights \ {f}
    /\ loading' = (loading /\ ~ f.own)
    /\ IF Appends(f)
       THEN /\ list' = [list EXCEPT !.rows = @ \o f.rows, !.more = f.more]
            /\ crossed' = (crossed \/ (f.q = list.q /\ ~ f.fresh))
            /\ miscounted' = ~ f.exact /\ capped' = f.capped
       ELSE UNCHANGED <<list, crossed, miscounted, capped>>
    /\ UNCHANGED <<serverVars, moved>>

\* Seeded fault: a failed fetch leaves the flag set.
PageFailsStuck(f) ==
    /\ flights' = flights \ {f}
    /\ UNCHANGED <<serverVars, list, loading, history>>

\* The list stays as it is, and the button for a retry.
PageFails(f) ==
    /\ flights' = flights \ {f}
    /\ loading' = (loading /\ ~ f.own)
    /\ UNCHANGED <<serverVars, list, history>>

-----------------------------------------------------------------------------
Init ==
    /\ items = [q \in Query |->
                    IF q \in Block THEN [i \in 1 .. BlockSize |-> <<q, i>>]
                                ELSE <<>>]
    /\ born = 0
    /\ count = [q \in Address |-> None]
    /\ list = None /\ loading = FALSE /\ flights = {}
    /\ moved = FALSE /\ crossed = FALSE /\ miscounted = FALSE
    /\ capped = FALSE

Next ==
    \/ \E q \in Address : Grow(q) \/ Evict(q) \/ Expire(q)
    \/ \E q \in Query : Open(q)
    \/ \E q \in Block : NextBlock(q)
    \/ Leave \/ LoadMore
    \/ \E f \in flights : PageReads(f) \/ PageArrives(f) \/ PageFails(f)

Spec == Init /\ [][Next]_vars

-----------------------------------------------------------------------------
(* Properties *)

\* While the items have not moved and no page of an earlier showing came in
\* between, the rows shown are the list's first ones, in order: none twice,
\* none left out, whatever pages of other lists were under way ("its length
\* is the next offset", AddressView.tsx:33, BlockView.tsx:79).
RowsInOrder ==
    list # None /\ ~ moved /\ ~ crossed => IsPrefix(list.rows, items[list.q])

WholePages(n) == \E k \in 1 .. n : n = k * Limit

\* Unless the count behind it was out of date, the button to load more is
\* there while there is more to load, and only then; except that of a history
\* longer than the scan it may also be there at the end, if the history fills
\* its last page (address.go:97).
MoreIsTrue ==
    list # None /\ ~ moved /\ ~ crossed /\ ~ miscounted =>
        /\ Len(list.rows) < Len(items[list.q]) => list.more
        /\ list.more => \/ Len(list.rows) < Len(items[list.q])
                        \/ capped /\ WholePages(Len(list.rows))

\* The flag that disables the button is set exactly while a page asked for
\* by the component on screen is under way, so that it never sticks.
LoadingEnds == loading <=> \E f \in flights : f.own
=============================================================================
