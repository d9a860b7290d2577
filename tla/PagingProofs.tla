---------------------------- MODULE PagingProofs ----------------------------
(***************************************************************************)
(* Lists shown page by page (Paging.tla) are in order, tell truly whether  *)
(* there is more, and never leave their button disabled, for any lists,    *)
(* lengths of a page and numbers of pages under way.                       *)
(***************************************************************************)
EXTENDS Paging, SequenceTheorems, TLAPS

Item == Query \X Nat
Rows == Seq(Item)

List == [q : Query, rows : Rows, more : BOOLEAN]

Flights ==
    [q : Query, offset : Nat, own : BOOLEAN, fresh : BOOLEAN,
     rows : Rows \cup {None}, more : BOOLEAN, exact : BOOLEAN,
     capped : BOOLEAN]

PagingTypes ==
    /\ items \in [Query -> Rows] /\ born \in Nat
    /\ count \in [Address -> Nat \cup {None}]
    /\ list \in List \cup {None} /\ loading \in BOOLEAN
    /\ flights \subseteq Flights
    /\ moved \in BOOLEAN /\ crossed \in BOOLEAN /\ miscounted \in BOOLEAN
    /\ capped \in BOOLEAN

\* The component on screen asks for one page at a time.
OneOwnFlight == \A f, g \in flights : f.own /\ g.own => f = g

\* What an answer says of the list after n of its items and a page of m.
Says(more, exact, isCapped, n, m, q) ==
    /\ isCapped => (more <=> m = Limit)
    /\ exact /\ ~ isCapped => (more <=> n + m < Len(items[q]))

\* An answer is the page it was asked for, and right unless miscounted.
Answered(f) ==
    f.rows # None =>
        /\ f.rows = Page(f.q, f.offset)
        /\ Says(f.more, f.exact, f.capped, f.offset, Len(f.rows), f.q)

\* Only the end of the list breaks off a page.
Whole(n, q) == n = Len(items[q]) \/ \E k \in Nat : n = k * Limit

WholeUntilEnd ==
    list # None /\ ~ moved /\ ~ crossed => Whole(Len(list.rows), list.q)

\* A page asked for from the list on screen continues it.
FreshContinues ==
    \A f \in flights : f.fresh =>
        /\ f.own
        /\ list # None =>
              /\ f.q = list.q
              /\ ~ crossed => f.offset = Len(list.rows)
              /\ ~ moved => Answered(f)

PagingInv ==
    /\ PagingTypes /\ LoadingEnds /\ OneOwnFlight /\ FreshContinues
    /\ RowsInOrder /\ MoreIsTrue /\ WholeUntilEnd

-----------------------------------------------------------------------------
(* Pages of a sequence *)

\* A prefix agrees with the whole item by item.
LEMMA PrefixItems ==
    ASSUME NEW S, NEW s \in Seq(S), NEW t \in Seq(S)
    PROVE  IsPrefix(s, t) <=> /\ Len(s) <= Len(t)
                              /\ \A i \in 1 .. Len(s) : s[i] = t[i]
<1>1. Len(s) \in Nat /\ Len(t) \in Nat
  OBVIOUS
<1>2. ASSUME Len(s) <= Len(t)
      PROVE  SubSeq(s, 1, Len(s)) = SubSeq(t, 1, Len(s))
                <=> \A i \in 1 .. Len(s) : s[i] = t[i]
  <2>1. /\ SubSeq(s, 1, Len(s)) \in Seq(S)
        /\ Len(SubSeq(s, 1, Len(s))) = Len(s)
        /\ \A i \in 1 .. Len(s) : SubSeq(s, 1, Len(s))[i] = s[i]
    OBVIOUS
  <2>2. /\ SubSeq(t, 1, Len(s)) \in Seq(S)
        /\ Len(SubSeq(t, 1, Len(s))) = Len(s)
        /\ \A i \in 1 .. Len(s) : SubSeq(t, 1, Len(s))[i] = t[i]
    BY <1>1, <1>2
  <2>3. ASSUME \A i \in 1 .. Len(s) : s[i] = t[i]
        PROVE  SubSeq(s, 1, Len(s)) = SubSeq(t, 1, Len(s))
    <3>1. \A i \in 1 .. Len(SubSeq(s, 1, Len(s))) :
              SubSeq(s, 1, Len(s))[i] = SubSeq(t, 1, Len(s))[i]
      BY <2>1, <2>2, <2>3
    <3> QED
      BY <2>1, <2>2, <3>1, SeqEqual
  <2> QED
    BY <2>1, <2>2, <2>3
<1> QED
  BY <1>2 DEF IsPrefix

\* A prefix and the items that follow it make a prefix.
LEMMA PrefixGrows ==
    ASSUME NEW S, NEW s \in Seq(S), NEW t \in Seq(S), IsPrefix(s, t),
           NEW r \in Seq(S), Len(s) + Len(r) <= Len(t),
           \A i \in 1 .. Len(r) : r[i] = t[Len(s) + i]
    PROVE  IsPrefix(s \o r, t)
<1>1. Len(s) \in Nat /\ Len(r) \in Nat /\ Len(t) \in Nat
  OBVIOUS
<1>2. s \o r \in Seq(S) /\ Len(s \o r) = Len(s) + Len(r)
  BY ConcatProperties
<1>3. \A i \in 1 .. Len(s) : s[i] = t[i]
  BY PrefixItems
<1>4. ASSUME NEW i \in 1 .. Len(s) + Len(r)
      PROVE  (s \o r)[i] = t[i]
  <2>1. (s \o r)[i] = IF i <= Len(s) THEN s[i] ELSE r[i - Len(s)]
    BY ConcatProperties
  <2>2. CASE i <= Len(s)
    BY <1>1, <1>3, <2>1, <2>2
  <2>3. CASE ~ (i <= Len(s))
    <3>1. i - Len(s) \in 1 .. Len(r) /\ Len(s) + (i - Len(s)) = i
      BY <1>1, <2>3
    <3> QED
      BY <2>1, <2>3, <3>1
  <2> QED
    BY <2>2, <2>3
<1> QED
  BY <1>2, <1>4, PrefixItems

LEMMA CountsIsNat ==
    ASSUME PagingTypes, NEW q \in Query
    PROVE  Counts(q) \in Nat
BY PagingAssumption
   DEF PagingAssumption, PagingTypes, Query, Rows, Counts, Scanned

\* A page is made of items, whatever the offset.
LEMMA PageIsRows ==
    ASSUME PagingTypes, NEW q \in Query, NEW offset \in Nat
    PROVE  /\ Page(q, offset) \in Rows
           /\ HasMore(q, offset) \in BOOLEAN
<1>1. items[q] \in Seq(Item) /\ Len(items[q]) \in Nat
  BY DEF PagingTypes, Rows
<1>2. Limit \in Nat /\ PageEnd(q, offset) \in Int
      /\ PageEnd(q, offset) <= Len(items[q])
  BY <1>1, PagingAssumption DEF PagingAssumption, PageEnd
<1>3. \A i \in offset + 1 .. PageEnd(q, offset) : items[q][i] \in Item
  BY <1>1, <1>2
<1>4. SubSeq(items[q], offset + 1, PageEnd(q, offset)) \in Seq(Item)
  BY <1>2, <1>3, SubSeqProperties
<1>5. HasMore(q, offset) \in BOOLEAN
  <2>1. CASE Approximate(q)
    BY <2>1 DEF HasMore
  <2>2. CASE ~ Approximate(q)
    BY <2>2 DEF HasMore
  <2> QED
    BY <2>1, <2>2
<1> QED
  BY <1>4, <1>5 DEF Page, Rows

\* A page from within the list holds the items from its offset on.
LEMMA PageFollows ==
    ASSUME PagingTypes, NEW q \in Query, NEW offset \in Nat,
           offset <= Len(items[q])
    PROVE  /\ offset + Len(Page(q, offset)) <= Len(items[q])
           /\ \A i \in 1 .. Len(Page(q, offset)) :
                  Page(q, offset)[i] = items[q][offset + i]
           /\ \/ Len(Page(q, offset)) = Limit
              \/ offset + Len(Page(q, offset)) = Len(items[q])
<1>1. items[q] \in Seq(Item) /\ Len(items[q]) \in Nat
  BY DEF PagingTypes, Rows
<1>2. Limit \in Nat \ {0} /\ PageEnd(q, offset) \in Nat
      /\ PageEnd(q, offset) <= Len(items[q]) /\ offset <= PageEnd(q, offset)
  BY <1>1, PagingAssumption DEF PagingAssumption, PageEnd
<1>3. \A i \in offset + 1 .. PageEnd(q, offset) : items[q][i] \in Item
  BY <1>1, <1>2
<1> DEFINE page == SubSeq(items[q], offset + 1, PageEnd(q, offset))
           n == PageEnd(q, offset) - (offset + 1) + 1
<1>4. /\ Len(page) = IF offset + 1 <= PageEnd(q, offset) THEN n ELSE 0
      /\ \A i \in 1 .. n : page[i] = items[q][offset + 1 + i - 1]
  BY <1>2, <1>3, SubSeqProperties
<1>5. n = PageEnd(q, offset) - offset /\ Len(page) = n
  BY <1>2, <1>4
<1>6. \A i \in 1 .. n : offset + 1 + i - 1 = offset + i
  OBVIOUS
<1>7. offset + Len(page) <= Len(items[q])
  BY <1>1, <1>2, <1>5
<1>8. \A i \in 1 .. Len(page) : page[i] = items[q][offset + i]
  BY <1>4, <1>5, <1>6
<1>9. Len(page) = Limit \/ offset + Len(page) = Len(items[q])
  BY <1>1, <1>2, <1>5 DEF PageEnd
<1> QED
  BY <1>7, <1>8, <1>9 DEF Page

\* One more page after whole ones.
LEMMA OneMorePage ==
    ASSUME NEW k \in Nat
    PROVE  k * Limit + Limit = (k + 1) * Limit
BY PagingAssumption DEF PagingAssumption

LEMMA WholeIsWholePages ==
    ASSUME NEW n \in Nat \ {0}, NEW k \in Nat, n = k * Limit
    PROVE  WholePages(n)
<1>1. Limit \in Nat \ {0}
  BY PagingAssumption DEF PagingAssumption
<1>2. k # 0
  BY <1>1
<1>3. k <= k * Limit
  BY <1>1
<1> QED
  BY <1>2, <1>3 DEF WholePages

\* After a page, pages are whole until the end, and the button tells the truth
\* but for a history that fills its last page and was not counted to its end.
LEMMA MoreOfPage ==
    ASSUME PagingTypes, NEW q \in Query, NEW offset \in Nat,
           offset <= Len(items[q]), Whole(offset, q),
           NEW more \in BOOLEAN, NEW isCapped \in BOOLEAN,
           Says(more, TRUE, isCapped, offset, Len(Page(q, offset)), q)
    PROVE  LET n == offset + Len(Page(q, offset)) IN
           /\ n < Len(items[q]) => more
           /\ more => \/ n < Len(items[q])
                      \/ isCapped /\ WholePages(n)
<1> DEFINE m == Len(Page(q, offset))
           n == offset + m
<1>1. m \in Nat /\ n <= Len(items[q]) /\ Len(items[q]) \in Nat
      /\ (m = Limit \/ n = Len(items[q]))
  <2>1. Page(q, offset) \in Seq(Item) /\ items[q] \in Seq(Item)
    BY PageIsRows DEF Rows, PagingTypes
  <2>2. m \in Nat /\ Len(items[q]) \in Nat
    BY <2>1
  <2>3. n <= Len(items[q]) /\ (m = Limit \/ n = Len(items[q]))
    BY PageFollows
  <2> QED
    BY <2>2, <2>3
<1>2. Says(more, TRUE, isCapped, offset, m, q)
  OBVIOUS
<1>3. Limit \in Nat \ {0}
  BY PagingAssumption DEF PagingAssumption
<1> HIDE DEF m
<1>4. n < Len(items[q]) => more
  BY <1>1, <1>2 DEF Says
<1>5. ASSUME more, ~ (n < Len(items[q]))
      PROVE  isCapped /\ WholePages(n)
  <2>1. isCapped /\ m = Limit
    BY <1>2, <1>5 DEF Says
  <2>2. n = Len(items[q]) /\ offset # Len(items[q])
    BY <1>1, <1>3, <1>5, <2>1
  <2>3. PICK k \in Nat : offset = k * Limit
    BY <2>2 DEF Whole
  <2>4. n = (k + 1) * Limit
    BY <2>1, <2>3, OneMorePage
  <2>5. n \in Nat \ {0} /\ k + 1 \in Nat
    BY <1>1, <1>3, <2>1
  <2> QED
    BY <2>1, <2>4, <2>5, WholeIsWholePages
<1> QED
  BY <1>4, <1>5 DEF m

LEMMA WholeAfterPage ==
    ASSUME PagingTypes, NEW q \in Query, NEW offset \in Nat,
           offset <= Len(items[q]), Whole(offset, q)
    PROVE  Whole(offset + Len(Page(q, offset)), q)
<1> DEFINE m == Len(Page(q, offset))
<1>1. m \in Nat /\ Len(items[q]) \in Nat /\ offset + m <= Len(items[q])
      /\ (m = Limit \/ offset + m = Len(items[q]))
  <2>1. Page(q, offset) \in Seq(Item) /\ items[q] \in Seq(Item)
    BY PageIsRows DEF Rows, PagingTypes
  <2>2. m \in Nat /\ Len(items[q]) \in Nat
    BY <2>1
  <2>3. offset + m <= Len(items[q])
        /\ (m = Limit \/ offset + m = Len(items[q]))
    BY PageFollows
  <2> QED
    BY <2>2, <2>3
<1> HIDE DEF m
<1>2. CASE offset + m = Len(items[q])
  BY <1>2 DEF Whole, m
<1>3. CASE offset + m # Len(items[q])
  <2>1. m = Limit /\ offset # Len(items[q])
    BY <1>1, <1>3
  <2>2. PICK k \in Nat : offset = k * Limit
    BY <2>1 DEF Whole
  <2>3. offset + m = (k + 1) * Limit /\ k + 1 \in Nat
    BY <2>1, <2>2, OneMorePage
  <2> QED
    BY <2>3 DEF Whole, m
<1> QED
  BY <1>2, <1>3

\* The server's answers say so.
LEMMA HasMoreSays ==
    ASSUME NEW q, NEW offset
    PROVE  Says(HasMore(q, offset), Exact(q), Approximate(q), offset,
                Len(Page(q, offset)), q)
BY DEF Says, HasMore, Exact

\* What the page forgets of its requests leaves them requests.
LEMMA RelabelledFlights ==
    ASSUME NEW F \in SUBSET Flights
    PROVE  Stale(F) \subseteq Flights /\ Orphaned(F) \subseteq Flights
<1>1. ASSUME NEW f \in Flights
      PROVE  /\ [f EXCEPT !.fresh = FALSE] \in Flights
             /\ [f EXCEPT !.own = FALSE, !.fresh = FALSE] \in Flights
  <2> DEFINE R == Rows \cup {None}
  <2>1. f \in [q : Query, offset : Nat, own : BOOLEAN, fresh : BOOLEAN,
               rows : R, more : BOOLEAN, exact : BOOLEAN, capped : BOOLEAN]
    BY DEF Flights
  <2> HIDE DEF R
  <2>2. [f EXCEPT !.fresh = FALSE] \in
            [q : Query, offset : Nat, own : BOOLEAN, fresh : BOOLEAN,
             rows : R, more : BOOLEAN, exact : BOOLEAN, capped : BOOLEAN]
    BY <2>1
  <2>3. [f EXCEPT !.own = FALSE, !.fresh = FALSE] \in
            [q : Query, offset : Nat, own : BOOLEAN, fresh : BOOLEAN,
             rows : R, more : BOOLEAN, exact : BOOLEAN, capped : BOOLEAN]
    BY <2>1
  <2> QED
    BY <2>2, <2>3 DEF Flights, R
<1> QED
  BY <1>1 DEF Stale, Orphaned

-----------------------------------------------------------------------------
(* The operations *)

\* The server's own steps leave the list on screen as it is, or are noted.
LEMMA ServerStep ==
    ASSUME PagingInv, NEW q \in Address, Grow(q) \/ Evict(q) \/ Expire(q)
    PROVE  PagingInv'
<1>1. q \in Query
  BY DEF Query
<1>2. PagingTypes'
  <2>1. CASE Grow(q)
    <3>1. born' \in Nat /\ <<q, born'>> \in Item
      BY <1>1, <2>1 DEF Grow, PagingInv, PagingTypes, Item
    <3>2. <<<<q, born'>>>> \in Seq(Item) /\ items[q] \in Seq(Item)
      BY <1>1, <3>1 DEF PagingInv, PagingTypes, Rows
    <3>3. <<<<q, born'>>>> \o items[q] \in Rows
      BY <3>2, ConcatProperties DEF Rows
    <3>4. items' \in [Query -> Rows]
      BY <2>1, <3>3 DEF Grow, PagingInv, PagingTypes
    <3> QED
      BY <2>1, <3>1, <3>4 DEF Grow, PagingInv, PagingTypes
  <2>2. CASE Evict(q)
    <3>1. items[q] \in Seq(Item) /\ items[q] # <<>>
      BY <1>1, <2>2 DEF Evict, PagingInv, PagingTypes, Rows
    <3>2. Tail(items[q]) \in Rows
      BY <3>1, HeadTailProperties DEF Rows
    <3>3. items' \in [Query -> Rows]
      BY <2>2, <3>2 DEF Evict, PagingInv, PagingTypes
    <3> QED
      BY <2>2, <3>3 DEF Evict, PagingInv, PagingTypes
  <2>3. CASE Expire(q)
    <3>1. count' \in [Address -> Nat \cup {None}]
      BY <2>3 DEF Expire, PagingInv, PagingTypes
    <3> QED
      BY <2>3, <3>1 DEF Expire, PagingInv, PagingTypes, history
  <2> QED
    BY <2>1, <2>2, <2>3
<1>3. UNCHANGED <<list, loading, flights, crossed, miscounted, capped>>
  BY DEF Grow, Evict, Expire, history
<1>4. ASSUME list # None, ~ moved'
      PROVE  ~ moved /\ items'[list.q] = items[list.q]
  <2>1. list.q \in Query /\ items \in [Query -> Rows]
    BY <1>4 DEF PagingInv, PagingTypes, List
  <2>2. CASE Grow(q) \/ Evict(q)
    BY <1>1, <1>4, <2>1, <2>2 DEF Grow, Evict
  <2>3. CASE Expire(q)
    BY <1>4, <2>3 DEF Expire, history
  <2> QED
    BY <2>2, <2>3
<1>5. LoadingEnds' /\ OneOwnFlight'
  BY <1>3 DEF PagingInv, LoadingEnds, OneOwnFlight
<1>6. RowsInOrder' /\ MoreIsTrue' /\ WholeUntilEnd'
  BY <1>3, <1>4
     DEF PagingInv, RowsInOrder, MoreIsTrue, WholeUntilEnd, Whole
<1>7. FreshContinues'
  <2>1. SUFFICES ASSUME NEW f \in flights, f.fresh
        PROVE  /\ f.own
               /\ list # None =>
                     /\ f.q = list.q
                     /\ ~ crossed => f.offset = Len(list.rows)
                     /\ ~ moved' => Answered(f)'
    BY <1>3 DEF FreshContinues
  <2>2. /\ f.own
        /\ list # None =>
              /\ f.q = list.q
              /\ ~ crossed => f.offset = Len(list.rows)
              /\ ~ moved => Answered(f)
    BY <2>1 DEF PagingInv, FreshContinues
  <2>3. ASSUME list # None, ~ moved'
        PROVE  Answered(f)'
    BY <1>4, <2>2, <2>3 DEF Answered, Says, Page, PageEnd
  <2> QED
    BY <2>2, <2>3
<1> QED
  BY <1>2, <1>5, <1>6, <1>7 DEF PagingInv

\* A list shown begins with its first page; pages under way are of before.
LEMMA ShowStep ==
    ASSUME PagingInv, NEW q \in Query, NEW inPlace \in BOOLEAN,
           Show(q, inPlace)
    PROVE  PagingInv'
<1>1. PagingTypes
  BY DEF PagingInv
<1>2. Page(q, 0) \in Rows /\ HasMore(q, 0) \in BOOLEAN
  BY <1>1, PageIsRows
<1>3. list' \in List
  BY <1>2 DEF Show, List
<1>4. Counts(q) \in Nat
  BY <1>1, CountsIsNat
<1>5. count' \in [Address -> Nat \cup {None}]
  BY <1>1, <1>4 DEF Show, Counted, PagingTypes
<1>6. flights' \subseteq Flights
  BY <1>1, RelabelledFlights DEF Show, PagingTypes
<1>7. PagingTypes'
  BY <1>1, <1>3, <1>5, <1>6 DEF Show, PagingTypes, Exact, Approximate
<1>8. \A f \in flights' : ~ f.fresh
  BY <1>1 DEF Show, Stale, Orphaned, PagingTypes, Flights
<1>9. LoadingEnds' /\ OneOwnFlight'
  <2>1. CASE inPlace
    <3>1. flights' = Stale(flights) /\ loading' = loading
      BY <1>1, <2>1 DEF Show, PagingTypes
    <3>2. \A f \in flights :
              [f EXCEPT !.fresh = FALSE] \in flights'
              /\ [f EXCEPT !.fresh = FALSE].own = f.own
      BY <1>1, <3>1 DEF Stale, PagingTypes, Flights
    <3>3. \A f \in flights' : \E g \in flights :
              f = [g EXCEPT !.fresh = FALSE] /\ f.own = g.own
      BY <1>1, <3>1 DEF Stale, PagingTypes, Flights
    <3>4. LoadingEnds'
      BY <3>1, <3>2, <3>3 DEF PagingInv, LoadingEnds
    <3>5. OneOwnFlight'
      BY <3>3 DEF PagingInv, OneOwnFlight
    <3> QED
      BY <3>4, <3>5
  <2>2. CASE ~ inPlace
    <3>1. \A f \in flights' : ~ f.own
      BY <1>1, <2>2 DEF Show, Orphaned, PagingTypes, Flights
    <3>2. ~ loading'
      BY <2>2 DEF Show
    <3> QED
      BY <3>1, <3>2 DEF LoadingEnds, OneOwnFlight
  <2> QED
    BY <2>1, <2>2
<1>10. items' = items /\ list'.q = q /\ list'.rows = Page(q, 0)
       /\ list'.more = HasMore(q, 0) /\ miscounted' = ~ Exact(q)
       /\ capped' = Approximate(q)
  BY DEF Show
<1>11. items[q] \in Seq(Item) /\ Len(items[q]) \in Nat
  BY <1>1 DEF PagingTypes, Rows
<1>12. IsPrefix(Page(q, 0), items[q])
  <2>1. 0 + Len(Page(q, 0)) <= Len(items[q])
        /\ \A i \in 1 .. Len(Page(q, 0)) :
               Page(q, 0)[i] = items[q][0 + i]
    BY <1>1, <1>11, PageFollows
  <2>2. Page(q, 0) \in Seq(Item) /\ Len(Page(q, 0)) \in Nat
    BY <1>2 DEF Rows
  <2>3. Len(Page(q, 0)) <= Len(items[q])
        /\ \A i \in 1 .. Len(Page(q, 0)) : Page(q, 0)[i] = items[q][i]
    BY <2>1, <2>2
  <2> QED
    BY <1>11, <2>2, <2>3, PrefixItems
<1>13. RowsInOrder'
  BY <1>10, <1>12 DEF RowsInOrder
<1>14. MoreIsTrue' /\ WholeUntilEnd'
  <2>1. Len(Page(q, 0)) \in Nat /\ 0 + Len(Page(q, 0)) = Len(Page(q, 0))
    BY <1>2 DEF Rows
  <2>2. 0 <= Len(items[q]) /\ Whole(0, q)
    <3>1. 0 = 0 * Limit
      BY PagingAssumption DEF PagingAssumption
    <3> QED
      BY <1>11, <3>1 DEF Whole
  <2>3. Approximate(q) \in BOOLEAN
    BY DEF Approximate
  <2>4. ASSUME Exact(q)
        PROVE  /\ Len(Page(q, 0)) < Len(items[q]) => HasMore(q, 0)
               /\ HasMore(q, 0) =>
                     \/ Len(Page(q, 0)) < Len(items[q])
                     \/ Approximate(q) /\ WholePages(Len(Page(q, 0)))
    <3>1. Says(HasMore(q, 0), TRUE, Approximate(q), 0, Len(Page(q, 0)), q)
      BY <2>4, HasMoreSays DEF Says
    <3> QED
      BY <1>1, <1>2, <2>1, <2>2, <2>3, <3>1, MoreOfPage
  <2>5. Whole(Len(Page(q, 0)), q)
    BY <1>1, <2>1, <2>2, WholeAfterPage
  <2>6. MoreIsTrue'
    BY <1>10, <2>4 DEF MoreIsTrue, WholePages
  <2>7. WholeUntilEnd'
    BY <1>10, <2>5 DEF WholeUntilEnd, Whole
  <2> QED
    BY <2>6, <2>7
<1> QED
  BY <1>7, <1>8, <1>9, <1>13, <1>14 DEF PagingInv, FreshContinues

LEMMA LeaveStep ==
    ASSUME PagingInv, Leave
    PROVE  PagingInv'
<1>1. PagingTypes /\ flights' = Orphaned(flights) /\ list' = None
      /\ loading' = FALSE
  BY DEF PagingInv, Leave
<1>2. flights' \subseteq Flights
  BY <1>1, RelabelledFlights DEF PagingTypes
<1>3. \A f \in flights' : ~ f.own /\ ~ f.fresh
  BY <1>1 DEF Orphaned, PagingTypes, Flights
<1>4. PagingTypes'
  BY <1>1, <1>2 DEF Leave, PagingTypes, serverVars
<1> QED
  BY <1>1, <1>3, <1>4 DEF PagingInv, LoadingEnds, OneOwnFlight,
     FreshContinues, RowsInOrder, MoreIsTrue, WholeUntilEnd

\* The next page is asked for from the length shown.
LEMMA LoadMoreStep ==
    ASSUME PagingInv, LoadMore
    PROVE  PagingInv'
<1> DEFINE new == Flight(list.q, Len(list.rows))
<1>1. list # None /\ ~ loading /\ loading' = TRUE
      /\ flights' = flights \cup {new}
      /\ UNCHANGED <<serverVars, list, history>>
  BY DEF LoadMore
<1>2. list.q \in Query /\ Len(list.rows) \in Nat
  BY <1>1 DEF PagingInv, PagingTypes, List, Rows
<1>3. new \in Flights
  BY <1>2 DEF Flight, Flights
<1>4. new.own /\ new.fresh /\ new.q = list.q
      /\ new.offset = Len(list.rows) /\ new.rows = None
  BY DEF Flight
<1> HIDE DEF new
<1>5. \A f \in flights : ~ f.own
  BY <1>1 DEF PagingInv, LoadingEnds
<1>6. PagingTypes'
  BY <1>1, <1>3 DEF PagingInv, PagingTypes, serverVars, history
<1>7. LoadingEnds' /\ OneOwnFlight'
  BY <1>1, <1>4, <1>5 DEF LoadingEnds, OneOwnFlight
<1>8. FreshContinues'
  BY <1>1, <1>4, <1>5
     DEF PagingInv, FreshContinues, Answered, Says, serverVars, history
<1>9. RowsInOrder' /\ MoreIsTrue' /\ WholeUntilEnd'
  BY <1>1 DEF PagingInv, RowsInOrder, MoreIsTrue, WholeUntilEnd, Whole,
     serverVars, history
<1> QED
  BY <1>6, <1>7, <1>8, <1>9 DEF PagingInv

\* The server answers with the page asked for.
LEMMA PageReadsStep ==
    ASSUME PagingInv, NEW f \in flights, PageReads(f)
    PROVE  PagingInv'
<1> DEFINE g == [f EXCEPT !.rows = Page(f.q, f.offset),
                          !.more = HasMore(f.q, f.offset),
                          !.exact = Exact(f.q),
                          !.capped = Approximate(f.q)]
<1>1. PagingTypes /\ f \in Flights
  BY DEF PagingInv, PagingTypes
<1>2. f.q \in Query /\ f.offset \in Nat
  BY <1>1 DEF Flights
<1>3. Page(f.q, f.offset) \in Rows /\ HasMore(f.q, f.offset) \in BOOLEAN
      /\ Exact(f.q) \in BOOLEAN /\ Approximate(f.q) \in BOOLEAN
  BY <1>1, <1>2, PageIsRows DEF Exact, Approximate
<1>4. g \in Flights
  BY <1>1, <1>3 DEF Flights
<1>5. g.q = f.q /\ g.offset = f.offset /\ g.own = f.own /\ g.fresh = f.fresh
      /\ g.rows = Page(f.q, f.offset) /\ g.more = HasMore(f.q, f.offset)
      /\ g.exact = Exact(f.q) /\ g.capped = Approximate(f.q)
  BY <1>1 DEF Flights
<1>6. flights' = (flights \ {f}) \cup {g}
      /\ UNCHANGED <<items, born, list, loading, history>>
      /\ Counted(f.q)
  BY DEF PageReads
<1> HIDE DEF g
<1>7. Counts(f.q) \in Nat
  BY <1>1, <1>2, CountsIsNat
<1>8. count' \in [Address -> Nat \cup {None}]
  BY <1>1, <1>6, <1>7 DEF Counted, PagingTypes
<1>9. PagingTypes'
  BY <1>1, <1>4, <1>6, <1>8 DEF PagingTypes, history
<1>10. LoadingEnds' /\ OneOwnFlight'
  BY <1>5, <1>6 DEF PagingInv, LoadingEnds, OneOwnFlight
<1>11. RowsInOrder' /\ MoreIsTrue' /\ WholeUntilEnd'
  BY <1>6 DEF PagingInv, RowsInOrder, MoreIsTrue, WholeUntilEnd, Whole, history
<1>12. Answered(g)
  BY <1>5, HasMoreSays DEF Answered
<1>13. \A h : Answered(h)' <=> Answered(h)
  BY <1>6 DEF Answered, Says, Page, PageEnd
<1>14. FreshContinues'
  BY <1>5, <1>6, <1>12, <1>13 DEF PagingInv, FreshContinues, history
<1> QED
  BY <1>9, <1>10, <1>11, <1>14 DEF PagingInv

\* A page that arrives or fails releases the button if it is the component's,
\* and leaves no other page of the component's under way.
LEMMA FlightOver ==
    ASSUME PagingInv, NEW f \in flights, flights' = flights \ {f},
           loading' = (loading /\ ~ f.own)
    PROVE  /\ LoadingEnds' /\ OneOwnFlight' /\ flights' \subseteq Flights
           /\ f.fresh => \A g \in flights' : ~ g.fresh
<1>1. OneOwnFlight'
  BY DEF PagingInv, OneOwnFlight
<1>2. LoadingEnds'
  BY DEF PagingInv, LoadingEnds, OneOwnFlight
<1>3. f.fresh => \A g \in flights' : ~ g.fresh
  BY DEF PagingInv, FreshContinues, OneOwnFlight
<1> QED
  BY <1>1, <1>2, <1>3 DEF PagingInv, PagingTypes

\* The page the list on screen asked for makes it longer, in order.
LEMMA AppendInOrder ==
    ASSUME PagingInv, NEW f \in flights, f.rows # None, f.fresh,
           list # None, ~ moved, ~ crossed
    PROVE  /\ IsPrefix(list.rows \o f.rows, items[list.q])
           /\ Whole(Len(list.rows \o f.rows), list.q)
           /\ f.exact =>
                /\ Len(list.rows \o f.rows) < Len(items[list.q]) => f.more
                /\ f.more =>
                      \/ Len(list.rows \o f.rows) < Len(items[list.q])
                      \/ f.capped /\ WholePages(Len(list.rows \o f.rows))
<1>1. f \in Flights /\ list \in List
  BY DEF PagingInv, PagingTypes
<1>2. f.q = list.q /\ f.offset = Len(list.rows)
      /\ f.rows = Page(f.q, f.offset)
      /\ Says(f.more, f.exact, f.capped, f.offset, Len(f.rows), f.q)
  BY DEF PagingInv, FreshContinues, Answered
<1>3. list.rows \in Seq(Item) /\ f.rows \in Seq(Item) /\ f.offset \in Nat
      /\ list.q \in Query /\ items[list.q] \in Seq(Item)
  BY <1>1 DEF Flights, List, Rows, PagingInv, PagingTypes
<1>4. IsPrefix(list.rows, items[list.q])
  BY <1>1 DEF PagingInv, RowsInOrder
<1>5. Len(list.rows) <= Len(items[list.q])
  BY <1>4 DEF IsPrefix
<1>6. Len(list.rows) + Len(f.rows) <= Len(items[list.q])
      /\ \A i \in 1 .. Len(f.rows) :
             f.rows[i] = items[list.q][Len(list.rows) + i]
  <2>1. PagingTypes /\ f.offset <= Len(items[list.q])
    BY <1>2, <1>5 DEF PagingInv
  <2>2. /\ f.offset + Len(Page(list.q, f.offset)) <= Len(items[list.q])
        /\ \A i \in 1 .. Len(Page(list.q, f.offset)) :
               Page(list.q, f.offset)[i] = items[list.q][f.offset + i]
    BY <1>3, <2>1, PageFollows
  <2>3. f.rows = Page(list.q, f.offset) /\ Len(list.rows) = f.offset
    BY <1>2
  <2> QED
    BY <2>2, <2>3
<1>7. IsPrefix(list.rows \o f.rows, items[list.q])
  BY <1>3, <1>4, <1>6, PrefixGrows
<1>8. Len(list.rows \o f.rows) = Len(list.rows) + Len(f.rows)
  BY <1>3, ConcatProperties
<1>9. Whole(f.offset, f.q) /\ f.offset <= Len(items[f.q])
  BY <1>2, <1>5 DEF PagingInv, WholeUntilEnd
<1>10. Whole(Len(list.rows \o f.rows), list.q)
  BY <1>2, <1>3, <1>8, <1>9, WholeAfterPage DEF PagingInv
<1>11. ASSUME f.exact
       PROVE  /\ Len(list.rows \o f.rows) < Len(items[list.q]) => f.more
              /\ f.more =>
                    \/ Len(list.rows \o f.rows) < Len(items[list.q])
                    \/ f.capped /\ WholePages(Len(list.rows \o f.rows))
  <2>1. f.more \in BOOLEAN /\ f.capped \in BOOLEAN
    BY <1>1 DEF Flights
  <2>2. Says(f.more, TRUE, f.capped, f.offset, Len(Page(f.q, f.offset)), f.q)
    BY <1>2, <1>11 DEF Says
  <2> QED
    BY <1>2, <1>3, <1>8, <1>9, <2>1, <2>2, MoreOfPage DEF PagingInv
<1> QED
  BY <1>7, <1>10, <1>11

LEMMA PageArrivesStep ==
    ASSUME PagingInv, NEW f \in flights, PageArrives(f)
    PROVE  PagingInv'
<1>1. PagingTypes /\ f \in Flights /\ f.rows # None
  BY DEF PagingInv, PagingTypes, PageArrives
<1>2. flights' = flights \ {f} /\ loading' = (loading /\ ~ f.own)
      /\ UNCHANGED <<serverVars, moved>>
  BY DEF PageArrives
<1>3. LoadingEnds' /\ OneOwnFlight' /\ flights' \subseteq Flights
      /\ (f.fresh => \A g \in flights' : ~ g.fresh)
  BY <1>2, FlightOver
<1>4. \A g : Answered(g)' <=> Answered(g)
  BY <1>2 DEF Answered, Says, Page, PageEnd, serverVars
<1>5. CASE ~ Appends(f)
  <2>1. UNCHANGED <<list, crossed, miscounted, capped>>
    BY <1>5 DEF PageArrives
  <2>2. PagingTypes'
    BY <1>1, <1>2, <1>3, <2>1 DEF PagingTypes, serverVars
  <2>3. FreshContinues'
    BY <1>2, <1>4, <2>1 DEF PagingInv, FreshContinues
  <2>4. RowsInOrder' /\ MoreIsTrue' /\ WholeUntilEnd'
    BY <1>2, <2>1 DEF PagingInv, RowsInOrder, MoreIsTrue, WholeUntilEnd,
       Whole, serverVars
  <2> QED
    BY <1>3, <2>2, <2>3, <2>4 DEF PagingInv
<1>6. CASE Appends(f)
  <2>1. list # None /\ list.q = f.q /\ list \in List
    BY <1>1, <1>6 DEF Appends, PagingTypes
  <2>2. list' = [list EXCEPT !.rows = @ \o f.rows, !.more = f.more]
        /\ crossed' = (crossed \/ ~ f.fresh) /\ miscounted' = ~ f.exact
        /\ capped' = f.capped
    BY <1>6, <2>1 DEF PageArrives
  <2>3. list.rows \in Seq(Item) /\ f.rows \in Seq(Item)
        /\ f.more \in BOOLEAN /\ f.exact \in BOOLEAN
        /\ f.fresh \in BOOLEAN /\ f.capped \in BOOLEAN
    BY <1>1, <2>1 DEF List, Flights, Rows
  <2>4. list.rows \o f.rows \in Rows
    BY <2>3, ConcatProperties DEF Rows
  <2>5. list' \in List /\ list'.q = list.q
        /\ list'.rows = list.rows \o f.rows /\ list'.more = f.more
    BY <2>1, <2>2, <2>3, <2>4 DEF List
  <2>6. PagingTypes'
    BY <1>1, <1>2, <1>3, <2>2, <2>3, <2>5 DEF PagingTypes, serverVars
  <2>7. items' = items
    BY <1>2 DEF serverVars
  <2>8. RowsInOrder' /\ MoreIsTrue' /\ WholeUntilEnd'
    <3>1. ASSUME ~ moved', ~ crossed'
          PROVE  /\ IsPrefix(list'.rows, items'[list'.q])
                 /\ Whole(Len(list'.rows), list'.q)
                 /\ ~ miscounted' =>
                      /\ Len(list'.rows) < Len(items'[list'.q]) => list'.more
                      /\ list'.more =>
                            \/ Len(list'.rows) < Len(items'[list'.q])
                            \/ capped' /\ WholePages(Len(list'.rows))
      <4>1. f.fresh /\ ~ moved /\ ~ crossed
        BY <1>2, <2>2, <3>1
      <4> QED
        BY <1>1, <2>1, <2>2, <2>5, <2>7, <4>1, AppendInOrder
    <3> QED
      BY <2>7, <3>1
         DEF RowsInOrder, MoreIsTrue, WholeUntilEnd, Whole, WholePages
  <2>9. FreshContinues'
    <3>1. SUFFICES ASSUME NEW g \in flights', g.fresh
          PROVE  /\ g.own /\ g.q = list'.q
                 /\ ~ crossed' => g.offset = Len(list'.rows)
                 /\ ~ moved' => Answered(g)'
      BY DEF FreshContinues
    <3>2. g \in flights /\ ~ f.fresh
      BY <1>2, <1>3, <3>1
    <3>3. g.own /\ g.q = list.q /\ (~ moved => Answered(g))
      BY <2>1, <3>1, <3>2 DEF PagingInv, FreshContinues
    <3> QED
      BY <1>2, <1>4, <2>1, <2>2, <2>5, <3>2, <3>3
  <2> QED
    BY <1>3, <2>6, <2>8, <2>9 DEF PagingInv
<1> QED
  BY <1>5, <1>6

\* The list stays as it is.
LEMMA PageFailsStep ==
    ASSUME PagingInv, NEW f \in flights, PageFails(f)
    PROVE  PagingInv'
<1>1. flights' = flights \ {f} /\ loading' = (loading /\ ~ f.own)
      /\ UNCHANGED <<serverVars, list, history>>
  BY DEF PageFails
<1>2. LoadingEnds' /\ OneOwnFlight' /\ flights' \subseteq Flights
  BY <1>1, FlightOver
<1>3. PagingTypes'
  BY <1>1, <1>2 DEF PagingInv, PagingTypes, serverVars, history
<1>4. FreshContinues'
  BY <1>1 DEF PagingInv, FreshContinues, Answered, Says, Page, PageEnd,
     serverVars, history
<1>5. RowsInOrder' /\ MoreIsTrue' /\ WholeUntilEnd'
  BY <1>1 DEF PagingInv, RowsInOrder, MoreIsTrue, WholeUntilEnd, Whole,
     serverVars, history
<1> QED
  BY <1>2, <1>3, <1>4, <1>5 DEF PagingInv

LEMMA PagingInit ==
    ASSUME Init
    PROVE  PagingInv
<1>1. \A q \in Block : [i \in 1 .. BlockSize |-> <<q, i>>] \in Rows
  <2>1. SUFFICES ASSUME NEW q \in Block
        PROVE  [i \in 1 .. BlockSize |-> <<q, i>>] \in Seq(Item)
    BY DEF Rows
  <2>2. BlockSize \in Nat /\ \A i \in 1 .. BlockSize : <<q, i>> \in Item
    BY PagingAssumption DEF PagingAssumption, Item, Query
  <2> QED
    BY <2>2, IsASeq
<1>2. <<>> \in Rows
  BY DEF Rows
<1>3. items \in [Query -> Rows]
  BY <1>1, <1>2 DEF Init
<1>4. PagingTypes
  BY <1>3 DEF Init, PagingTypes
<1> QED
  BY <1>4 DEF Init, PagingInv, LoadingEnds, OneOwnFlight, FreshContinues,
     RowsInOrder, MoreIsTrue, WholeUntilEnd

LEMMA PagingStep ==
    ASSUME PagingInv, [Next]_vars
    PROVE  PagingInv'
<1>1. ASSUME NEW q \in Address, Grow(q) \/ Evict(q) \/ Expire(q)
      PROVE  PagingInv'
  BY <1>1, ServerStep
<1>2. ASSUME NEW q \in Query, Open(q)
      PROVE  PagingInv'
  BY <1>2, ShowStep DEF Open
<1>3. ASSUME NEW q \in Block, NextBlock(q)
      PROVE  PagingInv'
  BY <1>3, ShowStep DEF NextBlock, Query
<1>4. ASSUME NEW f \in flights, PageReads(f) \/ PageArrives(f) \/ PageFails(f)
      PROVE  PagingInv'
  BY <1>4, PageReadsStep, PageArrivesStep, PageFailsStep
<1>5. CASE UNCHANGED vars
  BY <1>5 DEF vars, serverVars, history, PagingInv, PagingTypes, LoadingEnds,
     OneOwnFlight, FreshContinues, Answered, Says, Page, PageEnd, RowsInOrder,
     MoreIsTrue, WholeUntilEnd, Whole
<1> QED
  BY <1>1, <1>2, <1>3, <1>4, <1>5, LeaveStep, LoadMoreStep DEF Next

LEMMA PagingInductive ==
    Spec => []PagingInv
BY PagingInit, PagingStep, PTL DEF Spec

-----------------------------------------------------------------------------
\* The rows on screen are the list's first, in order, as long as its items
\* stand still and no page of an earlier showing came in between.
THEOREM PagingInOrder ==
    Spec => []RowsInOrder
<1>1. PagingInv => RowsInOrder
  BY DEF PagingInv
<1> QED
  BY <1>1, PagingInductive, PTL

\* Then, too, the button for more is never missing while there is more, and
\* there with nothing left only at the end of a history of whole pages that
\* was not counted to its end; unless the count behind it was out of date.
THEOREM PagingMore ==
    Spec => []MoreIsTrue
<1>1. PagingInv => MoreIsTrue
  BY DEF PagingInv
<1> QED
  BY <1>1, PagingInductive, PTL

\* The button never stays disabled without a page under way.
THEOREM PagingLoads ==
    Spec => []LoadingEnds
<1>1. PagingInv => LoadingEnds
  BY DEF PagingInv
<1> QED
  BY <1>1, PagingInductive, PTL
=============================================================================
